---------------------------- MODULE MCCollector ----------------------------
(* Collector with one disk, two interfaces of which one is filtered out,   *)
(* two mount points of which one is listed twice, and four thermal zones:  *)
(* two of one type, and one whose type is that type with an index.         *)
EXTENDS Collector

CONSTANTS pkg, acpi, root, data

MCMountPoints == <<root, data, root>>
MCZoneTypes == << <<pkg>>, <<acpi>>, <<pkg>>, <<pkg, 0>> >>
MCGroups    == {"cpu", "memory", "disk", "network", "system"}
=============================================================================
