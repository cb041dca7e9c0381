----------------------------- MODULE Collector -----------------------------
(***************************************************************************)
(* The collector of OS metrics (src/src/metrics/collector.rs).  The kernel *)
(* counts; a tick reads /proc and /sys and turns the readings into         *)
(* samples: growth since the last reading for disks and interfaces, shares *)
(* in percent for processor, disk and memory, plain values for the rest.   *)
(* Devices come and go, their counters then restart, a file may be         *)
(* unreadable for a while, and time may not have advanced between ticks.   *)
(*                                                                         *)
(* A device has one counter whose growth is sent, for the four of a disk   *)
(* and the two of an interface, which the code treats alike.  A percentage *)
(* is kept as a fraction <<part, whole>>.  Counters are u64: a subtraction *)
(* wraps unless it saturates.                                              *)
(***************************************************************************)
EXTENDS Integers, Sequences, FiniteSets, TLC

CONSTANTS
    Disks, Ifaces,
    IoDisks,    (* disks whose line shows the time spent on I/O            *)
    Filter,     (* network.interfaces of the configuration; {} for all     *)
    MountPoints, (* disk.mount_points of the configuration, in order; one  *)
                (* may be listed twice                                     *)
    ZoneWords,  (* what names of thermal types are made of                 *)
    ZoneTypes,  (* the thermal zones in directory order: their types, each *)
                (* a sequence of words and numbers, as in pkg_0            *)
    Groups,     (* enabled groups of metrics                               *)
    None,       (* no previous reading                                     *)
    Width,      (* bits of a counter, 64 in the code                       *)
    MaxTicks,   (* bound: ticks                                            *)
    MaxEvents   (* bound: steps of the kernel                              *)

Devices == Disks \cup Ifaces
Mounts  == {MountPoints[i] : i \in DOMAIN MountPoints}
Zones   == DOMAIN ZoneTypes

(* What is read: files, and each mount point with statvfs.                 *)
Files   == {"stat", "diskstats", "netdev", "meminfo", "loadavg", "filenr"} \cup Mounts

(* What has a size and a part of it that is free.                          *)
Pools   == {<<"mem">>, <<"swap">>} \cup ({"space", "inodes"} \X Mounts)

ASSUME CollectorAssumption ==
    /\ Disks \cap Ifaces = {} /\ IoDisks \subseteq Disks
    /\ Filter \subseteq Ifaces
    /\ Groups \subseteq {"cpu", "memory", "disk", "network", "system"}
    /\ {Width, MaxTicks, MaxEvents} \subseteq Nat

ASSUME ZoneAssumption == ZoneTypes \in Seq(Seq(ZoneWords \cup Nat))

(* No counter of the kernel reaches its width.                             *)
ASSUME WidthAssumption == 2 ^ Width \in Nat /\ 2 * MaxEvents + 3 < 2 ^ Width

VARIABLES
    cpu,        (* the cpu line of /proc/stat: busy, idle, iowait, and the *)
                (* part of busy that was spent in guests                   *)
    device,     (* present devices -> their counters                       *)
    pool,       (* memory, swap, and the space and inodes of a mount:      *)
                (* total and free                                          *)
    quiet,      (* zones whose temperature cannot be read now              *)
    unreadable, (* files that cannot be read now                           *)
    clock,      (* Instant::now                                            *)
    prevCpu, prevDisk, prevDiskTime, prevNet,  (* fields of Collector      *)
    samples,    (* what the last tick returned                             *)
    events, ticks,
    growth,     (* history: device -> true growth since it was last read   *)
    restarted,  (* history: devices that came back since they were read    *)
    seen,       (* history: devices read in the last tick                  *)
    worked      (* history: busy, guest and total time since /proc/stat    *)
                (* was read, and whether a counter of it went back         *)

kernel    == <<cpu, device, pool, quiet, unreadable, clock>>
collector == <<prevCpu, prevDisk, prevDiskTime, prevNet, samples, ticks>>
history   == <<growth, restarted, seen, worked>>
vars      == <<kernel, collector, events, history>>

(* The subtraction of u64, and saturating_sub.                             *)
Minus(a, b)    == (a - b) % (2 ^ Width)
SatMinus(a, b) == IF a > b THEN a - b ELSE 0

(* nth tells what a sample was made from where the code loops over a list. *)
Sample(name, label, value, kind) ==
    [name |-> name, label |-> label, value |-> value, kind |-> kind, nth |-> 0]

Nth(i, set) == {[x EXCEPT !.nth = i] : x \in set}

-----------------------------------------------------------------------------
(* The groups of samples of one tick.                                      *)

(* read_cpu_ticks: the total is the sum of all fields, which has the time  *)
(* of guests twice, since user contains it; iowait counts as idle.         *)
CpuTicks == [total |-> cpu.busy + cpu.guest + cpu.idle + cpu.iowait,
             idle  |-> cpu.idle + cpu.iowait]

(* A fault: the difference of the idle time wraps.                         *)
CpuSamplesWrap ==
    IF "stat" \in unreadable \/ prevCpu = None THEN {}
    ELSE LET total == SatMinus(CpuTicks.total, prevCpu.total)
             idle  == Minus(CpuTicks.idle, prevCpu.idle)
         IN  {Sample("cpu_utilization_percent", <<>>, <<Minus(total, idle), total>>, "aggregated") :
                 x \in {y \in {total} : y > 0}}

CpuSamples ==
    IF "stat" \in unreadable \/ prevCpu = None THEN {}
    ELSE LET total == SatMinus(CpuTicks.total, prevCpu.total)
             idle  == SatMinus(CpuTicks.idle, prevCpu.idle)
         IN  {Sample("cpu_utilization_percent", <<>>, <<Minus(total, idle), total>>, "aggregated") :
                 x \in {y \in {total} : y > 0}}

LoadSamples ==
    {Sample(n, <<>>, 0, "aggregated") :
        n \in {m \in {"cpu_load_avg_1m", "cpu_load_avg_5m", "cpu_load_avg_15m"} :
                  "loadavg" \notin unreadable}}

(* The zones that can be read; they are numbered in directory order.       *)
ReadZones == Zones \ quiet

SameType(z) == {y \in ReadZones : ZoneTypes[y] = ZoneTypes[z]}

(* A fault: the index is left out.                                         *)
PlainLabel(z) == ZoneTypes[z]

(* A type that occurs more than once gets a 0-based index.                 *)
ZoneLabel(z) ==
    IF Cardinality(SameType(z)) = 1 THEN ZoneTypes[z]
    ELSE Append(ZoneTypes[z], Cardinality({y \in SameType(z) : y < z}))

ThermalSamples ==
    UNION {Nth(z, {Sample("cpu_temperature", ZoneLabel(z), 0, "aggregated")}) : z \in ReadZones}

(* The share in use of a pool; a pool of size 0 has none.                  *)
UsedPercent(name, label, p) ==
    {Sample(name, label, <<Minus(pool[q].total, pool[q].free), pool[q].total>>, "aggregated") :
        q \in {r \in {p} : pool[r].total > 0}}

MemorySamples ==
    IF "meminfo" \in unreadable THEN {}
    ELSE {Sample("mem_available_bytes", <<>>, pool[<<"mem">>].free, "aggregated")}
         \cup UsedPercent("mem_used_percent", <<>>, <<"mem">>)
         \cup UsedPercent("swap_used_percent", <<>>, <<"swap">>)

MountSamples(m) ==
    IF m \in unreadable THEN {}
    ELSE {Sample("disk_free_bytes", m, pool[<<"space", m>>].free, "aggregated")}
         \cup UsedPercent("disk_used_percent", m, <<"space", m>>)
         \cup UsedPercent("disk_inodes_used_percent", m, <<"inodes", m>>)

SpaceSamples == UNION {Nth(i, MountSamples(MountPoints[i])) : i \in DOMAIN MountPoints}

(* read_diskstats and read_net_dev: an unreadable file is an empty map.    *)
ReadDevices(class, file) ==
    [d \in {e \in DOMAIN device \cap class : file \notin unreadable} |-> device[d]]
ReadDiskstats == ReadDevices(Disks, "diskstats")
ReadNetDev    == ReadDevices(Ifaces, "netdev")

Delta(curr, prev, d) == SatMinus(curr[d].count, prev[d].count)

DiskSamples ==
    LET curr    == ReadDiskstats
        known   == DOMAIN curr \cap DOMAIN prevDisk
        elapsed == IF prevDiskTime = None THEN 0 ELSE clock - prevDiskTime
        busy(d) == SatMinus(curr[d].aux, prevDisk[d].aux)
    IN  {Sample("disk_delta", d, Delta(curr, prevDisk, d), "aggregated") : d \in known}
        \cup {Sample("disk_io_util_percent", d,
                     IF busy(d) > elapsed THEN <<1, 1>> ELSE <<busy(d), elapsed>>, "aggregated") :
                 d \in {e \in known \cap IoDisks : elapsed > 0}}

NetworkSamples ==
    LET curr   == ReadNetDev
        passed == {i \in DOMAIN curr : Filter = {} \/ i \in Filter}
    IN  {Sample("network_delta", i, Delta(curr, prevNet, i), "aggregated") :
            i \in passed \cap DOMAIN prevNet}
        \cup {Sample("net_errors", i, curr[i].aux, "counter") : i \in passed}

SystemSamples ==
    {Sample(n, <<>>, 0, "aggregated") :
        n \in {m \in {"process_count"} : "loadavg" \notin unreadable}}
    \cup {Sample(n, <<>>, 0, "gauge") :
             n \in {m \in {"fd_used", "fd_max"} : "filenr" \notin unreadable}}

(* A fault: only devices that were not known are added.                    *)
KeepFirst(prev, curr) == prev @@ curr

(* The reading replaces the previous one, an empty one as well.            *)
Replace(prev, curr) == curr

If(g, x) == IF g \in Groups THEN x ELSE {}

-----------------------------------------------------------------------------
NewDevice(n) == [count |-> n, aux |-> 0]

(* Collector::new, in a system that has been up for a while.               *)
Init ==
    /\ cpu = [busy |-> 1, guest |-> 0, idle |-> 1, iowait |-> 1]
    /\ device = [d \in Devices |-> NewDevice(1)]
    /\ pool = [p \in Pools |-> IF p = <<"swap">> THEN [total |-> 0, free |-> 0]
                               ELSE [total |-> 2, free |-> 1]]
    /\ quiet = {} /\ unreadable = {} /\ clock = 0
    /\ prevCpu = None /\ prevDiskTime = None
    /\ prevDisk = <<>> /\ prevNet = <<>>
    /\ samples = {} /\ events = 0 /\ ticks = 0
    /\ growth = [d \in Devices |-> 0] /\ restarted = {} /\ seen = {}
    /\ worked = [busy |-> 0, guest |-> 0, total |-> 0, back |-> FALSE]

Event ==
    /\ events < MaxEvents
    /\ events' = events + 1
    /\ UNCHANGED collector

(* Time on the processor.  The time spent waiting for I/O is an estimate   *)
(* that the kernel may take back; the other counters only grow.  b is busy *)
(* time, g the part of it in a guest.                                      *)
ProcessorRuns ==
    /\ Event
    /\ \E b, g, i, w \in -1 .. 1 :
         /\ b >= 0 /\ i >= 0 /\ g \in 0 .. b
         /\ b + i + w \in {0, 1} /\ {b, i, w} # {0}
         /\ cpu.iowait + w >= 0
         /\ cpu' = [busy |-> cpu.busy + b, guest |-> cpu.guest + g,
                    idle |-> cpu.idle + i, iowait |-> cpu.iowait + w]
         /\ worked' = [busy |-> worked.busy + b, guest |-> worked.guest + g,
                       total |-> worked.total + b + i + w, back |-> worked.back \/ w < 0]
    /\ UNCHANGED <<device, pool, quiet, unreadable, clock, growth, restarted, seen>>

(* n is the growth of the counter, m that of the time on I/O or of the     *)
(* errors.                                                                 *)
DeviceWorks(d) ==
    /\ Event
    /\ d \in DOMAIN device
    /\ \E n \in 1 .. 2, m \in {0, 2} :
         /\ device' = [device EXCEPT ![d] = [count |-> @.count + n, aux |-> @.aux + m]]
         /\ growth' = [growth EXCEPT ![d] = @ + n]
    /\ UNCHANGED <<cpu, pool, quiet, unreadable, clock, restarted, seen, worked>>

Unplug(d) ==
    /\ Event
    /\ d \in DOMAIN device
    /\ device' = [e \in DOMAIN device \ {d} |-> device[e]]
    /\ UNCHANGED <<cpu, pool, quiet, unreadable, clock, history>>

(* A device that comes back has counters of its own.                       *)
Plug(d) ==
    /\ Event
    /\ d \in Devices \ DOMAIN device
    /\ device' = [e \in DOMAIN device \cup {d} |-> IF e = d THEN NewDevice(0) ELSE device[e]]
    /\ restarted' = restarted \cup {d}
    /\ UNCHANGED <<cpu, pool, quiet, unreadable, clock, growth, seen, worked>>

(* Memory, swap or a file system is filled, emptied, added or removed.     *)
PoolChanges ==
    /\ Event
    /\ \E p \in Pools, t \in {0, 2} : \E f \in {0, t} :
         pool' = [pool EXCEPT ![p] = [total |-> t, free |-> f]]
    /\ UNCHANGED <<cpu, device, quiet, unreadable, clock, history>>

(* A file, or the temperature of a zone, becomes unreadable or readable.   *)
ReadabilityChanges ==
    /\ Event
    /\ \/ \E f \in Files : /\ unreadable' = (unreadable \ {f}) \cup ({f} \ unreadable)
                           /\ UNCHANGED quiet
       \/ \E z \in Zones : /\ quiet' = (quiet \ {z}) \cup ({z} \ quiet)
                           /\ UNCHANGED unreadable
    /\ UNCHANGED <<cpu, device, pool, clock, history>>

TimePasses ==
    /\ Event
    /\ clock' = clock + 1
    /\ UNCHANGED <<cpu, device, pool, quiet, unreadable, history>>

(* collect: a tick of the metrics task.                                    *)
Collect ==
    /\ ticks < MaxTicks
    /\ ticks' = ticks + 1
    /\ samples' = If("cpu", CpuSamples \cup LoadSamples \cup ThermalSamples)
                  \cup If("memory", MemorySamples)
                  \cup If("disk", DiskSamples \cup SpaceSamples)
                  \cup If("network", NetworkSamples)
                  \cup If("system", SystemSamples)
    /\ prevCpu' = IF "cpu" \in Groups /\ "stat" \notin unreadable THEN CpuTicks ELSE prevCpu
    /\ prevDisk' = IF "disk" \in Groups THEN Replace(prevDisk, ReadDiskstats) ELSE prevDisk
    /\ prevDiskTime' = IF "disk" \in Groups THEN clock ELSE prevDiskTime
    /\ prevNet' = IF "network" \in Groups THEN Replace(prevNet, ReadNetDev) ELSE prevNet
    /\ seen' = DOMAIN ReadDiskstats \cup DOMAIN ReadNetDev
    /\ growth' = [d \in Devices |-> IF d \in seen' THEN 0 ELSE growth[d]]
    /\ restarted' = restarted \ seen'
    /\ worked' = IF "stat" \in unreadable THEN worked
                 ELSE [busy |-> 0, guest |-> 0, total |-> 0, back |-> FALSE]
    /\ UNCHANGED <<kernel, events>>

Next ==
    \/ Collect
    \/ ProcessorRuns
    \/ \E d \in Devices : DeviceWorks(d) \/ Unplug(d) \/ Plug(d)
    \/ PoolChanges
    \/ ReadabilityChanges
    \/ TimePasses

Spec == Init /\ [][Next]_vars

-----------------------------------------------------------------------------
DeltaOf(d) == {x.value : x \in {y \in samples : y.label = d
                                    /\ y.name \in {"disk_delta", "network_delta"}}}

Reported(d) == IF d \in Disks THEN "disk" \in Groups
               ELSE "network" \in Groups /\ (Filter = {} \/ d \in Filter)

(* What a tick sends for a disk or an interface is what its counter truly  *)
(* grew by since the collector last read it, and never more, though it was *)
(* unplugged, came back with counters that restarted, or was missed by a   *)
(* tick; a device read by two ticks in a row is never left out.            *)
DeltasAreGrowth ==
    [][ticks' > ticks =>
         \A d \in Devices :
            /\ \A n \in DeltaOf(d)' : n <= growth[d]
            /\ (d \in (seen \cap seen') \ restarted /\ Reported(d)) => DeltaOf(d)' = {growth[d]}]_vars

(* Every percentage is a fraction of something, between 0 and 100, though  *)
(* the time waiting for I/O was taken back, two ticks fell on the same     *)
(* instant, the I/O time outgrew the clock or there is no swap; and the    *)
(* processor's is the busy share of all time since the last reading that   *)
(* succeeded, with the time of guests counted twice in both, as the code   *)
(* sums it, unless time was taken back.                                    *)
PercentInRange ==
    [][ticks' > ticks =>
         \A x \in samples' :
            x.name \in {"cpu_utilization_percent", "disk_io_util_percent", "mem_used_percent",
                        "swap_used_percent", "disk_used_percent", "disk_inodes_used_percent"} =>
              /\ 0 <= x.value[1] /\ x.value[1] <= x.value[2] /\ 0 < x.value[2]
              /\ (x.name = "cpu_utilization_percent" /\ ~worked.back) =>
                    x.value = <<worked.busy + worked.guest, worked.total + worked.guest>>]_vars

(* A type that reads as another zone's type with an index appended.        *)
Indexed(s, t) == \E i \in 0 .. Len(ZoneTypes) : s = Append(t, i)

(* Samples of one mount point that the configuration lists more than once, *)
(* or of two zones of which one is named like an index of the other.       *)
Twins(x, y) ==
    \/ /\ x.name \in {"disk_free_bytes", "disk_used_percent", "disk_inodes_used_percent"}
       /\ x.nth # y.nth /\ MountPoints[x.nth] = MountPoints[y.nth]
    \/ /\ x.name = "cpu_temperature"
       /\ \/ Indexed(ZoneTypes[x.nth], ZoneTypes[y.nth])
          \/ Indexed(ZoneTypes[y.nth], ZoneTypes[x.nth])

(* A tick has one sample for each stream of the aggregator, also when      *)
(* several thermal zones have the same type and some cannot be read.  Two  *)
(* come only from a configuration that lists a mount point twice, or from  *)
(* zones of different types one of which reads as an index of the other.   *)
OneSamplePerStream ==
    \A x, y \in samples : (x.name = y.name /\ x.label = y.label /\ x # y) => Twins(x, y)
=============================================================================
