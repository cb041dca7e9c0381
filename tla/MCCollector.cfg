\* One disk, two interfaces of which one passes the filter, two mount points,
\* four thermal zones.
SPECIFICATION Spec
CHECK_DEADLOCK FALSE
CONSTANTS
    Disks = {sda}
    sda = sda
    eth0 = eth0
    wlan0 = wlan0
    Ifaces = {eth0, wlan0}
    IoDisks = {sda}
    Filter = {eth0}
    pkg = pkg
    acpi = acpi
    root = root
    data = data
    MountPoints <- MCMountPoints
    ZoneWords = {pkg, acpi}
    ZoneTypes <- MCZoneTypes
    Groups <- MCGroups
    None = None
    Width = 16
    MaxTicks = 3
    MaxEvents = 3
INVARIANTS OneSamplePerStream
PROPERTIES DeltasAreGrowth PercentInRange
