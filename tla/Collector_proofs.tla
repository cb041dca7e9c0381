------------------------- MODULE Collector_proofs -------------------------
(***************************************************************************)
(* For every set of devices, filter and choice of groups: what the         *)
(* collector sends is the true growth of a counter (DeltasAreGrowth).      *)
(* What a tick remembers of a device is either its counter less what it    *)
(* grew by since, or, if the device has restarted, the counter is at most  *)
(* what it grew by; the subtraction that saturates is right in both cases. *)
(* A tick has one sample for each stream (OneSamplePerStream), and its     *)
(* percentages are percentages (PercentInRange).                           *)
(***************************************************************************)
EXTENDS Collector, FiniteSetTheorems, TLAPS

Counters == [count : Nat, aux : Nat]

TypesInv ==
    /\ DOMAIN device \subseteq Devices /\ device \in [DOMAIN device -> Counters]
    /\ DOMAIN prevDisk \subseteq Disks /\ prevDisk \in [DOMAIN prevDisk -> Counters]
    /\ DOMAIN prevNet \subseteq Ifaces /\ prevNet \in [DOMAIN prevNet -> Counters]
    /\ growth \in [Devices -> Nat] /\ ticks \in Nat

(* The previous reading has the devices of the last tick, if it is kept.   *)
SeenInv ==
    /\ DOMAIN prevDisk = IF "disk" \in Groups THEN seen \cap Disks ELSE {}
    /\ DOMAIN prevNet = IF "network" \in Groups THEN seen \cap Ifaces ELSE {}

(* How the counter of a device and its previous reading are related.       *)
Related(prev, d) ==
    IF d \in restarted THEN device[d].count <= growth[d]
    ELSE device[d].count = prev[d].count + growth[d]

GrowthInv ==
    /\ \A d \in DOMAIN device \cap DOMAIN prevDisk : Related(prevDisk, d)
    /\ \A d \in DOMAIN device \cap DOMAIN prevNet : Related(prevNet, d)

DInv == TypesInv /\ SeenInv /\ GrowthInv

(* Before the first tick nothing is remembered.                            *)
LEMMA DInvInit == Init => DInv
<1> SUFFICES ASSUME Init PROVE DInv
  OBVIOUS
<1>1. DOMAIN prevDisk = {} /\ DOMAIN prevNet = {} /\ seen = {}
  BY DEF Init
<1>2. DOMAIN device = Devices /\ device \in [Devices -> Counters]
  BY DEF Init, NewDevice, Counters
<1>3. prevDisk \in [DOMAIN prevDisk -> Counters] /\ prevNet \in [DOMAIN prevNet -> Counters]
  BY DEF Init
<1>4. growth \in [Devices -> Nat] /\ ticks \in Nat
  BY DEF Init
<1> QED
  BY <1>1, <1>2, <1>3, <1>4 DEF DInv, TypesInv, SeenInv, GrowthInv

(* What read_diskstats and read_net_dev return.                            *)
LEMMA Reading ==
    ASSUME TypesInv, NEW class \in {Disks, Ifaces}, NEW file
    PROVE  LET curr == ReadDevices(class, file)
           IN  /\ DOMAIN curr \subseteq class \cap DOMAIN device
               /\ curr \in [DOMAIN curr -> Counters]
               /\ \A d \in DOMAIN curr : curr[d] = device[d]
BY DEF ReadDevices, TypesInv

(* The devices a tick has read, one class at a time.                       *)
LEMMA ReadingsApart ==
    ASSUME TypesInv
    PROVE  /\ DOMAIN ReadDiskstats \subseteq Disks /\ DOMAIN ReadNetDev \subseteq Ifaces
           /\ (DOMAIN ReadDiskstats \cup DOMAIN ReadNetDev) \cap Disks = DOMAIN ReadDiskstats
           /\ (DOMAIN ReadDiskstats \cup DOMAIN ReadNetDev) \cap Ifaces = DOMAIN ReadNetDev
<1>1. DOMAIN ReadDiskstats \subseteq Disks /\ DOMAIN ReadNetDev \subseteq Ifaces
  BY Reading DEF ReadDiskstats, ReadNetDev
<1> QED
  BY <1>1, CollectorAssumption DEF CollectorAssumption

(* A device that works moves its counter and its growth alike.             *)
LEMMA WorkKeeps ==
    ASSUME DInv, NEW d \in Devices, DeviceWorks(d)
    PROVE  DInv'
<1> USE DEF DInv, TypesInv, DeviceWorks, Event, collector
<1>1. PICK n \in 1 .. 2, m \in {0, 2} :
         /\ device' = [device EXCEPT ![d] = [count |-> @.count + n, aux |-> @.aux + m]]
         /\ growth' = [growth EXCEPT ![d] = @ + n]
  OBVIOUS
<1>2. /\ DOMAIN device' = DOMAIN device /\ d \in DOMAIN device
      /\ device[d] \in Counters /\ growth[d] \in Nat
      /\ device'[d] = [count |-> device[d].count + n, aux |-> device[d].aux + m]
      /\ growth'[d] = growth[d] + n
      /\ \A e \in DOMAIN device \ {d} : device'[e] = device[e] /\ growth'[e] = growth[e]
  BY <1>1
<1>3. device'[d] \in Counters
  BY <1>2 DEF Counters
<1>4. device' \in [DOMAIN device' -> Counters] /\ growth' \in [Devices -> Nat]
  BY <1>1, <1>2, <1>3
<1>5. /\ \A e \in DOMAIN device \cap DOMAIN prevDisk : Related(prevDisk, e)'
      /\ \A e \in DOMAIN device \cap DOMAIN prevNet : Related(prevNet, e)'
  <2>1. ASSUME NEW p, NEW e \in DOMAIN device \cap DOMAIN p, p \in [DOMAIN p -> Counters],
               Related(p, e)
        PROVE  IF e \in restarted THEN device'[e].count <= growth'[e]
               ELSE device'[e].count = p[e].count + growth'[e]
    <3>1. CASE e = d
      <4>1. p[d] \in Counters
        BY <2>1, <3>1
      <4>2. device'[d].count = device[d].count + n
        BY <1>2
      <4>3. /\ p[d].count \in Nat /\ device[d].count \in Nat /\ n \in Nat
            /\ growth'[d] = growth[d] + n
        BY <4>1, <1>2 DEF Counters
      <4> QED
        BY <2>1, <3>1, <4>2, <4>3, <1>2 DEF Related
    <3>2. CASE e # d
      BY <2>1, <3>2, <1>2 DEF Related
    <3> QED
      BY <3>1, <3>2
  <2> QED
    BY <2>1 DEF Related, GrowthInv
<1> QED
  BY <1>2, <1>4, <1>5 DEF GrowthInv, SeenInv

(* A device that leaves, and one that comes back with counters of its own. *)
LEMMA PlugKeeps ==
    ASSUME DInv, NEW d \in Devices, Unplug(d) \/ Plug(d)
    PROVE  DInv'
<1> USE DEF DInv, TypesInv, Event, collector, history
<1>1. CASE Unplug(d)
  BY <1>1 DEF Unplug, SeenInv, GrowthInv, Related
<1>2. CASE Plug(d)
  <2> USE <1>2 DEF Plug
  <2>1. DOMAIN device' = DOMAIN device \cup {d} /\ d \notin DOMAIN device
    OBVIOUS
  <2>2. device'[d] = [count |-> 0, aux |-> 0] /\ \A e \in DOMAIN device : device'[e] = device[e]
    BY <2>1 DEF NewDevice
  <2>3. device' \in [DOMAIN device' -> Counters]
    BY <2>1, <2>2 DEF NewDevice, Counters
  <2>4. device'[d].count <= growth[d]
    BY <2>2
  <2>5. ASSUME NEW p, NEW e \in DOMAIN device' \cap DOMAIN p, e \in DOMAIN device => Related(p, e)
        PROVE  IF e \in restarted' THEN device'[e].count <= growth[e]
               ELSE device'[e].count = p[e].count + growth[e]
    <3>1. CASE e = d
      BY <3>1, <2>4
    <3>2. CASE e # d
      BY <3>2, <2>1, <2>2, <2>5 DEF Related
    <3> QED
      BY <3>1, <3>2
  <2> QED
    BY <2>1, <2>3, <2>5 DEF SeenInv, GrowthInv, Related
<1> QED
  BY <1>1, <1>2

(* A tick remembers what it has read, and its growth begins anew.          *)
LEMMA CollectKeeps ==
    ASSUME DInv, Collect
    PROVE  DInv'
<1> USE DEF DInv, Collect, Replace, kernel
<1>1. /\ ReadDiskstats \in [DOMAIN ReadDiskstats -> Counters]
      /\ ReadNetDev \in [DOMAIN ReadNetDev -> Counters]
      /\ \A d \in DOMAIN ReadDiskstats : ReadDiskstats[d] = device[d]
      /\ \A d \in DOMAIN ReadNetDev : ReadNetDev[d] = device[d]
  BY Reading DEF ReadDiskstats, ReadNetDev
<1>2. /\ DOMAIN prevDisk' = IF "disk" \in Groups THEN DOMAIN ReadDiskstats ELSE {}
      /\ DOMAIN prevNet' = IF "network" \in Groups THEN DOMAIN ReadNetDev ELSE {}
  BY DEF SeenInv
<1>3. TypesInv'
  <2>1. growth' \in [Devices -> Nat] /\ ticks' \in Nat
    BY DEF TypesInv
  <2>2. prevDisk' \in [DOMAIN prevDisk' -> Counters] /\ prevNet' \in [DOMAIN prevNet' -> Counters]
    BY <1>1 DEF TypesInv
  <2> QED
    BY <1>2, <2>1, <2>2, ReadingsApart DEF TypesInv
<1>4. SeenInv'
  BY <1>2, ReadingsApart DEF SeenInv
<1>5. ASSUME NEW p, NEW d \in DOMAIN p, p[d] = device[d], d \in seen', d \in DOMAIN device,
             DOMAIN device \subseteq Devices
      PROVE  d \notin restarted' /\ device[d].count = p[d].count + growth'[d]
  <2>1. device[d].count \in Nat /\ growth'[d] = 0 /\ d \notin restarted'
    BY <1>5 DEF TypesInv, Counters
  <2> QED
    BY <1>5, <2>1
<1>6. GrowthInv'
  <2>1. \A d \in DOMAIN device \cap DOMAIN prevDisk' : prevDisk'[d] = device[d] /\ d \in seen'
    BY <1>1, <1>2
  <2>2. \A d \in DOMAIN device \cap DOMAIN prevNet' : prevNet'[d] = device[d] /\ d \in seen'
    BY <1>1, <1>2
  <2>3. DOMAIN device \subseteq Devices /\ device' = device
    BY DEF TypesInv
  <2>4. \A d \in DOMAIN device \cap DOMAIN prevDisk' :
           d \notin restarted' /\ device[d].count = prevDisk'[d].count + growth'[d]
    BY <1>5, <2>1, <2>3
  <2>5. \A d \in DOMAIN device \cap DOMAIN prevNet' :
           d \notin restarted' /\ device[d].count = prevNet'[d].count + growth'[d]
    BY <1>5, <2>2, <2>3
  <2> QED
    BY <2>3, <2>4, <2>5 DEF GrowthInv, Related
<1> QED
  BY <1>3, <1>4, <1>6

(* Every step keeps the invariant.                                         *)
LEMMA DInvStep == DInv /\ [Next]_vars => DInv'
<1> SUFFICES ASSUME DInv, [Next]_vars PROVE DInv'
  OBVIOUS
<1>1. CASE Collect
  BY <1>1, CollectKeeps
<1>2. CASE ProcessorRuns
  BY <1>2 DEF ProcessorRuns, Event, collector, DInv, TypesInv, SeenInv, GrowthInv, Related
<1>3. CASE \E d \in Devices : DeviceWorks(d) \/ Unplug(d) \/ Plug(d)
  BY <1>3, WorkKeeps, PlugKeeps
<1>4. CASE PoolChanges \/ ReadabilityChanges \/ TimePasses
  BY <1>4 DEF PoolChanges, ReadabilityChanges, TimePasses, Event, collector, history,
              DInv, TypesInv, SeenInv, GrowthInv, Related
<1>5. CASE UNCHANGED vars
  BY <1>5 DEF vars, kernel, collector, history, DInv, TypesInv, SeenInv, GrowthInv, Related
<1> QED
  BY <1>1, <1>2, <1>3, <1>4, <1>5 DEF Next

(* The collector remembers of every device what its growth is counted      *)
(* from.                                                                   *)
THEOREM Remembered == Spec => []DInv
BY DInvInit, DInvStep, PTL DEF Spec

-----------------------------------------------------------------------------
DeltaNames == {"disk_delta", "network_delta"}
SpaceNames == {"disk_free_bytes", "disk_used_percent", "disk_inodes_used_percent"}

(* A sample of a temperature is that of a zone that can be read.           *)
LEMMA ThermalOfZone ==
    ASSUME NEW x \in ThermalSamples
    PROVE  /\ x.name = "cpu_temperature" /\ x.nth \in ReadZones
           /\ x.label = ZoneLabel(x.nth)
           /\ x = [Sample("cpu_temperature", ZoneLabel(x.nth), 0, "aggregated") EXCEPT !.nth = x.nth]
<1>1. PICK z \in ReadZones :
         x = [Sample("cpu_temperature", ZoneLabel(z), 0, "aggregated") EXCEPT !.nth = z]
  BY DEF ThermalSamples, Nth
<1>2. x.name = "cpu_temperature" /\ x.nth = z /\ x.label = ZoneLabel(z)
  BY <1>1 DEF Sample
<1> QED
  BY <1>1, <1>2

(* A sample of a file system is one of the mount point at its place.       *)
LEMMA SpaceOfMount ==
    ASSUME NEW x \in SpaceSamples
    PROVE  /\ x.name \in SpaceNames
           /\ x.nth \in DOMAIN MountPoints /\ x.label = MountPoints[x.nth]
           /\ \E s \in MountSamples(MountPoints[x.nth]) :
                 s.name = x.name /\ s.value = x.value /\ x = [s EXCEPT !.nth = x.nth]
<1>1. PICK i \in DOMAIN MountPoints : \E s \in MountSamples(MountPoints[i]) : x = [s EXCEPT !.nth = i]
  BY DEF SpaceSamples, Nth
<1>2. PICK s \in MountSamples(MountPoints[i]) : x = [s EXCEPT !.nth = i]
  BY <1>1
<1>3. /\ s.name \in SpaceNames /\ s.label = MountPoints[i]
      /\ s = [name |-> s.name, label |-> s.label, value |-> s.value, kind |-> s.kind, nth |-> s.nth]
  BY <1>2 DEF MountSamples, UsedPercent, SpaceNames, Sample
<1>4. x.name = s.name /\ x.nth = i /\ x.label = s.label /\ x.value = s.value
  <2>1. [s EXCEPT !.nth = i]
          = [name |-> s.name, label |-> s.label, value |-> s.value, kind |-> s.kind, nth |-> i]
    BY <1>3
  <2> QED
    BY <1>2, <2>1
<1>5. x.name \in SpaceNames /\ x.nth \in DOMAIN MountPoints /\ x.label = MountPoints[x.nth]
  BY <1>3, <1>4
<1>6. s \in MountSamples(MountPoints[x.nth]) /\ x = [s EXCEPT !.nth = x.nth]
  BY <1>2, <1>4
<1> QED
  BY <1>4, <1>5, <1>6

(* A mount point gives at most one sample of a name.                       *)
LEMMA MountSamplesApart ==
    ASSUME NEW m, NEW s \in MountSamples(m), NEW t \in MountSamples(m), s.name = t.name
    PROVE  s = t
BY DEF MountSamples, UsedPercent, Sample

(* The deltas in what collect returns are those of its disks and, if they  *)
(* pass the filter, of its interfaces.                                     *)
LEMMA DeltasOfTick ==
    ASSUME Collect, NEW d
    PROVE  DeltaOf(d)' =
             {Delta(ReadDiskstats, prevDisk, e) :
                e \in {f \in DOMAIN ReadDiskstats \cap DOMAIN prevDisk : "disk" \in Groups /\ f = d}}
             \cup
             {Delta(ReadNetDev, prevNet, e) :
                e \in {f \in DOMAIN ReadNetDev \cap DOMAIN prevNet :
                         "network" \in Groups /\ (Filter = {} \/ f \in Filter) /\ f = d}}
<1>1. \A x \in CpuSamples \cup LoadSamples \cup ThermalSamples : x.name \notin DeltaNames
  <2>1. \A x \in ThermalSamples : x.name = "cpu_temperature"
    BY ThermalOfZone
  <2> QED
    BY <2>1 DEF CpuSamples, LoadSamples, Sample, DeltaNames
<1>2. \A x \in MemorySamples : x.name \notin DeltaNames
  BY DEF MemorySamples, UsedPercent, Sample, DeltaNames
<1>3. \A x \in SpaceSamples : x.name \notin DeltaNames
  BY SpaceOfMount DEF SpaceNames, DeltaNames
<1>4. \A x \in SystemSamples : x.name \notin DeltaNames
  BY DEF SystemSamples, Sample, DeltaNames
<1>5. {x.value : x \in {y \in DiskSamples : y.label = d /\ y.name \in DeltaNames}}
        = {Delta(ReadDiskstats, prevDisk, e) :
             e \in {f \in DOMAIN ReadDiskstats \cap DOMAIN prevDisk : f = d}}
  <2> DEFINE known == DOMAIN ReadDiskstats \cap DOMAIN prevDisk
             delta(e) == Delta(ReadDiskstats, prevDisk, e)
  <2>1. \A y \in DiskSamples : y.name \in DeltaNames => \E e \in known : y.label = e /\ y.value = delta(e)
    BY DEF DiskSamples, Sample, DeltaNames
  <2>2. \A e \in known : Sample("disk_delta", e, delta(e), "aggregated") \in DiskSamples
    BY DEF DiskSamples
  <2>3. \A e \in known : \E y \in DiskSamples :
           y.name \in DeltaNames /\ y.label = e /\ y.value = delta(e)
    BY <2>2 DEF Sample, DeltaNames
  <2> HIDE DEF known, delta
  <2> QED
    BY <2>1, <2>3 DEF known, delta
<1>6. {x.value : x \in {y \in NetworkSamples : y.label = d /\ y.name \in DeltaNames}}
        = {Delta(ReadNetDev, prevNet, e) :
             e \in {f \in DOMAIN ReadNetDev \cap DOMAIN prevNet :
                      (Filter = {} \/ f \in Filter) /\ f = d}}
  <2> DEFINE known == {f \in DOMAIN ReadNetDev \cap DOMAIN prevNet : Filter = {} \/ f \in Filter}
             delta(e) == Delta(ReadNetDev, prevNet, e)
  <2>1. \A y \in NetworkSamples : y.name \in DeltaNames => \E e \in known : y.label = e /\ y.value = delta(e)
    BY DEF NetworkSamples, Sample, DeltaNames
  <2>2. \A e \in known : Sample("network_delta", e, delta(e), "aggregated") \in NetworkSamples
    BY DEF NetworkSamples
  <2>3. \A e \in known : \E y \in NetworkSamples :
           y.name \in DeltaNames /\ y.label = e /\ y.value = delta(e)
    BY <2>2 DEF Sample, DeltaNames
  <2> HIDE DEF known, delta
  <2> QED
    BY <2>1, <2>3 DEF known, delta
<1>7. DeltaOf(d)' = {x.value : x \in {y \in If("disk", DiskSamples) \cup If("network", NetworkSamples) :
                                         y.label = d /\ y.name \in DeltaNames}}
  BY <1>1, <1>2, <1>3, <1>4 DEF Collect, DeltaOf, DeltaNames, If
<1> QED
  BY <1>5, <1>6, <1>7 DEF If

(* The difference of two readings, when they are related as they are.      *)
LEMMA DeltaOfReading ==
    ASSUME NEW curr, NEW prev, NEW d, curr[d] = device[d],
           device[d].count \in Nat, prev[d].count \in Nat, growth[d] \in Nat, Related(prev, d)
    PROVE  /\ Delta(curr, prev, d) <= growth[d]
           /\ d \notin restarted => Delta(curr, prev, d) = growth[d]
<1>1. Delta(curr, prev, d) = SatMinus(device[d].count, prev[d].count)
  BY DEF Delta
<1> QED
  BY <1>1 DEF SatMinus, Related

(* A tick sends the growth of each counter.                                *)
LEMMA TickSendsGrowth ==
    ASSUME DInv, Collect, NEW d \in Devices
    PROVE  /\ \A n \in DeltaOf(d)' : n <= growth[d]
           /\ (d \in (seen \cap seen') \ restarted /\ Reported(d)) => DeltaOf(d)' = {growth[d]}
<1> USE DEF DInv
<1>1. ASSUME NEW prev, prev \in {prevDisk, prevNet}, NEW curr \in {ReadDiskstats, ReadNetDev},
             d \in DOMAIN curr \cap DOMAIN prev, Related(prev, d)
      PROVE  /\ Delta(curr, prev, d) <= growth[d]
             /\ d \notin restarted => Delta(curr, prev, d) = growth[d]
  <2>1. curr[d] = device[d] /\ d \in DOMAIN device
    BY <1>1, Reading DEF ReadDiskstats, ReadNetDev
  <2>2. device[d] \in Counters /\ prev[d] \in Counters /\ growth[d] \in Nat
    BY <1>1, <2>1 DEF TypesInv
  <2> QED
    BY <1>1, <2>1, <2>2, DeltaOfReading DEF Counters
<1>2. CASE d \in Disks
  <2>1. d \notin Ifaces /\ d \notin DOMAIN ReadNetDev
    BY <1>2, CollectorAssumption, ReadingsApart DEF CollectorAssumption
  <2>2. DeltaOf(d)' = {Delta(ReadDiskstats, prevDisk, e) :
          e \in {f \in DOMAIN ReadDiskstats \cap DOMAIN prevDisk : "disk" \in Groups /\ f = d}}
    BY <2>1, DeltasOfTick
  <2>3. d \in DOMAIN ReadDiskstats \cap DOMAIN prevDisk => Related(prevDisk, d)
    BY Reading DEF ReadDiskstats, GrowthInv
  <2>4. (d \in seen \cap seen' /\ Reported(d)) =>
           d \in DOMAIN ReadDiskstats \cap DOMAIN prevDisk /\ "disk" \in Groups
    BY <1>2, <2>1, ReadingsApart DEF Collect, SeenInv, Reported
  <2> QED
    BY <1>1, <2>2, <2>3, <2>4
<1>3. CASE d \in Ifaces
  <2>1. d \notin Disks /\ d \notin DOMAIN ReadDiskstats
    BY <1>3, CollectorAssumption, ReadingsApart DEF CollectorAssumption
  <2>2. DeltaOf(d)' = {Delta(ReadNetDev, prevNet, e) :
          e \in {f \in DOMAIN ReadNetDev \cap DOMAIN prevNet :
                   "network" \in Groups /\ (Filter = {} \/ f \in Filter) /\ f = d}}
    BY <2>1, DeltasOfTick
  <2>3. d \in DOMAIN ReadNetDev \cap DOMAIN prevNet => Related(prevNet, d)
    BY Reading DEF ReadNetDev, GrowthInv
  <2>4. (d \in seen \cap seen' /\ Reported(d)) =>
           /\ d \in DOMAIN ReadNetDev \cap DOMAIN prevNet
           /\ "network" \in Groups /\ (Filter = {} \/ d \in Filter)
    BY <1>3, <2>1, ReadingsApart DEF Collect, SeenInv, Reported
  <2> QED
    BY <1>1, <2>2, <2>3, <2>4
<1> QED
  BY <1>2, <1>3 DEF Devices

(* What a tick sends for a disk or an interface is what its counter grew   *)
(* by since it was last read, for every set of devices, filter and groups. *)
THEOREM DeltasSound == Spec => DeltasAreGrowth
<1> DEFINE Sound(d) == /\ \A n \in DeltaOf(d)' : n <= growth[d]
                       /\ (d \in (seen \cap seen') \ restarted /\ Reported(d))
                            => DeltaOf(d)' = {growth[d]}
<1>1. DInv /\ [Next]_vars => [ticks' > ticks => \A d \in Devices : Sound(d)]_vars
  <2> SUFFICES ASSUME DInv, Next, ticks' > ticks PROVE \A d \in Devices : Sound(d)
    OBVIOUS
  <2>1. ~Event
    BY DEF DInv, TypesInv, Event, collector
  <2>2. Collect
    BY <2>1 DEF Next, ProcessorRuns, DeviceWorks, Unplug, Plug, PoolChanges,
                ReadabilityChanges, TimePasses
  <2> QED
    BY <2>2, TickSendsGrowth
<1> QED
  BY <1>1, Remembered, PTL DEF Spec, DeltasAreGrowth

-----------------------------------------------------------------------------
(* One sample for each stream.                                             *)

(* Samples of some names, no two of which have the same label as well,     *)
(* unless they are twins.                                                  *)
Single(set) == \A x, y \in set : (x.name = y.name /\ x.label = y.label /\ x # y) => Twins(x, y)
Named(set, names) == \A x \in set : x.name \in names

(* What one class of samples has another leaves alone.                     *)
LEMMA SingleUnion ==
    ASSUME NEW s, NEW t, NEW m, NEW n, Named(s, m), Named(t, n), m \cap n = {},
           Single(s), Single(t)
    PROVE  Single(s \cup t) /\ Named(s \cup t, m \cup n)
BY DEF Single, Named

(* A group that is not enabled has no samples.                             *)
LEMMA SingleIf ==
    ASSUME NEW g, NEW s, NEW m, Named(s, m), Single(s)
    PROVE  Single(If(g, s)) /\ Named(If(g, s), m)
BY DEF Single, Named, If

(* The index of a zone among those of its type.                            *)
ZoneIndex(z) == Cardinality({y \in SameType(z) : y < z})

(* Zones of one type that can be read have different indices, which are    *)
(* less than the number of zones.                                          *)
LEMMA ZoneIndices ==
    /\ \A z \in Zones : z \in Nat /\ ZoneIndex(z) \in 0 .. Len(ZoneTypes)
    /\ \A y, z \in ReadZones :
          ZoneTypes[y] = ZoneTypes[z] /\ ZoneIndex(y) = ZoneIndex(z) => y = z
<1>1. Zones = 1 .. Len(ZoneTypes) /\ Len(ZoneTypes) \in Nat
  BY ZoneAssumption DEF Zones
<1>2. IsFiniteSet(Zones) /\ Cardinality(Zones) = Len(ZoneTypes)
  <2>1. Cardinality(1 .. Len(ZoneTypes)) = Len(ZoneTypes)
    <3>1. Cardinality(1 .. Len(ZoneTypes))
            = IF 1 > Len(ZoneTypes) THEN 0 ELSE Len(ZoneTypes) - 1 + 1
      BY <1>1, FS_Interval
    <3> QED
      BY <1>1, <3>1
  <2> QED
    BY <1>1, <2>1, FS_Interval
<1>3. ASSUME NEW z \in Zones
      PROVE  /\ IsFiniteSet({y \in SameType(z) : y < z})
             /\ ZoneIndex(z) \in 0 .. Len(ZoneTypes)
  <2>1. {y \in SameType(z) : y < z} \subseteq Zones
    BY DEF SameType, ReadZones
  <2>2. /\ IsFiniteSet({y \in SameType(z) : y < z})
        /\ ZoneIndex(z) <= Len(ZoneTypes)
    BY <1>2, <2>1, FS_Subset DEF ZoneIndex
  <2>3. ZoneIndex(z) \in Nat
    BY <2>2, FS_CardinalityType DEF ZoneIndex
  <2> QED
    BY <1>1, <2>2, <2>3
<1>4. ASSUME NEW y \in ReadZones, NEW z \in ReadZones,
             ZoneTypes[y] = ZoneTypes[z], ZoneIndex(y) = ZoneIndex(z), y < z
      PROVE  FALSE
  <2> DEFINE below(w) == {x \in SameType(w) : x < w}
  <2>1. y \in Nat /\ z \in Nat /\ z \in Zones
    BY <1>1 DEF ReadZones
  <2>2. SameType(y) = SameType(z) /\ y \in SameType(z)
    BY <1>4 DEF SameType
  <2>3. \A x \in SameType(z) : x \in Nat
    BY <1>1 DEF SameType, ReadZones
  <2>4. below(y) \subseteq below(z)
    <3> SUFFICES ASSUME NEW x \in SameType(y), x < y
                 PROVE  x \in SameType(z) /\ x < z
      OBVIOUS
    <3>1. x \in SameType(z) /\ x \in Nat
      BY <2>2, <2>3
    <3> QED
      BY <1>4, <2>1, <3>1
  <2>6. y \in below(z) /\ y \notin below(y)
    BY <1>4, <2>1, <2>2
  <2>5. IsFiniteSet(below(z)) /\ Cardinality(below(y)) = Cardinality(below(z))
    BY <1>3, <1>4, <2>1 DEF ZoneIndex
  <2> HIDE DEF below
  <2> QED
    BY <2>4, <2>5, <2>6, FS_Subset
<1>5. \A z \in ReadZones : z \in Nat /\ z \in Zones
  BY <1>1 DEF ReadZones
<1>6. ASSUME NEW y \in ReadZones, NEW z \in ReadZones,
             ZoneTypes[y] = ZoneTypes[z], ZoneIndex(y) = ZoneIndex(z)
      PROVE  y = z
  <2>1. ~(y < z) /\ ~(z < y)
    BY <1>4, <1>6
  <2> QED
    BY <1>5, <2>1
<1>7. \A z \in Zones : z \in Nat
  BY <1>1
<1> QED
  BY <1>3, <1>6, <1>7

(* A sequence and an element are known from the one with the other at its  *)
(* end.                                                                    *)
LEMMA AppendInjective ==
    ASSUME NEW S, NEW s \in Seq(S), NEW t \in Seq(S), NEW x \in S, NEW y \in S,
           Append(s, x) = Append(t, y)
    PROVE  s = t /\ x = y
<1>1. Len(s) \in Nat /\ Len(t) \in Nat /\ Len(s) = Len(t)
  OBVIOUS
<1>2. \A i \in 1 .. Len(s) : s[i] = t[i]
  OBVIOUS
<1> QED
  BY <1>1, <1>2

(* collector.rs 390-419: no two zones have one label, unless the type of   *)
(* one reads as an index of the other.                                     *)
LEMMA LabelsDiffer ==
    ASSUME NEW y \in ReadZones, NEW z \in ReadZones, ZoneLabel(y) = ZoneLabel(z), y # z
    PROVE  Indexed(ZoneTypes[y], ZoneTypes[z]) \/ Indexed(ZoneTypes[z], ZoneTypes[y])
<1>1. /\ y \in Zones /\ z \in Zones
      /\ ZoneTypes[y] \in Seq(ZoneWords \cup Nat) /\ ZoneTypes[z] \in Seq(ZoneWords \cup Nat)
      /\ ZoneIndex(y) \in 0 .. Len(ZoneTypes) /\ ZoneIndex(z) \in 0 .. Len(ZoneTypes)
  BY ZoneAssumption, ZoneIndices DEF ReadZones, Zones
<1>2. \A w : ZoneLabel(w) = IF Cardinality(SameType(w)) = 1 THEN ZoneTypes[w]
                            ELSE Append(ZoneTypes[w], ZoneIndex(w))
  BY DEF ZoneLabel, ZoneIndex
<1>3. ASSUME NEW w \in ReadZones, Cardinality(SameType(w)) = 1,
             NEW v \in ReadZones, ZoneTypes[v] = ZoneTypes[w]
      PROVE  v = w
  <2>1. IsFiniteSet(SameType(w))
    <3>1. IsFiniteSet(Zones) /\ SameType(w) \subseteq Zones
      BY ZoneAssumption, FS_Interval DEF Zones, SameType, ReadZones
    <3> QED
      BY <3>1, FS_Subset
  <2>2. PICK x : SameType(w) = {x}
    BY <1>3, <2>1, FS_Singleton
  <2> QED
    BY <1>3, <2>2 DEF SameType
<1>4. CASE Cardinality(SameType(y)) = 1 /\ Cardinality(SameType(z)) = 1
  BY <1>2, <1>3, <1>4
<1>5. CASE Cardinality(SameType(y)) = 1 /\ Cardinality(SameType(z)) # 1
  <2>1. ZoneTypes[y] = Append(ZoneTypes[z], ZoneIndex(z))
    BY <1>2, <1>5
  <2> QED
    BY <1>1, <2>1 DEF Indexed
<1>6. CASE Cardinality(SameType(y)) # 1 /\ Cardinality(SameType(z)) = 1
  <2>1. ZoneTypes[z] = Append(ZoneTypes[y], ZoneIndex(y))
    BY <1>2, <1>6
  <2> QED
    BY <1>1, <2>1 DEF Indexed
<1>7. CASE Cardinality(SameType(y)) # 1 /\ Cardinality(SameType(z)) # 1
  <2>1. Append(ZoneTypes[y], ZoneIndex(y)) = Append(ZoneTypes[z], ZoneIndex(z))
    BY <1>2, <1>7
  <2>2. ZoneIndex(y) \in Nat /\ ZoneIndex(z) \in Nat
    BY <1>1
  <2>3. ZoneTypes[y] = ZoneTypes[z] /\ ZoneIndex(y) = ZoneIndex(z)
    <3>1. ZoneTypes[y] \in Seq(ZoneWords \cup Nat) /\ ZoneTypes[z] \in Seq(ZoneWords \cup Nat)
      BY <1>1
    <3> DEFINE S == ZoneWords \cup Nat
               s == ZoneTypes[y]
               t == ZoneTypes[z]
               i == ZoneIndex(y)
               j == ZoneIndex(z)
    <3>2. s \in Seq(S) /\ t \in Seq(S) /\ i \in S /\ j \in S
      BY <2>2, <3>1
    <3>3. Append(s, i) = Append(t, j)
      BY <2>1
    <3> HIDE DEF S, s, t, i, j
    <3>4. s = t /\ i = j
      BY <3>2, <3>3, AppendInjective
    <3> QED
      BY <3>4 DEF s, t, i, j
  <2> QED
    BY <2>3, ZoneIndices
<1> QED
  BY <1>4, <1>5, <1>6, <1>7

(* The names of the samples of each group.                                 *)
CpuNames    == {"cpu_utilization_percent"}
LoadNames   == {"cpu_load_avg_1m", "cpu_load_avg_5m", "cpu_load_avg_15m"}
HeatNames   == {"cpu_temperature"}
MemoryNames == {"mem_available_bytes", "mem_used_percent", "swap_used_percent"}
DiskNames   == {"disk_delta", "disk_io_util_percent"}
NetNames    == {"network_delta", "net_errors"}
SystemNames == {"process_count", "fd_used", "fd_max"}

(* In each group a stream has one sample.                                  *)
LEMMA GroupsSingle ==
    /\ Single(CpuSamples) /\ Named(CpuSamples, CpuNames)
    /\ Single(LoadSamples) /\ Named(LoadSamples, LoadNames)
    /\ Single(ThermalSamples) /\ Named(ThermalSamples, HeatNames)
    /\ Single(MemorySamples) /\ Named(MemorySamples, MemoryNames)
    /\ Single(DiskSamples) /\ Named(DiskSamples, DiskNames)
    /\ Single(SpaceSamples) /\ Named(SpaceSamples, SpaceNames)
    /\ Single(NetworkSamples) /\ Named(NetworkSamples, NetNames)
    /\ Single(SystemSamples) /\ Named(SystemSamples, SystemNames)
<1> USE DEF Single, Named, Sample
<1>1. Single(CpuSamples) /\ Named(CpuSamples, CpuNames)
  BY DEF CpuSamples, CpuNames
<1>2. Single(LoadSamples) /\ Named(LoadSamples, LoadNames)
  BY DEF LoadSamples, LoadNames
<1>3. Single(ThermalSamples) /\ Named(ThermalSamples, HeatNames)
  <2>1. ASSUME NEW x \in ThermalSamples, NEW y \in ThermalSamples, x.label = y.label, x # y
        PROVE  Twins(x, y)
    <3>1. /\ x.nth \in ReadZones /\ y.nth \in ReadZones
          /\ ZoneLabel(x.nth) = ZoneLabel(y.nth) /\ x.name = "cpu_temperature"
      BY <2>1, ThermalOfZone
    <3>2. x.nth # y.nth
      <4> SUFFICES ASSUME x.nth = y.nth PROVE x = y
        BY <2>1
      <4> QED
        BY ThermalOfZone
    <3>3. \/ Indexed(ZoneTypes[x.nth], ZoneTypes[y.nth])
          \/ Indexed(ZoneTypes[y.nth], ZoneTypes[x.nth])
      BY <3>1, <3>2, LabelsDiffer
    <3> QED
      BY <3>1, <3>3 DEF Twins
  <2> QED
    BY <2>1, ThermalOfZone DEF HeatNames
<1>4. Single(MemorySamples) /\ Named(MemorySamples, MemoryNames)
  BY DEF MemorySamples, MemoryNames, UsedPercent
<1>5. Single(DiskSamples) /\ Named(DiskSamples, DiskNames)
  BY DEF DiskSamples, DiskNames
<1>6. Single(SpaceSamples) /\ Named(SpaceSamples, SpaceNames)
  <2>1. ASSUME NEW x \in SpaceSamples, NEW y \in SpaceSamples,
               x.name = y.name, x.label = y.label, x # y
        PROVE  Twins(x, y)
    <3>1. /\ x.name \in SpaceNames /\ x.label = MountPoints[x.nth] /\ y.label = MountPoints[y.nth]
      BY SpaceOfMount
    <3>2. x.nth # y.nth
      <4> SUFFICES ASSUME x.nth = y.nth PROVE FALSE
        OBVIOUS
      <4>1. PICK s \in MountSamples(MountPoints[x.nth]) : s.name = x.name /\ x = [s EXCEPT !.nth = x.nth]
        BY SpaceOfMount
      <4>2. PICK t \in MountSamples(MountPoints[x.nth]) : t.name = y.name /\ y = [t EXCEPT !.nth = x.nth]
        BY SpaceOfMount
      <4>3. s = t
        BY <2>1, <4>1, <4>2, MountSamplesApart
      <4> QED
        BY <2>1, <4>1, <4>2, <4>3
    <3> QED
      BY <2>1, <3>1, <3>2 DEF Twins, SpaceNames
  <2> QED
    BY <2>1, SpaceOfMount
<1>7. Single(NetworkSamples) /\ Named(NetworkSamples, NetNames)
  BY DEF NetworkSamples, NetNames
<1>8. Single(SystemSamples) /\ Named(SystemSamples, SystemNames)
  BY DEF SystemSamples, SystemNames
<1> QED
  BY <1>1, <1>2, <1>3, <1>4, <1>5, <1>6, <1>7, <1>8

LEMMA TickSingle ==
    ASSUME Collect
    PROVE  Single(samples')
<1> DEFINE heat  == CpuSamples \cup LoadSamples \cup ThermalSamples
           space == DiskSamples \cup SpaceSamples
           heatNames  == CpuNames \cup LoadNames \cup HeatNames
           spaceNames == DiskNames \cup SpaceNames
<1>1. Single(heat) /\ Named(heat, heatNames)
  <2>1. Single(CpuSamples \cup LoadSamples) /\ Named(CpuSamples \cup LoadSamples, CpuNames \cup LoadNames)
    <3>1. CpuNames \cap LoadNames = {}
      BY DEF CpuNames, LoadNames
    <3> QED
      BY <3>1, GroupsSingle, SingleUnion
  <2>2. (CpuNames \cup LoadNames) \cap HeatNames = {}
    BY DEF CpuNames, LoadNames, HeatNames
  <2> QED
    BY <2>1, <2>2, GroupsSingle, SingleUnion
<1>2. Single(space) /\ Named(space, spaceNames)
  <2>1. DiskNames \cap SpaceNames = {}
    BY DEF DiskNames, SpaceNames
  <2> QED
    BY <2>1, GroupsSingle, SingleUnion
<1>3. /\ heatNames \cap MemoryNames = {}
      /\ (heatNames \cup MemoryNames) \cap spaceNames = {}
      /\ (heatNames \cup MemoryNames \cup spaceNames) \cap NetNames = {}
      /\ (heatNames \cup MemoryNames \cup spaceNames \cup NetNames) \cap SystemNames = {}
  BY DEF CpuNames, LoadNames, HeatNames, MemoryNames, DiskNames, SpaceNames, NetNames, SystemNames
<1>4. samples' = If("cpu", heat) \cup If("memory", MemorySamples) \cup If("disk", space)
                 \cup If("network", NetworkSamples) \cup If("system", SystemSamples)
  BY DEF Collect
<1> HIDE DEF heat, space, heatNames, spaceNames
<1>5. /\ Single(If("cpu", heat)) /\ Named(If("cpu", heat), heatNames)
      /\ Single(If("memory", MemorySamples)) /\ Named(If("memory", MemorySamples), MemoryNames)
      /\ Single(If("disk", space)) /\ Named(If("disk", space), spaceNames)
      /\ Single(If("network", NetworkSamples)) /\ Named(If("network", NetworkSamples), NetNames)
      /\ Single(If("system", SystemSamples)) /\ Named(If("system", SystemSamples), SystemNames)
  BY <1>1, <1>2, GroupsSingle, SingleIf
<1> DEFINE two   == If("cpu", heat) \cup If("memory", MemorySamples)
           three == two \cup If("disk", space)
           four  == three \cup If("network", NetworkSamples)
<1>6. Single(two) /\ Named(two, heatNames \cup MemoryNames)
  BY <1>3, <1>5, SingleUnion
<1>7. Single(three) /\ Named(three, heatNames \cup MemoryNames \cup spaceNames)
  BY <1>3, <1>5, <1>6, SingleUnion
<1>8. Single(four) /\ Named(four, heatNames \cup MemoryNames \cup spaceNames \cup NetNames)
  BY <1>3, <1>5, <1>7, SingleUnion
<1>9. Single(four \cup If("system", SystemSamples))
  BY <1>3, <1>5, <1>8, SingleUnion
<1> QED
  BY <1>4, <1>9

(* collector.rs 284-310, 370-419: whatever zones the machine has, of       *)
(* whatever types, and whichever of them can be read, and whatever mount   *)
(* points are configured, two samples of a tick with one name and label    *)
(* come from a mount point listed twice, or from zones of different types  *)
(* of which one reads as an index of the other.                            *)
THEOREM OneSampleTheorem == Spec => []OneSamplePerStream
<1>1. Init => OneSamplePerStream
  BY DEF Init, OneSamplePerStream
<1>2. OneSamplePerStream /\ [Next]_vars => OneSamplePerStream'
  <2> SUFFICES ASSUME OneSamplePerStream, [Next]_vars PROVE OneSamplePerStream'
    OBVIOUS
  <2>1. CASE Collect
    BY <2>1, TickSingle DEF Single, OneSamplePerStream
  <2>2. CASE ~Collect
    <3>1. samples' = samples
      BY <2>2 DEF Next, ProcessorRuns, DeviceWorks, Unplug, Plug, PoolChanges,
                  ReadabilityChanges, TimePasses, Event, collector, vars
    <3> QED
      BY <3>1 DEF OneSamplePerStream
  <2> QED
    BY <2>1, <2>2
<1> QED
  BY <1>1, <1>2, PTL DEF Spec

-----------------------------------------------------------------------------
(* Percentages.                                                            *)

(* The reading of /proc/stat that is remembered, and the time since: the   *)
(* busy time only grows, and so does the idle time unless some of it was   *)
(* taken back; nothing has reached the width of a counter.                 *)
CpuInv ==
    /\ events \in 0 .. MaxEvents
    /\ cpu \in [busy : Nat, guest : Nat, idle : Nat, iowait : Nat]
    /\ cpu.busy + cpu.guest + cpu.idle + cpu.iowait <= 2 * events + 3
    /\ worked \in [busy : Nat, guest : Nat, total : Nat, back : BOOLEAN]
    /\ "cpu" \notin Groups => prevCpu = None
    /\ \/ prevCpu = None
       \/ /\ prevCpu \in [total : Nat, idle : Nat]
          /\ prevCpu.idle <= prevCpu.total
          /\ prevCpu.total + worked.total + worked.guest = CpuTicks.total
          /\ prevCpu.total - prevCpu.idle + worked.busy + worked.guest = cpu.busy + cpu.guest
          /\ ~worked.back => prevCpu.idle <= CpuTicks.idle

(* No pool is larger than a counter, or has more free than it has.         *)
PoolInv ==
    \A p \in Pools : /\ pool[p].total \in 0 .. 2
                      /\ pool[p].free \in 0 .. pool[p].total

ClockInv == clock \in Nat /\ (prevDiskTime = None \/ prevDiskTime \in Nat)

PInv == CpuInv /\ PoolInv /\ ClockInv

LEMMA PInvInit == Init => PInv
<1> SUFFICES ASSUME Init PROVE PInv
  OBVIOUS
<1>1. CpuInv
  BY CollectorAssumption DEF Init, CpuInv, CollectorAssumption
<1>2. PoolInv
  <2> SUFFICES ASSUME NEW p \in Pools
               PROVE  pool[p].total \in 0 .. 2 /\ pool[p].free \in 0 .. pool[p].total
    BY DEF PoolInv
  <2>1. pool[p] \in {[total |-> 0, free |-> 0], [total |-> 2, free |-> 1]}
    BY DEF Init
  <2> QED
    BY <2>1
<1> QED
  BY <1>1, <1>2 DEF Init, PInv, ClockInv

LEMMA RunKeeps ==
    ASSUME CpuInv, ProcessorRuns
    PROVE  CpuInv'
<1> USE DEF CpuInv
<1>1. PICK b \in -1 .. 1, g \in -1 .. 1, i \in -1 .. 1, w \in -1 .. 1 :
         /\ b >= 0 /\ i >= 0 /\ g \in 0 .. b
         /\ b + i + w \in {0, 1}
         /\ cpu.iowait + w >= 0
         /\ cpu' = [busy |-> cpu.busy + b, guest |-> cpu.guest + g,
                    idle |-> cpu.idle + i, iowait |-> cpu.iowait + w]
         /\ worked' = [busy |-> worked.busy + b, guest |-> worked.guest + g,
                       total |-> worked.total + b + i + w, back |-> worked.back \/ w < 0]
  BY DEF ProcessorRuns
<1>2. /\ cpu.busy \in Nat /\ cpu.guest \in Nat /\ cpu.idle \in Nat /\ cpu.iowait \in Nat
      /\ worked.busy \in Nat /\ worked.guest \in Nat /\ worked.total \in Nat
      /\ worked.back \in BOOLEAN
      /\ b \in Int /\ g \in Int /\ i \in Int /\ w \in Int /\ 0 <= g /\ g <= b
  BY <1>1
<1>3. /\ cpu'.busy = cpu.busy + b /\ cpu'.guest = cpu.guest + g
      /\ cpu'.idle = cpu.idle + i /\ cpu'.iowait = cpu.iowait + w
      /\ worked'.busy = worked.busy + b /\ worked'.guest = worked.guest + g
      /\ worked'.total = worked.total + b + i + w
      /\ worked'.back = (worked.back \/ w < 0)
  BY <1>1
<1>4. cpu' \in [busy : Nat, guest : Nat, idle : Nat, iowait : Nat]
  <2>1. /\ cpu.busy + b \in Nat /\ cpu.guest + g \in Nat
        /\ cpu.idle + i \in Nat /\ cpu.iowait + w \in Nat
    BY <1>1, <1>2
  <2> QED
    BY <1>1, <2>1
<1>5. worked' \in [busy : Nat, guest : Nat, total : Nat, back : BOOLEAN]
  <2>1. worked.busy + b \in Nat /\ worked.guest + g \in Nat /\ worked.total + b + i + w \in Nat
    BY <1>1, <1>2
  <2>2. (worked.back \/ w < 0) \in BOOLEAN
    OBVIOUS
  <2> QED
    BY <1>1, <2>1, <2>2
<1>6. /\ events' \in 0 .. MaxEvents
      /\ cpu'.busy + cpu'.guest + cpu'.idle + cpu'.iowait <= 2 * events' + 3
  <2>1. events \in Nat /\ events' = events + 1 /\ events < MaxEvents /\ MaxEvents \in Nat
    BY CollectorAssumption DEF ProcessorRuns, Event, CollectorAssumption
  <2>2. b + g + i + w <= 2
    BY <1>1, <1>2
  <2>3. cpu'.busy + cpu'.guest + cpu'.idle + cpu'.iowait
          = cpu.busy + cpu.guest + cpu.idle + cpu.iowait + (b + g + i + w)
    BY <1>2, <1>3
  <2> QED
    BY <1>2, <2>1, <2>2, <2>3
<1>7. prevCpu' = prevCpu
  BY DEF ProcessorRuns, Event, collector
<1>8. ASSUME prevCpu # None
      PROVE  /\ prevCpu.total + worked'.total + worked'.guest = CpuTicks'.total
             /\ prevCpu.total - prevCpu.idle + worked'.busy + worked'.guest = cpu'.busy + cpu'.guest
             /\ ~worked'.back => prevCpu.idle <= CpuTicks'.idle
  <2>1. /\ CpuTicks.total = cpu.busy + cpu.guest + cpu.idle + cpu.iowait
        /\ CpuTicks.idle = cpu.idle + cpu.iowait
        /\ CpuTicks'.total = cpu'.busy + cpu'.guest + cpu'.idle + cpu'.iowait
        /\ CpuTicks'.idle = cpu'.idle + cpu'.iowait
    BY DEF CpuTicks
  <2>2. /\ prevCpu.total \in Nat /\ prevCpu.idle \in Nat
        /\ prevCpu.total + worked.total + worked.guest = CpuTicks.total
        /\ prevCpu.total - prevCpu.idle + worked.busy + worked.guest = cpu.busy + cpu.guest
        /\ ~worked.back => prevCpu.idle <= CpuTicks.idle
    BY <1>8
  <2>3. ~worked'.back => ~worked.back /\ w >= 0
    <3>1. ~worked'.back => ~worked.back /\ ~(w < 0)
      BY <1>3, Zenon
    <3> QED
      BY <1>2, <3>1
  <2> HIDE DEF CpuInv
  <2>4. prevCpu.total + worked'.total + worked'.guest = CpuTicks'.total
    <3>1. CpuTicks'.total = CpuTicks.total + (b + g + i + w) /\ CpuTicks.total \in Int
      BY <1>2, <1>3, <2>1
    <3>2. worked'.total + worked'.guest = worked.total + worked.guest + (b + g + i + w)
      BY <1>2, <1>3
    <3> QED
      BY <1>2, <1>3, <2>2, <3>1, <3>2
  <2>5. prevCpu.total - prevCpu.idle + worked'.busy + worked'.guest = cpu'.busy + cpu'.guest
    BY <1>2, <1>3, <2>2
  <2>6. w >= 0 => CpuTicks'.idle >= CpuTicks.idle
    BY <1>1, <1>2, <1>3, <2>1
  <2>7. CpuTicks'.idle \in Int /\ CpuTicks.idle \in Int
    BY <1>2, <1>3, <2>1
  <2> QED
    BY <2>2, <2>3, <2>4, <2>5, <2>6, <2>7
<1> QED
  BY <1>4, <1>5, <1>6, <1>7, <1>8

LEMMA TickKeeps ==
    ASSUME PInv, Collect
    PROVE  PInv'
<1>1. UNCHANGED kernel /\ events' = events
  BY DEF Collect
<1>2. PoolInv' /\ ClockInv'
  BY <1>1 DEF Collect, PInv, PoolInv, ClockInv, kernel
<1>3. CASE "stat" \in unreadable
  <2>1. prevCpu' = prevCpu /\ worked' = worked /\ cpu' = cpu
    BY <1>1, <1>3 DEF Collect, kernel
  <2> QED
    BY <1>1, <1>2, <2>1 DEF PInv, CpuInv, CpuTicks
<1>4. CASE "stat" \notin unreadable
  <2>1. /\ worked' = [busy |-> 0, guest |-> 0, total |-> 0, back |-> FALSE] /\ cpu' = cpu
        /\ prevCpu' = IF "cpu" \in Groups THEN CpuTicks ELSE prevCpu
    BY <1>1, <1>4 DEF Collect, kernel
  <2>2. cpu.busy \in Nat /\ cpu.guest \in Nat /\ cpu.idle \in Nat /\ cpu.iowait \in Nat
    BY DEF PInv, CpuInv
  <2>3. CpuTicks' = CpuTicks
        /\ CpuTicks = [total |-> cpu.busy + cpu.guest + cpu.idle + cpu.iowait,
                       idle |-> cpu.idle + cpu.iowait]
    BY <2>1 DEF CpuTicks
  <2>4. CASE "cpu" \in Groups
    <3>1. prevCpu' = [total |-> cpu.busy + cpu.guest + cpu.idle + cpu.iowait,
                      idle |-> cpu.idle + cpu.iowait]
      BY <2>1, <2>3, <2>4
    <3> QED
      BY <1>1, <1>2, <2>1, <2>2, <2>3, <2>4, <3>1 DEF PInv, CpuInv
  <2>5. CASE "cpu" \notin Groups
    BY <1>1, <1>2, <2>1, <2>5 DEF PInv, CpuInv
  <2> QED
    BY <2>4, <2>5
<1> QED
  BY <1>3, <1>4

(* The other steps of the kernel.                                          *)
LEMMA KernelKeeps ==
    ASSUME PInv, events' \in 0 .. MaxEvents, events <= events', UNCHANGED <<cpu, worked, prevCpu, prevDiskTime>>,
           PoolInv', clock' \in {clock, clock + 1}
    PROVE  PInv'
<1>1. CpuInv'
  BY DEF PInv, CpuInv, CpuTicks
<1> QED
  BY <1>1 DEF PInv, ClockInv

LEMMA PInvStep == PInv /\ [Next]_vars => PInv'
<1> SUFFICES ASSUME PInv, [Next]_vars PROVE PInv'
  OBVIOUS
<1>1. MaxEvents \in Nat /\ events \in 0 .. MaxEvents
  BY CollectorAssumption DEF CollectorAssumption, PInv, CpuInv
<1>2. Event => /\ events' \in 0 .. MaxEvents /\ events <= events'
               /\ UNCHANGED <<prevCpu, prevDiskTime>>
  BY <1>1 DEF Event, collector
<1>3. CASE Collect
  BY <1>3, TickKeeps
<1>4. CASE ProcessorRuns
  <2>1. CpuInv'
    BY <1>4, RunKeeps DEF PInv
  <2>2. UNCHANGED <<pool, clock, prevDiskTime>>
    BY <1>2, <1>4 DEF ProcessorRuns
  <2> QED
    BY <2>1, <2>2 DEF PInv, PoolInv, ClockInv
<1>5. ASSUME Event, UNCHANGED <<cpu, worked, pool>>, clock' \in {clock, clock + 1}
      PROVE  PInv'
  <2>1. PoolInv'
    BY <1>5 DEF PInv, PoolInv
  <2> QED
    BY <1>2, <1>5, <2>1, KernelKeeps
<1>6. CASE \E d \in Devices : DeviceWorks(d) \/ Unplug(d) \/ Plug(d)
  BY <1>5, <1>6 DEF DeviceWorks, Unplug, Plug, history
<1>7. CASE PoolChanges
  <2>1. PoolInv'
    <3>1. PICK p \in Pools, t \in {0, 2} : \E f \in {0, t} :
             pool' = [pool EXCEPT ![p] = [total |-> t, free |-> f]]
      BY <1>7 DEF PoolChanges
    <3>2. PICK f \in {0, t} : pool' = [pool EXCEPT ![p] = [total |-> t, free |-> f]]
      BY <3>1
    <3>3. \A q \in Pools : pool'[q] = pool[q] \/ pool'[q] = [total |-> t, free |-> f]
      BY <3>2 DEF PInv, PoolInv
    <3> QED
      BY <3>3 DEF PInv, PoolInv
  <2> QED
    BY <1>2, <1>7, <2>1, KernelKeeps DEF PoolChanges, history
<1>8. CASE ReadabilityChanges \/ TimePasses
  BY <1>5, <1>8 DEF ReadabilityChanges, TimePasses, history
<1>9. CASE UNCHANGED vars
  <2>1. events' = events /\ UNCHANGED <<cpu, worked, prevCpu, prevDiskTime, pool, clock>>
    BY <1>9 DEF vars, kernel, collector, history
  <2> QED
    BY <1>1, <2>1, KernelKeeps DEF PInv, PoolInv
<1> QED
  BY <1>3, <1>4, <1>6, <1>7, <1>8, <1>9 DEF Next

(* A fraction of something.                                                *)
Share(v) == 0 <= v[1] /\ v[1] <= v[2] /\ 0 < v[2]

PercentNames == {"cpu_utilization_percent", "disk_io_util_percent", "mem_used_percent",
                 "swap_used_percent", "disk_used_percent", "disk_inodes_used_percent"}

(* A subtraction that does not go below zero and stays in the width.       *)
LEMMA MinusExact ==
    \A a, b \in Nat : b <= a /\ a <= 2 * MaxEvents + 3 => Minus(a, b) = a - b
<1> SUFFICES ASSUME NEW a \in Nat, NEW b \in Nat, b <= a, a <= 2 * MaxEvents + 3
             PROVE  Minus(a, b) = a - b
  OBVIOUS
<1>1. MaxEvents \in Nat
  BY CollectorAssumption DEF CollectorAssumption
<1> DEFINE w == 2 ^ Width
           c == a - b
<1>2. w \in Nat /\ c \in Nat /\ c < w
  BY <1>1, WidthAssumption
<1> HIDE DEF w, c
<1>3. c % w = c
  BY <1>2
<1> QED
  BY <1>3 DEF Minus, w, c

(* The processor's share.                                                  *)
LEMMA CpuShare ==
    ASSUME CpuInv, NEW x \in CpuSamples
    PROVE  /\ x.name = "cpu_utilization_percent"
           /\ Share(x.value)
           /\ ~worked.back => x.value = <<worked.busy + worked.guest, worked.total + worked.guest>>
<1> DEFINE total == SatMinus(CpuTicks.total, prevCpu.total)
           idle  == SatMinus(CpuTicks.idle, prevCpu.idle)
<1>1. /\ prevCpu # None /\ total > 0
      /\ x.name = "cpu_utilization_percent" /\ x.value = <<Minus(total, idle), total>>
  BY DEF CpuSamples, Sample
<1>2. /\ cpu.busy \in Nat /\ cpu.guest \in Nat /\ cpu.idle \in Nat /\ cpu.iowait \in Nat
      /\ events \in Nat /\ events <= MaxEvents /\ MaxEvents \in Nat
      /\ cpu.busy + cpu.guest + cpu.idle + cpu.iowait <= 2 * events + 3
      /\ worked.busy \in Nat /\ worked.guest \in Nat /\ worked.total \in Nat
      /\ prevCpu.total \in Nat /\ prevCpu.idle \in Nat
  BY <1>1, CollectorAssumption DEF CpuInv, CollectorAssumption
<1>3. /\ prevCpu.total + worked.total + worked.guest = CpuTicks.total
      /\ prevCpu.total - prevCpu.idle + worked.busy + worked.guest = cpu.busy + cpu.guest
      /\ ~worked.back => prevCpu.idle <= CpuTicks.idle
  BY <1>1 DEF CpuInv
<1>4. /\ CpuTicks.total = cpu.busy + cpu.guest + cpu.idle + cpu.iowait
      /\ CpuTicks.idle = cpu.idle + cpu.iowait
  BY DEF CpuTicks
<1>5. total = worked.total + worked.guest /\ total <= 2 * MaxEvents + 3
  BY <1>1, <1>2, <1>3, <1>4 DEF SatMinus
<1>6. idle \in Nat /\ idle <= total
  BY <1>1, <1>2, <1>3, <1>4, <1>5 DEF SatMinus
<1>7. ~worked.back => total - idle = worked.busy + worked.guest
  <2>1. ~worked.back => idle = CpuTicks.idle - prevCpu.idle
    BY <1>2, <1>3, <1>4 DEF SatMinus
  <2> HIDE DEF total, idle
  <2> QED
    BY <1>2, <1>3, <1>4, <1>5, <2>1
<1> HIDE DEF total, idle
<1>8. Minus(total, idle) = total - idle
  BY <1>2, <1>5, <1>6, MinusExact
<1> QED
  BY <1>1, <1>2, <1>5, <1>6, <1>7, <1>8 DEF Share

(* The share in use of a pool.                                             *)
LEMMA PoolShare ==
    ASSUME PoolInv, NEW name, NEW label, NEW p \in Pools, NEW x \in UsedPercent(name, label, p)
    PROVE  x.name = name /\ Share(x.value)
<1>1. /\ x.name = name /\ pool[p].total > 0
      /\ x.value = <<Minus(pool[p].total, pool[p].free), pool[p].total>>
  BY DEF UsedPercent, Sample
<1>2. /\ pool[p].total \in Nat /\ pool[p].free \in Nat
      /\ pool[p].free <= pool[p].total /\ pool[p].total <= 2 * MaxEvents + 3
  BY CollectorAssumption DEF PoolInv, CollectorAssumption
<1>3. Minus(pool[p].total, pool[p].free) = pool[p].total - pool[p].free
  BY <1>2, MinusExact
<1> QED
  BY <1>1, <1>2, <1>3 DEF Share

(* The share of the time that a disk was busy.                             *)
LEMMA DiskShare ==
    ASSUME TypesInv, ClockInv, NEW x \in DiskSamples, x.name # "disk_delta"
    PROVE  x.name = "disk_io_util_percent" /\ Share(x.value)
<1> DEFINE elapsed == IF prevDiskTime = None THEN 0 ELSE clock - prevDiskTime
           busy(d) == SatMinus(ReadDiskstats[d].aux, prevDisk[d].aux)
<1>1. PICK d \in DOMAIN ReadDiskstats \cap DOMAIN prevDisk :
         /\ elapsed > 0 /\ x.name = "disk_io_util_percent"
         /\ x.value = IF busy(d) > elapsed THEN <<1, 1>> ELSE <<busy(d), elapsed>>
  BY DEF DiskSamples, Sample
<1>2. elapsed \in Int
  BY DEF ClockInv
<1>3. busy(d) \in Nat
  <2>1. ReadDiskstats[d] \in Counters /\ prevDisk[d] \in Counters
    BY <1>1, Reading DEF ReadDiskstats, TypesInv
  <2> QED
    BY <2>1 DEF Counters, SatMinus
<1> HIDE DEF elapsed, busy
<1> QED
  BY <1>1, <1>2, <1>3 DEF Share

LEMMA TickShares ==
    ASSUME TypesInv, PInv, Collect, NEW x \in samples', x.name \in PercentNames
    PROVE  /\ Share(x.value)
           /\ (x.name = "cpu_utilization_percent" /\ ~worked.back)
                 => x.value = <<worked.busy + worked.guest, worked.total + worked.guest>>
<1> USE DEF PInv
<1>1. x \in CpuSamples \cup LoadSamples \cup ThermalSamples \cup MemorySamples \cup DiskSamples
            \cup SpaceSamples \cup NetworkSamples \cup SystemSamples
  BY DEF Collect, If
<1>2. CASE x \in CpuSamples
  BY <1>2, CpuShare
<1>3. CASE x \in LoadSamples \cup ThermalSamples \cup NetworkSamples \cup SystemSamples
  <2>1. \A t \in ThermalSamples : t.name = "cpu_temperature"
    BY ThermalOfZone
  <2> QED
    BY <1>3, <2>1 DEF LoadSamples, NetworkSamples, SystemSamples, Sample, PercentNames
<1>4. CASE x \in MemorySamples
  <2>1. x \in UsedPercent("mem_used_percent", <<>>, <<"mem">>)
              \cup UsedPercent("swap_used_percent", <<>>, <<"swap">>)
    BY <1>4 DEF MemorySamples, Sample, PercentNames
  <2> QED
    BY <2>1, PoolShare DEF Pools
<1>5. CASE x \in SpaceSamples
  <2> DEFINE m == MountPoints[x.nth]
  <2>1. /\ x.nth \in DOMAIN MountPoints
        /\ \E s \in MountSamples(m) : s.name = x.name /\ s.value = x.value
    BY <1>5, SpaceOfMount
  <2>2. PICK s \in MountSamples(m) : s.name = x.name /\ s.value = x.value
    BY <2>1
  <2>3. s \in UsedPercent("disk_used_percent", m, <<"space", m>>)
              \cup UsedPercent("disk_inodes_used_percent", m, <<"inodes", m>>)
    BY <2>2 DEF MountSamples, Sample, PercentNames
  <2>4. <<"space", m>> \in Pools /\ <<"inodes", m>> \in Pools
    BY <2>1 DEF Pools, Mounts
  <2>5. Share(s.value) /\ s.name # "cpu_utilization_percent"
    BY <2>3, <2>4, PoolShare
  <2> QED
    BY <2>2, <2>5
<1>6. CASE x \in DiskSamples
  BY <1>6, DiskShare DEF PercentNames
<1> QED
  BY <1>1, <1>2, <1>3, <1>4, <1>5, <1>6

(* collector.rs 106-126, 161-180, 264-310: a percentage is a fraction of   *)
(* something whatever the kernel does to its counters, the clock and the   *)
(* sizes of memory and file systems; and the processor's is the busy share *)
(* of all time since the reading before, unless time was taken back.       *)
THEOREM PercentTheorem == Spec => PercentInRange
<1> DEFINE Sound(x) == x.name \in PercentNames =>
              /\ Share(x.value)
              /\ (x.name = "cpu_utilization_percent" /\ ~worked.back)
                    => x.value = <<worked.busy + worked.guest, worked.total + worked.guest>>
<1>1. DInv /\ PInv /\ [Next]_vars => [ticks' > ticks => \A x \in samples' : Sound(x)]_vars
  <2> SUFFICES ASSUME DInv, PInv, Next, ticks' > ticks PROVE \A x \in samples' : Sound(x)
    OBVIOUS
  <2>1. ~Event
    BY DEF DInv, TypesInv, Event, collector
  <2>2. Collect
    BY <2>1 DEF Next, ProcessorRuns, DeviceWorks, Unplug, Plug, PoolChanges,
                ReadabilityChanges, TimePasses
  <2> QED
    BY <2>2, TickShares DEF DInv
<1>2. [ticks' > ticks => \A x \in samples' : Sound(x)]_vars
        => [ticks' > ticks =>
              \A x \in samples' :
                x.name \in {"cpu_utilization_percent", "disk_io_util_percent", "mem_used_percent",
                            "swap_used_percent", "disk_used_percent", "disk_inodes_used_percent"} =>
                  /\ 0 <= x.value[1] /\ x.value[1] <= x.value[2] /\ 0 < x.value[2]
                  /\ (x.name = "cpu_utilization_percent" /\ ~worked.back) =>
                        x.value = <<worked.busy + worked.guest, worked.total + worked.guest>>]_vars
  BY DEF Share, PercentNames
<1> QED
  BY <1>1, <1>2, PInvInit, PInvStep, Remembered, PTL DEF Spec, PercentInRange
=============================================================================
