----------------------------- MODULE DisksProofs -----------------------------
(***************************************************************************)
(* Theorems about Disks, for any ports, any set of disks and any sizes of  *)
(* the tables.                                                             *)
(***************************************************************************)
EXTENDS Disks, SequenceTheorems, WellFoundedInduction, TLAPS

(* The order of the registry while the boot looks for disks: each disk is  *)
(* registered once, and a port not yet looked at is not there.             *)
Distinct == \A i, j \in DOMAIN hw : hw[i] = hw[j] => i = j
FoundOnce ==
  /\ Distinct
  /\ phase = "ahci" => \A i \in DOMAIN hw : hw[i] # RamDisk /\ hw[i] < port
  /\ phase = "vdisk" => \A i \in DOMAIN hw : hw[i] # RamDisk

(* Before the shell runs nothing is mounted. *)
BootPhases == {"ahci", "vdisk", "mount"}
NothingMounted ==
  /\ connected = <<>> /\ mount_count = 0
  /\ \A f \in FsIds : fatfs[f] = NoVolume
  /\ \A k \in DOMAIN nodes : nodes[k].fs = NoVolume

PhaseInv ==
  /\ phase = "ahci" => port < FirstExt
  /\ phase = "scan" => port \in FirstExt .. LastPort
  /\ phase \in BootPhases => FoundOnce
  /\ phase \in BootPhases \cup {"prompt", "halted"} => NothingMounted

(* A node has a volume of the boot or of the part of the mount table that  *)
(* is in use, and no other node has the same one.                          *)
InUse(f, n) == f \in {BootFs, DataFs} \cup {TableFs(i) : i \in 0 .. n - 1}
NodeInv ==
  \A k \in DOMAIN nodes : nodes[k].fs # NoVolume =>
    /\ InUse(nodes[k].fs, mount_count)
    /\ Active(nodes[k].fs)
    /\ \A j \in DOMAIN nodes : nodes[j].fs = nodes[k].fs => j = k

IInv == TypeOK /\ SataFirst /\ DisplacedOnlyByScan /\ VolumesDistinct /\ PhaseInv /\ NodeInv

Assumptions == PortAssumption /\ LimitAssumption /\ VolumeAssumption
-----------------------------------------------------------------------------
(* A set of numbers that is not empty has a first one. *)
LEMMA FirstOfIs ==
  ASSUME NEW S \in SUBSET Nat, S # {}
  PROVE  FirstOf(S) \in S /\ \A j \in S : FirstOf(S) <= j
<1> DEFINE Less == {p \in Nat \X Nat : p[1] < p[2]}
<1>1. IsWellFoundedOn(Less, Nat)
  <2>1. Less = OpToRel(<, Nat)
    BY Zenon DEF OpToRel
  <2> QED BY <2>1, NatLessThanWellFounded
<1>2. \E i \in S : \A j \in S : ~ (<<j, i>> \in Less)
  BY <1>1, WFMin
<1>3. \A i, j \in Nat : <<j, i>> \in Less <=> j < i
  OBVIOUS
<1> HIDE DEF Less
<1>4. PICK i \in S : \A j \in S : ~ (<<j, i>> \in Less)
  BY <1>2
<1>5. \A j \in S : i \in Nat /\ j \in Nat /\ ~ (j < i)
  BY <1>3, <1>4
<1>6. \A j \in S : i <= j
  BY <1>5
<1> QED BY <1>4, <1>6 DEF FirstOf

(* What register_hardware_disk makes of the registry. *)
Behind(new, reg, d) ==
  /\ Len(new) = Len(reg) + 1
  /\ \A i \in 1 .. Len(reg) : new[i] = reg[i]
  /\ new[Len(reg) + 1] = d
InFront(new, reg, d) ==
  /\ Len(new) = Len(reg) + 1
  /\ \A i \in 1 .. Len(reg) : new[i + 1] = reg[i]
  /\ new[1] = d

LEMMA RegisterShape ==
  ASSUME LimitAssumption, NEW reg \in Seq(Disks), Len(reg) <= MaxDisks, NEW d \in Disks
  PROVE  /\ Register(reg, d) \in Seq(Disks) /\ Len(Register(reg, d)) <= MaxDisks
         /\ \/ Register(reg, d) = reg
            \/ Behind(Register(reg, d), reg, d) /\ (d \in Sata => reg = <<>>)
            \/ InFront(Register(reg, d), reg, d) /\ d \in Sata
<1>0. Len(reg) \in Nat /\ MaxDisks \in Nat /\ <<d>> \in Seq(Disks) /\ Len(<<d>>) = 1 /\ <<d>>[1] = d
  BY DEF LimitAssumption
<1>1. CASE Len(reg) >= MaxDisks
  BY <1>0, <1>1 DEF Register
<1>2. CASE Len(reg) < MaxDisks /\ d \in Sata /\ Len(reg) > 0
  <2>1. Register(reg, d) = <<d>> \o reg
    BY <1>0, <1>2 DEF Register
  <2>2. /\ <<d>> \o reg \in Seq(Disks)
        /\ Len(<<d>> \o reg) = 1 + Len(reg)
        /\ \A i \in 1 .. 1 + Len(reg) :
             (<<d>> \o reg)[i] = IF i <= 1 THEN <<d>>[i] ELSE reg[i - 1]
    BY <1>0, ConcatProperties
  <2> QED BY <1>0, <1>2, <2>1, <2>2 DEF InFront
<1>3. CASE Len(reg) < MaxDisks /\ ~(d \in Sata /\ Len(reg) > 0)
  <2>1. Register(reg, d) = Append(reg, d)
    BY <1>0, <1>3 DEF Register
  <2>2. d \in Sata => reg = <<>>
    BY <1>0, <1>3, EmptySeq
  <2> QED BY <1>0, <1>3, <2>1, <2>2, AppendProperties DEF Behind
<1> QED BY <1>0, <1>1, <1>2, <1>3

(* The registry after a disk is registered, if there was room for it. *)
Registered(d) ==
  \/ Behind(hw', hw, d) /\ (d \in Sata => hw = <<>>)
  \/ InFront(hw', hw, d) /\ d \in Sata

HwType == hw \in Seq(Disks) /\ Len(hw) <= MaxDisks

LEMMA RegisterStep ==
  ASSUME LimitAssumption, HwType, NEW d \in Disks, hw' = Register(hw, d)
  PROVE  HwType' /\ (hw' = hw \/ Registered(d))
BY RegisterShape DEF HwType, Registered

LEMMA ScanStep ==
  ASSUME LimitAssumption, HwType, ScanPort(port)
  PROVE  HwType' /\ (hw' = hw \/ (port \in Sata \cup Atapi /\ Registered(port)))
<1>1. CASE hw' = hw
  BY <1>1 DEF HwType
<1>2. CASE port \in Sata \cup Atapi /\ hw' = Register(hw, port)
  BY <1>2, RegisterStep DEF Disks
<1> QED BY <1>1, <1>2 DEF ScanPort

(* Registering keeps the hard disks in front. *)
LEMMA SataFirstStep ==
  ASSUME HwType, HwType', NEW d, hw' = hw \/ Registered(d), SataFirst
  PROVE  SataFirst'
<1>0. /\ Len(hw) \in Nat /\ DOMAIN hw = 1 .. Len(hw)
      /\ Len(hw') \in Nat /\ DOMAIN hw' = 1 .. Len(hw')
      /\ hw = <<>> => Len(hw) = 0
  BY DEF HwType
<1>1. CASE hw' = hw
  BY <1>1 DEF SataFirst
<1>2. CASE Behind(hw', hw, d) /\ (d \in Sata => hw = <<>>)
  BY <1>0, <1>2 DEF SataFirst, Behind
<1>3. CASE InFront(hw', hw, d) /\ d \in Sata
  <2>1. SUFFICES ASSUME NEW i \in 1 .. Len(hw'), NEW j \in 1 .. Len(hw'),
                        i < j, hw'[j] \in Sata
                 PROVE  hw'[i] \in Sata
    BY <1>0 DEF SataFirst
  <2>2. CASE i = 1
    BY <1>3, <2>2 DEF InFront
  <2>3. CASE i > 1
    <3>1. i - 1 \in 1 .. Len(hw) /\ j - 1 \in 1 .. Len(hw) /\ i - 1 < j - 1
      BY <1>0, <1>3, <2>1, <2>3 DEF InFront
    <3>2. hw'[i] = hw[i - 1] /\ hw'[j] = hw[j - 1]
      <4>1. hw'[(i - 1) + 1] = hw[i - 1] /\ hw'[(j - 1) + 1] = hw[j - 1]
        BY <1>3, <3>1 DEF InFront
      <4> QED BY <4>1, <1>0
    <3> QED BY <1>0, <2>1, <3>1, <3>2 DEF SataFirst
  <2> QED BY <1>0, <2>2, <2>3
<1> QED BY <1>1, <1>2, <1>3 DEF Registered

(* Registering a disk that is not there keeps the disks distinct. *)
LEMMA DistinctStep ==
  ASSUME HwType, HwType', NEW d, hw' = hw \/ Registered(d),
         \A i \in DOMAIN hw : hw[i] # d, Distinct
  PROVE  Distinct'
<1>0. /\ Len(hw) \in Nat /\ DOMAIN hw = 1 .. Len(hw)
      /\ Len(hw') \in Nat /\ DOMAIN hw' = 1 .. Len(hw')
  BY DEF HwType
<1>1. CASE hw' = hw
  BY <1>1 DEF Distinct
<1>2. CASE Behind(hw', hw, d)
  <2>1. SUFFICES ASSUME NEW i \in 1 .. Len(hw'), NEW j \in 1 .. Len(hw'), hw'[i] = hw'[j]
                 PROVE  i = j
    BY <1>0 DEF Distinct
  <2>2. CASE i <= Len(hw) /\ j <= Len(hw)
    BY <1>0, <1>2, <2>1, <2>2 DEF Distinct, Behind
  <2>3. CASE ~(i <= Len(hw) /\ j <= Len(hw))
    BY <1>0, <1>2, <2>1, <2>3 DEF Behind
  <2> QED BY <2>2, <2>3
<1>3. CASE InFront(hw', hw, d)
  <2>1. \A i \in 1 .. Len(hw') : i # 1 => i - 1 \in 1 .. Len(hw) /\ hw'[i] = hw[i - 1]
    <3>1. SUFFICES ASSUME NEW i \in 1 .. Len(hw'), i # 1
                   PROVE  i - 1 \in 1 .. Len(hw) /\ hw'[i] = hw[i - 1]
      OBVIOUS
    <3>2. i - 1 \in 1 .. Len(hw) /\ (i - 1) + 1 = i
      BY <1>0, <1>3, <3>1 DEF InFront
    <3> QED BY <1>3, <3>2 DEF InFront
  <2>2. SUFFICES ASSUME NEW i \in 1 .. Len(hw'), NEW j \in 1 .. Len(hw'), hw'[i] = hw'[j]
                 PROVE  i = j
    BY <1>0 DEF Distinct
  <2>3. CASE i = 1 \/ j = 1
    BY <1>0, <1>3, <2>1, <2>2, <2>3 DEF InFront
  <2>4. CASE i # 1 /\ j # 1
    BY <1>0, <2>1, <2>2, <2>4 DEF Distinct
  <2> QED BY <2>3, <2>4
<1> QED BY <1>1, <1>2, <1>3 DEF Registered

(* Every disk in the registry was there before or is the new one. *)
LEMMA RegisteredFrom ==
  ASSUME HwType, HwType', NEW d, hw' = hw \/ Registered(d), NEW i \in DOMAIN hw'
  PROVE  (hw' # hw /\ hw'[i] = d) \/ \E j \in DOMAIN hw : hw'[i] = hw[j]
<1>0. /\ Len(hw) \in Nat /\ DOMAIN hw = 1 .. Len(hw)
      /\ Len(hw') \in Nat /\ DOMAIN hw' = 1 .. Len(hw')
  BY DEF HwType
<1>1. CASE hw' = hw
  BY <1>1
<1>2. CASE hw' # hw /\ Behind(hw', hw, d)
  BY <1>0, <1>2 DEF Behind
<1>3. CASE hw' # hw /\ InFront(hw', hw, d)
  <2>1. CASE i = 1
    BY <1>3, <2>1 DEF InFront
  <2>2. CASE i # 1
    <3>1. i - 1 \in DOMAIN hw /\ (i - 1) + 1 = i
      BY <1>0, <1>3, <2>2 DEF InFront
    <3> QED BY <1>0, <1>3, <3>1 DEF InFront
  <2> QED BY <2>1, <2>2
<1> QED BY <1>1, <1>2, <1>3 DEF Registered

LEMMA HwElements ==
  ASSUME HwType
  PROVE  Len(hw) \in Nat /\ DOMAIN hw = 1 .. Len(hw) /\ \A i \in 1 .. Len(hw) : hw[i] \in Disks
BY ElementOfSeq, LenProperties DEF HwType

(* Mounted indexes stay within the registry, and shift only together with  *)
(* a hard disk that a scan has put in front.                               *)
LEMMA DisplacedStep ==
  ASSUME PortAssumption, HwType, HwType', DisplacedOnlyByScan,
         fatfs \in [FsIds -> [drv : Drives, dev : Disks] \cup {NoVolume}], fatfs' = fatfs,
         NEW d, d >= FirstExt, hw' = hw \/ Registered(d)
  PROVE  DisplacedOnlyByScan'
<1>0. Len(hw) \in Nat /\ Len(hw') \in Nat /\ (hw = <<>> => Len(hw) = 0)
  BY DEF HwType
<1>1. SUFFICES ASSUME NEW f \in FsIds, fatfs[f] # NoVolume
               PROVE  /\ fatfs[f].drv < Len(hw')
                      /\ hw'[fatfs[f].drv + 1] # fatfs[f].dev => hw'[1] \in Sata /\ hw'[1] >= FirstExt
  BY DEF DisplacedOnlyByScan, Active, Present, Displaced, DiskAt
<1>2. fatfs[f].drv \in Nat /\ fatfs[f].drv < Len(hw)
  BY <1>1 DEF DisplacedOnlyByScan, Active, Present, Drives
<1>3. hw[fatfs[f].drv + 1] # fatfs[f].dev => hw[1] \in Sata /\ hw[1] >= FirstExt
  BY <1>1 DEF DisplacedOnlyByScan, Active, Displaced, DiskAt
<1>4. CASE hw' = hw
  BY <1>2, <1>3, <1>4
<1>5. CASE Behind(hw', hw, d)
  BY <1>0, <1>2, <1>3, <1>5 DEF Behind
<1>6. CASE InFront(hw', hw, d) /\ d \in Sata
  BY <1>0, <1>2, <1>6 DEF InFront
<1> QED BY <1>4, <1>5, <1>6 DEF Registered

(* A step that leaves the tables alone keeps what is so of them. *)
LEMMA TablesAlone ==
  ASSUME UNCHANGED <<hw, nodes, fatfs, mount_count>>
  PROVE  /\ SataFirst => SataFirst'
         /\ DisplacedOnlyByScan => DisplacedOnlyByScan'
         /\ VolumesDistinct => VolumesDistinct'
         /\ NodeInv => NodeInv'
<1>1. SataFirst => SataFirst'
  BY DEF SataFirst
<1>2. DisplacedOnlyByScan => DisplacedOnlyByScan'
  BY DEF DisplacedOnlyByScan, Active, Present, Displaced, DiskAt
<1>3. VolumesDistinct => VolumesDistinct'
  BY DEF VolumesDistinct, Active
<1>4. NodeInv => NodeInv'
  BY DEF NodeInv, InUse, Active
<1> QED BY <1>1, <1>2, <1>3, <1>4

(* As long as nothing is mounted, most of the invariant says nothing. *)
LEMMA NothingMountedStep ==
  ASSUME NothingMounted'
  PROVE  DisplacedOnlyByScan' /\ VolumesDistinct' /\ NodeInv'
<1>1. BootFs \in FsIds
  BY DEF FsIds
<1> QED BY <1>1 DEF NothingMounted, DisplacedOnlyByScan, VolumesDistinct, NodeInv, Active

(* A node is added to the VFS table if there is room. *)
NodeType == [name : Names, fs : FsIds \cup {NoVolume}]
LEMMA RegisterNodeStep ==
  ASSUME LimitAssumption, NEW table \in Seq(NodeType), Len(table) <= MaxNodes, NEW node \in NodeType
  PROVE  LET new == RegisterNode(table, node)
         IN /\ new \in Seq(NodeType) /\ Len(new) <= MaxNodes
            /\ \A k \in DOMAIN new :
                 \/ k \in DOMAIN table /\ new[k] = table[k]
                 \/ k = Len(table) + 1 /\ new[k] = node
<1>0. Len(table) \in Nat /\ MaxNodes \in Nat /\ DOMAIN table = 1 .. Len(table)
  BY DEF LimitAssumption
<1>1. CASE Len(table) < MaxNodes
  BY <1>0, <1>1, AppendProperties DEF RegisterNode
<1>2. CASE Len(table) >= MaxNodes
  BY <1>0, <1>2 DEF RegisterNode
<1> QED BY <1>0, <1>1, <1>2

-----------------------------------------------------------------------------
LEMMA InitInv == Assumptions /\ Init => IInv
<1> SUFFICES ASSUME Assumptions, Init PROVE IInv
  OBVIOUS
<1>1. TypeOK
  BY DEF Assumptions, PortAssumption, LimitAssumption, Init, TypeOK, Phases
<1>2. NothingMounted
  BY DEF Init, NothingMounted
<1>3. SataFirst
  BY DEF Init, SataFirst
<1>4. PhaseInv
  BY <1>2 DEF Assumptions, PortAssumption, Init, PhaseInv, FoundOnce, Distinct, BootPhases
<1>5. DisplacedOnlyByScan /\ VolumesDistinct /\ NodeInv
  BY <1>2 DEF NothingMounted, DisplacedOnlyByScan, VolumesDistinct, NodeInv, Active, FsIds
<1> QED BY <1>1, <1>3, <1>4, <1>5 DEF IInv

LEMMA FsFacts ==
  ASSUME Assumptions
  PROVE  /\ BootFs \in FsIds /\ DataFs \in FsIds /\ BootFs # DataFs
         /\ \A i \in Nat : i < MaxMounts => TableFs(i) \in FsIds
         /\ \A i \in Opened : HardwareFs(i) \in FsIds
         /\ \A i, j : TableFs(i) = TableFs(j) => i = j
         /\ \A i, j : HardwareFs(i) \notin {BootFs, DataFs, TableFs(j)}
         /\ \A i : TableFs(i) \notin {BootFs, DataFs}
BY DEF Assumptions, LimitAssumption, FsIds, BootFs, DataFs, TableFs, HardwareFs

LEMMA AhciInitStep == ASSUME Assumptions, IInv, AhciInit PROVE IInv'
<1> USE DEF Assumptions, IInv
<1>0. HwType
  BY DEF TypeOK, HwType
<1>1. HwType' /\ (hw' = hw \/ (port \in Sata \cup Atapi /\ Registered(port)))
  BY <1>0, ScanStep DEF AhciInit
<1>2. TypeOK'
  BY <1>1 DEF TypeOK, HwType, AhciInit, Phases, PhaseInv, PortAssumption
<1>3. SataFirst'
  BY <1>0, <1>1, SataFirstStep
<1>4. NothingMounted'
  BY DEF AhciInit, PhaseInv, BootPhases, NothingMounted
<1>5. FoundOnce'
  <2>1. \A i \in DOMAIN hw : hw[i] # RamDisk /\ hw[i] < port /\ hw[i] # port /\ hw[i] \in Nat
    <3>1. \A i \in DOMAIN hw : hw[i] # RamDisk /\ hw[i] < port
      BY DEF AhciInit, PhaseInv, BootPhases, FoundOnce
    <3>2. \A i \in DOMAIN hw : hw[i] \in Disks
      BY <1>0, HwElements
    <3>3. \A i \in DOMAIN hw : hw[i] \in 0 .. LastPort
      BY <3>1, <3>2 DEF Disks, PortAssumption
    <3> QED BY <3>1, <3>3 DEF TypeOK, PortAssumption
  <2>2. Distinct'
    BY <1>0, <1>1, <2>1, DistinctStep DEF AhciInit, PhaseInv, BootPhases, FoundOnce
  <2>3. \A i \in DOMAIN hw' : hw'[i] # RamDisk /\ hw'[i] < port + 1
    <3>1. SUFFICES ASSUME NEW i \in DOMAIN hw'
                   PROVE  hw'[i] # RamDisk /\ hw'[i] < port + 1
      OBVIOUS
    <3>2. port \in Nat
      BY DEF TypeOK, PortAssumption
    <3>3. CASE hw' # hw /\ hw'[i] = port
      BY <1>1, <3>2, <3>3 DEF PortAssumption
    <3>4. CASE \E j \in DOMAIN hw : hw'[i] = hw[j]
      <4>1. PICK j \in DOMAIN hw : hw'[i] = hw[j]
        BY <3>4
      <4> QED BY <2>1, <3>2, <4>1
    <3> QED BY <1>0, <1>1, <3>3, <3>4, RegisteredFrom
  <2> QED BY <2>2, <2>3 DEF FoundOnce, AhciInit
<1>6. PhaseInv'
  <2>1. phase' \in {"ahci", "vdisk"} /\ (phase' = "ahci" => port' < FirstExt)
    BY DEF AhciInit, PhaseInv, TypeOK, PortAssumption
  <2> QED BY <1>4, <1>5, <2>1 DEF PhaseInv
<1> QED BY <1>2, <1>3, <1>4, <1>6, NothingMountedStep

LEMMA VdiskInitStep == ASSUME Assumptions, IInv, VdiskInit PROVE IInv'
<1> USE DEF Assumptions, IInv
<1>0. HwType
  BY DEF TypeOK, HwType
<1>1. RamDisk \in Disks /\ RamDisk \notin Sata
  BY DEF Disks, PortAssumption
<1>2. HwType' /\ (hw' = hw \/ Registered(RamDisk))
  <2>1. CASE HasInitrd
    BY <1>0, <1>1, <2>1, RegisterStep DEF VdiskInit
  <2>2. CASE ~HasInitrd
    BY <1>0, <2>2 DEF VdiskInit, HwType
  <2> QED BY <2>1, <2>2
<1>3. /\ nodes' \in Seq(NodeType) /\ Len(nodes') <= MaxNodes
      /\ \A k \in DOMAIN nodes' : nodes'[k].fs = NoVolume
  <2>1. Node(Label("/"), NoVolume) \in NodeType
    BY DEF Node, NodeType, Names
  <2>2. <<>> \in Seq(NodeType) /\ Len(<<>>) = 0 /\ Len(<<>>) <= MaxNodes /\ DOMAIN <<>> = {}
    BY EmptySeq DEF LimitAssumption
  <2>3. Node(Label("/"), NoVolume).fs = NoVolume
    BY DEF Node
  <2> QED BY <2>1, <2>2, <2>3, RegisterNodeStep DEF VdiskInit
<1>4. TypeOK'
  BY <1>2, <1>3 DEF TypeOK, HwType, NodeType, VdiskInit, Phases
<1>5. SataFirst'
  BY <1>0, <1>2, SataFirstStep
<1>6. NothingMounted'
  BY <1>3 DEF VdiskInit, PhaseInv, BootPhases, NothingMounted
<1>7. FoundOnce'
  <2>1. \A i \in DOMAIN hw : hw[i] # RamDisk
    BY DEF VdiskInit, PhaseInv, BootPhases, FoundOnce
  <2>2. Distinct'
    BY <1>0, <1>2, <2>1, DistinctStep DEF VdiskInit, PhaseInv, BootPhases, FoundOnce
  <2> QED BY <2>2 DEF FoundOnce, VdiskInit
<1>8. PhaseInv'
  BY <1>6, <1>7 DEF PhaseInv, VdiskInit
<1> QED BY <1>4, <1>5, <1>6, <1>8, NothingMountedStep

(* The drive that boots, and what it is. *)
LEMMA BootDrive ==
  ASSUME LimitAssumption, HwType, NEW atapi \in BOOLEAN, BootDrives(atapi) # {}
  PROVE  LET boot == FirstOf(BootDrives(atapi))
         IN /\ boot \in Drives /\ boot \in Nat /\ Mountable(boot) /\ IsAtapi(boot) = atapi
            /\ DiskAt(boot) \in Disks
            /\ \A j \in BootDrives(atapi) : boot <= j
<1>1. BootDrives(atapi) \in SUBSET Nat
  BY DEF BootDrives, Drives, LimitAssumption
<1> DEFINE boot == FirstOf(BootDrives(atapi))
<1>2. boot \in BootDrives(atapi) /\ \A j \in BootDrives(atapi) : boot <= j
  BY <1>1, FirstOfIs
<1> HIDE DEF boot
<1>3. boot \in Drives /\ Mountable(boot) /\ IsAtapi(boot) = atapi /\ boot \in Nat
  BY <1>1, <1>2 DEF BootDrives
<1>4. boot + 1 \in 1 .. Len(hw)
  BY <1>3, HwElements DEF Mountable, Present
<1>5. DiskAt(boot) \in Disks
  BY <1>4, HwElements DEF DiskAt
<1> QED BY <1>2, <1>3, <1>5 DEF boot

LEMMA MountableDisk ==
  ASSUME HwType, NEW i \in Nat, Present(i)
  PROVE  i + 1 \in DOMAIN hw /\ DiskAt(i) \in Disks
BY HwElements DEF Present, DiskAt

LEMMA MountBootStep == ASSUME Assumptions, IInv, MountBoot PROVE IInv'
<1> USE DEF Assumptions, IInv
<1> DEFINE candidates == IF BootDrives(FALSE) # {} THEN BootDrives(FALSE) ELSE BootDrives(TRUE)
           boot == FirstOf(candidates)
           second == SecondDrive(boot)
           bname == IF IsAtapi(boot) THEN Label("INITRD") ELSE Label("BOOT")
           bnodes == RegisterNode(nodes, Node(bname, BootFs))
           both == /\ Len(hw) > 1 /\ Mountable(second)
                   /\ fatfs' = [fatfs EXCEPT ![BootFs] = Volume(boot), ![DataFs] = Volume(second)]
                   /\ nodes' = RegisterNode(bnodes, Node(Label("DISK0"), DataFs))
           one == /\ fatfs' = [fatfs EXCEPT ![BootFs] = Volume(boot)]
                  /\ nodes' = bnodes
<1>0. /\ candidates # {} /\ (both \/ one)
      /\ phase = "mount" /\ phase' = "shell" /\ connected' = Append(connected, DiskAt(boot))
      /\ UNCHANGED <<port, hw, mount_count, formatted, answers, strayed>>
  BY DEF MountBoot
<1>1. HwType
  BY DEF TypeOK, HwType
<1>2. /\ boot \in Drives /\ boot \in Nat /\ Mountable(boot) /\ DiskAt(boot) \in Disks
  <2>1. CASE BootDrives(FALSE) # {}
    BY <1>1, <2>1, BootDrive
  <2>2. CASE BootDrives(FALSE) = {}
    BY <1>0, <1>1, <2>2, BootDrive
  <2> QED BY <2>1, <2>2
<1> HIDE DEF candidates, boot
<1>3. second \in Drives /\ second \in Nat /\ second # boot
  BY <1>2 DEF SecondDrive, Drives, LimitAssumption
<1>4. both => DiskAt(second) \in Disks
  BY <1>1, <1>3, MountableDisk DEF Mountable
<1>5. /\ NothingMounted /\ FoundOnce
  BY <1>0 DEF PhaseInv, BootPhases
<1>6. /\ Volume(boot) \in [drv : Drives, dev : Disks]
      /\ both => Volume(second) \in [drv : Drives, dev : Disks]
  BY <1>2, <1>3, <1>4 DEF Volume
<1> HIDE DEF second
<1>7. /\ bnodes \in Seq(NodeType) /\ Len(bnodes) <= MaxNodes
      /\ \A k \in DOMAIN bnodes :
           \/ k \in DOMAIN nodes /\ bnodes[k] = nodes[k]
           \/ k = Len(nodes) + 1 /\ bnodes[k] = Node(bname, BootFs)
  <2>1. Node(bname, BootFs) \in NodeType
    BY FsFacts DEF Node, NodeType, Names
  <2>2. nodes \in Seq(NodeType) /\ Len(nodes) <= MaxNodes
    BY DEF TypeOK, NodeType
  <2> QED BY <2>1, <2>2, RegisterNodeStep
<1>8. both =>
        /\ nodes' \in Seq(NodeType) /\ Len(nodes') <= MaxNodes
        /\ \A k \in DOMAIN nodes' :
             \/ k \in DOMAIN bnodes /\ nodes'[k] = bnodes[k]
             \/ k = Len(bnodes) + 1 /\ nodes'[k] = Node(Label("DISK0"), DataFs)
  <2>1. Node(Label("DISK0"), DataFs) \in NodeType
    BY FsFacts DEF Node, NodeType, Names
  <2> DEFINE new == RegisterNode(bnodes, Node(Label("DISK0"), DataFs))
  <2> HIDE DEF bnodes
  <2>2. /\ new \in Seq(NodeType) /\ Len(new) <= MaxNodes
        /\ \A k \in DOMAIN new :
             \/ k \in DOMAIN bnodes /\ new[k] = bnodes[k]
             \/ k = Len(bnodes) + 1 /\ new[k] = Node(Label("DISK0"), DataFs)
    BY <1>7, <2>1, RegisterNodeStep
  <2>3. both => nodes' = new
    OBVIOUS
  <2> HIDE DEF new, both
  <2> QED BY <2>2, <2>3
<1>9. TypeOK'
  <2>1. fatfs' \in [FsIds -> [drv : Drives, dev : Disks] \cup {NoVolume}]
    <3>1. fatfs \in [FsIds -> [drv : Drives, dev : Disks] \cup {NoVolume}]
      BY DEF TypeOK
    <3>2. PICK alone : alone = [fatfs EXCEPT ![BootFs] = Volume(boot)]
      OBVIOUS
    <3>3. alone \in [FsIds -> [drv : Drives, dev : Disks] \cup {NoVolume}]
      BY <1>6, <3>1, <3>2
    <3>4. fatfs' = IF both THEN [alone EXCEPT ![DataFs] = Volume(second)] ELSE alone
      BY <1>0, <3>2
    <3> HIDE DEF both
    <3> QED BY <1>6, <3>3, <3>4
  <2>2. nodes' \in Seq(NodeType) /\ Len(nodes') <= MaxNodes
    BY <1>0, <1>7, <1>8
  <2>3. connected' \in Seq(Disks) /\ Len(connected') <= 1
    <3>1. <<>> \in Seq(Disks) /\ Len(<<>>) = 0
      BY EmptySeq
    <3> QED BY <1>0, <1>2, <1>5, <3>1, AppendProperties DEF NothingMounted
  <2> QED BY <1>0, <1>1, <2>1, <2>2, <2>3 DEF TypeOK, HwType, NodeType, Phases
<1>10. SataFirst'
  BY <1>0 DEF SataFirst
<1>11. DisplacedOnlyByScan'
  <2>1. SUFFICES ASSUME NEW f \in FsIds, fatfs'[f] # NoVolume
                 PROVE  fatfs'[f].drv < Len(hw) /\ hw[fatfs'[f].drv + 1] = fatfs'[f].dev
    BY <1>0 DEF DisplacedOnlyByScan, Active, Present, Displaced, DiskAt
  <2>2. \/ fatfs'[f] = Volume(boot)
        \/ both /\ fatfs'[f] = Volume(second)
    BY <1>0, <1>5, <2>1 DEF NothingMounted, TypeOK
  <2>3. CASE fatfs'[f] = Volume(boot)
    BY <1>2, <2>3 DEF Volume, Mountable, Present, DiskAt
  <2>4. CASE both /\ fatfs'[f] = Volume(second)
    BY <2>4 DEF Volume, Mountable, Present, DiskAt
  <2> QED BY <2>2, <2>3, <2>4
<1>12. VolumesDistinct'
  <2>1. CASE both
    <3>1. fatfs'[BootFs].dev = DiskAt(boot) /\ fatfs'[DataFs].dev = DiskAt(second)
      BY <2>1, FsFacts DEF TypeOK, Volume
    <3>2. boot + 1 \in DOMAIN hw /\ second + 1 \in DOMAIN hw /\ boot + 1 # second + 1
      BY <1>1, <1>2, <1>3, <2>1, MountableDisk DEF Mountable
    <3>3. DiskAt(boot) # DiskAt(second)
      BY <1>5, <3>2 DEF FoundOnce, Distinct, DiskAt
    <3> QED BY <3>1, <3>3 DEF VolumesDistinct
  <2>2. CASE one
    BY <1>5, <2>2, FsFacts DEF TypeOK, NothingMounted, VolumesDistinct, Active
  <2> QED BY <1>0, <2>1, <2>2
<1>13. PhaseInv'
  BY <1>0 DEF PhaseInv, BootPhases
<1>14. NodeInv'
  <2>1. \A k \in DOMAIN nodes : nodes[k].fs = NoVolume
    BY <1>5 DEF NothingMounted
  <2>2. Len(nodes) \in Nat /\ DOMAIN nodes = 1 .. Len(nodes) /\ Len(bnodes) \in Nat /\ DOMAIN bnodes = 1 .. Len(bnodes)
    BY <1>7 DEF TypeOK
  <2>3. \A k \in DOMAIN nodes' :
          \/ nodes'[k].fs = NoVolume
          \/ nodes'[k].fs = BootFs /\ k = Len(nodes) + 1
          \/ both /\ nodes'[k].fs = DataFs /\ k = Len(bnodes) + 1
    <3>1. \A k \in DOMAIN bnodes : bnodes[k].fs = NoVolume \/ (bnodes[k].fs = BootFs /\ k = Len(nodes) + 1)
      BY <1>7, <2>1 DEF Node
    <3> QED BY <1>0, <1>8, <3>1 DEF Node
  <2>4. /\ NoVolume \notin {BootFs, DataFs} /\ BootFs # DataFs
        /\ fatfs'[BootFs] # NoVolume /\ (both => fatfs'[DataFs] # NoVolume)
    BY <1>0, <1>6, FsFacts DEF TypeOK, VolumeAssumption
  <2> QED BY <2>3, <2>4 DEF NodeInv, InUse, Active
<1> QED BY <1>9, <1>10, <1>11, <1>12, <1>13, <1>14

LEMMA ScanRemainingStep == ASSUME Assumptions, IInv, ScanRemaining PROVE IInv'
<1> USE DEF Assumptions, IInv
<1>0. HwType /\ port \in FirstExt .. LastPort
  BY DEF TypeOK, HwType, PhaseInv, ScanRemaining
<1>1. HwType' /\ (hw' = hw \/ Registered(port))
  BY <1>0, ScanStep DEF ScanRemaining
<1>2. TypeOK'
  BY <1>0, <1>1 DEF TypeOK, HwType, ScanRemaining, Phases, PortAssumption
<1>3. SataFirst'
  BY <1>0, <1>1, SataFirstStep
<1>4. DisplacedOnlyByScan'
  <2>1. port >= FirstExt
    BY <1>0 DEF PortAssumption
  <2> QED BY <1>0, <1>1, <2>1, DisplacedStep DEF ScanRemaining, TypeOK
<1>5. VolumesDistinct'
  BY DEF VolumesDistinct, Active, ScanRemaining
<1>6. PhaseInv'
  BY <1>0 DEF PhaseInv, ScanRemaining, BootPhases, PortAssumption
<1>7. NodeInv'
  BY DEF NodeInv, InUse, Active, ScanRemaining
<1> QED BY <1>2, <1>3, <1>4, <1>5, <1>6, <1>7

LEMMA MountStep == ASSUME Assumptions, IInv, NEW i \in Drives, Mount(i) PROVE IInv'
<1> USE DEF Assumptions, IInv
<1> DEFINE fs == TableFs(mount_count)
<1>0. HwType /\ i \in Nat /\ mount_count \in Nat /\ MaxMounts \in Nat /\ mount_count < MaxMounts
  BY DEF TypeOK, HwType, Drives, LimitAssumption, Mount
<1>1. DiskAt(i) \in Disks /\ Volume(i) \in [drv : Drives, dev : Disks] /\ Volume(i) # NoVolume
  BY <1>0, MountableDisk DEF Mount, Mountable, Volume, VolumeAssumption
<1>2. fs \in FsIds /\ fs \notin {BootFs, DataFs} /\ fs # NoVolume
  BY <1>0, FsFacts DEF VolumeAssumption
<1>3. /\ nodes' \in Seq(NodeType) /\ Len(nodes') <= MaxNodes
      /\ \A k \in DOMAIN nodes' :
           \/ k \in DOMAIN nodes /\ nodes'[k] = nodes[k]
           \/ k = Len(nodes) + 1 /\ nodes'[k].fs = fs
  <2>1. Node(Number(i), fs) \in NodeType /\ Node(Number(i), fs).fs = fs
    BY <1>2 DEF Node, NodeType, Names
  <2>2. nodes \in Seq(NodeType) /\ Len(nodes) <= MaxNodes
    BY DEF TypeOK, NodeType
  <2>3. nodes' = RegisterNode(nodes, Node(Number(i), fs))
    BY DEF Mount
  <2> QED BY <2>1, <2>2, <2>3, RegisterNodeStep
<1>4. fatfs' = [fatfs EXCEPT ![fs] = Volume(i)] /\ mount_count' = mount_count + 1
      /\ UNCHANGED <<phase, port, hw, connected, formatted, answers, strayed>> /\ phase = "shell"
  BY DEF Mount
<1> HIDE DEF fs
<1>5. TypeOK'
  BY <1>0, <1>1, <1>2, <1>3, <1>4 DEF TypeOK, NodeType
<1>6. SataFirst' /\ PhaseInv'
  BY <1>4 DEF SataFirst, PhaseInv, BootPhases
<1>7. DisplacedOnlyByScan'
  <2>1. SUFFICES ASSUME NEW f \in FsIds, fatfs'[f] # NoVolume
                 PROVE  /\ fatfs'[f].drv < Len(hw)
                        /\ hw[fatfs'[f].drv + 1] # fatfs'[f].dev => hw[1] \in Sata /\ hw[1] >= FirstExt
    BY <1>4 DEF DisplacedOnlyByScan, Active, Present, Displaced, DiskAt
  <2>2. CASE f = fs
    <3>1. fatfs'[f] = Volume(i)
      BY <1>4, <2>2 DEF TypeOK
    <3> QED BY <3>1 DEF Mount, Mountable, Present, Volume, DiskAt
  <2>3. CASE f # fs
    <3>1. fatfs'[f] = fatfs[f]
      BY <1>4, <2>3 DEF TypeOK
    <3> QED BY <2>1, <3>1 DEF DisplacedOnlyByScan, Active, Present, Displaced, DiskAt
  <2> QED BY <2>2, <2>3
<1>8. VolumesDistinct'
  BY <1>2, <1>4, FsFacts DEF VolumesDistinct, Active, TypeOK
<1>9. NodeInv'
  <2>1. Len(nodes) \in Nat /\ DOMAIN nodes = 1 .. Len(nodes)
    BY DEF TypeOK
  <2>2. \A k \in DOMAIN nodes : nodes[k].fs # fs /\ nodes[k].fs \in FsIds \cup {NoVolume}
    <3>1. SUFFICES ASSUME NEW k \in DOMAIN nodes PROVE nodes[k].fs # fs /\ nodes[k].fs \in FsIds \cup {NoVolume}
      OBVIOUS
    <3>2. nodes[k] \in NodeType
      BY <2>1, ElementOfSeq DEF TypeOK, NodeType
    <3>3. nodes[k].fs # NoVolume => InUse(nodes[k].fs, mount_count)
      BY DEF NodeInv
    <3>4. ~InUse(fs, mount_count)
      BY <1>0, <1>2, FsFacts DEF InUse, fs
    <3> QED BY <1>2, <3>2, <3>3, <3>4 DEF NodeType
  <2>3. InUse(fs, mount_count + 1)
    BY <1>0 DEF InUse, fs
  <2>4. \A f : InUse(f, mount_count) => InUse(f, mount_count + 1)
    BY <1>0 DEF InUse
  <2>5. SUFFICES ASSUME NEW k \in DOMAIN nodes', nodes'[k].fs # NoVolume
                 PROVE  /\ InUse(nodes'[k].fs, mount_count + 1)
                        /\ fatfs'[nodes'[k].fs] # NoVolume
                        /\ \A j \in DOMAIN nodes' : nodes'[j].fs = nodes'[k].fs => j = k
    BY <1>4 DEF NodeInv, Active
  <2>6. CASE k \in DOMAIN nodes /\ nodes'[k] = nodes[k]
    <3>1. InUse(nodes[k].fs, mount_count) /\ fatfs[nodes[k].fs] # NoVolume
      BY <2>5, <2>6 DEF NodeInv, Active
    <3>2. fatfs'[nodes[k].fs] = fatfs[nodes[k].fs]
      BY <1>4, <2>2, <2>5, <2>6 DEF TypeOK
    <3>3. \A j \in DOMAIN nodes' : nodes'[j].fs = nodes'[k].fs => j = k
      BY <1>3, <2>2, <2>5, <2>6 DEF NodeInv
    <3> QED BY <2>4, <2>6, <3>1, <3>2, <3>3
  <2>7. CASE k = Len(nodes) + 1 /\ nodes'[k].fs = fs
    <3>1. fatfs'[fs] # NoVolume
      BY <1>1, <1>2, <1>4 DEF TypeOK
    <3>2. \A j \in DOMAIN nodes' : nodes'[j].fs = fs => j = k
      BY <1>3, <2>2, <2>7
    <3> QED BY <2>3, <2>7, <3>1, <3>2
  <2> QED BY <1>3, <2>6, <2>7
<1> QED BY <1>5, <1>6, <1>7, <1>8, <1>9

(* The actions that leave the registry, the nodes and the volumes alone. *)
LEMMA QuietStep ==
  ASSUME Assumptions, IInv, UNCHANGED <<hw, connected, nodes, fatfs, mount_count>>, TypeOK',
         \/ phase' = "prompt" /\ phase = "mount"
         \/ phase' = "halted" /\ phase = "prompt"
         \/ phase' \in {"shell", "panic"}
         \/ phase' = "scan" /\ port' = FirstExt
         \/ UNCHANGED <<phase, port>>
  PROVE  IInv'
<1>1. SataFirst' /\ DisplacedOnlyByScan' /\ VolumesDistinct' /\ NodeInv'
  BY TablesAlone DEF IInv
<1>2. PhaseInv'
  BY DEF Assumptions, PortAssumption, IInv, PhaseInv, BootPhases, FoundOnce, Distinct, NothingMounted
<1> QED BY <1>1, <1>2 DEF IInv

LEMMA QuietActions ==
  ASSUME Assumptions, IInv,
         NothingToBoot \/ Install \/ Scan \/ \E i \in Drives : Format(i) \/ Eject(i)
  PROVE  IInv'
<1> USE DEF Assumptions
<1>0. HwType /\ TypeOK
  BY DEF IInv, TypeOK, HwType
<1>1. CASE NothingToBoot
  <2>1. TypeOK'
    BY <1>0, <1>1 DEF TypeOK, NothingToBoot, Phases
  <2> QED BY <1>1, <2>1, QuietStep DEF NothingToBoot
<1>2. CASE Install
  <2> DEFINE targets == {i \in Drives : Present(i) /\ ~IsAtapi(i)}
  <2>1. formatted' \subseteq Disks
    <3>1. CASE targets # {} /\ Mkfs(DiskAt(FirstOf(targets)))
      BY <1>0, <3>1 DEF Mkfs, Writable, Disks, TypeOK
    <3> QED BY <1>0, <1>2, <3>1 DEF Install, TypeOK
  <2>2. TypeOK'
    BY <1>0, <1>2, <2>1 DEF TypeOK, Install, Phases
  <2> QED BY <1>2, <2>2, QuietStep DEF Install
<1>3. CASE Scan
  <2>1. TypeOK'
    BY <1>0, <1>3 DEF TypeOK, Scan, Phases, PortAssumption
  <2> QED BY <1>3, <2>1, QuietStep DEF Scan
<1>4. ASSUME NEW i \in Drives, Format(i) PROVE IInv'
  <2>1. formatted' \subseteq Disks
    BY <1>0, <1>4 DEF Format, Mkfs, Writable, Disks, TypeOK
  <2>2. TypeOK'
    BY <1>0, <1>4, <2>1 DEF TypeOK, Format, Phases
  <2> QED BY <1>4, <2>2, QuietStep DEF Format
<1>5. ASSUME NEW i \in Drives, Eject(i) PROVE IInv'
  <2>1. TypeOK'
    BY <1>0, <1>5 DEF TypeOK, Eject
  <2> QED BY <1>5, <2>1, QuietStep DEF Eject
<1> QED BY <1>1, <1>2, <1>3, <1>4, <1>5

(* A write through a mounted volume goes to a disk. *)
LEMMA TouchStep ==
  ASSUME Assumptions, IInv, NEW f \in FsIds, fatfs[f] # NoVolume, Touch(fatfs[f])
  PROVE  strayed' \subseteq Disks
<1>1. fatfs[f].drv \in Nat /\ Present(fatfs[f].drv)
  BY DEF Assumptions, LimitAssumption, IInv, TypeOK, DisplacedOnlyByScan, Active, Drives
<1>2. DiskAt(fatfs[f].drv) \in Disks
  BY <1>1, MountableDisk DEF IInv, TypeOK, HwType
<1> QED BY <1>2 DEF Touch, IInv, TypeOK

LEMMA NodeElements ==
  ASSUME TypeOK
  PROVE  \A k \in DOMAIN nodes : nodes[k] \in NodeType
<1>1. nodes \in Seq(NodeType) /\ DOMAIN nodes = 1 .. Len(nodes)
  BY DEF TypeOK, NodeType
<1> QED BY <1>1, ElementOfSeq

LEMMA WriteStep == ASSUME Assumptions, IInv, NEW name \in Names, Write(name) PROVE IInv'
<1>1. PICK k \in Route(name) : nodes[k].fs # NoVolume /\ Touch(fatfs[nodes[k].fs])
  BY DEF Write
<1>2. k \in DOMAIN nodes /\ nodes[k] \in NodeType
  BY <1>1, NodeElements DEF Route, IInv
<1>3. nodes[k].fs \in FsIds /\ fatfs[nodes[k].fs] # NoVolume
  BY <1>1, <1>2 DEF IInv, NodeInv, Active, NodeType
<1>4. strayed' \subseteq Disks
  BY <1>1, <1>3, TouchStep
<1>5. TypeOK'
  BY <1>4 DEF IInv, TypeOK, Write
<1> QED BY <1>5, QuietStep DEF Write

LEMMA OpenByNumberStep == ASSUME Assumptions, IInv, NEW i \in Opened, OpenByNumber(i) PROVE IInv'
<1> DEFINE fs == HardwareFs(i)
<1>0. /\ TypeOK /\ HwType /\ i \in Nat /\ i \in Drives
      /\ fs \in FsIds /\ fs \notin {BootFs, DataFs} /\ fs # NoVolume
      /\ \A n : ~InUse(fs, n)
  <2>1. TypeOK /\ HwType /\ i \in Nat /\ i \in Drives
    BY DEF Assumptions, LimitAssumption, IInv, TypeOK, HwType, Drives
  <2>2. fs \in FsIds /\ fs # NoVolume
    BY FsFacts DEF Assumptions, VolumeAssumption
  <2>3. fs \notin {BootFs, DataFs} /\ \A n : fs # TableFs(n)
    BY FsFacts
  <2> QED BY <2>1, <2>2, <2>3 DEF InUse
<1>1. CASE fatfs[fs] # NoVolume /\ Touch(fatfs[fs]) /\ UNCHANGED <<phase, fatfs>>
  <2>1. strayed' \subseteq Disks
    BY <1>0, <1>1, TouchStep
  <2>2. TypeOK'
    BY <1>0, <1>1, <2>1 DEF TypeOK, OpenByNumber
  <2> QED BY <1>1, <2>2, QuietStep DEF OpenByNumber
<1>2. CASE /\ fatfs[fs] = NoVolume /\ Mountable(i)
           /\ fatfs' = [fatfs EXCEPT ![fs] = Volume(i)]
           /\ UNCHANGED <<phase, strayed>>
  <2>1. Volume(i) \in [drv : Drives, dev : Disks]
    BY <1>0, <1>2, MountableDisk DEF Mountable, Volume
  <2>2. UNCHANGED <<phase, port, hw, connected, nodes, mount_count, formatted, answers, strayed>> /\ phase = "shell"
    BY <1>2 DEF OpenByNumber
  <2> HIDE DEF fs
  <2>3. TypeOK'
    BY <1>0, <1>2, <2>1, <2>2 DEF TypeOK
  <2>4. SataFirst' /\ PhaseInv'
    BY <2>2 DEF IInv, SataFirst, PhaseInv, BootPhases
  <2>5. DisplacedOnlyByScan'
    <3>1. SUFFICES ASSUME NEW f \in FsIds, fatfs'[f] # NoVolume
                   PROVE  /\ fatfs'[f].drv < Len(hw)
                          /\ hw[fatfs'[f].drv + 1] # fatfs'[f].dev => hw[1] \in Sata /\ hw[1] >= FirstExt
      BY <2>2 DEF DisplacedOnlyByScan, Active, Present, Displaced, DiskAt
    <3>2. CASE f = fs
      BY <1>0, <1>2, <3>2 DEF TypeOK, Mountable, Present, Volume, DiskAt
    <3>3. CASE f # fs
      <4>1. fatfs'[f] = fatfs[f]
        BY <1>0, <1>2, <3>3 DEF TypeOK
      <4> QED BY <3>1, <4>1 DEF IInv, DisplacedOnlyByScan, Active, Present, Displaced, DiskAt
    <3> QED BY <3>2, <3>3
  <2>6. VolumesDistinct'
    BY <1>0, <1>2 DEF IInv, VolumesDistinct, Active, TypeOK
  <2>7. NodeInv'
    <3>1. \A k \in DOMAIN nodes : nodes[k].fs # NoVolume => nodes[k].fs # fs /\ nodes[k].fs \in FsIds
      <4>1. SUFFICES ASSUME NEW k \in DOMAIN nodes, nodes[k].fs # NoVolume
                     PROVE  nodes[k].fs # fs /\ nodes[k].fs \in FsIds
        OBVIOUS
      <4>2. nodes[k] \in NodeType
        BY <1>0, NodeElements
      <4> QED BY <1>0, <4>1, <4>2 DEF IInv, NodeInv, NodeType
    <3>2. \A k \in DOMAIN nodes : nodes[k].fs # NoVolume => fatfs'[nodes[k].fs] = fatfs[nodes[k].fs]
      BY <1>0, <1>2, <3>1 DEF TypeOK
    <3> QED BY <2>2, <3>2 DEF IInv, NodeInv, Active
  <2> QED BY <2>3, <2>4, <2>5, <2>6, <2>7 DEF IInv
<1>3. CASE phase' = "panic" /\ UNCHANGED <<fatfs, strayed>>
  <2>1. TypeOK'
    BY <1>0, <1>3 DEF TypeOK, OpenByNumber, Phases
  <2> QED BY <1>3, <2>1, QuietStep DEF OpenByNumber
<1> QED BY <1>1, <1>2, <1>3 DEF OpenByNumber

LEMMA RebootStep == ASSUME Assumptions, IInv, Reboot PROVE IInv'
<1> USE DEF Assumptions
<1>1. TypeOK'
  BY DEF IInv, TypeOK, Reboot, Phases, PortAssumption, LimitAssumption
<1>2. NothingMounted'
  BY DEF Reboot, NothingMounted
<1>3. SataFirst'
  BY DEF Reboot, SataFirst
<1>4. PhaseInv'
  BY <1>2 DEF PortAssumption, Reboot, PhaseInv, FoundOnce, Distinct
<1> QED BY <1>1, <1>2, <1>3, <1>4, NothingMountedStep DEF IInv
-----------------------------------------------------------------------------
LEMMA StepInv == Assumptions /\ IInv /\ [Next]_vars => IInv'
<1> SUFFICES ASSUME Assumptions, IInv, [Next]_vars PROVE IInv'
  OBVIOUS
<1>1. CASE BootStep
  BY <1>1, AhciInitStep, VdiskInitStep, MountBootStep, QuietActions DEF BootStep
<1>2. CASE Command
  <2>1. ASSUME NEW i \in Drives, Mount(i) \/ Format(i) \/ Eject(i) PROVE IInv'
    BY <2>1, MountStep, QuietActions
  <2> QED BY <1>2, <2>1, ScanRemainingStep, OpenByNumberStep, WriteStep, QuietActions DEF Command
<1>3. CASE Reboot
  BY <1>3, RebootStep
<1>4. CASE UNCHANGED vars
  <2>1. TypeOK'
    BY <1>4 DEF IInv, TypeOK, vars
  <2> QED BY <1>4, <2>1, QuietStep DEF vars
<1> QED BY <1>1, <1>2, <1>3, <1>4 DEF Next

(* The invariant of the registry, the mounts and the VFS table. *)
THEOREM Invariant == Spec => []IInv
<1>0. Assumptions
  BY PortAssumption, LimitAssumption, VolumeAssumption DEF Assumptions
<1>1. Init => IInv
  BY <1>0, InitInv
<1>2. IInv /\ [Next]_vars => IInv'
  BY <1>0, StepInv
<1> QED BY <1>1, <1>2, PTL DEF Spec

(* Every variable keeps its type (vdisk.c, vfs.c, rsl_commands.c). *)
THEOREM TypeCorrect == Spec => []TypeOK
<1>1. IInv => TypeOK
  BY DEF IInv
<1> QED BY <1>1, Invariant, PTL

(* Hard disks come first in hw_registry (register_hardware_disk). *)
THEOREM SataFirstHolds == Spec => []SataFirst
<1>1. IInv => SataFirst
  BY DEF IInv
<1> QED BY <1>1, Invariant, PTL

(* The drive of a mounted FATFS names a disk, and another one than was     *)
(* mounted only after a scan has found a hard disk (ahci_scan_remaining).  *)
THEOREM DisplacedOnlyByScanHolds == Spec => []DisplacedOnlyByScan
<1>1. IInv => DisplacedOnlyByScan
  BY DEF IInv
<1> QED BY <1>1, Invariant, PTL

(* _start never mounts one disk as BOOT and as DISK0. *)
THEOREM VolumesDistinctHolds == Spec => []VolumesDistinct
<1>1. IInv => VolumesDistinct
  BY DEF IInv
<1> QED BY <1>1, Invariant, PTL
-----------------------------------------------------------------------------
LEMMA OrderKept ==
  ASSUME HwType, HwType', NEW d, hw' = hw \/ Registered(d)
  PROVE  \E k \in 0 .. Len(hw') - Len(hw) : SubSeq(hw', k + 1, k + Len(hw)) = hw
<1>0. /\ Len(hw) \in Nat /\ DOMAIN hw = 1 .. Len(hw) /\ hw \in Seq(Disks)
      /\ Len(hw') \in Nat /\ DOMAIN hw' = 1 .. Len(hw') /\ hw' \in Seq(Disks)
  BY DEF HwType
<1>1. ASSUME NEW k \in Nat, k + Len(hw) <= Len(hw'),
             \A i \in 1 .. Len(hw) : hw'[k + i] = hw[i]
      PROVE  SubSeq(hw', k + 1, k + Len(hw)) = hw
  <2>1. \A i \in k + 1 .. k + Len(hw) : hw'[i] \in Disks
    BY <1>0, <1>1, ElementOfSeq
  <2>2. /\ SubSeq(hw', k + 1, k + Len(hw)) \in Seq(Disks)
        /\ Len(SubSeq(hw', k + 1, k + Len(hw))) = IF k + 1 <= k + Len(hw) THEN k + Len(hw) - (k + 1) + 1 ELSE 0
        /\ \A i \in 1 .. k + Len(hw) - (k + 1) + 1 :
             SubSeq(hw', k + 1, k + Len(hw))[i] = hw'[k + 1 + i - 1]
    <3>1. k + 1 \in Int /\ k + Len(hw) \in Int
      BY <1>0
    <3> QED BY <2>1, <3>1, SubSeqProperties, SMTT(30)
  <2>3. Len(SubSeq(hw', k + 1, k + Len(hw))) = Len(hw)
    <3>1. (IF k + 1 <= k + Len(hw) THEN k + Len(hw) - (k + 1) + 1 ELSE 0) = Len(hw)
      BY <1>0
    <3> QED BY <2>2, <3>1
  <2>4. \A i \in 1 .. Len(hw) : SubSeq(hw', k + 1, k + Len(hw))[i] = hw[i]
    <3>1. SUFFICES ASSUME NEW i \in 1 .. Len(hw)
                   PROVE  SubSeq(hw', k + 1, k + Len(hw))[i] = hw[i]
      OBVIOUS
    <3>2. i \in 1 .. k + Len(hw) - (k + 1) + 1 /\ k + 1 + i - 1 = k + i
      BY <1>0
    <3> QED BY <1>1, <2>2, <3>2
  <2> QED BY <1>0, <2>2, <2>3, <2>4, SeqEqual
<1>2. CASE hw' = hw
  <2>1. SubSeq(hw', 0 + 1, 0 + Len(hw)) = hw
    BY <1>0, <1>1, <1>2
  <2> QED BY <1>0, <1>2, <2>1
<1>3. CASE Behind(hw', hw, d)
  <2>1. SubSeq(hw', 0 + 1, 0 + Len(hw)) = hw
    BY <1>0, <1>1, <1>3 DEF Behind
  <2> QED BY <1>0, <1>3, <2>1 DEF Behind
<1>4. CASE InFront(hw', hw, d)
  <2>1. SubSeq(hw', 1 + 1, 1 + Len(hw)) = hw
    BY <1>0, <1>1, <1>4 DEF InFront
  <2> QED BY <1>0, <1>4, <2>1 DEF InFront
<1> QED BY <1>2, <1>3, <1>4 DEF Registered

(* Until the next boot no disk leaves the registry or changes places with  *)
(* another one (register_hardware_disk).                                   *)
THEOREM RegistryKeepsOrderHolds == Spec => RegistryKeepsOrder
<1>0. Assumptions
  BY PortAssumption, LimitAssumption, VolumeAssumption DEF Assumptions
<1>1. IInv /\ [Next]_vars => [KeepsOrder]_vars
  <2> USE <1>0
  <2> SUFFICES ASSUME IInv, [Next]_vars PROVE KeepsOrder
    OBVIOUS
  <2>0. HwType
    BY DEF IInv, TypeOK, HwType
  <2>1. CASE Reboot
    BY <2>1 DEF Reboot, KeepsOrder
  <2>2. CASE AhciInit \/ ScanRemaining
    <3>1. HwType' /\ (hw' = hw \/ Registered(port))
      BY <2>0, <2>2, ScanStep DEF Assumptions, AhciInit, ScanRemaining
    <3> QED BY <2>0, <3>1, OrderKept DEF KeepsOrder
  <2>3. CASE VdiskInit
    <3>1. HwType' /\ (hw' = hw \/ Registered(RamDisk))
      <4>1. CASE HasInitrd
        BY <2>0, <2>3, <4>1, RegisterStep DEF Assumptions, VdiskInit, Disks
      <4>2. CASE ~HasInitrd
        BY <2>0, <2>3, <4>2 DEF VdiskInit, HwType
      <4> QED BY <4>1, <4>2
    <3> QED BY <2>0, <3>1, OrderKept DEF KeepsOrder
  <2>4. CASE UNCHANGED hw
    <3>1. HwType'
      BY <2>0, <2>4 DEF HwType
    <3> QED BY <2>0, <2>4, <3>1, OrderKept DEF KeepsOrder
  <2>5. UNCHANGED hw \/ AhciInit \/ ScanRemaining \/ VdiskInit \/ Reboot
    BY DEF Next, BootStep, Command, MountBoot, NothingToBoot, Install, Scan, Mount, Format,
           Eject, OpenByNumber, Write, vars
  <2> QED BY <2>1, <2>2, <2>3, <2>4, <2>5
<1> QED BY <1>1, Invariant, PTL DEF Spec, RegistryKeepsOrder

(* _start boots from a hard disk whenever one has a volume. *)
THEOREM SataBootsHolds == Spec => SataBoots
<1>0. Assumptions
  BY PortAssumption, LimitAssumption, VolumeAssumption DEF Assumptions
<1>1. IInv /\ [Next]_vars => [BootsFromSata]_vars
  <2> USE <1>0
  <2> SUFFICES ASSUME IInv, [Next]_vars,
                      phase = "mount", phase' = "shell",
                      NEW i \in DOMAIN hw, hw[i] \in Sata \cap formatted \cap answers
               PROVE  fatfs'[BootFs].dev \in Sata
    BY DEF BootsFromSata
  <2> DEFINE boot == FirstOf(BootDrives(FALSE))
  <2>0. HwType /\ TypeOK
    BY DEF IInv, TypeOK, HwType
  <2>1. MountBoot
    BY DEF Next, BootStep, Command, AhciInit, VdiskInit, NothingToBoot, Install, Scan,
           ScanRemaining, Mount, Format, Eject, OpenByNumber, Write, Reboot, vars
  <2>2. i \in 1 .. Len(hw) /\ Len(hw) \in Nat /\ Len(hw) <= MaxDisks /\ MaxDisks \in Nat
    BY <2>0, HwElements DEF HwType, Assumptions, LimitAssumption
  <2>3. i - 1 \in BootDrives(FALSE)
    <3>1. i - 1 \in Drives /\ i - 1 < Len(hw) /\ (i - 1) + 1 = i
      BY <2>2 DEF Drives
    <3>2. hw[i] \notin Atapi
      BY DEF Assumptions, PortAssumption
    <3> QED BY <3>1, <3>2 DEF BootDrives, Mountable, Present, DiskAt, IsAtapi
  <2>4. boot \in Nat /\ Mountable(boot) /\ boot <= i - 1
    BY <2>0, <2>3, BootDrive DEF Assumptions
  <2>5. DiskAt(boot) \in Sata
    <3> HIDE DEF boot
    <3>1. boot + 1 \in DOMAIN hw /\ (boot + 1 = i \/ boot + 1 < i)
      BY <2>0, <2>2, <2>4, HwElements
    <3> QED BY <3>1 DEF IInv, SataFirst, DiskAt
  <2>6. fatfs'[BootFs] = Volume(boot)
    <3>1. BootFs \in FsIds /\ BootFs # DataFs
      BY FsFacts
    <3> QED BY <2>0, <2>1, <2>3, <3>1 DEF MountBoot, TypeOK
  <2> HIDE DEF boot
  <2>7. Volume(boot).dev = DiskAt(boot)
    BY DEF Volume
  <2> QED BY <2>5, <2>6, <2>7
<1> QED BY <1>1, Invariant, PTL DEF Spec, SataBoots

(* The volume of a node stays as it was mounted until the next boot, and   *)
(* belongs to that node alone (vfs_register_node, rsl_mount, vfs_open).    *)
THEOREM NodesOwnVolumesHolds == Spec => NodesOwnVolumes
<1>0. Assumptions
  BY PortAssumption, LimitAssumption, VolumeAssumption DEF Assumptions
<1>1. IInv /\ [Next]_vars => [KeepsVolumes]_vars
  <2> USE <1>0
  <2> SUFFICES ASSUME IInv, [Next]_vars, phase' # "ahci",
                      NEW k \in DOMAIN nodes, nodes[k].fs # NoVolume
               PROVE  /\ Active(nodes[k].fs)
                      /\ fatfs'[nodes[k].fs] = fatfs[nodes[k].fs]
                      /\ \A j \in DOMAIN nodes : nodes[j].fs = nodes[k].fs => j = k
    BY DEF KeepsVolumes
  <2>1. /\ Active(nodes[k].fs) /\ InUse(nodes[k].fs, mount_count)
        /\ \A j \in DOMAIN nodes : nodes[j].fs = nodes[k].fs => j = k
    BY DEF IInv, NodeInv
  <2>2. TypeOK /\ nodes[k].fs \in FsIds /\ mount_count \in Nat
    BY NodeElements DEF IInv, TypeOK, NodeType, Assumptions, LimitAssumption
  <2>3. fatfs'[nodes[k].fs] = fatfs[nodes[k].fs]
    <3>1. CASE UNCHANGED fatfs
      BY <3>1
    <3>2. CASE MountBoot
      BY <3>2 DEF MountBoot, IInv, PhaseInv, BootPhases, NothingMounted
    <3>3. ASSUME NEW i \in Drives, Mount(i) PROVE fatfs'[nodes[k].fs] = fatfs[nodes[k].fs]
      <4>1. nodes[k].fs # TableFs(mount_count)
        BY <2>1, <2>2, FsFacts DEF InUse
      <4> QED BY <2>2, <3>3, <4>1 DEF Mount, TypeOK
    <3>4. ASSUME NEW i \in Opened, OpenByNumber(i) PROVE fatfs'[nodes[k].fs] = fatfs[nodes[k].fs]
      <4>1. nodes[k].fs # HardwareFs(i)
        BY <2>1, FsFacts DEF InUse
      <4> QED BY <2>2, <3>4, <4>1 DEF OpenByNumber, TypeOK
    <3>5. \/ UNCHANGED fatfs \/ MountBoot
          \/ \E i \in Drives : Mount(i)
          \/ \E i \in Opened : OpenByNumber(i)
      BY DEF Next, BootStep, Command, AhciInit, VdiskInit, NothingToBoot, Install, Scan,
             ScanRemaining, Format, Eject, Write, Reboot, vars
    <3> QED BY <3>1, <3>2, <3>3, <3>4, <3>5
  <2> QED BY <2>1, <2>3
<1> QED BY <1>1, Invariant, PTL DEF Spec, NodesOwnVolumes
=============================================================================
