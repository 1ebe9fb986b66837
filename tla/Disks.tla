-------------------------------- MODULE Disks --------------------------------
(***************************************************************************)
(* The disk registry (vdisk.c), what fills it (ahci_service, the scan      *)
(* command, vdisk_service), the volumes mounted from it (f_mount, the boot *)
(* phases of _start, rsl_mount, vfs_open) and the VFS nodes that route a   *)
(* path to a volume (vfs.c).                                               *)
(*                                                                         *)
(* A disk is known by its port, the ramdisk by RamDisk. A disk's data is   *)
(* abstracted to whether a volume can be mounted from it. A FATFS holds    *)
(* drv, an index into the registry; its dev is a history field: the disk   *)
(* that was mounted. A command runs without a yield, except that the scan  *)
(* registers one port at a step.                                           *)
(***************************************************************************)
EXTENDS Naturals, Sequences

CONSTANTS
  Sata, Atapi,   \* the ports with a hard disk, with a CD drive
  FirstExt,      \* the first port the boot does not look at (9)
  LastPort,      \* the last port (31)
  HasInitrd,     \* whether the loader brings a ramdisk
  RamDisk,
  MaxDisks,      \* MAX_DISKS
  MaxNodes,      \* MAX_VFS_NODES
  MaxMounts,     \* MAX_MOUNTS
  Opened,        \* bound: the drive numbers that vfs_open is called with
  NoVolume       \* a FATFS that is not active

ASSUME PortAssumption ==
  /\ LastPort \in Nat /\ FirstExt \in 1 .. LastPort
  /\ Sata \subseteq 0 .. LastPort /\ Atapi \subseteq 0 .. LastPort
  /\ Sata \cap Atapi = {}
  /\ RamDisk \notin 0 .. LastPort
ASSUME LimitAssumption ==
  /\ HasInitrd \in BOOLEAN
  /\ MaxDisks \in Nat \ {0} /\ MaxNodes \in Nat \ {0} /\ MaxMounts \in Nat
  /\ Opened \subseteq 0 .. MaxDisks

VARIABLES
  phase,         \* where _start is; "scan": the shell runs a scan
  port,          \* p, the loop variable of ahci_service and ahci_scan_remaining
  hw,            \* hw_registry
  connected,     \* connect_registry
  nodes,         \* vfs_registry
  fatfs,         \* boot_fs, data_fs, mount_table and hardware_fs
  mount_count,
  formatted,     \* the disks a volume can be mounted from
  answers,       \* the disks whose reads and writes succeed
  strayed        \* history: the disks written to in the place of another

vars == <<phase, port, hw, connected, nodes, fatfs, mount_count, formatted, answers, strayed>>

Disks == Sata \cup Atapi \cup {RamDisk}
Writable == Sata                      \* write_lba is set
Drives == 0 .. MaxDisks               \* the drive numbers a command names

(* The FATFS objects. *)
BootFs == <<"boot_fs", 0>>
DataFs == <<"data_fs", 0>>
TableFs(i) == <<"mount_table", i>>
HardwareFs(i) == <<"hardware_fs", i>>
FsIds == {BootFs, DataFs} \cup {TableFs(i) : i \in 0 .. MaxMounts - 1} \cup {HardwareFs(i) : i \in Opened}

(* What is not mounted is no FATFS and no volume. *)
ASSUME VolumeAssumption == NoVolume \notin FsIds \cup [drv : Drives, dev : Disks]

Node(name, fs) == [name |-> name, fs |-> fs]
Label(s) == <<s, 0>>
Number(i) == <<"drive", i>>
Names == {Label(s) : s \in {"/", "BOOT", "INITRD", "DISK0"}} \cup {Number(i) : i \in Drives}

Phases == {"ahci", "vdisk", "mount", "prompt", "halted", "shell", "scan", "panic"}

Init ==
  /\ phase = "ahci" /\ port = 0
  /\ hw = <<>> /\ connected = <<>> /\ nodes = <<>>
  /\ fatfs = [f \in FsIds |-> NoVolume]
  /\ mount_count = 0
  /\ formatted \in SUBSET Disks
  /\ answers \in SUBSET Disks
  /\ strayed = {}

-----------------------------------------------------------------------------
\* Mutant: the check of the capacity is off by one.
RegisterUnchecked(reg, d) ==
  IF Len(reg) > MaxDisks THEN reg
  ELSE IF d \in Sata /\ Len(reg) > 0 THEN <<d>> \o reg
  ELSE Append(reg, d)
\* Mutant: no priority.
RegisterBehind(reg, d) == IF Len(reg) >= MaxDisks THEN reg ELSE Append(reg, d)
\* Mutant: in a full registry the shift pushes the last disk out.
RegisterPushingOut(reg, d) ==
  IF d \in Sata /\ Len(reg) > 0 THEN SubSeq(<<d>> \o reg, 1, IF Len(reg) < MaxDisks THEN Len(reg) + 1 ELSE MaxDisks)
  ELSE IF Len(reg) < MaxDisks THEN Append(reg, d) ELSE reg

(* register_hardware_disk: a SATA disk goes to the front. *)
Register(reg, d) ==
  IF Len(reg) >= MaxDisks THEN reg
  ELSE IF d \in Sata /\ Len(reg) > 0 THEN <<d>> \o reg
  ELSE Append(reg, d)

Present(i) == i < Len(hw)
DiskAt(i) == hw[i + 1]

(* f_mount of drive i: the volume is where the registry, the GPT or the    *)
(* MBR says, and its sector has a boot signature.                          *)
Mountable(i) == Present(i) /\ DiskAt(i) \in formatted \cap answers
Volume(i) == [drv |-> i, dev |-> DiskAt(i)]

RegisterNode(table, node) == IF Len(table) < MaxNodes THEN Append(table, node) ELSE table

\* Mutant: the loop does not stop at the first.
LastOf(S) == CHOOSE i \in S : \A j \in S : j <= i
FirstOf(S) == CHOOSE i \in S : \A j \in S : i <= j

(* One port of the scan: the reset may find a link, or not. *)
ScanPort(p) ==
  \/ p \in Sata \cup Atapi /\ hw' = Register(hw, p)
  \/ UNCHANGED hw

-----------------------------------------------------------------------------
(* ahci_service: the ports below FirstExt, in their order. *)
AhciInit ==
  /\ phase = "ahci"
  /\ ScanPort(port)
  /\ port' = port + 1
  /\ phase' = IF port' = FirstExt THEN "vdisk" ELSE phase
  /\ UNCHANGED <<connected, nodes, fatfs, mount_count, formatted, answers, strayed>>

(* vdisk_service: the ramdisk comes after the disks of the AHCI. *)
VdiskInit ==
  /\ phase = "vdisk"
  /\ hw' = IF HasInitrd THEN Register(hw, RamDisk) ELSE hw
  /\ nodes' = RegisterNode(<<>>, Node(Label("/"), NoVolume))
  /\ phase' = "mount"
  /\ UNCHANGED <<port, connected, fatfs, mount_count, formatted, answers, strayed>>

IsAtapi(i) == DiskAt(i) \in Atapi
BootDrives(atapi) == {i \in Drives : Mountable(i) /\ IsAtapi(i) = atapi}
\* Mutant: the second drive is drive 1, whatever has booted.
SecondDriveFixed(boot) == 1
SecondDrive(boot) == IF boot = 0 THEN 1 ELSE 0

(* _start: the first hard disk or ramdisk with a volume, else the first CD; *)
(* then, as DISK0, drive 0, or 1 when drive 0 has booted.                   *)
MountBoot ==
  /\ phase = "mount"
  /\ LET candidates == IF BootDrives(FALSE) # {} THEN BootDrives(FALSE) ELSE BootDrives(TRUE)
         boot == FirstOf(candidates)
         second == SecondDrive(boot)
         bname == IF IsAtapi(boot) THEN Label("INITRD") ELSE Label("BOOT")
         bnodes == RegisterNode(nodes, Node(bname, BootFs))
     IN /\ candidates # {}
        /\ connected' = Append(connected, DiskAt(boot))
        /\ IF Len(hw) > 1 /\ Mountable(second)
           THEN /\ fatfs' = [fatfs EXCEPT ![BootFs] = Volume(boot), ![DataFs] = Volume(second)]
                /\ nodes' = RegisterNode(bnodes, Node(Label("DISK0"), DataFs))
           ELSE /\ fatfs' = [fatfs EXCEPT ![BootFs] = Volume(boot)]
                /\ nodes' = bnodes
        /\ phase' = "shell"
  /\ UNCHANGED <<port, hw, mount_count, formatted, answers, strayed>>

NothingToBoot ==
  /\ phase = "mount"
  /\ BootDrives(FALSE) \cup BootDrives(TRUE) = {}
  /\ phase' = "prompt"
  /\ UNCHANGED <<port, hw, connected, nodes, fatfs, mount_count, formatted, answers, strayed>>

(* f_mkfs ignores what disk_write returns. *)
Mkfs(d) == formatted' = IF d \in Writable \cap answers THEN formatted \cup {d} ELSE formatted

(* Without a volume the answer y formats the first disk that is not a CD;  *)
(* in either case no volume is mounted, and the main thread halts before   *)
(* the shell has run.                                                      *)
Install ==
  /\ phase = "prompt"
  /\ LET targets == {i \in Drives : Present(i) /\ ~IsAtapi(i)}
     IN \/ targets # {} /\ Mkfs(DiskAt(FirstOf(targets)))
        \/ UNCHANGED formatted
  /\ phase' = "halted"
  /\ UNCHANGED <<port, hw, connected, nodes, fatfs, mount_count, answers, strayed>>

-----------------------------------------------------------------------------
(* The commands of the shell. *)

\* Mutant: the scan covers the ports of the boot, too.
ScanAll ==
  /\ phase = "shell"
  /\ phase' = "scan"
  /\ port' = 0
  /\ UNCHANGED <<hw, connected, nodes, fatfs, mount_count, formatted, answers, strayed>>

Scan ==
  /\ phase = "shell"
  /\ phase' = "scan"
  /\ port' = FirstExt
  /\ UNCHANGED <<hw, connected, nodes, fatfs, mount_count, formatted, answers, strayed>>

(* ahci_scan_remaining: it does not know what an earlier scan registered. *)
ScanRemaining ==
  /\ phase = "scan"
  /\ ScanPort(port)
  /\ port' = port + 1
  /\ phase' = IF port = LastPort THEN "shell" ELSE phase
  /\ UNCHANGED <<connected, nodes, fatfs, mount_count, formatted, answers, strayed>>

\* Mutant: mount_count is not raised.
MountUncounted(i) ==
  /\ phase = "shell"
  /\ mount_count < MaxMounts
  /\ Mountable(i)
  /\ fatfs' = [fatfs EXCEPT ![TableFs(mount_count)] = Volume(i)]
  /\ nodes' = RegisterNode(nodes, Node(Number(i), TableFs(mount_count)))
  /\ UNCHANGED <<phase, port, hw, connected, mount_count, formatted, answers, strayed>>

(* rsl_mount. A full VFS table is not noticed. *)
Mount(i) ==
  /\ phase = "shell"
  /\ mount_count < MaxMounts
  /\ Mountable(i)
  /\ fatfs' = [fatfs EXCEPT ![TableFs(mount_count)] = Volume(i)]
  /\ nodes' = RegisterNode(nodes, Node(Number(i), TableFs(mount_count)))
  /\ mount_count' = mount_count + 1
  /\ UNCHANGED <<phase, port, hw, connected, formatted, answers, strayed>>

(* rsl_format and rsl_stamp do not check the drive: disk_write panics. What *)
(* rsl_stamp zeroes, sector 0, lies before every volume on a writable disk. *)
Format(i) ==
  /\ phase = "shell"
  /\ IF Present(i) THEN Mkfs(DiskAt(i)) /\ UNCHANGED phase
     ELSE phase' = "panic" /\ UNCHANGED formatted
  /\ UNCHANGED <<port, hw, connected, nodes, fatfs, mount_count, answers, strayed>>

(* rsl_eject: only a CD drive has an eject. *)
Eject(i) ==
  /\ phase = "shell"
  /\ Present(i) /\ IsAtapi(i) /\ DiskAt(i) \in answers
  /\ answers' = answers \ {DiskAt(i)}
  /\ UNCHANGED <<phase, port, hw, connected, nodes, fatfs, mount_count, formatted, strayed>>

(* The first node whose name starts the path. *)
Route(name) == {k \in DOMAIN nodes : nodes[k].name = name /\ \A j \in 1 .. k - 1 : nodes[j].name # name}

(* A sector of volume v is written: on the disk that is now at its drive. *)
Touch(v) ==
  LET d == DiskAt(v.drv)
  IN strayed' = IF d # v.dev /\ d \in Writable \cap answers THEN strayed \cup {d} ELSE strayed

(* rsl_write, rsl_mkdir and rsl_rmdir on a path that starts with name. *)
Write(name) ==
  /\ phase = "shell"
  /\ \E k \in Route(name) : nodes[k].fs # NoVolume /\ Touch(fatfs[nodes[k].fs])
  /\ UNCHANGED <<phase, port, hw, connected, nodes, fatfs, mount_count, formatted, answers>>

(* vfs_open of a path that starts with a digit, and vfs_close, which writes *)
(* the directory entry back: hardware_fs keeps what the first open mounted, *)
(* and the first open of a drive that is not there panics in disk_read.     *)
OpenByNumber(i) ==
  LET fs == HardwareFs(i)
  IN /\ phase = "shell"
     /\ \/ /\ fatfs[fs] # NoVolume
           /\ Touch(fatfs[fs])
           /\ UNCHANGED <<phase, fatfs>>
        \/ /\ fatfs[fs] = NoVolume /\ Mountable(i)
           /\ fatfs' = [fatfs EXCEPT ![fs] = Volume(i)]
           /\ UNCHANGED <<phase, strayed>>
        \/ /\ fatfs[fs] = NoVolume /\ ~Present(i)
           /\ phase' = "panic"
           /\ UNCHANGED <<fatfs, strayed>>
     /\ UNCHANGED <<port, hw, connected, nodes, mount_count, formatted, answers>>

(* Power off and on: the disks keep what they hold; other disks may answer. *)
Reboot ==
  /\ phase \in {"halted", "shell", "panic"}
  /\ phase' = "ahci" /\ port' = 0
  /\ hw' = <<>> /\ connected' = <<>> /\ nodes' = <<>>
  /\ fatfs' = [f \in FsIds |-> NoVolume]
  /\ mount_count' = 0
  /\ answers' \in SUBSET Disks
  /\ UNCHANGED <<formatted, strayed>>

BootStep == AhciInit \/ VdiskInit \/ MountBoot \/ NothingToBoot \/ Install
Command ==
  \/ Scan
  \/ ScanRemaining
  \/ \E i \in Drives : Mount(i) \/ Format(i) \/ Eject(i)
  \/ \E i \in Opened : OpenByNumber(i)
  \/ \E name \in Names : Write(name)
Next == BootStep \/ Command \/ Reboot

Spec == Init /\ [][Next]_vars

-----------------------------------------------------------------------------
TypeOK ==
  /\ phase \in Phases
  /\ port \in 0 .. LastPort + 1
  /\ hw \in Seq(Disks) /\ Len(hw) <= MaxDisks
  /\ connected \in Seq(Disks) /\ Len(connected) <= 1
  /\ nodes \in Seq([name : Names, fs : FsIds \cup {NoVolume}]) /\ Len(nodes) <= MaxNodes
  /\ fatfs \in [FsIds -> [drv : Drives, dev : Disks] \cup {NoVolume}]
  /\ mount_count \in 0 .. MaxMounts
  /\ formatted \subseteq Disks /\ answers \subseteq Disks /\ strayed \subseteq Disks

(* No disk that is not SATA comes before one that is (vdisk.c:34). *)
SataFirst ==
  \A i, j \in DOMAIN hw : i < j /\ hw[j] \in Sata => hw[i] \in Sata

(* Until the next boot the registry only grows: no disk is lost, and those *)
(* known keep their order.                                                 *)
KeepsOrder ==
  \/ phase # "ahci" /\ phase' = "ahci"
  \/ \E k \in 0 .. Len(hw') - Len(hw) : SubSeq(hw', k + 1, k + Len(hw)) = hw
RegistryKeepsOrder == [][KeepsOrder]_vars

Displaced(v) == DiskAt(v.drv) # v.dev
Active(f) == fatfs[f] # NoVolume

(* The index of a mounted volume always names a disk, and another disk     *)
(* than the one mounted only after a scan has put a SATA disk in front.    *)
DisplacedOnlyByScan ==
  \A f \in FsIds : Active(f) =>
    /\ Present(fatfs[f].drv)
    /\ Displaced(fatfs[f]) => hw[1] \in Sata /\ hw[1] >= FirstExt

(* _start boots from a hard disk whenever one can be mounted, even when    *)
(* there is a ramdisk or a CD.                                             *)
BootsFromSata ==
  phase = "mount" /\ phase' = "shell" =>
    \/ fatfs'[BootFs].dev \in Sata
    \/ \A i \in DOMAIN hw : hw[i] \notin Sata \cap formatted \cap answers
SataBoots == [][BootsFromSata]_vars

(* BOOT and DISK0 were never mounted on one disk. (Which disks their       *)
(* indexes address later is DisplacedOnlyByScan.)                          *)
VolumesDistinct ==
  Active(BootFs) /\ Active(DataFs) => fatfs[BootFs].dev # fatfs[DataFs].dev

(* Every node has a volume of its own (the root has none), which stays as  *)
(* it was mounted until the next boot, whatever is mounted later.          *)
KeepsVolumes ==
  phase' # "ahci" => \A k \in DOMAIN nodes : nodes[k].fs # NoVolume =>
    /\ Active(nodes[k].fs)
    /\ fatfs'[nodes[k].fs] = fatfs[nodes[k].fs]
    /\ \A j \in DOMAIN nodes : nodes[j].fs = nodes[k].fs => j = k
NodesOwnVolumes == [][KeepsVolumes]_vars

(* A write on a mounted path reaches the disk that was mounted. *)
WritesStayHome == strayed = {}
=============================================================================
