# A verification project for OS*2 Limemade

TLA+ modules for the parts of the OS*2 Limemade kernel that make decisions:
the cooperative scheduler, the FAT file system and the loops that read it, the
disk registry with its mounts, the shell, the console, the page allocator with
the allocators above it, the AHCI command slot and the context switch gate. TLC
checks each on a small instance, and TLAPS proves every invariant and every
action property of those runs, and that the volume implements its abstract
specification, for every instance; only liveness is left to TLC alone.

Contents: [the system](#the-system), [the modules](#the-modules),
[runs and bounds](#runs-and-bounds), [fairness](#fairness),
[proofs](#proofs), [what the code does otherwise than it says](#what-the-code-does-otherwise-than-it-says),
[assumptions](#assumptions), [not modelled](#not-modelled), [plan](#plan).
`PROJECT.json` holds the machine-readable side: which lines each definition
translates, the mutant for each property, and the hazards with their lines.

## The system

One CPU runs everything. Threads yield by `int 0x81`; the timer interrupt
counts ticks and never schedules, so between two yields a thread is alone with
memory. What runs *beside* a thread is hardware: the keyboard, the AHCI
controller with its DMA, and the loss of power.

| Component | State | Operations | Used by | What makes it hard |
|---|---|---|---|---|
| Scheduler (`scheduler.c`, `tasking.c`, `task.h`) | `task_table`, `task_count`, `current_task_idx` | `register_task`, `sys_yield`, `unice64_schedule` | every thread | who is RUNNING, who is skipped, for how long |
| Context switch gate (`context_switch.s`) | registers, the context in each `task_t` | save, schedule, validate RSP, load | `sys_yield` | register use across a call |
| Console input (`console.c`) | the caller's task state, the shift key, the line buffer | `get_char`, `input` | shell, installer | a wait across a yield, woken by nobody; others print on the line meanwhile |
| Console output (`vga_serial.c`), shutdown (`shutdown.c`) | cursor, frame buffer | `vga_write_char`, `telemetry_update`, `vga_clear`, `vga_set_cursor` | everybody | wrapping, scrolling, backspacing over a wrap; nothing tests where it draws |
| Boot (`main.c`) | `boot_fs`, `data_fs` | find and mount a volume, start tasks, run the script | loader | the order in which disks were found |
| RSL streamer (`run.c`) | a file handle | send a script line by line to the serial port | boot, shell | a loop that ends by a byte count nobody sets |
| FAT volume (`ff.c`) | FAT, directory entries, `FIL` handles | `f_open`, `f_write`, `f_close`, `f_mkdir`, `f_unlink`, `f_mount`, `f_mkfs` | VFS, RSL commands | several sector writes per operation, a crash between any two, stale handles, a full volume |
| VFS (`vfs.c`) | `vfs_registry`, `hardware_fs` | register a node, route a path, open, close | RSL commands, streamer | caches that outlive what they describe |
| Disk registry (`vdisk.c`), glue (`ff_glue.c`) | `hw_registry`, `connect_registry` | register (hard disks to the front), read and write by index | FAT, boot, commands | indexes held while the table shifts |
| AHCI scan (`ahci.c`) | port tables | ports 0-8 at boot, 9-31 on `scan` | boot, shell | links that do not come up, repeated scans |
| AHCI commands (`ahci.c`), SATAPI (`satapi.c`) | slot 0 of each port | read and write sectors, packets | disk registry | time-outs against a controller that still works |
| Page allocator (`pmm.c`) | the bitmap | `pmm_init`, `pmm_alloc` | slabs | a map with holes, and the bitmap inside the memory it describes |
| Slab heap (`slab.c`, `bump_alloc.c`) | bump offsets, the list of heap blocks | `slab_alloc_aligned`, `malloc`, `free` | everybody | three kinds of block in one bump region |
| ARC objects (`arc_mem.c`, `rsl_string.c`) | `ref_count` before each object | `arc_alloc`, `retain`, `release` | shell, RSL | `release` hands `free` what `malloc` did not return |
| RSL commands (`rsl_commands.c`) | `mount_table` | mount, format, cat, write, ... | shell, streamer | any order of commands; loops that end by a byte count |
| Shell (`shell.c`) | `curdir`, `is_safe` | boot menu, `cd`, the dispatcher | user | paths that are glued together from strings |

How they interact: the shell calls RSL commands, which go through the VFS node
table to a `FATFS`; the FAT code reads and writes sectors through
`disk_read`/`disk_write`, which index the disk registry, whose entries hold the
read and write functions of a port. Sector buffers come from `malloc`, strings
from the slab of the current task. Printing and the `rsl_` wrappers yield,
so commands of two tasks alternate, but one command of the file system does
not yield while it is under way.

What makes each component correct:

* scheduler: one runner, waiting means parked in `get_char`, bounded bypass, no
  starvation while the CPU yields;
* gate: what is loaded for a thread is what was saved for it;
* FAT volume: disjoint chains, no entry on a free cluster, unique names, what
  was written stays, and each command looks atomic; after crashes and failed
  writes, damage bounded by their number; a reader never sees another file;
* reading loops: every byte once, in order; every piece of a script between two cuts; an end;
* registry and mounts: order and capacity, boot priority, a volume keeps to the
  disk it was mounted from, no volume is mounted over (two indexes may address
  one disk once a scan has been repeated);
* shell: the current directory always has the form of a path to a volume (the
  directory may be gone, and the drive need not exist), a command changes only
  what its path names, a safe session writes to no file;
* console: nothing drawn outside the frame, the line on the screen is the line
  in the buffer;
* memory: pages and blocks disjoint, used blocks not handed out, true counts, freed
  buffers reused;
* command slot: success means the caller's own data moved; nothing of a call
  that returned is left behind; every call returns.

## The modules

| Module | Models | Notes |
|---|---|---|
| `Scheduler` | `scheduler.c`, `tasking.c`, tail of `_start`, `get_char`, the yields of `rsl_execute_stream` | a step is what a thread does up to its next yield |
| `SchedulerProofs` | - | invariant and theorems for `Scheduler` |
| `ContextSwitch` | `context_switch.s` | a word is abstracted to where its value comes from |
| `FileStore` | what a volume promises (abstract) | a map from path to size |
| `FatFs` | the writing half of `ff.c`, the write, mkdir and rmdir commands, readers that hold a handle | one step per sector write; implements `FileStore` |
| `FatFsProofs` | - | invariants and theorems for `FatFs`, the refinement of `FileStore` among them |
| `Reader` | `f_read`, `vfs_read`, `internal_fs_cat`, `rsl_execute_stream` | a byte is its position in the file |
| `ReaderProofs` | - | invariants and theorems for `Reader` |
| `Disks` | `vdisk.c`, the port scans, boot discovery and mount, `rsl_mount`, `rsl_format`, `rsl_eject`, `vfs_open`, path routing | a disk's data is mountable or not |
| `DisksProofs` | - | invariant and theorems for `Disks` |
| `Shell` | `shell.c`, how a path reaches a volume | a path is a sequence of tokens |
| `ShellProofs` | - | lemmas on paths, invariant and theorems for `Shell` |
| `Console` | `vga_write_char` and what calls it, `input`, the farewell | a cell is a glyph |
| `ConsoleProofs` | - | invariant and theorems for `Console` |
| `Pages` | `pmm.c` | operators on sets of page numbers |
| `Memory` | `slab.c`, `bump_alloc.c`, `arc_mem.c`, over `Pages` | words of 8 bytes |
| `MemoryProofs` | - | invariant and theorems for `Memory` over `Pages` |
| `AhciPort` | `ahci_read_sectors`, `ahci_write_sectors`, `satapi_send_packet` | one port and the controller as two actors |
| `AhciPortProofs` | - | invariant and theorems for `AhciPort` |
| `MC*` | - | the module a run names; every instance is fixed by its `.cfg` |

Definitions keep the names of the C code where TLA+ allows. A definition whose
comment starts with "Mutant" is not part of any specification: it is the
definition after it with a plausible bug, and stands there to show that a
property is able to fail.

### Scheduler

`state`, `current`, `task_count` are the fields of the same names. `pc` says
where a thread is between two yields; `passed` is a history variable: how many
switches passed a task by while it could have used the CPU. Slot 0 is
registered for `idle_task`, but the thread that calls `tasking_init` is already
running with `current_task_idx = 0`: its first yield saves it over slot 0, so
slot 0 *is* the main thread and `idle_task` never runs. Without a volume the
main thread never yields after `tasking_init`: it goes to the `hlt` loop, and
no task runs at all (`TaskingInit` with `"stuck"`).

The module takes the yield as it is meant: a thread resumes where it yielded.
`ContextSwitch` shows that the gate as written does not save the registers of
the thread that yields (see below), so what `Scheduler` says is what the C code
promises once the gate does.

### ContextSwitch

A `task_t` is 21 words; `Yield` copies, validates and loads them as the
assembly does. Its state space is small (the second resume already panics), so
the only run is the one that refutes `SavesTheThread`.

### FatFs and FileStore

`fat` and `slots` are the disk; `todo` holds the sector writes an operation has
still to issue, in the order of the code; `DiskStep` issues one. A `Crash` may
fall before any of them; it keeps the disk and drops `todo` and every handle.
A sector write may also fail: `WriteBreaks` is the one failure the code looks
at (the data sector in `f_write`, which then ends), `WriteLost` all the others,
whose result is dropped. `saved` is a history variable. Data is abstracted, but
data read as directory entries is not harmless (a directory entry of a removed
file may point at clusters whose content is data), so a sector of data looks
like entries that match nothing, or like zeros.

`FileStore` is what the commands promise: files with sizes, directories that
own them, each command one step on its own path; `last` is what the last write
to a path has stored there. The manuals say that `write` creates or overwrites,
which is `Write`. The code does less: `f_open` does not look at
`FA_CREATE_ALWAYS` when the file exists, and a shorter write leaves the end of
the old file (`WriteKeepingTail`, which the constant `Tails` allows). `FatFs`
implements the store with tails (`ImplementsFileStore`), and not the one
without: with `Tails <- FALSE` TLC finds a write of one sector over a file of
two. It does so without crashes and late readers, under the mapping
`ShownFiles`, `ShownDirs`: what `find_entry` would find on the disk *now*, in
the middle of an operation too, and `LastWritten`, from `saved`. So a command takes effect with one of its
sector writes (the entry for a create, the close for the new size, the mark for
a remove) and all others are stutters.

### Reader

`cat` keeps a `FIL` over its calls of `f_read`; the streamer reads a byte at a
time through `vfs_read`, which walks the chain from its start for each. A byte
is modelled by its position in the file, so that one read from a wrong cluster
shows. `br` and the local of `vfs_read` that the end of a file leaves unset are
what the last call left, and anything in `Garbage`. `out` and `lines` record
what happened up to the first meeting with the end of the file; `lines` is what
the streamer writes to the serial port, which is all it does with a line. What
it sends after the end (the last character again and again, if the unset local
is 1) is not recorded; that the loop ends at all is `AlignedScriptsEnd`.

### Shell

One command is one step. Paths are sequences of tokens (`"/"`, `":"`, names)
and are glued together and cut as the C strings are; the volumes are the set
of names on them. Which commands a safe session or the root refuses is
`Refused`; what `cd` accepts without looking is `NamesDrive`.

### Console

`PutAll` is `vga_write_char`; `PrintChar`, `Type`, `Erase`, `InputEnd`, `PutNext`
are its callers. `Type`, `Erase`, `InputEnd` and `Escape` are the turns of the
loop of `input`, `PrintChar` any other thread at its yields. `line`, `prompt`,
`mixed` and `strayed` are history: what an ideal screen would show since the
last line break, how long it was when the input began, whether another thread
has printed since, and whether a glyph was drawn outside the frame buffer.

### Disks

Phases follow `_start`: `"ahci"`, `"vdisk"`, `"mount"`, then `"shell"` or,
without a volume, `"prompt"` and `"halted"`. `"scan"` is the scan command at
work; each port is a step of its own, which is finer than the code (a scan does
not yield) and changes nothing, as commands wait for `"shell"`. A `FATFS` is
`drv`, the index it really holds, and `dev`, a history field: the disk that was
there at mount time. `Reboot` clears memory and keeps the disks.

### Pages and Memory

`Pages` turns a memory map into the set of free pages, without those of the
bitmap itself, and finds the first run of them. `SlabInit` takes the pages of
one slab; one that gets none keeps base 0, and `slab_alloc_aligned` does not
look: `InPages` says that every slab in use has its pages, and what blocks do
to each other is claimed under it only. `blocks` maps the first word of each block to its kind, size, mark and
count; `holders` is history. `Release` models the code as it is: the last
release calls `free` with the address of the object's header, and `free` clears
the byte two words before it, which belongs to whatever was allocated before.
`Strike` says what that means for each kind of neighbour.

### AhciPort

A call is `prdt` (header and descriptor), `cfis`, `wait`, `poll`; the
controller is `Fetch`, `Complete`, `Fail`, in its own time. The controller
reads the descriptor at the fetch or at the transfer, because the table is not
locked by anything. Time-outs: a wait loop makes `Spins` turns. The SATA code
uses one counter for both waits, the SATAPI code a fresh one for each; below
zero the SATA counter goes on for 2^31 turns and then overflows: the model
counts down to `-BelowZero` and then stays there, and has "no end" for it.
`abandoned` is history: a call has returned while its command was still in the
slot.

## Runs and bounds

| Run | Shows | States | Bounds |
|---|---|---|---|
| `MCScheduler` | types, one runner, waiters parked, bounded bypass, no starvation while the CPU yields | 5 tasks | two shells, so that waits overlap; two system tasks that never wait; 2 keys; one spare slot so that `task_count` and the table length differ |
| `ContextSwitchSave` | refutes `SavesTheThread` | - | the three tasks of the kernel |
| `MCFatFs` | commands one after the other: chains disjoint, backed, long enough; files stay; the volume implements `FileStore` with tails | 316,000 | 2 sectors per cluster (so that in-cluster and boundary writes differ), 2 entries per sector, 4 data clusters (the volume fills up), 2 files, 1 directory, writes of up to 3 sectors |
| `MCFatFsCrash` | a crash, a failed write, a late reader, failing `malloc`: damage bounded, entries backed, names unique, readers alone | 1.8 million | 1 crash and 1 failed write, which may fall into one operation; 3 data clusters, 1 file name in 2 places, 1 directory, 1 reader, writes of up to 2 clusters |
| `MCReader` | `cat` prints the file, the streamer sends its lines, long ones in pieces, aligned scripts end | 417,000 | every size up to 11 bytes in clusters of 8 and sectors of 4, every placing of the line ends, lines of 3, any byte count left unset, failing reads and `malloc`s |
| `ReaderCat` | refutes `CatReturns` | - | the same, without failures |
| `MCDisks` | order, capacity, boot choice, distinct volumes, mounts kept | 479,000 | a CD and a hard disk at boot, one hard disk only a scan finds (two scans register it twice), a ramdisk; 4 registry entries, 3 nodes and 2 mounts, so that every table overflows |
| `DisksShift` | refutes `WritesStayHome` | - | the same |
| `MCShell` | the current directory has the form of a path to a volume, `cd ..` undoes `cd`, changes stay where the path says | 19,800 | two volumes, one reached by two names, 3 names at most, paths three levels deep, 11 arguments with every form of path |
| `MCConsole` | types, nothing outside the frame, the line stands on the screen, echo equals buffer | 564,000 | two columns and two text rows, so that a line wraps, scrolls and leaves the top; lines of 6, a buffer of 4; a farewell that starts below the frame |
| `MCMemory` | pages and blocks disjoint, heap marks, counts, reuse | 634,000 | three memory maps (one entry; a hole, with the bitmap before it; room for one slab only), two slabs that fill up, two sizes of each kind of block, two holders |
| `MCAhciPort` | success means moved, nothing left behind, calls return | 110,000 | 2 sectors, 2 buffers, 3 calls (one abandoned, one that meets it, one after), waits of 2 turns, a counter that goes down to -3 |

Why these bounds are enough, as far as small instances can be: each is chosen
so that every limit the code tests is reached and passed (a table full, a
volume full, a counter at zero), and so that two of everything that could be
confused exist. All bounds on otherwise unbounded things are constants with the
word "bound" in their comment: `MaxKeys`, `BypassCap`, `MaxPanics`, `MaxWrite`,
`MaxCrashes`, `MaxFailures`, `ZeroData`, `Opened`, `MaxHolders`, `MemoryMaps`,
`MaxCalls`, `BelowZero`, `MaxLine`, `MaxSize`, `Garbage`, `Args`, `MaxTokens`, `MaxEntries`.

Deadlock is not checked: the main thread really halts, memory really fills up,
a loop that has read its file is done, and a bounded environment runs out of
keys, crashes and calls.

What the less obvious properties say:

* `BoundedBypass` (`Scheduler`): fewer than `task_count` switches pass a READY
  task by. It is the reason `ReadyRunsOrCpuTaken` holds.
* `DamageBounded` (`FatFs`): `f_write` links a new cluster before it marks it
  as taken (`ff.c:320-321`); a crash in between leaves a free cluster in a
  chain, and the next allocation shares it. So `NoCrossLink` holds only without
  crashes. The property says that this is all: no more clusters are shared or
  dangling than there were crashes and failed writes. Clusters that are only
  lost (taken, and in no chain) are not counted: a full directory, a removed
  file or a failed `malloc` in `get_next_cluster` leaves some without any crash.
* `EntryBacked`: the other order, in `f_open` and `f_mkdir`, is the safe one:
  crashes and failed allocations never leave an entry on a free cluster, only
  the loss of the very write that takes the cluster does.
* `ReadersAlone`: a file can be removed, overwritten and lengthened under a
  reader, and the reader still never comes to a cluster of another file:
  because `f_unlink` gives no cluster back. A correct `f_unlink` would break it.
* `WritePersists` against `ImplementsFileStore`: the first relates the disk to
  what completed write commands left, by the chain as well as by the entry; the
  second says that no other path changes at any sector write, and that a write
  that closes its file shows all it wrote.
* `CatPrintsFile` (`Reader`): `f_read` follows the link at a cluster boundary
  only if bytes remain in the same call (`ff.c:284`). `cat` asks for 511 bytes,
  which never end on a boundary before `511 * 512` bytes; for the model's
  numbers, 3 and 4, the limit is 12. Beyond it the rest of the file is read
  from the cluster before.
* `AlignedScriptsEnd`: at the end of a file `f_read` succeeds without setting
  the count. A script is safe from that only if its size is a whole number of
  clusters, because then the walk of `vfs_read` meets the end first. For other
  sizes the streamer ends if the unset local is not 1.
* `LineShown` (`Console`): a character that wraps on the last text row is drawn
  into the row below and lost with the scroll; all others of the line stand
  where they should, also after a backspace over a wrap.
* `ChangesStayInContext` (`Shell`): a relative path changes names at or below
  the current directory only, one with a volume below its directory, and in a
  safe session none changes anything.
* `DisplacedOnlyByScan` (`Disks`): a volume addresses another disk than the one
  it was mounted from only after a scan has put a hard disk in front.
* `BuffersBounded` (`Memory`): `malloc` never makes more blocks of the largest
  size than were in use at one time, so a client that frees its sector buffers
  does not exhaust the slab.
* `HeapSurvivesRelease`, `CountsAreTrue`: what the stray write of `release`
  does *not* hit. The layout (header sizes and alignment) makes it fall into
  data, never into a heap header or a count.
* `SuccessMeansMoved` (`AhciPort`): a read from a hard disk that returns 0 has
  its own sector, even with an abandoned command under way, *because* both
  waits share one counter. With a fresh counter for the second wait, as in
  `satapi.c:151`, it fails: that is its mutant.
* `CallsReturn`: every call returns whatever the controller does, except the
  SATA call whose idle wait used the counter up.

## Fairness

* `Scheduler` assumes `WF_vars(CpuStep)`: the CPU does not stop executing the
  thread it is on. Nothing is assumed of single threads, and none of keys. A
  thread may stop yielding (`StreamSpins`, `TaskStuck`, the `hlt` loop), so the
  liveness property is "a READY task runs, or the CPU is taken for good".
* `AhciPort` assumes `WF_vars(Driver)`: the polling loop makes its turns.
  Nothing is assumed of the controller: it may be silent for ever.
* `Reader` assumes `WF_vars(Step)`: the thread that reads gets the CPU again
  after each of its yields, which is `ReadyRunsOrCpuTaken` for it. Nothing is
  assumed of what an unset byte count holds.

## Proofs

`SchedulerProofs`, for any table length, number of tasks, and set of shells
(`SchedulerAssumption`):

* `TypeCorrect`, `SoleRunnerHolds`, `WaitersParkedHolds`, `BoundedBypassHolds`.
* The inductive invariant is `TypeOK /\ BootInv /\ PlaceInv /\ SoleRunner /\
  WaitersParked /\ BypassInv`. `BypassInv` is the idea: for a READY task what
  has passed it plus its distance from the current slot never exceeds
  `task_count`; every switch adds one to the first and takes at least one from
  the second, because the scan picks the nearest runnable slot. `BoundedBypass`
  alone is not inductive. `BootInv` and `PlaceInv` say what is so before and
  after `tasking_init`; without them slot 0 could be parked in a wait.
* `ScheduleStep` is the lemma on `unice64_schedule`, stated once for both of
  its callers (a plain yield, and `get_char`, which has marked its task).

`AhciPortProofs`, for any sectors, buffers, length of the waits and number of
calls (`AhciAssumption`):

* `TypeCorrect`, `NothingLeftBehindHolds`, `SuccessMeansMovedHolds`.
* The inductive invariant adds to the types: `SlotInv` (from the end of the
  build to the return the table describes the call), `CiInv` (a set `ci` is the
  call's, or somebody timed out or failed), `OwnInv` (a call that saw the disk
  ready before it issued has the controller for itself), `PayloadInv` (nothing
  writes into the buffer of a write) and `MovedInv` (what is so once `ci` is
  clear). `OwnInv` is where the shared counter enters: a SATA call that did
  not see the disk ready has a negative counter.

`ConsoleProofs`, for any size of the screen, any buffer and any line
(`ConsoleAssumption`):

* `DrawsInFrameHolds`: `draw_char` tests nothing, and nothing is drawn outside
  the frame buffer before the shutdown begins. The property, which bounds the
  row of the cursor too, is inductive with the types (`CursorInv`): a column may
  stand at the right edge, as the next character wraps before it is drawn. Of
  the shutdown it says nothing, as the farewell may leave the frame.
* `EchoIsBufferHolds`: the invariant adds `EchoInv`: the line on an ideal screen
  is the prompt with the buffer behind it as long as nobody else has printed.
* `TypeCorrect`: `SizeInv` bounds the line and the buffer; it has to know that
  what a thread prints without a yield ends in a line break.
* `LineShownHolds`: the cells of the screen are numbered in reading order
  (`Cell`), and the invariant (`LineCells`) is that character `i` of the line has
  the number of the cursor less what was printed behind it. A wrap leaves the
  numbers alone, a scroll takes `Cols` from all of them, and a backspace at the
  left edge goes to the number before, so no case is about rows.

`DisksProofs`, for any ports and drives and any sizes of the three tables
(`PortAssumption`, `LimitAssumption`, `VolumeAssumption`):

* `TypeCorrect`, `SataFirstHolds`, `DisplacedOnlyByScanHolds`,
  `VolumesDistinctHolds`, `NodesOwnVolumesHolds`, `RegistryKeepsOrderHolds`,
  `SataBootsHolds`; the last three are about steps.
* The inductive invariant is `TypeOK /\ SataFirst /\ DisplacedOnlyByScan /\
  VolumesDistinct /\ PhaseInv /\ NodeInv`. `PhaseInv` says what is so before
  the shell: nothing is mounted while ports are still scanned, and the disks
  that boot looks at differ from each other. `NodeInv` says that a node's volume
  is mounted, belongs to the boot or to the used part of the mount table, and to
  no other node. Without `PhaseInv` a disk found at boot
  could displace a volume with no scan to blame.

`MemoryProofs`, for any memory map, any sizes of pages, slabs, blocks and
objects (`SlabAssumption`, `MapAssumption`, `SizeAssumption`):

* `TypeCorrect`, `BlocksDisjointHolds`, `HeapSurvivesReleaseHolds`,
  `CountsAreTrueHolds`.
* The inductive invariant adds to the three properties and the types:
  `AllBlocks` (a heap block has at least 5 words, an object 3, a count never
  exceeds its references) and `SlabInv` (no block before all slabs have their
  pages). `SlabAllocKeeps` is the lemma on `slab_alloc_aligned`, for all of its
  callers: what it gives out begins above everything in its slab
  (`AlignUpGoesUp`) and ends inside it, and other slabs lie elsewhere
  (`SlabsOfWordsApart`, from `PmmAllocIs`). `StrikeMissesHeaders` is the lemma on
  `release`: the word it clears lies 2 before the object, so in the block before
  it is at least the fourth of a heap block or the second of an object. It needs
  `BlocksDisjoint`, which is why the three properties are proved together.

* `BuffersBoundedHolds`: `BufferInv` adds that a used heap block is one whose
  client has not freed it, which ties the mark in the header, which `malloc`
  reads, to what the clients do; only when all largest blocks are used does
  `malloc` make one more, and then that many are in use.

`FatFsProofs`, for any number of clusters, sectors and entries, and any files,
directories and writes (`FatFsAssumption`, `NoFileAssumption`: the null handle
is no handle). The theorems come in layers, each with an invariant that uses the
one before.

1. *Damage*: `TypeCorrect`, `DamageBoundedHolds`, `EntryBackedHolds`,
   `NoCrossLinkHolds`, `NoDanglingHolds`, with any readers, crashes, failed
   writes and failing `malloc`s. A chain is a path of unbounded length and the
   prover has no induction over it, so the invariant is in terms of single
   links: `Homes(c)` are the entries that show a cluster, on the disk, in a
   write to come or in a handle that may put it back, and `Before(c)` the
   clusters linked to it. A cluster is `Damaged` when two refer to it, or one
   does and it is free and stays so. `IInv` says that no more clusters are
   damaged than there were crashes and failed writes, and the same of entries
   (`EntryDamaged`); it needs `TodoInv`, which describes what an operation
   still has to write. Each action other than a crash or a failure leaves every
   cluster no worse (`Sound`); those two damage one cluster at most, since an
   operation takes one at a time. That two chains meet only in a damaged
   cluster is proved from the *first* step at which they do, a least
   counterexample in place of an induction; that a walk exists at all
   (`WalkExists`) likewise. The last two theorems are conditional on
   `crashes = 0 /\ failures = 0` in the state, and so hold of every behaviour up
   to its first crash or failure.
2. *Names*: `UniqueNamesHolds`, under the same conditions as above. `Named` says
   of each entry that nothing never used stands before it (`Fits`), because
   `find_entry` stops at the first such entry and would not see a name behind
   it; that the writes to come leave this so; and that no handle points into
   the root, whose chain has the entries of more than one sector.
3. *Readers*: `ReadersAloneHolds`, conditional on no crash and no failure in the
   state; readers may hold their handles over any other command. Without
   damage the chain of an entry or handle is marked (`ChainMarked`), and two of
   them are apart from their starts on (`ChainsApart`).
4. *Refinement*: `ImplementsFileStoreHolds`, for instances without readers that
   keep a handle, crashes and failed writes, with failing `malloc`s. These are
   the conditions under which the commands are what `FileStore` says: a reader
   that closes late writes back an old size, and a crash in the middle of a
   command is none of its steps. `View` says what the mapping shows in terms of
   positions on the disk, from `Named`; `FilesInv` says what the handle of a
   write command stands for, that an entry to come is that of the command
   under way, and that no data goes to a directory. Each action is then shown
   to be a step of the store or to leave the mapping as it is; the entry, the
   close and the mark of a remove are the steps. The close is a `Write` of the
   store when the file has not been longer than what was written, and a
   `WriteKeepingTail` when it was.
5. *Written files*: `WritePersistsHolds`, for instances with no failing `malloc`
   either. `SavedInv` says that every entry has a chain as long as its size
   (`EntriesHold`), that what was saved is shown (`SavedShown`), and that a write
   has come as far along its chain as it has written (`Reached`), or the chain
   is longer than a walk goes. With a failing `malloc` `f_write` takes a chain
   that goes on for one that ends, and links the new cluster in place of the
   rest (`PendingPlain` excludes it): the file of an earlier write is cut off.

`ReaderProofs`, for any sizes of sectors, clusters, buffers and files
(`ReaderAssumption`), with failing reads and `malloc`s and anything left in an
unset count:

* `StreamsTheScriptHolds`: what was sent are the pieces between two cuts that
  end before the position of the file, each of them, in order (`Recorded`), and
  the buffer holds what was read since the last cut (`Cutting`). Where the cuts
  are is said of the script alone: at a line end, and in a long line at every
  byte that finds the buffer full. That the code cuts there rests on
  `LineUnderWay`: the piece under way begins a whole number of full pieces, of
  `LineMax + 1` bytes each, after its line; `CutIs` is the step from there.
* `CatPrintsFileHolds`: what `cat` has printed is the beginning of the file, and
  its handle stands in the cluster of its position whenever that is at the
  start of a sector or fewer than `SectorSize` chunks of `SectorSize - 1` bytes
  after one (`Reached`). That is the arithmetic behind the limit of 511 chunks:
  a multiple of the chunk is on a cluster boundary no sooner.

`ShellProofs`, for any drives, nodes at boot and arguments (`ShellAssumption`:
drives and names are strings, no node is named `/`, an argument is not empty,
the table has a place left after boot):

* `CurdirNamesVolumeHolds`, `ParentReturnsHolds`, `ChangesStayInContextHolds`.
* The names of a path are collected by a recursive function over its tokens.
  That it is defined (`CollectionExists`), that the names of a longer path go on
  from those of a shorter one (`CollectionGrows`), and what the parent of a path
  is, are proved from the first prefix at which they fail, as there is no
  induction. The inductive invariant is the types with `CurdirNamesVolume`; the
  other two theorems are about steps, and rest on the current directory having
  the form that it gives.

Only model-checked: liveness (`ReadyRunsOrCpuTaken`, `CallsReturn`,
`AlignedScriptsEnd`), which is out of the prover's reach, and the three
properties that runs refute (`SavesTheThread`, `WritesStayHome`, `CatReturns`).
The refinement and `WritePersists` are proved under the conditions the runs
check them under; what a crash or a late reader does to them is bounded by the
theorems on damage and on readers.

## What the code does otherwise than it says

Three runs end in a counterexample that shows a disagreement between the code
and a document or comment; `PROJECT.json` quotes the lines.

1. `ContextSwitchSave`: the gate reads the registers to save relative to `%rax`
   after a call has replaced it; the context of a task is filled with its own
   `task_t`.
2. `DisksShift`: a scan that finds a hard disk shifts the registry; `BOOT:/`
   then reads and writes the disk that had the index before its own (in the
   trace `BOOT:/` is the ramdisk, and the write reaches the first hard disk; a
   volume on the first disk of all would get the new one).
3. `ReaderCat`: `cat` ends on a count of zero, which `f_read` does not set at
   the end of a file; without a lucky local it prints the last piece for ever.

Met while modelling, with no run of their own.

Scheduler and boot:

* a shell that has waited for a key is never picked again: nothing takes a task
  out of WAITING but its own `get_char`, which does not run (`console.c:153`),
  the scan takes READY and RUNNING tasks only, and slot 0 and the system tasks
  are READY whenever they do not run, until the CPU halts;
* `_start` ends in a `hlt` loop where a comment expects the scheduler to take
  over (`main.c:195-203`); after a formatted installation nothing is mounted and
  the kernel halts.

Files:

* `write` does not overwrite: `internal_fs_write` asks for `FA_CREATE_ALWAYS`
  (`rsl_commands.c:38`), `f_open` looks at that only when the file does not
  exist (`ff.c:203`, `ff.c:248`), and the end of a longer file stays, against
  "create or overwrite" in `shell_manual.md:27`, `rsl_manual.md:27` and the help
  (`shell.c:321`). `FileStore` names it (`Tails`);
* `run` executes nothing: the streamer writes each line to the serial port and
  yields (`run.c:62-71`), against `shell_manual.md:33` and `rsl_manual.md:35`;
* closing a *reader* writes the directory entry back with the size it saw at
  open (`vfs.c:302`, `ff.c:506`);
* `f_read` does not follow the link when a call ends on a cluster boundary
  (`ff.c:284`); the last line of a script is lost without a line feed; of a line
  of more than 255 characters the next one is dropped, and the rest is sent as a
  further line (`run.c:60`);
* `write` of a directory's name overwrites its entries; `rmdir BOOT:/` writes
  byte 0 of sector 0; a format reports success whatever `disk_write` returned.

Shell:

* `../` in a relative path is not resolved, against `rsl_manual.md:15`; only
  the argument `..` of `cd` is;
* a safe session refuses `write`, `mkdir` and `rmdir` but not `format` and
  `stamp`, against `shell_manual.md:38-39`;
* `cd` accepts a drive number without looking whether there is such a drive, and
  a file as if it were a directory; `rsl_mount` reports success when the table
  of the VFS is full.

Console:

* a character that wraps on the last text row is lost; a full input (127
  characters) returns without Enter, and the rest becomes the next input; the
  farewell of the shutdown sets the cursor to row 33, below a frame of 640x480
  (`boot/limine.cfg:6`).

Memory and disks:

* the last release of an object clears a byte of the block before it and
  reclaims nothing (`arc_mem.c:49`);
* after a read has timed out the next write re-links the table under it
  (`ahci.c:258`); a SATAPI read after a time-out may return 0 without data.

## Assumptions

* Between two yields a thread is alone; interrupts change no modelled state.
* `FatFs`: names are distinct after they have been cut to 8.3, those of files
  and of directories are disjoint; sectors never written are zero; reads do not
  fail; a chain that loops (only after a crash) is followed for
  `MaxCluster + 1` steps; writes through a damaged chain into clusters 0 and 1
  fall into the second FAT, which nothing reads.
* `Reader`: the file is not changed while it is read (`FatFs` has that case).
* `Shell`: the cluster of a new file or directory holds no old entries; drives
  are hard disks; the parent of `curdir` fits into the 256 bytes that `cd ..`
  copies it to without a test (`shell.c:180`).
* `Console`: the status fits the row (`TelemetryLength <= Cols`, in
  `ConsoleAssumption`), as `telemetry_update` does not test where its text ends
  (`vga_serial.c:329`).
* `Disks`: drive numbers are one digit (that `1` is a prefix of `10` is left
  out); which disks answer is fixed from boot to boot, except for an eject;
  `NoVolume`, which stands for a null pointer, is no volume.
* `Memory`: entries of the memory map do not overlap, page 0 is not usable and
  the bitmap finds room (`pmm_init` does not look); sizes passed to `malloc` are
  positive; the frame buffers, which take most of slab 0 first, are a smaller
  `SlabPages`. The stray write of the first object of slab 0 leaves the model.
  Which callers forget to free (`disk_read` of a failing CD, `vfs_open`) is not
  modelled.
* `AhciPort`: the controller sets BSY when it fetches; after an error it stops
  with `ci` set, as nobody restarts it; the link stays up; the command is
  abstracted to direction, sector and buffer.

## Not modelled

* Never called: `nvme_service`, `vfs_write`, `vfs_seek`, `vfs_mount_auto`,
  `f_fdisk`, `pmm_free`, `bump_reset`, `rsl_copy`, `rsl_paste`, the variables of
  scripts, the desktop, the fuzzing hooks.
* Operations that only read and print: `f_readdir`, `f_stat`, `ls`,
  `debug-dump`, help, colours.
* Straight-line hardware set-up: GDT, IDT, APIC, PCI, the xHCI handover, the
  timer, the loader requests, the serial port.
* The translation of 2048 to 512 byte sectors of a CD in `ff_glue.c`.
* Host tools: `fat_tool.py`, `menuconfig.py`, `Makefile`.

## Plan

What is left, in the order in which it matters:

1. *Steps that the liveness properties rest on*, as theorems: that a yield of
   the runner strictly shortens the distance to a READY task, and that each turn
   of the driver's loop takes from its counter. Liveness itself stays with TLC.
2. *`WritePersists` up to the first crash*, with the condition in the state
   as in `NoCrossLinkHolds`, and with readers that do not close.
3. *`Shell` over `Disks`*: one composition in which a path reaches a drive whose
   index has shifted.
4. *8.3 names*: what aliasing of long names does to `UniqueNames`.
5. *CD sectors*, with the disk that fails; `AhciPort` under `FatFs` with failing
   reads.
