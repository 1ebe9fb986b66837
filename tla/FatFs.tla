------------------------------- MODULE FatFs -------------------------------
(***************************************************************************)
(* The FAT volume of kernel/libs/storage/fatfs/ff.c, with its callers: the *)
(* write command (internal_fs_write: f_open, f_write, f_close with no      *)
(* yield in between), mkdir, rmdir (f_unlink), and readers that hold a     *)
(* handle across yields (rsl_execute_stream, internal_fs_cat) and close it *)
(* with f_close like a writer.                                             *)
(*                                                                         *)
(* A step that writes one sector writes it; one that writes several leaves *)
(* them in todo, and DiskStep issues the next. Nothing else runs while a   *)
(* command is under way (it does not yield), but a crash may fall between  *)
(* two writes: it keeps the disk and loses todo and every handle.          *)
(*                                                                         *)
(* Data is not modelled, only where it goes: read as directory entries it  *)
(* matches no name, and is either all zero or neither free nor deleted.    *)
(* Sizes count sectors. A sector write of the disk may fail: what f_write  *)
(* does with that is an action of its own; the results of all the others   *)
(* (of set_cluster_link, and of f_open and f_mkdir, which write an entry)  *)
(* nobody looks at. Reads do not fail.                                     *)
(* Files are named from FileNames and directories from DirNames, so no     *)
(* file is opened as a directory or written like one; directories lie in   *)
(* the root, files in the root or one level below. Sectors never written   *)
(* are zero.                                                               *)
(***************************************************************************)
EXTENDS Integers, Sequences, FiniteSets

CONSTANTS
  MaxCluster,         \* the last cluster the FAT has an entry for
  SectorsPerCluster,
  SlotsPerSector,     \* directory entries in a sector (16)
  FileNames,
  DirNames,
  Streams,            \* the tasks that may hold a handle across yields
  MaxWrite,           \* bound: sectors per write command
  MaxCrashes,         \* bound: crashes in a behaviour
  MaxFailures,        \* bound: sector writes that fail in a behaviour
  Faults,             \* whether malloc may return NULL
  ZeroData,           \* bound: whether data may be all zero
  NoFile,             \* no handle
  Top                 \* the directory part of a path in the root

ASSUME FatFsAssumption ==
  /\ MaxCluster \in Nat /\ MaxCluster >= 2
  /\ SectorsPerCluster \in Nat \ {0}
  /\ SlotsPerSector \in Nat \ {0}
  /\ FileNames \cap DirNames = {}
  /\ Top \notin DirNames
  /\ MaxWrite \in Nat \ {0}
  /\ MaxCrashes \in Nat /\ MaxFailures \in Nat
  /\ Faults \in BOOLEAN
  /\ ZeroData \in BOOLEAN

VARIABLES
  fat,       \* the first FAT
  slots,     \* the directory entries each cluster holds
  wr,        \* the FIL of the write command under way
  rd,        \* the handles held across yields
  todo,      \* sector writes the current operation has yet to issue
  crashes,
  failures,  \* history: the sector writes that have failed
  saved      \* history: the size and first cluster each path was last
             \* written with by a completed write command, and how many
             \* sectors (len) that command wrote

vars == <<fat, slots, wr, rd, todo, crashes, failures, saved>>

Clusters == 0 .. MaxCluster
Width == SectorsPerCluster * SlotsPerSector
SlotIds == 0 .. Width - 1
FirstSector == 0 .. SlotsPerSector - 1

Free == 0
EOC == MaxCluster + 1      \* anything >= 0x0FFFFFF8
Root == 2
Names == FileNames \cup DirNames
Paths == [dir : DirNames \cup {Top}, name : FileNames]
Sizes == 0 .. MaxWrite

(* name[0] is 0 ("free"), 0xE5 ("deleted"), the first letter of a name     *)
(* ("used") or a byte of file data ("junk").                               *)
Slot(st, name, first, size) ==
  [st |-> st, name |-> name, first |-> first, size |-> size]
FreeSlot == Slot("free", Top, Free, 0)
JunkSlot == Slot("junk", Top, Free, 0)

(* What the entries of a data sector look like. *)
Data == {JunkSlot} \cup (IF ZeroData THEN {FreeSlot} ELSE {})

SlotType == [st : {"free", "deleted", "used", "junk"}, name : Names \cup {Top},
             first : Clusters, size : Sizes]

HandleType == [dir : Clusters, idx : SlotIds, sclust : Clusters,
               clust : Clusters, pos : Sizes, size : Sizes]
WriterType == [path : Paths, left : 0 .. MaxWrite, fil : HandleType]

ASSUME NoFileAssumption == NoFile \notin WriterType

SectorWrite ==
  [op : {"link"}, c : Clusters, next : Clusters \cup {EOC}]
    \cup [op : {"slot"}, c : Clusters, i : SlotIds, slot : SlotType]
    \cup [op : {"data"}, c : Clusters, s : 0 .. SectorsPerCluster - 1, as : Data]
    \cup [op : {"zero"}, c : Clusters]

NotSaved == [first |-> Free, size |-> 0, len |-> 0]

(* The volume f_mkfs lays out: two reserved FAT entries and an empty root. *)
Init ==
  /\ fat = [c \in Clusters |-> IF c <= Root THEN EOC ELSE Free]
  /\ slots = [c \in Clusters |-> [i \in SlotIds |-> FreeSlot]]
  /\ wr = NoFile
  /\ rd = [s \in Streams |-> NoFile]
  /\ todo = <<>>
  /\ crashes = 0 /\ failures = 0
  /\ saved = [p \in Paths |-> NotSaved]

-----------------------------------------------------------------------------
(* Reading the volume.                                                     *)

First(S) == CHOOSE i \in S : \A j \in S : i <= j

(* The k-th cluster of the chain that starts at c, and EOC after its end.  *)
Walk(c) ==
  LET next == [d \in Clusters \cup {EOC} |-> IF d = EOC THEN EOC ELSE fat[d]]
      at[k \in 0 .. MaxCluster] == IF k = 0 THEN c ELSE next[at[k - 1]]
  IN at

(* The entries of directory d that have the name, numbered along its chain *)
(* and up to the first whose mark is in stop. (A chain that loops, which   *)
(* the search would follow for ever, is followed for MaxCluster + 1 steps.)*)
MatchesUpTo(d, name, stop) ==
  LET walk == Walk(d)
      slot(n) == slots[walk[n \div Width]][n % Width]
      seen == 0 .. Width * Cardinality({k \in DOMAIN walk : walk[k] # EOC}) - 1
  IN {n \in seen : /\ slot(n).st = "used" /\ slot(n).name = name
                   /\ \A m \in seen : m < n => slot(m).st \notin stop}

(* Mutant: the search stops at a deleted entry too. *)
MatchesToDeleted(d, name) == MatchesUpTo(d, name, {"free", "deleted"})

(* find_entry stops at the first entry never used. *)
Matches(d, name) == MatchesUpTo(d, name, {"free"})

(* Where find_entry finds the name: the cluster and the slot in it. *)
Place(d, name) ==
  LET n == First(Matches(d, name)) IN <<Walk(d)[n \div Width], n % Width>>

Entry(d, name) == LET p == Place(d, name) IN slots[p[1]][p[2]]

(* find_entry returns the first cluster, and 0 for not found. *)
Found(d, name) == Matches(d, name) # {} /\ Entry(d, name).first # Free

(* The directory a path lies in, Free (0) when it does not resolve. *)
Parent(path) ==
  IF path.dir = Top THEN Root
  ELSE IF Found(Root, path.dir) THEN Entry(Root, path.dir).first
  ELSE Free

Exists(path) == Parent(path) # Free /\ Found(Parent(path), path.name)

FreeClusters == {c \in Root .. MaxCluster : fat[c] = Free}

(* get_next_cluster: the link, or an end of chain when malloc fails. *)
NextClusters(c) == {fat[c]} \cup (IF Faults THEN {EOC} ELSE {})

(* The entries that f_open and f_mkdir may put a new entry in. *)
Reusable(d, among) == {i \in among : slots[d][i].st \in {"free", "deleted"}}

Handle(d, i, first, size) ==
  [dir |-> d, idx |-> i, sclust |-> first, clust |-> first, pos |-> 0,
   size |-> size]

OpenExisting(path) ==
  LET d == Parent(path)
      p == Place(d, path.name)
  IN Handle(p[1], p[2], Entry(d, path.name).first, Entry(d, path.name).size)

(* The sector writes. *)
Link(c, next) == [op |-> "link", c |-> c, next |-> next]
PutSlot(d, i, slot) == [op |-> "slot", c |-> d, i |-> i, slot |-> slot]
PutData(c, s, as) == [op |-> "data", c |-> c, s |-> s, as |-> as]
ZeroSector(c) == [op |-> "zero", c |-> c]

(* The disk after a sector write. *)
SectorOf(i) == i \div SlotsPerSector

FatAfter(w) == IF w.op = "link" THEN [fat EXCEPT ![w.c] = w.next] ELSE fat

Fill(c, s, slot) ==
  [slots EXCEPT ![c] = [i \in SlotIds |-> IF SectorOf(i) = s THEN slot ELSE @[i]]]

SlotsAfter(w) ==
  CASE w.op = "link" -> slots
    [] w.op = "slot" -> [slots EXCEPT ![w.c][w.i] = w.slot]
    [] w.op = "data" -> Fill(w.c, w.s, w.as)
    [] w.op = "zero" -> Fill(w.c, 0, FreeSlot)

Write(w) == fat' = FatAfter(w) /\ slots' = SlotsAfter(w)

(* Mutant: the new size is not written back. *)
CloseEntryKeepsSize(fil) ==
  PutSlot(fil.dir, fil.idx,
          [slots[fil.dir][fil.idx] EXCEPT !.first = fil.sclust])

(* f_close rewrites the size and the first cluster of the entry the file   *)
(* was opened at, and nothing else of it, whatever the entry is by now.    *)
CloseEntry(fil) ==
  PutSlot(fil.dir, fil.idx,
          [slots[fil.dir][fil.idx] EXCEPT !.first = fil.sclust,
                                          !.size = fil.size])

(* f_unlink marks the entry; the chain stays allocated. *)
DeleteEntry(p) == PutSlot(p[1], p[2], [slots[p[1]][p[2]] EXCEPT !.st = "deleted"])

-----------------------------------------------------------------------------
(* No operation is under way. *)
Idle == todo = <<>> /\ wr = NoFile

(* internal_fs_write on a path that exists: f_open keeps size and chain.   *)
OpenToOverwrite(path) ==
  /\ Idle
  /\ Exists(path)
  /\ \E n \in 1 .. MaxWrite : wr' = [path |-> path, left |-> n, fil |-> OpenExisting(path)]
  /\ UNCHANGED <<fat, slots, rd, todo, crashes, failures, saved>>

(* Mutant: the entry is written before its cluster is taken. *)
CreateEntryFirst(path) ==
  /\ Idle /\ ~Exists(path) /\ Parent(path) # Free /\ FreeClusters # {}
  /\ LET d == Parent(path)
         c == First(FreeClusters)
         room == Reusable(d, FirstSector)
     IN /\ room # {}
        /\ todo' = << PutSlot(d, First(room), Slot("used", path.name, c, 0)),
                      Link(c, EOC) >>
        /\ \E n \in 1 .. MaxWrite :
             wr' = [path |-> path, left |-> n, fil |-> Handle(d, First(room), c, 0)]
  /\ UNCHANGED <<fat, slots, rd, crashes, failures, saved>>

(* Mutant: the cluster of a new file is not marked in the FAT. *)
CreateUnmarked(path) ==
  /\ Idle /\ ~Exists(path) /\ Parent(path) # Free /\ FreeClusters # {}
  /\ LET d == Parent(path)
         c == First(FreeClusters)
         room == Reusable(d, FirstSector)
     IN /\ room # {}
        /\ todo' = << PutSlot(d, First(room), Slot("used", path.name, c, 0)) >>
        /\ \E n \in 1 .. MaxWrite :
             wr' = [path |-> path, left |-> n, fil |-> Handle(d, First(room), c, 0)]
  /\ UNCHANGED <<fat, slots, rd, crashes, failures, saved>>

(* internal_fs_write on a new path: f_open takes a cluster, then an entry  *)
(* in the first sector of the directory. Without an entry (or a buffer)    *)
(* the cluster stays taken and the command ends.                           *)
OpenToCreate(path) ==
  /\ Idle
  /\ ~Exists(path)
  /\ Parent(path) # Free
  /\ FreeClusters # {}
  /\ LET d == Parent(path)
         c == First(FreeClusters)
         room == Reusable(d, FirstSector)
     IN \/ /\ room # {}
           /\ todo' = << Link(c, EOC),
                         PutSlot(d, First(room), Slot("used", path.name, c, 0)) >>
           /\ \E n \in 1 .. MaxWrite :
                wr' = [path |-> path, left |-> n, fil |-> Handle(d, First(room), c, 0)]
        \/ /\ room = {} \/ Faults
           /\ todo' = << Link(c, EOC) >>
           /\ UNCHANGED wr
  /\ UNCHANGED <<fat, slots, rd, crashes, failures, saved>>

AtBoundary(fil) == fil.pos > 0 /\ fil.pos % SectorsPerCluster = 0

(* The handle after a sector went to cluster c. *)
Advance(c) ==
  [wr EXCEPT !.left = @ - 1,
             !.fil.clust = c,
             !.fil.pos = @ + 1,
             !.fil.size = IF wr.fil.pos + 1 > @ THEN wr.fil.pos + 1 ELSE @]

(* One turn of the loop of f_write: within a cluster, *)
WriteInCluster ==
  /\ wr # NoFile /\ todo = <<>> /\ wr.left > 0
  /\ ~AtBoundary(wr.fil)
  /\ \E as \in Data : Write(PutData(wr.fil.clust, wr.fil.pos % SectorsPerCluster, as))
  /\ wr' = Advance(wr.fil.clust)
  /\ UNCHANGED <<rd, todo, crashes, failures, saved>>

(* Mutant: the end mark is taken for a cluster (> for >=). *)
WriteEndMark ==
  /\ wr # NoFile /\ todo = <<>> /\ wr.left > 0
  /\ AtBoundary(wr.fil)
  /\ LET next == fat[wr.fil.clust] IN
       /\ next <= EOC
       /\ \E as \in Data : Write(PutData(next, 0, as))
       /\ wr' = Advance(next)
  /\ UNCHANGED <<rd, todo, crashes, failures, saved>>

(* into the next cluster of the chain, *)
WriteNextCluster ==
  /\ wr # NoFile /\ todo = <<>> /\ wr.left > 0
  /\ AtBoundary(wr.fil)
  /\ LET next == fat[wr.fil.clust] IN
       /\ next < EOC
       /\ \E as \in Data : Write(PutData(next, 0, as))
       /\ wr' = Advance(next)
  /\ UNCHANGED <<rd, todo, crashes, failures, saved>>

(* Mutant: the new cluster is linked but not marked as the end. *)
WriteUnmarked ==
  /\ wr # NoFile /\ todo = <<>> /\ wr.left > 0
  /\ AtBoundary(wr.fil)
  /\ EOC \in NextClusters(wr.fil.clust)
  /\ FreeClusters # {}
  /\ LET c == First(FreeClusters) IN
       /\ \E as \in Data : todo' = << Link(wr.fil.clust, c), PutData(c, 0, as) >>
       /\ wr' = Advance(c)
  /\ UNCHANGED <<fat, slots, rd, crashes, failures, saved>>

(* into a cluster taken for it: linked first, then marked as the end. *)
WriteNewCluster ==
  /\ wr # NoFile /\ todo = <<>> /\ wr.left > 0
  /\ AtBoundary(wr.fil)
  /\ EOC \in NextClusters(wr.fil.clust)
  /\ FreeClusters # {}
  /\ LET c == First(FreeClusters) IN
       /\ \E as \in Data :
            todo' = << Link(wr.fil.clust, c), Link(c, EOC), PutData(c, 0, as) >>
       /\ wr' = Advance(c)
  /\ UNCHANGED <<fat, slots, rd, crashes, failures, saved>>

(* The volume is full: f_write gives up, its caller goes on to f_close.    *)
WriteDenied ==
  /\ wr # NoFile /\ todo = <<>> /\ wr.left > 0
  /\ AtBoundary(wr.fil)
  /\ EOC \in NextClusters(wr.fil.clust)
  /\ FreeClusters = {}
  /\ wr' = [wr EXCEPT !.left = 0]
  /\ UNCHANGED <<fat, slots, rd, todo, crashes, failures, saved>>

(* The disk does not write the sector: f_write ends, its caller goes on to *)
(* f_close. A cluster taken for it stays in the chain.                     *)
WriteBreaks ==
  /\ wr # NoFile /\ todo = <<>> /\ wr.left > 0
  /\ failures < MaxFailures
  /\ failures' = failures + 1
  /\ LET Ends(c) == wr' = [wr EXCEPT !.left = 0, !.fil.clust = c] IN
       \/ ~AtBoundary(wr.fil) /\ Ends(wr.fil.clust) /\ UNCHANGED todo
       \/ /\ AtBoundary(wr.fil) /\ fat[wr.fil.clust] < EOC
          /\ Ends(fat[wr.fil.clust]) /\ UNCHANGED todo
       \/ /\ AtBoundary(wr.fil) /\ EOC \in NextClusters(wr.fil.clust)
          /\ FreeClusters # {}
          /\ todo' = << Link(wr.fil.clust, First(FreeClusters)),
                        Link(First(FreeClusters), EOC) >>
          /\ Ends(First(FreeClusters))
  /\ UNCHANGED <<fat, slots, rd, crashes, saved>>

(* f_close at the end of the write command. *)
CloseWriter ==
  /\ wr # NoFile /\ todo = <<>> /\ wr.left = 0
  /\ wr' = NoFile
  /\ \/ /\ Write(CloseEntry(wr.fil))
        /\ saved' = [saved EXCEPT ![wr.path] = [first |-> wr.fil.sclust,
                                                size |-> wr.fil.size,
                                                len |-> wr.fil.pos]]
     \/ Faults /\ UNCHANGED <<fat, slots, saved>>
  /\ UNCHANGED <<rd, todo, crashes, failures>>

(* Mutant: f_unlink gives the first cluster back. *)
UnlinkFreeing(path) ==
  /\ Idle
  /\ Exists(path)
  /\ Write(DeleteEntry(Place(Parent(path), path.name)))
  /\ todo' = << Link(Entry(Parent(path), path.name).first, Free) >>
  /\ saved' = [saved EXCEPT ![path] = NotSaved]
  /\ UNCHANGED <<wr, rd, crashes, failures>>

Unlink(path) ==
  /\ Idle
  /\ Exists(path)
  /\ Write(DeleteEntry(Place(Parent(path), path.name)))
  /\ saved' = [saved EXCEPT ![path] = NotSaved]
  /\ UNCHANGED <<wr, rd, todo, crashes, failures>>

(* The same on a directory: what it holds is unreachable from then on. *)
Rmdir(name) ==
  /\ Idle
  /\ Found(Root, name)
  /\ Write(DeleteEntry(Place(Root, name)))
  /\ saved' = [p \in Paths |-> IF p.dir = name THEN NotSaved ELSE saved[p]]
  /\ UNCHANGED <<wr, rd, todo, crashes, failures>>

(* Mutant: the cluster of a new directory is not marked in the FAT. *)
MkdirUnmarked(name) ==
  /\ Idle /\ ~Found(Root, name) /\ FreeClusters # {}
  /\ Reusable(Root, SlotIds) # {}
  /\ LET c == First(FreeClusters) IN
       todo' = << ZeroSector(c), PutSlot(Root, First(Reusable(Root, SlotIds)),
                                         Slot("used", name, c, 0)) >>
  /\ UNCHANGED <<fat, slots, wr, rd, crashes, failures, saved>>

(* f_mkdir zeroes the first sector of the new cluster only, and looks for  *)
(* an entry in every sector of its parent's first cluster.                 *)
Mkdir(name) ==
  /\ Idle
  /\ ~Found(Root, name)
  /\ FreeClusters # {}
  /\ LET c == First(FreeClusters)
         room == Reusable(Root, SlotIds)
     IN \/ /\ room # {}
           /\ todo' = << ZeroSector(c), Link(c, EOC),
                         PutSlot(Root, First(room), Slot("used", name, c, 0)) >>
        \/ /\ room = {} \/ Faults
           /\ todo' = << ZeroSector(c), Link(c, EOC) >>
  /\ UNCHANGED <<fat, slots, wr, rd, crashes, failures, saved>>

(* vfs_open for reading; the task yields before it closes the handle. *)
StreamOpen(s, path) ==
  /\ Idle
  /\ rd[s] = NoFile
  /\ Exists(path)
  /\ rd' = [rd EXCEPT ![s] = OpenExisting(path)]
  /\ UNCHANGED <<fat, slots, wr, todo, crashes, failures, saved>>

(* vfs_close of a reader: f_close. *)
StreamClose(s) ==
  /\ Idle
  /\ rd[s] # NoFile
  /\ rd' = [rd EXCEPT ![s] = NoFile]
  /\ \/ Write(CloseEntry(rd[s]))
     \/ Faults /\ UNCHANGED <<fat, slots>>
  /\ UNCHANGED <<wr, todo, crashes, failures, saved>>

-----------------------------------------------------------------------------
DiskStep ==
  /\ todo # <<>>
  /\ Write(Head(todo))
  /\ todo' = Tail(todo)
  /\ UNCHANGED <<wr, rd, crashes, failures, saved>>

(* The disk does not write a sector whose result nobody looks at. *)
WriteLost ==
  /\ todo # <<>> /\ Head(todo).op # "data"
  /\ failures < MaxFailures
  /\ failures' = failures + 1
  /\ todo' = Tail(todo)
  /\ UNCHANGED <<fat, slots, wr, rd, crashes, saved>>

(* Power is lost and the volume is mounted again. *)
Crash ==
  /\ crashes < MaxCrashes
  /\ crashes' = crashes + 1
  /\ wr' = NoFile
  /\ rd' = [s \in Streams |-> NoFile]
  /\ todo' = <<>>
  /\ UNCHANGED <<fat, slots, failures, saved>>

Next ==
  \/ \E path \in Paths :
       \/ OpenToOverwrite(path) \/ OpenToCreate(path) \/ Unlink(path)
       \/ \E s \in Streams : StreamOpen(s, path)
  \/ \E name \in DirNames : Mkdir(name) \/ Rmdir(name)
  \/ WriteInCluster \/ WriteNextCluster \/ WriteNewCluster \/ WriteDenied
  \/ CloseWriter
  \/ \E s \in Streams : StreamClose(s)
  \/ DiskStep
  \/ WriteBreaks \/ WriteLost
  \/ Crash

Spec == Init /\ [][Next]_vars

-----------------------------------------------------------------------------
TypeOK ==
  /\ fat \in [Clusters -> Clusters \cup {EOC}]
  /\ slots \in [Clusters -> [SlotIds -> SlotType]]
  /\ wr \in WriterType \cup {NoFile}
  /\ rd \in [Streams -> HandleType \cup {NoFile}]
  /\ \A k \in DOMAIN todo : todo[k] \in SectorWrite
  /\ crashes \in 0 .. MaxCrashes /\ failures \in 0 .. MaxFailures
  /\ saved \in [Paths -> [first : Clusters, size : Sizes, len : Sizes]]

(* What refers to cluster c: entries in use, and links of other clusters.  *)
Entries == {e \in Clusters \X SlotIds : slots[e[1]][e[2]].st = "used"}
EntriesAt(c) == {e \in Entries : slots[e[1]][e[2]].first = c}
LinksTo(c) == {d \in Clusters : fat[d] = c}

DataClusters == Root + 1 .. MaxCluster

(* Two chains share c, or c is part of a chain while the FAT has it free.  *)
Shared(c) == \/ Cardinality(EntriesAt(c)) > 1
             \/ Cardinality(LinksTo(c)) > 1
             \/ EntriesAt(c) # {} /\ LinksTo(c) # {}
Dangling(c) == fat[c] = Free /\ EntriesAt(c) \cup LinksTo(c) # {}

(* Chains are disjoint: no cluster is the start or the continuation of two *)
(* files or directories, at any point of any operation.                    *)
NoCrossLink == \A c \in DataClusters : ~Shared(c)

(* Between commands every cluster of a chain is marked as taken, so the    *)
(* allocator cannot hand it out again.                                     *)
NoDangling == Idle => \A c \in DataClusters : ~Dangling(c)

(* An entry in use never shows a free cluster, and no two entries show the *)
(* same one, even between the writes of an operation and after a crash:    *)
(* f_open and f_mkdir take the cluster before they write the entry. Only   *)
(* the write that takes it can break that, when it fails.                  *)
EntryBacked ==
  LET Unbacked(c) == Cardinality(EntriesAt(c)) > 1 \/ (EntriesAt(c) # {} /\ fat[c] = Free)
  IN Cardinality({c \in DataClusters : Unbacked(c)}) <= failures

(* A name occurs once in a directory. f_open searches up to the first      *)
(* entry never used but stores in the first reusable one, so this rests on *)
(* entries being used from the front and never becoming unused again.      *)
UniqueNames ==
  \A e, f \in Entries :
    (e[1] = f[1] /\ slots[e[1]][e[2]].name = slots[f[1]][f[2]].name) => e = f

(* One crash or one lost write breaks one chain at most: between commands  *)
(* the clusters that are shared or dangling are no more than the crashes   *)
(* and failed writes so far. (Clusters that are only lost, taken and in no *)
(* chain, are not counted: a full directory or a failed malloc loses some.)*)
DamageBounded ==
  Idle => Cardinality({c \in DataClusters : Shared(c) \/ Dangling(c)}) <= crashes + failures

(* The chain has a taken cluster for every one of size sectors. *)
ChainHolds(first, size) ==
  \A k \in 0 .. MaxCluster :
    k * SectorsPerCluster < size =>
      /\ Walk(first)[k] \in DataClusters
      /\ fat[Walk(first)[k]] # Free

(* A file stays as the last completed write command left it until it is    *)
(* written or removed by name: same first cluster, the size not smaller,   *)
(* and a chain that holds it (architecture.md: the file will persist).     *)
WritePersists ==
  Idle => \A p \in Paths : saved[p] # NotSaved =>
            /\ Exists(p)
            /\ Entry(Parent(p), p.name).first = saved[p].first
            /\ Entry(Parent(p), p.name).size >= saved[p].size
            /\ ChainHolds(saved[p].first, saved[p].size)

(* The clusters a reader that walks from c comes to. *)
ChainOf(c) == {Walk(c)[k] : k \in 0 .. MaxCluster} \cap Clusters

(* A reader that outlives its file, or other changes to its directory,     *)
(* never reads the sectors of another file: f_unlink gives no cluster back *)
(* and f_write only lengthens chains. After a crash or a lost write a chain *)
(* may already be shared.                                                  *)
ReadersAlone ==
  Idle /\ crashes = 0 /\ failures = 0 =>
    \A s \in Streams : rd[s] # NoFile =>
      /\ \A c \in ChainOf(rd[s].sclust) : fat[c] # Free
      /\ \A e \in Entries :
           LET first == slots[e[1]][e[2]].first IN
           first # rd[s].sclust => ChainOf(first) \cap ChainOf(rd[s].sclust) = {}

-----------------------------------------------------------------------------
(* The files and directories that the disk shows: entries in use that no   *)
(* entry never used comes before. (A directory stays within one cluster:   *)
(* f_open and f_mkdir put entries in the first cluster only.)              *)
Shown(d, name) ==
  {slots[d][i] : i \in {j \in SlotIds : /\ slots[d][j].st = "used"
                                        /\ slots[d][j].name = name
                                        /\ \A m \in 0 .. j - 1 : slots[d][m].st # "free"}}
ShownAt(path) ==
  IF path.dir = Top THEN Shown(Root, path.name)
  ELSE UNION {Shown(e.first, path.name) : e \in Shown(Root, path.dir)}

ShownFiles == [p \in Paths |-> IF ShownAt(p) = {} THEN -1
                               ELSE (CHOOSE e \in ShownAt(p) : TRUE).size]
ShownDirs == {name \in DirNames : Shown(Root, name) # {}}

LastWritten == [p \in Paths |-> saved[p].len]

(* Tails: f_open of a file that exists does not look at FA_CREATE_ALWAYS,  *)
(* which internal_fs_write gives it, so the volume is not the overwriting  *)
(* store the manuals describe.                                             *)
Store == INSTANCE FileStore WITH files <- ShownFiles, dirs <- ShownDirs,
                                 last <- LastWritten, Tails <- TRUE

(* Without crashes and late readers the volume is a FileStore with tails:  *)
(* at each point it shows the whole effect of a command or nothing of it,  *)
(* every other path stays as it was, and a write leaves a file of as many  *)
(* sectors as it wrote or of more that were there before                   *)
(* (internal_fs_write, internal_fs_mkdir, internal_fs_rmdir).              *)
ImplementsFileStore == Store!Spec
=============================================================================
