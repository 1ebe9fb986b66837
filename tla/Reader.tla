------------------------------- MODULE Reader -------------------------------
(***************************************************************************)
(* The two loops that read a file to its end: cat, which keeps a FIL over  *)
(* its calls of f_read (internal_fs_cat), and the script streamer, which   *)
(* reads byte by byte through vfs_read, cuts the bytes into lines and      *)
(* sends those to the serial port (rsl_execute_stream). That is all it     *)
(* does with a line: nothing executes it.                                  *)
(*                                                                         *)
(* The file does not change while it is read. A byte is its position in    *)
(* the file, so that a byte read from a wrong place shows; clusters are    *)
(* counted along the chain.                                                *)
(***************************************************************************)
EXTENDS Integers, Sequences

CONSTANTS
  SectorSize,
  SectorsPerCluster,
  CatChunk,        \* bytes cat asks for (511)
  LineMax,         \* characters in a line of a script (255)
  MaxSize,         \* bound: the size of the file
  Garbage,         \* bound: what an uninitialised byte count may hold
  Faults           \* whether malloc may return NULL and a read may fail

ASSUME ReaderAssumption ==
  /\ SectorSize \in Nat \ {0} /\ SectorsPerCluster \in Nat \ {0}
  /\ CatChunk \in Nat \ {0}
  /\ LineMax \in Nat \ {0}
  /\ MaxSize \in Nat
  /\ Garbage \subseteq Nat
  /\ Faults \in BOOLEAN

VARIABLES
  kind,            \* "cat" or "stream"
  size,            \* fsize
  newlines,        \* the bytes that are '\n'; byte -1 is an uninitialised c
  reading,         \* the loop has not ended
  fptr,
  clust,           \* the place in the chain of fp->clust
  br,
  out,             \* history: the bytes cat has printed up to the end
  c, line,         \* of rsl_execute_stream
  lines            \* history: the lines sent to the serial port while
                   \* there were bytes to read

vars == <<kind, size, newlines, reading, fptr, clust, br, out, c, line, lines>>

ClusterSize == SectorSize * SectorsPerCluster

(* The clusters in the chain: f_open takes the first, f_write a further    *)
(* one only for a byte that needs it.                                      *)
ChainLength == IF size = 0 THEN 1 ELSE (size + ClusterSize - 1) \div ClusterSize
EOC == MaxSize + 1

Init ==
  /\ kind \in {"cat", "stream"}
  /\ size \in 0 .. MaxSize
  /\ newlines \in (IF kind = "cat" THEN {{}} ELSE SUBSET (-1 .. size - 1))
  /\ reading = TRUE
  /\ fptr = 0 /\ clust = 0
  /\ br \in Garbage
  /\ out = <<>> /\ c = -1 /\ line = <<>> /\ lines = <<>>

-----------------------------------------------------------------------------
AtEnd == fptr >= size

(* The cluster that holds byte i of a read, when every link is followed at *)
(* the boundary before it.                                                 *)
ClusterOf(i) == clust + (fptr + i) \div ClusterSize - fptr \div ClusterSize

(* The bytes a read of n delivers: the sector and the offset follow from   *)
(* fptr, the cluster from clust.                                           *)
Bytes(n) ==
  [i \in 1 .. n |-> ClusterOf(i - 1) * ClusterSize + ((fptr + i - 1) % ClusterSize)]

(* Mutant: the cluster that a read comes to is not kept in the FIL. *)
FReadForgetful(btr) ==
  {[n |-> IF btr > size - fptr THEN size - fptr ELSE btr, clust |-> clust]}

(* f_read before the end: how many bytes it reads and where that leaves    *)
(* clust. The link at a boundary is followed only if bytes remain to be    *)
(* read in this call. A failed disk_read ends it at the beginning of a     *)
(* sector, a failed malloc at a boundary, with an end mark for a cluster;  *)
(* no disk has the sector that mark stands for.                            *)
FRead(btr) ==
  LET n == IF btr > size - fptr THEN size - fptr ELSE btr
      whole == [n |-> n, clust |-> ClusterOf(n - 1)]
      sectors == {k \in 0 .. n - 1 : k = 0 \/ (fptr + k) % SectorSize = 0}
      boundaries == {k \in 1 .. n - 1 : (fptr + k) % ClusterSize = 0}
  IN IF clust = EOC THEN {[n |-> 0, clust |-> EOC]}
     ELSE {whole} \cup
          (IF Faults THEN {[n |-> k, clust |-> ClusterOf(k)] : k \in sectors}
                            \cup {[n |-> k, clust |-> EOC] : k \in boundaries}
           ELSE {})

(* One turn of the loop of cat, up to its print. At the end of the file    *)
(* f_read leaves the byte count as the last call set it, and the buffer.   *)
CatRead ==
  /\ kind = "cat" /\ reading
  /\ \/ /\ AtEnd
        /\ UNCHANGED <<fptr, clust, br, out>>
     \/ /\ ~AtEnd
        /\ \E r \in FRead(CatChunk) :
             /\ br' = r.n
             /\ fptr' = fptr + r.n
             /\ clust' = r.clust
             /\ out' = out \o Bytes(r.n)
  /\ reading' = (br' > 0)
  /\ UNCHANGED <<kind, size, newlines, c, line, lines>>

(* Mutant: the line is flushed one character early. *)
LineFullEarly == Len(line) >= LineMax - 1

LineFull == Len(line) >= LineMax

(* What the streamer does with byte b: a line ends at a new line, and at   *)
(* the character for which it has no room, which is lost; what follows is  *)
(* a line of its own. A line that is not empty goes to the serial port.    *)
(* What is sent after the end of the file is not recorded.                 *)
Feed(b) ==
  IF b \in newlines \/ LineFull
  THEN /\ line' = <<>>
       /\ lines' = IF line # <<>> /\ ~AtEnd THEN Append(lines, line) ELSE lines
  ELSE line' = Append(line, b) /\ UNCHANGED lines

(* Mutant: the walk of vfs_read is one link short at a boundary. *)
WalkToLate == IF fptr = 0 THEN 0 ELSE (fptr - 1) \div ClusterSize

(* vfs_read walks the chain from its start to the cluster of the position. *)
WalkTo == fptr \div ClusterSize

(* The walk finds the end of the chain, or malloc fails: -1, and the loop  *)
(* ends.                                                                   *)
StreamWalkEnds ==
  /\ kind = "stream" /\ reading
  /\ WalkTo >= ChainLength \/ (Faults /\ WalkTo > 0)
  /\ reading' = FALSE
  /\ UNCHANGED <<kind, size, newlines, fptr, clust, br, out, c, line, lines>>

(* One byte. A failed disk_read gives none, and the loop ends. *)
StreamByte ==
  /\ kind = "stream" /\ reading
  /\ WalkTo < ChainLength /\ ~AtEnd
  /\ \/ LET b == WalkTo * ClusterSize + (fptr % ClusterSize) IN
          /\ c' = b
          /\ clust' = WalkTo
          /\ fptr' = fptr + 1
          /\ Feed(b)
          /\ UNCHANGED reading
     \/ /\ Faults /\ reading' = FALSE
        /\ UNCHANGED <<fptr, clust, c, line, lines>>
  /\ UNCHANGED <<kind, size, newlines, br, out>>

(* At the end of the file, inside the last cluster, f_read succeeds and    *)
(* does not set the byte count, a local of vfs_read: if it happens to be   *)
(* 1, the streamer takes the last character once more.                     *)
StreamAtEnd ==
  /\ kind = "stream" /\ reading
  /\ WalkTo < ChainLength /\ AtEnd
  /\ \E g \in Garbage : IF g = 1 THEN Feed(c) /\ UNCHANGED reading
                                 ELSE reading' = FALSE /\ UNCHANGED <<line, lines>>
  /\ clust' = WalkTo
  /\ UNCHANGED <<kind, size, newlines, fptr, br, out, c>>

Step == CatRead \/ StreamWalkEnds \/ StreamByte \/ StreamAtEnd
Next == Step

Spec == Init /\ [][Next]_vars

(* The thread that reads gets the CPU again after each of its yields. *)
FairSpec == Spec /\ WF_vars(Step)

-----------------------------------------------------------------------------
(* What cat prints, up to the first time it meets the end, is the file:    *)
(* every byte once, in order, over sectors, clusters and failed reads.     *)
(* f_read does not follow the link when a call ends on a boundary, and the *)
(* next call then reads the old cluster again; a chunk of one byte less    *)
(* than a sector keeps away from that for files below CatChunk sectors.    *)
CatPrintsFile ==
  kind = "cat" /\ CatChunk = SectorSize - 1 /\ size < CatChunk * SectorSize
    => out = [i \in 1 .. fptr |-> i - 1]

(* Where a script is cut: at its line ends, and in a line that begins at s *)
(* at every byte that finds LineMax others since the last cut.             *)
LineEnds == newlines \ {-1}
LineAt(s, p) ==
  /\ s = 0 \/ s - 1 \in LineEnds
  /\ \A q \in s .. p - 1 : q \notin LineEnds
Cuts ==
  LineEnds \cup
    {p \in 0 .. size : \E s \in 0 .. p : LineAt(s, p) /\ (p - s) % (LineMax + 1) = LineMax}

(* The bytes between two cuts, without empty pieces and without a last one *)
(* that nothing ends.                                                      *)
Pieces ==
  LET cuts == Cuts IN
  {l \in [from : 0 .. size, to : 0 .. size] :
     /\ l.from <= l.to /\ l.to + 1 \in cuts
     /\ l.from = 0 \/ l.from - 1 \in cuts
     /\ \A q \in l.from .. l.to : q \notin cuts}

Bounds(l) == [from |-> l[1], to |-> l[Len(l)]]
Unbroken(l) == \A i \in 1 .. Len(l) : l[i] = l[1] + i - 1

(* Up to the end of the file, or the first read that fails, the streamer   *)
(* has sent to the serial port the pieces of the script that end before    *)
(* the byte it has come to: each of them, whole, once and in their order,  *)
(* and nothing else. A line longer than the buffer comes in several.       *)
StreamsTheScript ==
  kind = "stream" =>
    /\ \A i \in 1 .. Len(lines) : Unbroken(lines[i])
    /\ {Bounds(lines[i]) : i \in 1 .. Len(lines)} = {l \in Pieces : l.to < fptr - 1}
    /\ \A i \in 1 .. Len(lines) - 1 : lines[i][1] < lines[i + 1][1]

(* A script whose size is a whole number of clusters comes to its end: the *)
(* walk of vfs_read finds the end of the chain before f_read can leave the *)
(* byte count unset.                                                       *)
AlignedScriptsEnd ==
  (kind = "stream" /\ size > 0 /\ size % ClusterSize = 0) ~> ~reading

(* cat of a file that is not empty returns ("View file content. Returns to *)
(* shell after.", the help of the shell). It does not: at the end of the   *)
(* file the byte count still holds that of the last call, and the loop     *)
(* prints the last chunk again and again.                                  *)
CatReturns == (kind = "cat" /\ size > 0) ~> ~reading
=============================================================================
