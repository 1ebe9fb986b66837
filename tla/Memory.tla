------------------------------- MODULE Memory --------------------------------
(***************************************************************************)
(* The allocators over the page allocator of Pages: the slabs with their   *)
(* pages, their bump pointer and the heap of slab 0 (slab.c), bump_alloc   *)
(* (bump_alloc.c), and the reference-counted objects (arc_mem.c) that      *)
(* every managed string is (rsl_string.c).                                 *)
(*                                                                         *)
(* Memory is counted in words of 8 bytes, from physical address 0. An      *)
(* alignment of 16 bytes is one of 2 words. Slab memory is given out once  *)
(* and never taken back; a heap block is a slab_header_t of 3 words and its*)
(* data, an object an arc_header_t of 1 word and its data. Allocators do   *)
(* not yield: one call is one step.                                        *)
(***************************************************************************)
EXTENDS Naturals, FiniteSets, Pages

CONSTANTS
  MemoryMaps,   \* bound: the memory maps the loader may pass
  PageWords,    \* words in a page
  SlabPages,    \* SLAB_SIZE / 4096
  MaxSlabs,     \* MAX_SLABS
  HeapSizes,    \* sizes passed to malloc, rounded up to 16 bytes
  ObjectSizes,  \* sizes passed to arc_alloc: a length, and a string with its zero
  DmaWords,     \* size and alignment of a command table
  MaxHolders    \* bound: references a client takes to one object

ASSUME SlabAssumption ==
  /\ MaxSlabs \in Nat \ {0} /\ SlabPages \in Nat \ {0}
  /\ DmaWords \in Nat \ {0} /\ DmaWords % 2 = 0
  /\ PageWords \in Nat \ {0} /\ PageWords % DmaWords = 0
  /\ MaxHolders \in Nat \ {0} /\ PageBytes \in Nat \ {0}
(* Entries do not overlap, page 0 is never usable, and there is room for   *)
(* the bitmap somewhere.                                                   *)
ASSUME MapAssumption ==
  \A map \in MemoryMaps :
    /\ \A i \in DOMAIN map : map[i].base \in Nat /\ map[i].length \in Nat
    /\ \A i, j \in DOMAIN map : i # j => PagesOf(map[i]) \cap PagesOf(map[j]) = {}
    /\ \A i \in DOMAIN map : map[i].usable => map[i].base > 0
    /\ \E i \in DOMAIN map : map[i].usable /\ map[i].length * PageBytes >= BitmapSize(map)
ASSUME SizeAssumption ==
  /\ HeapSizes \subseteq {n \in Nat : n >= 2 /\ n % 2 = 0}
  /\ ObjectSizes \subseteq {n \in Nat : n >= 2}

VARIABLES
  memmap,       \* the memory map of this boot
  slab,         \* i, the loop variable of slab_init
  base,         \* slabs[id].base, in pages
  offset,       \* slabs[id].offset
  blocks,       \* every block a slab has given out, by the word it starts at
  peak          \* history: the most heap blocks in use at one time

vars == <<memmap, slab, base, offset, blocks, peak>>

Slabs == 0 .. MaxSlabs - 1
SlabWords == SlabPages * PageWords

(* Block a lies at words a .. a + words - 1. used is is_used of a heap     *)
(* block, count the ref_count of an object; headerLost: size or next of a  *)
(* heap block has been overwritten. holders, the references its clients    *)
(* have, is history.                                                       *)
Block(kind, words, size) ==
  [kind |-> kind, words |-> words, size |-> size, used |-> TRUE, count |-> 1,
   headerLost |-> FALSE, holders |-> 1]

HeapHeader == 3
ObjectHeader == 1

Init ==
  /\ memmap \in MemoryMaps
  /\ slab = 0
  /\ base = [id \in Slabs |-> 0]
  /\ offset = [id \in Slabs |-> 0]
  /\ blocks = [a \in {} |-> Block("dma", 0, 0)]
  /\ peak = 0

-----------------------------------------------------------------------------
PagesOfSlab(id) == base[id] .. base[id] + SlabPages - 1

\* Mutant: pmm_alloc does not mark what it gives out.
PagesLeftUnmarked == FreePages(memmap)

(* The free pages: nobody but slab_init asks for any. *)
PagesLeft == FreePages(memmap) \ UNION {PagesOfSlab(id) : id \in {i \in Slabs : base[i] # 0}}

(* slab_init, one slab: without a run of free pages it keeps base 0. *)
SlabInit ==
  /\ slab < MaxSlabs
  /\ slab' = slab + 1
  /\ base' = [base EXCEPT ![slab] = PmmAlloc(PagesLeft, SlabPages)]
  /\ UNCHANGED <<memmap, offset, blocks, peak>>

(* slab_alloc_aligned. *)
\* Mutant: rounds down.
AlignDown(n, align) == (n \div align) * align
AlignUp(n, align) == ((n + align - 1) \div align) * align
(* The first word of a slab. *)
Base(id) == base[id] * PageWords
Aligned(id, align) == AlignUp(Base(id) + offset[id], align)
\* Mutant: the padding is not counted.
FitsUnpadded(id, words, align) == offset[id] + words <= SlabWords
Fits(id, words, align) == Aligned(id, align) + words <= Base(id) + SlabWords
SlabAlloc(id, kind, words, size, align) ==
  LET new == Aligned(id, align)
  IN /\ slab = MaxSlabs
     /\ Fits(id, words, align)
     /\ offset' = [offset EXCEPT ![id] = new + words - Base(id)]
     /\ blocks' = [a \in DOMAIN blocks \cup {new} |->
                     IF a = new THEN Block(kind, words, size) ELSE blocks[a]]

InUse(bs) == Cardinality({b \in DOMAIN bs : bs[b].kind = "heap" /\ bs[b].holders > 0})
Peak == peak' = IF InUse(blocks') > peak THEN InUse(blocks') ELSE peak

(* The list of heap blocks starts with the newest, the one at the highest  *)
(* address.                                                                *)
\* Mutant: a block of just the right size is passed over.
Larger(n) == {b \in DOMAIN blocks : blocks[b].kind = "heap" /\ ~blocks[b].used /\ blocks[b].size > n}
Reusable(n) == {b \in DOMAIN blocks : blocks[b].kind = "heap" /\ ~blocks[b].used /\ blocks[b].size >= n}
IsFirst(b, S) == b \in S /\ \A c \in S : c <= b

\* Mutant: a new block has no room for its header.
MallocHeaderless(n) ==
  /\ \/ \E b \in DOMAIN blocks :
          /\ IsFirst(b, Reusable(n))
          /\ blocks' = [blocks EXCEPT ![b].used = TRUE, ![b].holders = @ + 1]
          /\ UNCHANGED offset
     \/ /\ Reusable(n) = {}
        /\ SlabAlloc(0, "heap", n, n, 2)
  /\ Peak
  /\ UNCHANGED <<memmap, slab, base>>

(* malloc, and bump_alloc, which calls it: the first free block that is    *)
(* large enough, or a new one; NULL leaves everything as it was.           *)
Malloc(n) ==
  /\ \/ \E b \in DOMAIN blocks :
          /\ IsFirst(b, Reusable(n))
          /\ blocks' = [blocks EXCEPT ![b].used = TRUE, ![b].holders = @ + 1]
          /\ UNCHANGED offset
     \/ /\ Reusable(n) = {}
        /\ SlabAlloc(0, "heap", HeapHeader + n, n, 2)
  /\ Peak
  /\ UNCHANGED <<memmap, slab, base>>

(* free of a block malloc has returned. *)
Free(b) ==
  /\ blocks[b].kind = "heap" /\ blocks[b].holders > 0
  /\ blocks' = [blocks EXCEPT ![b].used = FALSE, ![b].holders = 0]
  /\ Peak
  /\ UNCHANGED <<memmap, slab, base, offset>>

(* The command lists and tables of the AHCI ports come out of slab 0, too. *)
DmaAlloc ==
  /\ SlabAlloc(0, "dma", DmaWords, DmaWords, DmaWords)
  /\ UNCHANGED <<memmap, slab, base, peak>>

\* Mutant: an object has no room for its header.
ArcAllocHeaderless(id, n) ==
  /\ SlabAlloc(id, "object", n, n, 2)
  /\ UNCHANGED <<memmap, slab, base, peak>>

(* arc_alloc, called by str_create and str_concat, takes the slab of the   *)
(* current task.                                                           *)
ArcAlloc(id, n) ==
  /\ SlabAlloc(id, "object", ObjectHeader + n, n, 2)
  /\ UNCHANGED <<memmap, slab, base, peak>>

(* retain. *)
Retain(b) ==
  /\ blocks[b].kind = "object" /\ blocks[b].holders \in 1 .. MaxHolders - 1
  /\ blocks' = [blocks EXCEPT ![b].count = @ + 1, ![b].holders = @ + 1]
  /\ UNCHANGED <<memmap, slab, base, offset, peak>>

(* A zero is written to word w, in a block it does not belong to. *)
Hit(block, k) ==
  CASE block.kind = "heap" /\ k = 1 -> [block EXCEPT !.used = FALSE]
    [] block.kind = "heap" /\ k \in {0, 2} -> [block EXCEPT !.headerLost = TRUE]
    [] block.kind = "object" /\ k = 0 -> [block EXCEPT !.count = 0]
    [] OTHER -> block
Covers(a, words, w) == w \in a .. a + words - 1
Strike(bs, w) == [a \in DOMAIN bs |-> IF Covers(a, bs[a].words, w) THEN Hit(bs[a], w - a) ELSE bs[a]]

(* The word that free takes for is_used when it is given the address a:    *)
(* the second of the HeapHeader words before a.                            *)
IsUsedBefore(a) == a + 1 - HeapHeader

(* release hands the arc_header_t to free, which takes the 3 words before  *)
(* it for the header of a heap block.                                      *)
Release(b) ==
  /\ blocks[b].kind = "object" /\ blocks[b].holders > 0
  /\ LET dropped == [blocks EXCEPT ![b].count = IF @ > 0 THEN @ - 1 ELSE 0, ![b].holders = @ - 1]
     IN blocks' = IF blocks[b].count = 1 /\ b + 1 >= HeapHeader
                  THEN Strike(dropped, IsUsedBefore(b))
                  ELSE dropped
  /\ UNCHANGED <<memmap, slab, base, offset, peak>>

Next ==
  \/ SlabInit
  \/ \E n \in HeapSizes : Malloc(n)
  \/ DmaAlloc
  \/ \E id \in Slabs, n \in ObjectSizes : ArcAlloc(id, n)
  \/ \E b \in DOMAIN blocks : Free(b) \/ Retain(b) \/ Release(b)

Spec == Init /\ [][Next]_vars

-----------------------------------------------------------------------------
TypeOK ==
  /\ memmap \in MemoryMaps
  /\ slab \in 0 .. MaxSlabs
  /\ base \in [Slabs -> Nat]
  /\ offset \in [Slabs -> 0 .. SlabWords]
  /\ peak \in Nat
  /\ \A b \in DOMAIN blocks :
       /\ blocks[b].kind \in {"heap", "object", "dma"}
       /\ blocks[b].count \in 0 .. MaxHolders /\ blocks[b].holders \in Nat

Usable(p) == \E i \in DOMAIN memmap : memmap[i].usable /\ p \in PagesOf(memmap[i])

(* A slab that has got pages shares none with another one, with the page   *)
(* bitmap, or with memory that is not usable.                              *)
SlabsApart ==
  \A id \in Slabs : base[id] # 0 =>
    /\ \A p \in PagesOfSlab(id) : Usable(p) /\ p \notin BitmapPages(memmap)
    /\ \A other \in Slabs \ {id} : base[other] # 0 => PagesOfSlab(id) \cap PagesOfSlab(other) = {}

(* Every slab that is in use has got its pages: slab_alloc_aligned does not *)
(* look, and where a slab without pages puts its blocks is anybody's.      *)
InPages == \A id \in Slabs : offset[id] > 0 => base[id] # 0

(* No word is given out twice: every block lies in what its slab has given *)
(* out, and no two overlap.                                                *)
BlocksDisjoint ==
  /\ SlabsApart
  /\ InPages =>
       \A b \in DOMAIN blocks :
         /\ \E id \in Slabs : b >= Base(id) /\ b + blocks[b].words <= Base(id) + offset[id]
         /\ \A c \in DOMAIN blocks : b < c => b + blocks[b].words <= c

(* A heap block has one client at a time and is marked as used while it    *)
(* has one, whatever is released next to it: the byte that release clears  *)
(* is the is_used, the size or the next of none.                           *)
HeapSurvivesRelease ==
  InPages => \A b \in DOMAIN blocks : blocks[b].kind = "heap" =>
    /\ ~blocks[b].headerLost
    /\ blocks[b].holders \in {0, 1}
    /\ blocks[b].used <=> blocks[b].holders > 0

(* An object counts exactly the references its clients hold: nobody's      *)
(* release clears the count of another object.                             *)
CountsAreTrue ==
  InPages => \A b \in DOMAIN blocks : blocks[b].kind = "object" => blocks[b].count = blocks[b].holders

(* malloc makes no more blocks of the largest size than were ever in use   *)
(* at one time: a client that frees its sector buffers never exhausts the  *)
(* slab with them.                                                         *)
BuffersBounded ==
  Cardinality({b \in DOMAIN blocks :
     blocks[b].kind = "heap" /\ \A n \in HeapSizes : n <= blocks[b].size}) <= peak
=============================================================================
