---------------------------- MODULE MemoryProofs ----------------------------
(***************************************************************************)
(* Theorems about Memory, for any memory map and any sizes of pages, slabs *)
(* and blocks.                                                             *)
(***************************************************************************)
EXTENDS Memory, FiniteSetTheorems, WellFoundedInduction, TLAPS

Assumptions == SlabAssumption /\ MapAssumption /\ SizeAssumption

Types ==
  /\ memmap \in MemoryMaps
  /\ slab \in 0 .. MaxSlabs
  /\ base \in [Slabs -> Nat]
  /\ offset \in [Slabs -> 0 .. SlabWords]
  /\ IsFiniteSet(DOMAIN blocks)

Blocks ==
  [kind : {"heap", "object", "dma"}, words : Nat, size : Nat, used : BOOLEAN,
   count : Nat, headerLost : BOOLEAN, holders : Nat]

(* What a block of each kind is like, whatever its slab.                   *)
BlockInv(b, block) ==
  /\ b \in Nat /\ block \in Blocks
  /\ block.kind = "heap" => block.words >= HeapHeader + 2 /\ block.count = 1
  /\ block.kind = "object" =>
       /\ block.words >= ObjectHeader + 2
       /\ block.count <= block.holders /\ block.holders <= MaxHolders
  /\ block.kind = "dma" => block.words >= 1 /\ block.count = 1
AllBlocks == \A b \in DOMAIN blocks : BlockInv(b, blocks[b])

(* Slabs get their pages one after the other, and blocks only then.        *)
SlabInv ==
  /\ \A id \in Slabs : id >= slab => base[id] = 0
  /\ slab < MaxSlabs => DOMAIN blocks = {} /\ \A id \in Slabs : offset[id] = 0

IInv ==
  /\ Types /\ peak \in Nat /\ AllBlocks /\ SlabInv
  /\ BlocksDisjoint /\ HeapSurvivesRelease /\ CountsAreTrue
-----------------------------------------------------------------------------
(* A set of numbers that is not empty has a minimum. *)
LEMMA MinIs ==
  ASSUME NEW S \in SUBSET Nat, S # {}
  PROVE  Min(S) \in S
<1> DEFINE Less == {p \in Nat \X Nat : p[1] < p[2]}
<1>1. IsWellFoundedOn(Less, Nat)
  <2>1. Less = OpToRel(<, Nat)
    BY Zenon DEF OpToRel
  <2> QED BY <2>1, NatLessThanWellFounded
<1>2. \E i \in S : \A j \in S : ~ (<<j, i>> \in Less)
  BY <1>1, WFMin
<1>3. \A i, j \in Nat : <<j, i>> \in Less <=> j < i
  OBVIOUS
<1> HIDE DEF Less
<1>4. PICK i \in S : \A j \in S : ~ (<<j, i>> \in Less)
  BY <1>2
<1>5. \A j \in S : i \in Nat /\ j \in Nat /\ ~ (j < i)
  BY <1>3, <1>4
<1>6. \A j \in S : i <= j
  BY <1>5
<1> QED BY <1>4, <1>6 DEF Min

(* AlignUp goes up, and by less than the alignment. *)
LEMMA AlignUpGoesUp ==
  ASSUME NEW n \in Nat, NEW align \in Nat \ {0}
  PROVE  AlignUp(n, align) \in Nat /\ AlignUp(n, align) >= n
<1> DEFINE m == n + align - 1
           q == m \div align
<1>1. m \in Nat /\ q \in Nat /\ m = align * q + (m % align) /\ m % align \in 0 .. align - 1
  BY Z3
<1>2. q * align \in Nat /\ q * align = align * q
  BY <1>1, Z3
<1> HIDE DEF q
<1>3. q * align >= n
  BY <1>1, <1>2
<1> QED BY <1>2, <1>3 DEF AlignUp, q

(* Pages in a row are words in a row. *)
LEMMA Scale ==
  ASSUME NEW a \in Nat, NEW b \in Nat, NEW c \in Nat, NEW w \in Nat, a + b <= c
  PROVE  /\ a * w \in Nat /\ b * w \in Nat /\ c * w \in Nat
         /\ a * w + b * w <= c * w
<1> DEFINE d == c - (a + b)
<1>1. d \in Nat /\ c = a + b + d
  OBVIOUS
<1>2. a * w \in Nat /\ b * w \in Nat /\ c * w \in Nat /\ d * w \in Nat
  BY <1>1, Z3
<1> HIDE DEF d
<1>3. (a + b + d) * w = a * w + b * w + d * w
  BY <1>1, Z3
<1> QED BY <1>1, <1>2, <1>3

(* pmm_alloc returns 0 or a run of pages that are all free. *)
LEMMA PmmAllocIs ==
  ASSUME NEW free \in SUBSET Nat, NEW count \in Nat
  PROVE  LET s == PmmAlloc(free, count)
         IN s = 0 \/ (s \in Nat /\ s .. s + count - 1 \subseteq free)
<1>1. Runs(free, count) \in SUBSET Nat
  BY DEF Runs
<1>2. CASE Runs(free, count) = {}
  BY <1>2 DEF PmmAlloc
<1>3. CASE Runs(free, count) # {}
  <2>1. Min(Runs(free, count)) \in Runs(free, count)
    BY <1>1, <1>3, MinIs
  <2> QED BY <1>3, <2>1 DEF PmmAlloc, Runs
<1> QED BY <1>2, <1>3

(* The pages that slab_init chooses from are usable, and nobody has them.  *)
LEMMA PagesLeftAre ==
  ASSUME MapAssumption, memmap \in MemoryMaps
  PROVE  /\ PagesLeft \in SUBSET Nat
         /\ \A p \in PagesLeft :
              /\ Usable(p) /\ p \notin BitmapPages(memmap)
              /\ \A id \in Slabs : base[id] # 0 => p \notin PagesOfSlab(id)
<1>1. \A p \in PagesLeft :
        /\ \E i \in DOMAIN memmap : memmap[i].usable /\ p \in PagesOf(memmap[i])
        /\ p \notin BitmapPages(memmap)
        /\ \A id \in Slabs : base[id] # 0 => p \notin PagesOfSlab(id)
  <2>1. SUFFICES ASSUME NEW p \in PagesLeft
                 PROVE  /\ \E i \in DOMAIN memmap : memmap[i].usable /\ p \in PagesOf(memmap[i])
                        /\ p \notin BitmapPages(memmap)
                        /\ \A id \in Slabs : base[id] # 0 => p \notin PagesOfSlab(id)
    OBVIOUS
  <2>2. /\ p \in FreePages(memmap)
        /\ p \notin UNION {PagesOfSlab(id) : id \in {i \in Slabs : base[i] # 0}}
    BY DEF PagesLeft
  <2>3. /\ p \in UNION {PagesOf(memmap[i]) : i \in {j \in DOMAIN memmap : memmap[j].usable}}
        /\ p \notin BitmapPages(memmap)
    BY <2>2 DEF FreePages
  <2>4. \E i \in DOMAIN memmap : memmap[i].usable /\ p \in PagesOf(memmap[i])
    BY <2>3
  <2>5. \A id \in Slabs : base[id] # 0 => p \notin PagesOfSlab(id)
    BY <2>2
  <2> QED BY <2>3, <2>4, <2>5
<1>2. \A i \in DOMAIN memmap : PagesOf(memmap[i]) \subseteq Nat
  <2>1. SUFFICES ASSUME NEW i \in DOMAIN memmap PROVE PagesOf(memmap[i]) \subseteq Nat
    OBVIOUS
  <2>2. memmap[i].base \in Nat /\ memmap[i].length \in Nat
    BY DEF MapAssumption
  <2> QED BY <2>2 DEF PagesOf
<1> QED BY <1>1, <1>2 DEF Usable

LEMMA InitInv == Assumptions /\ Init => IInv
<1> SUFFICES ASSUME Assumptions, Init PROVE IInv
  OBVIOUS
<1>0. DOMAIN blocks = {} /\ SlabWords \in Nat
  BY DEF Init, Assumptions, SlabAssumption, SlabWords
<1>1. Types /\ peak \in Nat
  BY <1>0, FS_EmptySet DEF Init, Types, Assumptions, SlabAssumption, Slabs
<1>2. AllBlocks /\ HeapSurvivesRelease /\ CountsAreTrue
  BY <1>0 DEF AllBlocks, HeapSurvivesRelease, CountsAreTrue
<1>3. SlabInv
  BY <1>0 DEF Init, SlabInv, Slabs, Assumptions, SlabAssumption
<1>4. BlocksDisjoint
  BY <1>0 DEF Init, BlocksDisjoint, SlabsApart
<1> QED BY <1>1, <1>2, <1>3, <1>4 DEF IInv

LEMMA SlabInitStep == ASSUME Assumptions, IInv, SlabInit PROVE IInv'
<1> USE DEF Assumptions, IInv
<1> DEFINE p == PmmAlloc(PagesLeft, SlabPages)
<1>0. /\ slab \in Slabs /\ slab \in Nat /\ MaxSlabs \in Nat /\ SlabPages \in Nat
      /\ slab' = slab + 1 /\ base' = [base EXCEPT ![slab] = p]
      /\ UNCHANGED <<memmap, offset, blocks, peak>>
      /\ DOMAIN blocks = {} /\ \A id \in Slabs : offset[id] = 0
  BY DEF Types, SlabInit, SlabAssumption, Slabs, SlabInv
<1>1. p = 0 \/ (p \in Nat /\ p .. p + SlabPages - 1 \subseteq PagesLeft)
  BY <1>0, PmmAllocIs, PagesLeftAre DEF Types
<1> HIDE DEF p
<1>2. Types' /\ peak' \in Nat
  BY <1>0, <1>1 DEF Types, Slabs
<1>3. SlabInv'
  BY <1>0, <1>2 DEF SlabInv, Types, Slabs
<1>4. AllBlocks' /\ HeapSurvivesRelease' /\ CountsAreTrue'
  BY <1>0 DEF AllBlocks, HeapSurvivesRelease, CountsAreTrue
<1>5. SlabsApart'
  <2>1. PICK s \in Slabs : s = slab
    BY <1>0
  <2>2. \A id \in Slabs : base'[id] = IF id = s THEN p ELSE base[id]
    BY <1>0, <2>1 DEF Types
  <2>3. base[s] = 0
    BY <1>0, <2>1 DEF SlabInv
  <2>4. PagesOfSlab(s)' = p .. p + SlabPages - 1
    BY <2>2 DEF PagesOfSlab
  <2>5. \A id \in Slabs \ {s} : PagesOfSlab(id)' = PagesOfSlab(id) /\ base'[id] = base[id]
    BY <2>2 DEF PagesOfSlab
  <2>6. \A q : Usable(q)' <=> Usable(q)
    BY <1>0 DEF Usable
  <2>7. base'[s] # 0 => \A q \in PagesOfSlab(s)' :
          /\ Usable(q) /\ q \notin BitmapPages(memmap)
          /\ \A id \in Slabs : base[id] # 0 => q \notin PagesOfSlab(id)
    BY <1>1, <2>2, <2>4, PagesLeftAre DEF Types
  <2>8. ASSUME NEW id \in Slabs, base'[id] # 0
        PROVE  /\ \A q \in PagesOfSlab(id)' : Usable(q)' /\ q \notin BitmapPages(memmap')
               /\ \A other \in Slabs \ {id} : base'[other] # 0 => PagesOfSlab(id)' \cap PagesOfSlab(other)' = {}
    <3>1. CASE id = s
      BY <1>0, <2>5, <2>6, <2>7, <2>8, <3>1
    <3>2. CASE id # s
      <4>1. /\ \A q \in PagesOfSlab(id) : Usable(q) /\ q \notin BitmapPages(memmap)
            /\ \A other \in Slabs \ {id} : base[other] # 0 => PagesOfSlab(id) \cap PagesOfSlab(other) = {}
        BY <2>5, <2>8, <3>2 DEF BlocksDisjoint, SlabsApart
      <4> QED BY <1>0, <2>5, <2>6, <2>7, <2>8, <3>2, <4>1
    <3> QED BY <3>1, <3>2
  <2> QED BY <2>8 DEF SlabsApart
<1>6. BlocksDisjoint'
  BY <1>0, <1>5 DEF BlocksDisjoint
<1> QED BY <1>2, <1>3, <1>4, <1>6

(* What a step leaves alone when it only touches blocks.                   *)
LEMMA SameSlabs ==
  ASSUME UNCHANGED <<memmap, base>>
  PROVE  /\ SlabsApart => SlabsApart'
         /\ \A id : Base(id)' = Base(id)
<1>1. \A id : PagesOfSlab(id)' = PagesOfSlab(id) /\ Base(id)' = Base(id)
  BY DEF PagesOfSlab, Base
<1>2. \A q : Usable(q)' <=> Usable(q)
  BY DEF Usable
<1> QED BY <1>1, <1>2 DEF SlabsApart

(* The words of two slabs that have pages lie apart.                       *)
LEMMA SlabsOfWordsApart ==
  ASSUME Assumptions, Types, SlabsApart,
         NEW s \in Slabs, NEW t \in Slabs, s # t, base[s] # 0, base[t] # 0
  PROVE  Base(s) + SlabWords <= Base(t) \/ Base(t) + SlabWords <= Base(s)
<1>0. base[s] \in Nat /\ base[t] \in Nat /\ SlabPages \in Nat \ {0} /\ PageWords \in Nat
  BY DEF Types, Assumptions, SlabAssumption
<1>1. PagesOfSlab(s) \cap PagesOfSlab(t) = {}
  BY DEF SlabsApart
<1>2. base[s] + SlabPages <= base[t] \/ base[t] + SlabPages <= base[s]
  BY <1>0, <1>1 DEF PagesOfSlab
<1>3. CASE base[s] + SlabPages <= base[t]
  BY <1>0, <1>3, Scale DEF Base, SlabWords
<1>4. CASE base[t] + SlabPages <= base[s]
  BY <1>0, <1>4, Scale DEF Base, SlabWords
<1> QED BY <1>2, <1>3, <1>4

(* slab_alloc_aligned, whatever it is called for: the new block begins     *)
(* above all blocks of its slab and ends inside it.                        *)
LEMMA SlabAllocKeeps ==
  ASSUME Assumptions, IInv, NEW id \in Slabs, NEW kind \in {"heap", "object", "dma"},
         NEW words \in Nat, NEW size \in Nat, NEW align \in Nat \ {0},
         kind = "heap" => words >= HeapHeader + 2,
         kind = "object" => words >= ObjectHeader + 2,
         kind = "dma" => words >= 1,
         SlabAlloc(id, kind, words, size, align), UNCHANGED <<memmap, slab, base>>
  PROVE  /\ Types' /\ AllBlocks' /\ SlabInv'
         /\ BlocksDisjoint' /\ HeapSurvivesRelease' /\ CountsAreTrue'
<1> USE DEF Assumptions, IInv
<1> DEFINE new == Aligned(id, align)
<1>0. /\ Base(id) \in Nat /\ offset[id] \in 0 .. SlabWords /\ SlabWords \in Nat
      /\ MaxSlabs \in Nat /\ slab = MaxSlabs /\ MaxHolders \in Nat \ {0} /\ words >= 1
  <2>1. base[id] \in Nat /\ PageWords \in Nat /\ SlabPages \in Nat
    BY DEF Types, SlabAssumption
  <2>2. base[id] * PageWords \in Nat /\ SlabPages * PageWords \in Nat
    BY <2>1, Scale
  <2>3. words >= 1
    BY DEF HeapHeader, ObjectHeader
  <2> QED BY <2>2, <2>3 DEF Types, SlabAlloc, SlabAssumption, Base, SlabWords
<1>1. new \in Nat /\ new >= Base(id) + offset[id] /\ new + words <= Base(id) + SlabWords
  BY <1>0, AlignUpGoesUp DEF SlabAlloc, Fits, Aligned
<1>2. /\ offset' = [offset EXCEPT ![id] = new + words - Base(id)]
      /\ blocks' = [a \in DOMAIN blocks \cup {new} |->
                      IF a = new THEN Block(kind, words, size) ELSE blocks[a]]
  BY DEF SlabAlloc
<1> HIDE DEF new
<1>3. /\ \A s \in Slabs : offset'[s] = IF s = id THEN new + words - Base(id) ELSE offset[s]
      /\ new + words - Base(id) \in 0 .. SlabWords /\ new + words - Base(id) > offset[id]
  BY <1>0, <1>1, <1>2 DEF Types
<1>4. /\ DOMAIN blocks' = DOMAIN blocks \cup {new}
      /\ blocks'[new] = Block(kind, words, size)
      /\ \A a \in DOMAIN blocks : a # new => blocks'[a] = blocks[a]
  BY <1>2
<1>5. Types'
  <2>1. IsFiniteSet(DOMAIN blocks')
    BY <1>4, FS_AddElement DEF Types
  <2>2. offset' \in [Slabs -> 0 .. SlabWords]
    BY <1>2, <1>3 DEF Types
  <2> QED BY <2>1, <2>2 DEF Types
<1>6. BlockInv(new, blocks'[new])
  BY <1>0, <1>1, <1>4 DEF BlockInv, Block, Blocks
<1>7. AllBlocks'
  BY <1>4, <1>6 DEF AllBlocks
<1>8. SlabInv'
  BY <1>0 DEF SlabInv, Slabs
<1>9. InPages' => InPages /\ base[id] # 0
  BY <1>0, <1>3 DEF InPages, Types
<1>10. ASSUME InPages', NEW b \in DOMAIN blocks
       PROVE  b + blocks[b].words <= new \/ new + words <= b
  <2>1. PICK s \in Slabs : b >= Base(s) /\ b + blocks[b].words <= Base(s) + offset[s]
    BY <1>9, <1>10 DEF BlocksDisjoint
  <2>2. b \in Nat /\ blocks[b].words \in Nat /\ blocks[b].words >= 1
    BY DEF AllBlocks, BlockInv, Blocks, HeapHeader, ObjectHeader
  <2>3. Base(s) \in Nat /\ offset[s] \in 0 .. SlabWords
    BY Scale DEF Types, Base, SlabAssumption
  <2>4. CASE s = id
    BY <1>0, <1>1, <2>1, <2>2, <2>4
  <2>5. CASE s # id
    <3>1. base[s] # 0 /\ base[id] # 0
      BY <1>9, <1>10, <2>1, <2>2, <2>3 DEF InPages
    <3>2. Base(s) + SlabWords <= Base(id) \/ Base(id) + SlabWords <= Base(s)
      BY <3>1, <2>5, SlabsOfWordsApart DEF BlocksDisjoint
    <3> QED BY <1>0, <1>1, <2>1, <2>2, <2>3, <3>2
  <2> QED BY <2>4, <2>5
<1>11. InPages' => new \notin DOMAIN blocks
  <2>1. ASSUME InPages', new \in DOMAIN blocks PROVE FALSE
    <3>1. blocks[new].words \in Nat /\ blocks[new].words >= 1
      BY <2>1 DEF AllBlocks, BlockInv, Blocks, HeapHeader, ObjectHeader
    <3> QED BY <1>0, <1>1, <1>10, <2>1, <3>1
  <2> QED BY <2>1
<1>12. blocks'[new].words = words
  BY <1>4 DEF Block
<1>13. ASSUME InPages', NEW b \in DOMAIN blocks'
       PROVE  \E s \in Slabs : b >= Base(s)' /\ b + blocks'[b].words <= Base(s)' + offset'[s]
  <2>1. \A s \in Slabs : Base(s)' = Base(s)
    BY SameSlabs
  <2>2. CASE b = new
    BY <1>0, <1>1, <1>3, <1>12, <2>1, <2>2
  <2>3. CASE b # new
    <3>1. b \in DOMAIN blocks /\ blocks'[b] = blocks[b]
      BY <1>4, <2>3
    <3>2. PICK s \in Slabs : b >= Base(s) /\ b + blocks[b].words <= Base(s) + offset[s]
      BY <1>9, <1>13, <3>1 DEF BlocksDisjoint
    <3>3. offset[s] <= offset'[s] /\ offset[s] \in Nat /\ offset'[s] \in Nat
      BY <1>0, <1>3 DEF Types
    <3>4. Base(s) \in Nat /\ b \in Nat /\ blocks[b].words \in Nat
      BY <3>1, Scale DEF Types, Base, SlabAssumption, AllBlocks, BlockInv, Blocks
    <3>5. b + blocks'[b].words <= Base(s)' + offset'[s]
      BY <2>1, <3>1, <3>2, <3>3, <3>4
    <3> QED BY <2>1, <3>2, <3>5
  <2> QED BY <2>2, <2>3
<1>14. ASSUME InPages', NEW b \in DOMAIN blocks', NEW c \in DOMAIN blocks', b < c
       PROVE  b + blocks'[b].words <= c
  <2>1. b \in Nat /\ c \in Nat /\ blocks'[b].words \in Nat /\ blocks'[c].words \in Nat
    BY <1>7 DEF AllBlocks, BlockInv, Blocks
  <2>2. CASE b = new
    BY <1>4, <1>10, <1>12, <1>14, <2>1, <2>2
  <2>3. CASE c = new
    BY <1>0, <1>4, <1>10, <1>12, <1>14, <2>1, <2>3
  <2>4. CASE b # new /\ c # new
    BY <1>4, <1>9, <1>14, <2>4 DEF BlocksDisjoint
  <2> QED BY <2>2, <2>3, <2>4
<1>15. BlocksDisjoint'
  <2>1. SlabsApart'
    BY SameSlabs DEF BlocksDisjoint
  <2> QED BY <1>13, <1>14, <2>1 DEF BlocksDisjoint
<1>16. HeapSurvivesRelease'
  BY <1>4, <1>9 DEF HeapSurvivesRelease, Block
<1>17. CountsAreTrue'
  BY <1>4, <1>9 DEF CountsAreTrue, Block
<1> QED BY <1>5, <1>7, <1>8, <1>15, <1>16, <1>17

(* What a step keeps that changes blocks but not where they lie.           *)
LEMMA SameBlocks ==
  ASSUME Assumptions, IInv, UNCHANGED <<memmap, slab, base, offset>>,
         DOMAIN blocks' = DOMAIN blocks,
         \A a \in DOMAIN blocks : blocks'[a].words = blocks[a].words
  PROVE  Types' /\ SlabInv' /\ BlocksDisjoint' /\ (InPages' <=> InPages)
<1> USE DEF Assumptions, IInv
<1>1. Types' /\ SlabInv'
  BY DEF Types, SlabInv
<1>2. SlabsApart' /\ \A id : Base(id)' = Base(id)
  BY SameSlabs DEF BlocksDisjoint
<1>3. InPages' <=> InPages
  BY DEF InPages
<1>4. BlocksDisjoint'
  BY <1>2, <1>3 DEF BlocksDisjoint
<1> QED BY <1>1, <1>3, <1>4

LEMMA PeakStaysNat ==
  ASSUME IsFiniteSet(DOMAIN blocks'), peak \in Nat, Peak
  PROVE  peak' \in Nat
<1> DEFINE T == {b \in DOMAIN blocks : blocks[b].kind = "heap" /\ blocks[b].holders > 0}
<1>1. IsFiniteSet(T')
  BY FS_Subset
<1>2. Cardinality(T') \in Nat
  BY <1>1, FS_CardinalityType
<1>3. InUse(blocks') = Cardinality(T')
  BY DEF InUse
<1> QED BY <1>2, <1>3 DEF Peak

(* The fields of a block that is taken again.                              *)
LEMMA FieldsOfReused ==
  ASSUME NEW r \in Blocks, NEW q, NEW h \in Nat, q = [r EXCEPT !.used = TRUE, !.holders = h]
  PROVE  /\ q \in Blocks /\ q.kind = r.kind /\ q.words = r.words /\ q.used = TRUE
         /\ q.count = r.count /\ q.headerLost = r.headerLost /\ q.holders = h
BY DEF Blocks

LEMMA MallocStep == ASSUME Assumptions, IInv, NEW n \in HeapSizes, Malloc(n) PROVE IInv'
<1> USE DEF Assumptions, IInv
<1>0. n \in Nat /\ n >= 2
  BY DEF SizeAssumption
<1>1. CASE \E b \in DOMAIN blocks :
             /\ IsFirst(b, Reusable(n))
             /\ blocks' = [blocks EXCEPT ![b].used = TRUE, ![b].holders = @ + 1]
             /\ UNCHANGED offset
  <2>1. PICK b \in DOMAIN blocks :
               /\ blocks[b].kind = "heap" /\ ~blocks[b].used
               /\ blocks' = [blocks EXCEPT ![b].used = TRUE, ![b].holders = @ + 1]
               /\ UNCHANGED offset
    BY <1>1 DEF IsFirst, Reusable
  <2>2. UNCHANGED <<memmap, slab, base, offset>> /\ Peak
    BY <2>1 DEF Malloc
  <2>3. blocks[b] \in Blocks
    BY DEF AllBlocks, BlockInv
  <2>4. /\ DOMAIN blocks' = DOMAIN blocks
        /\ \A a \in DOMAIN blocks : a # b => blocks'[a] = blocks[a]
        /\ blocks'[b] = [blocks[b] EXCEPT !.used = TRUE, !.holders = blocks[b].holders + 1]
    BY <2>1
  <2>5. /\ blocks'[b] \in Blocks /\ blocks'[b].kind = "heap" /\ blocks'[b].words = blocks[b].words
        /\ blocks'[b].used = TRUE /\ blocks'[b].count = blocks[b].count
        /\ blocks'[b].headerLost = blocks[b].headerLost /\ blocks'[b].holders = blocks[b].holders + 1
    <3>1. blocks[b].holders + 1 \in Nat
      BY <2>3 DEF Blocks
    <3>2. PICK h \in Nat, r \in Blocks : h = blocks[b].holders + 1 /\ r = blocks[b]
      BY <2>3, <3>1
    <3>3. PICK q : q = blocks'[b]
      OBVIOUS
    <3>4. q = [r EXCEPT !.used = TRUE, !.holders = h]
      BY <2>4, <3>2, <3>3
    <3>5. /\ q \in Blocks /\ q.kind = r.kind /\ q.words = r.words /\ q.used = TRUE
          /\ q.count = r.count /\ q.headerLost = r.headerLost /\ q.holders = h
      BY <3>4, FieldsOfReused
    <3> QED BY <2>1, <3>2, <3>3, <3>5
  <2>6. Types' /\ SlabInv' /\ BlocksDisjoint' /\ (InPages' <=> InPages)
    BY <2>2, <2>4, <2>5, SameBlocks
  <2>7. peak' \in Nat
    BY <2>2, <2>6, PeakStaysNat DEF Types
  <2>8. AllBlocks'
    <3>1. BlockInv(b, blocks'[b])
      BY <2>1, <2>5 DEF AllBlocks, BlockInv
    <3> QED BY <2>4, <3>1 DEF AllBlocks
  <2>9. HeapSurvivesRelease'
    <3>1. InPages => blocks[b].holders = 0 /\ ~blocks[b].headerLost
      BY <2>1, <2>3 DEF HeapSurvivesRelease, Blocks
    <3>2. InPages => ~blocks'[b].headerLost /\ blocks'[b].holders = 1 /\ blocks'[b].used
      BY <2>5, <3>1
    <3>3. ASSUME InPages, NEW a \in DOMAIN blocks, blocks'[a].kind = "heap"
          PROVE  /\ ~blocks'[a].headerLost
                 /\ blocks'[a].holders \in {0, 1}
                 /\ blocks'[a].used <=> blocks'[a].holders > 0
      <4>1. CASE a = b
        BY <3>2, <3>3, <4>1
      <4>2. CASE a # b
        BY <2>4, <3>3, <4>2 DEF HeapSurvivesRelease
      <4> QED BY <4>1, <4>2
    <3> QED BY <2>4, <2>6, <3>3 DEF HeapSurvivesRelease
  <2>10. CountsAreTrue'
    <3>1. ASSUME InPages, NEW a \in DOMAIN blocks, blocks'[a].kind = "object"
          PROVE  blocks'[a].count = blocks'[a].holders
      <4>1. a # b
        BY <2>5, <3>1
      <4>2. blocks'[a] = blocks[a]
        BY <2>4, <4>1
      <4> QED BY <3>1, <4>2 DEF CountsAreTrue
    <3> QED BY <2>4, <2>6, <3>1 DEF CountsAreTrue
  <2> QED BY <2>6, <2>7, <2>8, <2>9, <2>10
<1>2. CASE SlabAlloc(0, "heap", HeapHeader + n, n, 2)
  <2>1. UNCHANGED <<memmap, slab, base>> /\ Peak
    BY DEF Malloc
  <2> 0 \in Slabs
    BY DEF Slabs, SlabAssumption
  <2>2. HeapHeader + n \in Nat /\ HeapHeader + n >= HeapHeader + 2
    BY <1>0 DEF HeapHeader
  <2>3. /\ Types' /\ AllBlocks' /\ SlabInv'
        /\ BlocksDisjoint' /\ HeapSurvivesRelease' /\ CountsAreTrue'
    BY <1>0, <1>2, <2>1, <2>2, SlabAllocKeeps
  <2>4. peak' \in Nat
    BY <2>1, <2>3, PeakStaysNat DEF Types
  <2> QED BY <2>3, <2>4
<1> QED BY <1>1, <1>2 DEF Malloc

LEMMA FreeStep == ASSUME Assumptions, IInv, NEW b \in DOMAIN blocks, Free(b) PROVE IInv'
<1> USE DEF Assumptions, IInv
<1>1. /\ blocks[b].kind = "heap" /\ UNCHANGED <<memmap, slab, base, offset>> /\ Peak
      /\ blocks' = [blocks EXCEPT ![b].used = FALSE, ![b].holders = 0]
      /\ blocks[b] \in Blocks
  BY DEF Free, AllBlocks, BlockInv
<1>2. /\ DOMAIN blocks' = DOMAIN blocks
      /\ \A a \in DOMAIN blocks : a # b => blocks'[a] = blocks[a]
      /\ blocks'[b] = [blocks[b] EXCEPT !.used = FALSE, !.holders = 0]
  BY <1>1
<1>3. /\ blocks'[b] \in Blocks /\ blocks'[b].kind = "heap" /\ blocks'[b].words = blocks[b].words
      /\ blocks'[b].used = FALSE /\ blocks'[b].count = blocks[b].count
      /\ blocks'[b].headerLost = blocks[b].headerLost /\ blocks'[b].holders = 0
  BY <1>1, <1>2 DEF Blocks
<1>4. Types' /\ SlabInv' /\ BlocksDisjoint' /\ (InPages' <=> InPages)
  BY <1>1, <1>2, <1>3, SameBlocks
<1>5. peak' \in Nat
  BY <1>1, <1>4, PeakStaysNat DEF Types
<1>6. AllBlocks'
  <2>1. BlockInv(b, blocks'[b])
    BY <1>1, <1>3 DEF AllBlocks, BlockInv
  <2> QED BY <1>2, <2>1 DEF AllBlocks
<1>7. HeapSurvivesRelease'
  BY <1>1, <1>2, <1>3, <1>4 DEF HeapSurvivesRelease
<1>8. CountsAreTrue'
  BY <1>2, <1>3, <1>4 DEF CountsAreTrue
<1> QED BY <1>4, <1>5, <1>6, <1>7, <1>8

LEMMA DmaAllocStep == ASSUME Assumptions, IInv, DmaAlloc PROVE IInv'
<1>1. UNCHANGED <<memmap, slab, base, peak>> /\ SlabAlloc(0, "dma", DmaWords, DmaWords, DmaWords)
  BY DEF DmaAlloc
<1>2. 0 \in Slabs /\ DmaWords \in Nat \ {0} /\ DmaWords >= 1
  BY DEF Slabs, Assumptions, SlabAssumption
<1>3. /\ Types' /\ AllBlocks' /\ SlabInv'
      /\ BlocksDisjoint' /\ HeapSurvivesRelease' /\ CountsAreTrue'
  BY <1>1, <1>2, SlabAllocKeeps
<1> QED BY <1>1, <1>3 DEF IInv

LEMMA ArcAllocStep ==
  ASSUME Assumptions, IInv, NEW id \in Slabs, NEW n \in ObjectSizes, ArcAlloc(id, n) PROVE IInv'
<1>1. UNCHANGED <<memmap, slab, base, peak>> /\ SlabAlloc(id, "object", ObjectHeader + n, n, 2)
  BY DEF ArcAlloc
<1>2. n \in Nat /\ ObjectHeader + n \in Nat /\ ObjectHeader + n >= ObjectHeader + 2
  BY DEF Assumptions, SizeAssumption, ObjectHeader
<1>3. /\ Types' /\ AllBlocks' /\ SlabInv'
      /\ BlocksDisjoint' /\ HeapSurvivesRelease' /\ CountsAreTrue'
  BY <1>1, <1>2, SlabAllocKeeps
<1> QED BY <1>1, <1>3 DEF IInv

LEMMA RetainStep == ASSUME Assumptions, IInv, NEW b \in DOMAIN blocks, Retain(b) PROVE IInv'
<1> USE DEF Assumptions, IInv
<1>1. /\ blocks[b].kind = "object" /\ UNCHANGED <<memmap, slab, base, offset, peak>>
      /\ blocks[b].holders \in 1 .. MaxHolders - 1
      /\ blocks' = [blocks EXCEPT ![b].count = @ + 1, ![b].holders = @ + 1]
      /\ blocks[b] \in Blocks /\ MaxHolders \in Nat
  BY DEF Retain, AllBlocks, BlockInv, SlabAssumption
<1>2. /\ DOMAIN blocks' = DOMAIN blocks
      /\ \A a \in DOMAIN blocks : a # b => blocks'[a] = blocks[a]
      /\ blocks'[b] = [blocks[b] EXCEPT !.count = blocks[b].count + 1,
                                        !.holders = blocks[b].holders + 1]
  BY <1>1
<1>3. /\ blocks'[b] \in Blocks /\ blocks'[b].kind = "object" /\ blocks'[b].words = blocks[b].words
      /\ blocks'[b].count = blocks[b].count + 1 /\ blocks'[b].holders = blocks[b].holders + 1
  <2>1. blocks[b].count + 1 \in Nat /\ blocks[b].holders + 1 \in Nat
    BY <1>1 DEF Blocks
  <2>2. PICK c \in Nat, h \in Nat, r \in Blocks :
          c = blocks[b].count + 1 /\ h = blocks[b].holders + 1 /\ r = blocks[b]
    BY <1>1, <2>1
  <2>3. PICK q : q = blocks'[b]
    OBVIOUS
  <2>4. q = [r EXCEPT !.count = c, !.holders = h]
    BY <1>2, <2>2, <2>3
  <2>5. /\ q \in Blocks /\ q.kind = r.kind /\ q.words = r.words
        /\ q.count = c /\ q.holders = h
    BY <2>4 DEF Blocks
  <2> QED BY <1>1, <2>2, <2>3, <2>5
<1>4. Types' /\ SlabInv' /\ BlocksDisjoint' /\ (InPages' <=> InPages)
  BY <1>1, <1>2, <1>3, SameBlocks
<1>5. AllBlocks'
  <2>1. BlockInv(b, blocks'[b])
    <3>1. BlockInv(b, blocks[b])
      BY DEF AllBlocks
    <3> QED BY <1>1, <1>3, <3>1 DEF BlockInv, Blocks
  <2> QED BY <1>2, <2>1 DEF AllBlocks
<1>6. HeapSurvivesRelease'
  BY <1>2, <1>3, <1>4 DEF HeapSurvivesRelease
<1>7. CountsAreTrue'
  BY <1>1, <1>2, <1>3, <1>4 DEF CountsAreTrue
<1> QED BY <1>1, <1>4, <1>5, <1>6, <1>7

(* The word that free clears for release lies in the block before, but     *)
(* beyond what of it anybody looks at: at k >= 3 in a heap block, at       *)
(* k >= 1 in an object.                                                    *)
LEMMA StrikeMissesHeaders ==
  ASSUME Assumptions, IInv, InPages, NEW b \in DOMAIN blocks, b + 1 >= HeapHeader,
         NEW a \in DOMAIN blocks, Covers(a, blocks[a].words, IsUsedBefore(b)), NEW block,
         block.kind = blocks[a].kind
  PROVE  Hit(block, IsUsedBefore(b) - a) = block
<1> USE DEF Assumptions, IInv
<1> DEFINE k == IsUsedBefore(b) - a
<1>1. BlockInv(a, blocks[a]) /\ BlockInv(b, blocks[b])
  BY DEF AllBlocks
<1>2. a \in Nat /\ b \in Nat /\ blocks[a].words \in Nat /\ IsUsedBefore(b) = b - 2
  BY <1>1 DEF BlockInv, Blocks, IsUsedBefore, HeapHeader
<1>3. a <= b - 2 /\ b - 2 <= a + blocks[a].words - 1
  BY <1>2 DEF Covers
<1>4. a < b
  BY <1>2, <1>3
<1>5. a + blocks[a].words <= b
  BY <1>4 DEF BlocksDisjoint
<1>6. k \in Int /\ k >= blocks[a].words - 2 - 0
  BY <1>2, <1>5
<1>7. blocks[a].kind = "heap" => k >= 3
  BY <1>1, <1>2, <1>6 DEF BlockInv, HeapHeader
<1>8. blocks[a].kind = "object" => k >= 1
  BY <1>1, <1>2, <1>6 DEF BlockInv, ObjectHeader
<1>9. blocks[a].kind \in {"heap", "object", "dma"}
  BY <1>1 DEF BlockInv, Blocks
<1> HIDE DEF k
<1>10. /\ ~(block.kind = "heap" /\ k = 1)
       /\ ~(block.kind = "heap" /\ k \in {0, 2})
       /\ ~(block.kind = "object" /\ k = 0)
  BY <1>6, <1>7, <1>8
<1>11. Hit(block, k) = block
  BY <1>10, Zenon DEF Hit
<1> QED BY <1>11 DEF k

LEMMA HitKeeps ==
  ASSUME NEW r \in Blocks, NEW k
  PROVE  /\ Hit(r, k) \in Blocks /\ Hit(r, k).kind = r.kind /\ Hit(r, k).words = r.words
         /\ Hit(r, k).holders = r.holders
         /\ Hit(r, k).count = r.count \/ (r.kind = "object" /\ Hit(r, k).count = 0)
<1>1. CASE r.kind = "heap" /\ k = 1
  BY <1>1 DEF Hit, Blocks
<1>2. CASE r.kind = "heap" /\ k \in {0, 2}
  BY <1>2 DEF Hit, Blocks
<1>3. CASE r.kind = "object" /\ k = 0
  BY <1>3 DEF Hit, Blocks
<1>4. CASE /\ ~(r.kind = "heap" /\ k = 1)
           /\ ~(r.kind = "heap" /\ k \in {0, 2})
           /\ ~(r.kind = "object" /\ k = 0)
  BY <1>4 DEF Hit
<1> QED BY <1>1, <1>2, <1>3, <1>4

LEMMA ReleaseStep == ASSUME Assumptions, IInv, NEW b \in DOMAIN blocks, Release(b) PROVE IInv'
<1> USE DEF Assumptions, IInv
<1> DEFINE left == IF blocks[b].count > 0 THEN blocks[b].count - 1 ELSE 0
           dropped == [blocks EXCEPT ![b].count = left, ![b].holders = blocks[b].holders - 1]
           w == IsUsedBefore(b)
<1>1. /\ blocks[b].kind = "object" /\ UNCHANGED <<memmap, slab, base, offset, peak>>
      /\ blocks[b].holders > 0
      /\ blocks' = IF blocks[b].count = 1 /\ b + 1 >= HeapHeader THEN Strike(dropped, w) ELSE dropped
  BY DEF Release
<1>2. \A a \in DOMAIN blocks : BlockInv(a, blocks[a])
  BY DEF AllBlocks
<1>3. /\ DOMAIN dropped = DOMAIN blocks
      /\ \A a \in DOMAIN blocks : a # b => dropped[a] = blocks[a]
      /\ dropped[b] = [blocks[b] EXCEPT !.count = left, !.holders = blocks[b].holders - 1]
  OBVIOUS
<1>4. /\ dropped[b] \in Blocks /\ dropped[b].kind = "object" /\ dropped[b].words = blocks[b].words
      /\ dropped[b].count = left /\ dropped[b].holders = blocks[b].holders - 1
      /\ blocks[b].count \in Nat /\ blocks[b].holders \in Nat /\ left \in Nat
  <2>1. blocks[b].count \in Nat /\ blocks[b].holders \in Nat
    BY <1>2 DEF BlockInv, Blocks
  <2>2. left \in Nat /\ blocks[b].holders - 1 \in Nat
    BY <1>1, <2>1
  <2>3. PICK c \in Nat, h \in Nat, r \in Blocks :
          c = left /\ h = blocks[b].holders - 1 /\ r = blocks[b]
    BY <1>2, <2>2 DEF BlockInv
  <2>4. PICK q : q = dropped[b]
    OBVIOUS
  <2>5. q = [r EXCEPT !.count = c, !.holders = h]
    BY <1>3, <2>3, <2>4
  <2>6. /\ q \in Blocks /\ q.kind = r.kind /\ q.words = r.words
        /\ q.count = c /\ q.holders = h
    BY <2>5 DEF Blocks
  <2> HIDE DEF left, dropped
  <2> QED BY <1>1, <2>1, <2>2, <2>3, <2>4, <2>6
<1>5. BlockInv(b, dropped[b])
  <2> HIDE DEF dropped
  <2>1. BlockInv(b, blocks[b]) /\ MaxHolders \in Nat
    BY <1>2 DEF SlabAssumption
  <2> QED BY <1>1, <1>4, <2>1 DEF BlockInv
<1> HIDE DEF dropped, left, w
<1>6. \A a \in DOMAIN blocks : /\ BlockInv(a, dropped[a]) /\ dropped[a].kind = blocks[a].kind
                                /\ dropped[a].words = blocks[a].words
  <2>1. ASSUME NEW a \in DOMAIN blocks
        PROVE  /\ BlockInv(a, dropped[a]) /\ dropped[a].kind = blocks[a].kind
               /\ dropped[a].words = blocks[a].words
    <3>1. CASE a = b
      <4>1. dropped[b].kind = blocks[b].kind
        BY <1>1, <1>4
      <4>2. dropped[b].words = blocks[b].words
        BY <1>4
      <4> QED BY <1>5, <3>1, <4>1, <4>2
    <3>2. CASE a # b
      <4>1. dropped[a] = blocks[a]
        BY <1>3, <3>2
      <4> QED BY <1>2, <4>1
    <3> QED BY <3>1, <3>2
  <2> QED BY <2>1
<1>7. /\ DOMAIN blocks' = DOMAIN blocks
      /\ \A a \in DOMAIN blocks :
           blocks'[a] = dropped[a] \/ \E k : blocks'[a] = Hit(dropped[a], k)
  BY <1>1, <1>3 DEF Strike
<1>8. \A a \in DOMAIN blocks :
        BlockInv(a, blocks'[a]) /\ blocks'[a].kind = blocks[a].kind /\ blocks'[a].words = blocks[a].words
  <2>1. ASSUME NEW a \in DOMAIN blocks, NEW k
        PROVE  BlockInv(a, Hit(dropped[a], k)) /\ Hit(dropped[a], k).kind = dropped[a].kind
               /\ Hit(dropped[a], k).words = dropped[a].words
    <3>1. BlockInv(a, dropped[a]) /\ dropped[a] \in Blocks
      BY <1>6 DEF BlockInv
    <3>2. PICK r \in Blocks : r = dropped[a]
      BY <3>1
    <3>3. BlockInv(a, Hit(r, k)) /\ Hit(r, k).kind = r.kind /\ Hit(r, k).words = r.words
      BY <3>1, <3>2, HitKeeps DEF BlockInv, Blocks
    <3> QED BY <3>2, <3>3
  <2> QED BY <1>6, <1>7, <2>1
<1>9. Types' /\ SlabInv' /\ BlocksDisjoint' /\ (InPages' <=> InPages)
  BY <1>1, <1>7, <1>8, SameBlocks
<1>10. AllBlocks'
  BY <1>7, <1>8 DEF AllBlocks
<1>11. ASSUME InPages, NEW a \in DOMAIN blocks PROVE blocks'[a] = dropped[a]
  <2>1. CASE blocks' = dropped
    BY <2>1
  <2>2. CASE blocks' = Strike(dropped, w) /\ b + 1 >= HeapHeader
    <3>1. blocks'[a] = IF Covers(a, dropped[a].words, w) THEN Hit(dropped[a], w - a) ELSE dropped[a]
      BY <1>3, <2>2 DEF Strike
    <3>2. Covers(a, blocks[a].words, w) => Hit(dropped[a], w - a) = dropped[a]
      BY <1>6, <1>11, <2>2, StrikeMissesHeaders DEF w
    <3> QED BY <1>6, <3>1, <3>2
  <2> QED BY <1>1, <2>1, <2>2
<1>12. HeapSurvivesRelease'
  <2>1. \A a \in DOMAIN blocks : dropped[a].kind = "heap" => dropped[a] = blocks[a]
    BY <1>3, <1>4
  <2> QED BY <1>7, <1>9, <1>11, <2>1 DEF HeapSurvivesRelease
<1>13. CountsAreTrue'
  <2>1. ASSUME InPages, NEW a \in DOMAIN blocks, dropped[a].kind = "object"
        PROVE  dropped[a].count = dropped[a].holders
    <3>1. CASE a = b
      <4>1. blocks[b].count = blocks[b].holders
        BY <1>1, <2>1 DEF CountsAreTrue
      <4> QED BY <1>1, <1>4, <3>1, <4>1 DEF left
    <3>2. CASE a # b
      BY <1>3, <2>1, <3>2 DEF CountsAreTrue
    <3> QED BY <3>1, <3>2
  <2> QED BY <1>7, <1>9, <1>11, <2>1 DEF CountsAreTrue
<1> QED BY <1>1, <1>9, <1>10, <1>12, <1>13

LEMMA StepInv == ASSUME Assumptions, IInv, [Next]_vars PROVE IInv'
<1>1. CASE SlabInit
  BY <1>1, SlabInitStep
<1>2. ASSUME NEW n \in HeapSizes, Malloc(n) PROVE IInv'
  BY <1>2, MallocStep
<1>3. CASE DmaAlloc
  BY <1>3, DmaAllocStep
<1>4. ASSUME NEW id \in Slabs, NEW n \in ObjectSizes, ArcAlloc(id, n) PROVE IInv'
  BY <1>4, ArcAllocStep
<1>5. ASSUME NEW b \in DOMAIN blocks, Free(b) \/ Retain(b) \/ Release(b) PROVE IInv'
  BY <1>5, FreeStep, RetainStep, ReleaseStep
<1>6. CASE UNCHANGED vars
  <2>1. UNCHANGED <<memmap, slab, base, offset, blocks, peak>>
    BY <1>6 DEF vars
  <2>2. Types' /\ SlabInv' /\ BlocksDisjoint' /\ (InPages' <=> InPages)
    BY <2>1, SameBlocks
  <2> QED BY <2>1, <2>2 DEF IInv, AllBlocks, HeapSurvivesRelease, CountsAreTrue
<1> QED BY <1>1, <1>2, <1>3, <1>4, <1>5, <1>6 DEF Next
-----------------------------------------------------------------------------
LEMMA InvHolds == Spec => []IInv
<1> USE SlabAssumption, MapAssumption, SizeAssumption DEF Assumptions
<1>1. Init => IInv
  BY InitInv
<1>2. IInv /\ [Next]_vars => IInv'
  BY StepInv
<1> QED BY <1>1, <1>2, PTL DEF Spec

(* Every variable keeps its type: no count passes the number of references *)
(* that clients may hold, and no slab gives out more than it has           *)
(* (slab_alloc_aligned), for any sizes of slabs, blocks and objects.       *)
THEOREM TypeCorrect == Spec => []TypeOK
<1>1. IInv => TypeOK
  <2> SUFFICES ASSUME IInv PROVE TypeOK
    OBVIOUS
  <2>1. ASSUME NEW b \in DOMAIN blocks
        PROVE  /\ blocks[b].kind \in {"heap", "object", "dma"}
               /\ blocks[b].count \in 0 .. MaxHolders /\ blocks[b].holders \in Nat
    <3>1. BlockInv(b, blocks[b]) /\ MaxHolders \in Nat \ {0}
      BY SlabAssumption DEF IInv, AllBlocks, SlabAssumption
    <3> QED BY <3>1 DEF BlockInv, Blocks
  <2> QED BY <2>1 DEF IInv, Types, TypeOK
<1> QED BY <1>1, InvHolds, PTL

(* Two slabs never share a page nor have the page bitmap's, and no word is *)
(* given out twice, whatever the memory map, the sizes and the alignments  *)
(* (pmm_init, pmm_alloc, slab_init, slab_alloc_aligned).                   *)
THEOREM BlocksDisjointHolds == Spec => []BlocksDisjoint
<1>1. IInv => BlocksDisjoint
  BY DEF IInv
<1> QED BY <1>1, InvHolds, PTL

(* The byte that release clears before an object (free on an arc_header_t) *)
(* is never in the header of a heap block, whatever lies before it.        *)
THEOREM HeapSurvivesReleaseHolds == Spec => []HeapSurvivesRelease
<1>1. IInv => HeapSurvivesRelease
  BY DEF IInv
<1> QED BY <1>1, InvHolds, PTL

(* That byte is never in the count of another object either: every object  *)
(* counts the references its clients hold (retain, release).               *)
THEOREM CountsAreTrueHolds == Spec => []CountsAreTrue
<1>1. IInv => CountsAreTrue
  BY DEF IInv
<1> QED BY <1>1, InvHolds, PTL
-----------------------------------------------------------------------------
(* Nothing but malloc makes a heap block or takes one, and it makes one of *)
(* the largest size only when all the others of that size have a client.   *)
Largest(bs) == {b \in DOMAIN bs : bs[b].kind = "heap" /\ \A n \in HeapSizes : n <= bs[b].size}
Held(bs) == {b \in DOMAIN bs : bs[b].kind = "heap" /\ bs[b].holders > 0}
UsedAreHeld == \A b \in DOMAIN blocks : blocks[b].kind = "heap" /\ blocks[b].used => b \in Held(blocks)
BufferInv == UsedAreHeld /\ Cardinality(Largest(blocks)) <= peak

(* Fewer blocks of the largest size are no more than before. *)
LEMMA LargestShrinks ==
  ASSUME IInv, NEW bs, Largest(bs) \subseteq Largest(blocks)
  PROVE  /\ Cardinality(Largest(bs)) \in Nat
         /\ Cardinality(Largest(bs)) <= Cardinality(Largest(blocks))
<1>1. IsFiniteSet(DOMAIN blocks) /\ Largest(blocks) \subseteq DOMAIN blocks
  BY DEF IInv, Types, Largest
<1>2. IsFiniteSet(Largest(blocks))
  BY <1>1, FS_Subset
<1> QED BY <1>2, FS_Subset, FS_CardinalityType

(* A step that keeps what the heap blocks are, and clears is_used at most, *)
(* keeps the bound.                                                        *)
LEMMA SameHeap ==
  ASSUME IInv, IInv', BufferInv, peak' >= peak,
         \A b \in DOMAIN blocks' : blocks'[b].kind = "heap" =>
           /\ b \in DOMAIN blocks /\ blocks[b].kind = "heap"
           /\ blocks'[b].size = blocks[b].size
           /\ blocks'[b].used => b \in Held(blocks')
  PROVE  BufferInv'
<1>1. Largest(blocks') \subseteq Largest(blocks)
  BY DEF Largest
<1>2. /\ Cardinality(Largest(blocks')) \in Nat /\ Cardinality(Largest(blocks)) \in Nat
      /\ Cardinality(Largest(blocks')) <= Cardinality(Largest(blocks))
  BY <1>1, LargestShrinks
<1>3. Cardinality(Largest(blocks')) <= peak'
  BY <1>2 DEF IInv, BufferInv
<1>4. UsedAreHeld'
  BY DEF UsedAreHeld
<1> QED BY <1>3, <1>4 DEF BufferInv

LEMMA PeakGrows == ASSUME IInv, IInv', Peak PROVE peak' >= peak /\ peak' >= InUse(blocks')
<1>1. peak \in Nat /\ IsFiniteSet(DOMAIN blocks')
  BY DEF IInv, Types
<1>2. Held(blocks') \subseteq DOMAIN blocks' /\ InUse(blocks') = Cardinality(Held(blocks'))
  BY DEF Held, InUse
<1>3. InUse(blocks') \in Nat
  BY <1>1, <1>2, FS_Subset, FS_CardinalityType
<1> QED BY <1>1, <1>3 DEF Peak

LEMMA MallocBuffers ==
  ASSUME Assumptions, IInv, IInv', BufferInv, NEW n \in HeapSizes, Malloc(n)
  PROVE  BufferInv'
<1>1. peak' >= peak /\ peak' >= InUse(blocks') /\ peak \in Nat /\ peak' \in Nat
  BY PeakGrows DEF Malloc, IInv
<1>2. CASE \E b \in DOMAIN blocks :
             /\ IsFirst(b, Reusable(n))
             /\ blocks' = [blocks EXCEPT ![b].used = TRUE, ![b].holders = @ + 1]
  <2>1. PICK b \in DOMAIN blocks :
               /\ b \in Reusable(n)
               /\ blocks' = [blocks EXCEPT ![b].used = TRUE, ![b].holders = @ + 1]
    BY <1>2 DEF IsFirst
  <2>2. PICK r \in Blocks : r = blocks[b]
    BY DEF IInv, AllBlocks, BlockInv
  <2>3. PICK q : q = [r EXCEPT !.used = TRUE, !.holders = @ + 1]
    OBVIOUS
  <2>4. q.kind = r.kind /\ q.size = r.size /\ q.holders > 0
    BY <2>3 DEF Blocks
  <2>5. DOMAIN blocks' = DOMAIN blocks /\ blocks'[b] = q /\ \A a \in DOMAIN blocks \ {b} : blocks'[a] = blocks[a]
    BY <2>1, <2>2, <2>3
  <2>6. ASSUME NEW a \in DOMAIN blocks', blocks'[a].kind = "heap"
        PROVE  /\ a \in DOMAIN blocks /\ blocks[a].kind = "heap"
               /\ blocks'[a].size = blocks[a].size
               /\ blocks'[a].used => a \in Held(blocks')
    <3>1. CASE a = b
      BY <2>2, <2>4, <2>5, <2>6, <3>1 DEF Held
    <3>2. CASE a # b
      BY <2>5, <2>6, <3>2 DEF Held, BufferInv, UsedAreHeld
    <3> QED BY <3>1, <3>2
  <2> QED BY <1>1, <2>6, SameHeap
<1>3. CASE Reusable(n) = {} /\ SlabAlloc(0, "heap", HeapHeader + n, n, 2)
  <2>1. PICK new : blocks' = [a \in DOMAIN blocks \cup {new} |->
                               IF a = new THEN Block("heap", HeapHeader + n, n) ELSE blocks[a]]
    BY <1>3 DEF SlabAlloc
  <2>2. /\ blocks'[new].kind = "heap" /\ blocks'[new].size = n /\ blocks'[new].holders = 1
        /\ new \in DOMAIN blocks' /\ DOMAIN blocks' = DOMAIN blocks \cup {new}
    BY <2>1 DEF Block
  <2>3. \A a \in DOMAIN blocks' : a # new => a \in DOMAIN blocks /\ blocks'[a] = blocks[a]
    BY <2>1
  <2>4. new \in Held(blocks')
    BY <2>2 DEF Held
  <2>5. UsedAreHeld'
    BY <2>3, <2>4 DEF BufferInv, UsedAreHeld, Held
  <2>6. CASE \A m \in HeapSizes : m <= n
    <3>1. ASSUME NEW a \in Largest(blocks'), a # new PROVE a \in Held(blocks')
      <4>1. a \in DOMAIN blocks /\ blocks'[a] = blocks[a] /\ blocks[a].kind = "heap" /\ n <= blocks[a].size
        BY <2>3, <3>1 DEF Largest
      <4>2. blocks[a].used /\ a \in DOMAIN blocks'
        BY <1>3, <2>2, <4>1 DEF Reusable, IInv, AllBlocks, BlockInv, Blocks
      <4> QED BY <4>1, <4>2 DEF BufferInv, UsedAreHeld, Held
    <3>2. Largest(blocks') \subseteq Held(blocks') /\ Held(blocks') \subseteq DOMAIN blocks'
      BY <2>4, <3>1 DEF Held
    <3>3. IsFiniteSet(Held(blocks'))
      BY <3>2, FS_Subset DEF IInv, Types
    <3>4. /\ Cardinality(Largest(blocks')) \in Nat /\ Cardinality(Held(blocks')) \in Nat
          /\ Cardinality(Largest(blocks')) <= Cardinality(Held(blocks'))
      BY <3>2, <3>3, FS_Subset, FS_CardinalityType
    <3>5. Cardinality(Held(blocks')) = InUse(blocks')
      BY DEF Held, InUse
    <3> QED BY <1>1, <2>5, <3>4, <3>5 DEF BufferInv
  <2>7. CASE ~ \A m \in HeapSizes : m <= n
    <3>1. Largest(blocks') \subseteq Largest(blocks)
      BY <2>2, <2>3, <2>7 DEF Largest
    <3>2. /\ Cardinality(Largest(blocks')) \in Nat /\ Cardinality(Largest(blocks)) \in Nat
          /\ Cardinality(Largest(blocks')) <= Cardinality(Largest(blocks))
      BY <3>1, LargestShrinks
    <3> QED BY <1>1, <2>5, <3>2 DEF BufferInv
  <2> QED BY <2>6, <2>7
<1> QED BY <1>2, <1>3 DEF Malloc

(* A block given out for something else is no heap block. *)
LEMMA OtherAllocBuffers ==
  ASSUME IInv, IInv', BufferInv, peak' = peak, NEW id, NEW kind, NEW words, NEW size, NEW align,
         kind # "heap", SlabAlloc(id, kind, words, size, align)
  PROVE  BufferInv'
<1>1. PICK new : blocks' = [a \in DOMAIN blocks \cup {new} |->
                             IF a = new THEN Block(kind, words, size) ELSE blocks[a]]
  BY DEF SlabAlloc
<1>2. \A a \in DOMAIN blocks' : blocks'[a].kind = "heap" =>
        a # new /\ a \in DOMAIN blocks /\ blocks'[a] = blocks[a]
  BY <1>1 DEF Block
<1>3. \A a \in DOMAIN blocks' : blocks'[a].kind = "heap" =>
           /\ a \in DOMAIN blocks /\ blocks[a].kind = "heap"
           /\ blocks'[a].size = blocks[a].size
           /\ blocks'[a].used => a \in Held(blocks')
  BY <1>2 DEF BufferInv, UsedAreHeld, Held
<1>4. peak' >= peak
  BY DEF IInv
<1> QED BY <1>3, <1>4, SameHeap

(* free, retain and release: the heap blocks stay what they are. *)
LEMMA FreeBuffers == ASSUME IInv, IInv', BufferInv, NEW b \in DOMAIN blocks, Free(b) PROVE BufferInv'
<1>1. peak' >= peak
  BY PeakGrows DEF Free
<1>2. PICK r \in Blocks : r = blocks[b]
  BY DEF IInv, AllBlocks, BlockInv
<1>3. PICK q : q = [r EXCEPT !.used = FALSE, !.holders = 0]
  OBVIOUS
<1>4. q.kind = r.kind /\ q.size = r.size /\ ~q.used
  BY <1>3 DEF Blocks
<1>5. DOMAIN blocks' = DOMAIN blocks /\ blocks'[b] = q /\ \A a \in DOMAIN blocks \ {b} : blocks'[a] = blocks[a]
  BY <1>2, <1>3 DEF Free
<1>6. ASSUME NEW a \in DOMAIN blocks', blocks'[a].kind = "heap"
      PROVE  /\ a \in DOMAIN blocks /\ blocks[a].kind = "heap"
             /\ blocks'[a].size = blocks[a].size
             /\ blocks'[a].used => a \in Held(blocks')
  <2>1. CASE a = b
    BY <1>2, <1>4, <1>5, <1>6, <2>1
  <2>2. CASE a # b
    BY <1>5, <1>6, <2>2 DEF Held, BufferInv, UsedAreHeld
  <2> QED BY <2>1, <2>2
<1> QED BY <1>1, <1>6, SameHeap

LEMMA RetainBuffers == ASSUME IInv, IInv', BufferInv, NEW b \in DOMAIN blocks, Retain(b) PROVE BufferInv'
<1>1. PICK r \in Blocks : r = blocks[b] /\ r.kind = "object"
  BY DEF Retain, IInv, AllBlocks, BlockInv
<1>2. PICK q : q = [r EXCEPT !.count = @ + 1, !.holders = @ + 1]
  OBVIOUS
<1>3. q.kind = "object"
  BY <1>1, <1>2 DEF Blocks
<1>4. DOMAIN blocks' = DOMAIN blocks /\ blocks'[b] = q /\ \A a \in DOMAIN blocks \ {b} : blocks'[a] = blocks[a]
  BY <1>1, <1>2 DEF Retain
<1>5. \A a \in DOMAIN blocks' : blocks'[a].kind = "heap" => a \in DOMAIN blocks /\ blocks'[a] = blocks[a]
  BY <1>3, <1>4
<1>6. \A a \in DOMAIN blocks' : blocks'[a].kind = "heap" =>
           /\ a \in DOMAIN blocks /\ blocks[a].kind = "heap"
           /\ blocks'[a].size = blocks[a].size
           /\ blocks'[a].used => a \in Held(blocks')
  BY <1>5 DEF BufferInv, UsedAreHeld, Held
<1>7. peak' >= peak
  BY DEF Retain, IInv
<1> QED BY <1>6, <1>7, SameHeap

(* What release writes before an object may mark a heap block as free (it  *)
(* never does while the slabs have pages), but makes none used or larger.  *)
LEMMA HitKeepsHeap ==
  ASSUME NEW r \in Blocks, NEW k
  PROVE  /\ Hit(r, k).kind = r.kind /\ Hit(r, k).size = r.size
         /\ Hit(r, k).holders = r.holders /\ (Hit(r, k).used => r.used)
<1>1. CASE r.kind = "heap" /\ k = 1
  <2>1. Hit(r, k) = [r EXCEPT !.used = FALSE]
    BY <1>1 DEF Hit
  <2> QED BY <2>1 DEF Blocks
<1>2. CASE r.kind = "heap" /\ k \in {0, 2}
  <2>1. Hit(r, k) = [r EXCEPT !.headerLost = TRUE]
    BY <1>2 DEF Hit
  <2> QED BY <2>1 DEF Blocks
<1>3. CASE r.kind = "object" /\ k = 0
  <2>1. Hit(r, k) = [r EXCEPT !.count = 0]
    BY <1>3 DEF Hit
  <2> QED BY <2>1 DEF Blocks
<1>4. CASE ~(r.kind = "heap" /\ k = 1) /\ ~(r.kind = "heap" /\ k \in {0, 2}) /\ ~(r.kind = "object" /\ k = 0)
  <2>1. Hit(r, k) = r
    BY <1>4 DEF Hit
  <2> QED BY <2>1
<1> QED BY <1>1, <1>2, <1>3, <1>4

LEMMA ReleaseBuffers == ASSUME IInv, IInv', BufferInv, NEW b \in DOMAIN blocks, Release(b) PROVE BufferInv'
<1> DEFINE dropped == [blocks EXCEPT ![b].count = IF @ > 0 THEN @ - 1 ELSE 0, ![b].holders = @ - 1]
<1>1. PICK r \in Blocks : r = blocks[b] /\ r.kind = "object"
  BY DEF Release, IInv, AllBlocks, BlockInv
<1>2. PICK q : q = [r EXCEPT !.count = IF @ > 0 THEN @ - 1 ELSE 0, !.holders = @ - 1]
  OBVIOUS
<1>3. q.kind = "object"
  BY <1>1, <1>2 DEF Blocks
<1>4. DOMAIN dropped = DOMAIN blocks /\ dropped[b] = q /\ \A a \in DOMAIN blocks \ {b} : dropped[a] = blocks[a]
  BY <1>1, <1>2
<1>5. blocks' = dropped \/ blocks' = Strike(dropped, IsUsedBefore(b))
  BY DEF Release
<1> HIDE DEF dropped
<1>6. /\ DOMAIN blocks' = DOMAIN blocks
      /\ \A a \in DOMAIN blocks : blocks'[a] = dropped[a] \/ \E k : blocks'[a] = Hit(dropped[a], k)
  BY <1>4, <1>5 DEF Strike
<1>7. ASSUME NEW a \in DOMAIN blocks, blocks'[a].kind = "heap"
      PROVE  /\ blocks[a].kind = "heap" /\ blocks'[a].size = blocks[a].size
             /\ blocks'[a].holders = blocks[a].holders /\ (blocks'[a].used => blocks[a].used)
  <2>1. CASE a = b
    <3>1. blocks'[b] = q \/ \E k : blocks'[b] = Hit(q, k)
      BY <1>4, <1>6
    <3>2. q \in Blocks
      BY <1>1, <1>2 DEF Release, Blocks
    <3>3. blocks'[b].kind = "object"
      BY <1>3, <3>1, <3>2, HitKeepsHeap
    <3> QED BY <1>7, <2>1, <3>3
  <2>2. CASE a # b
    <3>1. PICK z \in Blocks : z = blocks[a]
      BY DEF IInv, AllBlocks, BlockInv
    <3>2. blocks'[a] = z \/ \E k : blocks'[a] = Hit(z, k)
      BY <1>4, <1>6, <2>2, <3>1
    <3> QED BY <1>7, <3>1, <3>2, HitKeepsHeap
  <2> QED BY <2>1, <2>2
<1>8. \A a \in DOMAIN blocks' : blocks'[a].kind = "heap" =>
           /\ a \in DOMAIN blocks /\ blocks[a].kind = "heap"
           /\ blocks'[a].size = blocks[a].size
           /\ blocks'[a].used => a \in Held(blocks')
  BY <1>6, <1>7 DEF BufferInv, UsedAreHeld, Held
<1>9. peak' >= peak
  BY DEF Release, IInv
<1> QED BY <1>8, <1>9, SameHeap

LEMMA BufferStep == ASSUME Assumptions, IInv, IInv', BufferInv, [Next]_vars PROVE BufferInv'
<1>1. CASE SlabInit
  <2>1. peak' = peak /\ blocks' = blocks
    BY <1>1 DEF SlabInit
  <2> QED BY <2>1 DEF BufferInv, UsedAreHeld
<1>2. ASSUME NEW n \in HeapSizes, Malloc(n) PROVE BufferInv'
  BY <1>2, MallocBuffers
<1>3. CASE DmaAlloc
  BY <1>3, OtherAllocBuffers DEF DmaAlloc
<1>4. ASSUME NEW id \in Slabs, NEW n \in ObjectSizes, ArcAlloc(id, n) PROVE BufferInv'
  BY <1>4, OtherAllocBuffers DEF ArcAlloc
<1>5. ASSUME NEW b \in DOMAIN blocks, Free(b) \/ Retain(b) \/ Release(b) PROVE BufferInv'
  BY <1>5, FreeBuffers, RetainBuffers, ReleaseBuffers
<1>6. CASE UNCHANGED vars
  <2>1. peak' = peak /\ blocks' = blocks
    BY <1>6 DEF vars
  <2> QED BY <2>1 DEF BufferInv, UsedAreHeld
<1> QED BY <1>1, <1>2, <1>3, <1>4, <1>5, <1>6 DEF Next

(* malloc makes no more blocks of the largest size than clients ever held  *)
(* at one time (malloc, free): with every sector buffer given back, slab 0 *)
(* is not used up by them, even when another slab has got no pages.        *)
THEOREM BuffersBoundedHolds == Spec => []BuffersBounded
<1> USE SlabAssumption, MapAssumption, SizeAssumption DEF Assumptions
<1>1. Init => BufferInv
  <2> SUFFICES ASSUME Init PROVE BufferInv
    OBVIOUS
  <2>1. DOMAIN blocks = {} /\ peak = 0
    BY DEF Init
  <2>2. Largest(blocks) = {}
    BY <2>1 DEF Largest
  <2>3. Cardinality(Largest(blocks)) = 0
    BY <2>2, FS_EmptySet
  <2> QED BY <2>1, <2>3 DEF BufferInv, UsedAreHeld
<1>2. IInv /\ IInv' /\ BufferInv /\ [Next]_vars => BufferInv'
  BY BufferStep
<1>3. BufferInv => BuffersBounded
  BY DEF BufferInv, BuffersBounded, Largest
<1> QED BY <1>1, <1>2, <1>3, InvHolds, PTL DEF Spec
=============================================================================
