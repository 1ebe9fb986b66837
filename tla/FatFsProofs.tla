----------------------------- MODULE FatFsProofs -----------------------------
(***************************************************************************)
(* Theorems about FatFs, for any number of clusters, sectors and entries   *)
(* and any files and directories. Those on damage, entries, names and      *)
(* readers hold with any readers, crashes, failed sector writes and        *)
(* failing mallocs; the last two, the refinement of FileStore and what     *)
(* becomes of a written file, are about commands one after the other.      *)
(***************************************************************************)
EXTENDS FatFs, FiniteSetTheorems, SequenceTheorems, WellFoundedInduction, TLAPS

(* Every non-empty set of numbers has a least element. *)
LEMMA LeastNumber ==
  ASSUME NEW S \in SUBSET Nat, S # {}
  PROVE  \E i \in S : \A j \in S : i <= j
<1> DEFINE Less == {p \in Nat \X Nat : p[1] < p[2]}
<1>1. IsWellFoundedOn(Less, Nat)
  <2>1. Less = OpToRel(<, Nat)
    BY Zenon DEF OpToRel
  <2> QED BY <2>1, NatLessThanWellFounded
<1>2. \E i \in S : \A j \in S : ~ (<<j, i>> \in Less)
  BY <1>1, WFMin
<1>3. \A i, j \in Nat : <<j, i>> \in Less <=> j < i
  OBVIOUS
<1> HIDE DEF Less
<1>4. PICK i \in S : \A j \in S : ~ (<<j, i>> \in Less)
  BY <1>2
<1>5. \A j \in S : i \in Nat /\ j \in Nat /\ ~ (j < i)
  BY <1>3, <1>4
<1> QED BY <1>4, <1>5

LEMMA FirstIsLeast ==
  ASSUME NEW S \in SUBSET Nat, S # {}
  PROVE  First(S) \in S /\ \A j \in S : First(S) <= j
BY LeastNumber DEF First

(* The same for what holds of every number: if it fails, it fails first    *)
(* somewhere.                                                              *)
LEMMA FirstFailure ==
  ASSUME NEW n \in Nat, NEW S \in SUBSET (0 .. n), 0 \in S,
         \A k \in 0 .. n - 1 : k \in S => k + 1 \in S
  PROVE  S = 0 .. n
<1> SUFFICES ASSUME S # 0 .. n PROVE FALSE
  OBVIOUS
<1> DEFINE rest == (0 .. n) \ S
<1>1. rest \in SUBSET Nat /\ rest # {}
  <2>1. \E i \in 0 .. n : i \notin S
    BY Zenon
  <2> QED BY <2>1
<1>2. PICK i \in rest : \A j \in rest : i <= j
  BY <1>1, LeastNumber
<1>3. i \in 1 .. n
  BY <1>2
<1>4. i - 1 \in S
  BY <1>2, <1>3
<1>5. i - 1 + 1 = i /\ i - 1 \in 0 .. n - 1
  BY <1>3
<1> QED BY <1>2, <1>4, <1>5
-----------------------------------------------------------------------------
(* Walking a chain.                                                        *)
Stops == Clusters \cup {EOC}
Follows(next, c, n) ==
  {f \in [0 .. n -> Stops] : f[0] = c /\ \A k \in 0 .. n - 1 : f[k + 1] = next[f[k]]}

LEMMA WalkExists ==
  ASSUME NEW n \in Nat, NEW c \in Stops, NEW next \in [Stops -> Stops]
  PROVE  Follows(next, c, n) # {}
<1> DEFINE S == {k \in 0 .. n : Follows(next, c, k) # {}}
<1>1. 0 \in S
  <2>1. [k \in 0 .. 0 |-> c] \in Follows(next, c, 0)
    BY DEF Follows
  <2> QED BY <2>1
<1>2. ASSUME NEW m \in 0 .. n - 1, m \in S PROVE m + 1 \in S
  <2>1. PICK f \in Follows(next, c, m) : TRUE
    BY <1>2
  <2> DEFINE g == [k \in 0 .. m + 1 |-> IF k = m + 1 THEN next[f[m]] ELSE f[k]]
  <2>2. f \in [0 .. m -> Stops] /\ f[0] = c /\ \A k \in 0 .. m - 1 : f[k + 1] = next[f[k]]
    BY <2>1 DEF Follows
  <2>3. f[m] \in Stops
    BY <2>2
  <2>4. g \in [0 .. m + 1 -> Stops]
    <3>1. ASSUME NEW k \in 0 .. m + 1 PROVE (IF k = m + 1 THEN next[f[m]] ELSE f[k]) \in Stops
      <4>1. CASE k = m + 1
        BY <2>3, <4>1
      <4>2. CASE k # m + 1
        BY <2>2, <4>2
      <4> QED BY <4>1, <4>2
    <3> QED BY <3>1
  <2>5. g[0] = c
    BY <2>2
  <2>6. \A k \in 0 .. m + 1 - 1 : g[k + 1] = next[g[k]]
    <3>1. SUFFICES ASSUME NEW k \in 0 .. m PROVE g[k + 1] = next[g[k]]
      <4>1. m + 1 - 1 = m
        OBVIOUS
      <4> HIDE DEF g
      <4> QED BY <4>1
    <3>2. CASE k = m
      BY <3>2
    <3>3. CASE k \in 0 .. m - 1
      <4>1. k + 1 # m + 1 /\ k # m + 1 /\ k + 1 \in 0 .. m + 1 /\ k \in 0 .. m + 1
        BY <3>3
      <4>2. g[k + 1] = f[k + 1] /\ g[k] = f[k]
        BY <4>1
      <4> QED BY <2>2, <3>3, <4>2
    <3> QED BY <3>1, <3>2, <3>3
  <2> HIDE DEF g
  <2>7. g \in Follows(next, c, m + 1)
    BY <2>4, <2>5, <2>6 DEF Follows
  <2> QED BY <2>7
<1> HIDE DEF S
<1>3. S = 0 .. n
  <2>1. S \in SUBSET (0 .. n)
    BY DEF S
  <2> QED BY <1>1, <1>2, <2>1, FirstFailure
<1> QED BY <1>3 DEF S

(* Walk(c) starts at c and follows the links. *)
LEMMA WalkIs ==
  ASSUME FatFsAssumption, fat \in [Clusters -> Clusters \cup {EOC}], NEW c \in Clusters
  PROVE  /\ Walk(c) \in [0 .. MaxCluster -> Stops]
         /\ Walk(c)[0] = c
         /\ \A k \in 0 .. MaxCluster - 1 :
              Walk(c)[k + 1] = IF Walk(c)[k] = EOC THEN EOC ELSE fat[Walk(c)[k]]
<1> DEFINE next == [d \in Clusters \cup {EOC} |-> IF d = EOC THEN EOC ELSE fat[d]]
           Is(f) == f = [k \in 0 .. MaxCluster |-> IF k = 0 THEN c ELSE next[f[k - 1]]]
<1>1. MaxCluster \in Nat /\ EOC \notin Clusters /\ c \in Stops
  BY DEF FatFsAssumption, EOC, Clusters, Stops
<1>2. next \in [Stops -> Stops]
  BY <1>1 DEF Stops
<1>3. PICK f \in Follows(next, c, MaxCluster) : TRUE
  <2> HIDE DEF next
  <2> QED BY <1>1, <1>2, WalkExists
<1>4. f \in [0 .. MaxCluster -> Stops] /\ f[0] = c
      /\ \A k \in 0 .. MaxCluster - 1 : f[k + 1] = next[f[k]]
  BY <1>3 DEF Follows
<1>5. Is(f)
  <2>1. ASSUME NEW k \in 0 .. MaxCluster PROVE f[k] = IF k = 0 THEN c ELSE next[f[k - 1]]
    <3>1. CASE k = 0
      BY <1>4, <3>1
    <3>2. CASE k # 0
      <4>1. k - 1 \in 0 .. MaxCluster - 1 /\ k - 1 + 1 = k
        BY <1>1, <3>2
      <4>2. f[k - 1 + 1] = next[f[k - 1]]
        BY <1>4, <4>1
      <4> QED BY <3>2, <4>1, <4>2
    <3> QED BY <3>1, <3>2
  <2> HIDE DEF next
  <2> QED BY <1>4, <2>1
<1>6. Walk(c) = CHOOSE g : Is(g)
  BY DEF Walk
<1> HIDE DEF Is
<1>7. Is(Walk(c))
  BY <1>5, <1>6
<1>8. Walk(c) = [k \in 0 .. MaxCluster |-> IF k = 0 THEN c ELSE next[Walk(c)[k - 1]]]
  BY <1>7 DEF Is
<1>9. PICK w : w = Walk(c)
  OBVIOUS
<1>10. w = [k \in 0 .. MaxCluster |-> IF k = 0 THEN c ELSE next[w[k - 1]]]
  BY <1>8, <1>9
<1> HIDE DEF next
<1>11. DOMAIN w = 0 .. MaxCluster /\ w[0] = c
  BY <1>1, <1>10
<1>12. ASSUME NEW k \in 0 .. MaxCluster - 1 PROVE w[k + 1] = next[w[k]]
  <2>1. k + 1 \in 0 .. MaxCluster /\ k + 1 # 0 /\ k + 1 - 1 = k
    BY <1>1
  <2> QED BY <1>10, <2>1
<1> DEFINE S == {k \in 0 .. MaxCluster : w[k] \in Stops}
<1>13. S = 0 .. MaxCluster
  <2>1. 0 \in S /\ S \in SUBSET (0 .. MaxCluster)
    BY <1>1, <1>11
  <2>2. \A k \in 0 .. MaxCluster - 1 : k \in S => k + 1 \in S
    BY <1>1, <1>2, <1>12
  <2> HIDE DEF S
  <2> QED BY <1>1, <2>1, <2>2, FirstFailure
<1>14. w \in [0 .. MaxCluster -> Stops]
  BY <1>10, <1>11, <1>13
<1>15. ASSUME NEW k \in 0 .. MaxCluster - 1
       PROVE  w[k + 1] = IF w[k] = EOC THEN EOC ELSE fat[w[k]]
  <2>1. w[k] \in Stops
    BY <1>1, <1>14
  <2> QED BY <1>12, <2>1 DEF next, Stops
<1> QED BY <1>9, <1>11, <1>14, <1>15

(* A chain that has ended stays ended, so its clusters are the first ones. *)
LEMMA ChainIsPrefix ==
  ASSUME FatFsAssumption, fat \in [Clusters -> Clusters \cup {EOC}], NEW c \in Clusters
  PROVE  LET live == {k \in DOMAIN Walk(c) : Walk(c)[k] # EOC}
         IN Cardinality(live) \in Nat /\ live = 0 .. Cardinality(live) - 1
<1> DEFINE live == {k \in DOMAIN Walk(c) : Walk(c)[k] # EOC}
<1>1. MaxCluster \in Nat /\ EOC \notin Clusters
  BY DEF FatFsAssumption, EOC, Clusters
<1>2. PICK w : w = Walk(c)
  OBVIOUS
<1>3. /\ w \in [0 .. MaxCluster -> Stops] /\ w[0] = c
      /\ \A k \in 0 .. MaxCluster - 1 : w[k] = EOC => w[k + 1] = EOC
  BY <1>2, WalkIs
<1>4. \E e \in Nat : live = 0 .. e - 1
  <2>1. CASE \A k \in 0 .. MaxCluster : w[k] # EOC
    <3>1. live = 0 .. MaxCluster + 1 - 1
      BY <1>1, <1>2, <1>3, <2>1
    <3> QED BY <1>1, <3>1
  <2>2. CASE \E k \in 0 .. MaxCluster : w[k] = EOC
    <3> DEFINE over == {k \in 0 .. MaxCluster : w[k] = EOC}
    <3>1. over \in SUBSET Nat /\ over # {}
      BY <2>2
    <3>2. PICK e \in over : \A k \in over : e <= k
      BY <3>1, LeastNumber
    <3> DEFINE S == {j \in 0 .. MaxCluster - e : w[e + j] = EOC}
    <3>3. e \in 0 .. MaxCluster /\ w[e] = EOC
      BY <3>2
    <3>4. S = 0 .. MaxCluster - e
      <4>1. 0 \in S /\ S \in SUBSET (0 .. MaxCluster - e) /\ MaxCluster - e \in Nat
        BY <1>1, <3>3
      <4>2. ASSUME NEW j \in 0 .. MaxCluster - e - 1, j \in S PROVE j + 1 \in S
        <5>1. e + j \in 0 .. MaxCluster - 1 /\ j + 1 \in 0 .. MaxCluster - e /\ e + (j + 1) = e + j + 1
          BY <1>1, <3>3
        <5>2. w[e + j] = EOC
          BY <4>2
        <5>3. w[e + j + 1] = EOC
          BY <1>3, <5>1, <5>2
        <5> QED BY <5>1, <5>3
      <4> HIDE DEF S
      <4> QED BY <4>1, <4>2, FirstFailure
    <3>5. ASSUME NEW k \in 0 .. MaxCluster PROVE w[k] # EOC <=> k < e
      <4>1. CASE k < e
        BY <1>1, <3>2, <3>3, <4>1
      <4>2. CASE k >= e
        <5>1. k - e \in 0 .. MaxCluster - e /\ e + (k - e) = k
          BY <1>1, <3>3, <4>2
        <5>2. w[e + (k - e)] = EOC
          BY <3>4, <5>1
        <5> QED BY <3>3, <4>2, <5>1, <5>2
      <4> QED BY <1>1, <3>3, <4>1, <4>2
    <3>6. DOMAIN Walk(c) = 0 .. MaxCluster
      BY <1>2, <1>3
    <3>7. live = 0 .. e - 1
      BY <1>1, <1>2, <3>3, <3>5, <3>6
    <3> QED BY <3>3, <3>7
  <2> QED BY <2>1, <2>2
<1> HIDE DEF live
<1>5. PICK e \in Nat : live = 0 .. e - 1
  BY <1>4
<1>6. Cardinality(0 .. e - 1) = e
  <2>1. 0 \in Int /\ e - 1 \in Int
    OBVIOUS
  <2>2. Cardinality(0 .. e - 1) = IF 0 > e - 1 THEN 0 ELSE e - 1 - 0 + 1
    BY <2>1, FS_Interval
  <2> QED BY <2>2
<1>7. Cardinality(live) = e
  BY <1>5, <1>6
<1>8. Cardinality(live) \in Nat /\ live = 0 .. Cardinality(live) - 1
  BY <1>5, <1>7
<1> QED BY <1>8 DEF live

(* A number below that of all the entries of a chain names one of them.    *)
LEMMA DivideBelow ==
  ASSUME NEW w \in Nat \ {0}, NEW e \in Nat, NEW n \in 0 .. w * e - 1
  PROVE  n \div w \in 0 .. e - 1 /\ n % w \in 0 .. w - 1
<1>1. n \in Nat /\ n < w * e
  <2>1. w * e \in Nat
    BY Z3
  <2> QED BY <2>1
<1> DEFINE q == n \div w
           r == n % w
<1>2. q \in Nat /\ r \in 0 .. w - 1 /\ n = w * q + r
  BY <1>1, Z3
<1> HIDE DEF q, r
<1>3. q < e
  <2> SUFFICES ASSUME q >= e PROVE FALSE
    BY <1>2
  <2>1. PICK f \in Nat : q = e + f
    <3>1. q - e \in Nat /\ q = e + (q - e)
      BY <1>2
    <3> QED BY <3>1
  <2>2. w * (e + f) = w * e + w * f /\ w * e \in Nat /\ w * f \in Nat
    BY Z3
  <2> QED BY <1>1, <1>2, <2>1, <2>2
<1> QED BY <1>2, <1>3 DEF q, r

LEMMA WidthIs == ASSUME FatFsAssumption PROVE Width \in Nat \ {0} /\ SlotIds = 0 .. Width - 1 /\ FirstSector \subseteq SlotIds
<1>1. SectorsPerCluster \in Nat \ {0} /\ SlotsPerSector \in Nat \ {0}
  BY DEF FatFsAssumption
<1>2. Width \in Nat \ {0} /\ SlotsPerSector <= Width
  BY <1>1, Z3 DEF Width
<1> QED BY <1>1, <1>2 DEF SlotIds, FirstSector

Positions == Clusters \X SlotIds
SlotAt(p) == slots[p[1]][p[2]]

(* find_entry stays on the volume: where it finds a name there is an entry *)
(* in use with that name.                                                  *)
LEMMA PlaceIs ==
  ASSUME FatFsAssumption, fat \in [Clusters -> Clusters \cup {EOC}],
         NEW d \in Clusters, NEW name, Matches(d, name) # {}
  PROVE  /\ Place(d, name) \in Positions
         /\ SlotAt(Place(d, name)) = Entry(d, name)
         /\ Entry(d, name).st = "used" /\ Entry(d, name).name = name
<1> DEFINE live == {k \in DOMAIN Walk(d) : Walk(d)[k] # EOC}
           seen == 0 .. Width * Cardinality(live) - 1
           n == First(Matches(d, name))
<1>1. Cardinality(live) \in Nat /\ live = 0 .. Cardinality(live) - 1
  BY ChainIsPrefix
<1>2. Width \in Nat \ {0} /\ SlotIds = 0 .. Width - 1
  BY WidthIs
<1>3. \A m \in Matches(d, name) :
        /\ m \in seen
        /\ slots[Walk(d)[m \div Width]][m % Width].st = "used"
        /\ slots[Walk(d)[m \div Width]][m % Width].name = name
  BY DEF Matches, MatchesUpTo
<1> HIDE DEF live
<1>4. Matches(d, name) \in SUBSET Nat
  <2>1. Width * Cardinality(live) \in Nat
    BY <1>1, <1>2, Z3
  <2> QED BY <1>3, <2>1
<1>5. n \in Matches(d, name)
  BY <1>4, FirstIsLeast
<1> HIDE DEF n
<1>6. n \div Width \in live /\ n % Width \in SlotIds
  BY <1>1, <1>2, <1>3, <1>5, DivideBelow
<1>7. Walk(d)[n \div Width] \in Clusters
  <2>1. Walk(d) \in [0 .. MaxCluster -> Stops]
    BY WalkIs
  <2> QED BY <1>6, <2>1 DEF live, Stops
<1>8. Place(d, name) = <<Walk(d)[n \div Width], n % Width>>
  BY DEF Place, n
<1>9. Entry(d, name) = slots[Walk(d)[n \div Width]][n % Width]
  BY <1>8 DEF Entry
<1> QED BY <1>3, <1>5, <1>6, <1>7, <1>8, <1>9 DEF Positions, SlotAt
-----------------------------------------------------------------------------
(* Types.                                                                  *)
Types ==
  /\ fat \in [Clusters -> Clusters \cup {EOC}]
  /\ slots \in [Clusters -> [SlotIds -> SlotType]]
  /\ wr \in WriterType \cup {NoFile}
  /\ wr # NoFile => wr.fil.pos + wr.left <= MaxWrite
  /\ rd \in [Streams -> HandleType \cup {NoFile}]
  /\ todo \in Seq(SectorWrite)
  /\ crashes \in 0 .. MaxCrashes /\ failures \in 0 .. MaxFailures
  /\ saved \in [Paths -> [first : Clusters, size : Sizes, len : Sizes]]

LEMMA ConstantFacts ==
  ASSUME FatFsAssumption
  PROVE  /\ MaxCluster \in Nat /\ Clusters = 0 .. MaxCluster /\ EOC = MaxCluster + 1 /\ EOC \notin Clusters
         /\ Root \in Clusters /\ Free \in Clusters /\ DataClusters \subseteq Clusters
         /\ Free \notin DataClusters /\ Root \notin DataClusters /\ EOC \notin DataClusters /\ Root # Free /\ EOC # Root
         /\ MaxWrite \in Nat /\ 0 \in Sizes /\ Sizes = 0 .. MaxWrite
         /\ SectorsPerCluster \in Nat \ {0} /\ 0 \in 0 .. SectorsPerCluster - 1
         /\ Top \in Names \cup {Top} /\ FileNames \subseteq Names /\ DirNames \subseteq Names
BY DEF FatFsAssumption, Clusters, EOC, Root, Free, DataClusters, Sizes, Names

LEMMA SlotIsTyped ==
  ASSUME NEW st \in {"free", "deleted", "used", "junk"}, NEW name \in Names \cup {Top},
         NEW first \in Clusters, NEW size \in Sizes
  PROVE  Slot(st, name, first, size) \in SlotType
BY DEF Slot, SlotType

LEMMA DataTyped == ASSUME FatFsAssumption PROVE FreeSlot \in SlotType /\ Data \subseteq SlotType
<1>1. FreeSlot \in SlotType /\ JunkSlot \in SlotType
  BY ConstantFacts, SlotIsTyped DEF FreeSlot, JunkSlot
<1> QED BY <1>1 DEF Data

LEMMA HandleIsTyped ==
  ASSUME FatFsAssumption, NEW d \in Clusters, NEW i \in SlotIds, NEW first \in Clusters, NEW size \in Sizes
  PROVE  /\ Handle(d, i, first, size) \in HandleType
         /\ Handle(d, i, first, size).pos = 0 /\ Handle(d, i, first, size).sclust = first
         /\ Handle(d, i, first, size).dir = d /\ Handle(d, i, first, size).idx = i
         /\ Handle(d, i, first, size).size = size /\ Handle(d, i, first, size).clust = first
BY ConstantFacts DEF Handle, HandleType

(* The sector writes that operations issue. *)
LEMMA WritesAreTyped ==
  ASSUME FatFsAssumption
  PROVE  /\ \A c \in Clusters, next \in Clusters \cup {EOC} : Link(c, next) \in SectorWrite
         /\ \A c \in Clusters, i \in SlotIds, slot \in SlotType : PutSlot(c, i, slot) \in SectorWrite
         /\ \A c \in Clusters, s \in 0 .. SectorsPerCluster - 1, as \in Data : PutData(c, s, as) \in SectorWrite
         /\ \A c \in Clusters : ZeroSector(c) \in SectorWrite
BY Zenon DEF Link, PutSlot, PutData, ZeroSector, SectorWrite

LEMMA WriteFields ==
  /\ \A c, next : Link(c, next).op = "link" /\ Link(c, next).c = c /\ Link(c, next).next = next
  /\ \A c, i, slot : /\ PutSlot(c, i, slot).op = "slot" /\ PutSlot(c, i, slot).c = c
                     /\ PutSlot(c, i, slot).i = i /\ PutSlot(c, i, slot).slot = slot
  /\ \A c, s, as : /\ PutData(c, s, as).op = "data" /\ PutData(c, s, as).c = c
                   /\ PutData(c, s, as).s = s /\ PutData(c, s, as).as = as
  /\ \A c : ZeroSector(c).op = "zero" /\ ZeroSector(c).c = c
BY DEF Link, PutSlot, PutData, ZeroSector

LEMMA SectorWriteCases ==
  ASSUME NEW w \in SectorWrite
  PROVE  \/ w.op = "link" /\ w.c \in Clusters /\ w.next \in Clusters \cup {EOC}
         \/ w.op = "slot" /\ w.c \in Clusters /\ w.i \in SlotIds /\ w.slot \in SlotType
         \/ w.op = "data" /\ w.c \in Clusters /\ w.s \in 0 .. SectorsPerCluster - 1 /\ w.as \in Data
         \/ w.op = "zero" /\ w.c \in Clusters
BY DEF SectorWrite

(* A sector write keeps the types of what is on the disk. *)
LEMMA WriteKeepsTypes ==
  ASSUME FatFsAssumption, NEW w \in SectorWrite, Write(w),
         fat \in [Clusters -> Clusters \cup {EOC}], slots \in [Clusters -> [SlotIds -> SlotType]]
  PROVE  fat' \in [Clusters -> Clusters \cup {EOC}] /\ slots' \in [Clusters -> [SlotIds -> SlotType]]
<1>1. fat' = FatAfter(w) /\ slots' = SlotsAfter(w)
  BY DEF Write
<1>2. ASSUME NEW c \in Clusters, NEW s, NEW slot \in SlotType
      PROVE  Fill(c, s, slot) \in [Clusters -> [SlotIds -> SlotType]]
  <2>1. [i \in SlotIds |-> IF SectorOf(i) = s THEN slot ELSE slots[c][i]] \in [SlotIds -> SlotType]
    OBVIOUS
  <2> QED BY <2>1 DEF Fill
<1>3. CASE w.op = "link" /\ w.c \in Clusters /\ w.next \in Clusters \cup {EOC}
  BY <1>1, <1>3 DEF FatAfter, SlotsAfter
<1>4. CASE w.op = "slot" /\ w.c \in Clusters /\ w.i \in SlotIds /\ w.slot \in SlotType
  BY <1>1, <1>4 DEF FatAfter, SlotsAfter
<1>5. CASE w.op = "data" /\ w.c \in Clusters /\ w.as \in Data
  <2>1. fat' = fat /\ slots' = Fill(w.c, w.s, w.as)
    BY <1>1, <1>5 DEF FatAfter, SlotsAfter
  <2> QED BY <1>2, <1>5, <2>1, DataTyped
<1>6. CASE w.op = "zero" /\ w.c \in Clusters
  <2>1. fat' = fat /\ slots' = Fill(w.c, 0, FreeSlot)
    BY <1>1, <1>6 DEF FatAfter, SlotsAfter
  <2> QED BY <1>2, <1>6, <2>1, DataTyped
<1> QED BY <1>3, <1>4, <1>5, <1>6, SectorWriteCases

(* A directory that is there is a cluster. *)
LEMMA ParentIs == ASSUME FatFsAssumption, Types, NEW path PROVE Parent(path) \in Clusters
<1>1. CASE path.dir = Top
  BY <1>1, ConstantFacts DEF Parent
<1>2. CASE path.dir # Top /\ Found(Root, path.dir)
  <2>1. Place(Root, path.dir) \in Positions /\ SlotAt(Place(Root, path.dir)) = Entry(Root, path.dir)
    BY <1>2, PlaceIs, ConstantFacts DEF Found, Types
  <2>2. Entry(Root, path.dir) \in SlotType
    BY <2>1 DEF SlotAt, Positions, Types
  <2>3. Entry(Root, path.dir).first \in Clusters
    BY <2>2 DEF SlotType
  <2> QED BY <1>2, <2>3 DEF Parent
<1>3. CASE path.dir # Top /\ ~Found(Root, path.dir)
  BY <1>3, ConstantFacts DEF Parent
<1> QED BY <1>1, <1>2, <1>3

(* f_open of a path that is there: the handle is that of an entry in use.  *)
LEMMA OpenExistingIs ==
  ASSUME FatFsAssumption, Types, NEW path, Exists(path)
  PROVE  LET p == Place(Parent(path), path.name)
             fil == OpenExisting(path)
         IN /\ p \in Positions /\ SlotAt(p).st = "used" /\ SlotAt(p).name = path.name /\ SlotAt(p) \in SlotType
            /\ SlotAt(p).first # Free
            /\ fil \in HandleType /\ fil.pos = 0 /\ fil.sclust = SlotAt(p).first
            /\ p = <<fil.dir, fil.idx>> /\ fil.size = SlotAt(p).size /\ fil.clust = fil.sclust
<1> DEFINE d == Parent(path)
           p == Place(d, path.name)
<1>1. d \in Clusters /\ Matches(d, path.name) # {} /\ Entry(d, path.name).first # Free
  BY ParentIs DEF Exists, Found
<1>2. /\ p \in Positions /\ SlotAt(p) = Entry(d, path.name)
      /\ SlotAt(p).st = "used" /\ SlotAt(p).name = path.name
  BY <1>1, PlaceIs DEF Types
<1>3. SlotAt(p) \in SlotType
  BY <1>2 DEF SlotAt, Positions, Types
<1>4. SlotAt(p).first \in Clusters /\ SlotAt(p).size \in Sizes
  BY <1>3 DEF SlotType
<1>5. OpenExisting(path) = Handle(p[1], p[2], SlotAt(p).first, SlotAt(p).size)
  BY <1>2 DEF OpenExisting
<1>6. p[1] \in Clusters /\ p[2] \in SlotIds /\ p = <<p[1], p[2]>>
  BY <1>2 DEF Positions
<1> HIDE DEF p
<1>7. LET fil == OpenExisting(path) IN
      /\ fil \in HandleType /\ fil.pos = 0 /\ fil.sclust = SlotAt(p).first
      /\ fil.dir = p[1] /\ fil.idx = p[2] /\ fil.size = SlotAt(p).size /\ fil.clust = SlotAt(p).first
  BY <1>4, <1>5, <1>6, HandleIsTyped
<1> QED BY <1>1, <1>2, <1>3, <1>6, <1>7 DEF p

(* f_close puts back an entry that is in use when it was, at its place.    *)
LEMMA CloseEntryIs ==
  ASSUME FatFsAssumption, Types, NEW fil \in HandleType
  PROVE  LET w == CloseEntry(fil) IN
         /\ w \in SectorWrite /\ w.op = "slot" /\ w.c = fil.dir /\ w.i = fil.idx
         /\ w.slot.st = slots[fil.dir][fil.idx].st /\ w.slot.name = slots[fil.dir][fil.idx].name
         /\ w.slot.first = fil.sclust /\ w.slot.size = fil.size
<1>1. fil.dir \in Clusters /\ fil.idx \in SlotIds /\ fil.sclust \in Clusters /\ fil.size \in Sizes
  BY DEF HandleType
<1>2. PICK old \in SlotType : old = slots[fil.dir][fil.idx]
  BY <1>1 DEF Types
<1>3. PICK new : new = [old EXCEPT !.first = fil.sclust, !.size = fil.size]
  OBVIOUS
<1>4. new \in SlotType /\ new.st = old.st /\ new.name = old.name /\ new.first = fil.sclust /\ new.size = fil.size
  BY <1>1, <1>3 DEF SlotType
<1>5. CloseEntry(fil) = PutSlot(fil.dir, fil.idx, new)
  BY <1>2, <1>3 DEF CloseEntry
<1> QED BY <1>1, <1>2, <1>4, <1>5, WritesAreTyped, WriteFields

(* f_unlink marks the entry and keeps the rest of it. *)
LEMMA DeleteEntryIs ==
  ASSUME FatFsAssumption, Types, NEW p \in Positions
  PROVE  LET w == DeleteEntry(p) IN
         /\ w \in SectorWrite /\ w.op = "slot" /\ w.c = p[1] /\ w.i = p[2]
         /\ w.slot.st = "deleted"
<1>1. p[1] \in Clusters /\ p[2] \in SlotIds
  BY DEF Positions
<1>2. PICK old \in SlotType : old = slots[p[1]][p[2]]
  BY <1>1 DEF Types
<1>3. PICK new : new = [old EXCEPT !.st = "deleted"]
  OBVIOUS
<1>4. new \in SlotType /\ new.st = "deleted"
  BY <1>3 DEF SlotType
<1>5. DeleteEntry(p) = PutSlot(p[1], p[2], new)
  BY <1>2, <1>3 DEF DeleteEntry
<1> QED BY <1>1, <1>4, <1>5, WritesAreTyped, WriteFields

(* find_free_cluster: the first cluster the FAT has free. *)
LEMMA TakeIs ==
  ASSUME FatFsAssumption, FreeClusters # {}
  PROVE  /\ First(FreeClusters) \in Clusters /\ fat[First(FreeClusters)] = Free
         /\ First(FreeClusters) # Free
         /\ First(FreeClusters) # Root => First(FreeClusters) \in DataClusters
<1>1. FreeClusters \subseteq Root .. MaxCluster /\ FreeClusters \in SUBSET Nat
  BY DEF FreeClusters, Root
<1>2. First(FreeClusters) \in FreeClusters
  BY <1>1, FirstIsLeast
<1> QED BY <1>1, <1>2, ConstantFacts DEF FreeClusters, Root, Free, DataClusters

LEMMA RoomIs ==
  ASSUME FatFsAssumption, NEW d, NEW among \in SUBSET SlotIds, Reusable(d, among) # {}
  PROVE  First(Reusable(d, among)) \in SlotIds /\ slots[d][First(Reusable(d, among))].st \in {"free", "deleted"}
<1>1. Reusable(d, among) \in SUBSET Nat /\ Reusable(d, among) \subseteq SlotIds
  BY WidthIs DEF Reusable
<1>2. First(Reusable(d, among)) \in Reusable(d, among)
  BY <1>1, FirstIsLeast
<1> QED BY <1>1, <1>2 DEF Reusable

(* The handle of a write that has gone on for a sector. *)
LEMMA AdvanceIs ==
  ASSUME FatFsAssumption, Types, wr # NoFile, wr.left > 0, NEW c \in Clusters
  PROVE  /\ Advance(c) \in WriterType
         /\ Advance(c).fil.pos = wr.fil.pos + 1 /\ Advance(c).left = wr.left - 1
         /\ Advance(c).fil.pos + Advance(c).left <= MaxWrite
         /\ Advance(c).fil.dir = wr.fil.dir /\ Advance(c).fil.idx = wr.fil.idx
         /\ Advance(c).fil.sclust = wr.fil.sclust /\ Advance(c).fil.clust = c
         /\ Advance(c).path = wr.path
         /\ Advance(c).fil.size = IF wr.fil.pos + 1 > wr.fil.size THEN wr.fil.pos + 1 ELSE wr.fil.size
<1>1. PICK q \in WriterType : q = wr
  BY DEF Types
<1>2. PICK h \in HandleType : h = q.fil
  BY DEF WriterType
<1>3. q.left \in 0 .. MaxWrite /\ h.pos \in Sizes /\ h.size \in Sizes /\ h.pos + q.left <= MaxWrite /\ q.left > 0
  BY <1>1, <1>2 DEF Types, WriterType, HandleType
<1>4. PICK f : f = [h EXCEPT !.clust = c, !.pos = @ + 1,
                             !.size = IF h.pos + 1 > @ THEN h.pos + 1 ELSE @]
  OBVIOUS
<1>5. /\ f.pos = h.pos + 1 /\ f.clust = c /\ f.dir = h.dir /\ f.idx = h.idx /\ f.sclust = h.sclust
      /\ f.size = IF h.pos + 1 > h.size THEN h.pos + 1 ELSE h.size
  BY <1>4 DEF HandleType
<1>6. h.pos + 1 \in Sizes /\ f.size \in Sizes
  BY <1>3, <1>5, ConstantFacts
<1>7. f \in HandleType
  BY <1>4, <1>5, <1>6 DEF HandleType
<1>8. q.left - 1 \in 0 .. MaxWrite /\ q.path \in Paths
  BY <1>3, ConstantFacts DEF WriterType
<1>9. PICK a : a = [q EXCEPT !.left = @ - 1, !.fil = f]
  OBVIOUS
<1>10. a.left = q.left - 1 /\ a.fil = f /\ a.path = q.path
  BY <1>9 DEF WriterType
<1>11. a \in WriterType
  BY <1>7, <1>8, <1>9, <1>10 DEF WriterType
<1>12. Advance(c) = a
  BY <1>1, <1>2, <1>4, <1>9 DEF Advance, WriterType
<1>13. a.fil.pos + a.left <= MaxWrite
  <2>1. h.pos \in Int /\ q.left \in Int /\ h.pos + 1 + (q.left - 1) = h.pos + q.left
    BY <1>3, ConstantFacts
  <2> QED BY <1>3, <1>5, <1>10, <2>1
<1> QED BY <1>1, <1>2, <1>5, <1>10, <1>11, <1>12, <1>13
-----------------------------------------------------------------------------
(* Who refers to a cluster: the entries that start a file at it (its       *)
(* homes) and the clusters before it in a chain. An entry counts from the  *)
(* moment its write is to come, and as long as a handle may put it back;   *)
(* a link counts from the moment its write is to come.                     *)
Shows(p, c) == SlotAt(p).st = "used" /\ SlotAt(p).first = c
HeldBy(fil, p, c) == p = <<fil.dir, fil.idx>> /\ fil.sclust = c
Held(p, c) ==
  \/ wr # NoFile /\ HeldBy(wr.fil, p, c)
  \/ \E s \in Streams : rd[s] # NoFile /\ HeldBy(rd[s], p, c)
Comes(p, c) ==
  \E k \in DOMAIN todo : todo[k].op = "slot" /\ p = <<todo[k].c, todo[k].i>> /\ todo[k].slot.first = c
Homes(c) == {p \in Positions : Shows(p, c) \/ Held(p, c) \/ Comes(p, c)}
LinkComes(d, c) == \E k \in DOMAIN todo : todo[k].op = "link" /\ todo[k].c = d /\ todo[k].next = c
Before(c) == {d \in Clusters : fat[d] = c \/ LinkComes(d, c)}

(* A cluster is damaged when two refer to it, or when one does and it is   *)
(* free and stays free.                                                    *)
Several(S) == \E x, y \in S : x # y
Untaken(c) == fat[c] = Free /\ ~LinkComes(c, EOC)
Damaged(c) ==
  \/ Several(Homes(c)) \/ Several(Before(c))
  \/ Homes(c) # {} /\ Before(c) # {}
  \/ (Homes(c) # {} \/ Before(c) # {}) /\ Untaken(c)

(* The same of entries alone; one on the disk shows no free cluster even   *)
(* when that is about to be taken.                                         *)
EntryDamaged(c) ==
  \/ Several(Homes(c))
  \/ Homes(c) # {} /\ Untaken(c)
  \/ \E p \in Positions : Shows(p, c) /\ fat[c] = Free

(* An entry is the last write of its operation, nothing makes a cluster    *)
(* free, and an operation takes one cluster at most.                       *)
Marks(k) == todo[k].op = "link" /\ todo[k].next = EOC
TodoInv ==
  /\ \A k \in DOMAIN todo :
       /\ todo[k].op = "slot" => k = Len(todo) /\ todo[k].slot.st = "used"
       /\ todo[k].op = "link" => todo[k].next # Free
  /\ \A j, k \in DOMAIN todo : Marks(j) /\ Marks(k) => j = k

(* A step that damages nothing.                                            *)
NoWorse(c) == (Damaged(c)' => Damaged(c)) /\ (EntryDamaged(c)' => EntryDamaged(c))
Sound == Types' /\ TodoInv' /\ \A c \in DataClusters : NoWorse(c)

(* That is so of a cluster when nothing new refers to it. *)
LEMMA NothingNew ==
  ASSUME NEW c,
         Homes(c)' \subseteq Homes(c), Before(c)' \subseteq Before(c), Untaken(c)' => Untaken(c),
         \A p \in Positions : Shows(p, c)' /\ fat'[c] = Free => EntryDamaged(c)
  PROVE  NoWorse(c)
<1>1. Damaged(c)' => Damaged(c)
  BY DEF Damaged, Several
<1>2. EntryDamaged(c)' => EntryDamaged(c)
  BY DEF EntryDamaged, Several
<1> QED BY <1>1, <1>2 DEF NoWorse

(* It is also so of one that was free and is taken for one reference. *)
LEMMA TakenForOne ==
  ASSUME NEW c, NEW home, NEW before, Untaken(c), ~Untaken(c)',
         \A p \in Positions : Shows(p, c)' => Shows(p, c),
         Homes(c)' \subseteq Homes(c) \cup {home}, Before(c)' \subseteq Before(c) \cup {before},
         Homes(c)' \subseteq Homes(c) \/ Before(c)' \subseteq Before(c)
  PROVE  NoWorse(c)
<1>1. ASSUME ~Damaged(c) PROVE ~Damaged(c)'
  <2>1. Homes(c) = {} /\ Before(c) = {}
    BY <1>1 DEF Damaged
  <2>2. ~Several(Homes(c)') /\ ~Several(Before(c)')
    BY <2>1 DEF Several
  <2>3. ~(Homes(c)' # {} /\ Before(c)' # {})
    BY <2>1
  <2> QED BY <2>2, <2>3 DEF Damaged, Several
<1>2. ASSUME ~EntryDamaged(c) PROVE ~EntryDamaged(c)'
  <2>1. Homes(c) = {}
    BY <1>2 DEF EntryDamaged
  <2>2. ~Several(Homes(c)')
    BY <2>1 DEF Several
  <2>3. \A p \in Positions : ~Shows(p, c)'
    BY <2>1 DEF Homes
  <2> QED BY <2>2, <2>3 DEF EntryDamaged, Several
<1> QED BY <1>1, <1>2 DEF NoWorse

LEMMA NothingToDo ==
  ASSUME todo = <<>>
  PROVE  /\ DOMAIN todo = {} /\ TodoInv
         /\ \A p, c : ~Comes(p, c) /\ ~LinkComes(p, c)
<1>1. DOMAIN todo = {}
  OBVIOUS
<1> QED BY <1>1 DEF TodoInv, Comes, LinkComes

(* What a write other than a link does to entries in use. *)
LEMMA ShowsAfter ==
  ASSUME FatFsAssumption, Types, NEW w \in SectorWrite, w.op # "link", Write(w)
  PROVE  /\ fat' = fat
         /\ \A p \in Positions :
              \/ SlotAt(p)' = SlotAt(p)
              \/ SlotAt(p)'.st # "used"
              \/ w.op = "slot" /\ p = <<w.c, w.i>> /\ SlotAt(p)' = w.slot
<1>1. fat' = fat /\ slots' = SlotsAfter(w)
  BY DEF Write, FatAfter
<1>2. slots \in [Clusters -> [SlotIds -> SlotType]]
  BY DEF Types
<1> SUFFICES ASSUME NEW p \in Positions
             PROVE  \/ SlotAt(p)' = SlotAt(p)
                    \/ SlotAt(p)'.st # "used"
                    \/ w.op = "slot" /\ p = <<w.c, w.i>> /\ SlotAt(p)' = w.slot
  BY <1>1
<1>3. p[1] \in Clusters /\ p[2] \in SlotIds /\ p = <<p[1], p[2]>>
  BY DEF Positions
<1>4. ASSUME NEW c \in Clusters, NEW s, NEW slot, slots' = Fill(c, s, slot)
      PROVE  SlotAt(p)' = SlotAt(p) \/ SlotAt(p)' = slot
  <2>1. slots'[p[1]] = IF p[1] = c THEN [i \in SlotIds |-> IF SectorOf(i) = s THEN slot ELSE slots[c][i]]
                       ELSE slots[p[1]]
    BY <1>2, <1>3, <1>4 DEF Fill
  <2> QED BY <1>3, <2>1 DEF SlotAt
<1>5. FreeSlot.st = "free" /\ \A as \in Data : as.st # "used"
  BY DEF FreeSlot, JunkSlot, Data, Slot
<1>6. CASE w.op = "slot" /\ w.c \in Clusters /\ w.i \in SlotIds
  <2>1. slots' = [slots EXCEPT ![w.c][w.i] = w.slot]
    BY <1>1, <1>6 DEF SlotsAfter
  <2>2. CASE p = <<w.c, w.i>>
    BY <1>2, <1>3, <1>6, <2>1, <2>2 DEF SlotAt
  <2>3. CASE p # <<w.c, w.i>>
    <3>1. p[1] # w.c \/ p[2] # w.i
      BY <1>3, <2>3
    <3> QED BY <1>2, <1>3, <1>6, <2>1, <3>1 DEF SlotAt
  <2> QED BY <2>2, <2>3
<1>7. CASE w.op = "data" /\ w.c \in Clusters /\ w.as \in Data
  <2>1. slots' = Fill(w.c, w.s, w.as)
    BY <1>1, <1>7 DEF SlotsAfter
  <2> QED BY <1>4, <1>5, <1>7, <2>1
<1>8. CASE w.op = "zero" /\ w.c \in Clusters
  <2>1. slots' = Fill(w.c, 0, FreeSlot)
    BY <1>1, <1>8 DEF SlotsAfter
  <2> QED BY <1>4, <1>5, <1>8, <2>1
<1> QED BY <1>6, <1>7, <1>8, SectorWriteCases

(* A step that changes handles only, and holds no entry that was not in    *)
(* use or held already.                                                    *)
LEMMA HandlesMove ==
  ASSUME FatFsAssumption, Types', TodoInv, UNCHANGED <<fat, slots, todo>>,
         \A p \in Positions : \A c : Held(p, c)' => Held(p, c) \/ Shows(p, c)
  PROVE  Sound
<1>1. TodoInv'
  BY DEF TodoInv, Marks
<1>2. ASSUME NEW c \in DataClusters PROVE NoWorse(c)
  <2>1. \A p : (Shows(p, c)' <=> Shows(p, c)) /\ (Comes(p, c)' <=> Comes(p, c))
    BY DEF Shows, SlotAt, Comes
  <2>2. \A d, e : LinkComes(d, e)' <=> LinkComes(d, e)
    BY DEF LinkComes
  <2>3. Homes(c)' \subseteq Homes(c)
    BY <2>1 DEF Homes
  <2>4. Before(c)' \subseteq Before(c)
    BY <2>2 DEF Before
  <2>5. Untaken(c)' => Untaken(c)
    BY <2>2 DEF Untaken
  <2>6. \A p \in Positions : Shows(p, c)' /\ fat'[c] = Free => EntryDamaged(c)
    BY <2>1 DEF EntryDamaged
  <2> QED BY <2>3, <2>4, <2>5, <2>6, NothingNew
<1> QED BY <1>1, <1>2 DEF Sound

(* A single write between operations, or by an operation that has nothing  *)
(* else to write: an entry it puts in use is held already.                 *)
LEMMA OneWrite ==
  ASSUME FatFsAssumption, Types, Types', todo = <<>>, todo' = <<>>,
         NEW w \in SectorWrite, w.op # "link", Write(w),
         w.op = "slot" /\ w.slot.st = "used" => Held(<<w.c, w.i>>, w.slot.first),
         \A p \in Positions : \A c : Held(p, c)' => Held(p, c)
  PROVE  Sound
<1>1. TodoInv'
  BY DEF TodoInv
<1>2. /\ \A p, c : ~Comes(p, c) /\ ~LinkComes(p, c)
      /\ \A p, c : ~Comes(p, c)' /\ ~LinkComes(p, c)'
  BY DEF Comes, LinkComes
<1>3. ASSUME NEW c \in DataClusters PROVE NoWorse(c)
  <2>1. fat' = fat
    BY ShowsAfter
  <2>2. \A p \in Positions : Shows(p, c)' => p \in Homes(c)
    BY ShowsAfter DEF Shows, Homes
  <2>3. Homes(c)' \subseteq Homes(c)
    BY <1>2, <2>2 DEF Homes
  <2>4. Before(c)' \subseteq Before(c)
    BY <1>2, <2>1 DEF Before
  <2>5. Untaken(c)' => Untaken(c)
    BY <1>2, <2>1 DEF Untaken
  <2>6. \A p \in Positions : Shows(p, c)' /\ fat'[c] = Free => EntryDamaged(c)
    BY <1>2, <2>1, <2>2 DEF EntryDamaged, Untaken
  <2> QED BY <2>3, <2>4, <2>5, <2>6, NothingNew
<1> QED BY <1>1, <1>3 DEF Sound

(* An operation that takes cluster x, to write later: for an entry or for  *)
(* the end of a chain.                                                     *)
LEMMA OneTaken ==
  ASSUME FatFsAssumption, Types', todo = <<>>, TodoInv', UNCHANGED <<fat, slots>>,
         NEW x \in Clusters, fat[x] = Free, LinkComes(x, EOC)',
         \E home : \A p \in Positions, c \in DataClusters :
           Held(p, c)' \/ Comes(p, c)' => Held(p, c) \/ (c = x /\ p = home),
         \E before : \A d \in Clusters, c \in DataClusters : LinkComes(d, c)' => c = x /\ d = before,
         \/ \A p \in Positions, c \in DataClusters : Held(p, c)' \/ Comes(p, c)' => Held(p, c)
         \/ \A d \in Clusters, c \in DataClusters : ~LinkComes(d, c)'
  PROVE  Sound
<1>1. \A p, c : ~Comes(p, c) /\ ~LinkComes(p, c)
  BY NothingToDo
<1> PICK home : \A p \in Positions, c \in DataClusters :
                  Held(p, c)' \/ Comes(p, c)' => Held(p, c) \/ (c = x /\ p = home)
  OBVIOUS
<1> PICK before : \A d \in Clusters, c \in DataClusters : LinkComes(d, c)' => c = x /\ d = before
  OBVIOUS
<1>2. ASSUME NEW c \in DataClusters PROVE NoWorse(c)
  <2>1. \A p : Shows(p, c)' <=> Shows(p, c)
    BY DEF Shows, SlotAt
  <2>2. CASE c = x
    <3>1. Untaken(c) /\ ~Untaken(c)'
      BY <1>1, <2>2 DEF Untaken
    <3>2. Homes(c)' \subseteq Homes(c) \cup {home}
      BY <2>1 DEF Homes
    <3>3. Before(c)' \subseteq Before(c) \cup {before}
      BY DEF Before
    <3>4. Homes(c)' \subseteq Homes(c) \/ Before(c)' \subseteq Before(c)
      BY <2>1 DEF Homes, Before
    <3> QED BY <2>1, <3>1, <3>2, <3>3, <3>4, TakenForOne
  <2>3. CASE c # x
    <3>1. Homes(c)' \subseteq Homes(c)
      BY <2>1, <2>3 DEF Homes
    <3>2. Before(c)' \subseteq Before(c)
      BY <2>3 DEF Before
    <3>3. Untaken(c)' => Untaken(c)
      BY <1>1 DEF Untaken
    <3>4. \A p \in Positions : Shows(p, c)' /\ fat'[c] = Free => EntryDamaged(c)
      BY <2>1 DEF EntryDamaged
    <3> QED BY <3>1, <3>2, <3>3, <3>4, NothingNew
  <2> QED BY <2>2, <2>3
<1> QED BY <1>2 DEF Sound
-----------------------------------------------------------------------------
(* Operations that leave writes to be issued.                              *)
LEMMA OneToDo ==
  ASSUME NEW S, NEW a \in S
  PROVE  LET q == <<a>> IN q \in Seq(S) /\ DOMAIN q = {1} /\ Len(q) = 1 /\ q[1] = a
OBVIOUS
LEMMA TwoToDo ==
  ASSUME NEW S, NEW a \in S, NEW b \in S
  PROVE  LET q == <<a, b>> IN q \in Seq(S) /\ DOMAIN q = {1, 2} /\ Len(q) = 2 /\ q[1] = a /\ q[2] = b
OBVIOUS
LEMMA ThreeToDo ==
  ASSUME NEW S, NEW a \in S, NEW b \in S, NEW c \in S
  PROVE  LET q == <<a, b, c>>
         IN q \in Seq(S) /\ DOMAIN q = {1, 2, 3} /\ Len(q) = 3 /\ q[1] = a /\ q[2] = b /\ q[3] = c
OBVIOUS

(* f_open takes a cluster and then writes an entry, or nothing more. *)
LEMMA TakeForEntry ==
  ASSUME FatFsAssumption, Types, NEW x \in Clusters, fat[x] = Free,
         NEW d \in Clusters, NEW i \in SlotIds, NEW name \in Names, todo = <<>>,
         UNCHANGED <<fat, slots, rd, crashes, failures, saved>>,
         \/ /\ todo' = <<Link(x, EOC), PutSlot(d, i, Slot("used", name, x, 0))>>
            /\ \/ wr' \in WriterType /\ wr'.fil = Handle(d, i, x, 0) /\ wr'.fil.pos + wr'.left <= MaxWrite
               \/ wr' = wr
         \/ todo' = <<Link(x, EOC)>> /\ wr' = wr
  PROVE  Sound
<1> DEFINE link == Link(x, EOC)
           put == PutSlot(d, i, Slot("used", name, x, 0))
           fil == Handle(d, i, x, 0)
<1>0. Slot("used", name, x, 0) \in SlotType /\ Slot("used", name, x, 0).first = x /\ Slot("used", name, x, 0).st = "used"
  BY ConstantFacts, SlotIsTyped DEF Slot
<1>1. link \in SectorWrite /\ put \in SectorWrite
  BY <1>0, WritesAreTyped
<1>2. /\ link.op = "link" /\ link.c = x /\ link.next = EOC
      /\ put.op = "slot" /\ put.c = d /\ put.i = i /\ put.slot.first = x /\ put.slot.st = "used"
  BY <1>0, WriteFields
<1>3. fil.dir = d /\ fil.idx = i /\ fil.sclust = x
  BY HandleIsTyped, ConstantFacts
<1>4. EOC # Free /\ EOC \notin DataClusters
  BY ConstantFacts DEF Free
<1> HIDE DEF link, put, fil
<1>5. todo' = <<link, put>> \/ todo' = <<link>>
  BY DEF link, put
<1>6. /\ todo' \in Seq(SectorWrite) /\ Len(todo') \in {1, 2} /\ DOMAIN todo' = 1 .. Len(todo')
      /\ todo'[1] = link /\ (Len(todo') = 2 => todo'[2] = put)
  <2>1. CASE todo' = <<link, put>>
    BY <1>1, <2>1, TwoToDo
  <2>2. CASE todo' = <<link>>
    BY <1>1, <2>2, OneToDo
  <2> QED BY <1>5, <2>1, <2>2
<1>7. wr' = wr \/ (wr' \in WriterType /\ wr'.fil = fil /\ wr'.fil.pos + wr'.left <= MaxWrite)
  BY DEF fil
<1>8. Types'
  BY <1>6, <1>7 DEF Types
<1>9. \A k \in DOMAIN todo' : (k = 1 /\ todo'[k] = link) \/ (k = 2 /\ todo'[k] = put /\ k = Len(todo'))
  BY <1>6
<1>10. TodoInv'
  BY <1>2, <1>4, <1>9 DEF TodoInv, Marks
<1>11. LinkComes(x, EOC)'
  BY <1>2, <1>6 DEF LinkComes
<1>12. \E home : \A p \in Positions, c \in DataClusters :
         Held(p, c)' \/ Comes(p, c)' => Held(p, c) \/ (c = x /\ p = home)
  <2>1. ASSUME NEW p, NEW c, Comes(p, c)' PROVE c = x /\ p = <<d, i>>
    BY <1>2, <1>9, <2>1 DEF Comes
  <2>2. ASSUME NEW p, NEW c, Held(p, c)' PROVE Held(p, c) \/ (c = x /\ p = <<d, i>>)
    BY <1>3, <1>7, <2>2 DEF Held, HeldBy
  <2>3. PICK home : home = <<d, i>>
    OBVIOUS
  <2>4. \A p, c : Held(p, c)' \/ Comes(p, c)' => Held(p, c) \/ (c = x /\ p = home)
    BY <2>1, <2>2, <2>3
  <2> QED BY <2>4
<1>13. \A b \in Clusters, c \in DataClusters : ~LinkComes(b, c)'
  BY <1>2, <1>4, <1>9 DEF LinkComes
<1>14. UNCHANGED <<fat, slots>>
  OBVIOUS
<1> QED BY <1>8, <1>10, <1>11, <1>12, <1>13, <1>14, OneTaken

(* The same of f_mkdir, which zeroes the cluster before it takes it. *)
LEMMA TakeForDirectory ==
  ASSUME FatFsAssumption, Types, NEW x \in Clusters, fat[x] = Free,
         NEW i \in SlotIds, NEW name \in Names, todo = <<>>,
         UNCHANGED <<fat, slots, wr, rd, crashes, failures, saved>>,
         \/ todo' = <<ZeroSector(x), Link(x, EOC), PutSlot(Root, i, Slot("used", name, x, 0))>>
         \/ todo' = <<ZeroSector(x), Link(x, EOC)>>
  PROVE  Sound
<1> DEFINE zero == ZeroSector(x)
           link == Link(x, EOC)
           put == PutSlot(Root, i, Slot("used", name, x, 0))
<1>0. /\ Slot("used", name, x, 0) \in SlotType
      /\ Slot("used", name, x, 0).first = x /\ Slot("used", name, x, 0).st = "used"
  BY ConstantFacts, SlotIsTyped DEF Slot
<1>1. zero \in SectorWrite /\ link \in SectorWrite /\ put \in SectorWrite
  BY <1>0, WritesAreTyped, ConstantFacts
<1>2. /\ zero.op = "zero" /\ link.op = "link" /\ link.c = x /\ link.next = EOC
      /\ put.op = "slot" /\ put.c = Root /\ put.i = i /\ put.slot.first = x /\ put.slot.st = "used"
  BY <1>0, WriteFields
<1>3. EOC # Free /\ EOC \notin DataClusters
  BY ConstantFacts DEF Free
<1>4. todo' = <<zero, link, put>> \/ todo' = <<zero, link>>
  OBVIOUS
<1> HIDE DEF zero, link, put
<1>5. /\ todo' \in Seq(SectorWrite) /\ Len(todo') \in {2, 3} /\ DOMAIN todo' = 1 .. Len(todo')
      /\ todo'[1] = zero /\ todo'[2] = link /\ (Len(todo') = 3 => todo'[3] = put)
  <2>1. CASE todo' = <<zero, link, put>>
    BY <1>1, <2>1, ThreeToDo
  <2>2. CASE todo' = <<zero, link>>
    BY <1>1, <2>2, TwoToDo
  <2> QED BY <1>4, <2>1, <2>2
<1>6. Types'
  BY <1>5 DEF Types
<1>7. \A k \in DOMAIN todo' :
        \/ k = 1 /\ todo'[k] = zero
        \/ k = 2 /\ todo'[k] = link
        \/ k = 3 /\ todo'[k] = put /\ k = Len(todo')
  BY <1>5
<1>8. TodoInv'
  BY <1>2, <1>3, <1>7 DEF TodoInv, Marks
<1>9. LinkComes(x, EOC)'
  BY <1>2, <1>5 DEF LinkComes
<1>10. \E home : \A p \in Positions, c \in DataClusters :
         Held(p, c)' \/ Comes(p, c)' => Held(p, c) \/ (c = x /\ p = home)
  <2>1. ASSUME NEW p, NEW c, Comes(p, c)' PROVE c = x /\ p = <<Root, i>>
    BY <1>2, <1>7, <2>1 DEF Comes
  <2>2. \A p, c : Held(p, c)' => Held(p, c)
    BY DEF Held, HeldBy
  <2>3. PICK home : home = <<Root, i>>
    OBVIOUS
  <2>4. \A p, c : Held(p, c)' \/ Comes(p, c)' => Held(p, c) \/ (c = x /\ p = home)
    BY <2>1, <2>2, <2>3
  <2> QED BY <2>4
<1>11. \A b \in Clusters, c \in DataClusters : ~LinkComes(b, c)'
  BY <1>2, <1>3, <1>7 DEF LinkComes
<1>12. UNCHANGED <<fat, slots>>
  OBVIOUS
<1> QED BY <1>6, <1>8, <1>9, <1>10, <1>11, <1>12, OneTaken

(* f_write links the cluster it takes behind another one, and marks it. *)
LEMMA TakeForChain ==
  ASSUME FatFsAssumption, Types, NEW x \in Clusters, fat[x] = Free, x # Free, NEW b \in Clusters, todo = <<>>,
         UNCHANGED <<fat, slots, rd, crashes, saved>>, failures' \in 0 .. MaxFailures,
         wr # NoFile, wr' \in WriterType, wr'.fil.pos + wr'.left <= MaxWrite,
         wr'.fil.dir = wr.fil.dir, wr'.fil.idx = wr.fil.idx, wr'.fil.sclust = wr.fil.sclust,
         \/ \E as \in Data : todo' = <<Link(b, x), Link(x, EOC), PutData(x, 0, as)>>
         \/ todo' = <<Link(b, x), Link(x, EOC)>>
  PROVE  Sound
<1>1. PICK as \in Data :
        \/ todo' = <<Link(b, x), Link(x, EOC), PutData(x, 0, as)>>
        \/ todo' = <<Link(b, x), Link(x, EOC)>>
  BY DEF Data
<1> DEFINE link == Link(b, x)
           mark == Link(x, EOC)
           data == PutData(x, 0, as)
<1>2. link \in SectorWrite /\ mark \in SectorWrite /\ data \in SectorWrite
  BY WritesAreTyped, ConstantFacts
<1>3. /\ link.op = "link" /\ link.c = b /\ link.next = x
      /\ mark.op = "link" /\ mark.c = x /\ mark.next = EOC /\ data.op = "data"
  BY DEF Link, PutData
<1>4. EOC # Free /\ EOC \notin DataClusters /\ x # EOC
  BY ConstantFacts DEF Free
<1>5. todo' = <<link, mark, data>> \/ todo' = <<link, mark>>
  BY <1>1
<1> HIDE DEF link, mark, data
<1>6. /\ todo' \in Seq(SectorWrite) /\ Len(todo') \in {2, 3} /\ DOMAIN todo' = 1 .. Len(todo')
      /\ todo'[1] = link /\ todo'[2] = mark /\ (Len(todo') = 3 => todo'[3] = data)
  <2>1. CASE todo' = <<link, mark, data>>
    BY <1>2, <2>1, ThreeToDo
  <2>2. CASE todo' = <<link, mark>>
    BY <1>2, <2>2, TwoToDo
  <2> QED BY <1>5, <2>1, <2>2
<1>7. Types'
  BY <1>6 DEF Types
<1>8. \A k \in DOMAIN todo' :
        \/ k = 1 /\ todo'[k] = link
        \/ k = 2 /\ todo'[k] = mark
        \/ k = 3 /\ todo'[k] = data
  BY <1>6
<1>9. x # Free
  OBVIOUS
<1>10. TodoInv'
  BY <1>3, <1>4, <1>8, <1>9 DEF TodoInv, Marks
<1>11. LinkComes(x, EOC)'
  BY <1>3, <1>6 DEF LinkComes
<1>12. \A p \in Positions, c \in DataClusters : Held(p, c)' \/ Comes(p, c)' => Held(p, c)
  <2>1. \A p, c : ~Comes(p, c)'
    BY <1>3, <1>8 DEF Comes
  <2> QED BY <2>1 DEF Held, HeldBy
<1>13. \E before : \A d \in Clusters, c \in DataClusters : LinkComes(d, c)' => c = x /\ d = before
  <2>1. \A d \in Clusters, c \in DataClusters : LinkComes(d, c)' => c = x /\ d = b
    BY <1>3, <1>4, <1>8 DEF LinkComes
  <2> QED BY <2>1
<1>14. UNCHANGED <<fat, slots>>
  OBVIOUS
<1> QED BY <1>7, <1>10, <1>11, <1>12, <1>13, <1>14, OneTaken
-----------------------------------------------------------------------------
(* Every operation but a crash and a lost write keeps the types and        *)
(* damages nothing.                                                        *)
LEMMA OpenToOverwriteStep ==
  ASSUME FatFsAssumption, Types, TodoInv, NEW path \in Paths, OpenToOverwrite(path)
  PROVE  Sound
<1> DEFINE p == Place(Parent(path), path.name)
           fil == OpenExisting(path)
<1>1. PICK n \in 1 .. MaxWrite : wr' = [path |-> path, left |-> n, fil |-> fil]
  BY DEF OpenToOverwrite
<1>2. Exists(path) /\ UNCHANGED <<fat, slots, rd, todo, crashes, failures, saved>>
  BY DEF OpenToOverwrite
<1>3. /\ p \in Positions /\ SlotAt(p).st = "used" /\ fil \in HandleType /\ fil.pos = 0
      /\ fil.sclust = SlotAt(p).first /\ p = <<fil.dir, fil.idx>>
  BY <1>2, OpenExistingIs
<1> HIDE DEF fil, p
<1>4. /\ wr' \in WriterType /\ wr'.fil = fil /\ wr'.fil.pos + wr'.left <= MaxWrite
  BY <1>1, <1>3, ConstantFacts DEF WriterType
<1>5. Types'
  BY <1>2, <1>4 DEF Types
<1>6. ASSUME NEW z \in Positions, NEW c, Held(z, c)' PROVE Held(z, c) \/ Shows(z, c)
  <2>1. CASE HeldBy(wr'.fil, z, c)
    BY <1>3, <1>4, <2>1 DEF HeldBy, Shows
  <2>2. CASE \E s \in Streams : rd'[s] # NoFile /\ HeldBy(rd'[s], z, c)
    BY <1>2, <2>2 DEF Held
  <2> QED BY <1>6, <2>1, <2>2 DEF Held, HeldBy
<1> QED BY <1>2, <1>5, <1>6, HandlesMove

LEMMA StreamOpenStep ==
  ASSUME FatFsAssumption, Types, TodoInv, NEW s \in Streams, NEW path \in Paths, StreamOpen(s, path)
  PROVE  Sound
<1> DEFINE p == Place(Parent(path), path.name)
           fil == OpenExisting(path)
<1>1. Exists(path) /\ rd' = [rd EXCEPT ![s] = fil] /\ UNCHANGED <<fat, slots, wr, todo, crashes, failures, saved>>
  BY DEF StreamOpen
<1>2. /\ p \in Positions /\ SlotAt(p).st = "used" /\ fil \in HandleType
      /\ fil.sclust = SlotAt(p).first /\ p = <<fil.dir, fil.idx>>
  BY <1>1, OpenExistingIs
<1> HIDE DEF fil, p
<1>3. Types'
  BY <1>1, <1>2 DEF Types
<1>4. rd'[s] = fil /\ \A t \in Streams \ {s} : rd'[t] = rd[t]
  BY <1>1 DEF Types
<1>5. ASSUME NEW z \in Positions, NEW c, Held(z, c)' PROVE Held(z, c) \/ Shows(z, c)
  <2>1. CASE wr' # NoFile /\ HeldBy(wr'.fil, z, c)
    BY <1>1, <2>1 DEF Held, HeldBy
  <2>2. CASE HeldBy(rd'[s], z, c)
    BY <1>2, <1>4, <2>2 DEF HeldBy, Shows
  <2>3. CASE \E t \in Streams \ {s} : rd'[t] # NoFile /\ HeldBy(rd'[t], z, c)
    BY <1>4, <2>3 DEF Held
  <2> QED BY <1>5, <2>1, <2>2, <2>3 DEF Held, HeldBy
<1> QED BY <1>1, <1>3, <1>5, HandlesMove

LEMMA OpenToCreateStep ==
  ASSUME FatFsAssumption, Types, TodoInv, NEW path \in Paths, OpenToCreate(path)
  PROVE  Sound
<1> DEFINE d == Parent(path)
           x == First(FreeClusters)
           room == Reusable(d, FirstSector)
<1>1. /\ todo = <<>> /\ FreeClusters # {} /\ UNCHANGED <<fat, slots, rd, crashes, failures, saved>>
      /\ \/ /\ room # {}
            /\ todo' = <<Link(x, EOC), PutSlot(d, First(room), Slot("used", path.name, x, 0))>>
            /\ \E n \in 1 .. MaxWrite : wr' = [path |-> path, left |-> n, fil |-> Handle(d, First(room), x, 0)]
         \/ todo' = <<Link(x, EOC)>> /\ wr' = wr
  BY DEF OpenToCreate, Idle
<1>2. x \in Clusters /\ fat[x] = Free /\ x # Free
  BY <1>1, TakeIs
<1>3. d \in Clusters /\ path.name \in Names
  BY ParentIs, ConstantFacts DEF Paths
<1> HIDE DEF d, x
<1>4. CASE /\ room # {}
           /\ todo' = <<Link(x, EOC), PutSlot(d, First(room), Slot("used", path.name, x, 0))>>
           /\ \E n \in 1 .. MaxWrite : wr' = [path |-> path, left |-> n, fil |-> Handle(d, First(room), x, 0)]
  <2>1. First(room) \in SlotIds
    BY <1>4, RoomIs, WidthIs
  <2>2. PICK n \in 1 .. MaxWrite : wr' = [path |-> path, left |-> n, fil |-> Handle(d, First(room), x, 0)]
    BY <1>4
  <2> DEFINE fil == Handle(d, First(room), x, 0)
  <2>3. fil \in HandleType /\ fil.pos = 0
    BY <1>2, <1>3, <2>1, HandleIsTyped, ConstantFacts
  <2> HIDE DEF fil
  <2>4. wr' = [path |-> path, left |-> n, fil |-> fil]
    BY <2>2 DEF fil
  <2>5. wr' \in WriterType /\ wr'.fil = fil /\ wr'.fil.pos + wr'.left <= MaxWrite
    BY <2>3, <2>4, ConstantFacts DEF WriterType
  <2>6. wr'.fil = Handle(d, First(room), x, 0)
    BY <2>5 DEF fil
  <2> HIDE DEF room
  <2> QED BY <1>1, <1>2, <1>3, <1>4, <2>1, <2>5, <2>6, TakeForEntry
<1>5. CASE todo' = <<Link(x, EOC)>> /\ wr' = wr
  <2>1. 0 \in SlotIds
    BY WidthIs
  <2> QED BY <1>1, <1>2, <1>3, <1>5, <2>1, TakeForEntry
<1> QED BY <1>1, <1>4, <1>5

LEMMA MkdirStep ==
  ASSUME FatFsAssumption, Types, TodoInv, NEW name \in DirNames, Mkdir(name)
  PROVE  Sound
<1> DEFINE x == First(FreeClusters)
           room == Reusable(Root, SlotIds)
           put == PutSlot(Root, First(room), Slot("used", name, x, 0))
<1>1. /\ todo = <<>> /\ FreeClusters # {} /\ UNCHANGED <<fat, slots, wr, rd, crashes, failures, saved>>
      /\ \/ room # {} /\ todo' = <<ZeroSector(x), Link(x, EOC), put>>
         \/ todo' = <<ZeroSector(x), Link(x, EOC)>>
  BY DEF Mkdir, Idle
<1>2. x \in Clusters /\ fat[x] = Free /\ x # Free
  BY <1>1, TakeIs
<1>3. name \in Names /\ 0 \in SlotIds
  BY WidthIs DEF Names
<1> HIDE DEF x
<1>4. CASE room # {} /\ todo' = <<ZeroSector(x), Link(x, EOC), put>>
  <2>1. First(room) \in SlotIds
    BY <1>4, RoomIs, WidthIs
  <2>2. todo' = <<ZeroSector(x), Link(x, EOC), put>>
    BY <1>4
  <2> HIDE DEF room
  <2> QED BY <1>1, <1>2, <1>3, <2>1, <2>2, TakeForDirectory
<1>5. CASE todo' = <<ZeroSector(x), Link(x, EOC)>>
  BY <1>1, <1>2, <1>3, <1>5, TakeForDirectory
<1> QED BY <1>1, <1>4, <1>5

LEMMA RmdirStep ==
  ASSUME FatFsAssumption, Types, TodoInv, NEW name \in DirNames, Rmdir(name)
  PROVE  Sound
<1> DEFINE p == Place(Root, name)
           w == DeleteEntry(p)
<1>1. /\ todo = <<>> /\ Found(Root, name) /\ Write(w) /\ UNCHANGED <<wr, rd, todo, crashes, failures>>
      /\ saved' = [q \in Paths |-> IF q.dir = name THEN NotSaved ELSE saved[q]]
  BY DEF Rmdir, Idle
<1>2. p \in Positions
  BY <1>1, PlaceIs, ConstantFacts DEF Found, Types
<1>3. w \in SectorWrite /\ w.op = "slot" /\ w.slot.st = "deleted"
  BY <1>2, DeleteEntryIs
<1>4. NotSaved \in [first : Clusters, size : Sizes, len : Sizes]
  BY ConstantFacts DEF NotSaved
<1> HIDE DEF w
<1>5. saved' \in [Paths -> [first : Clusters, size : Sizes, len : Sizes]]
  BY <1>1, <1>4 DEF Types
<1>6. Types'
  BY <1>1, <1>3, <1>5, WriteKeepsTypes DEF Types
<1>7. \A z \in Positions : \A c : Held(z, c)' => Held(z, c)
  BY <1>1 DEF Held, HeldBy
<1> QED BY <1>1, <1>3, <1>6, <1>7, OneWrite

LEMMA UnlinkStep ==
  ASSUME FatFsAssumption, Types, TodoInv, NEW path \in Paths, Unlink(path)
  PROVE  Sound
<1> DEFINE p == Place(Parent(path), path.name)
           w == DeleteEntry(p)
<1>1. /\ todo = <<>> /\ Exists(path) /\ Write(w) /\ UNCHANGED <<wr, rd, todo, crashes, failures>>
      /\ saved' = [saved EXCEPT ![path] = NotSaved]
  BY DEF Unlink, Idle
<1>2. p \in Positions
  BY <1>1, OpenExistingIs
<1>3. w \in SectorWrite /\ w.op = "slot" /\ w.slot.st = "deleted"
  BY <1>2, DeleteEntryIs
<1>4. NotSaved \in [first : Clusters, size : Sizes, len : Sizes]
  BY ConstantFacts DEF NotSaved
<1> HIDE DEF w
<1>5. saved' \in [Paths -> [first : Clusters, size : Sizes, len : Sizes]]
  BY <1>1, <1>4 DEF Types
<1>6. Types'
  BY <1>1, <1>3, <1>5, WriteKeepsTypes DEF Types
<1>7. \A z \in Positions : \A c : Held(z, c)' => Held(z, c)
  BY <1>1 DEF Held, HeldBy
<1> QED BY <1>1, <1>3, <1>6, <1>7, OneWrite

LEMMA StreamCloseStep ==
  ASSUME FatFsAssumption, Types, TodoInv, NEW s \in Streams, StreamClose(s)
  PROVE  Sound
<1>1. /\ todo = <<>> /\ rd[s] # NoFile /\ rd' = [rd EXCEPT ![s] = NoFile]
      /\ UNCHANGED <<wr, todo, crashes, failures, saved>>
      /\ Write(CloseEntry(rd[s])) \/ UNCHANGED <<fat, slots>>
  BY DEF StreamClose, Idle
<1>2. PICK fil \in HandleType : fil = rd[s]
  BY <1>1 DEF Types
<1>3. \A z \in Positions : \A c : Held(z, c)' => Held(z, c)
  BY <1>1 DEF Held, HeldBy, Types
<1>4. rd' \in [Streams -> HandleType \cup {NoFile}]
  BY <1>1 DEF Types
<1>5. CASE Write(CloseEntry(fil))
  <2>1. PICK w \in SectorWrite :
          w = CloseEntry(fil) /\ w.op = "slot" /\ w.c = fil.dir /\ w.i = fil.idx /\ w.slot.first = fil.sclust
    BY CloseEntryIs
  <2>2. Types'
    BY <1>1, <1>4, <1>5, <2>1, WriteKeepsTypes DEF Types
  <2>3. Held(<<w.c, w.i>>, w.slot.first)
    BY <1>1, <1>2, <2>1 DEF Held, HeldBy
  <2>4. Write(w) /\ w.op # "link" /\ todo' = <<>>
    BY <1>1, <1>5, <2>1
  <2> QED BY <1>1, <1>3, <2>2, <2>3, <2>4, OneWrite
<1>6. CASE UNCHANGED <<fat, slots>>
  <2>1. Types'
    BY <1>1, <1>4, <1>6 DEF Types
  <2> QED BY <1>1, <1>3, <1>6, <2>1, HandlesMove
<1> QED BY <1>1, <1>2, <1>5, <1>6

LEMMA CloseWriterStep ==
  ASSUME FatFsAssumption, Types, TodoInv, CloseWriter
  PROVE  Sound
<1>1. /\ todo = <<>> /\ wr # NoFile /\ wr' = NoFile /\ UNCHANGED <<rd, todo, crashes, failures>>
      /\ \/ /\ Write(CloseEntry(wr.fil))
            /\ saved' = [saved EXCEPT ![wr.path] = [first |-> wr.fil.sclust, size |-> wr.fil.size, len |-> wr.fil.pos]]
         \/ UNCHANGED <<fat, slots, saved>>
  BY DEF CloseWriter
<1>2. PICK fil \in HandleType : fil = wr.fil
  BY <1>1 DEF Types, WriterType
<1>3. \A z \in Positions : \A c : Held(z, c)' => Held(z, c)
  BY <1>1 DEF Held, HeldBy
<1>4. CASE /\ Write(CloseEntry(fil))
           /\ saved' = [saved EXCEPT ![wr.path] = [first |-> wr.fil.sclust, size |-> wr.fil.size, len |-> wr.fil.pos]]
  <2>1. PICK w \in SectorWrite :
          w = CloseEntry(fil) /\ w.op = "slot" /\ w.c = fil.dir /\ w.i = fil.idx /\ w.slot.first = fil.sclust
    BY CloseEntryIs
  <2>2. [first |-> wr.fil.sclust, size |-> wr.fil.size, len |-> wr.fil.pos] \in [first : Clusters, size : Sizes, len : Sizes]
    BY <1>2 DEF HandleType
  <2>3. saved' \in [Paths -> [first : Clusters, size : Sizes, len : Sizes]]
    BY <1>4, <2>2 DEF Types
  <2>4. Types'
    BY <1>1, <1>4, <2>1, <2>3, WriteKeepsTypes DEF Types
  <2>5. Held(<<w.c, w.i>>, w.slot.first)
    BY <1>1, <1>2, <2>1 DEF Held, HeldBy
  <2>6. Write(w) /\ w.op # "link" /\ todo' = <<>>
    BY <1>1, <1>4, <2>1
  <2> QED BY <1>1, <1>3, <2>4, <2>5, <2>6, OneWrite
<1>5. CASE UNCHANGED <<fat, slots, saved>>
  <2>1. Types'
    BY <1>1, <1>5 DEF Types
  <2> QED BY <1>1, <1>3, <1>5, <2>1, HandlesMove
<1> QED BY <1>1, <1>2, <1>4, <1>5

(* A write of a sector of the file, into its cluster or the next one. *)
LEMMA DataStep ==
  ASSUME FatFsAssumption, Types, TodoInv, todo = <<>>, wr # NoFile, wr.left > 0,
         NEW c \in Clusters, NEW s \in 0 .. SectorsPerCluster - 1, NEW as \in Data,
         Write(PutData(c, s, as)), wr' = Advance(c), UNCHANGED <<rd, todo, crashes, failures, saved>>
  PROVE  Sound
<1>1. PICK w \in SectorWrite : w = PutData(c, s, as) /\ w.op = "data"
  BY WritesAreTyped DEF PutData
<1>2. /\ wr' \in WriterType /\ wr'.fil.pos + wr'.left <= MaxWrite
      /\ wr'.fil.dir = wr.fil.dir /\ wr'.fil.idx = wr.fil.idx /\ wr'.fil.sclust = wr.fil.sclust
  BY AdvanceIs
<1>3. Types'
  BY <1>1, <1>2, WriteKeepsTypes DEF Types
<1>4. \A z \in Positions : \A b : Held(z, b)' => Held(z, b)
  BY <1>2 DEF Held, HeldBy
<1> QED BY <1>1, <1>3, <1>4, OneWrite

LEMMA WriterIs ==
  ASSUME Types, wr # NoFile
  PROVE  /\ wr.fil \in HandleType /\ wr.fil.clust \in Clusters /\ wr.fil.pos \in Sizes
         /\ wr.fil.dir \in Clusters /\ wr.fil.idx \in SlotIds /\ wr.fil.sclust \in Clusters
         /\ wr.left \in 0 .. MaxWrite /\ wr.path \in Paths /\ wr.fil.size \in Sizes
BY DEF Types, WriterType, HandleType

LEMMA WriteInClusterStep == ASSUME FatFsAssumption, Types, TodoInv, WriteInCluster PROVE Sound
<1>1. PICK as \in Data : Write(PutData(wr.fil.clust, wr.fil.pos % SectorsPerCluster, as))
  BY DEF WriteInCluster
<1>2. wr # NoFile /\ todo = <<>> /\ wr.left > 0 /\ wr' = Advance(wr.fil.clust)
      /\ UNCHANGED <<rd, todo, crashes, failures, saved>>
  BY DEF WriteInCluster
<1>3. wr.fil.clust \in Clusters /\ wr.fil.pos \in Sizes
  BY <1>2, WriterIs
<1>4. wr.fil.pos % SectorsPerCluster \in 0 .. SectorsPerCluster - 1
  <2>1. wr.fil.pos \in Nat
    BY <1>3, ConstantFacts
  <2> QED BY <2>1, ConstantFacts
<1> QED BY <1>1, <1>2, <1>3, <1>4, DataStep

LEMMA WriteNextClusterStep == ASSUME FatFsAssumption, Types, TodoInv, WriteNextCluster PROVE Sound
<1> DEFINE next == fat[wr.fil.clust]
<1>1. PICK as \in Data : Write(PutData(next, 0, as))
  BY DEF WriteNextCluster
<1>2. wr # NoFile /\ todo = <<>> /\ wr.left > 0 /\ next < EOC /\ wr' = Advance(next)
      /\ UNCHANGED <<rd, todo, crashes, failures, saved>>
  BY DEF WriteNextCluster
<1>3. next \in Clusters
  <2>1. wr.fil.clust \in Clusters
    BY <1>2, WriterIs
  <2>2. next \in Clusters \cup {EOC}
    BY <2>1 DEF Types
  <2> QED BY <1>2, <2>2, ConstantFacts
<1> HIDE DEF next
<1> QED BY <1>1, <1>2, <1>3, ConstantFacts, DataStep

LEMMA WriteNewClusterStep == ASSUME FatFsAssumption, Types, TodoInv, WriteNewCluster PROVE Sound
<1> DEFINE x == First(FreeClusters)
           b == wr.fil.clust
<1>1. /\ wr # NoFile /\ todo = <<>> /\ wr.left > 0 /\ FreeClusters # {} /\ wr' = Advance(x)
      /\ \E as \in Data : todo' = <<Link(b, x), Link(x, EOC), PutData(x, 0, as)>>
      /\ UNCHANGED <<fat, slots, rd, crashes, failures, saved>>
  BY DEF WriteNewCluster
<1>2. x \in Clusters /\ fat[x] = Free /\ x # Free /\ b \in Clusters
  BY <1>1, TakeIs, WriterIs
<1> HIDE DEF x, b
<1>3. /\ wr' \in WriterType /\ wr'.fil.pos + wr'.left <= MaxWrite
      /\ wr'.fil.dir = wr.fil.dir /\ wr'.fil.idx = wr.fil.idx /\ wr'.fil.sclust = wr.fil.sclust
  BY <1>1, <1>2, AdvanceIs
<1>4. failures' \in 0 .. MaxFailures /\ UNCHANGED <<fat, slots, rd, crashes, saved>>
  BY <1>1 DEF Types
<1> QED BY <1>1, <1>2, <1>3, <1>4, TakeForChain

(* The writer ends early: its file is closed next. *)
LEMMA GivingUpIs ==
  ASSUME FatFsAssumption, Types, wr # NoFile, NEW c \in Clusters, wr' = [wr EXCEPT !.left = 0, !.fil.clust = c]
  PROVE  /\ wr' \in WriterType /\ wr'.fil.pos + wr'.left <= MaxWrite
         /\ wr'.fil.dir = wr.fil.dir /\ wr'.fil.idx = wr.fil.idx /\ wr'.fil.sclust = wr.fil.sclust
         /\ wr'.fil.size = wr.fil.size /\ wr'.fil.pos = wr.fil.pos /\ wr'.left = 0 /\ wr'.path = wr.path
         /\ wr'.fil.clust = c
<1>1. PICK q \in WriterType : q = wr
  BY DEF Types
<1>2. PICK h \in HandleType : h = q.fil
  BY DEF WriterType
<1>3. PICK f : f = [h EXCEPT !.clust = c]
  OBVIOUS
<1>4. /\ f \in HandleType /\ f.dir = h.dir /\ f.idx = h.idx /\ f.sclust = h.sclust /\ f.size = h.size
      /\ f.pos = h.pos /\ f.clust = c /\ f.pos \in Sizes
  BY <1>3 DEF HandleType
<1>5. PICK a : a = [q EXCEPT !.left = 0, !.fil = f]
  OBVIOUS
<1>6. a.left = 0 /\ a.fil = f /\ a.path = q.path
  BY <1>5 DEF WriterType
<1>7. a \in WriterType
  BY <1>4, <1>5, <1>6, ConstantFacts DEF WriterType
<1>8. wr' = a
  BY <1>1, <1>2, <1>3, <1>5 DEF WriterType
<1>9. a.fil.pos + a.left <= MaxWrite
  BY <1>4, <1>6, ConstantFacts
<1> QED BY <1>1, <1>2, <1>4, <1>6, <1>7, <1>8, <1>9

LEMMA WriteDeniedStep == ASSUME FatFsAssumption, Types, TodoInv, WriteDenied PROVE Sound
<1>1. wr # NoFile /\ wr' = [wr EXCEPT !.left = 0] /\ UNCHANGED <<fat, slots, rd, todo, crashes, failures, saved>>
  BY DEF WriteDenied
<1>2. PICK q \in WriterType : q = wr
  BY <1>1 DEF Types
<1>3. wr' = [q EXCEPT !.left = 0]
  BY <1>1, <1>2
<1>4. wr' \in WriterType /\ wr'.fil = wr.fil /\ wr'.left = 0
  BY <1>2, <1>3, ConstantFacts DEF WriterType
<1>5. wr'.fil.pos + wr'.left <= MaxWrite
  <2>1. wr.fil.pos \in 0 .. MaxWrite /\ MaxWrite \in Nat
    BY <1>1, WriterIs, ConstantFacts
  <2> QED BY <1>4, <2>1
<1>6. Types'
  BY <1>1, <1>4, <1>5 DEF Types
<1>7. \A z \in Positions : \A c : Held(z, c)' => Held(z, c)
  BY <1>1, <1>4 DEF Held, HeldBy
<1> QED BY <1>1, <1>6, <1>7, HandlesMove

LEMMA WriteBreaksStep == ASSUME FatFsAssumption, Types, TodoInv, WriteBreaks PROVE Sound
<1> DEFINE x == First(FreeClusters)
           b == wr.fil.clust
           Ends(c) == wr' = [wr EXCEPT !.left = 0, !.fil.clust = c]
<1>1. /\ wr # NoFile /\ todo = <<>> /\ failures < MaxFailures /\ failures' = failures + 1
      /\ \/ Ends(b) /\ UNCHANGED todo
         \/ fat[b] < EOC /\ Ends(fat[b]) /\ UNCHANGED todo
         \/ FreeClusters # {} /\ todo' = <<Link(b, x), Link(x, EOC)>> /\ Ends(x)
      /\ UNCHANGED <<fat, slots, rd, crashes, saved>>
  BY DEF WriteBreaks
<1>2. b \in Clusters /\ fat[b] \in Clusters \cup {EOC}
  BY <1>1, WriterIs DEF Types
<1>3. failures' \in 0 .. MaxFailures
  BY <1>1 DEF Types, FatFsAssumption
<1>4. ASSUME NEW c \in Clusters, Ends(c), UNCHANGED todo PROVE Sound
  <2>1. /\ wr' \in WriterType /\ wr'.fil.pos + wr'.left <= MaxWrite
        /\ wr'.fil.dir = wr.fil.dir /\ wr'.fil.idx = wr.fil.idx /\ wr'.fil.sclust = wr.fil.sclust
    BY <1>1, <1>4, GivingUpIs
  <2>2. Types'
    BY <1>1, <1>3, <1>4, <2>1 DEF Types
  <2>3. \A z \in Positions : \A e : Held(z, e)' => Held(z, e)
    BY <1>1, <2>1 DEF Held, HeldBy
  <2> QED BY <1>1, <1>4, <2>2, <2>3, HandlesMove
<1>5. CASE FreeClusters # {} /\ todo' = <<Link(b, x), Link(x, EOC)>> /\ Ends(x)
  <2>1. x \in Clusters /\ fat[x] = Free /\ x # Free
    BY <1>5, TakeIs
  <2> HIDE DEF x
  <2>2. /\ wr' \in WriterType /\ wr'.fil.pos + wr'.left <= MaxWrite
        /\ wr'.fil.dir = wr.fil.dir /\ wr'.fil.idx = wr.fil.idx /\ wr'.fil.sclust = wr.fil.sclust
    BY <1>1, <1>5, <2>1, GivingUpIs
  <2> HIDE DEF b, Ends
  <2> QED BY <1>1, <1>2, <1>3, <1>5, <2>1, <2>2, TakeForChain
<1>6. fat[b] < EOC => fat[b] \in Clusters
  BY <1>2, ConstantFacts
<1> QED BY <1>1, <1>2, <1>4, <1>5, <1>6
-----------------------------------------------------------------------------
(* The writes that an operation has left are issued, or lost.              *)
LEMMA TailIs ==
  ASSUME FatFsAssumption, Types, TodoInv, todo # <<>>, todo' = Tail(todo)
  PROVE  /\ Head(todo) = todo[1] /\ 1 \in DOMAIN todo /\ todo[1] \in SectorWrite
         /\ todo' \in Seq(SectorWrite) /\ TodoInv'
         /\ \A p, c : Comes(p, c)' => Comes(p, c)
         /\ \A d, c : LinkComes(d, c)' => LinkComes(d, c)
         /\ \A d, c : LinkComes(d, c) =>
              LinkComes(d, c)' \/ (todo[1].op = "link" /\ todo[1].c = d /\ todo[1].next = c)
<1>1. todo \in Seq(SectorWrite)
  BY DEF Types
<1>2. /\ Head(todo) = todo[1] /\ Len(todo) \in Nat /\ Len(todo) >= 1 /\ DOMAIN todo = 1 .. Len(todo)
      /\ todo' \in Seq(SectorWrite) /\ Len(todo') = Len(todo) - 1 /\ DOMAIN todo' = 1 .. Len(todo')
  BY <1>1
<1>3. todo[1] \in SectorWrite /\ 1 \in DOMAIN todo
  BY <1>1, <1>2
<1>4. \A k \in DOMAIN todo' : k + 1 \in DOMAIN todo /\ todo'[k] = todo[k + 1]
  BY <1>1, <1>2
<1>5. ASSUME NEW k \in DOMAIN todo, k # 1
      PROVE  \E j \in DOMAIN todo' : todo'[j] = todo[k]
  <2>1. k - 1 \in DOMAIN todo' /\ k - 1 + 1 = k
    BY <1>2, <1>5
  <2> QED BY <1>4, <2>1
<1>6. TodoInv'
  <2>1. ASSUME NEW k \in DOMAIN todo'
        PROVE  /\ todo'[k].op = "slot" => k = Len(todo') /\ todo'[k].slot.st = "used"
               /\ todo'[k].op = "link" => todo'[k].next # Free
    <3>1. k + 1 \in DOMAIN todo /\ todo'[k] = todo[k + 1] /\ k \in Nat
      BY <1>2, <1>4
    <3>2. k + 1 = Len(todo) => k = Len(todo')
      BY <1>2, <3>1
    <3> QED BY <3>1, <3>2 DEF TodoInv
  <2>2. ASSUME NEW j \in DOMAIN todo', NEW k \in DOMAIN todo', Marks(j)', Marks(k)' PROVE j = k
    <3>1. Marks(j + 1) /\ Marks(k + 1) /\ j + 1 \in DOMAIN todo /\ k + 1 \in DOMAIN todo
      BY <1>4, <2>2 DEF Marks
    <3>2. j + 1 = k + 1
      BY <3>1 DEF TodoInv
    <3> QED BY <1>2, <3>2
  <2> QED BY <2>1, <2>2 DEF TodoInv
<1>7. \A p, c : Comes(p, c)' => Comes(p, c)
  BY <1>4 DEF Comes
<1>8. \A d, c : LinkComes(d, c)' => LinkComes(d, c)
  BY <1>4 DEF LinkComes
<1>9. \A d, c : LinkComes(d, c) =>
        LinkComes(d, c)' \/ (todo[1].op = "link" /\ todo[1].c = d /\ todo[1].next = c)
  BY <1>5 DEF LinkComes
<1> QED BY <1>2, <1>3, <1>6, <1>7, <1>8, <1>9

LEMMA DiskStepStep == ASSUME FatFsAssumption, Types, TodoInv, DiskStep PROVE Sound
<1> DEFINE w == todo[1]
<1>1. todo # <<>> /\ todo' = Tail(todo) /\ UNCHANGED <<wr, rd, crashes, failures, saved>>
  BY DEF DiskStep
<1>2. /\ w \in SectorWrite /\ 1 \in DOMAIN todo
      /\ todo' \in Seq(SectorWrite) /\ TodoInv'
      /\ \A p, c : Comes(p, c)' => Comes(p, c)
      /\ \A d, c : LinkComes(d, c)' => LinkComes(d, c)
      /\ \A d, c : LinkComes(d, c) => LinkComes(d, c)' \/ (w.op = "link" /\ w.c = d /\ w.next = c)
  BY <1>1, TailIs
<1>3. Write(w)
  BY <1>1, TailIs DEF DiskStep
<1>4. Types'
  BY <1>1, <1>2, <1>3, WriteKeepsTypes DEF Types
<1>5. \A p, c : Held(p, c)' => Held(p, c)
  BY <1>1 DEF Held, HeldBy
<1>6. ASSUME NEW c \in DataClusters, w.op = "link" PROVE NoWorse(c)
  <2>1. slots' = slots /\ fat' = [fat EXCEPT ![w.c] = w.next] /\ w.next # Free
    BY <1>2, <1>3, <1>6 DEF Write, FatAfter, SlotsAfter, TodoInv
  <2>2. \A d \in Clusters : fat'[d] = IF d = w.c THEN w.next ELSE fat[d]
    BY <2>1 DEF Types
  <2>3. \A p : Shows(p, c)' <=> Shows(p, c)
    BY <2>1 DEF Shows, SlotAt
  <2>4. Homes(c)' \subseteq Homes(c)
    BY <1>2, <1>5, <2>3 DEF Homes
  <2>5. Before(c)' \subseteq Before(c)
    <3>1. LinkComes(w.c, w.next)
      BY <1>2, <1>6 DEF LinkComes
    <3> QED BY <1>2, <2>2, <3>1 DEF Before
  <2>6. c \in Clusters
    BY ConstantFacts
  <2>7. Untaken(c)' => Untaken(c)
    BY <1>2, <2>1, <2>2, <2>6 DEF Untaken
  <2>8. \A p \in Positions : Shows(p, c)' /\ fat'[c] = Free => EntryDamaged(c)
    BY <2>1, <2>2, <2>3, <2>6 DEF EntryDamaged
  <2> QED BY <2>4, <2>5, <2>7, <2>8, NothingNew
<1>7. ASSUME NEW c \in DataClusters, w.op # "link" PROVE NoWorse(c)
  <2>1. fat' = fat
    BY <1>2, <1>3, <1>7, ShowsAfter
  <2>2. ASSUME NEW p \in Positions, Shows(p, c)'
        PROVE  Shows(p, c) \/ (w.op = "slot" /\ Comes(p, c))
    <3>1. \/ SlotAt(p)' = SlotAt(p)
          \/ w.op = "slot" /\ p = <<w.c, w.i>> /\ SlotAt(p)' = w.slot
      BY <1>2, <1>3, <1>7, <2>2, ShowsAfter DEF Shows
    <3> QED BY <1>2, <2>2, <3>1 DEF Shows, Comes
  <2>3. Homes(c)' \subseteq Homes(c)
    BY <1>2, <1>5, <2>2 DEF Homes
  <2>4. Before(c)' \subseteq Before(c)
    BY <1>2, <2>1 DEF Before
  <2>5. Untaken(c)' => Untaken(c)
    BY <1>2, <1>7, <2>1 DEF Untaken
  <2>6. ASSUME NEW p \in Positions, Shows(p, c)', fat'[c] = Free PROVE EntryDamaged(c)
    <3>1. CASE Shows(p, c)
      BY <2>1, <2>6, <3>1 DEF EntryDamaged
    <3>2. CASE w.op = "slot" /\ Comes(p, c)
      <4>1. \A k \in DOMAIN todo : k = 1
        <5>1. todo \in Seq(SectorWrite) /\ 1 \in DOMAIN todo /\ w.op = "slot"
          BY <1>2, <3>2 DEF Types
        <5>2. DOMAIN todo = 1 .. Len(todo)
          BY <5>1
        <5>3. 1 = Len(todo)
          BY <5>1 DEF TodoInv
        <5>4. DOMAIN todo = 1 .. 1
          BY <5>2, <5>3, Zenon
        <5>5. \A k \in 1 .. 1 : k = 1
          OBVIOUS
        <5> QED BY <5>4, <5>5, Zenon
      <4>2. Untaken(c)
        BY <1>7, <2>1, <2>6, <4>1 DEF Untaken, LinkComes
      <4> QED BY <3>2, <4>2 DEF EntryDamaged, Homes
    <3> QED BY <2>2, <2>6, <3>1, <3>2
  <2> QED BY <2>3, <2>4, <2>5, <2>6, NothingNew
<1> QED BY <1>2, <1>4, <1>6, <1>7 DEF Sound

(* A lost write damages the cluster it should have marked, and no other.   *)
LEMMA WriteLostStep ==
  ASSUME FatFsAssumption, Types, TodoInv, WriteLost
  PROVE  Types' /\ TodoInv' /\ \E x : \A c \in DataClusters \ {x} : NoWorse(c)
<1> DEFINE w == todo[1]
<1>1. /\ todo # <<>> /\ todo' = Tail(todo) /\ failures < MaxFailures /\ failures' = failures + 1
      /\ UNCHANGED <<fat, slots, wr, rd, crashes, saved>>
  BY DEF WriteLost
<1>2. /\ todo' \in Seq(SectorWrite) /\ TodoInv'
      /\ \A p, c : Comes(p, c)' => Comes(p, c)
      /\ \A d, c : LinkComes(d, c)' => LinkComes(d, c)
      /\ \A d, c : LinkComes(d, c) => LinkComes(d, c)' \/ (w.op = "link" /\ w.c = d /\ w.next = c)
  BY <1>1, TailIs
<1>3. failures' \in 0 .. MaxFailures
  BY <1>1 DEF Types, FatFsAssumption
<1>4. Types'
  BY <1>1, <1>2, <1>3 DEF Types
<1>5. ASSUME NEW c \in DataClusters \ {w.c} PROVE NoWorse(c)
  <2>1. \A p : (Shows(p, c)' <=> Shows(p, c)) /\ (Held(p, c)' => Held(p, c))
    BY <1>1 DEF Shows, SlotAt, Held, HeldBy
  <2>2. Homes(c)' \subseteq Homes(c)
    BY <1>2, <2>1 DEF Homes
  <2>3. Before(c)' \subseteq Before(c)
    BY <1>1, <1>2 DEF Before
  <2>4. Untaken(c)' => Untaken(c)
    BY <1>1, <1>2, <1>5 DEF Untaken
  <2>5. \A p \in Positions : Shows(p, c)' /\ fat'[c] = Free => EntryDamaged(c)
    BY <1>1, <2>1 DEF EntryDamaged
  <2> QED BY <2>2, <2>3, <2>4, <2>5, NothingNew
<1> QED BY <1>2, <1>4, <1>5

(* A crash damages the cluster that was about to be marked, if anything    *)
(* refers to it, and no other; it damages no entry.                        *)
LEMMA CrashStep ==
  ASSUME FatFsAssumption, Types, TodoInv, Crash
  PROVE  /\ Types' /\ TodoInv'
         /\ \A c \in DataClusters : EntryDamaged(c)' => EntryDamaged(c)
         /\ \E x : \A c \in DataClusters \ {x} : Damaged(c)' => Damaged(c)
<1>1. /\ crashes < MaxCrashes /\ crashes' = crashes + 1 /\ wr' = NoFile
      /\ rd' = [s \in Streams |-> NoFile] /\ todo' = <<>> /\ UNCHANGED <<fat, slots, failures, saved>>
  BY DEF Crash
<1>2. crashes' \in 0 .. MaxCrashes
  BY <1>1 DEF Types, FatFsAssumption
<1>3. Types'
  BY <1>1, <1>2 DEF Types
<1>4. DOMAIN todo' = {}
  BY <1>1
<1>5. TodoInv'
  BY <1>4 DEF TodoInv
<1>6. /\ \A p, c : ~Comes(p, c)' /\ ~Held(p, c)'
      /\ \A d, c : ~LinkComes(d, c)'
  BY <1>1, <1>4 DEF Comes, LinkComes, Held
<1>7. \A p, c : Shows(p, c)' <=> Shows(p, c)
  BY <1>1 DEF Shows, SlotAt
<1>8. \A c : Homes(c)' \subseteq Homes(c) /\ Before(c)' \subseteq Before(c)
  BY <1>1, <1>6, <1>7 DEF Homes, Before
<1>9. ASSUME NEW c \in DataClusters, EntryDamaged(c)' PROVE EntryDamaged(c)
  <2>1. CASE Several(Homes(c)')
    BY <1>8, <2>1 DEF EntryDamaged, Several
  <2>2. CASE Homes(c)' # {} /\ fat'[c] = Free
    BY <1>1, <1>6, <1>7, <2>2 DEF EntryDamaged, Homes
  <2>3. CASE \E p \in Positions : Shows(p, c)' /\ fat'[c] = Free
    BY <1>1, <1>7, <2>3 DEF EntryDamaged
  <2> QED BY <1>9, <2>1, <2>2, <2>3 DEF EntryDamaged, Untaken, Several
<1>10. ASSUME NEW c \in DataClusters, ~LinkComes(c, EOC), Damaged(c)' PROVE Damaged(c)
  <2>1. Untaken(c)' => Untaken(c)
    BY <1>1, <1>10 DEF Untaken
  <2> QED BY <1>8, <1>10, <2>1 DEF Damaged, Several
<1>11. \A c, d : LinkComes(c, EOC) /\ LinkComes(d, EOC) => c = d
  BY DEF LinkComes, TodoInv, Marks
<1>12. \E x : \A c \in DataClusters \ {x} : Damaged(c)' => Damaged(c)
  <2>1. CASE \E x : LinkComes(x, EOC)
    BY <1>10, <1>11, <2>1
  <2>2. CASE ~ \E x : LinkComes(x, EOC)
    BY <1>10, <2>2
  <2> QED BY <2>1, <2>2
<1> QED BY <1>3, <1>5, <1>9, <1>12
-----------------------------------------------------------------------------
(* Counting the damage.                                                    *)
DamagedOnes == {c \in DataClusters : Damaged(c)}
DamagedEntries == {c \in DataClusters : EntryDamaged(c)}

IInv ==
  /\ Types /\ TodoInv
  /\ Cardinality(DamagedOnes) <= crashes + failures
  /\ Cardinality(DamagedEntries) <= failures

LEMMA SomeClusters ==
  ASSUME FatFsAssumption, NEW S \in SUBSET DataClusters
  PROVE  IsFiniteSet(S) /\ Cardinality(S) \in Nat
<1>1. Root + 1 \in Int /\ MaxCluster \in Int
  BY ConstantFacts DEF Root
<1>2. IsFiniteSet(DataClusters)
  BY <1>1, FS_Interval DEF DataClusters
<1> QED BY <1>2, FS_Subset, FS_CardinalityType

LEMMA NoMoreThan ==
  ASSUME FatFsAssumption, NEW S \in SUBSET DataClusters, NEW T \in SUBSET S
  PROVE  Cardinality(T) <= Cardinality(S)
BY SomeClusters, FS_Subset

LEMMA OneMoreThan ==
  ASSUME FatFsAssumption, NEW S \in SUBSET DataClusters, NEW T \in SUBSET DataClusters,
         NEW x, T \subseteq S \cup {x}
  PROVE  Cardinality(T) <= Cardinality(S) + 1
<1>1. IsFiniteSet(S) /\ Cardinality(S) \in Nat /\ Cardinality(T) \in Nat
  BY SomeClusters
<1>2. IsFiniteSet(S \cup {x}) /\ Cardinality(S \cup {x}) <= Cardinality(S) + 1
  <2>1. CASE x \in S
    <3>1. S \cup {x} = S
      BY <2>1
    <3> QED BY <1>1, <3>1
  <2>2. CASE x \notin S
    <3>1. IsFiniteSet(S \cup {x}) /\ Cardinality(S \cup {x}) = Cardinality(S) + 1
      BY <1>1, <2>2, FS_AddElement
    <3> QED BY <1>1, <3>1
  <2> QED BY <2>1, <2>2
<1>3. Cardinality(T) <= Cardinality(S \cup {x}) /\ Cardinality(S \cup {x}) \in Nat
  BY <1>2, FS_Subset, FS_CardinalityType
<1> QED BY <1>1, <1>2, <1>3

LEMMA InitInv == FatFsAssumption /\ Init => IInv
<1> SUFFICES ASSUME FatFsAssumption, Init PROVE IInv
  OBVIOUS
<1>1. /\ fat = [c \in Clusters |-> IF c <= Root THEN EOC ELSE Free]
      /\ slots = [c \in Clusters |-> [i \in SlotIds |-> FreeSlot]]
      /\ wr = NoFile /\ rd = [s \in Streams |-> NoFile] /\ todo = <<>>
      /\ crashes = 0 /\ failures = 0 /\ saved = [p \in Paths |-> NotSaved]
  BY DEF Init
<1>2. Types
  <2>1. NotSaved \in [first : Clusters, size : Sizes, len : Sizes]
    BY ConstantFacts DEF NotSaved
  <2>2. fat \in [Clusters -> Clusters \cup {EOC}] /\ saved \in [Paths -> [first : Clusters, size : Sizes, len : Sizes]]
    BY <1>1, <2>1, ConstantFacts
  <2>3. slots \in [Clusters -> [SlotIds -> SlotType]]
    BY <1>1, DataTyped
  <2>4. crashes \in 0 .. MaxCrashes /\ failures \in 0 .. MaxFailures
    BY <1>1 DEF FatFsAssumption
  <2>5. todo \in Seq(SectorWrite)
    BY <1>1
  <2> QED BY <1>1, <2>2, <2>3, <2>4, <2>5 DEF Types
<1>3. TodoInv /\ \A p, c : ~Comes(p, c) /\ ~LinkComes(p, c)
  BY <1>1, NothingToDo
<1>4. ASSUME NEW c \in DataClusters PROVE Homes(c) = {} /\ Before(c) = {}
  <2>1. ASSUME NEW p \in Positions PROVE ~Shows(p, c)
    <3>1. SlotAt(p) = FreeSlot
      BY <1>1 DEF SlotAt, Positions
    <3> QED BY <3>1 DEF Shows, FreeSlot, Slot
  <2>2. \A p : ~Held(p, c)
    BY <1>1 DEF Held
  <2>3. \A d \in Clusters : fat[d] # c
    BY <1>1, ConstantFacts
  <2> QED BY <1>3, <2>1, <2>2, <2>3 DEF Homes, Before
<1>5. DamagedOnes = {} /\ DamagedEntries = {}
  BY <1>4 DEF DamagedOnes, DamagedEntries, Damaged, EntryDamaged, Several, Homes
<1>6. Cardinality(DamagedOnes) = 0 /\ Cardinality(DamagedEntries) = 0
  BY <1>5, FS_EmptySet
<1> QED BY <1>1, <1>2, <1>3, <1>6 DEF IInv

LEMMA SoundStep ==
  ASSUME FatFsAssumption, IInv, Sound, crashes' >= crashes, failures' >= failures
  PROVE  IInv'
<1>1. /\ crashes \in Nat /\ failures \in Nat /\ crashes' \in Nat /\ failures' \in Nat
  BY DEF IInv, Sound, Types
<1>2. /\ DamagedOnes' \in SUBSET DamagedOnes /\ DamagedOnes \in SUBSET DataClusters
      /\ DamagedEntries' \in SUBSET DamagedEntries /\ DamagedEntries \in SUBSET DataClusters
  BY DEF Sound, NoWorse, DamagedOnes, DamagedEntries
<1>3. /\ Cardinality(DamagedOnes') <= Cardinality(DamagedOnes)
      /\ Cardinality(DamagedEntries') <= Cardinality(DamagedEntries)
  BY <1>2, NoMoreThan
<1>4. /\ Cardinality(DamagedOnes) \in Nat /\ Cardinality(DamagedEntries) \in Nat
      /\ Cardinality(DamagedOnes') \in Nat /\ Cardinality(DamagedEntries') \in Nat
  BY <1>2, SomeClusters
<1> QED BY <1>1, <1>3, <1>4 DEF IInv, Sound

LEMMA StepInv == ASSUME FatFsAssumption, IInv, [Next]_vars PROVE IInv'
<1>0. Types /\ TodoInv /\ crashes \in Nat /\ failures \in Nat
  BY DEF IInv, Types
<1>1. ASSUME NEW path \in Paths, OpenToOverwrite(path) PROVE IInv'
  <2>1. Sound
    BY <1>0, <1>1, OpenToOverwriteStep
  <2> QED BY <1>0, <1>1, <2>1, SoundStep DEF OpenToOverwrite
<1>2. ASSUME NEW path \in Paths, OpenToCreate(path) PROVE IInv'
  <2>1. Sound
    BY <1>0, <1>2, OpenToCreateStep
  <2> QED BY <1>0, <1>2, <2>1, SoundStep DEF OpenToCreate
<1>3. ASSUME NEW path \in Paths, Unlink(path) PROVE IInv'
  <2>1. Sound
    BY <1>0, <1>3, UnlinkStep
  <2> QED BY <1>0, <1>3, <2>1, SoundStep DEF Unlink
<1>4. ASSUME NEW path \in Paths, NEW s \in Streams, StreamOpen(s, path) PROVE IInv'
  <2>1. Sound
    BY <1>0, <1>4, StreamOpenStep
  <2> QED BY <1>0, <1>4, <2>1, SoundStep DEF StreamOpen
<1>5. ASSUME NEW name \in DirNames, Mkdir(name) PROVE IInv'
  <2>1. Sound
    BY <1>0, <1>5, MkdirStep
  <2> QED BY <1>0, <1>5, <2>1, SoundStep DEF Mkdir
<1>6. ASSUME NEW name \in DirNames, Rmdir(name) PROVE IInv'
  <2>1. Sound
    BY <1>0, <1>6, RmdirStep
  <2> QED BY <1>0, <1>6, <2>1, SoundStep DEF Rmdir
<1>7. CASE WriteInCluster
  <2>1. Sound
    BY <1>0, <1>7, WriteInClusterStep
  <2> QED BY <1>0, <1>7, <2>1, SoundStep DEF WriteInCluster
<1>8. CASE WriteNextCluster
  <2>1. Sound
    BY <1>0, <1>8, WriteNextClusterStep
  <2> QED BY <1>0, <1>8, <2>1, SoundStep DEF WriteNextCluster
<1>9. CASE WriteNewCluster
  <2>1. Sound
    BY <1>0, <1>9, WriteNewClusterStep
  <2> QED BY <1>0, <1>9, <2>1, SoundStep DEF WriteNewCluster
<1>10. CASE WriteDenied
  <2>1. Sound
    BY <1>0, <1>10, WriteDeniedStep
  <2> QED BY <1>0, <1>10, <2>1, SoundStep DEF WriteDenied
<1>11. CASE CloseWriter
  <2>1. Sound
    BY <1>0, <1>11, CloseWriterStep
  <2> QED BY <1>0, <1>11, <2>1, SoundStep DEF CloseWriter
<1>12. ASSUME NEW s \in Streams, StreamClose(s) PROVE IInv'
  <2>1. Sound
    BY <1>0, <1>12, StreamCloseStep
  <2> QED BY <1>0, <1>12, <2>1, SoundStep DEF StreamClose
<1>13. CASE DiskStep
  <2>1. Sound
    BY <1>0, <1>13, DiskStepStep
  <2> QED BY <1>0, <1>13, <2>1, SoundStep DEF DiskStep
<1>14. CASE WriteBreaks
  <2>1. Sound
    BY <1>0, <1>14, WriteBreaksStep
  <2>2. crashes' >= crashes /\ failures' >= failures
    BY <1>0, <1>14 DEF WriteBreaks
  <2> QED BY <2>1, <2>2, SoundStep
<1>15. CASE WriteLost
  <2>1. Types' /\ TodoInv' /\ crashes' = crashes /\ failures' = failures + 1
    BY <1>0, <1>15, WriteLostStep DEF WriteLost
  <2>2. PICK x : \A c \in DataClusters \ {x} : NoWorse(c)
    BY <1>0, <1>15, WriteLostStep
  <2>3. /\ DamagedOnes' \subseteq DamagedOnes \cup {x} /\ DamagedEntries' \subseteq DamagedEntries \cup {x}
        /\ DamagedOnes \in SUBSET DataClusters /\ DamagedEntries \in SUBSET DataClusters
        /\ DamagedOnes' \in SUBSET DataClusters /\ DamagedEntries' \in SUBSET DataClusters
    BY <2>2 DEF NoWorse, DamagedOnes, DamagedEntries
  <2>4. /\ Cardinality(DamagedOnes') <= Cardinality(DamagedOnes) + 1
        /\ Cardinality(DamagedEntries') <= Cardinality(DamagedEntries) + 1
    BY <2>3, OneMoreThan
  <2>5. /\ Cardinality(DamagedOnes) \in Nat /\ Cardinality(DamagedEntries) \in Nat
        /\ Cardinality(DamagedOnes') \in Nat /\ Cardinality(DamagedEntries') \in Nat
    BY <2>3, SomeClusters
  <2> QED BY <1>0, <2>1, <2>4, <2>5 DEF IInv
<1>16. CASE Crash
  <2>1. Types' /\ TodoInv' /\ crashes' = crashes + 1 /\ failures' = failures
    BY <1>0, <1>16, CrashStep DEF Crash
  <2>2. PICK x : \A c \in DataClusters \ {x} : Damaged(c)' => Damaged(c)
    BY <1>0, <1>16, CrashStep
  <2>3. \A c \in DataClusters : EntryDamaged(c)' => EntryDamaged(c)
    BY <1>0, <1>16, CrashStep
  <2>4. /\ DamagedOnes' \subseteq DamagedOnes \cup {x} /\ DamagedEntries' \in SUBSET DamagedEntries
        /\ DamagedOnes \in SUBSET DataClusters /\ DamagedEntries \in SUBSET DataClusters
        /\ DamagedOnes' \in SUBSET DataClusters /\ DamagedEntries' \in SUBSET DataClusters
    BY <2>2, <2>3 DEF DamagedOnes, DamagedEntries
  <2>5. /\ Cardinality(DamagedOnes') <= Cardinality(DamagedOnes) + 1
        /\ Cardinality(DamagedEntries') <= Cardinality(DamagedEntries)
    BY <2>4, OneMoreThan, NoMoreThan
  <2>6. /\ Cardinality(DamagedOnes) \in Nat /\ Cardinality(DamagedEntries) \in Nat
        /\ Cardinality(DamagedOnes') \in Nat /\ Cardinality(DamagedEntries') \in Nat
    BY <2>4, SomeClusters
  <2> QED BY <1>0, <2>1, <2>5, <2>6 DEF IInv
<1>17. CASE UNCHANGED vars
  <2>1. UNCHANGED <<fat, slots, wr, rd, todo, crashes, failures, saved>>
    BY <1>17 DEF vars
  <2>2. Types'
    BY <1>0, <2>1 DEF Types
  <2>3. \A p \in Positions : \A c : Held(p, c)' => Held(p, c)
    BY <2>1 DEF Held, HeldBy
  <2>4. Sound
    BY <1>0, <2>1, <2>2, <2>3, HandlesMove
  <2> QED BY <1>0, <2>1, <2>4, SoundStep
<1> QED BY <1>1, <1>2, <1>3, <1>4, <1>5, <1>6, <1>7, <1>8, <1>9, <1>10, <1>11, <1>12, <1>13, <1>14, <1>15,
           <1>16, <1>17 DEF Next

-----------------------------------------------------------------------------
(* What the invariant says of the disk.                                    *)
LEMMA MoreThanOne == ASSUME NEW S, Cardinality(S) > 1 PROVE Several(S)
<1> SUFFICES ASSUME ~Several(S) PROVE FALSE
  OBVIOUS
<1>1. CASE S = {}
  BY <1>1, FS_EmptySet
<1>2. CASE S # {}
  <2>1. PICK x : x \in S
    BY <1>2
  <2>2. S = {x}
    BY <2>1 DEF Several
  <2>3. Cardinality({x}) = 1
    BY FS_Singleton
  <2> QED BY <2>2, <2>3
<1> QED BY <1>1, <1>2

LEMMA EntriesAreHomes ==
  ASSUME NEW c PROVE EntriesAt(c) \subseteq Homes(c) /\ \A e \in EntriesAt(c) : e \in Positions /\ Shows(e, c)
<1>1. ASSUME NEW e \in EntriesAt(c) PROVE e \in Positions /\ Shows(e, c)
  BY DEF EntriesAt, Entries, Positions, Shows, SlotAt
<1> QED BY <1>1 DEF Homes

LEMMA LinksAreBefore == ASSUME NEW c PROVE LinksTo(c) \subseteq Before(c)
BY DEF LinksTo, Before

LEMMA SharedIsDamaged == ASSUME NEW c, Shared(c) PROVE Damaged(c)
<1>1. EntriesAt(c) \subseteq Homes(c) /\ LinksTo(c) \subseteq Before(c)
  BY EntriesAreHomes, LinksAreBefore
<1>2. CASE Cardinality(EntriesAt(c)) > 1
  BY <1>1, <1>2, MoreThanOne DEF Several, Damaged
<1>3. CASE Cardinality(LinksTo(c)) > 1
  BY <1>1, <1>3, MoreThanOne DEF Several, Damaged
<1>4. CASE EntriesAt(c) # {} /\ LinksTo(c) # {}
  BY <1>1, <1>4 DEF Damaged
<1> QED BY <1>2, <1>3, <1>4 DEF Shared

LEMMA DanglingIsDamaged == ASSUME NEW c, Idle, Dangling(c) PROVE Damaged(c)
<1>1. EntriesAt(c) \subseteq Homes(c) /\ LinksTo(c) \subseteq Before(c)
  BY EntriesAreHomes, LinksAreBefore
<1>2. ~LinkComes(c, EOC)
  BY NothingToDo DEF Idle
<1>3. Untaken(c) /\ (Homes(c) # {} \/ Before(c) # {})
  BY <1>1, <1>2 DEF Dangling, Untaken
<1> QED BY <1>3 DEF Damaged

(* The inductive invariant: references that stand, are held or are to come *)
(* damage no more clusters than there were crashes and failed writes.      *)
THEOREM InvHolds == Spec => []IInv
<1> USE FatFsAssumption
<1>1. Init => IInv
  BY InitInv
<1>2. IInv /\ [Next]_vars => IInv'
  BY StepInv
<1> QED BY <1>1, <1>2, PTL DEF Spec

(* Every variable of the volume, the handles and the writes to come keeps  *)
(* its type: no position, size or cluster number leaves its range, however *)
(* f_write advances and whatever f_open finds.                             *)
THEOREM TypeCorrect == Spec => []TypeOK
<1>1. IInv => TypeOK
  <2> SUFFICES ASSUME IInv PROVE TypeOK
    OBVIOUS
  <2>1. Types
    BY DEF IInv
  <2>2. \A k \in DOMAIN todo : todo[k] \in SectorWrite
    BY <2>1 DEF Types
  <2> QED BY <2>1, <2>2 DEF Types, TypeOK
<1> QED BY <1>1, InvHolds, PTL

(* One crash or one lost write breaks one chain at most, for any volume    *)
(* and any number of either: between commands the clusters that two chains *)
(* share, or that a chain has and the FAT shows as free, are no more than  *)
(* the crashes and failed writes so far (f_open, f_write, f_mkdir).        *)
THEOREM DamageBoundedHolds == Spec => []DamageBounded
<1> USE FatFsAssumption
<1>1. IInv => DamageBounded
  <2> SUFFICES ASSUME IInv, Idle
               PROVE  Cardinality({c \in DataClusters : Shared(c) \/ Dangling(c)}) <= crashes + failures
    BY DEF DamageBounded
  <2> DEFINE bad == {c \in DataClusters : Shared(c) \/ Dangling(c)}
  <2>1. bad \in SUBSET DamagedOnes /\ DamagedOnes \in SUBSET DataClusters /\ bad \in SUBSET DataClusters
    BY SharedIsDamaged, DanglingIsDamaged DEF DamagedOnes
  <2>2. Cardinality(bad) <= Cardinality(DamagedOnes)
    BY <2>1, NoMoreThan
  <2>3. Cardinality(bad) \in Nat /\ Cardinality(DamagedOnes) \in Nat
    BY <2>1, SomeClusters
  <2>4. Cardinality(DamagedOnes) <= crashes + failures /\ crashes \in Nat /\ failures \in Nat
    BY DEF IInv, Types
  <2>5. Cardinality(bad) <= crashes + failures
    BY <2>2, <2>3, <2>4
  <2> QED BY <2>5
<1> QED BY <1>1, InvHolds, PTL

(* An entry in use never shows a free cluster and no two show the same     *)
(* one, in the middle of an operation and after any number of crashes,     *)
(* but for one cluster per failed write: f_open and f_mkdir take the       *)
(* cluster before they write the entry.                                    *)
THEOREM EntryBackedHolds == Spec => []EntryBacked
<1> USE FatFsAssumption
<1>1. IInv => EntryBacked
  <2> SUFFICES ASSUME IInv PROVE EntryBacked
    OBVIOUS
  <2> DEFINE bad == {c \in DataClusters :
                       Cardinality(EntriesAt(c)) > 1 \/ (EntriesAt(c) # {} /\ fat[c] = Free)}
  <2>1. bad \subseteq DamagedEntries
    <3> SUFFICES ASSUME NEW c \in bad PROVE EntryDamaged(c)
      BY DEF DamagedEntries
    <3>1. CASE Cardinality(EntriesAt(c)) > 1
      BY <3>1, MoreThanOne, EntriesAreHomes DEF Several, EntryDamaged
    <3>2. CASE EntriesAt(c) # {} /\ fat[c] = Free
      BY <3>2, EntriesAreHomes DEF EntryDamaged
    <3> QED BY <3>1, <3>2
  <2>2. bad \in SUBSET DamagedEntries /\ DamagedEntries \in SUBSET DataClusters /\ bad \in SUBSET DataClusters
    BY <2>1 DEF DamagedEntries
  <2>3. Cardinality(bad) <= Cardinality(DamagedEntries)
    BY <2>2, NoMoreThan
  <2>4. Cardinality(bad) \in Nat /\ Cardinality(DamagedEntries) \in Nat
    BY <2>2, SomeClusters
  <2>5. Cardinality(DamagedEntries) <= failures /\ failures \in Nat
    BY DEF IInv, Types
  <2>6. Cardinality(bad) <= failures
    BY <2>3, <2>4, <2>5
  <2> QED BY <2>6 DEF EntryBacked
<1> QED BY <1>1, InvHolds, PTL

LEMMA NothingDamaged ==
  ASSUME FatFsAssumption, IInv, crashes = 0, failures = 0, NEW c \in DataClusters
  PROVE  ~Damaged(c)
<1>1. IsFiniteSet(DamagedOnes) /\ Cardinality(DamagedOnes) \in Nat
  BY SomeClusters DEF DamagedOnes
<1>2. Cardinality(DamagedOnes) = 0
  BY <1>1 DEF IInv
<1>3. DamagedOnes = {}
  BY <1>1, <1>2, FS_EmptySet
<1> QED BY <1>3 DEF DamagedOnes

(* As long as no power is lost and no sector write fails, no cluster is    *)
(* the start or the continuation of two files or directories, at any point *)
(* of any operation: f_open, f_write and f_mkdir take only a cluster that  *)
(* nothing on the disk, no handle and no write to come refers to.          *)
THEOREM NoCrossLinkHolds == Spec => [](crashes = 0 /\ failures = 0 => NoCrossLink)
<1> USE FatFsAssumption
<1>1. IInv => (crashes = 0 /\ failures = 0 => NoCrossLink)
  BY NothingDamaged, SharedIsDamaged DEF NoCrossLink
<1> QED BY <1>1, InvHolds, PTL

(* As long as no power is lost and no sector write fails, every cluster of *)
(* a chain is marked as taken between commands, so find_free_cluster       *)
(* cannot hand it out again.                                               *)
THEOREM NoDanglingHolds == Spec => [](crashes = 0 /\ failures = 0 => NoDangling)
<1> USE FatFsAssumption
<1>1. IInv => (crashes = 0 /\ failures = 0 => NoDangling)
  BY NothingDamaged, DanglingIsDamaged DEF NoDangling
<1> QED BY <1>1, InvHolds, PTL
-----------------------------------------------------------------------------
(* Names. What an entry needs to stand at slot i of cluster c: a cluster   *)
(* beyond the root to point to, a place that a search reaches before the   *)
(* first entry never used, and a name no other entry of the cluster has.   *)
(* (f_open puts entries in the first sector of a directory only; f_mkdir,  *)
(* which works in the root alone, in every sector, and zeroes only the     *)
(* first sector of a new directory.)                                       *)
Fits(c, i, slot) ==
  /\ slot.first \in DataClusters
  /\ c = Root \/ i \in FirstSector
  /\ \A j \in SlotIds : j < i => slots[c][j].st # "free"
  /\ \A j \in SlotIds : slots[c][j].st = "used" /\ slots[c][j].name = slot.name => j = i

(* No chain leads into the root, which is the only directory with entries  *)
(* in more than one sector.                                                *)
DiskNames ==
  /\ fat[Root] # Free /\ \A c \in Clusters : fat[c] \in DataClusters \cup {Free, EOC}
  /\ \A c \in Clusters, i \in SlotIds : slots[c][i].st = "used" => Fits(c, i, slots[c][i])

(* The same of an entry whose write is to come: what comes before it does  *)
(* not touch its directory.                                                *)
PendingNames ==
  \A k \in DOMAIN todo :
    /\ todo[k].op = "slot" => Fits(todo[k].c, todo[k].i, todo[k].slot)
    /\ todo[k].op = "link" => todo[k].next \in DataClusters \cup {EOC}
    /\ todo[k].op \in {"data", "zero"} =>
         /\ todo[k].c # Root
         /\ \A j \in DOMAIN todo : todo[j].op = "slot" => todo[j].c # todo[k].c

(* f_close puts back no entry without a cluster, or with the root; f_write *)
(* does not write over the root.                                           *)
HandlesFull ==
  /\ wr # NoFile => wr.fil.sclust \in DataClusters /\ wr.fil.clust # Root
  /\ \A s \in Streams : rd[s] # NoFile => rd[s].sclust \in DataClusters

Named == DiskNames /\ PendingNames /\ HandlesFull

(* A step that leaves each entry as it was, or takes it out of use without *)
(* making it look never used, or changes only where it points.             *)
LEMMA NamesKept ==
  ASSUME DiskNames, fat' = fat,
         \A c \in Clusters, i \in SlotIds :
           \/ slots'[c][i] = slots[c][i]
           \/ slots'[c][i].st # "used" /\ slots'[c][i].st # "free"
           \/ /\ slots'[c][i].st = slots[c][i].st /\ slots'[c][i].name = slots[c][i].name
              /\ slots'[c][i].first \in DataClusters
  PROVE  DiskNames'
<1> SUFFICES ASSUME NEW c \in Clusters, NEW i \in SlotIds, slots'[c][i].st = "used"
             PROVE  Fits(c, i, slots[c][i])'
  BY DEF DiskNames
<1>1. /\ slots[c][i].st = "used" /\ slots'[c][i].name = slots[c][i].name
      /\ \/ slots'[c][i].first \in DataClusters
         \/ slots'[c][i].first = slots[c][i].first
  OBVIOUS
<1>2. Fits(c, i, slots[c][i])
  BY <1>1 DEF DiskNames
<1>3. ASSUME NEW j \in SlotIds, j < i PROVE slots'[c][j].st # "free"
  <2>1. slots[c][j].st # "free"
    BY <1>2, <1>3 DEF Fits
  <2> QED BY <2>1
<1>4. ASSUME NEW j \in SlotIds, slots'[c][j].st = "used", slots'[c][j].name = slots'[c][i].name
      PROVE  j = i
  <2>1. slots[c][j].st = "used" /\ slots[c][j].name = slots[c][i].name
    BY <1>1, <1>4
  <2> QED BY <1>2, <2>1 DEF Fits
<1> QED BY <1>1, <1>2, <1>3, <1>4 DEF Fits

(* The write of an entry that fits. *)
LEMMA NamePut ==
  ASSUME DiskNames, slots \in [Clusters -> [SlotIds -> SlotType]],
         NEW c \in Clusters, NEW i \in SlotIds, NEW slot, slot.st = "used", Fits(c, i, slot),
         slots' = [slots EXCEPT ![c][i] = slot], fat' = fat
  PROVE  DiskNames'
<1>1. /\ slots'[c][i] = slot
      /\ \A d \in Clusters, j \in SlotIds : d # c \/ j # i => slots'[d][j] = slots[d][j]
  OBVIOUS
<1> SUFFICES ASSUME NEW d \in Clusters, NEW j \in SlotIds, slots'[d][j].st = "used"
             PROVE  Fits(d, j, slots[d][j])'
  BY DEF DiskNames
<1>2. CASE d # c
  <2>1. slots'[d][j] = slots[d][j] /\ \A k \in SlotIds : slots'[d][k] = slots[d][k]
    BY <1>1, <1>2
  <2>2. Fits(d, j, slots[d][j])
    BY <2>1 DEF DiskNames
  <2> QED BY <2>1, <2>2 DEF Fits
<1>3. CASE d = c /\ j = i
  <2>1. \A k \in SlotIds : k < i => slots'[c][k].st # "free"
    BY <1>1 DEF Fits
  <2>2. \A k \in SlotIds : slots'[c][k].st = "used" /\ slots'[c][k].name = slot.name => k = i
    BY <1>1 DEF Fits
  <2> QED BY <1>1, <1>3, <2>1, <2>2 DEF Fits
<1>4. CASE d = c /\ j # i
  <2>1. slots'[c][j] = slots[c][j] /\ slots[c][j].st = "used"
    BY <1>1, <1>4
  <2>2. Fits(c, j, slots[c][j])
    BY <2>1 DEF DiskNames
  <2>3. \A k \in SlotIds : k < j => slots'[c][k].st # "free"
    BY <1>1, <2>2 DEF Fits
  <2>4. slots[c][j].name # slot.name
    BY <1>4, <2>1 DEF Fits
  <2>5. \A k \in SlotIds : slots'[c][k].st = "used" /\ slots'[c][k].name = slots[c][j].name => k = j
    BY <1>1, <2>2, <2>4 DEF Fits
  <2> QED BY <1>4, <2>1, <2>2, <2>3, <2>5 DEF Fits
<1> QED BY <1>2, <1>3, <1>4

(* File data and the zeroes of f_mkdir leave no entry in the sector they   *)
(* go to. Outside the root that is the sector with all the entries, or one *)
(* without any.                                                            *)
LEMMA NamesFilled ==
  ASSUME FatFsAssumption, DiskNames, slots \in [Clusters -> [SlotIds -> SlotType]],
         NEW c \in Clusters, c # Root, NEW s, NEW slot, slot.st # "used",
         slots' = Fill(c, s, slot), fat' = fat
  PROVE  /\ DiskNames'
         /\ \A d \in Clusters \ {c} : slots'[d] = slots[d]
<1>1. /\ slots'[c] = [i \in SlotIds |-> IF SectorOf(i) = s THEN slot ELSE slots[c][i]]
      /\ \A d \in Clusters \ {c} : slots'[d] = slots[d]
  BY DEF Fill
<1>2. \A i \in FirstSector : SectorOf(i) = 0 /\ \A k \in SlotIds : k < i => k \in FirstSector
  <2>1. SlotsPerSector \in Nat \ {0}
    BY DEF FatFsAssumption
  <2>2. \A n \in Nat \ {0} : \A i \in 0 .. n - 1 : i \div n = 0
    BY Z3
  <2>3. \A n \in Nat \ {0} : \A i \in 0 .. n - 1 : \A k \in Nat : k < i => k \in 0 .. n - 1
    OBVIOUS
  <2>4. SlotIds \subseteq Nat
    BY WidthIs
  <2> QED BY <2>1, <2>2, <2>3, <2>4 DEF FirstSector, SectorOf
<1> SUFFICES ASSUME NEW d \in Clusters, NEW j \in SlotIds, slots'[d][j].st = "used"
             PROVE  Fits(d, j, slots[d][j])'
  BY <1>1 DEF DiskNames
<1>3. CASE d # c
  <2>1. slots'[d] = slots[d]
    BY <1>1, <1>3
  <2>2. Fits(d, j, slots[d][j])
    BY <2>1 DEF DiskNames
  <2> QED BY <2>1, <2>2 DEF Fits
<1>4. CASE d = c
  <2>1. SectorOf(j) # s /\ slots'[c][j] = slots[c][j] /\ slots[c][j].st = "used"
    BY <1>1, <1>4
  <2>2. Fits(c, j, slots[c][j])
    BY <2>1 DEF DiskNames
  <2>3. j \in FirstSector /\ s # 0
    BY <1>2, <2>1, <2>2 DEF Fits
  <2>4. ASSUME NEW k \in SlotIds, k < j PROVE slots'[c][k].st # "free"
    <3>1. SectorOf(k) = 0
      BY <1>2, <2>3, <2>4
    <3>2. slots'[c][k] = slots[c][k]
      BY <1>1, <2>3, <3>1
    <3> QED BY <2>2, <2>4, <3>2 DEF Fits
  <2>5. ASSUME NEW k \in SlotIds, slots'[c][k].st = "used", slots'[c][k].name = slots[c][j].name PROVE k = j
    <3>1. slots'[c][k] = slots[c][k]
      BY <1>1, <2>5
    <3> QED BY <2>2, <2>5, <3>1 DEF Fits
  <2> QED BY <1>4, <2>1, <2>2, <2>4, <2>5 DEF Fits
<1> QED BY <1>3, <1>4

(* f_open and f_mkdir look for a name to the first entry never used, which *)
(* is as far as names go: a name they do not find is not in the cluster,   *)
(* and an entry with it fits in the first place that can be reused.        *)
LEMMA NewNameFits ==
  ASSUME FatFsAssumption, Types, DiskNames, NEW d \in Clusters, NEW name, ~Found(d, name),
         NEW x \in DataClusters,
         NEW among \in SUBSET SlotIds, Reusable(d, among) # {},
         d = Root \/ among \subseteq FirstSector,
         \A i \in among : 0 .. i \subseteq among
  PROVE  Fits(d, First(Reusable(d, among)), Slot("used", name, x, 0))
<1> DEFINE walk == Walk(d)
           live == {k \in DOMAIN walk : walk[k] # EOC}
           i == First(Reusable(d, among))
<1>1. Width \in Nat \ {0} /\ SlotIds = 0 .. Width - 1
  BY WidthIs
<1>2. 0 \in live /\ walk[0] = d
  <2>1. walk \in [0 .. MaxCluster -> Stops] /\ walk[0] = d
    BY WalkIs DEF Types
  <2> QED BY <2>1, ConstantFacts
<1>3. Cardinality(live) \in Nat /\ live = 0 .. Cardinality(live) - 1
  BY ChainIsPrefix DEF Types
<1>4. SlotIds \subseteq 0 .. Width * Cardinality(live) - 1
  <2>1. Cardinality(live) >= 1
    <3>1. \A e \in Nat : 0 \in 0 .. e - 1 => e >= 1
      OBVIOUS
    <3> QED BY <1>2, <1>3, <3>1
  <2>2. Width * Cardinality(live) >= Width /\ Width * Cardinality(live) \in Nat
    <3> HIDE DEF live
    <3> QED BY <1>1, <1>3, <2>1, Z3
  <2>3. \A e \in Nat : e >= Width => 0 .. Width - 1 \subseteq 0 .. e - 1
    BY <1>1
  <2> QED BY <1>1, <2>2, <2>3
<1>5. \A j \in SlotIds : j \div Width = 0 /\ j % Width = j
  <2>1. \A n \in Nat \ {0} : \A j \in 0 .. n - 1 : j \div n = 0 /\ j % n = j
    BY Z3
  <2> QED BY <1>1, <2>1
<1>6. Matches(d, name) = {}
  <2> SUFFICES ASSUME Matches(d, name) # {} PROVE FALSE
    OBVIOUS
  <2>1. /\ Place(d, name) \in Positions /\ SlotAt(Place(d, name)) = Entry(d, name)
        /\ Entry(d, name).st = "used"
    BY PlaceIs DEF Types
  <2>2. PICK p \in Positions : p = Place(d, name)
    BY <2>1
  <2>3. p[1] \in Clusters /\ p[2] \in SlotIds /\ slots[p[1]][p[2]] = Entry(d, name)
    BY <2>1, <2>2 DEF Positions, SlotAt
  <2>4. Entry(d, name).first # Free
    BY <2>1, <2>3, ConstantFacts DEF DiskNames, Fits
  <2> QED BY <2>4 DEF Found
<1>7. ASSUME NEW j \in SlotIds, slots[d][j].st = "used", slots[d][j].name = name PROVE FALSE
  <2>1. Fits(d, j, slots[d][j])
    BY <1>7 DEF DiskNames
  <2>2. ASSUME NEW m \in 0 .. Width * Cardinality(live) - 1, m < j
        PROVE  slots[walk[m \div Width]][m % Width].st \notin {"free"}
    <3>1. m \in SlotIds
      <4>1. j \in 0 .. Width - 1 /\ m \in Int /\ m >= 0
        BY <1>1, <1>3, <2>2
      <4> QED BY <1>1, <2>2, <4>1
    <3> QED BY <1>2, <1>5, <2>1, <2>2, <3>1 DEF Fits
  <2>3. slots[walk[j \div Width]][j % Width] = slots[d][j]
    BY <1>2, <1>5
  <2>4. j \in 0 .. Width * Cardinality(live) - 1
    BY <1>4
  <2>5. j \in Matches(d, name)
    BY <1>7, <2>2, <2>3, <2>4 DEF Matches, MatchesUpTo
  <2> QED BY <1>6, <2>5
<1>8. Reusable(d, among) \in SUBSET Nat
  <2>1. SlotIds \subseteq Nat
    BY <1>1
  <2> QED BY <2>1 DEF Reusable
<1>9. i \in Reusable(d, among) /\ \A j \in Reusable(d, among) : i <= j
  BY <1>8, FirstIsLeast
<1> HIDE DEF i
<1>10. i \in among /\ i \in SlotIds
  BY <1>9 DEF Reusable
<1>11. ASSUME NEW j \in SlotIds, j < i PROVE slots[d][j].st # "free"
  <2>1. j \in Nat /\ i \in Nat /\ j \in 0 .. i
    BY <1>1, <1>10, <1>11
  <2>2. j \in among
    BY <1>10, <2>1
  <2>3. j \notin Reusable(d, among)
    BY <1>9, <1>11, <2>1
  <2> QED BY <2>2, <2>3 DEF Reusable
<1>12. Slot("used", name, x, 0).first = x /\ Slot("used", name, x, 0).name = name
  BY DEF Slot
<1>13. d = Root \/ i \in FirstSector
  BY <1>10
<1> QED BY <1>7, <1>11, <1>12, <1>13 DEF Fits, i

(* Steps that change handles only, and give them a cluster. *)
LEMMA NamesStay ==
  ASSUME Named, UNCHANGED <<fat, slots, todo>>, HandlesFull'
  PROVE  Named'
BY DEF Named, DiskNames, PendingNames, Fits

(* One write at once: f_close, f_unlink and the data of f_write. *)
LEMMA NamesAtOnce ==
  ASSUME FatFsAssumption, Types, Named, HandlesFull', todo' = <<>>,
         NEW w \in SectorWrite, Write(w), w.op \in {"slot", "data"},
         w.op = "data" => w.c # Root,
         w.op = "slot" => \/ w.slot.st = "deleted"
                          \/ /\ w.slot.st = slots[w.c][w.i].st /\ w.slot.name = slots[w.c][w.i].name
                             /\ w.slot.first \in DataClusters
  PROVE  Named'
<1>1. fat' = fat /\ slots' = SlotsAfter(w) /\ slots \in [Clusters -> [SlotIds -> SlotType]]
  BY DEF Types, Write, FatAfter
<1>2. PendingNames'
  BY DEF PendingNames
<1>3. CASE w.op = "slot" /\ w.c \in Clusters /\ w.i \in SlotIds
  <2>1. slots' = [slots EXCEPT ![w.c][w.i] = w.slot]
    BY <1>1, <1>3 DEF SlotsAfter
  <2>2. \A c \in Clusters, i \in SlotIds :
          slots'[c][i] = IF c = w.c /\ i = w.i THEN w.slot ELSE slots[c][i]
    BY <1>1, <1>3, <2>1
  <2>3. \A c \in Clusters, i \in SlotIds :
           \/ slots'[c][i] = slots[c][i]
           \/ slots'[c][i].st # "used" /\ slots'[c][i].st # "free"
           \/ /\ slots'[c][i].st = slots[c][i].st /\ slots'[c][i].name = slots[c][i].name
              /\ slots'[c][i].first \in DataClusters
    BY <1>3, <2>2
  <2>4. DiskNames'
    BY <1>1, <2>3, NamesKept DEF Named
  <2> QED BY <1>2, <2>4 DEF Named
<1>4. CASE w.op = "data" /\ w.c \in Clusters /\ w.as \in Data
  <2>1. w.as.st # "used"
    BY <1>4 DEF Data, JunkSlot, FreeSlot, Slot
  <2>2. slots' = Fill(w.c, w.s, w.as)
    BY <1>1, <1>4 DEF SlotsAfter
  <2>3. DiskNames'
    BY <1>1, <1>4, <2>1, <2>2, NamesFilled DEF Named
  <2> QED BY <1>2, <2>3 DEF Named
<1> QED BY <1>3, <1>4, SectorWriteCases

(* What fits still does when nothing was written there. *)
LEMMA FitsStill ==
  ASSUME NEW c, NEW i, NEW slot, Fits(c, i, slot), slots'[c] = slots[c]
  PROVE  Fits(c, i, slot)'
BY DEF Fits

LEMMA NamesOpenToCreate ==
  ASSUME FatFsAssumption, Types, Named, NEW path \in Paths, OpenToCreate(path)
  PROVE  Named'
<1> DEFINE d == Parent(path)
           x == First(FreeClusters)
           room == Reusable(d, FirstSector)
           slot == Slot("used", path.name, x, 0)
<1>1. /\ FreeClusters # {} /\ ~Exists(path) /\ d # Free /\ UNCHANGED <<fat, slots, rd>>
      /\ \/ /\ room # {}
            /\ todo' = <<Link(x, EOC), PutSlot(d, First(room), slot)>>
            /\ \E n \in 1 .. MaxWrite : wr' = [path |-> path, left |-> n, fil |-> Handle(d, First(room), x, 0)]
         \/ todo' = <<Link(x, EOC)>> /\ wr' = wr
  BY DEF OpenToCreate
<1>2. x \in DataClusters
  BY <1>1, TakeIs DEF Named, DiskNames
<1>3. d \in Clusters /\ path.name \in Names /\ ~Found(d, path.name)
  BY <1>1, ParentIs, ConstantFacts DEF Paths, Exists
<1>4. DiskNames /\ HandlesFull
  BY DEF Named
<1> HIDE DEF d, x
<1>5. CASE /\ room # {}
           /\ todo' = <<Link(x, EOC), PutSlot(d, First(room), slot)>>
           /\ \E n \in 1 .. MaxWrite : wr' = [path |-> path, left |-> n, fil |-> Handle(d, First(room), x, 0)]
  <2>1. FirstSector \in SUBSET SlotIds /\ \A i \in FirstSector : 0 .. i \subseteq FirstSector
    BY WidthIs DEF FirstSector, FatFsAssumption
  <2>2. Fits(d, First(room), slot)
    BY <1>2, <1>3, <1>4, <1>5, <2>1, NewNameFits
  <2>3. PICK e, i, new : e = d /\ i = First(room) /\ new = slot
    OBVIOUS
  <2> HIDE DEF room, slot
  <2>4. Fits(e, i, new)'
    BY <1>1, <2>2, <2>3, FitsStill
  <2>5. PendingNames'
    <3>1. todo' = <<Link(x, EOC), PutSlot(e, i, new)>>
      BY <1>5, <2>3
    <3>2. /\ DOMAIN todo' = {1, 2} /\ todo'[1].op = "link" /\ todo'[1].next = EOC
          /\ todo'[2].c = e /\ todo'[2].i = i /\ todo'[2].slot = new /\ todo'[2].op = "slot"
      BY <3>1 DEF Link, PutSlot
    <3> QED BY <2>4, <3>2 DEF PendingNames
  <2>6. PICK fil : fil = Handle(d, First(room), x, 0)
    OBVIOUS
  <2>7. fil.sclust \in DataClusters /\ fil.clust # Root
    BY <1>2, <2>6, ConstantFacts DEF Handle
  <2>8. wr'.fil = fil
    BY <1>5, <2>6
  <2>9. HandlesFull'
    BY <1>1, <1>4, <2>7, <2>8 DEF HandlesFull
  <2> QED BY <1>1, <1>4, <2>5, <2>9 DEF Named, DiskNames, Fits
<1>6. CASE todo' = <<Link(x, EOC)>> /\ wr' = wr
  <2>1. DOMAIN todo' = {1} /\ todo'[1].op = "link" /\ todo'[1].next = EOC
    BY <1>6 DEF Link
  <2>2. PendingNames'
    BY <2>1 DEF PendingNames
  <2>3. HandlesFull'
    BY <1>1, <1>4, <1>6 DEF HandlesFull
  <2> QED BY <1>1, <1>4, <2>2, <2>3 DEF Named, DiskNames, Fits
<1> QED BY <1>1, <1>5, <1>6

LEMMA NamesMkdir ==
  ASSUME FatFsAssumption, Types, Named, NEW name \in DirNames, Mkdir(name)
  PROVE  Named'
<1> DEFINE x == First(FreeClusters)
           room == Reusable(Root, SlotIds)
           slot == Slot("used", name, x, 0)
<1>1. /\ FreeClusters # {} /\ ~Found(Root, name) /\ UNCHANGED <<fat, slots, wr, rd>>
      /\ \/ room # {} /\ todo' = <<ZeroSector(x), Link(x, EOC), PutSlot(Root, First(room), slot)>>
         \/ todo' = <<ZeroSector(x), Link(x, EOC)>>
  BY DEF Mkdir
<1>2. x \in DataClusters /\ fat[x] = Free
  BY <1>1, TakeIs DEF Named, DiskNames
<1>3. DiskNames /\ HandlesFull
  BY DEF Named
<1>4. x # Root
  BY <1>2, ConstantFacts
<1>5. HandlesFull'
  BY <1>1, <1>3 DEF HandlesFull
<1> HIDE DEF x
<1>6. CASE room # {} /\ todo' = <<ZeroSector(x), Link(x, EOC), PutSlot(Root, First(room), slot)>>
  <2>1. SlotIds \in SUBSET SlotIds /\ \A i \in SlotIds : 0 .. i \subseteq SlotIds
    BY WidthIs
  <2>2. Fits(Root, First(room), slot)
    BY <1>1, <1>2, <1>3, <1>6, <2>1, NewNameFits, ConstantFacts
  <2>3. PICK i, new, z : i = First(room) /\ new = slot /\ z = x
    OBVIOUS
  <2> HIDE DEF room, slot
  <2>4. Fits(Root, i, new)'
    BY <1>1, <2>2, <2>3, FitsStill
  <2>5. PendingNames'
    <3>1. todo' = <<ZeroSector(z), Link(z, EOC), PutSlot(Root, i, new)>> /\ z # Root
      BY <1>4, <1>6, <2>3
    <3>2. /\ DOMAIN todo' = {1, 2, 3} /\ todo'[1].op = "zero" /\ todo'[1].c = z
          /\ todo'[2].op = "link" /\ todo'[2].next = EOC
          /\ todo'[3].c = Root /\ todo'[3].i = i /\ todo'[3].slot = new /\ todo'[3].op = "slot"
      BY <3>1 DEF Link, PutSlot, ZeroSector
    <3> QED BY <2>4, <3>1, <3>2 DEF PendingNames
  <2> QED BY <1>1, <1>3, <1>5, <2>5 DEF Named, DiskNames, Fits
<1>7. CASE todo' = <<ZeroSector(x), Link(x, EOC)>>
  <2>1. /\ DOMAIN todo' = {1, 2} /\ todo'[1].op = "zero" /\ todo'[1].c = x
        /\ todo'[2].op = "link" /\ todo'[2].next = EOC
    BY <1>7 DEF Link, ZeroSector
  <2>2. PendingNames'
    BY <1>4, <2>1 DEF PendingNames
  <2> QED BY <1>1, <1>3, <1>5, <2>2 DEF Named, DiskNames, Fits
<1> QED BY <1>1, <1>6, <1>7

(* The writes an operation has left: the next one is issued, *)
LEMMA NamesDiskStep ==
  ASSUME FatFsAssumption, Types, TodoInv, Named, DiskStep
  PROVE  Named'
<1> DEFINE w == todo[1]
<1>1. todo # <<>> /\ todo' = Tail(todo) /\ UNCHANGED <<wr, rd>> /\ Write(Head(todo))
  BY DEF DiskStep
<1>2. Head(todo) = w /\ 1 \in DOMAIN todo /\ w \in SectorWrite
  BY <1>1, TailIs
<1>3. \A k \in DOMAIN todo' : k + 1 \in DOMAIN todo /\ todo'[k] = todo[k + 1]
  <2>1. todo \in Seq(SectorWrite)
    BY DEF Types
  <2> QED BY <1>1, <2>1
<1>4. DiskNames /\ PendingNames /\ HandlesFull' /\ slots \in [Clusters -> [SlotIds -> SlotType]]
  BY <1>1 DEF Named, HandlesFull, Types
<1>5. fat' = FatAfter(w) /\ slots' = SlotsAfter(w)
  BY <1>1, <1>2 DEF Write
<1>6. ASSUME \A k \in DOMAIN todo' : todo'[k].op = "slot" => slots'[todo'[k].c] = slots[todo'[k].c]
      PROVE  PendingNames'
  <2>1. ASSUME NEW k \in DOMAIN todo', todo'[k].op = "slot"
        PROVE  Fits(todo[k].c, todo[k].i, todo[k].slot)'
    <3>1. PICK v : v = todo[k + 1] /\ v = todo'[k]
      BY <1>3
    <3>2. Fits(v.c, v.i, v.slot)
      BY <1>3, <1>4, <2>1, <3>1 DEF PendingNames
    <3>3. Fits(v.c, v.i, v.slot)'
      BY <1>6, <2>1, <3>1, <3>2, FitsStill
    <3> QED BY <3>1, <3>3
  <2>2. ASSUME NEW k \in DOMAIN todo', todo'[k].op \in {"data", "zero"}
        PROVE  /\ todo'[k].c # Root
               /\ \A j \in DOMAIN todo' : todo'[j].op = "slot" => todo'[j].c # todo'[k].c
    BY <1>3, <1>4, <2>2 DEF PendingNames
  <2>3. \A k \in DOMAIN todo' : todo'[k].op = "link" => todo'[k].next \in DataClusters \cup {EOC}
    BY <1>3, <1>4 DEF PendingNames
  <2> QED BY <2>1, <2>2, <2>3 DEF PendingNames
<1>7. CASE w.op = "link" /\ w.c \in Clusters
  <2>1. slots' = slots /\ fat' = [fat EXCEPT ![w.c] = w.next] /\ w.next # Free /\ w.next \in DataClusters \cup {EOC}
    BY <1>2, <1>4, <1>5, <1>7 DEF FatAfter, SlotsAfter, TodoInv, PendingNames
  <2>2. \A c \in Clusters : fat'[c] = fat[c] \/ fat'[c] = w.next
    BY <2>1 DEF Types
  <2>3. DiskNames'
    BY <1>4, <2>1, <2>2, ConstantFacts DEF DiskNames, Fits
  <2> QED BY <1>4, <1>6, <2>1, <2>3 DEF Named
<1>8. CASE w.op = "slot" /\ w.c \in Clusters /\ w.i \in SlotIds
  <2>1. slots' = [slots EXCEPT ![w.c][w.i] = w.slot] /\ fat' = fat
    BY <1>5, <1>8 DEF FatAfter, SlotsAfter
  <2>2. Fits(w.c, w.i, w.slot) /\ w.slot.st = "used" /\ Len(todo) = 1
    BY <1>2, <1>4, <1>8 DEF PendingNames, TodoInv
  <2>3. DiskNames'
    BY <1>4, <1>8, <2>1, <2>2, NamePut
  <2>4. DOMAIN todo' = {}
    <3>1. todo \in Seq(SectorWrite)
      BY DEF Types
    <3> QED BY <1>1, <2>2, <3>1
  <2>5. PendingNames'
    BY <2>4 DEF PendingNames
  <2> QED BY <1>4, <2>3, <2>5 DEF Named
<1>9. ASSUME w.op \in {"data", "zero"}, w.c \in Clusters, NEW s, NEW slot, slot.st # "used",
             slots' = Fill(w.c, s, slot), fat' = fat
      PROVE  Named'
  <2>1. DiskNames' /\ \A d \in Clusters \ {w.c} : slots'[d] = slots[d]
    BY <1>2, <1>4, <1>9, NamesFilled DEF PendingNames
  <2>2. ASSUME NEW k \in DOMAIN todo', todo'[k].op = "slot"
        PROVE  slots'[todo'[k].c] = slots[todo'[k].c]
    <3>1. todo'[k].c # w.c
      BY <1>2, <1>3, <1>4, <1>9, <2>2 DEF PendingNames
    <3>2. todo'[k].c \in Clusters
      BY <1>1, <2>2, TailIs, SectorWriteCases
    <3> QED BY <2>1, <3>1, <3>2
  <2> QED BY <1>4, <1>6, <2>1, <2>2 DEF Named
<1>10. CASE w.op = "data" /\ w.c \in Clusters /\ w.as \in Data
  <2>1. w.as.st # "used"
    BY <1>10 DEF Data, JunkSlot, FreeSlot, Slot
  <2>2. slots' = Fill(w.c, w.s, w.as) /\ fat' = fat
    BY <1>5, <1>10 DEF FatAfter, SlotsAfter
  <2> QED BY <1>9, <1>10, <2>1, <2>2
<1>11. CASE w.op = "zero" /\ w.c \in Clusters
  <2>1. slots' = Fill(w.c, 0, FreeSlot) /\ fat' = fat /\ FreeSlot.st # "used"
    BY <1>5, <1>11 DEF FatAfter, SlotsAfter, FreeSlot, Slot
  <2> QED BY <1>9, <1>11, <2>1
<1> QED BY <1>2, <1>7, <1>8, <1>10, <1>11, SectorWriteCases

(* or lost. *)
LEMMA NamesWriteLost ==
  ASSUME FatFsAssumption, Types, Named, WriteLost
  PROVE  Named'
<1>1. todo # <<>> /\ todo' = Tail(todo) /\ UNCHANGED <<fat, slots, wr, rd>>
  BY DEF WriteLost
<1>2. \A k \in DOMAIN todo' : k + 1 \in DOMAIN todo /\ todo'[k] = todo[k + 1]
  <2>1. todo \in Seq(SectorWrite)
    BY DEF Types
  <2> QED BY <1>1, <2>1
<1>3. PendingNames'
  <2>1. \A c, i, slot : Fits(c, i, slot)' <=> Fits(c, i, slot)
    BY <1>1 DEF Fits
  <2> QED BY <1>2, <2>1 DEF Named, PendingNames
<1> QED BY <1>1, <1>3 DEF Named, DiskNames, Fits, HandlesFull

LEMMA InitNames == FatFsAssumption /\ Init => Named
<1> SUFFICES ASSUME FatFsAssumption, Init PROVE Named
  OBVIOUS
<1>1. /\ fat = [c \in Clusters |-> IF c <= Root THEN EOC ELSE Free]
      /\ slots = [c \in Clusters |-> [i \in SlotIds |-> FreeSlot]]
      /\ wr = NoFile /\ rd = [s \in Streams |-> NoFile] /\ todo = <<>>
  BY DEF Init
<1>2. fat[Root] # Free /\ \A c \in Clusters : fat[c] \in DataClusters \cup {Free, EOC}
  BY <1>1, ConstantFacts DEF Root, Free
<1>3. \A c \in Clusters, i \in SlotIds : slots[c][i].st # "used"
  BY <1>1 DEF FreeSlot, Slot
<1>4. DiskNames
  BY <1>2, <1>3 DEF DiskNames
<1>5. PendingNames /\ HandlesFull
  BY <1>1, NothingToDo DEF PendingNames, HandlesFull
<1> QED BY <1>4, <1>5 DEF Named

LEMMA OpenNamed ==
  ASSUME FatFsAssumption, Types, Named, NEW path, Exists(path)
  PROVE  /\ OpenExisting(path).sclust \in DataClusters
         /\ OpenExisting(path).clust # Root
<1>1. PICK p, fil : p = Place(Parent(path), path.name) /\ fil = OpenExisting(path)
  OBVIOUS
<1>2. /\ p \in Positions /\ SlotAt(p).st = "used" /\ fil.sclust = SlotAt(p).first
      /\ fil.clust = fil.sclust
  BY <1>1, OpenExistingIs
<1>3. p[1] \in Clusters /\ p[2] \in SlotIds
  BY <1>2 DEF Positions
<1>4. SlotAt(p).first \in DataClusters
  BY <1>2, <1>3 DEF Named, DiskNames, Fits, SlotAt
<1> QED BY <1>1, <1>2, <1>4, ConstantFacts

LEMMA NamesStep ==
  ASSUME FatFsAssumption, Types, TodoInv, Named, [Next]_vars
  PROVE  Named'
<1>0. HandlesFull
  BY DEF Named
<1>1. ASSUME NEW path \in Paths, OpenToOverwrite(path) PROVE Named'
  <2>1. Exists(path) /\ UNCHANGED <<fat, slots, todo, rd>>
    BY <1>1 DEF OpenToOverwrite
  <2>2. PICK fil : fil = OpenExisting(path) /\ fil.sclust \in DataClusters /\ fil.clust # Root
    BY <2>1, OpenNamed
  <2>3. wr'.fil = fil
    BY <1>1, <2>2 DEF OpenToOverwrite
  <2>4. HandlesFull'
    BY <1>0, <2>1, <2>2, <2>3 DEF HandlesFull
  <2> QED BY <2>1, <2>4, NamesStay
<1>2. ASSUME NEW path \in Paths, OpenToCreate(path) PROVE Named'
  BY <1>2, NamesOpenToCreate
<1>3. ASSUME NEW path \in Paths, Unlink(path) PROVE Named'
  <2>1. Exists(path) /\ todo' = <<>> /\ Write(DeleteEntry(Place(Parent(path), path.name))) /\ UNCHANGED <<wr, rd>>
    BY <1>3 DEF Unlink, Idle
  <2>2. PICK w \in SectorWrite :
          w = DeleteEntry(Place(Parent(path), path.name)) /\ w.op = "slot" /\ w.slot.st = "deleted"
    BY <2>1, OpenExistingIs, DeleteEntryIs
  <2>3. HandlesFull'
    BY <1>0, <2>1 DEF HandlesFull
  <2> QED BY <2>1, <2>2, <2>3, NamesAtOnce
<1>4. ASSUME NEW path \in Paths, NEW s \in Streams, StreamOpen(s, path) PROVE Named'
  <2>1. Exists(path) /\ UNCHANGED <<fat, slots, todo, wr>>
    BY <1>4 DEF StreamOpen
  <2>2. PICK fil : fil = OpenExisting(path) /\ fil.sclust \in DataClusters /\ fil.clust # Root
    BY <2>1, OpenNamed
  <2>3. rd' = [rd EXCEPT ![s] = fil]
    BY <1>4, <2>2 DEF StreamOpen
  <2>4. HandlesFull'
    BY <1>0, <2>1, <2>2, <2>3 DEF HandlesFull, Types
  <2> QED BY <2>1, <2>4, NamesStay
<1>5. ASSUME NEW name \in DirNames, Mkdir(name) PROVE Named'
  BY <1>5, NamesMkdir
<1>6. ASSUME NEW name \in DirNames, Rmdir(name) PROVE Named'
  <2>1. Found(Root, name) /\ todo' = <<>> /\ Write(DeleteEntry(Place(Root, name))) /\ UNCHANGED <<wr, rd>>
    BY <1>6 DEF Rmdir, Idle
  <2>2. Place(Root, name) \in Positions
    BY <2>1, PlaceIs, ConstantFacts DEF Found, Types
  <2>3. PICK w \in SectorWrite : w = DeleteEntry(Place(Root, name)) /\ w.op = "slot" /\ w.slot.st = "deleted"
    BY <2>2, DeleteEntryIs
  <2>4. HandlesFull'
    BY <1>0, <2>1 DEF HandlesFull
  <2> QED BY <2>1, <2>3, <2>4, NamesAtOnce
<1>7. ASSUME NEW c \in Clusters, NEW s \in 0 .. SectorsPerCluster - 1, NEW as \in Data,
             wr # NoFile, wr.left > 0, todo = <<>>, c # Root,
             Write(PutData(c, s, as)), wr' = Advance(c), UNCHANGED <<rd, todo>>
      PROVE  Named'
  <2>1. PICK w \in SectorWrite : w = PutData(c, s, as) /\ w.op = "data" /\ w.c = c
    BY WritesAreTyped DEF PutData
  <2>2. wr'.fil.sclust = wr.fil.sclust /\ wr'.fil.clust = c
    BY <1>7, AdvanceIs
  <2>3. HandlesFull'
    BY <1>0, <1>7, <2>2 DEF HandlesFull
  <2> QED BY <1>7, <2>1, <2>3, NamesAtOnce
<1>8. CASE WriteInCluster
  <2>1. PICK as \in Data : Write(PutData(wr.fil.clust, wr.fil.pos % SectorsPerCluster, as))
    BY <1>8 DEF WriteInCluster
  <2>2. wr # NoFile /\ todo = <<>> /\ wr.left > 0 /\ wr' = Advance(wr.fil.clust) /\ UNCHANGED <<rd, todo>>
    BY <1>8 DEF WriteInCluster
  <2>3. wr.fil.clust \in Clusters /\ wr.fil.pos \in Sizes
    BY <2>2, WriterIs
  <2>4. wr.fil.pos % SectorsPerCluster \in 0 .. SectorsPerCluster - 1
    <3>1. wr.fil.pos \in Nat
      BY <2>3, ConstantFacts
    <3> QED BY <3>1, ConstantFacts
  <2>5. PICK c \in Clusters, s \in 0 .. SectorsPerCluster - 1 :
          c = wr.fil.clust /\ s = wr.fil.pos % SectorsPerCluster /\ c # Root
    BY <1>0, <2>2, <2>3, <2>4 DEF HandlesFull
  <2> QED BY <1>7, <2>1, <2>2, <2>5
<1>9. CASE WriteNextCluster
  <2>1. PICK as \in Data : Write(PutData(fat[wr.fil.clust], 0, as))
    BY <1>9 DEF WriteNextCluster
  <2>2. /\ wr # NoFile /\ todo = <<>> /\ wr.left > 0 /\ fat[wr.fil.clust] < EOC
        /\ wr' = Advance(fat[wr.fil.clust]) /\ UNCHANGED <<rd, todo>>
    BY <1>9 DEF WriteNextCluster
  <2>3. fat[wr.fil.clust] \in Clusters \cup {EOC}
    BY <2>2, WriterIs DEF Types
  <2>4. fat[wr.fil.clust] \in Clusters /\ fat[wr.fil.clust] # Root
    BY <2>2, <2>3, WriterIs, ConstantFacts DEF Named, DiskNames
  <2>5. PICK c \in Clusters : c = fat[wr.fil.clust] /\ c # Root
    BY <2>4
  <2> QED BY <1>7, <2>1, <2>2, <2>5, ConstantFacts
<1>10. ASSUME wr # NoFile, wr'.fil.sclust = wr.fil.sclust, wr'.fil.clust # Root, UNCHANGED <<fat, slots, rd>>,
              \/ UNCHANGED todo
              \/ \A k \in DOMAIN todo' : \/ todo'[k].op = "link" /\ todo'[k].next \in DataClusters \cup {EOC}
                                         \/ todo'[k].op = "data" /\ todo'[k].c # Root
       PROVE  Named'
  <2>1. HandlesFull'
    BY <1>0, <1>10 DEF HandlesFull
  <2>2. CASE UNCHANGED todo
    BY <1>10, <2>1, <2>2, NamesStay
  <2>3. CASE \A k \in DOMAIN todo' : \/ todo'[k].op = "link" /\ todo'[k].next \in DataClusters \cup {EOC}
                                     \/ todo'[k].op = "data" /\ todo'[k].c # Root
    <3>1. PendingNames'
      BY <2>3 DEF PendingNames
    <3> QED BY <1>10, <2>1, <3>1 DEF Named, DiskNames, Fits
  <2> QED BY <1>10, <2>2, <2>3
<1>11. CASE WriteNewCluster
  <2>1. PICK x, as : /\ FreeClusters # {} /\ x = First(FreeClusters) /\ wr' = Advance(x)
                     /\ todo' = <<Link(wr.fil.clust, x), Link(x, EOC), PutData(x, 0, as)>>
    BY <1>11 DEF WriteNewCluster
  <2>2. wr # NoFile /\ wr.left > 0 /\ UNCHANGED <<fat, slots, rd>>
    BY <1>11 DEF WriteNewCluster
  <2>3. wr'.fil.sclust = wr.fil.sclust /\ wr'.fil.clust = x /\ x \in DataClusters
    BY <2>1, <2>2, TakeIs, AdvanceIs DEF Named, DiskNames
  <2>4. \A k \in DOMAIN todo' : \/ todo'[k].op = "link" /\ todo'[k].next \in DataClusters \cup {EOC}
                                \/ todo'[k].op = "data" /\ todo'[k].c # Root
    <3>1. /\ DOMAIN todo' = {1, 2, 3}
          /\ todo'[1].op = "link" /\ todo'[1].next = x
          /\ todo'[2].op = "link" /\ todo'[2].next = EOC
          /\ todo'[3].op = "data" /\ todo'[3].c = x
      BY <2>1 DEF Link, PutData
    <3> QED BY <2>3, <3>1, ConstantFacts
  <2>5. wr'.fil.clust # Root
    BY <2>3, ConstantFacts
  <2> QED BY <1>10, <2>2, <2>3, <2>4, <2>5
<1>12. CASE WriteDenied
  <2>1. wr # NoFile /\ wr' = [wr EXCEPT !.left = 0] /\ UNCHANGED <<fat, slots, rd, todo>>
    BY <1>12 DEF WriteDenied
  <2>2. PICK q \in WriterType : q = wr
    BY <2>1 DEF Types
  <2>3. wr' = [q EXCEPT !.left = 0]
    BY <2>1, <2>2
  <2>4. wr'.fil = wr.fil
    BY <2>2, <2>3 DEF WriterType
  <2> QED BY <1>0, <1>10, <2>1, <2>4 DEF HandlesFull
<1>13. CASE CloseWriter
  <2>1. /\ wr # NoFile /\ wr' = NoFile /\ todo' = <<>> /\ UNCHANGED <<rd, todo>>
        /\ Write(CloseEntry(wr.fil)) \/ UNCHANGED <<fat, slots>>
    BY <1>13 DEF CloseWriter
  <2>2. PICK fil \in HandleType : fil = wr.fil
    BY <2>1 DEF Types, WriterType
  <2>3. HandlesFull' /\ fil.sclust \in DataClusters
    BY <1>0, <2>1, <2>2 DEF HandlesFull
  <2>4. CASE Write(CloseEntry(fil))
    <3>1. PICK w \in SectorWrite :
            /\ w = CloseEntry(fil) /\ w.op = "slot" /\ w.c = fil.dir /\ w.i = fil.idx
            /\ w.slot.st = slots[fil.dir][fil.idx].st /\ w.slot.name = slots[fil.dir][fil.idx].name
            /\ w.slot.first = fil.sclust
      BY CloseEntryIs
    <3> QED BY <2>1, <2>3, <2>4, <3>1, NamesAtOnce
  <2>5. CASE UNCHANGED <<fat, slots>>
    BY <2>1, <2>3, <2>5, NamesStay
  <2> QED BY <2>1, <2>2, <2>4, <2>5
<1>14. ASSUME NEW s \in Streams, StreamClose(s) PROVE Named'
  <2>1. /\ rd[s] # NoFile /\ rd' = [rd EXCEPT ![s] = NoFile] /\ todo' = <<>> /\ UNCHANGED <<wr, todo>>
        /\ Write(CloseEntry(rd[s])) \/ UNCHANGED <<fat, slots>>
    BY <1>14 DEF StreamClose, Idle
  <2>2. PICK fil \in HandleType : fil = rd[s]
    BY <2>1 DEF Types
  <2>3. HandlesFull' /\ fil.sclust \in DataClusters
    BY <1>0, <2>1, <2>2 DEF HandlesFull, Types
  <2>4. CASE Write(CloseEntry(fil))
    <3>1. PICK w \in SectorWrite :
            /\ w = CloseEntry(fil) /\ w.op = "slot" /\ w.c = fil.dir /\ w.i = fil.idx
            /\ w.slot.st = slots[fil.dir][fil.idx].st /\ w.slot.name = slots[fil.dir][fil.idx].name
            /\ w.slot.first = fil.sclust
      BY CloseEntryIs
    <3> QED BY <2>1, <2>3, <2>4, <3>1, NamesAtOnce
  <2>5. CASE UNCHANGED <<fat, slots>>
    BY <2>1, <2>3, <2>5, NamesStay
  <2> QED BY <2>1, <2>2, <2>4, <2>5
<1>15. CASE DiskStep
  BY <1>15, NamesDiskStep
<1>16. CASE WriteBreaks
  <2> DEFINE Ends(c) == wr' = [wr EXCEPT !.left = 0, !.fil.clust = c]
  <2>1. /\ wr # NoFile /\ UNCHANGED <<fat, slots, rd>>
        /\ \/ Ends(wr.fil.clust) /\ UNCHANGED todo
           \/ fat[wr.fil.clust] < EOC /\ Ends(fat[wr.fil.clust]) /\ UNCHANGED todo
           \/ /\ FreeClusters # {} /\ Ends(First(FreeClusters))
              /\ todo' = <<Link(wr.fil.clust, First(FreeClusters)), Link(First(FreeClusters), EOC)>>
    BY <1>16 DEF WriteBreaks
  <2>2. \/ UNCHANGED todo
        \/ \A k \in DOMAIN todo' : \/ todo'[k].op = "link" /\ todo'[k].next \in DataClusters \cup {EOC}
                                   \/ todo'[k].op = "data" /\ todo'[k].c # Root
    <3>1. FreeClusters # {} => First(FreeClusters) \in DataClusters
      BY TakeIs DEF Named, DiskNames
    <3>2. CASE FreeClusters # {} /\ todo' = <<Link(wr.fil.clust, First(FreeClusters)), Link(First(FreeClusters), EOC)>>
      <4>1. /\ DOMAIN todo' = {1, 2} /\ todo'[1].op = "link" /\ todo'[2].op = "link"
            /\ todo'[1].next = First(FreeClusters) /\ todo'[2].next = EOC
        BY <3>2 DEF Link
      <4> QED BY <3>1, <3>2, <4>1
    <3> QED BY <2>1, <3>2, Zenon
  <2>3. PICK c \in Clusters : Ends(c) /\ c # Root
    <3>0. DiskNames /\ wr.fil.clust # Root
      BY <1>0, <2>1 DEF Named, HandlesFull
    <3>1. wr.fil.clust \in Clusters /\ fat[wr.fil.clust] \in Clusters \cup {EOC}
      BY <2>1, WriterIs DEF Types
    <3>2. fat[wr.fil.clust] < EOC => fat[wr.fil.clust] \in Clusters /\ fat[wr.fil.clust] # Root
      BY <3>0, <3>1, ConstantFacts DEF DiskNames
    <3>3. FreeClusters # {} => First(FreeClusters) \in Clusters /\ First(FreeClusters) # Root
      BY <3>0, TakeIs DEF DiskNames
    <3> QED BY <2>1, <3>0, <3>1, <3>2, <3>3
  <2>4. wr'.fil.sclust = wr.fil.sclust /\ wr'.fil.clust # Root
    BY <2>1, <2>3, GivingUpIs
  <2> QED BY <1>10, <2>1, <2>2, <2>4
<1>17. CASE WriteLost
  BY <1>17, NamesWriteLost
<1>18. CASE Crash
  <2>1. wr' = NoFile /\ rd' = [s \in Streams |-> NoFile] /\ todo' = <<>> /\ UNCHANGED <<fat, slots>>
    BY <1>18 DEF Crash
  <2>2. PendingNames' /\ HandlesFull'
    BY <2>1 DEF PendingNames, HandlesFull
  <2> QED BY <2>1, <2>2 DEF Named, DiskNames, Fits
<1>19. CASE UNCHANGED vars
  <2>1. UNCHANGED <<fat, slots, wr, rd, todo>>
    BY <1>19 DEF vars
  <2>2. HandlesFull'
    BY <1>0, <2>1 DEF HandlesFull
  <2> QED BY <2>1, <2>2, NamesStay
<1> QED BY <1>1, <1>2, <1>3, <1>4, <1>5, <1>6, <1>8, <1>9, <1>11, <1>12, <1>13, <1>14, <1>15, <1>16, <1>17,
           <1>18, <1>19 DEF Next

LEMMA NamedHolds == Spec => []Named
<1> USE FatFsAssumption
<1>1. Init => Named
  BY InitNames
<1>2. IInv /\ Named /\ [Next]_vars => Named'
  BY NamesStep DEF IInv
<1> QED BY <1>1, <1>2, InvHolds, PTL DEF Spec

(* A name occurs once in a directory, whatever crashes and failed writes   *)
(* have done to the volume and whatever the data of files: f_open and      *)
(* f_mkdir put a new entry where their search would have passed, and       *)
(* nothing makes an entry look never used that another one follows. Even   *)
(* data or a new directory written over a damaged one takes all its        *)
(* entries at once.                                                        *)
THEOREM UniqueNamesHolds == Spec => []UniqueNames
<1>1. Named => UniqueNames
  <2> SUFFICES ASSUME Named, NEW e \in Entries, NEW f \in Entries,
                      e[1] = f[1], slots[e[1]][e[2]].name = slots[f[1]][f[2]].name
               PROVE  e = f
    BY DEF UniqueNames
  <2>1. /\ e \in Positions /\ f \in Positions
        /\ slots[e[1]][e[2]].st = "used" /\ slots[f[1]][f[2]].st = "used"
    BY DEF Entries, Positions
  <2>2. /\ e[1] \in Clusters /\ e[2] \in SlotIds /\ f[1] \in Clusters /\ f[2] \in SlotIds
        /\ e = <<e[1], e[2]>> /\ f = <<f[1], f[2]>>
    BY <2>1 DEF Positions
  <2>3. Fits(e[1], e[2], slots[e[1]][e[2]])
    BY <2>1, <2>2 DEF Named, DiskNames
  <2>4. e[2] = f[2]
    BY <2>1, <2>2, <2>3 DEF Fits
  <2> QED BY <2>2, <2>4
<1> QED BY <1>1, NamedHolds, PTL
-----------------------------------------------------------------------------
(* Chains, while nothing is damaged.                                       *)
Undamaged == \A c \in DataClusters : ~Damaged(c)

(* The clusters of a chain are marked as taken. *)
LEMMA ChainMarked ==
  ASSUME FatFsAssumption, Types, Named, Undamaged, todo = <<>>,
         NEW a \in DataClusters, Homes(a) # {}, NEW i \in 0 .. MaxCluster, Walk(a)[i] # EOC
  PROVE  Walk(a)[i] \in DataClusters /\ fat[Walk(a)[i]] # Free
<1> DEFINE Good(c) == c \in DataClusters /\ fat[c] # Free
           S == {k \in 0 .. MaxCluster : Walk(a)[k] = EOC \/ Good(Walk(a)[k])}
<1>1. PICK w : w = Walk(a)
  OBVIOUS
<1>2. /\ w \in [0 .. MaxCluster -> Stops] /\ w[0] = a
      /\ \A k \in 0 .. MaxCluster - 1 : w[k + 1] = IF w[k] = EOC THEN EOC ELSE fat[w[k]]
  BY <1>1, WalkIs, ConstantFacts DEF Types
<1>3. \A c \in DataClusters : Homes(c) # {} \/ Before(c) # {} => fat[c] # Free
  BY NothingToDo DEF Undamaged, Damaged, Untaken
<1>4. MaxCluster \in Nat /\ DataClusters \subseteq Clusters
  BY ConstantFacts
<1>5. 0 \in S
  BY <1>1, <1>2, <1>3, <1>4
<1>6. ASSUME NEW k \in 0 .. MaxCluster - 1, k \in S PROVE k + 1 \in S
  <2>1. k + 1 \in 0 .. MaxCluster
    BY <1>4, <1>6
  <2>2. CASE w[k] = EOC
    BY <1>1, <1>2, <2>1, <2>2
  <2>3. CASE Good(w[k])
    <3>1. PICK c \in DataClusters : c = w[k] /\ c # EOC
      BY <2>3, ConstantFacts
    <3>2. w[k + 1] = fat[c] /\ fat[c] # Free /\ fat[c] \in DataClusters \cup {Free, EOC}
      BY <1>2, <1>4, <2>3, <3>1 DEF Named, DiskNames
    <3>3. w[k + 1] \in DataClusters => c \in Before(w[k + 1])
      BY <1>4, <3>2 DEF Before
    <3> QED BY <1>1, <1>3, <2>1, <3>2, <3>3
  <2> QED BY <1>1, <1>6, <2>2, <2>3
<1> HIDE DEF Good
<1>7. S \in SUBSET (0 .. MaxCluster)
  OBVIOUS
<1> HIDE DEF S
<1>8. S = 0 .. MaxCluster
  BY <1>4, <1>5, <1>6, <1>7, FirstFailure
<1> QED BY <1>8 DEF S, Good

(* Two chains have no cluster in common. *)
LEMMA ChainsApart ==
  ASSUME FatFsAssumption, Types, Named, Undamaged, todo = <<>>,
         NEW a \in DataClusters, NEW b \in DataClusters, a # b, Homes(a) # {}, Homes(b) # {},
         NEW i \in 0 .. MaxCluster, NEW j \in 0 .. MaxCluster, Walk(a)[i] = Walk(b)[j]
  PROVE  Walk(a)[i] = EOC
<1> DEFINE S == {k \in 0 .. MaxCluster : \A l \in 0 .. MaxCluster : Walk(a)[k] = Walk(b)[l] => Walk(a)[k] = EOC}
<1>1. PICK v, w : v = Walk(a) /\ w = Walk(b)
  OBVIOUS
<1>0. a \in Clusters /\ b \in Clusters /\ fat \in [Clusters -> Clusters \cup {EOC}]
  BY ConstantFacts DEF Types
<1>2. /\ v \in [0 .. MaxCluster -> Stops] /\ v[0] = a
      /\ \A k \in 0 .. MaxCluster - 1 : v[k + 1] = IF v[k] = EOC THEN EOC ELSE fat[v[k]]
  BY <1>0, <1>1, WalkIs
<1>3. /\ w \in [0 .. MaxCluster -> Stops] /\ w[0] = b
      /\ \A k \in 0 .. MaxCluster - 1 : w[k + 1] = IF w[k] = EOC THEN EOC ELSE fat[w[k]]
  BY <1>0, <1>1, WalkIs
<1>4. MaxCluster \in Nat /\ DataClusters \subseteq Clusters /\ EOC \notin DataClusters
  BY ConstantFacts
<1>5. /\ \A k \in 0 .. MaxCluster : v[k] = EOC \/ v[k] \in DataClusters
      /\ \A k \in 0 .. MaxCluster : w[k] = EOC \/ w[k] \in DataClusters
  BY <1>1, ChainMarked
<1>6. \A c \in DataClusters : /\ ~(Homes(c) # {} /\ Before(c) # {})
                              /\ \A x, y \in Before(c) : x = y
  BY DEF Undamaged, Damaged, Several
<1>7. ASSUME NEW l \in 0 .. MaxCluster, w[l] # EOC, l # 0
      PROVE  l - 1 \in 0 .. MaxCluster /\ w[l - 1] \in Before(w[l]) /\ w[l - 1] # EOC
  <2>1. l - 1 \in 0 .. MaxCluster - 1 /\ l - 1 \in 0 .. MaxCluster /\ l - 1 + 1 = l
    BY <1>4, <1>7
  <2>2. w[l] = IF w[l - 1] = EOC THEN EOC ELSE fat[w[l - 1]]
    BY <1>3, <2>1
  <2>3. w[l - 1] # EOC /\ w[l - 1] \in Clusters
    BY <1>4, <1>5, <1>7, <2>1, <2>2
  <2> QED BY <2>1, <2>2, <2>3 DEF Before
<1>8. 0 \in S
  <2> SUFFICES ASSUME NEW l \in 0 .. MaxCluster, v[0] = w[l] PROVE v[0] = EOC
    BY <1>1, <1>4
  <2>1. l # 0
    BY <1>2, <1>3
  <2> QED BY <1>2, <1>4, <1>6, <1>7, <2>1
<1>9. ASSUME NEW k \in 0 .. MaxCluster - 1, k \in S PROVE k + 1 \in S
  <2>1. k + 1 \in 0 .. MaxCluster /\ k \in 0 .. MaxCluster
    BY <1>4, <1>9
  <2> SUFFICES ASSUME NEW l \in 0 .. MaxCluster, v[k + 1] = w[l], v[k + 1] # EOC PROVE FALSE
    BY <1>1, <2>1
  <2>2. v[k] # EOC /\ v[k] \in DataClusters /\ v[k + 1] = fat[v[k]] /\ v[k + 1] \in DataClusters
    BY <1>2, <1>5, <2>1
  <2>3. v[k] \in Before(v[k + 1])
    BY <1>4, <2>2 DEF Before
  <2>4. l # 0
    BY <1>3, <1>6, <2>2, <2>3
  <2>5. l - 1 \in 0 .. MaxCluster /\ w[l - 1] \in Before(w[l]) /\ w[l - 1] # EOC
    BY <1>7, <2>4
  <2>6. v[k] = w[l - 1]
    BY <1>6, <2>2, <2>3, <2>5
  <2> QED BY <1>1, <1>9, <2>2, <2>5, <2>6
<1>10. S \in SUBSET (0 .. MaxCluster)
  OBVIOUS
<1> HIDE DEF S
<1>11. S = 0 .. MaxCluster
  BY <1>4, <1>8, <1>9, <1>10, FirstFailure
<1> QED BY <1>11 DEF S

(* As long as no power is lost and no sector write fails, a reader walks   *)
(* over clusters of its own file only, whatever is written, removed or     *)
(* created meanwhile, the file it reads included: its handle counts as a   *)
(* reference to its first cluster until it is closed.                      *)
THEOREM ReadersAloneHolds == Spec => []ReadersAlone
<1> USE FatFsAssumption
<1>1. IInv /\ Named => ReadersAlone
  <2> SUFFICES ASSUME IInv, Named, Idle, crashes = 0, failures = 0,
                      NEW s \in Streams, rd[s] # NoFile
               PROVE  /\ \A c \in ChainOf(rd[s].sclust) : fat[c] # Free
                      /\ \A e \in Entries :
                           LET first == slots[e[1]][e[2]].first IN
                           first # rd[s].sclust => ChainOf(first) \cap ChainOf(rd[s].sclust) = {}
    BY DEF ReadersAlone
  <2>1. Types /\ Undamaged /\ todo = <<>>
    BY NothingDamaged DEF IInv, Idle, Undamaged
  <2>2. PICK a \in DataClusters : a = rd[s].sclust
    BY DEF Named, HandlesFull
  <2>3. Homes(a) # {}
    <3>1. rd[s].dir \in Clusters /\ rd[s].idx \in SlotIds
      BY <2>1 DEF Types, HandleType
    <3> QED BY <2>2, <3>1 DEF Homes, Held, HeldBy, Positions
  <2>4. EOC \notin Clusters
    BY ConstantFacts
  <2>5. ASSUME NEW c \in ChainOf(a) PROVE fat[c] # Free
    <3>1. PICK k \in 0 .. MaxCluster : c = Walk(a)[k] /\ c # EOC
      BY <2>4 DEF ChainOf
    <3> QED BY <2>1, <2>3, <3>1, ChainMarked
  <2>6. ASSUME NEW e \in Entries, slots[e[1]][e[2]].first # a,
               NEW c \in ChainOf(slots[e[1]][e[2]].first) \cap ChainOf(a)
        PROVE  FALSE
    <3>1. e \in Positions /\ e[1] \in Clusters /\ e[2] \in SlotIds /\ slots[e[1]][e[2]].st = "used"
      BY DEF Entries, Positions
    <3>2. PICK b \in DataClusters : b = slots[e[1]][e[2]].first
      BY <3>1 DEF Named, DiskNames, Fits
    <3>3. Homes(b) # {}
      BY <3>1, <3>2 DEF Homes, Shows, SlotAt
    <3>4. PICK i \in 0 .. MaxCluster, j \in 0 .. MaxCluster : c = Walk(a)[i] /\ c = Walk(b)[j] /\ c # EOC
      BY <2>4, <2>6, <3>2 DEF ChainOf
    <3>5. a # b /\ Walk(a)[i] = Walk(b)[j]
      BY <2>6, <3>2, <3>4
    <3>6. Walk(a)[i] = EOC
      BY <2>1, <2>3, <3>3, <3>5, ChainsApart
    <3> QED BY <3>4, <3>6
  <2> QED BY <2>2, <2>5, <2>6
<1> QED BY <1>1, InvHolds, NamedHolds, PTL
-----------------------------------------------------------------------------
(* What the volume shows, by the positions of entries: where a name stands *)
(* in a directory, which cluster holds the directory of a path, and where  *)
(* the path stands.                                                        *)
Here(x, d, name) == x[1] = d /\ SlotAt(x).st = "used" /\ SlotAt(x).name = name
DirOf(path, d) ==
  \/ path.dir = Top /\ d = Root
  \/ path.dir # Top /\ \E x \in Positions : Here(x, Root, path.dir) /\ SlotAt(x).first = d
At(path, x) == DirOf(path, x[1]) /\ Here(x, x[1], path.name)

(* A name stands at one place of a directory, and a path at one place of   *)
(* the volume, where no other path does.                                   *)
Once ==
  /\ \A x, y \in Positions : \A d, name : Here(x, d, name) /\ Here(y, d, name) => x = y
  /\ \A p, q \in Paths, x, y \in Positions : At(p, x) /\ At(q, y) => (p = q <=> x = y)

(* The refinement mapping says this of the files and directories.          *)
FileShown(path) ==
  /\ \A x \in Positions : At(path, x) => ShownFiles[path] = SlotAt(x).size
  /\ (\A x \in Positions : ~At(path, x)) => ShownFiles[path] = -1
View ==
  /\ Once
  /\ \A path \in Paths : FileShown(path)
  /\ \A name \in DirNames : name \in ShownDirs <=> \E x \in Positions : Here(x, Root, name)

LEMMA OnceIs ==
  ASSUME FatFsAssumption, Types, Named, Undamaged
  PROVE  Once
<1>1. ASSUME NEW x \in Positions, NEW y \in Positions, NEW d, NEW name, Here(x, d, name), Here(y, d, name)
      PROVE  x = y
  <2>1. /\ x[1] \in Clusters /\ x[2] \in SlotIds /\ x = <<x[1], x[2]>>
        /\ y[1] \in Clusters /\ y[2] \in SlotIds /\ y = <<y[1], y[2]>>
    BY DEF Positions
  <2>2. Fits(x[1], x[2], slots[x[1]][x[2]])
    BY <1>1, <2>1 DEF Named, DiskNames, Here, SlotAt
  <2>3. y[2] = x[2]
    BY <1>1, <2>1, <2>2 DEF Fits, Here, SlotAt
  <2> QED BY <1>1, <2>1, <2>3 DEF Here
<1>2. ASSUME NEW x \in Positions, SlotAt(x).st = "used" PROVE SlotAt(x).first \in DataClusters
  BY <1>2 DEF Named, DiskNames, Fits, SlotAt, Positions
<1>3. ASSUME NEW x \in Positions, NEW y \in Positions, SlotAt(x).st = "used", SlotAt(y).st = "used",
             SlotAt(x).first = SlotAt(y).first
      PROVE  x = y
  <2>1. PICK c \in DataClusters : c = SlotAt(x).first
    BY <1>2, <1>3
  <2>2. x \in Homes(c) /\ y \in Homes(c)
    BY <1>3, <2>1 DEF Homes, Shows
  <2> QED BY <2>2 DEF Undamaged, Damaged, Several
<1>4. ASSUME NEW p \in Paths, NEW d, NEW e, DirOf(p, d), DirOf(p, e) PROVE d = e
  <2>1. CASE p.dir = Top
    BY <1>4, <2>1 DEF DirOf
  <2>2. CASE p.dir # Top
    <3>1. PICK x \in Positions, y \in Positions : /\ Here(x, Root, p.dir) /\ SlotAt(x).first = d
                                                  /\ Here(y, Root, p.dir) /\ SlotAt(y).first = e
      BY <1>4, <2>2 DEF DirOf
    <3>2. x = y
      BY <1>1, <3>1
    <3> QED BY <3>1, <3>2
  <2> QED BY <2>1, <2>2
<1>5. ASSUME NEW p \in Paths, NEW q \in Paths, NEW d, DirOf(p, d), DirOf(q, d) PROVE p.dir = q.dir
  <2>1. \A r \in Paths : DirOf(r, d) /\ r.dir # Top =>
          \E x \in Positions : SlotAt(x).st = "used" /\ SlotAt(x).name = r.dir /\ SlotAt(x).first = d
    BY DEF DirOf, Here
  <2>2. \A r \in Paths : DirOf(r, d) => (r.dir = Top <=> d = Root)
    <3>1. ASSUME NEW r \in Paths, DirOf(r, d), r.dir # Top PROVE d # Root
      <4>1. d \in DataClusters
        BY <1>2, <2>1, <3>1
      <4> QED BY <4>1, ConstantFacts
    <3> QED BY <3>1 DEF DirOf
  <2>3. CASE p.dir = Top \/ q.dir = Top
    BY <1>5, <2>2, <2>3
  <2>4. CASE p.dir # Top /\ q.dir # Top
    <3>1. PICK x \in Positions : SlotAt(x).st = "used" /\ SlotAt(x).name = p.dir /\ SlotAt(x).first = d
      BY <1>5, <2>1, <2>4
    <3>2. PICK y \in Positions : SlotAt(y).st = "used" /\ SlotAt(y).name = q.dir /\ SlotAt(y).first = d
      BY <1>5, <2>1, <2>4
    <3>3. x = y
      BY <1>3, <3>1, <3>2
    <3> QED BY <3>1, <3>2, <3>3
  <2> QED BY <2>3, <2>4
<1>6. ASSUME NEW p \in Paths, NEW q \in Paths, NEW x \in Positions, NEW y \in Positions, At(p, x), At(q, y)
      PROVE  p = q <=> x = y
  <2>1. p = q => x = y
    BY <1>1, <1>4, <1>6 DEF At
  <2>2. ASSUME x = y PROVE p = q
    <3>1. p.dir = q.dir
      BY <1>5, <1>6, <2>2 DEF At
    <3>2. p.name = q.name
      BY <1>6, <2>2 DEF At, Here
    <3> QED BY <3>1, <3>2 DEF Paths
  <2> QED BY <2>1, <2>2
<1> QED BY <1>1, <1>6 DEF Once

(* The entries shown under a name are those in use with it: no entry never *)
(* used comes before them.                                                 *)
LEMMA ShownIs ==
  ASSUME FatFsAssumption, Types, DiskNames, NEW d \in Clusters, NEW name
  PROVE  Shown(d, name) = {SlotAt(x) : x \in {y \in Positions : Here(y, d, name)}}
<1> DEFINE places == {j \in SlotIds : /\ slots[d][j].st = "used"
                                      /\ slots[d][j].name = name
                                      /\ \A m \in 0 .. j - 1 : slots[d][m].st # "free"}
<1>1. ASSUME NEW j \in SlotIds
      PROVE  j \in places <=> slots[d][j].st = "used" /\ slots[d][j].name = name
  <2> SUFFICES ASSUME slots[d][j].st = "used", NEW m \in 0 .. j - 1 PROVE slots[d][m].st # "free"
    OBVIOUS
  <2>1. Fits(d, j, slots[d][j])
    BY DEF DiskNames
  <2>2. m \in SlotIds /\ m < j
    <3>1. Width \in Nat \ {0} /\ SlotIds = 0 .. Width - 1
      BY WidthIs
    <3> QED BY <3>1
  <2> QED BY <2>1, <2>2 DEF Fits
<1>2. Shown(d, name) = {slots[d][i] : i \in places}
  BY DEF Shown
<1>3. places \subseteq SlotIds
  OBVIOUS
<1> HIDE DEF places
<1>4. ASSUME NEW s PROVE s \in Shown(d, name) <=> \E x \in Positions : Here(x, d, name) /\ s = SlotAt(x)
  <2>1. ASSUME s \in Shown(d, name) PROVE \E x \in Positions : Here(x, d, name) /\ s = SlotAt(x)
    <3>1. PICK i \in SlotIds : s = slots[d][i] /\ i \in places
      BY <1>2, <1>3, <2>1
    <3>2. PICK x \in Positions : x[1] = d /\ x[2] = i
      <4>1. <<d, i>> \in Positions
        BY DEF Positions
      <4> QED BY <4>1
    <3> QED BY <1>1, <3>1, <3>2 DEF Here, SlotAt
  <2>2. ASSUME NEW x \in Positions, Here(x, d, name), s = SlotAt(x) PROVE s \in Shown(d, name)
    <3>1. x[2] \in SlotIds /\ x[1] = d
      BY <2>2 DEF Positions, Here
    <3>2. x[2] \in places /\ s = slots[d][x[2]]
      BY <1>1, <2>2, <3>1 DEF Here, SlotAt
    <3> QED BY <1>2, <3>2
  <2> QED BY <2>1, <2>2
<1> QED BY <1>4

LEMMA ViewIs == FatFsAssumption /\ Types /\ Named /\ Undamaged => View
<1> SUFFICES ASSUME FatFsAssumption, Types, Named, Undamaged PROVE View
  OBVIOUS
<1>1. Once /\ DiskNames
  BY OnceIs DEF Named
<1>2. Root \in Clusters /\ 0 \in Sizes
  BY ConstantFacts
<1>3. ASSUME NEW path \in Paths PROVE FileShown(path)
  <2>1. ASSUME NEW e PROVE e \in ShownAt(path) <=> \E x \in Positions : At(path, x) /\ e = SlotAt(x)
    <3>1. CASE path.dir = Top
      <4>1. e \in ShownAt(path) <=> \E x \in Positions : Here(x, Root, path.name) /\ e = SlotAt(x)
        BY <1>1, <1>2, <3>1, ShownIs DEF ShownAt
      <4>2. \A x \in Positions : At(path, x) <=> Here(x, Root, path.name)
        BY <3>1 DEF At, DirOf, Here
      <4> QED BY <4>1, <4>2
    <3>2. CASE path.dir # Top
      <4>1. ShownAt(path) = UNION {Shown(f.first, path.name) : f \in Shown(Root, path.dir)}
        BY <3>2 DEF ShownAt
      <4>2. Shown(Root, path.dir) = {SlotAt(x) : x \in {y \in Positions : Here(y, Root, path.dir)}}
        BY <1>1, <1>2, ShownIs
      <4>3. e \in ShownAt(path) <=> \E y \in Positions : Here(y, Root, path.dir) /\ e \in Shown(SlotAt(y).first, path.name)
        BY <4>1, <4>2
      <4>4. ASSUME NEW y \in Positions, Here(y, Root, path.dir)
            PROVE  /\ SlotAt(y).first \in Clusters
                   /\ e \in Shown(SlotAt(y).first, path.name)
                      <=> \E x \in Positions : Here(x, SlotAt(y).first, path.name) /\ e = SlotAt(x)
        <5>1. SlotAt(y).first \in Clusters
          BY <4>4 DEF Here, SlotAt, Positions, Types, SlotType
        <5> QED BY <1>1, <5>1, ShownIs
      <4>5. \A x \in Positions : At(path, x) <=> \E y \in Positions : Here(y, Root, path.dir) /\ Here(x, SlotAt(y).first, path.name)
        BY <3>2 DEF At, DirOf, Here
      <4> QED BY <4>3, <4>4, <4>5
    <3> QED BY <3>1, <3>2
  <2>2. ShownFiles[path] = IF ShownAt(path) = {} THEN -1 ELSE (CHOOSE e \in ShownAt(path) : TRUE).size
    BY DEF ShownFiles
  <2>3. ASSUME NEW x \in Positions, At(path, x) PROVE ShownFiles[path] = SlotAt(x).size
    <3>1. ShownAt(path) # {}
      BY <2>1, <2>3
    <3>2. PICK e : e = CHOOSE f \in ShownAt(path) : TRUE
      OBVIOUS
    <3>3. e \in ShownAt(path)
      BY <3>1, <3>2
    <3>4. PICK y \in Positions : At(path, y) /\ e = SlotAt(y)
      BY <2>1, <3>3
    <3>5. x = y
      BY <1>1, <2>3, <3>4 DEF Once
    <3> QED BY <2>2, <3>1, <3>2, <3>4, <3>5
  <2>4. (\A x \in Positions : ~At(path, x)) => ShownAt(path) = {}
    BY <2>1
  <2> QED BY <2>2, <2>3, <2>4 DEF FileShown
<1>4. ASSUME NEW name \in DirNames PROVE name \in ShownDirs <=> \E x \in Positions : Here(x, Root, name)
  <2>1. Shown(Root, name) # {} <=> \E x \in Positions : Here(x, Root, name)
    <3>1. Shown(Root, name) = {SlotAt(x) : x \in {y \in Positions : Here(y, Root, name)}}
      BY <1>1, <1>2, ShownIs
    <3> QED BY <3>1
  <2> QED BY <2>1 DEF ShownDirs
<1> QED BY <1>1, <1>3, <1>4 DEF View

LEMMA UndamagedIs == FatFsAssumption /\ IInv /\ crashes = 0 /\ failures = 0 => Undamaged
BY NothingDamaged DEF Undamaged

LEMMA ViewNext == (FatFsAssumption /\ Types /\ Named /\ Undamaged => View)'
BY ViewIs, PTL
-----------------------------------------------------------------------------
(* What keeps the mapping in step with the commands. The entries of        *)
(* directories are those in the root with the name of one; a directory has *)
(* one cluster, which file data never goes to.                             *)
DirEntry(x) == x[1] = Root /\ SlotAt(x).st = "used" /\ SlotAt(x).name \in DirNames
NoDirAt(c) == c # Root /\ \A x \in Positions : DirEntry(x) => SlotAt(x).first # c
DirsEnd == fat[Root] = EOC /\ \A x \in Positions : DirEntry(x) => fat[SlotAt(x).first] = EOC

(* The handle of a write command is that of the entry of its path, whose   *)
(* size is the larger of what was there and what was written; or nothing   *)
(* was written yet, and the entry is to come.                              *)
Larger(m, n) == IF m > n THEN m ELSE n
Writes(q) ==
  LET x == <<q.fil.dir, q.fil.idx>> IN
  /\ DirOf(q.path, q.fil.dir)
  /\ q.left = 0 => q.fil.pos > 0
  /\ q.fil.clust \in DataClusters /\ (q.fil.clust = q.fil.sclust \/ Before(q.fil.clust) # {})
  /\ \A k \in DOMAIN todo : todo[k].op = "slot" =>
       /\ todo[k].c = q.fil.dir /\ todo[k].i = q.fil.idx
       /\ todo[k].slot = Slot("used", q.path.name, q.fil.sclust, 0)
       /\ q.fil.pos = 0 /\ q.fil.size = 0
  /\ (\A k \in DOMAIN todo : todo[k].op # "slot") =>
       /\ SlotAt(x).st = "used" /\ SlotAt(x).name = q.path.name /\ SlotAt(x).first = q.fil.sclust
       /\ q.fil.size = Larger(q.fil.pos, SlotAt(x).size)
WriterFiles == \A q \in {wr} \ {NoFile} : Writes(q)

(* Without a write command under way an entry to come is that of a new     *)
(* directory, with a cluster that is taken and empty when its turn comes.  *)
Empties(c) ==
  \/ \E j \in DOMAIN todo : todo[j].op = "zero" /\ todo[j].c = c
  \/ \A x \in Positions : x[1] = c => SlotAt(x).st # "used"
DirFiles ==
  wr = NoFile =>
    \A k \in DOMAIN todo : todo[k].op = "slot" =>
      /\ todo[k].c = Root /\ todo[k].slot.name \in DirNames
      /\ fat[todo[k].slot.first] = EOC \/ LinkComes(todo[k].slot.first, EOC)
      /\ Empties(todo[k].slot.first)

(* Nothing to come overwrites what the volume shows. *)
PendingFiles ==
  \A k \in DOMAIN todo :
    /\ todo[k].op = "slot" => slots[todo[k].c][todo[k].i].st # "used"
    /\ todo[k].op \in {"data", "zero"} => \A p \in Positions : ~Shows(p, todo[k].c)
    /\ todo[k].op = "link" =>
         \/ todo[k].next = EOC /\ fat[todo[k].c] = Free
         \/ /\ todo[k].next # EOC /\ fat[todo[k].c] # Free /\ NoDirAt(todo[k].c)
            /\ wr # NoFile /\ todo[k].next = wr.fil.clust

FilesInv == DirsEnd /\ WriterFiles /\ DirFiles /\ PendingFiles

(* While nothing is damaged the cluster that a write has come to, and one  *)
(* that follows another, hold no directory.                                *)
LEMMA WriterNotAtDir ==
  ASSUME FatFsAssumption, Types, Named, Undamaged, WriterFiles, wr # NoFile, todo = <<>>
  PROVE  /\ NoDirAt(wr.fil.clust) /\ wr.fil.clust \in DataClusters /\ fat[wr.fil.clust] # Free
         /\ fat[wr.fil.clust] \in Clusters => NoDirAt(fat[wr.fil.clust]) /\ fat[wr.fil.clust] \in DataClusters
<1>1. PICK q \in WriterType : q = wr
  BY DEF Types
<1>2. Writes(q) /\ DOMAIN todo = {}
  BY <1>1 DEF WriterFiles
<1>3. PICK fil \in HandleType : fil = q.fil
  BY DEF WriterType
<1>4. PICK x \in Positions : x = <<fil.dir, fil.idx>>
  BY DEF Positions, HandleType
<1>5. /\ SlotAt(x).st = "used" /\ SlotAt(x).name = q.path.name /\ SlotAt(x).first = fil.sclust
      /\ q.path.name \notin DirNames /\ fil.sclust \in DataClusters
      /\ fil.clust \in Clusters /\ (fil.clust = fil.sclust \/ Before(fil.clust) # {})
  <2>1. q.path.name \in FileNames
    BY DEF WriterType, Paths
  <2>2. FileNames \cap DirNames = {}
    BY DEF FatFsAssumption
  <2> QED BY <1>1, <1>2, <1>3, <1>4, <2>1, <2>2 DEF Writes, Named, HandlesFull, HandleType
<1>6. ASSUME NEW c \in DataClusters, Before(c) # {} PROVE NoDirAt(c) /\ fat[c] # Free
  <2>1. Homes(c) = {} /\ ~Untaken(c)
    BY <1>6 DEF Undamaged, Damaged
  <2>2. fat[c] # Free
    BY <2>1, NothingToDo DEF Untaken
  <2>3. \A y \in Positions : ~Shows(y, c)
    BY <2>1 DEF Homes
  <2> QED BY <2>2, <2>3, ConstantFacts DEF NoDirAt, DirEntry, Shows
<1>7. NoDirAt(fil.sclust) /\ fat[fil.sclust] # Free
  <2>1. PICK c \in DataClusters : c = fil.sclust
    BY <1>5
  <2>2. x \in Homes(c)
    BY <1>5, <2>1 DEF Homes, Shows
  <2>3. fat[c] # Free
    BY <2>2, NothingToDo DEF Undamaged, Damaged, Untaken
  <2>4. ASSUME NEW y \in Positions, DirEntry(y), SlotAt(y).first = c PROVE FALSE
    <3>1. y \in Homes(c)
      BY <2>4 DEF Homes, Shows, DirEntry
    <3>2. x = y
      BY <2>2, <3>1 DEF Undamaged, Damaged, Several
    <3> QED BY <1>5, <2>4, <3>2 DEF DirEntry
  <2> QED BY <2>1, <2>3, <2>4, ConstantFacts DEF NoDirAt
<1>8. fil.clust \in DataClusters
  BY <1>2, <1>3 DEF Writes
<1>9. NoDirAt(fil.clust) /\ fat[fil.clust] # Free
  BY <1>5, <1>6, <1>7, <1>8
<1>10. ASSUME fat[fil.clust] \in Clusters PROVE fat[fil.clust] \in DataClusters /\ Before(fat[fil.clust]) # {}
  <2>1. fat[fil.clust] \in DataClusters
    BY <1>5, <1>9, <1>10, ConstantFacts DEF Named, DiskNames
  <2>2. fil.clust \in Before(fat[fil.clust])
    BY <1>5 DEF Before
  <2> QED BY <2>1, <2>2
<1> QED BY <1>1, <1>3, <1>6, <1>8, <1>9, <1>10
-----------------------------------------------------------------------------
(* What a step may do to the entries, and what that does to the mapping.   *)
SameDirs ==
  \A x \in Positions :
    /\ DirEntry(x)' <=> DirEntry(x)
    /\ DirEntry(x) => SlotAt(x)'.name = SlotAt(x).name /\ SlotAt(x)'.first = SlotAt(x).first

LEMMA DirsKept ==
  ASSUME FatFsAssumption, SameDirs
  PROVE  /\ \A p \in Paths : \A d : DirOf(p, d)' <=> DirOf(p, d)
         /\ \A c : NoDirAt(c)' <=> NoDirAt(c)
         /\ \A name \in DirNames, x \in Positions : Here(x, Root, name)' <=> Here(x, Root, name)
<1>1. ASSUME NEW name \in DirNames, NEW x \in Positions
      PROVE  /\ Here(x, Root, name)' <=> Here(x, Root, name)
             /\ Here(x, Root, name) => SlotAt(x)'.first = SlotAt(x).first
  BY DEF SameDirs, DirEntry, Here
<1>2. ASSUME NEW p \in Paths, NEW d PROVE DirOf(p, d)' <=> DirOf(p, d)
  <2>1. p.dir # Top => p.dir \in DirNames
    BY DEF Paths
  <2> QED BY <1>1, <2>1 DEF DirOf
<1>3. ASSUME NEW c PROVE NoDirAt(c)' <=> NoDirAt(c)
  BY DEF SameDirs, NoDirAt
<1> QED BY <1>1, <1>2, <1>3

(* When the directories stay and every path but one does too, the files    *)
(* change in that one.                                                     *)
LEMMA OneFileChanges ==
  ASSUME FatFsAssumption, View, View', SameDirs, NEW path \in Paths,
         \A p \in Paths, x \in Positions : p # path =>
           /\ At(p, x)' <=> At(p, x)
           /\ At(p, x) => SlotAt(x)'.size = SlotAt(x).size
  PROVE  ShownDirs' = ShownDirs /\ ShownFiles' = [ShownFiles EXCEPT ![path] = ShownFiles'[path]]
<1>1. ShownDirs' = ShownDirs
  <2>1. \A name \in DirNames : name \in ShownDirs' <=> name \in ShownDirs
    BY DirsKept DEF View
  <2> QED BY <2>1 DEF ShownDirs
<1>2. ASSUME NEW p \in Paths, p # path PROVE ShownFiles'[p] = ShownFiles[p]
  <2>1. FileShown(p) /\ FileShown(p)'
    BY DEF View
  <2>2. CASE \E x \in Positions : At(p, x)
    <3>1. PICK x \in Positions : At(p, x)
      BY <2>2
    <3>2. ShownFiles[p] = SlotAt(x).size
      BY <2>1, <3>1 DEF FileShown
    <3>3. At(p, x)' /\ SlotAt(x)'.size = SlotAt(x).size
      BY <1>2, <3>1
    <3>4. ShownFiles'[p] = SlotAt(x)'.size
      BY <2>1, <3>3 DEF FileShown
    <3> QED BY <3>2, <3>3, <3>4
  <2>3. CASE \A x \in Positions : ~At(p, x)
    <3>1. \A x \in Positions : ~At(p, x)'
      BY <1>2, <2>3
    <3> QED BY <2>1, <2>3, <3>1 DEF FileShown
  <2> QED BY <2>2, <2>3
<1>3. ShownFiles = [p \in Paths |-> ShownFiles[p]] /\ ShownFiles' = [p \in Paths |-> ShownFiles'[p]]
  BY DEF ShownFiles
<1>4. PICK f, g : f = ShownFiles /\ g = ShownFiles'
  OBVIOUS
<1>5. f = [p \in Paths |-> f[p]] /\ g = [p \in Paths |-> g[p]] /\ \A p \in Paths : p # path => g[p] = f[p]
  BY <1>2, <1>3, <1>4
<1>6. g = [f EXCEPT ![path] = g[path]]
  BY <1>5
<1> QED BY <1>1, <1>4, <1>6

LEMMA NoFileChanges ==
  ASSUME FatFsAssumption, View, View', SameDirs,
         \A p \in Paths, x \in Positions :
           /\ At(p, x)' <=> At(p, x)
           /\ At(p, x) => SlotAt(x)'.size = SlotAt(x).size
  PROVE  UNCHANGED <<ShownFiles, ShownDirs>>
<1>1. CASE Paths = {}
  BY <1>1, DirsKept DEF View, ShownFiles, ShownDirs
<1>2. CASE Paths # {}
  <2>1. PICK path \in Paths : TRUE
    BY <1>2
  <2>2. ShownDirs' = ShownDirs /\ ShownFiles' = [ShownFiles EXCEPT ![path] = ShownFiles'[path]]
    BY OneFileChanges
  <2>3. FileShown(path) /\ FileShown(path)'
    BY DEF View
  <2>4. ShownFiles'[path] = ShownFiles[path]
    BY <2>3 DEF FileShown
  <2>5. ShownFiles = [p \in Paths |-> ShownFiles[p]]
    BY DEF ShownFiles
  <2>6. PICK f : f = ShownFiles
    OBVIOUS
  <2>7. f = [p \in Paths |-> f[p]] /\ ShownFiles' = [f EXCEPT ![path] = f[path]]
    BY <2>2, <2>4, <2>5, <2>6
  <2> QED BY <2>2, <2>6, <2>7
<1> QED BY <1>1, <1>2

(* Data, and the zeroes of f_mkdir, go to clusters that hold no directory. *)
LEMMA FillKeeps ==
  ASSUME FatFsAssumption, Types, NEW c \in Clusters, NoDirAt(c), NEW s, NEW slot, slot.st # "used",
         slots' = Fill(c, s, slot)
  PROVE  /\ \A x \in Positions : x[1] # c => SlotAt(x)' = SlotAt(x)
         /\ \A x \in Positions : SlotAt(x)'.st = "used" => SlotAt(x)' = SlotAt(x)
         /\ SameDirs
         /\ \A p \in Paths, x \in Positions :
              /\ DirOf(p, x[1]) => SlotAt(x)' = SlotAt(x)
              /\ At(p, x)' <=> At(p, x)
              /\ At(p, x) => SlotAt(x)' = SlotAt(x)
<1>1. \A x \in Positions : x[1] \in Clusters /\ x[2] \in SlotIds
  BY DEF Positions
<1>2. /\ slots'[c] = [i \in SlotIds |-> IF SectorOf(i) = s THEN slot ELSE slots[c][i]]
      /\ \A d \in Clusters \ {c} : slots'[d] = slots[d]
  BY DEF Fill, Types
<1>3. \A x \in Positions : x[1] # c => SlotAt(x)' = SlotAt(x)
  BY <1>1, <1>2 DEF SlotAt
<1>4. \A x \in Positions : SlotAt(x)' = SlotAt(x) \/ SlotAt(x)' = slot
  BY <1>1, <1>2, <1>3 DEF SlotAt
<1>5. SameDirs
  BY <1>3 DEF SameDirs, DirEntry, NoDirAt
<1>6. ASSUME NEW p \in Paths, NEW x \in Positions, DirOf(p, x[1]) PROVE SlotAt(x)' = SlotAt(x)
  <2>1. x[1] # c
    <3>1. CASE p.dir = Top
      BY <1>6, <3>1 DEF DirOf, NoDirAt
    <3>2. CASE p.dir # Top
      <4>1. p.dir \in DirNames
        BY <3>2 DEF Paths
      <4> QED BY <1>6, <3>2, <4>1 DEF DirOf, NoDirAt, DirEntry, Here
    <3> QED BY <3>1, <3>2
  <2> QED BY <1>3, <2>1
<1>7. ASSUME NEW p \in Paths, NEW x \in Positions PROVE At(p, x)' <=> At(p, x)
  <2>1. DirOf(p, x[1])' <=> DirOf(p, x[1])
    BY <1>5, DirsKept
  <2> QED BY <1>6, <2>1 DEF At, Here
<1>8. \A p \in Paths, x \in Positions : At(p, x) => SlotAt(x)' = SlotAt(x)
  BY <1>6 DEF At
<1> QED BY <1>3, <1>4, <1>5, <1>6, <1>7, <1>8

(* An entry is written over another, or over none. *)
LEMMA PutIs ==
  ASSUME FatFsAssumption, Types, NEW c \in Clusters, NEW i \in SlotIds, NEW slot,
         slots' = [slots EXCEPT ![c][i] = slot]
  PROVE  /\ <<c, i>> \in Positions /\ SlotAt(<<c, i>>)' = slot
         /\ \A x \in Positions : x # <<c, i>> => SlotAt(x)' = SlotAt(x)
<1>1. \A x \in Positions : x[1] \in Clusters /\ x[2] \in SlotIds /\ x = <<x[1], x[2]>>
  BY DEF Positions
<1>2. \A d \in Clusters, j \in SlotIds :
        slots'[d][j] = IF d = c /\ j = i THEN slot ELSE slots[d][j]
  BY DEF Types
<1>3. <<c, i>> \in Positions
  BY DEF Positions
<1> QED BY <1>1, <1>2, <1>3 DEF SlotAt

LEMMA SlotsSame ==
  ASSUME FatFsAssumption, slots' = slots
  PROVE  /\ SameDirs /\ \A x : SlotAt(x)' = SlotAt(x)
         /\ \A p \in Paths : \A x : (At(p, x)' <=> At(p, x)) /\ (DirOf(p, x)' <=> DirOf(p, x))
         /\ \A c : NoDirAt(c)' <=> NoDirAt(c)
         /\ UNCHANGED <<ShownFiles, ShownDirs>>
<1>1. \A x : SlotAt(x)' = SlotAt(x)
  BY DEF SlotAt
<1>2. SameDirs
  BY <1>1 DEF SameDirs, DirEntry
<1>3. \A p \in Paths : \A x : (At(p, x)' <=> At(p, x)) /\ (DirOf(p, x)' <=> DirOf(p, x))
  BY <1>1 DEF At, DirOf, Here
<1>4. UNCHANGED <<ShownFiles, ShownDirs>>
  BY DEF ShownFiles, ShownDirs, ShownAt, Shown
<1> QED BY <1>1, <1>2, <1>3, <1>4, DirsKept

(* A name that is found in a directory of one cluster stands in it, *)
LEMMA PlaceHere ==
  ASSUME FatFsAssumption, Types, NEW d \in Clusters, fat[d] = EOC, NEW name, Matches(d, name) # {}
  PROVE  LET x == Place(d, name) IN x \in Positions /\ Here(x, d, name) /\ Entry(d, name) = SlotAt(x)
<1> DEFINE live == {k \in DOMAIN Walk(d) : Walk(d)[k] # EOC}
           n == First(Matches(d, name))
<1>1. Cardinality(live) \in Nat /\ live = 0 .. Cardinality(live) - 1
  BY ChainIsPrefix DEF Types
<1>2. Walk(d) \in [0 .. MaxCluster -> Stops] /\ Walk(d)[0] = d
      /\ \A k \in 0 .. MaxCluster - 1 : Walk(d)[k + 1] = IF Walk(d)[k] = EOC THEN EOC ELSE fat[Walk(d)[k]]
  BY WalkIs DEF Types
<1>3. Walk(d)[1] = EOC
  <2>1. 0 \in 0 .. MaxCluster - 1 /\ 0 + 1 = 1
    BY DEF FatFsAssumption
  <2> QED BY <1>2, <2>1, ConstantFacts
<1>4. 1 \notin live
  BY <1>3
<1> HIDE DEF live
<1>5. Cardinality(live) <= 1
  BY <1>1, <1>4
<1>6. Width \in Nat \ {0}
  BY WidthIs
<1>7. \A m \in Matches(d, name) : m \in 0 .. Width * Cardinality(live) - 1
  BY DEF Matches, MatchesUpTo, live
<1>8. n \in Matches(d, name)
  <2>1. Width * Cardinality(live) \in Nat
    BY <1>1, <1>6, Z3
  <2>2. Matches(d, name) \in SUBSET Nat
    BY <1>7, <2>1
  <2> QED BY <2>2, FirstIsLeast
<1> HIDE DEF n
<1>9. n \div Width \in 0 .. Cardinality(live) - 1
  BY <1>1, <1>6, <1>7, <1>8, DivideBelow
<1>10. n \div Width = 0
  BY <1>1, <1>5, <1>9
<1>11. Place(d, name) = <<Walk(d)[n \div Width], n % Width>>
  BY DEF Place, n
<1>12. Place(d, name)[1] = d
  BY <1>2, <1>10, <1>11
<1> QED BY <1>12, PlaceIs DEF Here, Types

(* so the directory that f_open looks in is that of the path, *)
LEMMA ParentAt ==
  ASSUME FatFsAssumption, Types, DirsEnd, NEW path \in Paths, Parent(path) # Free
  PROVE  DirOf(path, Parent(path)) /\ fat[Parent(path)] = EOC /\ Parent(path) \in Clusters
<1>1. CASE path.dir = Top
  BY <1>1, ConstantFacts DEF Parent, DirOf, DirsEnd
<1>2. CASE path.dir # Top
  <2>1. Found(Root, path.dir) /\ Parent(path) = Entry(Root, path.dir).first /\ path.dir \in DirNames
    BY <1>2 DEF Parent, Paths
  <2>2. PICK x \in Positions : Here(x, Root, path.dir) /\ Entry(Root, path.dir) = SlotAt(x)
    BY <2>1, PlaceHere, ConstantFacts DEF Found, DirsEnd
  <2>3. SlotAt(x).first \in Clusters
    BY <2>2 DEF SlotAt, Positions, Types, SlotType
  <2>4. DirEntry(x)
    BY <2>1, <2>2 DEF DirEntry, Here
  <2> QED BY <1>2, <2>1, <2>2, <2>3, <2>4 DEF DirOf, DirsEnd
<1> QED BY <1>1, <1>2

(* and the entry it finds is where the path stands. *)
LEMMA OpenAt ==
  ASSUME FatFsAssumption, Types, DirsEnd, NEW path \in Paths, Exists(path)
  PROVE  LET x == Place(Parent(path), path.name) IN x \in Positions /\ At(path, x)
<1>1. Parent(path) # Free /\ Matches(Parent(path), path.name) # {}
  BY DEF Exists, Found
<1>2. DirOf(path, Parent(path)) /\ fat[Parent(path)] = EOC /\ Parent(path) \in Clusters
  BY <1>1, ParentAt
<1>3. PICK x : x = Place(Parent(path), path.name)
  OBVIOUS
<1>4. x \in Positions /\ Here(x, Parent(path), path.name)
  BY <1>1, <1>2, <1>3, PlaceHere
<1> QED BY <1>2, <1>3, <1>4 DEF At, Here
-----------------------------------------------------------------------------
(* Each command in turn: it keeps all this, and does what the store does   *)
(* or nothing that it shows. First those that change handles only.         *)
LEMMA FilesHandles ==
  ASSUME FatFsAssumption, FilesInv, todo = <<>>, UNCHANGED <<fat, slots, todo>>,
         \A q \in {wr'} \ {NoFile} : Writes(q)
  PROVE  FilesInv'
<1>1. /\ SameDirs /\ \A x : SlotAt(x)' = SlotAt(x)
      /\ \A p \in Paths : \A x : DirOf(p, x)' <=> DirOf(p, x)
  BY SlotsSame
<1>2. DOMAIN todo' = {} /\ DOMAIN todo = {}
  OBVIOUS
<1>3. \A c : Before(c)' = Before(c)
  BY DEF Before, LinkComes
<1>4. DirsEnd'
  BY <1>1 DEF FilesInv, DirsEnd, DirEntry
<1>5. ASSUME NEW q \in {wr'} \ {NoFile} PROVE Writes(q)'
  <2>1. Writes(q)
    OBVIOUS
  <2>2. DirOf(q.path, q.fil.dir)'
    BY <1>1, <2>1 DEF Writes, DirOf, Here
  <2> QED BY <1>1, <1>2, <1>3, <2>1, <2>2 DEF Writes
<1> QED BY <1>2, <1>4, <1>5 DEF FilesInv, WriterFiles, DirFiles, PendingFiles

LEMMA FilesOpenToOverwrite ==
  ASSUME FatFsAssumption, Types, Named, FilesInv, NEW path \in Paths, OpenToOverwrite(path)
  PROVE  FilesInv'
<1> DEFINE fil == OpenExisting(path)
           p == Place(Parent(path), path.name)
<1>1. PICK n \in 1 .. MaxWrite : wr' = [path |-> path, left |-> n, fil |-> fil]
  BY DEF OpenToOverwrite
<1>2. todo = <<>> /\ UNCHANGED <<fat, slots, todo>> /\ Exists(path)
  BY DEF OpenToOverwrite, Idle
<1>3. p \in Positions /\ At(path, p)
  BY <1>2, OpenAt DEF FilesInv
<1>4. /\ fil.pos = 0 /\ fil.sclust = SlotAt(p).first /\ p = <<fil.dir, fil.idx>>
      /\ fil.size = SlotAt(p).size /\ fil.clust = fil.sclust /\ SlotAt(p) \in SlotType
      /\ SlotAt(p).st = "used" /\ SlotAt(p).name = path.name
  BY <1>2, OpenExistingIs
<1>5. fil.clust \in DataClusters
  <2>1. PICK x \in Positions : x = p
    BY <1>3
  <2> QED BY <1>4, <2>1 DEF Named, DiskNames, Fits, SlotAt, Positions
<1>6. DirOf(path, fil.dir)
  BY <1>3, <1>4 DEF At
<1>7. fil.size = Larger(0, fil.size)
  <2>1. fil.size \in Nat
    BY <1>4, ConstantFacts DEF SlotType
  <2> QED BY <2>1 DEF Larger
<1> HIDE DEF fil, p
<1>8. ASSUME NEW q \in {wr'} \ {NoFile} PROVE Writes(q)
  <2>1. q.path = path /\ q.fil = fil /\ q.left = n
    BY <1>1
  <2>2. n # 0 /\ DOMAIN todo = {}
    BY <1>2
  <2> QED BY <1>4, <1>5, <1>6, <1>7, <2>1, <2>2 DEF Writes
<1> QED BY <1>2, <1>8, FilesHandles

LEMMA FilesWriteDenied ==
  ASSUME FatFsAssumption, Types, FilesInv, WriteDenied
  PROVE  FilesInv'
<1>1. /\ wr # NoFile /\ todo = <<>> /\ AtBoundary(wr.fil) /\ wr' = [wr EXCEPT !.left = 0]
      /\ UNCHANGED <<fat, slots, todo>>
  BY DEF WriteDenied
<1>2. PICK q \in WriterType : q = wr
  BY <1>1 DEF Types
<1>3. Writes(q)
  BY <1>1, <1>2 DEF FilesInv, WriterFiles
<1>4. ASSUME NEW r \in {wr'} \ {NoFile} PROVE Writes(r)
  <2>1. r = [q EXCEPT !.left = 0]
    BY <1>1, <1>2
  <2>2. r.path = q.path /\ r.fil = q.fil /\ r.left = 0
    BY <2>1 DEF WriterType
  <2>3. q.fil.pos > 0
    BY <1>1, <1>2 DEF AtBoundary
  <2> QED BY <1>3, <2>2, <2>3 DEF Writes
<1> QED BY <1>1, <1>4, FilesHandles

(* Then those that leave writes to be issued. *)
LEMMA FilesTaken ==
  ASSUME FatFsAssumption, FilesInv, UNCHANGED <<fat, slots>>, WriterFiles', DirFiles',
         \A k \in DOMAIN todo' :
           /\ todo'[k].op = "slot" => slots[todo'[k].c][todo'[k].i].st # "used"
           /\ todo'[k].op \in {"data", "zero"} => \A p \in Positions : ~Shows(p, todo'[k].c)
           /\ todo'[k].op = "link" =>
                \/ todo'[k].next = EOC /\ fat[todo'[k].c] = Free
                \/ /\ todo'[k].next # EOC /\ fat[todo'[k].c] # Free /\ NoDirAt(todo'[k].c)
                   /\ wr' # NoFile /\ todo'[k].next = wr'.fil.clust
  PROVE  FilesInv'
<1>1. \A x : SlotAt(x)' = SlotAt(x) /\ \A c : NoDirAt(c)' <=> NoDirAt(c)
  BY SlotsSame
<1>2. DirsEnd'
  BY <1>1 DEF FilesInv, DirsEnd, DirEntry
<1>3. PendingFiles'
  <2>1. ASSUME NEW k \in DOMAIN todo', todo'[k].op = "link", todo'[k].next # EOC
        PROVE  NoDirAt(todo[k].c)'
    <3>1. PICK c : c = todo'[k].c
      OBVIOUS
    <3>2. NoDirAt(c)
      BY <2>1, <3>1
    <3>3. NoDirAt(c)'
      BY <1>1, <3>2
    <3> QED BY <3>1, <3>3 DEF NoDirAt
  <2> QED BY <1>1, <2>1 DEF PendingFiles, Shows
<1> QED BY <1>2, <1>3 DEF FilesInv

LEMMA FilesOpenToCreate ==
  ASSUME FatFsAssumption, NoFileAssumption, Types, Named, FilesInv, NEW path \in Paths, OpenToCreate(path)
  PROVE  FilesInv'
<1>1. PICK d, x, room, i :
        /\ d = Parent(path) /\ x = First(FreeClusters) /\ room = Reusable(d, FirstSector) /\ i = First(room)
        /\ todo = <<>> /\ wr = NoFile /\ FreeClusters # {} /\ d # Free /\ UNCHANGED <<fat, slots>>
        /\ \/ /\ room # {}
              /\ todo' = <<Link(x, EOC), PutSlot(d, i, Slot("used", path.name, x, 0))>>
              /\ \E n \in 1 .. MaxWrite : wr' = [path |-> path, left |-> n, fil |-> Handle(d, i, x, 0)]
           \/ todo' = <<Link(x, EOC)>> /\ wr' = wr
  BY DEF OpenToCreate, Idle
<1>2. x \in DataClusters /\ fat[x] = Free
  BY <1>1, TakeIs DEF Named, DiskNames
<1>3. DirOf(path, d)
  BY <1>1, ParentAt DEF FilesInv
<1>4. CASE /\ room # {}
           /\ todo' = <<Link(x, EOC), PutSlot(d, i, Slot("used", path.name, x, 0))>>
           /\ \E n \in 1 .. MaxWrite : wr' = [path |-> path, left |-> n, fil |-> Handle(d, i, x, 0)]
  <2>1. i \in SlotIds /\ slots[d][i].st # "used"
    BY <1>1, <1>4, WidthIs, RoomIs
  <2>2. PICK n \in 1 .. MaxWrite : wr' = [path |-> path, left |-> n, fil |-> Handle(d, i, x, 0)]
    BY <1>4
  <2>3. /\ DOMAIN todo' = {1, 2} /\ todo'[1].op = "link" /\ todo'[1].next = EOC /\ todo'[1].c = x
        /\ todo'[2].c = d /\ todo'[2].i = i /\ todo'[2].slot = Slot("used", path.name, x, 0) /\ todo'[2].op = "slot"
    BY <1>4 DEF Link, PutSlot
  <2>4. DirOf(path, d)'
    BY <1>1, <1>3, SlotsSame
  <2>5. ASSUME NEW q \in {wr'} \ {NoFile} PROVE Writes(q)'
    <3>1. q.path = path /\ q.left = n /\ q.fil = Handle(d, i, x, 0)
      BY <2>2
    <3>2. PICK fil : fil = Handle(d, i, x, 0)
      OBVIOUS
    <3>3. fil.dir = d /\ fil.idx = i /\ fil.sclust = x /\ fil.clust = x /\ fil.pos = 0 /\ fil.size = 0
      BY <3>2 DEF Handle
    <3>4. DirOf(q.path, q.fil.dir)'
      BY <2>4, <3>1, <3>2, <3>3 DEF DirOf, Here
    <3>5. n # 0
      OBVIOUS
    <3> QED BY <1>2, <2>3, <3>1, <3>2, <3>3, <3>4, <3>5 DEF Writes
  <2>6. WriterFiles' /\ DirFiles'
    <3>1. WriterFiles'
      BY <2>5 DEF WriterFiles
    <3>2. wr' # NoFile
      <4>1. i \in SlotIds /\ d \in Clusters /\ x \in Clusters /\ n \in 0 .. MaxWrite
        BY <1>1, <1>2, <2>1, ParentIs, ConstantFacts
      <4>2. Handle(d, i, x, 0) \in HandleType
        BY <4>1, HandleIsTyped, ConstantFacts
      <4>3. wr' \in WriterType
        BY <2>2, <4>1, <4>2 DEF WriterType
      <4> QED BY <4>3 DEF NoFileAssumption
    <3> QED BY <3>1, <3>2 DEF DirFiles
  <2> QED BY <1>1, <1>2, <2>1, <2>3, <2>6, FilesTaken
<1>5. CASE todo' = <<Link(x, EOC)>> /\ wr' = wr
  <2>1. DOMAIN todo' = {1} /\ todo'[1].op = "link" /\ todo'[1].next = EOC /\ todo'[1].c = x
    BY <1>5 DEF Link
  <2>2. WriterFiles' /\ DirFiles'
    BY <1>1, <1>5, <2>1 DEF WriterFiles, DirFiles
  <2> QED BY <1>1, <1>2, <2>1, <2>2, FilesTaken
<1> QED BY <1>1, <1>4, <1>5

(* A cluster that is free between operations is shown by no entry. *)
LEMMA FreeUnshown ==
  ASSUME FatFsAssumption, Undamaged, todo = <<>>, NEW c \in DataClusters, fat[c] = Free
  PROVE  \A p \in Positions : ~Shows(p, c)
<1>1. Untaken(c)
  BY NothingToDo DEF Untaken
<1> QED BY <1>1 DEF Undamaged, Damaged, Homes

LEMMA FilesMkdir ==
  ASSUME FatFsAssumption, Types, Named, Undamaged, FilesInv, NEW name \in DirNames, Mkdir(name)
  PROVE  FilesInv'
<1>1. PICK x, room, i :
        /\ x = First(FreeClusters) /\ room = Reusable(Root, SlotIds) /\ i = First(room)
        /\ todo = <<>> /\ wr = NoFile /\ wr' = NoFile /\ FreeClusters # {} /\ UNCHANGED <<fat, slots>>
        /\ \/ /\ room # {}
              /\ todo' = <<ZeroSector(x), Link(x, EOC), PutSlot(Root, i, Slot("used", name, x, 0))>>
           \/ todo' = <<ZeroSector(x), Link(x, EOC)>>
  BY DEF Mkdir, Idle
<1>2. x \in DataClusters /\ fat[x] = Free
  BY <1>1, TakeIs DEF Named, DiskNames
<1>3. \A p \in Positions : ~Shows(p, x)
  BY <1>1, <1>2, FreeUnshown
<1>4. WriterFiles'
  BY <1>1 DEF WriterFiles
<1>5. CASE /\ room # {}
           /\ todo' = <<ZeroSector(x), Link(x, EOC), PutSlot(Root, i, Slot("used", name, x, 0))>>
  <2>1. i \in SlotIds /\ slots[Root][i].st # "used"
    BY <1>1, <1>5, RoomIs
  <2>2. /\ DOMAIN todo' = {1, 2, 3} /\ todo'[1].op = "zero" /\ todo'[1].c = x
        /\ todo'[2].op = "link" /\ todo'[2].next = EOC /\ todo'[2].c = x
        /\ todo'[3].c = Root /\ todo'[3].i = i /\ todo'[3].op = "slot"
        /\ todo'[3].slot.name = name /\ todo'[3].slot.first = x
    BY <1>5 DEF ZeroSector, Link, PutSlot, Slot
  <2>3. DirFiles'
    BY <1>1, <2>2 DEF DirFiles, LinkComes, Empties
  <2> QED BY <1>1, <1>2, <1>3, <1>4, <2>1, <2>2, <2>3, FilesTaken
<1>6. CASE todo' = <<ZeroSector(x), Link(x, EOC)>>
  <2>1. /\ DOMAIN todo' = {1, 2} /\ todo'[1].op = "zero" /\ todo'[1].c = x
        /\ todo'[2].op = "link" /\ todo'[2].next = EOC /\ todo'[2].c = x
    BY <1>6 DEF ZeroSector, Link
  <2>2. DirFiles'
    BY <1>1, <2>1 DEF DirFiles
  <2> QED BY <1>1, <1>2, <1>3, <1>4, <2>1, <2>2, FilesTaken
<1> QED BY <1>1, <1>5, <1>6

(* The size a handle has after another sector. *)
LEMMA LargerAgain ==
  ASSUME NEW m \in Nat, NEW n \in Nat
  PROVE  Larger(m + 1, n) = IF m + 1 > Larger(m, n) THEN m + 1 ELSE Larger(m, n)
BY DEF Larger

(* What stays of the handle of a write command when it goes on to cluster  *)
(* c with the entry as it was.                                             *)
LEMMA GoesOn ==
  ASSUME FatFsAssumption, Types, WriterFiles, wr # NoFile, todo = <<>>, wr.left > 0,
         NEW c \in DataClusters, wr' = Advance(c), c = wr.fil.sclust \/ Before(c)' # {},
         \A k \in DOMAIN todo' : todo'[k].op # "slot",
         \A p \in Paths : \A d : DirOf(p, d)' <=> DirOf(p, d),
         \A p \in Paths, x \in Positions : DirOf(p, x[1]) => SlotAt(x)' = SlotAt(x)
  PROVE  WriterFiles'
<1>1. PICK q \in WriterType : q = wr
  BY DEF Types
<1>2. PICK r : r = wr'
  OBVIOUS
<1>3. r.path = q.path /\ q.path \in Paths /\ r.fil.dir = q.fil.dir /\ r.fil.idx = q.fil.idx
      /\ r.fil.sclust = q.fil.sclust /\ r.fil.clust = c /\ r.fil.pos = q.fil.pos + 1
      /\ r.fil.size = IF q.fil.pos + 1 > q.fil.size THEN q.fil.pos + 1 ELSE q.fil.size
  BY <1>1, <1>2, AdvanceIs, ConstantFacts DEF WriterType
<1>4. Writes(q) /\ DOMAIN todo = {}
  BY <1>1 DEF WriterFiles
<1>5. PICK x \in Positions : x = <<q.fil.dir, q.fil.idx>> /\ x[1] = q.fil.dir
  <2>1. q.fil.dir \in Clusters /\ q.fil.idx \in SlotIds
    BY DEF WriterType, HandleType
  <2>2. <<q.fil.dir, q.fil.idx>> \in Positions
    BY <2>1 DEF Positions
  <2>3. <<q.fil.dir, q.fil.idx>>[1] = q.fil.dir
    OBVIOUS
  <2> QED BY <2>2, <2>3
<1>6. SlotAt(x)' = SlotAt(x)
  BY <1>3, <1>4, <1>5 DEF Writes
<1>7. DirOf(r.path, r.fil.dir)'
  <2>1. PICK p, d : p = r.path /\ d = r.fil.dir
    OBVIOUS
  <2>2. DirOf(p, d)'
    BY <1>3, <1>4, <2>1 DEF Writes
  <2> QED BY <2>1, <2>2 DEF DirOf, Here
<1>8. r.fil.size = Larger(r.fil.pos, SlotAt(x).size)
  <2>1. SlotAt(x).size \in Nat /\ q.fil.pos \in Nat
    <3>1. SlotAt(x) \in SlotType
      BY <1>5 DEF SlotAt, Positions, Types
    <3>2. SlotAt(x).size \in Sizes /\ q.fil.pos \in Sizes
      BY <3>1 DEF SlotType, WriterType, HandleType
    <3> QED BY <3>2, ConstantFacts
  <2>2. q.fil.size = Larger(q.fil.pos, SlotAt(x).size)
    BY <1>4, <1>5 DEF Writes
  <2> QED BY <1>3, <2>1, <2>2, LargerAgain
<1>9. r.fil.pos > 0
  <2>1. q.fil.pos \in Nat
    BY ConstantFacts DEF WriterType, HandleType
  <2> QED BY <1>3, <2>1
<1>10. Writes(r)'
  <2>1. x = <<r.fil.dir, r.fil.idx>>
    BY <1>3, <1>5
  <2>2. SlotAt(x).st = "used" /\ SlotAt(x).name = r.path.name /\ SlotAt(x).first = r.fil.sclust
    BY <1>3, <1>4, <1>5 DEF Writes
  <2>3. r.fil.clust \in DataClusters /\ (r.fil.clust = r.fil.sclust \/ Before(r.fil.clust)' # {})
    BY <1>1, <1>3
  <2> QED BY <1>6, <1>7, <1>8, <1>9, <2>1, <2>2, <2>3 DEF Writes
<1> QED BY <1>2, <1>10 DEF WriterFiles

LEMMA FilesWriteNewCluster ==
  ASSUME FatFsAssumption, NoFileAssumption, Types, Types', Named, Undamaged, FilesInv, WriteNewCluster
  PROVE  FilesInv'
<1>1. PICK b, x : /\ b = wr.fil.clust /\ x = First(FreeClusters) /\ FreeClusters # {}
                  /\ wr # NoFile /\ todo = <<>> /\ wr.left > 0 /\ wr' = Advance(x) /\ UNCHANGED <<fat, slots>>
                  /\ \E as \in Data : todo' = <<Link(b, x), Link(x, EOC), PutData(x, 0, as)>>
  BY DEF WriteNewCluster
<1>2. PICK as \in Data : todo' = <<Link(b, x), Link(x, EOC), PutData(x, 0, as)>>
  BY <1>1
<1>3. x \in DataClusters /\ fat[x] = Free /\ x # EOC
  BY <1>1, TakeIs, ConstantFacts DEF Named, DiskNames
<1>4. \A p \in Positions : ~Shows(p, x)
  BY <1>1, <1>3, FreeUnshown
<1>5. NoDirAt(b) /\ fat[b] # Free /\ b \in Clusters
  BY <1>1, WriterNotAtDir, ConstantFacts DEF FilesInv
<1>6. /\ DOMAIN todo' = {1, 2, 3} /\ todo'[1].op = "link" /\ todo'[1].c = b /\ todo'[1].next = x
      /\ todo'[2].op = "link" /\ todo'[2].next = EOC /\ todo'[2].c = x
      /\ todo'[3].op = "data" /\ todo'[3].c = x
  BY <1>2 DEF Link, PutData
<1>7. x \in Clusters
  BY <1>3, ConstantFacts
<1>8. wr' \in WriterType /\ wr'.fil.clust = x
  BY <1>1, <1>7, AdvanceIs
<1>9. wr' # NoFile
  BY <1>8 DEF NoFileAssumption
<1>10. b \in Before(x)'
  BY <1>5, <1>6 DEF Before, LinkComes
<1>11. WriterFiles'
  BY <1>1, <1>3, <1>6, <1>10, GoesOn, SlotsSame DEF FilesInv
<1>12. DirFiles'
  BY <1>9 DEF DirFiles
<1> QED BY <1>1, <1>3, <1>4, <1>5, <1>6, <1>8, <1>9, <1>11, <1>12, FilesTaken

(* Data that is written at once goes where no directory is. *)
LEMMA FilesDataAtOnce ==
  ASSUME FatFsAssumption, NoFileAssumption, Types, Types', Named, Undamaged, View, View', FilesInv,
         wr # NoFile, todo = <<>>, todo' = <<>>, wr.left > 0, NEW c \in DataClusters, NoDirAt(c),
         wr' = Advance(c), NEW s \in 0 .. SectorsPerCluster - 1, NEW as \in Data, Write(PutData(c, s, as)),
         c = wr.fil.sclust \/ Before(c) # {}
  PROVE  FilesInv' /\ UNCHANGED <<ShownFiles, ShownDirs>>
<1>1. c \in Clusters
  BY ConstantFacts
<1>2. fat' = fat /\ slots' = Fill(c, s, as) /\ as.st # "used"
  <2>1. as.st # "used"
    <3>1. FreeSlot.st = "free" /\ JunkSlot.st = "junk"
      BY DEF JunkSlot, FreeSlot, Slot
    <3> QED BY <3>1 DEF Data
  <2>2. PICK w : w = PutData(c, s, as)
    OBVIOUS
  <2>3. w.op = "data" /\ w.c = c /\ w.s = s /\ w.as = as
    BY <2>2 DEF PutData
  <2> QED BY <2>1, <2>2, <2>3 DEF Write, FatAfter, SlotsAfter
<1>3. /\ SameDirs
      /\ \A p \in Paths, x \in Positions :
           /\ DirOf(p, x[1]) => SlotAt(x)' = SlotAt(x)
           /\ At(p, x)' <=> At(p, x)
           /\ At(p, x) => SlotAt(x)' = SlotAt(x)
  BY <1>1, <1>2, FillKeeps
<1>4. UNCHANGED <<ShownFiles, ShownDirs>>
  BY <1>3, NoFileChanges
<1>5. DOMAIN todo' = {} /\ Before(c)' = Before(c)
  BY <1>2 DEF Before, LinkComes
<1>6. WriterFiles'
  BY <1>3, <1>5, DirsKept, GoesOn DEF FilesInv
<1>7. wr' # NoFile
  BY <1>1, AdvanceIs DEF NoFileAssumption
<1>8. DirsEnd'
  BY <1>2, <1>3 DEF FilesInv, DirsEnd, SameDirs
<1> QED BY <1>4, <1>5, <1>6, <1>7, <1>8 DEF FilesInv, DirFiles, PendingFiles

LEMMA FilesWriteInCluster ==
  ASSUME FatFsAssumption, NoFileAssumption, Types, Types', Named, Undamaged, View, View', FilesInv, WriteInCluster
  PROVE  FilesInv' /\ UNCHANGED <<ShownFiles, ShownDirs>>
<1>1. PICK c, as : /\ c = wr.fil.clust /\ as \in Data /\ wr # NoFile /\ todo = <<>> /\ todo' = <<>> /\ wr.left > 0
                   /\ wr' = Advance(c) /\ Write(PutData(c, wr.fil.pos % SectorsPerCluster, as))
  BY DEF WriteInCluster
<1>2. c \in DataClusters /\ NoDirAt(c)
  BY <1>1, WriterNotAtDir DEF FilesInv
<1>3. wr.fil.pos % SectorsPerCluster \in 0 .. SectorsPerCluster - 1
  <2>1. wr.fil.pos \in Nat /\ SectorsPerCluster \in Nat \ {0}
    BY <1>1, WriterIs, ConstantFacts
  <2>2. \A m \in Nat, n \in Nat \ {0} : m % n \in 0 .. n - 1
    BY Z3
  <2> QED BY <2>1, <2>2
<1>4. c = wr.fil.sclust \/ Before(c) # {}
  <2>1. PICK q : q = wr
    OBVIOUS
  <2>2. Writes(q)
    BY <1>1, <2>1 DEF FilesInv, WriterFiles
  <2> QED BY <1>1, <2>1, <2>2 DEF Writes
<1> QED BY <1>1, <1>2, <1>3, <1>4, FilesDataAtOnce

LEMMA FilesWriteNextCluster ==
  ASSUME FatFsAssumption, NoFileAssumption, Types, Types', Named, Undamaged, View, View', FilesInv, WriteNextCluster
  PROVE  FilesInv' /\ UNCHANGED <<ShownFiles, ShownDirs>>
<1>1. PICK b, c, as : /\ b = wr.fil.clust /\ c = fat[b] /\ c < EOC /\ as \in Data /\ wr # NoFile
                      /\ todo = <<>> /\ todo' = <<>> /\ wr.left > 0
                      /\ wr' = Advance(c) /\ Write(PutData(c, 0, as))
  BY DEF WriteNextCluster
<1>2. b \in Clusters /\ c \in Clusters
  <2>1. b \in Clusters
    BY <1>1, WriterIs
  <2>2. c \in Clusters \cup {EOC} /\ EOC \in Int
    BY <1>1, <2>1, ConstantFacts DEF Types
  <2> QED BY <1>1, <2>1, <2>2
<1>3. c \in DataClusters /\ NoDirAt(c)
  BY <1>1, <1>2, WriterNotAtDir DEF FilesInv
<1>4. b \in Before(c)
  BY <1>1, <1>2 DEF Before
<1> QED BY <1>1, <1>3, <1>4, ConstantFacts, FilesDataAtOnce

(* The commands that write an entry at once. *)
LEMMA FilesIdle ==
  ASSUME DirsEnd, SameDirs, fat' = fat, wr' = NoFile, todo' = <<>>
  PROVE  FilesInv'
<1>1. DOMAIN todo' = {}
  OBVIOUS
<1>2. DirsEnd'
  BY DEF DirsEnd, SameDirs
<1> QED BY <1>1, <1>2 DEF FilesInv, WriterFiles, DirFiles, PendingFiles

StoreStep == Store!Next \/ UNCHANGED <<ShownFiles, ShownDirs, LastWritten>>

LEMMA LastKept == ASSUME saved' = saved PROVE LastWritten' = LastWritten
BY DEF LastWritten

(* What the close of a write command, or a removal, records for its path. *)
LEMMA LastIs ==
  ASSUME Types, NEW path \in Paths, NEW r, NEW n, r.len = n, saved' = [saved EXCEPT ![path] = r]
  PROVE  LastWritten' = [LastWritten EXCEPT ![path] = n]
<1>1. \A p \in Paths : saved'[p].len = IF p = path THEN n ELSE saved[p].len
  BY DEF Types
<1>2. LastWritten' = [p \in Paths |-> IF p = path THEN n ELSE saved[p].len]
  BY <1>1 DEF LastWritten
<1>3. [LastWritten EXCEPT ![path] = n] = [p \in Paths |-> IF p = path THEN n ELSE saved[p].len]
  BY DEF LastWritten
<1> QED BY <1>2, <1>3

LEMMA CloseWriterWrites ==
  ASSUME FatFsAssumption, Types, View, View', FilesInv, CloseWriter
  PROVE  FilesInv' /\ StoreStep
<1>1. /\ wr # NoFile /\ wr.left = 0 /\ todo = <<>> /\ todo' = <<>> /\ wr' = NoFile
      /\ \/ /\ Write(CloseEntry(wr.fil))
            /\ saved' = [saved EXCEPT ![wr.path] = [first |-> wr.fil.sclust, size |-> wr.fil.size, len |-> wr.fil.pos]]
         \/ UNCHANGED <<fat, slots, saved>>
  BY DEF CloseWriter
<1>2. CASE UNCHANGED <<fat, slots, saved>>
  BY <1>1, <1>2, SlotsSame, LastKept, FilesIdle DEF FilesInv, StoreStep
<1>3. CASE /\ Write(CloseEntry(wr.fil))
           /\ saved' = [saved EXCEPT ![wr.path] = [first |-> wr.fil.sclust, size |-> wr.fil.size, len |-> wr.fil.pos]]
  <2>1. PICK q \in WriterType : q = wr
    BY <1>1 DEF Types
  <2>2. PICK fil \in HandleType, path \in Paths : fil = q.fil /\ path = q.path
    BY DEF WriterType
  <2>3. Writes(q) /\ DOMAIN todo = {}
    BY <1>1, <2>1 DEF FilesInv, WriterFiles
  <2>4. PICK x \in Positions : x = <<fil.dir, fil.idx>>
    BY DEF Positions, HandleType
  <2>5. /\ DirOf(path, fil.dir) /\ SlotAt(x).st = "used" /\ SlotAt(x).name = path.name
        /\ SlotAt(x).first = fil.sclust /\ fil.size = Larger(fil.pos, SlotAt(x).size) /\ fil.pos > 0
    BY <1>1, <2>1, <2>2, <2>3, <2>4 DEF Writes
  <2>6. At(path, x)
    BY <2>4, <2>5 DEF At, Here
  <2>7. PICK w : /\ w = CloseEntry(fil) /\ w.op = "slot" /\ w.c = fil.dir /\ w.i = fil.idx
                 /\ w.slot.st = SlotAt(x).st /\ w.slot.name = SlotAt(x).name
                 /\ w.slot.first = fil.sclust /\ w.slot.size = fil.size
    BY <2>4, CloseEntryIs DEF SlotAt
  <2>8. fat' = fat /\ slots' = [slots EXCEPT ![fil.dir][fil.idx] = w.slot]
    BY <1>3, <2>1, <2>2, <2>7 DEF Write, FatAfter, SlotsAfter
  <2>9. SlotAt(x)' = w.slot /\ \A y \in Positions : y # x => SlotAt(y)' = SlotAt(y)
    <3>1. fil.dir \in Clusters /\ fil.idx \in SlotIds
      BY DEF HandleType
    <3> QED BY <2>4, <2>8, <3>1, PutIs
  <2>10. /\ SlotAt(x)'.st = SlotAt(x).st /\ SlotAt(x)'.name = SlotAt(x).name /\ SlotAt(x)'.first = SlotAt(x).first
         /\ SlotAt(x)'.size = fil.size
    BY <2>5, <2>7, <2>9
  <2>11. \A y \in Positions : /\ SlotAt(y)'.st = SlotAt(y).st /\ SlotAt(y)'.name = SlotAt(y).name
                              /\ SlotAt(y)'.first = SlotAt(y).first
    BY <2>9, <2>10
  <2>12. SameDirs
    BY <2>11 DEF SameDirs, DirEntry
  <2>13. \A p \in Paths, y \in Positions : At(p, y)' <=> At(p, y)
    BY <2>11, <2>12, DirsKept DEF At, Here
  <2>14. \A p \in Paths, y \in Positions : p # path /\ At(p, y) => SlotAt(y)'.size = SlotAt(y).size
    BY <2>6, <2>9 DEF View, Once
  <2>15. ShownDirs' = ShownDirs /\ ShownFiles' = [ShownFiles EXCEPT ![path] = ShownFiles'[path]]
    BY <2>12, <2>13, <2>14, OneFileChanges
  <2>16. ShownFiles[path] = SlotAt(x).size /\ ShownFiles'[path] = Larger(fil.pos, SlotAt(x).size)
    BY <2>5, <2>6, <2>10, <2>13 DEF View, FileShown
  <2>17. SlotAt(x).size \in Nat /\ fil.pos \in 1 .. MaxWrite
    <3>1. SlotAt(x) \in SlotType
      BY DEF SlotAt, Positions, Types
    <3> QED BY <2>5, <3>1, ConstantFacts DEF SlotType, HandleType
  <2>18. Store!Write(path, fil.pos) \/ Store!WriteKeepingTail(path, fil.pos)
    <3>1. ShownFiles[path] # Store!Absent
      BY <2>16, <2>17 DEF Store!Absent
    <3>2. LastWritten' = [LastWritten EXCEPT ![path] = fil.pos]
      <4>1. [first |-> fil.sclust, size |-> fil.size, len |-> fil.pos].len = fil.pos
        OBVIOUS
      <4> QED BY <1>3, <2>1, <2>2, <4>1, LastIs
    <3>3. CASE SlotAt(x).size > fil.pos
      <4>1. ShownFiles'[path] = ShownFiles[path]
        BY <2>16, <2>17, <3>3 DEF Larger
      <4>2. ShownFiles' = ShownFiles
        BY <2>15, <4>1 DEF ShownFiles
      <4> QED BY <2>15, <2>16, <3>2, <3>3, <4>2 DEF Store!WriteKeepingTail
    <3>4. CASE ~(SlotAt(x).size > fil.pos)
      <4>1. ShownFiles'[path] = fil.pos
        BY <2>16, <2>17, <3>4 DEF Larger
      <4> QED BY <2>15, <3>1, <3>2, <4>1 DEF Store!Write
    <3> QED BY <3>3, <3>4
  <2>19. Store!Next
    BY <2>17, <2>18 DEF Store!Next, Store!FilePaths, Paths
  <2> QED BY <1>1, <2>8, <2>12, <2>19, FilesIdle DEF FilesInv, StoreStep
<1> QED BY <1>1, <1>2, <1>3

(* The write that takes an entry out of use. *)
LEMMA DeletedIs ==
  ASSUME FatFsAssumption, Types, NEW x \in Positions, Write(DeleteEntry(x))
  PROVE  /\ fat' = fat /\ SlotAt(x)'.st # "used"
         /\ \A y \in Positions : y # x => SlotAt(y)' = SlotAt(y)
<1>1. x[1] \in Clusters /\ x[2] \in SlotIds /\ x = <<x[1], x[2]>>
  BY DEF Positions
<1>2. PICK w : w = DeleteEntry(x) /\ w.op = "slot" /\ w.c = x[1] /\ w.i = x[2] /\ w.slot.st = "deleted"
  BY DeleteEntryIs
<1>3. fat' = fat /\ slots' = [slots EXCEPT ![x[1]][x[2]] = w.slot]
  BY <1>2 DEF Write, FatAfter, SlotsAfter
<1>4. SlotAt(x)' = w.slot /\ \A y \in Positions : y # x => SlotAt(y)' = SlotAt(y)
  BY <1>1, <1>3, PutIs
<1> QED BY <1>2, <1>3, <1>4

LEMMA UnlinkRemoves ==
  ASSUME FatFsAssumption, Types, View, View', FilesInv, NEW path \in Paths, Unlink(path)
  PROVE  FilesInv' /\ StoreStep
<1>1. PICK x : /\ x = Place(Parent(path), path.name) /\ Exists(path) /\ Write(DeleteEntry(x))
               /\ todo' = <<>> /\ wr' = NoFile /\ saved' = [saved EXCEPT ![path] = NotSaved]
  BY DEF Unlink, Idle
<1>2. x \in Positions /\ At(path, x)
  BY <1>1, OpenAt DEF FilesInv
<1>3. fat' = fat /\ SlotAt(x)'.st # "used" /\ \A y \in Positions : y # x => SlotAt(y)' = SlotAt(y)
  BY <1>1, <1>2, DeletedIs
<1>4. SlotAt(x).name \notin DirNames
  BY <1>2 DEF At, Here, Paths, FatFsAssumption
<1>5. SameDirs
  BY <1>3, <1>4 DEF SameDirs, DirEntry
<1>6. ASSUME NEW p \in Paths, NEW y \in Positions PROVE At(p, y)' <=> At(p, y) /\ y # x
  <2>1. DirOf(p, y[1])' <=> DirOf(p, y[1])
    BY <1>5, DirsKept
  <2> QED BY <1>3, <2>1 DEF At, Here
<1>7. \A p \in Paths, y \in Positions : p # path /\ At(p, y) => y # x
  BY <1>2 DEF View, Once
<1>8. ShownDirs' = ShownDirs /\ ShownFiles' = [ShownFiles EXCEPT ![path] = ShownFiles'[path]]
  BY <1>3, <1>5, <1>6, <1>7, OneFileChanges
<1>9. \A y \in Positions : ~At(path, y)'
  BY <1>2, <1>6 DEF View, Once
<1>10. ShownFiles'[path] = -1
  <2>1. FileShown(path)'
    BY DEF View
  <2> QED BY <1>9, <2>1 DEF FileShown
<1>11. ShownFiles[path] # -1
  <2>1. ShownFiles[path] = SlotAt(x).size
    BY <1>2 DEF View, FileShown
  <2>2. SlotAt(x) \in SlotType
    BY <1>2 DEF SlotAt, Positions, Types
  <2> QED BY <2>1, <2>2, ConstantFacts DEF SlotType
<1>12. LastWritten' = [LastWritten EXCEPT ![path] = 0]
  <2>1. NotSaved.len = 0
    BY DEF NotSaved
  <2> QED BY <1>1, <2>1, LastIs
<1>13. Store!Remove(path)
  BY <1>8, <1>10, <1>11, <1>12 DEF Store!Remove, Store!Absent
<1>14. Store!Next
  BY <1>13 DEF Store!Next, Store!FilePaths, Paths
<1> QED BY <1>1, <1>3, <1>5, <1>14, FilesIdle DEF FilesInv, StoreStep

LEMMA RmdirRemoves ==
  ASSUME FatFsAssumption, Types, View, View', FilesInv, NEW name \in DirNames, Rmdir(name)
  PROVE  FilesInv' /\ StoreStep
<1>1. PICK x : /\ x = Place(Root, name) /\ Matches(Root, name) # {} /\ Write(DeleteEntry(x))
               /\ todo' = <<>> /\ wr' = NoFile
               /\ saved' = [p \in Paths |-> IF p.dir = name THEN NotSaved ELSE saved[p]]
  BY DEF Rmdir, Idle, Found
<1>2. x \in Positions /\ Here(x, Root, name)
  BY <1>1, PlaceHere, ConstantFacts DEF FilesInv, DirsEnd
<1>3. fat' = fat /\ SlotAt(x)'.st # "used" /\ \A y \in Positions : y # x => SlotAt(y)' = SlotAt(y)
  BY <1>1, <1>2, DeletedIs
<1>4. \A y \in Positions : \A d, n : Here(y, d, n)' <=> Here(y, d, n) /\ y # x
  BY <1>3 DEF Here
<1>5. \A y \in Positions : \A d : Here(y, d, name) /\ d = Root => y = x
  BY <1>2 DEF View, Once
<1>6. ASSUME NEW p \in Paths, NEW d PROVE DirOf(p, d)' <=> DirOf(p, d) /\ p.dir # name
  <2>1. name # Top
    BY DEF FatFsAssumption
  <2>2. CASE p.dir = Top
    BY <2>1, <2>2 DEF DirOf
  <2>3. CASE p.dir = name
    <3>1. \A y \in Positions : ~Here(y, Root, name)'
      BY <1>4, <1>5
    <3> QED BY <2>1, <2>3, <3>1 DEF DirOf
  <2>4. CASE p.dir # Top /\ p.dir # name
    <3>1. \A y \in Positions : Here(y, Root, p.dir) => y # x
      BY <1>2, <2>4 DEF Here
    <3>2. \A y \in Positions : (Here(y, Root, p.dir)' <=> Here(y, Root, p.dir))
      BY <1>4, <3>1
    <3>3. \A y \in Positions : Here(y, Root, p.dir) => SlotAt(y)' = SlotAt(y)
      BY <1>3, <3>1
    <3> QED BY <2>4, <3>2, <3>3 DEF DirOf
  <2> QED BY <2>2, <2>3, <2>4
<1>7. ASSUME NEW p \in Paths, NEW y \in Positions PROVE At(p, y)' <=> At(p, y) /\ p.dir # name
  <2>1. At(p, y) => y # x
    <3>1. p.name # name
      BY DEF Paths, FatFsAssumption
    <3> QED BY <1>2, <3>1 DEF At, Here
  <2>2. Here(y, y[1], p.name)' <=> Here(y, y[1], p.name) /\ y # x
    BY <1>4
  <2> QED BY <1>6, <2>1, <2>2 DEF At
<1>8. ASSUME NEW p \in Paths
      PROVE  ShownFiles'[p] = IF p.dir = name THEN -1 ELSE ShownFiles[p]
  <2>1. FileShown(p) /\ FileShown(p)'
    BY DEF View
  <2>2. CASE p.dir = name
    BY <1>7, <2>1, <2>2 DEF FileShown
  <2>3. CASE p.dir # name /\ \E y \in Positions : At(p, y)
    <3>1. PICK y \in Positions : At(p, y)
      BY <2>3
    <3>2. y # x
      <4>1. p.name # name
        BY DEF Paths, FatFsAssumption
      <4> QED BY <1>2, <3>1, <4>1 DEF At, Here
    <3>3. At(p, y)' /\ SlotAt(y)' = SlotAt(y)
      BY <1>3, <1>7, <2>3, <3>1, <3>2
    <3>4. ShownFiles[p] = SlotAt(y).size /\ ShownFiles'[p] = SlotAt(y)'.size
      BY <2>1, <3>1, <3>3 DEF FileShown
    <3> QED BY <2>3, <3>3, <3>4
  <2>4. CASE p.dir # name /\ \A y \in Positions : ~At(p, y)
    <3>1. \A y \in Positions : ~At(p, y)'
      BY <1>7, <2>4
    <3> QED BY <2>1, <2>4, <3>1 DEF FileShown
  <2> QED BY <2>2, <2>3, <2>4
<1>9. ShownFiles' = [p \in Paths |-> IF p.dir = name THEN -1 ELSE ShownFiles[p]]
  <2>1. ShownFiles' = [p \in Paths |-> ShownFiles'[p]]
    BY DEF ShownFiles
  <2> QED BY <1>8, <2>1
<1>10. name \in ShownDirs
  BY <1>2 DEF View
<1>11. ShownDirs' = ShownDirs \ {name}
  <2>1. ASSUME NEW n \in DirNames PROVE n \in ShownDirs' <=> n \in ShownDirs /\ n # name
    <3>1. n \in ShownDirs' <=> \E y \in Positions : Here(y, Root, n)'
      BY DEF View
    <3>2. \A y \in Positions : Here(y, Root, n)' <=> Here(y, Root, n) /\ n # name
      BY <1>2, <1>4, <1>5 DEF Here
    <3> QED BY <3>1, <3>2 DEF View
  <2>2. ShownDirs \subseteq DirNames /\ ShownDirs' \subseteq DirNames
    BY DEF ShownDirs
  <2> QED BY <2>1, <2>2
<1>12. LastWritten' = [p \in Paths |-> IF p.dir = name THEN 0 ELSE LastWritten[p]]
  BY <1>1 DEF LastWritten, NotSaved
<1>13. Store!RemoveDir(name)
  BY <1>9, <1>10, <1>11, <1>12 DEF Store!RemoveDir, Store!Absent, Store!FilePaths, Paths
<1>14. Store!Next
  BY <1>13 DEF Store!Next
<1>15. DirsEnd'
  BY <1>3 DEF FilesInv, DirsEnd, DirEntry
<1>16. DOMAIN todo' = {}
  BY <1>1
<1> QED BY <1>1, <1>14, <1>15, <1>16 DEF FilesInv, WriterFiles, DirFiles, PendingFiles, StoreStep

(* The writes that operations have left, one by one. *)
LEMMA NextToDo ==
  ASSUME FatFsAssumption, Types, TodoInv, DiskStep
  PROVE  /\ 1 \in DOMAIN todo /\ todo[1] \in SectorWrite /\ Write(todo[1]) /\ wr' = wr
         /\ \A k \in DOMAIN todo' : k + 1 \in DOMAIN todo /\ k + 1 # 1 /\ todo'[k] = todo[k + 1]
         /\ \A k \in DOMAIN todo : k # 1 => \E j \in DOMAIN todo' : todo'[j] = todo[k]
         /\ todo[1].op = "slot" => DOMAIN todo = {1} /\ todo' = <<>>
<1>1. /\ todo # <<>> /\ todo' = Tail(todo) /\ wr' = wr /\ Write(Head(todo)) /\ todo \in Seq(SectorWrite)
  BY DEF DiskStep, Types
<1>2. /\ Head(todo) = todo[1] /\ Len(todo) \in Nat /\ Len(todo) >= 1 /\ DOMAIN todo = 1 .. Len(todo)
      /\ todo' \in Seq(SectorWrite) /\ Len(todo') = Len(todo) - 1 /\ DOMAIN todo' = 1 .. Len(todo')
  BY <1>1
<1>3. \A k \in DOMAIN todo' : k + 1 \in DOMAIN todo /\ k + 1 # 1 /\ todo'[k] = todo[k + 1]
  BY <1>1, <1>2
<1>4. ASSUME NEW k \in DOMAIN todo, k # 1 PROVE \E j \in DOMAIN todo' : todo'[j] = todo[k]
  <2>1. k - 1 \in DOMAIN todo' /\ k - 1 + 1 = k
    BY <1>2, <1>4
  <2> QED BY <1>3, <2>1
<1>5. ASSUME todo[1].op = "slot" PROVE DOMAIN todo = {1} /\ todo' = <<>>
  <2>1. Len(todo) = 1
    BY <1>2, <1>5 DEF TodoInv
  <2> QED BY <1>1, <1>2, <2>1
<1> QED BY <1>1, <1>2, <1>3, <1>4, <1>5, TailIs

LEMMA FilesLink ==
  ASSUME FatFsAssumption, Types, TodoInv, FilesInv, DiskStep, todo[1].op = "link"
  PROVE  FilesInv' /\ UNCHANGED <<ShownFiles, ShownDirs>>
<1>1. PICK w : /\ w = todo[1] /\ w.op = "link" /\ w.c \in Clusters /\ w.next # Free
               /\ fat' = [fat EXCEPT ![w.c] = w.next] /\ slots' = slots /\ wr' = wr
  <2>1. /\ todo[1] \in SectorWrite /\ fat' = FatAfter(todo[1]) /\ slots' = SlotsAfter(todo[1])
        /\ 1 \in DOMAIN todo /\ wr' = wr
    BY NextToDo DEF Write
  <2>2. todo[1].c \in Clusters /\ todo[1].next # Free
    BY <2>1, SectorWriteCases DEF TodoInv
  <2> QED BY <2>1, <2>2 DEF FatAfter, SlotsAfter
<1>2. /\ 1 \in DOMAIN todo
      /\ \A k \in DOMAIN todo' : k + 1 \in DOMAIN todo /\ k + 1 # 1 /\ todo'[k] = todo[k + 1]
      /\ \A k \in DOMAIN todo : k # 1 => \E j \in DOMAIN todo' : todo'[j] = todo[k]
      /\ \A k \in DOMAIN todo' : todo'[k] \in SectorWrite
  <2>1. \A k \in DOMAIN todo' : todo'[k] \in SectorWrite
    <3>1. todo # <<>> /\ todo' = Tail(todo)
      BY DEF DiskStep
    <3>2. todo' \in Seq(SectorWrite)
      BY <3>1, TailIs
    <3> QED BY <3>2
  <2> QED BY <2>1, NextToDo
<1>3. fat'[w.c] = w.next /\ \A c \in Clusters : c # w.c => fat'[c] = fat[c]
  BY <1>1 DEF Types
<1>4. \/ w.next = EOC /\ fat[w.c] = Free
      \/ w.next # EOC /\ fat[w.c] # Free /\ NoDirAt(w.c) /\ wr # NoFile /\ w.next = wr.fil.clust
  BY <1>1, <1>2 DEF FilesInv, PendingFiles
<1>5. /\ \A x : SlotAt(x)' = SlotAt(x)
      /\ \A p \in Paths : \A d : DirOf(p, d)' <=> DirOf(p, d)
      /\ \A c : NoDirAt(c)' <=> NoDirAt(c)
      /\ UNCHANGED <<ShownFiles, ShownDirs>>
  BY <1>1, SlotsSame
<1>6. DirsEnd'
  <2>1. ASSUME NEW x \in Positions, DirEntry(x)' PROVE fat'[SlotAt(x)'.first] = EOC
    <3>1. DirEntry(x) /\ fat[SlotAt(x).first] = EOC /\ SlotAt(x)' = SlotAt(x)
      BY <1>5, <2>1 DEF FilesInv, DirsEnd, DirEntry
    <3>2. SlotAt(x).first \in Clusters
      BY DEF SlotAt, Positions, Types, SlotType
    <3>3. w.next = EOC \/ SlotAt(x).first # w.c
      BY <1>4, <3>1 DEF NoDirAt
    <3> QED BY <1>3, <3>1, <3>2, <3>3
  <2>2. fat'[Root] = EOC
    <3>1. fat[Root] = EOC /\ (w.next = EOC \/ w.c # Root)
      BY <1>4 DEF FilesInv, DirsEnd, NoDirAt
    <3> QED BY <1>3, <3>1, ConstantFacts
  <2> QED BY <2>1, <2>2 DEF DirsEnd
<1>7. ASSUME NEW d \in Clusters, NEW c, d \in Before(c), c # Free
      PROVE  d \in Before(c)' \/ (d = w.c /\ w.next # EOC)
  <2>1. CASE fat[d] = c
    <3>1. CASE d # w.c
      BY <1>3, <2>1, <3>1 DEF Before
    <3>2. CASE d = w.c
      BY <1>4, <1>7, <2>1, <3>2
    <3> QED BY <3>1, <3>2
  <2>2. CASE LinkComes(d, c)
    <3>1. LinkComes(d, c)' \/ (d = w.c /\ w.next = c)
      BY <1>1, <2>2, TailIs DEF DiskStep
    <3> QED BY <1>3, <3>1 DEF Before
  <2> QED BY <1>7, <2>1, <2>2 DEF Before
<1>8. ASSUME NEW q \in {wr'} \ {NoFile} PROVE Writes(q)'
  <2>1. q = wr /\ Writes(q)
    BY <1>1 DEF FilesInv, WriterFiles
  <2>2. q.path \in Paths /\ q.fil.clust \in DataClusters
    BY <2>1, WriterIs DEF Writes
  <2>3. DirOf(q.path, q.fil.dir)'
    <3>1. PICK p, d : p \in Paths /\ p = q.path /\ d = q.fil.dir
      BY <2>2
    <3>2. DirOf(p, d)'
      BY <1>5, <2>1, <3>1 DEF Writes
    <3> QED BY <3>1, <3>2 DEF DirOf, Here
  <2>4. q.fil.clust = q.fil.sclust \/ Before(q.fil.clust)' # {}
    <3>1. CASE w.next = EOC
      <4>1. ASSUME NEW d \in Before(q.fil.clust) PROVE d \in Before(q.fil.clust)'
        <5>1. PICK c : c = q.fil.clust /\ c # Free
          BY <2>2, ConstantFacts
        <5>2. d \in Clusters /\ d \in Before(c)
          BY <5>1 DEF Before
        <5>3. d \in Before(c)'
          BY <1>7, <3>1, <5>1, <5>2
        <5> QED BY <5>1, <5>3 DEF Before, LinkComes
      <4> QED BY <2>1, <4>1 DEF Writes
    <3>2. CASE w.next # EOC
      <4>1. fat'[w.c] = q.fil.clust
        BY <1>3, <1>4, <2>1, <3>2
      <4>2. w.c \in Before(q.fil.clust)'
        BY <1>1, <4>1 DEF Before
      <4> QED BY <4>2
    <3> QED BY <3>1, <3>2
  <2>5. (\A k \in DOMAIN todo' : todo'[k].op # "slot") => (\A k \in DOMAIN todo : todo[k].op # "slot")
    BY <1>1, <1>2
  <2> QED BY <1>2, <1>5, <2>1, <2>2, <2>3, <2>4, <2>5 DEF Writes
<1>9. DirFiles'
  <2> SUFFICES ASSUME wr = NoFile, NEW k \in DOMAIN todo', todo'[k].op = "slot"
               PROVE  /\ todo'[k].c = Root /\ todo'[k].slot.name \in DirNames
                      /\ fat'[todo'[k].slot.first] = EOC \/ LinkComes(todo[k].slot.first, EOC)'
                      /\ Empties(todo[k].slot.first)'
    BY <1>1 DEF DirFiles
  <2>1. PICK v : v = todo'[k] /\ v = todo[k + 1] /\ k + 1 \in DOMAIN todo /\ v \in SectorWrite
    BY <1>2
  <2>2. /\ v.op = "slot" /\ v.c = Root /\ v.slot.name \in DirNames
        /\ fat[v.slot.first] = EOC \/ LinkComes(v.slot.first, EOC)
        /\ Empties(v.slot.first)
    BY <2>1 DEF FilesInv, DirFiles
  <2>3. v.slot.first \in Clusters /\ w.next = EOC
    BY <1>4, <2>1, <2>2, SectorWriteCases DEF SlotType
  <2>4. fat'[v.slot.first] = EOC \/ LinkComes(v.slot.first, EOC)'
    <3>1. LinkComes(v.slot.first, EOC) => LinkComes(v.slot.first, EOC)' \/ w.c = v.slot.first
      BY <1>1, TailIs DEF DiskStep
    <3> QED BY <1>3, <2>2, <2>3, <3>1
  <2>5. Empties(v.slot.first)'
    BY <1>1, <1>2, <1>5, <2>2 DEF Empties
  <2> QED BY <2>1, <2>2, <2>4, <2>5 DEF LinkComes, Empties
<1>10. PendingFiles'
  <2>1. ASSUME NEW k \in DOMAIN todo', todo'[k].op = "link"
        PROVE  \/ todo'[k].next = EOC /\ fat'[todo'[k].c] = Free
               \/ /\ todo'[k].next # EOC /\ fat'[todo'[k].c] # Free /\ NoDirAt(todo[k].c)'
                  /\ wr' # NoFile /\ todo'[k].next = wr'.fil.clust
    <3>1. PICK v, c : v = todo'[k] /\ c = v.c /\ v = todo[k + 1] /\ k + 1 \in DOMAIN todo /\ v \in SectorWrite
      BY <1>2
    <3>2. \/ v.next = EOC /\ fat[c] = Free
          \/ v.next # EOC /\ fat[c] # Free /\ NoDirAt(c) /\ wr # NoFile /\ v.next = wr.fil.clust
      BY <2>1, <3>1 DEF FilesInv, PendingFiles
    <3>3. c \in Clusters
      BY <2>1, <3>1, SectorWriteCases
    <3>4. CASE v.next = EOC /\ fat[c] = Free
      <4>1. ~ (w.next = EOC)
        <5>1. w.next = EOC => Marks(1) /\ Marks(k + 1)
          BY <1>1, <2>1, <3>1, <3>4 DEF Marks
        <5>2. k + 1 # 1
          BY <1>2
        <5> QED BY <1>2, <3>1, <5>1, <5>2 DEF TodoInv
      <4>2. c # w.c
        BY <1>4, <3>4, <4>1
      <4> QED BY <1>3, <3>1, <3>3, <3>4, <4>2
    <3>5. CASE v.next # EOC /\ fat[c] # Free /\ NoDirAt(c) /\ wr # NoFile /\ v.next = wr.fil.clust
      <4>1. fat'[c] # Free
        BY <1>1, <1>3, <3>3, <3>5
      <4>2. NoDirAt(c)'
        BY <1>5, <3>5
      <4>3. NoDirAt(todo[k].c)'
        BY <3>1, <4>2 DEF NoDirAt
      <4> QED BY <1>1, <3>1, <3>5, <4>1, <4>3
    <3> QED BY <3>2, <3>4, <3>5
  <2>2. ASSUME NEW k \in DOMAIN todo'
        PROVE  /\ todo'[k].op = "slot" => slots'[todo'[k].c][todo'[k].i].st # "used"
               /\ todo'[k].op \in {"data", "zero"} => \A p \in Positions : ~Shows(p, todo[k].c)'
    <3>1. todo'[k] = todo[k + 1] /\ k + 1 \in DOMAIN todo
      BY <1>2
    <3> QED BY <1>1, <1>5, <3>1 DEF FilesInv, PendingFiles, Shows
  <2> QED BY <2>1, <2>2 DEF PendingFiles
<1> QED BY <1>5, <1>6, <1>8, <1>9, <1>10 DEF FilesInv, WriterFiles

(* The zeroes of a new directory leave it without entries. *)
LEMMA ZeroesEmpty ==
  ASSUME FatFsAssumption, Types, DiskNames, NEW c \in Clusters, c # Root, slots' = Fill(c, 0, FreeSlot),
         \A x \in Positions : SlotAt(x)'.st = "used" => SlotAt(x)' = SlotAt(x)
  PROVE  \A x \in Positions : x[1] = c => SlotAt(x)'.st # "used"
<1> SUFFICES ASSUME NEW x \in Positions, x[1] = c, SlotAt(x)'.st = "used" PROVE FALSE
  OBVIOUS
<1>1. x[2] \in SlotIds /\ slots[c][x[2]].st = "used"
  BY DEF SlotAt, Positions
<1>2. x[2] \in FirstSector
  BY <1>1 DEF DiskNames, Fits
<1>3. SectorOf(x[2]) = 0
  <2>1. SlotsPerSector \in Nat \ {0} /\ x[2] \in 0 .. SlotsPerSector - 1
    BY <1>2 DEF FatFsAssumption, FirstSector
  <2>2. \A n \in Nat \ {0} : \A m \in 0 .. n - 1 : m \div n = 0
    BY Z3
  <2> QED BY <2>1, <2>2 DEF SectorOf
<1>4. slots'[c] = [i \in SlotIds |-> IF SectorOf(i) = 0 THEN FreeSlot ELSE slots[c][i]]
  BY DEF Fill, Types
<1>5. SlotAt(x)' = FreeSlot
  BY <1>1, <1>3, <1>4 DEF SlotAt
<1> QED BY <1>5 DEF FreeSlot, Slot

LEMMA FilesFill ==
  ASSUME FatFsAssumption, Types, Named, TodoInv, View, View', FilesInv, DiskStep, todo[1].op \in {"data", "zero"}
  PROVE  FilesInv' /\ UNCHANGED <<ShownFiles, ShownDirs>>
<1>1. PICK w, c, s, slot :
        /\ w = todo[1] /\ c = w.c /\ c \in Clusters /\ c # Root /\ fat' = fat /\ wr' = wr
        /\ slots' = Fill(c, s, slot) /\ slot.st # "used"
        /\ w.op = "zero" => slots' = Fill(c, 0, FreeSlot)
  <2>1. PICK w : w = todo[1] /\ w \in SectorWrite /\ 1 \in DOMAIN todo /\ Write(w) /\ wr' = wr
                 /\ w.op \in {"data", "zero"}
    BY NextToDo
  <2>2. w.c \in Clusters /\ w.c # Root
    BY <2>1, SectorWriteCases DEF Named, PendingNames
  <2>3. FreeSlot.st = "free" /\ JunkSlot.st = "junk"
    BY DEF FreeSlot, JunkSlot, Slot
  <2>4. CASE w.op = "zero"
    <3>1. fat' = fat /\ slots' = Fill(w.c, 0, FreeSlot)
      BY <2>1, <2>4 DEF Write, FatAfter, SlotsAfter
    <3> QED BY <2>1, <2>2, <2>3, <3>1
  <2>5. CASE w.op = "data"
    <3>1. fat' = fat /\ slots' = Fill(w.c, w.s, w.as)
      BY <2>1, <2>5 DEF Write, FatAfter, SlotsAfter
    <3>2. w.as.st # "used"
      <4>1. w.as \in Data
        BY <2>1, <2>5 DEF SectorWrite
      <4> QED BY <2>3, <4>1 DEF Data
    <3> QED BY <2>1, <2>2, <2>5, <3>1, <3>2
  <2> QED BY <2>1, <2>4, <2>5
<1>2. /\ 1 \in DOMAIN todo
      /\ \A k \in DOMAIN todo' : k + 1 \in DOMAIN todo /\ k + 1 # 1 /\ todo'[k] = todo[k + 1]
      /\ \A k \in DOMAIN todo : k # 1 => \E j \in DOMAIN todo' : todo'[j] = todo[k]
      /\ w.op # "link" /\ w.op # "slot"
  BY <1>1, NextToDo
<1>3. \A d, e : LinkComes(d, e)' <=> LinkComes(d, e)
  BY <1>1, <1>2 DEF LinkComes
<1>4. \A d : Before(d)' = Before(d)
  BY <1>1, <1>3 DEF Before
<1>5. NoDirAt(c)
  BY <1>1, <1>2 DEF FilesInv, PendingFiles, NoDirAt, DirEntry, Shows
<1>6. /\ \A x \in Positions : SlotAt(x)'.st = "used" => SlotAt(x)' = SlotAt(x)
      /\ SameDirs
      /\ \A p \in Paths, x \in Positions :
           /\ DirOf(p, x[1]) => SlotAt(x)' = SlotAt(x)
           /\ At(p, x)' <=> At(p, x)
           /\ At(p, x) => SlotAt(x)' = SlotAt(x)
  BY <1>1, <1>5, FillKeeps
<1>7. UNCHANGED <<ShownFiles, ShownDirs>>
  BY <1>6, NoFileChanges
<1>8. DirsEnd'
  BY <1>1, <1>6 DEF FilesInv, DirsEnd, SameDirs
<1>9. ASSUME NEW q \in {wr'} \ {NoFile} PROVE Writes(q)'
  <2>1. q = wr /\ Writes(q)
    BY <1>1 DEF FilesInv, WriterFiles
  <2>2. PICK x, d, i, path : x = <<d, i>> /\ d = q.fil.dir /\ i = q.fil.idx /\ path = q.path
    OBVIOUS
  <2>3. path \in Paths /\ x \in Positions /\ x[1] = d
    <3>1. path \in Paths /\ d \in Clusters /\ i \in SlotIds
      BY <2>1, <2>2 DEF Types, WriterType, HandleType
    <3> QED BY <2>2, <3>1 DEF Positions
  <2>4. DirOf(path, d)
    BY <2>1, <2>2 DEF Writes
  <2>5. DirOf(path, d)'
    BY <1>6, <2>3, <2>4, DirsKept
  <2>6. SlotAt(x)' = SlotAt(x)
    BY <1>6, <2>3, <2>4
  <2>7. DirOf(q.path, q.fil.dir)' /\ SlotAt(<<q.fil.dir, q.fil.idx>>)' = SlotAt(<<q.fil.dir, q.fil.idx>>)
    BY <2>2, <2>5, <2>6 DEF DirOf, Here, SlotAt
  <2>8. (\A k \in DOMAIN todo' : todo'[k].op # "slot") => (\A k \in DOMAIN todo : todo[k].op # "slot")
    BY <1>1, <1>2
  <2> QED BY <1>2, <1>4, <2>1, <2>7, <2>8 DEF Writes
<1>10. DirFiles'
  <2> SUFFICES ASSUME wr = NoFile, NEW k \in DOMAIN todo', todo'[k].op = "slot"
               PROVE  /\ todo'[k].c = Root /\ todo'[k].slot.name \in DirNames
                      /\ fat'[todo'[k].slot.first] = EOC \/ LinkComes(todo[k].slot.first, EOC)'
                      /\ Empties(todo[k].slot.first)'
    BY <1>1 DEF DirFiles
  <2>1. PICK v, e : v = todo'[k] /\ e = v.slot.first /\ v = todo[k + 1] /\ k + 1 \in DOMAIN todo
    BY <1>2
  <2>2. v.c = Root /\ v.slot.name \in DirNames /\ (fat[e] = EOC \/ LinkComes(e, EOC)) /\ Empties(e)
    BY <2>1 DEF FilesInv, DirFiles
  <2>3. Empties(e)'
    <3>1. CASE w.op = "zero" /\ c = e
      <4>1. \A x \in Positions : x[1] = c => SlotAt(x)'.st # "used"
        BY <1>1, <1>6, <3>1, ZeroesEmpty DEF Named
      <4> QED BY <3>1, <4>1 DEF Empties
    <3>2. CASE \E j \in DOMAIN todo : j # 1 /\ todo[j].op = "zero" /\ todo[j].c = e
      BY <1>2, <3>2 DEF Empties
    <3>3. CASE \A x \in Positions : x[1] = e => SlotAt(x).st # "used"
      BY <1>6, <3>3 DEF Empties
    <3> QED BY <1>1, <2>2, <3>1, <3>2, <3>3 DEF Empties
  <2>4. fat'[e] = EOC \/ LinkComes(e, EOC)'
    BY <1>1, <1>3, <2>2
  <2> QED BY <2>1, <2>2, <2>3, <2>4 DEF LinkComes, Empties
<1>11. PendingFiles'
  <2>1. ASSUME NEW k \in DOMAIN todo'
        PROVE  /\ todo'[k].op = "slot" => slots'[todo'[k].c][todo'[k].i].st # "used"
               /\ todo'[k].op \in {"data", "zero"} => \A p \in Positions : ~Shows(p, todo[k].c)'
               /\ todo'[k].op = "link" =>
                    \/ todo'[k].next = EOC /\ fat'[todo'[k].c] = Free
                    \/ /\ todo'[k].next # EOC /\ fat'[todo'[k].c] # Free /\ NoDirAt(todo[k].c)'
                       /\ wr' # NoFile /\ todo'[k].next = wr'.fil.clust
    <3>1. PICK v, d : v = todo'[k] /\ d = v.c /\ v = todo[k + 1] /\ k + 1 \in DOMAIN todo /\ v \in SectorWrite
      BY <1>2 DEF Types
    <3>2. /\ v.op = "slot" => slots[d][v.i].st # "used"
          /\ v.op \in {"data", "zero"} => \A p \in Positions : ~Shows(p, d)
          /\ v.op = "link" =>
               \/ v.next = EOC /\ fat[d] = Free
               \/ v.next # EOC /\ fat[d] # Free /\ NoDirAt(d) /\ wr # NoFile /\ v.next = wr.fil.clust
      BY <3>1 DEF FilesInv, PendingFiles
    <3>3. v.op = "slot" => slots'[d][v.i].st # "used"
      <4> SUFFICES ASSUME v.op = "slot" PROVE slots'[d][v.i].st # "used"
        OBVIOUS
      <4>1. PICK x \in Positions : x[1] = d /\ x[2] = v.i
        <5>1. d \in Clusters /\ v.i \in SlotIds
          BY <3>1 DEF SectorWrite
        <5>2. <<d, v.i>> \in Positions
          BY <5>1 DEF Positions
        <5> QED BY <5>2
      <4> QED BY <1>6, <3>2, <4>1 DEF SlotAt
    <3>4. v.op \in {"data", "zero"} => \A p \in Positions : ~Shows(p, d)'
      BY <1>6, <3>2 DEF Shows
    <3>5. NoDirAt(d) => NoDirAt(d)'
      BY <1>6, DirsKept
    <3>6. (NoDirAt(d)' => NoDirAt(todo[k].c)') /\ \A p \in Positions : (~Shows(p, d)' => ~Shows(p, todo[k].c)')
      BY <3>1 DEF NoDirAt, Shows
    <3> QED BY <1>1, <3>1, <3>2, <3>3, <3>4, <3>5, <3>6
  <2> QED BY <2>1 DEF PendingFiles
<1> QED BY <1>7, <1>8, <1>9, <1>10, <1>11 DEF FilesInv, WriterFiles

(* The entry of a new file shows it, empty, once its cluster is taken; *)
LEMMA FilesPutFile ==
  ASSUME FatFsAssumption, Types, View, View', FilesInv, NEW w \in SectorWrite, w.op = "slot", w.slot.st = "used",
         DOMAIN todo = {1}, todo[1] = w, todo' = <<>>, wr' = wr, wr # NoFile, fat' = fat, saved' = saved,
         NEW x \in Positions, x[1] = w.c, x = <<w.c, w.i>>, SlotAt(x).st # "used", SlotAt(x)' = w.slot,
         \A y \in Positions : y # x => SlotAt(y)' = SlotAt(y)
  PROVE  FilesInv' /\ StoreStep
<1>1. PICK q \in WriterType : q = wr
  BY DEF Types
<1>2. PICK fil \in HandleType, path \in Paths : fil = q.fil /\ path = q.path
  BY DEF WriterType
<1>3. Writes(q)
  BY <1>1 DEF FilesInv, WriterFiles
<1>4. /\ x = <<fil.dir, fil.idx>> /\ x[1] = fil.dir /\ DirOf(path, fil.dir) /\ fil.pos = 0 /\ fil.size = 0
      /\ w.slot.name = path.name /\ w.slot.first = fil.sclust /\ w.slot.size = 0
  BY <1>2, <1>3 DEF Writes, Slot
<1>5. path.name \notin DirNames
  BY DEF Paths, FatFsAssumption
<1>6. SameDirs
  BY <1>4, <1>5 DEF SameDirs, DirEntry
<1>7. At(path, x)'
  <2>1. DirOf(path, x[1])
    BY <1>4
  <2>2. DirOf(path, x[1])'
    BY <1>6, <2>1, DirsKept
  <2> QED BY <1>4, <2>2 DEF At, Here
<1>8. \A p \in Paths, y \in Positions : y # x => (At(p, y)' <=> At(p, y))
  BY <1>6, DirsKept DEF At, Here
<1>9. \A p \in Paths : ~At(p, x)
  BY DEF At, Here
<1>10. \A p \in Paths : p # path => ~At(p, x)'
  BY <1>7 DEF View, Once
<1>11. ShownDirs' = ShownDirs /\ ShownFiles' = [ShownFiles EXCEPT ![path] = ShownFiles'[path]]
  <2>1. \A p \in Paths, y \in Positions : p # path =>
          (At(p, y)' <=> At(p, y)) /\ (At(p, y) => SlotAt(y)'.size = SlotAt(y).size)
    BY <1>8, <1>9, <1>10
  <2> QED BY <1>6, <2>1, OneFileChanges
<1>12. ShownFiles'[path] = 0
  BY <1>4, <1>7 DEF View, FileShown
<1>13. ShownFiles[path] = -1
  <2>1. ASSUME NEW y \in Positions PROVE ~At(path, y)
    <3>1. y # x => ~At(path, y)'
      BY <1>7 DEF View, Once
    <3> QED BY <1>8, <1>9, <3>1
  <2> QED BY <2>1 DEF View, FileShown
<1>14. path.dir \in ShownDirs \cup {Top}
  <2> SUFFICES ASSUME path.dir # Top PROVE path.dir \in ShownDirs
    OBVIOUS
  <2>1. path.dir \in DirNames
    BY DEF Paths
  <2>2. PICK z \in Positions : Here(z, Root, path.dir)
    BY <1>4 DEF DirOf
  <2> QED BY <2>1, <2>2 DEF View
<1>15. Store!Create(path)
  BY <1>11, <1>12, <1>13, <1>14, LastKept DEF Store!Create, Store!Absent
<1>16. Store!Next
  BY <1>15 DEF Store!Next, Store!FilePaths, Paths
<1>17. DOMAIN todo' = {} /\ \A c : Before(c)' = Before(c)
  BY DEF Before, LinkComes
<1>18. DirsEnd'
  BY <1>6 DEF FilesInv, DirsEnd, SameDirs
<1>19. Writes(q)'
  <2>1. DirOf(q.path, q.fil.dir)'
    <3>1. DirOf(path, fil.dir)'
      BY <1>4, <1>7 DEF At
    <3> QED BY <1>2, <3>1 DEF DirOf, Here
  <2>2. Larger(0, 0) = 0
    BY DEF Larger
  <2>3. q.left = 0 => q.fil.pos > 0
    BY <1>3 DEF Writes
  <2>4. q.fil.clust \in DataClusters /\ (q.fil.clust = q.fil.sclust \/ Before(q.fil.clust)' # {})
    BY <1>3, <1>17 DEF Writes
  <2>5. SlotAt(<<q.fil.dir, q.fil.idx>>)' = w.slot
    BY <1>2, <1>4 DEF SlotAt
  <2> QED BY <1>2, <1>4, <1>17, <2>1, <2>2, <2>3, <2>4, <2>5 DEF Writes
<1>20. WriterFiles'
  BY <1>1, <1>19 DEF WriterFiles, Writes
<1> QED BY <1>16, <1>17, <1>18, <1>20 DEF FilesInv, DirFiles, PendingFiles, StoreStep

(* that of a new directory shows nothing in it. *)
LEMMA FilesPutDir ==
  ASSUME FatFsAssumption, Types, Named, View, View', FilesInv, NEW w \in SectorWrite, w.op = "slot",
         w.slot.st = "used", DOMAIN todo = {1}, todo[1] = w, todo' = <<>>, wr' = wr, wr = NoFile, fat' = fat, saved' = saved,
         NEW x \in Positions, x[1] = w.c, SlotAt(x).st # "used", SlotAt(x)' = w.slot,
         \A y \in Positions : y # x => SlotAt(y)' = SlotAt(y)
  PROVE  FilesInv' /\ StoreStep
<1>1. PICK name, f : name = w.slot.name /\ f = w.slot.first
  OBVIOUS
<1>2. x[1] = Root /\ name \in DirNames /\ fat[f] = EOC /\ \A y \in Positions : y[1] = f => SlotAt(y).st # "used"
  <2>1. /\ w.c = Root /\ name \in DirNames /\ (fat[f] = EOC \/ LinkComes(f, EOC))
        /\ Empties(f)
    BY <1>1 DEF FilesInv, DirFiles
  <2>2. ~LinkComes(f, EOC)
    BY DEF LinkComes
  <2> QED BY <2>1, <2>2 DEF Empties
<1>3. \A y \in Positions : \A d, n : Here(y, d, n)' <=> Here(y, d, n) \/ (y = x /\ d = Root /\ n = name)
  BY <1>1, <1>2 DEF Here
<1>4. Here(x, Root, name)' /\ \A d, n : ~Here(x, d, n)
  BY <1>3 DEF Here
<1>5. \A y \in Positions : ~Here(y, Root, name)
  <2>1. ASSUME NEW y \in Positions, Here(y, Root, name) PROVE FALSE
    <3>1. Here(y, Root, name)'
      BY <1>3, <2>1
    <3>2. x = y
      BY <1>4, <3>1 DEF View, Once
    <3> QED BY <1>4, <2>1, <3>2
  <2> QED BY <2>1
<1>6. ASSUME NEW p \in Paths, NEW y \in Positions PROVE At(p, y)' <=> At(p, y)
  <2>1. p.name # name
    BY <1>2 DEF Paths, FatFsAssumption
  <2>2. Here(y, y[1], p.name)' <=> Here(y, y[1], p.name)
    BY <1>3, <2>1
  <2>3. CASE p.dir = name
    <3>1. name # Top
      BY <1>2 DEF FatFsAssumption
    <3>2. \A d : ~DirOf(p, d)
      BY <1>5, <2>3, <3>1 DEF DirOf
    <3>3. DirOf(p, y[1])' => y[1] = f
      <4>1. \A z \in Positions : Here(z, Root, name)' => z = x
        BY <1>3, <1>5
      <4> QED BY <1>1, <2>3, <3>1, <4>1 DEF DirOf
    <3>4. y[1] = f => ~Here(y, y[1], p.name)
      BY <1>2 DEF Here
    <3> QED BY <2>2, <3>2, <3>3, <3>4 DEF At
  <2>4. CASE p.dir # name
    <3>1. \A z \in Positions : (Here(z, Root, p.dir)' <=> Here(z, Root, p.dir))
      BY <1>3, <2>4
    <3>2. \A z \in Positions : Here(z, Root, p.dir) => SlotAt(z)' = SlotAt(z)
      BY <1>4
    <3>3. DirOf(p, y[1])' <=> DirOf(p, y[1])
      BY <3>1, <3>2 DEF DirOf
    <3> QED BY <2>2, <3>3 DEF At
  <2> QED BY <2>3, <2>4
<1>7. ASSUME NEW p \in Paths PROVE ShownFiles'[p] = ShownFiles[p]
  <2>1. FileShown(p) /\ FileShown(p)'
    BY DEF View
  <2>2. CASE \E y \in Positions : At(p, y)
    <3>1. PICK y \in Positions : At(p, y)
      BY <2>2
    <3>2. y # x
      BY <1>4, <3>1 DEF At
    <3>3. ShownFiles[p] = SlotAt(y).size /\ ShownFiles'[p] = SlotAt(y)'.size
      BY <1>6, <2>1, <3>1 DEF FileShown
    <3> QED BY <3>2, <3>3
  <2>3. CASE \A y \in Positions : ~At(p, y)
    BY <1>6, <2>1, <2>3 DEF FileShown
  <2> QED BY <2>2, <2>3
<1>8. ShownFiles' = ShownFiles
  <2>1. ShownFiles = [p \in Paths |-> ShownFiles[p]] /\ ShownFiles' = [p \in Paths |-> ShownFiles'[p]]
    BY DEF ShownFiles
  <2>2. PICK g, h : g = ShownFiles /\ h = ShownFiles'
    OBVIOUS
  <2>3. g = [p \in Paths |-> g[p]] /\ h = [p \in Paths |-> h[p]] /\ \A p \in Paths : h[p] = g[p]
    BY <1>7, <2>1, <2>2
  <2> QED BY <2>2, <2>3
<1>9. name \notin ShownDirs
  BY <1>2, <1>5 DEF View
<1>10. ShownDirs' = ShownDirs \cup {name}
  <2>1. ASSUME NEW n \in DirNames PROVE n \in ShownDirs' <=> n \in ShownDirs \/ n = name
    <3>1. n \in ShownDirs' <=> \E y \in Positions : Here(y, Root, n)'
      BY DEF View
    <3>2. (\E y \in Positions : Here(y, Root, n)') <=> (\E y \in Positions : Here(y, Root, n)) \/ n = name
      BY <1>3
    <3> QED BY <3>1, <3>2 DEF View
  <2>2. ShownDirs \subseteq DirNames /\ ShownDirs' \subseteq DirNames
    BY DEF ShownDirs
  <2> QED BY <1>2, <2>1, <2>2
<1>11. Store!MakeDir(name)
  BY <1>8, <1>9, <1>10, LastKept DEF Store!MakeDir
<1>12. Store!Next
  BY <1>2, <1>11 DEF Store!Next
<1>13. DirsEnd'
  BY <1>1, <1>2 DEF FilesInv, DirsEnd, DirEntry
<1>14. DOMAIN todo' = {}
  OBVIOUS
<1> QED BY <1>12, <1>13, <1>14 DEF FilesInv, WriterFiles, DirFiles, PendingFiles, StoreStep

LEMMA FilesDiskStep ==
  ASSUME FatFsAssumption, Types, Named, TodoInv, View, View', FilesInv, DiskStep
  PROVE  FilesInv' /\ StoreStep
<1>1. PICK w : /\ w = todo[1] /\ w \in SectorWrite /\ 1 \in DOMAIN todo /\ Write(w) /\ wr' = wr /\ saved' = saved
               /\ w.op = "slot" => DOMAIN todo = {1} /\ todo' = <<>>
  BY NextToDo DEF DiskStep
<1>2. w.op \in {"link", "data", "zero", "slot"}
  BY <1>1 DEF SectorWrite
<1>3. CASE w.op = "link"
  BY <1>1, <1>3, FilesLink, LastKept DEF StoreStep
<1>4. CASE w.op \in {"data", "zero"}
  BY <1>1, <1>4, FilesFill, LastKept DEF StoreStep
<1>5. CASE w.op = "slot"
  <2>1. w.c \in Clusters /\ w.i \in SlotIds /\ w.slot.st = "used" /\ slots[w.c][w.i].st # "used"
    BY <1>1, <1>5 DEF SectorWrite, TodoInv, FilesInv, PendingFiles
  <2>2. fat' = fat /\ slots' = [slots EXCEPT ![w.c][w.i] = w.slot]
    BY <1>1, <1>5 DEF Write, FatAfter, SlotsAfter
  <2>3. PICK x \in Positions : x = <<w.c, w.i>> /\ x[1] = w.c /\ x[2] = w.i
    <3>1. <<w.c, w.i>> \in Positions
      BY <2>1 DEF Positions
    <3> QED BY <3>1
  <2>4. SlotAt(x)' = w.slot /\ \A y \in Positions : y # x => SlotAt(y)' = SlotAt(y)
    <3>1. PICK c, i, slot : c \in Clusters /\ i \in SlotIds /\ c = w.c /\ i = w.i /\ slot = w.slot
      BY <2>1
    <3>2. slots' = [slots EXCEPT ![c][i] = slot]
      BY <2>2, <3>1
    <3>3. SlotAt(<<c, i>>)' = slot /\ \A y \in Positions : y # <<c, i>> => SlotAt(y)' = SlotAt(y)
      BY <3>1, <3>2, PutIs
    <3>4. x = <<c, i>>
      BY <2>3, <3>1
    <3>5. SlotAt(x)' = slot
      BY <3>3, <3>4 DEF SlotAt
    <3>6. \A y \in Positions : y # x => SlotAt(y)' = SlotAt(y)
      BY <3>3, <3>4
    <3> QED BY <3>1, <3>5, <3>6
  <2>5. SlotAt(x).st # "used"
    BY <2>1, <2>3 DEF SlotAt
  <2>6. CASE wr # NoFile
    BY <1>1, <1>5, <2>1, <2>2, <2>3, <2>4, <2>5, <2>6, FilesPutFile
  <2>7. CASE wr = NoFile
    BY <1>1, <1>5, <2>1, <2>2, <2>3, <2>4, <2>5, <2>7, FilesPutDir
  <2> QED BY <2>6, <2>7
<1> QED BY <1>2, <1>3, <1>4, <1>5

(* A volume that f_mkfs has laid out shows nothing. *)
LEMMA InitFiles == FatFsAssumption /\ Init => FilesInv /\ Store!Init
<1> SUFFICES ASSUME FatFsAssumption, Init PROVE FilesInv /\ Store!Init
  OBVIOUS
<1>1. /\ fat = [c \in Clusters |-> IF c <= Root THEN EOC ELSE Free]
      /\ slots = [c \in Clusters |-> [i \in SlotIds |-> FreeSlot]]
      /\ wr = NoFile /\ todo = <<>> /\ saved = [p \in Paths |-> NotSaved]
  BY DEF Init
<1>2. \A c \in Clusters, i \in SlotIds : slots[c][i].st # "used"
  BY <1>1 DEF FreeSlot, Slot
<1>3. \A x \in Positions : SlotAt(x).st # "used"
  BY <1>2 DEF SlotAt, Positions
<1>4. DirsEnd
  BY <1>1, <1>3, ConstantFacts DEF DirsEnd, DirEntry, Root
<1>5. DOMAIN todo = {}
  BY <1>1
<1>6. FilesInv
  BY <1>1, <1>4, <1>5 DEF FilesInv, WriterFiles, DirFiles, PendingFiles
<1>7. \A name : Shown(Root, name) = {}
  BY <1>2, ConstantFacts DEF Shown
<1>8. ShownDirs = {}
  BY <1>7 DEF ShownDirs
<1>9. \A p \in Paths : ShownAt(p) = {}
  BY <1>7 DEF ShownAt
<1>10. ShownFiles = [p \in Paths |-> -1]
  BY <1>9 DEF ShownFiles
<1>11. LastWritten = [p \in Paths |-> 0]
  BY <1>1 DEF LastWritten, NotSaved
<1> QED BY <1>6, <1>8, <1>10, <1>11 DEF Store!Init, Store!Absent, Store!FilePaths, Paths

LEMMA FilesStep ==
  ASSUME FatFsAssumption, NoFileAssumption, Streams = {}, MaxCrashes = 0, MaxFailures = 0,
         IInv, IInv', Named, Named', FilesInv, [Next]_vars
  PROVE  FilesInv' /\ StoreStep
<1>1. Types /\ TodoInv /\ Types'
  BY DEF IInv
<1>2. crashes = 0 /\ failures = 0 /\ crashes' = 0 /\ failures' = 0
  BY <1>1 DEF Types
<1>3. Undamaged
  BY <1>2, NothingDamaged DEF Undamaged
<1>4. Undamaged'
  <2>1. (FatFsAssumption /\ IInv /\ crashes = 0 /\ failures = 0 => Undamaged)'
    BY UndamagedIs, PTL
  <2> QED BY <1>2, <2>1
<1>5. View /\ View'
  <2>1. View
    BY <1>1, <1>3, ViewIs
  <2>2. View'
    BY <1>1, <1>4, ViewNext
  <2> QED BY <2>1, <2>2
<1>6. ASSUME UNCHANGED <<slots, saved>> PROVE StoreStep
  BY <1>6, SlotsSame, LastKept DEF StoreStep
<1>7. ASSUME NEW path \in Paths, OpenToOverwrite(path) PROVE FilesInv' /\ StoreStep
  BY <1>1, <1>6, <1>7, FilesOpenToOverwrite DEF OpenToOverwrite
<1>8. ASSUME NEW path \in Paths, OpenToCreate(path) PROVE FilesInv' /\ StoreStep
  BY <1>1, <1>6, <1>8, FilesOpenToCreate DEF OpenToCreate
<1>9. ASSUME NEW path \in Paths, Unlink(path) PROVE FilesInv' /\ StoreStep
  BY <1>1, <1>5, <1>9, UnlinkRemoves
<1>10. ASSUME NEW name \in DirNames, Mkdir(name) PROVE FilesInv' /\ StoreStep
  BY <1>1, <1>3, <1>6, <1>10, FilesMkdir DEF Mkdir
<1>11. ASSUME NEW name \in DirNames, Rmdir(name) PROVE FilesInv' /\ StoreStep
  BY <1>1, <1>5, <1>11, RmdirRemoves
<1>12. CASE WriteInCluster
  BY <1>1, <1>3, <1>5, <1>12, FilesWriteInCluster, LastKept DEF StoreStep, WriteInCluster
<1>13. CASE WriteNextCluster
  BY <1>1, <1>3, <1>5, <1>13, FilesWriteNextCluster, LastKept DEF StoreStep, WriteNextCluster
<1>14. CASE WriteNewCluster
  BY <1>1, <1>3, <1>6, <1>14, FilesWriteNewCluster DEF WriteNewCluster
<1>15. CASE WriteDenied
  BY <1>1, <1>6, <1>15, FilesWriteDenied DEF WriteDenied
<1>16. CASE CloseWriter
  BY <1>1, <1>5, <1>16, CloseWriterWrites
<1>17. CASE DiskStep
  BY <1>1, <1>5, <1>17, FilesDiskStep
<1>18. ~WriteBreaks /\ ~WriteLost /\ ~Crash
  BY <1>2 DEF WriteBreaks, WriteLost, Crash
<1>19. CASE UNCHANGED vars
  <2>1. UNCHANGED <<fat, slots, wr, todo, saved>>
    BY <1>19 DEF vars
  <2>2. FilesInv'
    <3>1. DirsEnd' /\ DirFiles'
      BY <2>1 DEF FilesInv, DirsEnd, DirFiles, DirEntry, Empties, LinkComes, SlotAt
    <3>2. WriterFiles'
      <4>1. \A c \in DataClusters : Before(c)' = Before(c)
        BY <2>1 DEF Before, LinkComes
      <4>2. ASSUME NEW q \in {wr} \ {NoFile}, Writes(q) PROVE Writes(q)'
        <5>1. \A p, d : DirOf(p, d)' = DirOf(p, d)
          BY <2>1 DEF DirOf, Here, SlotAt
        <5>2. SlotAt(<<q.fil.dir, q.fil.idx>>)' = SlotAt(<<q.fil.dir, q.fil.idx>>)
          BY <2>1 DEF SlotAt
        <5> QED BY <2>1, <4>1, <4>2, <5>1, <5>2 DEF Writes
      <4> QED BY <2>1, <4>2 DEF FilesInv, WriterFiles
    <3>3. PendingFiles'
      BY <2>1 DEF FilesInv, PendingFiles, Shows, NoDirAt, DirEntry, SlotAt
    <3> QED BY <3>1, <3>2, <3>3 DEF FilesInv
  <2> QED BY <1>6, <2>1, <2>2
<1> QED BY <1>7, <1>8, <1>9, <1>10, <1>11, <1>12, <1>13, <1>14, <1>15, <1>16, <1>17, <1>18, <1>19 DEF Next

(* As long as no power is lost, no sector write fails and no task holds a  *)
(* handle across yields, a volume of any size, with malloc failing at any  *)
(* point, is a FileStore: f_open, f_write, f_close, f_mkdir and f_unlink   *)
(* change at each of their sector writes what one command of the store     *)
(* changes, or nothing that the volume shows.                              *)
THEOREM ImplementsFileStoreHolds ==
  ASSUME Streams = {}, MaxCrashes = 0, MaxFailures = 0
  PROVE  Spec => ImplementsFileStore
<1> USE FatFsAssumption, NoFileAssumption
<1>1. Init => FilesInv /\ Store!Init
  BY InitFiles
<1>2. IInv /\ IInv' /\ Named /\ Named' /\ FilesInv /\ [Next]_vars => FilesInv' /\ [Store!Next]_(Store!store)
  BY FilesStep DEF StoreStep, Store!store
<1> QED BY <1>1, <1>2, InvHolds, NamedHolds, PTL DEF Spec, ImplementsFileStore, Store!Spec
-----------------------------------------------------------------------------
(* What keeps a written file as it was: every entry in use has a cluster   *)
(* for each sector of its size, what a command has written stands under    *)
(* its path, and a write command has walked along its chain as far as it   *)
(* has written, or the chain is longer than a walk goes. An entry to come  *)
(* is empty, and a chain is lengthened at its end, which without a failing *)
(* malloc is the only place where f_write finds no next cluster.           *)
Taken(c) == c \in DataClusters /\ fat[c] # Free
EntriesHold ==
  \A x \in Positions : SlotAt(x).st = "used" => ChainHolds(SlotAt(x).first, SlotAt(x).size)
SavedShown ==
  \A p \in Paths : saved[p] # NotSaved =>
    \E x \in Positions :
      At(p, x) /\ SlotAt(x).first = saved[p].first /\ SlotAt(x).size >= saved[p].size
AsFarAs(fil, k) ==
  /\ fil.pos <= (k + 1) * SectorsPerCluster
  /\ \A j \in 0 .. k - 1 : Taken(Walk(fil.sclust)[j])
  /\ \/ Walk(fil.sclust)[k] = fil.clust
     \/ k > 0 /\ LinkComes(Walk(fil.sclust)[k - 1], fil.clust)
  /\ fat[fil.clust] # Free \/ LinkComes(fil.clust, EOC)
Reached(fil) ==
  \/ \A j \in 0 .. MaxCluster : Taken(Walk(fil.sclust)[j])
  \/ \E k \in 0 .. MaxCluster : AsFarAs(fil, k)
WriterReached == \A q \in {wr} \ {NoFile} : Reached(q.fil)
PendingPlain ==
  \A k \in DOMAIN todo :
    /\ todo[k].op = "slot" => todo[k].slot.size = 0
    /\ todo[k].op = "link" => todo[k].next = EOC \/ (k = 1 /\ fat[todo[k].c] = EOC)
SavedInv == EntriesHold /\ SavedShown /\ WriterReached /\ PendingPlain

(* Walks depend on the FAT alone, *)
LEMMA WalkSame ==
  ASSUME fat' = fat
  PROVE  /\ \A c : Walk(c)' = Walk(c)
         /\ \A c : Taken(c)' <=> Taken(c)
         /\ \A c, size : ChainHolds(c, size)' <=> ChainHolds(c, size)
<1>1. ASSUME NEW c PROVE Walk(c)' = Walk(c)
  BY DEF Walk
<1>2. \A c : Taken(c)' <=> Taken(c)
  BY DEF Taken
<1> QED BY <1>1, <1>2 DEF ChainHolds

LEMMA WalksAre ==
  FatFsAssumption /\ Types =>
    \A c \in Clusters :
      /\ Walk(c) \in [0 .. MaxCluster -> Stops] /\ Walk(c)[0] = c
      /\ \A k \in 0 .. MaxCluster - 1 : Walk(c)[k + 1] = IF Walk(c)[k] = EOC THEN EOC ELSE fat[Walk(c)[k]]
BY WalkIs DEF Types

LEMMA WalksNext ==
  (FatFsAssumption /\ Types =>
     \A c \in Clusters :
       /\ Walk(c) \in [0 .. MaxCluster -> Stops] /\ Walk(c)[0] = c
       /\ \A k \in 0 .. MaxCluster - 1 : Walk(c)[k + 1] = IF Walk(c)[k] = EOC THEN EOC ELSE fat[Walk(c)[k]])'
BY WalksAre, PTL

(* and stay as they are, up to where they end, when a chain is lengthened  *)
(* at its end.                                                             *)
LEMMA WalkKept ==
  ASSUME FatFsAssumption, Types, Types', NEW d \in Clusters, NEW next \in DataClusters \cup {EOC},
         fat[d] = Free \/ fat[d] = EOC, fat' = [fat EXCEPT ![d] = next],
         NEW c \in Clusters, NEW k \in 0 .. MaxCluster,
         \A j \in 0 .. k - 1 : Taken(Walk(c)[j]), Walk(c)[k] # EOC
  PROVE  /\ \A j \in 0 .. k : Walk(c)'[j] = Walk(c)[j]
         /\ \A j \in 0 .. k - 1 : Taken(Walk(c)[j])'
<1>1. PICK v, w : v = Walk(c) /\ w = Walk(c)'
  OBVIOUS
<1>2. /\ v \in [0 .. MaxCluster -> Stops] /\ v[0] = c
      /\ \A j \in 0 .. MaxCluster - 1 : v[j + 1] = IF v[j] = EOC THEN EOC ELSE fat[v[j]]
  BY <1>1, WalksAre
<1>3. /\ w \in [0 .. MaxCluster -> Stops] /\ w[0] = c
      /\ \A j \in 0 .. MaxCluster - 1 : w[j + 1] = IF w[j] = EOC THEN EOC ELSE fat'[w[j]]
  BY <1>1, WalksNext
<1>4. \A e \in Clusters : fat'[e] = IF e = d THEN next ELSE fat[e]
  BY DEF Types
<1>5. \A e : Taken(e) => e \in Clusters /\ e # EOC /\ fat[e] # Free /\ fat'[e] # Free
  <2>1. next # Free
    BY ConstantFacts
  <2> QED BY <1>4, <2>1, ConstantFacts DEF Taken
<1> DEFINE S == {j \in 0 .. k : w[j] = v[j]}
<1>6. MaxCluster \in Nat /\ k \in Nat /\ k <= MaxCluster
  BY ConstantFacts
<1>7. 0 \in S
  BY <1>2, <1>3, <1>6
<1>8. ASSUME NEW j \in 0 .. k - 1, j \in S PROVE j + 1 \in S
  <2>1. j \in 0 .. MaxCluster - 1 /\ j + 1 \in 0 .. k /\ j \in 0 .. k
    BY <1>6
  <2>2. Taken(v[j]) /\ w[j] = v[j]
    BY <1>1, <1>8
  <2>3. v[j + 1] = fat[v[j]] /\ w[j + 1] = fat'[v[j]] /\ v[j] \in Clusters
    BY <1>2, <1>3, <1>5, <2>1, <2>2
  <2>4. v[j + 1] # EOC
    <3>1. CASE j + 1 = k
      BY <1>1, <3>1
    <3>2. CASE j + 1 # k
      <4>1. j + 1 \in 0 .. k - 1
        BY <1>6, <2>1, <3>2
      <4> QED BY <1>1, <1>5, <4>1
    <3> QED BY <3>1, <3>2
  <2>5. v[j] # d
    BY <1>5, <2>2, <2>3, <2>4
  <2> QED BY <1>4, <2>1, <2>3, <2>5
<1>9. S = 0 .. k
  BY <1>6, <1>7, <1>8, FirstFailure
<1>10. \A j \in 0 .. k : w[j] = v[j]
  BY <1>9
<1>11. \A j \in 0 .. k - 1 : Taken(v[j]) /\ w[j] = v[j]
  BY <1>1, <1>6, <1>10
<1>12. ASSUME NEW j \in 0 .. k - 1 PROVE Taken(Walk(c)[j])'
  <2>1. w[j] \in DataClusters /\ fat'[w[j]] # Free
    BY <1>5, <1>11 DEF Taken
  <2> QED BY <1>1, <2>1 DEF Taken
<1> QED BY <1>1, <1>10, <1>12

LEMMA HoldsKept ==
  ASSUME FatFsAssumption, Types, Types', NEW d \in Clusters, NEW next \in DataClusters \cup {EOC},
         fat[d] = Free \/ fat[d] = EOC, fat' = [fat EXCEPT ![d] = next],
         NEW c \in Clusters, NEW size \in Nat, ChainHolds(c, size)
  PROVE  ChainHolds(c, size)'
<1>1. MaxCluster \in Nat /\ SectorsPerCluster \in Nat \ {0}
  BY ConstantFacts
<1>2. \A k \in 0 .. MaxCluster : k * SectorsPerCluster < size => Taken(Walk(c)[k])
  BY DEF ChainHolds, Taken
<1> SUFFICES ASSUME NEW k \in 0 .. MaxCluster, k * SectorsPerCluster < size PROVE Taken(Walk(c)[k])'
  BY DEF ChainHolds, Taken
<1>3. \A j \in 0 .. k - 1 : j \in 0 .. MaxCluster /\ j * SectorsPerCluster < size
  <2> SUFFICES ASSUME NEW j \in 0 .. k - 1 PROVE j * SectorsPerCluster < size
    BY <1>1
  <2>1. PICK n \in Nat : n = SectorsPerCluster
    BY <1>1
  <2>2. j \in Nat /\ k \in Nat /\ j <= k
    BY <1>1
  <2>3. j * n <= k * n /\ j * n \in Nat /\ k * n \in Nat
    BY <2>2, Z3
  <2> QED BY <2>1, <2>3
<1>4. (\A j \in 0 .. k - 1 : Taken(Walk(c)[j])) /\ Taken(Walk(c)[k])
  BY <1>2, <1>3
<1>5. Walk(c)[k] # EOC
  BY <1>4, ConstantFacts DEF Taken
<1>6. Walk(c)'[k] = Walk(c)[k]
  <2>1. k \in 0 .. k
    BY <1>1
  <2> QED BY <1>4, <1>5, <2>1, WalkKept
<1>7. fat'[Walk(c)[k]] # Free
  <2>1. Walk(c)[k] \in Clusters /\ fat[Walk(c)[k]] # Free /\ next # Free
    BY <1>4, ConstantFacts DEF Taken
  <2> QED BY <2>1 DEF Types
<1> QED BY <1>4, <1>6, <1>7 DEF Taken

(* A name that stands in a directory of one cluster is found there. *)
LEMMA HereIsFound ==
  ASSUME FatFsAssumption, Types, Named, Once, NEW d \in Clusters, fat[d] = EOC, NEW name,
         NEW x \in Positions, Here(x, d, name)
  PROVE  Found(d, name) /\ Entry(d, name) = SlotAt(x)
<1> DEFINE live == {k \in DOMAIN Walk(d) : Walk(d)[k] # EOC}
<1>1. Cardinality(live) \in Nat /\ live = 0 .. Cardinality(live) - 1
  BY ChainIsPrefix DEF Types
<1>2. Walk(d) \in [0 .. MaxCluster -> Stops] /\ Walk(d)[0] = d /\ MaxCluster \in Nat
  BY WalksAre, ConstantFacts
<1>3. 0 \in live
  BY <1>2, ConstantFacts
<1> HIDE DEF live
<1>4. Cardinality(live) >= 1
  BY <1>1, <1>3
<1>5. Width \in Nat \ {0} /\ SlotIds = 0 .. Width - 1
  BY WidthIs
<1>6. PICK i \in SlotIds : x[1] = d /\ x[2] = i /\ SlotAt(x) = slots[d][i]
  BY DEF Here, Positions, SlotAt
<1>7. slots[d][i].st = "used" /\ slots[d][i].name = name /\ Fits(d, i, slots[d][i])
  BY <1>6 DEF Here, Named, DiskNames
<1>8. \A m \in SlotIds : m \div Width = 0 /\ m % Width = m
  <2>1. \A n \in Nat \ {0} : \A m \in 0 .. n - 1 : m \div n = 0 /\ m % n = m
    BY Z3
  <2> QED BY <1>5, <2>1
<1>9. i \in 0 .. Width * Cardinality(live) - 1
  <2>1. PICK n \in Nat \ {0}, l \in Nat : n = Width /\ l = Cardinality(live) /\ l >= 1
    BY <1>1, <1>4, <1>5
  <2>2. n * l >= n /\ n * l \in Nat
    BY <2>1, Z3
  <2> QED BY <1>5, <2>1, <2>2
<1>10. i \in Matches(d, name)
  <2>1. \A m \in 0 .. Width * Cardinality(live) - 1 : m < i => m \in SlotIds
    BY <1>5
  <2>2. \A m \in 0 .. Width * Cardinality(live) - 1 :
          m < i => slots[Walk(d)[m \div Width]][m % Width].st \notin {"free"}
    BY <1>2, <1>7, <1>8, <2>1 DEF Fits
  <2>3. slots[Walk(d)[i \div Width]][i % Width] = slots[d][i]
    BY <1>2, <1>8
  <2> QED BY <1>7, <1>9, <2>2, <2>3 DEF Matches, MatchesUpTo, live
<1>11. PICK y \in Positions : Here(y, d, name) /\ Entry(d, name) = SlotAt(y)
  BY <1>10, PlaceHere
<1>12. y = x
  BY <1>11 DEF Once
<1>13. SlotAt(x).first # Free
  BY <1>6, <1>7, ConstantFacts DEF Fits
<1> QED BY <1>10, <1>11, <1>12, <1>13 DEF Found

(* So is a path, where it stands. *)
LEMMA AtIsFound ==
  ASSUME FatFsAssumption, Types, Named, Once, DirsEnd, NEW p \in Paths, NEW x \in Positions, At(p, x)
  PROVE  Exists(p) /\ Entry(Parent(p), p.name) = SlotAt(x)
<1>1. PICK d \in Clusters : d = x[1] /\ DirOf(p, d) /\ Here(x, d, p.name)
  BY DEF At, Positions
<1>2. Parent(p) = d /\ fat[d] = EOC
  <2>1. CASE p.dir = Top
    BY <1>1, <2>1 DEF Parent, DirOf, DirsEnd
  <2>2. CASE p.dir # Top
    <3>1. PICK y \in Positions : Here(y, Root, p.dir) /\ SlotAt(y).first = d
      BY <1>1, <2>2 DEF DirOf
    <3>2. p.dir \in DirNames
      BY <2>2 DEF Paths
    <3>3. fat[d] = EOC /\ fat[Root] = EOC
      BY <3>1, <3>2 DEF DirsEnd, DirEntry, Here
    <3>4. Found(Root, p.dir) /\ Entry(Root, p.dir) = SlotAt(y)
      BY <3>1, <3>3, HereIsFound, ConstantFacts
    <3> QED BY <2>2, <3>1, <3>3, <3>4 DEF Parent
  <2> QED BY <2>1, <2>2
<1>3. Found(d, p.name) /\ Entry(d, p.name) = SlotAt(x)
  BY <1>1, <1>2, HereIsFound
<1>4. d # Free
  <2>1. p.dir # Top => d \in DataClusters
    <3> SUFFICES ASSUME p.dir # Top PROVE d \in DataClusters
      OBVIOUS
    <3>1. PICK y \in Positions : SlotAt(y).st = "used" /\ SlotAt(y).first = d
      BY <1>1 DEF DirOf, Here
    <3>2. PICK c \in Clusters, i \in SlotIds : SlotAt(y) = slots[c][i]
      BY DEF SlotAt, Positions
    <3> QED BY <3>1, <3>2 DEF Named, DiskNames, Fits
  <2> QED BY <1>1, <2>1, ConstantFacts DEF DirOf
<1> QED BY <1>2, <1>3, <1>4 DEF Exists

LEMMA SavedIsThere ==
  ASSUME FatFsAssumption, Types, Named, Once, DirsEnd, SavedInv
  PROVE  WritePersists
<1> SUFFICES ASSUME NEW p \in Paths, saved[p] # NotSaved
             PROVE  /\ Exists(p)
                    /\ Entry(Parent(p), p.name).first = saved[p].first
                    /\ Entry(Parent(p), p.name).size >= saved[p].size
                    /\ ChainHolds(saved[p].first, saved[p].size)
  BY DEF WritePersists
<1>1. PICK x \in Positions : At(p, x) /\ SlotAt(x).first = saved[p].first /\ SlotAt(x).size >= saved[p].size
  BY DEF SavedInv, SavedShown
<1>2. Exists(p) /\ Entry(Parent(p), p.name) = SlotAt(x)
  BY <1>1, AtIsFound
<1>3. ChainHolds(SlotAt(x).first, SlotAt(x).size)
  BY <1>1 DEF SavedInv, EntriesHold, At, Here
<1>4. ChainHolds(saved[p].first, saved[p].size)
  <2>1. saved[p].size \in Int /\ SlotAt(x).size \in Int /\ MaxCluster \in Nat /\ SectorsPerCluster \in Nat
    <3>1. saved[p].size \in Sizes
      BY DEF Types
    <3>2. SlotAt(x).size \in Sizes
      BY DEF SlotAt, Positions, Types, SlotType
    <3> QED BY <3>1, <3>2, ConstantFacts
  <2>2. \A k \in 0 .. MaxCluster : k * SectorsPerCluster < saved[p].size => k * SectorsPerCluster < SlotAt(x).size
    <3> SUFFICES ASSUME NEW k \in 0 .. MaxCluster, k * SectorsPerCluster < saved[p].size
                 PROVE  k * SectorsPerCluster < SlotAt(x).size
      OBVIOUS
    <3>1. PICK m : m = k * SectorsPerCluster /\ m \in Int
      BY <2>1, Z3
    <3> QED BY <1>1, <2>1, <3>1
  <2> QED BY <1>1, <1>3, <2>2 DEF ChainHolds
<1> QED BY <1>1, <1>2, <1>4
-----------------------------------------------------------------------------
(* What the steps keep of it.                                              *)
LEMMA EntriesStillHold ==
  ASSUME FatFsAssumption, EntriesHold, fat' = fat,
         \A x \in Positions : \A first, size :
           SlotAt(x)'.st = "used" /\ first = SlotAt(x)'.first /\ size = SlotAt(x)'.size =>
             SlotAt(x)' = SlotAt(x) \/ size = 0 \/ ChainHolds(first, size)
  PROVE  EntriesHold'
<1> SUFFICES ASSUME NEW x \in Positions, SlotAt(x)'.st = "used" PROVE ChainHolds(SlotAt(x).first, SlotAt(x).size)'
  BY DEF EntriesHold
<1>1. PICK first, size : first = SlotAt(x)'.first /\ size = SlotAt(x)'.size
  OBVIOUS
<1>2. ChainHolds(first, 0)
  <2>1. \A k \in 0 .. MaxCluster : ~(k * SectorsPerCluster < 0)
    <3>1. MaxCluster \in Nat /\ SectorsPerCluster \in Nat
      BY ConstantFacts
    <3>2. \A m, n \in Nat : ~(m * n < 0)
      BY Z3
    <3> QED BY <3>1, <3>2
  <2> QED BY <2>1 DEF ChainHolds
<1>3. SlotAt(x)' = SlotAt(x) => ChainHolds(first, size)
  BY <1>1 DEF EntriesHold
<1>4. ChainHolds(first, size)
  BY <1>1, <1>2, <1>3
<1>5. ChainHolds(first, size)'
  BY <1>4, WalkSame
<1> QED BY <1>1, <1>5 DEF ChainHolds

LEMMA SavesStay ==
  ASSUME SavedShown,
         \A p \in Paths :
           \/ saved'[p] = NotSaved
           \/ /\ saved'[p] = saved[p]
              /\ \A x \in Positions : At(p, x) => At(p, x)' /\ SlotAt(x)' = SlotAt(x)
  PROVE  SavedShown'
<1> SUFFICES ASSUME NEW p \in Paths, saved'[p] # NotSaved
             PROVE  \E x \in Positions : /\ At(p, x)' /\ SlotAt(x)'.first = saved'[p].first
                                         /\ SlotAt(x)'.size >= saved'[p].size
  BY DEF SavedShown, NotSaved
<1>1. saved'[p] = saved[p] /\ \A x \in Positions : At(p, x) => At(p, x)' /\ SlotAt(x)' = SlotAt(x)
  OBVIOUS
<1>2. PICK x \in Positions : At(p, x) /\ SlotAt(x).first = saved[p].first /\ SlotAt(x).size >= saved[p].size
  BY <1>1 DEF SavedShown
<1> QED BY <1>1, <1>2

LEMMA SavedHandles ==
  ASSUME FatFsAssumption, SavedInv, UNCHANGED <<fat, slots, saved>>, WriterReached', PendingPlain'
  PROVE  SavedInv'
<1>1. \A x : SlotAt(x)' = SlotAt(x)
  BY DEF SlotAt
<1>2. EntriesHold'
  BY <1>1, EntriesStillHold DEF SavedInv
<1>3. SavedShown'
  BY <1>1, SlotsSame, SavesStay DEF SavedInv
<1> QED BY <1>2, <1>3 DEF SavedInv

(* A write command goes on for a sector, in its cluster *)
LEMMA FartherIn ==
  ASSUME FatFsAssumption, fat' = fat, todo = <<>>, NEW fil \in HandleType, NEW r \in HandleType,
         Reached(fil), ~AtBoundary(fil), r.sclust = fil.sclust, r.clust = fil.clust, r.pos = fil.pos + 1
  PROVE  Reached(r)'
<1>1. (\A c : Walk(c)' = Walk(c)) /\ (\A c : Taken(c)' <=> Taken(c)) /\ \A d, c : ~LinkComes(d, c)
  BY WalkSame, NothingToDo
<1>2. CASE \A j \in 0 .. MaxCluster : Taken(Walk(fil.sclust)[j])
  BY <1>1, <1>2 DEF Reached, Taken
<1>3. CASE \E k \in 0 .. MaxCluster : AsFarAs(fil, k)
  <2>1. PICK k \in 0 .. MaxCluster : AsFarAs(fil, k)
    BY <1>3
  <2>2. r.pos <= (k + 1) * SectorsPerCluster
    <3>1. PICK n \in Nat \ {0}, m \in Nat : n = SectorsPerCluster /\ m = fil.pos
      BY ConstantFacts DEF HandleType
    <3>2. k + 1 \in Nat \ {0} /\ m <= (k + 1) * n /\ ~(m > 0 /\ m % n = 0)
      BY <2>1, <3>1, ConstantFacts DEF AsFarAs, AtBoundary
    <3>3. PICK l \in Nat \ {0} : l = k + 1
      BY <3>2
    <3>4. (l * n) % n = 0 /\ l * n \in Nat /\ l * n > 0
      BY Z3
    <3>5. m # l * n
      BY <3>2, <3>3, <3>4
    <3>6. PICK h \in Nat : h = l * n
      BY <3>4
    <3>7. m + 1 <= h
      BY <3>2, <3>3, <3>5, <3>6
    <3> QED BY <3>1, <3>3, <3>6, <3>7
  <2>3. /\ \A j \in 0 .. k - 1 : Taken(Walk(fil.sclust)[j])
        /\ Walk(fil.sclust)[k] = fil.clust /\ fat[fil.clust] # Free
    BY <1>1, <2>1 DEF AsFarAs
  <2>4. AsFarAs(r, k)'
    BY <1>1, <2>2, <2>3 DEF AsFarAs, Taken
  <2> QED BY <2>4 DEF Reached
<1> QED BY <1>2, <1>3 DEF Reached

(* or in the next one of its chain. *)
LEMMA FartherOn ==
  ASSUME FatFsAssumption, Types, fat' = fat, todo = <<>>, NEW fil \in HandleType, NEW r \in HandleType,
         Reached(fil), Taken(fil.clust), r.sclust = fil.sclust, r.pos = fil.pos + 1,
         \/ fat[fil.clust] = r.clust /\ fat[r.clust] # Free
         \/ LinkComes(fil.clust, r.clust)' /\ LinkComes(r.clust, EOC)'
  PROVE  Reached(r)'
<1>1. (\A c : Walk(c)' = Walk(c)) /\ (\A c : Taken(c)' <=> Taken(c)) /\ \A d, c : ~LinkComes(d, c)
  BY WalkSame, NothingToDo
<1>2. CASE \A j \in 0 .. MaxCluster : Taken(Walk(fil.sclust)[j])
  BY <1>1, <1>2 DEF Reached, Taken
<1>3. CASE \E k \in 0 .. MaxCluster : AsFarAs(fil, k)
  <2>1. PICK k \in 0 .. MaxCluster : AsFarAs(fil, k)
    BY <1>3
  <2>2. /\ \A j \in 0 .. k - 1 : Taken(Walk(fil.sclust)[j])
        /\ Walk(fil.sclust)[k] = fil.clust
    BY <1>1, <2>1 DEF AsFarAs
  <2>3. \A j \in 0 .. k : Taken(Walk(fil.sclust)[j])
    <3>1. \A j \in 0 .. k : j \in 0 .. k - 1 \/ j = k
      OBVIOUS
    <3> QED BY <2>2, <3>1
  <2>4. MaxCluster \in Nat
    BY ConstantFacts
  <2>5. CASE k = MaxCluster
    BY <1>1, <2>3, <2>5 DEF Reached, Taken
  <2>6. CASE k # MaxCluster
    <3>1. k \in 0 .. MaxCluster - 1 /\ k + 1 \in 0 .. MaxCluster /\ k + 1 > 0 /\ k + 1 - 1 = k
      BY <2>4, <2>6
    <3>2. r.pos <= (k + 1 + 1) * SectorsPerCluster
      <4>1. PICK n \in Nat \ {0}, m \in Nat, l \in Nat : n = SectorsPerCluster /\ m = fil.pos /\ l = k + 1
        <5>1. SectorsPerCluster \in Nat \ {0} /\ fil.pos \in Nat
          BY ConstantFacts DEF HandleType
        <5>2. k + 1 \in Nat
          BY <3>1
        <5> QED BY <5>1, <5>2
      <4>2. m <= l * n
        BY <2>1, <4>1 DEF AsFarAs
      <4>3. (l + 1) * n = l * n + n /\ l * n \in Nat
        BY Z3
      <4>4. PICK h \in Nat : h = l * n
        BY <4>3
      <4>5. m + 1 <= h + n
        BY <4>2, <4>4
      <4> QED BY <4>1, <4>3, <4>4, <4>5
    <3>3. fat[fil.clust] = r.clust => Walk(fil.sclust)[k + 1] = r.clust
      <4>1. fil.sclust \in Clusters /\ fil.clust # EOC
        BY ConstantFacts DEF HandleType, Taken
      <4> QED BY <2>2, <3>1, <4>1, WalksAre
    <3>4. AsFarAs(r, k + 1)'
      <4>1. \A j \in 0 .. k + 1 - 1 : Taken(Walk(r.sclust)[j])'
        BY <1>1, <2>3, <3>1
      <4>2. \/ Walk(r.sclust)'[k + 1] = r.clust /\ fat'[r.clust] # Free
            \/ LinkComes(Walk(r.sclust)[k + 1 - 1], r.clust)' /\ LinkComes(r.clust, EOC)'
        <5>1. CASE fat[fil.clust] = r.clust /\ fat[r.clust] # Free
          BY <1>1, <3>3, <5>1
        <5>2. CASE LinkComes(fil.clust, r.clust)' /\ LinkComes(r.clust, EOC)'
          <6>1. Walk(r.sclust)'[k + 1 - 1] = fil.clust
            BY <1>1, <2>2, <3>1
          <6> QED BY <5>2, <6>1 DEF LinkComes
        <5> QED BY <5>1, <5>2
      <4> QED BY <3>1, <3>2, <4>1, <4>2 DEF AsFarAs
    <3> QED BY <3>1, <3>4 DEF Reached
  <2> QED BY <2>5, <2>6
<1> QED BY <1>2, <1>3 DEF Reached
-----------------------------------------------------------------------------
(* Each command in turn.                                                   *)
LEMMA SavedOpenToOverwrite ==
  ASSUME FatFsAssumption, Types, Named, Undamaged, FilesInv, SavedInv, NEW path \in Paths, OpenToOverwrite(path)
  PROVE  SavedInv'
<1> DEFINE p == Place(Parent(path), path.name)
<1>1. PICK fil : /\ fil = OpenExisting(path)
                 /\ \E n \in 1 .. MaxWrite : wr' = [path |-> path, left |-> n, fil |-> fil]
  BY DEF OpenToOverwrite
<1>2. todo = <<>> /\ UNCHANGED <<fat, slots, todo, saved>> /\ Exists(path)
  BY DEF OpenToOverwrite, Idle
<1>3. p \in Positions /\ At(path, p)
  BY <1>2, OpenAt DEF FilesInv
<1>4. /\ fil.pos = 0 /\ fil.sclust = SlotAt(p).first /\ fil.clust = fil.sclust /\ SlotAt(p).st = "used"
  BY <1>1, <1>2, OpenExistingIs
<1>5. PICK x \in Positions : x = p
  BY <1>3
<1> HIDE DEF p
<1>6. PICK c \in DataClusters : c = fil.sclust
  BY <1>4, <1>5 DEF Named, DiskNames, Fits, SlotAt, Positions
<1>7. fat[c] # Free
  <2>1. x \in Homes(c)
    BY <1>4, <1>5, <1>6 DEF Homes, Shows
  <2> QED BY <1>2, <2>1, NothingToDo DEF Undamaged, Damaged, Untaken
<1>8. AsFarAs(fil, 0)'
  <2>1. Walk(c)[0] = c
    BY <1>6, WalksAre, ConstantFacts
  <2>2. Walk(fil.sclust)'[0] = fil.clust
    BY <1>2, <1>4, <1>6, <2>1, WalkSame
  <2>3. 0 <= (0 + 1) * SectorsPerCluster
    BY ConstantFacts
  <2>4. \A j \in 0 .. 0 - 1 : Taken(Walk(fil.sclust)[j])'
    OBVIOUS
  <2> QED BY <1>2, <1>4, <1>6, <1>7, <2>2, <2>3, <2>4 DEF AsFarAs
<1>9. WriterReached'
  <2>1. Reached(fil)'
    BY <1>8, ConstantFacts DEF Reached
  <2> QED BY <1>1, <2>1 DEF WriterReached, Reached, AsFarAs, Taken, LinkComes
<1>10. PendingPlain'
  BY <1>2, NothingToDo DEF PendingPlain
<1> QED BY <1>2, <1>9, <1>10, SavedHandles

LEMMA SavedOpenToCreate ==
  ASSUME FatFsAssumption, Types, Named, SavedInv, NEW path \in Paths, OpenToCreate(path)
  PROVE  SavedInv'
<1>1. PICK d, x, room, i :
        /\ x = First(FreeClusters) /\ wr = NoFile /\ FreeClusters # {} /\ UNCHANGED <<fat, slots, saved>>
        /\ \/ /\ todo' = <<Link(x, EOC), PutSlot(d, i, Slot("used", path.name, x, 0))>>
              /\ \E n \in 1 .. MaxWrite : wr' = [path |-> path, left |-> n, fil |-> Handle(d, i, x, 0)]
           \/ todo' = <<Link(x, EOC)>> /\ wr' = wr
  BY DEF OpenToCreate, Idle
<1>2. x \in DataClusters /\ x \in Clusters
  BY <1>1, TakeIs, ConstantFacts DEF Named, DiskNames
<1>3. CASE /\ todo' = <<Link(x, EOC), PutSlot(d, i, Slot("used", path.name, x, 0))>>
           /\ \E n \in 1 .. MaxWrite : wr' = [path |-> path, left |-> n, fil |-> Handle(d, i, x, 0)]
  <2>1. /\ DOMAIN todo' = {1, 2} /\ todo'[1].op = "link" /\ todo'[1].next = EOC /\ todo'[1].c = x
        /\ todo'[2].op = "slot" /\ todo'[2].slot.size = 0
    BY <1>3 DEF Link, PutSlot, Slot
  <2>2. LinkComes(x, EOC)'
    BY <2>1 DEF LinkComes
  <2>3. PICK fil : fil = Handle(d, i, x, 0) /\ fil.sclust = x /\ fil.clust = x /\ fil.pos = 0
    <3>1. LET fil == Handle(d, i, x, 0) IN fil.sclust = x /\ fil.clust = x /\ fil.pos = 0
      BY DEF Handle
    <3> QED BY <3>1
  <2>4. AsFarAs(fil, 0)'
    <3>1. Walk(x)'[0] = x
      BY <1>1, <1>2, WalksAre, WalkSame
    <3>2. Walk(fil.sclust)'[0] = fil.clust
      BY <2>3, <3>1
    <3>3. 0 <= (0 + 1) * SectorsPerCluster
      BY ConstantFacts
    <3>4. LinkComes(fil.clust, EOC)'
      BY <2>2, <2>3 DEF LinkComes
    <3> QED BY <2>3, <3>2, <3>3, <3>4 DEF AsFarAs
  <2>5. WriterReached'
    <3>1. Reached(fil)'
      BY <2>4, ConstantFacts DEF Reached
    <3>2. ASSUME NEW q, wr' = q, q.fil = fil PROVE Reached(q.fil)'
      BY <3>1, <3>2 DEF Reached, AsFarAs, LinkComes
    <3>3. ASSUME NEW q \in {wr'} \ {NoFile} PROVE wr' = q /\ q.fil = fil
      BY <1>3, <2>3
    <3>4. ASSUME NEW q \in {wr'} \ {NoFile} PROVE Reached(q.fil)'
      BY <3>2, <3>3
    <3> QED BY <3>4 DEF WriterReached
  <2>6. PendingPlain'
    BY <2>1 DEF PendingPlain
  <2> QED BY <1>1, <2>5, <2>6, SavedHandles
<1>4. CASE todo' = <<Link(x, EOC)>> /\ wr' = wr
  <2>1. DOMAIN todo' = {1} /\ todo'[1].op = "link" /\ todo'[1].next = EOC
    BY <1>4 DEF Link
  <2>2. PendingPlain' /\ WriterReached'
    BY <1>1, <1>4, <2>1 DEF PendingPlain, WriterReached
  <2> QED BY <1>1, <2>2, SavedHandles
<1> QED BY <1>1, <1>3, <1>4

LEMMA SavedMkdir ==
  ASSUME FatFsAssumption, SavedInv, NEW name \in DirNames, Mkdir(name)
  PROVE  SavedInv'
<1>1. PICK x, i :
        /\ wr' = NoFile /\ UNCHANGED <<fat, slots, saved>>
        /\ \/ todo' = <<ZeroSector(x), Link(x, EOC), PutSlot(Root, i, Slot("used", name, x, 0))>>
           \/ todo' = <<ZeroSector(x), Link(x, EOC)>>
  BY DEF Mkdir, Idle
<1>2. PendingPlain'
  <2>1. ZeroSector(x).op = "zero" /\ Link(x, EOC).op = "link" /\ Link(x, EOC).next = EOC
    BY DEF ZeroSector, Link
  <2>2. /\ PutSlot(Root, i, Slot("used", name, x, 0)).op = "slot"
        /\ PutSlot(Root, i, Slot("used", name, x, 0)).slot.size = 0
    BY DEF PutSlot, Slot
  <2>3. \A k \in DOMAIN todo' : todo'[k] \in {ZeroSector(x), Link(x, EOC), PutSlot(Root, i, Slot("used", name, x, 0))}
    BY <1>1
  <2> QED BY <2>1, <2>2, <2>3 DEF PendingPlain
<1>3. WriterReached'
  BY <1>1 DEF WriterReached
<1> QED BY <1>1, <1>2, <1>3, SavedHandles

LEMMA SavedWriteDenied ==
  ASSUME FatFsAssumption, Types, SavedInv, WriteDenied
  PROVE  SavedInv'
<1>1. wr # NoFile /\ wr' = [wr EXCEPT !.left = 0] /\ UNCHANGED <<fat, slots, todo, saved>>
  BY DEF WriteDenied
<1>2. PICK fil : fil = wr.fil /\ fil = wr'.fil
  <2>1. wr \in WriterType
    BY <1>1 DEF Types
  <2> QED BY <1>1, <2>1 DEF WriterType
<1>3. Reached(fil)
  BY <1>1, <1>2 DEF SavedInv, WriterReached
<1>4. \A d, c : LinkComes(d, c)' <=> LinkComes(d, c)
  BY <1>1 DEF LinkComes
<1>5. Reached(fil)'
  BY <1>1, <1>3, <1>4, WalkSame DEF Reached, AsFarAs
<1>6. WriterReached'
  BY <1>2, <1>5 DEF WriterReached, Reached, AsFarAs, Taken, LinkComes
<1>7. PendingPlain'
  BY <1>1 DEF SavedInv, PendingPlain
<1> QED BY <1>1, <1>6, <1>7, SavedHandles

(* f_write takes a new cluster only after the last one of the chain, as no *)
(* malloc fails.                                                           *)
LEMMA SavedWriteNewCluster ==
  ASSUME FatFsAssumption, Faults = FALSE, Types, Types', Named, Undamaged, FilesInv, SavedInv, WriteNewCluster
  PROVE  SavedInv'
<1>1. PICK b, x : /\ b = wr.fil.clust /\ x = First(FreeClusters) /\ FreeClusters # {} /\ AtBoundary(wr.fil)
                  /\ wr # NoFile /\ todo = <<>> /\ wr.left > 0 /\ wr' = Advance(x)
                  /\ EOC \in NextClusters(b) /\ UNCHANGED <<fat, slots, saved>>
                  /\ \E as \in Data : todo' = <<Link(b, x), Link(x, EOC), PutData(x, 0, as)>>
  BY DEF WriteNewCluster
<1>2. PICK as \in Data : todo' = <<Link(b, x), Link(x, EOC), PutData(x, 0, as)>>
  BY <1>1
<1>3. fat[b] = EOC
  BY <1>1 DEF NextClusters
<1>4. x \in DataClusters /\ x \in Clusters
  BY <1>1, TakeIs, ConstantFacts DEF Named, DiskNames
<1>5. Taken(b)
  BY <1>1, WriterNotAtDir DEF FilesInv, Taken
<1>6. /\ DOMAIN todo' = {1, 2, 3} /\ todo'[1].op = "link" /\ todo'[1].c = b /\ todo'[1].next = x
      /\ todo'[2].op = "link" /\ todo'[2].next = EOC /\ todo'[2].c = x
      /\ todo'[3].op = "data"
  BY <1>2 DEF Link, PutData
<1>7. LinkComes(b, x)' /\ LinkComes(x, EOC)'
  BY <1>6 DEF LinkComes
<1>8. PICK fil \in HandleType : fil = wr.fil
  BY <1>1 DEF Types, WriterType
<1>9. PICK r \in HandleType : r = wr'.fil /\ r.sclust = fil.sclust /\ r.pos = fil.pos + 1 /\ r.clust = x
  BY <1>1, <1>4, <1>8, AdvanceIs DEF WriterType
<1>10. Reached(fil)
  BY <1>1, <1>8 DEF SavedInv, WriterReached
<1>11. Reached(r)'
  <2>1. LinkComes(fil.clust, r.clust)' /\ LinkComes(r.clust, EOC)'
    BY <1>1, <1>7, <1>8, <1>9 DEF LinkComes
  <2> QED BY <1>1, <1>5, <1>8, <1>9, <1>10, <2>1, FartherOn
<1>12. WriterReached'
  BY <1>9, <1>11 DEF WriterReached, Reached, AsFarAs, Taken, LinkComes
<1>13. PendingPlain'
  BY <1>1, <1>3, <1>6 DEF PendingPlain
<1> QED BY <1>1, <1>12, <1>13, SavedHandles

(* Data that is written at once. *)
LEMMA SavedData ==
  ASSUME FatFsAssumption, Types, View, SavedInv, todo' = <<>>, UNCHANGED saved, NEW c \in Clusters, NoDirAt(c),
         NEW s, NEW as \in Data, Write(PutData(c, s, as)), NEW r, r = wr'.fil, Reached(r)'
  PROVE  SavedInv'
<1>1. fat' = fat /\ slots' = Fill(c, s, as) /\ as.st # "used"
  <2>1. FreeSlot.st = "free" /\ JunkSlot.st = "junk"
    BY DEF JunkSlot, FreeSlot, Slot
  <2>2. PICK w : w = PutData(c, s, as)
    OBVIOUS
  <2>3. w.op = "data" /\ w.c = c /\ w.s = s /\ w.as = as
    BY <2>2 DEF PutData
  <2> QED BY <2>1, <2>2, <2>3 DEF Write, FatAfter, SlotsAfter, Data
<1>2. /\ \A x \in Positions : SlotAt(x)'.st = "used" => SlotAt(x)' = SlotAt(x)
      /\ \A p \in Paths, x \in Positions : (At(p, x)' <=> At(p, x)) /\ (At(p, x) => SlotAt(x)' = SlotAt(x))
  BY <1>1, FillKeeps
<1>3. EntriesHold'
  BY <1>1, <1>2, EntriesStillHold DEF SavedInv
<1>4. SavedShown'
  BY <1>2, SavesStay DEF SavedInv
<1>5. WriterReached'
  BY DEF WriterReached, Reached, AsFarAs, Taken, LinkComes
<1>6. PendingPlain'
  <2>1. DOMAIN todo' = {}
    OBVIOUS
  <2> QED BY <2>1 DEF PendingPlain
<1> QED BY <1>3, <1>4, <1>5, <1>6 DEF SavedInv

LEMMA SavedWriteInCluster ==
  ASSUME FatFsAssumption, Types, Types', Named, Undamaged, View, FilesInv, SavedInv, WriteInCluster
  PROVE  SavedInv'
<1>1. PICK c, as : /\ c = wr.fil.clust /\ as \in Data /\ wr # NoFile /\ todo = <<>> /\ todo' = <<>> /\ wr.left > 0
                   /\ wr' = Advance(c) /\ Write(PutData(c, wr.fil.pos % SectorsPerCluster, as))
                   /\ ~AtBoundary(wr.fil) /\ UNCHANGED saved
  BY DEF WriteInCluster
<1>2. c \in Clusters /\ NoDirAt(c)
  BY <1>1, WriterNotAtDir, ConstantFacts DEF FilesInv
<1>3. PICK fil \in HandleType : fil = wr.fil
  BY <1>1 DEF Types, WriterType
<1>4. PICK r \in HandleType : r = wr'.fil /\ r.sclust = fil.sclust /\ r.pos = fil.pos + 1 /\ r.clust = c
  BY <1>1, <1>2, <1>3, AdvanceIs DEF WriterType
<1>5. fat' = fat
  <2>1. PICK w : w = PutData(c, wr.fil.pos % SectorsPerCluster, as) /\ w.op = "data" /\ Write(w)
    <3>1. PutData(c, wr.fil.pos % SectorsPerCluster, as).op = "data"
      BY DEF PutData
    <3> QED BY <1>1, <3>1
  <2> QED BY <2>1 DEF Write, FatAfter
<1>6. Reached(fil)
  BY <1>1, <1>3 DEF SavedInv, WriterReached
<1>7. Reached(r)'
  BY <1>1, <1>3, <1>4, <1>5, <1>6, FartherIn
<1> QED BY <1>1, <1>2, <1>4, <1>7, SavedData

LEMMA SavedWriteNextCluster ==
  ASSUME FatFsAssumption, Types, Types', Named, Undamaged, View, FilesInv, SavedInv, WriteNextCluster
  PROVE  SavedInv'
<1>1. PICK b, c, as : /\ b = wr.fil.clust /\ c = fat[b] /\ c < EOC /\ as \in Data /\ wr # NoFile
                      /\ todo = <<>> /\ todo' = <<>> /\ wr.left > 0 /\ UNCHANGED saved
                      /\ wr' = Advance(c) /\ Write(PutData(c, 0, as))
  BY DEF WriteNextCluster
<1>2. b \in Clusters /\ c \in Clusters
  <2>1. b \in Clusters
    BY <1>1, WriterIs
  <2>2. c \in Clusters \cup {EOC} /\ EOC \in Int
    BY <1>1, <2>1, ConstantFacts DEF Types
  <2> QED BY <1>1, <2>1, <2>2
<1>3. c \in DataClusters /\ NoDirAt(c) /\ Taken(b)
  BY <1>1, <1>2, WriterNotAtDir DEF FilesInv, Taken
<1>4. fat[c] # Free
  <2>1. b \in Before(c)
    BY <1>1, <1>2 DEF Before
  <2> QED BY <1>1, <1>3, <2>1, NothingToDo DEF Undamaged, Damaged, Untaken
<1>5. PICK fil \in HandleType : fil = wr.fil
  BY <1>1 DEF Types, WriterType
<1>6. PICK r \in HandleType : r = wr'.fil /\ r.sclust = fil.sclust /\ r.pos = fil.pos + 1 /\ r.clust = c
  BY <1>1, <1>2, <1>5, AdvanceIs DEF WriterType
<1>7. fat' = fat
  <2>1. PICK w : w = PutData(c, 0, as) /\ w.op = "data" /\ Write(w)
    <3>1. PutData(c, 0, as).op = "data"
      BY DEF PutData
    <3> QED BY <1>1, <3>1
  <2> QED BY <2>1 DEF Write, FatAfter
<1>8. Reached(fil)
  BY <1>1, <1>5 DEF SavedInv, WriterReached
<1>9. Reached(r)'
  BY <1>1, <1>3, <1>4, <1>5, <1>6, <1>7, <1>8, FartherOn
<1> QED BY <1>1, <1>2, <1>3, <1>6, <1>9, SavedData

(* As far as a write command has come its chain holds what it has written. *)
LEMMA ReachedHolds ==
  ASSUME FatFsAssumption, todo = <<>>, NEW fil \in HandleType, Reached(fil), fil.clust \in DataClusters
  PROVE  ChainHolds(fil.sclust, fil.pos)
<1>1. CASE \A j \in 0 .. MaxCluster : Taken(Walk(fil.sclust)[j])
  BY <1>1 DEF ChainHolds, Taken
<1>2. CASE \E k \in 0 .. MaxCluster : AsFarAs(fil, k)
  <2>1. PICK k \in 0 .. MaxCluster : AsFarAs(fil, k)
    BY <1>2
  <2>2. \A d, c : ~LinkComes(d, c)
    BY NothingToDo
  <2>3. \A j \in 0 .. k : Taken(Walk(fil.sclust)[j])
    <3>1. \A j \in 0 .. k : j \in 0 .. k - 1 \/ j = k
      OBVIOUS
    <3>2. Taken(fil.clust) /\ Walk(fil.sclust)[k] = fil.clust
      BY <2>1, <2>2 DEF AsFarAs, Taken
    <3> QED BY <2>1, <3>1, <3>2 DEF AsFarAs
  <2>4. ASSUME NEW j \in 0 .. MaxCluster, j * SectorsPerCluster < fil.pos PROVE j \in 0 .. k
    <3>1. PICK n \in Nat \ {0}, m \in Nat, l \in Nat : n = SectorsPerCluster /\ m = fil.pos /\ l = k + 1
      <4>1. fil.pos \in Sizes
        BY DEF HandleType
      <4>2. MaxWrite \in Nat /\ Sizes = 0 .. MaxWrite /\ SectorsPerCluster \in Nat \ {0} /\ MaxCluster \in Nat
        BY ConstantFacts
      <4>3. fil.pos \in Nat
        BY <4>1, <4>2
      <4>4. k + 1 \in Nat
        BY <4>2
      <4> QED BY <4>2, <4>3, <4>4
    <3>2. m <= l * n /\ j * n < m /\ j \in Nat /\ j * n \in Nat /\ l * n \in Nat
      <4>1. j \in Nat /\ m <= l * n
        BY <2>1, <3>1, ConstantFacts DEF AsFarAs
      <4>2. \A a, b \in Nat : a * b \in Nat
        BY Z3
      <4> QED BY <2>4, <3>1, <4>1, <4>2
    <3>3. j * n < l * n
      <4>1. PICK g \in Nat, h \in Nat : g = j * n /\ h = l * n
        BY <3>2
      <4> QED BY <3>2, <4>1
    <3>4. \A a, b \in Nat : a * n < b * n => a < b
      <4>1. \A a, b \in Nat : b <= a => b * n <= a * n
        BY Z3
      <4>2. \A a, b \in Nat : a * n \in Nat /\ b * n \in Nat
        BY Z3
      <4>3. ASSUME NEW a \in Nat, NEW b \in Nat, a * n < b * n PROVE a < b
        <5>1. PICK g \in Nat, h \in Nat : g = a * n /\ h = b * n
          BY <4>2
        <5>2. b <= a => h <= g
          BY <4>1, <5>1
        <5>3. g < h
          BY <4>3, <5>1
        <5> QED BY <5>2, <5>3
      <4> QED BY <4>3
    <3> QED BY <3>1, <3>2, <3>3, <3>4
  <2> QED BY <2>3, <2>4 DEF ChainHolds, Taken
<1> QED BY <1>1, <1>2 DEF Reached

LEMMA SavedCloseWriter ==
  ASSUME FatFsAssumption, Faults = FALSE, Types, View, FilesInv, SavedInv, CloseWriter
  PROVE  SavedInv'
<1>1. PICK q \in WriterType : q = wr /\ wr # NoFile
  BY DEF CloseWriter, Types
<1>2. PICK fil \in HandleType, path \in Paths : fil = q.fil /\ path = q.path
  BY DEF WriterType
<1>3. /\ todo = <<>> /\ todo' = <<>> /\ wr' = NoFile /\ Write(CloseEntry(fil))
      /\ saved' = [saved EXCEPT ![path] = [first |-> fil.sclust, size |-> fil.size, len |-> fil.pos]]
  BY <1>1, <1>2 DEF CloseWriter
<1>4. Writes(q) /\ DOMAIN todo = {}
  BY <1>1, <1>3 DEF FilesInv, WriterFiles
<1>5. PICK x \in Positions : x = <<fil.dir, fil.idx>>
  BY DEF Positions, HandleType
<1>6. /\ DirOf(path, fil.dir) /\ SlotAt(x).st = "used" /\ SlotAt(x).name = path.name
      /\ SlotAt(x).first = fil.sclust /\ fil.size = Larger(fil.pos, SlotAt(x).size) /\ fil.clust \in DataClusters
  BY <1>2, <1>4, <1>5 DEF Writes
<1>7. At(path, x)
  BY <1>5, <1>6 DEF At, Here
<1>8. PICK w : /\ w = CloseEntry(fil) /\ w.op = "slot" /\ w.c = fil.dir /\ w.i = fil.idx
               /\ w.slot.st = SlotAt(x).st /\ w.slot.name = SlotAt(x).name
               /\ w.slot.first = fil.sclust /\ w.slot.size = fil.size
  BY <1>5, CloseEntryIs DEF SlotAt
<1>9. fat' = fat /\ slots' = [slots EXCEPT ![fil.dir][fil.idx] = w.slot]
  BY <1>3, <1>8 DEF Write, FatAfter, SlotsAfter
<1>10. SlotAt(x)' = w.slot /\ \A y \in Positions : y # x => SlotAt(y)' = SlotAt(y)
  <2>1. fil.dir \in Clusters /\ fil.idx \in SlotIds
    BY DEF HandleType
  <2> QED BY <1>5, <1>9, <2>1, PutIs
<1>11. \A y \in Positions : /\ SlotAt(y)'.st = SlotAt(y).st /\ SlotAt(y)'.name = SlotAt(y).name
                            /\ SlotAt(y)'.first = SlotAt(y).first
  BY <1>6, <1>8, <1>10
<1>12. SameDirs
  BY <1>11 DEF SameDirs, DirEntry
<1>13. \A p \in Paths, y \in Positions : At(p, y)' <=> At(p, y)
  BY <1>11, <1>12, DirsKept DEF At, Here
<1>14. ChainHolds(fil.sclust, fil.size)
  <2>1. ChainHolds(fil.sclust, fil.pos)
    <3>1. Reached(fil)
      BY <1>1, <1>2 DEF SavedInv, WriterReached
    <3> QED BY <1>3, <1>6, <3>1, ReachedHolds
  <2>2. ChainHolds(fil.sclust, SlotAt(x).size)
    BY <1>6 DEF SavedInv, EntriesHold
  <2> QED BY <1>6, <2>1, <2>2 DEF Larger
<1>15. EntriesHold'
  <2>1. ASSUME NEW y \in Positions, NEW first, NEW size, first = SlotAt(y)'.first, size = SlotAt(y)'.size
        PROVE  SlotAt(y)' = SlotAt(y) \/ ChainHolds(first, size)
    <3>1. CASE y = x
      BY <1>8, <1>10, <1>14, <2>1, <3>1
    <3> QED BY <1>10, <3>1
  <2> QED BY <1>9, <2>1, EntriesStillHold DEF SavedInv
<1>16. SavedShown'
  <2> SUFFICES ASSUME NEW p \in Paths, saved'[p] # NotSaved
               PROVE  \E y \in Positions : /\ At(p, y)' /\ SlotAt(y)'.first = saved'[p].first
                                           /\ SlotAt(y)'.size >= saved'[p].size
    BY DEF SavedShown, NotSaved
  <2>1. CASE p = path
    <3>1. saved'[p].first = fil.sclust /\ saved'[p].size = fil.size
      BY <1>3, <2>1 DEF Types
    <3>2. At(p, x)' /\ SlotAt(x)'.first = fil.sclust /\ SlotAt(x)'.size = fil.size
      BY <1>7, <1>8, <1>10, <1>13, <2>1
    <3>3. fil.size >= fil.size
      <4>1. fil.size \in Sizes
        BY DEF HandleType
      <4> QED BY <4>1, ConstantFacts
    <3> QED BY <3>1, <3>2, <3>3
  <2>2. CASE p # path
    <3>1. saved'[p] = saved[p]
      BY <1>3, <2>2 DEF Types
    <3>2. PICK y \in Positions : At(p, y) /\ SlotAt(y).first = saved[p].first /\ SlotAt(y).size >= saved[p].size
      BY <3>1 DEF SavedInv, SavedShown
    <3>3. y # x
      BY <1>7, <2>2, <3>2 DEF View, Once
    <3> QED BY <1>10, <1>13, <3>1, <3>2, <3>3
  <2> QED BY <2>1, <2>2
<1>17. WriterReached' /\ PendingPlain'
  <2>1. DOMAIN todo' = {}
    BY <1>3
  <2> QED BY <1>3, <2>1 DEF WriterReached, PendingPlain
<1> QED BY <1>15, <1>16, <1>17 DEF SavedInv

(* What removes a name forgets what was written under it. *)
LEMMA SavedRemoved ==
  ASSUME FatFsAssumption, SavedInv, wr' = NoFile, todo' = <<>>, fat' = fat, NEW x \in Positions, SlotAt(x)'.st # "used",
         \A y \in Positions : y # x => SlotAt(y)' = SlotAt(y),
         \A p \in Paths :
           \/ saved'[p] = NotSaved
           \/ saved'[p] = saved[p] /\ \A y \in Positions : At(p, y) => At(p, y)' /\ y # x
  PROVE  SavedInv'
<1>1. EntriesHold'
  BY EntriesStillHold DEF SavedInv
<1>2. SavedShown'
  BY SavesStay DEF SavedInv
<1>3. DOMAIN todo' = {}
  OBVIOUS
<1> QED BY <1>1, <1>2, <1>3 DEF SavedInv, WriterReached, PendingPlain

LEMMA SavedUnlink ==
  ASSUME FatFsAssumption, Types, View, FilesInv, SavedInv, NEW path \in Paths, Unlink(path)
  PROVE  SavedInv'
<1>1. PICK x : /\ x = Place(Parent(path), path.name) /\ Exists(path) /\ Write(DeleteEntry(x))
               /\ todo' = <<>> /\ wr' = NoFile /\ saved' = [saved EXCEPT ![path] = NotSaved]
  BY DEF Unlink, Idle
<1>2. x \in Positions /\ At(path, x)
  BY <1>1, OpenAt DEF FilesInv
<1>3. fat' = fat /\ SlotAt(x)'.st # "used" /\ \A y \in Positions : y # x => SlotAt(y)' = SlotAt(y)
  BY <1>1, <1>2, DeletedIs
<1>4. SlotAt(x).name \notin DirNames
  BY <1>2 DEF At, Here, Paths, FatFsAssumption
<1>5. SameDirs
  BY <1>3, <1>4 DEF SameDirs, DirEntry
<1>6. ASSUME NEW p \in Paths, p # path
      PROVE  saved'[p] = saved[p] /\ \A y \in Positions : At(p, y) => At(p, y)' /\ y # x
  <2>1. saved'[p] = saved[p]
    BY <1>1, <1>6 DEF Types
  <2>2. \A y \in Positions : At(p, y) => y # x
    BY <1>2, <1>6 DEF View, Once
  <2>3. \A y \in Positions : y # x => (At(p, y) => At(p, y)')
    BY <1>3, <1>5, DirsKept DEF At, Here
  <2> QED BY <2>1, <2>2, <2>3
<1>7. saved'[path] = NotSaved
  BY <1>1 DEF Types
<1> QED BY <1>1, <1>2, <1>3, <1>6, <1>7, SavedRemoved

LEMMA SavedRmdir ==
  ASSUME FatFsAssumption, Types, View, FilesInv, SavedInv, NEW name \in DirNames, Rmdir(name)
  PROVE  SavedInv'
<1>1. PICK x : /\ x = Place(Root, name) /\ Matches(Root, name) # {} /\ Write(DeleteEntry(x))
               /\ todo' = <<>> /\ wr' = NoFile
               /\ saved' = [p \in Paths |-> IF p.dir = name THEN NotSaved ELSE saved[p]]
  BY DEF Rmdir, Idle, Found
<1>2. x \in Positions /\ Here(x, Root, name)
  BY <1>1, PlaceHere, ConstantFacts DEF FilesInv, DirsEnd
<1>3. fat' = fat /\ SlotAt(x)'.st # "used" /\ \A y \in Positions : y # x => SlotAt(y)' = SlotAt(y)
  BY <1>1, <1>2, DeletedIs
<1>4. ASSUME NEW p \in Paths, p.dir # name
      PROVE  saved'[p] = saved[p] /\ \A y \in Positions : At(p, y) => At(p, y)' /\ y # x
  <2>1. saved'[p] = saved[p]
    BY <1>1, <1>4
  <2>2. \A y \in Positions : \A d : Here(y, d, p.name) => y # x
    <3>1. p.name # name
      BY DEF Paths, FatFsAssumption
    <3> QED BY <1>2, <3>1 DEF Here
  <2>3. \A d : DirOf(p, d) => DirOf(p, d)'
    <3>1. \A y \in Positions : Here(y, Root, p.dir) => y # x
      BY <1>2, <1>4 DEF Here
    <3>2. \A y \in Positions : Here(y, Root, p.dir) => Here(y, Root, p.dir)' /\ SlotAt(y)' = SlotAt(y)
      BY <1>3, <3>1 DEF Here
    <3> QED BY <3>2 DEF DirOf
  <2>4. \A y \in Positions : At(p, y) => At(p, y)' /\ y # x
    BY <1>3, <2>2, <2>3 DEF At, Here
  <2> QED BY <2>1, <2>4
<1>5. \A p \in Paths : p.dir = name => saved'[p] = NotSaved
  BY <1>1
<1> QED BY <1>1, <1>2, <1>3, <1>4, <1>5, SavedRemoved

(* The writes that operations have left. *)
LEMMA SavedLink ==
  ASSUME FatFsAssumption, Types, Types', Named, TodoInv, FilesInv, SavedInv, DiskStep, todo[1].op = "link"
  PROVE  SavedInv'
<1>1. PICK w, d, next :
        /\ w = todo[1] /\ w.op = "link" /\ d = w.c /\ next = w.next /\ d \in Clusters /\ next \in DataClusters \cup {EOC}
        /\ fat' = [fat EXCEPT ![d] = next] /\ slots' = slots /\ wr' = wr /\ saved' = saved
  <2>1. /\ todo[1] \in SectorWrite /\ fat' = FatAfter(todo[1]) /\ slots' = SlotsAfter(todo[1])
        /\ 1 \in DOMAIN todo /\ wr' = wr /\ saved' = saved
    BY NextToDo DEF Write, DiskStep
  <2>2. todo[1].c \in Clusters /\ todo[1].next \in DataClusters \cup {EOC}
    BY <2>1, SectorWriteCases DEF Named, PendingNames
  <2> QED BY <2>1, <2>2 DEF FatAfter, SlotsAfter
<1>2. /\ 1 \in DOMAIN todo
      /\ \A k \in DOMAIN todo' : k + 1 \in DOMAIN todo /\ k + 1 # 1 /\ todo'[k] = todo[k + 1]
      /\ \A k \in DOMAIN todo : k # 1 => \E j \in DOMAIN todo' : todo'[j] = todo[k]
  BY NextToDo
<1>3. fat[d] = Free \/ fat[d] = EOC
  BY <1>1, <1>2 DEF FilesInv, PendingFiles, SavedInv, PendingPlain
<1>4. fat'[d] = next /\ \A c \in Clusters : c # d => fat'[c] = fat[c]
  BY <1>1 DEF Types
<1>5. next # Free /\ \A c \in Clusters : fat[c] # Free => fat'[c] # Free
  BY <1>1, <1>4, ConstantFacts
<1>6. \A c, e : LinkComes(c, e) => LinkComes(c, e)' \/ (c = d /\ e = next)
  <2>1. ASSUME NEW c, NEW e, NEW k \in DOMAIN todo, todo[k].op = "link" /\ todo[k].c = c /\ todo[k].next = e
        PROVE  LinkComes(c, e)' \/ (c = d /\ e = next)
    BY <1>1, <1>2, <2>1 DEF LinkComes
  <2> QED BY <2>1 DEF LinkComes
<1>7. \A x : SlotAt(x)' = SlotAt(x)
  BY <1>1 DEF SlotAt
<1>8. EntriesHold'
  <2> SUFFICES ASSUME NEW x \in Positions, SlotAt(x)'.st = "used" PROVE ChainHolds(SlotAt(x).first, SlotAt(x).size)'
    BY DEF EntriesHold
  <2>1. PICK first, size : first = SlotAt(x).first /\ size = SlotAt(x).size
    OBVIOUS
  <2>2. ChainHolds(first, size)
    BY <1>7, <2>1 DEF SavedInv, EntriesHold
  <2>3. first \in Clusters /\ size \in Nat
    <3>1. SlotAt(x) \in SlotType
      BY DEF SlotAt, Positions, Types
    <3>2. first \in Clusters /\ size \in Sizes
      BY <2>1, <3>1 DEF SlotType
    <3> QED BY <3>2, ConstantFacts
  <2>4. ChainHolds(first, size)'
    BY <1>1, <1>3, <2>2, <2>3, HoldsKept
  <2>5. first = SlotAt(x)'.first /\ size = SlotAt(x)'.size
    BY <1>7, <2>1
  <2> QED BY <2>4, <2>5 DEF ChainHolds
<1>9. SavedShown'
  BY <1>1, <1>7, SlotsSame, SavesStay DEF SavedInv
<1>10. ASSUME NEW fil \in HandleType, Reached(fil), fil.clust \in DataClusters PROVE Reached(fil)'
  <2>1. MaxCluster \in Nat /\ fil.sclust \in Clusters /\ fil.clust \in Clusters /\ fil.clust # EOC
    BY <1>10, ConstantFacts DEF HandleType
  <2>2. ASSUME NEW k \in 0 .. MaxCluster, \A j \in 0 .. k - 1 : Taken(Walk(fil.sclust)[j]), Walk(fil.sclust)[k] # EOC
        PROVE  /\ Walk(fil.sclust)'[k] = Walk(fil.sclust)[k]
               /\ \A j \in 0 .. k - 1 : Taken(Walk(fil.sclust)[j])'
    <3>1. k \in 0 .. k
      BY <2>1
    <3> QED BY <1>1, <1>3, <2>1, <2>2, <3>1, WalkKept
  <2>3. \A c : Taken(c) => c # EOC /\ c \in Clusters /\ Taken(c)'
    BY <1>5, ConstantFacts DEF Taken
  <2>4. CASE \A j \in 0 .. MaxCluster : Taken(Walk(fil.sclust)[j])
    <3>1. ASSUME NEW k \in 0 .. MaxCluster PROVE Taken(Walk(fil.sclust)[k])'
      <4>1. (\A j \in 0 .. k - 1 : Taken(Walk(fil.sclust)[j])) /\ Taken(Walk(fil.sclust)[k])
        BY <2>1, <2>4
      <4>2. Walk(fil.sclust)'[k] = Walk(fil.sclust)[k]
        BY <2>2, <2>3, <4>1
      <4> QED BY <2>3, <4>1, <4>2 DEF Taken
    <3> QED BY <3>1 DEF Reached
  <2>5. CASE \E k \in 0 .. MaxCluster : AsFarAs(fil, k)
    <3>1. PICK k \in 0 .. MaxCluster : AsFarAs(fil, k)
      BY <2>5
    <3>2. fat'[fil.clust] # Free \/ LinkComes(fil.clust, EOC)'
      BY <1>4, <1>5, <1>6, <2>1, <3>1 DEF AsFarAs
    <3>3. CASE Walk(fil.sclust)[k] = fil.clust
      <4>1. /\ Walk(fil.sclust)'[k] = fil.clust
            /\ \A j \in 0 .. k - 1 : Taken(Walk(fil.sclust)[j])'
        BY <2>1, <2>2, <3>1, <3>3 DEF AsFarAs
      <4>2. AsFarAs(fil, k)'
        BY <3>1, <3>2, <4>1 DEF AsFarAs
      <4> QED BY <4>2 DEF Reached
    <3>4. CASE k > 0 /\ LinkComes(Walk(fil.sclust)[k - 1], fil.clust)
      <4>1. PICK b : b = Walk(fil.sclust)[k - 1]
        OBVIOUS
      <4>2. k - 1 \in 0 .. MaxCluster /\ k - 1 \in 0 .. MaxCluster - 1 /\ k - 1 \in 0 .. k - 1 /\ k - 1 + 1 = k
        BY <2>1, <3>4
      <4>3. Taken(b) /\ \A j \in 0 .. k - 1 - 1 : Taken(Walk(fil.sclust)[j])
        BY <2>1, <3>1, <4>1, <4>2 DEF AsFarAs
      <4>4. /\ Walk(fil.sclust)'[k - 1] = b
            /\ \A j \in 0 .. k - 1 - 1 : Taken(Walk(fil.sclust)[j])'
        BY <2>2, <2>3, <4>1, <4>2, <4>3
      <4>5. Taken(Walk(fil.sclust)[k - 1])'
        BY <2>3, <4>3, <4>4 DEF Taken
      <4>6. \A j \in 0 .. k - 1 : j \in 0 .. k - 1 - 1 \/ j = k - 1
        BY <4>2
      <4>7. \A j \in 0 .. k - 1 : Taken(Walk(fil.sclust)[j])'
        BY <4>4, <4>5, <4>6
      <4>8. \/ Walk(fil.sclust)'[k] = fil.clust
            \/ LinkComes(Walk(fil.sclust)[k - 1], fil.clust)'
        <5>1. CASE LinkComes(b, fil.clust)'
          BY <4>4, <5>1 DEF LinkComes
        <5>2. CASE b = d /\ fil.clust = next
          <6>1. Walk(fil.sclust)'[k - 1 + 1] = IF Walk(fil.sclust)'[k - 1] = EOC THEN EOC ELSE fat'[Walk(fil.sclust)'[k - 1]]
            BY <2>1, <4>2, WalksNext
          <6>2. Walk(fil.sclust)'[k] = fat'[b]
            BY <2>3, <4>2, <4>3, <4>4, <6>1
          <6> QED BY <1>4, <5>2, <6>2
        <5> QED BY <1>6, <3>4, <4>1, <5>1, <5>2
      <4>9. AsFarAs(fil, k)'
        BY <3>1, <3>2, <3>4, <4>7, <4>8 DEF AsFarAs
      <4> QED BY <4>9 DEF Reached
    <3> QED BY <3>1, <3>3, <3>4 DEF AsFarAs
  <2> QED BY <1>10, <2>4, <2>5 DEF Reached
<1>11. WriterReached'
  <2> SUFFICES ASSUME wr # NoFile PROVE Reached(wr.fil)'
    BY <1>1 DEF WriterReached
  <2>1. PICK q \in WriterType, fil \in HandleType : q = wr /\ fil = q.fil
    BY DEF Types, WriterType
  <2>2. Reached(fil) /\ fil.clust \in DataClusters
    BY <2>1 DEF SavedInv, WriterReached, FilesInv, WriterFiles, Writes
  <2>3. Reached(fil)'
    BY <1>10, <2>2
  <2> QED BY <1>1, <2>1, <2>3 DEF Reached, AsFarAs, Taken, LinkComes
<1>12. PendingPlain'
  <2> SUFFICES ASSUME NEW k \in DOMAIN todo'
               PROVE  /\ todo'[k].op = "slot" => todo'[k].slot.size = 0
                      /\ todo'[k].op = "link" => todo'[k].next = EOC
    BY DEF PendingPlain
  <2>1. PICK v : v = todo'[k] /\ v = todo[k + 1] /\ k + 1 \in DOMAIN todo /\ k + 1 # 1 /\ v \in SectorWrite
    BY <1>2 DEF Types
  <2>2. /\ v.op = "slot" => v.slot.size = 0
        /\ v.op = "link" => v.next = EOC
    BY <2>1 DEF SavedInv, PendingPlain
  <2> QED BY <2>1, <2>2
<1> QED BY <1>8, <1>9, <1>11, <1>12 DEF SavedInv

(* A write other than a link leaves walks as they are, and what is said of *)
(* the write command that has left it.                                     *)
LEMMA SavedSameWalks ==
  ASSUME FatFsAssumption, Types, SavedInv, DiskStep, TodoInv, todo[1].op # "link", fat' = fat
  PROVE  WriterReached' /\ PendingPlain'
<1>1. /\ 1 \in DOMAIN todo /\ wr' = wr
      /\ \A k \in DOMAIN todo' : k + 1 \in DOMAIN todo /\ k + 1 # 1 /\ todo'[k] = todo[k + 1]
      /\ \A k \in DOMAIN todo : k # 1 => \E j \in DOMAIN todo' : todo'[j] = todo[k]
  BY NextToDo
<1>2. \A d, e : LinkComes(d, e)' <=> LinkComes(d, e)
  BY <1>1 DEF LinkComes
<1>3. ASSUME NEW fil, Reached(fil) PROVE Reached(fil)'
  BY <1>2, <1>3, WalkSame DEF Reached, AsFarAs
<1>4. ASSUME wr # NoFile PROVE Reached(wr.fil)'
  <2>1. PICK fil : fil = wr.fil /\ fil = wr'.fil
    BY <1>1
  <2>2. Reached(fil)'
    BY <1>3, <1>4, <2>1 DEF SavedInv, WriterReached
  <2> QED BY <2>1, <2>2 DEF Reached, AsFarAs, Taken, LinkComes
<1>5. WriterReached'
  BY <1>1, <1>4 DEF WriterReached
<1>6. PendingPlain'
  BY <1>1 DEF SavedInv, PendingPlain
<1> QED BY <1>5, <1>6

LEMMA SavedFill ==
  ASSUME FatFsAssumption, Types, Named, TodoInv, FilesInv, SavedInv, DiskStep, todo[1].op \in {"data", "zero"}
  PROVE  SavedInv'
<1>1. PICK w, c, s, slot :
        /\ w = todo[1] /\ c = w.c /\ c \in Clusters /\ c # Root /\ fat' = fat /\ saved' = saved /\ 1 \in DOMAIN todo
        /\ slots' = Fill(c, s, slot) /\ slot.st # "used"
  <2>1. PICK w : w = todo[1] /\ w \in SectorWrite /\ 1 \in DOMAIN todo /\ Write(w) /\ saved' = saved
                 /\ w.op \in {"data", "zero"}
    BY NextToDo DEF DiskStep
  <2>2. w.c \in Clusters /\ w.c # Root
    BY <2>1, SectorWriteCases DEF Named, PendingNames
  <2>3. FreeSlot.st = "free" /\ JunkSlot.st = "junk"
    BY DEF FreeSlot, JunkSlot, Slot
  <2>4. CASE w.op = "zero"
    <3>1. fat' = fat /\ slots' = Fill(w.c, 0, FreeSlot)
      BY <2>1, <2>4 DEF Write, FatAfter, SlotsAfter
    <3> QED BY <2>1, <2>2, <2>3, <3>1
  <2>5. CASE w.op = "data"
    <3>1. fat' = fat /\ slots' = Fill(w.c, w.s, w.as)
      BY <2>1, <2>5 DEF Write, FatAfter, SlotsAfter
    <3>2. w.as.st # "used"
      <4>1. w.as \in Data
        BY <2>1, <2>5 DEF SectorWrite
      <4> QED BY <2>3, <4>1 DEF Data
    <3> QED BY <2>1, <2>2, <3>1, <3>2
  <2> QED BY <2>1, <2>4, <2>5
<1>2. NoDirAt(c)
  BY <1>1 DEF FilesInv, PendingFiles, NoDirAt, DirEntry, Shows
<1>3. /\ \A x \in Positions : SlotAt(x)'.st = "used" => SlotAt(x)' = SlotAt(x)
      /\ \A p \in Paths, x \in Positions : (At(p, x)' <=> At(p, x)) /\ (At(p, x) => SlotAt(x)' = SlotAt(x))
  BY <1>1, <1>2, FillKeeps
<1>4. EntriesHold'
  BY <1>1, <1>3, EntriesStillHold DEF SavedInv
<1>5. SavedShown'
  BY <1>1, <1>3, SavesStay DEF SavedInv
<1>6. WriterReached' /\ PendingPlain'
  BY <1>1, SavedSameWalks
<1> QED BY <1>4, <1>5, <1>6 DEF SavedInv

LEMMA SavedPut ==
  ASSUME FatFsAssumption, Types, TodoInv, FilesInv, SavedInv, DiskStep, todo[1].op = "slot"
  PROVE  SavedInv'
<1>1. PICK w : w = todo[1] /\ w \in SectorWrite /\ 1 \in DOMAIN todo /\ Write(w) /\ saved' = saved
  BY NextToDo DEF DiskStep
<1>2. PICK c, i, slot :
        /\ c \in Clusters /\ i \in SlotIds /\ slot = w.slot /\ slot.size = 0 /\ slots[c][i].st # "used"
        /\ fat' = fat /\ slots' = [slots EXCEPT ![c][i] = slot]
  <2>1. w.c \in Clusters /\ w.i \in SlotIds /\ w.slot.size = 0 /\ slots[w.c][w.i].st # "used"
    BY <1>1 DEF SectorWrite, FilesInv, PendingFiles, SavedInv, PendingPlain
  <2>2. fat' = fat /\ slots' = [slots EXCEPT ![w.c][w.i] = w.slot]
    BY <1>1 DEF Write, FatAfter, SlotsAfter
  <2> QED BY <2>1, <2>2
<1>3. PICK x \in Positions : x = <<c, i>> /\ x[1] = c /\ x[2] = i
  <2>1. <<c, i>> \in Positions
    BY <1>2 DEF Positions
  <2> QED BY <2>1
<1>4. SlotAt(x)' = slot /\ SlotAt(x).st # "used" /\ \A y \in Positions : y # x => SlotAt(y)' = SlotAt(y)
  <2>1. SlotAt(<<c, i>>)' = slot /\ \A y \in Positions : y # <<c, i>> => SlotAt(y)' = SlotAt(y)
    BY <1>2, PutIs
  <2>2. \A y \in Positions : y # x => SlotAt(y)' = SlotAt(y)
    BY <1>3, <2>1
  <2>3. SlotAt(x)' = slot /\ SlotAt(x).st # "used"
    BY <1>2, <1>3, <2>1 DEF SlotAt
  <2> QED BY <2>2, <2>3
<1>5. \A y \in Positions : SlotAt(y).st = "used" => SlotAt(y)' = SlotAt(y)
  BY <1>4
<1>6. \A p \in Paths, y \in Positions : At(p, y) => At(p, y)' /\ SlotAt(y)' = SlotAt(y)
  <2>1. \A y \in Positions : \A d, n : Here(y, d, n) => Here(y, d, n)' /\ SlotAt(y)' = SlotAt(y)
    BY <1>5 DEF Here
  <2>2. \A p \in Paths : \A d : DirOf(p, d) => DirOf(p, d)'
    BY <2>1 DEF DirOf
  <2> QED BY <2>1, <2>2 DEF At
<1>7. EntriesHold'
  <2>1. \A y \in Positions : SlotAt(y)' = SlotAt(y) \/ SlotAt(y)'.size = 0
    BY <1>2, <1>4
  <2> QED BY <1>2, <2>1, EntriesStillHold DEF SavedInv
<1>8. SavedShown'
  BY <1>1, <1>6, SavesStay DEF SavedInv
<1>9. WriterReached' /\ PendingPlain'
  BY <1>2, SavedSameWalks
<1> QED BY <1>7, <1>8, <1>9 DEF SavedInv

LEMMA SavedStep ==
  ASSUME FatFsAssumption, NoFileAssumption, Streams = {}, MaxCrashes = 0, MaxFailures = 0, Faults = FALSE,
         IInv, IInv', Named, FilesInv, SavedInv, [Next]_vars
  PROVE  SavedInv'
<1>1. Types /\ TodoInv /\ Types'
  BY DEF IInv
<1>2. crashes = 0 /\ failures = 0
  BY <1>1 DEF Types
<1>3. Undamaged
  BY <1>2, UndamagedIs
<1>4. View
  BY <1>1, <1>3, ViewIs
<1>5. ASSUME NEW path \in Paths, OpenToOverwrite(path) PROVE SavedInv'
  BY <1>1, <1>3, <1>5, SavedOpenToOverwrite
<1>6. ASSUME NEW path \in Paths, OpenToCreate(path) PROVE SavedInv'
  BY <1>1, <1>6, SavedOpenToCreate
<1>7. ASSUME NEW path \in Paths, Unlink(path) PROVE SavedInv'
  BY <1>1, <1>4, <1>7, SavedUnlink
<1>8. ASSUME NEW name \in DirNames, Mkdir(name) PROVE SavedInv'
  BY <1>8, SavedMkdir
<1>9. ASSUME NEW name \in DirNames, Rmdir(name) PROVE SavedInv'
  BY <1>1, <1>4, <1>9, SavedRmdir
<1>10. CASE WriteInCluster
  BY <1>1, <1>3, <1>4, <1>10, SavedWriteInCluster
<1>11. CASE WriteNextCluster
  BY <1>1, <1>3, <1>4, <1>11, SavedWriteNextCluster
<1>12. CASE WriteNewCluster
  BY <1>1, <1>3, <1>12, SavedWriteNewCluster
<1>13. CASE WriteDenied
  BY <1>1, <1>13, SavedWriteDenied
<1>14. CASE CloseWriter
  BY <1>1, <1>4, <1>14, SavedCloseWriter
<1>15. CASE DiskStep
  <2>1. todo[1].op \in {"link", "data", "zero", "slot"}
    <3>1. 1 \in DOMAIN todo /\ todo[1] \in SectorWrite
      BY <1>1, <1>15, NextToDo
    <3> QED BY <3>1 DEF SectorWrite
  <2> QED BY <1>1, <1>15, <2>1, SavedLink, SavedFill, SavedPut
<1>16. ~WriteBreaks /\ ~WriteLost /\ ~Crash
  BY <1>2 DEF WriteBreaks, WriteLost, Crash
<1>17. CASE UNCHANGED vars
  <2>1. UNCHANGED <<fat, slots, wr, todo, saved>>
    BY <1>17 DEF vars
  <2>2. WriterReached'
    <3>1. ASSUME NEW fil, Reached(fil) PROVE Reached(fil)'
      BY <2>1, <3>1, WalkSame DEF Reached, AsFarAs, LinkComes
    <3>2. ASSUME wr # NoFile PROVE Reached(wr.fil)'
      <4>1. PICK fil : fil = wr.fil /\ fil = wr'.fil
        BY <2>1
      <4>2. Reached(fil)'
        BY <3>1, <3>2, <4>1 DEF SavedInv, WriterReached
      <4> QED BY <4>1, <4>2 DEF Reached, AsFarAs, Taken, LinkComes
    <3> QED BY <2>1, <3>2 DEF WriterReached
  <2>3. PendingPlain'
    BY <2>1 DEF SavedInv, PendingPlain
  <2> QED BY <2>1, <2>2, <2>3, SavedHandles
<1> QED BY <1>5, <1>6, <1>7, <1>8, <1>9, <1>10, <1>11, <1>12, <1>13, <1>14, <1>15, <1>16, <1>17 DEF Next

LEMMA InitSaved == FatFsAssumption /\ Init => SavedInv
<1> SUFFICES ASSUME FatFsAssumption, Init PROVE SavedInv
  OBVIOUS
<1>1. /\ slots = [c \in Clusters |-> [i \in SlotIds |-> FreeSlot]]
      /\ wr = NoFile /\ todo = <<>> /\ saved = [p \in Paths |-> NotSaved]
  BY DEF Init
<1>2. \A x \in Positions : SlotAt(x).st # "used"
  BY <1>1 DEF SlotAt, Positions, FreeSlot, Slot
<1>3. DOMAIN todo = {}
  BY <1>1
<1> QED BY <1>1, <1>2, <1>3 DEF SavedInv, EntriesHold, SavedShown, WriterReached, PendingPlain

(* A file stays as the last completed write command left it until it is    *)
(* written or removed by name, on a volume of any size and with any names: *)
(* it is found under its path, with the first cluster it was written with, *)
(* no shorter, and with a taken cluster for every sector. This is so as    *)
(* long as no power is lost, no sector write and no malloc fails and no    *)
(* task holds a handle across yields.                                      *)
THEOREM WritePersistsHolds ==
  ASSUME Streams = {}, MaxCrashes = 0, MaxFailures = 0, Faults = FALSE
  PROVE  Spec => []WritePersists
<1> USE FatFsAssumption, NoFileAssumption
<1>1. Init => FilesInv /\ SavedInv
  BY InitFiles, InitSaved
<1>2. IInv /\ IInv' /\ Named /\ Named' /\ FilesInv /\ SavedInv /\ [Next]_vars => FilesInv' /\ SavedInv'
  BY FilesStep, SavedStep
<1>3. IInv /\ Named /\ FilesInv /\ SavedInv => WritePersists
  <2> SUFFICES ASSUME IInv, Named, FilesInv, SavedInv PROVE WritePersists
    OBVIOUS
  <2>1. Types /\ crashes = 0 /\ failures = 0
    BY DEF IInv, Types
  <2>2. View
    BY <2>1, UndamagedIs, ViewIs
  <2> QED BY <2>1, <2>2, SavedIsThere DEF View, FilesInv
<1> QED BY <1>1, <1>2, <1>3, InvHolds, NamedHolds, PTL DEF Spec
=============================================================================
