---------------------------- MODULE ReaderProofs ----------------------------
(***************************************************************************)
(* Theorems about Reader, for any sizes of sectors, clusters, chunks and   *)
(* lines and for any file: what cat prints, and the lines of a script.      *)
(***************************************************************************)
EXTENDS Reader, SequenceTheorems, TLAPS

-----------------------------------------------------------------------------
(* Dividing.                                                               *)
LEMMA Divided ==
  ASSUME NEW p \in Nat, NEW w \in Nat \ {0}
  PROVE  \E q \in Nat, r \in 0 .. w - 1 : q = p \div w /\ r = p % w /\ p = q * w + r
<1>1. PICK q \in Nat, r \in 0 .. w - 1 : q = p \div w /\ r = p % w /\ p = w * q + r
  BY Z3
<1>2. w * q = q * w
  BY Z3
<1>3. p = q * w + r
  BY <1>1, <1>2, Zenon
<1> QED BY <1>1, <1>3

LEMMA Grows ==
  ASSUME NEW a \in Nat, NEW b \in Nat, NEW w \in Nat, a * w < b * w
  PROVE  a < b
<1> SUFFICES ASSUME a >= b PROVE FALSE
  OBVIOUS
<1>1. PICK d \in Nat : a = b + d
  <2>1. a - b \in Nat /\ a = b + (a - b)
    OBVIOUS
  <2> QED BY <2>1
<1>2. (b + d) * w = b * w + d * w /\ d * w \in Nat /\ b * w \in Nat
  BY Z3
<1> QED BY <1>1, <1>2

(* Only one quotient leaves a remainder below the divisor.                 *)
LEMMA QuotientIs ==
  ASSUME NEW q \in Nat, NEW w \in Nat \ {0}, NEW r \in 0 .. w - 1, NEW p \in Nat, p = q * w + r
  PROVE  p \div w = q /\ p % w = r
<1>1. PICK a \in Nat, b \in 0 .. w - 1 : a = p \div w /\ b = p % w /\ p = a * w + b
  BY Divided
<1>2. PICK aw \in Nat, qw \in Nat : aw = a * w /\ qw = q * w
  <2>1. a * w \in Nat /\ q * w \in Nat
    BY Z3
  <2> QED BY <2>1
<1>3. aw + b = qw + r
  BY <1>1, <1>2
<1>4. (a + 1) * w = aw + w /\ (q + 1) * w = qw + w
  <2>1. (a + 1) * w = a * w + w /\ (q + 1) * w = q * w + w
    BY Z3
  <2> QED BY <1>2, <2>1, Zenon
<1>5. aw < qw + w /\ qw < aw + w
  BY <1>3
<1>6. a < q + 1
  <2>1. a * w < (q + 1) * w
    BY <1>2, <1>4, <1>5
  <2> QED BY <2>1, Grows
<1>7. q < a + 1
  <2>1. q * w < (a + 1) * w
    BY <1>2, <1>4, <1>5
  <2> QED BY <2>1, Grows
<1>8. a = q
  BY <1>6, <1>7
<1>9. b = r
  <2>1. aw = qw
    BY <1>2, <1>8
  <2> QED BY <1>3, <2>1
<1> QED BY <1>1, <1>8, <1>9

LEMMA ClusterIs == ASSUME ReaderAssumption PROVE ClusterSize \in Nat \ {0}
<1>1. SectorSize \in Nat \ {0} /\ SectorsPerCluster \in Nat \ {0}
  BY DEF ReaderAssumption
<1> QED BY <1>1, Z3 DEF ClusterSize

-----------------------------------------------------------------------------
(* What every reader has. *)
Basics ==
  /\ kind \in {"cat", "stream"}
  /\ size \in 0 .. MaxSize
  /\ newlines \in SUBSET Int
  /\ fptr \in 0 .. size

(* A read before the end of the file delivers no more than what is left.   *)
LEMMA ReadIs ==
  ASSUME ReaderAssumption, Basics, ~AtEnd, NEW r \in FRead(CatChunk)
  PROVE  r.n \in 0 .. size - fptr
<1>1. fptr \in Nat /\ size \in Nat /\ fptr < size /\ CatChunk \in Nat \ {0}
  BY DEF Basics, AtEnd, ReaderAssumption
<1> DEFINE n == IF CatChunk > size - fptr THEN size - fptr ELSE CatChunk
<1>2. n \in 1 .. size - fptr
  BY <1>1
<1>3. r.n \in 0 .. n
  <2>1. 0 \in 0 .. n /\ n \in 0 .. n /\ (\A k \in 0 .. n - 1 : k \in 0 .. n) /\ (\A k \in 1 .. n - 1 : k \in 0 .. n)
    BY <1>1, <1>2
  <2>2. \/ r.n = 0 \/ r.n = n
        \/ \E k \in 0 .. n - 1 : r.n = k
        \/ \E k \in 1 .. n - 1 : r.n = k
    BY DEF FRead
  <2> QED BY <2>1, <2>2
<1> QED BY <1>1, <1>2, <1>3

-----------------------------------------------------------------------------
Lines == Seq(Int) \ {<<>>}

(* The streamer. The lines sent are the pieces that end before fptr, and    *)
(* the line under way is what has been read of the next one; once the file *)
(* is at its end the latter no longer matters.                             *)
Recorded ==
  /\ lines \in Seq(Lines)
  /\ \A i \in 1 .. Len(lines) : Unbroken(lines[i])
  /\ {Bounds(lines[i]) : i \in 1 .. Len(lines)} = {l \in Pieces : l.to < fptr - 1}
  /\ \A i \in 1 .. Len(lines) - 1 : lines[i][1] < lines[i + 1][1]

Start == fptr - Len(line)
Cutting ==
  /\ line \in Seq(Int) /\ Len(line) <= LineMax /\ Len(line) <= fptr
  /\ Start = 0 \/ Start - 1 \in Cuts
  /\ \A q \in Start .. fptr - 1 : q \notin Cuts
  /\ \A i \in 1 .. Len(line) : line[i] = Start + i - 1
  /\ \A i \in 1 .. Len(lines) : lines[i][1] < Start

StreamInv == kind = "stream" => Recorded /\ (~AtEnd => Cutting)

(* A piece of the script that ends before fptr is the one under way.       *)
LEMMA LastPiece ==
  ASSUME Basics, Cutting, NEW l \in Pieces, l.to = fptr - 1
  PROVE  l.from = Start /\ Start < fptr /\ fptr \in Cuts
<1>1. PICK s \in Int : s = Start
  <2>1. fptr \in Int /\ Len(line) \in Nat
    BY DEF Basics, Cutting
  <2>2. Start \in Int
    BY <2>1 DEF Start
  <2> QED BY <2>2
<1>2. s >= 0 /\ s <= fptr /\ (s = 0 \/ s - 1 \in Cuts) /\ \A q \in s .. fptr - 1 : q \notin Cuts
  BY <1>1 DEF Basics, Cutting, Start
<1>3. PICK a \in Int : a = l.from
  BY DEF Pieces, Basics
<1>4. /\ a >= 0 /\ a <= fptr - 1 /\ l.to + 1 \in Cuts /\ (a = 0 \/ a - 1 \in Cuts)
      /\ \A q \in a .. fptr - 1 : q \notin Cuts
  BY <1>3 DEF Pieces
<1>5. fptr \in Int /\ l.to + 1 = fptr
  BY DEF Basics
<1>6. ~(a < s)
  <2> SUFFICES ASSUME a < s PROVE FALSE
    OBVIOUS
  <2>1. s - 1 \in Cuts /\ s - 1 \in a .. fptr - 1
    BY <1>2, <1>4, <1>5
  <2> QED BY <1>4, <2>1
<1>7. ~(a > s)
  <2> SUFFICES ASSUME a > s PROVE FALSE
    OBVIOUS
  <2>1. a - 1 \in Cuts /\ a - 1 \in s .. fptr - 1
    BY <1>2, <1>4, <1>5
  <2> QED BY <1>2, <2>1
<1> QED BY <1>1, <1>3, <1>4, <1>5, <1>6, <1>7

LEMMA LineIs ==
  ASSUME ReaderAssumption, Basics, Cutting, line # <<>>, fptr \in Cuts, fptr < size
  PROVE  /\ Unbroken(line) /\ Bounds(line) = [from |-> Start, to |-> fptr - 1] /\ line[1] = Start
         /\ Bounds(line) \in Pieces
<1>1. PICK n \in Nat \ {0} : n = Len(line)
  BY EmptySeq DEF Cutting
<1>2. PICK s \in Int : s = Start /\ s = fptr - n
  BY <1>1 DEF Basics, Cutting, Start
<1>3. fptr \in Int /\ size \in Int
  BY DEF Basics
<1>4. \A i \in 1 .. n : line[i] = s + i - 1
  BY <1>1, <1>2 DEF Cutting
<1>5. line[1] = s /\ line[n] = fptr - 1
  <2>1. 1 \in 1 .. n /\ n \in 1 .. n /\ s + 1 - 1 = s /\ s + n - 1 = fptr - 1
    BY <1>2, <1>3
  <2> QED BY <1>4, <2>1
<1>6. Unbroken(line)
  BY <1>1, <1>4, <1>5 DEF Unbroken
<1>7. Bounds(line) = [from |-> s, to |-> fptr - 1]
  BY <1>1, <1>5 DEF Bounds
<1>8. s >= 0 /\ n <= fptr /\ (s = 0 \/ s - 1 \in Cuts) /\ \A q \in s .. fptr - 1 : q \notin Cuts
  BY <1>1, <1>2, <1>3 DEF Cutting
<1>9. /\ s \in 0 .. size /\ fptr - 1 \in 0 .. size /\ s <= fptr - 1 /\ fptr - 1 + 1 \in Cuts
  BY <1>2, <1>3, <1>8
<1>10. PICK l : l = [from |-> s, to |-> fptr - 1]
  BY Zenon
<1>11. l \in Pieces
  BY <1>8, <1>9, <1>10 DEF Pieces
<1> QED BY <1>2, <1>5, <1>6, <1>7, <1>10, <1>11

(* A line of the script has one beginning.                                 *)
LEMMA OneStart ==
  ASSUME NEW p \in Int, NEW s \in 0 .. p, NEW t \in 0 .. p, LineAt(s, p), LineAt(t, p)
  PROVE  ~(s < t)
<1> SUFFICES ASSUME s < t PROVE FALSE
  OBVIOUS
<1>1. t - 1 \in LineEnds /\ t - 1 \in s .. p - 1
  BY DEF LineAt
<1> QED BY <1>1 DEF LineAt

(* The piece under way begins a whole number of full pieces after the line *)
(* that fptr is in.                                                        *)
LEMMA LineUnderWay ==
  ASSUME ReaderAssumption, Basics, Cutting
  PROVE  \E s \in 0 .. fptr : /\ LineAt(s, fptr) /\ s <= Start
                              /\ (Start - s) % (LineMax + 1) = 0
<1>1. LineMax \in Nat \ {0} /\ fptr \in Nat
  BY DEF ReaderAssumption, Basics
<1>2. PICK b \in 0 .. fptr : b = Start
  BY <1>1 DEF Cutting, Start
<1>3. \A q \in b .. fptr - 1 : q \notin LineEnds
  BY <1>2 DEF Cutting, Cuts
<1>4. CASE b = 0 \/ b - 1 \in LineEnds
  <2>1. LineAt(b, fptr)
    BY <1>3, <1>4 DEF LineAt
  <2>2. (b - b) % (LineMax + 1) = 0
    BY <1>1
  <2> QED BY <1>2, <2>1, <2>2
<1>5. CASE ~(b = 0 \/ b - 1 \in LineEnds)
  <2>1. b - 1 \in Cuts /\ b \in 1 .. fptr
    BY <1>2, <1>5 DEF Cutting
  <2>2. PICK s \in 0 .. b - 1 : LineAt(s, b - 1) /\ (b - 1 - s) % (LineMax + 1) = LineMax
    BY <1>5, <2>1 DEF Cuts
  <2>3. \A q \in s .. fptr - 1 : q \in s .. b - 1 - 1 \/ q = b - 1 \/ q \in b .. fptr - 1
    BY <1>1, <2>1
  <2>4. \A q \in s .. fptr - 1 : q \notin LineEnds
    BY <1>3, <1>5, <2>2, <2>3 DEF LineAt
  <2>5. LineAt(s, fptr) /\ s \in 0 .. fptr /\ s <= b
    <3>1. s = 0 \/ s - 1 \in LineEnds
      BY <2>2 DEF LineAt
    <3>2. s \in 0 .. fptr /\ s <= b
      BY <1>1, <2>1
    <3> QED BY <2>4, <3>1, <3>2 DEF LineAt
  <2>6. (b - s) % (LineMax + 1) = 0
    <3>1. PICK m \in Nat, w \in Nat \ {0} : m = b - 1 - s /\ w = LineMax + 1 /\ b - s = m + 1 /\ m % w = w - 1
      BY <1>1, <2>1, <2>2
    <3>2. PICK q \in Nat, r \in 0 .. w - 1 : q = m \div w /\ r = m % w /\ m = q * w + r
      BY <3>1, Divided
    <3>3. (q + 1) * w = q * w + w /\ (q + 1) * w + 0 = m + 1
      BY <3>1, <3>2, Z3
    <3>4. (m + 1) % w = 0
      BY <3>1, <3>3, QuotientIs
    <3> QED BY <3>1, <3>4
  <2> QED BY <1>2, <2>5, <2>6
<1> QED BY <1>4, <1>5

(* The streamer cuts where the script is cut.                              *)
LEMMA CutIs ==
  ASSUME ReaderAssumption, Basics, Cutting, fptr < size
  PROVE  fptr \in Cuts <=> fptr \in newlines \/ LineFull
<1>1. LineMax \in Nat \ {0} /\ fptr \in Nat /\ size \in Nat /\ fptr \in 0 .. size
  BY DEF ReaderAssumption, Basics
<1>2. fptr \in LineEnds <=> fptr \in newlines
  BY <1>1 DEF LineEnds
<1>3. PICK n \in Nat : n = Len(line) /\ n <= LineMax /\ n <= fptr
  BY DEF Cutting
<1>4. PICK s \in 0 .. fptr : LineAt(s, fptr) /\ s <= Start /\ (Start - s) % (LineMax + 1) = 0
  BY LineUnderWay
<1>5. (fptr - s) % (LineMax + 1) = n
  <2>0. PICK b \in Int : b = Start /\ b = fptr - n
    BY <1>1, <1>3 DEF Start
  <2>1. PICK m \in Nat, w \in Nat \ {0} : m = b - s /\ w = LineMax + 1 /\ m % w = 0 /\ fptr - s = m + n
    <3>1. s <= b /\ (b - s) % (LineMax + 1) = 0
      BY <1>4, <2>0
    <3>2. b - s \in Nat /\ LineMax + 1 \in Nat \ {0} /\ fptr - s = b - s + n
      BY <1>1, <1>3, <2>0, <3>1
    <3> QED BY <3>1, <3>2
  <2>2. PICK q \in Nat, r \in 0 .. w - 1 : q = m \div w /\ r = m % w /\ m = q * w + r
    BY <2>1, Divided
  <2>3. n \in 0 .. w - 1 /\ m + n \in Nat
    BY <1>1, <1>3, <2>1
  <2>4. PICK g \in Int : g = q * w
    BY <2>2, Z3
  <2>5. m + n = q * w + n
    <3>1. m = g + 0
      BY <2>1, <2>2, <2>4
    <3>2. m + n = g + n
      BY <2>4, <3>1
    <3> QED BY <2>4, <3>2
  <2>6. (m + n) % w = n
    <3>1. PICK p \in Nat : p = m + n
      BY <2>3
    <3>2. p = q * w + n
      BY <2>5, <3>1, Zenon
    <3>3. p % w = n
      BY <2>3, <3>2, QuotientIs
    <3> QED BY <3>1, <3>3
  <2> QED BY <2>1, <2>6
<1>6. \A t \in 0 .. fptr : LineAt(t, fptr) => t = s
  <2>1. \A t \in 0 .. fptr : LineAt(t, fptr) => ~(s < t) /\ ~(t < s)
    BY <1>1, <1>4, OneStart
  <2> QED BY <1>1, <2>1
<1>7. fptr \in Cuts <=> fptr \in LineEnds \/ n = LineMax
  BY <1>1, <1>4, <1>5, <1>6 DEF Cuts
<1>8. LineFull <=> n = LineMax
  BY <1>1, <1>3 DEF LineFull
<1> QED BY <1>2, <1>7, <1>8

(* The next byte. *)
LEMMA ByteStep ==
  ASSUME ReaderAssumption, Basics, Recorded, Cutting, ~AtEnd,
         fptr' = fptr + 1, size' = size, newlines' = newlines, Feed(fptr)
  PROVE  Recorded' /\ Cutting'
<1>1. fptr \in Nat /\ size \in Nat /\ fptr < size /\ LineMax \in Nat
  BY DEF Basics, AtEnd, ReaderAssumption
<1>2. Pieces' = Pieces /\ Cuts' = Cuts
  BY DEF Pieces, Cuts, LineEnds, LineAt
<1>3. \A l \in Pieces : l.to \in Int
  BY DEF Pieces, Basics
<1>4. PICK k \in Nat : k = Len(lines)
  BY DEF Recorded
<1>5. PICK n \in Nat : n = Len(line)
  BY DEF Cutting
<1>6. PICK s \in Int : s = Start /\ s = fptr - n
  BY <1>1, <1>5 DEF Start
<1>7. \A i \in 1 .. k : Unbroken(lines[i]) /\ lines[i][1] \in Int /\ lines[i][1] < s
  <2> SUFFICES ASSUME NEW i \in 1 .. k PROVE Unbroken(lines[i]) /\ lines[i][1] \in Int /\ lines[i][1] < s
    OBVIOUS
  <2>1. lines[i] \in Lines /\ Unbroken(lines[i]) /\ lines[i][1] < s
    BY <1>4, <1>6 DEF Recorded, Cutting
  <2>2. lines[i][1] \in Int
    <3>1. PICK z \in Seq(Int) : z = lines[i] /\ z # <<>>
      BY <2>1 DEF Lines
    <3>2. 1 \in 1 .. Len(z)
      BY <3>1
    <3> QED BY <3>1, <3>2
  <2> QED BY <2>1, <2>2
<1>8. CASE (fptr \in newlines \/ LineFull) /\ line # <<>>
  <2>1. lines' = Append(lines, line) /\ line' = <<>>
    BY <1>8 DEF Feed
  <2>2. fptr \in Cuts
    BY <1>1, <1>8, CutIs
  <2>3. /\ Unbroken(line) /\ Bounds(line) = [from |-> s, to |-> fptr - 1] /\ line[1] = s
        /\ Bounds(line) \in Pieces
    BY <1>1, <1>6, <1>8, <2>2, LineIs
  <2>4. line \in Lines /\ lines \in Seq(Lines)
    BY <1>8 DEF Cutting, Recorded, Lines
  <2>5. PICK m \in Seq(Lines) : m = lines' /\ Len(m) = k + 1 /\ m[k + 1] = line /\ \A i \in 1 .. k : m[i] = lines[i]
    <3>1. lines' \in Seq(Lines) /\ Len(lines') = Len(lines) + 1 /\ lines'[Len(lines) + 1] = line
      BY <2>1, <2>4, AppendProperties
    <3>2. \A i \in 1 .. Len(lines) : lines'[i] = lines[i]
      BY <2>1, <2>4, AppendProperties
    <3> QED BY <1>4, <3>1, <3>2
  <2>6. \A i \in 1 .. k + 1 : Unbroken(m[i])
    <3> SUFFICES ASSUME NEW i \in 1 .. k + 1 PROVE Unbroken(m[i])
      OBVIOUS
    <3>1. CASE i = k + 1
      BY <2>3, <2>5, <3>1
    <3>2. CASE i \in 1 .. k
      BY <1>7, <2>5, <3>2
    <3> QED BY <3>1, <3>2
  <2>7. {Bounds(m[i]) : i \in 1 .. k + 1} = {Bounds(lines[i]) : i \in 1 .. k} \cup {Bounds(line)}
    <3>1. ASSUME NEW i \in 1 .. k + 1 PROVE Bounds(m[i]) \in {Bounds(lines[j]) : j \in 1 .. k} \cup {Bounds(line)}
      <4>1. CASE i = k + 1
        BY <2>5, <4>1
      <4>2. CASE i \in 1 .. k
        BY <2>5, <4>2
      <4> QED BY <4>1, <4>2
    <3>2. \A i \in 1 .. k : Bounds(lines[i]) = Bounds(m[i]) /\ i \in 1 .. k + 1
      BY <2>5
    <3>3. Bounds(line) = Bounds(m[k + 1]) /\ k + 1 \in 1 .. k + 1
      BY <2>5
    <3> QED BY <3>1, <3>2, <3>3
  <2>8. {l \in Pieces : l.to < fptr - 1} \cup {Bounds(line)} = {l \in Pieces : l.to < fptr + 1 - 1}
    <3>1. ASSUME NEW l \in Pieces, l.to < fptr + 1 - 1, ~(l.to < fptr - 1) PROVE l = Bounds(line)
      <4>1. l.to = fptr - 1
        BY <1>1, <1>3, <3>1
      <4>2. l.from = s
        BY <1>6, <4>1, LastPiece
      <4>3. l = [from |-> l.from, to |-> l.to]
        BY DEF Pieces
      <4> QED BY <2>3, <4>1, <4>2, <4>3
    <3>2. Bounds(line).to = fptr - 1
      BY <2>3
    <3>3. fptr - 1 < fptr + 1 - 1 /\ \A a \in Int : a < fptr - 1 => a < fptr + 1 - 1
      BY <1>1
    <3> QED BY <1>3, <2>3, <3>1, <3>2, <3>3
  <2>9. \A i \in 1 .. k + 1 - 1 : m[i][1] < m[i + 1][1]
    <3> SUFFICES ASSUME NEW i \in 1 .. k PROVE m[i][1] < m[i + 1][1]
      BY <1>4
    <3>1. m[i] = lines[i]
      BY <2>5
    <3>2. CASE i = k
      BY <1>7, <2>3, <2>5, <3>1, <3>2
    <3>3. CASE i \in 1 .. k - 1
      <4>1. i + 1 \in 1 .. k
        BY <3>3
      <4> QED BY <1>4, <2>5, <3>1, <3>3, <4>1 DEF Recorded
    <3> QED BY <3>2, <3>3
  <2>10. Recorded'
    <3>1. {Bounds(m[i]) : i \in 1 .. Len(m)} = {l \in Pieces' : l.to < fptr' - 1}
      <4>1. {Bounds(m[i]) : i \in 1 .. k + 1} = {l \in Pieces : l.to < fptr + 1 - 1}
        BY <1>4, <2>7, <2>8 DEF Recorded
      <4>2. {Bounds(m[i]) : i \in 1 .. Len(m)} = {Bounds(m[i]) : i \in 1 .. k + 1}
        BY <2>5
      <4>3. {l \in Pieces' : l.to < fptr' - 1} = {l \in Pieces : l.to < fptr + 1 - 1}
        <5>1. ASSUME NEW l \in Pieces PROVE l.to < fptr' - 1 <=> l.to < fptr + 1 - 1
          <6>1. PICK t \in Int : t = l.to
            BY <1>3
          <6>2. t < fptr' - 1 <=> t < fptr + 1 - 1
            BY <1>1, <6>1
          <6> QED BY <6>1, <6>2
        <5> QED BY <1>2, <5>1
      <4> QED BY <4>1, <4>2, <4>3, Zenon
    <3>2. Recorded' <=> /\ lines' \in Seq(Lines)
                        /\ \A i \in 1 .. Len(lines') : Unbroken(lines'[i])
                        /\ {Bounds(lines'[i]) : i \in 1 .. Len(lines')} = {l \in Pieces' : l.to < fptr' - 1}
                        /\ \A i \in 1 .. Len(lines') - 1 : lines'[i][1] < lines'[i + 1][1]
      BY DEF Recorded, Bounds, Unbroken
    <3>3. \A i \in 1 .. Len(m) : Unbroken(m[i])
      BY <2>5, <2>6
    <3>4. \A i \in 1 .. Len(m) - 1 : m[i][1] < m[i + 1][1]
      BY <2>5, <2>9
    <3> QED BY <2>5, <3>1, <3>2, <3>3, <3>4, Zenon
  <2>11. \A i \in 1 .. k + 1 : m[i][1] < fptr + 1
    <3> SUFFICES ASSUME NEW i \in 1 .. k + 1 PROVE m[i][1] < fptr + 1
      OBVIOUS
    <3>1. CASE i = k + 1
      <4>1. s < fptr + 1
        BY <1>1, <1>5, <1>6
      <4> QED BY <2>3, <2>5, <3>1, <4>1
    <3>2. CASE i \in 1 .. k
      <4>1. s <= fptr
        BY <1>1, <1>5, <1>6
      <4>2. m[i] = lines[i] /\ m[i][1] \in Int /\ m[i][1] < s
        BY <1>7, <2>5, <3>2
      <4> QED BY <1>1, <4>1, <4>2
    <3> QED BY <3>1, <3>2
  <2>12. Cutting'
    <3>1. line' \in Seq(Int) /\ Len(line') = 0
      BY <2>1
    <3>2. Start' = fptr + 1
      BY <1>1, <3>1 DEF Start
    <3>3. fptr + 1 - 1 \in Cuts'
      BY <1>1, <1>2, <2>2
    <3>4. \A i \in 1 .. Len(lines') : lines'[i][1] < Start'
      BY <2>5, <2>11, <3>2
    <3>5. \A q \in Start' .. fptr' - 1 : q \notin Cuts'
      BY <1>1, <3>2
    <3>6. \A i \in 1 .. Len(line') : line'[i] = Start' + i - 1
      BY <3>1
    <3>7. Len(line') <= LineMax /\ Len(line') <= fptr' /\ Start' - 1 \in Cuts'
      BY <1>1, <3>1, <3>2, <3>3
    <3> QED BY <3>1, <3>4, <3>5, <3>6, <3>7 DEF Cutting
  <2> QED BY <2>10, <2>12
<1>9. ASSUME lines' = lines, \A l \in Pieces : l.to # fptr - 1
      PROVE  Recorded'
  <2>1. {l \in Pieces' : l.to < fptr' - 1} = {l \in Pieces : l.to < fptr - 1}
    <3>1. ASSUME NEW l \in Pieces PROVE l.to < fptr' - 1 <=> l.to < fptr - 1
      <4>1. PICK t \in Int : t = l.to /\ t # fptr - 1
        BY <1>3, <1>9
      <4>2. t < fptr' - 1 <=> t < fptr - 1
        BY <1>1, <4>1
      <4> QED BY <4>1, <4>2
    <3> QED BY <1>2, <3>1
  <2>2. Recorded' <=> /\ lines' \in Seq(Lines)
                      /\ \A i \in 1 .. Len(lines') : Unbroken(lines'[i])
                      /\ {Bounds(lines'[i]) : i \in 1 .. Len(lines')} = {l \in Pieces' : l.to < fptr' - 1}
                      /\ \A i \in 1 .. Len(lines') - 1 : lines'[i][1] < lines'[i + 1][1]
    BY DEF Recorded, Bounds, Unbroken
  <2> QED BY <1>9, <2>1, <2>2 DEF Recorded
<1>10. CASE (fptr \in newlines \/ LineFull) /\ line = <<>>
  <2>1. lines' = lines /\ line' = <<>>
    BY <1>10 DEF Feed
  <2>2. fptr \in Cuts
    BY <1>1, <1>10, CutIs
  <2>3. n = 0 /\ s = fptr
    <3>1. n = 0
      BY <1>5, <1>10
    <3> QED BY <1>1, <1>6, <3>1
  <2>4. \A l \in Pieces : l.to # fptr - 1
    BY <1>1, <1>6, <2>3, LastPiece
  <2>5. Recorded'
    BY <1>9, <2>1, <2>4
  <2>6. Cutting'
    <3>1. line' \in Seq(Int) /\ Len(line') = 0
      BY <2>1
    <3>2. Start' = fptr + 1
      BY <1>1, <3>1 DEF Start
    <3>3. fptr + 1 - 1 \in Cuts'
      BY <1>1, <1>2, <2>2
    <3>4. \A i \in 1 .. Len(lines') : lines'[i][1] < Start'
      <4>1. ASSUME NEW i \in 1 .. k PROVE lines[i][1] < fptr + 1
        BY <1>1, <1>7, <2>3
      <4> QED BY <1>4, <2>1, <3>2, <4>1
    <3>5. \A q \in Start' .. fptr' - 1 : q \notin Cuts'
      BY <1>1, <3>2
    <3>6. \A i \in 1 .. Len(line') : line'[i] = Start' + i - 1
      BY <3>1
    <3>7. Len(line') <= LineMax /\ Len(line') <= fptr' /\ Start' - 1 \in Cuts'
      BY <1>1, <3>1, <3>2, <3>3
    <3> QED BY <3>1, <3>4, <3>5, <3>6, <3>7 DEF Cutting
  <2> QED BY <2>5, <2>6
<1>11. CASE ~(fptr \in newlines \/ LineFull)
  <2>1. lines' = lines /\ line' = Append(line, fptr)
    BY <1>11 DEF Feed
  <2>2. fptr \notin Cuts /\ n < LineMax
    BY <1>1, <1>5, <1>11, CutIs DEF LineFull, Cutting
  <2>3. \A l \in Pieces : l.to # fptr - 1
    BY <2>2, LastPiece
  <2>4. Recorded'
    BY <1>9, <2>1, <2>3
  <2>5. /\ line' \in Seq(Int) /\ Len(line') = n + 1 /\ line'[n + 1] = fptr
        /\ \A i \in 1 .. n : line'[i] = line[i]
    <3>1. line \in Seq(Int) /\ fptr \in Int
      BY <1>1 DEF Cutting
    <3> QED BY <1>5, <2>1, <3>1, AppendProperties
  <2>6. Start' = s
    <3>1. fptr + 1 - (n + 1) = s
      BY <1>1, <1>6
    <3> QED BY <2>5, <3>1 DEF Start
  <2>7. Cutting'
    <3>1. Len(line') <= LineMax /\ Len(line') <= fptr'
      <4>1. n <= fptr
        BY <1>5 DEF Cutting
      <4> QED BY <1>1, <2>2, <2>5, <4>1
    <3>2. Start' = 0 \/ Start' - 1 \in Cuts'
      BY <1>2, <1>6, <2>6 DEF Cutting
    <3>3. \A q \in Start' .. fptr' - 1 : q \notin Cuts'
      <4>1. \A q \in s .. fptr - 1 : q \notin Cuts
        BY <1>6 DEF Cutting
      <4>2. ASSUME NEW q \in s .. fptr + 1 - 1 PROVE q \notin Cuts
        <5>1. q = fptr \/ q \in s .. fptr - 1
          BY <1>1
        <5> QED BY <2>2, <4>1, <5>1
      <4>3. ASSUME NEW q \in Start' .. fptr' - 1 PROVE q \notin Cuts'
        <5>1. q \in s .. fptr + 1 - 1
          BY <1>1, <2>6
        <5> QED BY <1>2, <4>2, <5>1
      <4> QED BY <4>3
    <3>4. \A i \in 1 .. Len(line') : line'[i] = Start' + i - 1
      <4>1. ASSUME NEW i \in 1 .. n + 1 PROVE line'[i] = s + i - 1
        <5>1. CASE i = n + 1
          <6>1. s + i - 1 = fptr
            BY <1>1, <1>6, <5>1
          <6> QED BY <2>5, <5>1, <6>1
        <5>2. CASE i \in 1 .. n
          BY <1>5, <1>6, <2>5, <5>2 DEF Cutting
        <5> QED BY <5>1, <5>2
      <4> QED BY <2>5, <2>6, <4>1
    <3>5. \A i \in 1 .. Len(lines') : lines'[i][1] < Start'
      BY <1>4, <1>7, <2>1, <2>6
    <3> QED BY <2>5, <3>1, <3>2, <3>3, <3>4, <3>5 DEF Cutting
  <2> QED BY <2>4, <2>7
<1> QED BY <1>8, <1>10, <1>11

-----------------------------------------------------------------------------
(* Every step of the streamer, and those of cat, keep this.                *)
LEMMA StreamInit == ASSUME ReaderAssumption, Init PROVE Basics /\ StreamInv
<1>1. Basics
  BY DEF Init, Basics, ReaderAssumption
<1>2. lines = <<>> /\ line = <<>> /\ fptr = 0 /\ Len(lines) = 0 /\ Len(line) = 0
  BY EmptySeq DEF Init
<1>3. Recorded
  <2>1. \A l \in Pieces : ~(l.to < fptr - 1)
    <3>1. ASSUME NEW l \in Pieces PROVE ~(l.to < 0 - 1)
      <4>1. l.to \in 0 .. size
        BY DEF Pieces
      <4> QED BY <4>1
    <3> QED BY <1>2, <3>1
  <2>2. {Bounds(lines[i]) : i \in 1 .. Len(lines)} = {}
    BY <1>2
  <2>3. lines \in Seq(Lines)
    BY <1>2, EmptySeq
  <2> QED BY <1>2, <2>1, <2>2, <2>3 DEF Recorded
<1>4. Cutting
  <2>1. line \in Seq(Int) /\ LineMax \in Nat
    BY <1>2, EmptySeq DEF ReaderAssumption
  <2>2. Start = 0
    <3>1. 0 - 0 = 0
      OBVIOUS
    <3> QED BY <1>2, <3>1, Zenon DEF Start
  <2>3. Len(line) <= LineMax /\ Len(line) <= fptr /\ \A i \in 1 .. Len(line) : line[i] = Start + i - 1
    BY <1>2, <2>1
  <2>4. \A i \in 1 .. Len(lines) : lines[i][1] < Start
    BY <1>2
  <2>5. \A q \in Start .. fptr - 1 : q \notin Cuts
    BY <1>2, <2>2
  <2> QED BY <2>1, <2>2, <2>3, <2>4, <2>5 DEF Cutting
<1> QED BY <1>1, <1>3, <1>4 DEF StreamInv

LEMMA ByteIs ==
  ASSUME ReaderAssumption, Basics
  PROVE  WalkTo * ClusterSize + (fptr % ClusterSize) = fptr
<1>1. fptr \in Nat /\ ClusterSize \in Nat \ {0}
  BY ClusterIs DEF Basics
<1>2. PICK q \in Nat, r \in 0 .. ClusterSize - 1 :
        q = fptr \div ClusterSize /\ r = fptr % ClusterSize /\ fptr = q * ClusterSize + r
  BY <1>1, Divided
<1> QED BY <1>2, Zenon DEF WalkTo

LEMMA StreamStep ==
  ASSUME ReaderAssumption, Basics, StreamInv, [Next]_vars
  PROVE  Basics' /\ StreamInv'
<1>1. CASE UNCHANGED vars
  <2>1. Basics'
    BY <1>1 DEF Basics, vars
  <2>2. StreamInv' <=> StreamInv
    BY <1>1 DEF StreamInv, Recorded, Cutting, Start, AtEnd, Cuts, LineEnds, LineAt, Pieces, Bounds, Unbroken, vars
  <2> QED BY <2>1, <2>2
<1>2. CASE StreamWalkEnds
  <2>1. Basics'
    BY <1>2 DEF Basics, StreamWalkEnds
  <2>2. StreamInv' <=> StreamInv
    BY <1>2 DEF StreamInv, Recorded, Cutting, Start, AtEnd, Cuts, LineEnds, LineAt, Pieces, Bounds, Unbroken, StreamWalkEnds
  <2> QED BY <2>1, <2>2
<1>3. CASE StreamAtEnd
  <2>1. lines' = lines /\ fptr' = fptr /\ size' = size /\ newlines' = newlines /\ kind' = kind /\ AtEnd
    BY <1>3 DEF StreamAtEnd, Feed
  <2>2. Basics'
    BY <2>1 DEF Basics
  <2>3. AtEnd' /\ (Recorded' <=> Recorded)
    BY <2>1 DEF Recorded, AtEnd, Cuts, LineEnds, LineAt, Pieces, Bounds, Unbroken
  <2> QED BY <2>1, <2>2, <2>3 DEF StreamInv
<1>4. CASE StreamByte
  <2>1. size' = size /\ newlines' = newlines /\ kind' = kind /\ ~AtEnd
    BY <1>4 DEF StreamByte
  <2>2. CASE fptr' = fptr + 1 /\ Feed(fptr)
    <3>1. Basics'
      BY <2>1, <2>2 DEF Basics, AtEnd
    <3>3. ASSUME kind = "stream" PROVE Recorded' /\ Cutting'
      <4>1. Recorded /\ Cutting
        BY <2>1, <3>3 DEF StreamInv
      <4> QED BY <2>1, <2>2, <3>3, <4>1, ByteStep
    <3> QED BY <2>1, <3>1, <3>3 DEF StreamInv
  <2>3. CASE fptr' = fptr /\ line' = line /\ lines' = lines
    <3>1. Basics'
      BY <2>1, <2>3 DEF Basics
    <3>2. StreamInv' <=> StreamInv
      BY <2>1, <2>3 DEF StreamInv, Recorded, Cutting, Start, AtEnd, Cuts, LineEnds, LineAt, Pieces, Bounds, Unbroken
    <3> QED BY <3>1, <3>2
  <2> QED BY <1>4, <2>2, <2>3, ByteIs DEF StreamByte
<1>5. CASE CatRead
  <2>1. size' = size /\ newlines' = newlines /\ kind' = "cat"
    BY <1>5 DEF CatRead
  <2>2. fptr' \in 0 .. size
    <3>1. CASE fptr' = fptr
      BY <3>1 DEF Basics
    <3>2. ASSUME ~AtEnd, NEW r \in FRead(CatChunk), fptr' = fptr + r.n PROVE fptr' \in 0 .. size
      <4>1. r.n \in 0 .. size - fptr
        BY <3>2, ReadIs
      <4> QED BY <3>2, <4>1 DEF Basics
    <3> QED BY <1>5, <3>1, <3>2 DEF CatRead
  <2>3. Basics'
    BY <2>1, <2>2 DEF Basics
  <2> QED BY <2>1, <2>3 DEF StreamInv
<1> QED BY <1>1, <1>2, <1>3, <1>4, <1>5 DEF Next, Step

(* Whatever a script and however it is laid over sectors and clusters, its *)
(* lines are executed whole and in order, as far as reads succeed          *)
(* (rsl_execute_stream).                                                   *)
THEOREM StreamsTheScriptHolds ==
  ASSUME ReaderAssumption
  PROVE  Spec => []StreamsTheScript
<1> DEFINE Inv == Basics /\ StreamInv
<1>1. Init => Inv
  BY StreamInit
<1>2. Inv /\ [Next]_vars => Inv'
  BY StreamStep
<1>3. Inv => StreamsTheScript
  BY DEF StreamInv, Recorded, StreamsTheScript
<1> QED BY <1>1, <1>2, <1>3, PTL DEF Spec

-----------------------------------------------------------------------------
(* cat. What it has printed is the beginning of the file, and its next     *)
(* read begins in the cluster it is left in, if it begins at the start of  *)
(* a sector or fewer than SectorSize whole chunks after one.               *)
Count(k) == [i \in 1 .. k |-> i - 1]
Reached == \E m \in Nat, j \in 0 .. SectorSize - 1 : fptr = m * SectorSize + j * CatChunk
CatBound == kind = "cat" /\ CatChunk = SectorSize - 1 /\ size < CatChunk * SectorSize
CatInv ==
  CatBound => /\ out = Count(fptr)
              /\ ~AtEnd /\ clust # EOC => clust = fptr \div ClusterSize /\ Reached

LEMMA CountIs == ASSUME NEW k \in Nat PROVE Count(k) \in Seq(Int) /\ Len(Count(k)) = k
BY DEF Count

(* The links followed lead to the cluster of the byte.                     *)
LEMMA ClusterOfIs ==
  ASSUME ReaderAssumption, fptr \in Nat, clust = fptr \div ClusterSize, NEW k \in Nat
  PROVE  ClusterOf(k) = (fptr + k) \div ClusterSize
<1>1. ClusterSize \in Nat \ {0}
  BY ClusterIs
<1>2. PICK a \in Nat : a = fptr \div ClusterSize
  BY <1>1, Divided
<1>3. PICK p \in Nat : p = fptr + k
  OBVIOUS
<1>4. PICK b \in Nat : b = p \div ClusterSize
  BY <1>1, Divided
<1>5. ClusterOf(k) = a + b - a
  BY <1>2, <1>3, <1>4, Zenon DEF ClusterOf
<1>6. a + b - a = b
  OBVIOUS
<1> QED BY <1>3, <1>4, <1>5, <1>6

LEMMA BytesAre ==
  ASSUME ReaderAssumption, fptr \in Nat, clust = fptr \div ClusterSize, NEW n \in Nat
  PROVE  Bytes(n) \in Seq(Int) /\ Len(Bytes(n)) = n /\ \A i \in 1 .. n : Bytes(n)[i] = fptr + i - 1
<1>1. ASSUME NEW i \in 1 .. n
      PROVE  ClusterOf(i - 1) * ClusterSize + ((fptr + i - 1) % ClusterSize) = fptr + i - 1 /\ fptr + i - 1 \in Int
  <2>1. PICK p \in Nat : p = fptr + i - 1 /\ p = fptr + (i - 1) /\ i - 1 \in Nat
    OBVIOUS
  <2>2. ClusterOf(i - 1) = p \div ClusterSize
    BY <2>1, ClusterOfIs
  <2>3. PICK q \in Nat, r \in 0 .. ClusterSize - 1 : q = p \div ClusterSize /\ r = p % ClusterSize /\ p = q * ClusterSize + r
    BY ClusterIs, Divided
  <2>4. ClusterOf(i - 1) * ClusterSize + (p % ClusterSize) = p
    BY <2>2, <2>3, Zenon
  <2> QED BY <2>1, <2>4
<1>2. PICK t : t = Bytes(n)
  OBVIOUS
<1>3. t = [i \in 1 .. n |-> ClusterOf(i - 1) * ClusterSize + ((fptr + i - 1) % ClusterSize)]
  BY <1>2 DEF Bytes
<1>4. t = [i \in 1 .. n |-> fptr + i - 1]
  BY <1>1, <1>3, Zenon
<1>5. t \in Seq(Int) /\ Len(t) = n /\ \A i \in 1 .. n : t[i] = fptr + i - 1
  BY <1>4
<1> QED BY <1>2, <1>5

LEMMA OutIs ==
  ASSUME NEW k \in Nat, NEW n \in Nat, NEW t \in Seq(Int), Len(t) = n, \A i \in 1 .. n : t[i] = k + i - 1
  PROVE  Count(k) \o t = Count(k + n)
<1>1. PICK u : u = Count(k) \o t
  OBVIOUS
<1>2. PICK s \in Seq(Int) : s = Count(k) /\ Len(s) = k /\ \A i \in 1 .. k : s[i] = i - 1
  <2>1. \A i \in 1 .. k : Count(k)[i] = i - 1
    BY DEF Count
  <2> QED BY <2>1, CountIs
<1>3. u \in Seq(Int) /\ Len(u) = k + n /\ \A i \in 1 .. k + n : u[i] = IF i <= k THEN s[i] ELSE t[i - k]
  BY <1>1, <1>2, ConcatProperties
<1>4. ASSUME NEW i \in 1 .. k + n PROVE u[i] = i - 1
  <2>1. CASE i <= k
    BY <1>2, <1>3, <2>1
  <2>2. CASE i > k
    <3>1. PICK j \in 1 .. n : j = i - k /\ k + j - 1 = i - 1
      BY <2>2
    <3>2. u[i] = t[j]
      BY <1>3, <2>2, <3>1
    <3> QED BY <3>1, <3>2
  <2> QED BY <2>1, <2>2
<1>5. PICK v \in Seq(Int) : v = Count(k + n) /\ Len(v) = k + n /\ \A i \in 1 .. k + n : v[i] = i - 1
  <2>1. \A i \in 1 .. k + n : Count(k + n)[i] = i - 1
    BY DEF Count
  <2> QED BY <2>1, CountIs
<1>6. u = v
  <2>1. Len(u) = Len(v) /\ \A i \in 1 .. Len(u) : u[i] = v[i]
    BY <1>3, <1>4, <1>5
  <2> QED BY <1>3, <1>5, <2>1, SeqEqual
<1> QED BY <1>1, <1>5, <1>6

(* J whole chunks after a sector, with J from 1 to SectorSize - 1, no      *)
(* sector ends.                                                            *)
LEMMA NoSectorEnd ==
  ASSUME NEW S \in Nat \ {0}, NEW m \in Nat, NEW j \in 1 .. S - 1, NEW z \in Nat
  PROVE  m * S + j * (S - 1) # z * S
<1> SUFFICES ASSUME m * S + j * (S - 1) = z * S PROVE FALSE
  OBVIOUS
<1>1. j * (S - 1) = j * S - j
  BY Z3
<1>2. PICK a \in Int : a = (m + j) * S /\ a = m * S + j * S
  <2>1. (m + j) * S = m * S + j * S /\ (m + j) * S \in Int
    BY Z3
  <2> QED BY <2>1
<1>3. PICK ms \in Int, js \in Int, zs \in Int : ms = m * S /\ js = j * S /\ zs = z * S
  <2>1. m * S \in Int /\ j * S \in Int /\ z * S \in Int
    BY Z3
  <2> QED BY <2>1
<1>4. a - j = zs
  <2>1. ms + (js - j) = zs
    BY <1>1, <1>3
  <2> QED BY <1>2, <1>3, <2>1
<1>5. CASE m + j <= z
  <2>1. PICK d \in Nat : z = m + j + d
    <3>1. z - (m + j) \in Nat /\ z = m + j + (z - (m + j))
      BY <1>5
    <3> QED BY <3>1
  <2>2. z * S = (m + j) * S + d * S /\ d * S \in Nat
    <3>1. (m + j + d) * S = (m + j) * S + d * S /\ d * S \in Nat
      BY Z3
    <3> QED BY <2>1, <3>1
  <2> QED BY <1>2, <1>3, <1>4, <2>2
<1>6. CASE m + j > z
  <2>1. PICK d \in Nat : m + j = z + 1 + d
    <3>1. m + j - (z + 1) \in Nat /\ m + j = z + 1 + (m + j - (z + 1))
      BY <1>6
    <3> QED BY <3>1
  <2>2. (m + j) * S = z * S + S + d * S /\ d * S \in Nat
    <3>1. (z + 1 + d) * S = z * S + S + d * S /\ d * S \in Nat
      BY Z3
    <3> QED BY <2>1, <3>1
  <2> QED BY <1>2, <1>3, <1>4, <2>2
<1> QED BY <1>5, <1>6

(* A byte at which no sector begins lies in the cluster of the one before. *)
LEMMA SameCluster ==
  ASSUME ReaderAssumption, NEW p \in Nat, \A z \in Nat : p + 1 # z * SectorSize
  PROVE  (p + 1) \div ClusterSize = p \div ClusterSize
<1>1. ClusterSize \in Nat \ {0} /\ SectorSize \in Nat \ {0} /\ SectorsPerCluster \in Nat \ {0}
  BY ClusterIs DEF ReaderAssumption
<1>2. PICK q \in Nat, r \in 0 .. ClusterSize - 1 : q = p \div ClusterSize /\ r = p % ClusterSize /\ p = q * ClusterSize + r
  BY <1>1, Divided
<1>3. CASE r = ClusterSize - 1
  <2>1. PICK c1 \in Nat : c1 = q * ClusterSize
    <3>1. q * ClusterSize \in Nat
      BY <1>1, Z3
    <3> QED BY <3>1
  <2>2. (q + 1) * ClusterSize = q * ClusterSize + ClusterSize
    BY <1>1, Z3
  <2>3. p + 1 = (q + 1) * ClusterSize
    BY <1>1, <1>2, <1>3, <2>1, <2>2
  <2>4. (q + 1) * (SectorSize * SectorsPerCluster) = ((q + 1) * SectorsPerCluster) * SectorSize
        /\ (q + 1) * SectorsPerCluster \in Nat
    BY <1>1, Z3
  <2> QED BY <2>3, <2>4 DEF ClusterSize
<1>4. CASE r + 1 \in 0 .. ClusterSize - 1
  <2>1. PICK c1 \in Nat : c1 = q * ClusterSize
    <3>1. q * ClusterSize \in Nat
      BY <1>1, Z3
    <3> QED BY <3>1
  <2>2. p + 1 = q * ClusterSize + (r + 1)
    BY <1>2, <2>1
  <2>3. (p + 1) \div ClusterSize = q
    <3>1. PICK e \in Nat : e = p + 1
      OBVIOUS
    <3>2. PICK d \in 0 .. ClusterSize - 1 : d = r + 1
      BY <1>4
    <3>3. e = q * ClusterSize + d
      BY <2>2, <3>1, <3>2
    <3> QED BY <1>1, <3>1, <3>3, QuotientIs
  <2> QED BY <1>2, <2>3
<1> QED BY <1>1, <1>2, <1>3, <1>4

(* One turn of the loop of cat. A whole chunk keeps to the count of        *)
(* chunks, a read that fails starts it again at the sector where it fails. *)
LEMMA CatStep ==
  ASSUME ReaderAssumption, Basics, CatBound, CatInv, ~AtEnd, NEW r \in FRead(CatChunk),
         fptr' = fptr + r.n, clust' = r.clust, out' = out \o Bytes(r.n), size' = size
  PROVE  out' = Count(fptr') /\ (~AtEnd' /\ clust' # EOC => clust' = fptr' \div ClusterSize /\ Reached')
<1>1. /\ fptr \in Nat /\ size \in Nat /\ fptr < size /\ SectorSize \in Nat \ {0}
      /\ CatChunk \in Nat \ {0} /\ CatChunk = SectorSize - 1 /\ ClusterSize \in Nat \ {0}
  BY ClusterIs DEF Basics, AtEnd, ReaderAssumption, CatBound
<1>2. out = Count(fptr) /\ (clust # EOC => clust = fptr \div ClusterSize /\ Reached)
  BY DEF CatInv
<1>3. r.n \in 0 .. size - fptr
  BY ReadIs
<1>4. CASE clust = EOC
  <2>1. r.n = 0 /\ clust' = EOC
    BY <1>4 DEF FRead
  <2>2. PICK t : t = Bytes(0)
    OBVIOUS
  <2>3. t \in Seq(Int) /\ Len(t) = 0
    BY <2>2 DEF Bytes
  <2>4. out \o t = Count(fptr + 0)
    <3>1. PICK z \in Nat : z = 0
      OBVIOUS
    <3>2. PICK p \in Nat : p = fptr
      BY <1>1
    <3>3. Len(t) = z /\ \A i \in 1 .. z : t[i] = p + i - 1
      BY <2>3, <3>1
    <3>4. Count(p) \o t = Count(p + z)
      BY <2>3, <3>3, OutIs
    <3> QED BY <1>2, <3>1, <3>2, <3>4
  <2>5. fptr + 0 = fptr
    BY <1>1
  <2> QED BY <2>1, <2>2, <2>4, <2>5
<1>5. CASE clust # EOC
  <2>1. PICK k \in Nat : k = r.n
    BY <1>1, <1>3
  <2>2. out' = Count(fptr')
    <3>1. PICK t \in Seq(Int) : t = Bytes(k) /\ Len(t) = k /\ \A i \in 1 .. k : t[i] = fptr + i - 1
      BY <1>1, <1>2, <1>5, BytesAre
    <3>2. Count(fptr) \o t = Count(fptr + k)
      BY <1>1, <3>1, OutIs
    <3> QED BY <1>2, <2>1, <3>1, <3>2
  <2> DEFINE n == IF CatChunk > size - fptr THEN size - fptr ELSE CatChunk
  <2>3. n \in 1 .. size - fptr /\ n <= CatChunk /\ (n = size - fptr \/ n = CatChunk)
    BY <1>1
  <2>4. \/ k = n /\ clust' = ClusterOf(n - 1)
        \/ k \in 0 .. n - 1 /\ (k = 0 \/ (fptr + k) % SectorSize = 0) /\ clust' = ClusterOf(k)
        \/ clust' = EOC
    BY <1>5, <2>1 DEF FRead
  <2> HIDE DEF n
  <2>5. CASE k = n /\ clust' = ClusterOf(n - 1)
    <3>1. CASE n = size - fptr
      <4>1. AtEnd'
        BY <1>1, <2>1, <2>3, <2>5, <3>1 DEF AtEnd
      <4> QED BY <2>2, <4>1
    <3>2. CASE n = CatChunk /\ fptr + CatChunk < size
      <4>1. PICK m \in Nat, j \in 0 .. SectorSize - 1 : fptr = m * SectorSize + j * CatChunk
        BY <1>2, <1>5 DEF Reached
      <4>2. PICK ms \in Nat, jc \in Nat : ms = m * SectorSize /\ jc = j * CatChunk
        <5>1. m * SectorSize \in Nat /\ j * CatChunk \in Nat
          BY <1>1, Z3
        <5> QED BY <5>1
      <4>3. (j + 1) * CatChunk = j * CatChunk + CatChunk
        BY <1>1, Z3
      <4>4. fptr + CatChunk = m * SectorSize + (j + 1) * CatChunk
        BY <1>1, <4>1, <4>2, <4>3
      <4>5. j + 1 \in 1 .. SectorSize - 1
        <5>1. (j + 1) * CatChunk < SectorSize * CatChunk
          <6>1. size < SectorSize * CatChunk
            <7>1. CatChunk * SectorSize = SectorSize * CatChunk
              BY <1>1, Z3
            <7> QED BY <7>1 DEF CatBound
          <6>2. PICK b \in Nat : b = SectorSize * CatChunk
            <7>1. SectorSize * CatChunk \in Nat
              BY <1>1, Z3
            <7> QED BY <7>1
          <6> QED BY <1>1, <3>2, <4>1, <4>2, <4>3, <6>1, <6>2
        <5>2. j + 1 < SectorSize
          BY <1>1, <5>1, Grows
        <5> QED BY <1>1, <5>2
      <4>6. \A z \in Nat : fptr + CatChunk # z * SectorSize
        <5>1. \A z \in Nat : m * SectorSize + (j + 1) * (SectorSize - 1) # z * SectorSize
          BY <1>1, <4>5, NoSectorEnd
        <5> QED BY <1>1, <4>4, <5>1
      <4>7. PICK p \in Nat : p = fptr + (CatChunk - 1) /\ p + 1 = fptr + CatChunk /\ CatChunk - 1 \in Nat
        BY <1>1
      <4>8. (p + 1) \div ClusterSize = p \div ClusterSize
        BY <4>6, <4>7, SameCluster
      <4>9. clust' = p \div ClusterSize
        BY <1>1, <1>2, <1>5, <2>5, <3>2, <4>7, ClusterOfIs
      <4>10. fptr' = p + 1
        BY <2>1, <2>5, <3>2, <4>7
      <4>11. Reached'
        <5>1. fptr' = m * SectorSize + (j + 1) * CatChunk /\ j + 1 \in 0 .. SectorSize - 1
          BY <4>4, <4>5, <4>7, <4>10
        <5> QED BY <5>1 DEF Reached
      <4> QED BY <2>2, <4>8, <4>9, <4>10, <4>11
    <3> QED BY <1>1, <2>3, <3>1, <3>2
  <2>6. CASE k \in 0 .. n - 1 /\ (k = 0 \/ (fptr + k) % SectorSize = 0) /\ clust' = ClusterOf(k)
    <3>1. PICK p \in Nat : p = fptr + k /\ p = fptr'
      BY <1>1, <2>1
    <3>2. clust' = p \div ClusterSize
      BY <1>1, <1>2, <1>5, <2>6, <3>1, ClusterOfIs
    <3>3. CASE k = 0
      <4>1. fptr' = fptr
        BY <1>1, <3>1, <3>3
      <4>2. Reached'
        BY <1>2, <1>5, <4>1 DEF Reached
      <4> QED BY <2>2, <3>1, <3>2, <4>2
    <3>4. CASE p % SectorSize = 0
      <4>1. PICK q \in Nat, b \in 0 .. SectorSize - 1 : q = p \div SectorSize /\ b = p % SectorSize /\ p = q * SectorSize + b
        BY <1>1, Divided
      <4>2. p = q * SectorSize + 0 * CatChunk
        <5>1. q * SectorSize \in Nat /\ 0 * CatChunk = 0
          BY <1>1, Z3
        <5> QED BY <3>4, <4>1, <5>1
      <4>3. Reached'
        <5>1. 0 \in 0 .. SectorSize - 1
          BY <1>1
        <5> QED BY <3>1, <4>2, <5>1 DEF Reached
      <4> QED BY <2>2, <3>1, <3>2, <4>3
    <3> QED BY <2>6, <3>1, <3>3, <3>4
  <2>7. CASE clust' = EOC
    <3>1. EOC' = EOC
      BY DEF EOC
    <3> QED BY <2>2, <2>7, <3>1
  <2> QED BY <2>4, <2>5, <2>6, <2>7
<1> QED BY <1>4, <1>5

LEMMA CatStays ==
  ASSUME ReaderAssumption, Basics, CatInv, [Next]_vars
  PROVE  CatInv'
<1>1. SUFFICES ASSUME CatBound' PROVE CatInv'
  BY DEF CatInv
<1>2. kind' = kind /\ size' = size
  BY DEF Next, Step, CatRead, StreamWalkEnds, StreamByte, StreamAtEnd, vars
<1>3. CatBound
  BY <1>1, <1>2 DEF CatBound
<1>4. CASE fptr' = fptr /\ clust' = clust /\ out' = out
  BY <1>2, <1>3, <1>4 DEF CatInv, AtEnd, Reached, CatBound, EOC
<1>5. ASSUME ~AtEnd, NEW r \in FRead(CatChunk), fptr' = fptr + r.n, clust' = r.clust, out' = out \o Bytes(r.n)
      PROVE  CatInv'
  <2>1. out' = Count(fptr') /\ (~AtEnd' /\ clust' # EOC => clust' = fptr' \div ClusterSize /\ Reached')
    BY <1>2, <1>3, <1>5, CatStep
  <2> QED BY <2>1 DEF CatInv, Count, EOC, ClusterSize
<1>6. CASE CatRead
  BY <1>4, <1>5, <1>6 DEF CatRead
<1>7. CASE UNCHANGED vars
  BY <1>4, <1>7 DEF vars
<1>8. ~StreamWalkEnds /\ ~StreamByte /\ ~StreamAtEnd
  BY <1>3 DEF CatBound, StreamWalkEnds, StreamByte, StreamAtEnd
<1> QED BY <1>6, <1>7, <1>8 DEF Next, Step

LEMMA CatInit == ASSUME ReaderAssumption, Init PROVE CatInv
<1>1. fptr = 0 /\ clust = 0 /\ out = <<>>
  BY DEF Init
<1>2. out = Count(fptr)
  <2>1. Count(0) \in Seq(Int) /\ Len(Count(0)) = 0
    BY CountIs
  <2>2. Count(0) = <<>>
    BY <2>1, EmptySeq
  <2> QED BY <1>1, <2>2
<1>3. SectorSize \in Nat \ {0} /\ ClusterSize \in Nat \ {0}
  BY ClusterIs DEF ReaderAssumption
<1>4. 0 \div ClusterSize = 0
  <2>1. 0 = 0 * ClusterSize + 0 /\ 0 \in 0 .. ClusterSize - 1
    BY <1>3, Z3
  <2> QED BY <1>3, <2>1, QuotientIs
<1>5. Reached
  <2>1. fptr = 0 * SectorSize + 0 * CatChunk
    <3>1. 0 * SectorSize = 0 /\ 0 * CatChunk = 0
      BY <1>3, Z3 DEF ReaderAssumption
    <3> QED BY <1>1, <3>1
  <2>2. 0 \in 0 .. SectorSize - 1
    BY <1>3
  <2> QED BY <2>1, <2>2 DEF Reached
<1> QED BY <1>1, <1>2, <1>4, <1>5 DEF CatInv

(* Whatever reads fail, cat prints the file from its beginning without a   *)
(* gap, in chunks of one byte less than a sector (internal_fs_cat).        *)
THEOREM CatPrintsFileHolds ==
  ASSUME ReaderAssumption
  PROVE  Spec => []CatPrintsFile
<1> DEFINE Inv == Basics /\ StreamInv /\ CatInv
<1>1. Init => Inv
  BY StreamInit, CatInit
<1>2. Inv /\ [Next]_vars => Inv'
  BY StreamStep, CatStays
<1>3. Inv => CatPrintsFile
  BY DEF CatInv, CatBound, CatPrintsFile, Count
<1> QED BY <1>1, <1>2, <1>3, PTL DEF Spec

=============================================================================
