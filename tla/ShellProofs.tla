---------------------------- MODULE ShellProofs ----------------------------
(***************************************************************************)
(* Theorems about Shell, for any drives, nodes and arguments: the current  *)
(* directory always leads to a volume or is the global root, cd .. takes   *)
(* back a cd, and a command changes names only where its path points.      *)
(***************************************************************************)
EXTENDS Shell, SequenceTheorems, WellFoundedInduction, TLAPS

(* The literals are strings, which the provers have to be told.            *)
Tokens == STRING \cup {"/", "", "x"}
Words == Seq(Tokens)
Paths == Words \ {<<>>}
-----------------------------------------------------------------------------
(* What holds of 0 and, with each number below n, of the next, holds up to *)
(* n: otherwise it would fail first somewhere.                             *)
LEMMA UpTo ==
  ASSUME NEW n \in Nat, NEW S \in SUBSET (0 .. n), 0 \in S,
         \A k \in 0 .. n - 1 : k \in S => k + 1 \in S
  PROVE  S = 0 .. n
<1> SUFFICES ASSUME S # 0 .. n PROVE FALSE
  OBVIOUS
<1> DEFINE rest == (0 .. n) \ S
           Less == {p \in Nat \X Nat : p[1] < p[2]}
<1>1. rest \in SUBSET Nat /\ rest # {}
  <2>1. \E i \in 0 .. n : i \notin S
    BY Zenon
  <2> QED BY <2>1
<1>2. IsWellFoundedOn(Less, Nat)
  <2>1. Less = OpToRel(<, Nat)
    BY Zenon DEF OpToRel
  <2> QED BY <2>1, NatLessThanWellFounded
<1>3. \A i, j \in Nat : <<j, i>> \in Less <=> j < i
  OBVIOUS
<1> HIDE DEF Less
<1>4. PICK i \in rest : \A j \in rest : ~ (<<j, i>> \in Less)
  BY <1>1, <1>2, WFMin
<1>5. i \in 1 .. n
  BY <1>4
<1>6. i - 1 \in S
  <2>1. i - 1 \in 0 .. n /\ i - 1 < i /\ i - 1 \in Nat /\ i \in Nat
    BY <1>5
  <2>2. <<i - 1, i>> \in Less
    BY <1>3, <2>1
  <2> QED BY <1>4, <2>1, <2>2
<1>7. i - 1 + 1 = i /\ i - 1 \in 0 .. n - 1
  BY <1>5
<1> QED BY <1>4, <1>6, <1>7

(* A set of numbers up to n has a last one: the first distance from n.     *)
LEMMA LastExists ==
  ASSUME NEW n \in Nat, NEW T \in SUBSET (1 .. n), T # {}
  PROVE  \E k \in T : \A j \in T : j <= k
<1> DEFINE A == {i \in 0 .. n : \A j \in T : j <= n - i}
<1>1. SUFFICES ASSUME ~ \E k \in T : \A j \in T : j <= k PROVE FALSE
  OBVIOUS
<1>2. 0 \in A
  OBVIOUS
<1>3. ASSUME NEW i \in 0 .. n - 1, i \in A PROVE i + 1 \in A
  <2>1. n - i \notin T
    BY <1>1, <1>3
  <2>2. ASSUME NEW j \in T PROVE j <= n - (i + 1)
    BY <1>3, <2>1
  <2> QED BY <2>2
<1> HIDE DEF A
<1>4. A = 0 .. n
  <2>1. A \in SUBSET (0 .. n)
    BY DEF A
  <2> QED BY <1>2, <1>3, <2>1, UpTo
<1>5. n \in A
  BY <1>4
<1>6. PICK j \in T : j \in 1 .. n /\ j <= n - n
  BY <1>5 DEF A
<1> QED BY <1>6

-----------------------------------------------------------------------------
(* Prefixes. *)
LEMMA PrefixIs ==
  ASSUME NEW s \in Words, NEW t \in Words
  PROVE  IsPrefix(s, t) <=> Len(s) <= Len(t) /\ \A i \in 1 .. Len(s) : s[i] = t[i]
<1>1. Len(s) \in Nat /\ Len(t) \in Nat
  BY DEF Words
<1>2. SubSeq(s, 1, Len(s)) = s
  BY SubSeqFull DEF Words
<1>3. ASSUME Len(s) <= Len(t)
      PROVE  /\ SubSeq(t, 1, Len(s)) \in Words /\ Len(SubSeq(t, 1, Len(s))) = Len(s)
             /\ \A i \in 1 .. Len(s) : SubSeq(t, 1, Len(s))[i] = t[i]
  <2> DEFINE n == Len(s)
             u == SubSeq(t, 1, n)
  <2>1. \A i \in 1 .. n : t[i] \in Tokens
    BY <1>1, <1>3 DEF Words
  <2> HIDE DEF n
  <2>2. n \in Nat
    BY <1>1 DEF n
  <2>3. u \in Seq(Tokens) /\ Len(u) = (IF 1 <= n THEN n - 1 + 1 ELSE 0) /\ \A i \in 1 .. n - 1 + 1 : u[i] = t[1 + i - 1]
    BY <2>1, <2>2, SubSeqProperties
  <2>4. n - 1 + 1 = n /\ \A i \in 1 .. n : 1 + i - 1 = i
    BY <2>2
  <2> HIDE DEF u
  <2>5. Len(u) = n /\ \A i \in 1 .. n : u[i] = t[i]
    BY <2>2, <2>3, <2>4
  <2> QED BY <2>3, <2>5 DEF n, u, Words
<1>4. ASSUME Len(s) <= Len(t) PROVE s = SubSeq(t, 1, Len(s)) <=> \A i \in 1 .. Len(s) : s[i] = t[i]
  <2>1. PICK u \in Words : u = SubSeq(t, 1, Len(s)) /\ Len(u) = Len(s) /\ \A i \in 1 .. Len(s) : u[i] = t[i]
    BY <1>3, <1>4
  <2>2. s = u <=> \A i \in 1 .. Len(s) : s[i] = u[i]
    BY <2>1, SeqEqual DEF Words
  <2> QED BY <2>1, <2>2
<1> QED BY <1>2, <1>4 DEF IsPrefix

LEMMA PrefixTrans ==
  ASSUME NEW s \in Words, NEW t \in Words, NEW u \in Words, IsPrefix(s, t), IsPrefix(t, u)
  PROVE  IsPrefix(s, u)
<1>1. Len(s) \in Nat /\ Len(t) \in Nat /\ Len(u) \in Nat
  BY DEF Words
<1>2. Len(s) <= Len(t) /\ \A i \in 1 .. Len(s) : s[i] = t[i]
  BY PrefixIs
<1>3. Len(t) <= Len(u) /\ \A i \in 1 .. Len(t) : t[i] = u[i]
  BY PrefixIs
<1>4. Len(s) <= Len(u) /\ \A i \in 1 .. Len(s) : s[i] = u[i]
  BY <1>1, <1>2, <1>3
<1> QED BY <1>4, PrefixIs

LEMMA PrefixSame == ASSUME NEW s \in Words PROVE IsPrefix(s, s)
<1>1. Len(s) \in Nat
  BY DEF Words
<1> QED BY <1>1, PrefixIs

LEMMA AppendIs ==
  ASSUME NEW s \in Words, NEW e \in Tokens
  PROVE  /\ Append(s, e) \in Paths /\ Len(Append(s, e)) = Len(s) + 1 /\ Len(s) \in Nat
         /\ \A i \in 1 .. Len(s) : Append(s, e)[i] = s[i]
         /\ Append(s, e)[Len(s) + 1] = e
<1>1. s \in Seq(Tokens)
  BY DEF Words
<1>2. Len(s) \in Nat
  BY <1>1
<1>3. Append(s, e) \in Seq(Tokens)
  BY <1>1, AppendProperties
<1>4. Append(s, e) # <<>>
  BY <1>1, AppendProperties
<1>5. Append(s, e) \in Paths
  BY <1>3, <1>4 DEF Words, Paths
<1>6. Len(Append(s, e)) = Len(s) + 1
  BY <1>1, AppendProperties
<1>7. ASSUME NEW i \in 1 .. Len(s) PROVE Append(s, e)[i] = s[i]
  BY <1>1, AppendProperties
<1>8. Append(s, e)[Len(s) + 1] = e
  BY <1>1, AppendProperties
<1> QED BY <1>2, <1>5, <1>6, <1>7, <1>8, Zenon

LEMMA PrefixAppend == ASSUME NEW s \in Words, NEW e \in Tokens PROVE IsPrefix(s, Append(s, e))
<1>1. PICK t \in Words : t = Append(s, e)
  BY AppendIs, Zenon DEF Paths
<1>2. Len(t) = Len(s) + 1 /\ Len(s) \in Nat /\ \A i \in 1 .. Len(s) : t[i] = s[i]
  BY <1>1, AppendIs, Zenon
<1>3. Len(s) <= Len(t) /\ \A i \in 1 .. Len(s) : s[i] = t[i]
  BY <1>2
<1> QED BY <1>1, <1>3, PrefixIs

LEMMA FrontIs == ASSUME NEW s \in Paths PROVE Front(s) \in Words /\ IsPrefix(Front(s), s)
<1>1. s \in Seq(Tokens) /\ s # <<>>
  BY DEF Paths, Words
<1>2. PICK n \in Nat : Len(s) = n + 1
  <2>1. Len(s) \in Nat \ {0}
    BY <1>1, EmptySeq
  <2>2. Len(s) - 1 \in Nat /\ Len(s) = Len(s) - 1 + 1
    BY <2>1
  <2> QED BY <2>2
<1>3. PICK t : t = Front(s)
  OBVIOUS
<1>4. t = SubSeq(s, 1, n)
  <2>1. n + 1 - 1 = n
    OBVIOUS
  <2> QED BY <1>2, <1>3, <2>1 DEF Front
<1>5. \A i \in 1 .. n : s[i] \in Tokens
  BY <1>1, <1>2
<1>6. t \in Seq(Tokens) /\ Len(t) = (IF 1 <= n THEN n - 1 + 1 ELSE 0) /\ \A i \in 1 .. n - 1 + 1 : t[i] = s[1 + i - 1]
  BY <1>4, <1>5, SubSeqProperties
<1>7. n - 1 + 1 = n /\ \A i \in 1 .. n : 1 + i - 1 = i
  OBVIOUS
<1>8. Len(t) = n /\ \A i \in 1 .. n : t[i] = s[i]
  BY <1>6, <1>7
<1>9. t \in Words /\ s \in Words
  BY <1>1, <1>6 DEF Words
<1> QED BY <1>2, <1>3, <1>8, <1>9, PrefixIs

LEMMA FrontOfAppend == ASSUME NEW s \in Words, NEW e \in Tokens PROVE Front(Append(s, e)) = s
<1>1. IsPrefix(s, Append(s, e))
  BY PrefixAppend
<1>2. Front(Append(s, e)) = SubSeq(Append(s, e), 1, Len(s))
  <2>1. PICK n \in Nat : n = Len(s)
    BY AppendIs
  <2>2. Len(Append(s, e)) = n + 1
    BY <2>1, AppendIs, Zenon
  <2>3. Len(Append(s, e)) - 1 = n
    BY <2>2
  <2> QED BY <2>1, <2>3, Zenon DEF Front
<1>3. s = SubSeq(Append(s, e), 1, Len(s))
  <2>1. SubSeq(s, 1, Len(s)) = s
    BY SubSeqFull DEF Words
  <2> QED BY <1>1, <2>1, Zenon DEF IsPrefix
<1> QED BY <1>2, <1>3, Zenon

LEMMA ConcatIs ==
  ASSUME NEW s \in Paths, NEW t \in Paths
  PROVE  /\ s \o t \in Paths /\ Len(s \o t) = Len(s) + Len(t)
         /\ Len(s) \in Nat \ {0} /\ Len(t) \in Nat \ {0}
         /\ \A i \in 1 .. Len(s) : (s \o t)[i] = s[i]
         /\ \A i \in 1 .. Len(t) : (s \o t)[Len(s) + i] = t[i]
<1>1. s \in Seq(Tokens) /\ t \in Seq(Tokens) /\ s # <<>> /\ t # <<>>
  BY DEF Paths, Words
<1>2. Len(s) \in Nat \ {0} /\ Len(t) \in Nat \ {0}
  BY <1>1, EmptySeq
<1>3. PICK u : u = s \o t
  OBVIOUS
<1>4. u \in Seq(Tokens) /\ Len(u) = Len(s) + Len(t)
      /\ \A i \in 1 .. Len(s) + Len(t) : u[i] = IF i <= Len(s) THEN s[i] ELSE t[i - Len(s)]
  <2>1. \A W : \A x, y \in Seq(W) :
          /\ x \o y \in Seq(W) /\ Len(x \o y) = Len(x) + Len(y)
          /\ \A i \in 1 .. Len(x) + Len(y) : (x \o y)[i] = IF i <= Len(x) THEN x[i] ELSE y[i - Len(x)]
    BY ConcatProperties
  <2> QED BY <1>1, <1>3, <2>1, Zenon
<1>5. PICK m \in Nat \ {0}, n \in Nat \ {0} : m = Len(s) /\ n = Len(t)
  BY <1>2
<1>6. \A i \in 1 .. m : i \in 1 .. m + n /\ i <= m
  OBVIOUS
<1>7. \A i \in 1 .. n : m + i \in 1 .. m + n /\ ~(m + i <= m) /\ m + i - m = i
  OBVIOUS
<1>a. \A i \in 1 .. m + n : u[i] = IF i <= m THEN s[i] ELSE t[i - m]
  BY <1>4, <1>5
<1>8. \A i \in 1 .. m : u[i] = s[i]
  BY <1>a, <1>6, Zenon
<1>9. ASSUME NEW i \in 1 .. n PROVE u[m + i] = t[i]
  <2>1. PICK k \in 1 .. m + n : k = m + i /\ ~(k <= m) /\ k - m = i
    BY <1>7
  <2>2. u[k] = t[k - m]
    BY <1>a, <2>1, Zenon
  <2> QED BY <2>1, <2>2, Zenon
<1>10. u # <<>>
  <2>1. m + n # 0
    OBVIOUS
  <2> QED BY <1>4, <1>5, <2>1
<1> QED BY <1>2, <1>3, <1>4, <1>5, <1>8, <1>9, <1>10, Zenon DEF Paths, Words

-----------------------------------------------------------------------------
(* Collecting the names of a path, token by token. *)
Take(s, e) == IF e \in {":", "/"} THEN s ELSE Append(s, e)
Collects(t, n) ==
  {f \in [0 .. n -> Words] : f[0] = <<>> /\ \A k \in 0 .. n - 1 : f[k + 1] = Take(f[k], t[k + 1])}

LEMMA TakeIs == ASSUME NEW s \in Words, NEW e \in Tokens PROVE Take(s, e) \in Words /\ IsPrefix(s, Take(s, e))
<1>1. CASE e \in {":", "/"}
  BY <1>1, PrefixSame DEF Take
<1>2. CASE e \notin {":", "/"}
  BY <1>2, AppendIs, PrefixAppend, Zenon DEF Take, Paths
<1> QED BY <1>1, <1>2

LEMMA CollectionExists ==
  ASSUME NEW t \in Words, NEW n \in 0 .. Len(t)
  PROVE  Collects(t, n) # {}
<1> DEFINE S == {k \in 0 .. n : Collects(t, k) # {}}
<1>0. Len(t) \in Nat /\ n \in Nat
  BY DEF Words
<1>1. 0 \in S
  <2>1. <<>> \in Words
    BY DEF Words
  <2>2. [k \in 0 .. 0 |-> <<>>] \in Collects(t, 0)
    BY <2>1 DEF Collects
  <2> QED BY <1>0, <2>2
<1>2. ASSUME NEW m \in 0 .. n - 1, m \in S PROVE m + 1 \in S
  <2>1. PICK f \in Collects(t, m) : TRUE
    BY <1>2
  <2> DEFINE g == [k \in 0 .. m + 1 |-> IF k = m + 1 THEN Take(f[m], t[m + 1]) ELSE f[k]]
  <2>2. f \in [0 .. m -> Words] /\ f[0] = <<>> /\ \A k \in 0 .. m - 1 : f[k + 1] = Take(f[k], t[k + 1])
    BY <2>1 DEF Collects
  <2>3. f[m] \in Words /\ t[m + 1] \in Tokens
    BY <1>0, <2>2 DEF Words
  <2>4. g \in [0 .. m + 1 -> Words]
    <3>1. Take(f[m], t[m + 1]) \in Words
      BY <2>3, TakeIs
    <3>2. ASSUME NEW k \in 0 .. m + 1 PROVE (IF k = m + 1 THEN Take(f[m], t[m + 1]) ELSE f[k]) \in Words
      <4>1. CASE k = m + 1
        BY <3>1, <4>1
      <4>2. CASE k # m + 1
        BY <2>2, <4>2
      <4> QED BY <4>1, <4>2
    <3> QED BY <3>2
  <2>5. g[0] = <<>>
    BY <2>2
  <2>6. \A k \in 0 .. m + 1 - 1 : g[k + 1] = Take(g[k], t[k + 1])
    <3>1. SUFFICES ASSUME NEW k \in 0 .. m PROVE g[k + 1] = Take(g[k], t[k + 1])
      <4>1. m + 1 - 1 = m
        OBVIOUS
      <4> HIDE DEF g
      <4> QED BY <4>1
    <3>2. CASE k = m
      BY <3>2
    <3>3. CASE k \in 0 .. m - 1
      <4>1. k + 1 # m + 1 /\ k # m + 1 /\ k + 1 \in 0 .. m + 1 /\ k \in 0 .. m + 1
        BY <3>3
      <4>2. g[k + 1] = f[k + 1] /\ g[k] = f[k]
        BY <4>1
      <4> QED BY <2>2, <3>3, <4>2
    <3> QED BY <3>1, <3>2, <3>3
  <2> HIDE DEF g
  <2>7. g \in Collects(t, m + 1)
    BY <2>4, <2>5, <2>6 DEF Collects
  <2> QED BY <1>0, <2>7
<1> HIDE DEF S
<1>3. S = 0 .. n
  <2>1. S \in SUBSET (0 .. n)
    BY DEF S
  <2> QED BY <1>0, <1>1, <1>2, <2>1, UpTo
<1> QED BY <1>0, <1>3 DEF S

(* The names of the first tokens are a prefix of the names of more. *)
LEMMA CollectionGrows ==
  ASSUME NEW t \in Words, NEW n \in 0 .. Len(t), NEW f \in Collects(t, n), NEW j \in 0 .. n, NEW k \in j .. n
  PROVE  IsPrefix(f[j], f[k])
<1>0. Len(t) \in Nat /\ n \in Nat
  BY DEF Words
<1>1. f \in [0 .. n -> Words] /\ \A i \in 0 .. n - 1 : f[i + 1] = Take(f[i], t[i + 1])
  BY DEF Collects
<1> DEFINE S == {i \in 0 .. n - j : IsPrefix(f[j], f[j + i])}
<1>2. 0 \in S
  BY <1>0, <1>1, PrefixSame
<1>3. ASSUME NEW i \in 0 .. n - j - 1, i \in S PROVE i + 1 \in S
  <2>1. PICK m \in 0 .. n - 1 : m = j + i /\ m + 1 = j + (i + 1) /\ i + 1 \in 0 .. n - j
    BY <1>0
  <2>2. f[j] \in Words /\ f[m] \in Words /\ f[m + 1] \in Words /\ t[m + 1] \in Tokens
    BY <1>0, <1>1, <2>1 DEF Words
  <2>3. IsPrefix(f[m], f[m + 1])
    BY <1>1, <2>2, TakeIs
  <2>4. IsPrefix(f[j], f[m + 1])
    BY <1>3, <2>1, <2>2, <2>3, PrefixTrans
  <2> QED BY <2>1, <2>4
<1> HIDE DEF S
<1>4. S = 0 .. n - j
  <2>1. S \in SUBSET (0 .. n - j) /\ n - j \in Nat
    BY <1>0 DEF S
  <2> QED BY <1>2, <1>3, <2>1, UpTo
<1>5. k - j \in 0 .. n - j /\ j + (k - j) = k
  BY <1>0
<1> QED BY <1>4, <1>5 DEF S

(* They depend on these tokens alone. *)
LEMMA CollectionSame ==
  ASSUME NEW s \in Words, NEW t \in Words, NEW m \in 0 .. Len(s), NEW n \in m .. Len(t),
         NEW f \in Collects(s, m), NEW g \in Collects(t, n), \A i \in 1 .. m : s[i] = t[i]
  PROVE  f[m] = g[m]
<1>0. Len(s) \in Nat /\ Len(t) \in Nat /\ m \in Nat /\ n \in Nat
  BY DEF Words
<1>1. /\ f[0] = <<>> /\ \A i \in 0 .. m - 1 : f[i + 1] = Take(f[i], s[i + 1])
      /\ g[0] = <<>> /\ \A i \in 0 .. n - 1 : g[i + 1] = Take(g[i], t[i + 1])
  BY DEF Collects
<1> DEFINE S == {i \in 0 .. m : f[i] = g[i]}
<1>2. 0 \in S
  BY <1>0, <1>1
<1>3. ASSUME NEW i \in 0 .. m - 1, i \in S PROVE i + 1 \in S
  <2>1. i + 1 \in 1 .. m /\ i + 1 \in 0 .. m /\ i \in 0 .. n - 1
    BY <1>0
  <2>2. s[i + 1] = t[i + 1] /\ f[i] = g[i]
    BY <1>3, <2>1
  <2> QED BY <1>1, <2>1, <2>2
<1> HIDE DEF S
<1>4. S = 0 .. m
  <2>1. S \in SUBSET (0 .. m)
    BY DEF S
  <2> QED BY <1>0, <1>2, <1>3, <2>1, UpTo
<1> QED BY <1>0, <1>4 DEF S

(* NamesOf is such a collection. *)
LEMMA NamesAre ==
  ASSUME NEW p \in Paths
  PROVE  \E t \in Words, n \in Nat, f \in Collects(Tail(p), Len(p) - 1) :
           /\ t = Tail(p) /\ n = Len(t) /\ n = Len(p) - 1 /\ \A i \in 1 .. n : t[i] = p[i + 1]
           /\ NamesOf(p) = f[n] /\ NamesOf(p) \in Words
<1>1. p \in Seq(Tokens) /\ p # <<>>
  BY DEF Paths, Words
<1>2. PICK t \in Words : t = Tail(p) /\ Len(t) = Len(p) - 1 /\ \A i \in 1 .. Len(t) : t[i] = p[i + 1]
  BY <1>1, HeadTailProperties DEF Words
<1>3. PICK n \in Nat : n = Len(t)
  BY DEF Words
<1>4. PICK g \in Collects(t, n) : TRUE
  BY <1>3, CollectionExists
<1>5. g \in [0 .. n -> Words] /\ g[0] = <<>> /\ \A k \in 0 .. n - 1 : g[k + 1] = Take(g[k], t[k + 1])
  BY <1>4 DEF Collects
<1> DEFINE Is(f) == f = [k \in 0 .. Len(Tail(p)) |->
                          IF k = 0 THEN <<>>
                          ELSE IF Tail(p)[k] \in {":", "/"} THEN f[k - 1] ELSE Append(f[k - 1], Tail(p)[k])]
<1>6. Is(g)
  <2>1. ASSUME NEW k \in 0 .. n
        PROVE  g[k] = IF k = 0 THEN <<>> ELSE IF t[k] \in {":", "/"} THEN g[k - 1] ELSE Append(g[k - 1], t[k])
    <3>1. CASE k = 0
      BY <1>5, <3>1
    <3>2. CASE k # 0
      <4>1. k - 1 \in 0 .. n - 1 /\ k - 1 + 1 = k
        BY <1>3, <3>2
      <4>2. g[k] = Take(g[k - 1], t[k])
        BY <1>5, <4>1
      <4> QED BY <3>2, <4>2 DEF Take
    <3> QED BY <3>1, <3>2
  <2>2. g = [k \in 0 .. n |-> IF k = 0 THEN <<>> ELSE IF t[k] \in {":", "/"} THEN g[k - 1] ELSE Append(g[k - 1], t[k])]
    BY <1>5, <2>1
  <2> QED BY <1>2, <1>3, <2>2
<1>7. NamesOf(p) = (CHOOSE h : Is(h))[Len(Tail(p))]
  BY DEF NamesOf
<1> HIDE DEF Is
<1>8. PICK f : f = (CHOOSE h : Is(h)) /\ Is(f)
  BY <1>6
<1>9. f = [k \in 0 .. n |-> IF k = 0 THEN <<>> ELSE IF t[k] \in {":", "/"} THEN f[k - 1] ELSE Append(f[k - 1], t[k])]
  <2>1. f = [k \in 0 .. Len(Tail(p)) |->
              IF k = 0 THEN <<>>
              ELSE IF Tail(p)[k] \in {":", "/"} THEN f[k - 1] ELSE Append(f[k - 1], Tail(p)[k])]
    BY <1>8 DEF Is
  <2> QED BY <1>2, <1>3, <2>1, Zenon
<1>10. NamesOf(p) = f[n]
  BY <1>2, <1>3, <1>7, <1>8
<1>11. f \in Collects(t, n)
  <2>1. f[0] = <<>>
    BY <1>3, <1>9
  <2>2. ASSUME NEW k \in 0 .. n - 1 PROVE f[k + 1] = Take(f[k], t[k + 1])
    <3>1. k + 1 \in 0 .. n /\ k + 1 # 0 /\ k + 1 - 1 = k
      BY <1>3
    <3>2. f[k + 1] = IF t[k + 1] \in {":", "/"} THEN f[k] ELSE Append(f[k], t[k + 1])
      <4>1. \A i \in 0 .. n : f[i] = IF i = 0 THEN <<>> ELSE IF t[i] \in {":", "/"} THEN f[i - 1] ELSE Append(f[i - 1], t[i])
        BY <1>9, Zenon
      <4>2. PICK i \in 0 .. n : i = k + 1 /\ i # 0 /\ i - 1 = k
        BY <3>1
      <4>3. f[i] = IF t[i] \in {":", "/"} THEN f[i - 1] ELSE Append(f[i - 1], t[i])
        BY <4>1, <4>2, Zenon
      <4> QED BY <4>2, <4>3, Zenon
    <3> QED BY <3>2 DEF Take
  <2> DEFINE S == {k \in 0 .. n : f[k] \in Words}
  <2>3. 0 \in S
    <3>1. <<>> \in Words
      BY EmptySeq DEF Words
    <3> QED BY <1>3, <2>1, <3>1
  <2>4. ASSUME NEW k \in 0 .. n - 1, k \in S PROVE k + 1 \in S
    <3>1. t[k + 1] \in Tokens /\ k + 1 \in 0 .. n
      BY <1>2, <1>3 DEF Words
    <3> QED BY <2>2, <2>4, <3>1, TakeIs
  <2> HIDE DEF S
  <2>5. S = 0 .. n
    <3>1. S \in SUBSET (0 .. n)
      BY DEF S
    <3> QED BY <1>3, <2>3, <2>4, <3>1, UpTo
  <2>6. f \in [0 .. n -> Words]
    <3>1. DOMAIN f = 0 .. n /\ f = [k \in 0 .. n |-> f[k]]
      BY <1>9
    <3> QED BY <2>5, <3>1 DEF S
  <2> QED BY <2>1, <2>2, <2>6 DEF Collects
<1>12. f[n] \in Words
  BY <1>3, <1>11 DEF Collects
<1> QED BY <1>2, <1>3, <1>10, <1>11, <1>12
-----------------------------------------------------------------------------
(* Paths and nodes. *)
Nodes == [name : STRING \ {"/"}, drive : Drives]
Types ==
  /\ curdir \in Paths
  /\ nodes \in Seq(Nodes)
  /\ entries \in SUBSET [drive : Drives, path : Words]

ShellInv == Types /\ CurdirNamesVolume

(* A path leads where its first token leads. *)
LEMMA RouteSame ==
  ASSUME NEW p, NEW q, p[1] = q[1]
  PROVE  DriveOf(p) = DriveOf(q)
BY DEF DriveOf, Route

LEMMA RouteIs ==
  ASSUME Types, NEW p, NEW d \in DriveOf(p)
  PROVE  d \in Drives /\ p[1] # "/"
<1>1. PICK k \in Route(p) : d = nodes[k].drive
  BY DEF DriveOf
<1>2. k \in 1 .. Len(nodes) /\ nodes[k].name = p[1]
  BY <1>1 DEF Route, Types
<1>3. nodes[k] \in Nodes
  BY <1>2 DEF Types
<1>4. nodes[k].drive \in Drives /\ nodes[k].name \notin {"/"}
  BY <1>3 DEF Nodes
<1> QED BY <1>1, <1>2, <1>4

LEMMA SlashIs ==
  ASSUME NEW p \in Paths
  PROVE  /\ WithSlash(p) \in Paths /\ Len(p) <= Len(WithSlash(p))
         /\ Len(p) \in Nat \ {0} /\ Len(WithSlash(p)) \in Nat
         /\ \A i \in 1 .. Len(p) : WithSlash(p)[i] = p[i]
         /\ WithSlash(p)[Len(WithSlash(p))] = "/"
<1>1. p \in Words /\ Len(p) \in Nat \ {0}
  <2>1. p \in Seq(Tokens) /\ p # <<>>
    BY DEF Paths, Words
  <2> QED BY <2>1, EmptySeq DEF Words
<1>2. CASE p[Len(p)] = "/"
  <2>1. WithSlash(p) = p
    BY <1>2 DEF WithSlash
  <2> QED BY <1>1, <1>2, <2>1
<1>3. CASE p[Len(p)] # "/"
  <2>1. PICK q : q = Append(p, "/") /\ q = WithSlash(p)
    BY <1>3 DEF WithSlash
  <2>a. "/" \in Tokens
    BY DEF Tokens
  <2>2. q \in Paths /\ Len(q) = Len(p) + 1 /\ q[Len(p) + 1] = "/"
    BY <1>1, <2>1, <2>a, AppendIs, Zenon
  <2>b. \A i \in 1 .. Len(p) : Append(p, "/")[i] = p[i]
    BY <1>1, <2>a, AppendIs
  <2>3. \A i \in 1 .. Len(p) : q[i] = p[i]
    BY <2>1, <2>b, Zenon
  <2>4. Len(p) <= Len(q) /\ Len(q) \in Nat /\ q[Len(q)] = "/"
    BY <1>1, <2>2
  <2> QED BY <1>1, <2>1, <2>2, <2>3, <2>4, Zenon
<1> QED BY <1>2, <1>3

LEMMA ParentIs ==
  ASSUME NEW p \in Paths
  PROVE  ParentOf(p) \in Paths
<1>1. p \in Seq(Tokens) /\ Len(p) \in Nat
  BY DEF Paths, Words
<1> DEFINE slashes == {k \in 1 .. Len(p) - 1 : p[k] = "/"}
<1>2. CASE p = Root \/ slashes = {}
  <2>1. Root \in Paths
    <3>1. <<"/">> \in Seq(Tokens) /\ Len(<<"/">>) = 1
      <4>1. "/" \in Tokens
        BY DEF Tokens
      <4> QED BY <4>1
    <3>2. <<"/">> # <<>>
      BY <3>1
    <3> QED BY <3>1, <3>2 DEF Root, Paths, Words
  <2> QED BY <1>2, <2>1, Zenon DEF ParentOf
<1>3. CASE p # Root /\ slashes # {}
  <2> DEFINE last == CHOOSE k \in slashes : \A j \in slashes : j <= k
  <2>1. ParentOf(p) = SubSeq(p, 1, last)
    BY <1>3 DEF ParentOf
  <2>2. last \in slashes
    <3>1. slashes \in SUBSET (1 .. Len(p))
      BY <1>1
    <3> HIDE DEF slashes
    <3>2. \E k \in slashes : \A j \in slashes : j <= k
      BY <1>1, <1>3, <3>1, LastExists
    <3> QED BY <3>2
  <2> HIDE DEF last
  <2>3. PICK n \in 1 .. Len(p) : n = last
    BY <1>1, <2>2
  <2>4. \A i \in 1 .. n : p[i] \in Tokens
    BY <1>1, <2>3
  <2>5. SubSeq(p, 1, n) \in Seq(Tokens) /\ Len(SubSeq(p, 1, n)) = IF 1 <= n THEN n - 1 + 1 ELSE 0
    BY <1>1, <2>4, SubSeqProperties
  <2>6. Len(SubSeq(p, 1, n)) # 0
    BY <2>5
  <2>7. SubSeq(p, 1, n) # <<>>
    BY <2>6
  <2> QED BY <2>1, <2>3, <2>5, <2>7 DEF Paths, Words
<1> QED BY <1>2, <1>3

LEMMA ResolveIs ==
  ASSUME ShellAssumption, Types, NEW arg \in Args
  PROVE  arg \in Paths /\ Resolve(arg) \in Paths
<1>1. arg \in Paths
  <2>1. arg \in Seq(STRING) /\ arg # <<>>
    BY DEF ShellAssumption
  <2>2. ASSUME NEW i \in 1 .. Len(arg) PROVE arg[i] \in Tokens
    <3>1. arg[i] \in STRING
      BY <2>1
    <3> QED BY <3>1 DEF Tokens
  <2>3. arg \in Seq(Tokens)
    BY <2>1, <2>2
  <2> QED BY <2>1, <2>3 DEF Paths, Words
<1>2. curdir \o arg \in Paths
  BY <1>1, ConcatIs DEF Types
<1> QED BY <1>1, <1>2 DEF Resolve

LEMMA DirIs ==
  ASSUME NEW p \in Paths
  PROVE  /\ NamesOf(p) \in Words /\ DirOf(p) \in Words /\ BaseOf(p) \in Tokens
         /\ IsPrefix(DirOf(p), NamesOf(p))
<1>1. NamesOf(p) \in Words
  BY NamesAre
<1>2. BaseOf(p) \in Tokens
  <2>1. Len(p) \in 1 .. Len(p) /\ p \in Seq(Tokens)
    <3>1. p \in Seq(Tokens) /\ p # <<>>
      BY DEF Paths, Words
    <3>2. Len(p) \in Nat \ {0}
      BY <3>1, EmptySeq
    <3> QED BY <3>1, <3>2
  <2>2. p[Len(p)] \in Tokens
    BY <2>1
  <2>3. "" \in Tokens
    BY DEF Tokens
  <2> QED BY <2>2, <2>3, Zenon DEF BaseOf
<1>3. CASE HasBase(p)
  <2>1. NamesOf(p) \in Paths
    BY <1>1, <1>3 DEF HasBase, Paths
  <2>2. DirOf(p) = Front(NamesOf(p))
    BY <1>3 DEF DirOf
  <2> QED BY <1>1, <1>2, <2>1, <2>2, FrontIs, Zenon
<1>4. CASE ~HasBase(p)
  <2>1. DirOf(p) = NamesOf(p)
    BY <1>4 DEF DirOf
  <2> QED BY <1>1, <1>2, <2>1, PrefixSame, Zenon
<1> QED BY <1>3, <1>4

-----------------------------------------------------------------------------
(* The current directory. *)
LEMMA RootIs == Root \in Paths /\ Len(Root) = 1 /\ Root[1] = "/"
<1>1. "/" \in Tokens
  BY DEF Tokens
<1>2. <<"/">> \in Seq(Tokens) /\ Len(<<"/">>) = 1 /\ <<"/">>[1] = "/"
  BY <1>1
<1>3. <<"/">> # <<>>
  BY <1>2
<1> QED BY <1>2, <1>3 DEF Root, Paths, Words

LEMMA InitInv ==
  ASSUME ShellAssumption, Init
  PROVE  ShellInv
<1>1. nodes \in Seq(Nodes)
  BY DEF ShellAssumption, Init, Nodes
<1> QED BY <1>1, RootIs DEF Init, ShellInv, Types, CurdirNamesVolume

(* A cd ends at the root, on a volume, or on a drive nobody looked at.     *)
LEMMA CdStep ==
  ASSUME ShellAssumption, ShellInv, NEW arg \in Args, Cd(arg)
  PROVE  ShellInv'
<1> DEFINE p == IF arg = <<"..">> THEN ParentOf(curdir) ELSE Resolve(arg)
<1>1. /\ p = Root \/ Exists(p) \/ NamesDrive(p)
      /\ curdir' = WithSlash(p) /\ nodes' = nodes /\ entries' = entries
  BY DEF Cd
<1>2. p \in Paths
  BY ParentIs, ResolveIs DEF ShellInv, Types
<1> HIDE DEF p
<1>3. PICK q \in Paths : q = WithSlash(p)
  BY <1>2, SlashIs
<1>4. /\ Len(p) \in Nat \ {0} /\ Len(q) \in Nat /\ Len(p) <= Len(q) /\ q[Len(q)] = "/"
      /\ \A i \in 1 .. Len(p) : q[i] = p[i]
  BY <1>2, <1>3, SlashIs
<1>5. q[1] = p[1]
  BY <1>4
<1>6. q = Root \/ DriveOf(q) # {} \/ NamesDrive(q)
  <2>1. CASE p = Root
    <3>1. p[Len(p)] = "/"
      BY <2>1, RootIs
    <3> QED BY <1>3, <2>1, <3>1 DEF WithSlash
  <2>2. CASE Exists(p)
    <3>1. DriveOf(p) # {}
      BY <2>2 DEF Exists
    <3> QED BY <1>5, <3>1, RouteSame
  <2>3. CASE NamesDrive(p)
    <3>1. Len(q) >= 3 /\ q[1] = p[1] /\ q[2] = p[2] /\ q[3] = p[3]
      BY <1>4, <2>3 DEF NamesDrive
    <3> QED BY <2>3, <3>1 DEF NamesDrive
  <2> QED BY <1>1, <2>1, <2>2, <2>3
<1>7. Types'
  BY <1>1, <1>3 DEF ShellInv, Types
<1>8. DriveOf(q)' = DriveOf(q) /\ curdir' = q
  BY <1>1, <1>3 DEF DriveOf, Route
<1>9. CurdirNamesVolume'
  <2>1. CASE q = Root
    BY <1>8, <2>1 DEF CurdirNamesVolume
  <2>2. CASE q # Root
    <3>1. DriveOf(q)' # {} \/ NamesDrive(q)
      BY <1>6, <1>8, <2>2
    <3>2. CurdirNamesVolume' <=> curdir' = Root \/ (curdir'[Len(curdir')] = "/" /\ (DriveOf(curdir)' # {} \/ NamesDrive(curdir)'))
      BY DEF CurdirNamesVolume
    <3>3. DriveOf(curdir)' = DriveOf(q)' /\ (NamesDrive(curdir)' <=> NamesDrive(q))
      BY <1>8 DEF DriveOf, Route, NamesDrive
    <3> QED BY <1>4, <1>8, <3>1, <3>2, <3>3
  <2> QED BY <2>1, <2>2
<1> QED BY <1>7, <1>9 DEF ShellInv

(* What is mounted goes to the end of the table and is no node before it.  *)
LEMMA MountStep ==
  ASSUME ShellAssumption, ShellInv, NEW arg \in Args, Mount(arg)
  PROVE  ShellInv'
<1> DEFINE node == [name |-> arg[1], drive |-> arg[1]]
<1>1. nodes' = Append(nodes, node) /\ curdir' = curdir /\ entries' = entries /\ arg[1] \in Drives
  BY DEF Mount
<1>2. node \in Nodes
  BY <1>1 DEF ShellAssumption, Nodes
<1>3. nodes \in Seq(Nodes) /\ Len(nodes) \in Nat
  BY DEF ShellInv, Types
<1> HIDE DEF node
<1>4. /\ nodes' \in Seq(Nodes) /\ Len(nodes') = Len(nodes) + 1
      /\ \A i \in 1 .. Len(nodes) : nodes'[i] = nodes[i]
  BY <1>1, <1>2, <1>3, AppendProperties
<1>5. Types'
  BY <1>1, <1>4 DEF ShellInv, Types
<1>6. ASSUME DriveOf(curdir) # {} PROVE DriveOf(curdir)' # {}
  <2>1. PICK k \in Route(curdir) : TRUE
    BY <1>6 DEF DriveOf
  <2>2. k \in 1 .. Len(nodes) /\ nodes[k].name = curdir[1] /\ \A j \in 1 .. k - 1 : nodes[j].name # curdir[1]
    BY <1>3, <2>1 DEF Route
  <2>3. k \in 1 .. Len(nodes') /\ nodes'[k] = nodes[k] /\ \A j \in 1 .. k - 1 : nodes'[j] = nodes[j]
    BY <1>3, <1>4, <2>2
  <2>4. nodes'[k].name = curdir[1] /\ \A j \in 1 .. k - 1 : nodes'[j].name # curdir[1]
    BY <2>2, <2>3
  <2>5. DOMAIN nodes' = 1 .. Len(nodes')
    BY <1>4
  <2>6. k \in Route(curdir)'
    BY <1>1, <2>3, <2>4, <2>5 DEF Route
  <2> QED BY <2>6 DEF DriveOf
<1>7. NamesDrive(curdir)' <=> NamesDrive(curdir)
  BY <1>1 DEF NamesDrive
<1>8. CurdirNamesVolume'
  BY <1>1, <1>6, <1>7 DEF ShellInv, CurdirNamesVolume
<1> QED BY <1>5, <1>8 DEF ShellInv

(* The other commands leave the directory and the nodes.                   *)
LEMMA StaysStep ==
  ASSUME ShellInv, UNCHANGED <<curdir, nodes>>, entries' \in SUBSET [drive : Drives, path : Words]
  PROVE  ShellInv'
<1>1. Types'
  BY DEF ShellInv, Types
<1>2. DriveOf(curdir)' = DriveOf(curdir) /\ (NamesDrive(curdir)' <=> NamesDrive(curdir))
  BY DEF DriveOf, Route, NamesDrive
<1>3. CurdirNamesVolume'
  BY <1>2 DEF ShellInv, CurdirNamesVolume
<1> QED BY <1>1, <1>3 DEF ShellInv

(* A new name is one: a drive, and a directory with a last name.           *)
LEMMA EntryIs ==
  ASSUME ShellAssumption, Types, NEW arg \in Args, NEW d \in DriveOf(Resolve(arg))
  PROVE  LET p == Resolve(arg)
         IN  /\ Entry(d, Append(DirOf(p), BaseOf(p))) \in [drive : Drives, path : Words]
             /\ IsPrefix(DirOf(p), Append(DirOf(p), BaseOf(p)))
<1>1. PICK p \in Paths : p = Resolve(arg)
  BY ResolveIs
<1>2. DirOf(p) \in Words /\ BaseOf(p) \in Tokens /\ d \in Drives
  BY <1>1, DirIs, RouteIs
<1>3. Append(DirOf(p), BaseOf(p)) \in Words
  BY <1>2, AppendIs DEF Paths
<1>4. IsPrefix(DirOf(p), Append(DirOf(p), BaseOf(p)))
  BY <1>2, PrefixAppend
<1>5. Entry(d, Append(DirOf(p), BaseOf(p))) \in [drive : Drives, path : Words]
  BY <1>2, <1>3 DEF Entry
<1> QED BY <1>1, <1>4, <1>5

LEMMA StepInv ==
  ASSUME ShellAssumption, ShellInv, [Next]_vars
  PROVE  ShellInv'
<1>1. CASE UNCHANGED vars
  <2>1. entries' \in SUBSET [drive : Drives, path : Words]
    BY <1>1 DEF ShellInv, Types, vars
  <2> QED BY <1>1, <2>1, StaysStep DEF vars
<1>2. ASSUME NEW arg \in Args,
             Cd(arg) \/ Write(arg) \/ Mkdir(arg) \/ Rmdir(arg) \/ Mount(arg) \/ Format(arg)
      PROVE  ShellInv'
  <2>a. entries \in SUBSET [drive : Drives, path : Words] /\ Types
    BY DEF ShellInv, Types
  <2>1. CASE Cd(arg)
    BY <2>1, CdStep
  <2>2. CASE Write(arg)
    <3>1. curdir' = curdir /\ nodes' = nodes
      BY <2>2 DEF Write
    <3>2. entries' \in SUBSET [drive : Drives, path : Words]
      <4>1. PICK d \in DriveOf(Resolve(arg)) :
              entries' \in SUBSET (entries \cup {Entry(d, Append(DirOf(Resolve(arg)), BaseOf(Resolve(arg))))})
        BY <2>2 DEF Write
      <4> QED BY <2>a, <4>1, EntryIs
    <3> QED BY <3>1, <3>2, StaysStep
  <2>3. CASE Mkdir(arg)
    <3>1. curdir' = curdir /\ nodes' = nodes
      BY <2>3 DEF Mkdir
    <3>2. entries' \in SUBSET [drive : Drives, path : Words]
      <4>1. PICK d \in DriveOf(Resolve(arg)) :
              entries' = entries \cup {Entry(d, Append(DirOf(Resolve(arg)), BaseOf(Resolve(arg))))}
        BY <2>3 DEF Mkdir
      <4> QED BY <2>a, <4>1, EntryIs
    <3> QED BY <3>1, <3>2, StaysStep
  <2>4. CASE Rmdir(arg)
    <3>1. curdir' = curdir /\ nodes' = nodes /\ entries' \subseteq entries
      BY <2>4 DEF Rmdir
    <3> QED BY <2>a, <3>1, StaysStep
  <2>5. CASE Mount(arg)
    BY <2>5, MountStep
  <2>6. CASE Format(arg)
    <3>1. curdir' = curdir /\ nodes' = nodes /\ entries' \subseteq entries
      BY <2>6 DEF Format
    <3> QED BY <2>a, <3>1, StaysStep
  <2> QED BY <1>2, <2>1, <2>2, <2>3, <2>4, <2>5, <2>6
<1> QED BY <1>1, <1>2 DEF Next

(* Every reachable state has the invariant.                                *)
THEOREM InvHolds ==
  ASSUME ShellAssumption
  PROVE  Spec => []ShellInv
<1>1. Init => ShellInv
  BY InitInv
<1>2. ShellInv /\ [Next]_vars => ShellInv'
  BY StepInv
<1> QED BY <1>1, <1>2, PTL DEF Spec

(* Whatever is mounted, typed and formatted, curdir is the global root or  *)
(* ends with a slash and leads to a volume or a drive (curdir, cd).        *)
THEOREM CurdirNamesVolumeHolds ==
  ASSUME ShellAssumption
  PROVE  Spec => []CurdirNamesVolume
<1>1. ShellInv => CurdirNamesVolume
  BY DEF ShellInv
<1> QED BY <1>1, InvHolds, PTL

(* The name of a cd lies between the last slash but one and the last.      *)
LEMMA ParentBack ==
  ASSUME ShellInv
  PROVE  ParentReturns
<1> SUFFICES ASSUME curdir # Root PROVE ParentOf(WithSlash(Append(curdir, "x"))) = curdir
  BY DEF ParentReturns
<1>1. curdir \in Paths /\ curdir \in Words /\ curdir[Len(curdir)] = "/"
  BY DEF ShellInv, Types, CurdirNamesVolume, Paths
<1>2. PICK L \in Nat \ {0} : L = Len(curdir)
  BY <1>1, SlashIs
<1>3. PICK q \in Paths : q = Append(curdir, "x") /\ Len(q) = L + 1 /\ q[L + 1] = "x" /\ \A i \in 1 .. L : q[i] = curdir[i]
  <2>1. "x" \in Tokens
    BY DEF Tokens
  <2>2. Append(curdir, "x") \in Paths /\ Len(Append(curdir, "x")) = L + 1 /\ Append(curdir, "x")[L + 1] = "x"
    BY <1>1, <1>2, <2>1, AppendIs
  <2>3. \A i \in 1 .. L : Append(curdir, "x")[i] = curdir[i]
    BY <1>1, <1>2, <2>1, AppendIs
  <2> QED BY <2>2, <2>3
<1>4. q[Len(q)] # "/" /\ q \in Words
  BY <1>3 DEF Paths
<1>5. PICK w \in Paths : w = WithSlash(q) /\ Len(w) = L + 2 /\ w[L + 1] = "x" /\ \A i \in 1 .. L : w[i] = curdir[i]
  <2>1. "/" \in Tokens
    BY DEF Tokens
  <2>2. PICK w : w = Append(q, "/") /\ w = WithSlash(q)
    BY <1>4 DEF WithSlash
  <2>3. w \in Paths /\ Len(w) = Len(q) + 1
    BY <1>4, <2>1, <2>2, AppendIs, Zenon
  <2>4. \A i \in 1 .. Len(q) : Append(q, "/")[i] = q[i]
    BY <1>4, <2>1, AppendIs
  <2>5. Len(w) = L + 2 /\ w[L + 1] = "x" /\ \A i \in 1 .. L : w[i] = curdir[i]
    BY <1>3, <2>2, <2>3, <2>4
  <2> QED BY <2>2, <2>3, <2>5
<1> DEFINE slashes == {k \in 1 .. Len(w) - 1 : w[k] = "/"}
<1>6. L \in slashes /\ \A j \in slashes : j <= L
  <2>1. Len(w) - 1 = L + 1
    BY <1>5
  <2>2. L \in 1 .. L + 1 /\ w[L] = "/"
    BY <1>1, <1>2, <1>5
  <2>3. ASSUME NEW j \in 1 .. L + 1, w[j] = "/" PROVE j <= L
    <3>1. j # L + 1
      BY <1>5, <2>3
    <3> QED BY <3>1
  <2> QED BY <2>1, <2>2, <2>3
<1>7. (CHOOSE k \in slashes : \A j \in slashes : j <= k) = L
  <2>1. slashes \subseteq Int
    BY <1>5
  <2> HIDE DEF slashes
  <2>2. ASSUME NEW k \in slashes, \A j \in slashes : j <= k PROVE k = L
    BY <1>6, <2>1, <2>2
  <2> QED BY <1>6, <2>2
<1>8. w # Root
  <2>1. L + 2 # 1
    OBVIOUS
  <2> QED BY <1>5, <2>1, RootIs, Zenon
<1>9. ParentOf(w) = SubSeq(w, 1, L)
  BY <1>6, <1>7, <1>8 DEF ParentOf
<1>10. SubSeq(w, 1, L) = curdir
  <2>1. IsPrefix(curdir, w)
    <3>1. L <= Len(w)
      BY <1>5
    <3> QED BY <1>1, <1>2, <1>5, <3>1, PrefixIs DEF Paths
  <2>2. SubSeq(curdir, 1, Len(curdir)) = curdir
    BY <1>1, SubSeqFull DEF Words
  <2> QED BY <1>2, <2>1, <2>2 DEF IsPrefix
<1> QED BY <1>3, <1>5, <1>9, <1>10

(* From wherever cd has come to, cd .. takes back a cd to a name.          *)
THEOREM ParentReturnsHolds ==
  ASSUME ShellAssumption
  PROVE  Spec => []ParentReturns
<1>1. ShellInv => ParentReturns
  BY ParentBack
<1> QED BY <1>1, InvHolds, PTL

-----------------------------------------------------------------------------
(* What commands change. A relative path goes on from the names of the     *)
(* current directory, and the directory it is created in is not above.     *)
LEMMA RelativeBelow ==
  ASSUME NEW c \in Paths, NEW arg \in Paths, ~HasColon(arg)
  PROVE  /\ IsPrefix(NamesOf(c), DirOf(c \o arg))
         /\ DriveOf(c \o arg) = DriveOf(c)
<1>1. PICK p \in Paths : p = c \o arg
  BY ConcatIs
<1>2. PICK lc \in Nat \ {0}, la \in Nat \ {0} : lc = Len(c) /\ la = Len(arg)
  BY ConcatIs
<1>3. Len(p) = lc + la /\ \A i \in 1 .. lc : p[i] = c[i]
  BY <1>1, <1>2, ConcatIs
<1>4. p[lc + la] = arg[la]
  <2>1. \A i \in 1 .. Len(arg) : (c \o arg)[Len(c) + i] = arg[i]
    BY ConcatIs
  <2> QED BY <1>1, <1>2, <2>1
<1>5. DriveOf(p) = DriveOf(c)
  <2>1. p[1] = c[1]
    BY <1>2, <1>3
  <2> QED BY <2>1, RouteSame
<1>6a. PICK s \in Words, m \in Nat :
         /\ m = Len(s) /\ m = lc - 1 /\ \A i \in 1 .. m : s[i] = c[i + 1]
         /\ \E f \in Collects(s, m) : NamesOf(c) = f[m]
  <2>1. PICK s \in Words, m \in Nat, f \in Collects(Tail(c), Len(c) - 1) :
          s = Tail(c) /\ m = Len(s) /\ m = Len(c) - 1 /\ (\A i \in 1 .. m : s[i] = c[i + 1]) /\ NamesOf(c) = f[m]
    BY NamesAre
  <2>2. f \in Collects(s, m)
    BY <2>1, Zenon
  <2> QED BY <1>2, <2>1, <2>2
<1>6. PICK f \in Collects(s, m) : NamesOf(c) = f[m]
  BY <1>6a
<1>7a. PICK t \in Words, n \in Nat :
         /\ n = Len(t) /\ n = lc + la - 1 /\ \A i \in 1 .. n : t[i] = p[i + 1]
         /\ \E g \in Collects(t, n) : NamesOf(p) = g[n]
  <2>1. PICK t \in Words, n \in Nat, g \in Collects(Tail(p), Len(p) - 1) :
          t = Tail(p) /\ n = Len(t) /\ n = Len(p) - 1 /\ (\A i \in 1 .. n : t[i] = p[i + 1]) /\ NamesOf(p) = g[n]
    BY NamesAre
  <2>2. g \in Collects(t, n)
    BY <2>1, Zenon
  <2>3. n = lc + la - 1
    BY <1>3, <2>1
  <2> QED BY <2>1, <2>2, <2>3, Zenon
<1>7. PICK g \in Collects(t, n) : NamesOf(p) = g[n]
  BY <1>7a
<1>8. m \in 0 .. n - 1 /\ m \in 0 .. Len(s) /\ n \in m .. Len(t) /\ n - 1 \in m .. n /\ m \in 0 .. n /\ n \in 0 .. Len(t)
  BY <1>2, <1>6a, <1>7a
<1>9. f[m] = g[m]
  <2>1. ASSUME NEW i \in 1 .. m PROVE s[i] = t[i]
    <3>1. i \in 1 .. n /\ i + 1 \in 1 .. lc
      BY <1>2, <1>6a, <1>8
    <3> QED BY <1>3, <1>6a, <1>7a, <3>1
  <2> QED BY <1>8, <2>1, CollectionSame
<1>10. g \in [0 .. n -> Words] /\ \A k \in 0 .. n - 1 : g[k + 1] = Take(g[k], t[k + 1])
  BY DEF Collects
<1>11. CASE ~HasBase(p)
  <2>1. DirOf(p) = g[n]
    BY <1>7, <1>11 DEF DirOf
  <2>2. IsPrefix(g[m], g[n])
    <3>1. n \in m .. n
      BY <1>8
    <3> QED BY <1>8, <3>1, CollectionGrows
  <2> QED BY <1>1, <1>5, <1>6, <1>9, <2>1, <2>2
<1>12. CASE HasBase(p)
  <2>1. PICK k \in 0 .. n - 1 : k = n - 1 /\ k + 1 = n /\ k \in m .. n
    BY <1>8
  <2>2. t[n] = arg[la] /\ t[n] \in Tokens
    <3>1. n \in 1 .. n /\ n + 1 = lc + la
      BY <1>7a, <2>1
    <3>2. t[n] = p[n + 1]
      BY <1>7a, <3>1
    <3>3. t[n] \in Tokens
      <4>1. t \in Seq(Tokens) /\ n \in 1 .. Len(t)
        BY <1>7a, <3>1 DEF Words
      <4> QED BY <4>1, ElementOfSeq
    <3> QED BY <1>4, <3>1, <3>2, <3>3
  <2>3. t[n] # "/"
    <3>1. p[Len(p)] # "/"
      BY <1>12 DEF HasBase
    <3> QED BY <1>3, <1>4, <2>2, <3>1
  <2>4. t[n] # ":"
    <3>1. la \in 1 .. Len(arg)
      BY <1>2
    <3> QED BY <2>2, <3>1 DEF HasColon, Contains
  <2>5. g[k] \in Words
    BY <1>10, <2>1
  <2>6. g[n] = Append(g[k], t[n])
    <3>1. g[n] = Take(g[k], t[n])
      BY <1>10, <2>1
    <3> QED BY <2>3, <2>4, <3>1 DEF Take
  <2>7. DirOf(p) = g[k]
    <3>1. Front(g[n]) = g[k]
      BY <2>2, <2>5, <2>6, FrontOfAppend
    <3> QED BY <1>7, <1>12, <3>1 DEF DirOf
  <2>8. IsPrefix(g[m], g[k])
    BY <1>8, <2>1, CollectionGrows
  <2> QED BY <1>1, <1>5, <1>6, <1>9, <2>7, <2>8
<1> QED BY <1>11, <1>12

(* A command changes names at or below the directory of its path.          *)
LEMMA ChangedBelow ==
  ASSUME ShellAssumption, ShellInv, NEW arg \in Args, Write(arg) \/ Mkdir(arg) \/ Rmdir(arg), NEW e \in Changed
  PROVE  /\ ~is_safe /\ curdir # Root /\ e.drive \in DriveOf(Resolve(arg)) /\ e.path \in Words
         /\ IsPrefix(DirOf(Resolve(arg)), e.path)
<1> DEFINE p == Resolve(arg)
<1>1. p \in Paths /\ Types
  BY ResolveIs DEF ShellInv
<1>2. ~is_safe /\ curdir # Root
  BY DEF Write, Mkdir, Rmdir, Refused
<1> HIDE DEF p
<1>3. NamesOf(p) \in Words /\ DirOf(p) \in Words /\ IsPrefix(DirOf(p), NamesOf(p))
  BY <1>1, DirIs
<1>4. ASSUME NEW x \in entries PROVE x.path \in Words
  BY <1>1 DEF Types
<1>5. ASSUME NEW d, NEW x \in AtOrBelow(d, NamesOf(p))
      PROVE  x.drive = d /\ x.path \in Words /\ IsPrefix(NamesOf(p), x.path) /\ IsPrefix(DirOf(p), x.path)
  <2>1. x \in entries /\ x.drive = d /\ IsPrefix(NamesOf(p), x.path)
    BY DEF AtOrBelow
  <2>2. x.path \in Words
    BY <1>4, <2>1
  <2> QED BY <1>3, <2>1, <2>2, PrefixTrans
<1>6. ASSUME NEW d \in DriveOf(p), e = Entry(d, Append(DirOf(p), BaseOf(p)))
      PROVE  e.drive = d /\ e.path \in Words /\ IsPrefix(DirOf(p), e.path)
  <2>1. e \in [drive : Drives, path : Words] /\ IsPrefix(DirOf(p), Append(DirOf(p), BaseOf(p)))
    BY <1>1, <1>6, EntryIs DEF p
  <2>2. e.drive = d /\ e.path = Append(DirOf(p), BaseOf(p))
    BY <1>6 DEF Entry
  <2> QED BY <2>1, <2>2
<1>7. CASE Write(arg)
  <2>1. PICK d \in DriveOf(p) :
          \/ \E lost \in SUBSET Held(d, NamesOf(p)) : entries' = entries \ UNION {AtOrBelow(d, l.path) : l \in lost}
          \/ entries' = entries \cup {Entry(d, Append(DirOf(p), BaseOf(p)))}
    BY <1>7 DEF Write, p
  <2>2. CASE entries' = entries \cup {Entry(d, Append(DirOf(p), BaseOf(p)))}
    <3>1. e = Entry(d, Append(DirOf(p), BaseOf(p)))
      BY <2>2 DEF Changed
    <3> QED BY <1>2, <1>6, <3>1 DEF p
  <2>3. ASSUME NEW lost \in SUBSET Held(d, NamesOf(p)), entries' = entries \ UNION {AtOrBelow(d, l.path) : l \in lost}
        PROVE  e.drive = d /\ e.path \in Words /\ IsPrefix(DirOf(p), e.path)
    <3>1. PICK l \in lost : e \in AtOrBelow(d, l.path)
      BY <2>3 DEF Changed
    <3>2. l \in AtOrBelow(d, NamesOf(p))
      BY <2>3 DEF Held
    <3>3. l.path \in Words /\ IsPrefix(DirOf(p), l.path)
      BY <1>5, <3>2
    <3>4. e \in entries /\ e.drive = d /\ IsPrefix(l.path, e.path)
      BY <3>1 DEF AtOrBelow
    <3>5. e.path \in Words
      BY <1>4, <3>4
    <3>6. IsPrefix(DirOf(p), e.path)
      BY <1>3, <3>3, <3>4, <3>5, PrefixTrans
    <3> QED BY <3>4, <3>5, <3>6
  <2> QED BY <1>2, <2>1, <2>2, <2>3 DEF p
<1>8. CASE Mkdir(arg)
  <2>1. PICK d \in DriveOf(p) : entries' = entries \cup {Entry(d, Append(DirOf(p), BaseOf(p)))}
    BY <1>8 DEF Mkdir, p
  <2>2. e = Entry(d, Append(DirOf(p), BaseOf(p)))
    BY <2>1 DEF Changed
  <2> QED BY <1>2, <1>6, <2>2 DEF p
<1>9. CASE Rmdir(arg)
  <2>1. PICK d \in DriveOf(p) : entries' = entries \ AtOrBelow(d, NamesOf(p))
    BY <1>9 DEF Rmdir, p
  <2>2. e \in AtOrBelow(d, NamesOf(p))
    BY <2>1 DEF Changed
  <2> QED BY <1>2, <1>5, <2>2 DEF p
<1> QED BY <1>7, <1>8, <1>9

LEMMA StaysBelow ==
  ASSUME ShellAssumption, ShellInv, NEW arg \in Args, Write(arg) \/ Mkdir(arg) \/ Rmdir(arg), NEW e \in Changed
  PROVE  /\ ~is_safe
         /\ IF HasColon(arg)
            THEN e.drive \in DriveOf(arg) /\ IsPrefix(DirOf(arg), e.path)
            ELSE e.drive \in DriveOf(curdir) /\ IsPrefix(NamesOf(curdir), e.path)
<1>1. /\ ~is_safe /\ curdir # Root /\ e.drive \in DriveOf(Resolve(arg)) /\ e.path \in Words
      /\ IsPrefix(DirOf(Resolve(arg)), e.path)
  BY ChangedBelow
<1>2. curdir \in Paths /\ arg \in Paths /\ Types
  BY ResolveIs DEF ShellInv, Types
<1>3. CASE HasColon(arg)
  <2>1. Resolve(arg) = arg
    BY <1>3 DEF Resolve, IsAbsolute
  <2> QED BY <1>1, <1>3, <2>1
<1>4. CASE ~HasColon(arg)
  <2>1. CASE arg[1] = "/"
    <3>1. Resolve(arg) = arg
      BY <2>1 DEF Resolve, IsAbsolute
    <3> QED BY <1>1, <1>2, <2>1, <3>1, RouteIs
  <2>2. CASE arg[1] # "/"
    <3>1. Resolve(arg) = curdir \o arg
      BY <1>1, <1>4, <2>2 DEF Resolve, IsAbsolute
    <3>2. IsPrefix(NamesOf(curdir), DirOf(Resolve(arg))) /\ DriveOf(Resolve(arg)) = DriveOf(curdir)
      BY <1>2, <1>4, <3>1, RelativeBelow
    <3>3. NamesOf(curdir) \in Words /\ DirOf(Resolve(arg)) \in Words
      BY <1>2, DirIs, ResolveIs
    <3>4. IsPrefix(NamesOf(curdir), e.path)
      BY <1>1, <3>2, <3>3, PrefixTrans
    <3> QED BY <1>1, <1>4, <3>2, <3>4
  <2> QED BY <2>1, <2>2
<1> QED BY <1>3, <1>4

(* Whatever is typed in whatever order, write, mkdir and rmdir change      *)
(* names only below the current directory, or where their path with a      *)
(* volume points, and none in a safe session (write, mkdir, rmdir).        *)
THEOREM ChangesStayInContextHolds ==
  ASSUME ShellAssumption
  PROVE  Spec => ChangesStayInContext
<1> DEFINE Stays == \A arg \in Args : Write(arg) \/ Mkdir(arg) \/ Rmdir(arg) =>
                      /\ ~is_safe
                      /\ \A e \in Changed :
                           IF HasColon(arg)
                           THEN e.drive \in DriveOf(arg) /\ IsPrefix(DirOf(arg), e.path)
                           ELSE e.drive \in DriveOf(curdir) /\ IsPrefix(NamesOf(curdir), e.path)
<1>1. ShellInv /\ [Next]_vars => [Stays]_vars
  <2> SUFFICES ASSUME ShellInv, NEW arg \in Args, Write(arg) \/ Mkdir(arg) \/ Rmdir(arg)
               PROVE  /\ ~is_safe
                      /\ \A e \in Changed :
                           IF HasColon(arg)
                           THEN e.drive \in DriveOf(arg) /\ IsPrefix(DirOf(arg), e.path)
                           ELSE e.drive \in DriveOf(curdir) /\ IsPrefix(NamesOf(curdir), e.path)
    OBVIOUS
  <2>1. ~is_safe
    BY DEF Write, Mkdir, Rmdir, Refused
  <2> QED BY <2>1, StaysBelow
<1>2. ChangesStayInContext <=> [][Stays]_vars
  BY DEF ChangesStayInContext
<1> QED BY <1>1, <1>2, InvHolds, PTL DEF Spec

=============================================================================
