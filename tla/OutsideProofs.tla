--------------------------- MODULE OutsideProofs ----------------------------
(***************************************************************************)
(* A digest says what its feed said; and each part of what is outside      *)
(* keeps its properties in the composition of them all.                    *)
(***************************************************************************)
EXTENDS Outside, ProgrammeProofs, UnderstandingProofs, MeasurementsProofs, FiniteSetTheorems, SequenceTheorems, TLAPS

-----------------------------------------------------------------------------
(***************************************************************************)
(* NewsFeed: the order, the choice and the parts of a digest.              *)
(***************************************************************************)

(***************************************************************************)
(* The order of what is in a finite set.                                   *)
(***************************************************************************)

Orders(before, S) ==
  /\ \A i \in S : <<i, i>> \notin before
  /\ \A i, j \in S : i # j => <<i, j>> \in before \/ <<j, i>> \in before
  /\ \A i, j, k \in S : <<i, j>> \in before /\ <<j, k>> \in before => <<i, k>> \in before

\* When one comes before the other of any two, there is an n-th for each n, and the
\* n-th come in their order.
LEMMA InSequence ==
  ASSUME NEW S, IsFiniteSet(S), NEW before,
         Orders(before, S)
  PROVE  /\ Cardinality(S) \in Nat
         /\ DOMAIN inSequence(S, before) = 1..Cardinality(S)
         /\ \A n \in 1..Cardinality(S) : inSequence(S, before)[n] \in S
         /\ \A m, n \in 1..Cardinality(S) : m < n => <<inSequence(S, before)[m], inSequence(S, before)[n]>> \in before
         /\ \A i \in S : \E n \in 1..Cardinality(S) : inSequence(S, before)[n] = i
<1>0. /\ \A i \in S : <<i, i>> \notin before
      /\ \A i, j \in S : i # j => <<i, j>> \in before \/ <<j, i>> \in before
      /\ \A i, j, k \in S : <<i, j>> \in before /\ <<j, k>> \in before => <<i, k>> \in before
  BY DEF Orders
<1>1. PICK N : N = Cardinality(S)
  OBVIOUS
<1>2. N \in Nat
  BY <1>1, FS_CardinalityType
<1>3. PICK Sooner : Sooner = [i \in S |-> {j \in S : <<j, i>> \in before}]
  OBVIOUS
<1>4. PICK rank : rank = [i \in S |-> Cardinality(Sooner[i])]
  OBVIOUS
<1>5. \A i \in S : Sooner[i] \in SUBSET S /\ i \notin Sooner[i] /\ IsFiniteSet(Sooner[i]) /\ rank[i] \in Nat
  <2>1. \A i \in S : Sooner[i] \in SUBSET S /\ i \notin Sooner[i]
    BY <1>0, <1>3
  <2>2. \A i \in S : IsFiniteSet(Sooner[i])
    BY <2>1, FS_Subset
  <2>3. \A i \in S : rank[i] = Cardinality(Sooner[i])
    BY <1>4
  <2> QED
    BY <2>1, <2>2, <2>3, FS_CardinalityType
<1>6. \A i \in S : rank[i] < N
  <2>1. SUFFICES ASSUME NEW i \in S PROVE rank[i] < N
    OBVIOUS
  <2>2. Sooner[i] \in SUBSET S /\ Sooner[i] # S
    BY <1>5
  <2>3. Cardinality(Sooner[i]) <= Cardinality(S) /\ Cardinality(Sooner[i]) # Cardinality(S)
    BY <2>2, FS_Subset
  <2>4. rank[i] = Cardinality(Sooner[i])
    BY <1>4
  <2> QED
    BY <1>1, <1>2, <1>5, <2>3, <2>4
<1>7. ASSUME NEW i \in S, NEW k \in S, <<i, k>> \in before
      PROVE  rank[i] < rank[k]
  <2>1. Sooner[i] \in SUBSET Sooner[k]
    BY <1>0, <1>3, <1>7
  <2>2. i \in Sooner[k] /\ i \notin Sooner[i]
    BY <1>0, <1>3, <1>7
  <2>3. IsFiniteSet(Sooner[k]) /\ Sooner[i] # Sooner[k]
    BY <1>5, <2>2
  <2>4. Cardinality(Sooner[i]) <= Cardinality(Sooner[k]) /\ Cardinality(Sooner[i]) # Cardinality(Sooner[k])
    BY <2>1, <2>3, FS_Subset
  <2>5. rank[i] = Cardinality(Sooner[i]) /\ rank[k] = Cardinality(Sooner[k])
    BY <1>4
  <2> QED
    BY <1>5, <2>4, <2>5
<1>8. \A i, k \in S : rank[i] = rank[k] => i = k
  <2>1. SUFFICES ASSUME NEW i \in S, NEW k \in S, rank[i] = rank[k], i # k PROVE FALSE
    OBVIOUS
  <2>2. rank[i] < rank[k] \/ rank[k] < rank[i]
    BY <1>0, <1>7, <2>1
  <2> QED
    BY <1>5, <2>1, <2>2
<1>9. ASSUME NEW n \in 1..N
      PROVE  \E i \in S : rank[i] = n - 1
  <2>1. SUFFICES ASSUME \A i \in S : rank[i] # n - 1 PROVE FALSE
    OBVIOUS
  <2>2. PICK T : T = (0..N - 1) \ {n - 1}
    OBVIOUS
  <2>3. IsFiniteSet(0..N - 1) /\ Cardinality(0..N - 1) = N
    BY <1>2, <1>9, FS_Interval
  <2>4. IsFiniteSet(T) /\ Cardinality(T) = N - 1
    <3>1. PICK Q : Q = 0..N - 1
      OBVIOUS
    <3>2. n - 1 \in Q /\ IsFiniteSet(Q) /\ Cardinality(Q) = N /\ T = Q \ {n - 1}
      BY <1>2, <2>2, <2>3, <3>1
    <3> QED
      BY <3>2, FS_RemoveElement
  <2>5. rank \in [S -> T]
    <3>1. \A i \in S : rank[i] \in T
      BY <1>2, <1>5, <1>6, <2>1, <2>2
    <3> QED
      BY <1>4, <3>1
  <2>6. Cardinality(T) < Cardinality(S)
    BY <1>1, <1>2, <2>4
  <2>7. \E x, y \in S : x # y /\ rank[x] = rank[y]
    BY <2>4, <2>5, <2>6, FS_PigeonHole
  <2> QED
    BY <1>8, <2>7
<1>10. PICK order : order = inSequence(S, before)
  OBVIOUS
<1>11. DOMAIN order = 1..N /\ \A n \in 1..N : order[n] \in S /\ rank[order[n]] = n - 1
  <2>1. order = [n \in 1..N |-> CHOOSE i \in S : Cardinality({j \in S : <<j, i>> \in before}) = n - 1]
    BY <1>1, <1>10 DEF inSequence
  <2>2. \A i \in S : rank[i] = Cardinality({j \in S : <<j, i>> \in before})
    BY <1>3, <1>4
  <2>3. SUFFICES ASSUME NEW n \in 1..N PROVE order[n] \in S /\ rank[order[n]] = n - 1
    BY <2>1
  <2>4. order[n] = CHOOSE i \in S : Cardinality({j \in S : <<j, i>> \in before}) = n - 1
    BY <2>1
  <2>5. \E i \in S : Cardinality({j \in S : <<j, i>> \in before}) = n - 1
    BY <1>9, <2>2
  <2>6. order[n] \in S /\ Cardinality({j \in S : <<j, order[n]>> \in before}) = n - 1
    BY <2>4, <2>5
  <2> QED
    BY <2>2, <2>6
<1>12. ASSUME NEW m \in 1..N, NEW n \in 1..N, m < n
       PROVE  <<order[m], order[n]>> \in before
  <2>1. order[m] \in S /\ order[n] \in S /\ rank[order[m]] = m - 1 /\ rank[order[n]] = n - 1
    BY <1>11
  <2>2. order[m] # order[n]
    BY <1>2, <1>12, <2>1
  <2>3. ~ (<<order[n], order[m]>> \in before)
    <3>1. SUFFICES ASSUME <<order[n], order[m]>> \in before PROVE FALSE
      OBVIOUS
    <3>2. rank[order[n]] < rank[order[m]]
      BY <1>7, <2>1, <3>1
    <3> QED
      BY <1>2, <1>12, <2>1, <3>2
  <2> QED
    BY <1>0, <2>1, <2>2, <2>3
<1>13. ASSUME NEW i \in S
       PROVE  \E n \in 1..N : order[n] = i
  <2>1. rank[i] \in Nat /\ rank[i] < N
    BY <1>5, <1>6
  <2>2. rank[i] + 1 \in 1..N
    BY <1>2, <2>1
  <2>3. PICK n \in 1..N : n = rank[i] + 1
    BY <2>2
  <2>4. order[n] \in S /\ rank[order[n]] = n - 1
    BY <1>11
  <2>5. rank[order[n]] = rank[i]
    BY <2>1, <2>3, <2>4
  <2> QED
    BY <1>8, <2>4, <2>5
<1> QED
  BY <1>1, <1>2, <1>10, <1>11, <1>12, <1>13

(***************************************************************************)
(* Sequences that are joined, measured and packed.                         *)
(***************************************************************************)

\* What a sequence of sequences is joined to, prefix by prefix.
JoinedBy(f, ss) ==
  /\ f[1] = ss[1]
  /\ \A n \in 2..Len(ss) : f[n] = f[n - 1] \o ss[n]

LEMMA JoinExists ==
  ASSUME NEW ss, NEW N \in Nat
  PROVE  \E f : f = [i \in 1..N |-> IF i = 1 THEN ss[i] ELSE f[i - 1] \o ss[i]]
<1> DEFINE Fits(f, n) == \A i \in 1..n : f[i] = IF i = 1 THEN ss[i] ELSE f[i - 1] \o ss[i]
           S == {n \in Nat : \E f : Fits(f, n)}
<1>1. 0 \in S
  OBVIOUS
<1>2. ASSUME NEW n \in Nat, n \in S
      PROVE  n + 1 \in S
  <2>1. PICK f : Fits(f, n)
    BY <1>2
  <2>2. PICK g : g = [i \in 1..n + 1 |-> IF i = 1 THEN ss[i] ELSE f[i - 1] \o ss[i]]
    OBVIOUS
  <2>3. \A i \in 1..n + 1 : g[i] = IF i = 1 THEN ss[i] ELSE f[i - 1] \o ss[i]
    BY <2>2
  <2>4. \A i \in 1..n : i \in 1..n + 1
    OBVIOUS
  <2>5. \A i \in 1..n : g[i] = f[i]
    BY <2>1, <2>3, <2>4
  <2>6. \A i \in 1..n + 1 : i # 1 => i - 1 \in 1..n
    OBVIOUS
  <2>7. Fits(g, n + 1)
    BY <2>3, <2>5, <2>6
  <2> HIDE DEF Fits
  <2> QED
    BY <2>7
<1>3. N \in S
  BY <1>1, <1>2, NatInd
<1>4. PICK f : Fits(f, N)
  BY <1>3
<1>5. PICK g : g = [i \in 1..N |-> f[i]]
  OBVIOUS
<1>6. \A i \in 1..N : g[i] = f[i] /\ (i # 1 => i - 1 \in 1..N)
  BY <1>5
<1>7. Fits(g, N)
  BY <1>4, <1>6
<1>8. g = [i \in 1..N |-> IF i = 1 THEN ss[i] ELSE g[i - 1] \o ss[i]]
  BY <1>5, <1>7, Zenon
<1> QED
  BY <1>8

LEMMA JoinedUp ==
  ASSUME NEW ss, NEW N \in Nat \ {0}, Len(ss) = N
  PROVE  \E f : JoinedBy(f, ss) /\ FlattenSeq(ss) = f[N]
<1>1. PICK f : f = CHOOSE g : g = [i \in 1..N |-> IF i = 1 THEN ss[i] ELSE g[i - 1] \o ss[i]]
  OBVIOUS
<1>2. f = [i \in 1..N |-> IF i = 1 THEN ss[i] ELSE f[i - 1] \o ss[i]]
  BY <1>1, JoinExists
<1>3. FlattenSeq(ss) = f[N]
  BY <1>1 DEF FlattenSeq
<1>4. JoinedBy(f, ss)
  <2>1. 1 \in 1..N /\ \A n \in 2..N : n \in 1..N /\ n # 1
    OBVIOUS
  <2> QED
    BY <1>2, <2>1 DEF JoinedBy
<1> QED
  BY <1>3, <1>4

\* An induction from one to a bound.
LEMMA UpTo ==
  ASSUME NEW N \in Nat, NEW S, N > 0 => 1 \in S, \A n \in 2..N : n - 1 \in S => n \in S
  PROVE  1..N \subseteq S
<1> DEFINE T == {n \in Nat : n \in 1..N => n \in S}
<1>1. 0 \in T
  OBVIOUS
<1>2. ASSUME NEW n \in Nat, n \in T
      PROVE  n + 1 \in T
  <2>1. SUFFICES ASSUME n + 1 \in 1..N PROVE n + 1 \in S
    OBVIOUS
  <2>2. CASE n = 0
    BY <2>1, <2>2
  <2>3. CASE n # 0
    <3>1. n \in 1..N /\ n + 1 \in 2..N /\ n = (n + 1) - 1
      BY <2>1, <2>3
    <3>2. (n + 1) - 1 \in S
      BY <1>2, <3>1
    <3> QED
      BY <3>1, <3>2
  <2> QED
    BY <2>2, <2>3
<1>3. Nat \subseteq T
  BY <1>1, <1>2, NatInd
<1> QED
  BY <1>3

LEMMA JoinedIsASeq ==
  ASSUME NEW X, NEW ss \in Seq(Seq(X)), NEW f, JoinedBy(f, ss)
  PROVE  \A n \in 1..Len(ss) : f[n] \in Seq(X)
<1>1. PICK N : N = Len(ss)
  OBVIOUS
<1>2. N \in Nat /\ \A n \in 1..N : ss[n] \in Seq(X)
  BY <1>1
<1> DEFINE S == {n \in Nat : f[n] \in Seq(X)}
<1>3. N > 0 => 1 \in S
  BY <1>2 DEF JoinedBy
<1>4. ASSUME NEW n \in 2..N, n - 1 \in S
      PROVE  n \in S
  <2>0. n \in 1..N /\ n \in 2..Len(ss)
    BY <1>1, <1>2
  <2>1. f[n] = f[n - 1] \o ss[n] /\ ss[n] \in Seq(X)
    BY <1>2, <2>0 DEF JoinedBy
  <2>2. f[n] \in Seq(X)
    BY <1>4, <2>1, ConcatProperties
  <2> QED
    BY <2>2
<1>5. 1..N \subseteq S
  <2> HIDE DEF S
  <2> QED
    BY <1>2, <1>3, <1>4, UpTo
<1> QED
  BY <1>1, <1>5

LEMMA JoinedAlike ==
  ASSUME NEW X, NEW ss \in Seq(Seq(X)), NEW s \in Seq(X), NEW f, NEW g,
         JoinedBy(f, ss), JoinedBy(g, Append(ss, s))
  PROVE  \A n \in 1..Len(ss) : f[n] = g[n]
<1>1. PICK N : N = Len(ss)
  OBVIOUS
<1>2. PICK tt : tt = Append(ss, s)
  OBVIOUS
<1>3. N \in Nat /\ Len(tt) = N + 1 /\ \A n \in 1..N : tt[n] = ss[n]
  BY <1>1, <1>2, AppendProperties
<1> DEFINE S == {n \in Nat : f[n] = g[n]}
<1>4. N > 0 => 1 \in S
  <2>1. N > 0 => f[1] = ss[1] /\ tt[1] = ss[1]
    BY <1>3 DEF JoinedBy
  <2>2. g[1] = tt[1]
    BY <1>2 DEF JoinedBy
  <2> QED
    BY <2>1, <2>2
<1>5. ASSUME NEW n \in 2..N, n - 1 \in S
      PROVE  n \in S
  <2>1. f[n] = f[n - 1] \o ss[n]
    BY <1>1 DEF JoinedBy
  <2>2. n \in 2..Len(tt) /\ n \in 1..N
    BY <1>3
  <2>3. g[n] = g[n - 1] \o tt[n]
    BY <1>2, <2>2 DEF JoinedBy
  <2>4. f[n - 1] = g[n - 1] /\ tt[n] = ss[n]
    BY <1>3, <1>5, <2>2
  <2>5. f[n] = g[n]
    BY <2>1, <2>3, <2>4
  <2> QED
    BY <2>5
<1>6. 1..N \subseteq S
  <2> HIDE DEF S
  <2> QED
    BY <1>3, <1>4, <1>5, UpTo
<1> QED
  BY <1>1, <1>6

LEMMA FlattenEmpty == FlattenSeq(<<>>) = <<>>
BY DEF FlattenSeq

\* What is joined is a sequence, and one more is put at its end.
LEMMA FlattenAppend ==
  ASSUME NEW X, NEW ss \in Seq(Seq(X)), NEW s \in Seq(X)
  PROVE  /\ FlattenSeq(ss) \in Seq(X)
         /\ FlattenSeq(Append(ss, s)) = FlattenSeq(ss) \o s
<1>1. PICK N : N = Len(ss)
  OBVIOUS
<1>2. PICK tt : tt = Append(ss, s)
  OBVIOUS
<1>3. N \in Nat /\ Len(tt) = N + 1 /\ tt[N + 1] = s /\ tt \in Seq(Seq(X))
  BY <1>1, <1>2, AppendProperties
<1>4. PICK g : JoinedBy(g, tt) /\ FlattenSeq(tt) = g[N + 1]
  BY <1>3, JoinedUp
<1>5. CASE N = 0
  <2>1. ss = <<>>
    BY <1>1, <1>5, EmptySeq
  <2>2. FlattenSeq(ss) = <<>> /\ <<>> \in Seq(X)
    BY <2>1, FlattenEmpty
  <2>3. g[1] = s
    BY <1>3, <1>4, <1>5 DEF JoinedBy
  <2>4. <<>> \o s = s
    BY ConcatEmptySeq
  <2> QED
    BY <1>2, <1>4, <1>5, <2>2, <2>3, <2>4
<1>6. CASE N # 0
  <2>1. PICK f : JoinedBy(f, ss) /\ FlattenSeq(ss) = f[N]
    BY <1>1, <1>3, <1>6, JoinedUp
  <2>2. N \in 1..N /\ N + 1 \in 2..Len(tt) /\ (N + 1) - 1 = N
    BY <1>3, <1>6
  <2>3. f[N] \in Seq(X)
    BY <1>1, <2>1, <2>2, JoinedIsASeq
  <2>4. f[N] = g[N]
    BY <1>1, <1>2, <1>4, <2>1, <2>2, JoinedAlike
  <2>5. g[N + 1] = g[(N + 1) - 1] \o tt[N + 1]
    BY <1>4, <2>2 DEF JoinedBy
  <2> QED
    BY <1>2, <1>3, <1>4, <2>1, <2>2, <2>3, <2>4, <2>5
<1> QED
  BY <1>5, <1>6

\* What is joined comes from one of the sequences.
LEMMA FlattenFrom ==
  ASSUME NEW X, NEW ss \in Seq(Seq(X)), NEW k \in 1..Len(FlattenSeq(ss))
  PROVE  \E i \in 1..Len(ss) : FlattenSeq(ss)[k] \in Range(ss[i])
<1>1. PICK N : N = Len(ss)
  OBVIOUS
<1>2. N \in Nat /\ \A n \in 1..N : ss[n] \in Seq(X)
  BY <1>1
<1>3. CASE N = 0
  <2>1. ss = <<>>
    BY <1>1, <1>3, EmptySeq
  <2>2. Len(FlattenSeq(ss)) = 0
    BY <2>1, FlattenEmpty
  <2> QED
    BY <2>2
<1>4. CASE N # 0
  <2>1. PICK f : JoinedBy(f, ss) /\ FlattenSeq(ss) = f[N]
    BY <1>1, <1>2, <1>4, JoinedUp
  <2>2. \A n \in 1..N : f[n] \in Seq(X)
    BY <1>1, <2>1, JoinedIsASeq
  <2> DEFINE From(n) == \A j \in 1..Len(f[n]) : \E i \in 1..n : f[n][j] \in Range(ss[i])
             S == {n \in Nat : From(n)}
  <2>3. N > 0 => 1 \in S
    <3>1. SUFFICES ASSUME NEW j \in 1..Len(ss[1]), N > 0 PROVE \E i \in 1..1 : ss[1][j] \in Range(ss[i])
      BY <2>1 DEF JoinedBy
    <3>2. ss[1] \in Seq(X)
      BY <1>2, <3>1
    <3>3. ss[1][j] \in Range(ss[1])
      BY <3>2 DEF Range
    <3> QED
      BY <3>3
  <2>4. ASSUME NEW n \in 2..N, n - 1 \in S
        PROVE  n \in S
    <3>1. n - 1 \in 1..N /\ n \in 1..N
      BY <1>2
    <3>2. PICK a \in Seq(X) : a = f[n - 1]
      BY <2>2, <3>1
    <3>3. PICK b \in Seq(X) : b = ss[n]
      BY <1>2, <3>1
    <3>4. f[n] = a \o b
      BY <1>1, <2>1, <3>2, <3>3 DEF JoinedBy
    <3>5. ASSUME NEW j \in 1..Len(a \o b)
          PROVE  \E i \in 1..n : (a \o b)[j] \in Range(ss[i])
      <4>1. Len(a) \in Nat /\ Len(b) \in Nat /\ j \in 1..Len(a) + Len(b)
        BY ConcatProperties
      <4>2. CASE j <= Len(a)
        <5>1. j \in 1..Len(a) /\ (a \o b)[j] = a[j]
          BY <4>1, <4>2, ConcatProperties
        <5>2. PICK i \in 1..n - 1 : a[j] \in Range(ss[i])
          BY <2>4, <3>2, <5>1
        <5>3. i \in 1..n
          BY <3>1
        <5> QED
          BY <5>1, <5>2, <5>3
      <4>3. CASE ~(j <= Len(a))
        <5>1. PICK m : m = j - Len(a)
          OBVIOUS
        <5>2. m \in 1..Len(b) /\ (a \o b)[j] = b[m]
          BY <4>1, <4>3, <5>1, ConcatProperties
        <5>3. b[m] \in Range(b)
          BY <5>2 DEF Range
        <5>4. n \in 1..n
          BY <3>1
        <5> QED
          BY <3>3, <5>2, <5>3, <5>4
      <4> QED
        BY <4>2, <4>3
    <3>6. From(n)
      BY <3>4, <3>5
    <3> HIDE DEF From
    <3> QED
      BY <3>1, <3>6
  <2>5. 1..N \subseteq S
    <3> HIDE DEF S
    <3> QED
      BY <1>2, <2>3, <2>4, UpTo
  <2>6. From(N)
    <3> HIDE DEF From
    <3> QED
      BY <1>2, <1>4, <2>5
  <2> QED
    BY <1>1, <2>1, <2>6
<1> QED
  BY <1>3, <1>4

\* The length of a message, item by item.
MeasuredBy(f, piece) == \A n \in 0..Len(piece) : f[n] = IF n = 0 THEN 0 ELSE f[n - 1] + blockLength(piece[n])

LEMMA LengthExists ==
  ASSUME NEW piece, NEW N \in Nat
  PROVE  \E f : f = [n \in 0..N |-> IF n = 0 THEN 0 ELSE f[n - 1] + blockLength(piece[n])]
<1> DEFINE Fits(f, m) == \A n \in 0..m : f[n] = IF n = 0 THEN 0 ELSE f[n - 1] + blockLength(piece[n])
           S == {m \in Nat : \E f : Fits(f, m)}
<1>1. 0 \in S
  <2>1. PICK f : f = [n \in 0..0 |-> 0]
    OBVIOUS
  <2>2. Fits(f, 0)
    BY <2>1
  <2> HIDE DEF Fits
  <2> QED
    BY <2>2
<1>2. ASSUME NEW m \in Nat, m \in S
      PROVE  m + 1 \in S
  <2>1. PICK f : Fits(f, m)
    BY <1>2
  <2>2. PICK g : g = [n \in 0..m + 1 |-> IF n = 0 THEN 0 ELSE f[n - 1] + blockLength(piece[n])]
    OBVIOUS
  <2>3. \A n \in 0..m + 1 : g[n] = IF n = 0 THEN 0 ELSE f[n - 1] + blockLength(piece[n])
    BY <2>2
  <2>4. \A n \in 0..m : n \in 0..m + 1
    OBVIOUS
  <2>5. \A n \in 0..m : g[n] = f[n]
    BY <2>1, <2>3, <2>4
  <2>6. \A n \in 0..m + 1 : n # 0 => n - 1 \in 0..m
    OBVIOUS
  <2>7. Fits(g, m + 1)
    BY <2>3, <2>5, <2>6
  <2> HIDE DEF Fits
  <2> QED
    BY <2>7
<1>3. N \in S
  <2> HIDE DEF S
  <2> QED
    BY <1>1, <1>2, NatInd
<1>4. PICK f : Fits(f, N)
  BY <1>3
<1>5. PICK g : g = [n \in 0..N |-> f[n]]
  OBVIOUS
<1>6. \A n \in 0..N : g[n] = f[n] /\ (n # 0 => n - 1 \in 0..N)
  BY <1>5
<1>7. Fits(g, N)
  BY <1>4, <1>6
<1>8. g = [n \in 0..N |-> IF n = 0 THEN 0 ELSE g[n - 1] + blockLength(piece[n])]
  BY <1>5, <1>7, Zenon
<1> QED
  BY <1>8

LEMMA MeasuredOnce ==
  ASSUME NEW piece, Len(piece) \in Nat
  PROVE  \E f : MeasuredBy(f, piece) /\ PartLength(piece) = f[Len(piece)]
<1>1. PICK f : f = CHOOSE g : g = [n \in 0..Len(piece) |-> IF n = 0 THEN 0 ELSE g[n - 1] + blockLength(piece[n])]
  OBVIOUS
<1>2. f = [n \in 0..Len(piece) |-> IF n = 0 THEN 0 ELSE f[n - 1] + blockLength(piece[n])]
  BY <1>1, LengthExists
<1>3. PartLength(piece) = f[Len(piece)]
  BY <1>1 DEF PartLength
<1>4. MeasuredBy(f, piece)
  BY <1>2 DEF MeasuredBy
<1> QED
  BY <1>3, <1>4

\* A message is longer by the item that is put at its end.
LEMMA PartGrows ==
  ASSUME NEW X, NEW piece \in Seq(X), NEW item \in X
  PROVE  PartLength(Append(piece, item)) = PartLength(piece) + blockLength(item)
<1>1. PICK N : N = Len(piece)
  OBVIOUS
<1>2. PICK longer : longer = Append(piece, item)
  OBVIOUS
<1>3. /\ N \in Nat /\ Len(longer) = N + 1 /\ longer[N + 1] = item
      /\ \A n \in 1..N : longer[n] = piece[n]
  BY <1>1, <1>2, AppendProperties
<1>4. PICK f : MeasuredBy(f, piece) /\ PartLength(piece) = f[N]
  BY <1>1, <1>3, MeasuredOnce
<1>5. PICK g : MeasuredBy(g, longer) /\ PartLength(longer) = g[N + 1]
  BY <1>3, MeasuredOnce
<1>6. /\ \A n \in 0..N : f[n] = IF n = 0 THEN 0 ELSE f[n - 1] + blockLength(piece[n])
      /\ \A n \in 0..N + 1 : g[n] = IF n = 0 THEN 0 ELSE g[n - 1] + blockLength(longer[n])
  BY <1>1, <1>3, <1>4, <1>5 DEF MeasuredBy
<1> DEFINE S == {n \in Nat : n <= N => f[n] = g[n]}
<1>7. 0 \in S
  BY <1>3, <1>6
<1>8. ASSUME NEW n \in Nat, n \in S
      PROVE  n + 1 \in S
  <2>1. SUFFICES ASSUME n + 1 <= N PROVE f[n + 1] = g[n + 1]
    OBVIOUS
  <2>2. PICK k \in 1..N : k = n + 1
    BY <1>3, <2>1
  <2>3. k \in 0..N /\ k \in 0..N + 1 /\ k # 0 /\ k - 1 = n /\ n <= N
    BY <1>3, <2>2
  <2>4. f[k] = f[k - 1] + blockLength(piece[k]) /\ g[k] = g[k - 1] + blockLength(longer[k])
    BY <1>6, <2>3
  <2>5. f[n] = g[n] /\ longer[k] = piece[k]
    BY <1>3, <1>8, <2>3
  <2> QED
    BY <2>2, <2>3, <2>4, <2>5
<1>9. f[N] = g[N]
  <2> HIDE DEF S
  <2>1. N \in S
    BY <1>3, <1>7, <1>8, NatInd
  <2> QED
    BY <1>3, <2>1 DEF S
<1>10. N + 1 \in 0..N + 1 /\ N + 1 # 0 /\ (N + 1) - 1 = N
  BY <1>3
<1>11. g[N + 1] = g[N] + blockLength(longer[N + 1])
  BY <1>6, <1>10
<1> QED
  BY <1>2, <1>3, <1>4, <1>5, <1>9, <1>11

LEMMA PackExists ==
  ASSUME NEW items, NEW N \in Nat
  PROVE  \E f : f = [n \in 0..N |-> IF n = 0 THEN <<>> ELSE Packed(f[n - 1], items[n])]
<1> DEFINE Fits(f, m) == \A n \in 0..m : f[n] = IF n = 0 THEN <<>> ELSE Packed(f[n - 1], items[n])
           S == {m \in Nat : \E f : Fits(f, m)}
<1>1. 0 \in S
  <2>1. PICK f : f = [n \in 0..0 |-> <<>>]
    OBVIOUS
  <2>2. Fits(f, 0)
    BY <2>1
  <2> HIDE DEF Fits
  <2> QED
    BY <2>2
<1>2. ASSUME NEW m \in Nat, m \in S
      PROVE  m + 1 \in S
  <2>1. PICK f : Fits(f, m)
    BY <1>2
  <2>2. PICK g : g = [n \in 0..m + 1 |-> IF n = 0 THEN <<>> ELSE Packed(f[n - 1], items[n])]
    OBVIOUS
  <2>3. \A n \in 0..m + 1 : g[n] = IF n = 0 THEN <<>> ELSE Packed(f[n - 1], items[n])
    BY <2>2
  <2>4. \A n \in 0..m : n \in 0..m + 1
    OBVIOUS
  <2>5. \A n \in 0..m : g[n] = f[n]
    BY <2>1, <2>3, <2>4
  <2>6. \A n \in 0..m + 1 : n # 0 => n - 1 \in 0..m
    OBVIOUS
  <2>7. Fits(g, m + 1)
    BY <2>3, <2>5, <2>6
  <2> HIDE DEF Fits
  <2> QED
    BY <2>7
<1>3. N \in S
  <2> HIDE DEF S
  <2> QED
    BY <1>1, <1>2, NatInd
<1>4. PICK f : Fits(f, N)
  BY <1>3
<1>5. PICK g : g = [n \in 0..N |-> f[n]]
  OBVIOUS
<1>6. \A n \in 0..N : g[n] = f[n] /\ (n # 0 => n - 1 \in 0..N)
  BY <1>5
<1>7. Fits(g, N)
  BY <1>4, <1>6
<1>8. g = [n \in 0..N |-> IF n = 0 THEN <<>> ELSE Packed(g[n - 1], items[n])]
  BY <1>5, <1>7, Zenon
<1> QED
  BY <1>8

\* One more item goes to the last message when it fits, and else to one of its own.
WellPacked(parts) ==
  \A i \in 1..Len(parts) : parts[i] # <<>> /\ (PartLength(parts[i]) <= maxContentLen \/ Len(parts[i]) = 1)

LEMMA PackedWell ==
  ASSUME NEW X, NEW parts \in Seq(Seq(X)), NEW item \in X, WellPacked(parts)
  PROVE  /\ Packed(parts, item) \in Seq(Seq(X)) /\ WellPacked(Packed(parts, item))
         /\ FlattenSeq(Packed(parts, item)) = Append(FlattenSeq(parts), item)
<1>1. CASE parts # <<>> /\ PartLength(Last(parts)) + blockLength(item) <= maxContentLen
  <2>1. PICK front \in Seq(Seq(X)), last \in Seq(X) : parts = Append(front, last)
    BY <1>1, SequenceEmptyOrAppend
  <2>2. PICK N : N = Len(front)
    OBVIOUS
  <2>3. /\ N \in Nat /\ Len(parts) = N + 1 /\ parts[N + 1] = last
        /\ \A i \in 1..N : parts[i] = front[i]
    BY <2>1, <2>2, AppendProperties
  <2>4. Last(parts) = last
    BY <2>3 DEF Last
  <2>5. Front(parts) = front
    <3>1. Front(parts) = SubSeq(parts, 1, N)
      BY <2>3 DEF Front
    <3>2. /\ SubSeq(parts, 1, N) \in Seq(Seq(X)) /\ Len(SubSeq(parts, 1, N)) = N
          /\ \A i \in 1..N : SubSeq(parts, 1, N)[i] = parts[i]
      <4>1. \A i \in 1..N : parts[i] \in Seq(X)
        BY <2>2, <2>3
      <4>2. \A i \in 1..N - 1 + 1 : SubSeq(parts, 1, N)[i] = parts[1 + i - 1]
        BY <2>3, <4>1, SubSeqProperties
      <4>3. SubSeq(parts, 1, N) \in Seq(Seq(X)) /\ Len(SubSeq(parts, 1, N)) = IF 1 <= N THEN N - 1 + 1 ELSE 0
        BY <2>3, <4>1, SubSeqProperties
      <4> QED
        BY <2>3, <4>2, <4>3
    <3> QED
      BY <2>2, <2>3, <3>1, <3>2, SeqEqual
  <2>6. PICK longer : longer = Append(last, item)
    OBVIOUS
  <2>7. longer \in Seq(X) /\ longer # <<>> /\ PartLength(longer) <= maxContentLen
    BY <1>1, <2>4, <2>6, AppendProperties, PartGrows
  <2>8. PICK packed : packed = Append(front, longer)
    OBVIOUS
  <2>9. Packed(parts, item) = packed
    BY <1>1, <2>4, <2>5, <2>6, <2>8 DEF Packed
  <2>10. /\ packed \in Seq(Seq(X)) /\ Len(packed) = N + 1 /\ packed[N + 1] = longer
         /\ \A i \in 1..N : packed[i] = front[i]
    BY <2>2, <2>7, <2>8, AppendProperties
  <2>11. WellPacked(packed)
    <3>1. SUFFICES ASSUME NEW i \in 1..N + 1
                   PROVE  packed[i] # <<>> /\ (PartLength(packed[i]) <= maxContentLen \/ Len(packed[i]) = 1)
      BY <2>10 DEF WellPacked
    <3>2. CASE i = N + 1
      BY <2>7, <2>10, <3>2
    <3>3. CASE i # N + 1
      <4>1. i \in 1..N /\ i \in 1..N + 1
        BY <2>3, <3>3
      <4> QED
        BY <2>3, <2>10, <4>1 DEF WellPacked
    <3> QED
      BY <3>2, <3>3
  <2>12. FlattenSeq(packed) = Append(FlattenSeq(parts), item)
    <3>1. PICK whole \in Seq(X) : whole = FlattenSeq(front)
      BY <2>1, FlattenAppend
    <3>2. FlattenSeq(packed) = whole \o longer /\ FlattenSeq(parts) = whole \o last
      BY <2>1, <2>7, <2>8, <3>1, FlattenAppend
    <3>3. longer = last \o <<item>> /\ <<item>> \in Seq(X)
      BY <2>1, <2>6, AppendIsConcat
    <3>4. whole \o (last \o <<item>>) = (whole \o last) \o <<item>>
      BY <2>1, <3>1, <3>3, ConcatAssociative
    <3>5. whole \o last \in Seq(X)
      BY <2>1, <3>1, ConcatProperties
    <3>6. Append(whole \o last, item) = (whole \o last) \o <<item>>
      BY <3>5, AppendIsConcat
    <3> QED
      BY <3>2, <3>3, <3>4, <3>6
  <2> QED
    BY <2>9, <2>10, <2>11, <2>12
<1>2. CASE ~(parts # <<>> /\ PartLength(Last(parts)) + blockLength(item) <= maxContentLen)
  <2>1. PICK single : single = <<item>>
    OBVIOUS
  <2>2. single \in Seq(X) /\ single # <<>> /\ Len(single) = 1
    BY <2>1
  <2>3. PICK packed : packed = Append(parts, single)
    OBVIOUS
  <2>4. Packed(parts, item) = packed
    BY <1>2, <2>1, <2>3 DEF Packed
  <2>5. PICK N : N = Len(parts)
    OBVIOUS
  <2>6. /\ packed \in Seq(Seq(X)) /\ N \in Nat /\ Len(packed) = N + 1 /\ packed[N + 1] = single
        /\ \A i \in 1..N : packed[i] = parts[i]
    BY <2>2, <2>3, <2>5, AppendProperties
  <2>7. WellPacked(packed)
    <3>1. SUFFICES ASSUME NEW i \in 1..N + 1
                   PROVE  packed[i] # <<>> /\ (PartLength(packed[i]) <= maxContentLen \/ Len(packed[i]) = 1)
      BY <2>6 DEF WellPacked
    <3>2. CASE i = N + 1
      BY <2>2, <2>6, <3>2
    <3>3. CASE i # N + 1
      <4>1. i \in 1..N
        BY <2>6, <3>3
      <4> QED
        BY <2>5, <2>6, <4>1 DEF WellPacked
    <3> QED
      BY <3>2, <3>3
  <2>8. FlattenSeq(packed) = Append(FlattenSeq(parts), item)
    <3>1. PICK whole \in Seq(X) : whole = FlattenSeq(parts)
      BY <2>2, FlattenAppend
    <3>2. FlattenSeq(packed) = whole \o single
      BY <2>2, <2>3, <3>1, FlattenAppend
    <3>3. Append(whole, item) = whole \o <<item>>
      BY <3>1, AppendIsConcat
    <3> QED
      BY <2>1, <3>1, <3>2, <3>3
  <2> QED
    BY <2>4, <2>6, <2>7, <2>8
<1> QED
  BY <1>1, <1>2

\* The messages of a digest are its items, packed well.
LEMMA Rendered ==
  ASSUME NEW X, NEW items \in Seq(X)
  PROVE  /\ renderNewsDigest(items) \in Seq(Seq(X)) /\ WellPacked(renderNewsDigest(items))
         /\ FlattenSeq(renderNewsDigest(items)) = items
<1>1. PICK N : N = Len(items)
  OBVIOUS
<1>2. N \in Nat /\ \A n \in 1..N : items[n] \in X
  BY <1>1
<1>3. PICK f : f = CHOOSE g : g = [n \in 0..N |-> IF n = 0 THEN <<>> ELSE Packed(g[n - 1], items[n])]
  OBVIOUS
<1>4. f = [n \in 0..N |-> IF n = 0 THEN <<>> ELSE Packed(f[n - 1], items[n])]
  BY <1>2, <1>3, PackExists
<1>5. renderNewsDigest(items) = f[N]
  BY <1>1, <1>3 DEF renderNewsDigest
<1> DEFINE Good(parts, n) == /\ parts \in Seq(Seq(X)) /\ WellPacked(parts)
                             /\ FlattenSeq(parts) = SubSeq(items, 1, n)
           S == {n \in Nat : n <= N => Good(f[n], n)}
<1>6. 0 \in S
  <2>1. f[0] = <<>>
    BY <1>2, <1>4
  <2>2. <<>> \in Seq(Seq(X)) /\ WellPacked(<<>>)
    BY DEF WellPacked
  <2>3. SubSeq(items, 1, 0) = <<>>
    BY SubSeqEmpty
  <2> QED
    BY <2>1, <2>2, <2>3, FlattenEmpty
<1>7. ASSUME NEW n \in Nat, n \in S
      PROVE  n + 1 \in S
  <2>1. SUFFICES ASSUME n + 1 <= N PROVE Good(f[n + 1], n + 1)
    OBVIOUS
  <2>2. PICK k \in 1..N : k = n + 1
    BY <1>2, <2>1
  <2>3. k \in 0..N /\ k # 0 /\ k - 1 = n /\ n <= N /\ 1 \in 1..Len(items) /\ k \in 1..Len(items)
    BY <1>1, <1>2, <2>2
  <2>4. PICK parts \in Seq(Seq(X)) : parts = f[n] /\ WellPacked(parts) /\ FlattenSeq(parts) = SubSeq(items, 1, n)
    BY <1>7, <2>3
  <2>5. f[k] = Packed(parts, items[k])
    BY <1>4, <2>3, <2>4
  <2>6. items[k] \in X
    BY <1>2
  <2>7. PICK next : next = Packed(parts, items[k])
    OBVIOUS
  <2>8. next \in Seq(Seq(X)) /\ WellPacked(next) /\ FlattenSeq(next) = Append(FlattenSeq(parts), items[k])
    BY <2>4, <2>6, <2>7, PackedWell
  <2>9. SubSeq(items, 1, k) = SubSeq(items, 1, k - 1) \o <<items[k]>>
    BY <2>3, SubSeqRecursiveSecond
  <2>10. SubSeq(items, 1, n) \in Seq(X)
    BY <1>1, <1>2, <2>3, SubSeqProperties
  <2>11. Append(SubSeq(items, 1, n), items[k]) = SubSeq(items, 1, n) \o <<items[k]>>
    BY <2>6, <2>10, AppendIsConcat
  <2>12. FlattenSeq(next) = SubSeq(items, 1, k)
    BY <2>3, <2>4, <2>8, <2>9, <2>11
  <2> QED
    BY <2>2, <2>5, <2>7, <2>8, <2>12
<1>8. Good(f[N], N)
  <2> HIDE DEF S, Good
  <2>1. N \in S
    BY <1>2, <1>6, <1>7, NatInd
  <2> QED
    BY <1>2, <2>1 DEF S
<1>9. SubSeq(items, 1, N) = items
  BY <1>1, SubSeqFull
<1> QED
  BY <1>5, <1>8, <1>9

(***************************************************************************)
(* A digest in the making: what its feeds told, and what is left of it.    *)
(***************************************************************************)
IsStory(item) ==
  item = [title |-> item.title, link |-> item.link, feed |-> item.feed, place |-> item.place,
          length |-> item.length, score |-> item.score]
\* The stories of the feeds that answered, each at its place.
AllTold(scored, got) ==
  /\ scored \in Seq(Range(scored))
  /\ \A k \in DOMAIN scored :
       IsStory(scored[k]) /\ scored[k].place = k /\ scored[k].score \in Int /\ got[scored[k].feed] = "items"
\* Nothing but these, whatever the words.
OnlyTold(items, scored) ==
  /\ items \in Seq(Range(items))
  /\ \A n \in DOMAIN items :
       IsStory(items[n]) /\ \E k \in DOMAIN scored :
         scored[k].place = items[n].place /\ scored[k].link = items[n].link /\ scored[k].feed = items[n].feed

IsDigest ==
  /\ digest = [phase |-> digest.phase, list |-> digest.list, items |-> digest.items,
               scored |-> digest.scored, got |-> digest.got]
  /\ digest.phase \in Phases /\ digest.list \in FeedLists /\ Len(digest.list) \in 1..maxFeedURLs
  /\ digest.got \in [DOMAIN digest.list -> {"waiting", "failed", "items"}]

\* What is merged is all that was told, and its order is the model's only when one ranks.
DigestInv ==
  /\ IsDigest /\ sent = None
  /\ digest.phase # "fetching" =>
       /\ \E i \in DOMAIN digest.list : digest.got[i] = "items"
       /\ AllTold(digest.scored, digest.got) /\ OnlyTold(digest.items, digest.scored)
       /\ digest.phase = "ranking" => ranker
       /\ digest.phase = "merged" \/ ~ranker => digest.items = dedupAndSort(digest.scored)

SentInv ==
  sent # None => sent.list \in FeedLists /\ \A i \in DOMAIN sent.parts : sent.parts[i] # <<>>

NewsInv ==
  /\ hours \in 0..MaxHours /\ ranker \in WithRanker
  /\ digest # None => DigestInv
  /\ SentInv /\ DigestIsFaithful

(***************************************************************************)
(* What the feeds tell.                                                    *)
(***************************************************************************)

\* A summary is the beginning of a text.
LEMMA SummaryIsASeq ==
  ASSUME NEW X, NEW pieces \in Seq(X)
  PROVE  extractSummary(pieces) \in Seq(X)
<1>1. PICK N : N = Len(pieces)
  OBVIOUS
<1>2. N \in Nat /\ DOMAIN pieces = 1..N /\ \A i \in 1..N : pieces[i] \in X
  BY <1>1
<1>3. PICK T : T = {i \in DOMAIN pieces : sentencesBefore(pieces, i) < summaryMaxSentences}
  OBVIOUS
<1>4. Cardinality(T) \in Nat /\ Cardinality(T) <= N
  <2>1. IsFiniteSet(1..N) /\ Cardinality(1..N) = N
    BY <1>2, FS_Interval
  <2>2. T \in SUBSET (1..N)
    BY <1>2, <1>3
  <2> QED
    BY <2>1, <2>2, FS_Subset, FS_CardinalityType
<1>5. PICK k : k = Cardinality(T)
  OBVIOUS
<1>6. \A i \in 1..k : pieces[i] \in X
  BY <1>2, <1>4, <1>5
<1>7. SubSeq(pieces, 1, k) \in Seq(X)
  BY <1>4, <1>5, <1>6, SubSeqProperties
<1> QED
  BY <1>3, <1>5, <1>7 DEF extractSummary

\* The greatest of a number and another.
LEMMA TheGreater ==
  ASSUME NEW a \in Int, NEW b \in Int
  PROVE  Max({a, b}) \in {a, b} /\ Max({a, b}) >= a /\ Max({a, b}) >= b
<1>1. \E x \in {a, b} : \A y \in {a, b} : x >= y
  OBVIOUS
<1> QED
  BY <1>1 DEF Max

LEMMA ScoreIsANumber ==
  ASSUME NEW item, NEW readAt \in Int, NEW n \in Nat, DOMAIN item.summary = 1..n,
         item.published \in {None} \cup Int
  PROVE  scoreItem(item, readAt) \in Int
<1>1. PICK dated : dated = item.published
  OBVIOUS
<1>2. PICK summary : summary = item.summary
  OBVIOUS
<1>3. PICK T : T = {summary[i].keyword : i \in 1..n}
  OBVIOUS
<1>4. IsFiniteSet(T)
  <2>1. PICK f : f = [i \in 1..n |-> summary[i].keyword]
    OBVIOUS
  <2>2. f \in Surjection(1..n, T)
    BY <1>3, <2>1 DEF Surjection
  <2>3. IsFiniteSet(1..n)
    BY FS_Interval
  <2> QED
    BY <2>2, <2>3, FS_Surjection
<1>5. PICK keywords : keywords = ({item.titleKeyword} \cup T) \ {None}
  OBVIOUS
<1>6. IsFiniteSet(keywords)
  <2>1. IsFiniteSet(T \cup {item.titleKeyword})
    BY <1>4, FS_AddElement
  <2>2. IsFiniteSet((T \cup {item.titleKeyword}) \ {None})
    BY <2>1, FS_RemoveElement
  <2>3. keywords = (T \cup {item.titleKeyword}) \ {None}
    BY <1>5
  <2> QED
    BY <2>2, <2>3
<1>7. PICK count \in Nat : count = Cardinality(keywords)
  BY <1>6, FS_CardinalityType
<1>8. PICK age : age = Max({0, readAt - dated})
  OBVIOUS
<1>9. scoreItem(item, readAt) =
        10 * Window * count + IF dated = None THEN 0 ELSE IF age < Window THEN 7 * (Window - age) ELSE 0
  <2>1. {item.summary[i].keyword : i \in DOMAIN item.summary} = T
    BY <1>2, <1>3
  <2>2. ({item.titleKeyword} \cup {item.summary[i].keyword : i \in DOMAIN item.summary}) \ {None} = keywords
    BY <1>5, <2>1
  <2> QED
    BY <1>1, <1>7, <1>8, <2>2, Zenon DEF scoreItem
<1>10. Window \in Nat
  BY NewsAssumption
<1>11. 10 * Window * count \in Int
  <2>1. \A a, b \in Int : a * b \in Int
    OBVIOUS
  <2> QED
    BY <1>7, <1>10, <2>1
<1>12. dated # None => age \in Int
  <2>1. ASSUME dated \in Int PROVE age \in Int
    <3>1. readAt - dated \in Int /\ 0 \in Int
      BY <2>1
    <3> QED
      BY <1>8, <3>1, TheGreater
  <2> QED
    BY <1>1, <2>1
<1>13. PICK recent : recent = IF dated = None THEN 0 ELSE IF age < Window THEN 7 * (Window - age) ELSE 0
  OBVIOUS
<1>14. recent \in Int
  BY <1>10, <1>12, <1>13
<1> QED
  BY <1>9, <1>11, <1>13, <1>14

\* An item has a date or none and a text that is a sequence.
LEMMA ItemIsRead ==
  ASSUME NEW url \in DOMAIN Feeds, NEW e \in Range(Feeds[url].entries)
  PROVE  /\ NewsItem(Feeds[url].format, e).published \in {None} \cup Int
         /\ \E n \in Nat : DOMAIN NewsItem(Feeds[url].format, e).summary = 1..n
<1>1. PICK format : format = Feeds[url].format
  OBVIOUS
<1>2. /\ e.published \in {None, Unreadable} \cup Int /\ e.summary \in Seq(Range(e.summary))
      /\ format = "atom" => e.updated \in {None, Unreadable} \cup Int /\ e.content \in Seq(Range(e.content))
  BY <1>1, NewsAssumption
<1>3. PICK words : words = IF format = "atom" /\ e.summary = <<>> THEN e.content ELSE e.summary
  OBVIOUS
<1>4. PICK dated : dated = IF format = "atom" /\ e.published = None THEN e.updated ELSE e.published
  OBVIOUS
<1>5. NewsItem(format, e).published = parseDate(dated) /\ NewsItem(format, e).summary = extractSummary(words)
  BY <1>3, <1>4 DEF NewsItem
<1>6. parseDate(dated) \in {None} \cup Int
  <2>1. dated \in {None, Unreadable} \cup Int
    BY <1>2, <1>4
  <2> QED
    BY <2>1 DEF parseDate
<1>7. words \in Seq(Range(words))
  BY <1>2, <1>3
<1>8. extractSummary(words) \in Seq(Range(words))
  BY <1>7, SummaryIsASeq
<1>9. PICK s \in Seq(Range(words)) : s = extractSummary(words)
  BY <1>8
<1>10. Len(s) \in Nat /\ DOMAIN s = 1..Len(s)
  BY <1>9, LenProperties
<1> QED
  BY <1>1, <1>5, <1>6, <1>9, <1>10

\* What is collected is of the feeds that answered.
LEMMA Collected ==
  ASSUME NEW list \in Seq(DOMAIN Feeds), NEW got
  PROVE  \E X : /\ collected(list, got) \in Seq(X)
                /\ \A k \in 1..Len(collected(list, got)) :
                     /\ got[collected(list, got)[k].feed] = "items"
                     /\ collected(list, got)[k].item.published \in {None} \cup Int
                     /\ \E n \in Nat : DOMAIN collected(list, got)[k].item.summary = 1..n
<1>1. PICK N : N = Len(list)
  OBVIOUS
<1>2. N \in Nat /\ DOMAIN list = 1..N /\ \A i \in 1..N : list[i] \in DOMAIN Feeds
  BY <1>1
<1>3. PICK ss : ss = [i \in DOMAIN list |-> IF got[i] = "items" THEN ItemsOf(list, i) ELSE <<>>]
  OBVIOUS
<1>4. PICK X : X = UNION {Range(ItemsOf(list, i)) : i \in 1..N}
  OBVIOUS
<1>5. ASSUME NEW i \in 1..N
      PROVE  /\ ItemsOf(list, i) \in Seq(X)
             /\ \A a \in Range(ItemsOf(list, i)) :
                  /\ a.feed = i /\ a.item.published \in {None} \cup Int
                  /\ \E n \in Nat : DOMAIN a.item.summary = 1..n
  <2>1. PICK url \in DOMAIN Feeds : url = list[i]
    BY <1>2
  <2>2. PICK entries : entries = Feeds[url].entries
    OBVIOUS
  <2>3. PICK M : M = Len(entries)
    OBVIOUS
  <2>4. M \in Nat /\ DOMAIN entries = 1..M
    <3>1. entries \in Seq(Range(entries))
      BY <2>2, NewsAssumption
    <3> QED
      BY <2>3, <3>1
  <2>5. PICK items : items = [n \in 1..M |-> NewsItem(Feeds[url].format, entries[n])]
    OBVIOUS
  <2>6. parseFeed(Feeds[url]) = items
    BY <2>2, <2>4, <2>5 DEF parseFeed
  <2>7. PICK told : told = [n \in 1..M |-> [item |-> items[n], feed |-> i]]
    OBVIOUS
  <2>8. ItemsOf(list, i) = told
    <3>1. DOMAIN items = 1..M
      BY <2>5
    <3> QED
      BY <2>1, <2>6, <2>7, <3>1 DEF ItemsOf
  <2>9. \A n \in 1..M : told[n].feed = i /\ told[n].item = items[n]
    BY <2>7
  <2>10. \A n \in 1..M : /\ items[n].published \in {None} \cup Int
                         /\ \E m \in Nat : DOMAIN items[n].summary = 1..m
    <3>1. SUFFICES ASSUME NEW n \in 1..M
                   PROVE  /\ items[n].published \in {None} \cup Int
                          /\ \E m \in Nat : DOMAIN items[n].summary = 1..m
      OBVIOUS
    <3>2. entries[n] \in Range(entries)
      BY <2>4 DEF Range
    <3>3. items[n] = NewsItem(Feeds[url].format, entries[n])
      BY <2>5
    <3> QED
      BY <2>2, <3>2, <3>3, ItemIsRead
  <2>11. DOMAIN told = 1..M
    BY <2>7
  <2>12. Range(told) \subseteq X
    BY <1>4, <2>8
  <2>13. \A n \in 1..M : told[n] \in Range(told)
    BY <2>11 DEF Range
  <2>14. told \in Seq(X)
    <3>1. \A n \in 1..M : told[n] \in X
      BY <2>12, <2>13
    <3>2. told \in [1..M -> X]
      BY <2>7, <3>1
    <3> QED
      BY <2>4, <3>2
  <2>15. \A a \in Range(told) : /\ a.feed = i /\ a.item.published \in {None} \cup Int
                                /\ \E n \in Nat : DOMAIN a.item.summary = 1..n
    BY <2>9, <2>10, <2>11 DEF Range
  <2> QED
    BY <2>8, <2>14, <2>15
<1>6. ss \in Seq(Seq(X)) /\ Len(ss) = N
  <2>1. \A i \in 1..N : ss[i] \in Seq(X)
    <3>1. SUFFICES ASSUME NEW i \in 1..N PROVE ss[i] \in Seq(X)
      OBVIOUS
    <3>2. ss[i] = ItemsOf(list, i) \/ ss[i] = <<>>
      BY <1>2, <1>3
    <3>3. <<>> \in Seq(X)
      OBVIOUS
    <3> QED
      BY <1>5, <3>2, <3>3
  <2>2. ss \in [1..N -> Seq(X)]
    BY <1>2, <1>3, <2>1
  <2> QED
    BY <1>2, <2>2
<1>7. PICK all : all = collected(list, got)
  OBVIOUS
<1>8. all = FlattenSeq(ss)
  BY <1>3, <1>7 DEF collected
<1>9. all \in Seq(X)
  <2>1. <<>> \in Seq(X)
    OBVIOUS
  <2> QED
    BY <1>6, <1>8, <2>1, FlattenAppend
<1>10. ASSUME NEW k \in 1..Len(all)
       PROVE  /\ got[all[k].feed] = "items" /\ all[k].item.published \in {None} \cup Int
              /\ \E n \in Nat : DOMAIN all[k].item.summary = 1..n
  <2>1. PICK i \in 1..N : all[k] \in Range(ss[i])
    BY <1>6, <1>8, FlattenFrom
  <2>2. got[i] = "items" /\ ss[i] = ItemsOf(list, i)
    <3>1. Range(<<>>) = {}
      BY DEF Range
    <3> QED
      BY <1>2, <1>3, <2>1, <3>1
  <2>3. all[k] \in Range(ItemsOf(list, i))
    BY <2>1, <2>2
  <2> QED
    BY <1>5, <2>2, <2>3
<1> QED
  BY <1>7, <1>9, <1>10

\* Each of it has a place and a score.
LEMMA ScoredIs ==
  ASSUME NEW list \in Seq(DOMAIN Feeds), NEW got, hours \in Int
  PROVE  AllTold(Scored(collected(list, got)), got)
<1>1. PICK all : all = collected(list, got)
  OBVIOUS
<1>2. PICK X : /\ all \in Seq(X)
               /\ \A k \in 1..Len(all) : /\ got[all[k].feed] = "items" /\ all[k].item.published \in {None} \cup Int
                                         /\ \E n \in Nat : DOMAIN all[k].item.summary = 1..n
  BY <1>1, Collected
<1>3. PICK N : N = Len(all)
  OBVIOUS
<1>4. N \in Nat /\ DOMAIN all = 1..N
  BY <1>2, <1>3
<1>5. PICK readAt : readAt = hours
  OBVIOUS
<1>6. PICK scored : scored =
        [n \in 1..N |-> [title |-> all[n].item.title, link |-> all[n].item.link, feed |-> all[n].feed, place |-> n,
                         length |-> LengthOf(all[n].item.summary), score |-> scoreItem(all[n].item, readAt)]]
  OBVIOUS
<1>7. Scored(all) = scored
  BY <1>4, <1>5, <1>6 DEF Scored
<1>8. ASSUME NEW k \in 1..N
      PROVE  IsStory(scored[k]) /\ scored[k].place = k /\ scored[k].score \in Int /\ got[scored[k].feed] = "items"
  <2>1. PICK item : item = all[k].item
    OBVIOUS
  <2>2. scored[k] = [title |-> item.title, link |-> item.link, feed |-> all[k].feed, place |-> k,
                     length |-> LengthOf(item.summary), score |-> scoreItem(item, readAt)]
    BY <1>6, <2>1
  <2>3. IsStory(scored[k]) /\ scored[k].place = k /\ scored[k].feed = all[k].feed
    BY <2>2 DEF IsStory
  <2>4. scored[k].score = scoreItem(item, readAt)
    BY <2>2
  <2>5. item.published \in {None} \cup Int /\ \E n \in Nat : DOMAIN item.summary = 1..n
    BY <1>2, <1>3, <2>1
  <2>6. scoreItem(item, readAt) \in Int
    BY <1>5, <2>5, ScoreIsANumber
  <2>7. got[all[k].feed] = "items"
    BY <1>2, <1>3
  <2> QED
    BY <2>3, <2>4, <2>6, <2>7
<1>9. DOMAIN scored = 1..N
  BY <1>6
<1>10. scored \in Seq(Range(scored))
  <2>1. \A k \in 1..N : scored[k] \in Range(scored)
    BY <1>9 DEF Range
  <2>2. scored \in [1..N -> Range(scored)]
    BY <1>6, <2>1
  <2> QED
    BY <1>4, <2>2
<1>11. AllTold(scored, got)
  BY <1>8, <1>9, <1>10 DEF AllTold
<1> QED
  BY <1>1, <1>7, <1>11

(***************************************************************************)
(* What is kept of it, and what a model may pick.                          *)
(***************************************************************************)

\* The first of each story, in order: each is of an item that is kept, and each story
\* that has a name is told by its first item.
InOrder(items, d) ==
  /\ Len(d) \in Nat /\ DOMAIN d = 1..Len(d)
  /\ \A n \in 1..Len(d) : \E i \in DOMAIN items : d[n] = items[i]
  /\ \A m, n \in 1..Len(d) : m < n => Precedes(d[m], d[n]) /\ storyOf(d[m]) # storyOf(d[n])
  /\ \A k \in DOMAIN items :
       storyOf(items[k]) = None \/ \E j \in 1..k, n \in 1..Len(d) : j \in DOMAIN items
                                     /\ storyOf(items[j]) = storyOf(items[k]) /\ d[n] = items[j]

LEMMA DedupIs ==
  ASSUME NEW items, NEW got, AllTold(items, got)
  PROVE  InOrder(items, dedupAndSort(items)) /\ dedupAndSort(items) \in Seq(Range(items))
<1>1. PICK N : N = Len(items)
  OBVIOUS
<1>2. /\ N \in Nat /\ DOMAIN items = 1..N
      /\ \A k \in 1..N : items[k].place = k /\ items[k].score \in Int
  BY <1>1 DEF AllTold
<1>3. PICK those : those = {i \in DOMAIN items : storyOf(items[i]) # None
                            /\ \A k \in 1..i - 1 : storyOf(items[k]) # storyOf(items[i])}
  OBVIOUS
<1>4. those \subseteq 1..N /\ IsFiniteSet(those)
  <2>1. those \in SUBSET (1..N)
    BY <1>2, <1>3
  <2>2. IsFiniteSet(1..N)
    BY <1>2, FS_Interval
  <2> QED
    BY <2>1, <2>2, FS_Subset
<1>5. PICK before : before = {p \in those \X those : Before(items, p[1], p[2])}
  OBVIOUS
<1>6. \A i, j \in those :
        <<i, j>> \in before <=> items[i].score > items[j].score \/ (items[i].score = items[j].score /\ i < j)
  BY <1>5 DEF Before
<1>7. PICK M : M = Cardinality(those)
  OBVIOUS
<1>8. PICK order : order = inSequence(those, before)
  OBVIOUS
<1>9. /\ M \in Nat /\ DOMAIN order = 1..M
      /\ \A n \in 1..M : order[n] \in those
      /\ \A m, n \in 1..M : m < n => <<order[m], order[n]>> \in before
      /\ \A i \in those : \E n \in 1..M : order[n] = i
  <2>1. \A i \in those : i \in Int /\ items[i].score \in Int
    <3>1. \A i \in those : i \in 1..N
      BY <1>4
    <3>2. \A i \in 1..N : items[i].score \in Int
      BY <1>2
    <3> QED
      BY <1>2, <3>1, <3>2
  <2>2. \A i \in those : <<i, i>> \notin before
    BY <1>6, <2>1
  <2>3. \A i, j \in those : i # j => <<i, j>> \in before \/ <<j, i>> \in before
    BY <1>6, <2>1
  <2>4. \A i, j, k \in those : <<i, j>> \in before /\ <<j, k>> \in before => <<i, k>> \in before
    BY <1>6, <2>1
  <2> QED
    <3>1. Orders(before, those)
      BY <2>2, <2>3, <2>4 DEF Orders
    <3> QED
      BY <1>4, <1>7, <1>8, <3>1, InSequence
<1>10. PICK d : d = [n \in 1..M |-> items[order[n]]]
  OBVIOUS
<1>11. dedupAndSort(items) = d
  <2>1. dedupAndSort(items) = sortedBy(items, those)
    BY <1>3 DEF dedupAndSort
  <2>2. sortedBy(items, those) = [n \in DOMAIN order |-> items[order[n]]]
    BY <1>5, <1>8 DEF sortedBy
  <2> QED
    BY <1>9, <1>10, <2>1, <2>2
<1>12. Len(d) = M /\ DOMAIN d = 1..M /\ \A n \in 1..M : d[n] = items[order[n]]
  BY <1>9, <1>10
<1>13. \A n \in 1..M : order[n] \in 1..N
  BY <1>4, <1>9
<1>14. ASSUME NEW m \in 1..M, NEW n \in 1..M, m < n
       PROVE  Precedes(d[m], d[n]) /\ storyOf(d[m]) # storyOf(d[n])
  <2>1. PICK i \in those : i = order[m]
    BY <1>9
  <2>2. PICK j \in those : j = order[n]
    BY <1>9
  <2>3. <<i, j>> \in before /\ d[m] = items[i] /\ d[n] = items[j]
    BY <1>9, <1>12, <1>14, <2>1, <2>2
  <2>4. i \in 1..N /\ j \in 1..N
    BY <1>4
  <2>5. Precedes(items[i], items[j]) /\ i # j
    BY <1>2, <1>6, <2>3, <2>4 DEF Precedes
  <2>6. storyOf(items[i]) # storyOf(items[j])
    <3>1. i \in 1..j - 1 \/ j \in 1..i - 1
      BY <1>2, <2>4, <2>5
    <3> QED
      BY <1>3, <3>1
  <2> QED
    BY <2>3, <2>5, <2>6
<1>15. ASSUME NEW k \in 1..N, storyOf(items[k]) # None
       PROVE  \E j \in 1..k, n \in 1..M : j \in 1..N /\ storyOf(items[j]) = storyOf(items[k]) /\ d[n] = items[j]
  <2>1. PICK T : T = {j \in 1..k : storyOf(items[j]) = storyOf(items[k])}
    OBVIOUS
  <2>2. T \in SUBSET Nat /\ T # {}
    <3>1. k \in T
      BY <1>2, <2>1
    <3> QED
      BY <2>1, <3>1
  <2>3. PICK j \in T : \A i \in T : j <= i
    BY <2>2, Least
  <2>4. j \in 1..k /\ j \in 1..N /\ storyOf(items[j]) = storyOf(items[k])
    BY <1>2, <2>1
  <2>5. \A i \in 1..j - 1 : storyOf(items[i]) # storyOf(items[j])
    <3>1. SUFFICES ASSUME NEW i \in 1..j - 1, storyOf(items[i]) = storyOf(items[j]) PROVE FALSE
      OBVIOUS
    <3>2. i \in 1..k /\ ~(j <= i)
      BY <1>2, <2>4
    <3> QED
      BY <2>1, <2>3, <2>4, <3>1, <3>2
  <2>6. j \in those
    BY <1>2, <1>3, <1>15, <2>4, <2>5
  <2>7. PICK n \in 1..M : order[n] = j
    BY <1>9, <2>6
  <2> QED
    BY <1>12, <2>4, <2>7
<1>16. InOrder(items, d)
  <2>1. \A n \in 1..M : \E i \in DOMAIN items : d[n] = items[i]
    BY <1>2, <1>12, <1>13
  <2>2. \A k \in DOMAIN items :
          storyOf(items[k]) = None \/ \E j \in 1..k, n \in 1..M : j \in DOMAIN items
                                        /\ storyOf(items[j]) = storyOf(items[k]) /\ d[n] = items[j]
    BY <1>2, <1>15
  <2> QED
    BY <1>9, <1>12, <1>14, <2>1, <2>2 DEF InOrder
<1>17. d \in Seq(Range(items))
  <2>1. \A n \in 1..M : d[n] \in Range(items)
    BY <1>2, <1>12, <1>13 DEF Range
  <2>2. d \in [1..M -> Range(items)]
    BY <1>10, <2>1
  <2> QED
    BY <1>9, <2>2
<1> QED
  BY <1>11, <1>16, <1>17

\* The first few of a sequence.
LEMMA FirstOfIs ==
  ASSUME NEW X, NEW items \in Seq(X), NEW n \in Nat
  PROVE  /\ firstOf(items, n) \in Seq(X) /\ Len(firstOf(items, n)) \in Nat
         /\ Len(firstOf(items, n)) <= n /\ Len(firstOf(items, n)) <= Len(items)
         /\ Len(firstOf(items, n)) = n \/ Len(firstOf(items, n)) = Len(items)
         /\ \A i \in 1..Len(firstOf(items, n)) : i \in 1..Len(items) /\ firstOf(items, n)[i] = items[i]
<1>1. PICK N : N = Len(items)
  OBVIOUS
<1>2. N \in Nat /\ \A i \in 1..N : items[i] \in X
  BY <1>1
<1>3. PICK k : k = Min({n, N})
  OBVIOUS
<1>4. k \in {n, N} /\ k <= n /\ k <= N /\ k \in Nat
  <2>1. \E x \in {n, N} : \A y \in {n, N} : x <= y
    BY <1>2
  <2>2. k \in {n, N} /\ \A y \in {n, N} : k <= y
    BY <1>3, <2>1 DEF Min
  <2> QED
    BY <1>2, <2>2
<1>5. PICK first : first = SubSeq(items, 1, k)
  OBVIOUS
<1>6. firstOf(items, n) = first
  BY <1>1, <1>3, <1>5 DEF firstOf
<1>7. \A i \in 1..k : i \in 1..N /\ items[i] \in X
  BY <1>2, <1>4
<1>8. first \in Seq(X) /\ Len(first) = k /\ \A i \in 1..k : first[i] = items[i]
  <2>1. /\ first \in Seq(X) /\ Len(first) = IF 1 <= k THEN k - 1 + 1 ELSE 0
        /\ \A i \in 1..k - 1 + 1 : first[i] = items[1 + i - 1]
    BY <1>4, <1>5, <1>7, SubSeqProperties
  <2> QED
    BY <1>4, <2>1
<1> QED
  BY <1>1, <1>4, <1>6, <1>7, <1>8

\* Of what only was told, the first few are only told.
LEMMA OnlyTheFirst ==
  ASSUME NEW items, NEW scored, OnlyTold(items, scored), NEW n \in Nat
  PROVE  OnlyTold(firstOf(items, n), scored)
<1>1. PICK first : first = firstOf(items, n)
  OBVIOUS
<1>2. /\ first \in Seq(Range(items)) /\ Len(first) \in Nat
      /\ \A i \in 1..Len(first) : i \in 1..Len(items) /\ first[i] = items[i]
  BY <1>1, FirstOfIs DEF OnlyTold
<1>3. DOMAIN first = 1..Len(first) /\ DOMAIN items = 1..Len(items)
  BY <1>2 DEF OnlyTold
<1>4. first \in Seq(Range(first))
  BY <1>2, SeqOfRange
<1> QED
  BY <1>1, <1>2, <1>3, <1>4 DEF OnlyTold

\* What a model picks of what only was told is only that, in other words.
LEMMA PickedIs ==
  ASSUME NEW pool, NEW scored, OnlyTold(pool, scored), NEW picks, picks \in Seq(Range(picks))
  PROVE  OnlyTold(Picked(pool, picks), scored)
<1>2. PICK known : known = {k \in DOMAIN picks : picks[k].link # None /\ Meant(pool, picks[k]) # {}}
  OBVIOUS
<1>3. PICK N : N = Len(picks)
  OBVIOUS
<1>4. N \in Nat /\ DOMAIN picks = 1..N
  BY <1>3
<1>5. IsFiniteSet(known) /\ known \subseteq 1..N
  <2>1. known \in SUBSET (1..N)
    BY <1>2, <1>4
  <2>2. IsFiniteSet(1..N)
    BY <1>4, FS_Interval
  <2> QED
    BY <2>1, <2>2, FS_Subset
<1>6. PICK before : before = {p \in known \X known : p[1] < p[2]}
  OBVIOUS
<1>7. \A i, j \in known : <<i, j>> \in before <=> i < j
  BY <1>6
<1>8. PICK order : order = inSequence(known, before)
  OBVIOUS
<1>9. PICK M : M = Cardinality(known)
  OBVIOUS
<1>10. M \in Nat /\ DOMAIN order = 1..M /\ \A n \in 1..M : order[n] \in known
  <2>1. \A i \in known : i \in Int
    BY <1>5
  <2>2. \A i \in known : <<i, i>> \notin before
    BY <1>7, <2>1
  <2>3. \A i, j \in known : i # j => <<i, j>> \in before \/ <<j, i>> \in before
    BY <1>7, <2>1
  <2>4. \A i, j, k \in known : <<i, j>> \in before /\ <<j, k>> \in before => <<i, k>> \in before
    BY <1>7, <2>1
  <2>5. Orders(before, known)
    BY <2>2, <2>3, <2>4 DEF Orders
  <2> QED
    BY <1>5, <1>8, <1>9, <2>5, InSequence
<1>13. PICK chosen : chosen = [n \in DOMAIN order |-> Reworded(pool, picks[order[n]])]
  OBVIOUS
<1>14. Picked(pool, picks) = firstOf(chosen, topN)
  BY <1>2, <1>6, <1>8, <1>13 DEF Picked
<1>15. ASSUME NEW n \in 1..M
       PROVE  /\ IsStory(chosen[n])
              /\ \E k \in DOMAIN scored : scored[k].place = chosen[n].place /\ scored[k].link = chosen[n].link
                                          /\ scored[k].feed = chosen[n].feed
  <2>1. PICK q : q = order[n]
    OBVIOUS
  <2>2. q \in known /\ q \in DOMAIN picks
    BY <1>2, <1>10, <2>1
  <2>3. PICK i \in DOMAIN pool : i = CHOOSE j \in Meant(pool, picks[q]) : TRUE
    <3>1. Meant(pool, picks[q]) # {} /\ Meant(pool, picks[q]) \subseteq DOMAIN pool
      BY <1>2, <2>2 DEF Meant
    <3> QED
      BY <3>1
  <2>4. PICK story : story = pool[i]
    OBVIOUS
  <2>5. /\ IsStory(story)
        /\ \E k \in DOMAIN scored : scored[k].place = story.place /\ scored[k].link = story.link
                                    /\ scored[k].feed = story.feed
    BY <2>4 DEF OnlyTold
  <2>6. chosen[n] = Reworded(pool, picks[q])
    BY <1>10, <1>13, <2>1
  <2>7. \/ Reworded(pool, picks[q]) = story
        \/ Reworded(pool, picks[q]) = [story EXCEPT !.length = picks[q].length]
    BY <2>3, <2>4 DEF Reworded
  <2>8. PICK worded : worded = chosen[n]
    OBVIOUS
  <2>9. IsStory(worded) /\ worded.place = story.place /\ worded.link = story.link /\ worded.feed = story.feed
    <3>1. PICK length : length = picks[q].length
      OBVIOUS
    <3>2. worded = story \/ worded = [story EXCEPT !.length = length]
      BY <2>6, <2>7, <2>8, <3>1
    <3>3. story = [title |-> story.title, link |-> story.link, feed |-> story.feed, place |-> story.place,
                   length |-> story.length, score |-> story.score]
      BY <2>5 DEF IsStory
    <3>4. CASE worded = story
      BY <2>5, <3>4
    <3>5. CASE worded = [story EXCEPT !.length = length]
      <4>1. worded = [title |-> story.title, link |-> story.link, feed |-> story.feed, place |-> story.place,
                      length |-> length, score |-> story.score]
        BY <3>3, <3>5
      <4> QED
        BY <4>1 DEF IsStory
    <3> QED
      BY <3>2, <3>4, <3>5
  <2> QED
    BY <2>5, <2>8, <2>9
<1>16. OnlyTold(chosen, scored)
  <2>1. DOMAIN chosen = 1..M
    BY <1>10, <1>13
  <2>2. \A n \in 1..M : chosen[n] \in Range(chosen)
    BY <2>1 DEF Range
  <2>3. chosen \in [1..M -> Range(chosen)]
    BY <1>10, <1>13, <2>2
  <2>4. chosen \in Seq(Range(chosen))
    BY <1>10, <2>3
  <2> QED
    BY <1>15, <2>1, <2>4 DEF OnlyTold
<1> QED
  BY <1>14, <1>16, OnlyTheFirst, NewsAssumption

\* What is dropped from it is told earlier, has no name or comes after the last.
LEMMA BestOfThem ==
  ASSUME NEW scored, NEW got, AllTold(scored, got), NEW items, items = firstOf(dedupAndSort(scored), topN)
  PROVE  /\ \A m, n \in DOMAIN items :
              m < n => Precedes(items[m], items[n]) /\ storyOf(items[m]) # storyOf(items[n])
         /\ \A k \in DOMAIN scored :
              \/ storyOf(scored[k]) = None
              \/ \E n \in DOMAIN items : storyOf(items[n]) = storyOf(scored[k]) /\ items[n].place <= scored[k].place
              \/ Len(items) = topN
                 /\ \E j \in 1..k : /\ storyOf(scored[j]) = storyOf(scored[k])
                                     /\ Precedes(Last(items), scored[j])
<1>1. PICK d : d = dedupAndSort(scored)
  OBVIOUS
<1>2. InOrder(scored, d) /\ d \in Seq(Range(scored))
  BY <1>1, DedupIs
<1>3. topN \in Nat /\ topN > 0
  BY NewsAssumption
<1>4. PICK M \in Nat : M = Len(items)
  BY <1>1, <1>2, <1>3, FirstOfIs
<1>5. PICK D \in Nat : D = Len(d)
  BY <1>2
<1>6. /\ items \in Seq(Range(scored)) /\ DOMAIN items = 1..M
      /\ M = topN \/ M = D
      /\ \A i \in 1..M : i \in 1..D /\ items[i] = d[i]
  <2>1. /\ firstOf(d, topN) \in Seq(Range(scored))
        /\ Len(firstOf(d, topN)) = topN \/ Len(firstOf(d, topN)) = Len(d)
        /\ \A i \in 1..Len(firstOf(d, topN)) : i \in 1..Len(d) /\ firstOf(d, topN)[i] = d[i]
    BY <1>2, <1>3, FirstOfIs
  <2>2. items = firstOf(d, topN)
    BY <1>1
  <2>3. items \in Seq(Range(scored)) /\ DOMAIN items = 1..M
    BY <1>4, <2>1, <2>2
  <2> QED
    BY <1>4, <1>5, <2>1, <2>2, <2>3
<1>7. ASSUME NEW m \in 1..M, NEW n \in 1..M, m < n
      PROVE  Precedes(items[m], items[n]) /\ storyOf(items[m]) # storyOf(items[n])
  <2>1. m \in 1..D /\ n \in 1..D /\ items[m] = d[m] /\ items[n] = d[n]
    BY <1>6
  <2>2. Precedes(d[m], d[n]) /\ storyOf(d[m]) # storyOf(d[n])
    BY <1>2, <1>5, <1>7, <2>1 DEF InOrder
  <2> QED
    BY <2>1, <2>2
<1>8. ASSUME NEW k \in DOMAIN scored, storyOf(scored[k]) # None
      PROVE  \/ \E n \in 1..M : storyOf(items[n]) = storyOf(scored[k]) /\ items[n].place <= scored[k].place
             \/ M = topN
                /\ \E j \in 1..k : /\ storyOf(scored[j]) = storyOf(scored[k])
                                    /\ Precedes(Last(items), scored[j])
  <2>1. PICK j \in 1..k, n \in 1..D : j \in DOMAIN scored /\ storyOf(scored[j]) = storyOf(scored[k]) /\ d[n] = scored[j]
    BY <1>2, <1>5, <1>8 DEF InOrder
  <2>2. scored[j].place = j /\ scored[k].place = k /\ k \in Nat
    BY <2>1 DEF AllTold
  <2>3. CASE n \in 1..M
    <3>1. items[n] = scored[j] /\ items[n].place <= scored[k].place
      BY <1>6, <2>1, <2>2, <2>3
    <3> QED
      BY <2>1, <2>3, <3>1
  <2>4. CASE n \notin 1..M
    <3>1. M = topN /\ M \in 1..D /\ M < n /\ M \in 1..M
      BY <1>3, <1>4, <1>5, <1>6, <2>4
    <3>2. Last(items) = d[M]
      BY <1>4, <1>6, <3>1 DEF Last
    <3>3. Precedes(d[M], d[n])
      BY <1>2, <1>5, <3>1 DEF InOrder
    <3> QED
      BY <2>1, <3>1, <3>2, <3>3
  <2> QED
    BY <2>3, <2>4
<1> QED
  BY <1>4, <1>6, <1>7, <1>8

LEMMA OnlyTheKept ==
  ASSUME NEW scored, NEW got, AllTold(scored, got)
  PROVE  OnlyTold(dedupAndSort(scored), scored)
<1>1. PICK d : d = dedupAndSort(scored)
  OBVIOUS
<1>2. InOrder(scored, d) /\ d \in Seq(Range(scored))
  BY <1>1, DedupIs
<1>3. d \in Seq(Range(d)) /\ DOMAIN d = 1..Len(d)
  BY <1>2, SeqOfRange
<1>4. ASSUME NEW n \in DOMAIN d
      PROVE  IsStory(d[n]) /\ \E k \in DOMAIN scored :
               scored[k].place = d[n].place /\ scored[k].link = d[n].link /\ scored[k].feed = d[n].feed
  <2>1. PICK i \in DOMAIN scored : d[n] = scored[i]
    BY <1>2, <1>3 DEF InOrder
  <2>2. IsStory(scored[i])
    BY DEF AllTold
  <2> QED
    BY <2>1, <2>2
<1> QED
  BY <1>1, <1>3, <1>4 DEF OnlyTold

(***************************************************************************)
(* Every step keeps a digest faithful.                                     *)
(***************************************************************************)
LEMMA ListsAreSeqs ==
  ASSUME NEW list \in FeedLists
  PROVE  list \in Seq(DOMAIN Feeds) /\ Len(list) \in Nat /\ DOMAIN list = 1..Len(list)
<1>1. list \in Seq(DOMAIN Feeds)
  BY NewsAssumption
<1> QED
  BY <1>1

LEMMA NothingSent ==
  ASSUME sent' = None
  PROVE  SentInv' /\ DigestIsFaithful'
BY DEF SentInv, DigestIsFaithful, FailsTogether, PartsAreWhole, BestAreChosen, NothingInvented

LEMMA SentKept ==
  ASSUME SentInv, DigestIsFaithful, UNCHANGED <<ranker, sent>>
  PROVE  SentInv' /\ DigestIsFaithful'
BY DEF SentInv, DigestIsFaithful, FailsTogether, PartsAreWhole, BestAreChosen, NothingInvented, Told

\* A digest that fails holds nothing.
LEMMA FailureSent ==
  ASSUME NEW list \in FeedLists, NEW got,
         sent' = [list |-> list, got |-> got, scored |-> None, items |-> <<>>, parts |-> <<>>, failed |-> TRUE],
         Len(list) \in 1..maxFeedURLs => \A i \in DOMAIN list : got[i] = "failed"
  PROVE  SentInv' /\ DigestIsFaithful'
<1>1. /\ sent'.list = list /\ sent'.got = got /\ sent'.items = <<>> /\ sent'.parts = <<>> /\ sent'.failed = TRUE
  OBVIOUS
<1>2. DOMAIN <<>> = {} /\ Len(<<>>) = 0
  OBVIOUS
<1>3. SentInv'
  BY <1>1, <1>2 DEF SentInv
<1>4. FailsTogether'
  BY <1>1 DEF FailsTogether
<1>5. PartsAreWhole'
  BY <1>1, <1>2, FlattenEmpty DEF PartsAreWhole
<1>6. BestAreChosen'
  BY <1>1 DEF BestAreChosen
<1>7. NothingInvented'
  <2>1. 0 <= topN
    BY NewsAssumption
  <2> QED
    BY <1>1, <1>2, <2>1 DEF NothingInvented
<1> QED
  BY <1>3, <1>4, <1>5, <1>6, <1>7 DEF DigestIsFaithful

LEMMA NewsInitially == NewsInit => NewsInv
<1>1. SUFFICES ASSUME NewsInit PROVE NewsInv
  OBVIOUS
<1>2. hours \in 0..MaxHours
  BY <1>1, NewsAssumption DEF NewsInit
<1> QED
  BY <1>1, <1>2 DEF NewsInit, NewsInv, SentInv, DigestIsFaithful, FailsTogether, PartsAreWhole, BestAreChosen,
                    NothingInvented

LEMMA PassedKeeps == NewsInv /\ NewsPass => NewsInv'
<1>1. SUFFICES ASSUME NewsInv, NewsPass PROVE NewsInv'
  OBVIOUS
<1>2. hours' \in 0..MaxHours
  BY <1>1, NewsAssumption DEF NewsInv, NewsPass
<1>3. SentInv' /\ DigestIsFaithful'
  BY <1>1, SentKept DEF NewsInv, NewsPass
<1>4. (digest # None => DigestInv)'
  BY <1>1 DEF NewsInv, NewsPass, DigestInv, IsDigest
<1>5. (ranker \in WithRanker)'
  BY <1>1 DEF NewsInv, NewsPass
<1> QED
  BY <1>2, <1>3, <1>4, <1>5 DEF NewsInv

LEMMA BeginKeeps == NewsInv /\ BeginFetch => NewsInv'
<1>1. SUFFICES ASSUME NewsInv, BeginFetch PROVE NewsInv'
  OBVIOUS
<1>2. PICK list \in FeedLists :
        IF Len(list) \in 1..maxFeedURLs
        THEN /\ digest' = [phase |-> "fetching", list |-> list, items |-> <<>>, scored |-> None,
                           got |-> [i \in DOMAIN list |-> "waiting"]]
             /\ sent' = None
        ELSE Sent(list, <<>>, None, <<>>, <<>>, TRUE)
  BY <1>1 DEF BeginFetch
<1>3. (hours \in 0..MaxHours)' /\ (ranker \in WithRanker)'
  BY <1>1 DEF NewsInv, BeginFetch
<1>4. CASE Len(list) \in 1..maxFeedURLs
  <2>1. digest' = [phase |-> "fetching", list |-> list, items |-> <<>>, scored |-> None,
                   got |-> [i \in DOMAIN list |-> "waiting"]] /\ sent' = None
    BY <1>2, <1>4
  <2>2. SentInv' /\ DigestIsFaithful'
    BY <2>1, NothingSent
  <2>3. PICK got : got = [i \in DOMAIN list |-> "waiting"]
    OBVIOUS
  <2>4. got \in [DOMAIN list -> {"waiting", "failed", "items"}]
    BY <2>3
  <2>5. /\ digest'.phase = "fetching" /\ digest'.list = list /\ digest'.items = <<>> /\ digest'.scored = None
        /\ digest'.got = got
    BY <2>1, <2>3
  <2>6. digest' = [phase |-> digest'.phase, list |-> digest'.list, items |-> digest'.items,
                   scored |-> digest'.scored, got |-> digest'.got]
    BY <2>1, <2>3, <2>5
  <2>7. IsDigest'
    BY <1>4, <2>4, <2>5, <2>6 DEF IsDigest, Phases
  <2>8. DigestInv'
    BY <2>1, <2>5, <2>7 DEF DigestInv
  <2> QED
    BY <1>3, <2>2, <2>8 DEF NewsInv
<1>5. CASE ~(Len(list) \in 1..maxFeedURLs)
  <2>1. /\ sent' = [list |-> list, got |-> <<>>, scored |-> None, items |-> <<>>, parts |-> <<>>, failed |-> TRUE]
        /\ digest' = None
    BY <1>2, <1>5 DEF Sent
  <2>2. SentInv' /\ DigestIsFaithful'
    BY <1>5, <2>1, FailureSent
  <2> QED
    BY <1>3, <2>1, <2>2 DEF NewsInv
<1> QED
  BY <1>4, <1>5

LEMMA FetchKeeps == NewsInv /\ fetchAndParse => NewsInv'
<1>1. SUFFICES ASSUME NewsInv, fetchAndParse PROVE NewsInv'
  OBVIOUS
<1>2. /\ digest # None /\ digest.phase = "fetching" /\ UNCHANGED <<hours, ranker, sent>>
      /\ DigestInv /\ SentInv /\ DigestIsFaithful
  BY <1>1 DEF NewsInv, fetchAndParse
<1>3. PICK i \in DOMAIN digest.list, word \in {"failed", "items"} : digest' = [digest EXCEPT !.got[i] = word]
  BY <1>1 DEF fetchAndParse
<1>4. PICK got : got = [digest.got EXCEPT ![i] = word]
  OBVIOUS
<1>5. got \in [DOMAIN digest.list -> {"waiting", "failed", "items"}]
  BY <1>2, <1>3, <1>4 DEF DigestInv, IsDigest
<1>6. digest' = [phase |-> digest.phase, list |-> digest.list, items |-> digest.items,
                 scored |-> digest.scored, got |-> got]
  BY <1>2, <1>3, <1>4 DEF DigestInv, IsDigest
<1>7. /\ digest'.phase = "fetching" /\ digest'.list = digest.list /\ digest'.items = digest.items
      /\ digest'.scored = digest.scored /\ digest'.got = got
  BY <1>2, <1>6
<1>8. IsDigest'
  BY <1>2, <1>5, <1>6, <1>7 DEF DigestInv, IsDigest
<1>9. DigestInv'
  BY <1>2, <1>7, <1>8 DEF DigestInv
<1>10. SentInv' /\ DigestIsFaithful'
  BY <1>2, SentKept
<1> QED
  BY <1>1, <1>2, <1>9, <1>10 DEF NewsInv

LEMMA MergeKeeps == NewsInv /\ Merge => NewsInv'
<1>1. SUFFICES ASSUME NewsInv, Merge PROVE NewsInv'
  OBVIOUS
<1>2. /\ digest # None /\ \A i \in DOMAIN digest.list : digest.got[i] # "waiting"
      /\ UNCHANGED <<hours, ranker>>
      /\ DigestInv /\ SentInv /\ DigestIsFaithful /\ hours \in Int
  BY <1>1, NewsAssumption DEF NewsInv, Merge
<1>3. PICK list \in FeedLists : list = digest.list
  BY <1>2 DEF DigestInv, IsDigest
<1>4. PICK got \in [DOMAIN list -> {"waiting", "failed", "items"}] : got = digest.got
  BY <1>2, <1>3 DEF DigestInv, IsDigest
<1>5. (hours \in 0..MaxHours)' /\ (ranker \in WithRanker)'
  BY <1>1, <1>2 DEF NewsInv
<1>6. CASE \A i \in DOMAIN list : got[i] = "failed"
  <2>1. /\ sent' = [list |-> list, got |-> got, scored |-> None, items |-> <<>>, parts |-> <<>>, failed |-> TRUE]
        /\ digest' = None
    BY <1>1, <1>3, <1>4, <1>6 DEF Merge, Sent
  <2>2. SentInv' /\ DigestIsFaithful'
    BY <1>6, <2>1, FailureSent
  <2> QED
    BY <1>5, <2>1, <2>2 DEF NewsInv
<1>7. CASE ~ \A i \in DOMAIN list : got[i] = "failed"
  <2>1. PICK scored : scored = Scored(collected(list, got))
    OBVIOUS
  <2>2. PICK items : items = dedupAndSort(scored)
    OBVIOUS
  <2>3. digest' = [digest EXCEPT !.phase = "merged", !.scored = scored, !.items = items] /\ UNCHANGED sent
    BY <1>1, <1>3, <1>4, <1>7, <2>1, <2>2 DEF Merge
  <2>4. digest' = [phase |-> "merged", list |-> list, items |-> items, scored |-> scored, got |-> got]
    BY <1>2, <1>3, <1>4, <2>3 DEF DigestInv, IsDigest
  <2>5. /\ digest'.phase = "merged" /\ digest'.list = list /\ digest'.items = items
        /\ digest'.scored = scored /\ digest'.got = got
    BY <2>4
  <2>6. IsDigest'
    BY <1>2, <1>3, <1>4, <2>4, <2>5 DEF DigestInv, IsDigest, Phases
  <2>7. \E i \in DOMAIN list : got[i] = "items"
    BY <1>2, <1>3, <1>4, <1>7
  <2>8. AllTold(scored, got)
    BY <1>2, <2>1, ScoredIs, ListsAreSeqs
  <2>9. OnlyTold(items, scored)
    BY <2>2, <2>8, OnlyTheKept
  <2>10. DigestInv'
    BY <1>2, <2>2, <2>3, <2>5, <2>6, <2>7, <2>8, <2>9 DEF DigestInv
  <2>11. SentInv' /\ DigestIsFaithful'
    BY <1>2, <2>3, SentKept
  <2> QED
    BY <1>5, <2>10, <2>11 DEF NewsInv
<1> QED
  BY <1>6, <1>7

LEMMA RankNewsKeeps == NewsInv /\ rankNews => NewsInv'
<1>1. SUFFICES ASSUME NewsInv, rankNews PROVE NewsInv'
  OBVIOUS
<1>2. /\ digest # None /\ digest.phase = "merged" /\ UNCHANGED <<hours, ranker, sent>>
      /\ DigestInv /\ SentInv /\ DigestIsFaithful
  BY <1>1 DEF NewsInv, rankNews
<1>3. PICK phase : phase = IF ranker /\ digest.items # <<>> THEN "ranking" ELSE "rendering"
  OBVIOUS
<1>4. digest' = [phase |-> phase, list |-> digest.list, items |-> digest.items,
                 scored |-> digest.scored, got |-> digest.got]
  BY <1>1, <1>2, <1>3 DEF rankNews, DigestInv, IsDigest
<1>5. /\ digest'.phase = phase /\ digest'.list = digest.list /\ digest'.items = digest.items
      /\ digest'.scored = digest.scored /\ digest'.got = digest.got
  BY <1>4
<1>6. phase \in {"ranking", "rendering"} /\ (phase = "ranking" => ranker)
  BY <1>3
<1>7. IsDigest'
  BY <1>2, <1>4, <1>5, <1>6 DEF DigestInv, IsDigest, Phases
<1>8. DigestInv'
  BY <1>2, <1>5, <1>6, <1>7 DEF DigestInv
<1>9. SentInv' /\ DigestIsFaithful'
  BY <1>2, SentKept
<1> QED
  BY <1>1, <1>2, <1>8, <1>9 DEF NewsInv

LEMMA RankKeeps == NewsInv /\ Rank => NewsInv'
<1>1. SUFFICES ASSUME NewsInv, Rank PROVE NewsInv'
  OBVIOUS
<1>2. /\ digest # None /\ digest.phase = "ranking" /\ UNCHANGED <<hours, ranker, sent>>
      /\ DigestInv /\ SentInv /\ DigestIsFaithful
  BY <1>1 DEF NewsInv, Rank
<1>3. PICK pool : pool = firstOf(digest.items, topN * poolMultiplier)
  OBVIOUS
<1>4. PICK picks \in Rankings \cup {<<>>} :
        digest' = [digest EXCEPT !.phase = "rendering",
                                 !.items = IF Picked(pool, picks) = <<>> THEN @ ELSE Picked(pool, picks)]
  BY <1>1, <1>3 DEF Rank
<1>5. PICK items : items = IF Picked(pool, picks) = <<>> THEN digest.items ELSE Picked(pool, picks)
  OBVIOUS
<1>6. digest' = [phase |-> "rendering", list |-> digest.list, items |-> items,
                 scored |-> digest.scored, got |-> digest.got]
  BY <1>2, <1>4, <1>5 DEF DigestInv, IsDigest
<1>7. /\ digest'.phase = "rendering" /\ digest'.list = digest.list /\ digest'.items = items
      /\ digest'.scored = digest.scored /\ digest'.got = digest.got
  BY <1>6
<1>8. IsDigest'
  BY <1>2, <1>6, <1>7 DEF DigestInv, IsDigest, Phases
<1>9. OnlyTold(items, digest.scored)
  <2>1. OnlyTold(digest.items, digest.scored)
    BY <1>2 DEF DigestInv
  <2>2. topN * poolMultiplier \in Nat
    <3>1. topN \in Nat /\ poolMultiplier \in Nat
      BY NewsAssumption
    <3>2. \A a, b \in Nat : a * b \in Nat
      OBVIOUS
    <3> QED
      BY <3>1, <3>2
  <2>3. PICK most \in Nat : most = topN * poolMultiplier
    BY <2>2
  <2>4. OnlyTold(pool, digest.scored)
    BY <1>3, <2>1, <2>3, OnlyTheFirst
  <2>5. picks \in Seq(Range(picks))
    <3>1. CASE picks = <<>>
      BY <3>1
    <3>2. CASE picks \in Rankings
      BY <3>2, NewsAssumption
    <3> QED
      BY <3>1, <3>2
  <2>6. OnlyTold(Picked(pool, picks), digest.scored)
    BY <2>4, <2>5, PickedIs
  <2> QED
    BY <1>5, <2>1, <2>6
<1>10. ranker
  BY <1>2 DEF DigestInv
<1>11. DigestInv'
  BY <1>2, <1>7, <1>8, <1>9, <1>10 DEF DigestInv
<1>12. SentInv' /\ DigestIsFaithful'
  BY <1>2, SentKept
<1> QED
  BY <1>1, <1>2, <1>11, <1>12 DEF NewsInv

LEMMA EvaluateKeeps == NewsInv /\ evaluateNewsDigest => NewsInv'
<1>1. SUFFICES ASSUME NewsInv, evaluateNewsDigest PROVE NewsInv'
  OBVIOUS
<1>2. /\ digest # None /\ digest.phase = "rendering" /\ UNCHANGED <<hours, ranker>> /\ DigestInv
  BY <1>1 DEF NewsInv, evaluateNewsDigest
<1>3. PICK list \in FeedLists : list = digest.list
  BY <1>2 DEF DigestInv, IsDigest
<1>4. PICK got : got = digest.got
  OBVIOUS
<1>5. PICK scored : scored = digest.scored
  OBVIOUS
<1>6. PICK items : items = firstOf(digest.items, topN)
  OBVIOUS
<1>7. PICK parts : parts = renderNewsDigest(items)
  OBVIOUS
<1>8. /\ sent' = [list |-> list, got |-> got, scored |-> scored, items |-> items, parts |-> parts, failed |-> FALSE]
      /\ digest' = None
  BY <1>1, <1>3, <1>4, <1>5, <1>6, <1>7 DEF evaluateNewsDigest, Sent
<1>9. /\ sent'.list = list /\ sent'.got = got /\ sent'.scored = scored /\ sent'.items = items
      /\ sent'.parts = parts /\ sent'.failed = FALSE
  BY <1>8
<1>10. /\ AllTold(scored, got) /\ OnlyTold(digest.items, scored)
       /\ \E i \in DOMAIN list : got[i] = "items"
       /\ ~ranker => digest.items = dedupAndSort(scored)
  BY <1>2, <1>3, <1>4, <1>5 DEF DigestInv
<1>11. topN \in Nat
  BY NewsAssumption
<1>12. OnlyTold(items, scored)
  BY <1>6, <1>10, <1>11, OnlyTheFirst
<1>13. items \in Seq(Range(items)) /\ Len(items) <= topN
  BY <1>6, <1>10, <1>11, <1>12, FirstOfIs DEF OnlyTold
<1>14. WellPacked(parts) /\ FlattenSeq(parts) = items /\ DOMAIN parts = 1..Len(parts)
  BY <1>7, <1>13, Rendered
<1>15. SentInv'
  BY <1>9, <1>14 DEF SentInv, WellPacked
<1>16. FailsTogether'
  BY <1>9, <1>10 DEF FailsTogether
<1>17. PartsAreWhole'
  BY <1>9, <1>14 DEF PartsAreWhole, WellPacked
<1>18. BestAreChosen'
  <2>1. SUFFICES ASSUME ~ranker'
                 PROVE  /\ \A m, n \in DOMAIN items :
                             m < n => Precedes(items[m], items[n]) /\ storyOf(items[m]) # storyOf(items[n])
                        /\ \A k \in DOMAIN scored :
                             \/ storyOf(scored[k]) = None
                             \/ \E n \in DOMAIN items :
                                  storyOf(items[n]) = storyOf(scored[k]) /\ items[n].place <= scored[k].place
                             \/ Len(items) = topN
                                /\ \E j \in 1..k : /\ storyOf(scored[j]) = storyOf(scored[k])
                                                    /\ Precedes(Last(items), scored[j])
    BY <1>9, Zenon DEF BestAreChosen, Told
  <2>2. items = firstOf(dedupAndSort(scored), topN)
    BY <1>2, <1>6, <1>10, <2>1
  <2> QED
    BY <1>10, <2>2, BestOfThem, Zenon
<1>19. NothingInvented'
  <2>1. SUFFICES ASSUME NEW n \in DOMAIN items
                 PROVE  /\ got[items[n].feed] = "items"
                        /\ \E k \in DOMAIN scored : scored[k].place = items[n].place /\ scored[k].link = items[n].link
    BY <1>9, <1>13, Zenon DEF NothingInvented
  <2>2. PICK k \in DOMAIN scored :
          scored[k].place = items[n].place /\ scored[k].link = items[n].link /\ scored[k].feed = items[n].feed
    BY <1>12 DEF OnlyTold
  <2>3. got[scored[k].feed] = "items"
    BY <1>10 DEF AllTold
  <2> QED
    BY <2>2, <2>3
<1>20. (hours \in 0..MaxHours)' /\ (ranker \in WithRanker)'
  BY <1>1, <1>2 DEF NewsInv
<1> QED
  BY <1>8, <1>15, <1>16, <1>17, <1>18, <1>19, <1>20 DEF NewsInv, DigestIsFaithful

LEMMA NewsAlways == NewsSpec => []NewsInv
<1>1. NewsInit => NewsInv
  BY NewsInitially
<1>2. NewsInv /\ [NewsNext]_newsVars => NewsInv'
  <2>1. SUFFICES ASSUME NewsInv, [NewsNext]_newsVars PROVE NewsInv'
    OBVIOUS
  <2>2. CASE UNCHANGED newsVars
    <3>1. UNCHANGED <<hours, ranker, digest, sent>>
      BY <2>2 DEF newsVars
    <3>2. SentInv' /\ DigestIsFaithful'
      BY <2>1, <3>1, SentKept DEF NewsInv
    <3>3. (digest # None => DigestInv)'
      BY <2>1, <3>1 DEF NewsInv, DigestInv, IsDigest
    <3> QED
      BY <2>1, <3>1, <3>2, <3>3 DEF NewsInv
  <2> QED
    BY <2>1, <2>2, PassedKeeps, BeginKeeps, FetchKeeps, MergeKeeps, RankNewsKeeps, RankKeeps, EvaluateKeeps
       DEF NewsNext
<1> QED
  BY <1>1, <1>2, PTL DEF NewsSpec

\* A digest fails only when no feed answered; what it sends is, without a model's
\* choice, the best stories, each once and in order, with it only what was told, at
\* most topN; and its messages hold all of it in order, none too long for Telegram
\* (evaluateNewsDigest, dedupAndSort, rankNews and renderNewsDigest).
THEOREM DigestsAreFaithful == NewsSpec => []DigestIsFaithful
<1>1. NewsInv => DigestIsFaithful
  BY DEF NewsInv
<1> QED
  BY <1>1, NewsAlways, PTL

\* A digest in the making knows of each of its feeds whether it answered, and no
\* message is empty.
THEOREM DigestsAreTyped == NewsSpec => []NewsTypeOK
<1>1. NewsInv => NewsTypeOK
  BY DEF NewsInv, NewsTypeOK, DigestInv, IsDigest, SentInv
<1> QED
  BY <1>1, NewsAlways, PTL

-----------------------------------------------------------------------------
(***************************************************************************)
(* Outside: the composition of the parts.                                  *)
(***************************************************************************)
\* A step is of one part, and the others stand still.
LEMMA PartsGoOn ==
  [OutsideNext]_outsideVars =>
    /\ [GuideNext]_guideVars /\ [CallNext]_callVars /\ [TvNext]_tvVars /\ [RatesNext]_rateVars
    /\ [WeatherNext]_weatherVars /\ [PricesNext]_priceVars /\ [NewsNext]_newsVars
    /\ UNCHANGED part /\ ((part = "requests" /\ RequestNext) \/ UNCHANGED requestVars)
<1>1. CASE UNCHANGED outsideVars
  BY <1>1 DEF outsideVars
<1>2. CASE OutsideNext
  BY <1>2 DEF OutsideNext
<1> QED
  BY <1>1, <1>2

\* Every behavior of the composition is one of each of the parts (the part that
\* parses requests may have none to parse): what is proved of a part alone holds of
\* it here.
THEOREM PartsKeepTheirSpecs ==
  OutsideSpec =>
    /\ GuideSpec /\ CallSpec /\ TvSpec /\ RatesSpec /\ WeatherSpec /\ PricesSpec /\ NewsSpec
<1>1. OutsideInit =>
        GuideInit /\ CallInit /\ TvInit /\ RatesInit /\ WeatherInit /\ PricesInit /\ NewsInit
  BY DEF OutsideInit
<1>2. [OutsideNext]_outsideVars =>
        /\ [GuideNext]_guideVars /\ [CallNext]_callVars /\ [TvNext]_tvVars /\ [RatesNext]_rateVars
        /\ [WeatherNext]_weatherVars /\ [PricesNext]_priceVars /\ [NewsNext]_newsVars
  BY PartsGoOn
<1> QED
  BY <1>1, <1>2, PTL DEF OutsideSpec, GuideSpec, CallSpec, TvSpec, RatesSpec, WeatherSpec, PricesSpec, NewsSpec

\* A request of another part says nothing, and is never parsed.
NothingIsAsked == part # "requests" /\ text = PlainText /\ parsed = None
HeardInv == RequestInv /\ (PollingInv \/ NothingIsAsked)

LEMMA PlainTextMakesNothing ==
  FastPath(PlainText) = Empty
<1>1. PICK t : t = PlainText
  OBVIOUS
<1>2. /\ t.rate = None /\ t.words = {} /\ t.limit = None /\ t.show = None /\ t.urls = <<>>
      /\ t.repeat = None /\ t.once = None
  BY <1>1 DEF PlainText
<1>3. parseExchangeRate(t) = Empty /\ parseWeather(t) = Empty /\ parseTVAnchor(t) = Empty
  BY <1>2 DEF parseExchangeRate, parseWeather, parseTVAnchor
<1>4. parsePriceDrop(t) = Empty /\ parseRSSDigest(t) = Empty
  BY <1>2 DEF parsePriceDrop, parseRSSDigest
<1>5. parseRecurring(t) = Empty /\ parseAbsolute(t) = Empty
  BY <1>2 DEF parseRecurring, parseAbsolute
<1>6. FastPath(t) = Empty
  BY <1>3, <1>4, <1>5, FirstPattern, Zenon
<1> QED
  BY <1>1, <1>6

LEMMA HeardStart == OutsideInit => HeardInv
<1>0. SUFFICES ASSUME OutsideInit PROVE HeardInv
  OBVIOUS
<1>1. CASE part = "requests"
  <2>1. RequestInit
    BY <1>0, <1>1 DEF OutsideInit
  <2>2. turn = 1 /\ best = Empty /\ parsed = None
    BY <2>1 DEF RequestInit
  <2> QED
    BY <2>1, <2>2, PollingStart, RequestStart DEF HeardInv
<1>2. CASE part # "requests"
  <2>1. text = PlainText /\ turn = 1 /\ best = Empty /\ parsed = None
    BY <1>0, <1>2 DEF OutsideInit
  <2> QED
    BY <1>2, <2>1, RequestStart DEF HeardInv, NothingIsAsked
<1> QED
  BY <1>1, <1>2

LEMMA HeardKeeps == HeardInv /\ [OutsideNext]_outsideVars => HeardInv'
<1>0. SUFFICES ASSUME HeardInv, [OutsideNext]_outsideVars PROVE HeardInv'
  OBVIOUS
<1>1. UNCHANGED part /\ ((part = "requests" /\ RequestNext) \/ UNCHANGED requestVars)
  BY <1>0, PartsGoOn
<1>2. RequestInv'
  BY <1>0, <1>1, RequestKeeps DEF HeardInv
<1>3. CASE PollingInv
  BY <1>1, <1>2, <1>3, PollingStep DEF HeardInv
<1>4. CASE NothingIsAsked
  <2>1. UNCHANGED <<part, text, parsed>>
    BY <1>1, <1>4 DEF NothingIsAsked, requestVars
  <2> QED
    BY <1>2, <1>4, <2>1 DEF HeardInv, NothingIsAsked
<1> QED
  BY <1>0, <1>3, <1>4 DEF HeardInv

LEMMA HeardIsUnderstood == HeardInv => RequestTypeOK /\ UnderstoodAlike /\ PolledInTime
<1>0. SUFFICES ASSUME HeardInv PROVE RequestTypeOK /\ UnderstoodAlike /\ PolledInTime
  OBVIOUS
<1>1. RequestTypeOK
  BY <1>0, RequestTyped DEF HeardInv
<1>2. CASE PollingInv
  <2>1. text \in Texts
    BY <1>2 DEF PollingInv
  <2> QED
    BY <1>1, <1>2, <2>1, TextIsUnderstoodAlike, PolledInTimeLemma
<1>3. CASE NothingIsAsked
  <2>1. FastPath(text) = Empty /\ parsed = None
    BY <1>3, PlainTextMakesNothing DEF NothingIsAsked
  <2>2. UnderstoodAlike
    <3>1. text.price = None
      BY <1>3 DEF NothingIsAsked, PlainText
    <3>2. AmountIsKept
      BY <3>1, Zenon DEF AmountIsKept
    <3> QED
      BY <2>1, <3>2, Zenon DEF UnderstoodAlike
  <2>3. PolledInTime
    BY <2>1 DEF PolledInTime
  <2> QED
    BY <1>1, <2>2, <2>3
<1> QED
  BY <1>0, <1>2, <1>3 DEF HeardInv

LEMMA RequestsAreHeard == OutsideSpec => [](RequestTypeOK /\ UnderstoodAlike /\ PolledInTime)
BY HeardStart, HeardKeeps, HeardIsUnderstood, PTL DEF OutsideSpec

\* In the composition too every variable of every part has its type.
THEOREM OutsideIsTyped == OutsideSpec => []OutsideTypeOK
<1>1. /\ GuideTypeOK /\ CallTypeOK /\ RequestTypeOK /\ TvTypeOK /\ RatesTypeOK /\ WeatherTypeOK /\ PricesTypeOK
      /\ NewsTypeOK
      => OutsideTypeOK
  BY DEF OutsideTypeOK
<1> QED
  BY <1>1, PartsKeepTheirSpecs, GuideIsTyped, CompletionsAreTyped, RequestsAreHeard, LookupsAreTyped, RatesAreTyped,
     PlacesAreFew, SamplesAreTyped, DigestsAreTyped, PTL

\* And what is promised of each part holds in the composition: of the guide, the
\* completions, the requests, the lookups, the rates, the forecasts, the prices
\* and the digests.
THEOREM OutsideIsSafe ==
  OutsideSpec =>
    [](/\ GuideIsWhole /\ GuideIsRecent /\ FallsBack /\ UnderstoodAlike /\ PolledInTime /\ WindowIsComplete
       /\ RateIsRecent /\ ForecastFits /\ SampleIsHonest /\ DigestIsFaithful)
BY PartsKeepTheirSpecs, ImportsAreWhole, GuidesAreRecent, CompletionsFallBack, RequestsAreHeard, WindowsAreComplete,
   RatesAreRecent, ForecastsFit, SamplesAreHonest, DigestsAreFaithful, PTL
=============================================================================
