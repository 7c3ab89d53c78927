-------------------------- MODULE ProgrammeProofs ---------------------------
(***************************************************************************)
(* What readers of the guide see, for documents, batches, intervals and    *)
(* time-outs of every size: all of one document, and a recent one; and     *)
(* what a lookup in a broadcaster's weekly schedule finds, for any         *)
(* schedule.                                                               *)
(***************************************************************************)
EXTENDS ProgrammeGuide, TvGuide, SequenceTheorems, FiniteSetTheorems, FunctionTheorems, TLAPS

-----------------------------------------------------------------------------
(***************************************************************************)
(* ProgrammeGuide: the import and its readers.                             *)
(***************************************************************************)
\* What a document holds, in its order: elements nobody reads, the channels (one of
\* them twice), the programmes, and perhaps an error.
Skipped(f) == IF f.shape = "noisy" THEN 1 ELSE 0
Listed(f) == IF f.shape = "twin" THEN Append(Channels, Channels[1]) ELSE Channels
Shown(f) == Rows(f.published).programmes
ElementAt(f, i) ==
  IF i <= Skipped(f) THEN [kind |-> "skipped"]
  ELSE IF i <= Skipped(f) + Len(Listed(f)) THEN [kind |-> "channel", row |-> Listed(f)[i - Skipped(f)]]
  ELSE IF i <= Skipped(f) + Len(Listed(f)) + Len(Shown(f))
       THEN [kind |-> "programme", row |-> Shown(f)[i - Skipped(f) - Len(Listed(f))]]
  ELSE [kind |-> "error"]
Errors(f) == IF f.shape = "cut" THEN 1 ELSE 0

Heads(f) == IF f.shape = "noisy" THEN <<[kind |-> "skipped"]>> ELSE <<>>
Twins(f) == IF f.shape = "twin" THEN <<ChannelElements[1]>> ELSE <<>>
FileEnds(f) == IF f.shape = "cut" THEN <<[kind |-> "error"]>> ELSE <<>>
Kinds(f) == {[kind |-> "skipped"], [kind |-> "error"]} \cup Range(ChannelElements)
            \cup Range(ProgrammeElements(f.published))

\* There is a channel, and the numbers of channels and of programmes are numbers.
LEMMA AreNumbers ==
  /\ Len(Channels) \in Nat \ {0} /\ Len(Channels) * Coverage \in Nat
  /\ Channels \in [1..Len(Channels) -> Range(Channels)]
  /\ Channels[1] \in Range(Channels)
<1>1. Channels \in Seq(Range(Channels)) /\ Channels # <<>> /\ Coverage \in Nat
  BY GuideAssumption
<1>2. Len(Channels) \in Nat \ {0} /\ Channels \in [1..Len(Channels) -> Range(Channels)]
  BY <1>1, EmptySeq, LenProperties
<1>3. \A m, n \in Nat : m * n \in Nat
  BY SMT
<1>4. 1 \in 1..Len(Channels)
  BY <1>2
<1> QED
  BY <1>1, <1>2, <1>3, <1>4, ElementOfSeq

\* A function on the first n numbers is a sequence of its values.
LEMMA IsSequence ==
  ASSUME NEW n \in Nat, NEW g, g = [i \in 1..n |-> g[i]]
  PROVE  g \in Seq(Range(g)) /\ Len(g) = n
<1>1. g \in [1..n -> Range(g)]
  BY DEF Range
<1> QED
  BY <1>1

\* The parts of a document are sequences of its elements.
LEMMA PartsAreSequences ==
  ASSUME NEW f
  PROVE  /\ ChannelElements \in Seq(Kinds(f)) /\ Len(ChannelElements) = Len(Channels)
         /\ \A i \in 1..Len(Channels) : ChannelElements[i] = [kind |-> "channel", row |-> Channels[i]]
         /\ ProgrammeElements(f.published) \in Seq(Kinds(f))
         /\ Len(ProgrammeElements(f.published)) = Len(Channels) * Coverage
         /\ Shown(f) \in Seq(Range(Shown(f))) /\ Len(Shown(f)) = Len(Channels) * Coverage
         /\ \A i \in 1..Len(Channels) * Coverage :
              ProgrammeElements(f.published)[i] = [kind |-> "programme", row |-> Shown(f)[i]]
<1> DEFINE all == Len(Channels) * Coverage
           c == ChannelElements
           p == ProgrammeElements(f.published)
<1>1. all \in Nat /\ Len(Channels) \in Nat /\ DOMAIN Channels = 1..Len(Channels)
  BY AreNumbers
<1>2. /\ c = [i \in 1..Len(Channels) |-> c[i]]
      /\ \A i \in 1..Len(Channels) : c[i] = [kind |-> "channel", row |-> Channels[i]]
  BY <1>1 DEF ChannelElements
<1>3. /\ p = [i \in 1..all |-> p[i]]
      /\ \A i \in 1..all : p[i] = [kind |-> "programme", row |-> p[i].row]
  BY DEF ProgrammeElements
<1>4. Shown(f) = [i \in 1..all |-> p[i].row]
  BY DEF Shown, Rows
<1> HIDE DEF all, c, p
<1>5. c \in Seq(Range(c)) /\ Len(c) = Len(Channels)
  BY <1>1, <1>2, IsSequence
<1>6. p \in Seq(Range(p)) /\ Len(p) = all
  BY <1>1, <1>3, IsSequence
<1>7. /\ Shown(f) \in Seq(Range(Shown(f))) /\ Len(Shown(f)) = all
      /\ \A i \in 1..all : p[i] = [kind |-> "programme", row |-> Shown(f)[i]]
  <2>1. Shown(f) = [i \in 1..all |-> Shown(f)[i]] /\ \A i \in 1..all : Shown(f)[i] = p[i].row
    BY <1>4
  <2> QED
    BY <1>1, <1>3, <2>1, IsSequence
<1>8. Range(c) \subseteq Kinds(f) /\ Range(p) \subseteq Kinds(f)
  BY DEF Kinds, c, p
<1> QED
  BY <1>2, <1>5, <1>6, <1>7, <1>8, SeqMonotonic DEF c, p, all

\* The channels a document names, a twin last.
LEMMA ListedIs ==
  ASSUME NEW f
  PROVE  /\ Listed(f) \in Seq(Range(Channels))
         /\ Len(Listed(f)) = Len(Channels) + (IF f.shape = "twin" THEN 1 ELSE 0)
         /\ \A i \in 1..Len(Channels) : Listed(f)[i] = Channels[i]
         /\ f.shape = "twin" => Listed(f)[Len(Channels) + 1] = Channels[1]
<1>1. CASE f.shape = "twin"
  <2>1. Channels \in Seq(Range(Channels)) /\ Channels[1] \in Range(Channels)
    BY GuideAssumption, AreNumbers
  <2>2. Listed(f) = Append(Channels, Channels[1])
    BY <1>1 DEF Listed
  <2> QED
    BY <1>1, <2>1, <2>2, AppendProperties
<1>2. CASE f.shape # "twin"
  <2>1. Listed(f) = Channels
    BY <1>2 DEF Listed
  <2> QED
    BY <1>2, <2>1, GuideAssumption, AreNumbers
<1> QED
  BY <1>1, <1>2

\* What a concatenation is, of opaque names.
LEMMA Joined ==
  ASSUME NEW S, NEW s \in Seq(S), NEW t \in Seq(S), NEW u, u = s \o t
  PROVE  /\ u \in Seq(S) /\ Len(s) \in Nat /\ Len(t) \in Nat /\ Len(u) = Len(s) + Len(t)
         /\ \A i \in 1..Len(u) : u[i] = IF i <= Len(s) THEN s[i] ELSE t[i - Len(s)]
<1> QED
  BY ConcatProperties, LenProperties

\* A document element by element.
LEMMA DocumentIs ==
  ASSUME NEW f
  PROVE  /\ Document(f) \in Seq(Kinds(f))
         /\ Len(Document(f)) = Skipped(f) + Len(Listed(f)) + Len(Shown(f)) + Errors(f)
         /\ \A i \in 1..Len(Document(f)) : Document(f)[i] = ElementAt(f, i)
<1> DEFINE E == Kinds(f)
           skip == [kind |-> "skipped"]
           error == [kind |-> "error"]
           c == ChannelElements
           p == ProgrammeElements(f.published)
           d1 == Heads(f) \o c
           d2 == d1 \o Twins(f)
           d3 == d2 \o p
           d4 == d3 \o FileEnds(f)
<1>1. Document(f) = d4
  BY DEF Document, Heads, Twins, FileEnds
<1>2. skip \in E /\ error \in E
  BY DEF Kinds
<1>3. /\ c \in Seq(E) /\ Len(c) = Len(Channels) /\ p \in Seq(E) /\ Len(p) = Len(Shown(f))
      /\ \A i \in 1..Len(c) : c[i] = [kind |-> "channel", row |-> Channels[i]]
      /\ \A i \in 1..Len(p) : p[i] = [kind |-> "programme", row |-> Shown(f)[i]]
  BY PartsAreSequences
<1>4. Len(Channels) \in Nat \ {0} /\ Len(p) \in Nat
  BY <1>3, AreNumbers, LenProperties
<1>5. c[1] \in E /\ c[1] = [kind |-> "channel", row |-> Channels[1]]
  BY <1>3, <1>4, ElementOfSeq
<1> HIDE DEF E, skip, error, c, p
<1>6. /\ Heads(f) \in Seq(E) /\ Len(Heads(f)) = Skipped(f) /\ Skipped(f) \in {0, 1}
      /\ Skipped(f) = 1 => Heads(f)[1] = skip
  BY <1>2 DEF Heads, Skipped, skip
<1>7. /\ Twins(f) \in Seq(E) /\ Len(Twins(f)) = (IF f.shape = "twin" THEN 1 ELSE 0)
      /\ f.shape = "twin" => Twins(f)[1] = c[1]
  BY <1>5 DEF Twins, c
<1>8. /\ FileEnds(f) \in Seq(E) /\ Len(FileEnds(f)) = Errors(f) /\ Errors(f) \in {0, 1}
      /\ Errors(f) = 1 => FileEnds(f)[1] = error
  BY <1>2 DEF FileEnds, Errors, error
<1>9. /\ d1 \in Seq(E) /\ Len(d1) = Skipped(f) + Len(c)
      /\ \A i \in 1..Len(d1) : d1[i] = IF i <= Skipped(f) THEN Heads(f)[i] ELSE c[i - Skipped(f)]
  <2> HIDE DEF d1
  <2>1. d1 = Heads(f) \o c
    BY DEF d1
  <2> QED
    BY <2>1, <1>3, <1>6, Joined
<1>10. /\ d2 \in Seq(E) /\ Len(d2) = Len(d1) + Len(Twins(f))
       /\ \A i \in 1..Len(d2) : d2[i] = IF i <= Len(d1) THEN d1[i] ELSE Twins(f)[i - Len(d1)]
  <2> HIDE DEF d1, d2
  <2>1. d2 = d1 \o Twins(f)
    BY DEF d2
  <2> QED
    <3>1. Twins(f) \in Seq(E) /\ d1 \in Seq(E)
      BY <1>7, <1>9
    <3> QED
      BY <2>1, <3>1, Joined
<1>11. /\ d3 \in Seq(E) /\ Len(d3) = Len(d2) + Len(p)
       /\ \A i \in 1..Len(d3) : d3[i] = IF i <= Len(d2) THEN d2[i] ELSE p[i - Len(d2)]
  <2> HIDE DEF d2, d3
  <2>1. d3 = d2 \o p
    BY DEF d3
  <2> QED
    BY <2>1, <1>3, <1>10, Joined
<1>12. /\ d4 \in Seq(E) /\ Len(d4) = Len(d3) + Len(FileEnds(f))
       /\ \A i \in 1..Len(d4) : d4[i] = IF i <= Len(d3) THEN d3[i] ELSE FileEnds(f)[i - Len(d3)]
  <2> HIDE DEF d3, d4
  <2>1. d4 = d3 \o FileEnds(f)
    BY DEF d4
  <2> QED
    BY <2>1, <1>8, <1>11, Joined
<1> HIDE DEF d1, d2, d3, d4
<1>13. /\ Len(Listed(f)) = Len(c) + Len(Twins(f))
       /\ \A i \in 1..Len(c) : Listed(f)[i] = Channels[i]
       /\ f.shape = "twin" => Listed(f)[Len(c) + 1] = Channels[1]
  BY <1>3, <1>7, ListedIs
<1>14. /\ Len(Twins(f)) \in {0, 1} /\ Len(c) \in Nat \ {0} /\ Len(p) \in Nat
  BY <1>3, <1>4, <1>7
<1>15. /\ Len(d1) = Skipped(f) + Len(c) /\ Len(d2) = Skipped(f) + Len(Listed(f))
       /\ Len(d3) = Len(d2) + Len(p) /\ Len(d4) = Len(d3) + Errors(f)
       /\ Len(Listed(f)) \in Nat
  <2>1. Len(d1) = Skipped(f) + Len(c)
    BY <1>9
  <2>2. Len(d2) = Len(d1) + Len(Twins(f))
    BY <1>10
  <2>3. Len(Listed(f)) = Len(c) + Len(Twins(f))
    BY <1>13
  <2>4. Len(d3) = Len(d2) + Len(p) /\ Len(d4) = Len(d3) + Errors(f)
    BY <1>8, <1>11, <1>12
  <2> QED
    BY <2>1, <2>2, <2>3, <2>4, <1>6, <1>14
<1>16. Len(d4) = Skipped(f) + Len(Listed(f)) + Len(Shown(f)) + Errors(f)
  BY <1>3, <1>6, <1>8, <1>14, <1>15
<1>17. ASSUME NEW i \in 1..Len(d4) PROVE d4[i] = ElementAt(f, i)
  <2> DEFINE k == Skipped(f)
             l == Len(Listed(f))
  <2>1. /\ k \in Nat /\ l \in Nat /\ Len(c) \in Nat /\ Len(p) \in Nat /\ i \in Nat /\ i >= 1
        /\ Len(d1) = k + Len(c) /\ Len(d2) = k + l /\ Len(d3) = k + l + Len(p)
        /\ l >= Len(c) /\ l <= Len(c) + 1 /\ k <= 1 /\ i <= k + l + Len(p) + 1
        /\ Len(c) >= 1
    <3>1. l = Len(c) + Len(Twins(f))
      BY <1>13
    <3>2. k \in {0, 1} /\ Errors(f) \in {0, 1}
      BY <1>6, <1>8
    <3> HIDE DEF k, l
    <3>3. Len(d1) = k + Len(c) /\ Len(d2) = k + l /\ Len(d3) = Len(d2) + Len(p) /\ Len(d4) = Len(d3) + Errors(f)
      BY <1>15 DEF k, l
    <3>4. i \in Nat /\ i >= 1 /\ i <= Len(d4)
      <4>1. Len(d4) \in Nat
        BY <1>12, LenProperties
      <4> QED
        BY <4>1
    <3> DEFINE m == Len(c)
               n == Len(p)
               t == Len(Twins(f))
               e == Errors(f)
    <3>5. t \in {0, 1} /\ e \in {0, 1} /\ k \in {0, 1} /\ m \in Nat \ {0} /\ n \in Nat
      BY <1>14, <3>2
    <3>6. l = m + t /\ Len(d1) = k + m /\ Len(d2) = k + l /\ Len(d3) = Len(d2) + n /\ Len(d4) = Len(d3) + e
      BY <3>1, <3>3
    <3> HIDE DEF m, n, t, e
    <3>7. /\ k \in Nat /\ l \in Nat /\ m \in Nat /\ n \in Nat /\ i \in Nat /\ i >= 1
          /\ Len(d1) = k + m /\ Len(d2) = k + l /\ Len(d3) = k + l + n
          /\ l >= m /\ l <= m + 1 /\ k <= 1 /\ i <= k + l + n + 1 /\ m >= 1
      BY <3>4, <3>5, <3>6
    <3> QED
      BY <3>7 DEF m, n
  <2> HIDE DEF k, l
  <2>2. ~(i <= Len(d3)) => d4[i] = FileEnds(f)[i - Len(d3)]
    BY <1>12
  <2>3. i <= Len(d3) => d4[i] = d3[i] /\ (~(i <= Len(d2)) => d3[i] = p[i - Len(d2)])
    BY <1>11, <1>12, <2>1
  <2>4. i <= Len(d2) => d4[i] = d2[i] /\ (~(i <= Len(d1)) => d2[i] = Twins(f)[i - Len(d1)])
    <3>1. i <= Len(d2) => i \in 1..Len(d2) /\ i \in 1..Len(d3)
      BY <2>1
    <3> QED
      BY <1>10, <1>11, <2>3, <3>1
  <2>5. i <= Len(d1) => d4[i] = IF i <= k THEN Heads(f)[i] ELSE c[i - k]
    <3>1. i <= Len(d1) => i \in 1..Len(d1) /\ i \in 1..Len(d2)
      BY <2>1
    <3> QED
      BY <1>9, <1>10, <2>4, <3>1 DEF k
  <2>6. CASE i <= k
    <3>1. i <= Len(d1) /\ i = 1 /\ k = 1
      BY <2>1, <2>6
    <3>2. d4[i] = skip
      BY <2>5, <2>6, <3>1, <1>6 DEF k
    <3> QED
      BY <2>6, <3>2 DEF ElementAt, skip, k
  <2>7. CASE i > k /\ i <= k + Len(c)
    <3>1. i <= Len(d1) /\ ~(i <= k) /\ i <= k + l /\ i - k \in 1..Len(c)
      BY <2>1, <2>7
    <3>2. d4[i] = c[i - k]
      BY <2>5, <3>1
    <3>3. c[i - k] = [kind |-> "channel", row |-> Listed(f)[i - k]]
      BY <1>3, <1>13, <3>1
    <3> QED
      BY <3>1, <3>2, <3>3 DEF ElementAt, k, l
  <2>8. CASE i > k + Len(c) /\ i <= k + l
    <3>1. i <= Len(d2) /\ ~(i <= Len(d1)) /\ ~(i <= k) /\ l = Len(c) + 1 /\ i - Len(d1) = 1 /\ i - k = Len(c) + 1
      BY <2>1, <2>8
    <3>2. f.shape = "twin"
      BY <3>1, <2>1, <1>7, <1>13 DEF l
    <3>3. d4[i] = Twins(f)[1]
      BY <2>4, <3>1
    <3>4. Twins(f)[1] = [kind |-> "channel", row |-> Listed(f)[i - k]]
      BY <1>5, <1>7, <1>13, <3>1, <3>2
    <3> QED
      BY <2>8, <3>1, <3>3, <3>4 DEF ElementAt, k, l
  <2>9. CASE i > k + l /\ i <= k + l + Len(p)
    <3>1. i <= Len(d3) /\ ~(i <= Len(d2)) /\ ~(i <= k) /\ ~(i <= k + l) /\ i - Len(d2) = i - k - l /\ i - k - l \in 1..Len(p)
      BY <2>1, <2>9
    <3>2. d4[i] = p[i - k - l]
      BY <2>3, <3>1
    <3>3. p[i - k - l] = [kind |-> "programme", row |-> Shown(f)[i - k - l]]
      BY <1>3, <3>1
    <3>4. i <= k + l + Len(Shown(f))
      BY <2>9, <1>3
    <3> QED
      BY <3>1, <3>2, <3>3, <3>4 DEF ElementAt, k, l
  <2>10. CASE i > k + l + Len(p)
    <3>1. ~(i <= Len(d3)) /\ i - Len(d3) = 1 /\ ~(i <= k) /\ ~(i <= k + l) /\ ~(i <= k + l + Len(p))
      BY <2>1, <2>10
    <3>2. Errors(f) = 1
      BY <3>1, <1>8, <1>15
    <3>3. d4[i] = error
      BY <2>2, <3>1, <3>2, <1>8
    <3>4. ~(i <= k + l + Len(Shown(f)))
      BY <3>1, <1>3
    <3> QED
      BY <3>1, <3>3, <3>4 DEF ElementAt, k, l, error
  <2> QED
    BY <2>1, <2>6, <2>7, <2>8, <2>9, <2>10
<1> QED
  BY <1>1, <1>12, <1>16, <1>17 DEF E

-----------------------------------------------------------------------------
\* An open transaction of a document: what it wrote, with what it holds back, is
\* what the document begins with, up to the element that is next.
Transactions(f) ==
  [todo : Seq(Kinds(f)), channels : Seq(Range(Channels)), programmes : Seq(Range(Shown(f))),
   batch : [channels : Seq(Range(Channels)), programmes : Seq(Range(Shown(f)))],
   read : Seq(Range(Channels))]
First(s, t, n) == Len(s) = n /\ n <= Len(t) /\ \A i \in 1..n : s[i] = t[i]
Parsed(f, w) == Len(Document(f)) - Len(w.todo)
ChannelsIn(f, k) ==
  IF k <= Skipped(f) THEN 0
  ELSE IF k <= Skipped(f) + Len(Listed(f)) THEN k - Skipped(f) ELSE Len(Listed(f))
ProgrammesIn(f, k) ==
  IF k <= Skipped(f) + Len(Listed(f)) THEN 0 ELSE k - Skipped(f) - Len(Listed(f))
Readable(f) == Skipped(f) + Len(Listed(f)) + Len(Shown(f))

BatchesAreShort(w) == Len(w.batch.channels) < epgBatchSize /\ Len(w.batch.programmes) < epgBatchSize
IsBeginning(f, w) ==
  LET k == Parsed(f, w)
  IN /\ k \in 0..Readable(f)
     /\ \A i \in 1..Len(w.todo) : w.todo[i] = ElementAt(f, k + i)
     /\ First(w.read, Listed(f), ChannelsIn(f, k))
     /\ First(w.channels \o w.batch.channels, Listed(f), ChannelsIn(f, k))
     /\ First(w.programmes \o w.batch.programmes, Shown(f), ProgrammesIn(f, k))
IsTransaction(f, w) == w \in Transactions(f) /\ BatchesAreShort(w) /\ IsBeginning(f, w)

\* A beginning grows by the element that is next, and is the whole at its length.
LEMMA FirstGrows ==
  ASSUME NEW S, NEW s \in Seq(S), NEW t \in Seq(S), NEW n \in Nat, First(s, t, n), n < Len(t)
  PROVE  First(Append(s, t[n + 1]), t, n + 1)
<1>1. t[n + 1] \in S /\ Len(t) \in Nat
  BY LenProperties, ElementOfSeq
<1>2. Len(s) = n /\ \A i \in 1..n : s[i] = t[i]
  BY DEF First
<1>3. /\ Len(Append(s, t[n + 1])) = n + 1
      /\ \A i \in 1..n : Append(s, t[n + 1])[i] = s[i]
      /\ Append(s, t[n + 1])[n + 1] = t[n + 1]
  BY <1>1, <1>2, AppendProperties
<1> QED
  BY <1>1, <1>2, <1>3 DEF First

LEMMA FirstIsAll ==
  ASSUME NEW S, NEW s \in Seq(S), NEW t \in Seq(S), First(s, t, Len(t))
  PROVE  s = t
BY SeqEqual DEF First

\* Writing a batch keeps the rows and their order.
LEMMA AppendedToBatch ==
  ASSUME NEW S, NEW s \in Seq(S), NEW b \in Seq(S), NEW e \in S
  PROVE  /\ s \o b \in Seq(S) /\ Append(b, e) \in Seq(S) /\ s \o Append(b, e) = Append(s \o b, e)
         /\ (s \o Append(b, e)) \o <<>> = Append(s \o b, e)
         /\ s \o Append(b, e) \in Seq(S) /\ Len(Append(b, e)) = Len(b) + 1
<1>1. s \o b \in Seq(S) /\ Append(b, e) \in Seq(S) /\ <<e>> \in Seq(S) /\ Len(Append(b, e)) = Len(b) + 1
  BY ConcatProperties, AppendProperties
<1>2. Append(b, e) = b \o <<e>> /\ Append(s \o b, e) = (s \o b) \o <<e>>
  BY <1>1, AppendIsConcat
<1>3. s \o Append(b, e) = Append(s \o b, e)
  BY <1>1, <1>2, ConcatAssociative
<1>4. s \o Append(b, e) \in Seq(S)
  BY <1>1, ConcatProperties
<1> QED
  BY <1>1, <1>3, <1>4, ConcatEmptySeq

\* A record of sequences of rows is a transaction.
LEMMA TransactionHas ==
  ASSUME NEW f, NEW todo \in Seq(Kinds(f)), NEW c \in Seq(Range(Channels)), NEW p \in Seq(Range(Shown(f))),
         NEW b \in [channels : Seq(Range(Channels)), programmes : Seq(Range(Shown(f)))],
         NEW read \in Seq(Range(Channels))
  PROVE  [todo |-> todo, channels |-> c, programmes |-> p, batch |-> b, read |-> read] \in Transactions(f)
BY DEF Transactions

LEMMA TransactionIs ==
  ASSUME NEW f, NEW todo \in Seq(Kinds(f)), NEW c \in Seq(Range(Channels)), NEW p \in Seq(Range(Shown(f))),
         NEW bc \in Seq(Range(Channels)), NEW bp \in Seq(Range(Shown(f))), NEW read \in Seq(Range(Channels))
  PROVE  [todo |-> todo, channels |-> c, programmes |-> p,
          batch |-> [channels |-> bc, programmes |-> bp], read |-> read] \in Transactions(f)
BY DEF Transactions

\* a is what becomes of w by one row more, of a channel or of a programme.
HasChannel(f, w, row, a) ==
  /\ a \in Transactions(f) /\ BatchesAreShort(a)
  /\ a.todo = w.todo /\ a.read = w.read
  /\ a.channels \o a.batch.channels = Append(w.channels \o w.batch.channels, row)
  /\ a.programmes = w.programmes /\ a.batch.programmes = w.batch.programmes
HasProgramme(f, w, row, a) ==
  /\ a \in Transactions(f) /\ BatchesAreShort(a)
  /\ a.todo = w.todo /\ a.read = w.read
  /\ a.programmes \o a.batch.programmes = Append(w.programmes \o w.batch.programmes, row)
  /\ a.channels = w.channels /\ a.batch.channels = w.batch.channels

\* The writer takes a row, and writes the batch if it is full.
LEMMA AddChannel ==
  ASSUME NEW f, NEW w \in Transactions(f), BatchesAreShort(w), NEW row \in Range(Channels),
         NEW a, a = Add(w, "channels", row)
  PROVE  HasChannel(f, w, row, a)
<1> SUFFICES /\ a \in Transactions(f) /\ BatchesAreShort(a)
             /\ a.todo = w.todo /\ a.read = w.read
             /\ a.channels \o a.batch.channels = Append(w.channels \o w.batch.channels, row)
             /\ a.programmes = w.programmes /\ a.batch.programmes = w.batch.programmes
  BY Zenon DEF HasChannel
<1> DEFINE R == Range(Channels)
           P == Range(Shown(f))
           b == Append(w.batch.channels, row)
           added == [w EXCEPT !.batch = [channels |-> b, programmes |-> w.batch.programmes]]
<1>1. /\ w.channels \in Seq(R) /\ w.batch.channels \in Seq(R) /\ w.batch.programmes \in Seq(P)
      /\ w.batch \in [channels : Seq(R), programmes : Seq(P)]
  BY DEF Transactions
<1>2. /\ b \in Seq(R) /\ w.channels \o b = Append(w.channels \o w.batch.channels, row)
      /\ (w.channels \o b) \o <<>> = Append(w.channels \o w.batch.channels, row)
      /\ w.channels \o b \in Seq(R) /\ Len(b) = Len(w.batch.channels) + 1
  <2>1. row \in R /\ w.channels \in Seq(R) /\ w.batch.channels \in Seq(R)
    BY <1>1
  <2>2. PICK S, q, h : S = R /\ q = w.channels /\ h = w.batch.channels
    OBVIOUS
  <2>3. row \in S /\ q \in Seq(S) /\ h \in Seq(S)
    BY <2>1, <2>2
  <2>4. /\ Append(h, row) \in Seq(S) /\ q \o Append(h, row) = Append(q \o h, row)
        /\ (q \o Append(h, row)) \o <<>> = Append(q \o h, row)
        /\ q \o Append(h, row) \in Seq(S) /\ Len(Append(h, row)) = Len(h) + 1
    BY <2>3, AppendedToBatch
  <2> QED
    BY <2>2, <2>4, Zenon
<1>3. [w EXCEPT !.batch["channels"] = Append(@, row)] = added
  <2>1. w.batch = [channels |-> w.batch.channels, programmes |-> w.batch.programmes]
    BY <1>1
  <2>2. [w.batch EXCEPT !["channels"] = b] = [channels |-> b, programmes |-> w.batch.programmes]
    <3>1. PICK x, y, z : x = w.batch.channels /\ y = w.batch.programmes /\ z = b
      OBVIOUS
    <3>2. w.batch = [channels |-> x, programmes |-> y]
      BY <2>1, <3>1
    <3>3. [w.batch EXCEPT !["channels"] = z] = [channels |-> z, programmes |-> y]
      BY <3>2
    <3> QED
      BY <3>1, <3>3, Zenon
  <2> QED
    BY <2>2
<1>4. /\ added \in Transactions(f) /\ added.todo = w.todo /\ added.read = w.read
      /\ added.channels = w.channels /\ added.programmes = w.programmes
      /\ added.batch.channels = b /\ added.batch.programmes = w.batch.programmes
  BY <1>1, <1>2 DEF Transactions
<1>5. a = IF Len(b) >= epgBatchSize THEN flushed(added, "channels") ELSE added
  BY <1>3, <1>4 DEF Add
<1> HIDE DEF added, b
<1>6. CASE Len(b) >= epgBatchSize
  <2>1. /\ a.todo = w.todo /\ a.read = w.read /\ a.programmes = w.programmes
        /\ a.channels = w.channels \o b /\ a.batch.channels = <<>> /\ a.batch.programmes = w.batch.programmes
        /\ a \in Transactions(f)
    <3>1. a = [added EXCEPT !.channels = added.channels \o b,
                            !.batch = [channels |-> <<>>, programmes |-> added.batch.programmes]]
      <4>1. a = flushed(added, "channels")
        BY <1>5, <1>6
      <4>2. added.batch = [channels |-> added.batch.channels, programmes |-> added.batch.programmes]
        BY <1>4 DEF Transactions
      <4>3. [added.batch EXCEPT !["channels"] = <<>>] = [channels |-> <<>>, programmes |-> added.batch.programmes]
        <5>1. PICK x, y : x = added.batch.channels /\ y = added.batch.programmes
          OBVIOUS
        <5>2. added.batch = [channels |-> x, programmes |-> y]
          BY <4>2, <5>1
        <5>3. [added.batch EXCEPT !["channels"] = <<>>] = [channels |-> <<>>, programmes |-> y]
          BY <5>2
        <5> QED
          BY <5>1, <5>3, Zenon
      <4> QED
        BY <1>4, <4>1, <4>3 DEF flushed, Transactions
    <3>2. added.channels \o b \in Seq(R) /\ <<>> \in Seq(R) /\ added.batch.programmes \in Seq(P)
      BY <1>1, <1>2, <1>4
    <3> DEFINE c == added.channels \o b
               o == added.batch.programmes
    <3>3. c \in Seq(R) /\ o \in Seq(P) /\ c = w.channels \o b /\ o = w.batch.programmes
      BY <3>2, <1>4
    <3> HIDE DEF c, o, R, P
    <3>4. a = [added EXCEPT !.channels = c, !.batch = [channels |-> <<>>, programmes |-> o]]
      BY <3>1 DEF c, o
    <3>5. <<>> \in Seq(R)
      OBVIOUS
    <3>6. a = [todo |-> added.todo, channels |-> c, programmes |-> added.programmes,
                batch |-> [channels |-> <<>>, programmes |-> o], read |-> added.read]
      <4>1. added = [todo |-> added.todo, channels |-> added.channels, programmes |-> added.programmes,
                     batch |-> added.batch, read |-> added.read]
        BY <1>4 DEF Transactions
      <4> QED
        BY <3>4, <4>1
    <3>7. a \in Transactions(f)
      <4>1. /\ added.todo \in Seq(Kinds(f)) /\ added.read \in Seq(R)
            /\ added.channels \in Seq(R) /\ added.programmes \in Seq(P)
        BY <1>4 DEF Transactions, R, P
      <4>2. PICK t, x, d, e, g : /\ t = added.todo /\ x = added.programmes /\ d = added.read
                                 /\ e = c /\ g = o
        OBVIOUS
      <4>3. /\ t \in Seq(Kinds(f)) /\ d \in Seq(Range(Channels)) /\ <<>> \in Seq(Range(Channels))
            /\ x \in Seq(Range(Shown(f))) /\ e \in Seq(Range(Channels))
            /\ g \in Seq(Range(Shown(f)))
        BY <3>3, <3>5, <4>1, <4>2 DEF R, P
      <4>4. [todo |-> t, channels |-> e, programmes |-> x,
             batch |-> [channels |-> <<>>, programmes |-> g], read |-> d] \in Transactions(f)
        BY <4>3, TransactionIs
      <4> QED
        BY <3>6, <4>2, <4>4, Zenon
    <3>8. /\ a.todo = added.todo /\ a.read = added.read /\ a.programmes = added.programmes
          /\ a.channels = c /\ a.batch.channels = <<>> /\ a.batch.programmes = o
      BY <3>6
    <3> QED
      BY <3>3, <3>7, <3>8, <1>4
  <2>2. BatchesAreShort(a)
    BY <2>1, GuideAssumption DEF BatchesAreShort
  <2> QED
    BY <2>1, <2>2, <1>2
<1>7. CASE ~(Len(b) >= epgBatchSize)
  <2>1. a = added
    BY <1>5, <1>7
  <2>2. Len(b) < epgBatchSize
    BY <1>2, <1>7, LenProperties, GuideAssumption
  <2> QED
    BY <2>1, <2>2, <1>2, <1>4 DEF BatchesAreShort
<1> QED
  BY <1>6, <1>7

LEMMA AddProgramme ==
  ASSUME NEW f, NEW w \in Transactions(f), BatchesAreShort(w), NEW row \in Range(Shown(f)),
         NEW a, a = Add(w, "programmes", row)
  PROVE  HasProgramme(f, w, row, a)
<1> SUFFICES /\ a \in Transactions(f) /\ BatchesAreShort(a)
             /\ a.todo = w.todo /\ a.read = w.read
             /\ a.programmes \o a.batch.programmes = Append(w.programmes \o w.batch.programmes, row)
             /\ a.channels = w.channels /\ a.batch.channels = w.batch.channels
  BY Zenon DEF HasProgramme
<1> DEFINE R == Range(Channels)
           P == Range(Shown(f))
           b == Append(w.batch.programmes, row)
           added == [w EXCEPT !.batch = [channels |-> w.batch.channels, programmes |-> b]]
<1>1. /\ w.programmes \in Seq(P) /\ w.batch.channels \in Seq(R) /\ w.batch.programmes \in Seq(P)
      /\ w.batch \in [channels : Seq(R), programmes : Seq(P)]
  BY DEF Transactions
<1>2. /\ b \in Seq(P) /\ w.programmes \o b = Append(w.programmes \o w.batch.programmes, row)
      /\ (w.programmes \o b) \o <<>> = Append(w.programmes \o w.batch.programmes, row)
      /\ w.programmes \o b \in Seq(P) /\ Len(b) = Len(w.batch.programmes) + 1
  <2>1. row \in P /\ w.programmes \in Seq(P) /\ w.batch.programmes \in Seq(P)
    BY <1>1
  <2>2. PICK S, q, h : S = P /\ q = w.programmes /\ h = w.batch.programmes
    OBVIOUS
  <2>3. row \in S /\ q \in Seq(S) /\ h \in Seq(S)
    BY <2>1, <2>2
  <2>4. /\ Append(h, row) \in Seq(S) /\ q \o Append(h, row) = Append(q \o h, row)
        /\ (q \o Append(h, row)) \o <<>> = Append(q \o h, row)
        /\ q \o Append(h, row) \in Seq(S) /\ Len(Append(h, row)) = Len(h) + 1
    BY <2>3, AppendedToBatch
  <2> QED
    BY <2>2, <2>4, Zenon
<1>3. [w EXCEPT !.batch["programmes"] = Append(@, row)] = added
  <2>1. w.batch = [channels |-> w.batch.channels, programmes |-> w.batch.programmes]
    BY <1>1
  <2>2. [w.batch EXCEPT !["programmes"] = b] = [channels |-> w.batch.channels, programmes |-> b]
    <3>1. PICK x, y, z : x = w.batch.programmes /\ y = w.batch.channels /\ z = b
      OBVIOUS
    <3>2. w.batch = [channels |-> y, programmes |-> x]
      BY <2>1, <3>1
    <3>3. [w.batch EXCEPT !["programmes"] = z] = [channels |-> y, programmes |-> z]
      BY <3>2
    <3> QED
      BY <3>1, <3>3, Zenon
  <2> QED
    BY <2>2
<1>4. /\ added \in Transactions(f) /\ added.todo = w.todo /\ added.read = w.read
      /\ added.channels = w.channels /\ added.programmes = w.programmes
      /\ added.batch.programmes = b /\ added.batch.channels = w.batch.channels
  BY <1>1, <1>2 DEF Transactions
<1>5. a = IF Len(b) >= epgBatchSize THEN flushed(added, "programmes") ELSE added
  BY <1>3, <1>4 DEF Add
<1> HIDE DEF added, b
<1>6. CASE Len(b) >= epgBatchSize
  <2>1. /\ a.todo = w.todo /\ a.read = w.read /\ a.channels = w.channels
        /\ a.programmes = w.programmes \o b /\ a.batch.programmes = <<>> /\ a.batch.channels = w.batch.channels
        /\ a \in Transactions(f)
    <3>1. a = [added EXCEPT !.programmes = added.programmes \o b,
                            !.batch = [channels |-> added.batch.channels, programmes |-> <<>>]]
      <4>1. a = flushed(added, "programmes")
        BY <1>5, <1>6
      <4>2. added.batch = [channels |-> added.batch.channels, programmes |-> added.batch.programmes]
        BY <1>4 DEF Transactions
      <4>3. [added.batch EXCEPT !["programmes"] = <<>>] = [channels |-> added.batch.channels, programmes |-> <<>>]
        <5>1. PICK x, y : x = added.batch.programmes /\ y = added.batch.channels
          OBVIOUS
        <5>2. added.batch = [channels |-> y, programmes |-> x]
          BY <4>2, <5>1
        <5>3. [added.batch EXCEPT !["programmes"] = <<>>] = [channels |-> y, programmes |-> <<>>]
          BY <5>2
        <5> QED
          BY <5>1, <5>3, Zenon
      <4> QED
        BY <1>4, <4>1, <4>3 DEF flushed, Transactions
    <3>2. added.programmes \o b \in Seq(P) /\ <<>> \in Seq(P) /\ added.batch.channels \in Seq(R)
      BY <1>1, <1>2, <1>4
    <3> DEFINE c == added.programmes \o b
               o == added.batch.channels
    <3>3. c \in Seq(P) /\ o \in Seq(R) /\ c = w.programmes \o b /\ o = w.batch.channels
      BY <3>2, <1>4
    <3> HIDE DEF c, o, R, P
    <3>4. a = [added EXCEPT !.programmes = c, !.batch = [channels |-> o, programmes |-> <<>>]]
      BY <3>1 DEF c, o
    <3>5. <<>> \in Seq(P)
      OBVIOUS
    <3>6. a = [todo |-> added.todo, channels |-> added.channels, programmes |-> c,
                batch |-> [channels |-> o, programmes |-> <<>>], read |-> added.read]
      <4>1. added = [todo |-> added.todo, channels |-> added.channels, programmes |-> added.programmes,
                     batch |-> added.batch, read |-> added.read]
        BY <1>4 DEF Transactions
      <4> QED
        BY <3>4, <4>1
    <3>7. a \in Transactions(f)
      <4>1. /\ added.todo \in Seq(Kinds(f)) /\ added.read \in Seq(R)
            /\ added.channels \in Seq(R) /\ added.programmes \in Seq(P)
        BY <1>4 DEF Transactions, R, P
      <4>2. PICK t, x, d, e, g : /\ t = added.todo /\ x = added.channels /\ d = added.read
                                 /\ e = c /\ g = o
        OBVIOUS
      <4>3. /\ t \in Seq(Kinds(f)) /\ d \in Seq(Range(Channels)) /\ <<>> \in Seq(Range(Shown(f)))
            /\ x \in Seq(Range(Channels)) /\ e \in Seq(Range(Shown(f)))
            /\ g \in Seq(Range(Channels))
        BY <3>3, <3>5, <4>1, <4>2 DEF R, P
      <4>4. [todo |-> t, channels |-> x, programmes |-> e,
             batch |-> [channels |-> g, programmes |-> <<>>], read |-> d] \in Transactions(f)
        BY <4>3, TransactionIs
      <4> QED
        BY <3>6, <4>2, <4>4, Zenon
    <3>8. /\ a.todo = added.todo /\ a.read = added.read /\ a.channels = added.channels
          /\ a.programmes = c /\ a.batch.programmes = <<>> /\ a.batch.channels = o
      BY <3>6
    <3> QED
      BY <3>3, <3>7, <3>8, <1>4
  <2>2. BatchesAreShort(a)
    BY <2>1, GuideAssumption DEF BatchesAreShort
  <2> QED
    BY <2>1, <2>2, <1>2
<1>7. CASE ~(Len(b) >= epgBatchSize)
  <2>1. a = added
    BY <1>5, <1>7
  <2>2. Len(b) < epgBatchSize
    BY <1>2, <1>7, LenProperties, GuideAssumption
  <2> QED
    BY <2>1, <2>2, <1>2, <1>4 DEF BatchesAreShort
<1> QED
  BY <1>6, <1>7

\* Documents have finite parts.
LEMMA Sizes ==
  ASSUME NEW f
  PROVE  /\ Skipped(f) \in Nat /\ Len(Listed(f)) \in Nat /\ Len(Shown(f)) \in Nat
         /\ Errors(f) \in Nat /\ Readable(f) \in Nat /\ Len(Document(f)) = Readable(f) + Errors(f)
<1>1. Skipped(f) \in Nat /\ Errors(f) \in Nat
  BY DEF Skipped, Errors
<1>2. Len(Listed(f)) \in Nat
  BY ListedIs, LenProperties
<1>3. Len(Shown(f)) \in Nat
  BY PartsAreSequences, AreNumbers
<1> QED
  BY <1>1, <1>2, <1>3, DocumentIs DEF Readable

\* One element more is one channel more, one programme more, or neither.
LEMMA Counts ==
  ASSUME NEW f, NEW k \in Nat
  PROVE  /\ ChannelsIn(f, k) \in Nat /\ ProgrammesIn(f, k) \in Nat
         /\ k + 1 <= Skipped(f) =>
              /\ ElementAt(f, k + 1) = [kind |-> "skipped"]
              /\ ChannelsIn(f, k + 1) = ChannelsIn(f, k) /\ ProgrammesIn(f, k + 1) = ProgrammesIn(f, k)
         /\ k + 1 > Skipped(f) /\ k + 1 <= Skipped(f) + Len(Listed(f)) =>
              /\ ChannelsIn(f, k) < Len(Listed(f))
              /\ ElementAt(f, k + 1) = [kind |-> "channel", row |-> Listed(f)[ChannelsIn(f, k) + 1]]
              /\ ChannelsIn(f, k + 1) = ChannelsIn(f, k) + 1 /\ ProgrammesIn(f, k + 1) = ProgrammesIn(f, k)
         /\ k + 1 > Skipped(f) + Len(Listed(f)) /\ k + 1 <= Readable(f) =>
              /\ ProgrammesIn(f, k) < Len(Shown(f))
              /\ ElementAt(f, k + 1) = [kind |-> "programme", row |-> Shown(f)[ProgrammesIn(f, k) + 1]]
              /\ ChannelsIn(f, k + 1) = ChannelsIn(f, k) /\ ProgrammesIn(f, k + 1) = ProgrammesIn(f, k) + 1
         /\ k + 1 > Readable(f) => ElementAt(f, k + 1) = [kind |-> "error"]
<1> DEFINE s == Skipped(f)
           l == Len(Listed(f))
           m == Len(Shown(f))
<1>1. s \in Nat /\ l \in Nat /\ m \in Nat /\ Readable(f) = s + l + m
  BY Sizes DEF Readable
<1>2. /\ ChannelsIn(f, k) = IF k <= s THEN 0 ELSE IF k <= s + l THEN k - s ELSE l
      /\ ChannelsIn(f, k + 1) = IF k + 1 <= s THEN 0 ELSE IF k + 1 <= s + l THEN (k + 1) - s ELSE l
      /\ ProgrammesIn(f, k) = IF k <= s + l THEN 0 ELSE k - s - l
      /\ ProgrammesIn(f, k + 1) = IF k + 1 <= s + l THEN 0 ELSE (k + 1) - s - l
  BY DEF ChannelsIn, ProgrammesIn
<1>3. ElementAt(f, k + 1) =
        IF k + 1 <= s THEN [kind |-> "skipped"]
        ELSE IF k + 1 <= s + l THEN [kind |-> "channel", row |-> Listed(f)[(k + 1) - s]]
        ELSE IF k + 1 <= s + l + m THEN [kind |-> "programme", row |-> Shown(f)[(k + 1) - s - l]]
        ELSE [kind |-> "error"]
  BY DEF ElementAt
<1> HIDE DEF s, l, m
<1>4. ChannelsIn(f, k) \in Nat /\ ProgrammesIn(f, k) \in Nat
  BY <1>1, <1>2
<1>5. ASSUME k + 1 <= s
      PROVE  /\ ElementAt(f, k + 1) = [kind |-> "skipped"]
             /\ ChannelsIn(f, k + 1) = ChannelsIn(f, k) /\ ProgrammesIn(f, k + 1) = ProgrammesIn(f, k)
  BY <1>1, <1>2, <1>3, <1>5
<1>6. ASSUME k + 1 > s, k + 1 <= s + l
      PROVE  /\ ChannelsIn(f, k) < l /\ ElementAt(f, k + 1) = [kind |-> "channel", row |-> Listed(f)[ChannelsIn(f, k) + 1]]
             /\ ChannelsIn(f, k + 1) = ChannelsIn(f, k) + 1 /\ ProgrammesIn(f, k + 1) = ProgrammesIn(f, k)
  <2>1. /\ ChannelsIn(f, k) = k - s /\ ChannelsIn(f, k + 1) = (k + 1) - s /\ k - s < l
        /\ ProgrammesIn(f, k) = 0 /\ ProgrammesIn(f, k + 1) = 0 /\ k - s + 1 = (k + 1) - s
        /\ ~(k + 1 <= s)
    BY <1>1, <1>2, <1>6
  <2>2. ElementAt(f, k + 1) = [kind |-> "channel", row |-> Listed(f)[(k + 1) - s]]
    BY <1>3, <1>6, <2>1
  <2> QED
    BY <2>1, <2>2, <1>1
<1>7. ASSUME k + 1 > s + l, k + 1 <= Readable(f)
      PROVE  /\ ProgrammesIn(f, k) < m /\ ElementAt(f, k + 1) = [kind |-> "programme", row |-> Shown(f)[ProgrammesIn(f, k) + 1]]
             /\ ChannelsIn(f, k + 1) = ChannelsIn(f, k) /\ ProgrammesIn(f, k + 1) = ProgrammesIn(f, k) + 1
  <2>1. /\ ProgrammesIn(f, k) = k - s - l /\ ProgrammesIn(f, k + 1) = (k + 1) - s - l /\ k - s - l < m
        /\ ChannelsIn(f, k) = l /\ ChannelsIn(f, k + 1) = l /\ k - s - l + 1 = (k + 1) - s - l
        /\ ~(k + 1 <= s) /\ ~(k + 1 <= s + l) /\ k + 1 <= s + l + m
    BY <1>1, <1>2, <1>7
  <2>2. ElementAt(f, k + 1) = [kind |-> "programme", row |-> Shown(f)[(k + 1) - s - l]]
    BY <1>3, <2>1
  <2> QED
    BY <2>1, <2>2, <1>1
<1>8. ASSUME k + 1 > Readable(f) PROVE ElementAt(f, k + 1) = [kind |-> "error"]
  <2>1. ~(k + 1 <= s) /\ ~(k + 1 <= s + l) /\ ~(k + 1 <= s + l + m)
    BY <1>1, <1>8
  <2> QED
    BY <1>3, <2>1
<1> QED
  BY <1>4, <1>5, <1>6, <1>7, <1>8 DEF s, l, m

\* What was read stays a beginning of the document, with one element more.
Past(w) == [w EXCEPT !.todo = Tail(@)]
Taken(e, v) ==
  CASE e.kind = "channel" -> [Add(v, "channels", e.row) EXCEPT !.read = Append(@, e.row)]
    [] e.kind = "programme" -> Add(v, "programmes", e.row)
    [] OTHER -> v

LEMMA ElementIsRead ==
  ASSUME NEW f, NEW w, IsTransaction(f, w), w.todo # <<>>,
         NEW e, e = Head(w.todo), e.kind # "error",
         NEW v, v = Past(w), NEW a, a = Taken(e, v)
  PROVE  IsTransaction(f, a)
<1> DEFINE k == Parsed(f, w)
           n == Len(w.todo)
           written == w.channels \o w.batch.channels
           shown == w.programmes \o w.batch.programmes
<1>1. /\ w \in Transactions(f) /\ BatchesAreShort(w) /\ k \in 0..Readable(f)
      /\ \A i \in 1..n : w.todo[i] = ElementAt(f, k + i)
      /\ First(w.read, Listed(f), ChannelsIn(f, k)) /\ First(written, Listed(f), ChannelsIn(f, k))
      /\ First(shown, Shown(f), ProgrammesIn(f, k))
  BY DEF IsTransaction, IsBeginning
<1>2. /\ w.todo \in Seq(Kinds(f)) /\ w.read \in Seq(Range(Channels))
      /\ w.channels \in Seq(Range(Channels)) /\ w.batch.channels \in Seq(Range(Channels))
      /\ w.programmes \in Seq(Range(Shown(f))) /\ w.batch.programmes \in Seq(Range(Shown(f)))
      /\ w = [todo |-> w.todo, channels |-> w.channels, programmes |-> w.programmes,
               batch |-> w.batch, read |-> w.read]
      /\ w.batch = [channels |-> w.batch.channels, programmes |-> w.batch.programmes]
  BY <1>1 DEF Transactions
<1>3. /\ n \in Nat \ {0} /\ Tail(w.todo) \in Seq(Kinds(f)) /\ Len(Tail(w.todo)) = n - 1
      /\ \A i \in 1..n - 1 : Tail(w.todo)[i] = w.todo[i + 1]
      /\ e = w.todo[1]
  <2>1. PICK t : t = w.todo
    OBVIOUS
  <2>2. /\ Len(t) \in Nat \ {0} /\ Tail(t) \in Seq(Kinds(f)) /\ Len(Tail(t)) = Len(t) - 1
        /\ \A i \in 1..Len(Tail(t)) : Tail(t)[i] = t[i + 1]
        /\ Head(t) = t[1]
    BY <1>2, <2>1, HeadTailProperties, EmptySeq
  <2> QED
    BY <2>1, <2>2
<1>4. /\ v = [todo |-> Tail(w.todo), channels |-> w.channels, programmes |-> w.programmes,
              batch |-> w.batch, read |-> w.read]
      /\ v.todo = Tail(w.todo) /\ v.channels = w.channels /\ v.programmes = w.programmes
      /\ v.batch = w.batch /\ v.read = w.read
  BY <1>2 DEF Past
<1>5. v \in Transactions(f) /\ BatchesAreShort(v)
  BY <1>1, <1>2, <1>3, <1>4 DEF Transactions, BatchesAreShort
<1>6. /\ k \in Nat /\ Parsed(f, v) = k + 1 /\ k + 1 \in Nat /\ e = ElementAt(f, k + 1)
      /\ \A i \in 1..Len(v.todo) : v.todo[i] = ElementAt(f, (k + 1) + i)
  <2>1. k \in Nat /\ e = ElementAt(f, k + 1)
    <3>1. k \in 0..Readable(f) /\ Readable(f) \in Nat
      BY <1>1, Sizes
    <3>2. 1 \in 1..n
      BY <1>3
    <3>3. w.todo[1] = ElementAt(f, k + 1)
      BY <1>1, <3>2
    <3> HIDE DEF k
    <3> QED
      BY <1>3, <3>1, <3>3
  <2>2. Parsed(f, v) = k + 1
    <3>1. Len(Document(f)) \in Nat
      BY Sizes
    <3>2. Parsed(f, v) = Len(Document(f)) - (n - 1) /\ k = Len(Document(f)) - n
      BY <1>3, <1>4 DEF Parsed
    <3> QED
      BY <1>3, <3>1, <3>2
  <2>3. ASSUME NEW i \in 1..n - 1 PROVE Tail(w.todo)[i] = ElementAt(f, (k + 1) + i)
    <3>1. i + 1 \in 1..n /\ k + (i + 1) = (k + 1) + i
      BY <1>3, <2>1
    <3> QED
      BY <1>1, <1>3, <3>1
  <2> QED
    BY <1>3, <1>4, <2>1, <2>2, <2>3
<1>7. k + 1 <= Readable(f) /\ k + 1 \in 0..Readable(f)
  <2>1. CASE k + 1 > Readable(f)
    <3>1. e = [kind |-> "error"]
      BY <1>6, <2>1, Counts
    <3> QED
      BY <3>1
  <2> QED
    BY <1>6, <2>1, Sizes
<1>8. /\ ChannelsIn(f, k) \in Nat /\ ProgrammesIn(f, k) \in Nat
      /\ Listed(f) \in Seq(Range(Channels)) /\ Shown(f) \in Seq(Range(Shown(f)))
      /\ written \in Seq(Range(Channels)) /\ shown \in Seq(Range(Shown(f)))
  <2>1. written \in Seq(Range(Channels))
    <3>1. PICK q, h : q = w.channels /\ h = w.batch.channels
      OBVIOUS
    <3> QED
      BY <1>2, <3>1, ConcatProperties
  <2>2. shown \in Seq(Range(Shown(f)))
    <3>1. PICK S, q, h : S = Range(Shown(f)) /\ q = w.programmes /\ h = w.batch.programmes
      OBVIOUS
    <3>2. q \in Seq(S) /\ h \in Seq(S)
      BY <1>2, <3>1
    <3>3. q \o h \in Seq(S)
      BY <3>2, ConcatProperties
    <3> QED
      BY <3>1, <3>3
  <2> QED
    BY <1>6, <2>1, <2>2, Counts, ListedIs, PartsAreSequences
<1>9. CASE k + 1 <= Skipped(f)
  <2>1. /\ e = [kind |-> "skipped"]
        /\ ChannelsIn(f, k + 1) = ChannelsIn(f, k) /\ ProgrammesIn(f, k + 1) = ProgrammesIn(f, k)
    BY <1>6, <1>9, Counts
  <2>2. a = v
    BY <2>1 DEF Taken
  <2>3. IsBeginning(f, v)
    BY <1>1, <1>4, <1>6, <1>7, <2>1 DEF IsBeginning
  <2> QED
    BY <1>5, <2>2, <2>3 DEF IsTransaction
<1>10. CASE k + 1 > Skipped(f) /\ k + 1 <= Skipped(f) + Len(Listed(f))
  <2> DEFINE c == ChannelsIn(f, k)
             row == Listed(f)[c + 1]
             added == Add(v, "channels", row)
  <2>1. /\ c < Len(Listed(f)) /\ e = [kind |-> "channel", row |-> row]
        /\ ChannelsIn(f, k + 1) = c + 1 /\ ProgrammesIn(f, k + 1) = ProgrammesIn(f, k)
    BY <1>6, <1>10, Counts
  <2>2. row \in Range(Channels)
    BY <1>8, <2>1, LenProperties, ElementOfSeq
  <2>3. a = [added EXCEPT !.read = Append(@, row)]
    <3>1. PICK r : r = row
      OBVIOUS
    <3>2. e.kind = "channel" /\ e.row = r
      BY <2>1, <3>1
    <3>3. a = [Add(v, "channels", e.row) EXCEPT !.read = Append(@, e.row)]
      BY <3>2 DEF Taken
    <3> QED
      BY <3>1, <3>2, <3>3, Zenon
  <2>4. /\ added \in Transactions(f) /\ BatchesAreShort(added)
        /\ added.todo = v.todo /\ added.read = w.read
        /\ added.channels \o added.batch.channels = Append(written, row)
        /\ added.programmes = w.programmes /\ added.batch.programmes = w.batch.programmes
    <3>1. /\ v.read = w.read /\ v.channels \o v.batch.channels = written
          /\ v.programmes = w.programmes /\ v.batch = w.batch
      BY <1>4
    <3>2. PICK b, r : b = added /\ r = row
      OBVIOUS
    <3>3. r \in Range(Channels) /\ b = Add(v, "channels", r)
      BY <2>2, <3>2
    <3>4. /\ b \in Transactions(f) /\ BatchesAreShort(b) /\ b.todo = v.todo /\ b.read = v.read
          /\ b.channels \o b.batch.channels = Append(v.channels \o v.batch.channels, r)
          /\ b.programmes = v.programmes /\ b.batch.programmes = v.batch.programmes
      <4>1. HasChannel(f, v, r, b)
        BY <1>5, <3>3, AddChannel
      <4> QED
        BY <4>1 DEF HasChannel
    <3> HIDE DEF added, row, written
    <3> QED
      BY <3>1, <3>2, <3>4
  <2> HIDE DEF c, row, added
  <2>5. /\ First(Append(w.read, row), Listed(f), c + 1)
        /\ First(Append(written, row), Listed(f), c + 1)
        /\ Append(w.read, row) \in Seq(Range(Channels))
    <3>1. PICK r, x : r = w.read /\ x = written
      OBVIOUS
    <3>2. r \in Seq(Range(Channels)) /\ x \in Seq(Range(Channels)) /\ First(r, Listed(f), c) /\ First(x, Listed(f), c)
      BY <1>1, <1>2, <1>8, <3>1 DEF c
    <3>3. First(Append(r, Listed(f)[c + 1]), Listed(f), c + 1) /\ First(Append(x, Listed(f)[c + 1]), Listed(f), c + 1)
      BY <1>8, <2>1, <3>2, FirstGrows DEF c
    <3>4. Append(r, row) \in Seq(Range(Channels))
      BY <2>2, <3>2, AppendProperties
    <3> QED
      BY <3>1, <3>3, <3>4 DEF row
  <2>6. /\ a.todo = v.todo /\ a.read = Append(w.read, row) /\ a.channels = added.channels
        /\ a.programmes = w.programmes /\ a.batch = added.batch
        /\ a = [todo |-> v.todo, channels |-> added.channels, programmes |-> added.programmes,
                 batch |-> added.batch, read |-> Append(w.read, row)]
    <3>1. added = [todo |-> added.todo, channels |-> added.channels, programmes |-> added.programmes,
                   batch |-> added.batch, read |-> added.read]
      BY <2>4 DEF Transactions
    <3> QED
      BY <2>3, <2>4, <3>1
  <2>7. a \in Transactions(f) /\ BatchesAreShort(a)
    <3>1. /\ added.todo \in Seq(Kinds(f)) /\ added.channels \in Seq(Range(Channels))
          /\ added.programmes \in Seq(Range(Shown(f)))
          /\ added.batch \in [channels : Seq(Range(Channels)), programmes : Seq(Range(Shown(f)))]
      BY <2>4 DEF Transactions
    <3>2. PICK r, t, x, y, b : /\ r = Append(w.read, row) /\ t = added.todo /\ x = added.channels
                               /\ y = added.programmes /\ b = added.batch
      OBVIOUS
    <3>3. /\ a = [todo |-> t, channels |-> x, programmes |-> y, batch |-> b, read |-> r]
          /\ r \in Seq(Range(Channels))
      BY <2>4, <2>5, <2>6, <3>2
    <3>4. a \in Transactions(f)
      <4>1. /\ t \in Seq(Kinds(f)) /\ x \in Seq(Range(Channels)) /\ y \in Seq(Range(Shown(f)))
            /\ b \in [channels : Seq(Range(Channels)), programmes : Seq(Range(Shown(f)))]
        BY <3>1, <3>2
      <4>2. [todo |-> t, channels |-> x, programmes |-> y, batch |-> b, read |-> r] \in Transactions(f)
        BY <3>3, <4>1, TransactionHas
      <4> QED
        BY <3>3, <4>2
    <3>5. BatchesAreShort(a)
      BY <2>4, <2>6 DEF BatchesAreShort
    <3> QED
      BY <3>4, <3>5
  <2>8. IsBeginning(f, a)
    <3>1. Parsed(f, a) = k + 1 /\ a.todo = v.todo
      BY <1>6, <2>6 DEF Parsed
    <3>2. a.channels \o a.batch.channels = Append(written, row) /\ a.programmes \o a.batch.programmes = shown
      BY <2>4, <2>6
    <3> HIDE DEF k, written, shown
    <3> QED
      BY <1>1, <1>6, <1>7, <2>1, <2>5, <2>6, <3>1, <3>2 DEF IsBeginning, k
  <2> QED
    BY <2>7, <2>8 DEF IsTransaction
<1>11. CASE k + 1 > Skipped(f) + Len(Listed(f))
  <2> DEFINE c == ProgrammesIn(f, k)
             row == Shown(f)[c + 1]
  <2>1. /\ c < Len(Shown(f)) /\ e = [kind |-> "programme", row |-> row]
        /\ ChannelsIn(f, k + 1) = ChannelsIn(f, k) /\ ProgrammesIn(f, k + 1) = c + 1
    BY <1>6, <1>7, <1>11, Counts
  <2>2. row \in Range(Shown(f))
    <3>1. c + 1 \in 1..Len(Shown(f))
      BY <1>8, <2>1, Sizes
    <3> QED
      BY <1>8, <3>1, ElementOfSeq
  <2>3. a = Add(v, "programmes", row)
    <3>1. PICK r : r = row
      OBVIOUS
    <3>2. e.kind = "programme" /\ e.row = r
      BY <2>1, <3>1
    <3>3. a = Add(v, "programmes", e.row)
      BY <3>2 DEF Taken
    <3> QED
      BY <3>1, <3>2, <3>3, Zenon
  <2> HIDE DEF c, row
  <2>4. /\ a \in Transactions(f) /\ BatchesAreShort(a) /\ a.todo = v.todo /\ a.read = w.read
        /\ a.programmes \o a.batch.programmes = Append(shown, row)
        /\ a.channels = w.channels /\ a.batch.channels = w.batch.channels
    <3>1. /\ v.read = w.read /\ v.programmes \o v.batch.programmes = shown
          /\ v.channels = w.channels /\ v.batch = w.batch
      BY <1>4
    <3>2. PICK r : r = row
      OBVIOUS
    <3>3. r \in Range(Shown(f)) /\ a = Add(v, "programmes", r)
      BY <2>2, <2>3, <3>2
    <3>4. /\ a \in Transactions(f) /\ BatchesAreShort(a) /\ a.todo = v.todo /\ a.read = v.read
          /\ a.programmes \o a.batch.programmes = Append(v.programmes \o v.batch.programmes, r)
          /\ a.channels = v.channels /\ a.batch.channels = v.batch.channels
      <4>1. HasProgramme(f, v, r, a)
        BY <1>5, <3>3, AddProgramme
      <4> QED
        BY <4>1 DEF HasProgramme
    <3> HIDE DEF shown
    <3> QED
      BY <3>1, <3>2, <3>4
  <2>5. First(Append(shown, row), Shown(f), c + 1)
    <3>1. PICK S, t, x : S = Range(Shown(f)) /\ t = Shown(f) /\ x = shown
      OBVIOUS
    <3>2. t \in Seq(S) /\ x \in Seq(S) /\ First(x, t, c) /\ c \in Nat /\ c < Len(t)
      BY <1>1, <1>8, <2>1, <3>1 DEF c
    <3>3. First(Append(x, t[c + 1]), t, c + 1)
      BY <3>2, FirstGrows
    <3> QED
      BY <3>1, <3>3 DEF row
  <2>6. IsBeginning(f, a)
    <3>1. Parsed(f, a) = k + 1 /\ a.todo = v.todo
      BY <1>6, <2>4 DEF Parsed
    <3>2. a.channels \o a.batch.channels = written
      BY <2>4
    <3> HIDE DEF k, written, shown
    <3> QED
      BY <1>1, <1>6, <1>7, <2>1, <2>4, <2>5, <3>1, <3>2 DEF IsBeginning, k
  <2> QED
    BY <2>4, <2>6 DEF IsTransaction
<1> QED
  BY <1>6, <1>9, <1>10, <1>11, Sizes

Opened(f) == [todo |-> Document(f), channels |-> <<>>, programmes |-> <<>>, batch |-> NoRows, read |-> <<>>]

\* A transaction that was just opened has read nothing.
LEMMA ImportBegins ==
  ASSUME NEW f
  PROVE  IsTransaction(f, Opened(f))
<1> DEFINE w == Opened(f)
<1>1. /\ w.todo = Document(f) /\ w.channels = <<>> /\ w.programmes = <<>> /\ w.read = <<>>
      /\ w.batch.channels = <<>> /\ w.batch.programmes = <<>>
  BY DEF Opened, NoRows
<1>2. Len(w.batch.channels) = 0 /\ Len(w.batch.programmes) = 0
  BY <1>1
<1>3. w \in Transactions(f)
  <2>1. PICK d : d = Document(f)
    OBVIOUS
  <2>2. d \in Seq(Kinds(f))
    BY <2>1, DocumentIs
  <2>3. [todo |-> d, channels |-> <<>>, programmes |-> <<>>, batch |-> NoRows, read |-> <<>>] \in Transactions(f)
    <3>1. /\ <<>> \in Seq(Range(Channels)) /\ <<>> \in Seq(Range(Shown(f)))
          /\ NoRows \in [channels : Seq(Range(Channels)), programmes : Seq(Range(Shown(f)))]
      BY DEF NoRows
    <3> QED
      BY <2>2, <3>1, TransactionHas
  <2> QED
    BY <2>1, <2>3 DEF Opened
<1>4. Parsed(f, w) = 0
  <2>1. Len(Document(f)) \in Nat
    BY Sizes
  <2> QED
    BY <1>1, <2>1 DEF Parsed
<1>5. ChannelsIn(f, 0) = 0 /\ ProgrammesIn(f, 0) = 0
  BY Sizes DEF ChannelsIn, ProgrammesIn
<1>6. /\ First(<<>>, Listed(f), 0) /\ First(<<>>, Shown(f), 0)
      /\ w.channels \o w.batch.channels = <<>> /\ w.programmes \o w.batch.programmes = <<>>
  <2>1. <<>> \o <<>> = <<>>
    BY ConcatEmptySeq, EmptySeq
  <2> QED
    BY <1>1, <2>1, Sizes DEF First
<1>7. ASSUME NEW i \in 1..Len(w.todo) PROVE w.todo[i] = ElementAt(f, 0 + i)
  <2>1. w.todo[i] = ElementAt(f, i) /\ i \in Int
    BY <1>1, <1>7, DocumentIs
  <2>2. 0 + i = i
    BY <2>1
  <2> QED
    BY <2>1, <2>2
<1> HIDE DEF w
<1>8. IsBeginning(f, w)
  <2>1. 0 \in 0..Readable(f)
    BY Sizes
  <2> QED
    BY <1>1, <1>4, <1>5, <1>6, <1>7, <2>1 DEF IsBeginning
<1>9. BatchesAreShort(w)
  BY <1>2, GuideAssumption DEF BatchesAreShort
<1> QED
  BY <1>3, <1>8, <1>9 DEF IsTransaction, w

\* Before the commit all that was held back is written.
LEMMA WritesAll ==
  ASSUME NEW f, NEW w \in Transactions(f)
  PROVE  /\ imported(w).channels = w.channels \o w.batch.channels
         /\ imported(w).programmes = w.programmes \o w.batch.programmes
<1>1. PICK t, c, p, bc, bp, d : /\ t = w.todo /\ c = w.channels /\ p = w.programmes
                                /\ bc = w.batch.channels /\ bp = w.batch.programmes /\ d = w.read
  OBVIOUS
<1>2. w = [todo |-> t, channels |-> c, programmes |-> p, batch |-> [channels |-> bc, programmes |-> bp], read |-> d]
  BY <1>1 DEF Transactions
<1>3. PICK x, y : x = c \o bc /\ y = p \o bp
  OBVIOUS
<1>4. PICK v : v = [todo |-> t, channels |-> x, programmes |-> p, batch |-> [channels |-> <<>>, programmes |-> bp], read |-> d]
  OBVIOUS
<1>5. flushed(w, "channels") = v
  <2>1. /\ w.channels = c /\ w.programmes = p /\ w.todo = t /\ w.read = d
        /\ w.batch = [channels |-> bc, programmes |-> bp] /\ w.batch.channels = bc /\ w.batch.programmes = bp
    BY <1>2
  <2>2. [w.batch EXCEPT !["channels"] = <<>>] = [channels |-> <<>>, programmes |-> bp]
    BY <2>1
  <2>3. flushed(w, "channels") = [w EXCEPT !.channels = x, !.batch = [channels |-> <<>>, programmes |-> bp]]
    BY <1>3, <2>1, <2>2 DEF flushed
  <2> QED
    BY <1>2, <1>4, <2>3
<1>6. flushed(v, "programmes") = [todo |-> t, channels |-> x, programmes |-> y,
                                  batch |-> [channels |-> <<>>, programmes |-> <<>>], read |-> d]
  <2>1. /\ v.channels = x /\ v.programmes = p /\ v.todo = t /\ v.read = d
        /\ v.batch = [channels |-> <<>>, programmes |-> bp] /\ v.batch.programmes = bp
    BY <1>4
  <2>2. [v.batch EXCEPT !["programmes"] = <<>>] = [channels |-> <<>>, programmes |-> <<>>]
    BY <2>1
  <2>3. flushed(v, "programmes") = [v EXCEPT !.programmes = y, !.batch = [channels |-> <<>>, programmes |-> <<>>]]
    BY <1>3, <2>1, <2>2 DEF flushed
  <2> QED
    BY <1>4, <2>3
<1>7. imported(w).channels = x /\ imported(w).programmes = y
  BY <1>5, <1>6 DEF imported
<1> QED
  BY <1>1, <1>3, <1>7

\* A document that was read to its end, and refused nowhere, is imported whole.
LEMMA ImportEnds ==
  ASSUME NEW f, NEW w, IsTransaction(f, w), w.todo = <<>>, ~Refused(imported(w))
  PROVE  /\ [channels |-> imported(w).channels, programmes |-> imported(w).programmes] = Rows(f.published)
         /\ w.read = Channels
<1> DEFINE k == Parsed(f, w)
           written == w.channels \o w.batch.channels
           shown == w.programmes \o w.batch.programmes
<1>1. /\ w \in Transactions(f) /\ k \in 0..Readable(f)
      /\ First(w.read, Listed(f), ChannelsIn(f, k)) /\ First(written, Listed(f), ChannelsIn(f, k))
      /\ First(shown, Shown(f), ProgrammesIn(f, k))
  BY DEF IsTransaction, IsBeginning
<1>2. k = Readable(f)
  <2>1. k = Readable(f) + Errors(f) /\ Readable(f) \in Nat /\ Errors(f) \in Nat
    <3>1. Len(w.todo) = 0
      OBVIOUS
    <3> QED
      BY <3>1, Sizes DEF Parsed
  <2> HIDE DEF k
  <2> QED
    BY <1>1, <2>1
<1>3. ChannelsIn(f, k) = Len(Listed(f)) /\ ProgrammesIn(f, k) = Len(Shown(f))
  <2> DEFINE s == Skipped(f)
             l == Len(Listed(f))
             m == Len(Shown(f))
  <2>1. s \in Nat /\ l \in Nat \ {0} /\ m \in Nat
    <3>1. l \in Nat
      BY Sizes
    <3>2. l >= Len(Channels) /\ Len(Channels) \in Nat \ {0}
      <4>1. l = Len(Channels) \/ l = Len(Channels) + 1
        BY ListedIs
      <4> QED
        BY <4>1, AreNumbers
    <3> HIDE DEF l
    <3> QED
      BY <3>1, <3>2, Sizes
  <2>2. k = s + l + m
    BY <1>2 DEF Readable
  <2>3. /\ ChannelsIn(f, k) = IF k <= s THEN 0 ELSE IF k <= s + l THEN k - s ELSE l
        /\ ProgrammesIn(f, k) = IF k <= s + l THEN 0 ELSE k - s - l
    BY DEF ChannelsIn, ProgrammesIn
  <2> HIDE DEF s, l, m, k
  <2> QED
    BY <2>1, <2>2, <2>3 DEF l, m
<1>4. /\ w.read \in Seq(Range(Channels)) /\ w.channels \in Seq(Range(Channels))
      /\ w.batch.channels \in Seq(Range(Channels)) /\ w.programmes \in Seq(Range(Shown(f)))
      /\ w.batch.programmes \in Seq(Range(Shown(f)))
      /\ w = [todo |-> w.todo, channels |-> w.channels, programmes |-> w.programmes,
               batch |-> w.batch, read |-> w.read]
      /\ w.batch = [channels |-> w.batch.channels, programmes |-> w.batch.programmes]
  BY <1>1 DEF Transactions
<1>5. written = Listed(f) /\ w.read = Listed(f) /\ shown = Shown(f)
  <2>1. PICK r, c, b : r = w.read /\ c = w.channels /\ b = w.batch.channels
    OBVIOUS
  <2>2. c \o b \in Seq(Range(Channels)) /\ Listed(f) \in Seq(Range(Channels)) /\ r \in Seq(Range(Channels))
    BY <1>4, <2>1, ConcatProperties, ListedIs
  <2>3. PICK x : x = c \o b
    OBVIOUS
  <2>4. First(r, Listed(f), Len(Listed(f))) /\ First(x, Listed(f), Len(Listed(f)))
    BY <1>1, <1>3, <2>1, <2>3
  <2>5. r = Listed(f) /\ x = Listed(f)
    BY <2>2, <2>3, <2>4, FirstIsAll
  <2>6. PICK S, p, h, t : S = Range(Shown(f)) /\ p = w.programmes /\ h = w.batch.programmes /\ t = Shown(f)
    OBVIOUS
  <2>7. p \in Seq(S) /\ h \in Seq(S) /\ t \in Seq(S)
    BY <1>4, <2>6, PartsAreSequences
  <2>8. p \o h \in Seq(S)
    BY <2>7, ConcatProperties
  <2>9. PICK y : y = p \o h
    OBVIOUS
  <2>10. y \in Seq(S) /\ First(y, t, Len(t))
    BY <1>1, <1>3, <2>6, <2>8, <2>9
  <2>11. y = t
    BY <2>7, <2>10, FirstIsAll
  <2> QED
    BY <2>1, <2>3, <2>5, <2>6, <2>9, <2>11
<1>6. imported(w).channels = written /\ imported(w).programmes = shown
  BY <1>1, WritesAll
<1>7. f.shape # "twin"
  <2>1. SUFFICES ASSUME f.shape = "twin" PROVE FALSE
    OBVIOUS
  <2> DEFINE n == Len(Channels)
             ids == [i \in DOMAIN Listed(f) |-> Listed(f)[i][1]]
  <2>2. /\ n \in Nat \ {0} /\ Listed(f)[n + 1] = Channels[1] /\ Listed(f)[1] = Channels[1]
        /\ DOMAIN Listed(f) = 1..n + 1
    <3>1. n \in Nat \ {0} /\ 1 \in 1..n
      BY AreNumbers
    <3>2. /\ Listed(f) \in Seq(Range(Channels)) /\ Len(Listed(f)) = n + 1
          /\ Listed(f)[n + 1] = Channels[1] /\ Listed(f)[1] = Channels[1]
      BY <2>1, <3>1, ListedIs
    <3> HIDE DEF n
    <3> QED
      BY <3>1, <3>2, LenProperties
  <2>3. 1 \in DOMAIN ids /\ n + 1 \in DOMAIN ids /\ ids[1] = ids[n + 1] /\ n + 1 # 1
    BY <2>2
  <2>4. IsInjective(ids)
    BY <1>5, <1>6 DEF Refused
  <2> HIDE DEF ids
  <2> QED
    BY <2>3, <2>4 DEF IsInjective
<1>8. Listed(f) = Channels
  BY <1>7 DEF Listed
<1>9. Rows(f.published) = [channels |-> Channels, programmes |-> Shown(f)]
  BY DEF Rows, Shown
<1> QED
  BY <1>5, <1>6, <1>8, <1>9

-----------------------------------------------------------------------------
(***************************************************************************)
(* The inductive invariant.                                                *)
(***************************************************************************)
Filed ==
  /\ file.published \in 0..file.mtime /\ file.mtime \in 0..now /\ file.shape \in Shapes
  /\ file.mtime <= file.published + Timeout
FilesAreYoung == file # None => Filed
EachHasAList == memory = [p \in Processes |-> memory[p]]
\* An open import has read the document on disk up to some element.
ImportIsBeginning == worker = "importing" => Filed /\ IsTransaction(file, import)
\* The next check is at most an interval away, and no download outlasts the interval.
TicksAreAhead ==
  /\ worker = "down" => due = None
  /\ worker = "waiting" => due \in Nat /\ now <= due
  /\ worker = "fetching" => now <= fetching.since + Timeout
  /\ due # None =>
       /\ due \in Nat /\ due <= now + UpdateInterval
       /\ worker = "checking" => due = now + UpdateInterval
       /\ worker = "fetching" => due = fetching.since + UpdateInterval
       /\ worker = "importing" => now <= due
\* While nothing failed the tables hold the file on disk, which the check to come,
\* or the one at work, finds younger than two intervals.
HealthIsKept ==
  healthy =>
    /\ Filed
    /\ worker = "importing" => now < file.mtime + UpdateInterval
    /\ worker # "importing" => db = Rows(file.published)
    /\ worker \in {"down", "checking"} => now < file.mtime + 2 * UpdateInterval
    /\ worker = "waiting" => due < file.mtime + 2 * UpdateInterval
    /\ worker = "fetching" => fetching.since < file.mtime + 2 * UpdateInterval

GuideInv ==
  /\ GuideTypeOK /\ EachHasAList /\ FilesAreYoung /\ ImportIsBeginning
  /\ TicksAreAhead /\ HealthIsKept /\ GuideIsWhole /\ GuideIsRecent

(***************************************************************************)
(* One lemma for each action.                                              *)
(***************************************************************************)
\* What is assumed of the constants.
LEMMA Limits ==
  /\ UpdateInterval \in Nat /\ Timeout \in Nat /\ Timeout < UpdateInterval /\ MaxTime \in Nat
  /\ None \notin Nat /\ epgBatchSize \in Nat /\ epgBatchSize >= 1
BY GuideAssumption

\* Rows that were published before now are so later.
LEMMA WholeStays ==
  ASSUME GuideIsWhole, now \in Nat, now' \in Nat, now' >= now, db' = db, 
         memory'["worker"] \in {<<>>, db.channels, byId(db.channels)}
  PROVE  GuideIsWhole'
<1>1. db \in {NoRows} \cup {Rows(v) : v \in 0..now'}
  BY DEF GuideIsWhole
<1> QED
  BY <1>1 DEF GuideIsWhole

\* An import begins with a document of the right age.
LEMMA BeginsWell ==
  ASSUME beginImport(file'), Filed'
  PROVE  ImportIsBeginning' /\ BatchesAreShort(import')
<1>1. import' = Opened(file')
  BY DEF beginImport, Opened
<1>2. IsTransaction(file', import')
  BY <1>1, ImportBegins
<1> QED
  BY <1>2 DEF ImportIsBeginning, IsTransaction

LEMMA StartKeeps ==
  ASSUME GuideInv, Start
  PROVE  GuideInv'
<1>1. /\ GuideTypeOK /\ EachHasAList /\ FilesAreYoung /\ ImportIsBeginning
      /\ TicksAreAhead /\ HealthIsKept /\ GuideIsWhole /\ GuideIsRecent
  BY DEF GuideInv
<1>2. GuideTypeOK'
  BY <1>1, Limits DEF Start, GuideTypeOK, Filed, FilesAreYoung, TicksAreAhead, HealthIsKept
<1>3. EachHasAList'
  BY <1>1 DEF Start, EachHasAList
<1>4. FilesAreYoung'
  BY <1>1, Limits DEF Start, GuideTypeOK, Filed, FilesAreYoung, TicksAreAhead, HealthIsKept
<1>5. ImportIsBeginning'
  BY <1>1 DEF Start, ImportIsBeginning, Filed
<1>6. TicksAreAhead'
  BY <1>1, Limits DEF Start, GuideTypeOK, Filed, FilesAreYoung, TicksAreAhead, HealthIsKept
<1>7. HealthIsKept'
  BY <1>1, Limits DEF Start, GuideTypeOK, Filed, FilesAreYoung, TicksAreAhead, HealthIsKept
<1>8. GuideIsWhole'
  BY <1>1 DEF Start, GuideIsWhole
<1>9. GuideIsRecent'
  BY <1>1 DEF Start, GuideIsRecent
<1> QED
  BY <1>2, <1>3, <1>4, <1>5, <1>6, <1>7, <1>8, <1>9 DEF GuideInv

LEMMA TickerKeeps ==
  ASSUME GuideInv, TickerFires
  PROVE  GuideInv'
<1>1. /\ GuideTypeOK /\ EachHasAList /\ FilesAreYoung /\ ImportIsBeginning
      /\ TicksAreAhead /\ HealthIsKept /\ GuideIsWhole /\ GuideIsRecent
  BY DEF GuideInv
<1>2. GuideTypeOK'
  BY <1>1, Limits DEF TickerFires, GuideTypeOK, Filed, FilesAreYoung, TicksAreAhead, HealthIsKept
<1>3. EachHasAList'
  BY <1>1 DEF TickerFires, EachHasAList
<1>4. FilesAreYoung'
  BY <1>1, Limits DEF TickerFires, GuideTypeOK, Filed, FilesAreYoung, TicksAreAhead, HealthIsKept
<1>5. ImportIsBeginning'
  BY <1>1 DEF TickerFires, ImportIsBeginning, Filed
<1>6. TicksAreAhead'
  BY <1>1, Limits DEF TickerFires, GuideTypeOK, Filed, FilesAreYoung, TicksAreAhead, HealthIsKept
<1>7. HealthIsKept'
  BY <1>1, Limits DEF TickerFires, GuideTypeOK, Filed, FilesAreYoung, TicksAreAhead, HealthIsKept
<1>8. GuideIsWhole'
  BY <1>1 DEF TickerFires, GuideIsWhole
<1>9. GuideIsRecent'
  BY <1>1 DEF TickerFires, GuideIsRecent
<1> QED
  BY <1>2, <1>3, <1>4, <1>5, <1>6, <1>7, <1>8, <1>9 DEF GuideInv

LEMMA CrashKeeps ==
  ASSUME GuideInv, Crash
  PROVE  GuideInv'
<1>1. /\ GuideTypeOK /\ EachHasAList /\ FilesAreYoung /\ ImportIsBeginning
      /\ TicksAreAhead /\ HealthIsKept /\ GuideIsWhole /\ GuideIsRecent
  BY DEF GuideInv
<1>2. GuideTypeOK'
  BY <1>1, Limits DEF Crash, EachHasAList, Processes, GuideTypeOK, Filed, FilesAreYoung, TicksAreAhead, HealthIsKept
<1>3. EachHasAList'
  BY <1>1 DEF Crash, EachHasAList
<1>4. FilesAreYoung'
  BY <1>1, Limits DEF Crash, GuideTypeOK, Filed, FilesAreYoung, TicksAreAhead, HealthIsKept
<1>5. ImportIsBeginning'
  BY <1>1 DEF Crash, ImportIsBeginning, Filed
<1>6. TicksAreAhead'
  BY <1>1, Limits DEF Crash, GuideTypeOK, Filed, FilesAreYoung, TicksAreAhead, HealthIsKept
<1>7. HealthIsKept'
  <2>1. SUFFICES ASSUME healthy' PROVE HealthIsKept'
    BY DEF HealthIsKept
  <2>2. healthy /\ worker = "waiting" /\ worker' = "down" /\ now' = now /\ file' = file /\ db' = db
    BY <2>1 DEF Crash
  <2>3. Filed /\ db = Rows(file.published) /\ due < file.mtime + 2 * UpdateInterval
    BY <1>1, <2>2 DEF HealthIsKept
  <2>4. due \in Nat /\ now <= due
    BY <1>1, <2>2 DEF TicksAreAhead
  <2>5. now \in Nat /\ file.mtime \in Nat
    BY <1>1, <2>3, Limits DEF GuideTypeOK, Filed
  <2>6. now < file.mtime + 2 * UpdateInterval
    BY <2>3, <2>4, <2>5, Limits
  <2>7. Filed'
    BY <2>2, <2>3 DEF Filed
  <2> QED
    BY <2>2, <2>3, <2>6, <2>7 DEF HealthIsKept
<1>8. GuideIsWhole'
  <2>1. memory'["worker"] = <<>>
    BY <1>1 DEF Crash, EachHasAList, Processes
  <2> QED
    BY <1>1, <2>1 DEF Crash, GuideIsWhole
<1>9. GuideIsRecent'
  BY <1>1 DEF Crash, GuideIsRecent
<1> QED
  BY <1>2, <1>3, <1>4, <1>5, <1>6, <1>7, <1>8, <1>9 DEF GuideInv

LEMMA PassKeeps ==
  ASSUME GuideInv, Pass
  PROVE  GuideInv'
<1>1. /\ GuideTypeOK /\ EachHasAList /\ FilesAreYoung /\ ImportIsBeginning
      /\ TicksAreAhead /\ HealthIsKept /\ GuideIsWhole /\ GuideIsRecent
  BY DEF GuideInv
<1>2. GuideTypeOK'
  BY <1>1, Limits DEF Pass, GuideTypeOK, Filed, FilesAreYoung, TicksAreAhead, HealthIsKept
<1>3. EachHasAList'
  BY <1>1 DEF Pass, EachHasAList
<1>4. FilesAreYoung'
  BY <1>1, Limits DEF Pass, GuideTypeOK, Filed, FilesAreYoung, TicksAreAhead, HealthIsKept
<1>5. ImportIsBeginning'
  BY <1>1 DEF Pass, ImportIsBeginning, Filed
<1>6. TicksAreAhead'
  BY <1>1, Limits DEF Pass, GuideTypeOK, Filed, FilesAreYoung, TicksAreAhead, HealthIsKept
<1>7. HealthIsKept'
  <2>1. SUFFICES ASSUME healthy' PROVE HealthIsKept'
    BY DEF HealthIsKept
  <2>2. now \in Nat
    BY <1>1, Limits DEF GuideTypeOK
  <2>3. healthy /\ worker \in {"waiting", "fetching"}
    BY <2>1 DEF Pass
  <2>4. /\ healthy /\ worker \in {"waiting", "fetching"} /\ now' = now + 1 /\ now \in Nat
        /\ worker' = worker /\ due' = due /\ fetching' = fetching /\ file' = file /\ db' = db
    BY <2>2, <2>3 DEF Pass
  <2>5. Filed
    BY <1>1, <2>4 DEF HealthIsKept
  <2>6. Filed'
    BY <2>4, <2>5 DEF Filed
  <2> QED
    BY <1>1, <2>4, <2>6 DEF HealthIsKept
<1>8. GuideIsWhole'
  <2>1. now \in Nat /\ now' = now + 1 /\ db' = db /\ memory' = memory
    BY <1>1, Limits DEF Pass, GuideTypeOK
  <2> QED
    BY <1>1, <2>1, WholeStays DEF GuideIsWhole
<1>9. GuideIsRecent'
  <2>1. SUFFICES ASSUME healthy' PROVE \E v \in 0..now' : db' = Rows(v) /\ now' - v < 2 * (UpdateInterval + Timeout)
    BY DEF GuideIsRecent
  <2> DEFINE v == file.published
  <2>2. /\ now' = now + 1 /\ db' = db /\ healthy /\ worker \in {"waiting", "fetching"}
        /\ worker = "waiting" => now < due
        /\ worker = "fetching" => now < fetching.since + Timeout
    BY <2>1 DEF Pass
  <2>3. /\ Filed /\ db = Rows(v)
        /\ worker = "waiting" => due < file.mtime + 2 * UpdateInterval
        /\ worker = "fetching" => fetching.since < file.mtime + 2 * UpdateInterval
    BY <1>1, <2>2 DEF HealthIsKept
  <2>4. /\ v \in Nat /\ file.mtime \in Nat /\ now \in Nat /\ v <= now /\ file.mtime <= v + Timeout
    BY <1>1, <2>3, Limits DEF Filed, GuideTypeOK
  <2>5. worker = "waiting" => due \in Nat
    BY <1>1 DEF TicksAreAhead
  <2>6. worker = "fetching" => fetching.since \in Nat
    BY <1>1, <2>4 DEF GuideTypeOK
  <2>7. now + 1 - v < 2 * (UpdateInterval + Timeout)
    <3> HIDE DEF v
    <3>1. CASE worker = "waiting"
      BY <2>2, <2>3, <2>4, <2>5, <3>1, Limits
    <3>2. CASE worker = "fetching"
      BY <2>2, <2>3, <2>4, <2>6, <3>2, Limits
    <3> QED
      BY <2>2, <3>1, <3>2
  <2>8. v \in 0..now' /\ now' - v < 2 * (UpdateInterval + Timeout)
    <3> HIDE DEF v
    <3> QED
      BY <2>2, <2>4, <2>7
  <2> QED
    BY <2>2, <2>3, <2>8
<1> QED
  BY <1>2, <1>3, <1>4, <1>5, <1>6, <1>7, <1>8, <1>9 DEF GuideInv

LEMMA FailedImportKeeps ==
  ASSUME GuideInv, ImportFails
  PROVE  GuideInv'
<1>1. /\ GuideTypeOK /\ EachHasAList /\ FilesAreYoung /\ ImportIsBeginning
      /\ TicksAreAhead /\ HealthIsKept /\ GuideIsWhole /\ GuideIsRecent
  BY DEF GuideInv
<1>2. GuideTypeOK'
  BY <1>1, Limits DEF ImportFails, Settle, GuideTypeOK, Filed, FilesAreYoung, TicksAreAhead, HealthIsKept
<1>3. EachHasAList'
  BY <1>1 DEF ImportFails, EachHasAList
<1>4. FilesAreYoung'
  BY <1>1, Limits DEF ImportFails, GuideTypeOK, Filed, FilesAreYoung, TicksAreAhead, HealthIsKept
<1>5. ImportIsBeginning'
  BY DEF ImportFails, Settle, ImportIsBeginning
<1>6. TicksAreAhead'
  <2>1. now \in Nat /\ now' = now /\ worker' = "waiting" /\ due' = IF due = None THEN now + UpdateInterval ELSE due
    BY <1>1, Limits DEF ImportFails, Settle, GuideTypeOK
  <2>2. due # None => due \in Nat /\ now <= due /\ due <= now + UpdateInterval
    BY <1>1, <2>1 DEF ImportFails, TicksAreAhead
  <2>3. due' \in Nat /\ now' <= due' /\ due' <= now' + UpdateInterval
    <3>1. CASE due = None
      BY <2>1, <3>1, Limits
    <3>2. CASE due # None
      BY <2>1, <2>2, <3>2
    <3> QED
      BY <3>1, <3>2
  <2> QED
    BY <2>1, <2>3 DEF TicksAreAhead
<1>7. HealthIsKept'
  BY DEF ImportFails, HealthIsKept
<1>8. GuideIsWhole'
  BY <1>1 DEF ImportFails, GuideIsWhole
<1>9. GuideIsRecent'
  BY DEF ImportFails, GuideIsRecent
<1> QED
  BY <1>2, <1>3, <1>4, <1>5, <1>6, <1>7, <1>8, <1>9 DEF GuideInv

LEMMA ReadKeeps ==
  ASSUME GuideInv, ReadElement
  PROVE  GuideInv'
<1>1. /\ GuideTypeOK /\ EachHasAList /\ FilesAreYoung /\ ImportIsBeginning
      /\ TicksAreAhead /\ HealthIsKept /\ GuideIsWhole /\ GuideIsRecent
  BY DEF GuideInv
<1>2. ImportIsBeginning'
  <2>1. worker = "importing" /\ import.todo # <<>> /\ file' = file /\ now' = now /\ worker' = worker
    BY DEF ReadElement
  <2>2. Filed /\ IsTransaction(file, import)
    BY <1>1, <2>1 DEF ImportIsBeginning
  <2>3. PICK e, v : e = Head(import.todo) /\ v = Past(import)
    OBVIOUS
  <2>4. e.kind # "error" /\ import' = Taken(e, v)
    BY <2>3 DEF ReadElement, Taken, Past
  <2>5. IsTransaction(file, import')
    BY <2>1, <2>2, <2>3, <2>4, ElementIsRead
  <2> QED
    BY <2>1, <2>2, <2>5 DEF ImportIsBeginning, Filed
<1>3. GuideTypeOK'
  <2>1. ImportIsBeginning' /\ worker' = "importing"
    BY <1>2 DEF ReadElement
  <2>2. BatchesAreShort(import')
    BY <2>1 DEF ImportIsBeginning, IsTransaction
  <2> QED
    BY <1>1, <2>2, Limits DEF ReadElement, BatchesAreShort, GuideTypeOK
<1>4. EachHasAList'
  BY <1>1 DEF ReadElement, EachHasAList
<1>5. FilesAreYoung'
  BY <1>1, Limits DEF ReadElement, GuideTypeOK, Filed, FilesAreYoung, TicksAreAhead, HealthIsKept
<1>6. TicksAreAhead'
  BY <1>1, Limits DEF ReadElement, GuideTypeOK, Filed, FilesAreYoung, TicksAreAhead, HealthIsKept
<1>7. HealthIsKept'
  BY <1>1, Limits DEF ReadElement, GuideTypeOK, Filed, FilesAreYoung, TicksAreAhead, HealthIsKept
<1>8. GuideIsWhole'
  BY <1>1 DEF ReadElement, GuideIsWhole
<1>9. GuideIsRecent'
  BY <1>1 DEF ReadElement, GuideIsRecent
<1> QED
  BY <1>2, <1>3, <1>4, <1>5, <1>6, <1>7, <1>8, <1>9 DEF GuideInv

LEMMA FailedDownloadKeeps ==
  ASSUME GuideInv, DownloadFails
  PROVE  GuideInv'
<1>1. /\ GuideTypeOK /\ EachHasAList /\ FilesAreYoung /\ ImportIsBeginning
      /\ TicksAreAhead /\ HealthIsKept /\ GuideIsWhole /\ GuideIsRecent
  BY DEF GuideInv
<1>2. /\ worker = "fetching" /\ now' = now /\ file' = file /\ db' = db /\ memory' = memory /\ healthy' = FALSE
      /\ fetching' = None /\ now \in Nat /\ import = None
  BY <1>1, Limits DEF DownloadFails, GuideTypeOK
<1>3. /\ fetching.since \in Nat /\ fetching.since <= now /\ now <= fetching.since + Timeout
      /\ due # None => due = fetching.since + UpdateInterval
  BY <1>1, <1>2, Limits DEF GuideTypeOK, TicksAreAhead
<1>4. /\ file # None => beginImport(file') /\ due' = due
      /\ file = None => Settle /\ import' = import
  BY <1>2 DEF DownloadFails
<1>5. /\ due' # None => due' \in Nat /\ due' <= now + UpdateInterval /\ now <= due'
      /\ file = None => due' \in Nat /\ worker' = "waiting"
      /\ file # None => worker' = "importing"
  <2>1. CASE file = None
    <3>1. worker' = "waiting" /\ due' = IF due = None THEN now + UpdateInterval ELSE due
      BY <1>2, <1>4, <2>1 DEF Settle
    <3>2. CASE due = None
      BY <1>2, <2>1, <3>1, <3>2, Limits
    <3>3. CASE due # None
      BY <1>2, <1>3, <2>1, <3>1, <3>3, Limits
    <3> QED
      BY <3>2, <3>3
  <2>2. CASE file # None
    <3>1. worker' = "importing" /\ due' = due
      BY <1>4, <2>2 DEF beginImport
    <3> QED
      BY <1>2, <1>3, <2>2, <3>1, Limits
  <2> QED
    BY <2>1, <2>2
<1>6. file # None => ImportIsBeginning' /\ BatchesAreShort(import')
  <2>1. SUFFICES ASSUME file # None PROVE ImportIsBeginning' /\ BatchesAreShort(import')
    OBVIOUS
  <2>2. Filed'
    BY <1>1, <1>2, <2>1 DEF FilesAreYoung, Filed
  <2> QED
    BY <1>4, <2>1, <2>2, BeginsWell
<1>7. ImportIsBeginning'
  <2>1. file = None => worker' # "importing"
    BY <1>5
  <2> QED
    BY <1>6, <2>1 DEF ImportIsBeginning
<1>8. GuideTypeOK'
  <2>1. due' \in {None} \cup 0..MaxTime + UpdateInterval
    <3>1. now <= MaxTime
      BY <1>1, Limits DEF GuideTypeOK
    <3> QED
      BY <1>2, <1>5, <3>1, Limits
  <2>2. IF worker' = "importing" THEN BatchesAreShort(import') ELSE import' = None
    <3>1. CASE file = None
      BY <1>2, <1>4, <1>5, <3>1
    <3>2. CASE file # None
      BY <1>6, <1>5, <3>2
    <3> QED
      BY <3>1, <3>2
  <2>3. worker' \in {"importing", "waiting"}
    BY <1>5
  <2> QED
    BY <1>1, <1>2, <2>1, <2>2, <2>3 DEF GuideTypeOK, BatchesAreShort
<1>9. EachHasAList'
  BY <1>1, <1>2 DEF EachHasAList
<1>10. FilesAreYoung'
  BY <1>1, <1>2 DEF FilesAreYoung, Filed
<1>11. TicksAreAhead'
  <2>1. worker' \in {"importing", "waiting"} /\ (worker' = "waiting" => due' \in Nat)
    BY <1>5
  <2>2. due' \in Nat => due' # None
    BY Limits
  <2> QED
    BY <1>2, <1>5, <2>1, <2>2 DEF TicksAreAhead
<1>12. HealthIsKept'
  BY <1>2 DEF HealthIsKept
<1>13. GuideIsWhole'
  BY <1>1, <1>2 DEF GuideIsWhole
<1>14. GuideIsRecent'
  BY <1>2 DEF GuideIsRecent
<1> QED
  BY <1>7, <1>8, <1>9, <1>10, <1>11, <1>12, <1>13, <1>14 DEF GuideInv

LEMMA DownloadKeeps ==
  ASSUME GuideInv, Download
  PROVE  GuideInv'
<1>1. /\ GuideTypeOK /\ EachHasAList /\ FilesAreYoung /\ ImportIsBeginning
      /\ TicksAreAhead /\ HealthIsKept /\ GuideIsWhole /\ GuideIsRecent
  BY DEF GuideInv
<1>2. /\ worker = "fetching" /\ worker' = "importing" /\ now' = now /\ db' = db /\ memory' = memory
      /\ healthy' = healthy /\ due' = due /\ fetching' = None /\ now \in Nat /\ beginImport(file')
  BY <1>1, Limits DEF Download, beginImport, GuideTypeOK
<1>3. /\ fetching.since \in Nat /\ fetching.since <= now /\ now <= fetching.since + Timeout
      /\ fetching.published = fetching.since
      /\ due # None => due = fetching.since + UpdateInterval /\ due \in Nat /\ due <= now + UpdateInterval
  BY <1>1, <1>2, Limits DEF GuideTypeOK, TicksAreAhead
<1>4. Filed' /\ file'.mtime = now
  <2>1. PICK shape \in Shapes : file' = [published |-> fetching.published, mtime |-> now, shape |-> shape]
    BY DEF Download
  <2>2. file'.published = fetching.since /\ file'.mtime = now /\ file'.shape \in Shapes
    BY <2>1, <1>3
  <2> QED
    BY <1>2, <1>3, <2>2, Limits DEF Filed
<1>5. ImportIsBeginning' /\ BatchesAreShort(import')
  BY <1>2, <1>4, BeginsWell
<1>6. ImportIsBeginning'
  BY <1>5
<1>7. GuideTypeOK'
  <2>1. Filed' => file'.published \in 0..file'.mtime /\ file'.mtime \in 0..now' /\ file'.shape \in Shapes
    BY DEF Filed
  <2> QED
    BY <1>1, <1>2, <1>4, <1>5, <2>1 DEF GuideTypeOK, BatchesAreShort
<1>8. EachHasAList'
  BY <1>1, <1>2 DEF EachHasAList
<1>9. FilesAreYoung'
  BY <1>4 DEF FilesAreYoung
<1>10. TicksAreAhead'
  BY <1>2, <1>3, Limits DEF TicksAreAhead
<1>11. HealthIsKept'
  <2>1. now' < file'.mtime + UpdateInterval
    BY <1>2, <1>4, Limits
  <2> QED
    BY <1>2, <1>4, <2>1 DEF HealthIsKept
<1>12. GuideIsWhole'
  BY <1>1, <1>2 DEF GuideIsWhole
<1>13. GuideIsRecent'
  BY <1>1, <1>2 DEF GuideIsRecent
<1> QED
  BY <1>6, <1>7, <1>8, <1>9, <1>10, <1>11, <1>12, <1>13 DEF GuideInv

LEMMA CheckKeeps ==
  ASSUME GuideInv, ensureImported
  PROVE  GuideInv'
<1>1. /\ GuideTypeOK /\ EachHasAList /\ FilesAreYoung /\ ImportIsBeginning
      /\ TicksAreAhead /\ HealthIsKept /\ GuideIsWhole /\ GuideIsRecent
  BY DEF GuideInv
<1>2. /\ worker = "checking" /\ now' = now /\ file' = file /\ db' = db /\ healthy' = healthy /\ now \in Nat
      /\ now <= MaxTime /\ fetching = None /\ import = None
      /\ due # None => due \in Nat /\ due = now + UpdateInterval
  BY <1>1, Limits DEF ensureImported, GuideTypeOK, TicksAreAhead
<1>3. ~fileStale => Filed /\ now < file.mtime + UpdateInterval
  <2>1. SUFFICES ASSUME ~fileStale PROVE Filed /\ now < file.mtime + UpdateInterval
    OBVIOUS
  <2>2. file # None /\ ~(now - file.mtime >= UpdateInterval)
    BY <2>1 DEF fileStale
  <2>3. Filed
    BY <1>1, <2>2 DEF FilesAreYoung
  <2>4. file.mtime \in Nat /\ now \in Nat
    BY <1>1, <2>3, Limits DEF Filed, GuideTypeOK
  <2> QED
    BY <2>2, <2>3, <2>4, Limits
<1>4. healthy => Filed /\ db = Rows(file.published) /\ now < file.mtime + 2 * UpdateInterval
  BY <1>1, <1>2 DEF HealthIsKept
<1>5. \/ /\ ~fileStale /\ memory' = [memory EXCEPT !["worker"] = byId(db.channels)] /\ worker' = "waiting"
         /\ due' = now + UpdateInterval /\ fetching' = None /\ import' = None
      \/ /\ ~fileStale /\ beginImport(file') /\ worker' = "importing"
         /\ memory' = memory /\ due' = due /\ fetching' = None
      \/ /\ worker' = "fetching" /\ fetching' = [published |-> now, since |-> now]
         /\ memory' = memory /\ due' = due /\ import' = None
  <2>1. CASE ~fileStale /\ memory' = [memory EXCEPT !["worker"] = byId(db.channels)] /\ Settle /\ UNCHANGED <<fetching, import, faults>>
    <3>1. due' = now + UpdateInterval
      <4>1. due' = IF due = None THEN now + UpdateInterval ELSE due
        BY <2>1 DEF Settle
      <4> QED
        BY <1>2, <4>1
    <3> QED
      BY <1>2, <2>1, <3>1 DEF Settle
  <2>2. CASE ~fileStale /\ beginImport(file) /\ UNCHANGED <<memory, fetching, due>>
    BY <1>2, <2>2 DEF beginImport
  <2>3. CASE worker' = "fetching" /\ fetching' = [published |-> now, since |-> now] /\ UNCHANGED <<memory, import, due, faults>>
    BY <1>2, <2>3
  <2> QED
    BY <2>1, <2>2, <2>3 DEF ensureImported
<1>6. worker' = "importing" => ImportIsBeginning' /\ BatchesAreShort(import')
  <2>1. SUFFICES ASSUME worker' = "importing" PROVE ImportIsBeginning' /\ BatchesAreShort(import')
    OBVIOUS
  <2>2. ~fileStale /\ beginImport(file')
    BY <1>5, <2>1
  <2>3. Filed'
    BY <1>2, <1>3, <2>2 DEF Filed
  <2> QED
    BY <2>2, <2>3, BeginsWell
<1>7. ImportIsBeginning'
  BY <1>6 DEF ImportIsBeginning
<1>8. GuideTypeOK'
  <2>1. /\ worker' \in {"waiting", "importing", "fetching"}
        /\ due' \in {None} \cup 0..MaxTime + UpdateInterval
    BY <1>1, <1>2, <1>5, Limits DEF GuideTypeOK
  <2>2. memory'["bot"] = memory["bot"]
    BY <1>1, <1>5 DEF EachHasAList, Processes
  <2>3. IF worker' = "fetching" THEN fetching'.published = fetching'.since /\ fetching'.since \in 0..now' ELSE fetching' = None
    BY <1>2, <1>5
  <2>4. IF worker' = "importing" THEN BatchesAreShort(import') ELSE import' = None
    BY <1>6, <1>5
  <2> QED
    BY <1>1, <1>2, <2>1, <2>2, <2>3, <2>4 DEF GuideTypeOK, BatchesAreShort
<1>9. EachHasAList'
  BY <1>1, <1>5 DEF EachHasAList
<1>10. FilesAreYoung'
  BY <1>1, <1>2 DEF FilesAreYoung, Filed
<1>11. TicksAreAhead'
  <2>1. CASE worker' = "waiting"
    <3>1. due' = now + UpdateInterval
      BY <1>5, <2>1
    <3> QED
      BY <1>2, <2>1, <3>1, Limits DEF TicksAreAhead
  <2>2. CASE worker' = "importing"
    <3>1. due' = due
      BY <1>5, <2>2
    <3> QED
      BY <1>2, <2>2, <3>1, Limits DEF TicksAreAhead
  <2>3. CASE worker' = "fetching"
    <3>1. due' = due /\ fetching'.since = now
      BY <1>5, <2>3
    <3> QED
      BY <1>2, <2>3, <3>1, Limits DEF TicksAreAhead
  <2> QED
    BY <1>5, <2>1, <2>2, <2>3
<1>12. HealthIsKept'
  <2>1. SUFFICES ASSUME healthy PROVE HealthIsKept'
    BY <1>2 DEF HealthIsKept
  <2>2. Filed' /\ db' = Rows(file'.published)
    BY <1>2, <1>4, <2>1 DEF Filed
  <2>3. file.mtime \in Nat
    BY <1>2, <1>4, <2>1, Limits DEF Filed
  <2>4. CASE worker' = "waiting"
    <3>1. ~fileStale /\ due' = now + UpdateInterval
      BY <1>5, <2>4
    <3>2. due' < file.mtime + 2 * UpdateInterval
      BY <1>2, <1>3, <2>3, <3>1, Limits
    <3> QED
      BY <1>2, <2>2, <2>4, <3>2 DEF HealthIsKept
  <2>5. CASE worker' = "importing"
    <3>1. ~fileStale
      BY <1>5, <2>5
    <3> QED
      BY <1>2, <1>3, <2>2, <2>5, <3>1 DEF HealthIsKept
  <2>6. CASE worker' = "fetching"
    <3>1. fetching'.since = now
      BY <1>5, <2>6
    <3> QED
      BY <1>2, <1>4, <2>1, <2>2, <2>6, <3>1 DEF HealthIsKept
  <2> QED
    BY <1>5, <2>4, <2>5, <2>6
<1>13. GuideIsWhole'
  <2>1. memory'["worker"] \in {memory["worker"], byId(db.channels)}
    BY <1>1, <1>5 DEF EachHasAList, Processes
  <2>2. memory'["worker"] \in {<<>>, db.channels, byId(db.channels)}
    BY <1>1, <2>1 DEF GuideIsWhole
  <2> QED
    BY <1>1, <1>2, <2>2 DEF GuideIsWhole
<1>14. GuideIsRecent'
  BY <1>1, <1>2 DEF GuideIsRecent
<1> QED
  BY <1>7, <1>8, <1>9, <1>10, <1>11, <1>12, <1>13, <1>14 DEF GuideInv

LEMMA ImportKeeps ==
  ASSUME GuideInv, ImportEPG
  PROVE  GuideInv'
<1>1. /\ GuideTypeOK /\ EachHasAList /\ FilesAreYoung /\ ImportIsBeginning
      /\ TicksAreAhead /\ HealthIsKept /\ GuideIsWhole /\ GuideIsRecent
  BY DEF GuideInv
<1>2. /\ worker = "importing" /\ worker' = "waiting" /\ now' = now /\ file' = file /\ import' = None
      /\ fetching' = None /\ now \in Nat /\ healthy' = (healthy \/ ~fileStale)
      /\ due' = IF due = None THEN now + UpdateInterval ELSE due
  BY <1>1, Limits DEF ImportEPG, Settle, GuideTypeOK
<1>3. Filed /\ IsTransaction(file, import)
  BY <1>1, <1>2 DEF ImportIsBeginning
<1>4. db' = Rows(file.published) /\ memory' = [memory EXCEPT !["worker"] = Channels]
  <2>1. import.todo = <<>> /\ ~Refused(imported(import))
    BY DEF ImportEPG
  <2>2. PICK f, w : f = file /\ w = import
    OBVIOUS
  <2>3. /\ [channels |-> imported(w).channels, programmes |-> imported(w).programmes] = Rows(f.published)
        /\ w.read = Channels
    BY <1>3, <2>1, <2>2, ImportEnds
  <2>4. /\ db' = [channels |-> imported(import).channels, programmes |-> imported(import).programmes]
        /\ memory' = [memory EXCEPT !["worker"] = import.read]
    BY DEF ImportEPG
  <2> QED
    BY <2>2, <2>3, <2>4
<1>5. /\ file.published \in Nat /\ file.mtime \in Nat /\ file.published <= now
      /\ file.mtime <= now /\ file.mtime <= file.published + Timeout
  BY <1>2, <1>3, Limits DEF Filed
<1>6. healthy' => now < file.mtime + UpdateInterval
  <2>1. CASE healthy
    BY <1>1, <1>2, <2>1 DEF HealthIsKept
  <2>2. CASE ~fileStale
    BY <2>2, <1>2, <1>5, Limits DEF fileStale
  <2> QED
    BY <1>2, <2>1, <2>2
<1>7. due' \in Nat /\ now <= due' /\ due' <= now + UpdateInterval /\ due' # None
  <2>1. CASE due = None
    <3>1. due' = now + UpdateInterval
      BY <1>2, <2>1
    <3>2. now \in Nat
      BY <1>2
    <3> QED
      BY <3>1, <3>2, Limits
  <2>2. CASE due # None
    <3>1. due' = due
      BY <1>2, <2>2
    <3> QED
      BY <1>1, <1>2, <2>2, <3>1 DEF TicksAreAhead
  <2> QED
    BY <2>1, <2>2
<1>8. ImportIsBeginning'
  BY <1>2 DEF ImportIsBeginning
<1>9. GuideTypeOK'
  <2>1. due' \in 0..MaxTime + UpdateInterval
    BY <1>1, <1>2, <1>7, Limits DEF GuideTypeOK
  <2>2. memory'["bot"] = memory["bot"]
    BY <1>1, <1>4 DEF EachHasAList, Processes
  <2> QED
    BY <1>1, <1>2, <2>1, <2>2 DEF GuideTypeOK
<1>10. EachHasAList'
  BY <1>1, <1>4 DEF EachHasAList
<1>11. FilesAreYoung'
  BY <1>1, <1>2 DEF FilesAreYoung, Filed
<1>12. TicksAreAhead'
  BY <1>2, <1>7 DEF TicksAreAhead
<1>13. HealthIsKept'
  <2>1. SUFFICES ASSUME healthy' PROVE HealthIsKept'
    BY DEF HealthIsKept
  <2>2. due' < file.mtime + 2 * UpdateInterval
    <3>1. now < file.mtime + UpdateInterval /\ now \in Nat
      BY <1>2, <1>6, <2>1
    <3>2. due' \in Nat /\ due' <= now + UpdateInterval /\ file.mtime \in Nat
      BY <1>7, <1>5
    <3> QED
      BY <3>1, <3>2, Limits
  <2>3. Filed'
    BY <1>2, <1>3 DEF Filed
  <2> QED
    BY <1>2, <1>4, <2>2, <2>3 DEF HealthIsKept
<1>14. GuideIsWhole'
  <2>1. Rows(file.published).channels = Channels
    BY DEF Rows
  <2>2. memory'["worker"] = db'.channels
    BY <1>1, <1>4, <2>1 DEF EachHasAList, Processes
  <2>3. file.published \in 0..now'
    BY <1>2, <1>5
  <2> QED
    BY <1>4, <2>2, <2>3 DEF GuideIsWhole
<1>15. GuideIsRecent'
  <2>1. SUFFICES ASSUME healthy' PROVE \E v \in 0..now' : db' = Rows(v) /\ now' - v < 2 * (UpdateInterval + Timeout)
    BY DEF GuideIsRecent
  <2> DEFINE v == file.published
  <2>2. now - v < 2 * (UpdateInterval + Timeout)
    <3>1. v \in Nat /\ file.mtime \in Nat /\ file.mtime <= v + Timeout /\ now < file.mtime + UpdateInterval
      BY <1>5, <1>6, <2>1
    <3> HIDE DEF v
    <3> QED
      BY <3>1, <1>2, Limits
  <2>3. v \in 0..now' /\ now' = now
    BY <1>2, <1>5
  <2> QED
    BY <1>4, <2>2, <2>3
<1> QED
  BY <1>8, <1>9, <1>10, <1>11, <1>12, <1>13, <1>14, <1>15 DEF GuideInv

-----------------------------------------------------------------------------
\* Whatever the sizes of documents and batches, the interval, the time-out and the faults,
\* the worker's refresh keeps its invariant.
THEOREM GuideIsSafe == GuideSpec => []GuideInv
<1>1. GuideInit => GuideInv
  <2>1. SUFFICES ASSUME GuideInit PROVE GuideInv
    OBVIOUS
  <2>2. /\ now = 0 /\ file = None /\ db = NoRows /\ worker = "down" /\ fetching = None /\ import = None
        /\ due = None /\ healthy = FALSE /\ memory["worker"] = <<>> /\ memory["bot"] = <<>>
    BY <2>1 DEF GuideInit, Processes
  <2>3. EachHasAList
    BY <2>1 DEF GuideInit, EachHasAList
  <2>4. GuideTypeOK
    BY <2>2, Limits DEF GuideTypeOK
  <2>5. FilesAreYoung /\ ImportIsBeginning /\ TicksAreAhead
    BY <2>2 DEF FilesAreYoung, ImportIsBeginning, TicksAreAhead
  <2>6. HealthIsKept /\ GuideIsRecent
    BY <2>2 DEF HealthIsKept, GuideIsRecent
  <2>7. GuideIsWhole
    BY <2>2 DEF GuideIsWhole
  <2> QED
    BY <2>3, <2>4, <2>5, <2>6, <2>7 DEF GuideInv
<1>2. GuideInv /\ [GuideNext]_guideVars => GuideInv'
  <2>1. SUFFICES ASSUME GuideInv, [GuideNext]_guideVars PROVE GuideInv'
    OBVIOUS
  <2>2. CASE UNCHANGED guideVars
    BY <2>1, <2>2 DEF guideVars, GuideInv, GuideTypeOK, EachHasAList, FilesAreYoung, ImportIsBeginning,
      Filed, TicksAreAhead, HealthIsKept, GuideIsWhole, GuideIsRecent
  <2> QED
    BY <2>1, <2>2, StartKeeps, TickerKeeps, CheckKeeps, DownloadKeeps, FailedDownloadKeeps, ReadKeeps,
      ImportKeeps, FailedImportKeeps, CrashKeeps, PassKeeps DEF GuideNext
<1> QED
  BY <1>1, <1>2, PTL DEF GuideSpec

\* The worker's state has its type; its batches stay below epgBatchSize.
THEOREM GuideIsTyped == GuideSpec => []GuideTypeOK
<1>1. GuideInv => GuideTypeOK
  BY DEF GuideInv
<1> QED
  BY <1>1, GuideIsSafe, PTL

\* ImportEPG replaces the guide atomically: readers see one published document whole,
\* and the list in the worker's memory is that document's.
THEOREM ImportsAreWhole == GuideSpec => []GuideIsWhole
<1>1. GuideInv => GuideIsWhole
  BY DEF GuideInv
<1> QED
  BY <1>1, GuideIsSafe, PTL

\* While nothing fails, the refresh of the worker keeps the guide younger than two
\* intervals and two downloads.
THEOREM GuidesAreRecent == GuideSpec => []GuideIsRecent
<1>1. GuideInv => GuideIsRecent
  BY DEF GuideInv
<1> QED
  BY <1>1, GuideIsSafe, PTL

-----------------------------------------------------------------------------
(***************************************************************************)
(* TvGuide: the weeks of a lookup.                                         *)
(***************************************************************************)
\* The weeks from one to another, in order.
Span(first, last) == [i \in 1..last - first + 1 |-> first + i - 1]
FirstWeek(l) == l.from \div Week
LastWeek(l) == (l.to - 1) \div Week
Asked(l) == {b \in Broadcasts : b.title \in Wanted /\ l.from <= b.at /\ b.at < l.to}

\* What a lookup has of the weeks before the one it asks for next.
HasUntil(l, next) ==
  \A b \in Asked(l) :
    PublishedBefore(b, l.from) /\ serviceWeek(b.at) \in FirstWeek(l)..next - 1 => b \in l.result

Lookups == [from : Nat, to : Nat, resolved : BOOLEAN, result : SUBSET Broadcasts, todo : Seq(Int)]
LookupInv ==
  lookup # None =>
    /\ lookup \in Lookups
    /\ lookup.from \in 0..clock /\ lookup.to = lookup.from + Lookahead
    /\ lookup.result \subseteq Asked(lookup)
    /\ \E next \in FirstWeek(lookup)..LastWeek(lookup) + 1 :
         lookup.todo = Span(next, LastWeek(lookup)) /\ HasUntil(lookup, next)

TvTyped ==
  /\ clock \in 0..MaxClock
  /\ published \in [Weeks -> {None} \cup 0..clock]
  /\ index \in {None} \cup 0..clock

\* An answer is about the past.
AnswerInv == answer # None => answer.from \in 0..clock

TvInv == TvTyped /\ LookupInv /\ AnswerInv /\ WindowIsComplete

-----------------------------------------------------------------------------
LEMMA WeekOrder ==
  ASSUME NEW a \in Int, NEW b \in Int, a <= b
  PROVE  a \div Week <= b \div Week /\ a \div Week \in Int
<1>1. Week \in Nat /\ Week > 0
  BY TvAssumption
<1>2. PICK m \in Int, n \in Int : m = a \div Week /\ n = b \div Week
  BY <1>1
<1>3. Week * m <= a /\ b < Week * n + Week
  BY <1>1, <1>2
<1>4. m <= n
  <2>1. SUFFICES ASSUME m >= n + 1 PROVE FALSE
    BY <1>2
  <2>2. Week * m >= Week * (n + 1)
    BY <1>1, <2>1
  <2> QED
    BY <1>1, <1>3, <2>2
<1> QED
  BY <1>2, <1>4

LEMMA WeeksAreASpan ==
  ASSUME NEW from \in Int, NEW to \in Int, from < to
  PROVE  /\ weeksInRange(from, to) = Span(from \div Week, (to - 1) \div Week)
         /\ from \div Week \in (from \div Week)..((to - 1) \div Week) + 1
<1>1. from \div Week \in Int /\ (to - 1) \div Week \in Int /\ from \div Week <= (to - 1) \div Week
  BY WeekOrder
<1> QED
  BY <1>1 DEF weeksInRange, Span

LEMMA SpanFacts ==
  ASSUME NEW first \in Int, NEW last \in Int, first <= last + 1
  PROVE  /\ Span(first, last) \in Seq(Int)
         /\ Span(first, last) = <<>> <=> first = last + 1
         /\ first <= last => Head(Span(first, last)) = first /\ Tail(Span(first, last)) = Span(first + 1, last)
<1>1. Span(first, last) \in Seq(Int) /\ Len(Span(first, last)) = last - first + 1
  BY DEF Span
<1>2. first <= last => Head(Span(first, last)) = first
  BY <1>1 DEF Span
<1>3. first <= last => Tail(Span(first, last)) = Span(first + 1, last)
  BY <1>1 DEF Span
<1> QED
  BY <1>1, <1>2, <1>3

\* Putting in order neither drops nor adds.
LEMMA EventsInOrder ==
  ASSUME NEW S, IsFiniteSet(S), NEW s \in inOrder(S)
  PROVE  /\ Range(s) = S /\ IsInjective(s)
         /\ \A i, j \in DOMAIN s : i < j => s[i].at <= s[j].at
<1>1. Cardinality(S) \in Nat
  BY FS_CardinalityType
<1>2. s \in Injection(1..Cardinality(S), S)
  BY DEF inOrder, SetToSeqs, Injection, IsInjective
<1>3. Cardinality(1..Cardinality(S)) = Cardinality(S)
  BY <1>1, FS_Interval
<1>4. s \in Surjection(1..Cardinality(S), S)
  BY <1>2, <1>3, FS_Injection
<1>5. Range(s) = S
  BY <1>4 DEF Surjection, Range
<1> QED
  BY <1>2, <1>5 DEF Injection, inOrder
-----------------------------------------------------------------------------
LEMMA Constants ==
  /\ IsFiniteSet(Broadcasts) /\ \A b \in Broadcasts : b.at \in Int
  /\ Week \in Nat /\ Week > 0 /\ Zone \in Nat /\ Lookahead \in Nat /\ Lookahead > 0
  /\ channelIndexTTL \in Nat /\ ListedFrom \in Nat /\ MaxClock \in Nat
BY TvAssumption

\* What was published before a moment that is over stays what it was.
LEMMA PastStays ==
  ASSUME TvInv, TvTyped',
         clock' >= clock,
         published' = published \/ \E w \in Weeks : published[w] = None /\ published' = [published EXCEPT ![w] = clock]
  PROVE  \A b \in Broadcasts, t \in 0..clock : PublishedBefore(b, t)' => PublishedBefore(b, t)
<1> SUFFICES ASSUME NEW b \in Broadcasts, NEW t \in 0..clock, PublishedBefore(b, t)'
             PROVE  PublishedBefore(b, t)
  OBVIOUS
<1>1. serviceWeek(b.at) \in Weeks
  BY DEF Weeks
<1>2. published'[serviceWeek(b.at)] # None /\ published'[serviceWeek(b.at)] < t
  BY DEF PublishedBefore
<1>3. clock \in Nat
  BY Constants DEF TvInv, TvTyped
<1> QED
  BY <1>1, <1>2, <1>3 DEF PublishedBefore, TvInv, TvTyped

\* Time passes and weeks are published: what was asked before is not touched.
LEMMA OthersMove ==
  ASSUME TvInv, TvTyped', clock' >= clock, UNCHANGED <<lookup, answer>>,
         published' = published \/ \E w \in Weeks : published[w] = None /\ published' = [published EXCEPT ![w] = clock]
  PROVE  LookupInv' /\ WindowIsComplete'
<1>1. \A b \in Broadcasts, t \in 0..clock : PublishedBefore(b, t)' => PublishedBefore(b, t)
  BY PastStays
<1>2. LookupInv'
  <2> SUFFICES ASSUME lookup # None
               PROVE  /\ lookup \in Lookups
                      /\ lookup.from \in 0..clock' /\ lookup.to = lookup.from + Lookahead
                      /\ lookup.result \subseteq Asked(lookup)
                      /\ \E next \in FirstWeek(lookup)..LastWeek(lookup) + 1 :
                           lookup.todo = Span(next, LastWeek(lookup)) /\ HasUntil(lookup, next)'
    BY DEF LookupInv, Lookups, Asked, FirstWeek, LastWeek, Span, HasUntil
  <2>1. LookupInv /\ clock \in Nat /\ clock' \in Nat
    BY Constants DEF TvInv, TvTyped
  <2>2. PICK next \in FirstWeek(lookup)..LastWeek(lookup) + 1 :
          lookup.todo = Span(next, LastWeek(lookup)) /\ HasUntil(lookup, next)
    BY <2>1 DEF LookupInv
  <2>3. HasUntil(lookup, next)'
    BY <1>1, <2>1, <2>2 DEF HasUntil, LookupInv, Asked, FirstWeek
  <2> QED
    BY <2>1, <2>2, <2>3 DEF LookupInv
<1>3. WindowIsComplete'
  BY <1>1 DEF TvInv, AnswerInv, WindowIsComplete
<1> QED
  BY <1>2, <1>3

LEMMA TvStart == TvInit => TvInv
BY Constants DEF TvInit, TvInv, TvTyped, LookupInv, AnswerInv, WindowIsComplete

LEMMA TvBegins == TvInv /\ BeginLookup => TvInv'
<1> SUFFICES ASSUME TvInv, BeginLookup
             PROVE  TvInv'
  OBVIOUS
<1>1. TvTyped' /\ clock \in Nat
  BY Constants DEF TvInv, TvTyped, BeginLookup
<1>2. AnswerInv' /\ WindowIsComplete'
  BY DEF BeginLookup, AnswerInv, WindowIsComplete
<1>3. LookupInv'
  <2>1. /\ lookup'.from = clock /\ lookup'.to = clock + Lookahead
        /\ lookup'.result = {} /\ lookup'.todo = weeksInRange(clock, clock + Lookahead)
    BY DEF BeginLookup
  <2>2. /\ weeksInRange(clock, clock + Lookahead) = Span(clock \div Week, (clock + Lookahead - 1) \div Week)
        /\ clock \div Week \in (clock \div Week)..((clock + Lookahead - 1) \div Week) + 1
    BY <1>1, Constants, WeeksAreASpan
  <2>6. PICK week \in Int : week = clock \div Week
    BY <1>1, Constants
  <2>3. HasUntil(lookup, week)'
    <3>1. \A x \in Int : x \notin week..week - 1
      OBVIOUS
    <3>2. \A b \in Broadcasts : serviceWeek(b.at) \in Int
      BY Constants DEF serviceWeek
    <3>3. FirstWeek(lookup)' = week
      BY <2>1, <2>6 DEF FirstWeek
    <3> QED
      BY <3>1, <3>2, <3>3 DEF HasUntil, Asked
  <2>4. clock' = clock
    BY DEF BeginLookup
  <2>5. lookup' \in Lookups
    <3>1. weeksInRange(clock, clock + Lookahead) \in Seq(Int)
      <4>1. clock \div Week \in Int /\ (clock + Lookahead - 1) \div Week \in Int
        BY <1>1, Constants
      <4> QED
        BY <2>2, <4>1, SpanFacts
    <3> QED
      BY <1>1, <3>1, Constants DEF BeginLookup, Lookups
  <2>7. FirstWeek(lookup)' = week /\ LastWeek(lookup)' = (clock + Lookahead - 1) \div Week
    <3>1. lookup'.to - 1 = clock + Lookahead - 1
      BY <1>1, <2>1, Constants
    <3> QED
      BY <2>1, <2>6, <3>1 DEF FirstWeek, LastWeek
  <2>8. lookup'.todo = Span(week, LastWeek(lookup)') /\ week \in FirstWeek(lookup)'..LastWeek(lookup)' + 1
    BY <2>1, <2>2, <2>6, <2>7
  <2>9. lookup'.from \in 0..clock' /\ lookup'.to = lookup'.from + Lookahead /\ lookup'.result \subseteq Asked(lookup)'
    BY <1>1, <2>1, <2>4
  <2> QED
    BY <2>3, <2>5, <2>8, <2>9 DEF LookupInv, Span
<1> QED
  BY <1>1, <1>2, <1>3 DEF TvInv

\* A lookup that ends leaves nothing to say of itself.
LEMMA TvEnds ==
  ASSUME TvInv, UNCHANGED <<clock, published>>, index' \in {None} \cup 0..clock, lookup # None,
         NEW STATE ok, NEW STATE events, End(ok, events), WindowIsComplete'
  PROVE  TvInv'
<1>1. TvTyped'
  BY DEF TvInv, TvTyped
<1>2. LookupInv' /\ AnswerInv'
  BY DEF TvInv, LookupInv, AnswerInv, End
<1> QED
  BY <1>1, <1>2 DEF TvInv

\* A channel that is not found has not been listed for a time to live.
LEMMA TvResolves == TvInv /\ resolveChannel => TvInv'
<1> SUFFICES ASSUME TvInv, resolveChannel
             PROVE  TvInv'
  OBVIOUS
<1>1. PICK asOf \in IF youngIndex THEN {index} ELSE {clock} :
        /\ index' = asOf
        /\ IF asOf >= ListedFrom THEN lookup' = [lookup EXCEPT !.resolved = TRUE] /\ UNCHANGED answer
           ELSE End(TRUE, <<>>)
  BY DEF resolveChannel
<1>2. lookup # None /\ UNCHANGED <<clock, published>> /\ clock \in Nat
  BY Constants DEF resolveChannel, TvInv, TvTyped
<1>3. asOf \in 0..clock /\ clock - asOf <= channelIndexTTL
  BY <1>1, <1>2, Constants DEF youngIndex, TvInv, TvTyped
<1>4. CASE asOf >= ListedFrom
  <2>1. lookup' = [lookup EXCEPT !.resolved = TRUE] /\ UNCHANGED answer
    BY <1>1, <1>4
  <2>2. /\ lookup \in Lookups
        /\ lookup.from \in 0..clock /\ lookup.to = lookup.from + Lookahead
        /\ lookup.result \subseteq Asked(lookup)
    BY <1>2 DEF TvInv, LookupInv
  <2>3. PICK next \in FirstWeek(lookup)..LastWeek(lookup) + 1 :
          lookup.todo = Span(next, LastWeek(lookup)) /\ HasUntil(lookup, next)
    BY <1>2 DEF TvInv, LookupInv
  <2>4. /\ lookup' \in Lookups /\ lookup'.from = lookup.from /\ lookup'.to = lookup.to
        /\ lookup'.result = lookup.result /\ lookup'.todo = lookup.todo
    BY <2>1, <2>2 DEF Lookups
  <2>5. HasUntil(lookup, next)'
    BY <1>2, <2>3, <2>4 DEF HasUntil, Asked, FirstWeek, PublishedBefore
  <2>6. LookupInv'
    BY <1>2, <2>2, <2>3, <2>4, <2>5 DEF LookupInv, Asked, FirstWeek, LastWeek, Span, HasUntil
  <2>7. TvTyped' /\ AnswerInv' /\ WindowIsComplete'
    BY <1>1, <1>2, <1>3, <2>1 DEF TvInv, TvTyped, AnswerInv, WindowIsComplete, PublishedBefore
  <2> QED
    BY <2>6, <2>7 DEF TvInv
<1>5. CASE ~(asOf >= ListedFrom)
  <2>1. End(TRUE, <<>>)
    BY <1>1, <1>5
  <2>2. answer'.from = lookup.from /\ answer'.events = <<>> /\ lookup.from \in 0..clock
    BY <1>2, <2>1 DEF End, TvInv, LookupInv
  <2>3. ~(answer'.from >= ListedFrom + channelIndexTTL)
    BY <1>2, <1>3, <1>5, <2>2, Constants
  <2>4. WindowIsComplete'
    BY <2>2, <2>3 DEF WindowIsComplete, Range, IsInjective
  <2> QED
    BY <1>1, <1>2, <1>3, <2>1, <2>4, TvEnds
<1> QED
  BY <1>4, <1>5

\* A week that was published before the lookup began is there when it is asked for.
LEMMA TvFetches == TvInv /\ FetchWeek => TvInv'
<1> SUFFICES ASSUME TvInv, FetchWeek
             PROVE  TvInv'
  OBVIOUS
<1>1. /\ lookup # None /\ lookup.todo # <<>> /\ UNCHANGED <<clock, published, index, answer>> /\ clock \in Nat
  BY Constants DEF FetchWeek, Asking, TvInv, TvTyped
<1>2. /\ lookup \in Lookups
      /\ lookup.from \in 0..clock /\ lookup.to = lookup.from + Lookahead
      /\ lookup.result \subseteq Asked(lookup)
  BY <1>1 DEF TvInv, LookupInv
<1>3. PICK next \in FirstWeek(lookup)..LastWeek(lookup) + 1 :
        lookup.todo = Span(next, LastWeek(lookup)) /\ HasUntil(lookup, next)
  BY <1>1 DEF TvInv, LookupInv
<1>4. FirstWeek(lookup) \in Int /\ LastWeek(lookup) \in Int
  BY <1>2, Constants DEF FirstWeek, LastWeek
<1>5. /\ next <= LastWeek(lookup)
      /\ Head(lookup.todo) = next /\ Tail(lookup.todo) = Span(next + 1, LastWeek(lookup))
  <2>1. PICK last \in Int : last = LastWeek(lookup)
    BY <1>4
  <2>2. next \in Int /\ next <= last + 1 /\ lookup.todo = Span(next, last)
    BY <1>3, <1>4, <2>1
  <2>3. next # last + 1
    BY <1>1, <2>2, SpanFacts
  <2>4. next <= last
    BY <2>2, <2>3
  <2>5. Head(Span(next, last)) = next /\ Tail(Span(next, last)) = Span(next + 1, last)
    BY <2>2, <2>4, SpanFacts
  <2> QED
    BY <2>1, <2>2, <2>4, <2>5, Zenon
<1> DEFINE found == IF next \in Weeks /\ published[next] # None THEN Matching(Schedule(next)) ELSE {}
<1>6. lookup' = [lookup EXCEPT !.todo = Tail(@), !.result = @ \cup found]
  BY <1>5 DEF FetchWeek
<1>7. found \subseteq Asked(lookup)
  BY DEF Matching, Schedule, Asked
<1>8. /\ lookup' \in Lookups /\ lookup'.from = lookup.from /\ lookup'.to = lookup.to
      /\ lookup'.result = lookup.result \cup found /\ lookup'.todo = Span(next + 1, LastWeek(lookup))
  <2>1. found \in SUBSET Broadcasts
    BY <1>7 DEF Asked
  <2>2. Tail(lookup.todo) \in Seq(Int)
    BY <1>1, <1>2 DEF Lookups
  <2> HIDE DEF found
  <2> QED
    BY <1>2, <1>5, <1>6, <2>1, <2>2 DEF Lookups
<1> HIDE DEF found
<1>9. HasUntil(lookup, next + 1)'
  <2> SUFFICES ASSUME NEW b \in Asked(lookup), PublishedBefore(b, lookup.from),
                      serviceWeek(b.at) \in FirstWeek(lookup)..next
               PROVE  b \in lookup.result \cup found
    BY <1>1, <1>8 DEF HasUntil, Asked, FirstWeek, PublishedBefore
  <2>1. CASE serviceWeek(b.at) = next
    <3>1. next \in Weeks /\ published[next] # None
      BY <2>1 DEF Weeks, Asked, PublishedBefore
    <3>2. b \in Matching(Schedule(next))
      BY <2>1 DEF Asked, Matching, Schedule
    <3> QED
      BY <3>1, <3>2 DEF found
  <2>2. CASE serviceWeek(b.at) # next
    <3>1. serviceWeek(b.at) \in FirstWeek(lookup)..next - 1
      BY <1>3, <1>4, <2>2
    <3> QED
      BY <1>3, <3>1 DEF HasUntil
  <2> QED
    BY <2>1, <2>2
<1>10. LookupInv'
  <2>1. next + 1 \in FirstWeek(lookup)..LastWeek(lookup) + 1
    BY <1>3, <1>4, <1>5
  <2> QED
    BY <1>1, <1>2, <1>7, <1>8, <1>9, <2>1 DEF LookupInv, Asked, FirstWeek, LastWeek, Span, HasUntil
<1>11. TvTyped' /\ AnswerInv' /\ WindowIsComplete'
  BY <1>1 DEF TvInv, TvTyped, AnswerInv, WindowIsComplete, PublishedBefore
<1> QED
  BY <1>10, <1>11 DEF TvInv

LEMMA TvFails == TvInv /\ RequestFails => TvInv'
<1> SUFFICES ASSUME TvInv, RequestFails
             PROVE  TvInv'
  OBVIOUS
<1>1. End(FALSE, <<>>) /\ lookup # None /\ UNCHANGED <<clock, published, index>>
  BY DEF RequestFails
<1>2. WindowIsComplete'
  BY <1>1 DEF End, WindowIsComplete
<1>3. index' \in {None} \cup 0..clock
  BY <1>1 DEF TvInv, TvTyped
<1> QED
  BY <1>1, <1>2, <1>3, TvEnds

LEMMA TvFinishes == TvInv /\ Finish => TvInv'
<1> SUFFICES ASSUME TvInv, Finish
             PROVE  TvInv'
  OBVIOUS
<1>1. PICK events \in inOrder(lookup.result) : End(TRUE, events)
  BY DEF Finish
<1>2. /\ lookup # None /\ lookup.todo = <<>> /\ UNCHANGED <<clock, published, index>> /\ clock \in Nat
  BY Constants DEF Finish, TvInv, TvTyped
<1>3. lookup.from \in 0..clock /\ lookup.to = lookup.from + Lookahead /\ lookup.result \subseteq Asked(lookup)
  BY <1>2 DEF TvInv, LookupInv
<1>8. FirstWeek(lookup) \in Int /\ LastWeek(lookup) \in Int
  BY <1>3, Constants DEF FirstWeek, LastWeek
<1>4. HasUntil(lookup, LastWeek(lookup) + 1)
  <2>1. PICK next \in FirstWeek(lookup)..LastWeek(lookup) + 1 :
          lookup.todo = Span(next, LastWeek(lookup)) /\ HasUntil(lookup, next)
    BY <1>2 DEF TvInv, LookupInv
  <2>2. PICK last \in Int : last = LastWeek(lookup)
    BY <1>8
  <2>3. next = last + 1
    <3>1. next \in Int /\ next <= last + 1
      BY <1>8, <2>1, <2>2
    <3>2. Span(next, last) = <<>>
      BY <1>2, <2>1, <2>2
    <3> QED
      BY <3>1, <3>2, SpanFacts
  <2> QED
    BY <2>1, <2>2, <2>3
<1>5. /\ Range(events) = lookup.result /\ IsInjective(events)
      /\ \A i, j \in DOMAIN events : i < j => events[i].at <= events[j].at
  <2>1. IsFiniteSet(lookup.result)
    BY <1>3, Constants, FS_Subset DEF Asked
  <2> QED
    BY <1>1, <2>1, EventsInOrder
<1>6. \A b \in Asked(lookup) : b.at < lookup.to - Zone => serviceWeek(b.at) \in FirstWeek(lookup)..LastWeek(lookup)
  <2> SUFFICES ASSUME NEW b \in Asked(lookup), b.at < lookup.to - Zone
               PROVE  serviceWeek(b.at) \in FirstWeek(lookup)..LastWeek(lookup)
    OBVIOUS
  <2>1. b.at \in Int /\ lookup.from \in Int /\ lookup.to \in Int /\ lookup.from <= b.at
    BY <1>3, Constants DEF Asked
  <2>2. lookup.from <= b.at + Zone /\ b.at + Zone <= lookup.to - 1 /\ b.at + Zone \in Int
    BY <2>1, Constants
  <2> QED
    BY <1>8, <2>1, <2>2, WeekOrder DEF serviceWeek, FirstWeek, LastWeek
<1>7. WindowIsComplete'
  <2>1. /\ answer'.from = lookup.from /\ answer'.to = lookup.to /\ answer'.events = events
    BY <1>1 DEF End
  <2>2. \A b \in Asked(lookup) : PublishedBefore(b, lookup.from) /\ b.at < lookup.to - Zone => b \in Range(events)
    BY <1>4, <1>5, <1>6, <1>8 DEF HasUntil
  <2> QED
    BY <1>2, <1>3, <1>5, <2>1, <2>2 DEF WindowIsComplete, Asked, PublishedBefore
<1> QED
  BY <1>1, <1>2, <1>7, TvEnds DEF TvInv, TvTyped

LEMMA TvStep == TvInv /\ [TvNext]_tvVars => TvInv'
<1> SUFFICES ASSUME TvInv, [TvNext]_tvVars
             PROVE  TvInv'
  OBVIOUS
<1>1. CASE Publish
  <2>1. PICK w \in Weeks : published[w] = None /\ published' = [published EXCEPT ![w] = clock]
    BY <1>1 DEF Publish
  <2>2. TvTyped' /\ clock' >= clock /\ UNCHANGED <<clock, index, lookup, answer>>
    BY <1>1, <2>1, Constants DEF TvInv, TvTyped, Publish
  <2> QED
    BY <2>1, <2>2, OthersMove DEF TvInv, AnswerInv
<1>2. CASE TvPass
  <2>1. TvTyped' /\ clock' >= clock /\ clock \in Nat /\ clock' \in Nat
        /\ UNCHANGED <<published, index, lookup, answer>>
    BY <1>2, Constants DEF TvInv, TvTyped, TvPass
  <2>2. AnswerInv'
    BY <2>1 DEF TvInv, AnswerInv
  <2> QED
    BY <2>1, <2>2, OthersMove DEF TvInv
<1>3. CASE UNCHANGED tvVars
  BY <1>3 DEF tvVars, TvInv, TvTyped, LookupInv, AnswerInv, WindowIsComplete, PublishedBefore,
              Asked, FirstWeek, LastWeek, Span, HasUntil
<1> QED
  BY <1>1, <1>2, <1>3, TvBegins, TvResolves, TvFetches, TvFails, TvFinishes DEF TvNext

\* A lookup that succeeds has every broadcast it was asked for, once and in order,
\* whose week the service had by then (Lookup, weeksInRange, channelIndex).
THEOREM WindowsAreComplete == TvSpec => []WindowIsComplete
<1>1. TvInit => TvInv
  BY TvStart
<1>2. TvInv /\ [TvNext]_tvVars => TvInv'
  BY TvStep
<1>3. TvInv => WindowIsComplete
  BY DEF TvInv
<1> QED
  BY <1>1, <1>2, <1>3, PTL DEF TvSpec

\* The clock, the weeks, the channel list and a lookup have their types.
THEOREM LookupsAreTyped == TvSpec => []TvTypeOK
<1>1. TvInit => TvInv
  BY TvStart
<1>2. TvInv /\ [TvNext]_tvVars => TvInv'
  BY TvStep
<1>3. TvInv => TvTypeOK
  BY DEF TvInv, TvTyped, TvTypeOK, LookupInv, Asked
<1> QED
  BY <1>1, <1>2, <1>3, PTL DEF TvSpec
=============================================================================
