--------------------------- MODULE SequenceFacts ---------------------------
(***************************************************************************)
(* Facts about sequences.  First induction, of sets in the place of        *)
(* predicates: it gives functions that are defined by recursion over       *)
(* sequences.  Then the queues of the frontend's models: a queue is a      *)
(* sequence of requests, answers or events under way, of which any may be  *)
(* taken out.  Most invariants only ask what is under way, the range of a  *)
(* queue.                                                                  *)
(***************************************************************************)
EXTENDS Integers, SequencesExt, SequenceTheorems, WellFoundedInduction, TLAPS

-----------------------------------------------------------------------------
(* Induction and recursion *)

\* Every set of numbers has a least one.
LEMMA LeastNumber ==
  ASSUME NEW S \in SUBSET Nat, S # {}
  PROVE  \E n \in S : \A m \in S : n <= m
<1>1. IsWellFoundedOn(OpToRel(<, Nat), Nat)
  BY NatLessThanWellFounded
<1>2. PICK n \in S : \A m \in S : <<m, n>> \notin OpToRel(<, Nat)
  BY <1>1, WFMin
<1>3. \A m \in S : ~(m < n)
  BY <1>2 DEF OpToRel
<1>4. QED
  BY <1>3

\* Induction, of a set in the place of a predicate.
LEMMA Numbers ==
  ASSUME NEW S, 0 \in S, \A n \in Nat : n \in S => n + 1 \in S
  PROVE  Nat \subseteq S
<1> SUFFICES ASSUME Nat \ S # {} PROVE FALSE
  OBVIOUS
<1>1. PICK n \in Nat \ S : \A m \in Nat \ S : n <= m
  BY LeastNumber
<1>2. n - 1 \in Nat /\ (n - 1) + 1 = n
  BY <1>1
<1>3. n - 1 \in S
  BY <1>1, <1>2
<1>4. QED
  BY <1>1, <1>2, <1>3

\* Induction over sequences.
LEMMA OnSequences ==
  ASSUME NEW S, NEW P, <<>> \in P,
         \A s \in Seq(S), x \in S : s \in P => Append(s, x) \in P
  PROVE  Seq(S) \subseteq P
<1> DEFINE N == {n \in Nat : \A s \in Seq(S) : Len(s) = n => s \in P}
<1>1. 0 \in N
  <2>1. \A s \in Seq(S) : Len(s) = 0 => s = <<>>
    OBVIOUS
  <2>2. QED
    BY <2>1
<1>2. ASSUME NEW n \in Nat, n \in N PROVE n + 1 \in N
  <2> SUFFICES ASSUME NEW s \in Seq(S), Len(s) = n + 1 PROVE s \in P
    OBVIOUS
  <2>1. PICK front \in Seq(S), last \in S : s = Append(front, last)
    <3>1. s # <<>>
      OBVIOUS
    <3>2. QED
      BY <3>1, SequenceEmptyOrAppend
  <2>2. Len(front) = n
    BY <2>1
  <2>3. front \in P
    BY <1>2, <2>2
  <2>4. QED
    BY <2>1, <2>3
<1>3. Nat \subseteq N
  <2> HIDE DEF N
  <2> QED BY <1>1, <1>2, Numbers
<1>4. QED
  BY <1>3

\* What is appended to is longer, and tells what was appended to what.
LEMMA AppendIsSome ==
  ASSUME NEW S
  PROVE  /\ \A t \in Seq(S), x \in S : Append(t, x) # <<>>
         /\ \A t, u \in Seq(S), x, y \in S : Append(t, x) = Append(u, y) => t = u /\ x = y
BY AppendProperties, AppendInjective

\* A sequence without its last entry, and that entry.
LEMMA FrontOfAppend ==
  ASSUME NEW S, NEW t \in Seq(S), NEW x \in S
  PROVE  Front(Append(t, x)) = t /\ Last(Append(t, x)) = x
<1>1. /\ Append(t, x) \in Seq(S) /\ Len(Append(t, x)) = Len(t) + 1
      /\ \A i \in 1..Len(t) : Append(t, x)[i] = t[i]
      /\ Append(t, x)[Len(t) + 1] = x
  BY AppendProperties
<1>2. QED
  BY <1>1 DEF Front, Last

\* Any sequence but the empty one consists of both.
LEMMA FrontAndLast ==
  ASSUME NEW S, NEW s \in Seq(S), s # <<>>
  PROVE  /\ Front(s) \in Seq(S) /\ Last(s) \in S
         /\ s = Append(Front(s), Last(s))
<1>1. PICK t \in Seq(S), x \in S : s = Append(t, x)
  BY SequenceEmptyOrAppend
<1>2. Front(s) = t /\ Last(s) = x
  BY <1>1, FrontOfAppend
<1>3. QED
  BY <1>1, <1>2

\* Appending and joining.
LEMMA AppendJoins ==
  ASSUME NEW S
  PROVE  \A s, t \in Seq(S), x \in S :
           s \o t \in Seq(S) /\ s \o Append(t, x) = Append(s \o t, x)
<1> SUFFICES ASSUME NEW s \in Seq(S), NEW t \in Seq(S), NEW x \in S
             PROVE  s \o t \in Seq(S) /\ s \o Append(t, x) = Append(s \o t, x)
  OBVIOUS
<1>1. <<x>> \in Seq(S) /\ Append(t, x) = t \o <<x>>
  BY AppendIsConcat
<1>2. s \o t \in Seq(S)
  BY ConcatProperties
<1>3. Append(s \o t, x) = (s \o t) \o <<x>>
  BY <1>2, AppendIsConcat
<1>4. QED
  BY <1>1, <1>2, <1>3, ConcatAssociative

\* Pairs of a sequence and a value that a recursion allows: the smallest set
\* of them that its start and its step leave closed is the function.
ClosedUnder(R, S, first, step) ==
  /\ <<<<>>, first>> \in R
  /\ \A p \in R, x \in S : <<Append(p[1], x), step[p[2]][x]>> \in R

Grows(f, S, first, step) ==
  /\ f[<<>>] = first
  /\ \A t \in Seq(S), x \in S : f[Append(t, x)] = step[f[t]][x]

\* There is a function with a given value for no entry and a given step.
LEMMA RecursionOnAppend ==
  ASSUME NEW S, NEW V, NEW first \in V, NEW step \in [V -> [S -> V]]
  PROVE  \E f \in [Seq(S) -> V] : Grows(f, S, first, step)
<1> DEFINE All == Seq(S) \X V
           M == {p \in All : \A R \in SUBSET All : ClosedUnder(R, S, first, step) => p \in R}
<1>0. <<>> \in Seq(S)
  BY EmptySeq
<1>some. /\ \A t \in Seq(S), x \in S : Append(t, x) # <<>>
      /\ \A t, u \in Seq(S), x, y \in S : Append(t, x) = Append(u, y) => t = u /\ x = y
  BY AppendIsSome
<1>1. M \subseteq All
  OBVIOUS
<1>2. ClosedUnder(M, S, first, step)
  <2>1. <<<<>>, first>> \in All
    BY <1>0
  <2>2. <<<<>>, first>> \in M
    BY <2>1 DEF ClosedUnder
  <2>3. ASSUME NEW p \in M, NEW x \in S PROVE <<Append(p[1], x), step[p[2]][x]>> \in M
    <3>1. p[1] \in Seq(S) /\ p[2] \in V
      OBVIOUS
    <3>2. Append(p[1], x) \in Seq(S) /\ step[p[2]][x] \in V
      BY <3>1
    <3>3. ASSUME NEW R \in SUBSET All, ClosedUnder(R, S, first, step)
          PROVE  <<Append(p[1], x), step[p[2]][x]>> \in R
      BY <3>3 DEF ClosedUnder
    <3>4. QED
      BY <3>2, <3>3
  <2>4. QED
    BY <2>2, <2>3, Zenon DEF ClosedUnder
<1>3. ASSUME NEW R \in SUBSET All, ClosedUnder(R, S, first, step) PROVE M \subseteq R
  BY <1>3
<1> HIDE DEF M
<1> DEFINE One(t) == \E v \in V : <<t, v>> \in M /\ \A w \in V : <<t, w>> \in M => w = v
           P == {t \in Seq(S) : One(t)}
<1>4. \A w \in V : <<<<>>, w>> \in M => w = first
  <2> SUFFICES ASSUME NEW w \in V, <<<<>>, w>> \in M, w # first PROVE FALSE
    OBVIOUS
  <2>1. PICK R : R = M \ {<<<<>>, w>>}
    OBVIOUS
  <2>2. <<<<>>, first>> \in R
    BY <1>2, <2>1 DEF ClosedUnder
  <2>3. ASSUME NEW p \in R, NEW x \in S PROVE <<Append(p[1], x), step[p[2]][x]>> \in R
    <3>1. p \in M /\ <<Append(p[1], x), step[p[2]][x]>> \in M
      BY <1>2, <2>1 DEF ClosedUnder
    <3>2. PICK t \in Seq(S) : t = p[1]
      BY <1>1, <3>1
    <3>3. Append(t, x) # <<>>
      BY <3>2, <1>some
    <3>4. <<Append(t, x), step[p[2]][x]>> # <<<<>>, w>>
      BY <3>3
    <3>5. QED
      BY <2>1, <3>1, <3>2, <3>4
  <2>4. R \in SUBSET All /\ ClosedUnder(R, S, first, step)
    BY <1>1, <2>1, <2>2, <2>3 DEF ClosedUnder
  <2>5. QED
    BY <1>3, <2>1, <2>4
<1>5. <<>> \in P
  BY <1>0, <1>2, <1>4 DEF ClosedUnder
<1>6. ASSUME NEW t \in Seq(S), NEW x \in S, NEW v \in V, <<t, v>> \in M,
             \A w \in V : <<t, w>> \in M => w = v
      PROVE  /\ <<Append(t, x), step[v][x]>> \in M
             /\ \A w \in V : <<Append(t, x), w>> \in M => w = step[v][x]
  <2>1. <<Append(t, x), step[v][x]>> \in M
    <3>1. <<t, v>>[1] = t /\ <<t, v>>[2] = v
      OBVIOUS
    <3>2. QED
      BY <1>2, <1>6, <3>1 DEF ClosedUnder
  <2> SUFFICES ASSUME NEW w \in V, <<Append(t, x), w>> \in M, w # step[v][x] PROVE FALSE
    BY <2>1
  <2>2. PICK R : R = M \ {<<Append(t, x), w>>}
    OBVIOUS
  <2>3. Append(t, x) # <<>>
    BY AppendProperties
  <2>4. <<<<>>, first>> \in R
    BY <1>2, <2>2, <2>3 DEF ClosedUnder
  <2>5. ASSUME NEW p \in R, NEW y \in S PROVE <<Append(p[1], y), step[p[2]][y]>> \in R
    <3>1. p \in M /\ <<Append(p[1], y), step[p[2]][y]>> \in M
      BY <1>2, <2>2 DEF ClosedUnder
    <3>2. PICK q \in Seq(S), u \in V : p = <<q, u>>
      BY <1>1, <3>1
    <3>3. p[1] = q /\ p[2] = u
      BY <3>2
    <3>4. ASSUME Append(q, y) = Append(t, x), step[u][y] = w PROVE FALSE
      <4>1. q = t /\ y = x
        BY <1>some, <3>4
      <4>2. u = v
        BY <1>6, <3>1, <3>2, <4>1
      <4>3. QED
        BY <3>4, <4>1, <4>2
    <3>5. QED
      BY <2>2, <3>1, <3>3, <3>4
  <2>6. R \in SUBSET All /\ ClosedUnder(R, S, first, step)
    BY <1>1, <2>2, <2>4, <2>5 DEF ClosedUnder
  <2>7. QED
    BY <1>3, <2>2, <2>6
<1>7. ASSUME NEW t \in Seq(S), NEW x \in S, t \in P PROVE Append(t, x) \in P
  <2>1. PICK v \in V : <<t, v>> \in M /\ \A w \in V : <<t, w>> \in M => w = v
    BY <1>7
  <2>2. PICK u \in V : u = step[v][x]
    <3>1. step[v][x] \in V
      OBVIOUS
    <3>2. QED
      BY <3>1, Zenon
  <2>3. <<Append(t, x), u>> \in M /\ \A w \in V : <<Append(t, x), w>> \in M => w = u
    BY <1>6, <2>1, <2>2
  <2>4. Append(t, x) \in Seq(S)
    BY AppendProperties
  <2>5. QED
    BY <2>3, <2>4
<1>8. \A t \in Seq(S) : One(t)
  <2>1. Seq(S) \subseteq P
    <3> HIDE DEF P
    <3> QED BY <1>5, <1>7, OnSequences
  <2>2. QED
    BY <2>1
<1>9. PICK f : f = [t \in Seq(S) |-> CHOOSE v \in V : <<t, v>> \in M]
  OBVIOUS
<1>10. ASSUME NEW t \in Seq(S) PROVE f[t] \in V /\ <<t, f[t]>> \in M
  <2>1. \E v \in V : <<t, v>> \in M
    BY <1>8
  <2>2. f[t] = CHOOSE v \in V : <<t, v>> \in M
    BY <1>9
  <2>3. QED
    BY <2>1, <2>2, Zenon
<1>11. f \in [Seq(S) -> V]
  BY <1>9, <1>10
<1>12. f[<<>>] = first
  BY <1>0, <1>4, <1>10
<1>13. ASSUME NEW t \in Seq(S), NEW x \in S PROVE f[Append(t, x)] = step[f[t]][x]
  <2>1. f[t] \in V /\ <<t, f[t]>> \in M
    BY <1>10
  <2>2. \A w \in V : <<t, w>> \in M => w = f[t]
    BY <1>8, <2>1
  <2>3. Append(t, x) \in Seq(S)
    BY AppendProperties
  <2>4. f[Append(t, x)] \in V /\ <<Append(t, x), f[Append(t, x)]>> \in M
    BY <1>10, <2>3
  <2>5. QED
    BY <1>6, <2>1, <2>2, <2>4
<1>14. QED
  BY <1>11, <1>12, <1>13 DEF Grows

\* The same, as the models write it: what comes before the last entry, and that.
Recurses(f, S, first, step) ==
  \A s \in Seq(S) : f[s] = IF s = <<>> THEN first ELSE step[f[Front(s)]][Last(s)]

LEMMA Recursion ==
  ASSUME NEW S, NEW V, NEW first \in V, NEW step \in [V -> [S -> V]]
  PROVE  \E f \in [Seq(S) -> V] : Recurses(f, S, first, step)
<1>1. PICK f \in [Seq(S) -> V] : Grows(f, S, first, step)
  BY RecursionOnAppend
<1>2. ASSUME NEW s \in Seq(S), s # <<>>
      PROVE  f[s] = step[f[Front(s)]][Last(s)]
  <2>1. PICK t \in Seq(S), x \in S : s = Append(t, x)
    BY <1>2, SequenceEmptyOrAppend
  <2>2. Front(s) = t /\ Last(s) = x
    BY <2>1, FrontOfAppend
  <2>3. f[Append(t, x)] = step[f[t]][x]
    BY <1>1 DEF Grows
  <2>4. QED
    BY <2>1, <2>2, <2>3, Zenon
<1>3. Recurses(f, S, first, step)
  BY <1>1, <1>2 DEF Recurses, Grows
<1>4. QED
  BY <1>3

-----------------------------------------------------------------------------
(* Queues *)

\* What a queue holds once one of its entries is taken out.
Rest(s, n) == SubSeq(s, 1, n - 1) \o SubSeq(s, n + 1, Len(s))

\* Nothing is under way when a queue is empty.
LEMMA NothingHeld ==
  ASSUME NEW S, NEW s \in Seq(S)
  PROVE  s = <<>> <=> Range(s) = {}
<1>1. Len(s) \in Nat /\ Range(s) = {s[n] : n \in 1..Len(s)}
  BY RangeEquality
<1>2. s = <<>> <=> Len(s) = 0
  OBVIOUS
<1>3. Len(s) = 0 <=> 1..Len(s) = {}
  BY <1>1
<1>4. 1..Len(s) = {} <=> {s[n] : n \in 1..Len(s)} = {}
  OBVIOUS
<1>5. QED
  BY <1>1, <1>2, <1>3, <1>4

\* An entry that joins a queue.
LEMMA OneJoins ==
  ASSUME NEW S, NEW s \in Seq(S), NEW e \in S
  PROVE  /\ Append(s, e) \in Seq(S)
         /\ Range(Append(s, e)) = Range(s) \cup {e}
<1>1. <<e>> \in Seq(S) /\ Range(<<e>>) = {e}
  BY DEF Range
<1>2. Append(s, e) = s \o <<e>>
  BY AppendIsConcat
<1>3. Append(s, e) \in Seq(S)
  OBVIOUS
<1>4. Range(s \o <<e>>) = Range(s) \cup Range(<<e>>)
  BY <1>1, RangeConcatenation
<1>5. QED
  BY <1>1, <1>2, <1>3, <1>4

\* Entries that join a queue together.
LEMMA SomeJoin ==
  ASSUME NEW S, NEW s \in Seq(S), NEW t \in Seq(S)
  PROVE  s \o t \in Seq(S) /\ Range(s \o t) = Range(s) \cup Range(t)
BY RangeConcatenation, ConcatProperties

\* An entry that leaves a queue: the others stay, in their order.
LEMMA OneLeaves ==
  ASSUME NEW S, NEW s \in Seq(S), NEW n \in DOMAIN s
  PROVE  /\ s[n] \in S
         /\ Rest(s, n) \in Seq(S)
         /\ Len(Rest(s, n)) = Len(s) - 1
         /\ \A m \in 1..(Len(s) - 1) : Rest(s, n)[m] = IF m < n THEN s[m] ELSE s[m + 1]
         /\ Range(s) = Range(Rest(s, n)) \cup {s[n]}
<1>1. n \in 1..Len(s) /\ Len(s) \in Nat /\ \A m \in 1..Len(s) : s[m] \in S
  OBVIOUS
<1>2. /\ SubSeq(s, 1, n - 1) \in Seq(S) /\ Len(SubSeq(s, 1, n - 1)) = n - 1
      /\ \A m \in 1..(n - 1) : SubSeq(s, 1, n - 1)[m] = s[m]
  BY <1>1
<1>3. /\ SubSeq(s, n + 1, Len(s)) \in Seq(S) /\ Len(SubSeq(s, n + 1, Len(s))) = Len(s) - n
      /\ \A m \in 1..(Len(s) - n) : SubSeq(s, n + 1, Len(s))[m] = s[n + m]
  BY <1>1
<1>4. /\ Rest(s, n) \in Seq(S) /\ Len(Rest(s, n)) = Len(s) - 1
      /\ \A m \in 1..(Len(s) - 1) : Rest(s, n)[m] = IF m < n THEN s[m] ELSE s[m + 1]
  <2> DEFINE s1 == SubSeq(s, 1, n - 1)
             s2 == SubSeq(s, n + 1, Len(s))
             both == s1 \o s2
  <2>1. /\ s1 \in Seq(S) /\ s2 \in Seq(S) /\ Len(s1) = n - 1 /\ Len(s2) = Len(s) - n
        /\ \A m \in 1..(n - 1) : s1[m] = s[m]
        /\ \A m \in 1..(Len(s) - n) : s2[m] = s[n + m]
    BY <1>2, <1>3
  <2>2. Rest(s, n) = both
    BY DEF Rest
  <2> HIDE DEF s1, s2
  <2>3. /\ both \in Seq(S) /\ Len(both) = Len(s1) + Len(s2)
        /\ \A m \in 1..(Len(s1) + Len(s2)) :
             both[m] = IF m <= Len(s1) THEN s1[m] ELSE s2[m - Len(s1)]
    BY <2>1, ConcatProperties
  <2> HIDE DEF both
  <2>4. ASSUME NEW m \in 1..(Len(s) - 1)
        PROVE  both[m] = IF m < n THEN s[m] ELSE s[m + 1]
    <3>1. both[m] = IF m <= n - 1 THEN s1[m] ELSE s2[m - (n - 1)]
      <4>1. Len(s1) = n - 1 /\ m \in 1..(Len(s1) + Len(s2))
        BY <1>1, <2>1
      <4>2. QED
        BY <2>3, <4>1
    <3>2. CASE m < n
      BY <1>1, <2>1, <3>1, <3>2
    <3>3. CASE ~ (m < n)
      <4>1. m - (n - 1) \in 1..(Len(s) - n) /\ n + (m - (n - 1)) = m + 1 /\ ~ (m <= n - 1)
        BY <1>1, <3>3
      <4>2. QED
        BY <2>1, <3>1, <3>3, <4>1
    <3>4. QED
      BY <3>2, <3>3
  <2>5. Len(both) = Len(s) - 1
    BY <1>1, <2>1, <2>3
  <2>6. QED
    BY <2>2, <2>3, <2>4, <2>5
<1>5. Range(s) = {s[m] : m \in 1..Len(s)}
  BY RangeEquality
<1>6. Range(Rest(s, n)) = {Rest(s, n)[m] : m \in 1..(Len(s) - 1)}
  BY <1>4, RangeEquality
<1>7. ASSUME NEW m \in 1..Len(s)
      PROVE  s[m] \in Range(Rest(s, n)) \cup {s[n]}
  <2>1. CASE m < n
    BY <1>1, <1>4, <1>6, <2>1
  <2>2. CASE m > n
    <3>1. m - 1 \in 1..(Len(s) - 1) /\ ~ (m - 1 < n) /\ (m - 1) + 1 = m
      BY <1>1, <2>2
    <3>2. Rest(s, n)[m - 1] = s[m]
      BY <1>4, <3>1
    <3>3. QED
      BY <1>6, <3>1, <3>2
  <2>3. QED
    BY <1>1, <2>1, <2>2
<1>8. ASSUME NEW m \in 1..(Len(s) - 1)
      PROVE  Rest(s, n)[m] \in Range(s)
  BY <1>1, <1>4, <1>5
<1>9. Range(s) = Range(Rest(s, n)) \cup {s[n]}
  <2>1. Range(s) \subseteq Range(Rest(s, n)) \cup {s[n]}
    BY <1>5, <1>7
  <2>2. Range(Rest(s, n)) \subseteq Range(s) /\ s[n] \in Range(s)
    BY <1>1, <1>5, <1>6, <1>8
  <2>3. QED
    BY <2>1, <2>2
<1>10. QED
  BY <1>1, <1>4, <1>9

\* The first entry leaves.
LEMMA FirstLeaves ==
  ASSUME NEW S, NEW s \in Seq(S), s # <<>>
  PROVE  /\ Head(s) \in S /\ Tail(s) \in Seq(S)
         /\ Range(s) = Range(Tail(s)) \cup {Head(s)}
<1> DEFINE h == <<Head(s)>>
           t == Tail(s)
<1>1. h \in Seq(S) /\ Range(h) = {Head(s)} /\ t \in Seq(S)
  BY DEF Range
<1>2. s = h \o t
  OBVIOUS
<1>3. Head(s) \in S
  OBVIOUS
<1> HIDE DEF h
<1>4. Range(h \o t) = Range(h) \cup Range(t)
  <2> HIDE DEF t
  <2> QED BY <1>1, RangeConcatenation
<1>5. QED
  BY <1>1, <1>2, <1>3, <1>4
=============================================================================
