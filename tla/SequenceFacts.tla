------------------------------ MODULE SequenceFacts -----------------------------
(***************************************************************************)
(* Lemmas about sequences: the queues of messages and of tasks, typed by   *)
(* what they hold.                                                         *)
(***************************************************************************)
EXTENDS Naturals, Sequences, Functions, SequenceTheorems, TLAPS

LEMMA RangeOfAppend ==
    ASSUME NEW S, NEW q \in Seq(S), NEW e \in S
    PROVE  Range(Append(q, e)) = Range(q) \cup {e}
<1> DEFINE u == <<e>>
<1>1. Append(q, e) = q \o u /\ u \in Seq(S)
  BY AppendIsConcat
<1>2. Range(u) = {e}
  BY DEF Range
<1> HIDE DEF u
<1>3. Range(q \o u) = Range(q) \cup Range(u)
  BY <1>1, RangeConcatenation
<1> QED
  BY <1>1, <1>2, <1>3

LEMMA AppendTyped ==
    ASSUME NEW q, q \in Seq(Range(q)), NEW e
    PROVE  /\ Append(q, e) \in Seq(Range(Append(q, e)))
           /\ Range(Append(q, e)) = Range(q) \cup {e}
<1> DEFINE S == Range(q) \cup {e}
<1>1. q \in Seq(S) /\ e \in S
  BY SeqMonotonic
<1>2. Append(q, e) \in Seq(S) /\ Range(Append(q, e)) = S
  <2> HIDE DEF S
  <2>1. Append(q, e) \in Seq(S)
    BY <1>1, AppendProperties
  <2>2. Range(Append(q, e)) = Range(q) \cup {e}
    BY <1>1, RangeOfAppend
  <2> QED
    BY <2>1, <2>2 DEF S
<1> QED
  BY <1>2

LEMMA TailTyped ==
    ASSUME NEW q, q \in Seq(Range(q)), q # <<>>
    PROVE  /\ Head(q) \in Range(q)
           /\ Tail(q) \in Seq(Range(Tail(q)))
           /\ Range(Tail(q)) \subseteq Range(q)
<1>1. Head(q) \in Range(q) /\ Tail(q) \in Seq(Range(q))
  BY HeadTailProperties
<1> DEFINE S == Range(q)
           t == Tail(q)
<1>2. t \in Seq(S)
  BY <1>1
<1> HIDE DEF S, t
<1>3. t \in Seq(Range(t)) /\ Range(t) \subseteq S
  BY <1>2, SeqOfRange, RangeOfSeq
<1> QED
  BY <1>1, <1>3 DEF S, t

LEMMA EraseFromSequence ==
    ASSUME NEW S, NEW q \in Seq(S), NEW i \in DOMAIN q
    PROVE  /\ q[i] \in S
           /\ SubSeq(q, 1, i - 1) \o SubSeq(q, i + 1, Len(q)) \in Seq(S)
<1>1. /\ Len(q) \in Nat
      /\ i \in 1 .. Len(q)
      /\ \A k \in 1 .. Len(q) : q[k] \in S
  BY LenProperties, ElementOfSeq
<1>2. SubSeq(q, 1, i - 1) \in Seq(S) /\ SubSeq(q, i + 1, Len(q)) \in Seq(S)
  BY <1>1, SubSeqProperties
<1> QED
  BY <1>1, <1>2, ConcatProperties

\* Where the elements are after one has been erased.
LEMMA EraseShifts ==
    ASSUME NEW S, NEW q \in Seq(S), NEW i \in DOMAIN q
    PROVE  LET rest == SubSeq(q, 1, i - 1) \o SubSeq(q, i + 1, Len(q)) IN
           /\ rest \in Seq(S) /\ Len(rest) = Len(q) - 1 /\ Len(q) \in Nat /\ i \in 1 .. Len(q)
           /\ DOMAIN rest = 1 .. Len(q) - 1 /\ DOMAIN q = 1 .. Len(q)
           /\ \A n \in 1 .. i - 1 : rest[n] = q[n]
           /\ \A n \in i .. Len(q) - 1 : rest[n] = q[n + 1]
<1> DEFINE front == SubSeq(q, 1, i - 1)
           back == SubSeq(q, i + 1, Len(q))
           rest == front \o back
<1>1. Len(q) \in Nat /\ i \in 1 .. Len(q) /\ DOMAIN q = 1 .. Len(q)
  BY LenProperties
<1>2. /\ front \in Seq(S) /\ Len(front) = i - 1
      /\ \A n \in 1 .. i - 1 : front[n] = q[n]
  BY <1>1, SubSeqProperties, ElementOfSeq
<1>3. /\ back \in Seq(S) /\ Len(back) = Len(q) - i
      /\ \A n \in 1 .. Len(q) - i : back[n] = q[n + i]
  BY <1>1, SubSeqProperties, ElementOfSeq
<1> HIDE DEF front, back
<1>4. /\ rest \in Seq(S) /\ Len(rest) = Len(front) + Len(back)
      /\ \A n \in 1 .. Len(front) + Len(back) :
            rest[n] = IF n <= Len(front) THEN front[n] ELSE back[n - Len(front)]
  BY <1>2, <1>3, ConcatProperties, Zenon DEF rest
<1> HIDE DEF rest
<1>5. Len(rest) = Len(q) - 1 /\ DOMAIN rest = 1 .. Len(q) - 1
  BY <1>1, <1>2, <1>3, <1>4, LenProperties
<1>6. ASSUME NEW n \in 1 .. i - 1
      PROVE  rest[n] = q[n]
  BY <1>1, <1>2, <1>4, <1>5, <1>6
<1>7. ASSUME NEW n \in i .. Len(q) - 1
      PROVE  rest[n] = q[n + 1]
  <2>1. n \in 1 .. Len(rest) /\ ~ (n <= Len(front)) /\ n - Len(front) = n - i + 1
    BY <1>1, <1>2, <1>5
  <2>2. rest[n] = back[n - i + 1]
    BY <1>4, <2>1
  <2>3. n - i + 1 \in 1 .. Len(q) - i /\ (n - i + 1) + i = n + 1
    BY <1>1
  <2> QED
    BY <1>3, <2>2, <2>3
<1>8. /\ rest \in Seq(S) /\ Len(rest) = Len(q) - 1 /\ Len(q) \in Nat /\ i \in 1 .. Len(q)
      /\ DOMAIN rest = 1 .. Len(q) - 1 /\ DOMAIN q = 1 .. Len(q)
      /\ \A n \in 1 .. i - 1 : rest[n] = q[n]
      /\ \A n \in i .. Len(q) - 1 : rest[n] = q[n + 1]
  BY <1>1, <1>4, <1>5, <1>6, <1>7
<1> QED
  BY <1>8 DEF front, back, rest

\* An element other than the one erased stays.
LEMMA EraseKeepsOthers ==
    ASSUME NEW S, NEW q \in Seq(S), NEW i \in DOMAIN q, NEW k \in DOMAIN q, k # i
    PROVE  q[k] \in Range(SubSeq(q, 1, i - 1) \o SubSeq(q, i + 1, Len(q)))
<1> DEFINE rest == SubSeq(q, 1, i - 1) \o SubSeq(q, i + 1, Len(q))
<1>1. /\ Len(q) \in Nat /\ i \in 1 .. Len(q) /\ k \in 1 .. Len(q)
      /\ DOMAIN rest = 1 .. Len(q) - 1
      /\ \A n \in 1 .. i - 1 : rest[n] = q[n]
      /\ \A n \in i .. Len(q) - 1 : rest[n] = q[n + 1]
  BY EraseShifts
<1> HIDE DEF rest
<1>2. \E n \in DOMAIN rest : rest[n] = q[k]
  <2>1. CASE k < i
    BY <1>1, <2>1
  <2>2. CASE k > i
    <3>1. k - 1 \in i .. Len(q) - 1 /\ k - 1 \in DOMAIN rest /\ (k - 1) + 1 = k
      BY <1>1, <2>2
    <3> QED
      BY <1>1, <3>1
  <2> QED
    BY <1>1, <2>1, <2>2
<1> QED
  BY <1>2 DEF Range, rest

\* Of a sequence without repetitions, exactly the element erased is gone.
LEMMA EraseFromInjective ==
    ASSUME NEW S, NEW q \in Seq(S), NEW i \in DOMAIN q, IsInjective(q)
    PROVE  LET rest == SubSeq(q, 1, i - 1) \o SubSeq(q, i + 1, Len(q)) IN
           IsInjective(rest) /\ Range(rest) = Range(q) \ {q[i]}
<1> DEFINE rest == SubSeq(q, 1, i - 1) \o SubSeq(q, i + 1, Len(q))
<1>1. /\ Len(q) \in Nat /\ i \in 1 .. Len(q) /\ DOMAIN q = 1 .. Len(q)
      /\ DOMAIN rest = 1 .. Len(q) - 1
      /\ \A n \in 1 .. i - 1 : rest[n] = q[n]
      /\ \A n \in i .. Len(q) - 1 : rest[n] = q[n + 1]
  BY EraseShifts
<1>2. \A k \in DOMAIN q : k # i => q[k] \in Range(rest)
  BY EraseKeepsOthers
<1> HIDE DEF rest
<1>3. \A n \in DOMAIN rest :
         \/ n < i /\ n \in DOMAIN q /\ rest[n] = q[n]
         \/ n >= i /\ n + 1 \in DOMAIN q /\ rest[n] = q[n + 1]
  BY <1>1
<1>4. \A a, b \in DOMAIN q : q[a] = q[b] => a = b
  BY DEF IsInjective
<1>5. ASSUME NEW m \in DOMAIN rest, NEW n \in DOMAIN rest, rest[m] = rest[n]
      PROVE  m = n
  BY <1>1, <1>3, <1>4, <1>5
<1>6. \A n \in DOMAIN rest : rest[n] \in Range(q) /\ rest[n] # q[i]
  BY <1>1, <1>3, <1>4 DEF Range
<1>7. Range(rest) = Range(q) \ {q[i]}
  BY <1>2, <1>6 DEF Range
<1>8. IsInjective(rest)
  BY <1>5 DEF IsInjective
<1> QED
  BY <1>7, <1>8 DEF rest

\* Something new at the end of a sequence without repetitions.
LEMMA AppendNew ==
    ASSUME NEW S, NEW q \in Seq(S), NEW e \in S, IsInjective(q), e \notin Range(q)
    PROVE  IsInjective(Append(q, e))
<1> DEFINE u == Append(q, e)
<1> SUFFICES IsInjective(u)
  OBVIOUS
<1>1. Len(q) \in Nat /\ DOMAIN q = 1 .. Len(q)
  BY LenProperties
<1>2. /\ u \in Seq(S) /\ Len(u) = Len(q) + 1
      /\ \A k \in 1 .. Len(q) : u[k] = q[k]
      /\ u[Len(q) + 1] = e
  BY AppendProperties
<1> HIDE DEF u
<1>3. DOMAIN u = 1 .. Len(q) + 1
  BY <1>2, LenProperties
<1>4. \A k \in DOMAIN q : q[k] # e
  BY DEF Range
<1>5. \A a, b \in DOMAIN q : q[a] = q[b] => a = b
  BY DEF IsInjective
<1>6. \A a, b \in DOMAIN u : u[a] = u[b] => a = b
  BY <1>1, <1>2, <1>3, <1>4, <1>5
<1> QED
  BY <1>6 DEF IsInjective

\* What is in a queue stays there when something is appended.
LEMMA AppendKeeps ==
    ASSUME NEW S, NEW q \in Seq(S), NEW e \in S
    PROVE  Range(q) \subseteq Range(Append(q, e)) /\ e \in Range(Append(q, e))
BY RangeOfAppend

\* What is in a queue is its head or stays in its tail.
LEMMA HeadOrTail ==
    ASSUME NEW q, q \in Seq(Range(q)), q # <<>>, NEW e \in Range(q)
    PROVE  e = Head(q) \/ e \in Range(Tail(q))
<1>1. /\ Len(q) \in Nat /\ DOMAIN q = 1 .. Len(q)
      /\ Len(Tail(q)) = Len(q) - 1 /\ Tail(q) \in Seq(Range(q))
      /\ \A i \in 1 .. Len(q) - 1 : Tail(q)[i] = q[i + 1]
  BY LenProperties, HeadTailProperties
<1>2. DOMAIN Tail(q) = 1 .. Len(q) - 1
  BY <1>1, LenProperties
<1>3. PICK n \in 1 .. Len(q) : q[n] = e
  BY <1>1 DEF Range
<1>4. CASE n = 1
  BY <1>1, <1>3, <1>4 DEF Head
<1>5. CASE n # 1
  <2>1. n - 1 \in DOMAIN Tail(q) /\ Tail(q)[n - 1] = e
    BY <1>1, <1>2, <1>3, <1>5
  <2> QED
    BY <2>1 DEF Range
<1> QED
  BY <1>4, <1>5

=================================================================================
