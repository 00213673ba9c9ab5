--------------------------- MODULE SequenceLemmas ---------------------------
(***************************************************************************)
(* Facts about sequences in the form the proofs of this project use them:   *)
(* what appending, taking the head off and cutting a prefix off does to the *)
(* elements; and induction over the numbers, stated with a set so that it   *)
(* can be cited.                                                            *)
(***************************************************************************)
EXTENDS Naturals, Sequences, Functions, SequenceTheorems, WellFoundedInduction, TLAPS

\* What is left of a batch after its first n requests is again a sequence.
LEMMA RestIsSeq ==
    ASSUME NEW S, NEW s \in Seq(S), NEW n \in 1 .. Len(s)
    PROVE  /\ SubSeq(s, n + 1, Len(s)) \in Seq(S)
           /\ Len(SubSeq(s, n + 1, Len(s))) = Len(s) - n
           /\ \A i \in 1 .. Len(s) - n : SubSeq(s, n + 1, Len(s))[i] = s[n + i]
<1>1. Len(s) \in Nat
  BY LenProperties
<1>2. n + 1 \in 1 .. Len(s) + 1
  BY <1>1
<1> QED
  BY <1>1, <1>2, SubSeqProperties

\* Appending changes nothing before the end.
LEMMA AppendElems ==
    ASSUME NEW S, NEW s \in Seq(S), NEW e \in S
    PROVE  /\ Append(s, e) \in Seq(S)
           /\ Len(Append(s, e)) = Len(s) + 1
           /\ Append(s, e)[Len(s) + 1] = e
           /\ \A i \in 1 .. Len(s) : Append(s, e)[i] = s[i]
           /\ \A i \in 1 .. Len(s) + 1 : i \in 1 .. Len(s) \/ i = Len(s) + 1
<1>1. PICK n \in Nat : n = Len(s)
  BY LenProperties
<1>2. \A i \in 1 .. n + 1 : i \in 1 .. n \/ i = n + 1
  OBVIOUS
<1> QED
  BY <1>1, <1>2, AppendProperties

\* Taking the head off shifts the rest by one.
LEMMA TailElems ==
    ASSUME NEW S, NEW s \in Seq(S), s # <<>>
    PROVE  /\ 1 \in 1 .. Len(s)
           /\ Head(s) = s[1]
           /\ Head(s) \in S
           /\ Tail(s) \in Seq(S)
           /\ \A i \in 1 .. Len(Tail(s)) : i + 1 \in 1 .. Len(s) /\ Tail(s)[i] = s[i + 1]
<1>1. PICK n \in Nat : n = Len(s)
  BY LenProperties
<1>2. n # 0
  BY <1>1, EmptySeq
<1>3. 1 \in 1 .. n /\ \A i \in 1 .. n - 1 : i + 1 \in 1 .. n
  BY <1>2
<1>4. Head(s) = s[1]
  OBVIOUS
<1> QED
  BY <1>1, <1>3, <1>4, HeadTailProperties

\* The elements after an append, and after the head was taken off.
LEMMA RangeOfAppend ==
    ASSUME NEW S, NEW s \in Seq(S), NEW e \in S
    PROVE  Range(Append(s, e)) = Range(s) \cup {e}
<1>1. PICK n \in Nat : n = Len(s) /\ DOMAIN s = 1 .. n
  BY LenProperties
<1>2. DOMAIN Append(s, e) = 1 .. n + 1
  BY <1>1, AppendProperties, LenProperties
<1>3. /\ n + 1 \in 1 .. n + 1
      /\ \A i \in 1 .. n : i \in 1 .. n + 1
      /\ \A i \in 1 .. n + 1 : i \in 1 .. n \/ i = n + 1
  OBVIOUS
<1>4. /\ \A i \in 1 .. n : Append(s, e)[i] = s[i]
      /\ Append(s, e)[n + 1] = e
  BY <1>1, AppendElems
<1> QED
  BY <1>1, <1>2, <1>3, <1>4 DEF Range

LEMMA RangeOfTail ==
    ASSUME NEW S, NEW s \in Seq(S), s # <<>>
    PROVE  /\ Range(s) = Range(Tail(s)) \cup {Head(s)}
           /\ IsInjective(s) => IsInjective(Tail(s)) /\ Head(s) \notin Range(Tail(s))
<1>1. PICK n \in Nat : Len(s) = n + 1 /\ DOMAIN s = 1 .. n + 1
  <2>1. PICK m \in Nat : m = Len(s) /\ DOMAIN s = 1 .. m
    BY LenProperties
  <2>2. m # 0
    BY <2>1, EmptySeq
  <2>3. m - 1 \in Nat /\ m = (m - 1) + 1
    BY <2>2
  <2> QED
    BY <2>1, <2>3
<1>2. Len(Tail(s)) = n /\ DOMAIN Tail(s) = 1 .. n
  BY <1>1, HeadTailProperties, LenProperties
<1>3. /\ \A i \in 1 .. n : i + 1 \in 1 .. n + 1 /\ Tail(s)[i] = s[i + 1]
      /\ Head(s) = s[1]
      /\ 1 \in 1 .. n + 1
  BY <1>1, <1>2, TailElems
<1>4. \A i \in 1 .. n + 1 : i = 1 \/ \E k \in 1 .. n : i = k + 1
  <2> SUFFICES ASSUME NEW i \in 1 .. n + 1, i # 1 PROVE \E k \in 1 .. n : i = k + 1
    OBVIOUS
  <2>1. i - 1 \in 1 .. n /\ i = (i - 1) + 1
    OBVIOUS
  <2> QED
    BY <2>1
<1>5. Range(s) = Range(Tail(s)) \cup {Head(s)}
  <2>1. ASSUME NEW i \in 1 .. n + 1
        PROVE  s[i] \in Range(Tail(s)) \cup {Head(s)}
    <3>1. CASE i = 1
      BY <1>3, <3>1
    <3>2. CASE \E k \in 1 .. n : i = k + 1
      <4>1. PICK k \in 1 .. n : i = k + 1
        BY <3>2
      <4>2. Tail(s)[k] = s[i]
        BY <1>3, <4>1
      <4> QED
        BY <1>2, <4>2 DEF Range
    <3> QED
      BY <1>4, <3>1, <3>2
  <2>2. ASSUME NEW i \in 1 .. n
        PROVE  Tail(s)[i] \in Range(s)
    <3>1. i + 1 \in 1 .. n + 1 /\ Tail(s)[i] = s[i + 1]
      BY <1>3
    <3> QED
      BY <1>1, <3>1 DEF Range
  <2>3. Head(s) \in Range(s)
    BY <1>1, <1>3 DEF Range
  <2>4. /\ \A x \in Range(s) : x \in Range(Tail(s)) \cup {Head(s)}
        /\ \A x \in Range(Tail(s)) : x \in Range(s)
    BY <1>1, <1>2, <2>1, <2>2 DEF Range
  <2> QED
    BY <2>3, <2>4
<1>6. ASSUME IsInjective(s)
      PROVE  IsInjective(Tail(s)) /\ Head(s) \notin Range(Tail(s))
  <2>1. \A i, k \in 1 .. n + 1 : s[i] = s[k] => i = k
    BY <1>1, <1>6 DEF IsInjective
  <2>2. ASSUME NEW i \in 1 .. n, NEW k \in 1 .. n, Tail(s)[i] = Tail(s)[k]
        PROVE  i = k
    <3>1. i + 1 \in 1 .. n + 1 /\ k + 1 \in 1 .. n + 1 /\ s[i + 1] = s[k + 1]
      BY <1>3, <2>2
    <3>2. i + 1 = k + 1
      BY <2>1, <3>1
    <3> QED
      BY <3>2
  <2>3. ASSUME NEW i \in 1 .. n
        PROVE  Tail(s)[i] # Head(s)
    <3>1. i + 1 # 1 /\ i + 1 \in 1 .. n + 1 /\ 1 \in 1 .. n + 1
      OBVIOUS
    <3>2. s[i + 1] # s[1]
      BY <2>1, <3>1
    <3> QED
      BY <1>3, <3>2
  <2>4. IsInjective(Tail(s))
    BY <1>2, <2>2 DEF IsInjective
  <2>5. Head(s) \notin Range(Tail(s))
    BY <1>2, <2>3 DEF Range
  <2> QED
    BY <2>4, <2>5
<1> QED
  BY <1>5, <1>6

LEMMA AppendInjects ==
    ASSUME NEW S, NEW s \in Seq(S), NEW e \in S, e \notin Range(s), IsInjective(s)
    PROVE  IsInjective(Append(s, e))
<1>1. PICK n \in Nat : n = Len(s) /\ DOMAIN s = 1 .. n
  BY LenProperties
<1>2. DOMAIN Append(s, e) = 1 .. n + 1
  BY <1>1, AppendProperties, LenProperties
<1>3. \A i \in 1 .. n + 1 : i \in 1 .. n \/ i = n + 1
  OBVIOUS
<1>4. /\ \A i \in 1 .. n : Append(s, e)[i] = s[i] /\ s[i] # e
      /\ Append(s, e)[n + 1] = e
      /\ \A i, k \in 1 .. n : s[i] = s[k] => i = k
  BY <1>1, AppendElems DEF Range, IsInjective
<1> QED
  BY <1>2, <1>3, <1>4 DEF IsInjective

LEMMA RangeOfConcat ==
    ASSUME NEW S, NEW s \in Seq(S), NEW t \in Seq(S)
    PROVE  Range(s \o t) = Range(s) \cup Range(t)
<1>1. PICK m \in Nat : m = Len(s) /\ DOMAIN s = 1 .. m
  BY LenProperties
<1>2. PICK n \in Nat : n = Len(t) /\ DOMAIN t = 1 .. n
  BY LenProperties
<1>3. /\ s \o t \in Seq(S) /\ Len(s \o t) = m + n
      /\ \A i \in 1 .. m + n : (s \o t)[i] = IF i <= m THEN s[i] ELSE t[i - m]
  BY <1>1, <1>2, ConcatProperties
<1>4. DOMAIN (s \o t) = 1 .. m + n
  BY <1>3, LenProperties
<1>5. /\ \A i \in 1 .. m : i \in 1 .. m + n /\ i <= m
      /\ \A i \in 1 .. n : m + i \in 1 .. m + n /\ ~(m + i <= m) /\ m + i - m = i
      /\ \A i \in 1 .. m + n : i \in 1 .. m \/ (~(i <= m) /\ i - m \in 1 .. n)
  OBVIOUS
<1>6. Range(s) \cup Range(t) \subseteq Range(s \o t)
  <2>1. ASSUME NEW i \in 1 .. m PROVE s[i] \in Range(s \o t)
    <3>1. s[i] = (s \o t)[i]
      BY <1>3, <1>5
    <3> QED
      BY <1>4, <1>5, <3>1 DEF Range
  <2>2. ASSUME NEW i \in 1 .. n PROVE t[i] \in Range(s \o t)
    <3>1. t[i] = (s \o t)[m + i]
      BY <1>3, <1>5
    <3> QED
      BY <1>4, <1>5, <3>1 DEF Range
  <2> QED
    BY <1>1, <1>2, <2>1, <2>2 DEF Range
<1>7. Range(s \o t) \subseteq Range(s) \cup Range(t)
  <2>1. ASSUME NEW i \in 1 .. m + n
        PROVE  (s \o t)[i] \in Range(s) \cup Range(t)
    <3>1. CASE i \in 1 .. m
      <4>1. (s \o t)[i] = s[i] /\ i \in DOMAIN s
        BY <1>1, <1>2, <1>3, <3>1
      <4> QED
        BY <4>1 DEF Range
    <3>2. CASE ~(i <= m) /\ i - m \in 1 .. n
      <4>1. (s \o t)[i] = t[i - m] /\ i - m \in DOMAIN t
        BY <1>1, <1>2, <1>3, <3>2
      <4> QED
        BY <4>1 DEF Range
    <3> QED
      BY <1>5, <3>1, <3>2
  <2> QED
    BY <1>4, <2>1 DEF Range
<1> QED
  BY <1>6, <1>7

\* Appending to, taking the head off and cutting a prefix off, when the
\* sequence is one part of a longer one.
LEMMA AppendToConcat ==
    ASSUME NEW S, NEW s \in Seq(S), NEW t \in Seq(S), NEW e \in S
    PROVE  s \o Append(t, e) = Append(s \o t, e)
<1>1. <<e>> \in Seq(S) /\ s \o t \in Seq(S)
  BY ConcatProperties
<1> QED
  BY <1>1, AppendIsConcat, ConcatAssociative

LEMMA MoveHead ==
    ASSUME NEW S, NEW s \in Seq(S), NEW t \in Seq(S), t # <<>>
    PROVE  Append(s, Head(t)) \o Tail(t) = s \o t
<1>1. Head(t) \in S /\ Tail(t) \in Seq(S)
  BY HeadTailProperties
<1>2. t = <<Head(t)>> \o Tail(t)
  <2>1. 1 \in 1 .. Len(t) /\ Head(t) = t[1]
    BY TailElems
  <2>2. Len(t) \in 1 .. Len(t)
    BY <2>1, LenProperties
  <2>3. SubSeq(t, 1, Len(t)) = <<t[1]>> \o SubSeq(t, 1 + 1, Len(t))
    BY <2>1, <2>2, SubSeqRecursiveFirst
  <2> QED
    BY <2>1, <2>3, SubSeqFull, TailIsSubSeq
<1>3. <<Head(t)>> \in Seq(S)
  BY <1>1
<1>4. Append(s, Head(t)) = s \o <<Head(t)>>
  BY <1>1, AppendIsConcat
<1>5. (s \o <<Head(t)>>) \o Tail(t) = s \o (<<Head(t)>> \o Tail(t))
  BY <1>1, <1>3, ConcatAssociative
<1> QED
  BY <1>2, <1>4, <1>5

LEMMA CutConcat ==
    ASSUME NEW S, NEW s \in Seq(S), NEW t \in Seq(S), NEW n \in 1 .. Len(s)
    PROVE  /\ n \in 1 .. Len(s \o t)
           /\ SubSeq(s, n + 1, Len(s)) \o t = SubSeq(s \o t, n + 1, Len(s \o t))
<1>1. PICK m \in Nat : m = Len(s)
  BY LenProperties
<1>2. PICK k \in Nat : k = Len(t)
  BY LenProperties
<1> DEFINE rest == SubSeq(s, n + 1, Len(s))
<1> DEFINE cut == SubSeq(s \o t, n + 1, Len(s \o t))
<1>3. /\ rest \in Seq(S) /\ Len(rest) = m - n
      /\ \A i \in 1 .. m - n : rest[i] = s[n + i]
  BY <1>1, RestIsSeq
<1>4. /\ s \o t \in Seq(S) /\ Len(s \o t) = m + k
      /\ \A i \in 1 .. m + k : (s \o t)[i] = IF i <= m THEN s[i] ELSE t[i - m]
  BY <1>1, <1>2, ConcatProperties
<1>5. n \in 1 .. Len(s \o t)
  BY <1>1, <1>4
<1>6. /\ cut \in Seq(S) /\ Len(cut) = m + k - n
      /\ \A i \in 1 .. m + k - n : cut[i] = (s \o t)[n + i]
  BY <1>4, <1>5, RestIsSeq
<1> HIDE DEF rest, cut
<1>7. /\ rest \o t \in Seq(S) /\ Len(rest \o t) = m - n + k
      /\ \A i \in 1 .. m - n + k : (rest \o t)[i] = IF i <= m - n THEN rest[i] ELSE t[i - (m - n)]
  <2>1. /\ rest \o t \in Seq(S) /\ Len(rest \o t) = Len(rest) + Len(t)
        /\ \A i \in 1 .. Len(rest) + Len(t) :
              (rest \o t)[i] = IF i <= Len(rest) THEN rest[i] ELSE t[i - Len(rest)]
    BY <1>3, ConcatProperties
  <2> QED
    BY <1>2, <1>3, <2>1
<1>8. ASSUME NEW i \in 1 .. m + k - n
      PROVE  (rest \o t)[i] = cut[i]
  <2>1. n + i \in 1 .. m + k /\ i \in 1 .. m - n + k
    BY <1>1
  <2>2. CASE i <= m - n
    <3>1. n + i <= m /\ i \in 1 .. m - n
      BY <1>1, <2>2
    <3> QED
      BY <1>3, <1>4, <1>6, <1>7, <2>1, <2>2, <3>1
  <2>3. CASE ~(i <= m - n)
    <3>1. ~(n + i <= m) /\ i - (m - n) = n + i - m
      BY <1>1, <2>3
    <3>2. PICK j \in Int : j = i - (m - n) /\ j = n + i - m
      BY <1>1, <3>1
    <3>3. (rest \o t)[i] = t[j]
      BY <1>7, <2>1, <2>3, <3>2
    <3>4. cut[i] = t[j]
      <4>1. PICK q \in 1 .. m + k : q = n + i
        BY <2>1
      <4>2. (s \o t)[q] = t[q - m]
        BY <1>4, <3>1, <4>1
      <4>3. cut[i] = (s \o t)[q]
        BY <1>6, <4>1
      <4>4. q - m = j
        BY <3>2, <4>1
      <4> QED
        BY <4>2, <4>3, <4>4
    <3> QED
      BY <3>3, <3>4
  <2> QED
    BY <2>2, <2>3
<1>9. Len(rest \o t) = Len(cut) /\ Len(cut) = m + k - n
  BY <1>1, <1>6, <1>7
<1>10. rest \o t = cut
  BY <1>6, <1>7, <1>8, <1>9, SeqEqual
<1> QED
  BY <1>5, <1>10 DEF rest, cut

\* A number less than another is below it in the order of the naturals.
LEMMA LessIsBelow ==
    ASSUME NEW x \in Nat, NEW y \in Nat, y < x
    PROVE  <<y, x>> \in OpToRel(<, Nat)
BY DEF OpToRel

\* Induction: a set with 0 and the successor of each of its numbers has them all.
LEMMA NatSetInduction ==
    ASSUME NEW S, 0 \in S, \A n \in Nat : n \in S => n + 1 \in S
    PROVE  Nat \subseteq S
<1> DEFINE T == Nat \ S
<1> SUFFICES ASSUME T # {} PROVE FALSE
  OBVIOUS
<1>1. PICK x \in T : \A y \in T : ~ (<<y, x>> \in OpToRel(<, Nat))
  <2>1. T \subseteq Nat
    OBVIOUS
  <2> HIDE DEF T
  <2> QED
    BY <2>1, NatLessThanWellFounded, WFMin
<1>2. x # 0 /\ x - 1 \in Nat /\ x - 1 < x
  OBVIOUS
<1>3. x - 1 \notin T
  BY <1>1, <1>2, LessIsBelow
<1> QED
  BY <1>2, <1>3
=============================================================================
