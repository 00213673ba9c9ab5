-------------------------- MODULE Batching_proofs ---------------------------
(***************************************************************************)
(* Proofs about the two decisions of batching.rs that BatcherManager leaves *)
(* open.  PlanInvocations: into which parts a batch is cut, for batches of  *)
(* any length and sizes and for every payload limit.  BatchWindow: when it  *)
(* is flushed, for all operations, intervals, windows, curves and any       *)
(* lateness; a batch is never held, no batch is flushed early, a busy task  *)
(* does not end, a quiet one does, the sampler keeps pace and forgets.      *)
(***************************************************************************)
EXTENDS PlanInvocations, BatchWindow, SequenceLemmas, FiniteSetTheorems

-----------------------------------------------------------------------------
(* PlanInvocations.                                                         *)

PlanTypes ==
    /\ batch \in Batches
    /\ todo \in Seq(Part)
    /\ plans \in Seq(Plan)

\* The part at j starts at least j - i items after the part at i.  PartsCutBatch
\* implies it, by an induction this form makes unnecessary.
Spread == \A i, j \in 1 .. NumParts : i <= j => Parts[j].first - Parts[i].first >= j - i

CutInv == PlanTypes /\ PartsCutBatch /\ Spread

PlanInv == CutInv /\ SendersFollowItems

LEMMA PartTypes ==
    ASSUME PlanTypes
    PROVE  /\ Len(batch) \in Nat /\ Len(plans) \in Nat /\ Len(todo) \in Nat
           /\ NumParts \in Nat
           /\ \A i \in 1 .. NumParts : Parts[i] \in Part
<1>1. Len(batch) \in Nat /\ Len(plans) \in Nat /\ Len(todo) \in Nat
  BY BatchesAssumption, LenProperties DEF PlanTypes
<1>2. NumParts \in Nat
  BY <1>1 DEF NumParts
<1>3. ASSUME NEW i \in 1 .. NumParts PROVE Parts[i] \in Part
  <2>1. CASE i <= Len(plans)
    <3>1. i \in 1 .. Len(plans)
      BY <1>1, <2>1 DEF NumParts
    <3>2. plans[i] \in Plan
      BY <3>1, ElementOfSeq DEF PlanTypes
    <3> QED
      BY <2>1, <3>2 DEF Parts, Plan
  <2>2. CASE ~(i <= Len(plans))
    <3>1. i - Len(plans) \in 1 .. Len(todo)
      BY <1>1, <2>2 DEF NumParts
    <3>2. todo[i - Len(plans)] \in Part
      BY <3>1, ElementOfSeq DEF PlanTypes
    <3> QED
      BY <2>2, <3>2 DEF Parts
  <2> QED
    BY <2>1, <2>2
<1> QED
  BY <1>1, <1>2, <1>3

\* The part that is planned next, and its place among the parts.
LEMMA NextPart ==
    ASSUME PlanTypes, todo # <<>>
    PROVE  /\ Len(plans) + 1 \in 1 .. NumParts
           /\ Parts[Len(plans) + 1] = todo[1]
           /\ todo[1] \in Part
<1>1. PICK m \in Nat : m = Len(plans)
  BY PartTypes
<1>2. 1 \in 1 .. Len(todo) /\ todo[1] \in Part
  BY TailElems DEF PlanTypes
<1>3. m + 1 \in 1 .. NumParts
  BY <1>1, <1>2, PartTypes DEF NumParts
<1>4. Parts[m + 1] = todo[(m + 1) - m]
  BY <1>1, <1>3 DEF Parts
<1>5. (m + 1) - m = 1
  BY <1>1
<1> QED
  BY <1>1, <1>2, <1>3, <1>4, <1>5

\* A plan takes its part from todo and leaves the cut of the batch as it is.
LEMMA MakePlanParts ==
    ASSUME PlanTypes, todo # <<>>, NEW kind \in {"Invoke", "Fail"}, MakePlan(kind)
    PROVE  /\ PlanTypes'
           /\ NumParts' = NumParts
           /\ Parts' = Parts
<1> DEFINE plan == [kind |-> kind, part |-> todo[1]]
<1>1. PICK m \in Nat, k \in Nat : m = Len(plans) /\ k = Len(todo)
  BY PartTypes
<1>2. plan \in Plan
  BY NextPart DEF Plan
<1>3. /\ plans' \in Seq(Plan)
      /\ Len(plans') = m + 1
      /\ plans'[m + 1] = plan
      /\ \A i \in 1 .. m : plans'[i] = plans[i]
  BY <1>1, <1>2, AppendElems DEF PlanTypes, MakePlan
<1>4. /\ todo' \in Seq(Part)
      /\ \A i \in 1 .. Len(todo') : todo'[i] = todo[i + 1]
  BY TailElems DEF PlanTypes, MakePlan
<1>5. Len(todo') = k - 1 /\ k >= 1
  BY <1>1, HeadTailProperties, EmptySeq DEF PlanTypes, MakePlan
<1>6. PlanTypes'
  BY <1>3, <1>4 DEF PlanTypes, MakePlan
<1>7. NumParts = m + k /\ NumParts' = m + k
  BY <1>1, <1>3, <1>5 DEF NumParts
<1>8. ASSUME NEW i \in 1 .. m + k PROVE Parts'[i] = Parts[i]
  <2>1. Parts[i] = IF i <= m THEN plans[i].part ELSE todo[i - m]
    BY <1>1, <1>7 DEF Parts
  <2>2. Parts'[i] = IF i <= m + 1 THEN plans'[i].part ELSE todo'[i - (m + 1)]
    BY <1>3, <1>7 DEF Parts
  <2>3. CASE i <= m
    <3>1. i \in 1 .. m /\ i <= m + 1
      BY <2>3
    <3> QED
      BY <1>3, <2>1, <2>2, <3>1
  <2>4. CASE i = m + 1
    <3>1. ~(i <= m) /\ i - m = 1 /\ i <= m + 1
      BY <2>4
    <3> QED
      BY <1>3, <2>1, <2>2, <2>4, <3>1
  <2>5. CASE i > m + 1
    <3>1. /\ ~(i <= m) /\ ~(i <= m + 1)
          /\ i - (m + 1) \in 1 .. k - 1
          /\ (i - (m + 1)) + 1 = i - m
      BY <2>5
    <3> QED
      BY <1>4, <1>5, <2>1, <2>2, <3>1
  <2> QED
    BY <2>3, <2>4, <2>5
<1>9. Parts = [i \in 1 .. m + k |-> Parts[i]] /\ Parts' = [i \in 1 .. m + k |-> Parts'[i]]
  BY <1>7 DEF Parts
<1> QED
  BY <1>6, <1>7, <1>8, <1>9

LEMMA HalfTypes ==
    ASSUME NEW p \in Part, p.first < p.last
    PROVE  /\ Middle(p) \in Nat /\ p.first < Middle(p) /\ Middle(p) <= p.last
           /\ LeftHalf(p) \in Part /\ RightHalf(p) \in Part
           /\ LeftHalf(p).first = p.first /\ LeftHalf(p).last = Middle(p) - 1
           /\ LeftHalf(p).pending = p.pending \cap (p.first .. Middle(p) - 1)
           /\ RightHalf(p).first = Middle(p) /\ RightHalf(p).last = p.last
           /\ RightHalf(p).pending = p.pending \ (p.first .. Middle(p) - 1)
<1>1. p.first \in Nat /\ p.last \in Nat /\ p.pending \in SUBSET Nat
  BY DEF Part
<1>2. PICK n \in Nat : n = p.last - p.first + 1 /\ n >= 2
  BY <1>1
<1>3. n \div 2 \in Nat /\ n \div 2 >= 1 /\ n \div 2 <= n - 1
  BY <1>2
<1>4. Middle(p) \in Nat /\ p.first < Middle(p) /\ Middle(p) <= p.last
  BY <1>1, <1>2, <1>3 DEF Middle
<1>5. PICK f \in Nat, t \in Nat, S \in SUBSET Nat : p = [first |-> f, last |-> t, pending |-> S]
  BY DEF Part
<1>6. /\ LeftHalf(p) = [first |-> p.first, last |-> Middle(p) - 1,
                        pending |-> p.pending \cap (p.first .. Middle(p) - 1)]
      /\ RightHalf(p) = [first |-> Middle(p), last |-> p.last,
                         pending |-> p.pending \ (p.first .. Middle(p) - 1)]
  <2> SUFFICES ASSUME NEW m, m = Middle(p)
               PROVE  /\ LeftHalf(p) = [first |-> p.first, last |-> m - 1,
                                        pending |-> p.pending \cap (p.first .. m - 1)]
                      /\ RightHalf(p) = [first |-> m, last |-> p.last,
                                         pending |-> p.pending \ (p.first .. m - 1)]
    OBVIOUS
  <2>1. /\ LeftHalf(p) = [p EXCEPT !.last = m - 1, !.pending = @ \cap (p.first .. m - 1)]
        /\ RightHalf(p) = [p EXCEPT !.first = m, !.pending = @ \ (p.first .. m - 1)]
    BY DEF LeftHalf, RightHalf
  <2> QED
    BY <1>5, <2>1
<1>7. \A x, y \in Nat, X \in SUBSET Nat : [first |-> x, last |-> y, pending |-> X] \in Part
  BY DEF Part
<1>8. /\ p.pending \cap (p.first .. Middle(p) - 1) \in SUBSET Nat
      /\ p.pending \ (p.first .. Middle(p) - 1) \in SUBSET Nat
  BY <1>1
<1>9. Middle(p) - 1 \in Nat
  BY <1>1, <1>4
<1>10. LeftHalf(p) \in Part
  BY <1>1, <1>6, <1>7, <1>8, <1>9
<1>11. RightHalf(p) \in Part
  BY <1>1, <1>4, <1>6, <1>7, <1>8
<1> QED
  BY <1>4, <1>6, <1>10, <1>11

\* A split puts two halves in the place of the part it takes.
LEMMA SplitPartParts ==
    ASSUME PlanTypes, SplitPart
    PROVE  /\ PlanTypes'
           /\ NumParts' = NumParts + 1
           /\ todo[1].first < todo[1].last
           /\ \A i \in 1 .. NumParts + 1 :
                Parts'[i] = IF i < Len(plans) + 1 THEN Parts[i]
                            ELSE IF i = Len(plans) + 1 THEN LeftHalf(todo[1])
                            ELSE IF i = Len(plans) + 2 THEN RightHalf(todo[1])
                            ELSE Parts[i - 1]
<1> SUFFICES
      ASSUME NEW l, l = LeftHalf(todo[1]), NEW r, r = RightHalf(todo[1]),
             NEW at, at = Len(plans) + 1
      PROVE  /\ PlanTypes'
             /\ NumParts' = NumParts + 1
             /\ todo[1].first < todo[1].last
             /\ \A i \in 1 .. NumParts + 1 :
                  Parts'[i] = IF i < at THEN Parts[i]
                              ELSE IF i = at THEN l
                              ELSE IF i = at + 1 THEN r
                              ELSE Parts[i - 1]
  <2>1. Len(plans) + 1 + 1 = Len(plans) + 2
    BY PartTypes
  <2> QED
    BY <2>1
<1>1. PICK m \in Nat, k \in Nat : m = Len(plans) /\ k = Len(todo)
  BY PartTypes
<1>2. todo # <<>> /\ todo[1] \in Part
  BY NextPart DEF SplitPart
<1>3. todo[1].first < todo[1].last
  BY <1>2 DEF SplitPart, IsSingle, Part
<1>6. l \in Part /\ r \in Part
  BY <1>2, <1>3, HalfTypes
<1>7. /\ Tail(todo) \in Seq(Part)
      /\ \A i \in 1 .. Len(Tail(todo)) : Tail(todo)[i] = todo[i + 1]
      /\ Len(Tail(todo)) = k - 1 /\ k >= 1
  BY <1>1, <1>2, TailElems, HeadTailProperties, EmptySeq DEF PlanTypes
<1>8. todo' = <<l, r>> \o Tail(todo) /\ plans' = plans /\ batch' = batch
  BY DEF SplitPart
<1>9. <<l, r>> \in Seq(Part) /\ Len(<<l, r>>) = 2
  BY <1>6
<1>10. /\ todo' \in Seq(Part)
       /\ Len(todo') = k + 1
       /\ todo'[1] = l /\ todo'[2] = r
       /\ \A i \in 3 .. k + 1 : todo'[i] = todo[i - 1]
  <2>1. /\ todo' \in Seq(Part)
        /\ Len(todo') = k + 1
    BY <1>7, <1>8, <1>9, ConcatProperties
  <2>2. \A i \in 1 .. k + 1 : todo'[i] = IF i <= 2 THEN <<l, r>>[i] ELSE Tail(todo)[i - 2]
    BY <1>7, <1>8, <1>9, ConcatProperties
  <2>3. ASSUME NEW i \in 3 .. k + 1 PROVE todo'[i] = todo[i - 1]
    <3>1. ~(i <= 2) /\ i - 2 \in 1 .. k - 1 /\ (i - 2) + 1 = i - 1 /\ i \in 1 .. k + 1
      OBVIOUS
    <3> QED
      BY <1>7, <2>2, <3>1
  <2>4. todo'[1] = l /\ todo'[2] = r
    <3>1. 1 \in 1 .. k + 1 /\ 2 \in 1 .. k + 1
      BY <1>7
    <3> QED
      BY <2>2, <3>1
  <2> QED
    BY <2>1, <2>3, <2>4
<1>11. PlanTypes'
  BY <1>8, <1>10 DEF PlanTypes
<1>12. NumParts = m + k /\ NumParts' = m + k + 1
  BY <1>1, <1>8, <1>10 DEF NumParts
<1>13. ASSUME NEW i \in 1 .. m + k + 1
       PROVE  Parts'[i] = IF i < at THEN Parts[i] ELSE IF i = at THEN l
                          ELSE IF i = at + 1 THEN r ELSE Parts[i - 1]
  <2>1. Parts'[i] = IF i <= m THEN plans[i].part ELSE todo'[i - m]
    BY <1>1, <1>8, <1>12 DEF Parts
  <2>2. CASE i < at
    <3>1. i <= m /\ i \in 1 .. m + k
      BY <1>1, <2>2
    <3>2. Parts[i] = plans[i].part
      BY <1>1, <1>12, <3>1 DEF Parts
    <3> QED
      BY <2>1, <2>2, <3>1, <3>2
  <2>3. CASE i = at
    <3>1. ~(i <= m) /\ i - m = 1 /\ ~(i < at)
      BY <1>1, <2>3
    <3> QED
      BY <1>10, <2>1, <2>3, <3>1
  <2>4. CASE i = at + 1
    <3>1. ~(i <= m) /\ i - m = 2 /\ ~(i < at) /\ i # at
      BY <1>1, <2>4
    <3> QED
      BY <1>10, <2>1, <2>4, <3>1
  <2>5. CASE i > at + 1
    <3>1. /\ ~(i <= m) /\ i - m \in 3 .. k + 1
          /\ ~(i < at) /\ i # at /\ i # at + 1
          /\ i - 1 \in 1 .. m + k /\ ~(i - 1 <= m) /\ (i - 1) - m = (i - m) - 1
      BY <1>1, <2>5
    <3>2. Parts[i - 1] = todo[(i - 1) - m]
      BY <1>1, <1>12, <3>1 DEF Parts
    <3> QED
      BY <1>10, <2>1, <3>1, <3>2
  <2>6. i < at \/ i = at \/ i = at + 1 \/ i > at + 1
    BY <1>1
  <2> QED
    BY <2>2, <2>3, <2>4, <2>5, <2>6
<1> QED
  BY <1>3, <1>11, <1>12, <1>13

LEMMA InitPlan == PInit => PlanInv
<1> SUFFICES ASSUME PInit PROVE PlanInv
  OBVIOUS
<1> DEFINE p == [first |-> 1, last |-> Len(batch), pending |-> 1 .. Len(batch)]
<1>1. batch \in Seq(Nat) /\ batch # <<>>
  BY BatchesAssumption DEF PInit
<1>2. PICK n \in Nat : n = Len(batch) /\ n >= 1
  BY <1>1, LenProperties, EmptySeq
<1>3. p \in Part
  <2>1. \A S \in SUBSET Nat : [first |-> 1, last |-> n, pending |-> S] \in Part
    BY DEF Part
  <2>2. 1 .. n \in SUBSET Nat
    OBVIOUS
  <2> QED
    BY <1>2, <2>1, <2>2
<1>4. todo = <<p>> /\ plans = <<>>
  BY DEF PInit
<1> HIDE DEF p
<1>5. PlanTypes
  BY <1>3, <1>4 DEF PlanTypes, PInit
<1>6. NumParts = 1
  BY <1>4 DEF NumParts
<1>7. Parts[1] = p
  BY <1>4, <1>6 DEF Parts
<1>8. p.first = 1 /\ p.last = n /\ p.pending = 1 .. n
  BY <1>2 DEF p
<1>9. PartsCutBatch
  BY <1>2, <1>6, <1>7, <1>8 DEF PartsCutBatch
<1>10. Spread
  BY <1>6, <1>7, <1>8 DEF Spread
<1>11. SendersFollowItems
  BY <1>6, <1>7, <1>8 DEF SendersFollowItems, Items
<1> QED
  BY <1>5, <1>9, <1>10, <1>11 DEF PlanInv, CutInv

LEMMA MakePlanKeeps ==
    ASSUME PlanInv, todo # <<>>, NEW kind \in {"Invoke", "Fail"}, MakePlan(kind)
    PROVE  PlanInv'
<1>1. PlanTypes' /\ NumParts' = NumParts /\ Parts' = Parts /\ batch' = batch
  BY MakePlanParts DEF PlanInv, CutInv, MakePlan
<1> QED
  BY <1>1 DEF PlanInv, CutInv, PartsCutBatch, Spread, SendersFollowItems, Items

\* The same of the first items alone: F before and G after the split at x.
LEMMA SpreadAfterSplit ==
    ASSUME NEW N \in Nat, NEW x \in 1 .. N, NEW mid \in Nat,
           NEW F \in [1 .. N -> Nat], NEW G \in [1 .. N + 1 -> Nat],
           F[x] < mid, x < N => mid < F[x + 1],
           \A i, j \in 1 .. N : i <= j => F[j] - F[i] >= j - i,
           \A i \in 1 .. N + 1 : G[i] = IF i <= x THEN F[i]
                                        ELSE IF i = x + 1 THEN mid ELSE F[i - 1]
    PROVE  \A i, j \in 1 .. N + 1 : i <= j => G[j] - G[i] >= j - i
<1>1. ASSUME NEW j \in 1 .. N, j > x
      PROVE  F[j] >= mid + (j - x)
  <2>1. x + 1 \in 1 .. N /\ x + 1 <= j /\ x < N
    BY <1>1
  <2>2. F[j] - F[x + 1] >= j - (x + 1)
    BY <2>1
  <2>3. F[j] \in Nat /\ F[x + 1] \in Nat
    BY <2>1
  <2> QED
    BY <2>1, <2>2, <2>3
<1>2. ASSUME NEW i \in 1 .. N, i <= x
      PROVE  mid - F[i] >= x + 1 - i
  <2>1. F[x] - F[i] >= x - i
    BY <1>2
  <2>2. F[x] \in Nat /\ F[i] \in Nat
    OBVIOUS
  <2> QED
    BY <2>1, <2>2
<1>3. ASSUME NEW i \in 1 .. N + 1, NEW j \in 1 .. N + 1, i <= j
      PROVE  G[j] - G[i] >= j - i
  <2>0. /\ i \in Nat /\ i >= 1 /\ i <= N + 1
        /\ j \in Nat /\ j >= 1 /\ j <= N + 1
        /\ x \in Nat /\ x >= 1 /\ x <= N
    OBVIOUS
  <2>1. CASE j <= x
    <3>1. i \in 1 .. N /\ j \in 1 .. N /\ G[i] = F[i] /\ G[j] = F[j]
      BY <1>3, <2>1
    <3> QED
      BY <1>3, <3>1
  <2>2. CASE i <= x /\ j = x + 1
    <3>1. i \in 1 .. N /\ G[i] = F[i] /\ G[j] = mid
      BY <2>2
    <3> QED
      BY <1>2, <2>2, <3>1
  <2>3. CASE i <= x /\ j > x + 1
    <3>1. /\ i \in 1 .. N /\ j - 1 \in 1 .. N /\ j - 1 > x
          /\ G[i] = F[i] /\ G[j] = F[j - 1]
      <4>1. i \in 1 .. N /\ j - 1 \in 1 .. N /\ j - 1 > x /\ ~(j <= x) /\ j # x + 1
        BY <2>0, <2>3
      <4> QED
        BY <2>3, <4>1
    <3>2. mid - F[i] >= x + 1 - i /\ F[j - 1] >= mid + (j - 1 - x)
      BY <1>1, <1>2, <2>3, <3>1
    <3>3. PICK f \in Nat, g \in Nat : f = F[i] /\ g = F[j - 1]
      BY <3>1
    <3>4. mid - f >= x + 1 - i /\ g >= mid + (j - 1 - x)
      BY <3>2, <3>3
    <3>5. g - f >= j - i
      BY <2>0, <3>4
    <3> QED
      BY <3>1, <3>3, <3>5
  <2>4. CASE i = x + 1 /\ j = x + 1
    BY <2>4
  <2>5. CASE i = x + 1 /\ j > x + 1
    <3>1. j - 1 \in 1 .. N /\ j - 1 > x /\ G[i] = mid /\ G[j] = F[j - 1]
      BY <2>5
    <3>2. F[j - 1] >= mid + (j - 1 - x) /\ F[j - 1] \in Nat
      BY <1>1, <3>1
    <3> QED
      BY <2>5, <3>1, <3>2
  <2>6. CASE i > x + 1
    <3>1. /\ i - 1 \in 1 .. N /\ j - 1 \in 1 .. N /\ i - 1 <= j - 1
          /\ G[i] = F[i - 1] /\ G[j] = F[j - 1]
      <4>1. /\ i - 1 \in 1 .. N /\ j - 1 \in 1 .. N /\ i - 1 <= j - 1
            /\ ~(i <= x) /\ i # x + 1 /\ ~(j <= x) /\ j # x + 1
        BY <1>3, <2>0, <2>6
      <4> QED
        BY <4>1
    <3>2. F[j - 1] - F[i - 1] >= (j - 1) - (i - 1)
      BY <3>1
    <3> QED
      BY <3>1, <3>2
  <2>7. \/ j <= x
        \/ i <= x /\ j = x + 1
        \/ i <= x /\ j > x + 1
        \/ i = x + 1 /\ j = x + 1
        \/ i = x + 1 /\ j > x + 1
        \/ i > x + 1
    BY <1>3, <2>0
  <2> QED
    BY <2>1, <2>2, <2>3, <2>4, <2>5, <2>6, <2>7
<1> QED
  BY <1>3

LEMMA SplitKeeps ==
    ASSUME PlanInv, SplitPart
    PROVE  PlanInv'
<1> SUFFICES
      ASSUME NEW p, p = todo[1], NEW l, l = LeftHalf(p), NEW r, r = RightHalf(p),
             NEW mid, mid = Middle(p), NEW Q, Q = Parts'
      PROVE  PlanInv'
  OBVIOUS
<1>1. /\ PlanTypes /\ PartsCutBatch /\ Spread /\ SendersFollowItems
      /\ todo # <<>> /\ batch' = batch
  BY DEF PlanInv, CutInv, SplitPart
<1>2. PICK N \in Nat, at \in Nat : N = NumParts /\ at = Len(plans) + 1 /\ at \in 1 .. N
  BY <1>1, PartTypes, NextPart
<1>3. p = Parts[at] /\ p \in Part
  BY <1>1, <1>2, NextPart
<1>4. p.first <= p.last /\ p.pending = p.first .. p.last
  BY <1>1, <1>2, <1>3 DEF PartsCutBatch, SendersFollowItems, Items
<1>5. /\ PlanTypes'
      /\ NumParts' = N + 1
      /\ p.first < p.last
      /\ \A i \in 1 .. N + 1 :
           Q[i] = IF i < at THEN Parts[i]
                  ELSE IF i = at THEN l
                  ELSE IF i = at + 1 THEN r
                  ELSE Parts[i - 1]
  <2>1. Len(plans) + 2 = at + 1
    BY <1>2
  <2> QED
    BY <1>1, <1>2, <2>1, SplitPartParts
<1>6. /\ p.first \in Nat /\ p.last \in Nat /\ mid \in Nat
      /\ p.first < mid /\ mid <= p.last
      /\ l \in Part /\ r \in Part
      /\ l.first = p.first /\ l.last = mid - 1
      /\ l.pending = p.pending \cap (p.first .. mid - 1)
      /\ r.first = mid /\ r.last = p.last
      /\ r.pending = p.pending \ (p.first .. mid - 1)
  BY <1>3, <1>5, HalfTypes DEF Part
<1>7. /\ l.pending = Items(l) /\ r.pending = Items(r)
      /\ l.first <= l.last /\ r.first <= r.last
  BY <1>4, <1>6 DEF Items
<1>8. \A i \in 1 .. N : Parts[i].first \in Nat /\ Parts[i].last \in Nat
  BY <1>1, <1>2, PartTypes DEF Part
<1>9. ASSUME NEW i \in 1 .. N + 1
      PROVE  \/ i < at /\ i \in 1 .. N /\ Q[i] = Parts[i]
             \/ i = at /\ Q[i] = l
             \/ i = at + 1 /\ Q[i] = r
             \/ i > at + 1 /\ i - 1 \in 1 .. N /\ i - 1 > at /\ Q[i] = Parts[i - 1]
  <2>1. i \in Nat /\ i >= 1 /\ i <= N + 1 /\ at <= N /\ at >= 1
    BY <1>2
  <2>2. CASE i < at
    BY <1>5, <2>1, <2>2
  <2>3. CASE i = at
    BY <1>5, <2>1, <2>3
  <2>4. CASE i = at + 1
    BY <1>5, <2>1, <2>4
  <2>5. CASE i > at + 1
    <3>1. ~(i < at) /\ i # at /\ i # at + 1 /\ i - 1 \in 1 .. N /\ i - 1 > at
      BY <1>2, <2>1, <2>5
    <3> QED
      BY <1>5, <2>5, <3>1
  <2> QED
    BY <1>2, <2>1, <2>2, <2>3, <2>4, <2>5
<1>10. SendersFollowItems'
  <2>1. ASSUME NEW i \in 1 .. N + 1 PROVE Q[i].pending = Items(Q[i])
    BY <1>1, <1>2, <1>7, <1>9 DEF SendersFollowItems
  <2> QED
    BY <1>5, <2>1 DEF SendersFollowItems, Items
<1>11. Spread'
  <2> DEFINE F == [i \in 1 .. N |-> Parts[i].first]
             G == [i \in 1 .. N + 1 |-> Q[i].first]
  <2>1. F \in [1 .. N -> Nat] /\ G \in [1 .. N + 1 -> Nat]
    <3>1. \A i \in 1 .. N + 1 : Q[i].first \in Nat
      BY <1>2, <1>5, <1>6, <1>8, <1>9
    <3> QED
      BY <1>8, <3>1
  <2>2. F[at] = p.first /\ F[at] < mid
    BY <1>2, <1>3, <1>6
  <2>3. at < N => mid < F[at + 1]
    <3> SUFFICES ASSUME at < N PROVE mid < F[at + 1]
      OBVIOUS
    <3>1. at \in 1 .. N - 1 /\ at + 1 \in 1 .. N
      BY <1>2
    <3>2. Parts[at + 1].first = p.last + 1
      BY <1>1, <1>2, <1>3, <3>1 DEF PartsCutBatch
    <3> QED
      BY <1>6, <3>1, <3>2
  <2>4. \A i, j \in 1 .. N : i <= j => F[j] - F[i] >= j - i
    BY <1>1, <1>2 DEF Spread
  <2>5. \A i \in 1 .. N + 1 : G[i] = IF i <= at THEN F[i]
                                     ELSE IF i = at + 1 THEN mid ELSE F[i - 1]
    BY <1>2, <1>6, <1>9, <2>2
  <2> HIDE DEF F, G
  <2>6. \A i, j \in 1 .. N + 1 : i <= j => G[j] - G[i] >= j - i
    <3>1. N \in Nat /\ at \in 1 .. N /\ mid \in Nat /\ F[at] < mid
      BY <1>2, <1>6, <2>2
    <3> QED
      BY <2>1, <2>3, <2>4, <2>5, <3>1, SpreadAfterSplit
  <2> USE DEF G
  <2>7. \A i, j \in 1 .. N + 1 : i <= j => Q[j].first - Q[i].first >= j - i
    BY <2>6
  <2> QED
    BY <1>5, <2>7 DEF Spread
<1>12. PartsCutBatch'
  <2>1. Q[1].first = 1
    BY <1>1, <1>2, <1>3, <1>5, <1>6, <1>9 DEF PartsCutBatch
  <2>2. Q[N + 1].last = Len(batch)
    <3>1. N + 1 \in 1 .. N + 1 /\ Parts[N].last = Len(batch)
      BY <1>1, <1>2 DEF PartsCutBatch
    <3>2. CASE at = N
      BY <1>3, <1>6, <1>9, <3>1, <3>2
    <3>3. CASE at < N
      <4>1. N + 1 > at + 1 /\ (N + 1) - 1 = N
        BY <1>2, <3>3
      <4> QED
        BY <1>2, <1>9, <3>1, <4>1
    <3> QED
      BY <1>2, <3>2, <3>3
  <2>3. ASSUME NEW i \in 1 .. N + 1 PROVE Q[i].first <= Q[i].last
    BY <1>1, <1>2, <1>7, <1>9 DEF PartsCutBatch
  <2>4. ASSUME NEW i \in 1 .. N PROVE Q[i + 1].first = Q[i].last + 1
    <3>1. i \in 1 .. N + 1 /\ i + 1 \in 1 .. N + 1
      BY <1>2
    <3>2. CASE i + 1 < at
      <4>1. i \in 1 .. N - 1 /\ Q[i] = Parts[i] /\ Q[i + 1] = Parts[i + 1]
        BY <1>2, <1>9, <3>1, <3>2
      <4> QED
        BY <1>1, <1>2, <4>1 DEF PartsCutBatch
    <3>3. CASE i + 1 = at
      <4>1. i \in 1 .. N - 1 /\ Q[i] = Parts[i] /\ Q[i + 1] = l /\ Parts[i + 1] = p
        BY <1>2, <1>3, <1>9, <3>1, <3>3
      <4>2. Parts[i + 1].first = Parts[i].last + 1
        BY <1>1, <1>2, <4>1 DEF PartsCutBatch
      <4> QED
        BY <1>6, <4>1, <4>2
    <3>4. CASE i = at
      <4>1. Q[i] = l /\ Q[i + 1] = r
        BY <1>2, <1>9, <3>1, <3>4
      <4> QED
        BY <1>5, <1>6, <4>1
    <3>5. CASE i = at + 1
      <4>1. /\ Q[i] = r /\ Q[i + 1] = Parts[i] /\ at \in 1 .. N - 1
            /\ Parts[at + 1] = Parts[i]
        BY <1>2, <1>9, <3>1, <3>5
      <4>2. Parts[at + 1].first = Parts[at].last + 1
        BY <1>1, <1>2, <4>1 DEF PartsCutBatch
      <4> QED
        BY <1>3, <1>6, <4>1, <4>2
    <3>6. CASE i > at + 1
      <4>1. /\ i - 1 \in 1 .. N - 1 /\ (i - 1) + 1 = i
            /\ Q[i] = Parts[i - 1] /\ Q[i + 1] = Parts[i]
        BY <1>2, <1>9, <3>1, <3>6
      <4>2. Parts[(i - 1) + 1].first = Parts[i - 1].last + 1
        BY <1>1, <1>2, <4>1 DEF PartsCutBatch
      <4> QED
        BY <4>1, <4>2
    <3> QED
      BY <1>2, <3>2, <3>3, <3>4, <3>5, <3>6
  <2> QED
    BY <1>1, <1>2, <1>5, <2>1, <2>2, <2>3, <2>4 DEF PartsCutBatch
<1> QED
  BY <1>5, <1>10, <1>11, <1>12 DEF PlanInv, CutInv

LEMMA PlanInvariant == PSpec => []PlanInv
<1>1. ASSUME PlanInv, [PNext]_pvars PROVE PlanInv'
  <2>1. CASE PlanInvoke
    BY <1>1, <2>1, MakePlanKeeps DEF PlanInvoke
  <2>2. CASE PlanFail
    BY <1>1, <2>2, MakePlanKeeps DEF PlanFail
  <2>3. CASE SplitPart
    BY <1>1, <2>3, SplitKeeps
  <2>4. CASE Planned \/ UNCHANGED pvars
    BY <1>1, <2>4 DEF Planned, pvars, PlanInv, CutInv, PlanTypes, PartsCutBatch, Spread,
                      SendersFollowItems, Parts, NumParts, Items
  <2> QED
    BY <1>1, <2>1, <2>2, <2>3, <2>4 DEF PNext
<1> QED
  BY <1>1, InitPlan, PTL DEF PSpec

-----------------------------------------------------------------------------
(***************************************************************************)
(* Type correctness, and the bound on the recursion of plan_invocations:    *)
(* there are never more parts than requests.  So it makes at most one plan  *)
(* for each request and splits less often than that.                        *)
(***************************************************************************)
THEOREM PlanType == PSpec => []PTypeOK
<1>1. PlanInv => PTypeOK
  <2> SUFFICES ASSUME PlanInv PROVE PTypeOK
    OBVIOUS
  <2>1. PlanTypes /\ PartsCutBatch /\ Spread
    BY DEF PlanInv, CutInv
  <2>2. PICK N \in Nat : N = NumParts /\ N >= 1
    BY <2>1, PartTypes DEF PartsCutBatch
  <2>3. Parts[N].first - Parts[1].first >= N - 1 /\ Parts[1].first = 1
    BY <2>1, <2>2 DEF Spread, PartsCutBatch
  <2>4. Parts[N].first <= Parts[N].last /\ Parts[N].last = Len(batch)
    BY <2>1, <2>2 DEF PartsCutBatch
  <2>5. Parts[N].first \in Nat /\ Len(batch) \in Nat
    <3>1. N \in 1 .. NumParts
      BY <2>2
    <3> QED
      BY <2>1, <3>1, PartTypes DEF Part
  <2>6. N <= Len(batch)
    BY <2>3, <2>4, <2>5
  <2> QED
    BY <2>1, <2>2, <2>6 DEF PlanTypes, PTypeOK
<1> QED
  BY <1>1, PlanInvariant, PTL

(***************************************************************************)
(* The plans of a batch of any length cut it, in order, into non-empty      *)
(* pieces: what FlushPart of BatcherManager assumes of plan_invocations.    *)
(***************************************************************************)
THEOREM PlansCutTheBatch == PSpec => []PartsCutBatch
<1>1. PlanInv => PartsCutBatch
  BY DEF PlanInv, CutInv
<1> QED
  BY <1>1, PlanInvariant, PTL

(***************************************************************************)
(* split_pending and split_off agree at every depth of the recursion: the   *)
(* response senders of a plan are those of the requests it carries.         *)
(***************************************************************************)
THEOREM SendersStayWithItems == PSpec => []SendersFollowItems
<1>1. PlanInv => SendersFollowItems
  BY DEF PlanInv
<1> QED
  BY <1>1, PlanInvariant, PTL

-----------------------------------------------------------------------------
(* The fold over the sizes of a part's items, unfolded one item at a time.  *)
(* FoldFunctionOnSet chooses its function; that there is one to choose is   *)
(* shown by induction on the size of the set.                               *)

\* The item the fold takes first.
OneOf(s) == CHOOSE x \in s : TRUE
\* One step of the sum of the sizes, or of the sum that counts the commas too.
Unfold(b, commas, f, s) ==
    IF commas
    THEN IF s = {} THEN -1 ELSE b[OneOf(s)] + f[s \ {OneOf(s)}] + 1
    ELSE IF s = {} THEN 0 ELSE b[OneOf(s)] + f[s \ {OneOf(s)}]

\* f has the sum of every set of items.
IsFold(b, commas, f, S) == f = [s \in SUBSET S |-> Unfold(b, commas, f, s)]

\* A set of items without the one that is taken first.
LEMMA SmallerSet ==
    ASSUME NEW s, IsFiniteSet(s), s # {}
    PROVE  /\ OneOf(s) \in s
           /\ IsFiniteSet(s \ {OneOf(s)})
           /\ Cardinality(s) \in Nat /\ Cardinality(s) > 0
           /\ Cardinality(s \ {OneOf(s)}) = Cardinality(s) - 1
<1>1. OneOf(s) \in s
  BY DEF OneOf
<1>2. Cardinality(s) \in Nat /\ Cardinality(s) # 0
  BY FS_CardinalityType, FS_EmptySet
<1> QED
  BY <1>1, <1>2, FS_RemoveElement

\* There is such a function, for the items of every finite set.
LEMMA FoldExists ==
    ASSUME NEW b, NEW commas \in BOOLEAN, NEW S, IsFiniteSet(S)
    PROVE  \E f : IsFold(b, commas, f, S)
<1> DEFINE Upto(n, f) == \A s \in SUBSET S : Cardinality(s) <= n => f[s] = Unfold(b, commas, f, s)
           Good == {n \in Nat : \E f : Upto(n, f)}
<1>0. \A s \in SUBSET S : IsFiniteSet(s) /\ Cardinality(s) \in Nat /\ Cardinality(s) <= Cardinality(S)
  BY FS_Subset, FS_CardinalityType
<1>1. 0 \in Good
  <2> DEFINE g == [s \in SUBSET S |-> IF commas THEN -1 ELSE 0]
  <2>1. Upto(0, g)
    <3> SUFFICES ASSUME NEW s \in SUBSET S, Cardinality(s) <= 0 PROVE g[s] = Unfold(b, commas, g, s)
      OBVIOUS
    <3>1. s = {}
      BY <1>0, FS_EmptySet
    <3> QED
      BY <3>1 DEF Unfold
  <2> HIDE DEF Upto, g
  <2> QED
    BY <2>1
<1>2. ASSUME NEW n \in Nat, n \in Good PROVE n + 1 \in Good
  <2>1. PICK f : Upto(n, f)
    BY <1>2
  <2> DEFINE g == [s \in SUBSET S |-> IF Cardinality(s) <= n THEN f[s] ELSE Unfold(b, commas, f, s)]
  <2>2. ASSUME NEW s \in SUBSET S, Cardinality(s) <= n + 1, s # {}
        PROVE  g[s \ {OneOf(s)}] = f[s \ {OneOf(s)}]
    <3>1. Cardinality(s \ {OneOf(s)}) <= n
      BY <1>0, <2>2, SmallerSet
    <3> QED
      BY <3>1
  <2>3. ASSUME NEW s \in SUBSET S, Cardinality(s) <= n + 1
        PROVE  Unfold(b, commas, g, s) = Unfold(b, commas, f, s)
    BY <2>2, <2>3 DEF Unfold
  <2>4. ASSUME NEW s \in SUBSET S
        PROVE  g[s] = Unfold(b, commas, f, s) \/ ~(Cardinality(s) <= n + 1)
    <3>1. CASE Cardinality(s) <= n
      BY <2>1, <3>1
    <3>2. CASE ~(Cardinality(s) <= n)
      BY <3>2
    <3> QED
      BY <3>1, <3>2
  <2>5. Upto(n + 1, g)
    BY <2>3, <2>4
  <2> HIDE DEF Upto, g
  <2> QED
    BY <2>5
<1> HIDE DEF Good
<1>3. Cardinality(S) \in Good
  BY <1>1, <1>2, NatSetInduction, FS_CardinalityType
<1> USE DEF Good
<1>4. PICK f : Upto(Cardinality(S), f)
  BY <1>3
<1> DEFINE g == [s \in SUBSET S |-> f[s]]
<1>5. \A s \in SUBSET S : f[s] = Unfold(b, commas, f, s)
  BY <1>0, <1>4
<1>6. \A s \in SUBSET S : Unfold(b, commas, g, s) = Unfold(b, commas, f, s)
  BY DEF Unfold
<1>7. g = [s \in SUBSET S |-> Unfold(b, commas, g, s)]
  BY <1>5, <1>6
<1> HIDE DEF g
<1> QED
  BY <1>7 DEF IsFold

\* The function that FoldFunctionOnSet chooses.
FoldOf(b, commas, S) == CHOOSE f : IsFold(b, commas, f, S)

\* The two folds of the module are values of that function.
LEMMA FoldsUnfold ==
    ASSUME NEW b, NEW S
    PROVE  /\ FoldFunctionOnSet(+, 0, b, S) = FoldOf(b, FALSE, S)[S]
           /\ FoldFunctionOnSet(LAMBDA x, y : x + y + 1, -1, b, S) = FoldOf(b, TRUE, S)[S]
BY DEF FoldFunctionOnSet, MapThenFoldSet, FoldOf, IsFold, Unfold, OneOf

\* The sizes add up to a number; with the commas it is one more per further item.
LEMMA CommasCounted ==
    ASSUME NEW S, IsFiniteSet(S), NEW b, \A i \in S : b[i] \in Nat
    PROVE  /\ FoldFunctionOnSet(+, 0, b, S) \in Nat
           /\ FoldFunctionOnSet(LAMBDA x, y : x + y + 1, -1, b, S)
                = FoldFunctionOnSet(+, 0, b, S) + Cardinality(S) - 1
<1>1. PICK g, h : /\ g = FoldOf(b, FALSE, S) /\ h = FoldOf(b, TRUE, S)
  OBVIOUS
<1>2. IsFold(b, FALSE, g, S) /\ IsFold(b, TRUE, h, S)
  BY <1>1, FoldExists DEF FoldOf
<1>3. \A s \in SUBSET S : /\ g[s] = IF s = {} THEN 0 ELSE b[OneOf(s)] + g[s \ {OneOf(s)}]
                          /\ h[s] = IF s = {} THEN -1 ELSE b[OneOf(s)] + h[s \ {OneOf(s)}] + 1
  BY <1>2 DEF IsFold, Unfold
<1> DEFINE Agree(s) == g[s] \in Nat /\ h[s] = g[s] + Cardinality(s) - 1
           Good == {n \in Nat : \A s \in SUBSET S : Cardinality(s) = n => Agree(s)}
<1>0. \A s \in SUBSET S : IsFiniteSet(s) /\ Cardinality(s) \in Nat
  BY FS_Subset, FS_CardinalityType
<1>4. 0 \in Good
  <2> SUFFICES ASSUME NEW s \in SUBSET S, Cardinality(s) = 0 PROVE Agree(s)
    OBVIOUS
  <2>1. s = {}
    BY <1>0, FS_EmptySet
  <2>2. g[s] = 0 /\ h[s] = -1
    BY <1>3, <2>1
  <2>3. 0 \in Nat /\ -1 = 0 + 0 - 1
    OBVIOUS
  <2> QED
    BY <2>2, <2>3
<1>5. ASSUME NEW n \in Nat, n \in Good PROVE n + 1 \in Good
  <2> SUFFICES ASSUME NEW s \in SUBSET S, Cardinality(s) = n + 1 PROVE Agree(s)
    OBVIOUS
  <2>1. s # {}
    BY FS_EmptySet
  <2>2. PICK t \in SUBSET S : t = s \ {OneOf(s)}
    OBVIOUS
  <2>3. OneOf(s) \in S /\ Cardinality(t) = n
    BY <1>0, <2>1, <2>2, SmallerSet
  <2>4. Agree(t)
    BY <1>5, <2>3
  <2>5. g[s] = b[OneOf(s)] + g[t] /\ h[s] = b[OneOf(s)] + h[t] + 1 /\ b[OneOf(s)] \in Nat
    BY <1>3, <2>1, <2>2, <2>3
  <2> QED
    BY <2>3, <2>4, <2>5
<1> HIDE DEF Good
<1>6. Cardinality(S) \in Good
  BY <1>4, <1>5, NatSetInduction, FS_CardinalityType
<1> USE DEF Good
<1>7. Agree(S)
  BY <1>6
<1> QED
  BY <1>1, <1>7, FoldsUnfold

-----------------------------------------------------------------------------
\* Why each plan was made: an invocation fits, a failed request is alone and
\* does not.  Fits is FitsPayload of a part of the given batch.
Fits(b, p) ==
    Envelope + FoldFunctionOnSet(+, 0, b, Items(p)) + (p.last - p.first) <= MaxPayload

Justified(b, plan) ==
    IF plan.kind = "Invoke" THEN Fits(b, plan.part)
    ELSE ~Fits(b, plan.part) /\ IsSingle(plan.part)

PlansJustified == \A i \in 1 .. Len(plans) : Justified(batch, plans[i])

LimitInv == PlanInv /\ PlansJustified

LEMMA FitsIsFitsPayload == \A p : FitsPayload(p) <=> Fits(batch, p)
BY Zenon DEF FitsPayload, PayloadBytes, Fits

\* The bytes of a part, by the planner's formula and by the sizes alone.
LEMMA BytesOfPart ==
    ASSUME batch \in Seq(Nat), NEW f \in Nat, NEW t \in Nat,
           1 <= f, f <= t, t <= Len(batch), NEW p, p.first = f, p.last = t
    PROVE  /\ EventBytes(f .. t) \in Int
           /\ PayloadBytes(p) = EventBytes(f .. t)
<1> DEFINE sum == FoldFunctionOnSet(+, 0, batch, f .. t)
<1>1. IsFiniteSet(f .. t) /\ Cardinality(f .. t) = t - f + 1
  BY FS_Interval
<1>2. \A i \in f .. t : batch[i] \in Nat
  <2> SUFFICES ASSUME NEW i \in f .. t PROVE batch[i] \in Nat
    OBVIOUS
  <2>1. PICK n \in Nat : n = Len(batch)
    BY LenProperties
  <2>2. i \in 1 .. n
    BY <2>1
  <2> QED
    BY <2>1, <2>2, ElementOfSeq
<1>3. sum \in Nat
  BY <1>1, <1>2, CommasCounted
<1>4. EventBytes(f .. t) = Envelope + (sum + Cardinality(f .. t) - 1)
  <2>1. FoldFunctionOnSet(LAMBDA x, y : x + y + 1, -1, batch, f .. t)
          = sum + Cardinality(f .. t) - 1
    BY <1>1, <1>2, CommasCounted
  <2> QED
    BY <2>1 DEF EventBytes
<1>5. PayloadBytes(p) = Envelope + sum + (t - f)
  BY DEF PayloadBytes, Items
<1> HIDE DEF sum
<1> QED
  BY <1>1, <1>3, <1>4, <1>5, PayloadAssumption

LEMMA MakePlanJustified ==
    ASSUME LimitInv, todo # <<>>, NEW kind \in {"Invoke", "Fail"}, MakePlan(kind),
           IF kind = "Invoke" THEN FitsPayload(todo[1])
           ELSE ~FitsPayload(todo[1]) /\ IsSingle(todo[1])
    PROVE  PlansJustified'
<1> DEFINE plan == [kind |-> kind, part |-> todo[1]]
<1>1. PlanTypes
  BY DEF LimitInv, PlanInv, CutInv
<1>2. PICK m \in Nat : m = Len(plans)
  BY <1>1, PartTypes
<1>3. plan \in Plan
  BY <1>1, NextPart DEF Plan
<1>4. /\ Len(plans') = m + 1
      /\ plans'[m + 1] = plan
      /\ \A i \in 1 .. m : plans'[i] = plans[i]
      /\ \A i \in 1 .. m + 1 : i \in 1 .. m \/ i = m + 1
  BY <1>1, <1>2, <1>3, AppendElems DEF PlanTypes, MakePlan
<1>5. batch' = batch
  BY DEF MakePlan
<1>6. Justified(batch, plan)
  BY FitsIsFitsPayload DEF Justified
<1> HIDE DEF plan
<1>7. \A i \in 1 .. m : Justified(batch, plans[i])
  BY <1>2 DEF LimitInv, PlansJustified
<1>8. \A i \in 1 .. m + 1 : Justified(batch', plans'[i])
  BY <1>4, <1>5, <1>6, <1>7
<1> QED
  BY <1>4, <1>8 DEF PlansJustified

LEMMA LimitInvariant == PSpec => []LimitInv
<1>1. PInit => LimitInv
  <2> SUFFICES ASSUME PInit PROVE LimitInv
    OBVIOUS
  <2>1. plans = <<>> /\ Len(plans) = 0
    BY DEF PInit
  <2> QED
    BY <2>1, InitPlan DEF LimitInv, PlansJustified
<1>2. ASSUME LimitInv, [PNext]_pvars PROVE LimitInv'
  <2>1. PlanInv
    BY <1>2 DEF LimitInv
  <2>2. CASE PlanInvoke
    <3>1. PlansJustified'
      BY <1>2, <2>2, MakePlanJustified DEF PlanInvoke
    <3>2. PlanInv'
      BY <2>1, <2>2, MakePlanKeeps DEF PlanInvoke
    <3> QED
      BY <3>1, <3>2 DEF LimitInv
  <2>3. CASE PlanFail
    <3>1. PlansJustified'
      BY <1>2, <2>3, MakePlanJustified DEF PlanFail
    <3>2. PlanInv'
      BY <2>1, <2>3, MakePlanKeeps DEF PlanFail
    <3> QED
      BY <3>1, <3>2 DEF LimitInv
  <2>4. CASE SplitPart
    <3>1. PlanInv'
      BY <2>1, <2>4, SplitKeeps
    <3>2. PlansJustified'
      BY <1>2, <2>4 DEF SplitPart, LimitInv, PlansJustified
    <3> QED
      BY <3>1, <3>2 DEF LimitInv
  <2>5. CASE Planned \/ UNCHANGED pvars
    <3>1. batch' = batch /\ todo' = todo /\ plans' = plans
      BY <2>5 DEF Planned, pvars
    <3>2. PlanInv'
      BY <2>1, <2>5 DEF Planned, pvars, PlanInv, CutInv, PlanTypes, PartsCutBatch, Spread,
                        SendersFollowItems, Parts, NumParts, Items
    <3>3. PlansJustified'
      BY <1>2, <3>1 DEF LimitInv, PlansJustified
    <3> QED
      BY <3>2, <3>3 DEF LimitInv
  <2> QED
    BY <1>2, <2>2, <2>3, <2>4, <2>5 DEF PNext
<1> QED
  BY <1>1, <1>2, PTL DEF PSpec

\* The parts lie within the batch: the cut bounds each of them from both ends.
LEMMA PlansAreWithinBatch ==
    ASSUME PlanInv, NEW i \in 1 .. Len(plans)
    PROVE  /\ plans[i].part.first \in Nat /\ plans[i].part.last \in Nat
           /\ 1 <= plans[i].part.first
           /\ plans[i].part.first <= plans[i].part.last
           /\ plans[i].part.last <= Len(batch)
           /\ plans[i].part.pending = plans[i].part.first .. plans[i].part.last
<1>1. PlanTypes /\ PartsCutBatch /\ Spread /\ SendersFollowItems
  BY DEF PlanInv, CutInv
<1>2. PICK N \in Nat, m \in Nat : N = NumParts /\ m = Len(plans)
  BY <1>1, PartTypes
<1>3. i \in 1 .. N /\ i <= m
  BY <1>1, <1>2, PartTypes DEF NumParts
<1>4. Parts[i] = plans[i].part
  BY <1>2, <1>3 DEF Parts
<1>5. \A j \in 1 .. N : Parts[j].first \in Nat /\ Parts[j].last \in Nat
  BY <1>1, <1>2, PartTypes DEF Part
<1>6. 1 \in 1 .. N /\ N \in 1 .. N /\ 1 <= i /\ i <= N
  BY <1>3
<1>7. Parts[1].first = 1 /\ Parts[i].first - Parts[1].first >= i - 1
  BY <1>1, <1>2, <1>3, <1>6 DEF PartsCutBatch, Spread
<1>8. 1 <= Parts[i].first
  BY <1>3, <1>5, <1>7
<1>9. Parts[i].first <= Parts[i].last /\ Parts[i].pending = Parts[i].first .. Parts[i].last
  BY <1>1, <1>2, <1>3 DEF PartsCutBatch, SendersFollowItems, Items
<1>10. Parts[i].last <= Len(batch)
  <2>1. CASE i = N
    BY <1>1, <1>2, <1>5, <1>6, <2>1 DEF PartsCutBatch
  <2>2. CASE i < N
    <3>1. i \in 1 .. N - 1 /\ i + 1 \in 1 .. N /\ i + 1 <= N
      BY <1>3, <2>2
    <3>2. Parts[i + 1].first = Parts[i].last + 1
      BY <1>1, <1>2, <3>1 DEF PartsCutBatch
    <3>3. Parts[N].first - Parts[i + 1].first >= N - (i + 1)
      BY <1>1, <1>2, <1>6, <3>1 DEF Spread
    <3>4. Parts[N].first <= Parts[N].last /\ Parts[N].last = Len(batch)
      BY <1>1, <1>2, <1>6 DEF PartsCutBatch
    <3>5. N - (i + 1) >= 0
      BY <3>1
    <3> QED
      BY <1>3, <1>5, <1>6, <3>1, <3>2, <3>3, <3>4, <3>5
  <2> QED
    BY <1>6, <2>1, <2>2
<1> QED
  BY <1>3, <1>4, <1>5, <1>8, <1>9, <1>10

(***************************************************************************)
(* What plan_invocations is for: no invocation's event is larger than the   *)
(* limit, and no request is refused that would have fitted alone.  The      *)
(* event's size is the sum of the items and of the commas between them, for *)
(* a batch of any length: the planner's len - 1 commas are those commas.    *)
(***************************************************************************)
THEOREM InvocationsFitTheLimit == PSpec => []PlansWithinLimit
<1>1. LimitInv => PlansWithinLimit
  <2> SUFFICES ASSUME LimitInv, NEW i \in 1 .. Len(plans)
               PROVE  IF plans[i].kind = "Invoke"
                      THEN EventBytes(plans[i].part.pending) <= MaxPayload
                      ELSE \E j \in 1 .. Len(batch) : /\ plans[i].part.pending = {j}
                                                      /\ EventBytes({j}) > MaxPayload
    BY DEF PlansWithinLimit
  <2>1. PlanInv /\ PlansJustified
    BY DEF LimitInv
  <2>2. PICK f \in Nat, t \in Nat :
          /\ f = plans[i].part.first /\ t = plans[i].part.last
          /\ 1 <= f /\ f <= t /\ t <= Len(batch)
          /\ plans[i].part.pending = f .. t
    BY <2>1, PlansAreWithinBatch
  <2>3. batch \in Seq(Nat)
    BY <2>1, BatchesAssumption DEF PlanInv, CutInv, PlanTypes
  <2>4. PayloadBytes(plans[i].part) = EventBytes(f .. t)
    BY <2>2, <2>3, BytesOfPart
  <2>5. CASE plans[i].kind = "Invoke"
    <3>1. FitsPayload(plans[i].part)
      BY <2>1, <2>5, FitsIsFitsPayload DEF PlansJustified, Justified
    <3>2. PayloadBytes(plans[i].part) <= MaxPayload
      BY <3>1 DEF FitsPayload
    <3> QED
      BY <2>2, <2>4, <2>5, <3>2
  <2>6. CASE plans[i].kind # "Invoke"
    <3>1. ~FitsPayload(plans[i].part) /\ IsSingle(plans[i].part)
      BY <2>1, <2>6, FitsIsFitsPayload DEF PlansJustified, Justified
    <3>2. t = f /\ f .. t = {f}
      BY <2>2, <3>1 DEF IsSingle
    <3>3. f \in 1 .. Len(batch)
      BY <2>2, <2>3, LenProperties
    <3>4. EventBytes(f .. t) \in Int
      BY <2>2, <2>3, BytesOfPart
    <3>5. ~(EventBytes(f .. t) <= MaxPayload)
      BY <2>4, <3>1 DEF FitsPayload
    <3>6. EventBytes({f}) > MaxPayload
      BY <3>2, <3>4, <3>5, PayloadAssumption
    <3> QED
      BY <2>2, <2>6, <3>2, <3>3, <3>6
  <2> QED
    BY <2>5, <2>6
<1> QED
  BY <1>1, LimitInvariant, PTL

-----------------------------------------------------------------------------
(* BatchWindow: its invariant ties each timer of the code to the clock it   *)
(* stands for.                                                              *)

\* Each timer is what remains of its period, and at most MaxLate overdue.
FlushTimed == pc = "filling" => open + flushIn = wait /\ flushIn >= -MaxLate
IdleTimed == pc = "idle" => quiet + idleIn = IdleTtl /\ idleIn >= -MaxLate
SampleTimed == Sampling => span + tickIn <= Interval /\ tickIn >= -MaxLate

BWInv == BWTypeOK /\ FlushTimed /\ IdleTimed /\ SampleTimed

\* The assumption on the constants, taken apart.
LEMMA Limits ==
    /\ MaxCount \in Nat /\ MaxLate \in Nat
    /\ IdleTtl \in Nat /\ Interval \in Nat /\ Samples \in Nat /\ MaxDepth \in Nat
    /\ IdleTtl > 0 /\ Interval > 0 /\ Samples > 0 /\ MaxDepth > 0
<1>1. {MaxCount, MaxLate} \subseteq Nat
  BY WindowAssumption
<1>2. {IdleTtl, Interval, Samples, MaxDepth} \subseteq Nat \ {0}
  BY WindowAssumption
<1> QED
  BY <1>1, <1>2

\* The wait the estimator leads to is within the limits of the operation.
LEMMA SigmoidWithinLimits ==
    ASSUME NEW s \in SampleWindows, NEW min \in Nat, NEW max \in Nat, min <= max
    PROVE  SigmoidWait(s, min, max) \in min .. max
<1>1. Curve[s] \in Int
  BY WindowAssumption DEF Percent
<1> DEFINE product == Curve[s] * (max - min)
<1>2. product \in Int
  BY <1>1
<1> HIDE DEF product
<1> DEFINE rounded == (100 * min + product + 50) \div 100
<1>3. rounded \in Int
  BY <1>2
<1> HIDE DEF rounded
<1>4. SigmoidWait(s, min, max) =
         IF max <= min THEN max
         ELSE IF rounded < min THEN min
         ELSE IF rounded > max THEN max ELSE rounded
  BY DEF SigmoidWait, rounded, product
<1> QED
  BY <1>3, <1>4

\* A typed window of samples is one of those the curve is given for.
LEMMA WindowIsSampleWindow ==
    ASSUME BWTypeOK
    PROVE  samples \in SampleWindows
<1>1. PICK n \in Nat : n = Len(samples) /\ samples \in [1 .. n -> 0 .. MaxCount]
  BY LenProperties DEF BWTypeOK, EstimatorTyped
<1>2. n \in 0 .. Samples
  BY <1>1, Limits DEF BWTypeOK, EstimatorTyped
<1> QED
  BY <1>1, <1>2 DEF SampleWindows

LEMMA WaitWithinLimits ==
    ASSUME BWTypeOK
    PROVE  WaitOf \in op.minWait .. op.maxWait /\ WaitOf \in Nat
<1>1. op.minWait \in Nat /\ op.maxWait \in Nat /\ op.minWait <= op.maxWait
  BY WindowAssumption DEF BWTypeOK, TaskTyped
<1>2. SigmoidWait(samples, op.minWait, op.maxWait) \in op.minWait .. op.maxWait
  BY <1>1, WindowIsSampleWindow, SigmoidWithinLimits
<1> QED
  BY <1>1, <1>2 DEF WaitOf

\* The window stays within its size, and its samples are counts.
LEMMA TrimmedFits ==
    ASSUME NEW s \in Seq(0 .. MaxCount), Len(s) <= Samples, NEW c \in 0 .. MaxCount
    PROVE  /\ Trimmed(Append(s, c)) \in Seq(0 .. MaxCount)
           /\ Len(Trimmed(Append(s, c))) <= Samples
<1>1. Append(s, c) \in Seq(0 .. MaxCount) /\ Len(Append(s, c)) = Len(s) + 1
  BY AppendElems
<1>2. Len(s) \in Nat
  BY LenProperties
<1>3. Append(s, c) # <<>>
  BY <1>1, <1>2, EmptySeq
<1>4. Tail(Append(s, c)) \in Seq(0 .. MaxCount) /\ Len(Tail(Append(s, c))) = Len(s)
  BY <1>1, <1>2, <1>3, HeadTailProperties
<1> DEFINE a == Append(s, c)
<1>5. CASE Len(a) > Samples
  BY <1>1, <1>2, <1>4, <1>5, Limits DEF Trimmed
<1>6. CASE ~(Len(a) > Samples)
  BY <1>1, <1>2, <1>6, Limits DEF Trimmed
<1> QED
  BY <1>5, <1>6

LEMMA RecordedIsCount ==
    ASSUME BWTypeOK
    PROVE  Recorded \in 0 .. MaxCount
BY Limits DEF BWTypeOK, EstimatorTyped, Recorded

\* After a late tick the next one is still to come, within an interval.
LEMMA NextTickAhead ==
    ASSUME tickIn \in Int
    PROVE  NextTick \in 1 .. Interval
<1>1. (-tickIn) % Interval \in 0 .. Interval - 1
  BY Limits
<1> QED
  BY <1>1, Limits DEF NextTick

LEMMA InitWindow == BWInit => BWInv
<1> SUFFICES ASSUME BWInit PROVE BWInv
  OBVIOUS
<1>1. TaskTyped
  BY Limits DEF BWInit, Fresh, TaskTyped
<1>2. EstimatorTyped
  BY Limits, EmptySeq DEF BWInit, Fresh, EstimatorTyped
<1>3. FlushTimed /\ IdleTimed /\ SampleTimed
  BY Limits DEF BWInit, Fresh, FlushTimed, IdleTimed, SampleTimed, Sampling
<1>4. closed \in BOOLEAN
  BY DEF BWInit, Fresh
<1> QED
  BY <1>1, <1>2, <1>3, <1>4 DEF BWInv, BWTypeOK

-----------------------------------------------------------------------------
(* One lemma per step of the task, of its environment and of time.          *)

LEMMA FlushKeeps ==
    ASSUME BWInv, FlushAndWait, op' = op, queued' \in 0 .. MaxDepth, closed' \in BOOLEAN,
           unserved' \in 0 .. MaxLate, count' \in 0 .. MaxCount, samples' = samples,
           tickIn' = tickIn, span' = span, silence' \in Nat, pc = "filling" \/ pc = "idle"
    PROVE  BWInv'
<1>1. TaskTyped'
  BY Limits DEF BWInv, BWTypeOK, TaskTyped, FlushAndWait
<1>4. EstimatorTyped'
  BY DEF BWInv, BWTypeOK, EstimatorTyped
<1>2. FlushTimed' /\ IdleTimed'
  BY Limits DEF FlushTimed, IdleTimed, FlushAndWait
<1>3. SampleTimed'
  BY DEF BWInv, SampleTimed, Sampling, FlushAndWait
<1> QED
  BY <1>1, <1>2, <1>3, <1>4 DEF BWInv, BWTypeOK

\* What taking a request from the channel leaves typed.
LEMMA TakeTyped ==
    ASSUME BWInv, Take
    PROVE  /\ op' = op /\ queued' \in 0 .. MaxDepth /\ closed' \in BOOLEAN
           /\ unserved' \in 0 .. MaxLate /\ count' \in 0 .. MaxCount
           /\ samples' = samples /\ tickIn' = tickIn /\ span' = span
           /\ silence' \in Nat
<1>1. count' \in 0 .. MaxCount
  BY RecordedIsCount DEF BWInv, Take
<1> QED
  BY <1>1, Limits DEF BWInv, BWTypeOK, TaskTyped, Take

LEMMA BeginKeeps ==
    ASSUME BWInv, Begin
    PROVE  BWInv'
<1>1. Take /\ pc = "idle"
  BY DEF Begin
<1>2. CASE FlushAndWait
  BY <1>1, <1>2, TakeTyped, FlushKeeps
<1>3. CASE /\ op.size # 1 /\ pc' = "filling" /\ filled' = 1
           /\ wait' = WaitOf /\ flushIn' = WaitOf /\ open' = 0
           /\ UNCHANGED <<idleIn, quiet>>
  <2>1. WaitOf \in op.minWait .. op.maxWait /\ WaitOf \in Nat
    BY WaitWithinLimits DEF BWInv
  <2>2. op.size \in Nat \ {0}
    BY WindowAssumption DEF BWInv, BWTypeOK, TaskTyped
  <2>3. TaskTyped'
    BY <1>1, <1>3, <2>1, <2>2, TakeTyped, Limits DEF BWInv, BWTypeOK, TaskTyped
  <2>6. EstimatorTyped'
    BY <1>1, TakeTyped DEF BWInv, BWTypeOK, EstimatorTyped
  <2>4. FlushTimed' /\ IdleTimed'
    BY <1>3, <2>1, Limits DEF FlushTimed, IdleTimed
  <2>5. SampleTimed'
    BY <1>1, <1>3, TakeTyped DEF BWInv, SampleTimed, Sampling
  <2> QED
    BY <1>1, <2>3, <2>4, <2>5, <2>6, TakeTyped DEF BWInv, BWTypeOK
<1> QED
  BY <1>2, <1>3 DEF Begin

LEMMA ReceiveKeeps ==
    ASSUME BWInv, Receive
    PROVE  BWInv'
<1>1. Take /\ pc = "filling"
  BY DEF Receive
<1>2. CASE FlushAndWait
  BY <1>1, <1>2, TakeTyped, FlushKeeps
<1>3. CASE /\ ~Completes /\ filled' = filled + 1
           /\ UNCHANGED <<pc, wait, flushIn, idleIn, open, quiet>>
  <2>1. op.size \in Nat \ {0} /\ filled + 1 # op.size
    BY <1>3, WindowAssumption DEF BWInv, BWTypeOK, TaskTyped, Completes
  <2>2. TaskTyped'
    BY <1>1, <1>3, <2>1, TakeTyped DEF BWInv, BWTypeOK, TaskTyped
  <2>5. EstimatorTyped'
    BY <1>1, TakeTyped DEF BWInv, BWTypeOK, EstimatorTyped
  <2>3. FlushTimed' /\ IdleTimed'
    BY <1>1, <1>3 DEF BWInv, FlushTimed, IdleTimed
  <2>4. SampleTimed'
    BY <1>1, <1>3, TakeTyped DEF BWInv, SampleTimed, Sampling
  <2> QED
    BY <1>1, <2>2, <2>3, <2>4, <2>5, TakeTyped DEF BWInv, BWTypeOK
<1> QED
  BY <1>2, <1>3 DEF Receive

LEMMA FlushStepsKeep ==
    ASSUME BWInv, FlushTimer \/ FlushClosed
    PROVE  BWInv'
BY FlushKeeps DEF BWInv, BWTypeOK, TaskTyped, EstimatorTyped, FlushTimer, FlushClosed

LEMMA EndingKeeps ==
    ASSUME BWInv, Evict \/ EndClosed
    PROVE  BWInv'
BY DEF BWInv, BWTypeOK, TaskTyped, EstimatorTyped, FlushTimed, IdleTimed, SampleTimed, Sampling, Evict, EndClosed, Ends,
       timers, clocks

LEMMA SampleKeeps ==
    ASSUME BWInv, Sample
    PROVE  BWInv'
<1>1. NextTick \in 1 .. Interval
  BY NextTickAhead DEF BWInv, BWTypeOK, TaskTyped
<1>2. samples' \in Seq(0 .. MaxCount) /\ Len(samples') <= Samples /\ count' \in 0 .. MaxCount
  BY TrimmedFits, Limits DEF BWInv, BWTypeOK, EstimatorTyped, Sample, EstimatorTick
<1>3. TaskTyped'
  BY <1>1, Limits DEF BWInv, BWTypeOK, TaskTyped, Sample
<1>6. EstimatorTyped'
  BY <1>2 DEF EstimatorTyped
<1>4. FlushTimed' /\ IdleTimed'
  BY DEF BWInv, FlushTimed, IdleTimed, Sample
<1>5. SampleTimed'
  BY <1>1, Limits DEF SampleTimed, Sample
<1> QED
  BY <1>3, <1>4, <1>5, <1>6 DEF BWInv, BWTypeOK, Sample

LEMMA SendersKeep ==
    ASSUME BWInv, Send \/ Close
    PROVE  BWInv'
<1>1. TaskTyped'
  BY Limits DEF BWInv, BWTypeOK, TaskTyped, Send, Close, timers, clocks
<1>2. EstimatorTyped'
  BY DEF BWInv, BWTypeOK, EstimatorTyped, Send, Close
<1>3. FlushTimed' /\ IdleTimed' /\ SampleTimed'
  BY DEF BWInv, FlushTimed, IdleTimed, SampleTimed, Sampling, Send, Close, timers, clocks
<1>4. closed' \in BOOLEAN
  BY DEF BWInv, BWTypeOK, Send, Close
<1> QED
  BY <1>1, <1>2, <1>3, <1>4 DEF BWInv, BWTypeOK

LEMMA SpawnKeeps ==
    ASSUME BWInv, Spawn
    PROVE  BWInv'
<1>1. TaskTyped'
  BY Limits DEF BWInv, BWTypeOK, TaskTyped, Spawn
<1>2. EstimatorTyped'
  BY Limits, EmptySeq DEF EstimatorTyped, Spawn
<1>3. FlushTimed' /\ IdleTimed' /\ SampleTimed'
  BY Limits DEF FlushTimed, IdleTimed, SampleTimed, Sampling, Spawn
<1>4. closed' \in BOOLEAN
  BY DEF Spawn
<1> QED
  BY <1>1, <1>2, <1>3, <1>4 DEF BWInv, BWTypeOK

LEMMA ElapseKeeps ==
    ASSUME BWInv, Elapse
    PROVE  BWInv'
<1>1. TaskTyped'
  BY Limits DEF BWInv, BWTypeOK, TaskTyped, Elapse, InTime, Down, Available
<1>2. EstimatorTyped'
  BY DEF BWInv, BWTypeOK, EstimatorTyped, Elapse
<1>3. FlushTimed'
  BY Limits DEF BWInv, BWTypeOK, TaskTyped, FlushTimed, Elapse, InTime
<1>4. IdleTimed'
  BY Limits DEF BWInv, BWTypeOK, TaskTyped, IdleTimed, Elapse, InTime, Down
<1>5. SampleTimed'
  BY Limits DEF BWInv, BWTypeOK, TaskTyped, SampleTimed, Sampling, Elapse, InTime, Down
<1> QED
  BY <1>1, <1>2, <1>3, <1>4, <1>5 DEF BWInv, BWTypeOK, Elapse

LEMMA StepKeepsWindow == BWInv /\ [BWNext]_bwvars => BWInv'
<1> SUFFICES ASSUME BWInv, [BWNext]_bwvars PROVE BWInv'
  OBVIOUS
<1>1. CASE TaskStep
  BY <1>1, BeginKeeps, ReceiveKeeps, FlushStepsKeep, EndingKeeps, SampleKeeps DEF TaskStep
<1>2. CASE Send \/ Close
  BY <1>2, SendersKeep
<1>3. CASE Spawn
  BY <1>3, SpawnKeeps
<1>4. CASE Elapse
  BY <1>4, ElapseKeeps
<1>5. CASE UNCHANGED bwvars
  BY <1>5 DEF BWInv, BWTypeOK, TaskTyped, EstimatorTyped, FlushTimed, IdleTimed, SampleTimed, Sampling, bwvars, timers, clocks
<1> QED
  BY <1>1, <1>2, <1>3, <1>4, <1>5 DEF BWNext

\* The invariant of the theorems that follow.
LEMMA WindowInvariant == BWSpec => []BWInv
BY InitWindow, StepKeepsWindow, PTL DEF BWSpec

\* Types: the wait of every batch is within the limits of its operation, and
\* the window of samples within its size, whatever the curve.
THEOREM WindowTypes == BWSpec => []BWTypeOK
<1>1. BWInv => BWTypeOK
  BY DEF BWInv
<1> QED
  BY <1>1, WindowInvariant, PTL

\* A batch is open for its wait at most, and what the executor is late.
THEOREM NoBatchIsHeld == BWSpec => []BatchNotHeld
<1>1. BWInv => BatchNotHeld
  BY Limits DEF BWInv, BWTypeOK, TaskTyped, FlushTimed, BatchNotHeld
<1> QED
  BY <1>1, WindowInvariant, PTL

\* A task that is sent nothing ends in time.
THEOREM QuietTasksEnd == BWSpec => []QuietTaskEnds
<1>1. BWInv => QuietTaskEnds
  BY Limits DEF BWInv, BWTypeOK, TaskTyped, IdleTimed, QuietTaskEnds
<1> QED
  BY <1>1, WindowInvariant, PTL

\* A sample never stands for more than an interval and what is late.
THEOREM SamplerIsOnTime == BWSpec => []SamplerKeepsPace
<1>1. BWInv => SamplerKeepsPace
  BY Limits DEF BWInv, BWTypeOK, TaskTyped, SampleTimed, SamplerKeepsPace
<1> QED
  BY <1>1, WindowInvariant, PTL

\* No batch is flushed unless it is full, its wait is over or nobody can send.
THEOREM NoEarlyFlush == BWSpec => FlushedForAReason
<1> DEFINE Reason == pc = "filling" /\ pc' = "idle" =>
              \/ filled + (queued - queued') = op.size
              \/ open >= wait
              \/ closed /\ queued = 0
<1>1. BWInv /\ [BWNext]_bwvars => [Reason]_bwvars
  <2> SUFFICES ASSUME BWInv, BWNext, pc = "filling", pc' = "idle"
               PROVE  \/ filled + (queued - queued') = op.size
                      \/ open >= wait
                      \/ closed /\ queued = 0
    BY DEF bwvars
  <2>1. CASE Receive
    <3>1. Completes /\ queued' = queued - 1
      BY <2>1 DEF Receive, Take
    <3> QED
      BY <3>1 DEF BWInv, BWTypeOK, TaskTyped, FlushTimed, Completes
  <2>2. CASE FlushTimer
    BY <2>2 DEF BWInv, BWTypeOK, TaskTyped, FlushTimed, FlushTimer, Expired
  <2>3. CASE FlushClosed
    BY <2>3 DEF FlushClosed
  <2> QED
    BY <2>1, <2>2, <2>3 DEF BWNext, TaskStep, Begin, Evict, EndClosed, Ends, Sample, Send, Close,
                            Spawn, Elapse
<1> QED
  BY <1>1, WindowInvariant, PTL DEF BWSpec, FlushedForAReason

\* A task with senders ends only after IdleTtl without a request.
THEOREM BusyTasksStay == BWSpec => EndsOnlyWhenQuiet
<1> DEFINE Quiet == pc # "done" /\ pc' = "done" /\ ~closed => quiet >= IdleTtl
<1>1. BWInv /\ [BWNext]_bwvars => [Quiet]_bwvars
  <2> SUFFICES ASSUME BWInv, BWNext, pc # "done", pc' = "done", ~closed
               PROVE  quiet >= IdleTtl
    BY DEF bwvars
  <2>1. CASE Evict
    BY <2>1, Limits DEF BWInv, BWTypeOK, TaskTyped, IdleTimed, Evict, Expired
  <2> QED
    BY <2>1 DEF BWNext, TaskStep, Begin, Receive, FlushTimer, FlushClosed, FlushAndWait, EndClosed,
                Sample, Send, Close, Spawn, Elapse
<1> QED
  BY <1>1, WindowInvariant, PTL DEF BWSpec, EndsOnlyWhenQuiet

-----------------------------------------------------------------------------
(* How load is forgotten.                                                   *)

(***************************************************************************)
(* LoadForgotten is not inductive: it says nothing before the whole window  *)
(* of samples has passed.  A silence longer than k periods has left k       *)
(* samples of zero at the young end of the window, for each k, and one      *)
(* longer than the current period an empty counter.                         *)
(***************************************************************************)
Period == Interval + MaxLate
LastAreZero(s, k) == \A i \in 1 .. Len(s) : i > Len(s) - k => s[i] = 0
Forgets ==
    op.dynamic =>
        /\ silence > span => count = 0
        /\ \A k \in 1 .. Samples : silence > span + k * Period => LastAreZero(samples, k)

LoadInv == BWInv /\ Forgets

\* The window moves: the new sample is its last, the others keep their place
\* from the end.
LEMMA WindowMoves ==
    ASSUME NEW s \in Seq(0 .. MaxCount), NEW c \in 0 .. MaxCount,
           NEW k \in Nat, LastAreZero(s, k), c = 0
    PROVE  LastAreZero(Trimmed(Append(s, c)), k + 1)
<1> DEFINE a == Append(s, c)
<1>1. PICK n \in Nat : n = Len(s)
  BY LenProperties
<1>2. /\ a \in Seq(0 .. MaxCount) /\ Len(a) = n + 1 /\ a[n + 1] = 0
      /\ \A i \in 1 .. n : a[i] = s[i]
  BY <1>1, AppendElems
<1>3. LastAreZero(a, k + 1)
  <2> SUFFICES ASSUME NEW i \in 1 .. n + 1, i > n + 1 - (k + 1) PROVE a[i] = 0
    BY <1>2 DEF LastAreZero
  <2>1. CASE i = n + 1
    BY <1>2, <2>1
  <2>2. CASE i # n + 1
    <3>1. i \in 1 .. n /\ i > n - k
      BY <2>2
    <3> QED
      BY <1>1, <1>2, <3>1 DEF LastAreZero
  <2> QED
    BY <2>1, <2>2
<1>4. LastAreZero(Tail(a), k + 1)
  <2>1. a # <<>>
    BY <1>2, EmptySeq
  <2>2. Len(Tail(a)) = n /\ \A i \in 1 .. n : Tail(a)[i] = a[i + 1]
    BY <1>2, <2>1, HeadTailProperties
  <2> SUFFICES ASSUME NEW i \in 1 .. n, i > n - (k + 1) PROVE Tail(a)[i] = 0
    BY <2>2 DEF LastAreZero
  <2>3. i + 1 \in 1 .. n + 1 /\ i + 1 > n + 1 - (k + 1)
    OBVIOUS
  <2> QED
    BY <1>2, <1>3, <2>2, <2>3 DEF LastAreZero
<1> HIDE DEF a
<1> QED
  BY <1>3, <1>4 DEF Trimmed, a

\* k periods are one more than k - 1.
LEMMA Periods ==
    /\ Period \in Nat /\ Period > 0
    /\ \A k \in 1 .. Samples : k * Period \in Nat /\ k * Period = (k - 1) * Period + Period
<1>1. Period \in Nat /\ Period > 0
  BY Limits DEF Period
<1>2. ASSUME NEW k \in 1 .. Samples
      PROVE  k * Period \in Nat /\ k * Period = (k - 1) * Period + Period
  <2>1. k \in Nat
    BY Limits
  <2> QED
    BY <1>1, <2>1
<1> QED
  BY <1>1, <1>2

LEMMA SampleForgets ==
    ASSUME LoadInv, Sample
    PROVE  Forgets'
<1>1. /\ op.dynamic /\ op' = op /\ silence' = silence /\ span' = 0 /\ count' = 0
      /\ samples' = Trimmed(Append(samples, count))
  BY DEF Sample, Sampling, EstimatorTick
<1>2. span <= Period /\ span \in Nat /\ silence \in Nat
  BY Limits DEF Sample, LoadInv, BWInv, BWTypeOK, TaskTyped, SampleTimed, Period
<1>3. samples \in Seq(0 .. MaxCount) /\ count \in 0 .. MaxCount
  BY DEF LoadInv, BWInv, BWTypeOK, EstimatorTyped
<1>4. ASSUME NEW k \in 1 .. Samples, silence > k * Period
      PROVE  LastAreZero(samples', k)
  <2>1. /\ Period \in Nat /\ k \in Nat /\ k - 1 \in Nat /\ (k - 1) + 1 = k
        /\ (k - 1) * Period \in Int
        /\ k * Period = (k - 1) * Period + Period
    BY Periods, Limits
  <2>2. silence > (k - 1) * Period + span
    BY <1>2, <1>4, <2>1
  <2>3. count = 0
    <3>1. (k - 1) * Period >= 0
      BY <2>1
    <3>2. silence > span
      BY <1>2, <2>1, <2>2, <3>1
    <3> QED
      BY <1>1, <3>2 DEF LoadInv, Forgets
  <2>4. LastAreZero(samples, k - 1)
    <3>1. CASE k = 1
      <4>1. Len(samples) \in Nat
        BY <1>3, LenProperties
      <4> QED
        BY <3>1, <4>1 DEF LastAreZero
    <3>2. CASE k # 1
      <4>1. k - 1 \in 1 .. Samples /\ silence > span + (k - 1) * Period
        BY <1>2, <2>1, <2>2, <3>2, Limits
      <4> QED
        BY <1>1, <4>1 DEF LoadInv, Forgets
    <3> QED
      BY <3>1, <3>2
  <2>5. LastAreZero(Trimmed(Append(samples, count)), (k - 1) + 1)
    BY <1>3, <2>1, <2>3, <2>4, WindowMoves
  <2> QED
    BY <1>1, <2>1, <2>5
<1>5. \A k \in 1 .. Samples : 0 + k * Period = k * Period
  BY Periods
<1> QED
  BY <1>1, <1>2, <1>4, <1>5 DEF Forgets

\* A request ends the silence; a new task has neither load nor silence.
LEMMA TakeForgets ==
    ASSUME BWInv, BWInv', silence' = 0
    PROVE  Forgets'
<1>1. span' \in Nat
  BY DEF BWInv, BWTypeOK, TaskTyped
<1>2. \A k \in 1 .. Samples : k * Period \in Nat
  BY Periods
<1> QED
  BY <1>1, <1>2 DEF Forgets

LEMMA ElapseForgets ==
    ASSUME LoadInv, Elapse
    PROVE  Forgets'
<1>1. op' = op /\ count' = count /\ samples' = samples
  BY DEF Elapse
<1>2. span \in Nat /\ silence \in Nat /\ \A k \in 1 .. Samples : k * Period \in Nat
  BY Periods DEF LoadInv, BWInv, BWTypeOK, TaskTyped
<1>3. op.dynamic => span' = span + 1 /\ silence' = silence + 1
  BY DEF Elapse
<1> QED
  BY <1>1, <1>2, <1>3 DEF LoadInv, Forgets

LEMMA StepForgets == LoadInv /\ [BWNext]_bwvars => LoadInv'
<1> SUFFICES ASSUME LoadInv, [BWNext]_bwvars PROVE LoadInv'
  OBVIOUS
<1>0. BWInv /\ BWInv'
  BY StepKeepsWindow DEF LoadInv
<1>1. CASE Begin \/ Receive \/ Spawn
  <2>1. silence' = 0
    BY <1>1 DEF Begin, Receive, Take, Spawn
  <2> QED
    BY <1>0, <2>1, TakeForgets DEF LoadInv
<1>2. CASE Sample
  BY <1>0, <1>2, SampleForgets DEF LoadInv
<1>3. CASE Elapse
  BY <1>0, <1>3, ElapseForgets DEF LoadInv
<1>4. CASE FlushTimer \/ FlushClosed \/ Evict \/ EndClosed \/ Send \/ Close \/ UNCHANGED bwvars
  <2>1. UNCHANGED <<op, count, samples, span, silence>>
    BY <1>4 DEF FlushTimer, FlushClosed, Evict, EndClosed, Ends, Send, Close, bwvars, timers, clocks
  <2> QED
    BY <1>0, <2>1 DEF LoadInv, Forgets
<1> QED
  BY <1>1, <1>2, <1>3, <1>4 DEF BWNext, TaskStep

(***************************************************************************)
(* For every window and interval, and however late the sampler runs: after  *)
(* a silence of a window and one period the estimate is zero, so a quiet    *)
(* key does not go on waiting as long as it did under load.                 *)
(***************************************************************************)
THEOREM LoadIsForgotten == BWSpec => []LoadForgotten
<1>1. BWInit => LoadInv
  <2> SUFFICES ASSUME BWInit PROVE LoadInv
    OBVIOUS
  <2>1. count = 0 /\ silence = 0 /\ span = 0 /\ \A k \in 1 .. Samples : k * Period \in Nat
    BY Periods DEF BWInit, Fresh
  <2> QED
    BY <2>1, InitWindow DEF LoadInv, Forgets
<1>2. LoadInv => LoadForgotten
  <2> SUFFICES ASSUME LoadInv, Sampling, silence > (Samples + 1) * (Interval + MaxLate)
               PROVE  count = 0 /\ \A i \in DOMAIN samples : samples[i] = 0
    BY DEF LoadForgotten
  <2>1. span \in Nat /\ span <= Period /\ silence \in Nat
    BY Limits DEF LoadInv, BWInv, BWTypeOK, TaskTyped, SampleTimed, Period
  <2>2. /\ Samples \in 1 .. Samples /\ Period \in Nat
        /\ Samples * Period \in Nat
        /\ (Samples + 1) * Period = Samples * Period + Period
    BY Limits, Periods
  <2>3. silence > span + Samples * Period /\ silence > span
    BY <2>1, <2>2 DEF Period
  <2>4. op.dynamic
    BY DEF Sampling
  <2>5. count = 0 /\ LastAreZero(samples, Samples)
    BY <2>2, <2>3, <2>4 DEF LoadInv, Forgets
  <2>6. /\ Len(samples) \in Nat /\ Len(samples) <= Samples
        /\ DOMAIN samples = 1 .. Len(samples)
    BY LenProperties DEF LoadInv, BWInv, BWTypeOK, EstimatorTyped
  <2> QED
    BY <2>5, <2>6, Limits DEF LastAreZero
<1> QED
  BY <1>1, <1>2, StepForgets, PTL DEF BWSpec
=============================================================================
