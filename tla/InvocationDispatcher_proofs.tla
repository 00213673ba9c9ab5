-------------------- MODULE InvocationDispatcher_proofs ---------------------
(***************************************************************************)
(* Proofs about InvocationDispatcher, for every set of jobs and all limits. *)
(***************************************************************************)
EXTENDS InvocationDispatcher, SequenceLemmas, FiniteSetTheorems

DInv == DTypeOK /\ OnePlace /\ PermitsBalance

LEMMA FiniteRunning ==
    ASSUME DTypeOK
    PROVE  IsFiniteSet(running) /\ Cardinality(running) \in Nat
BY JobsAssumption, FS_Subset, FS_CardinalityType DEF DTypeOK

LEMMA InitDispatcher == DInit => DInv
<1> SUFFICES ASSUME DInit PROVE DInv
  OBVIOUS
<1>1. DTypeOK
  BY JobsAssumption, LimitAssumption DEF DInit, DTypeOK
<1>2. OnePlace
  BY JobsAssumption DEF DInit, OnePlace, IsInjective, Range
<1>3. PermitsBalance
  BY LimitAssumption, FS_EmptySet DEF DInit, PermitsBalance
<1> QED
  BY <1>1, <1>2, <1>3 DEF DInv

\* Steps that leave the tasks and their permits alone.
LEMMA BalanceKept ==
    ASSUME DInv, permits' = permits, running' = running
    PROVE  PermitsBalance'
BY DEF DInv, PermitsBalance

\* A running job that returns gives its permit back.
LEMMA ReturnBalances ==
    ASSUME DInv, NEW j \in running, Return(j)
    PROVE  PermitsBalance'
<1>1. /\ IsFiniteSet(running)
      /\ Cardinality(running \ {j}) = Cardinality(running) - 1
      /\ Cardinality(running) \in Nat
  BY FiniteRunning, FS_RemoveElement DEF DInv
<1> QED
  BY <1>1, LimitAssumption DEF DInv, DTypeOK, PermitsBalance, Return

LEMMA SubmitKeeps ==
    ASSUME DInv, NEW j \in Jobs, Submit(j) \/ SubmitFull(j)
    PROVE  DInv'
<1>1. CASE Submit(j)
  <2>1. /\ channel \in Seq(Jobs)
        /\ channel' = Append(channel, j)
        /\ j \notin Range(channel) \cup running \cup answered \cup rejected
        /\ j # held
        /\ IsInjective(channel)
    BY <1>1 DEF DInv, DTypeOK, OnePlace, Submit, Submitted
  <2>2. Range(channel') = Range(channel) \cup {j} /\ IsInjective(channel')
    BY <2>1, RangeOfAppend, AppendInjects
  <2>3. DTypeOK'
    BY <1>1, <2>1 DEF DInv, DTypeOK, Submit
  <2>4. OnePlace'
    BY <1>1, <2>1, <2>2 DEF DInv, OnePlace, Submit
  <2> QED
    BY <1>1, <2>3, <2>4, BalanceKept DEF DInv, Submit
<1>2. CASE SubmitFull(j)
  <2>1. DTypeOK' /\ OnePlace'
    BY <1>2 DEF DInv, DTypeOK, OnePlace, SubmitFull, Submitted
  <2> QED
    BY <1>2, <2>1, BalanceKept DEF DInv, SubmitFull
<1> QED
  BY <1>1, <1>2

LEMMA ReceiveKeeps ==
    ASSUME DInv, ReceiveJob
    PROVE  DInv'
<1>1. channel \in Seq(Jobs) /\ channel # <<>> /\ IsInjective(channel)
  BY DEF DInv, DTypeOK, OnePlace, ReceiveJob
<1>2. /\ Head(channel) \in Jobs
      /\ Tail(channel) \in Seq(Jobs)
      /\ Range(channel) = Range(Tail(channel)) \cup {Head(channel)}
      /\ IsInjective(Tail(channel))
      /\ Head(channel) \notin Range(Tail(channel))
  BY <1>1, RangeOfTail, HeadTailProperties
<1>3. DTypeOK'
  BY <1>2 DEF DInv, DTypeOK, ReceiveJob
<1>4. OnePlace'
  BY <1>2 DEF DInv, OnePlace, ReceiveJob
<1> QED
  BY <1>3, <1>4, BalanceKept DEF DInv, ReceiveJob

LEMMA AcquireKeeps ==
    ASSUME DInv, AcquirePermit
    PROVE  DInv'
<1>1. held \in Jobs /\ held \notin running
  BY DEF DInv, DTypeOK, OnePlace, AcquirePermit
<1>2. /\ Cardinality(running \cup {held}) = Cardinality(running) + 1
      /\ Cardinality(running) \in Nat
  BY <1>1, FiniteRunning, FS_AddElement DEF DInv
<1>3. DTypeOK'
  BY <1>1 DEF DInv, DTypeOK, AcquirePermit
<1>4. OnePlace'
  BY <1>1, JobsAssumption DEF DInv, DTypeOK, OnePlace, AcquirePermit, Range
<1>5. PermitsBalance'
  BY <1>2, LimitAssumption DEF DInv, DTypeOK, PermitsBalance, AcquirePermit
<1> QED
  BY <1>3, <1>4, <1>5 DEF DInv

LEMMA InvocationKeeps ==
    ASSUME DInv, NEW j \in Jobs, Invocation(j) \/ StreamDrained(j)
    PROVE  DInv'
<1>1. CASE InvokeReturns(j) \/ StreamDispatched(j) \/ StreamAbandoned(j)
  <2>1. j \in running /\ Return(j)
    BY <1>1 DEF InvokeReturns, StreamDispatched, StreamAbandoned, DInv, OnePlace
  <2>2. UNCHANGED <<channel, held, rejected>> /\ lambdas' \subseteq lambdas
    BY <1>1 DEF InvokeReturns, StreamDispatched, StreamAbandoned
  <2>3. DTypeOK'
    BY <2>1, <2>2 DEF DInv, DTypeOK, Return
  <2>4. OnePlace'
    BY <2>1, <2>2 DEF DInv, OnePlace, Return
  <2> QED
    BY <2>1, <2>3, <2>4, ReturnBalances DEF DInv
<1>2. CASE StreamOpens(j) \/ StreamDrained(j)
  <2>1. DTypeOK' /\ OnePlace'
    BY <1>2 DEF DInv, DTypeOK, OnePlace, StreamOpens, StreamDrained
  <2> QED
    BY <1>2, <2>1, BalanceKept DEF DInv, StreamOpens, StreamDrained
<1> QED
  BY <1>1, <1>2 DEF Invocation

LEMMA NextDispatcher == DInv /\ [DNext]_dvars => DInv'
<1> SUFFICES ASSUME DInv, [DNext]_dvars PROVE DInv'
  OBVIOUS
<1>1. CASE UNCHANGED dvars
  BY <1>1 DEF dvars, DInv, DTypeOK, OnePlace, PermitsBalance
<1>2. CASE DQuiescent
  BY <1>1, <1>2 DEF DQuiescent
<1> QED
  BY <1>1, <1>2, SubmitKeeps, ReceiveKeeps, AcquireKeeps, InvocationKeeps DEF DNext

(***************************************************************************)
(* The variables keep their types: permits never falls below 0.             *)
(***************************************************************************)
THEOREM DispatcherType == DSpec => []DTypeOK
<1>1. DInv => DTypeOK
  BY DEF DInv
<1> QED
  BY <1>1, InitDispatcher, NextDispatcher, PTL DEF DSpec

(***************************************************************************)
(* Permits are neither leaked nor returned twice, whichever way each job    *)
(* ends and in whichever order they do.                                     *)
(***************************************************************************)
THEOREM PermitsAreConserved == DSpec => []PermitsBalance
<1>1. DInv => PermitsBalance
  BY DEF DInv
<1> QED
  BY <1>1, InitDispatcher, NextDispatcher, PTL DEF DSpec

(***************************************************************************)
(* A job is in one place on its way: it is invoked once at most, and never  *)
(* both invoked and rejected.                                               *)
(***************************************************************************)
THEOREM JobsAreInOnePlace == DSpec => []OnePlace
<1>1. DInv => OnePlace
  BY DEF DInv
<1> QED
  BY <1>1, InitDispatcher, NextDispatcher, PTL DEF DSpec
=============================================================================
