--------------------------- MODULE Gateway_proofs ---------------------------
(***************************************************************************)
(* Proofs about Gateway, for every set of requests, operations and keys and *)
(* all limits: that it runs the batchers of BatcherManager and the          *)
(* dispatcher of InvocationDispatcher, so that what is proved of them holds *)
(* of the gateway, what ties the two and the HTTP handlers together, that   *)
(* the whole implements RequestLifecycle, and what a process that ends      *)
(* (GatewayShutdown) leaves behind.                                         *)
(***************************************************************************)
EXTENDS GatewayShutdown, BatcherManager_proofs, FiniteSetTheorems

DP == INSTANCE InvocationDispatcher_proofs
        WITH Jobs <- Parts, StreamJobs <- {J \in Parts : \E r \in J : IsStream(r)}

-----------------------------------------------------------------------------
(* The inductive invariant.                                                 *)

GateTypes ==
    /\ client \in [Requests -> ClientStates]
    /\ reply \in [Requests -> Replies]
    /\ sink \in [Requests -> SinkStates]
    /\ slots \in Nat

\* A request is open while its handler or its body stream lives.
Open == {r \in Requests : client[r] \notin {"new", "done"}}

\* The jobs that flush_batch has made, wherever they have got to.
Planned == OwnedJobs \cup answered \cup rejected

\* Jobs are made of requests that left a batch, of one key, and share none.
JobInv ==
    /\ \A J \in Planned : J \subseteq handed
    /\ \A J, K \in Planned : J # K => J \cap K = {}
    /\ \A J \in Planned : \A r, s \in J : BatchKey(r) = BatchKey(s)

\* What became of the response sender of a request, by where the request is.
SinkInv ==
    /\ \A r \in Requests : r \notin handed \cup lost => sink[r] = "held"
    /\ \A r \in lost : sink[r] = "dropped"
    /\ \A r \in handed : (\A J \in Planned : r \notin J) => sink[r] = "502"
    /\ \A J \in OwnedJobs : J \notin streaming => \A r \in J : sink[r] = "held"
    /\ \A J \in streaming : \A r \in J : sink[r] \in {"held", "head", "ok", "502", "closed"}
    /\ \A J \in answered : \A r \in J : sink[r] \in {"ok", "502", "closed", "dropped"}
    /\ \A J \in rejected : \A r \in J : sink[r] = "429"

\* How far a handler has got in enqueue, and whom it may refuse.
ClientOf(r) ==
    /\ client[r] \in {"new", "reading_body"} => handler[r] = "enqueue"
    /\ client[r] \in {"waiting", "streaming"} => handler[r] = "accepted"
    /\ reply[r] # "none" => client[r] = "done"
    /\ reply[r] \in {"429", "413"} /\ handler[r] = "accepted" => sink[r] = "429"

ClientInv == \A r \in Requests : ClientOf(r)

\* The parts, each of which its own module proves inductive.
PartsInv ==
    /\ TypeInv /\ KeyInv /\ Custody
    /\ MapInv /\ RoomInv
    /\ D!DTypeOK /\ D!OnePlace /\ D!PermitsBalance

GateInv == GateTypes /\ JobInv /\ SinkInv /\ ClientInv /\ SlotsBalance

GatewayInv == PartsInv /\ GateInv

-----------------------------------------------------------------------------
(* The gateway runs the batchers.                                           *)

LEMMA GNextBatchers == GNext => [Next]_vars
<1> SUFFICES ASSUME GNext PROVE [Next]_vars
  OBVIOUS
<1>1. ASSUME NEW r \in Requests, Upload(r) \/ Handle(r) \/ Timeout(r) \/ Disconnect(r)
      PROVE  [Next]_vars
  <2>1. CASE EnqueueStep(r)
    BY <2>1 DEF EnqueueStep, Next
  <2>2. CASE UNCHANGED vars
    BY <2>2
  <2> QED
    BY <1>1, <2>1, <2>2
       DEF Upload, Handle, Arrive, Admitted, TooMany, BodyRead, BodyTooLarge, EnqueueFailed,
           EnqueueDone, TakeResponse, TakeHead, BodyEnds, TakeDropped, Timeout, Disconnect
<1>2. ASSUME NEW c \in Chans, BatcherStep(c)
      PROVE  [Next]_vars
  <2>1. Batcher(c)
    <3>1. CASE \E n \in 1 .. Len(batch[c]) : FlushInvoke(c, n)
      BY <3>1 DEF FlushInvoke, Batcher
    <3>2. CASE FlushTooLarge(c)
      <4>1. FlushPart(c, 1) /\ 1 \in 1 .. Len(batch[c])
        BY <3>2 DEF FlushTooLarge, FlushPart
      <4> QED
        BY <4>1 DEF Batcher
    <3>3. CASE EvictDropping(c)
      BY <3>3 DEF EvictDropping, Batcher
    <3> QED
      BY <1>2, <3>1, <3>2, <3>3 DEF BatcherStep, Batcher
  <2> QED
    BY <2>1 DEF Next
<1>3. CASE DispatcherStep \/ GQuiescent
  BY <1>3 DEF DispatcherStep, GQuiescent, gvars
<1>4. ASSUME NEW J \in Parts, InvocationStep(J)
      PROVE  [Next]_vars
  BY <1>4 DEF InvocationStep, BufferedResult, StreamRecord, StreamFinished, StreamProgress
<1> QED
  BY <1>1, <1>2, <1>3, <1>4 DEF GNext

(***************************************************************************)
(* The handlers and invocations drive the batchers as BatcherManager says:  *)
(* all that holds of it holds of the gateway.                               *)
(***************************************************************************)
THEOREM GatewayRunsBatchers == GSpec => Spec
<1>1. GInit => Init
  BY DEF GInit
<1>2. [GNext]_gvars => [Next]_vars
  BY GNextBatchers DEF gvars
<1> QED
  BY <1>1, <1>2, PTL DEF GSpec, Spec

-----------------------------------------------------------------------------
(* The gateway runs the dispatcher.                                         *)

LEMMA PartsFacts ==
    /\ IsFiniteSet(Parts)
    /\ {J \in Parts : \E r \in J : IsStream(r)} \subseteq Parts
    /\ NoJob \notin Parts
    /\ MaxPending \in Nat /\ MaxInflight \in Nat
<1>1. IsFiniteSet(Parts)
  BY RequestsAssumption, FS_SUBSET, FS_Subset DEF Parts
<1> QED
  BY <1>1, GatewayAssumption DEF Parts, NoJob

\* A part of a batch is a set of requests and not empty.
LEMMA PartType ==
    ASSUME TypeOK, NEW c \in Chans, NEW n \in 1 .. Len(batch[c])
    PROVE  {batch[c][i] : i \in 1 .. n} \in Parts
<1>1. batch[c] \in Seq(Requests)
  BY DEF TypeOK
<1>2. PICK m \in Nat : m = Len(batch[c])
  BY <1>1, LenProperties
<1>3. n \in 1 .. m /\ 1 \in 1 .. n /\ \A i \in 1 .. n : i \in 1 .. m
  BY <1>2
<1>4. \A i \in 1 .. n : batch[c][i] \in Requests
  BY <1>1, <1>2, <1>3, ElementOfSeq
<1>5. batch[c][1] \in {batch[c][i] : i \in 1 .. n}
  BY <1>3
<1> QED
  BY <1>4, <1>5 DEF Parts, NoJob

LEMMA GNextDispatcher ==
    ASSUME TypeOK, GNext
    PROVE  [D!DNext]_dvars
<1>1. ASSUME NEW r \in Requests, Upload(r) \/ Handle(r) \/ Timeout(r) \/ Disconnect(r)
      PROVE  UNCHANGED dvars
  BY <1>1
     DEF Upload, Handle, Arrive, Admitted, TooMany, BodyRead, BodyTooLarge, EnqueueStep,
         EnqueueFailed, EnqueueDone, TakeResponse, TakeHead, BodyEnds, TakeDropped,
         Timeout, Disconnect
<1>2. ASSUME NEW c \in Chans, BatcherStep(c)
      PROVE  [D!DNext]_dvars
  <2>1. ASSUME NEW n \in 1 .. Len(batch[c]), FlushInvoke(c, n)
        PROVE  D!DNext
    <3> DEFINE J == {batch[c][i] : i \in 1 .. n}
    <3>1. J \in Parts
      BY PartType
    <3>2. D!Submit(J) \/ D!SubmitFull(J)
      BY <2>1 DEF FlushInvoke
    <3> HIDE DEF J
    <3> QED
      BY <3>1, <3>2 DEF D!DNext
  <2>2. CASE FlushTooLarge(c) \/ EvictDropping(c)
    BY <2>2 DEF FlushTooLarge, EvictDropping
  <2> QED
    BY <1>2, <2>1, <2>2 DEF BatcherStep
<1>3. CASE DispatcherStep
  BY <1>3 DEF DispatcherStep, D!DNext
<1>4. ASSUME NEW J \in Parts, InvocationStep(J)
      PROVE  [D!DNext]_dvars
  <2>1. CASE BufferedResult(J) \/ StreamFinished(J) \/ StreamProgress(J)
    BY <2>1 DEF BufferedResult, StreamFinished, StreamProgress, D!DNext, D!Invocation
  <2>2. CASE \E r \in J : StreamRecord(J, r)
    BY <2>2 DEF StreamRecord
  <2> QED
    BY <1>4, <2>1, <2>2 DEF InvocationStep
<1>5. CASE GQuiescent
  BY <1>5 DEF GQuiescent, gvars
<1> QED
  BY <1>1, <1>2, <1>3, <1>4, <1>5 DEF GNext

(***************************************************************************)
(* The batchers submit and the invocations return as InvocationDispatcher   *)
(* says: a job is a set of requests, and never the empty one.               *)
(***************************************************************************)
THEOREM GatewayRunsDispatcher == GSpec => D!DSpec
<1>1. GInit => D!DInit
  BY DEF GInit
<1>2. TypeInv /\ [GNext]_gvars => [D!DNext]_(D!dvars)
  BY GNextDispatcher DEF gvars, dvars, D!dvars, TypeInv
<1> QED
  BY <1>1, <1>2, GatewayRunsBatchers, TypeCorrect, PTL DEF GSpec, D!DSpec

-----------------------------------------------------------------------------
(* What the parts keep, the gateway keeps.                                  *)

\* The operators that each module brings in for itself are the same.
LEMMA SameOperators ==
    /\ \A S : IsFiniteSet(S) <=> DP!IsFiniteSet(S)
    /\ \A s : D!Range(s) = Range(s) /\ DP!Range(s) = Range(s)
    /\ \A s : D!IsInjective(s) <=> DP!IsInjective(s)
<1>1. \A S : IsFiniteSet(S) <=> DP!IsFiniteSet(S)
  BY DEF IsFiniteSet, DP!IsFiniteSet
<1>2. \A s : D!Range(s) = Range(s) /\ DP!Range(s) = Range(s)
  BY DEF Range, D!Range, DP!Range
<1>3. \A s : D!IsInjective(s) <=> DP!IsInjective(s)
  BY DEF D!IsInjective, DP!IsInjective
<1> QED
  BY <1>1, <1>2, <1>3

LEMMA SameDispatcher ==
    /\ GInit => DP!DInit
    /\ [D!DNext]_dvars => [DP!DNext]_(DP!dvars)
<1>1. GInit => DP!DInit
  BY DEF GInit, D!DInit, DP!DInit
<1>2. ASSUME NEW j, D!Submit(j) \/ D!SubmitFull(j)
      PROVE  DP!Submit(j) \/ DP!SubmitFull(j)
  BY <1>2, SameOperators
     DEF D!Submit, DP!Submit, D!SubmitFull, DP!SubmitFull, D!Submitted, DP!Submitted,
         D!ChannelCapacity, DP!ChannelCapacity
<1>3. D!ReceiveJob \/ D!AcquirePermit => DP!ReceiveJob \/ DP!AcquirePermit
  BY DEF D!ReceiveJob, DP!ReceiveJob, D!AcquirePermit, DP!AcquirePermit
<1>4. ASSUME NEW j, D!Invocation(j) \/ D!StreamDrained(j)
      PROVE  DP!Invocation(j) \/ DP!StreamDrained(j)
  BY <1>4
     DEF D!Invocation, DP!Invocation, D!InvokeReturns, DP!InvokeReturns,
         D!StreamOpens, DP!StreamOpens, D!StreamDispatched, DP!StreamDispatched,
         D!StreamAbandoned, DP!StreamAbandoned, D!StreamDrained, DP!StreamDrained,
         D!Return, DP!Return
<1>5. D!DQuiescent \/ UNCHANGED dvars => UNCHANGED DP!dvars
  BY DEF D!DQuiescent, D!dvars, DP!dvars, dvars
<1> QED
  BY <1>1, <1>2, <1>3, <1>4, <1>5 DEF D!DNext, DP!DNext

LEMMA SameInvariant == D!DTypeOK /\ D!OnePlace /\ D!PermitsBalance <=> DP!DInv
<1>1. D!DTypeOK <=> DP!DTypeOK
  BY DEF D!DTypeOK, DP!DTypeOK
<1>2. D!OnePlace <=> DP!OnePlace
  BY SameOperators DEF D!OnePlace, DP!OnePlace
<1>3. \A S : D!Cardinality(S) = DP!Cardinality(S)
  BY Zenon DEF D!Cardinality, DP!Cardinality
<1>4. D!PermitsBalance <=> DP!PermitsBalance
  BY <1>3 DEF D!PermitsBalance, DP!PermitsBalance
<1> QED
  BY <1>1, <1>2, <1>4 DEF DP!DInv

LEMMA InitParts == GInit => PartsInv
<1> SUFFICES ASSUME GInit PROVE PartsInv
  OBVIOUS
<1>1. Init
  BY DEF GInit
<1>2. TypeInv /\ KeyInv /\ Custody /\ MapInv /\ RoomInv
  BY <1>1, InitMap, InitIsolation, InitCustody, InitRoom DEF MapInv, IsolationInv, CustodyInv
<1>3. DP!DInv
  BY PartsFacts, SameOperators, SameDispatcher, DP!InitDispatcher
<1> QED
  BY <1>2, <1>3, SameInvariant DEF PartsInv

LEMMA NextParts == PartsInv /\ [GNext]_gvars => PartsInv'
<1> SUFFICES ASSUME PartsInv, [GNext]_gvars PROVE PartsInv'
  OBVIOUS
<1>1. [Next]_vars
  BY GNextBatchers DEF gvars
<1>2. TypeInv' /\ KeyInv' /\ Custody' /\ MapInv' /\ RoomInv'
  BY <1>1, NextMap, NextKey, NextCustody, NextRoom DEF PartsInv, MapInv, IsolationInv, CustodyInv
<1>3. [DP!DNext]_(DP!dvars)
  BY GNextDispatcher, SameDispatcher DEF gvars, PartsInv, TypeInv
<1>4. DP!DInv'
  BY <1>3, PartsFacts, SameOperators, SameInvariant, DP!NextDispatcher DEF PartsInv
<1>5. (D!DTypeOK /\ D!OnePlace /\ D!PermitsBalance)' <=> DP!DInv'
  BY SameInvariant, PTL
<1> QED
  BY <1>2, <1>4, <1>5 DEF PartsInv

-----------------------------------------------------------------------------
(* The invariant holds initially, and the handlers keep it.                 *)

LEMMA InitGateway == GInit => GatewayInv
<1> SUFFICES ASSUME GInit PROVE GatewayInv
  OBVIOUS
<1>1. PartsInv
  BY InitParts
<1>2. GateTypes
  BY GatewayAssumption DEF GInit, GateTypes, ClientStates, Replies, SinkStates
<1>3. /\ handed = {} /\ lost = {} /\ streaming = {}
      /\ \A r \in Requests : handler[r] = "enqueue"
  BY DEF GInit, Init, D!DInit
<1>4. OwnedJobs = {} /\ answered = {} /\ rejected = {}
  BY DEF GInit, D!DInit, OwnedJobs, Range
<1>5. JobInv /\ SinkInv
  BY <1>3, <1>4 DEF GInit, JobInv, SinkInv, Planned
<1>6. ClientInv
  BY <1>3 DEF GInit, ClientInv, ClientOf
<1>7. SlotsBalance
  <2>1. {r \in Requests : client[r] \notin {"new", "done"}} = {}
    BY DEF GInit
  <2> QED
    BY <2>1, FS_EmptySet, GatewayAssumption DEF GInit, SlotsBalance
<1> QED
  BY <1>1, <1>2, <1>5, <1>6, <1>7 DEF GatewayInv, GateInv

LEMMA FiniteOpen == IsFiniteSet(Open) /\ Cardinality(Open) \in Nat
BY RequestsAssumption, FS_Subset, FS_CardinalityType DEF Open

\* The three things a step of a handler does to the slots.
LEMMA SlotTaken ==
    ASSUME GateTypes, SlotsBalance, NEW r \in Requests, client[r] = "new",
           slots' = slots - 1, Goes(r, "reading_body")
    PROVE  SlotsBalance'
<1>1. Open' = Open \cup {r} /\ r \notin Open
  BY DEF Open, Goes, GateTypes
<1>2. Cardinality(Open') = Cardinality(Open) + 1
  BY <1>1, FiniteOpen, FS_AddElement
<1> QED
  BY <1>2, FiniteOpen, GatewayAssumption DEF SlotsBalance, Open, GateTypes

LEMMA SlotReturned ==
    ASSUME GateTypes, SlotsBalance, NEW r \in Requests, client[r] \notin {"new", "done"},
           slots' = slots + 1, Goes(r, "done")
    PROVE  SlotsBalance'
<1>1. Open' = Open \ {r} /\ r \in Open
  BY DEF Open, Goes, GateTypes
<1>2. Cardinality(Open') = Cardinality(Open) - 1
  BY <1>1, FiniteOpen, FS_RemoveElement
<1> QED
  BY <1>2, FiniteOpen, GatewayAssumption DEF SlotsBalance, Open, GateTypes

LEMMA SlotKept ==
    ASSUME SlotsBalance, slots' = slots,
           \A r \in Requests : client'[r] \in {"new", "done"} <=> client[r] \in {"new", "done"}
    PROVE  SlotsBalance'
<1>1. Open' = Open
  BY DEF Open
<1> QED
  BY <1>1 DEF SlotsBalance, Open

\* Jobs and senders that are left alone, with the requests they belong to.
LEMMA PipelineKept ==
    ASSUME JobInv, SinkInv, UNCHANGED <<handed, lost, sink, dvars>>
    PROVE  JobInv' /\ SinkInv'
BY DEF JobInv, SinkInv, Planned, OwnedJobs, dvars, BatchKey, SeenKey, NoJob

LEMMA ClientKept ==
    ASSUME NEW r \in Requests, ClientOf(r), client'[r] = client[r], reply'[r] = reply[r],
           handler'[r] = handler[r], sink'[r] = sink[r] \/ sink[r] # "429"
    PROVE  ClientOf(r)'
BY DEF ClientOf

\* A handler, or the body stream it left behind, that ends.
LEMMA FinishKeeps ==
    ASSUME GatewayInv, NEW r \in Requests, NEW answer \in Replies, Finish(r, answer),
           client[r] \notin {"new", "done"}, UNCHANGED <<vars, sink, dvars>>,
           answer \in {"429", "413"} /\ handler[r] = "accepted" => sink[r] = "429"
    PROVE  GateInv'
<1>1. /\ GateTypes /\ JobInv /\ SinkInv /\ ClientInv /\ SlotsBalance
      /\ UNCHANGED <<handed, lost, handler, sink, dvars>>
  BY DEF GatewayInv, GateInv, vars
<1>2. GateTypes'
  BY <1>1 DEF GateTypes, Finish, Goes, ClientStates
<1>3. ASSUME NEW q \in Requests PROVE ClientOf(q)'
  <2>1. CASE q = r
    BY <1>1, <2>1 DEF ClientOf, Finish, Goes, GateTypes
  <2>2. CASE q # r
    BY <1>1, <2>2, ClientKept DEF ClientInv, Finish, Goes, GateTypes
  <2> QED
    BY <2>1, <2>2
<1>4. SlotsBalance'
  BY <1>1, SlotReturned DEF Finish
<1> QED
  BY <1>1, <1>2, <1>3, <1>4, PipelineKept DEF GateInv, ClientInv

\* A handler that goes on, without an answer.
LEMMA GoesKeeps ==
    ASSUME GatewayInv, NEW r \in Requests, NEW state \in ClientStates, Goes(r, state),
           client[r] # "done", UNCHANGED <<vars, reply, sink, dvars>>,
           state \in {"new", "reading_body"} => handler[r] = "enqueue",
           state \in {"waiting", "streaming"} => handler[r] = "accepted",
           slots' \in Nat, SlotsBalance'
    PROVE  GateInv'
<1>1. /\ GateTypes /\ JobInv /\ SinkInv /\ ClientInv
      /\ UNCHANGED <<handed, lost, handler, sink, dvars>>
  BY DEF GatewayInv, GateInv, vars
<1>2. GateTypes'
  BY <1>1 DEF GateTypes, Goes
<1>3. ASSUME NEW q \in Requests PROVE ClientOf(q)'
  <2>1. CASE q = r
    BY <1>1, <2>1 DEF ClientInv, ClientOf, Goes, GateTypes
  <2>2. CASE q # r
    BY <1>1, <2>2, ClientKept DEF ClientInv, Goes, GateTypes
  <2> QED
    BY <2>1, <2>2
<1> QED
  BY <1>1, <1>2, <1>3, PipelineKept DEF GateInv, ClientInv

LEMMA UploadKeeps ==
    ASSUME GatewayInv, NEW r \in Requests, Upload(r)
    PROVE  GateInv'
<1>0. GateTypes /\ JobInv /\ SinkInv /\ ClientInv /\ SlotsBalance
  BY DEF GatewayInv, GateInv
<1>1. CASE Arrive(r) /\ slots > 0
  <2>1. client[r] = "new" /\ slots' = slots - 1 /\ slots' \in Nat /\ Goes(r, "reading_body")
    BY <1>0, <1>1 DEF Arrive, Admitted, GateTypes
  <2>2. SlotsBalance'
    BY <1>0, <2>1, SlotTaken
  <2> QED
    BY <1>0, <1>1, <2>1, <2>2, GoesKeeps DEF Arrive, Admitted, ClientStates, ClientInv, ClientOf
<1>2. CASE Arrive(r) /\ ~(slots > 0)
  <2>1. /\ UNCHANGED <<vars, slots, sink, dvars, handed, lost, handler>>
        /\ client' = [client EXCEPT ![r] = "done"] /\ client[r] = "new"
        /\ reply' = [reply EXCEPT ![r] = "429"]
        /\ handler[r] = "enqueue"
    BY <1>0, <1>2 DEF Arrive, TooMany, Goes, vars, ClientInv, ClientOf
  <2>2. GateTypes'
    BY <1>0, <2>1 DEF GateTypes, ClientStates, Replies
  <2>3. ASSUME NEW q \in Requests PROVE ClientOf(q)'
    <3>1. CASE q = r
      BY <1>0, <2>1, <3>1 DEF ClientOf, GateTypes
    <3>2. CASE q # r
      BY <1>0, <2>1, <3>2, ClientKept DEF ClientInv, GateTypes
    <3> QED
      BY <3>1, <3>2
  <2>4. SlotsBalance'
    BY <1>0, <2>1, SlotKept DEF GateTypes
  <2> QED
    BY <1>0, <2>1, <2>2, <2>3, <2>4, PipelineKept DEF GateInv, ClientInv
<1>3. CASE BodyRead(r)
  <2>1. client[r] = "reading_body" /\ slots' = slots /\ Goes(r, "enqueueing")
    BY <1>3 DEF BodyRead
  <2>2. SlotsBalance' /\ slots' \in Nat
    BY <1>0, <2>1, SlotKept DEF Goes, GateTypes
  <2> QED
    BY <1>3, <2>1, <2>2, GoesKeeps DEF BodyRead, ClientStates
<1>4. CASE BodyTooLarge(r)
  <2>1. client[r] = "reading_body" /\ Finish(r, "413") /\ handler[r] = "enqueue"
    BY <1>0, <1>4 DEF BodyTooLarge, ClientInv, ClientOf
  <2> QED
    BY <1>4, <2>1, FinishKeeps DEF BodyTooLarge, Replies
<1> QED
  BY <1>1, <1>2, <1>3, <1>4 DEF Upload

LEMMA HandlerKeeps ==
    ASSUME GatewayInv, NEW r \in Requests,
           \/ EnqueueFailed(r) \/ EnqueueDone(r) \/ TakeResponse(r) \/ TakeHead(r)
           \/ BodyEnds(r) \/ TakeDropped(r) \/ Timeout(r) \/ Disconnect(r)
    PROVE  GateInv'
<1>0. GateTypes /\ JobInv /\ SinkInv /\ ClientInv /\ SlotsBalance
  BY DEF GatewayInv, GateInv
<1>1. CASE EnqueueFailed(r)
  BY <1>1, FinishKeeps DEF EnqueueFailed, Replies
<1>2. CASE EnqueueDone(r) \/ TakeHead(r)
  <2>1. PICK state \in {"waiting", "streaming"} : Goes(r, state)
    BY <1>2 DEF EnqueueDone, TakeHead
  <2>2. /\ slots' = slots /\ UNCHANGED <<vars, reply, sink, dvars>>
        /\ client[r] \in {"enqueueing", "waiting"} /\ handler[r] = "accepted"
    BY <1>0, <1>2 DEF EnqueueDone, TakeHead, ClientInv, ClientOf
  <2>3. SlotsBalance' /\ slots' \in Nat
    BY <1>0, <2>1, <2>2, SlotKept DEF Goes, GateTypes
  <2> QED
    BY <2>1, <2>2, <2>3, GoesKeeps DEF ClientStates
<1>3. CASE TakeResponse(r)
  BY <1>3, FinishKeeps DEF TakeResponse, Replies
<1>4. CASE BodyEnds(r)
  BY <1>4, FinishKeeps DEF BodyEnds, Replies
<1>5. CASE TakeDropped(r)
  BY <1>5, FinishKeeps DEF TakeDropped, Replies
<1>6. CASE Timeout(r)
  BY <1>6, FinishKeeps DEF Timeout, Replies
<1>7. CASE Disconnect(r)
  BY <1>7, FinishKeeps DEF Disconnect, Replies
<1> QED
  BY <1>1, <1>2, <1>3, <1>4, <1>5, <1>6, <1>7

\* The call to enqueue moves its request into a channel, or gives up.
LEMMA EnqueueKeeps ==
    ASSUME GatewayInv, NEW r \in Requests, EnqueueStep(r)
    PROVE  GateInv'
<1>1. /\ GateTypes /\ JobInv /\ SinkInv /\ ClientInv /\ SlotsBalance /\ TypeOK
      /\ client[r] = "enqueueing" /\ Enqueue(r)
      /\ UNCHANGED <<client, reply, slots, sink, dvars>>
  BY DEF GatewayInv, PartsInv, TypeInv, GateInv, EnqueueStep, hvars
<1>2. /\ UNCHANGED <<handed, lost>>
      /\ \A q \in Requests : q # r => handler'[q] = handler[q]
  BY <1>1 DEF TypeOK, Enqueue, LookupOccupied, LookupVacant, TrySend, TrySendFull,
              TrySendClosed, RemoveClosed
<1>3. ASSUME NEW q \in Requests PROVE ClientOf(q)'
  <2>1. CASE q = r
    BY <1>1, <2>1 DEF ClientInv, ClientOf
  <2>2. CASE q # r
    BY <1>1, <1>2, <2>2, ClientKept DEF ClientInv
  <2> QED
    BY <2>1, <2>2
<1>4. GateTypes' /\ SlotsBalance'
  BY <1>1, SlotKept DEF GateTypes
<1> QED
  BY <1>1, <1>2, <1>3, <1>4, PipelineKept DEF GateInv, ClientInv

-----------------------------------------------------------------------------
(* The batchers keep it.                                                    *)

\* Requests that a batcher still has are in no job, and their senders unused.
LEMMA StillBatched ==
    ASSUME GatewayInv, NEW c \in Chans, NEW S,
           S \subseteq Range(queue[c]) \cup Range(batch[c])
    PROVE  /\ \A r \in S : /\ r \in Requests /\ r \notin handed \cup lost
                           /\ sink[r] = "held"
           /\ \A K \in Planned : K \cap S = {}
<1>1. TypeOK /\ Custody /\ JobInv /\ SinkInv
  BY DEF GatewayInv, PartsInv, TypeInv, GateInv
<1>2. queue[c] \in Seq(Requests) /\ batch[c] \in Seq(Requests)
  BY <1>1 DEF TypeOK
<1>3. Range(queue[c]) \cup Range(batch[c]) \subseteq Requests
  BY <1>2 DEF Range
<1>4. \A r \in S : r \in Requests /\ Waiting(r)
  BY <1>3 DEF Waiting
<1>5. \A r \in S : r \notin handed \cup lost
  BY <1>1, <1>4 DEF Custody
<1> QED
  BY <1>1, <1>4, <1>5 DEF SinkInv, JobInv

\* A part is cut off a batch of one key.
LEMMA PartOfBatch ==
    ASSUME GatewayInv, NEW c \in Chans, NEW n \in 1 .. Len(batch[c])
    PROVE  LET J == {batch[c][i] : i \in 1 .. n} IN
           /\ J \in Parts /\ J \subseteq Range(batch[c])
           /\ \A r, s \in J : BatchKey(r) = BatchKey(s)
<1> DEFINE J == {batch[c][i] : i \in 1 .. n}
<1>1. TypeOK /\ KeyInv
  BY DEF GatewayInv, PartsInv, TypeInv
<1>2. batch[c] \in Seq(Requests)
  BY <1>1 DEF TypeOK
<1>3. PICK m \in Nat : m = Len(batch[c]) /\ DOMAIN batch[c] = 1 .. m
  BY <1>2, LenProperties
<1>4. \A i \in 1 .. n : i \in 1 .. m
  BY <1>3
<1>5. J \subseteq Range(batch[c])
  BY <1>3, <1>4 DEF Range
<1>6. \A i \in 1 .. n : BatchKey(batch[c][i]) = KeyOf(c)
  BY <1>1, <1>3, <1>4 DEF KeyInv
<1> QED
  BY <1>1, <1>5, <1>6, PartType

\* What all steps of a batcher have in common: senders change from held only.
LEMMA BatcherGate ==
    ASSUME GatewayInv, UNCHANGED <<hvars, handler>>, sink' \in [Requests -> SinkStates],
           \A r \in Requests : sink'[r] = sink[r] \/ sink[r] = "held"
    PROVE  GateTypes' /\ ClientInv' /\ SlotsBalance'
<1>1. GateTypes /\ ClientInv /\ SlotsBalance /\ UNCHANGED <<client, reply, slots, handler>>
  BY DEF GatewayInv, GateInv, hvars
<1>2. ClientInv'
  BY <1>1, ClientKept DEF ClientInv
<1> QED
  BY <1>1, <1>2, SlotKept DEF GateTypes

LEMMA SubmitKeeps ==
    ASSUME GatewayInv, NEW c \in Chans, NEW n \in 1 .. Len(batch[c]), FlushInvoke(c, n)
    PROVE  GateInv'
<1> DEFINE J == {batch[c][i] : i \in 1 .. n}
<1>1. /\ J \in Parts /\ J \subseteq Requests /\ J # {}
      /\ J \cap (handed \cup lost) = {}
      /\ \A r \in J : sink[r] = "held"
      /\ \A K \in Planned : K \cap J = {}
      /\ \A r, s \in J : BatchKey(r) = BatchKey(s)
  <2>1. /\ J \in Parts /\ J \subseteq Range(batch[c])
        /\ \A r, s \in J : BatchKey(r) = BatchKey(s)
    BY PartOfBatch
  <2> HIDE DEF J
  <2>2. /\ \A r \in J : r \in Requests /\ r \notin handed \cup lost /\ sink[r] = "held"
        /\ \A K \in Planned : K \cap J = {}
    BY <2>1, StillBatched
  <2> QED
    BY <2>1, <2>2 DEF Parts, NoJob
<1>2. /\ handed' = handed \cup J
      /\ UNCHANGED <<lost, hvars, handler>>
      /\ \/ D!Submit(J) /\ UNCHANGED sink
         \/ D!SubmitFull(J) /\ Answer(J, "429")
  BY DEF FlushInvoke, FlushPart
<1>3. /\ GateTypes /\ JobInv /\ SinkInv
      /\ channel \in Seq(Parts) /\ streaming \subseteq running
  BY DEF GatewayInv, GateInv, PartsInv, D!DTypeOK, D!OnePlace
<1> HIDE DEF J
<1>4. CASE D!Submit(J) /\ UNCHANGED sink
  <2>1. Range(channel') = Range(channel) \cup {J}
    BY <1>1, <1>3, <1>4, RangeOfAppend DEF D!Submit
  <2>2. /\ OwnedJobs' = OwnedJobs \cup {J} /\ Planned' = Planned \cup {J}
        /\ UNCHANGED <<running, streaming, answered, rejected, sink>>
    BY <1>4, <2>1 DEF D!Submit, OwnedJobs, Planned, NoJob
  <2>3. JobInv'
    <3>1. \A K \in Planned' : K \subseteq handed'
      BY <1>2, <1>3, <2>2 DEF JobInv
    <3>2. \A K, L \in Planned' : K # L => K \cap L = {}
      BY <1>1, <1>3, <2>2 DEF JobInv
    <3>3. \A K \in Planned' : \A r, s \in K : BatchKey(r) = BatchKey(s)
      BY <1>1, <1>3, <2>2 DEF JobInv
    <3> QED
      BY <3>1, <3>2, <3>3 DEF JobInv, BatchKey, SeenKey
  <2>4. SinkInv'
    <3>1. /\ \A r \in Requests : r \notin handed' \cup lost' => sink'[r] = "held"
          /\ \A r \in lost' : sink'[r] = "dropped"
      BY <1>2, <1>3, <2>2 DEF SinkInv
    <3>2. \A r \in handed' : (\A K \in Planned' : r \notin K) => sink'[r] = "502"
      BY <1>2, <1>3, <2>2 DEF SinkInv
    <3>3. \A K \in OwnedJobs' : K \notin streaming' => \A r \in K : sink'[r] = "held"
      BY <1>1, <1>3, <2>2 DEF SinkInv
    <3> QED
      BY <1>3, <2>2, <3>1, <3>2, <3>3 DEF SinkInv
  <2>5. GateTypes' /\ ClientInv' /\ SlotsBalance'
    BY <1>2, <1>3, <1>4, BatcherGate DEF GateTypes
  <2> QED
    BY <2>3, <2>4, <2>5 DEF GateInv
<1>5. CASE D!SubmitFull(J) /\ Answer(J, "429")
  <2>1. /\ rejected' = rejected \cup {J}
        /\ OwnedJobs' = OwnedJobs /\ Planned' = Planned \cup {J}
        /\ UNCHANGED <<running, streaming, answered>>
    BY <1>5 DEF D!SubmitFull, OwnedJobs, Planned, NoJob
  <2>2. /\ \A r \in Requests : sink'[r] = IF r \in J THEN "429" ELSE sink[r]
        /\ sink' \in [Requests -> SinkStates]
    BY <1>3, <1>5 DEF Answer, GateTypes, SinkStates
  <2>3. /\ \A K \in Planned : \A r \in K : r \in Requests /\ r \notin J /\ sink'[r] = sink[r]
        /\ handed \subseteq Requests /\ lost \subseteq Requests
    BY <1>1, <1>3, <2>2 DEF JobInv, GatewayInv, PartsInv, TypeInv, TypeOK
  <2>4. JobInv'
    <3>1. \A K \in Planned' : K \subseteq handed'
      BY <1>2, <1>3, <2>1 DEF JobInv
    <3>2. \A K, L \in Planned' : K # L => K \cap L = {}
      BY <1>1, <1>3, <2>1 DEF JobInv
    <3>3. \A K \in Planned' : \A r, s \in K : BatchKey(r) = BatchKey(s)
      BY <1>1, <1>3, <2>1 DEF JobInv
    <3> QED
      BY <3>1, <3>2, <3>3 DEF JobInv, BatchKey, SeenKey
  <2>5. SinkInv'
    <3>1. /\ \A r \in Requests : r \notin handed' \cup lost' => sink'[r] = "held"
          /\ \A r \in lost' : sink'[r] = "dropped"
      BY <1>1, <1>2, <1>3, <2>2, <2>3 DEF SinkInv
    <3>2. \A r \in handed' : (\A K \in Planned' : r \notin K) => sink'[r] = "502"
      BY <1>2, <1>3, <2>1, <2>2, <2>3 DEF SinkInv
    <3>3. \A K \in OwnedJobs' : K \notin streaming' => \A r \in K : sink'[r] = "held"
      BY <1>3, <2>1, <2>3 DEF SinkInv, Planned
    <3>4. \A K \in streaming' \cup answered : K \in Planned
      BY <1>3, <2>1 DEF Planned, OwnedJobs
    <3>5. \A K \in rejected' : \A r \in K : sink'[r] = "429"
      BY <1>1, <1>3, <2>1, <2>2, <2>3 DEF SinkInv, Planned
    <3> QED
      BY <1>3, <2>1, <2>3, <3>1, <3>2, <3>3, <3>4, <3>5 DEF SinkInv
  <2>6. GateTypes' /\ ClientInv' /\ SlotsBalance'
    BY <1>1, <1>2, <2>2, BatcherGate
  <2> QED
    BY <2>4, <2>5, <2>6 DEF GateInv
<1> QED
  BY <1>2, <1>4, <1>5

\* Requests that leave a batcher without a job: too large, or dropped.
LEMMA LeaveKeeps ==
    ASSUME GatewayInv, NEW c \in Chans, NEW S, S \subseteq Range(queue[c]) \cup Range(batch[c]),
           UNCHANGED <<hvars, handler, dvars>>,
           \/ handed' = handed \cup S /\ lost' = lost /\ Answer(S, "502")
           \/ lost' = lost \cup S /\ handed' = handed /\ Answer(S, "dropped")
    PROVE  GateInv'
<1>1. /\ \A r \in S : r \in Requests /\ r \notin handed \cup lost /\ sink[r] = "held"
      /\ \A K \in Planned : K \cap S = {}
  BY StillBatched
<1>2. /\ GateTypes /\ JobInv /\ SinkInv /\ streaming \subseteq running
      /\ handed \subseteq Requests /\ lost \subseteq Requests
  BY DEF GatewayInv, GateInv, PartsInv, TypeInv, TypeOK, D!OnePlace
<1>3. /\ OwnedJobs' = OwnedJobs /\ Planned' = Planned
      /\ UNCHANGED <<streaming, answered, rejected>>
  BY DEF dvars, OwnedJobs, Planned, NoJob
<1>4. /\ sink' \in [Requests -> SinkStates]
      /\ \A r \in Requests : r \notin S => sink'[r] = sink[r]
  BY <1>2 DEF Answer, GateTypes, SinkStates
<1>5. /\ \A K \in Planned : \A r \in K : r \in Requests /\ r \notin S /\ sink'[r] = sink[r]
      /\ OwnedJobs \cup streaming \cup answered \cup rejected \subseteq Planned
  BY <1>1, <1>2, <1>4 DEF JobInv, Planned, OwnedJobs
<1>6. JobInv'
  BY <1>2, <1>3 DEF JobInv, BatchKey, SeenKey
<1>7. SinkInv'
  <2>1. /\ \A r \in Requests : r \notin handed' \cup lost' => sink'[r] = "held"
        /\ \A r \in lost' : sink'[r] = "dropped"
        /\ \A r \in handed' : (\A K \in Planned : r \notin K) => sink'[r] = "502"
    <3>1. CASE handed' = handed \cup S /\ lost' = lost /\ Answer(S, "502")
      BY <1>1, <1>2, <1>4, <3>1 DEF SinkInv, Answer
    <3>2. CASE lost' = lost \cup S /\ handed' = handed /\ Answer(S, "dropped")
      BY <1>1, <1>2, <1>4, <3>2 DEF SinkInv, Answer
    <3> QED
      BY <3>1, <3>2
  <2> QED
    BY <1>2, <1>3, <1>5, <2>1 DEF SinkInv
<1>8. GateTypes' /\ ClientInv' /\ SlotsBalance'
  BY <1>1, <1>4, BatcherGate
<1> QED
  BY <1>6, <1>7, <1>8 DEF GateInv

LEMMA BatcherKeeps ==
    ASSUME GatewayInv, NEW c \in Chans, BatcherStep(c)
    PROVE  GateInv'
<1>1. TypeOK /\ GateTypes /\ JobInv /\ SinkInv
  BY DEF GatewayInv, GateInv, PartsInv, TypeInv
<1>2. CASE FlushTooLarge(c)
  <2> DEFINE S == {batch[c][1]}
  <2>1. 1 \in 1 .. Len(batch[c]) /\ {batch[c][i] : i \in 1 .. 1} = S
    BY <1>2 DEF FlushTooLarge, FlushPart
  <2>2. S \subseteq Range(queue[c]) \cup Range(batch[c])
    BY <2>1, PartOfBatch
  <2>3. /\ handed' = handed \cup S /\ lost' = lost /\ Answer(S, "502")
        /\ UNCHANGED <<hvars, handler, dvars>>
    BY <1>2, <2>1 DEF FlushTooLarge, FlushPart
  <2> HIDE DEF S
  <2> QED
    BY <2>2, <2>3, LeaveKeeps
<1>3. CASE EvictDropping(c)
  <2>1. /\ lost' = lost \cup Range(queue[c]) /\ handed' = handed
        /\ Answer(Range(queue[c]), "dropped")
        /\ UNCHANGED <<hvars, handler, dvars>>
    BY <1>3 DEF EvictDropping, DropReceiver
  <2> QED
    BY <2>1, LeaveKeeps
<1>4. CASE /\ \/ ReceiveFirst(c) \/ ReceiveMore(c)
              \/ IdleExpires(c) \/ RecvDisconnected(c)
              \/ WindowExpires(c) \/ CollectDisconnected(c)
              \/ RemoveSelf(c)
           /\ UNCHANGED <<hvars, sink, dvars>>
  <2>1. UNCHANGED <<handler, handed, lost, hvars, sink, dvars>>
    BY <1>4 DEF ReceiveFirst, ReceiveMore, Receive, IdleExpires, RecvDisconnected,
                WindowExpires, CollectDisconnected, Goto, RemoveSelf
  <2>2. GateTypes' /\ ClientInv' /\ SlotsBalance'
    BY <1>1, <2>1, BatcherGate DEF GateTypes
  <2> QED
    BY <1>1, <2>1, <2>2, PipelineKept DEF GateInv
<1> QED
  BY <1>2, <1>3, <1>4, SubmitKeeps DEF BatcherStep

-----------------------------------------------------------------------------
(* The dispatcher and the invocations keep it.                              *)

\* What all their steps have in common: a sender that told 429 stays so.
LEMMA InvocationGate ==
    ASSUME GatewayInv, UNCHANGED <<vars, hvars>>, sink' \in [Requests -> SinkStates],
           \A r \in Requests : sink'[r] = sink[r] \/ sink[r] # "429"
    PROVE  GateTypes' /\ ClientInv' /\ SlotsBalance'
<1>1. GateTypes /\ ClientInv /\ SlotsBalance /\ UNCHANGED <<client, reply, slots, handler>>
  BY DEF GatewayInv, GateInv, hvars, vars
<1>2. ClientInv'
  BY <1>1, ClientKept DEF ClientInv
<1> QED
  BY <1>1, <1>2, SlotKept DEF GateTypes

LEMMA DispatcherKeeps ==
    ASSUME GatewayInv, DispatcherStep
    PROVE  GateInv'
<1>1. /\ JobInv /\ SinkInv /\ GateTypes
      /\ channel \in Seq(Parts) /\ held \in Parts \cup {NoJob} /\ NoJob \notin Parts
  BY PartsFacts DEF GatewayInv, GateInv, PartsInv, D!DTypeOK
<1>2. UNCHANGED <<vars, hvars, handed, lost, sink, streaming, answered, rejected>>
  BY DEF DispatcherStep, D!ReceiveJob, D!AcquirePermit, vars
<1>3. OwnedJobs' = OwnedJobs
  <2>1. CASE D!ReceiveJob
    <3>1. /\ channel # <<>> /\ held = NoJob /\ running' = running
          /\ held' = Head(channel) /\ channel' = Tail(channel)
      BY <2>1 DEF D!ReceiveJob
    <3>2. Range(channel) = Range(Tail(channel)) \cup {Head(channel)} /\ Head(channel) \in Parts
      BY <1>1, <3>1, RangeOfTail, TailElems
    <3> QED
      BY <1>1, <3>1, <3>2 DEF OwnedJobs, NoJob
  <2>2. CASE D!AcquirePermit
    BY <1>1, <2>2 DEF D!AcquirePermit, OwnedJobs, NoJob
  <2> QED
    BY <2>1, <2>2 DEF DispatcherStep
<1>4. JobInv' /\ SinkInv'
  BY <1>1, <1>2, <1>3 DEF JobInv, SinkInv, Planned, BatchKey, SeenKey
<1>5. GateTypes' /\ ClientInv' /\ SlotsBalance'
  BY <1>1, <1>2, InvocationGate DEF GateTypes
<1> QED
  BY <1>4, <1>5 DEF GateInv

\* The senders of a job that is running, and of all other jobs.
LEMMA JobSenders ==
    ASSUME GatewayInv, NEW J \in running
    PROVE  /\ J \in Planned /\ J \subseteq Requests /\ J \cap lost = {}
           /\ \A r \in J : sink[r] \in {"held", "head", "ok", "502", "closed"}
           /\ J \notin streaming => \A r \in J : sink[r] = "held"
           /\ \A K \in Planned : K # J => K \cap J = {}
           /\ J \notin Range(channel) \cup answered \cup rejected /\ J # held
           /\ OwnedJobs \cup streaming \cup answered \cup rejected \subseteq Planned
<1>1. /\ JobInv /\ SinkInv /\ Custody /\ handed \subseteq Requests
      /\ D!OnePlace /\ D!DTypeOK
  BY DEF GatewayInv, GateInv, PartsInv, TypeInv, TypeOK
<1>2. J \in OwnedJobs
  BY DEF OwnedJobs
<1>3. J \in Planned /\ J \subseteq handed
  BY <1>1, <1>2 DEF Planned, JobInv
<1>4. J \subseteq Requests /\ J \cap lost = {}
  BY <1>1, <1>3 DEF Custody
<1>5. /\ \A r \in J : sink[r] \in {"held", "head", "ok", "502", "closed"}
      /\ J \notin streaming => \A r \in J : sink[r] = "held"
  BY <1>1, <1>2 DEF SinkInv
<1>6. J \notin Range(channel) \cup answered \cup rejected /\ J # held /\ streaming \subseteq running
  BY <1>1, SameOperators DEF D!OnePlace
<1>7. OwnedJobs \cup streaming \cup answered \cup rejected \subseteq Planned
  BY <1>6 DEF Planned, OwnedJobs
<1> QED
  BY <1>1, <1>3, <1>4, <1>5, <1>6, <1>7 DEF JobInv

\* A job that is answered: only its own senders are used, and all of them are.
LEMMA ReturnKeeps ==
    ASSUME GatewayInv, NEW J \in running, D!Return(J),
           UNCHANGED <<vars, hvars, channel, held, rejected>>,
           sink' \in [Requests -> SinkStates],
           \A r \in Requests : r \notin J => sink'[r] = sink[r],
           \A r \in J : sink'[r] \in {"ok", "502", "closed", "dropped"}
    PROVE  GateInv'
<1>1. /\ J \in Planned /\ J \subseteq Requests /\ J \cap lost = {}
      /\ \A r \in J : sink[r] \in {"held", "head", "ok", "502", "closed"}
      /\ \A K \in Planned : K # J => K \cap J = {}
      /\ J \notin Range(channel) \cup answered \cup rejected /\ J # held
      /\ OwnedJobs \cup streaming \cup answered \cup rejected \subseteq Planned
  BY JobSenders
<1>2. /\ JobInv /\ SinkInv /\ handed \subseteq Requests /\ lost \subseteq Requests
  BY DEF GatewayInv, GateInv, PartsInv, TypeInv, TypeOK
<1>3. /\ OwnedJobs' = OwnedJobs \ {J} /\ Planned' = Planned
      /\ streaming' = streaming \ {J} /\ answered' = answered \cup {J}
      /\ UNCHANGED <<handed, lost, rejected>>
  BY <1>1 DEF D!Return, OwnedJobs, Planned, vars, NoJob
<1>4. JobInv'
  BY <1>2, <1>3 DEF JobInv, BatchKey, SeenKey
<1>5. \A K \in Planned : K # J => \A r \in K : sink'[r] = sink[r]
  BY <1>1, <1>2 DEF JobInv
<1>6. SinkInv'
  <2>1. /\ \A r \in Requests : r \notin handed' \cup lost' => sink'[r] = "held"
        /\ \A r \in lost' : sink'[r] = "dropped"
        /\ \A r \in handed' : (\A K \in Planned' : r \notin K) => sink'[r] = "502"
    BY <1>1, <1>2, <1>3 DEF SinkInv, JobInv
  <2>2. \A K \in OwnedJobs' : K \notin streaming' => \A r \in K : sink'[r] = "held"
    BY <1>1, <1>2, <1>3, <1>5 DEF SinkInv
  <2>3. /\ \A K \in streaming' : \A r \in K : sink'[r] \in {"held", "head", "ok", "502", "closed"}
        /\ \A K \in answered' : \A r \in K : sink'[r] \in {"ok", "502", "closed", "dropped"}
        /\ \A K \in rejected' : \A r \in K : sink'[r] = "429"
    BY <1>1, <1>2, <1>3, <1>5 DEF SinkInv
  <2> QED
    BY <2>1, <2>2, <2>3 DEF SinkInv
<1>7. GateTypes' /\ ClientInv' /\ SlotsBalance'
  BY <1>1, InvocationGate
<1> QED
  BY <1>4, <1>6, <1>7 DEF GateInv

\* A job that goes on streaming, whatever was sent to its own clients.
LEMMA StreamKeeps ==
    ASSUME GatewayInv, NEW J \in running,
           UNCHANGED <<vars, hvars, channel, held, running, answered, rejected>>,
           streaming' = streaming \cup {J},
           sink' \in [Requests -> SinkStates],
           \A r \in Requests : r \notin J => sink'[r] = sink[r],
           \A r \in J : sink'[r] \in {"held", "head", "ok", "502", "closed"}
    PROVE  GateInv'
<1>1. /\ J \in Planned /\ J \subseteq Requests /\ J \cap lost = {}
      /\ \A r \in J : sink[r] \in {"held", "head", "ok", "502", "closed"}
      /\ \A K \in Planned : K # J => K \cap J = {}
      /\ J \notin Range(channel) \cup answered \cup rejected
      /\ OwnedJobs \cup streaming \cup answered \cup rejected \subseteq Planned
  BY JobSenders
<1>2. /\ JobInv /\ SinkInv /\ handed \subseteq Requests /\ lost \subseteq Requests
  BY DEF GatewayInv, GateInv, PartsInv, TypeInv, TypeOK
<1>3. /\ OwnedJobs' = OwnedJobs /\ Planned' = Planned
      /\ UNCHANGED <<handed, lost, answered, rejected>>
  BY DEF OwnedJobs, Planned, vars, NoJob
<1>4. JobInv'
  BY <1>2, <1>3 DEF JobInv, BatchKey, SeenKey
<1>5. \A K \in Planned : K # J => \A r \in K : sink'[r] = sink[r]
  BY <1>1, <1>2 DEF JobInv
<1>6. SinkInv'
  <2>1. /\ \A r \in Requests : r \notin handed' \cup lost' => sink'[r] = "held"
        /\ \A r \in lost' : sink'[r] = "dropped"
        /\ \A r \in handed' : (\A K \in Planned' : r \notin K) => sink'[r] = "502"
    BY <1>1, <1>2, <1>3 DEF SinkInv, JobInv
  <2>2. \A K \in OwnedJobs' : K \notin streaming' => \A r \in K : sink'[r] = "held"
    BY <1>1, <1>2, <1>3, <1>5 DEF SinkInv
  <2>3. /\ \A K \in streaming' : \A r \in K : sink'[r] \in {"held", "head", "ok", "502", "closed"}
        /\ \A K \in answered' : \A r \in K : sink'[r] \in {"ok", "502", "closed", "dropped"}
        /\ \A K \in rejected' : \A r \in K : sink'[r] = "429"
    BY <1>1, <1>2, <1>3, <1>5 DEF SinkInv
  <2> QED
    BY <2>1, <2>2, <2>3 DEF SinkInv
<1>7. GateTypes' /\ ClientInv' /\ SlotsBalance'
  BY <1>1, InvocationGate
<1> QED
  BY <1>4, <1>6, <1>7 DEF GateInv

LEMMA InvocationKeeps ==
    ASSUME GatewayInv, NEW J \in Parts, InvocationStep(J)
    PROVE  GateInv'
<1>1. /\ streaming \subseteq running
      /\ sink \in [Requests -> SinkStates]
      /\ JobInv /\ SinkInv
  BY DEF GatewayInv, GateInv, GateTypes, PartsInv, D!OnePlace
<1>2. CASE BufferedResult(J)
  <2>1. PICK good \in SUBSET J :
           sink' = [r \in Requests |-> IF r \in good THEN "ok" ELSE FailAll(J)[r]]
    BY <1>2 DEF BufferedResult
  <2>2. J \in running \ streaming /\ D!Return(J) /\ UNCHANGED <<vars, hvars, channel, held, rejected>>
    BY <1>2 DEF BufferedResult, D!InvokeReturns
  <2>3. J \subseteq Requests /\ \A r \in J : sink[r] = "held"
    BY <2>2, JobSenders
  <2>4. /\ sink' \in [Requests -> SinkStates]
        /\ \A r \in Requests : r \notin J => sink'[r] = sink[r]
        /\ \A r \in J : sink'[r] \in {"ok", "502"}
    BY <1>1, <2>1, <2>3 DEF FailAll, SinkStates
  <2> QED
    BY <2>2, <2>4, ReturnKeeps
<1>3. CASE \E r \in J : StreamRecord(J, r)
  <2>1. PICK r \in J : StreamRecord(J, r)
    BY <1>3
  <2>2. /\ J \in streaming /\ J \in running
        /\ UNCHANGED <<vars, hvars, channel, held, running, streaming, answered, rejected>>
    BY <1>1, <2>1 DEF StreamRecord, dvars
  <2>3. PICK s \in {"head", "ok", "502", "closed"} : Answer({r}, s)
    BY <2>1 DEF StreamRecord
  <2>4. J \subseteq Requests /\ \A q \in J : sink[q] \in {"held", "head", "ok", "502", "closed"}
    BY <2>2, JobSenders
  <2>5. /\ sink' \in [Requests -> SinkStates]
        /\ \A q \in Requests : q \notin J => sink'[q] = sink[q]
        /\ \A q \in J : sink'[q] \in {"held", "head", "ok", "502", "closed"}
    BY <1>1, <2>3, <2>4 DEF Answer, SinkStates
  <2> QED
    BY <2>2, <2>5, StreamKeeps
<1>4. CASE StreamFinished(J)
  <2>1. J \in running /\ D!Return(J) /\ UNCHANGED <<vars, hvars, channel, held, rejected>>
    BY <1>1, <1>4 DEF StreamFinished, D!StreamDispatched, D!StreamAbandoned
  <2>2. J \subseteq Requests /\ \A r \in J : sink[r] \in {"held", "head", "ok", "502", "closed"}
    BY <2>1, JobSenders
  <2>3. /\ FailAll(J) \in [Requests -> SinkStates]
        /\ \A r \in Requests : r \notin J => FailAll(J)[r] = sink[r]
        /\ \A r \in J : FailAll(J)[r] \in {"ok", "502", "closed"}
    BY <1>1, <2>2 DEF FailAll, SinkStates
  <2>4. \/ sink' = FailAll(J)
        \/ \E r \in J : sink' = [FailAll(J) EXCEPT ![r] = "dropped"]
    BY <1>4 DEF StreamFinished
  <2>5. /\ sink' \in [Requests -> SinkStates]
        /\ \A r \in Requests : r \notin J => sink'[r] = sink[r]
        /\ \A r \in J : sink'[r] \in {"ok", "502", "closed", "dropped"}
    BY <2>2, <2>3, <2>4 DEF SinkStates
  <2> QED
    BY <2>1, <2>5, ReturnKeeps
<1>5. CASE D!StreamOpens(J) /\ UNCHANGED <<vars, hvars, sink>>
  <2>1. /\ J \in running /\ streaming' = streaming \cup {J}
        /\ UNCHANGED <<channel, held, running, answered, rejected>>
    BY <1>5 DEF D!StreamOpens
  <2>2. \A r \in J : sink'[r] \in {"held", "head", "ok", "502", "closed"}
    BY <1>5, <2>1, JobSenders
  <2> QED
    BY <1>1, <1>5, <2>1, <2>2, StreamKeeps
<1>6. CASE D!StreamDrained(J) /\ UNCHANGED <<vars, hvars, sink>>
  <2>1. UNCHANGED <<channel, held, running, streaming, answered, rejected, handed, lost>>
    BY <1>6 DEF D!StreamDrained, vars
  <2>2. JobInv' /\ SinkInv'
    BY <1>1, <1>6, <2>1 DEF JobInv, SinkInv, Planned, OwnedJobs, BatchKey, SeenKey, NoJob
  <2>3. GateTypes' /\ ClientInv' /\ SlotsBalance'
    BY <1>1, <1>6, InvocationGate
  <2> QED
    BY <2>2, <2>3 DEF GateInv
<1> QED
  BY <1>2, <1>3, <1>4, <1>5, <1>6 DEF InvocationStep, StreamProgress

LEMMA NextGateway == GatewayInv /\ [GNext]_gvars => GatewayInv'
<1> SUFFICES ASSUME GatewayInv, [GNext]_gvars PROVE GatewayInv'
  OBVIOUS
<1>1. PartsInv'
  BY NextParts DEF GatewayInv
<1>2. CASE UNCHANGED gvars
  <2>1. /\ GateTypes /\ JobInv /\ SinkInv /\ ClientInv /\ SlotsBalance
        /\ UNCHANGED <<client, reply, slots, sink, dvars, handed, lost, handler>>
    BY <1>2 DEF gvars, hvars, vars, GatewayInv, GateInv
  <2>2. GateTypes' /\ SlotsBalance'
    BY <2>1, SlotKept DEF GateTypes
  <2>3. ClientInv'
    BY <2>1, ClientKept DEF ClientInv
  <2> QED
    BY <1>1, <2>1, <2>2, <2>3, PipelineKept DEF GatewayInv, GateInv
<1>3. CASE GQuiescent
  BY <1>2, <1>3 DEF GQuiescent
<1>4. ASSUME NEW r \in Requests, Upload(r) \/ Handle(r) \/ Timeout(r) \/ Disconnect(r)
      PROVE  GateInv'
  BY <1>4, UploadKeeps, HandlerKeeps, EnqueueKeeps DEF Handle
<1> QED
  BY <1>1, <1>2, <1>3, <1>4, BatcherKeeps, DispatcherKeeps, InvocationKeeps
     DEF GNext, GatewayInv

-----------------------------------------------------------------------------
(* The invariants of the gateway.                                           *)

LEMMA GatewayInvariant == GSpec => []GatewayInv
BY InitGateway, NextGateway, PTL DEF GSpec

(***************************************************************************)
(* The variables keep their types: no path of a handler returns a permit it *)
(* does not have, nor takes one when none is left.                          *)
(***************************************************************************)
THEOREM GatewayType == GSpec => []GTypeOK
<1>1. GatewayInv => GTypeOK
  BY DEF GatewayInv, PartsInv, TypeInv, GateInv, GateTypes, GTypeOK
<1> QED
  BY <1>1, GatewayInvariant, PTL

(***************************************************************************)
(* However a request ends (answered, refused, timed out, gone, or with the  *)
(* body stream that outlives its handler) it returns its permit of          *)
(* inflight_requests once.                                                  *)
(***************************************************************************)
THEOREM SlotsAreConserved == GSpec => []SlotsBalance
<1>1. GatewayInv => SlotsBalance
  BY DEF GatewayInv, GateInv
<1> QED
  BY <1>1, GatewayInvariant, PTL

(***************************************************************************)
(* An invocation that returns has sent a response to each of its requests   *)
(* and left no response body open.                                          *)
(***************************************************************************)
THEOREM ReturnedJobsAreAnswered == GSpec => []ReturnedMeansAnswered
<1>1. GatewayInv => ReturnedMeansAnswered
  BY DEF GatewayInv, GateInv, SinkInv, ReturnedMeansAnswered
<1> QED
  BY <1>1, GatewayInvariant, PTL

\* The elements of a batch and of the channel behind it.
LEMMA LineElems ==
    ASSUME TypeOK, NEW c \in Chans
    PROVE  Range(Line(c)) = Range(batch[c]) \cup Range(queue[c])
<1>1. batch[c] \in Seq(Requests) /\ queue[c] \in Seq(Requests)
  BY DEF TypeOK
<1> QED
  BY <1>1, RangeOfConcat DEF Line

(***************************************************************************)
(* As long as nothing was sent to a client that waits, its request is with  *)
(* a batcher that still receives or flushes or in a job that will be        *)
(* invoked: no race of eviction, flush and submission forgets it.           *)
(***************************************************************************)
THEOREM WaitingClientsAreOwed == GSpec => []SomeoneAnswers
<1>1. GatewayInv => SomeoneAnswers
  <2> SUFFICES ASSUME GatewayInv, NEW r \in Requests, client[r] = "waiting", sink[r] = "held"
               PROVE  \/ \E c \in Chans : IsOpen(c) /\ r \in Range(Line(c))
                      \/ \E J \in OwnedJobs : r \in J
    BY DEF SomeoneAnswers
  <2>1. /\ TypeOK /\ Custody /\ RoomInv /\ SinkInv
        /\ handler[r] = "accepted"
    BY DEF GatewayInv, PartsInv, TypeInv, GateInv, ClientInv, ClientOf
  <2>2. CASE Waiting(r)
    <3>1. PICK c \in Chans : r \in Range(queue[c]) \cup Range(batch[c])
      BY <2>2 DEF Waiting
    <3>2. queue[c] # <<>> \/ batch[c] # <<>>
      BY <3>1 DEF Range
    <3>3. IsOpen(c)
      BY <2>1, <3>2 DEF RoomInv, RoomOf, IsOpen, TypeOK, TaskStates
    <3> QED
      BY <2>1, <3>1, <3>3, LineElems
  <2>3. CASE r \in lost
    BY <2>1, <2>3 DEF SinkInv
  <2>4. CASE r \in handed
    BY <2>1, <2>4 DEF SinkInv, Planned
  <2> QED
    BY <2>1, <2>2, <2>3, <2>4 DEF Custody
<1> QED
  BY <1>1, GatewayInvariant, PTL

(***************************************************************************)
(* Requests that wait together have one batch key, with any number of       *)
(* handlers, evictions and invocations around them.                         *)
(***************************************************************************)
THEOREM GatewayIsolatesKeys == GSpec => []KeyIsolation
BY GatewayRunsBatchers, BatchesAreIsolated, PTL

-----------------------------------------------------------------------------
(* The gateway implements RequestLifecycle.                                 *)

Invoked == UNION (running \cup answered)

\* A sender that got a response of the function belongs to an invoked job; one
\* that was told 429, and one whose request was refused, do not.
LEMMA AnswersFit ==
    ASSUME GatewayInv, NEW r \in Requests
    PROVE  /\ sink[r] \in {"ok", "closed", "head"} => r \in Invoked
           /\ sink[r] = "429" => r \notin Invoked
           /\ handler[r] # "accepted" => r \notin Invoked
<1>1. /\ SinkInv /\ JobInv /\ Custody /\ D!OnePlace
      /\ handed \subseteq Requests
  BY DEF GatewayInv, GateInv, PartsInv, TypeInv, TypeOK
<1>2. \A J \in running \cup answered : J \in Planned /\ J \subseteq handed
  BY <1>1 DEF Planned, OwnedJobs, JobInv
<1>3. ASSUME sink[r] \in {"ok", "closed", "head"} PROVE r \in Invoked
  <2>1. r \in handed
    BY <1>1, <1>3 DEF SinkInv
  <2>2. PICK J \in Planned : r \in J
    BY <1>1, <1>3, <2>1 DEF SinkInv
  <2>3. J \in running \cup answered
    BY <1>1, <1>3, <2>2 DEF SinkInv, Planned, D!OnePlace
  <2> QED
    BY <2>2, <2>3 DEF Invoked
<1>4. ASSUME sink[r] = "429" PROVE r \notin Invoked
  BY <1>1, <1>4 DEF SinkInv, Invoked, OwnedJobs
<1>5. ASSUME handler[r] # "accepted" PROVE r \notin Invoked
  BY <1>1, <1>2, <1>5 DEF Custody, Invoked
<1> QED
  BY <1>3, <1>4, <1>5

\* The refinement mapping of a request's phase.
Phase == [r \in Requests |-> IF client[r] \in {"new", "done"} THEN client[r] ELSE "open"]

LEMMA PhaseOf ==
    /\ \A r \in Requests : /\ client[r] = "new" => Phase[r] = "new"
                           /\ client[r] = "done" => Phase[r] = "done"
                           /\ client[r] \notin {"new", "done"} => Phase[r] = "open"
    /\ Phase = [r \in Requests |-> Phase[r]]
BY DEF Phase

\* A step of one handler changes the phase of its request only.
LEMMA PhaseMoves ==
    ASSUME GateTypes, NEW r \in Requests, NEW state, Goes(r, state)
    PROVE  Phase' = [Phase EXCEPT ![r] = IF state \in {"new", "done"} THEN state ELSE "open"]
BY DEF Phase, Goes, GateTypes

LEMMA PhaseKept ==
    ASSUME GateTypes, NEW r \in Requests, NEW state, Goes(r, state),
           client[r] \notin {"new", "done"}, state \notin {"new", "done"}
    PROVE  Phase' = Phase
BY DEF Phase, Goes, GateTypes

LEMMA LifecycleStutters ==
    ASSUME Phase' = Phase, reply' = reply, slots' = slots, Invoked' = Invoked
    PROVE  UNCHANGED Lifecycle!lvars
BY DEF Lifecycle!lvars, Phase, Invoked

\* Every way a request can end is an Answer.
LEMMA FinishAnswers ==
    ASSUME GatewayInv, NEW r \in Requests, NEW answer \in Replies \ {"none"},
           Finish(r, answer), client[r] \notin {"new", "done"}, UNCHANGED dvars,
           answer = "ok" => r \in Invoked,
           answer \in {"429", "413"} => r \notin Invoked
    PROVE  Lifecycle!LNext
<1>1. Phase[r] = "open" /\ Phase' = [Phase EXCEPT ![r] = "done"]
  BY PhaseOf, PhaseMoves DEF Finish, GatewayInv, GateInv
<1>2. /\ reply' = [reply EXCEPT ![r] = answer] /\ slots' = slots + 1
      /\ Invoked' = Invoked
  BY DEF Finish, Invoked, dvars
<1>3. answer \in Lifecycle!Outcomes \ {"none"}
  BY DEF Replies, Lifecycle!Outcomes
<1>4. Lifecycle!Answer(r)
  BY <1>1, <1>2, <1>3 DEF Lifecycle!Answer, Phase, Invoked
<1> QED
  BY <1>4 DEF Lifecycle!LNext

LEMMA HandlerImplements ==
    ASSUME GatewayInv, NEW r \in Requests,
           Upload(r) \/ Handle(r) \/ Timeout(r) \/ Disconnect(r)
    PROVE  [Lifecycle!LNext]_(Lifecycle!lvars)
<1>0. /\ GateTypes /\ UNCHANGED dvars
      /\ Invoked' = Invoked
      /\ ClientOf(r)
  <2>1. UNCHANGED dvars
    BY DEF Upload, Handle, Arrive, Admitted, TooMany, BodyRead, BodyTooLarge, EnqueueStep,
           EnqueueFailed, EnqueueDone, TakeResponse, TakeHead, BodyEnds, TakeDropped,
           Timeout, Disconnect
  <2> QED
    BY <2>1 DEF dvars, Invoked, GatewayInv, GateInv, ClientInv
<1>1. CASE Arrive(r) /\ slots > 0
  <2>1. /\ Phase[r] = "new" /\ Phase' = [Phase EXCEPT ![r] = "open"]
        /\ slots > 0 /\ slots' = slots - 1 /\ reply' = reply
    BY <1>0, <1>1, PhaseOf, PhaseMoves DEF Arrive, Admitted
  <2>2. Lifecycle!Admit(r)
    BY <1>0, <2>1 DEF Lifecycle!Admit, Phase, Invoked
  <2> QED
    BY <2>2 DEF Lifecycle!LNext
<1>2. CASE Arrive(r) /\ ~(slots > 0)
  <2>1. /\ Phase[r] = "new" /\ Phase' = [Phase EXCEPT ![r] = "done"]
        /\ slots = 0 /\ slots' = slots /\ reply' = [reply EXCEPT ![r] = "429"]
    BY <1>0, <1>2, PhaseOf, PhaseMoves DEF Arrive, TooMany, GateTypes
  <2>2. Lifecycle!Refuse(r)
    BY <1>0, <2>1 DEF Lifecycle!Refuse, Phase, Invoked
  <2> QED
    BY <2>2 DEF Lifecycle!LNext
<1>3. CASE BodyRead(r) \/ EnqueueDone(r) \/ TakeHead(r)
  <2>1. /\ client[r] \notin {"new", "done"}
        /\ \E state \in {"enqueueing", "waiting", "streaming"} : Goes(r, state)
        /\ reply' = reply /\ slots' = slots
    BY <1>3 DEF BodyRead, EnqueueDone, TakeHead
  <2>2. Phase' = Phase
    BY <1>0, <2>1, PhaseKept
  <2> QED
    BY <1>0, <2>1, <2>2, LifecycleStutters
<1>4. CASE EnqueueStep(r)
  <2>1. Phase' = Phase /\ reply' = reply /\ slots' = slots
    BY <1>4 DEF EnqueueStep, hvars, Phase
  <2> QED
    BY <1>0, <2>1, LifecycleStutters
<1>5. CASE BodyTooLarge(r)
  <2>1. client[r] = "reading_body" /\ handler[r] # "accepted" /\ Finish(r, "413")
    BY <1>0, <1>5 DEF BodyTooLarge, ClientOf
  <2> QED
    BY <1>0, <2>1, AnswersFit, FinishAnswers DEF Replies
<1>6. CASE EnqueueFailed(r)
  <2>1. client[r] = "enqueueing" /\ handler[r] # "accepted" /\ Finish(r, "429")
    BY <1>6 DEF EnqueueFailed
  <2> QED
    BY <1>0, <2>1, AnswersFit, FinishAnswers DEF Replies
<1>7. CASE TakeResponse(r)
  <2>1. client[r] = "waiting" /\ sink[r] \in {"ok", "429", "502"} /\ Finish(r, sink[r])
    BY <1>7 DEF TakeResponse
  <2> QED
    BY <1>0, <2>1, AnswersFit, FinishAnswers DEF Replies
<1>8. CASE BodyEnds(r)
  <2>1. client[r] = "streaming" /\ sink[r] = "closed" /\ Finish(r, "ok")
    BY <1>8 DEF BodyEnds
  <2> QED
    BY <1>0, <2>1, AnswersFit, FinishAnswers DEF Replies
<1>9. CASE TakeDropped(r) \/ Timeout(r) \/ Disconnect(r)
  <2>1. PICK answer \in {"502", "504", "gone"} : Finish(r, answer)
    BY <1>9 DEF TakeDropped, Timeout, Disconnect
  <2>2. client[r] \notin {"new", "done"}
    BY <1>9 DEF TakeDropped, Timeout, Disconnect
  <2> QED
    BY <1>0, <2>1, <2>2, FinishAnswers DEF Replies
<1> QED
  BY <1>1, <1>2, <1>3, <1>4, <1>5, <1>6, <1>7, <1>8, <1>9 DEF Upload, Handle

\* The permit makes an invocation of the job that the dispatcher holds.
LEMMA PermitInvokes ==
    ASSUME GatewayInv, D!AcquirePermit, UNCHANGED <<vars, hvars, sink>>
    PROVE  Lifecycle!LNext
<1>1. /\ JobInv /\ SinkInv /\ ClientInv /\ Custody /\ handed \subseteq Requests
      /\ held \in Parts /\ D!OnePlace /\ streaming \subseteq running
  BY DEF GatewayInv, GateInv, PartsInv, TypeInv, TypeOK, D!DTypeOK, D!OnePlace, D!AcquirePermit
<1>2. held # {} /\ held \subseteq Requests /\ held \in OwnedJobs /\ held \in Planned
  BY <1>1 DEF Parts, NoJob, OwnedJobs, Planned
<1>3. held \notin running \cup answered
  BY <1>1 DEF D!OnePlace
<1>4. held \cap Invoked = {}
  BY <1>1, <1>2, <1>3 DEF JobInv, Planned, OwnedJobs, Invoked
<1>5. \A r \in held : r \in handed /\ handler[r] = "accepted" /\ sink[r] = "held"
  BY <1>1, <1>2, <1>3 DEF JobInv, SinkInv, Custody
<1>6. \A r \in held : Phase[r] # "new" /\ reply[r] \notin {"429", "413"}
  BY <1>1, <1>2, <1>5 DEF ClientInv, ClientOf, Phase
<1>7. \A r, s \in held : <<OpOf[r], SeenKey(r)>> = <<OpOf[s], SeenKey(s)>>
  BY <1>1, <1>2 DEF JobInv, BatchKey
<1>8. Invoked' = Invoked \cup held /\ Phase' = Phase /\ reply' = reply /\ slots' = slots
  BY DEF D!AcquirePermit, Invoked, Phase, hvars
<1>9. Lifecycle!Invoke(held)
  BY <1>2, <1>4, <1>6, <1>7, <1>8 DEF Lifecycle!Invoke, Phase, Invoked
<1> QED
  BY <1>2, <1>9 DEF Lifecycle!LNext

LEMMA NextImplements == GatewayInv /\ [GNext]_gvars => [Lifecycle!LNext]_(Lifecycle!lvars)
<1> SUFFICES ASSUME GatewayInv, [GNext]_gvars PROVE [Lifecycle!LNext]_(Lifecycle!lvars)
  OBVIOUS
<1>1. CASE UNCHANGED hvars /\ Invoked' = Invoked
  BY <1>1, LifecycleStutters DEF hvars, Phase
<1>2. ASSUME NEW c \in Chans, BatcherStep(c)
      PROVE  UNCHANGED hvars /\ Invoked' = Invoked
  BY <1>2 DEF BatcherStep, FlushInvoke, FlushTooLarge, EvictDropping, D!Submit,
              D!SubmitFull, dvars, Invoked
<1>3. CASE DispatcherStep
  <2>1. CASE D!ReceiveJob
    BY <1>1, <1>3, <2>1 DEF DispatcherStep, D!ReceiveJob, Invoked
  <2> QED
    BY <1>3, <2>1, PermitInvokes DEF DispatcherStep
<1>4. ASSUME NEW J \in Parts, InvocationStep(J)
      PROVE  UNCHANGED hvars /\ Invoked' = Invoked
  <2>1. streaming \subseteq running
    BY DEF GatewayInv, PartsInv, D!OnePlace
  <2>2. CASE J \in running /\ D!Return(J)
    BY <1>4, <2>2 DEF D!Return, Invoked, InvocationStep, BufferedResult, StreamRecord,
                      StreamFinished, StreamProgress
  <2>3. CASE UNCHANGED <<running, answered>>
    BY <1>4, <2>3 DEF Invoked, InvocationStep, BufferedResult, StreamRecord,
                      StreamFinished, StreamProgress
  <2> QED
    BY <1>4, <2>1, <2>2, <2>3
       DEF InvocationStep, BufferedResult, StreamRecord, StreamFinished, StreamProgress,
           D!InvokeReturns, D!StreamDispatched, D!StreamAbandoned, D!StreamOpens,
           D!StreamDrained, dvars
<1>5. CASE GQuiescent \/ UNCHANGED gvars
  BY <1>1, <1>5 DEF GQuiescent, gvars, dvars, Invoked
<1> QED
  BY <1>1, <1>2, <1>3, <1>4, <1>5, HandlerImplements DEF GNext

(***************************************************************************)
(* Seen from outside, the gateway is RequestLifecycle: it admits while      *)
(* slots are free, invokes a request once at most and only with requests of *)
(* its key, and answers it once; 429 and 413 mean that it was not and will  *)
(* not be invoked, a response of the function means that it was.            *)
(***************************************************************************)
THEOREM GatewayImplementsLifecycle == GSpec => ImplementsLifecycle
<1>1. GInit => Lifecycle!LInit
  <2> SUFFICES ASSUME GInit PROVE Lifecycle!LInit
    OBVIOUS
  <2>1. Phase = [r \in Requests |-> "new"] /\ Invoked = {}
    BY DEF GInit, D!DInit, Phase, Invoked
  <2> QED
    BY <2>1 DEF GInit, Lifecycle!LInit, Phase, Invoked
<1> QED
  BY <1>1, NextImplements, GatewayInvariant, PTL
     DEF GSpec, ImplementsLifecycle, Lifecycle!LSpec

-----------------------------------------------------------------------------
(* What an answer says of the invocation.                                   *)

RefusalsAreFinal == \A r \in Requests : reply[r] \in {"429", "413"} => r \notin Invoked
ResponsesAreOwn == \A r \in Requests : reply[r] = "ok" => r \in Invoked

\* It follows from the lifecycle: what was invoked stays so, and only what was
\* invoked is answered by the function.
LEMMA ResponsesStayOwn ==
    ASSUME reply \in [Requests -> Replies], ResponsesAreOwn, [Lifecycle!LNext]_(Lifecycle!lvars)
    PROVE  ResponsesAreOwn'
<1> SUFFICES ASSUME NEW r \in Requests
             PROVE  /\ r \in Invoked => r \in Invoked'
                    /\ reply'[r] = "ok" => reply[r] = "ok" \/ r \in Invoked
  BY DEF ResponsesAreOwn
<1>1. CASE UNCHANGED Lifecycle!lvars
  BY <1>1 DEF Lifecycle!lvars, Invoked
<1>2. CASE \E s \in Requests : Lifecycle!Admit(s)
  BY <1>2 DEF Lifecycle!Admit, Invoked
<1>3. CASE \E s \in Requests : Lifecycle!Refuse(s)
  BY <1>3 DEF Lifecycle!Refuse, Invoked
<1>4. ASSUME NEW s \in Requests, Lifecycle!Answer(s)
      PROVE  /\ r \in Invoked => r \in Invoked'
             /\ reply'[r] = "ok" => reply[r] = "ok" \/ r \in Invoked
  <2>1. /\ Invoked' = Invoked
        /\ \E how : /\ how = "ok" => s \in Invoked
                    /\ reply' = [reply EXCEPT ![s] = how]
    BY <1>4 DEF Lifecycle!Answer, Invoked
  <2> QED
    BY <2>1
<1>5. CASE \E S \in SUBSET Requests : Lifecycle!Invoke(S)
  <2>1. Invoked \subseteq Invoked' /\ reply' = reply
    BY <1>5 DEF Lifecycle!Invoke, Invoked
  <2> QED
    BY <2>1
<1> QED
  BY <1>1, <1>2, <1>3, <1>4, <1>5 DEF Lifecycle!LNext

(***************************************************************************)
(* A client that gets 429 or 413 can safely try again: its request was not  *)
(* part of an invocation and never will be.  One that gets a response of    *)
(* the function has had its request invoked.                                *)
(***************************************************************************)
THEOREM AnswersTellOfInvocations == GSpec => [](RefusalsAreFinal /\ ResponsesAreOwn)
<1>1. GatewayInv => RefusalsAreFinal
  <2> SUFFICES ASSUME GatewayInv, NEW r \in Requests, reply[r] \in {"429", "413"}
               PROVE  r \notin Invoked
    BY DEF RefusalsAreFinal
  <2>1. handler[r] = "accepted" => sink[r] = "429"
    BY DEF GatewayInv, GateInv, ClientInv, ClientOf
  <2> QED
    BY <2>1, AnswersFit
<1>2. GInit => ResponsesAreOwn
  BY DEF GInit, ResponsesAreOwn
<1>3. GatewayInv /\ ResponsesAreOwn /\ [GNext]_gvars => ResponsesAreOwn'
  BY NextImplements, ResponsesStayOwn DEF GatewayInv, GateInv, GateTypes
<1> QED
  BY <1>1, <1>2, <1>3, GatewayInvariant, PTL DEF GSpec
-----------------------------------------------------------------------------
(* The end of the process.                                                  *)

Unanswered == {r \in Requests : handler[r] = "accepted" /\ sink[r] \in {"held", "head"}}

\* Who is done with a request the pipeline is not done with.
UnwantedInv == \A r \in Unanswered : client[r] = "done" => reply[r] \in {"504", "gone"}

\* A response sender that has sent an answer, or closed its body, stays so.
LEMMA SendersGoOn ==
    ASSUME [GNext]_gvars, sink \in [Requests -> SinkStates], NEW r \in Requests,
           sink'[r] \in {"held", "head"}
    PROVE  sink[r] \in {"held", "head"}
<1>1. CASE UNCHANGED sink
  BY <1>1
<1>2. ASSUME NEW S, NEW state \in {"429", "502", "dropped"}, Answer(S, state)
      PROVE  sink[r] \in {"held", "head"}
  BY <1>2 DEF Answer
<1>3. ASSUME NEW c \in Chans, BatcherStep(c)
      PROVE  sink[r] \in {"held", "head"}
  BY <1>1, <1>2, <1>3 DEF BatcherStep, FlushInvoke, FlushTooLarge, EvictDropping
<1>4. ASSUME NEW J \in Parts, InvocationStep(J)
      PROVE  sink[r] \in {"held", "head"}
  <2>1. CASE BufferedResult(J)
    BY <2>1 DEF BufferedResult, FailAll
  <2>2. ASSUME NEW s \in J, StreamRecord(J, s)
        PROVE  sink[r] \in {"held", "head"}
    BY <2>2 DEF StreamRecord, Answer
  <2>3. CASE StreamFinished(J)
    <3>1. CASE sink' = FailAll(J)
      BY <3>1 DEF FailAll
    <3>2. ASSUME NEW s \in J, sink' = [FailAll(J) EXCEPT ![s] = "dropped"]
          PROVE  sink[r] \in {"held", "head"}
      BY <3>2 DEF FailAll
    <3> QED
      BY <2>3, <3>1, <3>2 DEF StreamFinished
  <2>4. CASE StreamProgress(J)
    BY <1>1, <2>4 DEF StreamProgress
  <2> QED
    BY <1>4, <2>1, <2>2, <2>3, <2>4 DEF InvocationStep
<1>5. ASSUME NEW s \in Requests, Upload(s) \/ Handle(s) \/ Timeout(s) \/ Disconnect(s)
      PROVE  UNCHANGED sink
  BY <1>5 DEF Upload, Arrive, Admitted, TooMany, BodyRead, BodyTooLarge, Handle, EnqueueStep,
              EnqueueFailed, EnqueueDone, TakeResponse, TakeHead, BodyEnds, TakeDropped,
              Timeout, Disconnect
<1> QED
  BY <1>1, <1>3, <1>4, <1>5 DEF GNext, DispatcherStep, GQuiescent, gvars

\* A handler that returns while its sender may still send has given up.
LEMMA HandlersGiveUp ==
    ASSUME TypeOK, GateTypes, ClientInv, UnwantedInv, NEW s \in Requests,
           Upload(s) \/ Handle(s) \/ Timeout(s) \/ Disconnect(s)
    PROVE  UnwantedInv'
<1> SUFFICES ASSUME NEW r \in Unanswered', client'[r] = "done"
             PROVE  reply'[r] \in {"504", "gone"}
  BY DEF UnwantedInv
<1>1. r \in Requests /\ handler'[r] = "accepted" /\ sink'[r] \in {"held", "head"}
  BY DEF Unanswered
<1>2. CASE EnqueueStep(s)
  <2>1. client[r] = "done" /\ r # s /\ UNCHANGED <<client, reply, sink>>
    BY <1>2 DEF EnqueueStep, hvars
  <2>2. \E state : handler' = [handler EXCEPT ![s] = state]
    BY <1>2 DEF EnqueueStep, Enqueue, LookupOccupied, LookupVacant, TrySend, TrySendFull,
                TrySendClosed, RemoveClosed
  <2>3. handler'[r] = handler[r]
    BY <1>1, <2>1, <2>2 DEF TypeOK
  <2> QED
    BY <1>1, <2>1, <2>3 DEF UnwantedInv, Unanswered
<1>3. ASSUME NEW state \in {"reading_body", "enqueueing", "waiting", "streaming"},
             Goes(s, state), UNCHANGED <<vars, reply, sink>>
      PROVE  reply'[r] \in {"504", "gone"}
  <2>1. r # s /\ client[r] = "done"
    BY <1>1, <1>3 DEF Goes, GateTypes
  <2> QED
    BY <1>1, <1>3, <2>1 DEF UnwantedInv, Unanswered, vars
<1>4. ASSUME NEW answer, Goes(s, "done"), reply' = [reply EXCEPT ![s] = answer],
             UNCHANGED <<vars, sink>>, s \in Unanswered => answer \in {"504", "gone"}
      PROVE  reply'[r] \in {"504", "gone"}
  <2>1. r \in Unanswered
    BY <1>1, <1>4 DEF Unanswered, vars
  <2>2. CASE r = s
    BY <1>1, <1>4, <2>1, <2>2 DEF GateTypes
  <2>3. CASE r # s
    <3>1. client[r] = "done" /\ reply'[r] = reply[r]
      BY <1>1, <1>4, <2>3 DEF Goes, GateTypes
    <3> QED
      BY <2>1, <3>1 DEF UnwantedInv
  <2> QED
    BY <2>2, <2>3
<1>5. ClientOf(s)
  BY DEF ClientInv
<1>6. CASE Upload(s)
  <2>1. CASE (Arrive(s) /\ slots > 0) \/ BodyRead(s)
    BY <1>3, <2>1 DEF Arrive, Admitted, BodyRead
  <2>2. CASE (Arrive(s) /\ ~(slots > 0)) \/ BodyTooLarge(s)
    <3>1. s \notin Unanswered
      BY <1>5, <2>2 DEF Arrive, TooMany, BodyTooLarge, ClientOf, Unanswered
    <3> QED
      BY <1>4, <2>2, <3>1 DEF Arrive, TooMany, BodyTooLarge, Finish
  <2> QED
    BY <1>6, <2>1, <2>2 DEF Upload
<1>7. CASE EnqueueDone(s) \/ TakeHead(s)
  BY <1>3, <1>7 DEF EnqueueDone, TakeHead
<1>8. CASE EnqueueFailed(s) \/ TakeResponse(s) \/ BodyEnds(s) \/ TakeDropped(s)
  <2>1. s \notin Unanswered
    BY <1>8 DEF EnqueueFailed, TakeResponse, BodyEnds, TakeDropped, Unanswered
  <2> QED
    BY <1>4, <1>8, <2>1 DEF EnqueueFailed, TakeResponse, BodyEnds, TakeDropped, Finish
<1>9. CASE Timeout(s) \/ Disconnect(s)
  BY <1>4, <1>9 DEF Timeout, Disconnect, Finish
<1> QED
  BY <1>2, <1>6, <1>7, <1>8, <1>9 DEF Handle

LEMMA NextUnwanted == GatewayInv /\ UnwantedInv /\ [GNext]_gvars => UnwantedInv'
<1> SUFFICES ASSUME GatewayInv, UnwantedInv, [GNext]_gvars PROVE UnwantedInv'
  OBVIOUS
<1>1. TypeOK /\ GateTypes /\ ClientInv /\ sink \in [Requests -> SinkStates]
  BY DEF GatewayInv, PartsInv, TypeInv, GateInv, GateTypes
<1>2. CASE \E s \in Requests : Upload(s) \/ Handle(s) \/ Timeout(s) \/ Disconnect(s)
  BY <1>1, <1>2, HandlersGiveUp
<1>3. CASE UNCHANGED <<hvars, handler>>
  BY <1>1, <1>3, SendersGoOn DEF UnwantedInv, Unanswered, hvars
<1>4. ASSUME NEW c \in Chans, BatcherStep(c)
      PROVE  UNCHANGED <<hvars, handler>>
  BY <1>4 DEF BatcherStep, FlushInvoke, FlushTooLarge, EvictDropping, FlushPart, DropReceiver,
              ReceiveFirst, ReceiveMore, Receive, Goto, IdleExpires, RecvDisconnected,
              WindowExpires, CollectDisconnected, RemoveSelf
<1>5. ASSUME NEW J \in Parts, InvocationStep(J)
      PROVE  UNCHANGED <<hvars, handler>>
  BY <1>5 DEF InvocationStep, BufferedResult, StreamRecord, StreamFinished, StreamProgress, vars
<1>6. CASE DispatcherStep \/ GQuiescent \/ UNCHANGED gvars
  BY <1>3, <1>6 DEF DispatcherStep, GQuiescent, gvars, vars
<1> QED
  BY <1>2, <1>3, <1>4, <1>5, <1>6 DEF GNext

LEMMA NextShutdown == [SDNext]_sdvars => [GNext]_gvars
BY DEF SDNext, Serve, Alive, ShutdownSignal, ServerReturns,
       Exited, sdvars

(***************************************************************************)
(* A gateway that is told to stop is the gateway until it does: the signal, *)
(* the delay and the closed listener take nothing from what is proved above *)
(* of its requests, slots and jobs.                                         *)
(***************************************************************************)
THEOREM ShutdownKeepsTheGateway == SDSpec => GSpec
BY NextShutdown, PTL DEF SDSpec, SDInit, GSpec

(***************************************************************************)
(* Types of the gateway with its shutdown: while it drains and after it has *)
(* ended, no path of a handler has returned a permit it did not have.       *)
(***************************************************************************)
THEOREM ShutdownType == SDSpec => []SDTypeOK
<1> DEFINE Staged == stage \in Stages
<1>1. SDInit => Staged
  BY DEF SDInit, Stages
<1>2. Staged /\ [SDNext]_sdvars => Staged'
  BY DEF SDNext, Serve, Alive, ShutdownSignal, ServerReturns, Exited, sdvars, Stages
<1>3. GTypeOK /\ Staged => SDTypeOK
  BY DEF SDTypeOK
<1> QED
  BY <1>1, <1>2, <1>3, GatewayType, ShutdownKeepsTheGateway, PTL DEF SDSpec

(***************************************************************************)
(* When run returns, what the process takes with it (queued, batched or     *)
(* invoked, or the open end of a body) belongs to clients that timed out or *)
(* left: with_graceful_shutdown waits for all others.                       *)
(***************************************************************************)
THEOREM NobodyIsCutOff == SDSpec => []OnlyUnwantedAreKilled
<1> DEFINE AtTheEnd == stage = "exited" => \A r \in Requests : client[r] \in {"new", "done"}
<1>1. SDInit => UnwantedInv /\ AtTheEnd
  BY DEF SDInit, GInit, UnwantedInv, Unanswered
<1>2. AtTheEnd /\ [SDNext]_sdvars => AtTheEnd'
  BY DEF SDNext, Serve, Alive, ShutdownSignal, ServerReturns,
         Exited, sdvars, gvars, hvars, Connected
<1>3. GatewayInv /\ UnwantedInv /\ AtTheEnd => OnlyUnwantedAreKilled
  <2> SUFFICES ASSUME GatewayInv, UnwantedInv, AtTheEnd, stage = "exited",
                      NEW r \in Unanswered
               PROVE  reply[r] \in {"504", "gone"}
    BY DEF OnlyUnwantedAreKilled, Unanswered
  <2>1. r \in Requests /\ handler[r] = "accepted" /\ ClientOf(r)
    BY DEF Unanswered, GatewayInv, GateInv, ClientInv
  <2>2. client[r] = "done"
    BY <2>1 DEF ClientOf
  <2> QED
    BY <2>2 DEF UnwantedInv
<1> HIDE DEF AtTheEnd
<1> QED
  BY <1>1, <1>2, <1>3, NextUnwanted, NextShutdown, GatewayInvariant, ShutdownKeepsTheGateway, PTL
     DEF SDSpec
=============================================================================
