------------------------------ MODULE Gateway -------------------------------
(***************************************************************************)
(* The gateway process: the HTTP handlers of gateway/src/server.rs, the     *)
(* batchers they enqueue into (BatcherManager) and the invocations that     *)
(* answer them (InvocationDispatcher).  A job of the dispatcher is the set  *)
(* of requests whose response senders it owns.                              *)
(*                                                                          *)
(* Payload sizes are abstract: plan_invocations may cut a batch anywhere    *)
(* and may fail a single request (PlanInvocations has the sizes), and a     *)
(* response may be good or bad for each request.                            *)
(***************************************************************************)
EXTENDS BatcherManager

CONSTANTS
    StreamOps,            \* the operations with invoke mode ResponseStream
    MaxInflightRequests,  \* max_inflight_requests
    MaxPending,           \* max_pending_invocations
    MaxInflight           \* max_inflight_invocations

ASSUME GatewayAssumption == /\ StreamOps \subseteq Ops
                            /\ MaxInflightRequests \in Nat
                            /\ MaxPending \in Nat
                            /\ MaxInflight \in Nat

NoJob == {}
Parts == (SUBSET Requests) \ {NoJob}
IsStream(r) == OpOf[r] \in StreamOps

VARIABLES
    client,   \* [Requests -> where its handler, or its response body, is]
    reply,    \* [Requests -> the final answer the client got]
    sink,     \* [Requests -> what became of the response sender]
    slots,    \* the free permits of inflight_requests
    channel, held, permits, running, streaming, lambdas, answered, rejected

D == INSTANCE InvocationDispatcher
        WITH Jobs <- Parts, StreamJobs <- {J \in Parts : \E r \in J : IsStream(r)}

dvars == <<channel, held, permits, running, streaming, lambdas, answered, rejected>>
hvars == <<client, reply, slots>>
gvars == <<vars, hvars, sink, dvars>>

ClientStates == {"new", "reading_body", "enqueueing", "waiting", "streaming", "done"}
Replies == {"none", "429", "413", "502", "504", "ok", "gone"}

(***************************************************************************)
(* A response sender is held by the pipeline, has sent a response ("ok" or  *)
(* a status), has sent a stream head and still feeds the body ("head"), has *)
(* done so and closed the body ("closed"), or was dropped unused.           *)
(***************************************************************************)
SinkStates == {"held", "ok", "429", "502", "head", "closed", "dropped"}

GTypeOK ==
    /\ TypeOK
    /\ D!DTypeOK
    /\ client \in [Requests -> ClientStates]
    /\ reply \in [Requests -> Replies]
    /\ sink \in [Requests -> SinkStates]
    /\ slots \in Nat

GInit ==
    /\ Init
    /\ D!DInit
    /\ client = [r \in Requests |-> "new"]
    /\ reply = [r \in Requests |-> "none"]
    /\ sink = [r \in Requests |-> "held"]
    /\ slots = MaxInflightRequests

-----------------------------------------------------------------------------
(* handle_any, up to the call of enqueue.                                   *)

Goes(r, state) == client' = [client EXCEPT ![r] = state]

\* The handler returns, and with it the permit of inflight_requests.
Finish(r, answer) ==
    /\ Goes(r, "done")
    /\ reply' = [reply EXCEPT ![r] = answer]
    /\ slots' = slots + 1

\* The route matched: inflight_requests.try_acquire_owned() has a permit or has none.
Admitted(r) ==
    /\ slots' = slots - 1
    /\ Goes(r, "reading_body")
    /\ UNCHANGED <<vars, reply, sink, dvars>>

TooMany(r) ==
    /\ Goes(r, "done")
    /\ reply' = [reply EXCEPT ![r] = "429"]
    /\ UNCHANGED <<vars, slots, sink, dvars>>

Arrive(r) ==
    /\ client[r] = "new"
    /\ IF slots > 0 THEN Admitted(r) ELSE TooMany(r)

BodyRead(r) ==
    /\ client[r] = "reading_body"
    /\ Goes(r, "enqueueing")
    /\ UNCHANGED <<vars, reply, slots, sink, dvars>>

BodyTooLarge(r) ==
    /\ client[r] = "reading_body"
    /\ Finish(r, "413")
    /\ UNCHANGED <<vars, sink, dvars>>

EnqueueStep(r) ==
    /\ client[r] = "enqueueing"
    /\ Enqueue(r)
    /\ UNCHANGED <<hvars, sink, dvars>>

\* EnqueueError::QueueFull and EnqueueError::BatcherClosed.
EnqueueFailed(r) ==
    /\ client[r] = "enqueueing"
    /\ handler[r] \in {"queue_full", "batcher_closed"}
    /\ Finish(r, "429")
    /\ UNCHANGED <<vars, sink, dvars>>

EnqueueDone(r) ==
    /\ client[r] = "enqueueing"
    /\ handler[r] = "accepted"
    /\ Goes(r, "waiting")
    /\ UNCHANGED <<vars, reply, slots, sink, dvars>>

-----------------------------------------------------------------------------
(* tokio::time::timeout(timeout, rx): the receiver is polled before the     *)
(* timer.                                                                   *)

TakeResponse(r) ==
    /\ client[r] = "waiting"
    /\ sink[r] \in {"ok", "429", "502"}
    /\ Finish(r, sink[r])
    /\ UNCHANGED <<vars, sink, dvars>>

\* Mutant of TakeHead: the permit is dropped when the handler returns.
TakeHeadReleasing(r) ==
    /\ client[r] = "waiting"
    /\ sink[r] \in {"head", "closed"}
    /\ Goes(r, "streaming")
    /\ slots' = slots + 1
    /\ UNCHANGED <<vars, reply, sink, dvars>>

\* StreamInit::Stream: the permit moves into the body stream.
TakeHead(r) ==
    /\ client[r] = "waiting"
    /\ sink[r] \in {"head", "closed"}
    /\ Goes(r, "streaming")
    /\ UNCHANGED <<vars, reply, slots, sink, dvars>>

BodyEnds(r) ==
    /\ client[r] = "streaming"
    /\ sink[r] = "closed"
    /\ Finish(r, "ok")
    /\ UNCHANGED <<vars, sink, dvars>>

\* "dropped response"
TakeDropped(r) ==
    /\ client[r] = "waiting"
    /\ sink[r] = "dropped"
    /\ Finish(r, "502")
    /\ UNCHANGED <<vars, sink, dvars>>

Timeout(r) ==
    /\ client[r] = "waiting"
    /\ sink[r] = "held"
    /\ Finish(r, "504")
    /\ UNCHANGED <<vars, sink, dvars>>

\* The client goes away and the server drops its handler or its body stream.
\* enqueue does not wait, so the handler is not dropped inside it.
Disconnect(r) ==
    /\ client[r] \in {"reading_body", "waiting", "streaming"}
    /\ Finish(r, "gone")
    /\ UNCHANGED <<vars, sink, dvars>>

\* The steps that wait for the client to send something.
Upload(r) == Arrive(r) \/ BodyRead(r) \/ BodyTooLarge(r)

Handle(r) ==
    \/ EnqueueStep(r) \/ EnqueueFailed(r) \/ EnqueueDone(r)
    \/ TakeResponse(r) \/ TakeHead(r) \/ BodyEnds(r) \/ TakeDropped(r)

-----------------------------------------------------------------------------
(* The batcher tasks, and what they do to the response senders they own.    *)

Answer(S, state) == sink' = [r \in Requests |-> IF r \in S THEN state ELSE sink[r]]

\* flush_batch: the first n requests of the batch are one planned invocation.
FlushInvoke(c, n) ==
    LET J == {batch[c][i] : i \in 1 .. n} IN
    /\ FlushPart(c, n)
    /\ \/ D!Submit(J) /\ UNCHANGED sink
       \/ D!SubmitFull(J) /\ Answer(J, "429")
    /\ UNCHANGED hvars

\* InvocationPlan::Fail: one request exceeds the payload limit on its own.
FlushTooLarge(c) ==
    /\ FlushPart(c, 1)
    /\ Answer({batch[c][1]}, "502")
    /\ UNCHANGED <<hvars, dvars>>

\* Mutant of EvictDropping: the receiver, and what is queued in it, lives on.
EvictLeaking(c) ==
    /\ KeepReceiver(c)
    /\ UNCHANGED <<hvars, sink, dvars>>

\* The senders that are dropped with the receiver tell their handlers so.
EvictDropping(c) ==
    /\ DropReceiver(c)
    /\ Answer(Range(queue[c]), "dropped")
    /\ UNCHANGED <<hvars, dvars>>

BatcherStep(c) ==
    \/ \E n \in 1 .. Len(batch[c]) : FlushInvoke(c, n)
    \/ FlushTooLarge(c)
    \/ EvictDropping(c)
    \/ /\ \/ ReceiveFirst(c) \/ ReceiveMore(c)
          \/ IdleExpires(c) \/ RecvDisconnected(c)
          \/ WindowExpires(c) \/ CollectDisconnected(c)
          \/ RemoveSelf(c)
       /\ UNCHANGED <<hvars, sink, dvars>>

-----------------------------------------------------------------------------
(* The dispatcher task and the invocations.                                 *)

DispatcherStep ==
    /\ D!ReceiveJob \/ D!AcquirePermit
    /\ UNCHANGED <<vars, hvars, sink>>

\* Mutant of FailAll: who has no head yet is forgotten.
FailOpenBodies(J) ==
    [r \in Requests |-> IF r \in J /\ sink[r] = "head" THEN "closed" ELSE sink[r]]

\* fail_all_*: who has no head yet gets a 502, open bodies are closed.
FailAll(J) ==
    [r \in Requests |-> IF r \notin J THEN sink[r]
                        ELSE IF sink[r] = "held" THEN "502"
                        ELSE IF sink[r] = "head" THEN "closed" ELSE sink[r]]

\* dispatch_buffered, or fail_all_* when invoke failed: each request of a
\* buffered job gets its record, or a 502 for a bad or missing one.
BufferedResult(J) ==
    /\ D!InvokeReturns(J)
    /\ \E good \in IF \E r \in J : IsStream(r) THEN {{}} ELSE SUBSET J :
          sink' = [r \in Requests |-> IF r \in good THEN "ok" ELSE FailAll(J)[r]]
    /\ UNCHANGED <<vars, hvars>>

\* dispatch_stream_record for a request that is still pending: a head (also
\* the one a first chunk or an end implies), a complete response, an error
\* response, the end of a body.
StreamRecord(J, r) ==
    /\ J \in streaming
    /\ r \in J
    /\ \/ sink[r] = "held" /\ \E s \in {"head", "ok", "502", "closed"} : Answer({r}, s)
       \/ sink[r] = "head" /\ Answer({r}, "closed")
    /\ UNCHANGED <<vars, hvars, dvars>>

\* dispatch_response_stream returns: the stream is over, or a bad record, a
\* stream error or too much data ended it.  A bad head has taken the init
\* sender of its request out of pending and drops it.
StreamFinished(J) ==
    /\ D!StreamDispatched(J) \/ D!StreamAbandoned(J)
    /\ \/ sink' = FailAll(J)
       \/ \E r \in J : /\ sink[r] = "held"
                       /\ sink' = [FailAll(J) EXCEPT ![r] = "dropped"]
    /\ UNCHANGED <<vars, hvars>>

StreamProgress(J) ==
    /\ D!StreamOpens(J) \/ D!StreamDrained(J)
    /\ UNCHANGED <<vars, hvars, sink>>

InvocationStep(J) ==
    \/ BufferedResult(J)
    \/ \E r \in J : StreamRecord(J, r)
    \/ StreamFinished(J)
    \/ StreamProgress(J)

-----------------------------------------------------------------------------
GQuiescent ==
    /\ \A r \in Requests : client[r] = "done"
    /\ \A c \in Chans : task[c] \in {"unborn", "done"}
    /\ channel = <<>> /\ held = NoJob /\ running = {} /\ lambdas = {}
    /\ UNCHANGED gvars

GNext ==
    \/ \E r \in Requests : Upload(r) \/ Handle(r) \/ Timeout(r) \/ Disconnect(r)
    \/ \E c \in Chans : BatcherStep(c)
    \/ DispatcherStep
    \/ \E J \in Parts : InvocationStep(J)
    \/ GQuiescent

GSpec == GInit /\ [][GNext]_gvars

-----------------------------------------------------------------------------
(* Properties.                                                              *)

(***************************************************************************)
(* inflight_requests permits are conserved over all the ways a request can  *)
(* end, including a body stream that outlives its handler.                  *)
(***************************************************************************)
SlotsBalance ==
    slots + Cardinality({r \in Requests : client[r] \notin {"new", "done"}})
        = MaxInflightRequests

(***************************************************************************)
(* A client that waits is never forgotten: as long as its sender has sent   *)
(* nothing, the request is with a batcher that still receives or flushes,   *)
(* or in a job that will be invoked.  Otherwise it could only time out.     *)
(***************************************************************************)
OwnedJobs == Range(channel) \cup running \cup ({held} \ {NoJob})
SomeoneAnswers ==
    \A r \in Requests : (client[r] = "waiting" /\ sink[r] = "held") =>
        \/ \E c \in Chans : IsOpen(c) /\ r \in Range(Line(c))
        \/ \E J \in OwnedJobs : r \in J

(***************************************************************************)
(* When run_invocation_job returns, each of its requests was answered and   *)
(* no response body is left open.                                           *)
(***************************************************************************)
ReturnedMeansAnswered ==
    \A J \in answered \cup rejected : \A r \in J : sink[r] \notin {"held", "head"}

(***************************************************************************)
(* The gateway implements RequestLifecycle: a request is open while its     *)
(* handler or its body stream lives, and invoked once a job that holds its  *)
(* response sender got a permit.  So requests of different keys are never   *)
(* invoked together, none is invoked twice, and one that was told 429, by   *)
(* whichever of the limits, is not invoked later.                           *)
(***************************************************************************)
Lifecycle == INSTANCE RequestLifecycle WITH
    KeyOfRequest <- [r \in Requests |-> <<OpOf[r], SeenKey(r)>>],
    MaxRequests <- MaxInflightRequests,
    phase <- [r \in Requests |-> IF client[r] \in {"new", "done"} THEN client[r] ELSE "open"],
    outcome <- reply,
    free <- slots,
    invoked <- UNION (running \cup answered)

ImplementsLifecycle == Lifecycle!LSpec
=============================================================================
