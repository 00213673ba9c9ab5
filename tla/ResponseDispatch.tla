-------------------------- MODULE ResponseDispatch --------------------------
(***************************************************************************)
(* The way of a response from the adapter (BatchAdapter) to the clients of  *)
(* its batch: dispatch_buffered, dispatch_response_stream and               *)
(* dispatch_stream_record of gateway/src/batching.rs, the task of lambda.rs *)
(* that reads the stream, and the handlers of server.rs that wait for a     *)
(* response or feed a body.                                                 *)
(*                                                                          *)
(* A request is named by its item.  Its response sender is a oneshot        *)
(* (reply) and, when it streams, a bounded body channel (body).             *)
(***************************************************************************)
EXTENDS BatchAdapter

CONSTANT BodyCapacity   \* the capacity of a request's body channel

ASSUME DispatchAssumption == BodyCapacity \in Nat \ {0}

VARIABLES
    job,      \* run_invocation_job: "running" or "returned"
    pending,  \* the requests whose senders are in the map
    reply,    \* [Items -> what was sent through the oneshot]
    open,     \* the requests whose body sender lives
    body,     \* [Items -> the chunks in its body channel]
    client,   \* [Items -> where its handler, or its body stream, is]
    got       \* [Items -> the chunks its client has received]

gatevars == <<job, pending, reply, open, body, client, got>>
rdvars == <<avars, gatevars>>

Replies == {"none", "ok", "failed", "502", "head", "dropped"}
Chunk == Items \X (1 .. MaxChunks)

RDTypeOK ==
    /\ AdapterTypeOK
    /\ job \in {"running", "returned"}
    /\ pending \subseteq Items
    /\ reply \in [Items -> Replies]
    /\ open \subseteq Items
    /\ body \in [Items -> Seq(Chunk)]
    /\ \A i \in Items : Len(body[i]) <= BodyCapacity
    /\ client \in [Items -> {"absent", "waiting", "streaming", "over", "left"}]
    /\ got \in [Items -> Seq(Chunk)]

RDInit ==
    /\ AdapterInit
    /\ job = "running"
    /\ pending = Batch
    /\ reply = [i \in Items |-> "none"]
    /\ open = IF Buffered THEN {} ELSE Batch
    /\ body = [i \in Items |-> <<>>]
    /\ client = [i \in Items |-> IF i \in Batch THEN "waiting" ELSE "absent"]
    /\ got = [i \in Items |-> <<>>]

-----------------------------------------------------------------------------
(* dispatch_stream_record, of the first record on the wire.                 *)

Rec == Head(wire)
Id == Rec.id
Good == Rec.fault = "none"
Gone(i) == client[i] = "left"

Dispatching(types) ==
    /\ ~Buffered
    /\ job = "running"
    /\ wire # <<>>
    /\ Rec.type \in types
    /\ Rec.fault # "syntax"
    /\ wire' = Tail(wire)
    /\ UNCHANGED <<kind, started, at, result, made, draining, mayStart, flaws, fate>>

\* The map no longer has the request: its client left, or it was answered.
SkipRecord ==
    /\ Dispatching(Types)
    /\ Id \notin pending
    /\ UNCHANGED gatevars

\* The init sender is used or dropped; a client that left does not matter.
Send(i, what) == reply' = [reply EXCEPT ![i] = IF @ = "none" THEN what ELSE @]

Remove(i) ==
    /\ pending' = pending \ {i}
    /\ open' = open \ {i}

DispatchRecord ==
    /\ Dispatching({"record", "failure"})
    /\ Id \in pending /\ Good
    /\ Send(Id, IF Rec.type = "record" THEN "ok" ELSE "failed")
    /\ Remove(Id)
    /\ UNCHANGED <<job, body, client, got>>

\* A second head would be dropped by the init sender that is gone.
DispatchHead ==
    /\ Dispatching({"head"})
    /\ Id \in pending /\ Good
    /\ IF Gone(Id) /\ reply[Id] = "none"
       THEN Remove(Id) /\ UNCHANGED reply
       ELSE Send(Id, "head") /\ UNCHANGED <<pending, open>>
    /\ UNCHANGED <<job, body, client, got>>

\* Mutant of DispatchChunk: try_send instead of send.
DispatchChunkOrDrop ==
    /\ Dispatching({"chunk"})
    /\ Id \in pending /\ Good
    /\ Send(Id, "head")
    /\ IF Gone(Id)
       THEN Remove(Id) /\ UNCHANGED body
       ELSE /\ body' = [body EXCEPT ![Id] = IF Len(@) < BodyCapacity
                                            THEN Append(@, <<Id, Rec.n>>) ELSE @]
            /\ UNCHANGED <<pending, open>>
    /\ UNCHANGED <<job, client, got>>

\* Mutant of DispatchChunk: an unbounded channel.
DispatchChunkUnbounded ==
    /\ Dispatching({"chunk"})
    /\ Id \in pending /\ Good
    /\ Send(Id, "head")
    /\ body' = [body EXCEPT ![Id] = IF Gone(Id) THEN @ ELSE Append(@, <<Id, Rec.n>>)]
    /\ UNCHANGED <<job, pending, open, client, got>>

\* body.send waits for room in the channel, unless its receiver is gone.
DispatchChunk ==
    /\ Dispatching({"chunk"})
    /\ Id \in pending /\ Good
    /\ Send(Id, "head")
    /\ IF Gone(Id)
       THEN Remove(Id) /\ UNCHANGED body
       ELSE /\ Len(body[Id]) < BodyCapacity
            /\ body' = [body EXCEPT ![Id] = Append(@, <<Id, Rec.n>>)]
            /\ UNCHANGED <<pending, open>>
    /\ UNCHANGED <<job, client, got>>

DispatchEnd ==
    /\ Dispatching({"end"})
    /\ Id \in pending
    /\ Send(Id, "head")
    /\ Remove(Id)
    /\ UNCHANGED <<job, body, client, got>>

\* Sent as a response if there was no head; after a head only the end of the body.
DispatchError ==
    /\ Dispatching({"error"})
    /\ Id \in pending
    /\ Send(Id, "failed")
    /\ Remove(Id)
    /\ UNCHANGED <<job, body, client, got>>

-----------------------------------------------------------------------------
(* The ends of a response.                                                  *)

\* fail_all_*: who has got nothing yet gets a 502, open bodies are closed.
FailAll(replies) ==
    /\ reply' = [i \in Items |-> IF i \in pending /\ replies[i] = "none" THEN "502"
                                 ELSE replies[i]]
    /\ pending' = {}
    /\ open' = {}
    /\ job' = "returned"
    /\ UNCHANGED <<body, client, got>>

\* A value that is no status, header or body: the request was taken out of the
\* map, and its senders are dropped on the way out.
DispatchBad ==
    /\ Dispatching(Types)
    /\ Id \in pending /\ ~Good
    /\ FailAll([reply EXCEPT ![Id] = IF @ # "none" THEN @
                                     ELSE IF Rec.type = "chunk" THEN "head" ELSE "dropped"])

\* A line that is no record, or more than MAX_BUFFER_BYTES without an end.
StreamUnreadable ==
    /\ ~Buffered
    /\ job = "running"
    /\ wire # <<>> /\ Rec.fault = "syntax"
    /\ wire' = Tail(wire)
    /\ FailAll(reply)
    /\ UNCHANGED <<kind, started, at, result, made, draining, mayStart, flaws, fate>>

\* The end of the stream, or its error, comes after what was sent before.
StreamOver ==
    /\ ~Buffered
    /\ job = "running"
    /\ fate # "open" /\ wire = <<>>
    /\ FailAll(reply)
    /\ UNCHANGED avars

\* One document: if it can be decoded, each record is used or is a 502 by itself.
DispatchBuffered ==
    /\ Buffered
    /\ job = "running"
    /\ fate # "open"
    /\ IF fate = "crashed" \/ \E k \in 1 .. Len(wire) : wire[k].fault = "syntax"
       THEN FailAll(reply)
       ELSE LET Answer(rec) == IF rec.fault # "none" THEN "502"
                               ELSE IF rec.type = "record" THEN "ok" ELSE "failed"
            IN FailAll([i \in Items |->
                   IF \E k \in 1 .. Len(wire) : wire[k].id = i
                   THEN Answer(wire[CHOOSE k \in 1 .. Len(wire) : wire[k].id = i])
                   ELSE "none"])
    /\ wire' = <<>>
    /\ UNCHANGED <<kind, started, at, result, made, draining, mayStart, flaws, fate>>

Dispatch ==
    \/ SkipRecord \/ DispatchRecord \/ DispatchHead \/ DispatchChunk \/ DispatchEnd
    \/ DispatchError \/ DispatchBad \/ StreamUnreadable \/ StreamOver
    \/ DispatchBuffered

-----------------------------------------------------------------------------
(* The handlers and the clients.                                            *)

TakeReply(i) ==
    /\ client[i] = "waiting"
    /\ reply[i] # "none"
    /\ client' = [client EXCEPT ![i] = IF reply[i] = "head" THEN "streaming" ELSE "over"]
    /\ UNCHANGED <<avars, job, pending, reply, open, body, got>>

ReadChunk(i) ==
    /\ client[i] = "streaming"
    /\ body[i] # <<>>
    /\ got' = [got EXCEPT ![i] = Append(@, Head(body[i]))]
    /\ body' = [body EXCEPT ![i] = Tail(@)]
    /\ UNCHANGED <<avars, job, pending, reply, open, client>>

BodyOver(i) ==
    /\ client[i] = "streaming"
    /\ body[i] = <<>> /\ i \notin open
    /\ client' = [client EXCEPT ![i] = "over"]
    /\ UNCHANGED <<avars, job, pending, reply, open, body, got>>

\* The request times out, or the client goes away; both receivers are dropped.
Leave(i) ==
    /\ client[i] \in {"waiting", "streaming"}
    /\ client' = [client EXCEPT ![i] = "left"]
    /\ body' = [body EXCEPT ![i] = <<>>]
    /\ UNCHANGED <<avars, job, pending, reply, open, got>>

Receive(i) == TakeReply(i) \/ ReadChunk(i) \/ BodyOver(i)

\* When the job has returned, nobody sees what the function still does:
\* lambda.rs reads it to its end (InvocationDispatcher) and throws it away.
Watched == job = "running" /\ UNCHANGED gatevars

AdapterStep == Watched /\ (Adapt \/ Crash)

RDQuiescent ==
    /\ job = "returned"
    /\ \A i \in Batch : client[i] \in {"over", "left"}
    /\ UNCHANGED rdvars

RDNext ==
    \/ AdapterStep
    \/ Dispatch
    \/ \E i \in Items : Receive(i) \/ Leave(i)
    \/ RDQuiescent

RDSpec == RDInit /\ [][RDNext]_rdvars

(***************************************************************************)
(* The function's event loop or executor runs, its handlers and bodies      *)
(* end, the gateway's task is polled, and a client that stays reads.        *)
(* Nothing is assumed of crashes or timeouts, nor that a pending stream     *)
(* wakes before it has a line.                                              *)
(***************************************************************************)
RDFairness ==
    /\ WF_rdvars(Watched /\ (Start \/ Drained \/ FinishBuffered \/ FinishStream))
    /\ \A i \in Items : WF_rdvars(Watched /\ Produce(i))
    /\ WF_rdvars(Dispatch)
    /\ \A i \in Items : WF_rdvars(Receive(i))

RDFairSpec == RDSpec /\ RDFairness

-----------------------------------------------------------------------------
(* Properties.                                                              *)

(***************************************************************************)
(* No more handlers and bodies run at a time than the concurrency option    *)
(* allows, whatever slots wait for a drain or are to be given up.           *)
(***************************************************************************)
ConcurrencyBounded == Cardinality({i \in Items : at[i] \in {"running", "body"}}) <= Limit

(***************************************************************************)
(* Every client gets what the handler made of its own request: nothing is   *)
(* lost, doubled, reordered or given to another client between the handler  *)
(* and the client, and only a fault that spoils the response as a whole     *)
(* reaches the clients of other requests.  In a buffered response a record  *)
(* that is decoded but cannot be used spoils no other.                      *)
(***************************************************************************)
SpoilsAll ==
    \/ fate = "crashed"
    \/ \E i \in Items : at[i] = "rejected" \/ <<i, "syntax">> \in flaws
    \/ ~Buffered /\ flaws # {}

Delivery == INSTANCE ResponseDelivery WITH
    whole <- {i \in Items : at[i] \in {"spent", "done"}},
    spoiled <- IF SpoilsAll THEN Items ELSE {i \in Items : <<i, "value">> \in flaws},
    phase <- [i \in Items |-> IF i \in Batch THEN client[i] ELSE "waiting"],
    outcome <- [i \in Items |-> IF client[i] # "over" THEN "none"
                               ELSE IF reply[i] = "head" THEN "body"
                               ELSE IF reply[i] = "dropped" THEN "502" ELSE reply[i]]

ImplementsDelivery == Delivery!RSpec

(***************************************************************************)
(* Every client is served or has left, also when the adapter refills its    *)
(* slots late, waits for the stream to drain, or a body channel is full:    *)
(* if all handlers end and all clients read, nobody waits for nobody.       *)
(***************************************************************************)
EveryoneServed == \A i \in Items : <>(client[i] \in {"absent", "over", "left"})
=============================================================================
