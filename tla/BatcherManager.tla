--------------------------- MODULE BatcherManager ---------------------------
(***************************************************************************)
(* The per-key microbatchers of gateway/src/batching.rs.  HTTP handlers     *)
(* call BatcherManager::enqueue, which looks a bounded channel up in a      *)
(* concurrent map (or inserts one and spawns its batcher task) and tries    *)
(* to send the request down it.  A batcher task collects a batch from its   *)
(* channel, hands it over to flush_batch, and evicts itself from the map    *)
(* when it has been idle for idle_ttl.                                      *)
(*                                                                          *)
(* The map is locked one call at a time and a task is only interrupted      *)
(* between two accesses to shared state, so each map access, channel        *)
(* operation and the drop of a receiver is one action.  Time is abstract:   *)
(* idle_ttl and the batching window may run out at any moment at which the  *)
(* code looks at them.                                                      *)
(***************************************************************************)
EXTENDS Naturals, Sequences, FiniteSets, Functions

CONSTANTS
    Requests,             \* the requests that handlers enqueue, one handler each
    Ops,                  \* the operations of the compiled OpenAPI spec
    OpOf,                 \* [Requests -> Ops]: the operation a request matched
    KeyValues,            \* the values of the x-smug.key dimensions
    NoValue,              \* a key dimension the request does not carry (None)
    KeyHeader,            \* [Requests -> KeyValues]: what the client sent for it
    KeyHeaderForwarded,   \* does HeaderForwardPolicy let that header through?
    QueueDepth,           \* max_queue_depth_per_key
    MaxBatchSize,         \* [Ops -> Nat]: x-smug.maxBatchSize
    DynamicWait,          \* the operations with a dynamic_wait configuration
    NoChan                \* no channel: the map has no entry for the key

ASSUME RequestsAssumption == IsFiniteSet(Requests)
ASSUME OpAssumption == /\ OpOf \in [Requests -> Ops]
                       /\ DynamicWait \subseteq Ops
ASSUME KeyAssumption == /\ NoValue \in KeyValues
                        /\ KeyHeader \in [Requests -> KeyValues]
                        /\ KeyHeaderForwarded \in BOOLEAN
\* mpsc::channel panics on a capacity of 0; spec.rs rejects maxBatchSize 0.
ASSUME SizeAssumption == /\ QueueDepth \in Nat \ {0}
                         /\ MaxBatchSize \in [Ops -> Nat \ {0}]

(***************************************************************************)
(* enqueue runs its loop body twice at most, and each iteration inserts at  *)
(* most one channel: a channel (and the batcher task that receives from it) *)
(* is named by the request and the iteration that inserted it.              *)
(***************************************************************************)
Chans == Requests \X (1 .. 2)

ASSUME NoChanAssumption == NoChan \notin Chans

\* The header values of a PendingRequest are those handle_any forwards.
SeenKey(r) == IF KeyHeaderForwarded THEN KeyHeader[r] ELSE NoValue

\* Mutant of BatchKey: the configured key dimensions are left out of the key.
BatchKeyOfRoute(r) == [op |-> OpOf[r], values |-> NoValue]

BatchKey(r) == [op |-> OpOf[r], values |-> SeenKey(r)]
BatchKeys == [op : Ops, values : KeyValues]

\* The key a batcher task was spawned for, and the configuration it got.
KeyOf(c) == BatchKey(c[1])
IsDynamic(c) == KeyOf(c).op \in DynamicWait
BatchLimit(c) == MaxBatchSize[KeyOf(c).op]

VARIABLES
    entry,    \* [BatchKeys -> Chans or NoChan]: the DashMap of senders
    queue,    \* [Chans -> Seq(Requests)]: sent and not yet received
    task,     \* [Chans -> control state of the batcher task]
    batch,    \* [Chans -> Seq(Requests)]: the Vec the task is filling or flushing
    handler,  \* [Requests -> control state of the call to enqueue]
    tried,    \* [Requests -> Seq(Chans)]: the sender of each loop iteration
    handed,   \* the requests that flush_batch has turned into invocation plans
    lost      \* the requests dropped with the receiver they were queued for

vars == <<entry, queue, task, batch, handler, tried, handed, lost>>

TaskStates == {"unborn", "recv", "collect", "flush", "flush_last", "evict",
               "remove", "done"}
HandlerStates == {"enqueue", "send", "remove", "accepted", "queue_full",
                  "batcher_closed"}

TypeOK ==
    /\ entry \in [BatchKeys -> Chans \cup {NoChan}]
    /\ queue \in [Chans -> Seq(Requests)]
    /\ task \in [Chans -> TaskStates]
    /\ batch \in [Chans -> Seq(Requests)]
    /\ handler \in [Requests -> HandlerStates]
    /\ tried \in [Requests -> Seq(Chans)]
    /\ handed \subseteq Requests
    /\ lost \subseteq Requests

Init ==
    /\ entry = [k \in BatchKeys |-> NoChan]
    /\ queue = [c \in Chans |-> <<>>]
    /\ task = [c \in Chans |-> "unborn"]
    /\ batch = [c \in Chans |-> <<>>]
    /\ handler = [r \in Requests |-> "enqueue"]
    /\ tried = [r \in Requests |-> <<>>]
    /\ handed = {}
    /\ lost = {}

-----------------------------------------------------------------------------
(* BatcherManager::enqueue, called by the handler of request r.             *)

\* The sender clone the handler holds in the current iteration.
Held(r) == tried[r][Len(tried[r])]
Holds(r, c) == /\ handler[r] \in {"send", "remove"}
               /\ Held(r) = c

\* The receiver has not been dropped, so the channel takes messages.
IsOpen(c) == task[c] \in {"recv", "collect", "flush", "flush_last", "evict"}

\* Some sender of the channel is left: the map's, or the clone of a handler.
HasSender(c) == \/ entry[KeyOf(c)] = c
                \/ \E r \in Requests : Holds(r, c)

\* Entry::Occupied: clone the sender of the batcher the map knows.
LookupOccupied(r) ==
    /\ handler[r] = "enqueue"
    /\ entry[BatchKey(r)] # NoChan
    /\ tried' = [tried EXCEPT ![r] = Append(@, entry[BatchKey(r)])]
    /\ handler' = [handler EXCEPT ![r] = "send"]
    /\ UNCHANGED <<entry, queue, task, batch, handed, lost>>

\* Entry::Vacant: insert a new channel and spawn its batcher task.
LookupVacant(r) ==
    LET c == <<r, Len(tried[r]) + 1>> IN
    /\ handler[r] = "enqueue"
    /\ entry[BatchKey(r)] = NoChan
    /\ entry' = [entry EXCEPT ![BatchKey(r)] = c]
    /\ task' = [task EXCEPT ![c] = "recv"]
    /\ tried' = [tried EXCEPT ![r] = Append(@, c)]
    /\ handler' = [handler EXCEPT ![r] = "send"]
    /\ UNCHANGED <<queue, batch, handed, lost>>

TrySend(r) ==
    /\ handler[r] = "send"
    /\ IsOpen(Held(r))
    /\ Len(queue[Held(r)]) < QueueDepth
    /\ queue' = [queue EXCEPT ![Held(r)] = Append(@, r)]
    /\ handler' = [handler EXCEPT ![r] = "accepted"]
    /\ UNCHANGED <<entry, task, batch, tried, handed, lost>>

TrySendFull(r) ==
    /\ handler[r] = "send"
    /\ IsOpen(Held(r))
    /\ Len(queue[Held(r)]) >= QueueDepth
    /\ handler' = [handler EXCEPT ![r] = "queue_full"]
    /\ UNCHANGED <<entry, queue, task, batch, tried, handed, lost>>

TrySendClosed(r) ==
    /\ handler[r] = "send"
    /\ ~IsOpen(Held(r))
    /\ handler' = [handler EXCEPT ![r] = "remove"]
    /\ UNCHANGED <<entry, queue, task, batch, tried, handed, lost>>

\* Mutant of RemoveClosed: the retry does not remove the closed entry.
RetryWithoutRemove(r) ==
    /\ handler[r] = "remove"
    /\ handler' = [handler EXCEPT ![r] = IF Len(tried[r]) < 2 THEN "enqueue"
                                                         ELSE "batcher_closed"]
    /\ UNCHANGED <<entry, queue, task, batch, tried, handed, lost>>

\* self.batchers.remove(&key): whatever the map now holds under the key goes.
RemoveClosed(r) ==
    /\ handler[r] = "remove"
    /\ entry' = [entry EXCEPT ![BatchKey(r)] = NoChan]
    /\ handler' = [handler EXCEPT ![r] = IF Len(tried[r]) < 2 THEN "enqueue"
                                                         ELSE "batcher_closed"]
    /\ UNCHANGED <<queue, task, batch, tried, handed, lost>>

-----------------------------------------------------------------------------
(* batcher_task, batcher_task_fixed and batcher_task_dynamic.               *)

\* Mutant of AfterPush: the size test is off by one.
AfterPushLate(c, n) == IF n > BatchLimit(c) THEN "flush" ELSE "collect"

\* A batch of n requests is complete, or the task waits for more.
AfterPush(c, n) == IF n >= BatchLimit(c) THEN "flush" ELSE "collect"

Receive(c) ==
    /\ queue' = [queue EXCEPT ![c] = Tail(@)]
    /\ batch' = [batch EXCEPT ![c] = Append(@, Head(queue[c]))]
    /\ task' = [task EXCEPT ![c] = AfterPush(c, Len(batch[c]) + 1)]
    /\ UNCHANGED <<entry, handler, tried, handed, lost>>

ReceiveFirst(c) ==
    /\ task[c] = "recv"
    /\ queue[c] # <<>>
    /\ Receive(c)

ReceiveMore(c) ==
    /\ task[c] = "collect"
    /\ queue[c] # <<>>
    /\ Receive(c)

Goto(c, state) ==
    /\ task' = [task EXCEPT ![c] = state]
    /\ UNCHANGED <<entry, queue, batch, handler, tried, handed, lost>>

\* Mutant of IdleExpires: the task is evicted only when nothing can send to it.
IdleExpiresUnmapped(c) ==
    /\ task[c] = "recv"
    /\ queue[c] = <<>>
    /\ ~HasSender(c)
    /\ Goto(c, "evict")

(***************************************************************************)
(* tokio::time::timeout polls recv before the timer, so the fixed batcher   *)
(* only times out on an empty channel.  tokio::select! polls its branches   *)
(* in a random order: in the dynamic batcher a timer that is due may win    *)
(* over a channel that has requests.                                        *)
(***************************************************************************)
IdleExpires(c) ==
    /\ task[c] = "recv"
    /\ IsDynamic(c) \/ queue[c] = <<>>
    /\ Goto(c, "evict")

\* recv returned None while waiting for a first request.
RecvDisconnected(c) ==
    /\ task[c] = "recv"
    /\ queue[c] = <<>>
    /\ ~HasSender(c)
    /\ Goto(c, "evict")

\* Mutant of WindowExpires: only a full batch is flushed.
WindowWaitsForFull(c) ==
    /\ task[c] = "collect"
    /\ Len(batch[c]) >= BatchLimit(c)
    /\ Goto(c, "flush")

\* The batching window is over; the fixed loop also tests it before each recv.
WindowExpires(c) ==
    /\ task[c] = "collect"
    /\ Goto(c, "flush")

\* recv returned None while collecting: the dynamic task returns after the
\* flush, the fixed one loops and finds out again.
CollectDisconnected(c) ==
    /\ task[c] = "collect"
    /\ queue[c] = <<>>
    /\ ~HasSender(c)
    /\ Goto(c, IF IsDynamic(c) THEN "flush_last" ELSE "flush")

\* Mutants of FlushPart: the last item of a part stays in the remainder; the
\* right part of a split is handed over before the left one.
FlushPartOverlap(c, n) ==
    LET rest == SubSeq(batch[c], IF n < Len(batch[c]) THEN n ELSE n + 1, Len(batch[c])) IN
    /\ task[c] \in {"flush", "flush_last"}
    /\ n \in 1 .. Len(batch[c])
    /\ handed' = handed \cup {batch[c][i] : i \in 1 .. n}
    /\ batch' = [batch EXCEPT ![c] = rest]
    /\ task' = [task EXCEPT ![c] = IF rest # <<>> THEN @ ELSE "recv"]
    /\ UNCHANGED <<entry, queue, handler, tried, lost>>
FlushRightPart(c, n) ==
    LET rest == SubSeq(batch[c], 1, Len(batch[c]) - n) IN
    /\ task[c] \in {"flush", "flush_last"}
    /\ n \in 1 .. Len(batch[c])
    /\ handed' = handed \cup {batch[c][i] : i \in Len(batch[c]) - n + 1 .. Len(batch[c])}
    /\ batch' = [batch EXCEPT ![c] = rest]
    /\ task' = [task EXCEPT ![c] = IF rest # <<>> THEN @ ELSE "recv"]
    /\ UNCHANGED <<entry, queue, handler, tried, lost>>

(***************************************************************************)
(* flush_batch: the batch is cut, in order, into the parts plan_invocations *)
(* made of it, and the loop over the plans hands one part over at a time.   *)
(* What a part becomes is InvocationDispatcher's concern.                   *)
(***************************************************************************)
FlushPart(c, n) ==
    LET rest == SubSeq(batch[c], n + 1, Len(batch[c])) IN
    /\ task[c] \in {"flush", "flush_last"}
    /\ n \in 1 .. Len(batch[c])
    /\ handed' = handed \cup {batch[c][i] : i \in 1 .. n}
    /\ batch' = [batch EXCEPT ![c] = rest]
    /\ task' = [task EXCEPT ![c] =
                    CASE rest # <<>> -> @
                      [] rest = <<>> /\ @ = "flush" -> "recv"
                      [] rest = <<>> /\ @ = "flush_last" -> "evict"]
    /\ UNCHANGED <<entry, queue, handler, tried, lost>>

\* Mutant of DropReceiver: the receiver outlives the removal from the map.
KeepReceiver(c) ==
    /\ task[c] = "evict"
    /\ lost' = lost \cup Range(queue[c])
    /\ task' = [task EXCEPT ![c] = "remove"]
    /\ UNCHANGED <<entry, queue, batch, handler, tried, handed>>

\* The inner function returns: its receiver, and all that is queued, is dropped.
DropReceiver(c) ==
    /\ task[c] = "evict"
    /\ lost' = lost \cup Range(queue[c])
    /\ queue' = [queue EXCEPT ![c] = <<>>]
    /\ task' = [task EXCEPT ![c] = "remove"]
    /\ UNCHANGED <<entry, batch, handler, tried, handed>>

\* Mutants of RemoveSelf: the task returns without removing its entry; it
\* waits to find its own entry in the map.
ReturnWithoutRemove(c) ==
    /\ task[c] = "remove"
    /\ task' = [task EXCEPT ![c] = "done"]
    /\ UNCHANGED <<entry, queue, batch, handler, tried, handed, lost>>
RemoveOwnEntry(c) ==
    /\ task[c] = "remove"
    /\ entry[KeyOf(c)] = c
    /\ entry' = [entry EXCEPT ![KeyOf(c)] = NoChan]
    /\ task' = [task EXCEPT ![c] = "done"]
    /\ UNCHANGED <<queue, batch, handler, tried, handed, lost>>

\* batchers.remove(&key), the last statement of batcher_task.
RemoveSelf(c) ==
    /\ task[c] = "remove"
    /\ entry' = [entry EXCEPT ![KeyOf(c)] = NoChan]
    /\ task' = [task EXCEPT ![c] = "done"]
    /\ UNCHANGED <<queue, batch, handler, tried, handed, lost>>

-----------------------------------------------------------------------------
Enqueue(r) ==
    \/ LookupOccupied(r) \/ LookupVacant(r)
    \/ TrySend(r) \/ TrySendFull(r) \/ TrySendClosed(r)
    \/ RemoveClosed(r)

Batcher(c) ==
    \/ ReceiveFirst(c) \/ ReceiveMore(c)
    \/ IdleExpires(c) \/ RecvDisconnected(c)
    \/ WindowExpires(c) \/ CollectDisconnected(c)
    \/ \E n \in 1 .. Len(batch[c]) : FlushPart(c, n)
    \/ DropReceiver(c) \/ RemoveSelf(c)

\* Every request was answered by enqueue and every task has returned.
Quiescent ==
    /\ \A r \in Requests : handler[r] \in {"accepted", "queue_full", "batcher_closed"}
    /\ \A c \in Chans : task[c] \in {"unborn", "done"}
    /\ UNCHANGED vars

Next ==
    \/ \E r \in Requests : Enqueue(r)
    \/ \E c \in Chans : Batcher(c)
    \/ Quiescent

Spec == Init /\ [][Next]_vars

(***************************************************************************)
(* Tokio polls every runnable task: enqueue never waits, a batcher whose    *)
(* channel has messages or whose timer is due is woken.                     *)
(***************************************************************************)
Fairness == /\ \A r \in Requests : WF_vars(Enqueue(r))
            /\ \A c \in Chans : WF_vars(Batcher(c))

FairSpec == Spec /\ Fairness

-----------------------------------------------------------------------------
(* Properties.                                                              *)

(***************************************************************************)
(* Requests that share a channel or a batch agree on the operation and, if  *)
(* the key header is forwarded, on the value their clients sent, whichever  *)
(* of them spawned the batcher and however often batchers of the key were   *)
(* evicted in between (BatchKey and the map lookup of enqueue).             *)
(***************************************************************************)
KeyIsolation ==
    \A c \in Chans : \A r \in Range(queue[c]) \cup Range(batch[c]) :
        /\ OpOf[r] = OpOf[c[1]]
        /\ KeyHeaderForwarded => KeyHeader[r] = KeyHeader[c[1]]

(***************************************************************************)
(* enqueue returned Ok for exactly the requests that are queued, batched,   *)
(* handed over or lost, and each of those is in one place, once: a request  *)
(* is never sent to Lambda twice, and never after it was answered 429, even *)
(* when its first channel was closed under it and it was sent again.        *)
(***************************************************************************)
InQueue(r, c, i) == i \in DOMAIN queue[c] /\ queue[c][i] = r
InBatch(r, c, i) == i \in DOMAIN batch[c] /\ batch[c][i] = r
Waiting(r) == \E c \in Chans : r \in Range(queue[c]) \cup Range(batch[c])

Custody ==
    /\ \A r \in Requests : handler[r] = "accepted" <=> Waiting(r) \/ r \in handed \cup lost
    /\ \A r \in Requests : Waiting(r) => r \notin handed \cup lost
    /\ handed \cap lost = {}
    /\ \A c, d \in Chans : c # d =>
          (Range(queue[c]) \cup Range(batch[c])) \cap (Range(queue[d]) \cup Range(batch[d])) = {}
    /\ \A c \in Chans : /\ Range(queue[c]) \cap Range(batch[c]) = {}
                        /\ IsInjective(queue[c])
                        /\ IsInjective(batch[c])

(***************************************************************************)
(* The map never keeps the sender of a batcher that has finished, nor of    *)
(* one that does not exist: a key whose batcher was evicted is not wedged,  *)
(* its next request finds a fresh channel.  The last statement of           *)
(* batcher_task and the removals by handlers race for this.                 *)
(***************************************************************************)
EntryNeverDead ==
    \A k \in BatchKeys : entry[k] # NoChan =>
        /\ KeyOf(entry[k]) = k
        /\ task[entry[k]] \notin {"unborn", "done"}

(***************************************************************************)
(* EnqueueError::BatcherClosed is reported only when two different batchers *)
(* of the key dropped their receivers under the call.                       *)
(***************************************************************************)
ClosedMeansTwoEvictions ==
    \A r \in Requests : handler[r] = "batcher_closed" =>
        /\ Len(tried[r]) = 2
        /\ tried[r][1] # tried[r][2]
        /\ \A i \in 1 .. 2 : task[tried[r][i]] \in {"remove", "done"}

(***************************************************************************)
(* No batch is larger than maxBatchSize and no channel holds more than      *)
(* max_queue_depth_per_key requests; a batcher that is not collecting holds *)
(* none, so eviction cannot strand a batch.                                 *)
(***************************************************************************)
Bounds ==
    \A c \in Chans :
        /\ Len(queue[c]) <= QueueDepth
        /\ Len(batch[c]) <= BatchLimit(c)
        /\ task[c] \in {"recv", "evict", "remove", "done"} => batch[c] = <<>>
        /\ task[c] \in {"unborn", "remove", "done"} => queue[c] = <<>>

(***************************************************************************)
(* A batcher serves its requests in the order they were sent: from the      *)
(* oldest in the batch to the youngest in the channel, a step appends one,  *)
(* or takes some from the front.  The step that drops the receiver takes    *)
(* them all, which is in order only because no batch is open then.          *)
(***************************************************************************)
Line(c) == batch[c] \o queue[c]
ServedInOrder ==
    [][\A c \in Chans : Line(c)' # Line(c) =>
         \/ \E r \in Requests : Line(c)' = Append(Line(c), r)
         \/ \E n \in 1 .. Len(Line(c)) : Line(c)' = SubSeq(Line(c), n + 1, Len(Line(c)))]_vars

(***************************************************************************)
(* A request that enqueue accepted does not stay with its batcher: it gets  *)
(* into an invocation plan or is dropped, also when its batcher lost its    *)
(* map entry to another task's removal.                                     *)
(***************************************************************************)
AcceptedLeaves ==
    \A r \in Requests : handler[r] = "accepted" ~> r \in handed \cup lost

(***************************************************************************)
(* A batcher whose entry was removed under it stops: either its channel is  *)
(* found disconnected or its idle timer fires.  And once traffic has ceased *)
(* the map empties, the purpose of idle_ttl.                                *)
(***************************************************************************)
OrphanStops ==
    \A c \in Chans : (task[c] # "unborn" /\ entry[KeyOf(c)] # c) ~> task[c] = "done"

MapEmpties == <>[](\A k \in BatchKeys : entry[k] = NoChan)

(***************************************************************************)
(* What the source says of batchers and this code does not keep.            *)
(***************************************************************************)

\* "Handle idle eviction + races by retrying once if the channel is closed":
\* an accepted request is not lost to the eviction of its batcher.
NoAcceptedRequestLost == lost = {}
=============================================================================
