---------------------------- MODULE BatchAdapter ----------------------------
(***************************************************************************)
(* The adapters of lambda-kit: they run a single-request handler for each   *)
(* item of a batch event, with bounded concurrency, and produce one         *)
(* buffered response (batchAdapter, BatchAdapter::handle) or NDJSON lines   *)
(* (batchAdapterStream, BatchAdapterStream::stream), either one complete    *)
(* record for an item or head, chunk and end records.  Node runs            *)
(* min(concurrency, length) workers over a shared index; Rust's             *)
(* ConcurrentSelect is polled by whoever writes its lines.                  *)
(*                                                                          *)
(* A record is its item, its type and, of a chunk, its number.  Its fault   *)
(* is what keeps the gateway from using it: a value that is no status,      *)
(* header or base64 body, or a syntax it cannot decode (which stands also   *)
(* for a record that is too large).                                         *)
(***************************************************************************)
EXTENDS Naturals, Sequences, FiniteSets, FiniteSetsExt

CONSTANTS
    MaxItems,      \* bound: the length of event.batch
    Concurrency,   \* the concurrency option
    ChunksOf,      \* bound: [Items -> how many chunks the body of each may have]
    MaxFlaws,      \* bound: the faulty records of an invocation
    WireCapacity,  \* bound: the records a response stream takes before it holds up its writer
    Kinds          \* the adapters: runtime, output format, length of the batch they get

Kind == [runtime : {"node", "rust"}, mode : {"buffered", "records", "interleaved"},
         length : 1 .. MaxItems]

ASSUME AdapterAssumption ==
    /\ MaxItems \in Nat \ {0}
    /\ Concurrency \in Nat
    /\ ChunksOf \in [1 .. MaxItems -> Nat]
    /\ MaxFlaws \in Nat
    /\ WireCapacity \in Nat \ {0}
    /\ Kinds \subseteq Kind

Items == 1 .. MaxItems
MaxChunks == Max({ChunksOf[i] : i \in Items})

VARIABLES
    kind,      \* which adapter this is
    started,   \* the items 1 .. started were given to the handler
    at,        \* [Items -> how far each is]
    result,    \* [Items -> what the handler did: "none", "ok" or "failed"]
    made,      \* [Items -> the number of chunks its body has yielded]
    draining,  \* Node: the items that wait for the response stream's "drain"
    mayStart,  \* Rust: ConcurrentSelect was polled anew and refills
    wire,      \* the records written and not read by the gateway
    flaws,     \* history: the items with a faulty record, each with its fault
    fate       \* of the invocation: "open", "ended" or "crashed"

avars == <<kind, started, at, result, made, draining, mayStart, wire, flaws, fate>>

Batch == 1 .. kind.length

\* normalizeConcurrency, and never more than there are items.
Limit == Min({Max({Concurrency, 1}), kind.length})

Buffered == kind.mode = "buffered"
Interleaved == kind.mode = "interleaved"
Node == kind.runtime = "node"

\* "spent" is a Rust stream that has yielded its last line and still is in
\* SelectAll, "rejected" a Node item whose promise was rejected.
Stages == {"waiting", "running", "body", "spent", "rejected", "done"}
Types == {"record", "failure", "head", "chunk", "end", "error"}
Faults == {"none", "value", "syntax"}
Records == [id : Items, type : Types, n : 0 .. MaxChunks, fault : Faults]

AdapterTypeOK ==
    /\ kind \in Kinds
    /\ started \in 0 .. kind.length
    /\ at \in [Items -> Stages]
    /\ result \in [Items -> {"none", "ok", "failed"}]
    /\ made \in [Items -> 0 .. MaxChunks]
    /\ draining \subseteq Items
    /\ mayStart \in BOOLEAN
    /\ wire \in Seq(Records)
    /\ flaws \subseteq Items \X Faults
    /\ fate \in {"open", "ended", "crashed"}

AdapterInit ==
    /\ kind \in Kinds
    /\ started = 0
    /\ at = [i \in Items |-> "waiting"]
    /\ result = [i \in Items |-> "none"]
    /\ made = [i \in Items |-> 0]
    /\ draining = {}
    /\ mayStart = TRUE
    /\ wire = <<>>
    /\ flaws = {}
    /\ fate = "open"

-----------------------------------------------------------------------------
(* Starting items.                                                          *)

\* The items that occupy a worker, a slot of buffer_unordered or of SelectAll.
Occupied == {i \in Items : at[i] \in {"running", "body", "spent", "rejected"}} \cup draining

\* Mutant of Start: the limit is compared after the item was counted in.
StartOneMore ==
    /\ fate = "open"
    /\ started < kind.length
    /\ Cardinality(Occupied) <= Limit
    /\ mayStart
    /\ started' = started + 1
    /\ at' = [at EXCEPT ![started + 1] = "running"]
    /\ UNCHANGED <<kind, result, made, draining, mayStart, wire, flaws, fate>>

\* The next item of the batch goes to the handler.
Start ==
    /\ fate = "open"
    /\ started < kind.length
    /\ Cardinality(Occupied) < Limit
    /\ mayStart
    /\ started' = started + 1
    /\ at' = [at EXCEPT ![started + 1] = "running"]
    /\ UNCHANGED <<kind, result, made, draining, mayStart, wire, flaws, fate>>

\* Mutant of Exhaust: an empty SelectAll ends the poll.
ExhaustWithoutRefill(i) ==
    /\ fate = "open"
    /\ at[i] = "spent"
    /\ at' = [at EXCEPT ![i] = "done"]
    /\ mayStart' = FALSE
    /\ UNCHANGED <<kind, started, result, made, draining, wire, flaws, fate>>

\* ConcurrentSelect: SelectAll finds that a stream is over and drops it.  Its
\* slot is refilled at once only if no other stream is left; otherwise
\* poll_next returns Pending, and refills when it is polled again.
Exhaust(i) ==
    /\ fate = "open"
    /\ at[i] = "spent"
    /\ at' = [at EXCEPT ![i] = "done"]
    /\ mayStart' = (Occupied = {i})
    /\ UNCHANGED <<kind, started, result, made, draining, wire, flaws, fate>>

\* A pending stream wakes the task, whether or not it then has a line.
Wake ==
    /\ fate = "open"
    /\ ~mayStart /\ started < kind.length
    /\ \E i \in Items : at[i] \in {"running", "body"}
    /\ mayStart' = TRUE
    /\ UNCHANGED <<kind, started, at, result, made, draining, wire, flaws, fate>>

-----------------------------------------------------------------------------
(* Producing records.                                                       *)

Record(i, type, n, fault) == [id |-> i, type |-> type, n |-> n, fault |-> fault]

\* writeNdjsonLine writes and then waits if the stream is full; a Rust stream
\* is not polled while the stream is full.
Write(i, type, n, fault) ==
    /\ fate = "open"
    /\ i \notin draining
    /\ Node \/ Len(wire) < WireCapacity
    /\ fault # "none" => Cardinality(flaws) < MaxFlaws
    /\ wire' = Append(wire, Record(i, type, n, fault))
    /\ flaws' = IF fault = "none" THEN flaws ELSE flaws \cup {<<i, fault>>}
    /\ draining' = IF Node /\ Len(wire) >= WireCapacity THEN draining \cup {i} ELSE draining
    /\ mayStart' = TRUE
    /\ UNCHANGED <<kind, started, fate>>

Drained ==
    /\ fate = "open"
    /\ wire = <<>> /\ draining # {}
    /\ draining' = {}
    /\ UNCHANGED <<kind, started, at, result, made, mayStart, wire, flaws, fate>>

\* After its last line: a Node worker is free, a Rust stream still to be polled.
Over(i) == at' = [at EXCEPT ![i] = IF Node THEN "done" ELSE "spent"]

\* mapConcurrent and buffer_unordered: the response goes to its index of out.
ReturnBuffered(i, outcome) ==
    /\ Buffered
    /\ fate = "open"
    /\ at[i] = "running"
    /\ at' = [at EXCEPT ![i] = "done"]
    /\ result' = [result EXCEPT ![i] = outcome]
    /\ UNCHANGED <<kind, started, made, draining, mayStart, wire, flaws, fate>>

\* One complete record; a 500 when the handler failed.
WriteRecord(i, outcome, fault) ==
    /\ kind.mode = "records"
    /\ at[i] = "running"
    /\ Over(i)
    /\ result' = [result EXCEPT ![i] = outcome]
    /\ IF outcome = "ok" THEN Write(i, "record", 0, fault) ELSE Write(i, "failure", 0, "none")
    /\ UNCHANGED made

WriteHead(i, fault) ==
    /\ Interleaved
    /\ at[i] = "running"
    /\ at' = [at EXCEPT ![i] = "body"]
    /\ result' = [result EXCEPT ![i] = "ok"]
    /\ Write(i, "head", 0, fault)
    /\ UNCHANGED made

\* The handler failed before it returned a response.
WriteError(i) ==
    /\ Interleaved
    /\ at[i] = "running"
    /\ Over(i)
    /\ result' = [result EXCEPT ![i] = "failed"]
    /\ Write(i, "error", 0, "none")
    /\ UNCHANGED made

\* Node: Number, String or the like throws on the response, outside of any try.
Reject(i) ==
    /\ Interleaved /\ Node
    /\ fate = "open"
    /\ at[i] = "running"
    /\ at' = [at EXCEPT ![i] = "rejected"]
    /\ UNCHANGED <<kind, started, result, made, draining, mayStart, wire, flaws, fate>>

WriteChunk(i, fault) ==
    /\ at[i] = "body"
    /\ made[i] < ChunksOf[i]
    /\ made' = [made EXCEPT ![i] = @ + 1]
    /\ Write(i, "chunk", made[i] + 1, fault)
    /\ UNCHANGED <<at, result>>

WriteEnd(i) ==
    /\ at[i] = "body"
    /\ Over(i)
    /\ Write(i, "end", 0, "none")
    /\ UNCHANGED <<result, made>>

\* Node: the iteration of the body throws.  Rust bodies cannot.
WriteBodyError(i) ==
    /\ Node
    /\ at[i] = "body"
    /\ Over(i)
    /\ result' = [result EXCEPT ![i] = "failed"]
    /\ Write(i, "error", 0, "none")
    /\ UNCHANGED made

Produce(i) ==
    \/ \E outcome \in {"ok", "failed"} :
          \/ ReturnBuffered(i, outcome)
          \/ \E fault \in Faults : WriteRecord(i, outcome, fault)
    \/ \E fault \in Faults : WriteHead(i, fault) \/ WriteChunk(i, fault)
    \/ WriteError(i) \/ Reject(i) \/ WriteEnd(i) \/ WriteBodyError(i)
    \/ Exhaust(i)

-----------------------------------------------------------------------------
(* The end of the invocation.                                               *)

AllDone == started = kind.length /\ Occupied = {}

\* out in the order of the batch.
FinishBuffered ==
    /\ Buffered
    /\ fate = "open"
    /\ AllDone
    /\ fate' = "ended"
    /\ \E faults \in [Batch -> Faults] :
          /\ wire' = [i \in Batch |-> IF result[i] = "ok" THEN Record(i, "record", 0, faults[i])
                                      ELSE Record(i, "failure", 0, "none")]
          /\ flaws' = {<<i, wire'[i].fault>> : i \in {j \in Batch : wire'[j].fault # "none"}}
          /\ Cardinality(flaws') <= MaxFlaws
    /\ UNCHANGED <<kind, started, at, result, made, draining, mayStart>>

\* Promise.all waits for every worker, or for the first that is rejected; then
\* the response stream is ended, and what others still write to it is lost.
FinishStream ==
    /\ ~Buffered
    /\ fate = "open"
    /\ AllDone \/ \E i \in Items : at[i] = "rejected"
    /\ fate' = "ended"
    /\ UNCHANGED <<kind, started, at, result, made, draining, mayStart, wire, flaws>>

\* External: the function is killed, by its timeout or for its memory.
Crash ==
    /\ fate = "open"
    /\ fate' = "crashed"
    /\ UNCHANGED <<kind, started, at, result, made, draining, mayStart, wire, flaws>>

Adapt == Start \/ Wake \/ Drained \/ FinishBuffered \/ FinishStream \/ \E i \in Items : Produce(i)
=============================================================================
