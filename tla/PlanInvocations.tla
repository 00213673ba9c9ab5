-------------------------- MODULE PlanInvocations ---------------------------
(***************************************************************************)
(* plan_invocations of gateway/src/batching.rs: a batch whose payload would *)
(* exceed max_invoke_payload_bytes is halved until every part fits or is a  *)
(* single request.  The recursion is unfolded: todo holds the parts still   *)
(* to be planned, the next one first, as the call stack does.               *)
(*                                                                          *)
(* A batch is the sequence of the JSON sizes of its items; an item, and the *)
(* response sender that goes by its id, is named by its index in the batch. *)
(* The encoding of these items cannot fail, so that branch is left out.     *)
(***************************************************************************)
EXTENDS Integers, Sequences, Functions

CONSTANTS
    Batches,     \* the batches that are flushed
    Envelope,    \* the bytes of the event around its items
    MaxPayload   \* max_invoke_payload_bytes

ASSUME BatchesAssumption == Batches \subseteq Seq(Nat) \ {<<>>}
ASSUME PayloadAssumption == Envelope \in Nat /\ MaxPayload \in Nat

VARIABLES
    batch,   \* the batch that is planned
    todo,    \* the parts that are not planned yet, in order
    plans    \* the plans made so far

pvars == <<batch, todo, plans>>

\* A part: its items, and the pending map of response senders given with them.
Part == [first : Nat, last : Nat, pending : SUBSET Nat]
Plan == [kind : {"Invoke", "Fail"}, part : Part]

\* The parts of the batch, planned or not, in order.
NumParts == Len(plans) + Len(todo)
Parts == [i \in 1 .. NumParts |-> IF i <= Len(plans) THEN plans[i].part
                                  ELSE todo[i - Len(plans)]]

\* The last conjunct bounds the recursion: no more parts than requests.
PTypeOK ==
    /\ batch \in Batches
    /\ todo \in Seq(Part)
    /\ plans \in Seq(Plan)
    /\ NumParts <= Len(batch)

PInit ==
    /\ batch \in Batches
    /\ todo = << [first |-> 1, last |-> Len(batch), pending |-> 1 .. Len(batch)] >>
    /\ plans = <<>>

Items(p) == p.first .. p.last

\* Mutant of PayloadBytes: the commas between the items are not counted.
PayloadWithoutCommas(p) == Envelope + FoldFunctionOnSet(+, 0, batch, Items(p))

\* build_payload_bytes: the envelope, the items, the commas between them.
PayloadBytes(p) ==
    Envelope + FoldFunctionOnSet(+, 0, batch, Items(p)) + (p.last - p.first)

FitsPayload(p) == PayloadBytes(p) <= MaxPayload

IsSingle(p) == p.last <= p.first

-----------------------------------------------------------------------------
MakePlan(kind) ==
    /\ plans' = Append(plans, [kind |-> kind, part |-> todo[1]])
    /\ todo' = Tail(todo)
    /\ UNCHANGED batch

PlanInvoke ==
    /\ todo # <<>>
    /\ FitsPayload(todo[1])
    /\ MakePlan("Invoke")

PlanFail ==
    /\ todo # <<>>
    /\ ~FitsPayload(todo[1])
    /\ IsSingle(todo[1])
    /\ MakePlan("Fail")

\* split_off(len / 2): the first item of the right half.
Middle(p) == p.first + (p.last - p.first + 1) \div 2

\* split_pending: the senders of the left items leave the map, the rest stays.
LeftHalf(p) ==
    [p EXCEPT !.last = Middle(p) - 1, !.pending = @ \cap (p.first .. Middle(p) - 1)]

\* Mutants of RightHalf: the item before the middle goes to both halves; the
\* right half is given the whole map.
RightHalfOverlapping(p) ==
    [p EXCEPT !.first = Middle(p) - 1, !.pending = @ \ (p.first .. Middle(p) - 1)]
RightHalfWithAllSenders(p) == [p EXCEPT !.first = Middle(p)]

RightHalf(p) ==
    [p EXCEPT !.first = Middle(p), !.pending = @ \ (p.first .. Middle(p) - 1)]

\* The two recursive calls, of which the left one is made first.
SplitPart ==
    /\ todo # <<>>
    /\ ~FitsPayload(todo[1])
    /\ ~IsSingle(todo[1])
    /\ todo' = <<LeftHalf(todo[1]), RightHalf(todo[1])>> \o Tail(todo)
    /\ UNCHANGED <<batch, plans>>

Planned == todo = <<>> /\ UNCHANGED pvars

PNext == PlanInvoke \/ PlanFail \/ SplitPart \/ Planned

PSpec == PInit /\ [][PNext]_pvars

-----------------------------------------------------------------------------
(* Properties.                                                              *)

(***************************************************************************)
(* However often parts are split, the plans and the parts still to be       *)
(* planned are the batch cut into consecutive, non-empty pieces, in order:  *)
(* no request is planned twice, left out or overtaken by a later one.  This *)
(* is what BatcherManager's FlushPart assumes of flush_batch.               *)
(***************************************************************************)
PartsCutBatch ==
    /\ NumParts >= 1
    /\ Parts[1].first = 1
    /\ Parts[NumParts].last = Len(batch)
    /\ \A i \in 1 .. NumParts : Parts[i].first <= Parts[i].last
    /\ \A i \in 1 .. NumParts - 1 : Parts[i + 1].first = Parts[i].last + 1

(***************************************************************************)
(* A plan has the response senders of the requests in its payload, all of   *)
(* them and no others: an invocation can answer whom it carries.            *)
(***************************************************************************)
SendersFollowItems ==
    \A i \in 1 .. NumParts : Parts[i].pending = Items(Parts[i])

(***************************************************************************)
(* An invocation's payload, down to its commas, is within the limit, and a  *)
(* request is failed only when it exceeds the limit on its own.  The sizes  *)
(* are computed here from the batch and not by the planner's operators.     *)
(***************************************************************************)
EventBytes(S) == Envelope + FoldFunctionOnSet(LAMBDA x, y : x + y + 1, -1, batch, S)
PlansWithinLimit ==
    \A i \in 1 .. Len(plans) :
        IF plans[i].kind = "Invoke"
        THEN EventBytes(plans[i].part.pending) <= MaxPayload
        ELSE \E j \in 1 .. Len(batch) : /\ plans[i].part.pending = {j}
                                        /\ EventBytes({j}) > MaxPayload
=============================================================================
