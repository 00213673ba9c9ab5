-------------------------- MODULE ResponseDelivery --------------------------
(***************************************************************************)
(* What the clients of one batch are promised, with no word on records,     *)
(* adapters or channels: each gets what the handler made of its own         *)
(* request.  A client gets the handler's response, or a failure if the      *)
(* handler failed, or the chunks of the body in order and without gaps, to  *)
(* the last one.  Only when the response of the batch was spoiled a client  *)
(* may be told 502, or have its body cut off.                               *)
(***************************************************************************)
EXTENDS Naturals, Sequences

CONSTANT Items

VARIABLES
    result,   \* [Items -> what the handler did: "none", "ok" or "failed"]
    made,     \* [Items -> the chunks its body has yielded]
    whole,    \* the items whose body has ended
    spoiled,  \* the items whose clients the failure of others may reach
    phase,    \* [Items -> {"waiting", "streaming", "over", "left"}]
    outcome,  \* [Items -> "none", "ok", "failed", "502" or "body"]
    got       \* [Items -> the chunks its client has received]

rvars == <<result, made, whole, spoiled, phase, outcome, got>>

RInit ==
    /\ result = [i \in Items |-> "none"]
    /\ made = [i \in Items |-> 0]
    /\ whole = {}
    /\ spoiled = {}
    /\ phase = [i \in Items |-> "waiting"]
    /\ outcome = [i \in Items |-> "none"]
    /\ got = [i \in Items |-> <<>>]

\* The handlers and whatever befalls the response.  What is whole stays as it is.
Handle ==
    /\ \A i \in Items : made'[i] >= made[i]
    /\ \A i \in whole : made'[i] = made[i] /\ result'[i] = result[i]
    /\ whole \subseteq whole'
    /\ spoiled \subseteq spoiled'
    /\ \A i \in Items : result'[i] # result[i] => result[i] = "none" \/ result'[i] = "failed"
    /\ UNCHANGED <<phase, outcome, got>>

Tell(i, how) ==
    /\ phase[i] = "waiting"
    /\ how = "502" => i \in spoiled
    /\ how # "502" => result[i] = how
    /\ how = "ok" => i \in whole
    /\ phase' = [phase EXCEPT ![i] = "over"]
    /\ outcome' = [outcome EXCEPT ![i] = how]
    /\ UNCHANGED <<result, made, whole, spoiled, got>>

Open(i) ==
    /\ phase[i] = "waiting"
    /\ result[i] # "none"
    /\ phase' = [phase EXCEPT ![i] = "streaming"]
    /\ UNCHANGED <<result, made, whole, spoiled, outcome, got>>

Deliver(i) ==
    /\ phase[i] = "streaming"
    /\ Len(got[i]) < made[i]
    /\ got' = [got EXCEPT ![i] = Append(@, <<i, Len(@) + 1>>)]
    /\ UNCHANGED <<result, made, whole, spoiled, phase, outcome>>

Close(i) ==
    /\ phase[i] = "streaming"
    /\ i \in spoiled \/ (i \in whole /\ Len(got[i]) = made[i])
    /\ phase' = [phase EXCEPT ![i] = "over"]
    /\ outcome' = [outcome EXCEPT ![i] = "body"]
    /\ UNCHANGED <<result, made, whole, spoiled, got>>

Leave(i) ==
    /\ phase[i] \in {"waiting", "streaming"}
    /\ phase' = [phase EXCEPT ![i] = "left"]
    /\ UNCHANGED <<result, made, whole, spoiled, outcome, got>>

RNext ==
    \/ Handle
    \/ \E i \in Items :
          \/ \E how \in {"ok", "failed", "502"} : Tell(i, how)
          \/ Open(i) \/ Deliver(i) \/ Close(i) \/ Leave(i)

RSpec == RInit /\ [][RNext]_rvars
=============================================================================
