-------------------------- MODULE RequestLifecycle --------------------------
(***************************************************************************)
(* What the gateway promises of an HTTP request that matches a route, with  *)
(* no word on how: it is admitted while fewer than MaxRequests are open or  *)
(* refused with 429, it is put into one Lambda invocation at most, only     *)
(* together with requests of its own batch key, and it is answered once.    *)
(* A 429 or 413 means that it was not and will not be invoked, so a client  *)
(* can safely try again; a response of the function means that it was.      *)
(***************************************************************************)
EXTENDS Naturals, FiniteSets

CONSTANTS
    Requests,     \* the HTTP requests
    KeyOfRequest, \* [Requests -> keys]: the batch key of each
    MaxRequests   \* max_inflight_requests

Outcomes == {"none", "429", "413", "502", "504", "ok", "gone"}

VARIABLES
    phase,    \* [Requests -> {"new", "open", "done"}]
    outcome,  \* [Requests -> Outcomes]: how each request ended
    free,     \* how many more requests may be open
    invoked   \* the requests that are part of a Lambda invocation

lvars == <<phase, outcome, free, invoked>>

LInit ==
    /\ phase = [r \in Requests |-> "new"]
    /\ outcome = [r \in Requests |-> "none"]
    /\ free = MaxRequests
    /\ invoked = {}

Admit(r) ==
    /\ phase[r] = "new"
    /\ free > 0
    /\ free' = free - 1
    /\ phase' = [phase EXCEPT ![r] = "open"]
    /\ UNCHANGED <<outcome, invoked>>

Refuse(r) ==
    /\ phase[r] = "new"
    /\ free = 0
    /\ phase' = [phase EXCEPT ![r] = "done"]
    /\ outcome' = [outcome EXCEPT ![r] = "429"]
    /\ UNCHANGED <<free, invoked>>

\* One Lambda invocation for the requests of S.
Invoke(S) ==
    /\ S # {}
    /\ S \cap invoked = {}
    /\ \A r \in S : phase[r] # "new" /\ outcome[r] \notin {"429", "413"}
    /\ \A r1, r2 \in S : KeyOfRequest[r1] = KeyOfRequest[r2]
    /\ invoked' = invoked \cup S
    /\ UNCHANGED <<phase, outcome, free>>

Answer(r) ==
    /\ phase[r] = "open"
    /\ phase' = [phase EXCEPT ![r] = "done"]
    /\ \E how \in Outcomes \ {"none"} :
          /\ how = "ok" => r \in invoked
          /\ how \in {"429", "413"} => r \notin invoked
          /\ outcome' = [outcome EXCEPT ![r] = how]
    /\ free' = free + 1
    /\ UNCHANGED invoked

LNext ==
    \/ \E r \in Requests : Admit(r) \/ Refuse(r) \/ Answer(r)
    \/ \E S \in SUBSET Requests : Invoke(S)

LSpec == LInit /\ [][LNext]_lvars
=============================================================================
