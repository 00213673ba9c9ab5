----------------------------- MODULE LayerProxy -----------------------------
(***************************************************************************)
(* The Runtime API proxy of bootstrap/layer-proxy/src: it fetches an outer  *)
(* invocation from the Lambda Runtime API, splits a gateway batch into      *)
(* virtual invocations, serves them to the runtime's concurrent workers,    *)
(* streams one record for each as the outer response, and waits for that    *)
(* response to be delivered before it fetches again.  Anything else passes  *)
(* through.                                                                 *)
(*                                                                          *)
(* A critical section of ProxyState.inner is one action, and so is the      *)
(* creation of a Notified future: notify_waiters reaches the futures that   *)
(* exist when it is called and no later ones.  The runtime's workers and    *)
(* the upstream Runtime API are external.                                   *)
(***************************************************************************)
EXTENDS Naturals, Sequences, FiniteSets, Functions

CONSTANTS
    Workers,        \* the runtime's workers, each with one request at a time
    Outers,         \* the outer invocations the Runtime API has to give
    KindOf,         \* [Outers -> {"batch", "pass", "bad"}]: what the body parses to
    VirtualsOf,     \* [Outers -> Seq(ids)]: the virtual invocations of a batch
    UnfitIds,       \* the virtual ids that are no valid header value
    Unreliable,     \* the workers that may go away in the middle of a request
    UpstreamFails,  \* may calls to the Runtime API fail?
    Nobody          \* no outer invocation

Ids == UNION {Range(VirtualsOf[o]) : o \in Outers}
Batches == {o \in Outers : KindOf[o] = "batch"}

ASSUME OutersAssumption == /\ KindOf \in [Outers -> {"batch", "pass", "bad"}]
                           /\ Nobody \notin Outers
                           /\ Unreliable \subseteq Workers
                           /\ UpstreamFails \in BOOLEAN
\* parse_outer_smug_batch refuses duplicates; the gateway's ids are UUIDs.
ASSUME IdsAssumption ==
    /\ \A o \in Outers : IsInjective(VirtualsOf[o])
    /\ \A o1, o2 \in Outers : o1 # o2 => Range(VirtualsOf[o1]) \cap Range(VirtualsOf[o2]) = {}
    /\ Ids \cap (Outers \cup {Nobody}) = {}
    /\ \A o \in Outers : VirtualsOf[o] \in Seq(Ids)

VARIABLES
    active,     \* ActiveInvocation: "none", "pass", "batch" or "finalizing"
    outer,      \* the outer invocation of it
    queue,      \* its virtual invocations that no worker has taken
    inflight,   \* those that a worker has taken and not completed
    delivered,  \* PassThroughInvocation.delivered
    fetching,   \* fetching_outer
    pc,         \* [Workers -> where the worker, or its request, is]
    job,        \* [Workers -> the invocation it was given, or its request fetched]
    records,    \* [Outers -> Seq(Ids)]: the records written to the outer response
    given,      \* the outer invocations upstream has handed out
    finished,   \* those whose response upstream has
    gone        \* a worker went away while its request was fetching (history)

pvars == <<active, outer, queue, inflight, delivered, fetching>>
svars == <<records, given, finished, gone>>
lpvars == <<pvars, pc, job, svars>>

PcStates == {"idle", "take", "check", "fetch", "install", "fetch_failed",
             "unregistered", "waiting", "run", "forward"}

LPTypeOK ==
    /\ active \in {"none", "pass", "batch", "finalizing"}
    /\ outer \in Outers \cup {Nobody}
    /\ queue \in Seq(Ids)
    /\ inflight \subseteq Ids
    /\ delivered \in BOOLEAN
    /\ fetching \in BOOLEAN
    /\ pc \in [Workers -> PcStates]
    /\ job \in [Workers -> Outers \cup Ids \cup {Nobody}]
    /\ records \in [Outers -> Seq(Ids)]
    /\ given \subseteq Outers
    /\ finished \subseteq given
    /\ gone \in BOOLEAN

LPInit ==
    /\ active = "none"
    /\ outer = Nobody
    /\ queue = <<>>
    /\ inflight = {}
    /\ delivered = FALSE
    /\ fetching = FALSE
    /\ pc = [w \in Workers |-> "idle"]
    /\ job = [w \in Workers |-> Nobody]
    /\ records = [o \in Outers |-> <<>>]
    /\ given = {}
    /\ finished = {}
    /\ gone = FALSE

Goes(w, state) == pc' = [pc EXCEPT ![w] = state]

\* notify_waiters, by worker w, which goes on to state.
Notify(w, state) ==
    pc' = [v \in Workers |-> IF v = w THEN state
                             ELSE IF pc[v] = "waiting" THEN "take" ELSE pc[v]]

-----------------------------------------------------------------------------
(* handle_next.                                                             *)

CallNext(w) ==
    /\ pc[w] = "idle"
    /\ job' = [job EXCEPT ![w] = Nobody]
    /\ Goes(w, "take")
    /\ UNCHANGED <<pvars, svars>>

TakePass(w) ==
    /\ pc[w] = "take"
    /\ active = "pass" /\ ~delivered
    /\ delivered' = TRUE
    /\ job' = [job EXCEPT ![w] = outer]
    /\ Goes(w, "run")
    /\ UNCHANGED <<active, outer, queue, inflight, fetching, svars>>

\* Mutant of TakeVirtual: the invocation stays in the queue.
PeekVirtual(w) ==
    /\ pc[w] = "take"
    /\ active = "batch" /\ queue # <<>>
    /\ inflight' = inflight \cup {Head(queue)}
    /\ job' = [job EXCEPT ![w] = Head(queue)]
    /\ Goes(w, "run")
    /\ UNCHANGED <<active, outer, queue, delivered, fetching, svars>>

\* An id that cannot be a header is answered 502, after it was taken.
TakeVirtual(w) ==
    /\ pc[w] = "take"
    /\ active = "batch" /\ queue # <<>>
    /\ queue' = Tail(queue)
    /\ inflight' = inflight \cup {Head(queue)}
    /\ IF Head(queue) \in UnfitIds
       THEN Goes(w, "idle") /\ UNCHANGED job
       ELSE Goes(w, "run") /\ job' = [job EXCEPT ![w] = Head(queue)]
    /\ UNCHANGED <<active, outer, delivered, fetching, svars>>

TakeNothing(w) ==
    /\ pc[w] = "take"
    /\ ~(active = "pass" /\ ~delivered)
    /\ ~(active = "batch" /\ queue # <<>>)
    /\ Goes(w, "check")
    /\ UNCHANGED <<pvars, job, svars>>

\* Mutant of StartFetch: whether somebody fetches already is not looked at.
StartFetchTwice(w) ==
    /\ pc[w] = "check"
    /\ active = "none"
    /\ fetching' = TRUE
    /\ Goes(w, "fetch")
    /\ UNCHANGED <<active, outer, queue, inflight, delivered, job, svars>>

StartFetch(w) ==
    /\ pc[w] = "check"
    /\ active = "none" /\ ~fetching
    /\ fetching' = TRUE
    /\ Goes(w, "fetch")
    /\ UNCHANGED <<active, outer, queue, inflight, delivered, job, svars>>

\* The lock is released; notified() is not yet called.
DecideToWait(w) ==
    /\ pc[w] = "check"
    /\ active # "none" \/ fetching
    /\ Goes(w, "unregistered")
    /\ UNCHANGED <<pvars, job, svars>>

Register(w) ==
    /\ pc[w] = "unregistered"
    /\ Goes(w, "waiting")
    /\ UNCHANGED <<pvars, job, svars>>

\* External: the Runtime API answers /next with an outer invocation.
UpstreamGives(w, o) ==
    /\ pc[w] = "fetch"
    /\ o \notin given
    /\ given' = given \cup {o}
    /\ job' = [job EXCEPT ![w] = o]
    /\ Goes(w, "install")
    /\ UNCHANGED <<pvars, records, finished, gone>>

UpstreamNextFails(w) ==
    /\ UpstreamFails
    /\ pc[w] = "fetch"
    /\ Goes(w, "fetch_failed")
    /\ UNCHANGED <<pvars, job, svars>>

\* Mutant of FetchFailed: the error returns before the flag is reset.
FetchFailedEarly(w) ==
    /\ pc[w] = "fetch_failed"
    /\ Notify(w, "idle")
    /\ UNCHANGED <<pvars, job, svars>>

FetchFailed(w) ==
    /\ pc[w] = "fetch_failed"
    /\ fetching' = FALSE
    /\ Notify(w, "idle")
    /\ UNCHANGED <<active, outer, queue, inflight, delivered, job, svars>>

Install(w) ==
    /\ pc[w] = "install"
    /\ KindOf[job[w]] # "bad"
    /\ fetching' = FALSE
    /\ outer' = job[w]
    /\ active' = KindOf[job[w]]
    /\ queue' = VirtualsOf[job[w]]
    /\ inflight' = {}
    /\ delivered' = FALSE
    /\ job' = [job EXCEPT ![w] = Nobody]
    /\ Notify(w, "take")
    /\ UNCHANGED svars

\* The early return of a batch that does not parse: nobody is notified.
InstallBad(w) ==
    /\ pc[w] = "install"
    /\ KindOf[job[w]] = "bad"
    /\ fetching' = FALSE
    /\ job' = [job EXCEPT ![w] = Nobody]
    /\ Goes(w, "idle")
    /\ UNCHANGED <<active, outer, queue, inflight, delivered, svars>>

-----------------------------------------------------------------------------
(* handle_response and handle_error: a worker posts the outcome of its job. *)
(* It may post once more when it got no answer.                             *)

Posts(w) == pc[w] = "run" \/ (pc[w] = "idle" /\ w \in Unreliable /\ job[w] # Nobody)

CompletePass(w) ==
    /\ Posts(w)
    /\ active = "pass" /\ job[w] = outer
    /\ Goes(w, "forward")
    /\ UNCHANGED <<pvars, job, svars>>

\* Mutants of CompleteVirtual: a virtual id is not looked up in inflight; the
\* batch is over when its queue is empty; the completed one still counts.
CompleteAny(w) ==
    /\ Posts(w)
    /\ active = "batch" /\ job[w] \in Range(VirtualsOf[outer])
    /\ inflight' = inflight \ {job[w]}
    /\ records' = [records EXCEPT ![outer] = Append(@, job[w])]
    /\ active' = IF queue = <<>> /\ inflight' = {} THEN "finalizing" ELSE "batch"
    /\ Goes(w, "idle")
    /\ UNCHANGED <<outer, queue, delivered, fetching, job, given, finished, gone>>
CompleteOnEmptyQueue(w) ==
    /\ Posts(w)
    /\ active = "batch" /\ job[w] \in inflight
    /\ inflight' = inflight \ {job[w]}
    /\ records' = [records EXCEPT ![outer] = Append(@, job[w])]
    /\ active' = IF queue = <<>> THEN "finalizing" ELSE "batch"
    /\ Goes(w, "idle")
    /\ UNCHANGED <<outer, queue, delivered, fetching, job, given, finished, gone>>
CompleteCountingItself(w) ==
    /\ Posts(w)
    /\ active = "batch" /\ job[w] \in inflight
    /\ inflight' = inflight \ {job[w]}
    /\ records' = [records EXCEPT ![outer] = Append(@, job[w])]
    /\ active' = IF queue = <<>> /\ inflight = {} THEN "finalizing" ELSE "batch"
    /\ Goes(w, "idle")
    /\ UNCHANGED <<outer, queue, delivered, fetching, job, given, finished, gone>>

\* One record, and with the last one the end of the stream.
CompleteVirtual(w) ==
    /\ Posts(w)
    /\ active = "batch" /\ job[w] \in inflight
    /\ inflight' = inflight \ {job[w]}
    /\ records' = [records EXCEPT ![outer] = Append(@, job[w])]
    /\ active' = IF queue = <<>> /\ inflight' = {} THEN "finalizing" ELSE "batch"
    /\ Goes(w, "idle")
    /\ UNCHANGED <<outer, queue, delivered, fetching, job, given, finished, gone>>

\* An id that is not expected is accepted and dropped.
CompleteUnknown(w) ==
    /\ Posts(w)
    /\ ~(active = "pass" /\ job[w] = outer)
    /\ ~(active = "batch" /\ job[w] \in inflight)
    /\ Goes(w, "idle")
    /\ UNCHANGED <<pvars, job, svars>>

\* External: the Runtime API takes the one response of an invocation.
Forwarded(w) ==
    /\ pc[w] = "forward"
    /\ job[w] \notin finished
    /\ finished' = finished \cup {job[w]}
    /\ active' = "none"
    /\ Notify(w, "idle")
    /\ UNCHANGED <<outer, queue, inflight, delivered, fetching, job, records, given, gone>>

\* External: the call fails, before or after the Runtime API took it.
ForwardFails(w) ==
    /\ pc[w] = "forward"
    /\ UpstreamFails \/ job[w] \in finished
    /\ finished' \in {finished, finished \cup {job[w]}}
    /\ Goes(w, "idle")
    /\ UNCHANGED <<pvars, job, records, given, gone>>

\* spawn_finalize_task: the streaming /response call has ended, one way or the
\* other, and the proxy is free for the next outer invocation.
Finalize ==
    /\ active = "finalizing"
    /\ active' = "none"
    /\ finished' = finished \cup {outer}
    /\ pc' = [v \in Workers |-> IF pc[v] = "waiting" THEN "take" ELSE pc[v]]
    /\ UNCHANGED <<outer, queue, inflight, delivered, fetching, job, records, given, gone>>

\* External: a worker goes away.  The server drops its handler where it awaits.
Disconnect(w) ==
    /\ w \in Unreliable
    /\ pc[w] \in PcStates \ {"idle", "unregistered"}
    /\ Goes(w, "idle")
    /\ job' = [job EXCEPT ![w] = IF pc[w] \in {"run", "forward"} THEN @ ELSE Nobody]
    /\ finished' \in IF pc[w] = "forward" THEN {finished, finished \cup {job[w]}}
                     ELSE {finished}
    /\ gone' = (gone \/ pc[w] \in {"fetch", "install", "fetch_failed"})
    /\ UNCHANGED <<pvars, records, given>>

-----------------------------------------------------------------------------
Serve(w) ==
    \/ CallNext(w) \/ TakePass(w) \/ TakeVirtual(w) \/ TakeNothing(w)
    \/ StartFetch(w) \/ DecideToWait(w) \/ Register(w)
    \/ FetchFailed(w) \/ Install(w) \/ InstallBad(w)
    \/ CompletePass(w) \/ CompleteVirtual(w) \/ CompleteUnknown(w)
    \/ Forwarded(w)

LPNext ==
    \/ \E w \in Workers : \/ Serve(w)
                          \/ \E o \in Outers : UpstreamGives(w, o)
                          \/ UpstreamNextFails(w) \/ ForwardFails(w)
                          \/ Disconnect(w)
    \/ Finalize

LPSpec == LPInit /\ [][LPNext]_lpvars

(***************************************************************************)
(* The proxy's tasks are polled, a worker completes what it was given and   *)
(* asks for more, and the Runtime API answers.  An unreliable worker does   *)
(* not go away every time just before it is given an invocation.            *)
(***************************************************************************)
LPFairness ==
    /\ \A w \in Workers : WF_lpvars(Serve(w))
    /\ \A w \in Workers : SF_lpvars(TakePass(w) \/ TakeVirtual(w))
    /\ \A w \in Workers : WF_lpvars(\E o \in Outers : UpstreamGives(w, o))
    /\ \A w \in Workers : WF_lpvars(Forwarded(w) \/ ForwardFails(w))
    /\ WF_lpvars(Finalize)

LPFairSpec == LPSpec /\ LPFairness

-----------------------------------------------------------------------------
(* Properties.                                                              *)

(***************************************************************************)
(* Each virtual invocation of the active batch is queued, in flight or      *)
(* answered by one record, whichever worker takes, completes, repeats or    *)
(* abandons it.                                                             *)
(***************************************************************************)
VirtualsAccounted ==
    active = "batch" =>
        /\ Range(queue) \cup inflight \cup Range(records[outer]) = Range(VirtualsOf[outer])
        /\ Len(queue) + Cardinality(inflight) + Len(records[outer]) = Len(VirtualsOf[outer])

(***************************************************************************)
(* The outer response ends only when it has exactly one record for each     *)
(* virtual invocation: no request of the gateway's batch is left without    *)
(* an answer or answered twice.                                             *)
(***************************************************************************)
ResponseComplete ==
    \A o \in Batches : (o \in finished \/ (active = "finalizing" /\ o = outer)) =>
        /\ IsInjective(records[o])
        /\ Range(records[o]) = Range(VirtualsOf[o])

(***************************************************************************)
(* The proxy asks upstream for an outer invocation only when it has none,   *)
(* and one worker's request at a time does so: no invocation is overwritten *)
(* by another before its response was delivered.                            *)
(***************************************************************************)
Fetchers == {w \in Workers : pc[w] \in {"fetch", "install", "fetch_failed"}}
OneOuterAtATime ==
    /\ Cardinality(Fetchers) <= 1
    /\ Fetchers # {} => active = "none" /\ fetching

(***************************************************************************)
(* While fetching_outer is set somebody fetches, and will reset it: on      *)
(* every way out of the fetch, the errors of the call and of the body       *)
(* included.  The exception is a worker that went away and whose handler    *)
(* was dropped at the call: the flag stays set and nobody fetches again.    *)
(***************************************************************************)
FetchFlagOwned == fetching => Fetchers # {} \/ gone

(***************************************************************************)
(* No two workers run the same invocation.                                  *)
(***************************************************************************)
RunOnce ==
    \A v, w \in Workers : (v # w /\ pc[v] = "run" /\ pc[w] = "run") => job[v] # job[w]

(***************************************************************************)
(* An invocation that was installed is finished, or one of its parts was    *)
(* given to a worker that went away: whatever wakeups other workers miss,   *)
(* the one that fetched it, or the one that completes another of its        *)
(* virtual invocations, looks for more.                                     *)
(***************************************************************************)
Runs(w, x) == pc[w] \in {"run", "forward"} /\ job[w] = x
Abandoned ==
    \/ active = "batch" /\ \E i \in inflight : \A w \in Workers : ~Runs(w, i)
    \/ active = "pass" /\ delivered /\ \A w \in Workers : ~Runs(w, outer)
InstalledFinishes == active \in {"batch", "pass"} ~> active = "none" \/ Abandoned

(***************************************************************************)
(* What the plan says of a waiting /next: "Wake on completion and retry."   *)
(* So every outer invocation that upstream has is fetched in the end.       *)
(***************************************************************************)
WakesOnCompletion == \A o \in Outers : <>(o \in given)
=============================================================================
