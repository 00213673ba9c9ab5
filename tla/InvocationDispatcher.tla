------------------------ MODULE InvocationDispatcher ------------------------
(***************************************************************************)
(* From a flushed batch to the end of its Lambda invocation: the bounded    *)
(* job channel that flush_batch fills, the invocation_dispatcher task that  *)
(* takes one job at a time and waits for a permit of the in-flight          *)
(* semaphore, the run_invocation_job tasks that hold a permit each, and the *)
(* task AwsLambdaInvoker spawns to drain the event stream of a streaming    *)
(* invocation (gateway/src/batching.rs, gateway/src/lambda.rs).             *)
(*                                                                          *)
(* A job is one planned invocation.  What its payload and responses hold is *)
(* not modelled here, only whether and when its requests are answered.      *)
(***************************************************************************)
EXTENDS Naturals, Sequences, FiniteSets, Functions

CONSTANTS
    Jobs,          \* the invocations that flush_batch may plan
    StreamJobs,    \* those whose invoke mode is ResponseStream
    MaxPending,    \* max_pending_invocations
    MaxInflight,   \* max_inflight_invocations
    NoJob          \* the dispatcher task holds no job

ASSUME JobsAssumption == /\ IsFiniteSet(Jobs)
                         /\ StreamJobs \subseteq Jobs
                         /\ NoJob \notin Jobs
\* The configuration accepts 0 for both.
ASSUME LimitAssumption == MaxPending \in Nat /\ MaxInflight \in Nat

VARIABLES
    channel,   \* the job channel: submitted jobs, oldest first
    held,      \* the job the dispatcher task received, waiting for a permit
    permits,   \* the free permits of the semaphore
    running,   \* the jobs with a run_invocation_job task, which owns a permit
    streaming, \* those of them that dispatch a response stream
    lambdas,   \* the Lambda invocations whose result the process still reads
    answered,  \* the jobs whose every request has been answered
    rejected   \* the jobs failed with 429 because the channel was full

dvars == <<channel, held, permits, running, streaming, lambdas, answered, rejected>>

DTypeOK ==
    /\ channel \in Seq(Jobs)
    /\ held \in Jobs \cup {NoJob}
    /\ permits \in Nat
    /\ running \subseteq Jobs
    /\ streaming \subseteq StreamJobs
    /\ lambdas \subseteq Jobs
    /\ answered \subseteq Jobs
    /\ rejected \subseteq Jobs

DInit ==
    /\ channel = <<>>
    /\ held = NoJob
    /\ permits = MaxInflight
    /\ running = {}
    /\ streaming = {}
    /\ lambdas = {}
    /\ answered = {}
    /\ rejected = {}

\* mpsc::channel(cfg.max_pending_invocations.max(1))
ChannelCapacity == IF MaxPending = 0 THEN 1 ELSE MaxPending

Submitted(j) == \/ j \in Range(channel) \cup running \cup answered \cup rejected
                \/ j = held

-----------------------------------------------------------------------------
(* flush_batch: invocation_tx.try_send(job), for each planned invocation.   *)

Submit(j) ==
    /\ ~Submitted(j)
    /\ Len(channel) < ChannelCapacity
    /\ channel' = Append(channel, j)
    /\ UNCHANGED <<held, permits, running, streaming, lambdas, answered, rejected>>

SubmitFull(j) ==
    /\ ~Submitted(j)
    /\ Len(channel) >= ChannelCapacity
    /\ rejected' = rejected \cup {j}
    /\ UNCHANGED <<channel, held, permits, running, streaming, lambdas, answered>>

-----------------------------------------------------------------------------
(* invocation_dispatcher.                                                   *)

\* Mutant of ReceiveJob: the job is looked at and not taken out.
PeekJob ==
    /\ held = NoJob
    /\ channel # <<>>
    /\ held' = Head(channel)
    /\ UNCHANGED <<channel, permits, running, streaming, lambdas, answered, rejected>>

ReceiveJob ==
    /\ held = NoJob
    /\ channel # <<>>
    /\ held' = Head(channel)
    /\ channel' = Tail(channel)
    /\ UNCHANGED <<permits, running, streaming, lambdas, answered, rejected>>

\* The permit is moved into the spawned task, which calls invoke.
AcquirePermit ==
    /\ held # NoJob
    /\ permits > 0
    /\ permits' = permits - 1
    /\ running' = running \cup {held}
    /\ lambdas' = lambdas \cup {held}
    /\ held' = NoJob
    /\ UNCHANGED <<channel, streaming, answered, rejected>>

-----------------------------------------------------------------------------
(* run_invocation_job.                                                      *)

\* The task returns: every request of the job was answered, the permit drops.
Return(j) ==
    /\ running' = running \ {j}
    /\ streaming' = streaming \ {j}
    /\ permits' = permits + 1
    /\ answered' = answered \cup {j}

\* invoke returned a payload or an error: dispatch_buffered or fail_all_*.
InvokeReturns(j) ==
    /\ j \in running \ streaming
    /\ lambdas' = lambdas \ {j}
    /\ Return(j)
    /\ UNCHANGED <<channel, held, rejected>>

\* invoke_with_response_stream returned: the drain task is spawned, and
\* dispatch_response_stream starts on what it forwards.
StreamOpens(j) ==
    /\ j \in (running \cap StreamJobs) \ streaming
    /\ streaming' = streaming \cup {j}
    /\ UNCHANGED <<channel, held, permits, running, lambdas, answered, rejected>>

\* The event stream is over (EOF, error or InvokeComplete): the drain task ends.
StreamDrained(j) ==
    /\ j \in lambdas
    /\ j \in streaming \cup answered
    /\ lambdas' = lambdas \ {j}
    /\ UNCHANGED <<channel, held, permits, running, streaming, answered, rejected>>

\* dispatch_response_stream has read the forwarded stream to its end.
StreamDispatched(j) ==
    /\ j \in streaming
    /\ j \notin lambdas
    /\ Return(j)
    /\ UNCHANGED <<channel, held, lambdas, rejected>>

\* Mutant of StreamAbandoned: an early return that leaks the permit.
AbandonKeepingPermit(j) ==
    /\ j \in streaming \cap lambdas
    /\ running' = running \ {j}
    /\ streaming' = streaming \ {j}
    /\ answered' = answered \cup {j}
    /\ UNCHANGED <<channel, held, permits, lambdas, rejected>>

\* It gives up on a bad record or an oversized buffer and drops its receiver;
\* the drain task goes on reading the event stream.
StreamAbandoned(j) ==
    /\ j \in streaming \cap lambdas
    /\ Return(j)
    /\ UNCHANGED <<channel, held, lambdas, rejected>>

-----------------------------------------------------------------------------
Invocation(j) ==
    \/ InvokeReturns(j) \/ StreamOpens(j)
    \/ StreamDispatched(j) \/ StreamAbandoned(j)

\* All jobs have been through; nothing is left to do.
DQuiescent ==
    /\ Jobs \subseteq answered \cup rejected
    /\ lambdas = {}
    /\ UNCHANGED dvars

DNext ==
    \/ \E j \in Jobs : Submit(j) \/ SubmitFull(j)
    \/ ReceiveJob \/ AcquirePermit
    \/ \E j \in Jobs : Invocation(j) \/ StreamDrained(j)
    \/ DQuiescent

DSpec == DInit /\ [][DNext]_dvars

(***************************************************************************)
(* The dispatcher task is polled whenever a job or a permit is there for    *)
(* it.  A Lambda invocation ends: Lambda's own timeout sees to it, and an   *)
(* ended one is dispatched.                                                 *)
(***************************************************************************)
DFairness ==
    /\ WF_dvars(ReceiveJob)
    /\ WF_dvars(AcquirePermit)
    /\ \A j \in Jobs : WF_dvars(Invocation(j)) /\ WF_dvars(StreamDrained(j))

DFairSpec == DSpec /\ DFairness

-----------------------------------------------------------------------------
(* Properties.                                                              *)

(***************************************************************************)
(* No permit is leaked or returned twice, over all the ways a job ends:     *)
(* the free permits and the running jobs add up to the configured limit.    *)
(***************************************************************************)
PermitsBalance == permits + Cardinality(running) = MaxInflight

(***************************************************************************)
(* A job is in one place only on its way from the channel to its answer, so *)
(* it is invoked once at most, and it is not failed with 429 once it was    *)
(* accepted.                                                                *)
(***************************************************************************)
OnePlace ==
    /\ IsInjective(channel)
    /\ Range(channel) \cap (running \cup answered \cup rejected) = {}
    /\ held \notin Range(channel) \cup running \cup answered \cup rejected
    /\ running \cap (answered \cup rejected) = {}
    /\ answered \cap rejected = {}
    /\ streaming \subseteq running
    /\ lambdas \subseteq running \cup answered

(***************************************************************************)
(* Every job that was accepted into the channel is answered.                *)
(***************************************************************************)
AcceptedJobsAnswered == \A j \in Jobs : j \in Range(channel) ~> j \in answered
=============================================================================
