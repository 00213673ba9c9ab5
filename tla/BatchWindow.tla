----------------------------- MODULE BatchWindow -----------------------------
(***************************************************************************)
(* The clocks of one batcher task of gateway/src/batching.rs: how long a    *)
(* batch stays open, when an idle task ends, and the estimate of the load   *)
(* that decides on the next wait (batcher_task_fixed, batcher_task_dynamic, *)
(* DynamicRateEstimator, sigmoid_wait_ms).  BatcherManager has the requests *)
(* themselves, and no time.                                                 *)
(*                                                                          *)
(* Time passes in units.  A timer holds what remains until its deadline;    *)
(* it is negative when the deadline has passed and the task has not run     *)
(* yet.  The executor is at most MaxLate units late.  open, quiet, span and *)
(* silence are clocks of the model, not of the code.                        *)
(***************************************************************************)
EXTENDS Integers, Sequences

CONSTANTS
    Operations,   \* what is configured: wait mode, max_batch_size, limits of the wait
    IdleTtl,
    Interval,     \* sampling_interval_ms
    Samples,      \* smoothing_samples
    MaxCount,     \* bound: u64::MAX of the request counter
    Curve,        \* [samples -> percent]: the sigmoid of their mean
    MaxDepth,     \* max_queue_depth_per_key
    MaxLate       \* bound: how late the task runs

Percent == 0 .. 100
SampleWindows == UNION {[1 .. n -> 0 .. MaxCount] : n \in 0 .. Samples}
ASSUME WindowAssumption ==
    /\ \A o \in Operations :
          /\ o.dynamic \in BOOLEAN /\ o.size \in Nat \ {0}
          /\ {o.minWait, o.maxWait} \subseteq Nat /\ o.minWait <= o.maxWait
    /\ {MaxCount, MaxLate} \subseteq Nat
    /\ {IdleTtl, Interval, Samples, MaxDepth} \subseteq Nat \ {0}
    /\ Curve \in [SampleWindows -> Percent]

VARIABLES
    op,        \* the operation of the batch key
    pc,        \* "idle": waits for a first request, "filling", "done"
    queued,    \* requests in the channel
    closed,    \* its sender is gone
    unserved,  \* how long the channel has had something the task did not take
    filled,    \* requests in the batch
    wait,      \* wait_ms of the batch
    flushIn,   \* until flush_at
    idleIn,    \* until the idle timeout
    tickIn,    \* until the sampler ticks
    count, samples,  \* the estimator
    open,      \* since the batch was opened
    quiet,     \* since the task waits for a first request
    span,      \* since the last sample
    silence    \* since a request was received

timers == <<unserved, flushIn, idleIn, tickIn>>
clocks == <<open, quiet, span, silence>>
bwvars == <<op, pc, queued, closed, filled, wait, count, samples, timers, clocks>>

-----------------------------------------------------------------------------
(* DynamicRateEstimator and sigmoid_wait_ms.                                *)

\* sigmoid_wait_ms: rounded to whole milliseconds, then clamped.
SigmoidWait(s, min, max) ==
    LET rounded == (100 * min + Curve[s] * (max - min) + 50) \div 100 IN
    IF max <= min THEN max
    ELSE IF rounded < min THEN min
    ELSE IF rounded > max THEN max ELSE rounded

WaitOf == IF op.dynamic THEN SigmoidWait(samples, op.minWait, op.maxWait) ELSE op.maxWait

\* record_request, with saturating_add.
Recorded == IF op.dynamic /\ count < MaxCount THEN count + 1 ELSE count

\* pop_front, one sample being added at a time.
Trimmed(s) == IF Len(s) > Samples THEN Tail(s) ELSE s

\* Mutant of EstimatorTick: the counter is not reset.
EstimatorTickKeeping ==
    /\ samples' = Trimmed(Append(samples, count))
    /\ UNCHANGED count

EstimatorTick ==
    /\ samples' = Trimmed(Append(samples, count))
    /\ count' = 0

\* MissedTickBehavior::Skip: the next multiple of the interval still to come.
NextTick == Interval - ((-tickIn) % Interval)

-----------------------------------------------------------------------------
(* The task.                                                                *)

Fresh ==
    /\ pc = "idle" /\ queued = 0 /\ closed = FALSE /\ filled = 0 /\ wait = 0
    /\ count = 0 /\ samples = <<>>
    /\ unserved = 0 /\ flushIn = 0 /\ idleIn = IdleTtl /\ tickIn = Interval
    /\ open = 0 /\ quiet = 0 /\ span = 0 /\ silence = 0

BWInit == op \in Operations /\ Fresh

\* recv has something to return: a request, or None.
Available == queued > 0 \/ closed

Take ==
    /\ queued > 0
    /\ queued' = queued - 1
    /\ unserved' = 0
    /\ count' = Recorded
    /\ silence' = 0
    /\ UNCHANGED <<op, closed, samples, tickIn, span>>

\* Mutant of FlushAndWait: the idle timer is created once, outside the loop.
FlushKeepingIdleTimer ==
    /\ pc' = "idle"
    /\ filled' = 0 /\ wait' = 0 /\ flushIn' = 0 /\ open' = 0
    /\ quiet' = 0
    /\ UNCHANGED idleIn

\* flush_batch, and the next turn of the outer loop.
FlushAndWait ==
    /\ pc' = "idle"
    /\ filled' = 0 /\ wait' = 0 /\ flushIn' = 0 /\ open' = 0
    /\ idleIn' = IdleTtl /\ quiet' = 0

\* The first request.  A batch of one is flushed at once; so is one of the
\* fixed wait when that is zero, the loop looking at the clock first.
Begin ==
    /\ pc = "idle"
    /\ Take
    /\ \/ /\ op.size = 1 \/ (~op.dynamic /\ op.maxWait = 0)
          /\ FlushAndWait
       \/ /\ ~(op.size = 1 \/ (~op.dynamic /\ op.maxWait = 0))
          /\ pc' = "filling"
          /\ filled' = 1 /\ wait' = WaitOf /\ flushIn' = WaitOf /\ open' = 0
          /\ UNCHANGED <<idleIn, quiet>>

\* The batch is flushed after this request: it is full or, the fixed wait
\* looking at the clock before it waits again, late.
Completes == filled + 1 = op.size \/ (~op.dynamic /\ flushIn <= 0)

\* Mutant of Receive: the window starts again with every request.
ReceiveSliding ==
    /\ pc = "filling"
    /\ Take
    /\ \/ Completes /\ FlushAndWait
       \/ /\ ~Completes
          /\ filled' = filled + 1
          /\ flushIn' = wait
          /\ UNCHANGED <<pc, wait, idleIn, open, quiet>>

\* Also after flush_at: timeout asks the channel first, select! either.
Receive ==
    /\ pc = "filling"
    /\ Take
    /\ \/ Completes /\ FlushAndWait
       \/ /\ ~Completes
          /\ filled' = filled + 1
          /\ UNCHANGED <<pc, wait, flushIn, idleIn, open, quiet>>

\* A timer is looked at after the channel by timeout, in any order by select!.
Expired(timer) == timer <= 0 /\ (op.dynamic \/ ~Available)

FlushTimer ==
    /\ pc = "filling"
    /\ Expired(flushIn)
    /\ FlushAndWait
    /\ UNCHANGED <<op, queued, closed, count, samples, unserved, tickIn, span, silence>>

\* None while the batch fills: it is flushed, and the loop ends.
FlushClosed ==
    /\ pc = "filling"
    /\ closed /\ queued = 0
    /\ FlushAndWait
    /\ UNCHANGED <<op, queued, closed, count, samples, unserved, tickIn, span, silence>>

Ends ==
    /\ pc' = "done"
    /\ UNCHANGED <<op, queued, closed, filled, wait, count, samples, timers, clocks>>

Evict == pc = "idle" /\ Expired(idleIn) /\ Ends

EndClosed == pc = "idle" /\ closed /\ queued = 0 /\ Ends

\* Both loops of the dynamic wait poll the sampler.
Sampling == op.dynamic /\ pc \in {"idle", "filling"}

Sample ==
    /\ Sampling /\ tickIn <= 0
    /\ EstimatorTick
    /\ tickIn' = NextTick /\ span' = 0
    /\ UNCHANGED <<op, pc, queued, closed, filled, wait, unserved, flushIn, idleIn,
                   open, quiet, silence>>

TaskStep ==
    \/ Begin \/ Receive \/ FlushTimer \/ FlushClosed
    \/ Evict \/ EndClosed \/ Sample

-----------------------------------------------------------------------------
(* The senders, the clock and the next task of the key.                     *)

\* try_send: a full channel refuses.
Send ==
    /\ pc # "done" /\ ~closed
    /\ queued < MaxDepth
    /\ queued' = queued + 1
    /\ UNCHANGED <<op, pc, closed, filled, wait, count, samples, timers, clocks>>

Close ==
    /\ pc # "done" /\ ~closed
    /\ closed' = TRUE
    /\ UNCHANGED <<op, pc, queued, filled, wait, count, samples, timers, clocks>>

\* A task is spawned for the next request of the key, with a new channel.
Spawn ==
    /\ pc = "done"
    /\ UNCHANGED op
    /\ pc' = "idle" /\ queued' = 0 /\ closed' = FALSE /\ filled' = 0 /\ wait' = 0
    /\ count' = 0 /\ samples' = <<>>
    /\ unserved' = 0 /\ flushIn' = 0 /\ idleIn' = IdleTtl /\ tickIn' = Interval
    /\ open' = 0 /\ quiet' = 0 /\ span' = 0 /\ silence' = 0

Down(timer) == IF timer > -MaxLate THEN timer - 1 ELSE timer

\* The task runs at most MaxLate after it is woken.
InTime ==
    /\ Available => unserved < MaxLate
    /\ pc = "idle" => idleIn > -MaxLate
    /\ pc = "filling" => flushIn > -MaxLate
    /\ Sampling => tickIn > -MaxLate

Elapse ==
    /\ pc # "done" /\ InTime
    /\ unserved' = IF Available THEN unserved + 1 ELSE 0
    /\ idleIn' = Down(idleIn)
    /\ IF pc = "filling" THEN flushIn' = flushIn - 1 /\ open' = open + 1 /\ UNCHANGED quiet
       ELSE quiet' = quiet + 1 /\ UNCHANGED <<flushIn, open>>
    /\ IF op.dynamic THEN tickIn' = Down(tickIn) /\ span' = span + 1 /\ silence' = silence + 1
       ELSE UNCHANGED <<tickIn, span, silence>>
    /\ UNCHANGED <<op, pc, queued, closed, filled, wait, count, samples>>

BWNext == TaskStep \/ Send \/ Close \/ Spawn \/ Elapse

BWSpec == BWInit /\ [][BWNext]_bwvars

-----------------------------------------------------------------------------
(* Properties.                                                              *)

TaskTyped ==
    /\ op \in Operations
    /\ pc \in {"idle", "filling", "done"}
    /\ queued \in 0 .. MaxDepth
    /\ unserved \in 0 .. MaxLate
    /\ pc = "filling" => filled \in 1 .. op.size - 1 /\ wait \in op.minWait .. op.maxWait
    /\ filled \in Nat /\ wait \in Nat
    /\ flushIn \in Int /\ idleIn \in Int /\ tickIn \in Int
    /\ open \in Nat /\ quiet \in Nat /\ span \in Nat /\ silence \in Nat

EstimatorTyped ==
    /\ count \in 0 .. MaxCount
    /\ samples \in Seq(0 .. MaxCount)
    /\ Len(samples) <= Samples

\* Type invariant; the wait is within its limits, the window within its size.
BWTypeOK == TaskTyped /\ EstimatorTyped /\ closed \in BOOLEAN

(***************************************************************************)
(* A batch is not held: however the requests arrive, and however often the  *)
(* sampler wakes the task, it is open for its wait at most, and the time    *)
(* the executor is late.                                                    *)
(***************************************************************************)
BatchNotHeld == pc = "filling" => open <= wait + MaxLate

(***************************************************************************)
(* A batch is flushed for a reason: it is full, its wait is over, or nobody *)
(* can send any more.  A wakeup of the sampler is none.                     *)
(***************************************************************************)
FlushedForAReason ==
    [][pc = "filling" /\ pc' = "idle" =>
          \/ filled + (queued - queued') = op.size
          \/ open >= wait
          \/ closed /\ queued = 0]_bwvars

(***************************************************************************)
(* A task whose senders are there ends only when it has waited IdleTtl for  *)
(* a first request since its last batch.                                    *)
(***************************************************************************)
EndsOnlyWhenQuiet == [][pc # "done" /\ pc' = "done" /\ ~closed => quiet >= IdleTtl]_bwvars

(***************************************************************************)
(* And then it does end: no sample postpones it.                            *)
(***************************************************************************)
QuietTaskEnds == pc = "idle" => quiet <= IdleTtl + MaxLate

(***************************************************************************)
(* A sample stands for one interval, and what the executor was late: the    *)
(* sampler runs while a batch fills and while the task waits, whatever      *)
(* ticks were missed.  The rate divides by the interval in any case.        *)
(***************************************************************************)
SamplerKeepsPace == Sampling => span <= Interval + MaxLate

(***************************************************************************)
(* Load is forgotten: when no request came for as long as a window of       *)
(* samples takes, the estimate is zero, and the next batch waits as little  *)
(* as the first batch of a new task.                                        *)
(***************************************************************************)
LoadForgotten ==
    Sampling /\ silence > (Samples + 1) * (Interval + MaxLate) =>
        count = 0 /\ \A i \in DOMAIN samples : samples[i] = 0

=============================================================================
