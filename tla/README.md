# A TLA+ model of the lambda parallel router

The router ("simple multiplexer gateway") takes HTTP requests, collects those that may share an
invocation into batches, invokes a Lambda function once per batch, and gives each client its part
of the response. This directory models the parts of it that keep state and run concurrently, checks
them with TLC on small instances, and proves their main invariants with TLAPS for every value of the
constants.

## Inventory

| Component | Source | State | Operations |
|---|---|---|---|
| HTTP handlers | `gateway/src/server.rs` | admission semaphore `inflight_requests`; per request a oneshot receiver, for streams a body channel | `handle_any`: match, admit, read the body, enqueue, wait with timeout, answer; `PermitStream`; `run` and `shutdown_signal` around them, with the flag `ready` |
| Microbatchers | `gateway/src/batching.rs` | `DashMap<BatchKey, Sender>`, a bounded channel and a task per key | `enqueue`, `batcher_task_fixed`, `batcher_task_dynamic`, idle eviction |
| Invocation planning | `gateway/src/batching.rs` | none (recursive function) | `flush_batch`, `plan_invocations`, `split_pending`, `build_payload_bytes` |
| Invocation dispatcher | `gateway/src/batching.rs` | job channel, in-flight semaphore | `try_send` of jobs, `invocation_dispatcher`, `run_invocation_job` |
| Lambda invoker | `gateway/src/lambda.rs` | a drain task per streaming call | `invoke` |
| Response dispatch | `gateway/src/batching.rs` | map from id to response sender, NDJSON buffer | `dispatch_buffered`, `dispatch_response_stream`, `dispatch_stream_record`, `fail_all_*` |
| Runtime API proxy | `bootstrap/layer-proxy/src` | `ActiveInvocation`, `fetching_outer`, a `Notify` | `handle_next`, `handle_response`, `handle_error`, finalize task |
| OpenAPI compiler | `gateway/src/spec.rs` | immutable route table | `compile`, `match_request` |
| Configuration | `gateway/src/config.rs`, `location.rs`, `main.rs` | immutable once loaded | `main`: the environment, the manifest it names, the checks before `run` listens |
| Publisher | `bootstrap/config_publisher/app.py` | the objects of a bucket; a physical id with CloudFormation | `handler` for Create, Update and Delete, `_publish`, `_cfn_send_response` |
| Macro | `bootstrap/gateway_macro/app.py` | none | expands a gateway service into a role, a publisher request and a service |
| Adapters | `lambda-kit/adapter-rust`, `lambda-kit/adapter-node` | per invocation: the index of the next item, the running items, the response stream | `batchAdapter`, `batchAdapterStream`, `BatchAdapter::handle`, `BatchAdapterStream::stream`: run a handler per item with bounded concurrency, one document or NDJSON records |
| Extension, benchmark, samples | Rust, TypeScript | none of their own | |

Interaction. A handler calls `enqueue` synchronously; from then on the two meet only through the
request's response sender, which travels with the request from the channel of its batcher into the
batch, into an invocation plan, into a job, and into the task that runs the job. The batcher hands
jobs to the dispatcher through a bounded channel. Handlers and batcher tasks share the map. In the
function, either an adapter runs the handler for each item, or the proxy stands between the Lambda
Runtime API and the runtime's workers; both meet the gateway only through the payload of an invocation
and its response, which is one document or a stream of records that the drain task of `lambda.rs` passes to
the dispatch loop, and the dispatch loop to one bounded body channel per request.
Before any of this runs, the macro turns a template into resources, CloudFormation asks the publisher for a manifest, and App
Runner starts gateway processes whose environment names that manifest; they meet in the bucket, in the policy of the role and in the document
that macro and gateway both read.

What is hard here: the map entry of a key is removed by key, by the evicted task and by handlers
that found its channel closed, and each may remove a successor's entry; a sender that was cloned
before an eviction is used after it; timers race with messages; a batch is cut in several parts that
fail independently; permits of two semaphores must come back over every way a request or a job ends,
also when they moved into a stream; the records of all requests of a batch share one stream, so a slow client,
a late adapter or a faulty record of one request reaches the others; the proxy checks its state under a lock and waits after the lock
was released; a process that is told to stop waits for all of this to come to rest without new requests; the publisher's executions are delivered late, twice or not at all while the stack moves on, and an instance may be started
long after the bucket and the role have changed.

What makes each component correct:

* batchers: a request is in one place, once, until it is handed over or dropped; a batch has one key;
  the map never leads to a dead batcher; requests keep their order; everything leaves in the end;
* a batcher's clocks: a batch is not open longer than its wait, an idle task ends and a busy one does not, the estimate follows the load;
* planning: the plans are the batch, cut; each has its own senders; each fits;
* dispatcher: permits are conserved; no job is lost, doubled, or both accepted and rejected; all are
  answered;
* the gateway as a whole: `RequestLifecycle`, that is one answer per request, one invocation at most,
  none after a 429 or 413, and never together with another key's; when the process stops, it stops in the end, and nobody who still waits is cut off;
* the way of a response: each client gets what the handler made of its own request, body chunks in order and
  without gaps, whatever others do, unless the response as a whole was spoiled; nobody waits for nobody;
* proxy: every item of a batch is answered by one record before the response ends; workers do not
  share an item; one outer invocation at a time, and whoever fetches says when it is over;
* route table: every request is answered as the document declares;
* deployment: what an environment names exists and is its own; whenever the stack is settled an instance can be replaced; an operation ends,
  and is rolled back for a reason only.

## Modules

| Module | What it is |
|---|---|
| `BatcherManager` | the map, channels and batcher tasks, and the calls of `enqueue` |
| `PlanInvocations` | `plan_invocations` with its recursion unfolded into a list of parts to be planned |
| `InvocationDispatcher` | job channel, dispatcher task, jobs, drain tasks |
| `Gateway` | `EXTENDS BatcherManager`, instantiates `InvocationDispatcher`, adds the handlers and the response senders |
| `GatewayShutdown` | `EXTENDS Gateway` with the end of the process: the signal, the closed listener, the wait for what is open |
| `RequestLifecycle` | what the gateway promises of a request; `Gateway` implements it |
| `BatchAdapter` | both adapters: items, workers or slots, records on the response stream |
| `ResponseDispatch` | `EXTENDS BatchAdapter`, adds the gateway's dispatch, the body channels and the clients |
| `ResponseDelivery` | what the clients of a batch are promised; `ResponseDispatch` implements it |
| `LayerProxy` | the Runtime API proxy with its workers and the Runtime API around it |
| `BatchWindow` | the timers of one batcher task, `DynamicRateEstimator` and `sigmoid_wait_ms` |
| `RouteTable` | `CompiledSpec`, `match_request`, what the macro reads of the document, and the reference they are compared with |
| `Deployment` | `EXTENDS RouteTable`: macro, publisher, CloudFormation, App Runner and the life of a gateway process |
| `SequenceLemmas` | facts about `Append`, `Tail`, `Range`, `SubSeq` and concatenation, and induction over a set of naturals, used by the proofs |
| `*_proofs` | theorems about the module of the name; `Gateway_proofs` is also about `GatewayShutdown`; `Batching_proofs` is about `PlanInvocations` and `BatchWindow` |
| `MC*` | instances for TLC |

### BatcherManager

A channel is named by the request that inserted it and the loop iteration (`Chans`), since each
iteration inserts at most one. `entry` is the `DashMap`; `queue`, `task` and `batch` are what belongs to
a channel and its task; `handler` is where a call of `enqueue` stands and `tried` the senders it
cloned. `handed` and `lost` record where requests went. Each map access, each channel operation and
the drop of a receiver is one action: a task can be interrupted between any two of them on the
multi-threaded runtime. `LookupOccupied`/`LookupVacant`, `TrySend*` and `RemoveClosed` are one iteration of
the loop in `enqueue`; `ReceiveFirst`, `IdleExpires`, `RecvDisconnected`, `ReceiveMore`,
`WindowExpires`, `CollectDisconnected`, `FlushPart`, `DropReceiver` and `RemoveSelf` are the batcher
task. The two kinds of batcher differ in two places: `tokio::time::timeout` polls the channel before the
timer and `select!` polls in random order, so only the dynamic batcher may time out with a request in
its channel; and after a disconnect only the dynamic batcher returns from the collecting loop.

Time is abstract. A window or idle timer that is looked at may have expired; how long the window is, is the matter of
`BatchWindow`.

### BatchWindow

One batcher task without the requests' identities. `flushIn`, `idleIn` and `tickIn` are the timers of the task: what remains until
the deadline, negative when the task is late. `Elapse` lets one unit pass; it may not pass if the task would be more
than `MaxLate` behind (`InTime`). `Begin` and `Receive` take a request, `FlushTimer`, `FlushClosed`, `Evict`, `EndClosed` and `Sample` are the other
branches of the `select!`; `filled` is the length of the batch. The fixed task is the same with a constant wait, no sampler, and a timer that only wins over an empty
channel. `EstimatorTick` and `Trimmed` are `DynamicRateEstimator::on_tick` for the one sample a tick yields; `NextTick` is
`MissedTickBehavior::Skip`. The sigmoid is the constant `Curve`, of which only its range is assumed: `SigmoidWait` is the rounding and the clamp
around it. `Spawn` is the next task for the key. `open`, `quiet`, `span` and `silence` are clocks the properties read and no action does.

### PlanInvocations

A batch is the sequence of the sizes of its encoded items. `todo` is the call stack of the recursion:
the parts that are still to be planned, in the order in which the calls are made. `SplitPart` is one
level of recursion. `FlushPart` of `BatcherManager` relies on what is shown here: plans are
consecutive non-empty parts of the batch, in order.

### InvocationDispatcher

A job is a model value; what matters is whether it streams. `running` jobs own a permit. `lambdas` are
the invocations whose result the process still reads, which for streams is the drain task of
`lambda.rs`: it outlives the job when `dispatch_response_stream` gives up (`StreamAbandoned`).

### Gateway

A job is the set of requests whose senders it owns. `client` and `reply` are the handlers, `sink` the state
of a response sender (held, sent, head sent, closed, dropped), `slots` the admission semaphore. Payload
sizes and response contents are abstract: a batch may be cut anywhere, any single request may exceed
the limit, and each record of a response may be good or bad. A client may disconnect while its handler
waits or its body streams. `EvictDropping` tells the handlers of dropped requests so, which is how an
eviction becomes a 502.

### GatewayShutdown

`stage` is where the process is: it is `up` until `shutdown_signal` returns (`ShutdownSignal`), then `closing`: the listener
is closed and axum waits for its connections, without a limit, until `run` returns (`ServerReturns`). In `exited` nothing moves any more, for the runtime ends with
`main` and takes its tasks with it (`Alive`). `Serve` is a step of `Gateway`, in which no request arrives once the listener is closed. The drain delay is part of `up`: the
gateway serves as before, and only `/readyz`, which no module reads, tells of it. Where a signal handler cannot be registered
`shutdown_signal` returns at once, at its first poll; the model lets it return at any moment. A request has arrived when its handler is called: one whose head is still on its way, on a
connection that was accepted before, is not told from one that does not come.

### BatchAdapter

One invocation. `kind` is the adapter (Node or Rust), its output (`buffered`, `records`, `interleaved`) and the length of
its batch. `at` is how far each item is, `wire` what was written and not yet read by the gateway. Node's workers and
Rust's `buffer_unordered` start an item as soon as another is over; Rust's streams go through `ConcurrentSelect`, where an
exhausted stream (`spent`) is dropped inside `SelectAll` and its slot filled at the next poll (`Exhaust`, `mayStart`, `Wake`).
Node writes and then waits for `drain` (`Write`, `draining`), Rust is not polled while its writer cannot write. What
`normalize*` may let through is not computed but chosen: a record is good, decodable but of no use (`value`: a status,
header or base64 body the gateway refuses), or not decodable (`syntax`). `Reject` is the one place where an item's error
leaves its own try: Node's interleaved format, between the handler and the head.

### ResponseDispatch

A request is named by its item. `Dispatching` takes the first record from the wire, and each kind of record is one action
with the whole of `dispatch_stream_record`, the wait for room in a full body channel included (`DispatchChunk` is not enabled
then, and neither is any other record: the loop is sequential). `FailAll` ends every dispatch. `client` is
the handler that waits for its oneshot and then feeds the body; it may leave at any time. When the job has returned, the
function is no longer watched. The refinement of `ResponseDelivery` says what reaches a client in terms of what its handler
did (`result`, `made`), which the gateway never sees.

### LayerProxy

A critical section of the proxy's mutex is one action and so is the creation of the `Notified` future
(`Register`). `pc` is where a worker or its request to the proxy is, `job` what it was given. `records` is
what was written to the response of an outer invocation. The environment is modelled around it: the
Runtime API hands out each invocation once and takes one response for it; workers that are `Unreliable` go
away at any await of their request, and post again what they got no answer for. A virtual id that is no
valid header value (`UnfitIds`) is taken and then refused with 502, as the code does. `gone` remembers that a worker went away
while its request was fetching: the handler is dropped at the await and `fetching_outer` stays set, which `FetchFlagOwned` allows for and nothing else.

### RouteTable

A path is a sequence of segments, a template a sequence of literals and parameters, a document maps templates to
methods to operations. `Compiles` is what `CompiledSpec::compile`, `add_op` and the insertion into matchit accept; `RoutesOf` the table;
`At` matchit's choice among the templates that fit, which walks the tree with literals first; `MatchRequest` and `Route` what is made of it.
`AnswersAsDeclared` compares them with `Declared`, which weighs the templates of the document without a table. `RoutesOf` is a set: in the code the paths come out of a `BTreeMap`, so their order
is that of their text and not of the document, and nothing is said of a table that depended on it. `InvokeLambdaArns` is
the macro's own reading of the same document, from which it writes the policy. Strings are abstract: whether a template's text is well formed,
an ARN that of a function, or the numbers of a curve usable is part of the input. The built-in `/healthz` and `/readyz` come before the table.

### Deployment

`phase`, `current`, `target`, `role`, `resource`, `stale` and `request` are CloudFormation's view of one stack: an operation updates the role and
the custom resource, then the service; a failure rolls back with the previous properties; a replaced physical id is deleted in the cleanup. `executions`
are the running calls of the publisher's `handler`, one step for each call that can fail (`Put`, `Respond`), with lost answers,
duplicate deliveries, crashes and repetitions (`Fault`); `objects` is the bucket. `service` and `deploying` are what App Runner serves and brings up, `instances` the
gateway processes. `Serve` is `main` up to the listening socket: it needs the secret, a manifest the role may read (`Readable`), numbers that parse and a
document that compiles (`Starts`). The services of AWS are external; what is assumed of them is in the comments of the actions.

The name of an object is the hash of its content, so a late or repeated execution writes what is there already, and a delete removes nothing
(`app.py:155`): `UriResolves` rests on both. The policy the macro writes names `ConfigPrefix` as the template has it
(`gateway_macro/app.py:389`), the publisher drops a leading slash (`config_publisher/app.py:26`): `Readable` is false for such a
template, whose deployment is rolled back unless the environment is the same as before, in which case nothing is deployed and the next
instance fails to start. `SettledMeansReplaceable` leaves these templates out and says so.

## Runs

| Run | Question | Bounds |
|---|---|---|
| `BatcherFixed` | are requests kept, ordered and bounded while batchers are evicted and replaced? | 3 requests, 1 key, fixed window, depth 1, batches of 2 |
| `BatcherLive` | does everything leave, stop and empty, with timers that win over messages? | 2 requests, 1 key, dynamic window |
| `Plan` | is the batch cut correctly and within the limit? | every batch of up to 5 items of 4 sizes |
| `Dispatcher` | are permits and jobs conserved and all jobs answered? | 2 buffered and 2 streaming jobs, 2 permits, a channel of 1 |
| `GatewayStream` | are slots and senders accounted for when bodies outlive their handlers, does someone always owe an answer, do batches implement `RequestLifecycle`? | 2 requests of one key, streaming, 2 slots, 1 permit |
| `GatewayKeys` | the same refinement with refusals and a shutdown at any moment: are keys kept apart, does a process that is told to stop answer what it read and stop by the pipeline alone, and whom does it cut off? | 2 keys, buffered, 1 slot, 1 permit, dynamic window |
| `ResponsePath` | does each client get what was made of its own request, and does nobody wait for ever? | 2 or 3 items, 2 at a time, 1 faulty record, channels of 1 |
| `ProxySafety` | are items accounted for under failures, is the fetch flag reset, and are batches finished? | 3 workers, 4 outer invocations |
| `Deployment` | can what a stack has settled on always be started, and do operations end? | 3 operations over 8 templates, 1 fault, 2 instances |
| `BatchWindow` | are batches and idle tasks timed right, with an executor that is late? | idle time 13, interval 2, 2 samples, lateness 2, channel of 2 |

Three requests for one key are the fewest with which a batcher is evicted, its successor inserted by the
second request, and the successor's entry removed while the third inserts yet another. A queue depth of 1
makes a full channel reachable with two requests and a batch of two makes a batch that is full, that is not
full, and that is split. Plans of up to five items reach odd and even halves and three levels of
splitting; the sizes are one that disappears in the envelope, one that fits twice, one that just fits and
one that does not. The gateway needs two requests for its interactions: one in a batch with the other, one
refused because of the other, one answered with the other's failure. With one slot, `GatewayKeys` has a request that is served, times out or leaves while what it left in the pipeline is still
there for the next one, before and after the signal; one key or streams would multiply its states together with fairness, and what is said of safety is proved for them too. Four jobs and two permits leave jobs
waiting in the channel behind the held one and one refused. Three items with two at a time leave one that waits for a
slot while another runs; the first item alone yields body chunks, one more than its channel holds, so that it can hold up
the others, and Node's interleaved format, which has the most interleavings, gets two items. One faulty record suffices, for the
first ends the stream. Three proxy workers allow one to fetch while another misses
the wakeup and the third is registered. Three stack operations are a create, an update and one that comes back to the first
template while executions and instances of both are about; the templates differ in prefix, slash, port, listen address, numbers, secret and
document, and the documents have overlapping and shadowed paths, one the gateway refuses and one the macro refuses already. One fault is enough to lose any one call or repeat it. In
`BatchWindow` the idle time exceeds the time in which the whole window of samples is replaced, late ticks included, so that the load can be forgotten before the task ends;
two samples show the window both partly filled and trimmed, and batches of one, two and three the flush at once, at the second request and after one that did not complete the batch.

Symmetry is used in runs without liveness only, over requests that send the same key. The refinement checked under it is
a safety property, and `RequestLifecycle` treats such requests alike.

Two more runs check what a comment or the documentation says and the code does not do; TLC finds each violated:

| Run | Said | Done |
|---|---|---|
| `LostOnEviction` | eviction races are handled by retrying (`batching.rs:225`) | a request sent between the idle timeout and the drop of the receiver is dropped; its client gets 502 |
| `ProxyLostWakeup` | a waiting worker wakes on completion (implementation plan, line 191) | a notification between unlock and `notified()` is missed |

What the models show besides, and what a reader of the code should know:

* the batch key is computed from the forwarded headers: a key header that `forwardHeaders` leaves out is no part of the
  key. `KeyIsolation` speaks of the values the clients sent, where the header is forwarded (`KeyHeaderForwarded`).
  Where it is not, `BatchKey` is the same for all of them (`SeenKey`) and they do share a batch, although `spec.rs:142` says that the dimension partitions batches by the value of the request's
  header and the configuration is accepted;
* the drain has no limit (`server.rs:286`): it ends (`DrainEnds`) only if uploads and invocations end, and it waits for
  requests whose batch nobody can fill any more for the whole of their window;
* `max_queue_depth_per_key` bounds a channel (`Bounds`), not a key as `config.rs:101` has it: the removals by key (`batching.rs:253`, `:425`) may hit the entry of
  a successor, whose batcher goes on with what it has while the next one queues for the same key;
* the dispatcher task holds one job beside those in the channel, and an abandoned stream is drained without a permit, so
  both limits are exceeded by what they do not count;
* a worker that goes away at the call for the next outer invocation leaves `fetching_outer` set, and nobody fetches again
  (`proxy.rs:83`; `FetchFlagOwned` shows it is the only way);
* the admission permit is taken before the body is read and reading has no timeout (`server.rs:450`): slow uploads fill the slots, and no liveness
  is claimed for a request that is not read;
* a rate is a count divided by the nominal interval even when a tick was late or skipped (`batching.rs:542`), so a late executor misjudges the load;
* a path `/healthz` or `/readyz` of the document is never reached: the built-in routes come first (`server.rs:222`);
* when the answer to CloudFormation was sent but its acknowledgement lost, the publisher sends FAILED after SUCCESS (`config_publisher/app.py:192`); the first answer counts;
* an empty batch would never end in the proxy; the gateway never sends one, and the model has none;
* a slow client holds up the others of its batch; `EveryoneServed` holds because clients that stay read;
* an error after the head, or a missing `end`, closes a body as a complete one is closed;
* Node's interleaved format ends the stream of all items when the response of one cannot be normalised; in the other formats
  that item alone gets a 500. A value the gateway refuses is a 502 for its item in a buffered response and ends
  the response of all in a stream;
* `ConcurrentSelect` may run fewer streams than its limit until another stream wakes it.

Deadlock is checked in all runs but those of the proxy, which really may stop: every worker asleep with
nothing active (`ProxyLostWakeup`). The other modules have an explicit step for a state in which all is done.

### Fairness

`BatcherManager`: weak fairness of each call of `enqueue`, which never waits, and of each batcher task: tokio
polls what is runnable, and a task with a message or an expired timer is. `InvocationDispatcher`: the
dispatcher task, and each invocation: Lambda has a timeout of its own, so a call ends. `GatewayShutdown`: the same and
handlers after they have read their body, while the process lives, and that axum notices that its last connection is gone; nothing is assumed of signals, uploads, timeouts or
disconnects, and `DrainEnds` excepts a drain in which only uploads are left, which `to_bytes` gives all the time they want.
`ResponseDispatch`: the adapter's event loop or executor, whose handlers and bodies end, the gateway's dispatch loop, and clients,
which read as long as they stay; nothing is assumed of crashes, of clients that leave, nor that a pending Rust stream wakes
before it has a line (`Wake`). `Deployment`: CloudFormation, App Runner and Lambda go on, processes get on with what they do. That a draining
process stops (`Stopped`) is assumed there: under the assumptions of `GatewayShutdown`, and if uploads end, it is `DrainEnds`, and where they fail the platform kills the process. That there is no place for
an instance is the model's `MaxInstances`, which stands for no limit of the code. Nothing is
assumed of an operator, of faults, or of the instances of the version that serves. `BatchWindow` assumes none: what must happen in time is
a bound on a clock. `LayerProxy`: the workers, which complete what they were given and ask for more, and a
Runtime API that answers; strong fairness for taking an invocation, because workers compete for the queue and an unreliable worker does not go away every
time just before it is given one. Nothing is assumed of workers that go away: `InstalledFinishes` excepts batches one of them abandoned.

## Proofs

| Theorem | Says |
|---|---|
| `TypeCorrect` | types of the batchers' state; a call has at most two tries, and is still in its loop only before them |
| `NoDeadEntry` | `EntryNeverDead` |
| `BatchesAreIsolated` | `KeyIsolation` |
| `ClosedAfterTwoEvictions` | `ClosedMeansTwoEvictions` |
| `RequestsAreInOnePlace` | `Custody` |
| `LimitsHold` | `Bounds` |
| `PlanType`, `PlansCutTheBatch`, `SendersStayWithItems` | the planner's parts |
| `DispatcherType`, `PermitsAreConserved`, `JobsAreInOnePlace` | the dispatcher's |
| `WindowTypes`, `NoBatchIsHeld`, `BusyTasksStay` | `BWTypeOK`, `BatchNotHeld`, `EndsOnlyWhenQuiet` |
| `QuietTasksEnd`, `SamplerIsOnTime`, `NoEarlyFlush` | an idle task ends in time, a sample stands for one interval, a batch is flushed for a reason |
| `DeploymentType`, `PublisherInvariant` | types; CloudFormation's view of the manifest is right |
| `UrisResolve`, `SettledCanReplace` | `UriResolves`, `SettledMeansReplaceable` |
| `ProxyType`, `OneOuter`, `FlagIsOwned`, `InvocationsRunOnce` | types, `OneOuterAtATime`, `FetchFlagOwned`, `RunOnce` |
| `NoVirtualIsLost`, `ResponsesAreComplete` | `VirtualsAccounted`, `ResponseComplete` |
| `RequestsStayInLine` | `ServedInOrder` |
| `InvocationsFitTheLimit` | `PlansWithinLimit` |
| `LoadIsForgotten` | `LoadForgotten` |
| `InstancesServeTheirTemplate`, `RollbacksAreCaused` | `ServesItsTemplate`, `RollbackHasReason` |
| `GatewayRunsBatchers`, `GatewayRunsDispatcher` | a behaviour of the gateway is one of `BatcherManager` and one of `InvocationDispatcher` |
| `GatewayType`, `SlotsAreConserved`, `ReturnedJobsAreAnswered`, `WaitingClientsAreOwed` | `GTypeOK`, `SlotsBalance`, `ReturnedMeansAnswered`, `SomeoneAnswers` |
| `GatewayIsolatesKeys`, `GatewayImplementsLifecycle` | `KeyIsolation` of the whole, and the refinement of `RequestLifecycle` |
| `ShutdownKeepsTheGateway` | a gateway with its shutdown is one of `Gateway`, so that all of the above holds of it |
| `ShutdownType`, `NobodyIsCutOff` | types with the stage of the process, `OnlyUnwantedAreKilled` |
| `AnswersTellOfInvocations` | a 429 or 413 means that the request was not invoked, a response of the function that it was |
| `ResponseType`, `ConcurrencyIsBounded` | `RDTypeOK`, `ConcurrencyBounded` |
| `DeliveryIsImplemented` | the refinement of `ResponseDelivery` |
| `ClientsGetTheirOwn` | a client that is done has its own handler's answer, or its body in order and whole unless the response was spoiled |

All rest on the assumptions the modules state for their constants and on nothing else. They hold for any number of faults, operations,
workers, requests and any curve: the bounds of the runs are constants here.

*Batchers.* `TypeInv` is `TypeOK` with `LoopInv`, the bound on `tried`: without it a third try would name a channel
outside `Chans`. `EntryNeverDead` is not inductive: that a task reaches `done` without an entry of its own follows only
from the entry being removed in the same step, and that an inserted channel is fresh from the channels of
a request being named by its tries. `MapInv` adds that a channel that a handler or the map knows was born and that
channels of later tries were not. `IsolationInv` adds that a handler holds only channels of its own key.
`ClosedInv` adds what a retry remembers: the first channel is closed for good, so the second, which was open
when it was looked up or found in the map, is another. `Custody` is inductive with the types: `OwnMoves` says once that a task that moves requests
within its channel and batch, or out of them, disturbs nobody else's, and `CutElems` that cutting a batch cuts its elements in two. `Bounds` needs `RoomInv`:
a task that collects has room for one more, or its next receive would exceed the batch; and a channel that is yet to be inserted is empty, which takes `MapInv`.
`ServedInOrder` is an action property of each channel: a step appends to its queue, moves the head of the queue to the end of the batch, cuts the front
off the batch, or drops what is left, and each of these keeps the line of batch and queue in order (`MoveHead`, `CutConcat`).

*Planner.* `PlanInv` joins the three properties: the recursion's parts are consecutive (`PartsCutBatch`), and
a part's senders are its items, because both halves are cut at the same item. The number of parts is bounded
through the sum of their lengths: consecutive non-empty parts of a batch are no more than its items. `PlansWithinLimit` adds that what is in `plans` or
was refused has passed the test of the code (`PlansJustified`). That test and the property sum the sizes of a part's items by a fold over a set: that the fold's function exists is
shown by induction on the size of the set, and so is that the planner's commas are those between the items (`BytesOfPart`).

*Dispatcher.* `DInv` is the conjunction of types, the balance of permits and `OnePlace`, which together are inductive:
that `permits` does not go negative follows from the guard, that a returning job was running from `OnePlace`.

*Window.* `BWInv` ties each clock of the model to the timer of the code: `open + flushIn = wait`, `quiet + idleIn = IdleTtl`,
`span + tickIn <= Interval` (an inequality, since the tick after a late one comes early), and no timer is later than `MaxLate`. The wait's limits are those of the clamp,
whatever the curve (`SigmoidWithinLimits`). `LoadForgotten` needs that each interval of silence has left a zero at the end of the window of samples, and that a
window that holds as many samples as it may drops the oldest one: when all are zeros the estimate is zero.

*Deployment.* `PubInv` says that an object is what its name says, that an execution that will answer SUCCESS has put its object, that an answer with a uri has its object,
and that the resource's uri is the key of its template: so the identity of the resource survives late, repeated and failed executions.
`BringingUp` carries this to the versions of the service. `Running` adds that an instance read its own version's manifest, `Standing` that a settled
stack's role, resource and service agree and that its version once started; from the last two and `ReachedIsCollected` (a route leads to
an operation whose function the macro collected) follows `SettledMeansReplaceable`.
`ServesItsTemplate` is `Running` and `CompiledAnswers`, a fact about any document: matchit walks the tree and prefers a literal at the first difference of two
templates, the reference compares the numbers whose binary digits are the templates' literals, and by induction over the length of a path both orders are the same
(`WeightIsOrder`, `PreferredLeads`, `TableAgrees`). It assumes of a document that its templates are sequences of literals and parameters (`DocumentsAssumption`).
`RollbackHasReason` needs `ReasonInv`, which follows an update in which nothing has gone wrong yet: the request has an execution left and none of its executions
will report failure (`WillAnswer`); what runs is numbered below the operation, so the version that is brought up starts afresh (`Numbered`, `Arriving`); and no
process of that version has exited (`Succeeding`), which takes `Standing` and the content of the bucket, for otherwise it could not read its manifest.

*Proxy.* `LPInv` adds to the checked properties that the fetch flag and its holder exclude an active invocation (`FetchHolds`), that the jobs of different workers differ and were handed out (`JobsHold`), what is active was given and is not finished (`ActiveHolds`), that invocations that were not handed out have left no trace
(`FreshHolds`: none of their virtual ids is anywhere, so a batch can be installed), and that queue, in-flight items and records of the active
batch are apart and free of repetitions (`BatchHolds`). `QuietKeeps` covers the many steps that only move a worker.

*Gateway.* The composition's proof reuses those of its parts. `GatewayRunsBatchers` and `GatewayRunsDispatcher` map every step of the gateway to a step of the module it
extends and of the one it instantiates, so their invariants hold of it (`PartsInv`; the dispatcher's proofs are instantiated with the gateway's jobs). `GateInv` is what
ties them together: a job's requests were handed over by a batcher and belong to one job (`JobInv`), the state of a response sender follows from where its request is
(`SinkInv`), a client that waits has a sender that is held or has sent (`ClientInv`), and the slots balance. From these each action of the gateway is matched to an
action of `RequestLifecycle` or to a stutter; key isolation of the whole is that of the batchers. `AnswersTellOfInvocations` reads the answers against the refinement's
`invoked`, which only grows.
For the shutdown, `UnwantedInv` says that a request whose handler has returned while its sender may still send has a client that got 504 or left. Batchers and jobs
keep it because they end nothing they do not answer (`SendersGoOn`), handlers because any other answer comes from a sender that has sent or was dropped (`HandlersGiveUp`). When
`run` returns there are no other handlers (`NobodyIsCutOff`).

*Responses.* `PathInv` says what is known along the way of a response. `Progress` is the adapter's: what was made of an item agrees with how far it is.
`WireInv` and `InOrder` are about the records on their way: each is true of its item, and those of one item are in order. `Coming` adds up: the chunks of an item
that were taken by the gateway and those on the wire are the chunks made. `RepliesHold` and `Closed` are about the gateway's side: a reply comes from a record of the request's own
item, and a body that is closed is whole or the response was spoiled. `SlotsHeld` is the bound of concurrency. `DeliveryIsImplemented` follows action by action: an adapter's step
is a `Handle` or a stutter, a dispatch a stutter, for what a client is promised becomes visible only when it takes its reply (`Open`, `Tell`), a chunk (`Deliver`), the end
(`Close`) or leaves (`Leave`). `ClientsGetTheirOwn` says what a client has in the end; it adds to `PathInv` that the channel of a body that is over has been
read out and is not written to again (`ReadOut`).

Type invariants are proved of every module with a state, and every safety and action property that a passing run checks is proved. Only model-checked are the liveness properties
(`AcceptedLeaves`, `OrphanStops`, `MapEmpties`, `AcceptedJobsAnswered`, `DrainEnds`, `EveryoneServed`, `InstalledFinishes`, `OperationSettles`): they need fairness and ENABLED,
which are out of the prover's reach. Induction is available for facts that can be stated as a set of naturals (`NatSetInduction`): the weights of a template, the longest body, the
sums of a plan are treated so.

## Not modelled

The layer extension (start-up code without a state of its own), the benchmark and the samples. In the deployment: deleting a stack, file locations, auto scaling and observability,
the parsing of numbers (`serde_ext.rs`: a manifest's numbers can be parsed or not), and the text of ARNs, templates and manifests. Within the other parts: the floating-point arithmetic of the sigmoid; header, query, cookie and
body encodings; OpenTelemetry; the bytes of the NDJSON buffer (lines, the size limit and a last
line without newline are records that can or cannot be decoded); the content of records in the proxy. `ResponseDispatch` has the
adapters as its functions; a function of another kind, or the proxy, may write chunks without a head or answer twice, which
the dispatch accepts and the model does not exercise.

## Plan

1. Built: `BatcherManager`, `PlanInvocations`, `InvocationDispatcher`, `Gateway` with `RequestLifecycle` and `GatewayShutdown`, `LayerProxy`,
   `BatchAdapter` and `ResponseDispatch` with `ResponseDelivery`, `BatchWindow`, `RouteTable`, `Deployment`, and the proofs above.
2. Records that no adapter writes (chunks without a head, repeated or unknown ids): `ResponseDispatch` over a free writer.
3. Proofs: every safety and action property of a passing run has its theorem. What is left is the composition of the two ends of an invocation, `Gateway` with the
   records of `ResponseDispatch`, where the first abstracts what the second shows, and `BatcherManager` with the clocks of `BatchWindow`.
