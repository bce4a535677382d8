# Dizzy: a verification project

Dizzy is a local agent runtime in JavaScript (Node): an HTTP server (`agent_server.mjs`) in front of a Redis job
queue, worker processes (`worker.mjs`), a daemon that delivers paid orders (`dizzy_poll_deliver.mjs`), a mailbox
between agents, an approval gateway, an operator's dashboard, and a large body of routing, memory, review and guardrail
libraries in `lib/`. This directory holds TLA+ models of the parts whose correctness depends on the order of steps:
what several processes do to shared state, what is left when one of them stops half-way, and what a long sequence of
legal calls adds up to. Paths below are relative to `src/`.

Contents: 1 inventory, 2 plan, 3 modules, 4 runs and bounds, 5 fairness, 6 proofs, 7 where code and documents
disagree, 8 what is only model-checked or not modelled.

## 1. Inventory

### 1.1 Components that are modelled

"partly" marks a component of which some operations that change state are left out; `PROJECT.json` says which.

| Component | State | Operations | What is hard | What makes it correct |
|---|---|---|---|---|
| **Job queue and worker** (`lib/queue.mjs`, `worker.mjs`) | Redis lists ready, processing, dlq, notify; sorted set delayed; a hash per job; a file of dead letters | enqueueJob, runWorkerCycle, renewClaimLease, recoverClaimedJobs, notifyJobDeath, workerLoop | every command of a sequence can be the last; several workers recover the same claim from what they read earlier; a lease runs out under a live worker | non-READ work is not repeated; each death is reported, and once; no job is lost |
| **Notifications and drain** (`agent_server.mjs`, `scripts/telegram_notify_drain.mjs`) | the notify list of a channel; batch and receipts of a drain | GET and POST `/notify/:channel`, acknowledgeNotifications, the drain loop | acknowledgements served after the drain gave up on them; equal entries; two drains | nothing undelivered leaves the list |
| **Telegram relay** (`scripts/telegram_relay.mjs`) | lock file, offset file, a batch per relay | the update loop, start and stop | two relays that start at once; a crash between dispatch and save | no update is passed over; repeats need faults |
| **Order reconciler** (`dizzy_poll_deliver.mjs`, `lib/order_fulfillment.mjs`, `lib/reconcile_batch.mjs`) | artifact files per order, staged asset files, the marketplace | poll, facts, policies, decision, and every action of a pass | the process has no memory but its files; a call's outcome may be unknown; brief and asset change under way | intents precede effects; no effect is repeated; only checked candidates are sent |
| **A2A mailbox** (`lib/a2a_mailbox_bridge.mjs`) | messages, queue, leases, nonces | enqueue, dequeue, acknowledge, pruneExpiredLeases | leases that run out while an agent works; resent envelopes | a message waits once or is leased once until its holder acknowledges it |
| **SSE streams** (`agent_server.mjs`, `lib/sse_stream.mjs`) | frames, receipts, latency tracker of one stream | POST `/agent/execute/stream` | a client that leaves or stops reading between two frames; a receipt that cannot be written | how a stream ended is on file, in order |
| **HITL approval gateway** (`lib/hitl_approval_gateway.mjs`, `lib/durable_write_policy.mjs`) | a map, `checkpoints.jsonl`, the hash chain `audit_log.jsonl` | createCheckpoint, resolveCheckpoint, verifyResumeToken, _initialize | the end of the process between and inside two appends; a line without newline; an append that throws after its line was written | a checkpoint is decided once; the chain breaks only after a fault; decisions are audited |
| **A2A boundary guard** (`lib/a2a_boundary_guard.mjs`) | nonces with expiry, and a size limit | the timestamp check, rememberNonce, pruning, sanitising | timestamps of the future; a full cache; a body that cannot be sanitised once the nonce is kept | no signed request passes twice |
| **Ingress gateway** (`lib/ingress_gateway.mjs`) | rate windows, token buckets, a provider's circuit | reserve, refill, prune; canRequest, record | windows that end between requests; several calls in a half-open circuit | no client exceeds its quota; Retry-After is kept; an open circuit lets nothing through |
| **Cost switch, route breaker, watchdog** (`lib/cost_kill_switch.mjs`, `lib/circuit_breaker.mjs`, `lib/runaway_execution_watchdog.mjs`) | spending, trip state, counters, recorded steps | preflight, record, reset; canAttempt, success, failure; recordStep | several calls between check and record; answers that come late | spending is bounded; nothing is tried in a cooldown; what spins is stopped |
| **Routing policy** (`lib/routing_policy.mjs`) | a plan and its attempts | resolveRequirements, planRouting, executeRoutingPlan | evidence that expires between plan and call | calls keep to what the plan grants |
| **Dispatch of model calls** (`lib/dispatch.mjs`) | backend, metadata, uses of the fallback | a chat turn, its fallback, memory and utility commands | conversations served at once share the record of the last call | no private message leaves the machine; a reply describes its own call |
| **Message dispatch** (`lib/dispatch.mjs`), *partly* | a promise chain per conversation, its rows | runConversationSerialized, capture, reply | the chain after a rejected turn | turns of one conversation do not overlap |
| **Client continuity** (`lib/client_continuity.mjs`, `agent_server.mjs`) | rows of retained conversations, execution history, deletion log and lock | the execute route, deletion, prune, command line | a command line beside the server; a deletion beside a turn | the history, the rows and the deletion log agree |
| **Cognitive memory** (`lib/cognitive_memory_engine.mjs`) | an array, one page of the wiki for each memory | capture, consolidate, retrieve, decay, evict, mount | pages are written one by one; a crash between two of them; a page is read only up to a heading in its content | one active memory per partition; accepted notes are kept |
| **Conversation memory** and **edits of own files** (`lib/dispatch.mjs`) | candidates, a document, a daily log; proposals and backups | staging, promotion, /remember; /improve, /memory_review, /apply | a crash between files; edits by hand | a candidate is logged once; no replaced text is lost |
| **Friction ledger and containment** (`lib/friction_ledger.mjs`, `lib/active_policy_engine.mjs`, `lib/friction_anomaly_detector.mjs`) | a JSONL file, a state file, bridge files | append, evaluate, resolve, remove by key | processes that share files without a lock; a file cut to nothing before it is filled | no record disappears unseen; no process undoes a decision it could read |
| **Structural query cache** (`lib/structural_query_cache.mjs`, `lib/md_retriever.mjs`, `lib/dashboard.mjs`) and, *partly*, **daemon hygiene** | a table, an index per server | sign, look up, answer, store, evict | documents that change between signature and answer | answers are not older than index, entry and request allow |
| **Trajectory ledger** and **replay** (`lib/trajectories.mjs`, `lib/trajectory_evaluator.mjs`, `lib/trajectory_snapshot_store.mjs`, `lib/trajectory_replay_*.mjs`) | a JSONL file, snapshots; sessions of hops | append, read, snapshot, deploy; record, fork, replay, compare | torn lines; a new evaluator; a session that goes on after a fork | what was saved is read; replay and comparison agree |
| **StateM runbook** (`lib/statem_runbook_bridge.mjs`, `lib/statem_checkpoint.mjs`) | phase, attempts, a JSONL of checkpoints | executeStateMFsm, save, resume | a crash at every await; a counter saved late | handoff only of verified work; repeats need faults |
| **SQLite store** (`lib/sqlite_operational_store.mjs`), *partly* | jobs, replay leases, events | createJob, claimNextJob, transitionJob; acquire, complete, fail | claims that lapse under a live worker; requests delivered twice | runs and effects are accounted for |
| **Review loop** (`scripts/review_model_batch.mjs`, `scripts/review_cycle_run.mjs`, `scripts/review_loop_supervisor.mjs`, `lib/`) | the batch file, the history | a batch and its resumption, a cycle, the supervisor | programs that read the history early and replace it late | the history adds up, also when its list of cycles is full; "ready" is earned |
| **Tools and guardrails** (`lib/tools.mjs`, `lib/lifecycle_hooks.mjs`, `lib/tool_guardrails_middleware.mjs`), *partly* | a file of receipts, a chain per manager | a tool job from request to answer | redirects to other addresses; one deadline; a receipt that cannot be written | a fetch stays within its checks; what ran is on record |
| **Step contracts and claims** (`lib/trajectory_contract.mjs`, `lib/consistency_boundary.mjs`), *partly* | artifacts, results, a claim's class | begin, return, throw, time out; receipt; transition | an executor that was given up writes later | PASSED is complete; a claim is no higher than its evidence |
| **Core specification and ports** (`core/src`, `core/prototypes`), *partly* | none; the supervisor's channels | the rules on every input; EvaluateConcurrently | the same rule written several times | the copies agree |
| **Dashboard: chat and session** (`dashboard/dashboard.js`, `agent_server.mjs`, `lib/dashboard.mjs`) | conversation key, history, session | send, answer, clear, reset, login, logout | answers that arrive after a reset; a storage that fails | the page shows one conversation and forgets what was reset |
| **Dashboard: panels and consensus** (`dashboard/dashboard.js`, `lib/consensus.mjs`), *partly* | what each panel shows; the consensus file | load, act, sign off, veto | overlapping loads; a torn file | a panel shows the last decision |

### 1.2 Components that are not modelled

| Component | Why |
|---|---|
| HTTP server | a thin shell of routes; those that matter to a modelled component are actions of its module |
| Durable write policy | `durableAppendJsonl` is modelled inside `HitlGateway`; `assessDurableWrite` is a pure classification |
| Model registry and provider clients, memory and retrieval | arithmetic on floating point and text, HTTP clients; nothing is kept between calls |
| Regression gate and traces, evaluation harnesses | one pass over fixtures, receipts or recorded outcomes that are given |
| Council, bounty and bridge tooling | validation and hashing of packets; what reaches the queue from there is an `Enqueue` |
| Static scanners and configuration | checks of the repository's own documents and variables |

### 1.3 How the parts interact

    producers --EVAL--> ready --claim--> worker --LREM--> (processing)      runtime/dlq file
                          ^                 |  \--dead--> dlq, notify <--read/ack-- drain --> Telegram
                          '---- recovery ---'  '--retry-> delayed
    Telegram --updates--> relay --/dispatch/incoming--> server (dispatch, stream, guards) --> model providers
    marketplace <--poll, upload, deliver-- order daemon <--artifacts--> order directory <-- operator (asset)
    agents --envelopes, dequeue, ack--> A2A mailbox (in the server's memory, behind the boundary guard)
    agents --create, verify--> HITL gateway <--resolve-- operator --> dashboard (chat, panels, consensus)
    server --turns--> continuity files, memory pages, friction ledger, trajectories <-- command lines, crashes

The queue and the notifications share the notify list: `JobQueue` promises that every death is pushed, and pushed
once; `NotifyDrain` starts from a push (`Push`) and promises that what was pushed is delivered before it leaves.
`ClientContinuity` holds the turns that `ModelDispatch` makes calls for and the caps on its fallback. The mailbox is
behind the boundary guard, which is about requests where the mailbox is about envelopes. The other components share no
state that either side's properties read.

## 2. Plan

Done: the modules of section 3, their runs, and the theorems of section 6. What is left, in this order:

1. Proofs: the notify drain, so that the two properties of `messages` that section 8 names have a theorem too.
2. Models: the rest of `lib/dispatch.mjs` (the routing of text to tools) and of the server's routes.

A module gets one run that passes, at a bound where every action fires and every property is meaningful, and a
violating run only for a documented promise the code breaks. Components that share nothing share a run (section 4).

## 3. Modules

Each module's header says what a step is and what is abstracted; `PROJECT.json` maps every definition to the lines it
stands for. Here: how state and actions correspond to the code, and what is particular.

### 3.1 The queue: JobLifecycle, JobQueue (MCWorker)

`JobLifecycle` is decision D-0005 of DESIGN.md as a specification of every job's status, attempts and retries:
queued, running, then succeeded, dead or retry_scheduled; interrupted READ jobs go back to the queue, other
interrupted jobs die.

`JobQueue` is `lib/queue.mjs` as `worker.mjs` runs it. Redis executes one command (or one EVAL script) at a time, so a
command is a step and what a worker computes between two commands belongs to the first of them.

| Variable | Code |
|---|---|
| `ready`, `processing`, `dlq`, `notes`, `delayed` | the Redis keys of makeQueueKeys; lists are bags, since no property depends on which entry is popped first |
| `hash` | the job hash: status, attempts, retry_count, claim owner, whether the lease has expired, the dlq and notify markers |
| `frame` | per worker: the command it sends next (`pc`), its job, whether it is in the recovery pass, the part of the processing list still to visit, and the attempts and retries it read (they may be stale) |
| `linked` | the worker's client; with `reconnectStrategy: false` a lost socket stays lost |
| `budget`, `runs`, `deaths`, `letters`, `enqueues` | faults left; history |

| Action | Code |
|---|---|
| `Enqueue` | enqueueJob with its idempotency script; `Renewable` ids are those a caller chooses (`job_board_scanner.mjs`) and may overwrite |
| `StartRecovery`, `RecoverNext`, `Requeue`, `Push`, `RecoveryDone`, `SkipRecovery` | recoverClaimedJobs and its timer in workerLoop |
| `MoveDueDelayed`, `ClaimNothing`, `ClaimStale`, `Claim`, `Fetch`, `MarkRunning` | moveDueDelayed, claimReadyJob, the first half of runWorkerCycle |
| `CallTool`, `ToolReturns`, `MarkSucceeded`, `CatchRetry`, `CatchDead`, `MarkRetry`, `ScheduleRetry`, `MarkDead`, `FileDlq`, `Notify`, `Acknowledge` | runJob and the try and catch blocks around it |
| `Renew`, `LeaseExpires` | renewClaimLease, the clock |
| `Rejected`, `Reply` | an error reply or a lost connection before, or after, a command took effect; `ErrorFrame` says which handler catches it |
| `Crash` | the process ends and is started again |

### 3.2 Messages: A2AMailbox, TelegramRelay, NotifyDrain, ExecuteStream (MCMessages)

* `A2AMailbox`: every route is synchronous, so each is one step. `Enqueue` (the nonce is spent even if the id is
  refused), `Dequeue` (pruning, filtering, leasing up to a limit), `Acknowledge` (expired lease, wrong token, right
  token), `Expire` (the clock), `Die` (an agent with messages in hand). `held` is what the agents have in hand. A lease's
  random token is abstracted to how often its message was leased; several leases that ran out return in any order.
* `TelegramRelay`: `relay` is each process's program point, offset and batch; `lock` and `file` are its two files. A
  step ends where the relay waits for Telegram or the server, or between two calls on the lock file.
* `NotifyDrain`: `queue` is the list, `drain` each drain's point with the rest of its batch and its receipts, `wire` the
  acknowledgements the server has not served yet. A receipt is the hash of an entry, so equal entries have equal ones.
* `ExecuteStream`: `at` and `frame` are where the handler stands, `log` the order of receipts on file and of frames
  the socket took, `gap` the latency tracker's clock. `Drained`, `Disconnect` and `Tick` happen only where it yields.

### 3.3 OrderDelivery

One order. `order` is the marketplace's side, `staged` the asset file of the operator, `dir` the artifacts by type,
`torn` files a crash left half-written, `daemon` each daemon's point in its pass (poll, load, write, call).
`Action(o)` is decideNextAction together with the checks executeAction makes before it writes; it is evaluated when
the pass loads the artifacts (`Reconcile`), and the record it yields is written (`AppendArtifact`) and, if it is an
intent, called for (`CallSucceeds`, `CallRefused`, `CallUnanswered`) in later steps. `Crash` and `CrashInWrite` end a
pass anywhere. `ChangeBrief`, `MarkDelivered` and `Stage` are the marketplace and the operator, which are external.
`uploads` and `deliveries` record what the outside world saw.

### 3.4 Guards: MCGuards and its ten parts

* `HitlGateway`: `checkpoints` and `lastAuditHash` are the gateway's memory, `records` and `audit` its files. A call is
  synchronous but appends to two files, so it is two steps with `pending` between them. A line has a newline or not,
  and an append to an unended file continues the torn line (`Appended`, `TornInto`). `RestartWith` is _initialize.
  A refused append leaves the file as it was or with the line on it, since fsync may throw (`Refusals`). `acted` holds
  the verdicts somebody acted on. Hashes are abstracted to what they cover.
* `BoundaryGuard`, `IngressQuota`, `CostKillSwitch`, `RouteCircuit`, `ProviderCircuit`, `RunawayWatchdog`: the clock is
  a number, a request or an outcome a step; calls in flight are sets, so that answers come late and in any order.
* `RoutingPlan`: `PlanRouting` ranks the routes once, `Execute`, `Call` and `Stale` try them while time passes.
* `BoundaryGuard.Receive` keeps the nonce before it sanitises the body, and a body may fail that (`clean`).
* `ModelDispatch`: one message per conversation, several conversations at once; `config` is the environment, `last` the
  shared record of the last routed call. `Answers` clears it when it describes a reply; a utility command that cannot use
  its answer describes it twice, the second time from nothing (`Undescribed`).
* `StepContract`: `Begin`, `Return`, `Throw`, `Timeout` and, later, `LateEnd` of an executor that was given up;
  `CreateReceipt` and `Transition` judge what the steps left. An artifact is known by the attempt that wrote it last.

### 3.5 Records: StatemRunbook, OperationalStore, ReplayLease, ReviewLoop (MCRecords)

* `StatemRunbook`: `saved` is the latest readable checkpoint, `torn` an unterminated last line, `call` the call in
  progress. A step runs from one await to the next; `Answer` is a handler's answer with the save that follows it.
* `OperationalStore`: every operation is one IMMEDIATE transaction, hence one step. `frame` is what each worker is
  executing, `sent` the transition requests that may be delivered again.
* `ReplayLease`: `row` is the table, `frame` the request each owner is serving, `effects` how often each key's effect
  happened.
* `ReviewLoop`: `run` is what each of the three programs is at, `batch` and `history` the shared files, `seen` (in a
  run) the history it read and will replace. The file lists the last `MaxCycles` cycles (50 in the code) and goes on
  counting those it no longer lists, which `cut` remembers.

### 3.6 Knowledge: MCKnowledge and its seven parts

* `CognitiveMemory`: the array, and one page per memory. Whatever changes the array ends by writing all pages in the
  array's order, two steps a page (`StartPage`, `FillPage`); `Crash` may come anywhere and `Reload` has the pages only. A
  memory's content is its notes one below the other: `notes` are those in front of the first heading (`## `) and `behind`
  those from it on, which `Reload` does not read and the next save drops (`cut`).
* `FrictionContainment`: several processes over a ledger, a state file and bridge files; an evaluation is synchronous
  in its process (`Judge`, the vetoes, `SaveState`), the other processes go on between. State and bridges are cut to
  nothing and then filled, in two steps (`CutState` and `SaveState`, `OpenBridge` and `WriteBridge`), and each can fail or
  be cut off by a crash; a state file that does not parse is read as the defaults (`Found`). An append may leave part of
  a line, which the next one continues.
* `AutoRemember`, `SelfImprovement`: turns and commands that write several files one after the other. The operator's
  editor is another process and may save between the copy of a file and its replacement (`EditByHand`).
* `QueryCache`: `Sign`, `Lookup`, `Retrieve`, `Store` of several servers over one table while documents change (`Edit`).
* `TrajectoryLedger`: `AppendTrajectory`, `TearAppend`, `AppendSnapshot`, `Deploy`; `Normal` says which texts a second
  normalisation changes (cut at a blank, or derived and not cut the first time); `TrajectoryReplay`: `RecordGolden`,
  `ForkAt`, `StartReplay`, `ExecuteTool`.

### 3.7 ClientContinuity (MCClientContinuity)

`req` is each request's stage, `queue` the promise chain of each conversation, `file` its rows, `history` the execution
history, `deleter`, `lock` and `log` the deletions. A server step runs from one wait to the next; the command line is
another process and comes between any two file operations. `hits`, `erased`, `victims` and `overlap` are history.

### 3.8 The worker's surroundings: ToolRun, CoreSpec, DashboardChat, DashboardPanels (MCWorker)

* `ToolRun`: a job goes from `Arrive` over `PreToolUse`, `Guard`, `Resolve`, `Request` (a redirect returns to `Resolve`)
  to `PostToolUse` and `Stop`; `receipts` is the file, `previous` each manager's chain.
* `CoreSpec`: `Ask` evaluates the rules of server, Rust core and ports on one input; a text is brief in characters, in
  bytes, in both or in neither, as the languages count (`Sieve`); `Ends` and `Settles` are Go's supervisor with its
  timeout and recovery.
* `DashboardChat`: `page`, its tab's `store`, the server's `session` and the `sends` under way.
* `DashboardPanels`: `loads` are requests whose answers come in any order, `handlers` changes that ask again after them. `told`
  remembers which answers were on their way when the page heard of a revocation or a decision: only those may show what
  was before it (`RevokedIsGone`, `DecisionsShow`).

## 4. Runs and bounds

Twelve runs. Each property has a mutant: a plausible bug in one mapped definition (a dropped guard, a stale read, a
wrong end of a list) under which the same run reports that property.

A *sum* checks several components that share nothing: its first state picks a part, only that part's actions happen,
and a property of the sum is the conjunction of the parts' properties. That is the same as checking the parts one
after the other, since a behaviour of the sum is a behaviour of one part with the others' variables at their initial
values. A sum declares the constants of its parts; its configuration gives them values.

| Run | Instance (distinct states) | Shows |
|---|---|---|
| `job_queue_single` | 1 worker, a READ and a non-READ job, 2 crashes, fair (10,118) | refines `JobLifecycle`; attempts do not undercount runs; deaths are reported; jobs settle |
| `worker` (sum) | the queue with 1 worker and any two of a crash, a refused command, a lost connection, a stall and a failed DLQ write, and a READ id enqueued again; the queue with 2 workers and 1 crash; 2 tool jobs; the core's rules; 2 chat messages; 3 panel loads (1.5 million) | a non-READ job runs once; no death is filed or announced twice; no job and no check is lost; records and page tell the truth |
| `order_safe` | 1 daemon, 2 briefs, a good, an empty and a placeholder asset, 2 changes, 2 stagings, 2 faults, fair (329,622) | intents precede effects; no replay; only checked candidates are sent; orders are delivered unless something is left to the operator |
| `messages` (sum) | a filtered and an unfiltered agent with 3 envelopes of 2 messages; 2 relays with 3 updates; 2 drains with an accepted and a refused message; a stream; 2 faults or so each, fair (226,876) | nothing is lost or passed over silently; repeats need faults; only the holder acknowledges; everything is dealt with |
| `guards` (sum) | the gateway with 2 checkpoints, 2 payloads and one fault of each kind; nine guards with two callers or keys each (1.3 million) | chain and verdicts survive crashes, and faults one for one; nothing passes twice; private messages stay; limits and waits are kept |
| `records` (sum) | the runbook with 2 commands, 2 retries, 2 faults; the store with 2 jobs, 2 workers, 2 faults; leases with 2 owners, 5 requests, 2 faults; 3 review runs over a history of 2 cycles, the third only judging, fair (364,897) | phases in order; repeats need faults; work is accounted for; ends are final; work ends |
| `client_continuity` | 2 conversations, 3 turns or a turn and a tool request, a deletion, a prune, an expiry, a crash, fair (317,488) | turns stay whole; history and deletion log are exact; the prune spares what is in use; the fallback's caps; work ends |
| `knowledge` (sum) | 2 captures, 1 pack, 1 crash; 3 friction entries of 2 processes, 1 resolution, 2 bridges, 1 crash; 3 candidates; 2 proposals; 2 servers; 3 trajectories; 3 hops (2.7 million) | one voice per partition; what is forgotten is so for a reason the history names; what is retired stays out; decisions last |
| `job_queue_lost_retry`, `order_twice`, `memory_decay`, `dashboard_chat` | small instances | the findings of section 7 |

Why the bounds are enough. A hazard needs a first actor, one that interferes with it, and a fault between two of
their steps: hence two of a kind and one or two faults. The queue needs two workers (one that acts on what it read,
one that changed it), one job of each effect (jobs share nothing but the lists), one retry and two attempts (the first
value on each side of both limits); the crash that matters twice, a crash in the recovery of a crash, is in
`job_queue_single`. The drain needs two equal entries and a batch that can hold both and a refused one. The order
daemon needs a change of the brief and back, one asset of each kind, a fault and a fault during what follows it. The
mailbox needs two messages for an order and a resent envelope for the nonce; the gateway two checkpoints for a torn
line that belongs to somebody else. Clocks run until every window, cooldown and age has begun and ended at least
twice. Texts and addresses take one value of each kind the code tells apart. The theorems of section 6 remove the
bounds where they apply.

Bounds that are parameters of the models: `Budget` and `MaxFaults` (faults), `MaxEnqueues`, `MaxPushes`, `MaxChanges`,
`MaxStagings`, `MaxCaptures`, `MaxAppends` and their like (what the environment does), `Horizon` (a clock). `MaxRetries`,
`MaxAttempts`, `IterationCap`, `Limit`, `Capacity` and their like are the program's own limits.

Bounds of the instances, in the MC modules: `AnyTwo` (of the five kinds of fault of the queue, two happen),
`FleetOfTwo` (two workers get one job, of either effect; a crash and a lost connection), `CrashNext` (in
`job_queue_single` faults are possible but only crashes occur: with a refused command the refinement is false, section 7),
`OneRetry` (of the store's two jobs one is retried), `OnePanel` and `OneKind` (one of the two panels is looked at, and
only handlers that change it), and `MCNext` of `MCClientContinuity` (the faults happen with two requests, three
turns run without). `WorkerSymmetry` and `Symmetry` of `MCGuards` permute values the code treats alike; no run with
symmetry checks liveness.

Deadlock is checked where a component never stops (`job_queue_single`, `order_safe`). In the sums and in
`client_continuity` parts do stop (a stream is over, a clock at its horizon, everything is decided), so their
configurations switch it off.

## 5. Fairness

* `JobQueue`: weak fairness of each worker's next command (workerLoop never ends and awaits each command; a tool
  returns). Strong fairness of `StartRecovery` and of moving the due entries, because workerLoop passes the two points
  again and again, and the timer and the due times let them act in some of the passes only. Weak fairness of the
  expiry of a lease nobody renews (the clock). Crashes, refusals and stalls are never owed.
* `OrderDelivery`: a pass goes on and a call that does not fail is answered. `fetch` has no timeout, so this is an
  assumption about the network, not something the code enforces (listed as a hazard). Neither the marketplace nor the
  operator owes anything.
* `A2AMailbox`: agents poll with the largest limit and answer what they hold; a lease nobody holds runs out.
* `TelegramRelay`, `NotifyDrain`, `ExecuteStream`: the loop goes on, a relay that is down is started again, a request the
  server has received is served, time passes. A refused message is refused for ever.
* `StatemRunbook`: the call goes on and is called again. `OperationalStore`, `ReplayLease`: workers go on with what they
  have; claims and leases lapse; strong fairness of claiming and acquiring, since other owners' rows come and go
  between two attempts of a caller that polls. `ReviewLoop`: a run that was begun goes on.
* `ClientContinuity`: turns, deletions, the prune's timer and the command line go on.
* `HitlGateway`, the other guards, the knowledge parts, the tools and the page: none; no liveness is claimed of them,
  since an operator, an agent or a user decides whether anything happens.

In a sum one condition covers the same kind of step of each part (`Takes`, `Ends`): only one part ever runs, so the
fairness of the union is the fairness of that part's step. What should hold in the end is stated as `<>[]`, so that it
says something of every behaviour once its last fault is past. Liveness with an unlimited number of faults would be
false of any of these programs.

## 6. Proofs

All theorems are for arbitrary constants under the modules' named assumptions (`ConstantsAssumption` of `JobQueue`,
`OrderAssumption`, `RunbookAssumption` and the like), which say only that limits are numbers (a horizon or a window is at
least 1), that subsets are subsets, that `None` is none of the other values, and in `ClientContinuity` that there are
finitely many conversations (a prune walks through them). TLC evaluates the assumptions in every run. What a theorem
needs beyond them it states as a hypothesis: one worker or daemon, a Redis that refuses nothing, a finite set of calls,
owners or relays. Each theorem below is `Spec => []Inv` for an inductive invariant that is stronger than the
property; what makes the invariant stronger is said with it.

`JobQueueProofs`
* `TypeCorrect`: `[]TypeOK`. Most of the work is that a worker about to act on a job has one, which the error
  handlers must preserve.
* `NonReadRunsOnce`: `[]NonReadAtMostOnce`. `OnceInv` strengthens it: a non-READ job was created at most once, the one
  ready entry is used up by the claim that leads to its one run, at most one worker stands between claim and run, and
  no program point that puts a job back is reached with it.
* `DeathReportedOnce`: `[]ReportsPerDeath`. `ReportInv` counts an unset marker as a report that may still be made:
  entries plus that one never exceed the deaths (plus repeated enqueues). Recovery may repeat a report as often as it
  likes because the marker is set in the same script that pushes.
* `RunsAreCounted`: `[]RunsWithinAttempts` for one worker and no reused id; `CountInv` says that what the worker read is
  still what the hash says. The hypothesis is needed: with two workers one that stalled writes back the attempt
  number another has just run under.
* `FollowsLifecycle`: the queue implements `JobLifecycle`, for one worker, no reused id, and a Redis that refuses no
  command of a connected client. Every step maps to a step of the lifecycle or to a stutter; `CurrentInv` says that the
  status a program point assumes is the status in the hash. The last hypothesis is needed too: an acknowledgement
  refused after a success is caught as a failure (section 7).
* `NoJobIsLost`: `[]Accounted` for one worker, whatever fails, ids reused or not. `AccInv`: a job in the worker's hands
  keeps an entry in processing, one more for each visit recovery still owes it (only the worker removes them), and the
  hash says what the worker's program point assumes, or the id was enqueued again and is in the ready list (`Stands`).
  It says nothing of a disconnected worker, which can no longer remove anything. With two workers it is false.
* `DeathsAreOnRecord`: `[]DeathsOnRecord` for any number of workers. Recovery marks jobs dead without a record on disk.
  `FiledInv`: as long as no fault was spent, a job that is not READ and not over belongs to the worker that claimed it,
  under a lease that runs, so that recovery leaves it alone (`Kept`). It rests on `OnceInv` (its entry is not claimed
  again) and on `KnownInv` (a job that is created is in nobody's hands).

  Then what stands around the queue, each for all its constants. Tools (`ToolRun`):
* `FetchStaysWithinAlways`, `RunsAreOnRecordAlways`, `ReceiptsAreChainedAlways`. `RecordInv` and `ChainInv` say of each place of a run
  what was checked, what time is left and which receipts are written; a throw between a receipt and the chain's head is
  what can leave a receipt out, so the chain is counted against `throws`. The first two ask for at least one zone,
  without which a run has no zone at all.
* `CoreSpec`: `GrantsAgreeAlways`, `DecaysAgreeAlways`, `SievesAgreeAlways` (together `CoreRulesAgree`) say that the statements
  of one rule agree on every input but where lengths are counted in bytes and in characters, by cases on the input; `ResultsAreTheirOwnAlways` follows the supervisor's channel of each proposal.
* `DashboardPanels`: `RevokedIsGoneAlways`, `DecisionsShowAlways`. The invariant says of every
  answer, on its way or on the screen, that it was given before the page heard of the last decision or revocation, or
  shows it (`AnswersGood`, `ScreensGood`). An older answer may arrive last; it is then one of those the history names.
* `DashboardChat`: `ViewIsOfOneConversationAlways`, `ResetHoldsAlways`, `LogoutIsCompleteAlways`, from one invariant over
  what each message was sent with (load, generation, key) and what the page is about now.

  Last, `NothingStrays`, `RecordHolds` and `PageHolds` prove the three properties of the sum as the run states them. `EachAlways`
  says that a behaviour of `MCWorker` is one of each part. The queue part needs one thing more: its one worker is one of
  `Workers`, and `OthersRest` says that the others stay as they began, so that what holds of one worker holds of it.

`OrderDeliveryProofs`
* `TypeCorrect`: `[]TypeOK`.
* `IntentsFirst`: `[]IntentsPrecedeEffects`, for any number of daemons; strengthened by "a daemon at its call has its
  intent in the directory" (`CallsRecorded`).
* `NothingUnchecked`: `[]OnlyCheckedIsSent`, for any number of daemons; strengthened by "an intent a daemon holds has
  passed its check" (`HeldBacked`). Records are only ever added, so a check stays valid after it was made.
* `OneDaemonNeverReplays`: `[]NoReplay` for one daemon, whatever its faults; strengthened by "an intent about to be
  written is not on disk, and the effect of a call about to be made has not happened" (`Fresh`), which rests on
  `IntentsFirst`. The assumption is needed: with two daemons the code does repeat a call (section 7).

  The lemma `Kinds` reduces the eleven actions to three kinds of step: nothing outside memory changes, a record is
  appended, an effect happens. The three theorems only look at those.

`RecordProofs`, about the runbook, the replay leases and the SQLite store
* `TypeCorrect`; `PhasesInOrderAlways`: handoff runs only on work every command has passed since execute last began,
  nothing runs after a rollback unless a checkpoint was torn, and what was reported PASSED is COMPLETED on disk.
  `OrderInv` ties what the call and the checkpoint say was passed to what has been passed.
* `RepeatsNeedFaultsAlways`: a phase begins more often than its limit only as often as faults undid a save. The proof
  is amortised: to the runs of a phase are added those that the call and the checkpoint still allow, and no step
  raises the sum without spending a fault (a torn checkpoint counts twice).
* `EndsAreFinalAlways`: no step leaves COMPLETED or CANCELLED; an action property, from the same invariant.
* `LeasesAreKept` (a lemma of the sums below): `[]EffectsAreAccounted` and `ResultsAreFinal` of `ReplayLease`, for a finite set of owners. In
  `LeaseInv` every owner that may still cause its effect counts against the leases that lapsed or were reported failed
  (`Budgeted`), and a request that was let through agrees with the row of its key as long as the row exists.
* `RunsAreAccountedAlways`: `[]RunsAreAccounted` and `EndsStay` of `OperationalStore`. `StoreInv` relates what each
  worker and each request on its way believes of a job to the row: they know an older or the present run of it, and
  a run that was taken away under a live worker has used up an expired claim.

* `HistoryAddsUpAlways`, `LossesNeedOverlapAlways`, `ReadyIsEarnedAlways` (`ReviewLoop`). The counts of the history are
  cardinalities of its cycles, listed or dropped from the full list, so the proof is about adding one cycle to a finite set; what a run has read is part of the
  invariant, since it writes that back with its own cycle at the end. Ready rests on the reviews a run holds being those
  that were asked for, and on `Required` and the quorum being looked at last.
* `WorkIsAccountedAlways`, `AllEndsAreFinalAlways`: the two conjunctions as the run states them, of `MCRecords` as a whole.

`GuardProofs`, about the approval gateway and the guards in front of requests, calls and steps
* `TypeCorrect`; `ChainHoldsAlways`: as long as no append was torn, the audit log is one chain with at most one break or
  loose end for each refused write; `ChainInv` counts them, and
  `EntryChains` says that an append adds a break only if the hash to chain to is not the last entry's.
* `VerdictsNeedFaultsAlways`: second verdicts are bounded by refused and torn writes, and crashes cause none.
  `DecisionInv` says of each checkpoint what map, file and history may disagree about; the count is amortised over the
  faults that are left.
* `AuditGapsNeedFaultsAlways`: a closed checkpoint lacks its audit entry only as often as faults account for. The set of
  checkpoints without one is finite and grows by at most one with each crash and refused write, by two with a torn one.
* `PassedOnceAlways` (`BoundaryGuard`): `[](TypeOK /\ PassedOnce /\ NoncesWereSigned)`. `BoundaryInv` says that a request that
  was let through is stale or its nonce is kept as long as it stays fresh. With an expiry counted from now and not
  from the request's own time this is false for requests signed ahead of the clock, which is the module's mutant.
* `RouteWaits` (`RouteCircuit`) and `CircuitWaits` (`ProviderCircuit`): the breakers open only after a streak, nothing
  begins in a cooldown, and a circuit closes on proof. The invariants relate the breaker's own record to a history
  that the code does not keep: when it opened, and what was reported since.
* `SessionWithinAlways`, `HourWithinAlways` (`CostKillSwitch`), for a finite set of calls: what a session spent and, for each
  of its calls in flight, one call's highest cost, stay within the limit and one such cost for each call there can be.
  The module keeps accounts: all that was spent by each moment. What the hour spent is the account now less the account
  an hour ago, so no sum over a history is needed, and the invariant compares two moments of one account that never falls.
* `QuotasHold` (`IngressQuota`): its windows and buckets are cumulative accounts too. `Latest` names the start of the last
  window, `Funded` says that tokens and what was spent never exceed the capacity and what time has refilled, and
  `Promised` that whoever waited as long as Retry-After said finds a slot or a token.
* `RoutesStayWithin` (`RoutingPlan`): wherever a request is sent, however late, the route is within its bounds on evidence
  that is good at that moment, and two routes are tried at the most, the second only if the first may be passed over.
* `StopsInTimeAlways` (`RunawayWatchdog`): `[](StoppedInTime /\ StopsHaveReasons)`. `WatchInv` says that no step before
  the last made a runaway of the session (`Quiet`), and not the last either while it is watched.
* `DispatchTyped`, `StaysLocalAlways`, `RepliesDescribeTheirCalls`, `FallbacksWithinAlways` (`ModelDispatch`). `DispatchInv`
  says where each call of a conversation may have been made and what its reply and rows are at each place (`Permitted`,
  `Served`); the count of fallbacks adds the conversations that were let through and have yet to call.
* `ReceiptsAreComplete`, `SentinelIsExactAlways`, `ClaimsAreEarnedAlways` (`StepContract`): what a step left stays, since
  nothing takes it away, and the steps since the last that moved something are those the sentinel counts.
* `BoundaryHoldsAlways`, `LimitsHoldAlways`, `WaitsAreKeptAlways`: the three conjunctions as the run states them, of `MCGuards`
  with its ten parts side by side, for all values of all their constants.

`ClientContinuityProofs`: one inductive invariant, `ContinuityInv`, of seven parts - types and the queues against the
stages they hold (`Base`), history against finished and erased requests (`LedgerInv`), the age of what is in flight
(`AgesInv`), what a prune has read against what changed since (`FreshInv`), what deletions still owe the log
(`LogInv`), the order of rows (`RowsInv`), the uses of the fallback (`CapInv`). From it `AllFilesAgree`,
`TurnsAreWholeAlways`, `LedgerIsExactAlways`, `PruneSparesActiveAlways`, `DeletionsOnRecordAlways` and
`FallbackWithinCapsAlways`. The cap is counted: calls under way and uses recorded together stay within the cap plus
one for each other conversation, which is what the code really guarantees, since it checks before it waits.

`KnowledgeProofs`, about what the system writes down about itself
* `OneVoiceAlways` (`CognitiveMemory`), until a pack is mounted. `MemoryInv` says that array and pages agree but for the page a
  save has reached (`Mirrored`, `Found`), that a partition has one active memory (`Alone`) and that a page whose memory
  was overruled is written before that of its successor (`Overruled`). A pack may bring a second voice.
* `NotesStay`, whatever packs are mounted. `NotesInv` is weaker than `MemoryInv` and survives a pack: every accepted note that
  no crash tore and no heading cut is on the page of a memory that has it (`Held`, `Safe`), no memory is active whose page is
  archived (`Agree`), every readable page has its memory (`Known`), and the note being captured is in the array
  (`Pending`). Every operation makes the array grow (`Grows`): each memory is
  followed by itself, and a new one has a number that none had. For the mount this is shown entry by entry: `Mounting` is
  the array after each, and the first entry to break `Grows` would have to follow one that keeps it.
* `RememberedOnceAlways` (`AutoRemember`). `RememberInv` counts a candidate that the log names and that can still be
  promoted as one entry more (`Owed`): it is there only after a crash between log and state, and staging a new
  candidate, letting one go stale or promoting it once again settles it.
* `LedgerIsKeptAlways`, `VetoComesFirstAlways`, `DecisionsLastAlways` (`FrictionContainment`), from one invariant over what each
  process has read and what the ledger, the state and the bridges say. The proof showed a first version of
  `DecisionsLast` to be false with three processes, which no run had: a stale save changes the count of episodes as
  well, so the property speaks of the containment itself: an evaluation that found a whole state file, in a process that
  decided last, leaves it as it stands or begins its own. `VetoComesFirst` ends at the first bridge file a round of vetoes
  could not read or write (`halted`).
* `TextsAreKeptAlways` (`SelfImprovement`): `Lies` says where each text of a file is, in the file, a backup or a proposal, or
  that the operator replaced it, or saved it between a copy and the replacement that follows.
* `AnswersAreFreshAlways` (`QueryCache`): the age of what a lookup found, of the index it was built from and of the edit that
  hid a document are compared by the moments they happened at.
* `TrajectoriesAreKept` (`TrajectoryLedger`): `LedgerInv` says of each line of the file what it was normalised from and when it
  was admitted. Its lemmas are about the counts of a walk (`CountOfWalk`) and the latest few of a finite set of rows.
* `ReplayAgrees` (`TrajectoryReplay`): what has been replayed is the golden run as far as the cursor, and the next call is the
  first that is wrong or one too many (`Replaying`). `FaultsAre` says what a comparison finds.
* `RetiredStaysOutAlways`, `NothingIsForgottenAlways`, `DecisionsStandAlways`: the conjunctions as the run states them, of
  `MCKnowledge` with its seven parts side by side.

Induction. A recursive function of a model (`Mounting`, `CountUpTo`, `Calls`, `Costs`) is reasoned about with its smallest
counterexample: lemma `Smallest` says that a set of numbers that is not empty has a least one, and what fails at the
least number holds one before it. The theorems that take an operator as a parameter cannot be used.

The sums. `MCRecords`, `MCGuards`, `MCKnowledge` and `MCWorker` declare the constants of their parts, and a configuration
gives them values for TLC, so the proof modules extend the very modules the runs check. A theorem about a sum follows
from those about its parts: each step of the sum is a step of one part and a stutter of the others.

`MessageProofs`, about the mailbox and the Telegram relay: `MailInv` adds to `MailIsKept` that whatever is leased was dispatched before, that only finitely
many messages are leased, and that an accepted envelope has spent its nonce. Its lemmas say what each operation makes
of a queue: messages come back at the head (`HeadKeeps`), one is added at the end (`TailKeeps`), a batch is taken out and
the others keep their order (`OthersKeep`, by counting positions: `RankTells`, `RankIsOnto`).
* `MailIsKeptAlways`: `[]MailIsKept`, for any number of agents, envelopes, expiries and deaths.
* `AckedByHolderAlways`: a message goes away only by an acknowledgement of its last dispatch under a running lease.
* `RelaysKeepUpdates` (`TelegramRelay`): `[](NoUpdateLost /\ RelaysRepeatOnFaults)`, for a finite set of relays.
  `RelayInv` says that whatever is behind the offset or confirmed was answered, that the lock has one holder and that
  an update's dispatches are counted against the breakdowns.
* `StreamsAreOnRecord` (`ExecuteStream`): how a stream ended is on file unless an append failed, it is called complete only
  after its result went out, and it is called a failure twice only for a stall or a client that left. Each receipt may
  be lost on its own.

What is not proved, and why. Liveness and everything about fairness (`[]<>`, ENABLED) is out of the prover's reach.
So is what a recursive operator or a fold of the community modules computes; where the proofs needed one the models use
a recursive function, a set or a cumulative account.

## 7. Where code and documents disagree

Each of these has a run whose trace shows it.

1. `job_queue_lost_retry`: moveDueDelayed puts a due id on the ready list but leaves its status retry_scheduled, and
   the claim drops ids that are not queued: a scheduled retry never runs (DESIGN.md:156, 1125 promise retries of READ
   jobs).
2. `order_twice`: a delivery of unknown outcome and then a changed brief: the order is delivered a second time with no
   operator in between (DESIGN.md:148).
3. `memory_decay`: memoryMetadata writes no class, so a durable memory that was reloaded from its page decays
   (`lib/cognitive_memory_engine.mjs:909`).
4. `dashboard_chat`: the page sends keys the session's scope guard does not know, so every chat message of a session
   is refused (`agent_server.mjs:949`, 971).

Observed while modelling, and modelled as the code does it; none of these is a run of its own.

* Queue. A refused acknowledgement after a success moves a succeeded READ job to retry_scheduled. With two workers a
  recovery pass that acts on what it read removes the entry of a claim that is running, and a crash then loses the job
  (`Accounted` is a property of one worker); for the same reason `RunsWithinAttempts` is one.
* Orders. Two daemons on one runtime root repeat calls, since appendArtifact's answer is ignored. The candidate of the
  last permitted iteration is generated and never checked. An asset staged for the old brief can be delivered for the
  new one. What is uploaded is not hashed again.
* Notifications and relay. `Limit` refused entries at the head of a list hide everything behind them.
* Gateway and guards. After a refused write the gateway's map answers valid until a restart. An audit append that throws in
  fsync after its line was written forks the chain: the next entry repeats its prev_hash. A genuine request whose body
  cannot be sanitised uses up its nonce and is refused. The watchdog goes on
  recording in ESCALATED_HITL though its header says "Fail-closed trajectory termination". With a cost above the
  capacity Retry-After can never be kept (`QuotaAssumption` excludes it).
* Runbook. A call on a COMPLETED checkpoint reports FAILED (`success` starts false). After a save refused at completion
  the receipt says PASSED and the checkpoint FAILED.
* Review loop. The supervisor's synthesis counts each review twice, so it can say ready-for-push where the cycle says
  ready-for-review. A cycle judges a partial batch, and counts its reviews again when run twice. Resuming never
  retries a failed review and compares no candidate ids. A history torn during the copy fallback reads as empty.
  A full history counts cycles it no longer lists.
* Continuity. The transcript's "missing" check counts the receipt row, so error replies and user rows go unrecorded.
  A fallback's use is recorded after its call.
* Memory and own files. A note with a line that begins with `## `, and every note gathered behind it, is lost at the next
  restart. A busy conversation stages its candidate anew, so it may never ripen. Applying a proposal twice overwrites the
  only backup; so is a text lost that the operator saves between the copy of a file and its replacement. Bridges that
  appear during containment are not vetoed, nor are those behind one that cannot be read or written. A state file read
  while another process writes it, or after a write that was cut off, means "not contained".
* Routing and dispatch. zero_cost_required is ignored when the class asks for tier 1 or more. A sensitivity that
  contains "public" ("nonpublic") counts as public; a trusted collaborator without a mark is "internal", so cloud
  routes refuse it. The chat preflight looks at the environment's URL even for a selected local seat. When a utility
  command cannot use its reply the routing metadata is consumed twice and comes out null (`Undescribed`).
* Stream. A start frame that fails leaves no closing receipt. A stall is noticed only at the next frame, and told twice.
  The stream_complete receipt is written before its frame, and a disconnect may follow it. A repeated Idempotency-Key
  reuses the stream's id and its event ids begin at 0 again.
* Query cache. The server's hygiene route passes no cache, so rows are only pruned when the cache is under pressure.
  A refreshed row keeps its created_at and is evicted as old.
* Consensus and claims. A sign-off after a veto leaves members VETOED under "Consensus Reached"; a save that fails is
  answered with HTTP 200; a torn file is replaced by the default state, so a veto can vanish. After a breaker trip
  the same old receipt promotes the claim again, and a REJECTED_FAILED receipt can carry promotion authority.
* Dashboard. The handler that resolves a containment calls `loadFrictionTelemetry`, which is not defined
  (`dashboard/dashboard.js:1062`), so a success is shown as a failure. Clear View lets a late answer appear without its
  question. A logout whose request is lost leaves the session live. A reset with failing storage and a reload bring
  the old key back.
* Step contracts. An executor that rejects with a falsy value counts as returning null. A contract's invariants are
  never evaluated. A step retried with success still leaves the receipt REJECTED. An empty trajectory replays as MATCHED.
* Trajectories. Rows whose normal form is not a fixed point (a text cut at a blank, a derived basis over 220 characters)
  are saved and never read; so are all earlier rows after a
  new evaluator; a torn tail swallows the next row, which was reported saved.
* Tools. Each job makes its own hook manager, so its chain begins empty. A request whose client disconnects has a
  SESSION_START and no STOP; a STOP write that throws in the finish listener is uncaught. A postToolUse that throws
  after a success runs twice and reports a failure. read_contract over HTTPS is not pinned and has no deadline.
* Core. The Rust sieve matches substrings ("nonexistent" trips "none") where its ports match words, though their
  headers call them equivalent. Rust and Go measure a brief text in bytes and Python in characters, so only Python
  refuses a short text of other scripts. The Elixir prototype does not compile.

## 8. Only model-checked, and not modelled

Only checked by TLC: all liveness (`JobsSettle`, `DeathsAreReported`, `OrdersGetDelivered`, `EverythingIsDealtWith`,
`AllWorkEnds`, `WorkEnds`), and of the safety properties the two of `messages` that also speak of the notify drain:
`NothingIsPassedOver` (the relay's and the stream's part are proved, `RelaysKeepUpdates` and `StreamsAreOnRecord`) and
`RepeatsNeedFaults` (the relay's part is). The drain's promises count equal entries of a list, in the queue, in batches
and in receipts, and the list is filtered and shortened with folds. Every other property of a passing run has a
theorem that states it as the run does.

`Accounted` and `RunsWithinAttempts` are true only with one worker, as section 7 says.

Left out of the modelled components: the contents of jobs, messages and payloads; signatures, hashes and policies on
text, which do not depend on the state; a heading in the first line of a note, which cuts only a memory that begins
with it; scores, as far as they are arithmetic on floating point; Redis persistence (a
Redis that loses acknowledged writes); several orders at once (their directories are separate and `reconcileOrderBatch`
isolates failures); a restart of the server, which empties the mailbox by design (D-0048). Components that are not
modelled are listed in 1.2 and, with the parts left out of the others, in `PROJECT.json`.
