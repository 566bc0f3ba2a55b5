# Verification of the SIRINX runtime, control plane and services

TLA+ models of the stateful core of the repository, the TLC instances that
check them and TLAPS proofs of their main properties.

    tlc -config runtime.cfg MCRuntimeScenarios     # any run of the table below
    tlapm AgentRuntimeStoreProofs.tla              # any of the modules ...Proofs

## The system

The repository holds a Rust workspace (`crates/`), Node.js services
(`services/`), a public website, dashboards and a browser extension (`apps/`,
`sites/`), workers at the edge (`infra/`), and a large body of scripts,
generated data, configuration and documents. What decides whether something may
happen, and remembers that it did, is in the crates and the services; the
website keeps leads and articles.

| Component | State | Operations | Hard behaviour |
|---|---|---|---|
| Agent runtime domain, `sirinx-core/src/agent_runtime.rs` | none of its own: the shape and rules of tasks, runs, leases and receipts | `can_transition_to`, `apply_transition`, `conflicts_with`, `heartbeat`, `release`, validation | re-entry of the lifecycle, versions at their width |
| Agent runtime store, `sirinx-store/src/agent_runtime.rs` | tasks, idempotency keys, runs, leases, receipts, events | `create_task`, `transition_task`, `create_run`, `transition_run`, `acquire_lease`, `heartbeat_lease`, `release_lease`, `append_receipt` | callers with their own clocks and stale versions; one memory and one Postgres implementation with row locks and an advisory lock |
| Control plane, `sirinx-control/src/lib.rs` | per node: gate cache, local hold overrides, a mutex, known agent cards; shared: gate rows, pending work | `decide_gate`, `run_action`, `list_gates`, `metrics`, `readiness`, `a2a_sync`, `a2a_route` | awaits between check and use, lost answers, dropped handlers, restarts |
| A2A, `sirinx-a2a`, `a2a-live-sync.mjs`, `a2a-omniroute.mjs` | cards by id; the report of a handshake | `register`, `route`, `diff_work`, handshake, sync-lanes | parallel registrations that time out or fail after their effect |
| Autonomous loop, `sirinx-autoloop` | step budget, transcript; failures and lessons in the Store | `run`, `run_with_recovery`, `invoke` | retries of what took effect, one budget for steps and retries, two runs over one store |
| Agents, `sirinx-agents` | registered agents, a stack of deliveries | `run`, scoring, role lookup | arbitrary map order, errors, termination |
| Lead API, `sirinx-web`, `sirinx-store/src/postgres.rs` | leads and follow-up work | create, advance, delete | two statements without a transaction, a row lock |
| Telegram stack manager, `stack-manager.mjs` | `manager.lock`, `state.json`, process groups | `start`, `stop`, `status` | killed managers, leaders that die before their group, recycled pids, a ps that fails |
| Telegram sends, `sender.mjs`, `index.mjs`, and the A2A sync planner | replay caches in two processes, the durable gate | `POST /send`, `POST /api/a2a-sync/plan` | retries that join an execution in flight, a full cache, restarts, a provider that acts late |
| Approval queue, kill switches, audit, evidence | queue, ring of events, switches read at start, files | dry run, Hermes inbox, snapshot | several routes over one queue, limits, file names with the resolution of a second |
| ACP probe, `acp-handshake-probe.mjs` | one child process | spawn, read, time out, terminate | events in any order, a child that ignores signals |
| ThaiMart workflow and Seller Guard | none on the server; copies at clients; tabs | create, advance; inspect and post | stale copies resent, navigation between awaits |
| Resource cleanup gates | documents: grant, evidence, receipt | preflight, admission, effect protocol | documents of different instants combined |
| Website leads, administration | rows of leads, users, articles; a queue file | `lead.submit`, sessions, publication | failed second inserts, roles read before awaits |
| Brain sync worker | notes and their index in D1 | sync | statements of several requests interleave |
| Effect authority, ROI and price tables, gateways, status pages, rendering, scripts | none | pure functions and reports | none |

Interactions. Agents and role managers call the runtime store directly: no
component serialises them, the store is where they meet. Several control nodes,
the lead API and the autonomous loop share one `Store` (gates, pending work,
leads, failures and lessons). The dev control API and the Telegram bot read the
gate of the control plane over HTTP before a live send, and the dev control API
registers its agents there. The stack manager starts the bot, the control plane
and their helpers as process groups. The Seller Guard extension posts to the
dev control API, whose approval queue also takes what the Hermes inbox accepts.

What makes each correct:

* leases: exclusive ownership of paths, resources and write access; a lease that
  ended stays ended; transactions never wait in a circle;
* receipts: a run or task is final only on a maker's PASS that an independent
  checker vouched for; one chain per task, one receipt per run;
* ledger: the events explain the rows;
* gates: no execution that the Store did not allow during the request; a local
  hold beats the Store; no handler blocks the others for ever;
* sends: one provider call per key while it is remembered, and a receipt that
  never claims more or less than what happened;
* supervision: one manager at a time, no signal to a stranger, no service that
  nobody tracks;
* loop: nothing repeated that is not safe to repeat, every attempt gated, the
  budget accounts for every attempt;
* approvals: nothing in the queue that was not answered, a switch outranks the
  queue, evidence is never rewritten;
* cleanup: what is admitted still stands, and a PASS means that what had to be
  reclaimed left this target;
* leads: who is thanked is kept; rows, index and vaults agree in the end.

## Modules

| Module | Models | Checked in run |
|---|---|---|
| `RuntimeLifecycle` | vocabularies, `can_transition_to`, verdicts by state, path overlap | with the next |
| `AgentRuntimeStore` | the in-memory store, one action per operation | `runtime` |
| `PostgresLeases` | the Postgres leases, statement by statement | `data` |
| `ControlGates` | gate handlers of several nodes around one Store | `gates`, `liveness` |
| `A2aMesh` | delta sync, registrar, handshake, pending work: control plane and dev control API composed | `agents`, `liveness` |
| `OmniRoute` | registration, refresh and routing of cards | `agents` |
| `AutoLoop` | goals, gate, loop, recovery, lessons, several runs over one store | `agents` |
| `Dispatcher` | layers of agents and their deliveries | `agents`, `liveness` |
| `LeadService` | lead API handlers over Postgres | `data`, `liveness` |
| `TelegramStack` | stack manager and operating system, several invocations | `stack`, `liveness` |
| `ReplayCache` | what an idempotency key promises: an abstract specification | `delivery` |
| `TelegramDelivery` | both live routes, their caches, the gate, the provider; implements `ReplayCache` | `delivery`, `liveness` |
| `ApprovalDesk` | inbox, policy, queue, switches, audit, evidence files composed | `control_api` |
| `AcpProbe` | one probe and its child | `control_api`, `liveness` |
| `ThaiMartWorkflow` | workflow engine and its clients | `control_api` |
| `SellerGuard` | the extension, its tabs and its post | `control_api`, `liveness` |
| `CleanupAdmission` | grant, evidence, effect, receipt, around an external machine | `agents` |
| `LeadSite` | forms, `lead.submit`, queue file | `data`, `liveness` |
| `SiteAdmin` | sessions, users, the article | `data` |
| `BrainSync` | edge worker and the nodes' loop | `data`, `liveness` |
| `ControlApi` | `ThaiMartWorkflow`, `ApprovalDesk`, `AcpProbe` and `SellerGuard` composed | `control_api` |
| `AgentServices` | `AutoLoop`, `A2aMesh`, `OmniRoute`, `Dispatcher` and `CleanupAdmission` composed | `agents` |
| `DataStores` | `PostgresLeases`, `LeadService`, `LeadSite`, `SiteAdmin` and `BrainSync` composed | `data` |
| `AgentRuntimeStoreProofs` | theorems about `AgentRuntimeStore`: types, leases, evidence, ledger | |
| `ControlGatesProofs`, `AutoLoopProofs`, `TelegramStackProofs`, `TelegramDeliveryProofs` | theorems about the module of that name | |
| `DataProofs`, `ControlApiProofs`, `AgentServicesProofs` | theorems about `DataStores`, `ControlApi` and `AgentServices`, their parts and their composition | |

The modules whose names begin with `MC` are the instances. `MCAgentRuntime`,
`MCControlGates`, `MCTelegramStack` and `MCTelegramDelivery` hold the sets one
component is checked with; `MCRuntimeClaims` adds a history variable for
statements of the documents. `MCRuntimeScenarios` plays four instances of the
runtime store. `MCControlApi`, `MCAgents`, `MCData` and `MCLiveness` put several
components in one run: a behaviour chooses one part when it starts, and only
that part moves. No part reads or writes a variable of another, so the run
reaches exactly the states its parts reach alone, and a property of a part,
stated of the behaviours it plays in, holds or fails as it would alone. For the
parts of `DataStores`, `ControlApi` and `AgentServices`, of which `MCData`,
`MCControlApi` and `MCAgents` are the instances, this is proved (`PartsBehave` in
`DataProofs` and in `ControlApiProofs`, `AgentsKept` in `AgentServicesProofs`).

### AgentRuntimeStore

The variables are the fields of `MemoryState`. Each operation takes the write
lock for its whole duration, so each is one action; a call that fails without
changing anything is a stuttering step. `acquire_lease` expires overdue leases
before it looks at the request, so a rejected request may still change the
store: `AcquireRejected`. The caller's clock (`now`, `at`) and the version it
expects are inputs, and nothing relates the clocks of two callers.

Abstractions: a repository path and worktree are one value (`tree`); a path is a
sequence of components; the digests a receipt binds are one value (`subject`);
the receipt hash is the receipt's identifier, so a collision or a tampered row
is outside the model; texts, blockers and attempts are left out, and so are the
requests that fail their syntactic validation. `u64::MAX` is the constant
`MaxVersion` (rows) and `MaxLeaseVersion` (leases): where the code's
`checked_add` fails, the action is disabled. The event sequence is not bounded:
no behaviour reaches its limit before the rows reach theirs. `LedgerReplays`
reads the ledger by its positions: the entries of a row are those of its task
and run, and they must number its versions, lead from state to state and end in
what the row says.

### PostgresLeases

One transaction per lease at a time: acquisition locks the task row, waits for
the advisory lock, expires overdue rows one by one (each may wait for a
heartbeat or a release that holds the row), checks and inserts; heartbeat and
release lock their row. Writes are seen at commit (read committed), and an
update that waited looks at the row again. `Break` ends a transaction at any
point, without or with its commit. Acquisition compares the request with the
clock it read before it waited, the other two with the clock of their own
statement. The other Postgres operations (tasks, runs, receipts) lock the task
row before they read, so they are the atomic actions of `AgentRuntimeStore`.

### ControlGates

A handler is `Submit`, then a step that takes `gate_decisions` and starts the
Store call (`BeginDecision`, `BeginRead`), the effect in the Store
(`UpsertGate`, `ReadStore`) and the step that applies the answer
(`FinishDecision`, `FinishAction`, `FinishRead`). `DenyLocally` has no await in
it and is one step. `Abort` ends a handler at any of its awaits: the Store
reported an error, or the client went away and the future was dropped. A write
already sent then stays in `lateWrites` and may take effect at any later time or
never (`LateUpsert`): the database finishes a statement whose client is gone.
`Restart` loses what the node kept in memory; the Store survives.

`list_gates`, `metrics` and `readiness` are one kind of request, `read`: they
differ in what they print. Requests without the token, for unknown gates, or
that open a gate without a valid ticket are answered before any effect and are
left out. Initial rows are arbitrary, with invalid tickets, because the table
may have been written by other programs. `everOpen` and `unpersisted` are
history variables: no guard reads them.

### AgentServices

The five parts that act on their own or for others share no variable. The loop's
variables are those of `AgentServices` itself; the other parts are instances. A
part with settings (loads of the loop, meshes, cleanups) takes one of them when
the behaviour starts.

### A2aMesh and OmniRoute

A sync is a request on the wire that the control plane takes in three steps:
`Receive` registers the card, `List` reads the Store after the await (or fails,
with the card registered) and `Answer` delivers. The dev control API's handshake
(`Handshake`, `Report`) waits for all of its registrations; `Timeout` abandons
one that may still arrive, `Break` loses one. `Refuse` is the bearer check.
Peers are external and keep syncing with what they know. `syncLanes` throws at
its import, which is what the code does. `OmniRoute` has the table of cards and
`route`: the score is a subtraction modulo `2^Width`, as `usize` is in a release
build, and equal scores go to the higher priority, then the smaller id.

### AutoLoop and Dispatcher

A run of the loop plans, loads lessons, invokes under the gate, records, learns
and decides; every access to the store may fail and every point may be the last
of the process. `executions` is what the tools have really done, known to no
guard. `lost` are the failures whose lesson the store did not take, or whose
run ended before; a lesson counts the failures of its tool and kind that are
not lost. The budget is paid by attempts. The dispatcher is one call of `run`: the
stack, the layer of followers in any order at every event (a `HashMap` keeps
one order while nobody registers, so the model allows more than the code does),
an agent that publishes, does not, or fails.

### TelegramStack

An invocation (`start`, `stop`, `status`) is a program counter over steps
separated by system calls: lock file, state file, `ps`, `spawn`, signals,
sleeps. Processes die, leave survivors in their group, ignore `SIGTERM` or are
killed; pids are recycled with a new start fingerprint; `Kill` ends an
invocation at any step. `psAnswers` says whether `ps` answers in this behaviour
or may time out at any call; it is chosen at the start, and `MaxFlakyStarts`
bounds the process starts of a behaviour of the second kind. The three `ps`
calls of one inspection are one answer.

### TelegramDelivery and ReplayCache

A request validates, looks in the cache, waits for the execution in flight or
makes room (`makeRoom`, `ensureA2aIdempotencyCapacity`), and executes: status,
gate, provider, receipt, with a step at every await. `wire` holds calls whose
answer was lost and whose effect may come later; `delivered` and `openSince` are
history. The cache of a process is a function from the keys it holds to their
entries; `after`, the requests whose entries were there when an entry was
inserted, stands for the insertion order of the `Map`, by which `makeRoom` finds
its victim. `ReplayCache` is the abstract specification: per key nothing, one
execution or a settled one; each execution calls the provider at most once; a
running one is not forgotten. `Bot` and `Planner` are its instances, with `run`
mapped by `RunOf` to the entries of the process and the calls made under each
key; `CacheKeepsPromise` says that both are implemented.

### ApprovalDesk, AcpProbe, ThaiMartWorkflow, SellerGuard

`ApprovalDesk` composes five modules of the dev control API with the Hermes
inbox and the policy core: a request is an action of a type, a target and the
flags the policy computes from the texts; a call may open a request in the
queue, records an event in the ring and answers; writers save the evidence
around the await of `mkdir`. `ControlApi` has as many settings of a desk as its
instance wants (who calls, what, how often); a behaviour takes one of them. `AcpProbe` has one action per event of a child and
a timer, and `finalize` is the two-stage termination behind the first that
decides. `ThaiMartWorkflow` is the pure engine and clients that keep, edit and
resend copies: the client is where the state is. `SellerGuard` is the service
worker around the awaits on tabs and storage. A page is an address with its
query; `pathname` gives its route, which is all a snapshot says of it. The two
ends of a capture are compared by address, the snapshot by route; the page a
snapshot was taken of is a ghost.

### CleanupAdmission

The repository has the checks of a cleanup, not its executor. Documents are
honest observations of a machine that changes, taken and combined in any order;
the actions of the checks are `Preflight`, `Admit`, the effect protocol and the
receipt. The manifest of the target names inodes and times of change, so the time
of the last change stands for its digest; the digest of the worktree is that of
its content (`tree`), and an edit that is taken back leaves the digest it found.

`Boundary` is `effectBoundary` of `getCleanupEffectTransitionDecision`: the slice
in force refuses every transition to an effect, and then an attempt is only
prepared, blocked or canceled. With an empty boundary the protocol runs with an
executor behind it, which is external and may be interrupted anywhere. The
receipt is a document of its own: the validator matches its verdict with the
state it names, compares neither with the state of the attempt, and asks for the
grant, the evidence and the attempt only with a PASS (`bound`). `removed` is a
ghost: what was removed from the target since the action evidence, by the
executor or by another program (`Empty`). Another program that empties the target
while the executor is at work cannot be told from it by any document, so
`PassMeansRemoved` says what left the target, not through whom.

### LeadService, LeadSite, SiteAdmin, BrainSync

One step per statement. `LeadService` inserts a lead and then its follow-up
work, and changes a status under a row lock. `LeadSite` has the pages, the two
inserts, the notification and the queue file of a server without a database;
whether a server has one (`configured`) is chosen at the start and stays.
`SiteAdmin` has a request that reads its user, touches the row and runs its
procedure with the role it read, and the article's read-then-write update; the
accounts without a display name (`nameless`) are chosen at the start.
`BrainSync` has the check, the upsert, the deletion and the insertion in the
index of each note, and the nodes' vaults. Any number of requests run between
each other's statements and may break off at any of them. An entry of the index
names the request that made it, because two requests can each leave one. `torn`
is a ghost: the paths whose last upsert began while another was still indexing
them, or broke off; `SearchMended` says that the index of every other path is in
step once nobody is indexing it. `OlderOnlyIfStale` says the same of the rows: one
becomes older only by an upsert whose row changed since its check.

## Runs

| Run | Instance | Shows |
|---|---|---|
| `runtime` | four scenarios: 2 runs of a task, 4 lease requests that overlap by path, resource, write access and nonce, clocks 0..2; a maker of either principal and a checker with 8 drafts; a third run that can only fail; 2 tasks and a run, versions to 3, over the ledger | exclusive ownership (`ActiveLeasesDisjoint`) and ended leases stay ended (`LeaseNeverRevived`), work started under a lease (`StartedWorkWasLeased`), final runs and tasks have independent and latest evidence (`FinalWorkVerified`), the chain is linear (`ReceiptChainLinear`), the ledger replays to the rows (`LedgerReplays`) |
| `gates` | 2 nodes, 1 gate, 3 requests of any kind, 1 restart, any initial row | `AuthorizedByStore`, `CacheRespectsHold`, `HoldWinsUntilRestart` |
| `stack` | 2 services, 2 pids, 2 invocations, 3 process starts; with a failing `ps` 2 starts | `OneManager`; nobody untracked is struck (`StruckWasTracked`); no orphan while `ps` answers and RUNNING is truthful (`StateTellsTruth`); the state goes after the groups (`RemovedOnlyWhenGone`) |
| `delivery` | 3 requests of one process, 2 keys, a cache of one key (bot) and of two (plan), expiry, 1 restart | receipts are true and their own (`ReceiptsTrue`), `GateReadLast`, the cache implements `ReplayCache` (`CacheKeepsPromise`) |
| `control_api` | workflow: 2 copies, 1 source, 2 contexts; queue: 3 action ids, 4 calls, ring of 2, 1 restart; policy: every type, target and pair of flags, 2 calls; 3 evidence writers in 2 seconds; a probe of either kind, 4 chunks; 2 tabs, 3 addresses of 2 paths, 1 press | reviews (`ReadyMeansReviewed`, `ApprovalNeedsReview`), queue and trail (`RecordsTruthful`), switches and approvals (`NothingUnapproved`), evidence (`SnapshotImmutable`); the first event decides (`ProbeTruthful`); what is posted is of the tab and route on screen (`PostedRouteOnScreen`) |
| `agents` | loop: 1 run over 4 tools with budgets 1, 2, 4, 2 retries, 1 fault; 2 runs sharing lessons; mesh: 2 agents with up to 3 requests on the wire, or 2 and a peer, or no token, each with 1 restart; router: 3 cards of 3 capabilities, lists to 2; bus: any set of 6 agents of 5 layers; cleanup: a preflight with 3 units of time, admissions with 2, one of them on a disk others use and with 2 events, one within the slice; 2 contents of the worktree | no repeated effect, gated and counted attempts (`LoopAccounts`), lessons (`LessonsTrue`); reports of registrations (`RegistrationsTrue`); routing (`RoutesBest`); deliveries (`EventsDelivered`); cleanup of what was approved (`CleanupAsApproved`) that tells what it did (`CleanupTells`) |
| `data` | 3 leases of 2 tasks, 1 heartbeat, 1 broken transaction, clock to 2; 1 lead and 2 agents; 2 visitors with 4 faults, with or without a database; 2 people (the second with or without a name), 3 requests, 2 grants; 2 nodes, 2 notes, 2 edits, two syncs at work, 1 request or answer lost | leases exclusive over transactions (`ExactOwnership`), locks without a cycle (`LocksSound`), `LeadsKept`, `RightsGranted`, the index of a note in step after every upsert nothing disturbed (`SearchMended`), rows that only change as allowed (`RowsChangeAsAllowed`) |
| `liveness` | smaller instances of ten components, no symmetry | `EveryRequestAnswered`, `EveryRunEnds`, `PeersCatchUp` |
| `claim_writer`, `claim_hold`, `claim_rejected`, `claim_wins` | see the findings | violated |

Why the bounds are enough. Three clock readings separate before, at and after a
deadline, and two holders are what a conflict takes; the four lease requests
make each reason of a conflict occur alone. Three receipts are what it takes to
check, pass and supersede. Version limits of 3 let a row reach its limit (6 where
leases compete, which lets a run start and finish); the run that may only fail
has no request to succeed, which the scenario before it plays. Three
requests give a decision, an action and one that interferes, on one node or two;
handlers of one gate never read another's row. Three Postgres leases are the
shortest cycle that needs a second task. Two pids and three starts let a pid be
recycled under a tracked entry. A cache of one key is full at once, one of two
evicts the right one or the wrong one, and three sends are a request, its retry
and a stranger. Two events fill a ring that the third must cut. One fault is what
separates a partial failure from none, and two nodes are what a race takes: two
syncs at work upsert one note in every order of their statements, and one of them
breaks off after any. Three addresses of which two share a path are what it takes
to leave a page without leaving its route; a tick makes a snapshot too old. A
cleanup needs one unit of time to clean and one more for a build or another
program before or after it; a behaviour of a cleanup ends with its receipt, behind
which no document changes and no property looks.
The history of every hazard listed in `PROJECT.json` was made to happen: for
each property a changed definition (a dropped guard, a swapped order, a missing
reset) makes its run fail.

Views and symmetry. `ScenarioView` leaves the event ledger out of the
fingerprint except in the ledger's own scenario: no guard reads the ledger and
the properties of the other scenarios do not mention it (but for its types,
which that scenario checks), so states that differ only there behave alike.
`InterchangeableRequests`, `SymmetricInputs` and the permutations of pids and
managers are sound because nothing but an initial predicate that is itself
symmetric distinguishes those values; in `delivery` requests and keys are
interchangeable and texts are not (the plan route takes one of the two), in
`data` only two leases of one task are exchanged. No run with symmetry checks liveness.

Deadlock is not checked: in every instance clients may stop asking, and bounds
on versions, requests, restarts or time leave nothing to do. Circular waits,
where they can arise, are excluded by `LocksSound` and `EveryRequestAnswered`.

Fairness is assumed in `liveness` alone, and only of what the code or its
platform schedules: a handler's own steps (a Store call, a statement or a `fetch`
that was started returns or times out; the tokio mutex is FIFO and is granted
once free); the manager's steps, each of whose waits has a deadline; the timers
of the probe and of a registration; a row lock that the database's queue grants
to a waiter (strong fairness of the statement that takes it); a node or peer
that keeps syncing on its schedule, and of whose requests the network does not
lose all (strong fairness). Nothing is assumed of clients, of children, of
aborts, faults, late effects or restarts. As one part moves, fairness is stated
of the i-th process of that part.

## Where code and documents differ

Four disagreements are runs of their own:

* `claim_writer`: `docs/agent-runtime/47_ROLE_MANAGER_ARCHITECTURE.md:53` says at
  most one source-mutating maker per worktree. Leases are exclusive, but a run
  outlives its lease.
* `claim_hold`: the comment on `local_hold_overrides` (`lib.rs:155`) says an
  override is cleared only by a later successful decision. A restart clears it
  as well.
* `claim_rejected`: `docs/TELEGRAM_CONTROL_PLANE.md:178` says an ambiguous result
  is `unknown`. A send whose status arrived and whose body did not is `rejected`
  although the message may be posted.
* `claim_wins`: `worker.js:74` says last write wins. The check and the upsert are
  two statements, and of two syncs at once the older revision may be last.

The models show more of them; each statement is a definition that TLC refutes
when it is checked in place of the run's own properties:

| Statement | Definition | Why it fails |
|---|---|---|
| no receipt after finalization, `47_ROLE_MANAGER_ARCHITECTURE.md:131` | `MCRuntimeClaims!ReceiptChainFrozen` | a RECEIPTED task may move to FAILED, which takes receipts |
| every write requires a lease, `PRODUCTION.md:216` | `MCRuntimeClaims!ExecutingRunWasLeased` | AUTH_REQUIRED and GUARDED lead from DRAFT to EXECUTING |
| state is retained while a group survives, `TELEGRAM_CONTROL_PLANE.md:113` | `TelegramStack!StateRetained` | `start` judges staleness from leaders alone |
| only tracked groups were signalled, `stack-manager.mjs:1027` | `TelegramStack!SignalsOnlyTracked` | the pid may be recycled between inspection and signal |
| an accepted inbox request opens an approval, `SIRINX_AGENT_MESH_ARCHITECTURE_20260719.md:273` | `ApprovalDesk!AcceptedOpensRequest` | an id already queued is reused without its switches |
| a handoff round-trips, `thaimart-seller-handoff.test.mjs:101` | `SellerGuard!HandoffAccepted` | the control API's gate refuses what the stub lets past |
| most specialized wins, `sirinx-a2a/src/lib.rs:68` | `OmniRoute!MostSpecializedWins`, `Repeats = TRUE` | the surplus wraps for a request with repetitions |
| lanes resolve to agents, `a2a-live-sync.mjs:177` | `A2aMesh!LanesResolve` | `OMNIROUTE_LANES` is not exported |
| all target lanes are synced, `a2a-omniroute.mjs:1078` | `A2aMesh!LiveSyncRegisters` | `every` over no lanes is true |
| evidence is fresh and bound, `resource-cleanup-admission-static-20260720.md:68` | `CleanupAdmission!AdmittedWithFreshSnapshot` | the snapshot inside need only be younger than the grant |
| a lead is queued when the database is unavailable, `localLeadQueue.ts:61` | `LeadSite!UnavailableIsQueued` | only a missing `DATABASE_URL` leads to the queue |
| every lead has an audit row, `routers.ts:57` | `LeadSite!EveryLeadAudited` | two inserts without a transaction |
| the date is of the first publication, `routers.ts:247` | `SiteAdmin!DateIsOfFirstPublication` | read, await, write |
| a verdict of CANCELED, `resource-cleanup-admission.mjs:662`, is of an attempt that did not run | `CleanupAdmission!CanceledReceiptMeansUntouched` | the receipt's verdict is not compared with the attempt |
| the index is kept in step, `worker.js:105` | `BrainSync!SearchInStep`, 1 note, `MaxAtWork = 2`, or `MaxFaults = 1` | row, deletion and insertion are three statements: two syncs of a note may both delete before either inserts, and a sync that breaks off after the row leaves the index behind, where its retry is skipped by the check |
| the active tab and URL have not changed, `apps/thaimart-seller-guard/README.md:11` | `SellerGuard!PostedPageOnScreen` | addresses are compared at the two ends only; the snapshot carries its route and may be of another query of the same path |
| every run leaves a record, `loop_runner.rs:67` | `AutoLoop!EveryRunLeavesRecord` | an error drops the records of the steps before it |

Not covered by a property: between the gate's answer and the provider call of a
Telegram send (`sender.mjs:134`) the gate may close. The two calls stand one after
the other, and `GateReadLast` shows that nothing else comes between them.

## Proofs

All for arbitrary constants under the named assumptions of the modules, which
say only that requests are well formed, that bounds are numbers and that `None`
is not a value in use. Each inductive invariant was checked by TLC on a run
before it was proved. The last step of every theorem combines "holds at first",
"kept by every step" and "implies the property".

Runtime store, types and leases (`AgentRuntimeStoreProofs`).

* `TypeCorrect`: `Spec => []TypeOK`, one lemma per action. The binding of a run
  to a receipt and the predecessor of a receipt need that receipts are a
  sequence of well-formed rows.
* `ExclusiveOwnership`: `Spec => []ActiveLeasesDisjoint`. With the types it is
  inductive. The core of the argument is `acquire_lease`: a lease that is ACTIVE
  after `ExpireLeases(now)` is active at `now`, so the conflict check, which
  looks at leases active at `now`, has seen it; `ConflictSymmetric` makes the
  order of the two leases irrelevant. Heartbeats and releases never make a lease
  ACTIVE.
* `LeaseFencing`: `Spec => LeaseNeverRevived`, from the types.

Runtime store, evidence (the same module). `TaskStep`, `RunStep`,
`LeaseStep` and `ReceiptStep` say what any step of the store may do to the rows
of one kind; the rest argues from them.

* `StartedWork`: `StartedWorkWasLeased` with `GrantMatches` (a lease names an
  existing run, role and principal). `StartedFrom` is the shape of the lifecycle
  it needs: only LEASED leads to RUNNING, and to LEASED a transition goes only
  past the check of an active lease.
* `ChainsLinear`: `ReceiptChainLinear` from `ChainInv`: no two receipts share an
  identifier or a run, each names the latest receipt of its task before it, and
  every task with receipts has a latest one at every length of the log. That two
  receipts of a task never have the same predecessor follows from
  `PreviousIsLatest`: the predecessor of the later one is the earlier one or a
  receipt behind it.
* `FinalWork`: `FinalWorkVerified`. A receipt describes its run as the run is
  (`ReceiptMatchesRun`); what was checked independently stays so, because
  receipts and the grants of leases are only added (`CheckedStays`).
* `LedgerExplains`: `LedgerReplays` from `LedgerInv`: entries are filed under
  rows that exist, those of a row replay to it, and the number kept for a task
  is the greatest of its entries. `ReplayAdvances` is the step: an entry for an
  accepted transition keeps a row explained.

Postgres leases (`DataProofs`).

* `ExactOwnershipHolds`: `ExactOwnership` is not inductive: between the check and
  the commit of an acquisition others take statements. `IInv` says who holds
  which lock (`AdvisoryHeld`, `RowsHeld`, `TasksHeld`), that marked rows are
  still active and overdue at commit (`Marked`: their locks keep heartbeats
  away), and that before its commit an acquisition has marked every active lease
  in its way (`Cleared`: nobody else inserts while it has the advisory lock).
* `LocksSoundHolds`: `LocksSound`. For the absence of circular waits, `Rank`
  orders transactions by the locks they have taken, and `WaitsForFurther` shows
  that whoever waits, waits for a transaction of a higher rank. This covers
  circles of any length; the run has three leases.
* `OnlyOverdueExpireHolds`: the action property `OnlyOverdueExpire`, a conjunct
  of `RowsChangeAsAllowed`, from `Marked`.

Databases (`DataProofs`), for any leads, agents, visitors, people, notes and
requests; `None` and `Gone` are not values in use, and the nodes are finitely
many.

* `PartsBehave`: `DataSpec` implies the specification of each part, so what is
  proved of a part is proved of the composition. The four theorems below are the
  component's theorems carried over.
* `LeadsAreKept`: `LeadsKept`. Lead API (`ServiceInv`): the transaction that
  holds a row has seen a status it may leave (`LockHeld`), and a lead is at least
  as far as any agent was told (`Reached`, by `Progress`), so of two agents that
  ask for one status the second finds it taken. Website (`SiteInv`): what a call
  has inserted by its step (`Served`), what the page that thanks was told
  (`Thanked`), and that a server has rows or a queue, never both (`OnePlace`).
* `RightsAreGranted`: `RightsGranted`. `Entitled` says what a request between its
  awaits may rely on: the role it read was its sender's during the request, and
  who found the article dated finds it dated or gone. `Witnessed` carries it over
  the steps of other requests.
* `SearchKeepsUp`: `SearchMended`, for any number of requests at work and of those
  that break off. `Tidy` adds to it what holds while a path is being indexed: only
  one request is at it and the path is not torn, its row is that request's
  revision, and behind the deletion no entry is left.
* `RowsChange`: `RowsChangeAsAllowed`: the expiry of leases, the lead's lifecycle,
  the administrators' article and the age of notes. For the last, `Fresh` says
  that a request before its upsert carries a revision newer than the row its check
  read.

Gates (`ControlGatesProofs`).

* `GateTypeCorrect`: `Spec => []TypeOK` of `ControlGates`.
* `Authorization`: `Spec => []AuthorizedByStore`. The invariant is strengthened
  by `SeenOpen` (an unfinished request is in `everOpen` once the Store shows its
  gate open) and `AnsweredOpen` (the rows a reader holds show the gate open only
  then).
* `HoldWins`: `Spec => HoldWinsUntilRestart`, and `CacheAgrees`: `Spec =>
  []CacheRespectsHold`, both until the first restart. The strengthening is
  `HoldInv`: mutual exclusion (`Guarded`), an action past its check is not
  overridden (`ActionNotOverridden`), the overrides are exactly the undecided
  holds, and the cache shows them. `StillUp` says that a step into a state
  without a restart came from one.

Autonomous loop (`AutoLoopProofs`), for any tools, goals, budgets, numbers of
runs and faults.

* `AccountsHold`: `LoopAccounts`. At every stage each paid attempt is either told
  in the history or filed as a failure, and never both (`Accounted`); from this
  the budget and the outcome's report follow when a run ends. What took effect
  at the step being tried again is safe to repeat (`EffectsPlanned`), which is
  why a retry cannot do it twice unless it may.
* `LessonsHold`: `LessonsTrue`: a lesson's count is the cardinality of the
  failures of its tool and kind that were learned. Two runs learn in any order;
  the step `LearnStep` adds one member to one of these sets.

Stack manager (`TelegramStackProofs`), for any list of services, pids and
invocations. `IInv` relates each stage of an invocation to what it tracks
(`Placed`), to the fingerprints' age (`Dated`), to `state.json` (`Recorded`), to
what it has swept (`Swept`) and inspected (`Seen`, `Surveyed`), with the lock
(`Held`).

* `OneManagerHolds`: `OneManager`, from `Held`: a killed manager's lock is taken
  over, a living one's never.
* `StruckHolds`: `StruckWasTracked`, from `Seen`: between inspection and signal a
  pid is the tracked one, free, or begun later.
* `RemovalHolds`: the action property `RemovedOnlyWhenGone`, from `Swept`:
  fingerprints are never reused, so an entry found gone stays gone although the
  others are inspected after it.
* `ReportsHold`: `StateTellsTruth`. Its conjunct `NoOrphan` is inductive beside
  `IInv`: each child is in the file or in the memory of the `start` that spawned
  it (`Accounted`), and the steps that drop either are those after which the
  other holds, provided `ps` answers. A status of RUNNING was true of the instant
  between its two rounds: one that was down then is found down in the second.

Telegram sends (`TelegramDeliveryProofs`), for any requests, keys, texts, limits
of the caches, restarts and both processes at once.

* `Invariant`: `IInv` is stated per request: what a request at each stage asks
  (`Asks`), that an execution at work is in the cache with its own key and body
  and has made no call or one (`AtWork`), that a waiter and its answer have the
  same question as the execution they refer to (`Waits`, `Answers`), and what
  the effects at the provider presuppose (`Acted`, `Confirmations`, `Looked`);
  `Belongs` ties every entry to its execution. `KeptEntries`, `InsertedEntry` and
  `SettledEntries` say what pruning, insertion and settlement do to a cache.
* `ReceiptsHold` and `GateHolds`: `ReceiptsTrue`, `GateReadLast`.
* `CacheRefines`: `Spec => Bot!Spec /\ Planner!Spec`, the refinement, step by
  step: an execution implements `Begin`, with whatever expired or was evicted
  among its `Forgettable` keys; a call of the provider implements `Call`; a
  receipt `Settle`; a failed validation `Throw`; a restart `Restart`; a replay or
  a refusal `Drop`; everything else, and every step of the other process,
  stutters. Forgetting is allowed of settled runs only, which is where `Belongs`
  is needed.

Control API (`ControlApiProofs`), for any callers, action ids, limits, restarts,
output, tabs, pages and settings of a desk.

* `PartsBehave` and `DesksBehave`: `ApiSpec` implies the specification of each
  part, and of the desk in the setting chosen at the start.
* `RecordsHold` and `ApprovalsHold`: `RecordsTruthful`, `NothingUnapproved`.
  Every call ends in an answer, and `DeskInv` is kept by what an answer does to
  the queue (`Queued`) and to the trail (`Trailed`); `Answered` joins the two,
  and each route is shown to give such an answer. The two properties need each
  other: that the audit never says "approved" of a blocked action
  (`SwitchedIsUnapproved`) follows from `RequestsWereAnswered`, since a request
  that the process did not start with is pending or blocked, and none of those it
  starts with approves a switched action. `TrailIsNewest` is an argument by
  counting: `RingShifts` for the ring, `ToldAfter` for the answers audited so far.
* `SnapshotsStay`: the action property `SnapshotImmutable`: a writer creates a
  file only if there is none.
* `ProbesHold`: `ProbeTruthful`. `Decided` says that there is no verdict while the
  probe listens and that from then on it is the first one; `Finalized` and
  `Resolved` show what the two ends of a probe do to it, `Unmoved` what every
  other event leaves alone.
* `PostsHold`: `PostedRouteOnScreen`, for any function from addresses to routes.
  `Captured` is what a press between its awaits relies on: its snapshot is of the
  tab it was pressed in, and its route that of the page it is of. The recheck
  compares the route with the screen's and the time with the clock in the step
  that posts.
* `WorkflowTypes`, `ReadyIsReviewed`, `ApprovalsNeedReviews`. The inductive
  invariant is the types with, for each copy, `Stage` (what a state of the
  workflow implies of its reviews and approval) and `Current` (a review or
  approval that counts was given on the copy's own source and context). No action
  relates two copies, so each is proved of one workflow: what the engine answers
  and what a client edits preserve it.

Agent services (`AgentServicesProofs`), for any agents, cards, roster, documents
and settings. `AgentsInv` joins the invariants of the parts; `AgentsKept` shows
that a step of one part leaves those of the others alone.

* `LoopsKeepAccounts`: `LoopAccounts` and `LessonsTrue` in the composition, for
  any loads: a step of a load is a step of `AutoLoop` (`LoopMoves`).
* `RegistrationsHold`: `RegistrationsTrue` from `MeshInv`. A request past the door
  has registered its card (`CardsKept`), and each call a handshake waits for is
  one request (`OneCallEach`), so the result that arrives is of the call that was
  made; without a token no request passes the door (`Unlisted`). An answer may
  arrive after its call timed out, and a restart empties the table: the report
  speaks of the process it was made under.
* `RoutesHold`: `RoutesBest`. `BestExists`: the order by surplus, priority and id
  has a best card among those that offer all, because the surplus is of a fixed
  width, priorities have a largest and ids a smallest. `SurplusCounts`: without
  repetitions the subtraction does not wrap, so the computed surplus is the
  number of capabilities beyond the required.
* `DeliveriesHold`: `EventsDelivered` from `BusInv`, which is stated of handled
  and of waiting deliveries together: none is made twice (`Once`), what an event
  passed through was handled before (`Descended`), what a handled one published
  was handled or waits (`Followed`), and what waits follows from the latest
  handled ones (`Nested`). The step pops the top of the stack and pushes what
  follows from it (`ProcessStep`). When the stack is empty, `Followed` says that
  everything published was delivered.
* `CleanupsApproved` and `CleanupsTell`: `CleanupAsApproved`, `CleanupTells` from
  `CleanupInv`. A document is of the past, and what it describes stands or has
  changed since (`Chronicled`); what was cleared, admitted and received refers to
  one grant (`Bound`); an attempt cleans once, not before it is requested, and
  within the slice not at all (`Attempted`). `Measured` carries the PASS: the
  target and what was removed from it since the evidence make up at least what it
  held then, so a target that is smaller at the read-back lost the difference,
  however builds refilled it, and the gain the receipt claims is no more.

Every invariant and action property that a run checks is stated by a theorem,
but for the runs that expect a violation. What only TLC checks:

* the liveness properties of `liveness` (fairness and ENABLED are out of the
  prover's reach), and with them that `MCLiveness` says of a part what the part's
  own specification says, which rests on its construction (one part moves, and
  only it);
* the four claims of the documents, of which TLC finds counterexamples.

Next to prove: that `PostgresLeases` implements the leases of
`AgentRuntimeStore`, step by step, with a transaction's commit as the step that
counts; that a cached gate of `ControlGates` agrees with the Store between
writes; that the probe and the press refine what their callers are promised.

## Not modelled

Rust code is about a third of what is modelled and, by lines, a small part of
the repository. Of some 130 thousand lines of JavaScript and TypeScript about 54
thousand are generated data (`docs/seo/province-image-render/scene.bundle.js`,
`provinceLongformGenerated.ts`), and most of the rest renders pages, validates a
static document or answers from constants. A model of those would restate them,
so the map covers a small share of the lines. In particular:

* effect authority, connection admission, effect-authority migration semantics,
  resource-cleanup review requests, recovery bootstrap reviews, packet writers:
  each checks the fields of one document and always answers that nothing is
  authorized;
* agent driver, gateway agent, codex autoloop, adaptive command gateway: one
  classification of a text or one child process whose answer is parsed; nothing
  is kept;
* operator preflight, SOC status, local RAG, `brain.mjs`, dashboards' readers:
  they read and print;
* `dev-router`, `main-router`: one forwarded request, no state;
* public website pages, i18n, price tables, the calculators and the ROI
  arithmetic: rendering and formulas of one form, in floating point;
* `app.js` of the dev dashboard: redraws what the control API answers;
* `validate-*.mjs` and the other scripts: assertions over files of the
  repository;
* of the modelled components: bearer and header checks (answered without a state
  change), delays before a retry, texts, digests and wording, the Postgres
  operations that lock the task row first, analytics rows and project rows that
  one statement inserts or changes.
