------------------------- MODULE AgentRuntimeStore --------------------------
(***************************************************************************)
(* The durable agent-runtime store, as its deterministic in-memory         *)
(* implementation executes it: tasks, the runs that attempt them, the      *)
(* path/resource leases runs hold, the append-only receipt chain and the   *)
(* append-only event ledger.                                               *)
(*                                                                         *)
(* Source: crates/sirinx-store/src/agent_runtime.rs (impl                  *)
(* AgentRuntimeStore for MemoryStore and its helpers) over the domain      *)
(* types of crates/sirinx-core/src/agent_runtime.rs.                       *)
(*                                                                         *)
(* Every operation runs under one write lock, so every operation is one    *)
(* action.  Callers are many and uncoordinated: each supplies its own      *)
(* clock reading and the version it believes current, so an action takes   *)
(* both from its inputs and nothing relates the times two callers pass.    *)
(* A call the code rejects without a state change is a stuttering step; a  *)
(* rejection that does change state is an action (AcquireRejected).        *)
(*                                                                         *)
(* Data abstraction.  A repository and worktree pair is one value, tree; a *)
(* receipt's commit, plan, scope and action digests are one value,         *)
(* subject; the SHA-256 of a receipt is the receipt's unique identifier;   *)
(* the texts of envelopes, blockers and actors are left out, and requests  *)
(* that fail their syntactic validation are not enumerated.                *)
(***************************************************************************)
EXTENDS RuntimeLifecycle

CONSTANTS
  TaskRequests,    \* create_task inputs
  RunRequests,     \* create_run inputs
  LeaseRequests,   \* acquire_lease inputs
  ReceiptDrafts,   \* append_receipt inputs
  TaskTargets,     \* the next states callers ask for, of a task
  RunTargets,      \* and of a run: RuntimeState, or a bound of the instance
  Times,           \* the clock readings callers supply
  MaxVersion,      \* u64::MAX, for task and run rows: checked_add fails here
  MaxLeaseVersion, \* u64::MAX, for lease rows
  None             \* Option::None

VARIABLES
  tasks,             \* task_id -> task row
  taskIdempotency,   \* idempotency_key -> task_id
  runs,              \* run_id -> run row
  leases,            \* lease_id -> lease row
  receipts,          \* every receipt, in append order
  events,            \* every accepted transition, in append order
  eventSequences     \* task_id -> last event sequence number

vars == <<tasks, taskIdempotency, runs, leases, receipts, events,
          eventSequences>>

ASSUME TimesAssumption == Times \subseteq Nat
ASSUME MaxVersionAssumption ==
  MaxVersion \in Nat \ {0} /\ MaxLeaseVersion \in Nat \ {0}
ASSUME TargetsAssumption ==
  TaskTargets \subseteq RuntimeState /\ RunTargets \subseteq RuntimeState
ASSUME TaskRequestsAssumption ==
  \A q \in TaskRequests : q.created_at \in Nat /\ q.task_id # None
ASSUME RunRequestsAssumption ==
  \A q \in RunRequests :
    /\ q.created_at \in Nat /\ q.run_id # None
    /\ q.role_id \in RoleIds /\ q.action_class \in ActionClass
ASSUME LeaseRequestsAssumption ==
  \A q \in LeaseRequests :
    /\ q.role_id \in RoleIds /\ q.source_write \in BOOLEAN
    /\ q.issued_at \in Nat /\ q.heartbeat_due_at \in Nat /\ q.expires_at \in Nat
ASSUME ReceiptDraftsAssumption ==
  \A d \in ReceiptDrafts :
    d.role_id \in RoleIds /\ d.result \in ReceiptResult /\ d.receipt_id # None

(* A BTreeMap insert.                                                      *)
Put(map, key, value) ==
  [k \in DOMAIN map \cup {key} |-> IF k = key THEN value ELSE map[k]]

-----------------------------------------------------------------------------
(* State transitions of tasks and runs.                                    *)

Transitions(targets) ==
  [expected_version : 1..MaxVersion, next_state : targets, at : Times]

(* What apply_state_transition checks of a task or run row.                *)
TransitionAllowed(row, q) ==
  /\ q.expected_version = row.version
  /\ q.at >= row.updated_at
  /\ CanTransition(row.state, q.next_state)
  /\ row.version < MaxVersion

NewEvent(t, r, row, q, sequence) ==
  [task_id |-> t, run_id |-> r, event_sequence |-> sequence,
   from_state |-> row.state, to_state |-> q.next_state,
   entity_version |-> row.version + 1, occurred_at |-> q.at]

(* Mutant: every task and run numbers its own events.                      *)
RecordEventPerEntity(t, r, row, q) ==
  /\ events' = Append(events, NewEvent(t, r, row, q, row.version))
  /\ UNCHANGED eventSequences

(* record_memory_event: the next sequence number of the task.              *)
RecordEvent(t, r, row, q) ==
  LET sequence == (IF t \in DOMAIN eventSequences
                   THEN eventSequences[t] ELSE 0) + 1
  IN  /\ eventSequences' = Put(eventSequences, t, sequence)
      /\ events' = Append(events, NewEvent(t, r, row, q, sequence))

-----------------------------------------------------------------------------
(* Leases.                                                                 *)

(* validate_persisted and validate_for_acquire of a requested lease.       *)
ValidLease(q) ==
  /\ q.source_write => q.role_id \in MakerRoles
  /\ q.paths # {}
  /\ q.heartbeat_due_at > q.issued_at
  /\ q.expires_at >= q.heartbeat_due_at

NewLease(q) ==
  [grant |-> q, state |-> "ACTIVE", version |-> 1,
   heartbeat_due_at |-> q.heartbeat_due_at, expires_at |-> q.expires_at]

IsActiveAt(lease, now) ==
  /\ lease.state = "ACTIVE"
  /\ now <= lease.heartbeat_due_at
  /\ now <= lease.expires_at

(* conflicts_with: path overlap in one tree, a shared resource, two        *)
(* writers of one tree, or one run twice.                                  *)
ConflictsWith(g, h) ==
  \/ g.tree = h.tree /\ \E p \in g.paths, q \in h.paths : PathsOverlap(p, q)
  \/ g.resources \cap h.resources # {}
  \/ g.source_write /\ h.source_write /\ g.tree = h.tree
  \/ g.run_id = h.run_id

(* Mutant: the version of a lease may pass its width.                      *)
RequireMutableUnchecked(lease, version, now) ==
  /\ lease.version = version
  /\ lease.state = "ACTIVE"
  /\ now >= lease.grant.issued_at
  /\ now <= lease.heartbeat_due_at
  /\ now <= lease.expires_at

(* Mutant: version and times fence, the lease's state does not.            *)
RequireMutableAnyState(lease, version, now) ==
  /\ lease.version = version
  /\ now >= lease.grant.issued_at
  /\ now <= lease.heartbeat_due_at
  /\ now <= lease.expires_at
  /\ lease.version < MaxLeaseVersion

(* require_mutable: the caller's version and clock against a lease.        *)
RequireMutable(lease, version, now) ==
  /\ lease.version = version
  /\ lease.state = "ACTIVE"
  /\ now >= lease.grant.issued_at
  /\ now <= lease.heartbeat_due_at
  /\ now <= lease.expires_at
  /\ lease.version < MaxLeaseVersion

Heartbeat(lease, due, expires) ==
  [lease EXCEPT !.heartbeat_due_at = due, !.expires_at = expires,
                !.version = @ + 1]

Release(lease) == [lease EXCEPT !.state = "RELEASED", !.version = @ + 1]

Expirable(now) ==
  {l \in DOMAIN leases :
     leases[l].state = "ACTIVE" /\ ~IsActiveAt(leases[l], now)}

(* Mutant: an overdue lease no longer conflicts but stays ACTIVE.          *)
ExpireNothing(now) == leases

(* expire_memory_leases: every overdue ACTIVE lease of the store expires.  *)
ExpireLeases(now) ==
  [l \in DOMAIN leases |->
     IF l \in Expirable(now)
     THEN [leases[l] EXCEPT !.state = "EXPIRED", !.version = @ + 1]
     ELSE leases[l]]

-----------------------------------------------------------------------------
(* Receipts.                                                               *)

(* The position of task t's latest receipt among the first n, if any.      *)
LatestReceipts(t, n) ==
  {i \in 1..n : /\ receipts[i].draft.task_id = t
                /\ \A j \in (i + 1)..n : receipts[j].draft.task_id # t}

PreviousReceipt(t, n) ==
  IF LatestReceipts(t, n) = {}
  THEN None
  ELSE receipts[CHOOSE i \in LatestReceipts(t, n) : TRUE].draft.receipt_id

(* verify_task_receipt_chain: each receipt of the task names the one       *)
(* before it.                                                              *)
ChainVerified(t) ==
  \A i \in DOMAIN receipts :
    receipts[i].draft.task_id = t
      => receipts[i].previous = PreviousReceipt(t, i - 1)

(* Mutant: another run suffices, the principal may be the maker's own.     *)
VouchesAnyPrincipal(checker, d) ==
  /\ checker.receipt_id = d.verification_receipt_id
  /\ checker.result = "PASS"
  /\ checker.role_id = CheckerRole
  /\ checker.task_id = d.task_id
  /\ checker.run_id # d.run_id
  /\ checker.subject = d.subject

(* The checks of require_independent_pass on the receipt a maker cites.    *)
Vouches(checker, d) ==
  /\ checker.receipt_id = d.verification_receipt_id
  /\ checker.result = "PASS"
  /\ checker.role_id = CheckerRole
  /\ checker.task_id = d.task_id
  /\ checker.run_id # d.run_id
  /\ checker.principal_id # d.principal_id
  /\ checker.subject = d.subject

(* The receipts among the first n that vouch for the maker draft d.        *)
Vouchers(d, n) == {i \in 1..n : Vouches(receipts[i].draft, d)}

(* A PASS comes from the checker itself, or from a maker an earlier        *)
(* independent checker PASS vouches for.                                   *)
IndependentPass(d, n) ==
  d.result = "PASS"
    => \/ d.role_id = CheckerRole /\ d.verification_receipt_id = None
       \/ d.role_id \in MakerRoles /\ Vouchers(d, n) # {}

(* The lease rows, of any state, issued to the run a receipt is about.     *)
LeasesOf(d) ==
  {l \in DOMAIN leases :
     /\ leases[l].grant.task_id = d.task_id
     /\ leases[l].grant.run_id = d.run_id
     /\ leases[l].grant.role_id = d.role_id
     /\ leases[l].grant.principal_id = d.principal_id}

PassLeaseEvidence(d, n) ==
  d.result = "PASS"
    => \E maker \in LeasesOf(d) :
         \A i \in Vouchers(d, n) :
           \E checker \in LeasesOf(receipts[i].draft) : checker # maker

VerifiedTaskPass(t) ==
  /\ ChainVerified(t)
  /\ \E i \in LatestReceipts(t, Len(receipts)) :
       /\ receipts[i].draft.result = "PASS"
       /\ receipts[i].draft.role_id # CheckerRole
       /\ IndependentPass(receipts[i].draft, i - 1)
       /\ PassLeaseEvidence(receipts[i].draft, i - 1)

(* The receipts require_verified_run_pass accepts for run r.               *)
VerifiedRunPasses(r) ==
  {i \in DOMAIN receipts :
     /\ ChainVerified(runs[r].identity.task_id)
     /\ receipts[i].draft.task_id = runs[r].identity.task_id
     /\ receipts[i].draft.run_id = r
     /\ receipts[i].draft.result = "PASS"
     /\ IndependentPass(receipts[i].draft, i - 1)
     /\ PassLeaseEvidence(receipts[i].draft, i - 1)}

VerifiedRunReceiptIds(r) ==
  {receipts[i].draft.receipt_id : i \in VerifiedRunPasses(r)}

-----------------------------------------------------------------------------
Init ==
  /\ tasks = << >> /\ taskIdempotency = << >>
  /\ runs = << >> /\ leases = << >>
  /\ receipts = << >> /\ events = << >> /\ eventSequences = << >>

CreateTask(q) ==
  /\ q.task_id \notin DOMAIN tasks
  /\ q.idempotency_key \notin DOMAIN taskIdempotency
  /\ taskIdempotency' = Put(taskIdempotency, q.idempotency_key, q.task_id)
  /\ tasks' = Put(tasks, q.task_id,
       [state |-> "DRAFT", version |-> 1, updated_at |-> q.created_at])
  /\ UNCHANGED <<runs, leases, receipts, events, eventSequences>>

(* A lease of the task is active at the time of the transition.            *)
TaskLeased(t, at) ==
  \E l \in DOMAIN leases :
    leases[l].grant.task_id = t /\ IsActiveAt(leases[l], at)

TransitionTask(t, q) ==
  /\ t \in DOMAIN tasks
  /\ q.next_state = "LEASED" => TaskLeased(t, q.at)
  /\ q.next_state \in Finalized => VerifiedTaskPass(t)
  /\ TransitionAllowed(tasks[t], q)
  /\ tasks' = [tasks EXCEPT ![t] =
       [state |-> q.next_state, version |-> @.version + 1, updated_at |-> q.at]]
  /\ RecordEvent(t, None, tasks[t], q)
  /\ UNCHANGED <<taskIdempotency, runs, leases, receipts>>

CreateRun(q) ==
  /\ q.task_id \in DOMAIN tasks
  /\ q.run_id \notin DOMAIN runs
  /\ runs' = Put(runs, q.run_id,
       [identity |-> q, state |-> "DRAFT", version |-> 1,
        result_receipt_id |-> None, updated_at |-> q.created_at])
  /\ UNCHANGED <<tasks, taskIdempotency, leases, receipts, events,
                 eventSequences>>

(* Mutant: a lease of another run of the same task is taken for its own.   *)
RunTaskLeased(r, at) ==
  \E l \in DOMAIN leases :
    /\ leases[l].grant.task_id = runs[r].identity.task_id
    /\ IsActiveAt(leases[l], at)

(* A lease of the run itself is active at the time of the transition.      *)
RunLeased(r, at) ==
  \E l \in DOMAIN leases :
    leases[l].grant.run_id = r /\ IsActiveAt(leases[l], at)

(* The receipt a run may be bound to once it is in state next; none when   *)
(* the evidence for that state is missing.                                 *)
ReceiptBindings(r, next, at) ==
  CASE next = "LEASED" ->
         IF RunLeased(r, at) THEN {runs[r].result_receipt_id} ELSE {}
    [] next = "RECEIPTED" -> VerifiedRunReceiptIds(r)
    [] next = "SUCCEEDED" ->
         {runs[r].result_receipt_id} \cap VerifiedRunReceiptIds(r)
    [] OTHER -> {runs[r].result_receipt_id}

TransitionRun(r, q) ==
  /\ r \in DOMAIN runs
  /\ TransitionAllowed(runs[r], q)
  /\ \E id \in ReceiptBindings(r, q.next_state, q.at) :
       /\ q.next_state \in Finalized <=> id # None
       /\ runs' = [runs EXCEPT ![r] =
            [identity |-> @.identity, state |-> q.next_state,
             version |-> @.version + 1, result_receipt_id |-> id,
             updated_at |-> q.at]]
  /\ RecordEvent(runs[r].identity.task_id, r, runs[r], q)
  /\ UNCHANGED <<tasks, taskIdempotency, leases, receipts>>

(* What acquire_lease checks of the request before it takes the lock, and  *)
(* that no lease it must expire has run out of versions.                   *)
AcquireStarts(q, now) ==
  /\ ValidLease(q)
  /\ now >= q.issued_at
  /\ IsActiveAt(NewLease(q), now)
  /\ \A l \in Expirable(now) : leases[l].version < MaxLeaseVersion

(* What acquire_lease checks against the store, after expiring leases.     *)
LeaseAdmissible(q, now) ==
  /\ q.run_id \in DOMAIN runs
  /\ runs[q.run_id].state = "QUEUED"
  /\ runs[q.run_id].identity.task_id = q.task_id
  /\ runs[q.run_id].identity.role_id = q.role_id
  /\ runs[q.run_id].identity.principal_id = q.principal_id
  /\ q.source_write
       => runs[q.run_id].identity.action_class \in SourceWriteClasses
  /\ q.lease_id \notin DOMAIN leases
  /\ \A l \in DOMAIN leases : leases[l].grant.nonce # q.nonce
  /\ \A l \in DOMAIN leases :
       IsActiveAt(leases[l], now) => ~ConflictsWith(leases[l].grant, q)

AcquireLease(q, now) ==
  /\ AcquireStarts(q, now)
  /\ LeaseAdmissible(q, now)
  /\ leases' = Put(ExpireLeases(now), q.lease_id, NewLease(q))
  /\ UNCHANGED <<tasks, taskIdempotency, runs, receipts, events,
                 eventSequences>>

(* A rejected acquisition keeps the expiries it made.                      *)
AcquireRejected(q, now) ==
  /\ AcquireStarts(q, now)
  /\ ~LeaseAdmissible(q, now)
  /\ leases' = ExpireLeases(now)
  /\ UNCHANGED <<tasks, taskIdempotency, runs, receipts, events,
                 eventSequences>>

HeartbeatLease(l, version, now, due, expires) ==
  /\ l \in DOMAIN leases
  /\ RequireMutable(leases[l], version, now)
  /\ due > now
  /\ expires >= due
  /\ expires >= leases[l].expires_at
  /\ leases' = [leases EXCEPT ![l] = Heartbeat(@, due, expires)]
  /\ UNCHANGED <<tasks, taskIdempotency, runs, receipts, events,
                 eventSequences>>

ReleaseLease(l, version, now) ==
  /\ l \in DOMAIN leases
  /\ RequireMutable(leases[l], version, now)
  /\ leases' = [leases EXCEPT ![l] = Release(@)]
  /\ UNCHANGED <<tasks, taskIdempotency, runs, receipts, events,
                 eventSequences>>

TakesReceipts(t) == tasks[t].state \notin Finalized

(* Mutant: a run may be receipted again under another identifier.          *)
ReceiptIdIsNew(d) ==
  \A i \in DOMAIN receipts : receipts[i].draft.receipt_id # d.receipt_id

(* Neither the identifier nor the run has a receipt yet.                   *)
ReceiptIsNew(d) ==
  \A i \in DOMAIN receipts :
    /\ receipts[i].draft.receipt_id # d.receipt_id
    /\ receipts[i].draft.run_id # d.run_id

AppendReceipt(d) ==
  /\ d.task_id \in DOMAIN tasks
  /\ TakesReceipts(d.task_id)
  /\ d.run_id \in DOMAIN runs
  /\ runs[d.run_id].identity.task_id = d.task_id
  /\ runs[d.run_id].identity.role_id = d.role_id
  /\ runs[d.run_id].identity.principal_id = d.principal_id
  /\ ReceiptResultAllowed(runs[d.run_id].state, d.result)
  /\ ReceiptIsNew(d)
  /\ ChainVerified(d.task_id)
  /\ IndependentPass(d, Len(receipts))
  /\ PassLeaseEvidence(d, Len(receipts))
  /\ receipts' = Append(receipts,
       [draft |-> d, previous |-> PreviousReceipt(d.task_id, Len(receipts))])
  /\ UNCHANGED <<tasks, taskIdempotency, runs, leases, events, eventSequences>>

Next ==
  \/ \E q \in TaskRequests : CreateTask(q)
  \/ \E t \in DOMAIN tasks, q \in Transitions(TaskTargets) :
       TransitionTask(t, q)
  \/ \E q \in RunRequests : CreateRun(q)
  \/ \E r \in DOMAIN runs, q \in Transitions(RunTargets) :
       TransitionRun(r, q)
  \/ \E q \in LeaseRequests, now \in Times : AcquireLease(q, now)
  \/ \E q \in LeaseRequests, now \in Times : AcquireRejected(q, now)
  \/ \E l \in DOMAIN leases, v \in 1..MaxLeaseVersion, now, due, expires \in Times :
       HeartbeatLease(l, v, now, due, expires)
  \/ \E l \in DOMAIN leases, v \in 1..MaxLeaseVersion, now \in Times :
       ReleaseLease(l, v, now)
  \/ \E d \in ReceiptDrafts : AppendReceipt(d)

Spec == Init /\ [][Next]_vars

-----------------------------------------------------------------------------
(* The rows the maps hold.                                                 *)
TaskRow == [state : RuntimeState, version : 1..MaxVersion, updated_at : Nat]

RunRow ==
  [identity : RunRequests, state : RuntimeState, version : 1..MaxVersion,
   result_receipt_id : {d.receipt_id : d \in ReceiptDrafts} \cup {None},
   updated_at : Nat]

LeaseRow ==
  [grant : LeaseRequests, state : LeaseState, version : 1..MaxLeaseVersion,
   heartbeat_due_at : Nat, expires_at : Nat]

ReceiptRow ==
  [draft : ReceiptDrafts,
   previous : {d.receipt_id : d \in ReceiptDrafts} \cup {None}]

EventRow ==
  [task_id : {q.task_id : q \in TaskRequests},
   run_id : {q.run_id : q \in RunRequests} \cup {None},
   event_sequence : Nat \ {0}, from_state : RuntimeState,
   to_state : RuntimeState, entity_version : 1..MaxVersion, occurred_at : Nat]

TasksOK ==
  /\ DOMAIN tasks \subseteq {q.task_id : q \in TaskRequests}
  /\ \A t \in DOMAIN tasks : tasks[t] \in TaskRow

IdempotencyOK ==
  \A k \in DOMAIN taskIdempotency : taskIdempotency[k] \in DOMAIN tasks

RunsOK ==
  \A r \in DOMAIN runs :
    /\ runs[r] \in RunRow
    /\ runs[r].identity.run_id = r
    /\ runs[r].identity.task_id \in DOMAIN tasks

LeasesOK ==
  \A l \in DOMAIN leases :
    /\ leases[l] \in LeaseRow
    /\ leases[l].grant.lease_id = l

ReceiptsOK == receipts \in Seq(ReceiptRow)

EventsOK ==
  /\ events \in Seq(EventRow)
  /\ \A t \in DOMAIN eventSequences : eventSequences[t] \in Nat

(* Type correctness of the whole store: the maps hold well-formed rows,    *)
(* a run and a lease are filed under their own identifiers, and a run      *)
(* belongs to a task that exists.                                          *)
TypeOK ==
  /\ TasksOK /\ IdempotencyOK /\ RunsOK
  /\ LeasesOK /\ ReceiptsOK /\ EventsOK

(* Exclusive ownership: no two leases that the store holds as ACTIVE claim *)
(* overlapping paths of one tree, a common resource, write access to one   *)
(* tree or the same run, whatever clock readings the callers of            *)
(* acquire_lease, heartbeat_lease and release_lease supplied.              *)
ActiveLeasesDisjoint ==
  \A l, m \in DOMAIN leases :
    (l # m /\ leases[l].state = "ACTIVE" /\ leases[m].state = "ACTIVE")
      => ~ConflictsWith(leases[l].grant, leases[m].grant)

(* A run is LEASED, RUNNING or CHECKING only if acquire_lease once issued  *)
(* a lease to that very run, role and principal, and a task is LEASED or   *)
(* RUNNING only if one of its runs was issued a lease.                     *)
StartedWorkWasLeased ==
  /\ \A r \in DOMAIN runs :
       runs[r].state \in {"LEASED", "RUNNING", "CHECKING"}
         => \E l \in DOMAIN leases :
              /\ leases[l].grant.run_id = r
              /\ leases[l].grant.role_id = runs[r].identity.role_id
              /\ leases[l].grant.principal_id = runs[r].identity.principal_id
  /\ \A t \in DOMAIN tasks :
       tasks[t].state \in {"LEASED", "RUNNING", "CHECKING"}
         => \E l \in DOMAIN leases : leases[l].grant.task_id = t

(* An earlier receipt by a checker of another run and another principal,   *)
(* holding a lease of its own, passed the same subject as receipt i.       *)
IndependentlyChecked(i) ==
  LET d == receipts[i].draft IN
  \E j \in 1..(i - 1) :
    LET c == receipts[j].draft IN
    /\ c.task_id = d.task_id /\ c.subject = d.subject
    /\ c.role_id = CheckerRole /\ c.result = "PASS"
    /\ c.run_id # d.run_id /\ c.principal_id # d.principal_id
    /\ \E l, m \in DOMAIN leases :
         /\ l # m
         /\ leases[l].grant.run_id = c.run_id
         /\ leases[m].grant.run_id = d.run_id

(* A run that is RECEIPTED or SUCCEEDED is bound to the one receipt of     *)
(* that run, that receipt is a PASS, and a maker's PASS was independently  *)
(* checked: no sequence of transitions and appends lets a maker vouch for  *)
(* itself or a run with another verdict succeed.                           *)
FinalRunVerified ==
  \A r \in DOMAIN runs :
    runs[r].state \in Finalized
      => \E i \in DOMAIN receipts :
           /\ receipts[i].draft.receipt_id = runs[r].result_receipt_id
           /\ \A j \in DOMAIN receipts : receipts[j].draft.run_id = r <=> j = i
           /\ receipts[i].draft.result = "PASS"
           /\ receipts[i].draft.principal_id = runs[r].identity.principal_id
           /\ runs[r].identity.role_id # CheckerRole => IndependentlyChecked(i)

(* While a task is RECEIPTED or SUCCEEDED its latest receipt is a maker's  *)
(* independently checked PASS: the evidence transition_task saw cannot be  *)
(* superseded by a later append_receipt.                                   *)
FinalTaskVerified ==
  \A t \in DOMAIN tasks :
    tasks[t].state \in Finalized
      => \E i \in DOMAIN receipts :
           /\ receipts[i].draft.task_id = t
           /\ \A j \in DOMAIN receipts : receipts[j].draft.task_id = t => j <= i
           /\ receipts[i].draft.result = "PASS"
           /\ receipts[i].draft.role_id \in MakerRoles
           /\ IndependentlyChecked(i)

(* Work is final only on evidence: a run that succeeded, and a task that is *)
(* RECEIPTED or SUCCEEDED (transition_run, transition_task,                *)
(* append_receipt).                                                        *)
FinalWorkVerified == FinalRunVerified /\ FinalTaskVerified

(* The receipts of a task form one chain without forks: the first has no   *)
(* predecessor, every other one names a distinct earlier receipt of the    *)
(* same task as its predecessor, and no run has two receipts.              *)
ReceiptChainLinear ==
  \A i, j \in DOMAIN receipts :
    LET a == receipts[i]  b == receipts[j] IN
    i < j =>
      /\ a.draft.run_id # b.draft.run_id
      /\ a.draft.receipt_id # b.draft.receipt_id
      /\ a.draft.task_id = b.draft.task_id
           => /\ b.previous # None /\ a.previous # b.previous
              /\ \E k \in 1..(j - 1) :
                   /\ receipts[k].draft.receipt_id = b.previous
                   /\ receipts[k].draft.task_id = b.draft.task_id

(* Where the ledger tells of one task (r = None) or of one run.            *)
EventsOf(t, r) == {i \in DOMAIN events : events[i].task_id = t /\ events[i].run_id = r}

(* Replaying the entries of log in order, from DRAFT at version one, yields *)
(* a row's state, version and time: they lead to versions 2, 3, ... of it,  *)
(* and each starts where and not before the one before it ended.           *)
Replays(row, log) ==
  /\ \A i \in log : events[i].entity_version \in 2..row.version
  /\ \A v \in 2..row.version : \E i \in log : events[i].entity_version = v
  /\ \A i \in log : events[i].entity_version = 2 => events[i].from_state = "DRAFT"
  /\ \A i, j \in log : i < j =>
       /\ events[i].entity_version < events[j].entity_version
       /\ events[j].entity_version = events[i].entity_version + 1 =>
            /\ events[j].from_state = events[i].to_state
            /\ events[j].occurred_at >= events[i].occurred_at
  /\ row.version = 1 => row.state = "DRAFT"
  /\ \A i \in log : events[i].entity_version = row.version =>
       row.state = events[i].to_state /\ row.updated_at = events[i].occurred_at

(* Entries that are numbered 1, 2, 3, ... in their order.                  *)
Numbered(log) ==
  /\ \A i, j \in log : i < j => events[i].event_sequence < events[j].event_sequence
  /\ \A i \in log : \/ events[i].event_sequence = 1
                    \/ \E j \in log : events[j].event_sequence + 1 = events[i].event_sequence

(* The event ledger explains every row: replaying a task's or a run's      *)
(* events gives exactly its current state, version and timestamp, and the  *)
(* sequence numbers of a task's events are 1, 2, 3, ... across its runs.   *)
LedgerReplays ==
  /\ \A t \in DOMAIN tasks :
       /\ Replays(tasks[t], EventsOf(t, None))
       /\ Numbered({i \in DOMAIN events : events[i].task_id = t})
  /\ \A r \in DOMAIN runs :
       Replays(runs[r], EventsOf(runs[r].identity.task_id, r))

(* A lease is never revived and its claim never changes: once EXPIRED or   *)
(* RELEASED by any caller its row is frozen, what it grants is what it was *)
(* issued for, and each change raises the version that fences stale        *)
(* holders by exactly one.                                                 *)
LeaseNeverRevived ==
  [][\A l \in DOMAIN leases :
       /\ leases'[l].grant = leases[l].grant
       /\ leases[l].state # "ACTIVE" => leases'[l] = leases[l]
       /\ leases'[l] # leases[l] => leases'[l].version = leases[l].version + 1]_vars

=============================================================================
