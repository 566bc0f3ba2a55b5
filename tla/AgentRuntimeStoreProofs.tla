---------------------- MODULE AgentRuntimeStoreProofs -----------------------
(***************************************************************************)
(* Proofs about AgentRuntimeStore for every set of requests, every choice  *)
(* of clock readings and every version bound: types and leases first, then *)
(* the evidence: started work was leased, receipts form chains, final work *)
(* was verified and the ledger explains every row.                         *)
(***************************************************************************)
EXTENDS AgentRuntimeStore, TLAPS

(* A caller's conflict check is symmetric, so it does not matter which of  *)
(* two leases was issued first.                                            *)
LEMMA ConflictSymmetric ==
  ASSUME NEW g, NEW h, ~ConflictsWith(g, h)
  PROVE  ~ConflictsWith(h, g)
BY DEF ConflictsWith, PathsOverlap

(* The empty store is well typed.                                          *)
LEMMA InitType == Init => TypeOK
BY DEF Init, TypeOK, TasksOK, IdempotencyOK, RunsOK, LeasesOK, ReceiptsOK,
       EventsOK

-----------------------------------------------------------------------------
(* Each action preserves the type invariant.                               *)
LEMMA CreateTaskType ==
  ASSUME TypeOK, NEW q \in TaskRequests, CreateTask(q)
  PROVE  TypeOK'
<1> DEFINE row == [state |-> "DRAFT", version |-> 1, updated_at |-> q.created_at]
<1>1. row \in TaskRow
  BY TaskRequestsAssumption, MaxVersionAssumption DEF TaskRow, RuntimeState
<1>2. /\ DOMAIN tasks' = DOMAIN tasks \cup {q.task_id}
      /\ \A t \in DOMAIN tasks' :
           tasks'[t] = row \/ (t \in DOMAIN tasks /\ tasks'[t] = tasks[t])
  <2>1. tasks' = Put(tasks, q.task_id, row)
    BY DEF CreateTask
  <2> HIDE DEF row
  <2> QED BY <2>1 DEF Put
<1>3. TasksOK'
  <2> HIDE DEF row
  <2> QED BY <1>1, <1>2 DEF TypeOK, TasksOK
<1>4. IdempotencyOK'
  <2> HIDE DEF row
  <2>1. taskIdempotency' = Put(taskIdempotency, q.idempotency_key, q.task_id)
    BY DEF CreateTask
  <2> QED BY <2>1, <1>2 DEF TypeOK, IdempotencyOK, Put
<1>5. RunsOK'
  BY <1>2 DEF TypeOK, RunsOK, CreateTask
<1>6. (LeasesOK /\ ReceiptsOK /\ EventsOK)'
  BY DEF TypeOK, LeasesOK, ReceiptsOK, EventsOK, CreateTask
<1> QED
  BY <1>3, <1>4, <1>5, <1>6 DEF TypeOK

(* What an allowed transition says of the versions and times it relates.   *)
LEMMA TransitionFacts ==
  ASSUME NEW targets \in SUBSET RuntimeState, NEW q \in Transitions(targets)
  PROVE  q.next_state \in RuntimeState /\ q.at \in Nat
BY TimesAssumption DEF Transitions

(* record_memory_event appends one well-formed event.                      *)
LEMMA RecordEventType ==
  ASSUME TypeOK, NEW t \in {x.task_id : x \in TaskRequests},
         NEW r \in {x.run_id : x \in RunRequests} \cup {None},
         NEW row, row.state \in RuntimeState, row.version \in 1..MaxVersion,
         row.version < MaxVersion,
         NEW q, q.next_state \in RuntimeState, q.at \in Nat,
         RecordEvent(t, r, row, q)
  PROVE  EventsOK'
<1> DEFINE sequence == (IF t \in DOMAIN eventSequences
                        THEN eventSequences[t] ELSE 0) + 1
           event == [task_id |-> t, run_id |-> r, event_sequence |-> sequence,
                     from_state |-> row.state, to_state |-> q.next_state,
                     entity_version |-> row.version + 1, occurred_at |-> q.at]
<1>1. sequence \in Nat \ {0}
  BY DEF TypeOK, EventsOK
<1>2. /\ eventSequences' = Put(eventSequences, t, sequence)
      /\ events' = Append(events, event)
  BY DEF RecordEvent, NewEvent
<1> HIDE DEF sequence
<1>3. event \in EventRow
  BY <1>1, MaxVersionAssumption DEF EventRow
<1> HIDE DEF event
<1>4. events' \in Seq(EventRow)
  BY <1>2, <1>3 DEF TypeOK, EventsOK
<1>5. \A u \in DOMAIN eventSequences' : eventSequences'[u] \in Nat
  BY <1>1, <1>2 DEF TypeOK, EventsOK, Put
<1> QED
  BY <1>4, <1>5 DEF EventsOK

(* transition_task keeps the types.                                        *)
LEMMA TransitionTaskType ==
  ASSUME TypeOK, NEW t \in DOMAIN tasks, NEW q \in Transitions(TaskTargets),
         TransitionTask(t, q)
  PROVE  TypeOK'
<1> DEFINE row == [state |-> q.next_state, version |-> tasks[t].version + 1,
                   updated_at |-> q.at]
<1>1. q.next_state \in RuntimeState /\ q.at \in Nat
  BY TransitionFacts, TargetsAssumption
<1>2. /\ tasks[t] \in TaskRow
      /\ tasks[t].version \in 1..MaxVersion /\ tasks[t].version < MaxVersion
      /\ tasks[t].state \in RuntimeState
  BY DEF TypeOK, TasksOK, TaskRow, TransitionTask, TransitionAllowed
<1>3. row \in TaskRow
  BY <1>1, <1>2, MaxVersionAssumption DEF TaskRow
<1>4. tasks' = [tasks EXCEPT ![t] = row]
  BY DEF TransitionTask
<1> HIDE DEF row
<1>5. DOMAIN tasks' = DOMAIN tasks /\ TasksOK'
  BY <1>3, <1>4 DEF TypeOK, TasksOK
<1>6. EventsOK'
  <2>1. RecordEvent(t, None, tasks[t], q)
    BY DEF TransitionTask
  <2>2. t \in {x.task_id : x \in TaskRequests}
    BY DEF TypeOK, TasksOK
  <2> QED
    BY <1>1, <1>2, <2>1, <2>2, RecordEventType
<1>7. (IdempotencyOK /\ RunsOK /\ LeasesOK /\ ReceiptsOK)'
  BY <1>5
  DEF TypeOK, IdempotencyOK, RunsOK, LeasesOK, ReceiptsOK, TransitionTask
<1> QED
  BY <1>5, <1>6, <1>7 DEF TypeOK

(* create_run keeps the types.                                             *)
LEMMA CreateRunType ==
  ASSUME TypeOK, NEW q \in RunRequests, CreateRun(q)
  PROVE  TypeOK'
<1> DEFINE row == [identity |-> q, state |-> "DRAFT", version |-> 1,
                   result_receipt_id |-> None, updated_at |-> q.created_at]
<1>1. row \in RunRow /\ row.identity = q
  BY RunRequestsAssumption, MaxVersionAssumption DEF RunRow, RuntimeState
<1>2. runs' = Put(runs, q.run_id, row) /\ q.task_id \in DOMAIN tasks
  BY DEF CreateRun
<1> HIDE DEF row
<1>3. RunsOK'
  <2>1. tasks' = tasks
    BY DEF CreateRun
  <2> SUFFICES ASSUME NEW r \in DOMAIN runs'
               PROVE  /\ runs'[r] \in RunRow
                      /\ runs'[r].identity.run_id = r
                      /\ runs'[r].identity.task_id \in DOMAIN tasks
    BY <2>1 DEF RunsOK
  <2>2. CASE r = q.run_id
    <3>1. runs'[r] = row
      BY <1>2, <2>2 DEF Put
    <3> QED
      BY <1>1, <1>2, <2>2, <3>1
  <2>3. CASE r # q.run_id
    <3>1. r \in DOMAIN runs /\ runs'[r] = runs[r]
      BY <1>2, <2>3 DEF Put
    <3> QED
      BY <3>1 DEF TypeOK, RunsOK
  <2> QED
    BY <2>2, <2>3
<1>4. (TasksOK /\ IdempotencyOK /\ LeasesOK /\ ReceiptsOK /\ EventsOK)'
  BY DEF TypeOK, TasksOK, IdempotencyOK, LeasesOK, ReceiptsOK, EventsOK,
         CreateRun
<1> QED
  BY <1>3, <1>4 DEF TypeOK

(* The receipts are a sequence of well-formed rows.                        *)
LEMMA ReceiptFacts ==
  ASSUME ReceiptsOK
  PROVE  /\ Len(receipts) \in Nat
         /\ DOMAIN receipts = 1..Len(receipts)
         /\ \A i \in DOMAIN receipts :
              receipts[i] \in ReceiptRow /\ receipts[i].draft \in ReceiptDrafts
<1>1. Len(receipts) \in Nat /\ DOMAIN receipts = 1..Len(receipts)
  BY DEF ReceiptsOK
<1>2. \A i \in DOMAIN receipts : receipts[i] \in ReceiptRow
  BY <1>1 DEF ReceiptsOK
<1>3. \A x \in ReceiptRow : x.draft \in ReceiptDrafts
  BY DEF ReceiptRow
<1> QED
  BY <1>1, <1>2, <1>3

(* A binding is a receipt identifier of the store, or none.                *)
LEMMA BindingType ==
  ASSUME TypeOK, NEW r \in DOMAIN runs, NEW next, NEW at,
         NEW id \in ReceiptBindings(r, next, at)
  PROVE  id \in {d.receipt_id : d \in ReceiptDrafts} \cup {None}
<1> DEFINE ids == {d.receipt_id : d \in ReceiptDrafts} \cup {None}
<1>1. runs[r].result_receipt_id \in ids
  BY DEF TypeOK, RunsOK, RunRow
<1>2. VerifiedRunReceiptIds(r) \subseteq ids
  <2>1. \A i \in DOMAIN receipts : receipts[i].draft \in ReceiptDrafts
    BY ReceiptFacts DEF TypeOK
  <2>2. VerifiedRunPasses(r) \subseteq DOMAIN receipts
    BY DEF VerifiedRunPasses
  <2> QED
    BY <2>1, <2>2 DEF VerifiedRunReceiptIds
<1> HIDE DEF ids
<1>3. id \in ids
  <2>1. CASE next = "LEASED"
    <3>1. id = runs[r].result_receipt_id
      BY <2>1 DEF ReceiptBindings
    <3> QED BY <3>1, <1>1
  <2>2. CASE next = "RECEIPTED"
    BY <2>2, <1>2 DEF ReceiptBindings
  <2>3. CASE next = "SUCCEEDED"
    BY <2>3, <1>1 DEF ReceiptBindings
  <2>4. CASE next \notin {"LEASED", "RECEIPTED", "SUCCEEDED"}
    <3>1. id = runs[r].result_receipt_id
      BY <2>4 DEF ReceiptBindings
    <3> QED BY <3>1, <1>1
  <2> QED
    BY <2>1, <2>2, <2>3, <2>4
<1> QED
  BY <1>3 DEF ids

(* transition_run keeps the types, the receipt it binds included.          *)
LEMMA TransitionRunType ==
  ASSUME TypeOK, NEW r \in DOMAIN runs, NEW q \in Transitions(RunTargets),
         TransitionRun(r, q)
  PROVE  TypeOK'
<1> PICK id \in ReceiptBindings(r, q.next_state, q.at) :
      runs' = [runs EXCEPT ![r] =
        [identity |-> runs[r].identity, state |-> q.next_state,
         version |-> runs[r].version + 1, result_receipt_id |-> id,
         updated_at |-> q.at]]
  BY DEF TransitionRun
<1> DEFINE row == [identity |-> runs[r].identity, state |-> q.next_state,
                   version |-> runs[r].version + 1, result_receipt_id |-> id,
                   updated_at |-> q.at]
<1>1. q.next_state \in RuntimeState /\ q.at \in Nat
  BY TransitionFacts, TargetsAssumption
<1>2. /\ runs[r] \in RunRow
      /\ runs[r].version \in 1..MaxVersion /\ runs[r].version < MaxVersion
      /\ runs[r].state \in RuntimeState
      /\ runs[r].identity \in RunRequests
      /\ runs[r].identity.run_id = r
      /\ runs[r].identity.task_id \in DOMAIN tasks
  BY DEF TypeOK, RunsOK, RunRow, TransitionRun, TransitionAllowed
<1>3. id \in {d.receipt_id : d \in ReceiptDrafts} \cup {None}
  BY BindingType
<1>4. row \in RunRow /\ row.identity = runs[r].identity
  BY <1>1, <1>2, <1>3, MaxVersionAssumption DEF RunRow
<1>5. runs' = [runs EXCEPT ![r] = row]
  OBVIOUS
<1> HIDE DEF row
<1>6. RunsOK'
  <2>1. tasks' = tasks
    BY DEF TransitionRun
  <2> QED
    BY <1>2, <1>4, <1>5, <2>1 DEF TypeOK, RunsOK
<1>7. EventsOK'
  <2>1. RecordEvent(runs[r].identity.task_id, r, runs[r], q)
    BY DEF TransitionRun
  <2>2. runs[r].identity.task_id \in {x.task_id : x \in TaskRequests}
    BY <1>2 DEF TypeOK, TasksOK
  <2>3. r \in {x.run_id : x \in RunRequests} \cup {None}
    BY <1>2
  <2> QED
    BY <1>1, <1>2, <2>1, <2>2, <2>3, RecordEventType
<1>8. (TasksOK /\ IdempotencyOK /\ LeasesOK /\ ReceiptsOK)'
  BY DEF TypeOK, TasksOK, IdempotencyOK, LeasesOK, ReceiptsOK, TransitionRun
<1> QED
  BY <1>6, <1>7, <1>8 DEF TypeOK

(* What a clock reading does to a lease row: it is expired, once, or it is *)
(* left alone.                                                             *)
LEMMA ExpireFacts ==
  ASSUME LeasesOK, NEW now,
         \A l \in Expirable(now) : leases[l].version < MaxLeaseVersion
  PROVE  /\ DOMAIN ExpireLeases(now) = DOMAIN leases
         /\ \A l \in DOMAIN leases :
              /\ ExpireLeases(now)[l] \in LeaseRow
              /\ ExpireLeases(now)[l].grant = leases[l].grant
              /\ \/ /\ ExpireLeases(now)[l] = leases[l]
                    /\ l \notin Expirable(now)
                 \/ /\ ExpireLeases(now)[l].state = "EXPIRED"
                    /\ ExpireLeases(now)[l].version = leases[l].version + 1
                    /\ l \in Expirable(now)
<1>1. DOMAIN ExpireLeases(now) = DOMAIN leases
  BY DEF ExpireLeases
<1> SUFFICES ASSUME NEW l \in DOMAIN leases
             PROVE  /\ ExpireLeases(now)[l] \in LeaseRow
                    /\ ExpireLeases(now)[l].grant = leases[l].grant
                    /\ \/ /\ ExpireLeases(now)[l] = leases[l]
                          /\ l \notin Expirable(now)
                       \/ /\ ExpireLeases(now)[l].state = "EXPIRED"
                          /\ ExpireLeases(now)[l].version = leases[l].version + 1
                          /\ l \in Expirable(now)
  BY <1>1
<1>2. leases[l] \in LeaseRow
  BY DEF LeasesOK
<1>3. CASE l \in Expirable(now)
  <2>1. ExpireLeases(now)[l]
          = [leases[l] EXCEPT !.state = "EXPIRED", !.version = @ + 1]
    BY <1>3 DEF ExpireLeases
  <2>2. leases[l].version < MaxLeaseVersion
    BY <1>3
  <2>3. leases[l].version + 1 \in 1..MaxLeaseVersion
    BY <1>2, <2>2, MaxVersionAssumption DEF LeaseRow
  <2>4. ExpireLeases(now)[l]
          = [grant |-> leases[l].grant, state |-> "EXPIRED",
             version |-> leases[l].version + 1,
             heartbeat_due_at |-> leases[l].heartbeat_due_at,
             expires_at |-> leases[l].expires_at]
    BY <1>2, <2>1 DEF LeaseRow
  <2> QED
    BY <1>2, <1>3, <2>3, <2>4 DEF LeaseRow, LeaseState
<1>4. CASE l \notin Expirable(now)
  <2>1. ExpireLeases(now)[l] = leases[l]
    BY <1>4 DEF ExpireLeases
  <2> QED
    BY <1>2, <1>4, <2>1
<1> QED
  BY <1>3, <1>4

(* A lease as acquire_lease inserts it is a well-formed row.               *)
LEMMA NewLeaseType ==
  ASSUME NEW q \in LeaseRequests
  PROVE  /\ NewLease(q) \in LeaseRow
         /\ NewLease(q).grant = q
         /\ NewLease(q).state = "ACTIVE"
BY LeaseRequestsAssumption, MaxVersionAssumption
DEF NewLease, LeaseRow, LeaseState

(* A successful acquisition: the expired map plus one row.                 *)
LEMMA AcquireFacts ==
  ASSUME LeasesOK, NEW q \in LeaseRequests, NEW now, AcquireLease(q, now)
  PROVE  /\ DOMAIN leases' = DOMAIN leases \cup {q.lease_id}
         /\ leases'[q.lease_id] = NewLease(q)
         /\ q.lease_id \notin DOMAIN leases
         /\ \A l \in DOMAIN leases : leases'[l] = ExpireLeases(now)[l]
<1>1. leases' = Put(ExpireLeases(now), q.lease_id, NewLease(q))
  BY DEF AcquireLease
<1>2. DOMAIN ExpireLeases(now) = DOMAIN leases
  BY DEF ExpireLeases
<1>3. q.lease_id \notin DOMAIN leases
  BY DEF AcquireLease, LeaseAdmissible
<1> QED
  BY <1>1, <1>2, <1>3 DEF Put

(* A granted acquisition keeps the types.                                  *)
LEMMA AcquireLeaseType ==
  ASSUME TypeOK, NEW q \in LeaseRequests, NEW now, AcquireLease(q, now)
  PROVE  TypeOK'
<1>1. LeasesOK
  BY DEF TypeOK
<1>2. \A l \in Expirable(now) : leases[l].version < MaxLeaseVersion
  BY DEF AcquireLease, AcquireStarts
<1>3. LeasesOK'
  <2> SUFFICES ASSUME NEW l \in DOMAIN leases'
               PROVE  leases'[l] \in LeaseRow /\ leases'[l].grant.lease_id = l
    BY DEF LeasesOK
  <2>1. CASE l = q.lease_id
    BY <1>1, <2>1, AcquireFacts, NewLeaseType
  <2>2. CASE l # q.lease_id
    <3>1. l \in DOMAIN leases /\ leases'[l] = ExpireLeases(now)[l]
      BY <1>1, <2>2, AcquireFacts
    <3>2. leases'[l] \in LeaseRow /\ leases'[l].grant = leases[l].grant
      BY <1>1, <1>2, <3>1, ExpireFacts
    <3> QED
      BY <1>1, <3>1, <3>2 DEF LeasesOK
  <2> QED
    BY <2>1, <2>2
<1>4. (TasksOK /\ IdempotencyOK /\ RunsOK /\ ReceiptsOK /\ EventsOK)'
  BY DEF TypeOK, TasksOK, IdempotencyOK, RunsOK, ReceiptsOK, EventsOK,
         AcquireLease
<1> QED
  BY <1>3, <1>4 DEF TypeOK

(* A rejected acquisition keeps the types.                                 *)
LEMMA AcquireRejectedType ==
  ASSUME TypeOK, NEW q \in LeaseRequests, NEW now, AcquireRejected(q, now)
  PROVE  TypeOK'
<1>1. LeasesOK /\ leases' = ExpireLeases(now)
  BY DEF TypeOK, AcquireRejected
<1>2. \A l \in Expirable(now) : leases[l].version < MaxLeaseVersion
  BY DEF AcquireRejected, AcquireStarts
<1>3. /\ DOMAIN leases' = DOMAIN leases
      /\ \A l \in DOMAIN leases :
           leases'[l] \in LeaseRow /\ leases'[l].grant = leases[l].grant
  BY <1>1, <1>2, ExpireFacts
<1>4. LeasesOK'
  BY <1>1, <1>3 DEF LeasesOK
<1>5. (TasksOK /\ IdempotencyOK /\ RunsOK /\ ReceiptsOK /\ EventsOK)'
  BY DEF TypeOK, TasksOK, IdempotencyOK, RunsOK, ReceiptsOK, EventsOK,
         AcquireRejected
<1> QED
  BY <1>4, <1>5 DEF TypeOK

(* A heartbeat or a release rewrites one ACTIVE row: the claim stays, the  *)
(* version grows by one.                                                   *)
LEMMA HeartbeatFacts ==
  ASSUME LeasesOK, NEW l \in DOMAIN leases, NEW version,
         NEW now \in Times, NEW due \in Times, NEW expires \in Times,
         HeartbeatLease(l, version, now, due, expires)
  PROVE  /\ DOMAIN leases' = DOMAIN leases
         /\ \A m \in DOMAIN leases : m # l => leases'[m] = leases[m]
         /\ leases[l].state = "ACTIVE" /\ leases'[l].state = "ACTIVE"
         /\ leases'[l] \in LeaseRow
         /\ leases'[l].grant = leases[l].grant
         /\ leases'[l].version = leases[l].version + 1
<1>1. leases[l] \in LeaseRow
  BY DEF LeasesOK
<1>2. leases[l].state = "ACTIVE" /\ leases[l].version < MaxLeaseVersion
  BY DEF HeartbeatLease, RequireMutable
<1> DEFINE row == [grant |-> leases[l].grant, state |-> "ACTIVE",
                   version |-> leases[l].version + 1,
                   heartbeat_due_at |-> due, expires_at |-> expires]
<1>3. /\ DOMAIN leases' = DOMAIN leases
      /\ \A m \in DOMAIN leases : m # l => leases'[m] = leases[m]
      /\ leases'[l] = row
  <2>1. /\ leases' = [leases EXCEPT ![l] = Heartbeat(leases[l], due, expires)]
        /\ leases'[l] = Heartbeat(leases[l], due, expires)
    BY DEF HeartbeatLease
  <2>2. leases'[l] = row
    BY <1>1, <1>2, <2>1 DEF LeaseRow, Heartbeat
  <2> QED
    BY <2>1, <2>2
<1>4. row \in LeaseRow
  BY <1>1, <1>2, TimesAssumption, MaxVersionAssumption DEF LeaseRow, LeaseState
<1> QED
  BY <1>2, <1>3, <1>4

(* What release changes of a lease.                                        *)
LEMMA ReleaseFacts ==
  ASSUME LeasesOK, NEW l \in DOMAIN leases, NEW version, NEW now,
         ReleaseLease(l, version, now)
  PROVE  /\ DOMAIN leases' = DOMAIN leases
         /\ \A m \in DOMAIN leases : m # l => leases'[m] = leases[m]
         /\ leases[l].state = "ACTIVE" /\ leases'[l].state = "RELEASED"
         /\ leases'[l] \in LeaseRow
         /\ leases'[l].grant = leases[l].grant
         /\ leases'[l].version = leases[l].version + 1
<1>1. leases[l] \in LeaseRow
  BY DEF LeasesOK
<1>2. leases[l].state = "ACTIVE" /\ leases[l].version < MaxLeaseVersion
  BY DEF ReleaseLease, RequireMutable
<1> DEFINE row == [grant |-> leases[l].grant, state |-> "RELEASED",
                   version |-> leases[l].version + 1,
                   heartbeat_due_at |-> leases[l].heartbeat_due_at,
                   expires_at |-> leases[l].expires_at]
<1>3. /\ DOMAIN leases' = DOMAIN leases
      /\ \A m \in DOMAIN leases : m # l => leases'[m] = leases[m]
      /\ leases'[l] = row
  <2>1. /\ leases' = [leases EXCEPT ![l] = Release(leases[l])]
        /\ leases'[l] = Release(leases[l])
    BY DEF ReleaseLease
  <2>2. leases'[l] = row
    BY <1>1, <1>2, <2>1 DEF LeaseRow, Release
  <2> QED
    BY <2>1, <2>2
<1>4. row \in LeaseRow
  BY <1>1, <1>2, MaxVersionAssumption DEF LeaseRow, LeaseState
<1> QED
  BY <1>2, <1>3, <1>4

(* heartbeat_lease keeps the types.                                        *)
LEMMA HeartbeatLeaseType ==
  ASSUME TypeOK, NEW l \in DOMAIN leases, NEW version,
         NEW now \in Times, NEW due \in Times, NEW expires \in Times,
         HeartbeatLease(l, version, now, due, expires)
  PROVE  TypeOK'
<1>1. LeasesOK'
  <2>1. LeasesOK
    BY DEF TypeOK
  <2> QED
    BY <2>1, HeartbeatFacts DEF LeasesOK
<1>2. (TasksOK /\ IdempotencyOK /\ RunsOK /\ ReceiptsOK /\ EventsOK)'
  BY DEF TypeOK, TasksOK, IdempotencyOK, RunsOK, ReceiptsOK, EventsOK,
         HeartbeatLease
<1> QED
  BY <1>1, <1>2 DEF TypeOK

(* release_lease keeps the types.                                          *)
LEMMA ReleaseLeaseType ==
  ASSUME TypeOK, NEW l \in DOMAIN leases, NEW version, NEW now,
         ReleaseLease(l, version, now)
  PROVE  TypeOK'
<1>1. LeasesOK'
  <2>1. LeasesOK
    BY DEF TypeOK
  <2> QED
    BY <2>1, ReleaseFacts DEF LeasesOK
<1>2. (TasksOK /\ IdempotencyOK /\ RunsOK /\ ReceiptsOK /\ EventsOK)'
  BY DEF TypeOK, TasksOK, IdempotencyOK, RunsOK, ReceiptsOK, EventsOK,
         ReleaseLease
<1> QED
  BY <1>1, <1>2 DEF TypeOK

(* The predecessor of a new receipt is a receipt identifier or none.       *)
LEMMA PreviousType ==
  ASSUME ReceiptsOK, NEW t
  PROVE  PreviousReceipt(t, Len(receipts))
           \in {d.receipt_id : d \in ReceiptDrafts} \cup {None}
<1> DEFINE last == LatestReceipts(t, Len(receipts))
<1>1. CASE last = {}
  BY <1>1 DEF PreviousReceipt
<1>2. CASE last # {}
  <2>1. (CHOOSE i \in last : TRUE) \in DOMAIN receipts
    BY <1>2, ReceiptFacts DEF LatestReceipts
  <2>2. PreviousReceipt(t, Len(receipts))
          = receipts[CHOOSE i \in last : TRUE].draft.receipt_id
    BY <1>2 DEF PreviousReceipt
  <2> QED
    BY <2>1, <2>2, ReceiptFacts
<1> QED
  BY <1>1, <1>2

(* append_receipt keeps the types.                                         *)
LEMMA AppendReceiptType ==
  ASSUME TypeOK, NEW d \in ReceiptDrafts, AppendReceipt(d)
  PROVE  TypeOK'
<1> DEFINE previous == PreviousReceipt(d.task_id, Len(receipts))
           row == [draft |-> d, previous |-> previous]
<1>1. previous \in {x.receipt_id : x \in ReceiptDrafts} \cup {None}
  BY PreviousType DEF TypeOK
<1>2. receipts' = Append(receipts, row)
  BY DEF AppendReceipt
<1> HIDE DEF previous
<1>3. row \in ReceiptRow
  BY <1>1 DEF ReceiptRow
<1> HIDE DEF row
<1>4. ReceiptsOK'
  BY <1>2, <1>3 DEF TypeOK, ReceiptsOK
<1>5. (TasksOK /\ IdempotencyOK /\ RunsOK /\ LeasesOK /\ EventsOK)'
  BY DEF TypeOK, TasksOK, IdempotencyOK, RunsOK, LeasesOK, EventsOK,
         AppendReceipt
<1> QED
  BY <1>4, <1>5 DEF TypeOK

(* Every step keeps the types.                                             *)
LEMMA NextType == TypeOK /\ [Next]_vars => TypeOK'
<1> SUFFICES ASSUME TypeOK, [Next]_vars
             PROVE  TypeOK'
  OBVIOUS
<1>1. ASSUME NEW q \in TaskRequests, CreateTask(q)
      PROVE  TypeOK'
  BY <1>1, CreateTaskType
<1>2. ASSUME NEW t \in DOMAIN tasks, NEW q \in Transitions(TaskTargets),
             TransitionTask(t, q)
      PROVE  TypeOK'
  BY <1>2, TransitionTaskType
<1>3. ASSUME NEW q \in RunRequests, CreateRun(q)
      PROVE  TypeOK'
  BY <1>3, CreateRunType
<1>4. ASSUME NEW r \in DOMAIN runs, NEW q \in Transitions(RunTargets),
             TransitionRun(r, q)
      PROVE  TypeOK'
  BY <1>4, TransitionRunType
<1>5. ASSUME NEW q \in LeaseRequests, NEW now \in Times,
             AcquireLease(q, now) \/ AcquireRejected(q, now)
      PROVE  TypeOK'
  BY <1>5, AcquireLeaseType, AcquireRejectedType
<1>6. ASSUME NEW l \in DOMAIN leases, NEW v \in 1..MaxLeaseVersion,
             NEW now \in Times, NEW due \in Times, NEW expires \in Times,
             HeartbeatLease(l, v, now, due, expires)
      PROVE  TypeOK'
  BY <1>6, HeartbeatLeaseType
<1>7. ASSUME NEW l \in DOMAIN leases, NEW v \in 1..MaxLeaseVersion,
             NEW now \in Times, ReleaseLease(l, v, now)
      PROVE  TypeOK'
  BY <1>7, ReleaseLeaseType
<1>8. ASSUME NEW d \in ReceiptDrafts, AppendReceipt(d)
      PROVE  TypeOK'
  BY <1>8, AppendReceiptType
<1>9. CASE UNCHANGED vars
  BY <1>9 DEF vars, TypeOK, TasksOK, IdempotencyOK, RunsOK, LeasesOK,
              ReceiptsOK, EventsOK
<1> QED
  BY <1>1, <1>2, <1>3, <1>4, <1>5, <1>6, <1>7, <1>8, <1>9 DEF Next

(* Type correctness: whatever requests callers send, the store holds       *)
(* well-formed rows filed under their own identifiers.                     *)
THEOREM TypeCorrect == Spec => []TypeOK
<1> QED
  BY InitType, NextType, PTL DEF Spec

-----------------------------------------------------------------------------
(* What one row may become: the same claim, the same row unless it was     *)
(* ACTIVE, and a version one higher if anything changed.                   *)
RowEvolves(l) ==
  /\ leases'[l].grant = leases[l].grant
  /\ leases[l].state # "ACTIVE" => leases'[l] = leases[l]
  /\ leases'[l] # leases[l] => leases'[l].version = leases[l].version + 1

(* Every step keeps every lease row in that sense; only an acquisition     *)
(* adds a row.                                                             *)
LEMMA LeaseStep ==
  ASSUME TypeOK, [Next]_vars
  PROVE  /\ \A l \in DOMAIN leases : l \in DOMAIN leases' /\ RowEvolves(l)
         /\ \/ DOMAIN leases' = DOMAIN leases
            \/ \E q \in LeaseRequests, now \in Times : AcquireLease(q, now)
<1> USE DEF TypeOK
<1>1. ASSUME NEW q \in LeaseRequests, NEW now \in Times, AcquireLease(q, now)
      PROVE  \A l \in DOMAIN leases : l \in DOMAIN leases' /\ RowEvolves(l)
  <2>1. \A l \in Expirable(now) : leases[l].version < MaxLeaseVersion
    BY <1>1 DEF AcquireLease, AcquireStarts
  <2> SUFFICES ASSUME NEW l \in DOMAIN leases
               PROVE  l \in DOMAIN leases' /\ RowEvolves(l)
    OBVIOUS
  <2>2. l \in DOMAIN leases' /\ leases'[l] = ExpireLeases(now)[l]
    BY <1>1, AcquireFacts
  <2>3. l \in Expirable(now) => leases[l].state = "ACTIVE"
    BY DEF Expirable
  <2> QED
    BY <2>1, <2>2, <2>3, ExpireFacts DEF RowEvolves
<1>2. ASSUME NEW q \in LeaseRequests, NEW now \in Times,
             AcquireRejected(q, now)
      PROVE  /\ DOMAIN leases' = DOMAIN leases
             /\ \A l \in DOMAIN leases : RowEvolves(l)
  <2>1. /\ leases' = ExpireLeases(now)
        /\ \A l \in Expirable(now) : leases[l].version < MaxLeaseVersion
    BY <1>2 DEF AcquireRejected, AcquireStarts
  <2> QED
    BY <2>1, ExpireFacts DEF RowEvolves, Expirable
<1>3. ASSUME NEW l \in DOMAIN leases, NEW v \in 1..MaxLeaseVersion,
             NEW now \in Times, NEW due \in Times, NEW expires \in Times,
             HeartbeatLease(l, v, now, due, expires)
      PROVE  /\ DOMAIN leases' = DOMAIN leases
             /\ \A m \in DOMAIN leases : RowEvolves(m)
  BY <1>3, HeartbeatFacts DEF RowEvolves
<1>4. ASSUME NEW l \in DOMAIN leases, NEW v \in 1..MaxLeaseVersion,
             NEW now \in Times, ReleaseLease(l, v, now)
      PROVE  /\ DOMAIN leases' = DOMAIN leases
             /\ \A m \in DOMAIN leases : RowEvolves(m)
  BY <1>4, ReleaseFacts DEF RowEvolves
<1>5. CASE UNCHANGED leases
  BY <1>5 DEF RowEvolves
<1>6. ASSUME Next,
             ~(\E q \in LeaseRequests, now \in Times :
                 AcquireLease(q, now) \/ AcquireRejected(q, now)),
             ~(\E l \in DOMAIN leases, v \in 1..MaxLeaseVersion,
                 now \in Times :
                 \/ ReleaseLease(l, v, now)
                 \/ \E due, expires \in Times :
                      HeartbeatLease(l, v, now, due, expires))
      PROVE  UNCHANGED leases
  BY <1>6 DEF Next, CreateTask, TransitionTask, CreateRun, TransitionRun,
              AppendReceipt
<1>7. UNCHANGED vars => UNCHANGED leases
  BY DEF vars
<1> QED
  BY <1>1, <1>2, <1>3, <1>4, <1>5, <1>6, <1>7

(* A row that is ACTIVE after a step was ACTIVE before it.                 *)
LEMMA ActiveBefore ==
  ASSUME NEW l, RowEvolves(l), leases'[l].state = "ACTIVE"
  PROVE  leases[l].state = "ACTIVE" /\ leases'[l].grant = leases[l].grant
BY DEF RowEvolves

(* A lease that survives an acquisition at time now as ACTIVE was found    *)
(* not to conflict with the new one.                                       *)
LEMMA SurvivorsDisjoint ==
  ASSUME TypeOK, NEW q \in LeaseRequests, NEW now \in Times,
         AcquireLease(q, now),
         NEW l \in DOMAIN leases, leases'[l].state = "ACTIVE"
  PROVE  ~ConflictsWith(leases[l].grant, q)
<1>1. LeasesOK /\ \A m \in Expirable(now) : leases[m].version < MaxLeaseVersion
  BY DEF TypeOK, AcquireLease, AcquireStarts
<1>2. leases'[l] = ExpireLeases(now)[l]
  BY <1>1, AcquireFacts
<1>3. l \notin Expirable(now) /\ leases[l].state = "ACTIVE"
  BY <1>1, <1>2, ExpireFacts
<1>4. IsActiveAt(leases[l], now)
  BY <1>3 DEF Expirable
<1> QED
  BY <1>4 DEF AcquireLease, LeaseAdmissible

(* Every step keeps the ACTIVE leases disjoint.                            *)
LEMMA DisjointStep ==
  ASSUME TypeOK, ActiveLeasesDisjoint, [Next]_vars
  PROVE  ActiveLeasesDisjoint'
<1> SUFFICES ASSUME NEW l \in DOMAIN leases', NEW m \in DOMAIN leases', l # m,
                    leases'[l].state = "ACTIVE", leases'[m].state = "ACTIVE"
             PROVE  ~ConflictsWith(leases'[l].grant, leases'[m].grant)
  BY DEF ActiveLeasesDisjoint
<1>1. CASE l \in DOMAIN leases /\ m \in DOMAIN leases
  <2>1. RowEvolves(l) /\ RowEvolves(m)
    BY <1>1, LeaseStep
  <2> QED
    BY <1>1, <2>1, ActiveBefore DEF ActiveLeasesDisjoint
<1>2. CASE ~(l \in DOMAIN leases /\ m \in DOMAIN leases)
  <2>1. PICK q \in LeaseRequests, now \in Times : AcquireLease(q, now)
    BY <1>2, LeaseStep
  <2>2. /\ DOMAIN leases' = DOMAIN leases \cup {q.lease_id}
        /\ leases'[q.lease_id].grant = q
    BY <2>1, AcquireFacts, NewLeaseType DEF TypeOK
  <2>3. CASE l = q.lease_id /\ m \in DOMAIN leases
    <3>1. ~ConflictsWith(leases[m].grant, q) /\ RowEvolves(m)
      BY <2>1, <2>3, SurvivorsDisjoint, LeaseStep
    <3> QED
      BY <2>2, <2>3, <3>1, ActiveBefore, ConflictSymmetric
  <2>4. CASE m = q.lease_id /\ l \in DOMAIN leases
    <3>1. ~ConflictsWith(leases[l].grant, q) /\ RowEvolves(l)
      BY <2>1, <2>4, SurvivorsDisjoint, LeaseStep
    <3> QED
      BY <2>2, <2>4, <3>1, ActiveBefore
  <2> QED
    BY <1>2, <2>2, <2>3, <2>4
<1> QED
  BY <1>1, <1>2

(* Exclusive ownership for every set of requests and every assignment of   *)
(* clock readings to calls: acquire_lease never leaves two conflicting     *)
(* leases ACTIVE, and heartbeat_lease and release_lease cannot make two.   *)
THEOREM ExclusiveOwnership == Spec => []ActiveLeasesDisjoint
<1>1. Init => ActiveLeasesDisjoint
  BY DEF Init, ActiveLeasesDisjoint
<1>2. TypeOK /\ ActiveLeasesDisjoint /\ [Next]_vars => ActiveLeasesDisjoint'
  BY DisjointStep
<1> QED
  BY <1>1, <1>2, TypeCorrect, PTL DEF Spec

(* Fencing: a lease that any caller saw EXPIRED or RELEASED stays so, and  *)
(* a holder that still has the version it read can be told from one that   *)
(* does not.                                                               *)
THEOREM LeaseFencing == Spec => LeaseNeverRevived
<1>1. TypeOK /\ [Next]_vars
        => [\A l \in DOMAIN leases :
              /\ leases'[l].grant = leases[l].grant
              /\ leases[l].state # "ACTIVE" => leases'[l] = leases[l]
              /\ leases'[l] # leases[l]
                   => leases'[l].version = leases[l].version + 1]_vars
  BY LeaseStep DEF RowEvolves
<1> QED
  BY <1>1, TypeCorrect, PTL DEF Spec, LeaseNeverRevived

-----------------------------------------------------------------------------
(* What a step may do to the rows of tasks and runs, and to receipts.      *)

(* What an accepted transition does to a row.                              *)
Advances(row, next, q) ==
  /\ TransitionAllowed(row, q)
  /\ next.state = q.next_state /\ next.version = row.version + 1
  /\ next.updated_at = q.at

\* An accepted transition changes its own task only, by one version.
LEMMA TaskAdvances ==
  ASSUME NEW t \in DOMAIN tasks, NEW q, TransitionTask(t, q)
  PROVE  /\ DOMAIN tasks' = DOMAIN tasks /\ Advances(tasks[t], tasks'[t], q)
         /\ \A u \in DOMAIN tasks : u # t => tasks'[u] = tasks[u]
BY DEF TransitionTask, Advances

\* An accepted transition changes its own run only: by one version, with its
\* identity kept and a result the receipts allow.
LEMMA RunAdvances ==
  ASSUME NEW r \in DOMAIN runs, NEW q, TransitionRun(r, q)
  PROVE  /\ DOMAIN runs' = DOMAIN runs /\ Advances(runs[r], runs'[r], q)
         /\ runs'[r].identity = runs[r].identity
         /\ runs'[r].result_receipt_id \in ReceiptBindings(r, q.next_state, q.at)
         /\ \A s \in DOMAIN runs : s # r => runs'[s] = runs[s]
<1>1. PICK id \in ReceiptBindings(r, q.next_state, q.at) :
        runs' = [runs EXCEPT ![r] =
          [identity |-> runs[r].identity, state |-> q.next_state,
           version |-> runs[r].version + 1, result_receipt_id |-> id,
           updated_at |-> q.at]]
  BY DEF TransitionRun
<1> QED BY <1>1 DEF TransitionRun, Advances

(* Tasks stay; a new one is a draft.                                       *)
LEMMA TaskStep ==
  ASSUME [Next]_vars
  PROVE  /\ DOMAIN tasks \subseteq DOMAIN tasks'
         /\ \A t \in DOMAIN tasks' :
              \/ t \in DOMAIN tasks /\ tasks'[t] = tasks[t]
              \/ t \notin DOMAIN tasks /\ tasks'[t].state = "DRAFT"
              \/ /\ t \in DOMAIN tasks
                 /\ \E q \in Transitions(TaskTargets) : TransitionTask(t, q)
<1>1. ASSUME NEW q \in TaskRequests, CreateTask(q)
      PROVE  /\ q.task_id \notin DOMAIN tasks
             /\ DOMAIN tasks' = DOMAIN tasks \cup {q.task_id}
             /\ tasks'[q.task_id].state = "DRAFT"
             /\ \A t \in DOMAIN tasks : tasks'[t] = tasks[t]
  BY <1>1 DEF CreateTask, Put
<1>2. CASE UNCHANGED tasks
  BY <1>2
<1>3. ASSUME NEW t \in DOMAIN tasks, NEW q, TransitionTask(t, q)
      PROVE  /\ DOMAIN tasks' = DOMAIN tasks
             /\ \A u \in DOMAIN tasks : u # t => tasks'[u] = tasks[u]
  BY <1>3, TaskAdvances
<1> QED
  BY <1>1, <1>2, <1>3
  DEF Next, vars, CreateRun, TransitionRun, AcquireLease, AcquireRejected,
      HeartbeatLease, ReleaseLease, AppendReceipt

(* Runs stay and keep their identities; a new one is a draft.              *)
LEMMA RunStep ==
  ASSUME [Next]_vars
  PROVE  /\ DOMAIN runs \subseteq DOMAIN runs'
         /\ \A r \in DOMAIN runs' :
              \/ r \in DOMAIN runs /\ runs'[r] = runs[r]
              \/ r \notin DOMAIN runs /\ runs'[r].state = "DRAFT"
              \/ /\ r \in DOMAIN runs
                 /\ \E q \in Transitions(RunTargets) : TransitionRun(r, q)
         /\ \A r \in DOMAIN runs : runs'[r].identity = runs[r].identity
<1>1. ASSUME NEW q \in RunRequests, CreateRun(q)
      PROVE  /\ q.run_id \notin DOMAIN runs
             /\ DOMAIN runs' = DOMAIN runs \cup {q.run_id}
             /\ runs'[q.run_id].state = "DRAFT"
             /\ \A r \in DOMAIN runs : runs'[r] = runs[r]
  BY <1>1 DEF CreateRun, Put
<1>2. CASE UNCHANGED runs
  BY <1>2
<1>3. ASSUME NEW r \in DOMAIN runs, NEW q, TransitionRun(r, q)
      PROVE  /\ DOMAIN runs' = DOMAIN runs
             /\ runs'[r].identity = runs[r].identity
             /\ \A s \in DOMAIN runs : s # r => runs'[s] = runs[s]
  BY <1>3, RunAdvances
<1> QED
  BY <1>1, <1>2, <1>3
  DEF Next, vars, CreateTask, TransitionTask, AcquireLease, AcquireRejected,
      HeartbeatLease, ReleaseLease, AppendReceipt

(* Receipts stay as they are; at most one is added, at the end.            *)
LEMMA ReceiptStep ==
  ASSUME [Next]_vars
  PROVE  \/ UNCHANGED receipts
         \/ \E d \in ReceiptDrafts : AppendReceipt(d)
BY DEF Next, vars, CreateTask, TransitionTask, CreateRun, TransitionRun, AcquireLease,
       AcquireRejected, HeartbeatLease, ReleaseLease

(* What append_receipt adds.                                               *)
LEMMA AppendFacts ==
  ASSUME ReceiptsOK, NEW d, AppendReceipt(d)
  PROVE  /\ Len(receipts') = Len(receipts) + 1
         /\ DOMAIN receipts' = 1..(Len(receipts) + 1)
         /\ \A i \in DOMAIN receipts : receipts'[i] = receipts[i]
         /\ receipts'[Len(receipts) + 1].draft = d
         /\ receipts'[Len(receipts) + 1].previous
              = PreviousReceipt(d.task_id, Len(receipts))
<1> DEFINE row == [draft |-> d, previous |-> PreviousReceipt(d.task_id, Len(receipts))]
<1>1. receipts' = Append(receipts, row)
  BY DEF AppendReceipt
<1>2. row.draft = d /\ row.previous = PreviousReceipt(d.task_id, Len(receipts))
  OBVIOUS
<1> HIDE DEF row
<1> QED BY <1>1, <1>2 DEF ReceiptsOK

-----------------------------------------------------------------------------
(* Started work.                                                           *)

(* A lease is issued to a run that exists, as the run it is.               *)
GrantMatches ==
  \A l \in DOMAIN leases :
    /\ leases[l].grant.run_id \in DOMAIN runs
    /\ leases[l].grant.role_id = runs[leases[l].grant.run_id].identity.role_id
    /\ leases[l].grant.principal_id
         = runs[leases[l].grant.run_id].identity.principal_id

\* Every lease goes on naming an existing run, role and principal.
LEMMA GrantStep == TypeOK /\ GrantMatches /\ [Next]_vars => GrantMatches'
<1> SUFFICES ASSUME TypeOK, GrantMatches, [Next]_vars, NEW l \in DOMAIN leases'
             PROVE  /\ leases'[l].grant.run_id \in DOMAIN runs'
                    /\ leases'[l].grant.role_id
                         = runs'[leases'[l].grant.run_id].identity.role_id
                    /\ leases'[l].grant.principal_id
                         = runs'[leases'[l].grant.run_id].identity.principal_id
  BY DEF GrantMatches
<1>1. CASE l \in DOMAIN leases
  <2>1. leases'[l].grant = leases[l].grant
    BY <1>1, LeaseStep DEF RowEvolves
  <2> QED BY <1>1, <2>1, RunStep DEF GrantMatches
<1>2. CASE l \notin DOMAIN leases
  <2>1. PICK q \in LeaseRequests, now \in Times : AcquireLease(q, now)
    BY <1>2, LeaseStep
  <2>2. /\ DOMAIN leases' = DOMAIN leases \cup {q.lease_id}
        /\ leases'[q.lease_id] = NewLease(q)
    BY <2>1, AcquireFacts DEF TypeOK
  <2>3. l = q.lease_id
    BY <1>2, <2>2
  <2>4. leases'[l].grant = q
    BY <2>2, <2>3, NewLeaseType
  <2> QED BY <2>1, <2>3, <2>4 DEF AcquireLease, LeaseAdmissible
<1> QED BY <1>1, <1>2

(* Only QUEUED leads to LEASED, only LEASED to RUNNING, only RUNNING to    *)
(* CHECKING.                                                               *)
LEMMA StartedFrom ==
  ASSUME NEW row, NEW q, TransitionAllowed(row, q),
         q.next_state \in {"LEASED", "RUNNING", "CHECKING"}
  PROVE  q.next_state = "LEASED" \/ row.state \in {"LEASED", "RUNNING"}
BY DEF TransitionAllowed, CanTransition, ExitStates, OrderedEdges

\* No step takes from started work the lease it started under.
LEMMA StartedStep ==
  ASSUME TypeOK, GrantMatches, StartedWorkWasLeased, [Next]_vars
  PROVE  StartedWorkWasLeased'
<1>1. \A l \in DOMAIN leases :
        l \in DOMAIN leases' /\ leases'[l].grant = leases[l].grant
  BY LeaseStep DEF RowEvolves
<1>2. ASSUME NEW r \in DOMAIN runs', runs'[r].state \in {"LEASED", "RUNNING", "CHECKING"}
      PROVE  \E l \in DOMAIN leases' :
               /\ leases'[l].grant.run_id = r
               /\ leases'[l].grant.role_id = runs'[r].identity.role_id
               /\ leases'[l].grant.principal_id = runs'[r].identity.principal_id
  <2>1. CASE r \in DOMAIN runs /\ runs'[r] = runs[r]
    BY <1>1, <1>2, <2>1 DEF StartedWorkWasLeased
  <2>2. ASSUME NEW q \in Transitions(RunTargets), r \in DOMAIN runs, TransitionRun(r, q)
        PROVE  \E l \in DOMAIN leases :
                 /\ leases[l].grant.run_id = r
                 /\ leases[l].grant.role_id = runs[r].identity.role_id
                 /\ leases[l].grant.principal_id = runs[r].identity.principal_id
    <3>1. CASE q.next_state = "LEASED"
      <4>1. runs'[r].result_receipt_id \in ReceiptBindings(r, "LEASED", q.at)
        BY <2>2, <3>1, RunAdvances
      <4>2. RunLeased(r, q.at)
        BY <4>1 DEF ReceiptBindings
      <4> QED BY <4>2 DEF RunLeased, GrantMatches
    <3>2. CASE q.next_state # "LEASED"
      BY <1>2, <2>2, <3>2, RunAdvances, StartedFrom DEF Advances, StartedWorkWasLeased
    <3> QED BY <3>1, <3>2
  <2> QED BY <1>1, <1>2, <2>1, <2>2, RunStep
<1>3. ASSUME NEW t \in DOMAIN tasks', tasks'[t].state \in {"LEASED", "RUNNING", "CHECKING"}
      PROVE  \E l \in DOMAIN leases' : leases'[l].grant.task_id = t
  <2>1. CASE t \in DOMAIN tasks /\ tasks'[t] = tasks[t]
    BY <1>1, <1>3, <2>1 DEF StartedWorkWasLeased
  <2>2. ASSUME NEW q \in Transitions(TaskTargets), t \in DOMAIN tasks, TransitionTask(t, q)
        PROVE  \E l \in DOMAIN leases : leases[l].grant.task_id = t
    <3>1. CASE q.next_state = "LEASED"
      BY <2>2, <3>1 DEF TransitionTask, TaskLeased
    <3>2. CASE q.next_state # "LEASED"
      BY <1>3, <2>2, <3>2, TaskAdvances, StartedFrom DEF Advances, StartedWorkWasLeased
    <3> QED BY <3>1, <3>2
  <2> QED BY <1>1, <1>3, <2>1, <2>2, TaskStep
<1> QED BY <1>2, <1>3 DEF StartedWorkWasLeased

(* Work that has started was leased, to that very run, role and principal, *)
(* whatever transitions callers ask for in whatever order.                 *)
THEOREM StartedWork == Spec => []StartedWorkWasLeased
<1>1. Init => GrantMatches /\ StartedWorkWasLeased
  BY DEF Init, GrantMatches, StartedWorkWasLeased
<1>2. TypeOK /\ GrantMatches /\ StartedWorkWasLeased /\ [Next]_vars
        => StartedWorkWasLeased'
  BY StartedStep
<1> QED BY <1>1, <1>2, GrantStep, TypeCorrect, PTL DEF Spec

-----------------------------------------------------------------------------
(* The receipt chain.                                                      *)

(* No two receipts share an identifier or a run.                           *)
ReceiptsApart ==
  \A i, j \in DOMAIN receipts : i # j =>
    /\ receipts[i].draft.run_id # receipts[j].draft.run_id
    /\ receipts[i].draft.receipt_id # receipts[j].draft.receipt_id

(* LatestReceipts and PreviousReceipt, of any sequence of receipts.        *)
LatestIn(log, t, n) ==
  {i \in 1..n : /\ log[i].draft.task_id = t
                /\ \A j \in (i + 1)..n : log[j].draft.task_id # t}
OneOf(set) == CHOOSE i \in set : TRUE
PreviousIn(log, t, n) ==
  IF LatestIn(log, t, n) = {} THEN None ELSE log[OneOf(LatestIn(log, t, n))].draft.receipt_id

\* The predecessor in the store is that in its log of receipts.
LEMMA PreviousIsPreviousIn ==
  ASSUME NEW t, NEW n
  PROVE  PreviousReceipt(t, n) = PreviousIn(receipts, t, n)
BY DEF PreviousReceipt, LatestReceipts, PreviousIn, LatestIn, OneOf

(* Each receipt names the latest one of its task before it.                *)
Chained ==
  \A j \in DOMAIN receipts :
    receipts[j].previous = PreviousIn(receipts, receipts[j].draft.task_id, j - 1)

(* A task with a receipt has a latest one, at every length of the chain.   *)
LatestExists ==
  \A n \in 0..Len(receipts) : \A i \in 1..n :
    LatestIn(receipts, receipts[i].draft.task_id, n) # {}

ChainInv == ReceiptsApart /\ Chained /\ LatestExists

(* What was appended later does not change what was the latest receipt.    *)
LEMMA EarlierLatest ==
  ASSUME NEW n \in Nat, NEW t, NEW before, NEW after,
         \A i \in 1..n : after[i] = before[i]
  PROVE  /\ LatestIn(after, t, n) = LatestIn(before, t, n)
         /\ PreviousIn(after, t, n) = PreviousIn(before, t, n)
<1>1. LatestIn(after, t, n) = LatestIn(before, t, n)
  <2>1. \A i \in 1..n : \A j \in (i + 1)..n : j \in 1..n
    OBVIOUS
  <2> QED BY <2>1 DEF LatestIn
<1>2. LatestIn(before, t, n) # {} => OneOf(LatestIn(before, t, n)) \in 1..n
  BY DEF LatestIn, OneOf
<1> QED BY <1>1, <1>2 DEF PreviousIn

\* Only an append touches the receipts, and it keeps the chain.
LEMMA ChainStep == TypeOK /\ ChainInv /\ [Next]_vars => ChainInv'
<1> SUFFICES ASSUME TypeOK, ChainInv, NEW d \in ReceiptDrafts, AppendReceipt(d)
             PROVE  ChainInv'
  <2>1. UNCHANGED receipts /\ ChainInv => ChainInv'
    BY DEF ChainInv, ReceiptsApart, Chained, LatestExists
  <2> QED BY <2>1, ReceiptStep
<1> DEFINE n == Len(receipts)
<1>1. ReceiptsOK /\ n \in Nat /\ DOMAIN receipts = 1..n
  BY ReceiptFacts DEF TypeOK
<1>2. /\ Len(receipts') = n + 1 /\ DOMAIN receipts' = 1..(n + 1)
      /\ \A i \in 1..n : receipts'[i] = receipts[i]
      /\ receipts'[n + 1].draft = d
      /\ receipts'[n + 1].previous = PreviousIn(receipts, d.task_id, n)
  BY <1>1, AppendFacts, PreviousIsPreviousIn
<1> HIDE DEF n
<1>3. \A m \in 0..n : \A t :
        /\ LatestIn(receipts', t, m) = LatestIn(receipts, t, m)
        /\ PreviousIn(receipts', t, m) = PreviousIn(receipts, t, m)
  <2> SUFFICES ASSUME NEW m \in 0..n, NEW t
               PROVE  /\ LatestIn(receipts', t, m) = LatestIn(receipts, t, m)
                      /\ PreviousIn(receipts', t, m) = PreviousIn(receipts, t, m)
    OBVIOUS
  <2>1. m \in Nat /\ \A i \in 1..m : receipts'[i] = receipts[i]
    BY <1>1, <1>2
  <2> QED BY <2>1, EarlierLatest
<1>4. ReceiptsApart'
  BY <1>1, <1>2 DEF ChainInv, ReceiptsApart, AppendReceipt, ReceiptIsNew
<1>5. Chained'
  <2> SUFFICES ASSUME NEW j \in 1..(n + 1)
               PROVE  receipts'[j].previous
                        = PreviousIn(receipts', receipts'[j].draft.task_id, j - 1)
    BY <1>2 DEF Chained
  <2>1. CASE j = n + 1
    <3>1. j - 1 = n /\ n \in 0..n
      BY <1>1, <2>1
    <3> QED BY <1>2, <1>3, <2>1, <3>1
  <2>2. CASE j \in 1..n
    <3>1. j - 1 \in 0..n
      BY <1>1, <2>2
    <3> QED BY <1>1, <1>2, <1>3, <2>2, <3>1 DEF ChainInv, Chained
  <2> QED BY <1>1, <2>1, <2>2
<1>6. LatestExists'
  <2> SUFFICES ASSUME NEW m \in 0..(n + 1), NEW i \in 1..m
               PROVE  LatestIn(receipts', receipts'[i].draft.task_id, m) # {}
    BY <1>2 DEF LatestExists
  <2> DEFINE t == receipts'[i].draft.task_id
  <2>1. CASE m \in 0..n
    <3>1. t = receipts[i].draft.task_id
      BY <1>1, <1>2, <2>1
    <3>2. LatestIn(receipts, t, m) # {}
      BY <2>1, <3>1 DEF ChainInv, LatestExists, n
    <3>3. LatestIn(receipts', t, m) = LatestIn(receipts, t, m)
      <4> HIDE DEF t
      <4> QED BY <1>3, <2>1
    <3> QED BY <3>2, <3>3
  <2>2. CASE m = n + 1 /\ t = d.task_id
    <3>1. n + 1 \in LatestIn(receipts', t, m)
      BY <1>1, <1>2, <2>2 DEF LatestIn
    <3> QED BY <3>1
  <2>3. CASE m = n + 1 /\ t # d.task_id
    <3>1. i \in 1..n /\ t = receipts[i].draft.task_id
      BY <1>1, <1>2, <2>3
    <3>2. PICK k \in 1..n : /\ receipts[k].draft.task_id = t
                            /\ \A j \in (k + 1)..n : receipts[j].draft.task_id # t
      <4>1. LatestIn(receipts, t, n) # {}
        <5>1. n \in 0..Len(receipts)
          BY <1>1 DEF n
        <5> QED BY <3>1, <5>1 DEF ChainInv, LatestExists
      <4> HIDE DEF t
      <4> QED BY <4>1 DEF LatestIn
    <3>3. \A j \in (k + 1)..m : receipts'[j].draft.task_id # t
      BY <1>1, <1>2, <2>3, <3>2
    <3>4. k \in LatestIn(receipts', t, m)
      BY <1>1, <1>2, <2>3, <3>2, <3>3 DEF LatestIn
    <3> QED BY <3>4
  <2> QED BY <1>1, <2>1, <2>2, <2>3
<1> QED BY <1>4, <1>5, <1>6 DEF ChainInv

(* The receipt before the j-th of its task, if an earlier one exists.      *)
LEMMA PreviousIsLatest ==
  ASSUME TypeOK, ChainInv, NEW j \in DOMAIN receipts, NEW i \in DOMAIN receipts,
         i < j, receipts[i].draft.task_id = receipts[j].draft.task_id
  PROVE  \E k \in 1..(j - 1) :
           /\ i <= k
           /\ receipts[k].draft.receipt_id = receipts[j].previous
           /\ receipts[k].draft.task_id = receipts[j].draft.task_id
<1> DEFINE t == receipts[j].draft.task_id
           last == LatestIn(receipts, t, j - 1)
           k == OneOf(last)
<1>1. Len(receipts) \in Nat /\ DOMAIN receipts = 1..Len(receipts)
  BY ReceiptFacts DEF TypeOK
<1>2. j - 1 \in 0..Len(receipts) /\ i \in 1..(j - 1)
  BY <1>1
<1>3. last # {}
  BY <1>2 DEF ChainInv, LatestExists
<1>4. receipts[j].previous = receipts[k].draft.receipt_id
  BY <1>3 DEF ChainInv, Chained, PreviousIn
<1>5. k \in last
  BY <1>3 DEF OneOf
<1> HIDE DEF k
<1>6. k \in 1..(j - 1) /\ receipts[k].draft.task_id = t /\ i <= k
  BY <1>1, <1>2, <1>5 DEF LatestIn
<1> QED BY <1>4, <1>6

\* From the invariant, no two receipts of a task have one predecessor.
LEMMA ChainIsLinear == TypeOK /\ ChainInv => ReceiptChainLinear
<1> SUFFICES ASSUME TypeOK, ChainInv, NEW i \in DOMAIN receipts,
                    NEW j \in DOMAIN receipts, i < j,
                    receipts[i].draft.task_id = receipts[j].draft.task_id
             PROVE  /\ receipts[j].previous # None
                    /\ receipts[i].previous # receipts[j].previous
                    /\ \E k \in 1..(j - 1) :
                         /\ receipts[k].draft.receipt_id = receipts[j].previous
                         /\ receipts[k].draft.task_id = receipts[j].draft.task_id
  <2>1. TypeOK => \A i, j \in DOMAIN receipts : i < j => i # j
    BY ReceiptFacts DEF TypeOK
  <2> QED BY <2>1 DEF ReceiptChainLinear, ChainInv, ReceiptsApart
<1> DEFINE t == receipts[j].draft.task_id
<1>1. Len(receipts) \in Nat /\ DOMAIN receipts = 1..Len(receipts)
  BY ReceiptFacts DEF TypeOK
<1>2. PICK k \in 1..(j - 1) : /\ i <= k
                              /\ receipts[k].draft.receipt_id = receipts[j].previous
                              /\ receipts[k].draft.task_id = t
  BY PreviousIsLatest
<1>3. k \in DOMAIN receipts /\ receipts[k].draft.receipt_id # None
  BY <1>1, ReceiptFacts, ReceiptDraftsAssumption DEF TypeOK
<1>4. receipts[i].previous # receipts[j].previous
  <2> DEFINE last == LatestIn(receipts, t, i - 1)
             h == OneOf(last)
  <2>1. receipts[i].previous = PreviousIn(receipts, t, i - 1)
    BY DEF ChainInv, Chained
  <2>2. CASE last = {}
    BY <1>2, <1>3, <2>1, <2>2 DEF PreviousIn
  <2>3. CASE last # {}
    <3>1. h \in 1..(i - 1) /\ receipts[i].previous = receipts[h].draft.receipt_id
      BY <2>1, <2>3 DEF PreviousIn, LatestIn, OneOf
    <3> HIDE DEF h
    <3>2. h \in DOMAIN receipts /\ h # k
      BY <1>1, <1>2, <3>1
    <3> QED BY <1>2, <1>3, <3>1, <3>2 DEF ChainInv, ReceiptsApart
  <2> QED BY <2>2, <2>3
<1> QED BY <1>2, <1>3, <1>4

(* The receipts of a task form one chain without forks, however the runs   *)
(* of different tasks interleave their appends (append_receipt).           *)
THEOREM ChainsLinear == Spec => []ReceiptChainLinear
<1>1. Init => ChainInv
  BY DEF Init, ChainInv, ReceiptsApart, Chained, LatestExists
<1> QED BY <1>1, ChainStep, ChainIsLinear, TypeCorrect, PTL DEF Spec

-----------------------------------------------------------------------------
(* Final work.                                                             *)

(* A receipt is about a run that exists, as the run it is.                 *)
ReceiptMatchesRun ==
  \A i \in DOMAIN receipts :
    LET d == receipts[i].draft IN
    /\ d.run_id \in DOMAIN runs
    /\ d.role_id = runs[d.run_id].identity.role_id
    /\ d.principal_id = runs[d.run_id].identity.principal_id

\* What receipts say of their runs stays so.
LEMMA ReceiptMatchesStep ==
  TypeOK /\ ReceiptMatchesRun /\ [Next]_vars => ReceiptMatchesRun'
<1> SUFFICES ASSUME TypeOK, ReceiptMatchesRun, [Next]_vars
             PROVE  ReceiptMatchesRun'
  OBVIOUS
<1>1. \A r \in DOMAIN runs : r \in DOMAIN runs' /\ runs'[r].identity = runs[r].identity
  BY RunStep
<1>2. CASE UNCHANGED receipts
  BY <1>1, <1>2 DEF ReceiptMatchesRun
<1>3. ASSUME NEW d \in ReceiptDrafts, AppendReceipt(d)
      PROVE  ReceiptMatchesRun'
  <2>1. /\ Len(receipts) \in Nat /\ DOMAIN receipts = 1..Len(receipts) /\ ReceiptsOK
    BY ReceiptFacts DEF TypeOK
  <2>2. /\ d.run_id \in DOMAIN runs
        /\ d.role_id = runs[d.run_id].identity.role_id
        /\ d.principal_id = runs[d.run_id].identity.principal_id
    BY <1>3 DEF AppendReceipt
  <2>3. \A i \in DOMAIN receipts' : i \in DOMAIN receipts \/ receipts'[i].draft = d
    BY <1>3, <2>1, AppendFacts
  <2>4. \A i \in DOMAIN receipts : receipts'[i] = receipts[i]
    BY <1>3, <2>1, AppendFacts
  <2> QED BY <1>1, <2>2, <2>3, <2>4 DEF ReceiptMatchesRun
<1> QED BY <1>2, <1>3, ReceiptStep

(* A maker's PASS with its evidence was checked independently.             *)
LEMMA EvidenceIsIndependent ==
  ASSUME TypeOK, NEW i \in DOMAIN receipts,
         receipts[i].draft.result = "PASS", receipts[i].draft.role_id # CheckerRole,
         IndependentPass(receipts[i].draft, i - 1),
         PassLeaseEvidence(receipts[i].draft, i - 1)
  PROVE  receipts[i].draft.role_id \in MakerRoles /\ IndependentlyChecked(i)
<1> DEFINE d == receipts[i].draft
<1>1. d.role_id \in MakerRoles /\ Vouchers(d, i - 1) # {}
  BY DEF IndependentPass
<1>2. PICK j \in Vouchers(d, i - 1) : TRUE
  BY <1>1
<1>3. j \in 1..(i - 1) /\ Vouches(receipts[j].draft, d)
  BY <1>2 DEF Vouchers
<1>4. PICK maker \in LeasesOf(d) : \E checker \in LeasesOf(receipts[j].draft) : checker # maker
  BY <1>2 DEF PassLeaseEvidence
<1>5. PICK checker \in LeasesOf(receipts[j].draft) : checker # maker
  BY <1>4
<1>6. /\ maker \in DOMAIN leases /\ checker \in DOMAIN leases
      /\ leases[checker].grant.run_id = receipts[j].draft.run_id
      /\ leases[maker].grant.run_id = d.run_id
  BY <1>4, <1>5 DEF LeasesOf
<1>7. IndependentlyChecked(i)
  BY <1>3, <1>5, <1>6 DEF IndependentlyChecked, Vouches
<1> QED BY <1>1, <1>7

(* What was checked stays checked: receipts and claims are kept.           *)
LEMMA CheckedStays ==
  ASSUME TypeOK, [Next]_vars, NEW i \in DOMAIN receipts
  PROVE  /\ i \in DOMAIN receipts' /\ receipts'[i] = receipts[i]
         /\ IndependentlyChecked(i) => IndependentlyChecked(i)'
<1>1. /\ Len(receipts) \in Nat /\ DOMAIN receipts = 1..Len(receipts) /\ ReceiptsOK
  BY ReceiptFacts DEF TypeOK
<1>2. \A j \in DOMAIN receipts : j \in DOMAIN receipts' /\ receipts'[j] = receipts[j]
  BY <1>1, ReceiptStep, AppendFacts
<1>3. \A l \in DOMAIN leases : l \in DOMAIN leases' /\ leases'[l].grant = leases[l].grant
  BY LeaseStep DEF RowEvolves
<1>4. \A j \in 1..(i - 1) : j \in DOMAIN receipts
  BY <1>1
<1> QED BY <1>2, <1>3, <1>4 DEF IndependentlyChecked

(* What a binding to a final state says.                                   *)
LEMMA FinalBinding ==
  ASSUME TypeOK, ReceiptsApart, ReceiptMatchesRun,
         NEW r \in DOMAIN runs, NEW id \in VerifiedRunReceiptIds(r)
  PROVE  \E i \in DOMAIN receipts :
           /\ receipts[i].draft.receipt_id = id
           /\ \A j \in DOMAIN receipts : receipts[j].draft.run_id = r <=> j = i
           /\ receipts[i].draft.result = "PASS"
           /\ receipts[i].draft.principal_id = runs[r].identity.principal_id
           /\ runs[r].identity.role_id # CheckerRole => IndependentlyChecked(i)
<1>1. PICK i \in VerifiedRunPasses(r) : receipts[i].draft.receipt_id = id
  BY DEF VerifiedRunReceiptIds
<1>2. /\ i \in DOMAIN receipts /\ receipts[i].draft.run_id = r
      /\ receipts[i].draft.result = "PASS"
      /\ IndependentPass(receipts[i].draft, i - 1)
      /\ PassLeaseEvidence(receipts[i].draft, i - 1)
  BY DEF VerifiedRunPasses
<1>3. /\ receipts[i].draft.principal_id = runs[r].identity.principal_id
      /\ receipts[i].draft.role_id = runs[r].identity.role_id
  BY <1>2 DEF ReceiptMatchesRun
<1>4. runs[r].identity.role_id # CheckerRole => IndependentlyChecked(i)
  BY <1>2, <1>3, EvidenceIsIndependent
<1>5. \A j \in DOMAIN receipts : receipts[j].draft.run_id = r <=> j = i
  BY <1>2 DEF ReceiptsApart
<1> QED BY <1>1, <1>2, <1>3, <1>4, <1>5

\* A run that ended verified keeps the receipts it ended on.
LEMMA FinalRunStep ==
  ASSUME TypeOK, ReceiptsApart, ReceiptMatchesRun, FinalRunVerified, [Next]_vars
  PROVE  FinalRunVerified'
<1> SUFFICES ASSUME NEW r \in DOMAIN runs', runs'[r].state \in Finalized
             PROVE  \E i \in DOMAIN receipts' :
                      /\ receipts'[i].draft.receipt_id = runs'[r].result_receipt_id
                      /\ \A j \in DOMAIN receipts' :
                           receipts'[j].draft.run_id = r <=> j = i
                      /\ receipts'[i].draft.result = "PASS"
                      /\ receipts'[i].draft.principal_id = runs'[r].identity.principal_id
                      /\ runs'[r].identity.role_id # CheckerRole
                           => IndependentlyChecked(i)'
  BY DEF FinalRunVerified
<1>1. r \in DOMAIN runs /\ runs'[r].identity = runs[r].identity
  BY RunStep DEF Finalized
<1>2. ASSUME runs'[r] # runs[r]
      PROVE  runs'[r].result_receipt_id \in VerifiedRunReceiptIds(r)
  <2>1. PICK q \in Transitions(RunTargets) : TransitionRun(r, q)
    BY <1>1, <1>2, RunStep
  <2>2. /\ q.next_state \in Finalized
        /\ runs'[r].result_receipt_id \in ReceiptBindings(r, q.next_state, q.at)
    BY <1>1, <2>1, RunAdvances DEF Advances
  <2>3. CASE q.next_state = "RECEIPTED"
    BY <2>2, <2>3 DEF ReceiptBindings
  <2>4. CASE q.next_state = "SUCCEEDED"
    BY <2>2, <2>4 DEF ReceiptBindings
  <2> QED BY <2>2, <2>3, <2>4 DEF Finalized
<1>3. PICK i \in DOMAIN receipts :
        /\ receipts[i].draft.receipt_id = runs'[r].result_receipt_id
        /\ \A j \in DOMAIN receipts : receipts[j].draft.run_id = r <=> j = i
        /\ receipts[i].draft.result = "PASS"
        /\ receipts[i].draft.principal_id = runs[r].identity.principal_id
        /\ runs[r].identity.role_id # CheckerRole => IndependentlyChecked(i)
  <2>1. CASE runs'[r] = runs[r]
    BY <1>1, <2>1 DEF FinalRunVerified
  <2>2. CASE runs'[r] # runs[r]
    BY <1>1, <1>2, <2>2, FinalBinding
  <2> QED BY <2>1, <2>2
<1>4. \A j \in DOMAIN receipts' : receipts'[j].draft.run_id = r <=> j = i
  <2>1. CASE UNCHANGED receipts
    BY <1>3, <2>1
  <2>2. ASSUME NEW d \in ReceiptDrafts, AppendReceipt(d)
        PROVE  \A j \in DOMAIN receipts' : receipts'[j].draft.run_id = r <=> j = i
    <3>1. /\ Len(receipts) \in Nat /\ DOMAIN receipts = 1..Len(receipts) /\ ReceiptsOK
      BY ReceiptFacts DEF TypeOK
    <3>2. d.run_id # r
      BY <1>3, <2>2 DEF AppendReceipt, ReceiptIsNew
    <3>3. \A j \in DOMAIN receipts' : j \in DOMAIN receipts \/ j = Len(receipts) + 1
      BY <2>2, <3>1, AppendFacts
    <3>4. receipts'[Len(receipts) + 1].draft.run_id # r /\ i # Len(receipts) + 1
      BY <2>2, <3>1, <3>2, AppendFacts
    <3> QED BY <1>3, <2>2, <3>1, <3>3, <3>4, AppendFacts
  <2> QED BY <2>1, <2>2, ReceiptStep
<1> QED BY <1>1, <1>3, <1>4, CheckedStays

\* A task that ended verified keeps the receipts it ended on.
LEMMA FinalTaskStep ==
  ASSUME TypeOK, FinalTaskVerified, [Next]_vars
  PROVE  FinalTaskVerified'
<1> SUFFICES ASSUME NEW t \in DOMAIN tasks', tasks'[t].state \in Finalized
             PROVE  \E i \in DOMAIN receipts' :
                      /\ receipts'[i].draft.task_id = t
                      /\ \A j \in DOMAIN receipts' :
                           receipts'[j].draft.task_id = t => j <= i
                      /\ receipts'[i].draft.result = "PASS"
                      /\ receipts'[i].draft.role_id \in MakerRoles
                      /\ IndependentlyChecked(i)'
  BY DEF FinalTaskVerified
<1>1. /\ Len(receipts) \in Nat /\ DOMAIN receipts = 1..Len(receipts) /\ ReceiptsOK
  BY ReceiptFacts DEF TypeOK
<1>2. t \in DOMAIN tasks
  BY TaskStep DEF Finalized
<1>3. PICK i \in DOMAIN receipts :
        /\ receipts[i].draft.task_id = t
        /\ \A j \in DOMAIN receipts : receipts[j].draft.task_id = t => j <= i
        /\ receipts[i].draft.result = "PASS"
        /\ receipts[i].draft.role_id \in MakerRoles
        /\ IndependentlyChecked(i)
  <2>1. CASE tasks'[t] = tasks[t]
    BY <1>2, <2>1 DEF FinalTaskVerified
  <2>2. CASE tasks'[t] # tasks[t]
    <3>1. PICK q \in Transitions(TaskTargets) : TransitionTask(t, q)
      BY <1>2, <2>2, TaskStep
    <3>2. VerifiedTaskPass(t)
      BY <1>2, <3>1, TaskAdvances DEF TransitionTask, Advances
    <3>3. PICK i \in LatestReceipts(t, Len(receipts)) :
            /\ receipts[i].draft.result = "PASS"
            /\ receipts[i].draft.role_id # CheckerRole
            /\ IndependentPass(receipts[i].draft, i - 1)
            /\ PassLeaseEvidence(receipts[i].draft, i - 1)
      BY <3>2 DEF VerifiedTaskPass
    <3>4. /\ i \in DOMAIN receipts /\ receipts[i].draft.task_id = t
          /\ \A j \in DOMAIN receipts : receipts[j].draft.task_id = t => j <= i
      BY <1>1, <3>3 DEF LatestReceipts
    <3> QED BY <3>3, <3>4, EvidenceIsIndependent
  <2> QED BY <2>1, <2>2
<1>4. \A j \in DOMAIN receipts' : receipts'[j].draft.task_id = t => j <= i
  <2>1. CASE UNCHANGED receipts
    BY <1>3, <2>1
  <2>2. ASSUME NEW d \in ReceiptDrafts, AppendReceipt(d)
        PROVE  \A j \in DOMAIN receipts' : receipts'[j].draft.task_id = t => j <= i
    <3>1. tasks'[t] = tasks[t]
      BY <2>2 DEF AppendReceipt
    <3>2. d.task_id # t
      BY <2>2, <3>1 DEF AppendReceipt, TakesReceipts
    <3>3. \A j \in DOMAIN receipts' : j \in DOMAIN receipts \/ receipts'[j].draft = d
      BY <1>1, <2>2, AppendFacts
    <3> QED BY <1>1, <1>3, <2>2, <3>2, <3>3, AppendFacts
  <2> QED BY <2>1, <2>2, ReceiptStep
<1> QED BY <1>3, <1>4, CheckedStays

(* Work is final only on evidence that an independent checker passed, and  *)
(* no later append or acquisition takes that evidence away                 *)
(* (transition_run, transition_task, append_receipt).                      *)
THEOREM FinalWork == Spec => []FinalWorkVerified
<1>1. Init => ChainInv /\ ReceiptMatchesRun /\ FinalWorkVerified
  BY DEF Init, ChainInv, ReceiptsApart, Chained, LatestExists, ReceiptMatchesRun,
         FinalWorkVerified, FinalRunVerified, FinalTaskVerified
<1>2. /\ TypeOK /\ ChainInv /\ ReceiptMatchesRun /\ FinalWorkVerified /\ [Next]_vars
      => FinalWorkVerified'
  BY FinalRunStep, FinalTaskStep DEF ChainInv, FinalWorkVerified
<1> QED BY <1>1, <1>2, ChainStep, ReceiptMatchesStep, TypeCorrect, PTL DEF Spec

-----------------------------------------------------------------------------
(* The ledger.                                                             *)

(* EventsOf, Replays and Numbered, of any sequence of entries.             *)
EntriesOf(ledger, t, r) ==
  {i \in DOMAIN ledger : ledger[i].task_id = t /\ ledger[i].run_id = r}

ReplaysIn(ledger, row, log) ==
  /\ \A i \in log : ledger[i].entity_version \in 2..row.version
  /\ \A v \in 2..row.version : \E i \in log : ledger[i].entity_version = v
  /\ \A i \in log : ledger[i].entity_version = 2 => ledger[i].from_state = "DRAFT"
  /\ \A i, j \in log : i < j =>
       /\ ledger[i].entity_version < ledger[j].entity_version
       /\ ledger[j].entity_version = ledger[i].entity_version + 1 =>
            /\ ledger[j].from_state = ledger[i].to_state
            /\ ledger[j].occurred_at >= ledger[i].occurred_at
  /\ row.version = 1 => row.state = "DRAFT"
  /\ \A i \in log : ledger[i].entity_version = row.version =>
       row.state = ledger[i].to_state /\ row.updated_at = ledger[i].occurred_at

NumberedIn(ledger, log) ==
  /\ \A i, j \in log : i < j => ledger[i].event_sequence < ledger[j].event_sequence
  /\ \A i \in log : \/ ledger[i].event_sequence = 1
                    \/ \E j \in log : ledger[j].event_sequence + 1 = ledger[i].event_sequence

(* Entries are of tasks and runs that exist, a run's of its task.          *)
EventsFiled ==
  \A i \in DOMAIN events :
    /\ events[i].task_id \in DOMAIN tasks
    /\ events[i].run_id # None =>
         /\ events[i].run_id \in DOMAIN runs
         /\ events[i].task_id = runs[events[i].run_id].identity.task_id

TasksReplay ==
  \A t \in DOMAIN tasks : ReplaysIn(events, tasks[t], EntriesOf(events, t, None))

RunsReplay ==
  \A r \in DOMAIN runs :
    ReplaysIn(events, runs[r], EntriesOf(events, runs[r].identity.task_id, r))

(* The number kept for a task is the greatest of its entries.              *)
SequencesKept ==
  /\ \A i \in DOMAIN events :
       /\ events[i].task_id \in DOMAIN eventSequences
       /\ events[i].event_sequence <= eventSequences[events[i].task_id]
  /\ \A t \in DOMAIN eventSequences : \E i \in DOMAIN events :
       events[i].task_id = t /\ events[i].event_sequence = eventSequences[t]

SequencesGapless ==
  \A t : NumberedIn(events, {i \in DOMAIN events : events[i].task_id = t})

LedgerInv ==
  EventsFiled /\ TasksReplay /\ RunsReplay /\ SequencesKept /\ SequencesGapless

(* The ledger is a sequence of well-formed entries.                        *)
LEMMA EventFacts ==
  ASSUME EventsOK
  PROVE  /\ Len(events) \in Nat /\ DOMAIN events = 1..Len(events)
         /\ \A i \in DOMAIN events : events[i].event_sequence \in Nat \ {0}
<1>1. Len(events) \in Nat /\ DOMAIN events = 1..Len(events)
  BY DEF EventsOK
<1>2. \A i \in DOMAIN events : events[i] \in EventRow
  BY <1>1 DEF EventsOK
<1> QED BY <1>1, <1>2 DEF EventRow

(* What record_memory_event adds.                                          *)
LEMMA RecordFacts ==
  ASSUME EventsOK, NEW t, NEW r, NEW row, NEW q, RecordEvent(t, r, row, q)
  PROVE  LET n == Len(events)
             s == (IF t \in DOMAIN eventSequences THEN eventSequences[t] ELSE 0) + 1
         IN  /\ Len(events') = n + 1 /\ DOMAIN events' = 1..(n + 1)
             /\ \A i \in 1..n : events'[i] = events[i]
             /\ events'[n + 1] = NewEvent(t, r, row, q, s)
             /\ DOMAIN eventSequences' = DOMAIN eventSequences \cup {t}
             /\ eventSequences'[t] = s
             /\ \A u \in DOMAIN eventSequences : u # t => eventSequences'[u] = eventSequences[u]
<1> DEFINE s == (IF t \in DOMAIN eventSequences THEN eventSequences[t] ELSE 0) + 1
<1>1. /\ eventSequences' = Put(eventSequences, t, s)
      /\ events' = Append(events, NewEvent(t, r, row, q, s))
  BY DEF RecordEvent
<1> HIDE DEF s
<1>2. /\ Len(events') = Len(events) + 1 /\ DOMAIN events' = 1..(Len(events) + 1)
      /\ \A i \in 1..Len(events) : events'[i] = events[i]
      /\ events'[Len(events) + 1] = NewEvent(t, r, row, q, s)
  BY <1>1 DEF EventsOK
<1>3. /\ DOMAIN eventSequences' = DOMAIN eventSequences \cup {t}
      /\ eventSequences'[t] = s
      /\ \A u \in DOMAIN eventSequences : u # t => eventSequences'[u] = eventSequences[u]
  BY <1>1 DEF Put
<1> QED BY <1>2, <1>3 DEF s

(* An entry for an accepted transition keeps a row explained.              *)
LEMMA ReplayAdvances ==
  ASSUME NEW n \in Nat, NEW log \in SUBSET (1..n), NEW before, NEW after,
         NEW row, NEW next, NEW q, NEW t, NEW r, NEW s,
         row.version \in Nat \ {0}, row.updated_at \in Nat, q.at \in Nat,
         ReplaysIn(before, row, log), Advances(row, next, q),
         \A i \in 1..n : after[i] = before[i],
         after[n + 1] = NewEvent(t, r, row, q, s)
  PROVE  ReplaysIn(after, next, log \cup {n + 1})
<1> DEFINE new == after[n + 1]
<1>1. /\ new.entity_version = row.version + 1 /\ new.from_state = row.state
      /\ new.to_state = q.next_state /\ new.occurred_at = q.at
  BY DEF NewEvent
<1> HIDE DEF new
<1>2. /\ next.state = q.next_state /\ next.version = row.version + 1
      /\ next.updated_at = q.at /\ q.at >= row.updated_at
  BY DEF Advances, TransitionAllowed
<1>3. \A i \in log : /\ after[i] = before[i] /\ i \in 1..n
                     /\ before[i].entity_version \in 2..row.version
  BY DEF ReplaysIn
<1>4. \A v \in 2..next.version : \E i \in log \cup {n + 1} : after[i].entity_version = v
  <2> SUFFICES ASSUME NEW v \in 2..next.version
               PROVE  \E i \in log \cup {n + 1} : after[i].entity_version = v
    OBVIOUS
  <2>1. CASE v = row.version + 1
    BY <1>1, <2>1 DEF new
  <2>2. CASE v \in 2..row.version
    <3>1. PICK i \in log : before[i].entity_version = v
      BY <2>2 DEF ReplaysIn
    <3> QED BY <1>3, <3>1
  <2> QED BY <1>2, <2>1, <2>2
<1>5. \A i \in log \cup {n + 1} :
        /\ after[i].entity_version \in 2..next.version
        /\ after[i].entity_version = 2 => after[i].from_state = "DRAFT"
        /\ after[i].entity_version = next.version =>
             next.state = after[i].to_state /\ next.updated_at = after[i].occurred_at
  <2>1. ASSUME NEW i \in log
        PROVE  /\ after[i].entity_version \in 2..next.version
               /\ after[i].entity_version = 2 => after[i].from_state = "DRAFT"
               /\ after[i].entity_version # next.version
    BY <1>2, <1>3 DEF ReplaysIn
  <2>2. /\ new.entity_version \in 2..next.version
        /\ new.entity_version = 2 => new.from_state = "DRAFT"
        /\ next.state = new.to_state /\ next.updated_at = new.occurred_at
    BY <1>1, <1>2 DEF ReplaysIn
  <2> QED BY <2>1, <2>2 DEF new
<1>6. ASSUME NEW i \in log \cup {n + 1}, NEW j \in log \cup {n + 1}, i < j
      PROVE  /\ after[i].entity_version < after[j].entity_version
             /\ after[j].entity_version = after[i].entity_version + 1 =>
                  /\ after[j].from_state = after[i].to_state
                  /\ after[j].occurred_at >= after[i].occurred_at
  <2>1. CASE i \in log /\ j \in log
    <3>1. after[i] = before[i] /\ after[j] = before[j]
      BY <1>3, <2>1
    <3> QED BY <1>6, <2>1, <3>1 DEF ReplaysIn
  <2>2. CASE i \in log /\ j = n + 1
    <3>1. /\ before[i].entity_version \in 2..row.version
          /\ before[i].entity_version = row.version =>
               row.state = before[i].to_state /\ row.updated_at = before[i].occurred_at
      BY <2>2 DEF ReplaysIn
    <3>2. after[i] = before[i] /\ after[j] = new
      BY <1>3, <2>2 DEF new
    <3> QED BY <1>1, <1>2, <3>1, <3>2
  <2>3. i \in log /\ (j \in log \/ j = n + 1)
    BY <1>3, <1>6
  <2> QED BY <2>1, <2>2, <2>3
<1> QED BY <1>2, <1>4, <1>5, <1>6 DEF ReplaysIn

(* A row stays explained by the entries it has.                            *)
LEMMA ReplayKept ==
  ASSUME NEW before, NEW after, NEW row, NEW log, ReplaysIn(before, row, log),
         \A i \in log : after[i] = before[i]
  PROVE  ReplaysIn(after, row, log)
BY DEF ReplaysIn

(* A new row has no entries.                                               *)
LEMMA ReplayNew ==
  ASSUME NEW ledger, NEW row, row.version = 1, row.state = "DRAFT"
  PROVE  ReplaysIn(ledger, row, {})
BY DEF ReplaysIn

(* The next number of a task keeps its entries numbered.                   *)
LEMMA RecordSequences ==
  ASSUME EventsOK, SequencesKept, SequencesGapless,
         NEW t, NEW r, NEW row, NEW q, RecordEvent(t, r, row, q)
  PROVE  SequencesKept' /\ SequencesGapless'
<1> DEFINE n == Len(events)
           s == (IF t \in DOMAIN eventSequences THEN eventSequences[t] ELSE 0) + 1
<1>1. /\ DOMAIN events' = 1..(n + 1)
      /\ \A i \in 1..n : events'[i] = events[i]
      /\ events'[n + 1] = NewEvent(t, r, row, q, s)
      /\ DOMAIN eventSequences' = DOMAIN eventSequences \cup {t}
      /\ eventSequences'[t] = s
      /\ \A u \in DOMAIN eventSequences : u # t => eventSequences'[u] = eventSequences[u]
  BY RecordFacts
<1>2. /\ n \in Nat /\ DOMAIN events = 1..n
      /\ \A i \in 1..n : events[i].event_sequence \in Nat
      /\ \A u \in DOMAIN eventSequences : eventSequences[u] \in Nat
  BY EventFacts DEF EventsOK
<1>3. /\ s \in Nat /\ (t \in DOMAIN eventSequences => s = eventSequences[t] + 1)
      /\ (t \notin DOMAIN eventSequences => s = 1)
  BY <1>2
<1>4. events'[n + 1].task_id = t /\ events'[n + 1].event_sequence = s
  BY <1>1 DEF NewEvent
<1> HIDE DEF n, s
<1>5. SequencesKept'
  <2>1. ASSUME NEW i \in 1..(n + 1)
        PROVE  /\ events'[i].task_id \in DOMAIN eventSequences'
               /\ events'[i].event_sequence <= eventSequences'[events'[i].task_id]
    <3>1. CASE i = n + 1
      BY <1>1, <1>3, <1>4, <3>1
    <3>2. CASE i \in 1..n
      <4>1. /\ events'[i] = events[i] /\ events[i].task_id \in DOMAIN eventSequences
            /\ events[i].event_sequence <= eventSequences[events[i].task_id]
        BY <1>1, <1>2, <3>2 DEF SequencesKept
      <4>2. eventSequences[events[i].task_id] <= eventSequences'[events[i].task_id]
        BY <1>1, <1>2, <1>3, <4>1
      <4> QED BY <1>1, <1>2, <1>3, <3>2, <4>1, <4>2
    <3> QED BY <1>2, <3>1, <3>2
  <2>2. ASSUME NEW u \in DOMAIN eventSequences'
        PROVE  \E i \in 1..(n + 1) :
                 events'[i].task_id = u /\ events'[i].event_sequence = eventSequences'[u]
    <3>1. CASE u = t
      BY <1>1, <1>2, <1>4, <3>1
    <3>2. CASE u # t
      <4>1. PICK i \in 1..n :
              events[i].task_id = u /\ events[i].event_sequence = eventSequences[u]
        BY <1>1, <1>2, <3>2 DEF SequencesKept
      <4> QED BY <1>1, <1>2, <3>2, <4>1
    <3> QED BY <3>1, <3>2
  <2> QED BY <1>1, <2>1, <2>2 DEF SequencesKept
<1>6. SequencesGapless'
  <2> SUFFICES ASSUME NEW u
               PROVE  NumberedIn(events', {i \in 1..(n + 1) : events'[i].task_id = u})
    BY <1>1 DEF SequencesGapless
  <2> DEFINE old == {i \in 1..n : events[i].task_id = u}
             new == {i \in 1..(n + 1) : events'[i].task_id = u}
  <2>1. NumberedIn(events, old)
    BY <1>2 DEF SequencesGapless
  <2>2. \A i \in old : i \in 1..n /\ events'[i] = events[i] /\ i \in new
    BY <1>1, <1>2
  <2>3. CASE u # t
    <3>1. new = old
      BY <1>1, <1>2, <1>4, <2>3
    <3> QED BY <2>1, <2>2, <3>1 DEF NumberedIn
  <2>4. CASE u = t
    <3>1. new = old \cup {n + 1}
      BY <1>1, <1>2, <1>4, <2>4
    <3>2. \A i \in old : /\ t \in DOMAIN eventSequences
                         /\ events[i].event_sequence \in Nat
                         /\ events[i].event_sequence < s
      BY <1>2, <1>3, <2>4 DEF SequencesKept
    <3>3. s = 1 \/ \E j \in old : events[j].event_sequence + 1 = s
      BY <1>2, <1>3, <2>4 DEF SequencesKept
    <3> HIDE DEF old, new
    <3>4. \A i \in old : i \in 1..n /\ events'[i] = events[i]
      BY <2>2
    <3>5. ASSUME NEW i \in new, NEW j \in new, i < j
          PROVE  events'[i].event_sequence < events'[j].event_sequence
      <4>1. i \in old
        BY <1>2, <3>1, <3>4, <3>5
      <4>2. CASE j \in old
        <5>1. events'[i] = events[i] /\ events'[j] = events[j]
          BY <3>4, <4>1, <4>2
        <5>2. events[i].event_sequence < events[j].event_sequence
          BY <2>1, <3>5, <4>1, <4>2 DEF NumberedIn
        <5> QED BY <5>1, <5>2
      <4>3. CASE j = n + 1
        BY <1>4, <3>2, <3>4, <4>1, <4>3
      <4> QED BY <3>1, <4>2, <4>3
    <3>6. \A i \in new : \/ events'[i].event_sequence = 1
                         \/ \E j \in new : events'[j].event_sequence + 1
                                            = events'[i].event_sequence
      BY <1>4, <2>1, <3>1, <3>3, <3>4 DEF NumberedIn
    <3> QED BY <3>5, <3>6 DEF NumberedIn, new
  <2> QED BY <2>3, <2>4
<1> QED BY <1>5, <1>6

(* The entry recorded for a task or run is of no other.                    *)
LEMMA RecordEntries ==
  ASSUME EventsOK, NEW t, NEW r, NEW row, NEW q, RecordEvent(t, r, row, q),
         NEW u, NEW k
  PROVE  /\ EntriesOf(events, u, k) \in SUBSET (1..Len(events))
         /\ u = t /\ k = r =>
              EntriesOf(events', u, k) = EntriesOf(events, u, k) \cup {Len(events) + 1}
         /\ ~(u = t /\ k = r) => EntriesOf(events', u, k) = EntriesOf(events, u, k)
<1> DEFINE n == Len(events)
           s == (IF t \in DOMAIN eventSequences THEN eventSequences[t] ELSE 0) + 1
<1>1. /\ DOMAIN events' = 1..(n + 1) /\ \A i \in 1..n : events'[i] = events[i]
      /\ events'[n + 1] = NewEvent(t, r, row, q, s)
  BY RecordFacts
<1>2. events'[n + 1].task_id = t /\ events'[n + 1].run_id = r
  BY <1>1 DEF NewEvent
<1>3. n \in Nat /\ DOMAIN events = 1..n
  BY EventFacts
<1> HIDE DEF n, s
<1>4. /\ EntriesOf(events, u, k) \in SUBSET (1..n)
      /\ u = t /\ k = r =>
           EntriesOf(events', u, k) = EntriesOf(events, u, k) \cup {n + 1}
      /\ ~(u = t /\ k = r) => EntriesOf(events', u, k) = EntriesOf(events, u, k)
  BY <1>1, <1>2, <1>3 DEF EntriesOf
<1> QED BY <1>4 DEF n

(* A transition explains the row it changes and leaves the others.         *)
LEMMA RecordReplays ==
  ASSUME EventsOK, NEW t, NEW r, NEW row, NEW next, NEW q, RecordEvent(t, r, row, q),
         row.version \in Nat \ {0}, row.updated_at \in Nat, q.at \in Nat,
         Advances(row, next, q), ReplaysIn(events, row, EntriesOf(events, t, r))
  PROVE  /\ ReplaysIn(events', next, EntriesOf(events', t, r))
         /\ \A other, u, k :
              ReplaysIn(events, other, EntriesOf(events, u, k)) /\ ~(u = t /\ k = r)
                => ReplaysIn(events', other, EntriesOf(events', u, k))
<1> DEFINE n == Len(events)
           s == (IF t \in DOMAIN eventSequences THEN eventSequences[t] ELSE 0) + 1
<1>1. /\ \A i \in 1..n : events'[i] = events[i]
      /\ events'[n + 1] = NewEvent(t, r, row, q, s)
  BY RecordFacts
<1>2. n \in Nat
  BY EventFacts
<1>3. ReplaysIn(events', next, EntriesOf(events', t, r))
  <2>1. /\ EntriesOf(events, t, r) \in SUBSET (1..n)
        /\ EntriesOf(events', t, r) = EntriesOf(events, t, r) \cup {n + 1}
    BY RecordEntries
  <2> HIDE DEF n, s
  <2> QED BY <1>1, <1>2, <2>1, ReplayAdvances
<1>4. ASSUME NEW other, NEW u, NEW k,
             ReplaysIn(events, other, EntriesOf(events, u, k)), ~(u = t /\ k = r)
      PROVE  ReplaysIn(events', other, EntriesOf(events', u, k))
  <2>1. /\ EntriesOf(events', u, k) = EntriesOf(events, u, k)
        /\ \A i \in EntriesOf(events, u, k) : events'[i] = events[i]
    BY <1>1, <1>4, RecordEntries
  <2> QED BY <1>4, <2>1, ReplayKept
<1> QED BY <1>3, <1>4

(* What every transition keeps of the filing.                              *)
LEMMA RecordFiled ==
  ASSUME EventsOK, EventsFiled, NEW t, NEW r, NEW row, NEW q, RecordEvent(t, r, row, q),
         DOMAIN tasks \subseteq DOMAIN tasks', DOMAIN runs \subseteq DOMAIN runs',
         \A k \in DOMAIN runs : runs'[k].identity = runs[k].identity,
         t \in DOMAIN tasks,
         r # None => r \in DOMAIN runs /\ t = runs[r].identity.task_id
  PROVE  EventsFiled'
<1> DEFINE n == Len(events)
           s == (IF t \in DOMAIN eventSequences THEN eventSequences[t] ELSE 0) + 1
<1>1. /\ DOMAIN events' = 1..(n + 1) /\ \A i \in 1..n : events'[i] = events[i]
      /\ events'[n + 1] = NewEvent(t, r, row, q, s)
  BY RecordFacts
<1>2. events'[n + 1].task_id = t /\ events'[n + 1].run_id = r
  BY <1>1 DEF NewEvent
<1>3. n \in Nat /\ DOMAIN events = 1..n
  BY EventFacts
<1> HIDE DEF n, s
<1>4. \A i \in DOMAIN events' : i = n + 1 \/ (i \in DOMAIN events /\ events'[i] = events[i])
  BY <1>1, <1>3
<1> QED BY <1>2, <1>4 DEF EventsFiled

\* A transition of a task is entered.
LEMMA LedgerTask ==
  ASSUME TypeOK, LedgerInv, NEW t \in DOMAIN tasks, NEW q \in Transitions(TaskTargets),
         TransitionTask(t, q)
  PROVE  LedgerInv'
<1>1. /\ RecordEvent(t, None, tasks[t], q) /\ UNCHANGED runs /\ EventsOK
      /\ DOMAIN tasks' = DOMAIN tasks /\ Advances(tasks[t], tasks'[t], q)
      /\ \A u \in DOMAIN tasks : u # t => tasks'[u] = tasks[u]
  BY TaskAdvances DEF TransitionTask, TypeOK
<1>2. tasks[t].version \in Nat \ {0} /\ tasks[t].updated_at \in Nat /\ q.at \in Nat
  BY MaxVersionAssumption, TransitionFacts, TargetsAssumption DEF TypeOK, TasksOK, TaskRow
<1>3. /\ ReplaysIn(events', tasks'[t], EntriesOf(events', t, None))
      /\ \A other, u, k :
           ReplaysIn(events, other, EntriesOf(events, u, k)) /\ ~(u = t /\ k = None)
             => ReplaysIn(events', other, EntriesOf(events', u, k))
  BY <1>1, <1>2, RecordReplays DEF LedgerInv, TasksReplay
<1>4. TasksReplay'
  BY <1>1, <1>3 DEF LedgerInv, TasksReplay
<1>5. RunsReplay'
  <2>1. \A r \in DOMAIN runs : r # None
    BY RunRequestsAssumption DEF TypeOK, RunsOK, RunRow
  <2> QED BY <1>1, <1>3, <2>1 DEF LedgerInv, RunsReplay
<1>6. SequencesKept' /\ SequencesGapless'
  BY <1>1, RecordSequences DEF LedgerInv
<1>7. EventsFiled'
  BY <1>1, RecordFiled DEF LedgerInv
<1> QED BY <1>4, <1>5, <1>6, <1>7 DEF LedgerInv

\* A transition of a run is entered under its task.
LEMMA LedgerRun ==
  ASSUME TypeOK, LedgerInv, NEW r \in DOMAIN runs, NEW q \in Transitions(RunTargets),
         TransitionRun(r, q)
  PROVE  LedgerInv'
<1> DEFINE t == runs[r].identity.task_id
<1>1. /\ RecordEvent(t, r, runs[r], q) /\ UNCHANGED tasks /\ EventsOK
      /\ DOMAIN runs' = DOMAIN runs /\ Advances(runs[r], runs'[r], q)
      /\ runs'[r].identity = runs[r].identity
      /\ \A k \in DOMAIN runs : k # r => runs'[k] = runs[k]
  BY RunAdvances DEF TransitionRun, TypeOK
<1>2. /\ runs[r].version \in Nat \ {0} /\ runs[r].updated_at \in Nat /\ q.at \in Nat
      /\ r # None /\ t \in DOMAIN tasks
  BY MaxVersionAssumption, TransitionFacts, TargetsAssumption, RunRequestsAssumption
  DEF TypeOK, RunsOK, RunRow
<1>3. /\ ReplaysIn(events', runs'[r], EntriesOf(events', t, r))
      /\ \A other, u, k :
           ReplaysIn(events, other, EntriesOf(events, u, k)) /\ ~(u = t /\ k = r)
             => ReplaysIn(events', other, EntriesOf(events', u, k))
  <2>1. ReplaysIn(events, runs[r], EntriesOf(events, t, r))
    BY DEF LedgerInv, RunsReplay
  <2> HIDE DEF t
  <2> QED BY <1>1, <1>2, <2>1, RecordReplays
<1>4. TasksReplay'
  BY <1>1, <1>2, <1>3 DEF LedgerInv, TasksReplay
<1>5. RunsReplay'
  <2>1. \A k \in DOMAIN runs : runs'[k].identity = runs[k].identity
    BY <1>1
  <2>2. ASSUME NEW k \in DOMAIN runs, k # r
        PROVE  ReplaysIn(events', runs'[k], EntriesOf(events', runs[k].identity.task_id, k))
    <3>1. ReplaysIn(events, runs[k], EntriesOf(events, runs[k].identity.task_id, k))
      BY DEF LedgerInv, RunsReplay
    <3> QED BY <1>1, <1>3, <2>2, <3>1
  <2> QED BY <1>1, <1>3, <2>1, <2>2 DEF RunsReplay
<1>6. SequencesKept' /\ SequencesGapless'
  BY <1>1, RecordSequences DEF LedgerInv
<1>7. EventsFiled'
  <2>1. \A k \in DOMAIN runs : runs'[k].identity = runs[k].identity
    BY <1>1
  <2> QED BY <1>1, <1>2, <2>1, RecordFiled DEF LedgerInv
<1> QED BY <1>4, <1>5, <1>6, <1>7 DEF LedgerInv

(* A new task or run has no entries yet.                                   *)
LEMMA LedgerCreate ==
  ASSUME TypeOK, LedgerInv, UNCHANGED <<events, eventSequences>>,
         DOMAIN tasks \subseteq DOMAIN tasks', DOMAIN runs \subseteq DOMAIN runs',
         \A t \in DOMAIN tasks : tasks'[t] = tasks[t],
         \A r \in DOMAIN runs : runs'[r] = runs[r],
         \A t \in DOMAIN tasks' \ DOMAIN tasks :
           tasks'[t].version = 1 /\ tasks'[t].state = "DRAFT",
         \A r \in DOMAIN runs' \ DOMAIN runs :
           r # None /\ runs'[r].version = 1 /\ runs'[r].state = "DRAFT"
  PROVE  LedgerInv'
<1>1. EventsFiled'
  BY DEF LedgerInv, EventsFiled
<1>2. TasksReplay'
  <2> SUFFICES ASSUME NEW t \in DOMAIN tasks'
               PROVE  ReplaysIn(events, tasks'[t], EntriesOf(events, t, None))
    BY DEF TasksReplay
  <2>1. CASE t \in DOMAIN tasks
    BY <2>1 DEF LedgerInv, TasksReplay
  <2>2. CASE t \notin DOMAIN tasks
    <3>1. EntriesOf(events, t, None) = {}
      BY <2>2 DEF LedgerInv, EventsFiled, EntriesOf
    <3> QED BY <2>2, <3>1, ReplayNew
  <2> QED BY <2>1, <2>2
<1>3. RunsReplay'
  <2> SUFFICES ASSUME NEW r \in DOMAIN runs'
               PROVE  ReplaysIn(events, runs'[r],
                                EntriesOf(events, runs'[r].identity.task_id, r))
    BY DEF RunsReplay
  <2>1. CASE r \in DOMAIN runs
    BY <2>1 DEF LedgerInv, RunsReplay
  <2>2. CASE r \notin DOMAIN runs
    <3>1. EntriesOf(events, runs'[r].identity.task_id, r) = {}
      BY <2>2 DEF LedgerInv, EventsFiled, EntriesOf
    <3> QED BY <2>2, <3>1, ReplayNew
  <2> QED BY <2>1, <2>2
<1>4. SequencesKept' /\ SequencesGapless'
  BY DEF LedgerInv, SequencesKept, SequencesGapless
<1> QED BY <1>1, <1>2, <1>3, <1>4 DEF LedgerInv

\* Every step that changes a row is entered, and no other is.
LEMMA LedgerStep == TypeOK /\ LedgerInv /\ [Next]_vars => LedgerInv'
<1> SUFFICES ASSUME TypeOK, LedgerInv, [Next]_vars PROVE LedgerInv'
  OBVIOUS
<1>1. ASSUME NEW q \in TaskRequests, CreateTask(q) PROVE LedgerInv'
  <2> DEFINE row == [state |-> "DRAFT", version |-> 1, updated_at |-> q.created_at]
  <2>1. /\ tasks' = Put(tasks, q.task_id, row) /\ q.task_id \notin DOMAIN tasks
        /\ row.version = 1 /\ row.state = "DRAFT"
        /\ UNCHANGED <<runs, events, eventSequences>>
    BY <1>1 DEF CreateTask
  <2> HIDE DEF row
  <2> QED BY <2>1, LedgerCreate DEF Put
<1>2. ASSUME NEW q \in RunRequests, CreateRun(q) PROVE LedgerInv'
  <2> DEFINE row == [identity |-> q, state |-> "DRAFT", version |-> 1,
                     result_receipt_id |-> None, updated_at |-> q.created_at]
  <2>1. /\ runs' = Put(runs, q.run_id, row) /\ q.run_id \notin DOMAIN runs
        /\ q.run_id # None /\ row.version = 1 /\ row.state = "DRAFT"
        /\ UNCHANGED <<tasks, events, eventSequences>>
    BY <1>2, RunRequestsAssumption DEF CreateRun
  <2> HIDE DEF row
  <2> QED BY <2>1, LedgerCreate DEF Put
<1>3. ASSUME NEW t \in DOMAIN tasks, NEW q \in Transitions(TaskTargets), TransitionTask(t, q)
      PROVE  LedgerInv'
  BY <1>3, LedgerTask
<1>4. ASSUME NEW r \in DOMAIN runs, NEW q \in Transitions(RunTargets), TransitionRun(r, q)
      PROVE  LedgerInv'
  BY <1>4, LedgerRun
<1>5. CASE UNCHANGED <<tasks, runs, events, eventSequences>>
  BY <1>5, LedgerCreate
<1> QED
  BY <1>1, <1>2, <1>3, <1>4, <1>5
  DEF Next, vars, AcquireLease, AcquireRejected, HeartbeatLease, ReleaseLease, AppendReceipt

\* The invariant gives the property: the entries replay to the rows.
LEMMA LedgerSays == LedgerInv => LedgerReplays
BY DEF LedgerInv, TasksReplay, RunsReplay, SequencesGapless, LedgerReplays,
       EventsOf, Replays, Numbered, EntriesOf, ReplaysIn, NumberedIn

(* The ledger explains every row, and numbers the entries of a task across *)
(* its runs, whatever transitions interleave (record_memory_event).        *)
THEOREM LedgerExplains == Spec => []LedgerReplays
<1>1. Init => LedgerInv
  BY DEF Init, LedgerInv, EventsFiled, TasksReplay, RunsReplay, SequencesKept,
         SequencesGapless, NumberedIn
<1> QED BY <1>1, LedgerStep, LedgerSays, TypeCorrect, PTL DEF Spec
=============================================================================
