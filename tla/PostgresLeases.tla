--------------------------- MODULE PostgresLeases ---------------------------
(***************************************************************************)
(* Stage leases in Postgres (crates/sirinx-store/src/agent_runtime.rs,     *)
(* AgentRuntimePostgresStore): acquisition, heartbeat and release as read  *)
(* committed transactions that take row locks and one advisory lock,       *)
(* statement by statement.                                                 *)
(*                                                                         *)
(* Every lease has an agent with at most one transaction under way.  What  *)
(* a transaction writes is seen when it commits; an update that waited for *)
(* a row looks at the row again, as the database does.  The two deadlines  *)
(* of a lease are one, and identities and run states are left to           *)
(* AgentRuntimeStore.                                                      *)
(***************************************************************************)
EXTENDS Naturals

CONSTANTS
  Leases, Tasks, Paths,
  MaxClock,  \* the database clock
  MaxBeats,  \* heartbeats of one lease
  MaxBreaks, \* connections that end with a transaction open
  None

ASSUME PostgresLeasesAssumption ==
  MaxClock \in Nat /\ MaxBeats \in Nat /\ MaxBreaks \in Nat

VARIABLES
  task, paths, \* task and paths of each lease
  row,         \* committed rows
  tx,          \* the open transaction of each lease's agent
  taskLock, rowLock, advisory, \* who holds them
  clock, beats, breaks

vars == <<task, paths, row, tx, taskLock, rowLock, advisory, clock, beats, breaks>>
locks == <<taskLock, rowLock, advisory>>
fixed == <<task, paths>>

Rows == [state : {"active", "expired", "released"}, due : 0..(MaxClock + 1), version : Nat \ {0}]
Transactions ==
  [op : {"acquire", "heartbeat", "release"},
   pc : {"task", "advisory", "expire", "row", "commit"},
   due : 0..(MaxClock + 1), version : Nat \ {0}, since : 0..MaxClock,
   todo : SUBSET Leases, expired : SUBSET Leases]

\* None is no value in use: no lease, no row and no transaction.
ASSUME NoneIsNothing == None \notin Leases \cup Rows \cup Transactions

Init ==
  /\ task \in [Leases -> Tasks] /\ paths \in [Leases -> (SUBSET Paths) \ {{}}]
  /\ row = [l \in Leases |-> None] /\ tx = [l \in Leases |-> None]
  /\ taskLock = [t \in Tasks |-> None] /\ rowLock = [l \in Leases |-> None]
  /\ advisory = None /\ clock = 0 /\ breaks = 0
  /\ beats = [l \in Leases |-> 0]

Active(l) == row[l] # None /\ row[l].state = "active"
Overdue(l) == clock > row[l].due
Conflicts(a, b) == paths[a] \cap paths[b] # {}

At(l, op, pc) == tx[l] # None /\ tx[l].op = op /\ tx[l].pc = pc
Free(holder, l) == holder \in {None, l}
Goes(l, pc) == tx' = [tx EXCEPT ![l].pc = pc]

\* The transaction ends: all it has locked is free.
End(l) ==
  /\ tx' = [tx EXCEPT ![l] = None]
  /\ taskLock' = [t \in Tasks |-> IF taskLock[t] = l THEN None ELSE taskLock[t]]
  /\ rowLock' = [k \in Leases |-> IF rowLock[k] = l THEN None ELSE rowLock[k]]
  /\ advisory' = IF advisory = l THEN None ELSE advisory
Rollback(l) == End(l) /\ UNCHANGED row

-----------------------------------------------------------------------------
(***************************************************************************)
(* acquire_lease                                                           *)
(***************************************************************************)

Acquire(l) ==
  /\ tx[l] = None /\ row[l] = None
  /\ \E due \in (clock + 1)..(MaxClock + 1) :
       tx' = [tx EXCEPT ![l] = [op |-> "acquire", pc |-> "task", due |-> due,
                                version |-> 1, since |-> 0, todo |-> {}, expired |-> {}]]
  /\ UNCHANGED <<fixed, row, locks, clock, beats, breaks>>

\* The task is locked, then the clock read.
AcquireTask(l) ==
  /\ At(l, "acquire", "task") /\ Free(taskLock[task[l]], l)
  /\ IF clock > tx[l].due THEN Rollback(l)
     ELSE /\ taskLock' = [taskLock EXCEPT ![task[l]] = l]
          /\ Goes(l, "advisory") /\ UNCHANGED <<row, rowLock, advisory>>
  /\ UNCHANGED <<fixed, clock, beats, breaks>>

\* Mutant: acquisitions of different tasks do not wait for each other.
AcquireAdvisoryOfTask(l) ==
  /\ At(l, "acquire", "advisory")
  /\ tx' = [tx EXCEPT ![l].pc = "expire", ![l].since = clock,
                          ![l].todo = {k \in Leases : Active(k)}]
  /\ UNCHANGED <<fixed, row, locks, clock, beats, breaks>>

AcquireAdvisory(l) ==
  /\ At(l, "acquire", "advisory") /\ Free(advisory, l)
  /\ advisory' = l
  /\ tx' = [tx EXCEPT ![l].pc = "expire", ![l].since = clock,
                          ![l].todo = {k \in Leases : Active(k)}]
  /\ UNCHANGED <<fixed, row, taskLock, rowLock, clock, beats, breaks>>

\* One row of the update: an overdue row is locked, which may take a wait, and
\* judged again as it then is.
Expire(l, k) ==
  /\ At(l, "acquire", "expire") /\ k \in tx[l].todo
  /\ IF Active(k) /\ Overdue(k)
     THEN /\ Free(rowLock[k], l)
          /\ rowLock' = [rowLock EXCEPT ![k] = l]
          /\ tx' = [tx EXCEPT ![l].todo = @ \ {k}, ![l].expired = @ \cup {k}]
     ELSE /\ tx' = [tx EXCEPT ![l].todo = @ \ {k}] /\ UNCHANGED rowLock
  /\ UNCHANGED <<fixed, row, taskLock, advisory, clock, beats, breaks>>

\* The rows that are active, as this transaction sees them, are compared.
AcquireCheck(l) ==
  /\ At(l, "acquire", "expire") /\ tx[l].todo = {}
  /\ IF \E k \in Leases \ tx[l].expired : Active(k) /\ Conflicts(k, l)
     THEN Rollback(l)
     ELSE Goes(l, "commit") /\ UNCHANGED <<row, locks>>
  /\ UNCHANGED <<fixed, clock, beats, breaks>>

AcquireCommit(l) ==
  /\ At(l, "acquire", "commit")
  /\ row' = [k \in Leases |->
       IF k = l THEN [state |-> "active", due |-> tx[l].due, version |-> 1]
       ELSE IF k \in tx[l].expired
            THEN [row[k] EXCEPT !.state = "expired", !.version = @ + 1]
       ELSE row[k]]
  /\ End(l)
  /\ UNCHANGED <<fixed, clock, beats, breaks>>

-----------------------------------------------------------------------------
(***************************************************************************)
(* heartbeat_lease and release_lease                                       *)
(***************************************************************************)

\* A heartbeat names a new due, a release none: the one of the row stands.
Dues(l, op) == IF op = "heartbeat" THEN (clock + 1)..(MaxClock + 1) ELSE {row[l].due}

\* The agent names the version it has last seen and, for a heartbeat, a due.
Change(l, op) ==
  /\ tx[l] = None /\ row[l] # None /\ row[l].state # "released"
  /\ op = "heartbeat" => beats[l] < MaxBeats
  /\ beats' = IF op = "heartbeat" THEN [beats EXCEPT ![l] = @ + 1] ELSE beats
  /\ \E due \in Dues(l, op) :
       tx' = [tx EXCEPT ![l] = [op |-> op, pc |-> "task", due |-> due,
                                version |-> row[l].version, since |-> 0, todo |-> {},
                                expired |-> {}]]
  /\ UNCHANGED <<fixed, row, locks, clock, breaks>>

Changing(l, pc) == At(l, "heartbeat", pc) \/ At(l, "release", pc)

\* Mutant: the lease is locked before its task.
TaskAfterRow(l) ==
  /\ Changing(l, "task")
  /\ IF rowLock[l] # l
     THEN /\ Free(rowLock[l], l) /\ rowLock' = [rowLock EXCEPT ![l] = l]
          /\ UNCHANGED <<tx, taskLock>>
     ELSE /\ Free(taskLock[task[l]], l)
          /\ taskLock' = [taskLock EXCEPT ![task[l]] = l]
          /\ Goes(l, "row") /\ UNCHANGED rowLock
  /\ UNCHANGED <<fixed, row, advisory, clock, beats, breaks>>

ChangeTask(l) ==
  /\ Changing(l, "task") /\ Free(taskLock[task[l]], l)
  /\ taskLock' = [taskLock EXCEPT ![task[l]] = l]
  /\ Goes(l, "row")
  /\ UNCHANGED <<fixed, row, rowLock, advisory, clock, beats, breaks>>

\* The lease is as its agent has seen it and in time, and is not cut short.
Mutable(l) ==
  /\ Active(l) /\ ~Overdue(l) /\ row[l].version = tx[l].version
  /\ tx[l].op = "heartbeat" => tx[l].due > clock /\ tx[l].due >= row[l].due

\* The lease is locked, read and compared with the clock and the version.
ChangeRow(l) ==
  /\ Changing(l, "row") /\ Free(rowLock[l], l)
  /\ IF ~Mutable(l) THEN Rollback(l)
     ELSE /\ rowLock' = [rowLock EXCEPT ![l] = l]
          /\ Goes(l, "commit") /\ UNCHANGED <<row, taskLock, advisory>>
  /\ UNCHANGED <<fixed, clock, beats, breaks>>

ChangeCommit(l) ==
  /\ Changing(l, "commit")
  /\ row' = [row EXCEPT ![l] =
       IF tx[l].op = "release"
       THEN [row[l] EXCEPT !.state = "released", !.version = row[l].version + 1]
       ELSE [row[l] EXCEPT !.due = tx[l].due, !.version = row[l].version + 1]]
  /\ End(l)
  /\ UNCHANGED <<fixed, clock, beats, breaks>>

-----------------------------------------------------------------------------
Tick ==
  /\ clock < MaxClock /\ clock' = clock + 1
  /\ UNCHANGED <<fixed, row, tx, locks, beats, breaks>>

\* The connection ends and the database rolls back.
Break(l) ==
  /\ tx[l] # None /\ breaks < MaxBreaks /\ breaks' = breaks + 1
  /\ Rollback(l)
  /\ UNCHANGED <<fixed, clock, beats>>

Statement(l) ==
  \/ AcquireTask(l) \/ AcquireAdvisory(l) \/ AcquireCheck(l) \/ AcquireCommit(l)
  \/ \E k \in Leases : Expire(l, k)
  \/ ChangeTask(l) \/ ChangeRow(l) \/ ChangeCommit(l)

Next ==
  \/ \E l \in Leases :
       Acquire(l) \/ Change(l, "heartbeat") \/ Change(l, "release") \/ Statement(l) \/ Break(l)
  \/ Tick

Spec == Init /\ [][Next]_vars

-----------------------------------------------------------------------------
(***************************************************************************)
(* Properties                                                              *)
(***************************************************************************)

\* Rows are leases, and locks are held by open transactions.
TypeOK ==
  /\ row \in [Leases -> Rows \cup {None}]
  /\ tx \in [Leases -> Transactions \cup {None}]
  /\ \A t \in Tasks : taskLock[t] # None => tx[taskLock[t]] # None
  /\ \A l \in Leases : rowLock[l] # None => tx[rowLock[l]] # None
  /\ advisory # None => tx[advisory] # None
  /\ clock \in 0..MaxClock

\* No two active leases claim a path, for all the acquisitions of different
\* tasks at once: no index covers overlapping paths, only the advisory lock.
ExactOwnership ==
  \A a, b \in Leases : a # b /\ Active(a) /\ Active(b) => ~Conflicts(a, b)

\* No acquisition is refused for a lease that was overdue when it began to look,
\* be it one of another task or one that was inserted too late.
OverdueNeverBlocks ==
  \A l, k \in Leases :
    /\ At(l, "acquire", "expire") /\ tx[l].todo = {} /\ k \notin tx[l].expired
    /\ Active(k) /\ Conflicts(k, l)
    => row[k].due >= tx[l].since

\* A lease expires only if it is overdue by its last committed heartbeat.
OnlyOverdueExpire ==
  [][\A l \in Leases : Active(l) /\ row'[l].state = "expired" => Overdue(l)]_vars

\* Who waits for whom.
WaitsFor(l, k) ==
  \/ tx[l] # None /\ tx[l].pc = "task" /\ taskLock[task[l]] = k
  \/ At(l, "acquire", "advisory") /\ advisory = k
  \/ /\ At(l, "acquire", "expire")
     /\ \E j \in tx[l].todo : Active(j) /\ Overdue(j) /\ rowLock[j] = k
  \/ Changing(l, "row") /\ rowLock[l] = k

\* No transactions wait in a circle: everyone takes the task before the
\* advisory lock and both before a lease, although an acquisition updates
\* leases of tasks it has not locked.
NoCircularWait ==
  \A waiting \in (SUBSET Leases) \ {{}} :
    \E l \in waiting : \A k \in waiting \ {l} : ~WaitsFor(l, k)

\* Types, and nothing stands in a request's way for ever: an overdue lease is
\* no conflict, and transactions do not wait in a circle (acquire_lease).
LocksSound == TypeOK /\ OverdueNeverBlocks /\ NoCircularWait
=============================================================================
