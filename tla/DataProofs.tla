----------------------------- MODULE DataProofs -----------------------------
(***************************************************************************)
(* Theorems about what lives in a database: the leases of the agent        *)
(* runtime in Postgres, the leads of the Rust web service and of the       *)
(* public website, its administration and the knowledge sync at the edge,  *)
(* for any number of rows, callers, requests and faults, and what they say *)
(* of the parts composed in DataStores.                                    *)
(***************************************************************************)
EXTENDS DataStores, FiniteSetTheorems, TLAPS

-----------------------------------------------------------------------------
(***************************************************************************)
(* The Postgres leases: the inductive invariant                            *)
(***************************************************************************)

Typed ==
  /\ task \in [Leases -> Tasks] /\ paths \in [Leases -> SUBSET Paths]
  /\ row \in [Leases -> Rows \cup {None}]
  /\ tx \in [Leases -> Transactions \cup {None}]
  /\ taskLock \in [Tasks -> Leases \cup {None}]
  /\ rowLock \in [Leases -> Leases \cup {None}]
  /\ advisory \in Leases \cup {None}
  /\ clock \in 0..MaxClock

\* The statements of an operation, and which of them have marked leases.
Phases ==
  \A l \in Leases : tx[l] # None =>
    /\ tx[l].op = "acquire" => tx[l].pc # "row"
    /\ tx[l].op # "acquire" => tx[l].pc \notin {"advisory", "expire"}
    /\ tx[l].op # "acquire" \/ tx[l].pc \in {"task", "advisory"}
         => tx[l].expired = {}

\* A task is locked by one of its leases, whose transaction is past it.
TasksHeld ==
  \A t \in Tasks, l \in Leases : taskLock[t] = l =>
    task[l] = t /\ tx[l] # None /\ tx[l].pc # "task"

Owns(l) == At(l, "acquire", "expire") \/ At(l, "acquire", "commit")

\* The advisory lock is held exactly by the acquisition past it.
AdvisoryHeld == \A l \in Leases : advisory = l <=> Owns(l)

\* A row is locked exactly by the acquisition that marked it, or by its own
\* agent on the point of committing a change.
RowsHeld ==
  \A k, l \in Leases : rowLock[k] = l <=>
    tx[l] # None /\ (k \in tx[l].expired \/ (k = l /\ Changing(l, "commit")))

\* What is marked is active and overdue.
Marked ==
  \A l, k \in Leases : tx[l] # None /\ k \in tx[l].expired =>
    Active(k) /\ Overdue(k)

\* An active lease an acquisition has passed over was not overdue when the
\* acquisition began to look.
Looked ==
  \A l \in Leases : At(l, "acquire", "expire") =>
    /\ tx[l].since <= clock
    /\ \A k \in Leases :
         Active(k) => (k \in tx[l].todo \cup tx[l].expired) \/ row[k].due >= tx[l].since

\* Before it commits, an acquisition has marked every lease in its way.
Cleared ==
  \A l \in Leases : At(l, "acquire", "commit") =>
    \A k \in Leases : Active(k) /\ Conflicts(k, l) => k \in tx[l].expired

\* A change on the point of being committed is of an active row, and does not
\* cut it short.
Confirmed ==
  \A l \in Leases : Changing(l, "commit") =>
    Active(l) /\ (tx[l].op = "heartbeat" => tx[l].due >= row[l].due)

IInv ==
  /\ Typed /\ Phases /\ TasksHeld /\ AdvisoryHeld /\ RowsHeld
  /\ Marked /\ Looked /\ Cleared /\ Confirmed /\ ExactOwnership

\* At first no transaction is open.
LEMMA InitInv == Init => IInv
BY PostgresLeasesAssumption, NoneIsNothing
DEF Init, IInv, Typed, Phases, TasksHeld, AdvisoryHeld, RowsHeld, Marked, Looked,
    Cleared, Confirmed, ExactOwnership, Owns, At, Changing, Active

-----------------------------------------------------------------------------
(***************************************************************************)
(* The Postgres leases: transactions                                       *)
(***************************************************************************)

\* One statement takes a transaction further and leaves the rest of it.
LEMMA Moved ==
  ASSUME Typed, NEW l \in Leases, tx[l] # None,
         NEW pc \in {"task", "advisory", "expire", "row", "commit"}, Goes(l, pc)
  PROVE  /\ tx' \in [Leases -> Transactions \cup {None}]
         /\ tx'[l] # None /\ tx'[l].pc = pc /\ tx'[l].op = tx[l].op
         /\ tx'[l].due = tx[l].due /\ tx'[l].since = tx[l].since
         /\ tx'[l].todo = tx[l].todo /\ tx'[l].expired = tx[l].expired
         /\ \A k \in Leases : k # l => tx'[k] = tx[k]
<1> DEFINE next == [tx[l] EXCEPT !.pc = pc]
<1>1. tx[l] \in Transactions
  BY DEF Typed
<1>2. /\ next \in Transactions /\ next.pc = pc /\ next.op = tx[l].op
      /\ next.due = tx[l].due /\ next.since = tx[l].since
      /\ next.todo = tx[l].todo /\ next.expired = tx[l].expired
  BY <1>1 DEF Transactions
<1>3. tx' = [tx EXCEPT ![l] = next]
  BY DEF Goes
<1> HIDE DEF next
<1> QED BY <1>2, <1>3, NoneIsNothing DEF Typed

\* The end of a transaction frees its locks, and keeps what is said of the
\* locks of the others.
LEMMA Ended ==
  ASSUME Typed, Phases, TasksHeld, AdvisoryHeld, RowsHeld,
         NEW l \in Leases, End(l), UNCHANGED task
  PROVE  /\ tx' \in [Leases -> Transactions \cup {None}] /\ tx'[l] = None
         /\ \A k \in Leases : k # l => tx'[k] = tx[k]
         /\ taskLock' \in [Tasks -> Leases \cup {None}]
         /\ rowLock' \in [Leases -> Leases \cup {None}]
         /\ advisory' \in Leases \cup {None}
         /\ Phases' /\ TasksHeld' /\ AdvisoryHeld' /\ RowsHeld'
<1>1. /\ tx' \in [Leases -> Transactions \cup {None}] /\ tx'[l] = None
      /\ \A k \in Leases : k # l => tx'[k] = tx[k]
  BY DEF Typed, End
<1>2. /\ taskLock' \in [Tasks -> Leases \cup {None}]
      /\ rowLock' \in [Leases -> Leases \cup {None}]
      /\ advisory' \in Leases \cup {None}
  BY DEF Typed, End
<1>3. Phases'
  BY <1>1 DEF Phases
<1>4. TasksHeld'
  BY <1>1, NoneIsNothing DEF TasksHeld, End
<1>5. AdvisoryHeld'
  BY <1>1, NoneIsNothing DEF AdvisoryHeld, Owns, At, End
<1>6. RowsHeld'
  BY <1>1, NoneIsNothing DEF RowsHeld, Changing, At, End
<1> QED BY <1>1, <1>2, <1>3, <1>4, <1>5, <1>6

\* A transaction that is rolled back, by the code or by the database.
LEMMA RolledBack ==
  ASSUME IInv, NEW l \in Leases, Rollback(l), UNCHANGED <<fixed, clock>>
  PROVE  IInv'
<1>1. UNCHANGED <<task, paths, row, clock>>
  BY DEF Rollback, fixed
<1>2. /\ tx' \in [Leases -> Transactions \cup {None}] /\ tx'[l] = None
      /\ \A k \in Leases : k # l => tx'[k] = tx[k]
  BY <1>1, Ended DEF IInv, Rollback
<1>3. (Typed /\ Phases /\ TasksHeld /\ AdvisoryHeld /\ RowsHeld)'
  BY <1>1, Ended DEF IInv, Rollback, Typed
<1>4. (Marked /\ Looked)'
  BY <1>1, <1>2 DEF IInv, Marked, Looked, At, Active, Overdue
<1>5. (Cleared /\ Confirmed /\ ExactOwnership)'
  BY <1>1, <1>2
  DEF IInv, Cleared, Confirmed, ExactOwnership, At, Changing, Active, Conflicts
<1> QED BY <1>3, <1>4, <1>5 DEF IInv

-----------------------------------------------------------------------------
(***************************************************************************)
(* acquire_lease, statement by statement                                   *)
(***************************************************************************)

\* A new transaction holds nothing and has marked nothing.
LEMMA AcquireInv ==
  ASSUME IInv, NEW l \in Leases, Acquire(l)
  PROVE  IInv'
<1>1. UNCHANGED <<task, paths, row, taskLock, rowLock, advisory, clock>>
  BY DEF Acquire, fixed, locks
<1>2. /\ tx' \in [Leases -> Transactions \cup {None}] /\ tx[l] = None
      /\ tx'[l].op = "acquire" /\ tx'[l].pc = "task" /\ tx'[l].expired = {}
      /\ \A k \in Leases : k # l => tx'[k] = tx[k]
  BY PostgresLeasesAssumption DEF IInv, Typed, Transactions, Acquire
<1>3. (Typed /\ Phases /\ TasksHeld)'
  BY <1>1, <1>2 DEF IInv, Typed, Phases, TasksHeld
<1>4. (AdvisoryHeld /\ RowsHeld)'
  BY <1>1, <1>2 DEF IInv, AdvisoryHeld, Owns, RowsHeld, At, Changing
<1>5. (Marked /\ Looked)'
  BY <1>1, <1>2 DEF IInv, Marked, Looked, At, Active, Overdue
<1>6. (Cleared /\ Confirmed /\ ExactOwnership)'
  BY <1>1, <1>2
  DEF IInv, Cleared, Confirmed, ExactOwnership, At, Changing, Active, Conflicts
<1> QED BY <1>3, <1>4, <1>5, <1>6 DEF IInv

\* The task is locked, or the transaction ends.
LEMMA AcquireTaskInv ==
  ASSUME IInv, NEW l \in Leases, AcquireTask(l)
  PROVE  IInv'
<1>1. CASE clock > tx[l].due
  BY <1>1, RolledBack DEF AcquireTask
<1>2. CASE ~(clock > tx[l].due)
  <2>1. /\ UNCHANGED <<task, paths, row, rowLock, advisory, clock>>
        /\ taskLock' = [taskLock EXCEPT ![task[l]] = l]
    BY <1>2 DEF AcquireTask, fixed
  <2>2. tx[l] # None /\ tx[l].op = "acquire" /\ tx[l].pc = "task"
    BY DEF AcquireTask, At
  <2>3. /\ tx' \in [Leases -> Transactions \cup {None}] /\ tx'[l] # None
        /\ tx'[l].op = "acquire" /\ tx'[l].pc = "advisory"
        /\ tx'[l].expired = tx[l].expired
        /\ \A k \in Leases : k # l => tx'[k] = tx[k]
    BY <1>2, <2>2, Moved DEF IInv, AcquireTask
  <2>4. (Typed /\ Phases /\ TasksHeld)'
    BY <2>1, <2>2, <2>3, NoneIsNothing DEF IInv, Typed, Phases, TasksHeld
  <2>5. (AdvisoryHeld /\ RowsHeld)'
    BY <2>1, <2>2, <2>3 DEF IInv, AdvisoryHeld, Owns, RowsHeld, At, Changing
  <2>6. (Marked /\ Looked)'
    BY <2>1, <2>2, <2>3 DEF IInv, Marked, Looked, At, Active, Overdue
  <2>7. (Cleared /\ Confirmed /\ ExactOwnership)'
    BY <2>1, <2>2, <2>3
    DEF IInv, Cleared, Confirmed, ExactOwnership, At, Changing, Active, Conflicts
  <2> QED BY <2>4, <2>5, <2>6, <2>7 DEF IInv
<1> QED BY <1>1, <1>2

\* With the advisory lock, the active rows of that moment are to be looked at.
LEMMA AcquireAdvisoryInv ==
  ASSUME IInv, NEW l \in Leases, AcquireAdvisory(l)
  PROVE  IInv'
<1> DEFINE next == [tx[l] EXCEPT !.pc = "expire", !.since = clock,
                                 !.todo = {k \in Leases : Active(k)}]
<1>1. /\ UNCHANGED <<task, paths, row, taskLock, rowLock, clock>>
      /\ advisory' = l /\ advisory \in {None, l}
  BY DEF AcquireAdvisory, fixed, Free
<1>2. /\ tx[l] \in Transactions /\ tx[l] # None
      /\ tx[l].op = "acquire" /\ tx[l].pc = "advisory"
  BY DEF IInv, Typed, AcquireAdvisory, At
<1>3. /\ next \in Transactions /\ next.op = "acquire" /\ next.pc = "expire"
      /\ next.since = clock /\ next.todo = {k \in Leases : Active(k)}
      /\ next.expired = tx[l].expired
  BY <1>2 DEF IInv, Typed, Transactions
<1>4. tx' = [tx EXCEPT ![l] = next]
  BY DEF AcquireAdvisory
<1> HIDE DEF next
<1>5. /\ tx' \in [Leases -> Transactions \cup {None}]
      /\ tx'[l] = next /\ next # None
      /\ \A k \in Leases : k # l => tx'[k] = tx[k]
  BY <1>3, <1>4, NoneIsNothing DEF IInv, Typed
<1>6. (Typed /\ Phases /\ TasksHeld)'
  BY <1>1, <1>2, <1>3, <1>5 DEF IInv, Typed, Phases, TasksHeld
<1>7. (AdvisoryHeld /\ RowsHeld)'
  BY <1>1, <1>2, <1>3, <1>5, NoneIsNothing
  DEF IInv, AdvisoryHeld, Owns, RowsHeld, At, Changing
<1>8. Marked'
  BY <1>1, <1>2, <1>3, <1>5 DEF IInv, Marked, Active, Overdue
<1>9. Looked'
  BY <1>1, <1>2, <1>3, <1>5 DEF IInv, Typed, Looked, At, Active
<1>10. (Cleared /\ Confirmed /\ ExactOwnership)'
  BY <1>1, <1>2, <1>3, <1>5
  DEF IInv, Cleared, Confirmed, ExactOwnership, At, Changing, Active, Conflicts
<1> QED BY <1>6, <1>7, <1>8, <1>9, <1>10 DEF IInv

\* A row is marked, or passed over: it is not active any more, or not overdue.
LEMMA ExpireInv ==
  ASSUME IInv, NEW l \in Leases, NEW k \in Leases, Expire(l, k)
  PROVE  IInv'
<1> DEFINE marks == Active(k) /\ Overdue(k)
           next == [tx[l] EXCEPT !.todo = @ \ {k},
                                 !.expired = IF marks THEN @ \cup {k} ELSE @]
<1>1. /\ UNCHANGED <<task, paths, row, taskLock, advisory, clock>>
      /\ rowLock' = IF marks THEN [rowLock EXCEPT ![k] = l] ELSE rowLock
      /\ marks => rowLock[k] \in {None, l}
  BY DEF Expire, fixed, Free
<1>2. /\ tx[l] \in Transactions /\ tx[l] # None /\ k \in tx[l].todo
      /\ tx[l].op = "acquire" /\ tx[l].pc = "expire"
  BY DEF IInv, Typed, Expire, At
<1>3. /\ next \in Transactions /\ next.op = "acquire" /\ next.pc = "expire"
      /\ next.since = tx[l].since /\ next.todo = tx[l].todo \ {k}
      /\ next.expired = IF marks THEN tx[l].expired \cup {k} ELSE tx[l].expired
  <2> HIDE DEF marks
  <2> QED BY <1>2 DEF Transactions
<1>4. tx' = [tx EXCEPT ![l] = next]
  BY <1>2 DEF Expire, IInv, Typed, Transactions
<1> HIDE DEF next
<1>5. /\ tx' \in [Leases -> Transactions \cup {None}]
      /\ tx'[l] = next /\ next # None
      /\ \A j \in Leases : j # l => tx'[j] = tx[j]
  BY <1>3, <1>4, NoneIsNothing DEF IInv, Typed
<1>6. (Typed /\ Phases /\ TasksHeld)'
  BY <1>1, <1>2, <1>3, <1>5 DEF IInv, Typed, Phases, TasksHeld
<1>7. AdvisoryHeld'
  BY <1>1, <1>2, <1>3, <1>5 DEF IInv, AdvisoryHeld, Owns, At
<1>8. RowsHeld'
  BY <1>1, <1>2, <1>3, <1>5, NoneIsNothing DEF IInv, Typed, RowsHeld, At, Changing
<1>9. Marked'
  BY <1>1, <1>2, <1>3, <1>5 DEF IInv, Marked, Active, Overdue
<1>10. Looked'
  <2>0. ASSUME NEW a \in Leases, At(a, "acquire", "expire")'
        PROVE  (tx[a].since <= clock)'
    BY <2>0, <1>1, <1>2, <1>3, <1>5 DEF IInv, Looked, At
  <2> SUFFICES ASSUME NEW a \in Leases, At(a, "acquire", "expire")',
                      NEW b \in Leases, Active(b)'
               PROVE  \/ (b \in tx[a].todo \cup tx[a].expired)'
                      \/ (row[b].due >= tx[a].since)'
    BY <2>0 DEF Looked
  <2>1. CASE a # l
    BY <2>1, <1>1, <1>5 DEF IInv, Looked, At, Active
  <2>2. CASE a = l /\ b # k
    BY <2>2, <1>1, <1>2, <1>3, <1>5 DEF IInv, Looked, At, Active
  <2>3. CASE a = l /\ b = k
    <3>1. Active(k) /\ tx[l].since \in Nat /\ clock \in Nat /\ row[k].due \in Nat
      BY <2>3, <1>1, <1>2, PostgresLeasesAssumption
      DEF IInv, Typed, Rows, Transactions, Active
    <3>2. tx[l].since <= clock
      BY <1>2 DEF IInv, Looked, At
    <3>3. tx'[a].since = tx[l].since /\ tx'[a].expired = next.expired
      BY <2>3, <1>3, <1>5
    <3>4. CASE Overdue(k)
      BY <2>3, <3>1, <3>2, <3>3, <3>4, <1>1, <1>3
    <3>5. CASE ~Overdue(k)
      BY <2>3, <3>1, <3>2, <3>3, <3>5, <1>1 DEF Overdue
    <3> QED BY <3>4, <3>5
  <2> QED BY <2>1, <2>2, <2>3
<1>11. (Cleared /\ Confirmed /\ ExactOwnership)'
  BY <1>1, <1>2, <1>3, <1>5
  DEF IInv, Cleared, Confirmed, ExactOwnership, At, Changing, Active, Conflicts
<1> QED BY <1>6, <1>7, <1>8, <1>9, <1>10, <1>11 DEF IInv

\* With every active row looked at, what has not been marked is not in the way.
LEMMA AcquireCheckInv ==
  ASSUME IInv, NEW l \in Leases, AcquireCheck(l)
  PROVE  IInv'
<1> DEFINE blocked == \E k \in Leases \ tx[l].expired : Active(k) /\ Conflicts(k, l)
<1>1. CASE blocked
  BY <1>1, RolledBack DEF AcquireCheck
<1>2. CASE ~blocked
  <2>1. UNCHANGED <<task, paths, row, taskLock, rowLock, advisory, clock>>
    BY <1>2 DEF AcquireCheck, fixed, locks
  <2>2. tx[l] # None /\ tx[l].op = "acquire" /\ tx[l].pc = "expire"
    BY DEF AcquireCheck, At
  <2>3. /\ tx' \in [Leases -> Transactions \cup {None}] /\ tx'[l] # None
        /\ tx'[l].op = "acquire" /\ tx'[l].pc = "commit"
        /\ tx'[l].expired = tx[l].expired
        /\ \A k \in Leases : k # l => tx'[k] = tx[k]
    BY <1>2, <2>2, Moved DEF IInv, AcquireCheck
  <2>4. (Typed /\ Phases /\ TasksHeld)'
    BY <2>1, <2>2, <2>3 DEF IInv, Typed, Phases, TasksHeld
  <2>5. (AdvisoryHeld /\ RowsHeld)'
    BY <2>1, <2>2, <2>3 DEF IInv, AdvisoryHeld, Owns, RowsHeld, At, Changing
  <2>6. (Marked /\ Looked)'
    BY <2>1, <2>2, <2>3 DEF IInv, Marked, Looked, At, Active, Overdue
  <2>7. (Cleared /\ Confirmed /\ ExactOwnership)'
    BY <1>2, <2>1, <2>2, <2>3
    DEF IInv, Cleared, Confirmed, ExactOwnership, At, Changing, Active, Conflicts
  <2> QED BY <2>4, <2>5, <2>6, <2>7 DEF IInv
<1> QED BY <1>1, <1>2

\* The rows are written: the advisory lock keeps other acquisitions out, and the
\* row locks keep changes off what is marked.
LEMMA AcquireCommitInv ==
  ASSUME IInv, NEW l \in Leases, AcquireCommit(l)
  PROVE  IInv'
<1>1. UNCHANGED <<task, paths, clock>> /\ End(l)
  BY DEF AcquireCommit, fixed
<1>2. /\ tx[l] \in Transactions /\ tx[l] # None
      /\ tx[l].op = "acquire" /\ tx[l].pc = "commit"
  BY DEF IInv, Typed, AcquireCommit, At
<1>3. /\ tx' \in [Leases -> Transactions \cup {None}] /\ tx'[l] = None
      /\ \A k \in Leases : k # l => tx'[k] = tx[k]
      /\ taskLock' \in [Tasks -> Leases \cup {None}]
      /\ rowLock' \in [Leases -> Leases \cup {None}]
      /\ advisory' \in Leases \cup {None}
  BY <1>1, Ended DEF IInv
<1>4. (Phases /\ TasksHeld /\ AdvisoryHeld /\ RowsHeld)'
  BY <1>1, Ended DEF IInv
<1>5. ASSUME NEW k \in Leases, k # l, tx[k] # None
      PROVE  k # l /\ tx[k].expired = {} /\ ~Owns(k)
  BY <1>2, <1>5 DEF IInv, AdvisoryHeld, Owns, At, Phases, Typed, Transactions
<1>6. \A k \in tx[l].expired : k \in Leases /\ Active(k) /\ ~Changing(k, "commit")
  <2>1. \A k \in tx[l].expired : k \in Leases /\ rowLock[k] = l
    BY <1>2 DEF IInv, RowsHeld, Transactions
  <2>2. \A k \in Leases : Changing(k, "commit") => k # l /\ rowLock[k] = k
    BY <1>2 DEF IInv, RowsHeld, Changing, At
  <2> QED BY <1>2, <2>1, <2>2 DEF IInv, Marked
<1> DEFINE fresh == [state |-> "active", due |-> tx[l].due, version |-> 1]
           lapsed(k) == [row[k] EXCEPT !.state = "expired", !.version = @ + 1]
<1>7. fresh \in Rows /\ fresh.state = "active"
  BY <1>2 DEF Rows, Transactions
<1>8. \A k \in tx[l].expired : lapsed(k) \in Rows /\ lapsed(k).state = "expired"
  <2> SUFFICES ASSUME NEW k \in tx[l].expired
               PROVE  lapsed(k) \in Rows /\ lapsed(k).state = "expired"
    OBVIOUS
  <2>1. row[k] \in Rows
    BY <1>6 DEF IInv, Typed, Active
  <2>2. row[k].version + 1 \in Nat \ {0}
    BY <2>1 DEF Rows
  <2>3. lapsed(k) = [row[k] EXCEPT !.state = "expired", !.version = row[k].version + 1]
    OBVIOUS
  <2> HIDE DEF lapsed
  <2> QED BY <2>1, <2>2, <2>3 DEF Rows
<1>9. row' = [k \in Leases |-> IF k = l THEN fresh
                               ELSE IF k \in tx[l].expired THEN lapsed(k)
                               ELSE row[k]]
  BY DEF AcquireCommit
<1> HIDE DEF fresh, lapsed
<1>10. Typed'
  BY <1>1, <1>3, <1>7, <1>8, <1>9 DEF IInv, Typed
<1>11. (Marked /\ Looked /\ Cleared)'
  BY <1>3, <1>5 DEF Marked, Looked, Cleared, At, Owns
<1>12. Confirmed'
  BY <1>3, <1>5, <1>6, <1>9 DEF IInv, Confirmed, Changing, At, Active
<1>13. ExactOwnership'
  <2>1. ASSUME NEW k \in Leases, k # l, Active(k)'
        PROVE  Active(k) /\ k \notin tx[l].expired
    BY <2>1, <1>8, <1>9 DEF Active
  <2>2. ASSUME NEW k \in Leases, k # l, Active(k)'
        PROVE  ~Conflicts(k, l)
    BY <2>1, <2>2, <1>2 DEF IInv, Cleared, At
  <2> QED BY <2>1, <2>2, <1>1 DEF IInv, ExactOwnership, Conflicts
<1> QED BY <1>4, <1>10, <1>11, <1>12, <1>13 DEF IInv

-----------------------------------------------------------------------------
(***************************************************************************)
(* heartbeat_lease and release_lease, statement by statement               *)
(***************************************************************************)

\* A new transaction holds nothing and has marked nothing.
LEMMA ChangeInv ==
  ASSUME IInv, NEW l \in Leases, NEW op \in {"heartbeat", "release"}, Change(l, op)
  PROVE  IInv'
<1>1. UNCHANGED <<task, paths, row, taskLock, rowLock, advisory, clock>>
  BY DEF Change, fixed, locks
<1>2. Dues(l, op) \subseteq 0..(MaxClock + 1)
  BY PostgresLeasesAssumption DEF IInv, Typed, Rows, Change, Dues
<1>3. /\ tx' \in [Leases -> Transactions \cup {None}] /\ tx[l] = None
      /\ tx'[l].op = op /\ tx'[l].pc = "task" /\ tx'[l].expired = {}
      /\ \A k \in Leases : k # l => tx'[k] = tx[k]
  BY <1>2, PostgresLeasesAssumption DEF IInv, Typed, Rows, Transactions, Change
<1>4. (Typed /\ Phases /\ TasksHeld)'
  BY <1>1, <1>3 DEF IInv, Typed, Phases, TasksHeld
<1>5. (AdvisoryHeld /\ RowsHeld)'
  BY <1>1, <1>3 DEF IInv, AdvisoryHeld, Owns, RowsHeld, At, Changing
<1>6. (Marked /\ Looked)'
  BY <1>1, <1>3 DEF IInv, Marked, Looked, At, Active, Overdue
<1>7. (Cleared /\ Confirmed /\ ExactOwnership)'
  BY <1>1, <1>3
  DEF IInv, Cleared, Confirmed, ExactOwnership, At, Changing, Active, Conflicts
<1> QED BY <1>4, <1>5, <1>6, <1>7 DEF IInv

\* A heartbeat or a release takes the lock of its task.
LEMMA ChangeTaskInv ==
  ASSUME IInv, NEW l \in Leases, ChangeTask(l)
  PROVE  IInv'
<1>1. /\ UNCHANGED <<task, paths, row, rowLock, advisory, clock>>
      /\ taskLock' = [taskLock EXCEPT ![task[l]] = l]
  BY DEF ChangeTask, fixed
<1>2. /\ tx[l] # None /\ tx[l].op \in {"heartbeat", "release"}
      /\ tx[l].pc = "task"
  BY DEF ChangeTask, Changing, At
<1>3. /\ tx' \in [Leases -> Transactions \cup {None}] /\ tx'[l] # None
      /\ tx'[l].op = tx[l].op /\ tx'[l].pc = "row"
      /\ tx'[l].expired = tx[l].expired
      /\ \A k \in Leases : k # l => tx'[k] = tx[k]
  BY <1>2, Moved DEF IInv, ChangeTask
<1>4. (Typed /\ Phases /\ TasksHeld)'
  BY <1>1, <1>2, <1>3, NoneIsNothing DEF IInv, Typed, Phases, TasksHeld
<1>5. (AdvisoryHeld /\ RowsHeld)'
  BY <1>1, <1>2, <1>3 DEF IInv, AdvisoryHeld, Owns, RowsHeld, At, Changing
<1>6. (Marked /\ Looked)'
  BY <1>1, <1>2, <1>3 DEF IInv, Marked, Looked, At, Active, Overdue
<1>7. (Cleared /\ Confirmed /\ ExactOwnership)'
  BY <1>1, <1>2, <1>3
  DEF IInv, Cleared, Confirmed, ExactOwnership, At, Changing, Active, Conflicts
<1> QED BY <1>4, <1>5, <1>6, <1>7 DEF IInv

\* The row is locked and found good, or the transaction ends.
LEMMA ChangeRowInv ==
  ASSUME IInv, NEW l \in Leases, ChangeRow(l)
  PROVE  IInv'
<1>1. CASE ~Mutable(l)
  BY <1>1, RolledBack DEF ChangeRow
<1>2. CASE Mutable(l)
  <2>1. /\ UNCHANGED <<task, paths, row, taskLock, advisory, clock>>
        /\ rowLock' = [rowLock EXCEPT ![l] = l] /\ rowLock[l] \in {None, l}
    BY <1>2 DEF ChangeRow, fixed, Free
  <2>2. /\ tx[l] # None /\ tx[l].op \in {"heartbeat", "release"}
        /\ tx[l].pc = "row" /\ tx[l].expired = {}
    BY DEF IInv, Phases, ChangeRow, Changing, At
  <2>3. /\ tx' \in [Leases -> Transactions \cup {None}] /\ tx'[l] # None
        /\ tx'[l].op = tx[l].op /\ tx'[l].pc = "commit"
        /\ tx'[l].due = tx[l].due /\ tx'[l].expired = {}
        /\ \A k \in Leases : k # l => tx'[k] = tx[k]
    BY <1>2, <2>2, Moved DEF IInv, ChangeRow
  <2>4. Typed'
    BY <2>1, <2>3 DEF IInv, Typed
  <2>9. (Phases /\ TasksHeld)'
    BY <2>1, <2>2, <2>3 DEF IInv, Phases, TasksHeld
  <2>5. AdvisoryHeld'
    BY <2>1, <2>2, <2>3 DEF IInv, AdvisoryHeld, Owns, At
  <2>6. RowsHeld'
    BY <2>1, <2>2, <2>3, NoneIsNothing DEF IInv, Typed, RowsHeld, At, Changing
  <2>7. (Marked /\ Looked /\ Cleared)'
    BY <2>1, <2>2, <2>3
    DEF IInv, Marked, Looked, Cleared, At, Active, Overdue, Conflicts
  <2>8. (Confirmed /\ ExactOwnership)'
    BY <1>2, <2>1, <2>2, <2>3
    DEF IInv, Confirmed, ExactOwnership, At, Changing, Active, Conflicts, Mutable
  <2> QED BY <2>4, <2>9, <2>5, <2>6, <2>7, <2>8 DEF IInv
<1> QED BY <1>1, <1>2

\* The row is written: it was locked, so no acquisition has marked it.
LEMMA ChangeCommitInv ==
  ASSUME IInv, NEW l \in Leases, ChangeCommit(l)
  PROVE  IInv'
<1>1. UNCHANGED <<task, paths, clock>> /\ End(l)
  BY DEF ChangeCommit, fixed
<1>2. /\ tx[l] \in Transactions /\ tx[l] # None
      /\ tx[l].op \in {"heartbeat", "release"} /\ Changing(l, "commit")
  BY DEF IInv, Typed, ChangeCommit, Changing, At
<1>3. /\ tx' \in [Leases -> Transactions \cup {None}] /\ tx'[l] = None
      /\ \A k \in Leases : k # l => tx'[k] = tx[k]
      /\ taskLock' \in [Tasks -> Leases \cup {None}]
      /\ rowLock' \in [Leases -> Leases \cup {None}]
      /\ advisory' \in Leases \cup {None}
  BY <1>1, Ended DEF IInv
<1>4. (Phases /\ TasksHeld /\ AdvisoryHeld /\ RowsHeld)'
  BY <1>1, Ended DEF IInv
<1>5. Active(l) /\ row[l] \in Rows
  BY <1>2 DEF IInv, Typed, Confirmed, Active
<1>6. /\ row'[l] \in Rows /\ row'[l].state \in {"active", "released"}
      /\ row'[l].due \in Nat /\ row'[l].due >= row[l].due
      /\ \A k \in Leases : k # l => row'[k] = row[k]
      /\ row' \in [Leases -> Rows \cup {None}]
  <2>1. /\ tx[l].due \in 0..(MaxClock + 1) /\ row[l].due \in 0..(MaxClock + 1)
        /\ row[l].version \in Nat \ {0} /\ row[l].state = "active"
    BY <1>2, <1>5 DEF Transactions, Rows, Active
  <2>2. tx[l].op = "heartbeat" => tx[l].due >= row[l].due
    BY <1>2 DEF IInv, Confirmed
  <2> DEFINE next == IF tx[l].op = "release"
                     THEN [row[l] EXCEPT !.state = "released", !.version = row[l].version + 1]
                     ELSE [row[l] EXCEPT !.due = tx[l].due, !.version = row[l].version + 1]
  <2>3. /\ next \in Rows /\ next.state \in {"active", "released"}
        /\ next.due \in Nat /\ next.due >= row[l].due
    <3>1. row[l].version + 1 \in Nat \ {0} /\ row[l].due \in Nat /\ tx[l].due \in Nat
      BY <2>1, PostgresLeasesAssumption
    <3>2. [row[l] EXCEPT !.state = "released", !.version = row[l].version + 1] \in Rows
      BY <1>5, <3>1 DEF Rows
    <3>3. [row[l] EXCEPT !.due = tx[l].due, !.version = row[l].version + 1] \in Rows
      BY <1>5, <2>1, <3>1 DEF Rows
    <3>4. CASE tx[l].op = "release"
      BY <3>1, <3>2, <3>4, <1>5 DEF Rows
    <3>5. CASE tx[l].op = "heartbeat"
      BY <3>1, <3>3, <3>5, <1>5, <2>1, <2>2 DEF Rows
    <3> QED BY <1>2, <3>4, <3>5
  <2>4. row' = [row EXCEPT ![l] = next]
    BY DEF ChangeCommit
  <2> HIDE DEF next
  <2> QED BY <2>3, <2>4 DEF IInv, Typed
<1>7. Typed'
  BY <1>1, <1>3, <1>6 DEF IInv, Typed
<1>8. Marked'
  BY <1>1, <1>2, <1>3, <1>6 DEF IInv, Marked, RowsHeld, Active, Overdue
<1>9. Looked'
  <2>1. \A k \in Leases : At(k, "acquire", "expire")' => k # l /\ At(k, "acquire", "expire")
    BY <1>3 DEF At
  <2>2. \A k \in Leases : Active(k)' => Active(k) /\ row'[k].due >= row[k].due
    BY <1>5, <1>6, PostgresLeasesAssumption DEF IInv, Typed, Rows, Active
  <2>3. \A k \in Leases : At(k, "acquire", "expire") => tx[k].since \in Nat
    BY PostgresLeasesAssumption DEF IInv, Typed, Transactions, At
  <2>4. \A k \in Leases : Active(k) => row[k].due \in Nat
    BY PostgresLeasesAssumption DEF IInv, Typed, Rows, Active
  <2>5. \A k \in Leases : Active(k)' => row'[k].due \in Nat
    BY <1>6, <2>2, <2>4
  <2> QED BY <1>1, <1>3, <2>1, <2>2, <2>3, <2>4, <2>5 DEF IInv, Looked
<1>10. (Cleared /\ Confirmed)'
  BY <1>1, <1>3, <1>5, <1>6 DEF IInv, Cleared, Confirmed, At, Changing, Active, Conflicts
<1>11. ExactOwnership'
  BY <1>1, <1>5, <1>6 DEF IInv, ExactOwnership, Active, Conflicts
<1> QED BY <1>4, <1>7, <1>8, <1>9, <1>10, <1>11 DEF IInv

-----------------------------------------------------------------------------
(***************************************************************************)
(* The Postgres leases: every step                                         *)
(***************************************************************************)

\* Time passes: what is overdue stays overdue.
LEMMA TickInv == IInv /\ Tick => IInv'
<1> SUFFICES ASSUME IInv, Tick PROVE IInv'
  OBVIOUS
<1>1. /\ UNCHANGED <<task, paths, row, tx, taskLock, rowLock, advisory>>
      /\ clock' = clock + 1 /\ clock < MaxClock
  BY DEF Tick, fixed, locks
<1>2. (Typed /\ Phases /\ TasksHeld /\ AdvisoryHeld /\ RowsHeld)'
  BY <1>1, PostgresLeasesAssumption
  DEF IInv, Typed, Phases, TasksHeld, AdvisoryHeld, Owns, RowsHeld, At, Changing
<1>3. clock \in Nat /\ \A k \in Leases : Active(k) => row[k].due \in Nat
  BY PostgresLeasesAssumption DEF IInv, Typed, Active, Rows
<1>4. Marked'
  BY <1>1, <1>3 DEF IInv, Marked, Active, Overdue
<1>5. \A l \in Leases : tx[l] # None => tx[l].since \in Nat
  BY PostgresLeasesAssumption DEF IInv, Typed, Transactions
<1>6. Looked'
  BY <1>1, <1>3, <1>5 DEF IInv, Looked, At, Active
<1>7. (Cleared /\ Confirmed /\ ExactOwnership)'
  BY <1>1 DEF IInv, Cleared, Confirmed, ExactOwnership, At, Changing, Active, Conflicts
<1> QED BY <1>2, <1>4, <1>6, <1>7 DEF IInv

\* Every step of every transaction.
LEMMA NextInv == IInv /\ [Next]_vars => IInv'
<1> SUFFICES ASSUME IInv, [Next]_vars PROVE IInv'
  OBVIOUS
<1>1. ASSUME NEW l \in Leases, Acquire(l) PROVE IInv'
  BY <1>1, AcquireInv
<1>2. ASSUME NEW l \in Leases, NEW op \in {"heartbeat", "release"}, Change(l, op)
      PROVE  IInv'
  BY <1>2, ChangeInv
<1>3. ASSUME NEW l \in Leases, Statement(l) PROVE IInv'
  BY <1>3, AcquireTaskInv, AcquireAdvisoryInv, ExpireInv, AcquireCheckInv,
     AcquireCommitInv, ChangeTaskInv, ChangeRowInv, ChangeCommitInv DEF Statement
<1>4. ASSUME NEW l \in Leases, Break(l) PROVE IInv'
  BY <1>4, RolledBack DEF Break, fixed
<1>5. CASE UNCHANGED vars
  BY <1>5 DEF vars, IInv, Typed, Phases, TasksHeld, AdvisoryHeld, Owns, RowsHeld,
     Marked, Looked, Cleared, Confirmed, ExactOwnership, At, Changing, Active,
     Overdue, Conflicts
<1> QED BY <1>1, <1>2, <1>3, <1>4, <1>5, TickInv DEF Next

\* The invariant holds in every behaviour of the leases.
LEMMA Inductive == Spec => []IInv
BY InitInv, NextInv, PTL DEF Spec

-----------------------------------------------------------------------------
(***************************************************************************)
(* The Postgres leases: the theorems                                       *)
(***************************************************************************)

\* No two active leases claim a path, however many acquisitions of different
\* tasks run at once: the advisory lock of acquire_lease is enough, where the
\* unique index is on the task alone.
THEOREM ExactOwnershipHolds == Spec => []ExactOwnership
BY Inductive, PTL DEF IInv

\* How far a transaction is in the order in which locks are taken.
Rank(l) ==
  IF At(l, "acquire", "advisory") \/ Changing(l, "row") THEN 1
  ELSE IF At(l, "acquire", "expire") THEN 2
  ELSE IF tx[l] # None /\ tx[l].pc = "commit" THEN 3
  ELSE 0

\* Whoever waits, waits for a transaction that is further: for a task one past
\* its task, for the advisory lock one that holds it, for a row an acquisition
\* that has marked it or an agent about to commit.
LEMMA WaitsForFurther ==
  ASSUME IInv, NEW l \in Leases, NEW k \in Leases, k # l, WaitsFor(l, k)
  PROVE  Rank(l) < Rank(k)
<1>1. /\ tx[l] # None => tx[l] \in Transactions
      /\ tx[k] # None => tx[k] \in Transactions
  BY DEF IInv, Typed
<1>2. CASE tx[l] # None /\ tx[l].pc = "task" /\ taskLock[task[l]] = k
  <2>1. tx[k] # None /\ tx[k].pc # "task"
    BY <1>2 DEF IInv, Typed, TasksHeld
  <2>2. Rank(k) \in {1, 2, 3}
    BY <1>1, <2>1 DEF IInv, Phases, Transactions, Rank, At, Changing
  <2> QED BY <1>2, <2>2 DEF Rank, At, Changing
<1>3. CASE At(l, "acquire", "advisory") /\ advisory = k
  BY <1>3 DEF IInv, AdvisoryHeld, Owns, Rank, At, Changing
<1>4. CASE /\ At(l, "acquire", "expire")
           /\ \E j \in tx[l].todo : Active(j) /\ Overdue(j) /\ rowLock[j] = k
  <2>1. PICK j \in Leases : rowLock[j] = k
    BY <1>1, <1>4 DEF Transactions, At
  <2>2. tx[k] # None /\ (j \in tx[k].expired \/ Changing(k, "commit"))
    BY <2>1 DEF IInv, RowsHeld
  <2>3. ~Owns(k)
    BY <1>4 DEF IInv, AdvisoryHeld, Owns
  <2>4. Changing(k, "commit")
    BY <1>1, <2>2, <2>3 DEF IInv, Phases, Owns, At, Transactions
  <2> QED BY <1>4, <2>4 DEF Rank, At, Changing
<1>5. CASE Changing(l, "row") /\ rowLock[l] = k
  <2>1. tx[k] # None /\ l \in tx[k].expired
    BY <1>5 DEF IInv, RowsHeld
  <2>2. Owns(k)
    BY <1>1, <2>1 DEF IInv, Phases, Owns, At, Transactions
  <2> QED BY <1>5, <2>2 DEF Rank, Owns, At, Changing
<1> QED BY <1>2, <1>3, <1>4, <1>5 DEF WaitsFor

\* Of the members of a set that are furthest, each waits for no other.
LEMMA NoCircle == IInv => NoCircularWait
<1> SUFFICES ASSUME IInv, NEW waiting \in (SUBSET Leases) \ {{}}
             PROVE  \E l \in waiting : \A k \in waiting \ {l} : ~WaitsFor(l, k)
  BY DEF NoCircularWait
<1>1. \A l \in waiting : Rank(l) \in 0..3
  BY DEF Rank
<1>2. \A l, k \in waiting : k # l /\ WaitsFor(l, k) => Rank(l) < Rank(k)
  BY WaitsForFurther
<1>3. \E l \in waiting : \A k \in waiting : Rank(k) <= Rank(l)
  <2> HIDE DEF Rank
  <2>1. CASE \E l \in waiting : Rank(l) = 3
    BY <1>1, <2>1
  <2>2. CASE ~(\E l \in waiting : Rank(l) = 3) /\ \E l \in waiting : Rank(l) = 2
    BY <1>1, <2>2
  <2>3. CASE /\ ~(\E l \in waiting : Rank(l) \in {2, 3})
             /\ \E l \in waiting : Rank(l) = 1
    BY <1>1, <2>3
  <2>4. CASE ~(\E l \in waiting : Rank(l) \in {1, 2, 3})
    BY <1>1, <2>4
  <2> QED BY <2>1, <2>2, <2>3, <2>4
<1>4. PICK l \in waiting : \A k \in waiting : Rank(k) <= Rank(l)
  BY <1>3
<1> QED BY <1>1, <1>2, <1>4

\* An acquisition refused for a lease was not refused for one that was overdue
\* when it began to look, locks are held by open transactions only, and
\* transactions do not wait in a circle (acquire_lease, heartbeat_lease,
\* release_lease).
THEOREM LocksSoundHolds == Spec => []LocksSound
<1>1. IInv => TypeOK
  BY NoneIsNothing
  DEF IInv, Typed, TasksHeld, RowsHeld, AdvisoryHeld, Owns, At, TypeOK
<1>2. IInv => OverdueNeverBlocks
  BY DEF IInv, Looked, OverdueNeverBlocks, At
<1> QED BY <1>1, <1>2, Inductive, NoCircle, PTL DEF LocksSound

\* A lease expires only if it is overdue by its last committed heartbeat,
\* although the acquisition that expires it judged it statements earlier.
THEOREM OnlyOverdueExpireHolds == Spec => OnlyOverdueExpire
<1> DEFINE Fair == \A l \in Leases : Active(l) /\ row'[l].state = "expired" => Overdue(l)
<1>1. ASSUME IInv, [Next]_vars, NEW l \in Leases, Active(l), row'[l].state = "expired"
      PROVE  Overdue(l)
  <2>1. row[l] \in Rows /\ row[l].state = "active"
    BY <1>1 DEF IInv, Typed, Active
  <2>2. row' # row
    BY <1>1, <2>1
  <2>3. ASSUME NEW k \in Leases, AcquireCommit(k) PROVE Overdue(l)
    <3>1. row'[l] # [state |-> "active", due |-> tx[k].due, version |-> 1]
      BY <1>1
    <3>2. l \in tx[k].expired
      BY <1>1, <2>1, <2>3, <3>1 DEF AcquireCommit
    <3> QED BY <1>1, <2>3, <3>2 DEF IInv, Marked, AcquireCommit, At
  <2>4. ASSUME NEW k \in Leases, ChangeCommit(k) PROVE FALSE
    BY <1>1, <2>1, <2>4 DEF ChangeCommit, IInv, Typed, Rows
  <2> QED BY <1>1, <2>2, <2>3, <2>4
       DEF Next, Statement, vars, fixed, locks, Acquire, AcquireTask, AcquireAdvisory,
           Expire, AcquireCheck, Change, ChangeTask, ChangeRow, Break, Tick, Rollback
<1>2. IInv /\ [Next]_vars => [Fair]_vars
  BY <1>1
<1> HIDE DEF Fair
<1>3. Spec => [][Fair]_vars
  BY <1>2, Inductive, PTL DEF Spec
<1> QED BY <1>3 DEF Fair, OnlyOverdueExpire

-----------------------------------------------------------------------------
(***************************************************************************)
(* The lead API: the inductive invariant                                   *)
(***************************************************************************)

\* How far a lead is in its lifecycle.
Progress(s) ==
  IF s \in {"won", "lost"} THEN 4 ELSE IF s = "proposal_sent" THEN 3 ELSE
  IF s = "qualified" THEN 2 ELSE IF s = "contacted" THEN 1 ELSE 0

\* A lead is stored from its insertion on, and has its work after that.
Created(l) ==
  /\ create[l] \in {"unsent", "insert"} => status[l] = None
  /\ create[l] \in {"enqueue", "created"} => status[l] # None
  /\ create[l] \in {"unsent", "insert", "enqueue"} => followUps[l] = 0
  /\ followUps[l] = 1 => status[l] # None

\* The transaction that holds a row is about to move it where it may go.
LockHeld(a) ==
  /\ \A l \in Leads : leadLock[l] = a => Service!Is(a, "update") /\ patch[a].lead = l
  /\ Service!Is(a, "update") =>
       /\ leadLock[patch[a].lead] = a
       /\ status[patch[a].lead] \in Service!Statuses
       /\ Service!can_transition_to(status[patch[a].lead], patch[a].to)

\* A lead is at least as far as every agent was told.
Reached(a) ==
  Service!Is(a, "ok") =>
    \/ status[patch[a].lead] = "deleted"
    \/ /\ status[patch[a].lead] \in Service!Statuses
       /\ Progress(patch[a].to) <= Progress(status[patch[a].lead])

ServiceInv ==
  /\ Service!TypeOK /\ Service!OneAgentAdvances
  /\ \A l \in Leads : Created(l)
  /\ \A a \in Callers : LockHeld(a) /\ Reached(a)

-----------------------------------------------------------------------------
\* A transition leads further.
LEMMA RanksRise ==
  ASSUME NEW s \in Service!Statuses, NEW t \in Service!Statuses,
         Service!can_transition_to(s, t)
  PROVE  Progress(s) < Progress(t)
BY DEF Service!can_transition_to, Service!Statuses, Progress

\* The steps of a creation and a deletion move one lead and no agent.
LEMMA LeadStep ==
  ASSUME Service!LeadServiceAssumption, ServiceInv, NEW l \in Leads,
         \/ Service!Submit(l) \/ Service!Insert(l) \/ Service!Enqueue(l)
         \/ Service!CreateFails(l) \/ Service!CreateDropped(l) \/ Service!Delete(l)
  PROVE  ServiceInv'
<1>1. Service!TypeOK /\ \A k \in Leads : Created(k)
  BY DEF ServiceInv
<1>2. Service!TypeOK'
  BY <1>1 DEF Service!TypeOK, Created, Service!Submit, Service!Insert, Service!Enqueue,
     Service!CreateFails, Service!CreateDropped, Service!Delete, Service!Fault,
     Service!AnswerOfFailure, Service!Statuses, Service!LeadServiceAssumption
<1>3. UNCHANGED <<patch, leadLock>> /\ \A k \in Leads : k # l => status'[k] = status[k]
  BY <1>1 DEF Service!TypeOK, Service!Submit, Service!Insert, Service!Enqueue,
     Service!CreateFails, Service!CreateDropped, Service!Delete
<1>4. \/ status'[l] = status[l]
      \/ status[l] = None
      \/ leadLock[l] = None /\ status'[l] = "deleted"
  BY <1>1 DEF Service!TypeOK, Created, Service!Submit, Service!Insert, Service!Enqueue,
     Service!CreateFails, Service!CreateDropped, Service!Delete
<1>5. \A k \in Leads : Created(k)'
  BY <1>1 DEF Service!TypeOK, Created, Service!Submit, Service!Insert, Service!Enqueue,
     Service!CreateFails, Service!CreateDropped, Service!Delete, Service!AnswerOfFailure,
     Service!Statuses, Service!LeadServiceAssumption
<1>6. ASSUME NEW a \in Callers PROVE LockHeld(a)' /\ Reached(a)'
  <2>1. LockHeld(a) /\ Reached(a)
    BY DEF ServiceInv
  <2>2. patch[a] # None => patch[a].lead \in Leads
    BY <1>1 DEF Service!TypeOK, Service!Requests
  <2>3. a # None /\ None \notin Service!Statuses \cup {"deleted"}
    BY DEF Service!LeadServiceAssumption
  <2>4. LockHeld(a)'
    BY <1>3, <1>4, <2>1, <2>2, <2>3 DEF LockHeld, Service!Is
  <2>5. Reached(a)'
    BY <1>3, <1>4, <2>1, <2>2, <2>3 DEF Reached, Service!Is
  <2> QED BY <2>4, <2>5
<1>7. Service!OneAgentAdvances'
  BY <1>3 DEF ServiceInv, Service!OneAgentAdvances, Service!Is, Service!LeadOf
<1> QED BY <1>2, <1>5, <1>6, <1>7 DEF ServiceInv

\* The steps of an agent move it and perhaps the row whose lock it has.
LEMMA AgentStep ==
  ASSUME Service!LeadServiceAssumption, ServiceInv, NEW a \in Callers,
         \/ Service!Patch(a) \/ Service!Select(a) \/ Service!Missing(a)
         \/ Service!Conflict(a) \/ Service!Update(a) \/ Service!PatchFails(a)
  PROVE  ServiceInv'
<1> DEFINE l == patch[a].lead
<1>1. /\ Service!TypeOK /\ (\A k \in Leads : Created(k))
      /\ \A b \in Callers : LockHeld(b) /\ Reached(b)
  BY DEF ServiceInv
<1>2. /\ None \notin Callers \cup Service!Requests \cup Service!Statuses \cup {"deleted"}
      /\ MaxApiFaults \in Nat
  BY DEF Service!LeadServiceAssumption
<1>3. /\ \A b \in Callers : patch[b] # None => patch[b] \in Service!Requests
      /\ patch[a] # None =>
           l \in Leads /\ patch[a].to \in Service!Statuses
  BY <1>1 DEF Service!TypeOK, Service!Requests
<1>4. UNCHANGED <<followUps, create>> /\ \A b \in Callers : b # a => patch'[b] = patch[b]
  BY <1>1 DEF Service!TypeOK, Service!Patch, Service!Select, Service!Missing,
     Service!Conflict, Service!Update, Service!PatchFails, Service!To
\* The agent's row, with its lock, may be moved on.
<1>5. \/ UNCHANGED status
      \/ /\ Service!Is(a, "update") /\ leadLock[l] = a
         /\ status[l] \in Service!Statuses
         /\ Service!can_transition_to(status[l], patch[a].to)
         /\ status' = [status EXCEPT ![l] = patch[a].to]
  BY <1>1 DEF LockHeld, Service!Patch, Service!Select, Service!Missing,
     Service!Conflict, Service!Update, Service!PatchFails, Service!LeadOf
<1>6. \A b \in Callers, k \in Leads : b # a => (leadLock'[k] = b <=> leadLock[k] = b)
  BY <1>1, <1>2 DEF Service!TypeOK, Service!Patch, Service!Select, Service!Missing,
     Service!Conflict, Service!Update, Service!PatchFails, Service!LeadOf,
     Service!Released, Service!RolledBack
<1>7. Service!TypeOK'
  <2>1. status' \in [Leads -> Service!Statuses \cup {None, "deleted"}]
    BY <1>1, <1>3, <1>5 DEF Service!TypeOK, Service!Is
  <2>2. patch' \in [Callers -> Service!Requests \cup {None}]
    <3>1. ASSUME NEW step \in {"update", "missing", "conflict", "ok", "error"},
                 Service!To(a, step), patch[a] # None
          PROVE  patch' \in [Callers -> Service!Requests \cup {None}]
      <4>1. [patch[a] EXCEPT !.step = step] \in Service!Requests
        BY <1>3, <3>1 DEF Service!Requests
      <4> QED BY <1>1, <3>1, <4>1 DEF Service!TypeOK, Service!To
    <3>2. CASE Service!Patch(a)
      <4>1. \A k \in Leads, s \in Service!Statuses :
              [lead |-> k, to |-> s, step |-> "select"] \in Service!Requests
        BY DEF Service!Requests
      <4> QED BY <1>1, <3>2, <4>1 DEF Service!TypeOK, Service!Patch
    <3> QED
      BY <3>1, <3>2 DEF Service!Select, Service!Missing, Service!Conflict,
         Service!Update, Service!PatchFails, Service!Is, Service!IsWaiting
  <2>3. leadLock' \in [Leads -> Callers \cup {None}] /\ apiFaults' \in 0..MaxApiFaults
    BY <1>1, <1>2 DEF Service!TypeOK, Service!Patch, Service!Select, Service!Missing,
       Service!Conflict, Service!Update, Service!PatchFails, Service!LeadOf,
       Service!Released, Service!RolledBack, Service!Fault
  <2> QED BY <1>1, <1>4, <2>1, <2>2, <2>3 DEF Service!TypeOK
<1>8. \A k \in Leads :
        \/ status'[k] = status[k]
        \/ /\ status[k] \in Service!Statuses /\ status'[k] \in Service!Statuses
           /\ Progress(status[k]) < Progress(status'[k]) /\ leadLock[k] = a
  BY <1>1, <1>3, <1>5, RanksRise DEF Service!TypeOK, Service!Is
<1>9. \A k \in Leads : Created(k)'
  BY <1>1, <1>2, <1>4, <1>8 DEF Created
<1>10. LockHeld(a)'
  <2>1. LockHeld(a) /\ a # None
    BY <1>1, <1>2
  <2>2. CASE Service!Select(a)
    <3>1. /\ leadLock' = [leadLock EXCEPT ![l] = a] /\ UNCHANGED status /\ l \in Leads
          /\ status[l] \in Service!Statuses
          /\ Service!can_transition_to(status[l], patch[a].to)
          /\ patch'[a] = [patch[a] EXCEPT !.step = "update"] /\ patch[a] # None
          /\ patch[a].step = "select"
      BY <1>1, <1>3, <2>2 DEF Service!TypeOK, Service!Select, Service!LeadOf, Service!Is,
         Service!To
    <3>2. /\ patch'[a].lead = l /\ patch'[a].to = patch[a].to
          /\ patch'[a].step = "update" /\ patch'[a] # None
      BY <1>2, <1>3, <3>1 DEF Service!Requests
    <3>3. \A k \in Leads : leadLock'[k] = a => k = l
      BY <1>1, <2>1, <3>1 DEF LockHeld, Service!Is, Service!TypeOK
    <3>4. leadLock'[l] = a
      BY <1>1, <3>1 DEF Service!TypeOK
    <3> QED BY <3>1, <3>2, <3>3, <3>4 DEF LockHeld, Service!Is, Service!can_transition_to
  <2>3. CASE ~Service!Select(a)
    <3>1. ~Service!Is(a, "update")'
      <4>1. ASSUME NEW step \in {"missing", "conflict", "ok", "error"},
                   Service!To(a, step), patch[a] # None
            PROVE  ~Service!Is(a, "update")'
        BY <1>1, <1>3, <4>1 DEF Service!TypeOK, Service!To, Service!Is, Service!Requests
      <4>2. CASE Service!Patch(a)
        BY <1>1, <4>2 DEF Service!TypeOK, Service!Patch, Service!Is
      <4> QED
        BY <2>3, <4>1, <4>2 DEF Service!Missing, Service!Conflict, Service!Update,
           Service!PatchFails, Service!Is, Service!IsWaiting
    <3>2. \A k \in Leads : leadLock'[k] # a
      <4>1. CASE UNCHANGED leadLock /\ ~Service!Is(a, "update")
        BY <2>1, <4>1 DEF LockHeld
      <4>2. CASE leadLock' = Service!Released(a)
        BY <2>1, <4>2 DEF Service!Released
      <4> QED
        BY <2>3, <4>1, <4>2 DEF Service!Patch, Service!Missing, Service!Conflict,
           Service!Update, Service!PatchFails, Service!Is, Service!IsWaiting,
           Service!Waiting, Service!RolledBack
    <3> QED BY <3>1, <3>2 DEF LockHeld
  <2> QED BY <2>2, <2>3
\* A rank is a number, so that it stays reached when rows move on.
<1>11. /\ \A s \in Service!Statuses : Progress(s) \in Nat
       /\ \A k \in Leads, s \in Service!Statuses :
            /\ status[k] \in Service!Statuses /\ Progress(s) <= Progress(status[k])
            => status'[k] \in Service!Statuses /\ Progress(s) <= Progress(status'[k])
  <2>1. \A s \in Service!Statuses : Progress(s) \in Nat
    BY DEF Progress
  <2> QED BY <1>8, <2>1
<1>12. ASSUME NEW b \in Callers, b # a PROVE LockHeld(b)' /\ Reached(b)'
  <2>1. LockHeld(b) /\ Reached(b) /\ patch'[b] = patch[b] /\ b # None
    BY <1>1, <1>2, <1>4, <1>12
  <2>2. patch[b] # None => patch[b].lead \in Leads /\ patch[b].to \in Service!Statuses
    BY <1>3 DEF Service!Requests
  <2>3. Service!Is(b, "update") => status'[patch[b].lead] = status[patch[b].lead]
    BY <1>8, <1>12, <2>1, <2>2 DEF LockHeld, Service!Is
  <2>4. LockHeld(b)'
    BY <1>6, <1>12, <2>1, <2>2, <2>3 DEF LockHeld, Service!Is
  <2>5. Reached(b)'
    <3>1. CASE Service!Is(b, "ok") /\ status[patch[b].lead] = "deleted"
      <4>1. status'[patch[b].lead] = "deleted"
        BY <1>2, <1>8, <2>2, <3>1 DEF Service!Is, Service!Statuses
      <4> QED BY <2>1, <4>1 DEF Reached
    <3>2. CASE Service!Is(b, "ok") /\ status[patch[b].lead] # "deleted"
      BY <1>11, <2>1, <2>2, <3>2 DEF Reached, Service!Is
    <3> QED BY <2>1, <3>1, <3>2 DEF Reached, Service!Is
  <2> QED BY <2>4, <2>5
\* The agent is told "ok" as it moves the row.
<1>13. Service!Is(a, "ok")' =>
         /\ l \in Leads /\ status[l] \in Service!Statuses /\ status'[l] = patch[a].to
         /\ Progress(status[l]) < Progress(patch[a].to) /\ patch[a].to \in Service!Statuses
         /\ patch'[a].lead = l /\ patch'[a].to = patch[a].to
  <2>1. SUFFICES ASSUME Service!Is(a, "ok")'
                 PROVE  Service!Update(a)
    <3>1. CASE Service!Update(a)
      <4>1. /\ l \in Leads /\ status[l] \in Service!Statuses
            /\ Service!can_transition_to(status[l], patch[a].to)
            /\ patch[a].to \in Service!Statuses
            /\ status'[l] = patch[a].to
        BY <1>1, <1>3, <3>1 DEF LockHeld, Service!TypeOK, Service!Update, Service!Is,
           Service!LeadOf
      <4>2. patch'[a].lead = l /\ patch'[a].to = patch[a].to
        BY <1>1, <1>3, <3>1 DEF Service!TypeOK, Service!Update, Service!Is, Service!To,
           Service!Requests
      <4> QED BY <4>1, <4>2, RanksRise
    <3> QED BY <3>1
  <2>2. ASSUME NEW step \in {"update", "missing", "conflict", "error"},
               Service!To(a, step), patch[a] # None
        PROVE  FALSE
    BY <1>1, <1>3, <2>1, <2>2 DEF Service!TypeOK, Service!To, Service!Is, Service!Requests
  <2>3. ~Service!Patch(a)
    BY <1>1, <2>1 DEF Service!TypeOK, Service!Patch, Service!Is
  <2> QED
    BY <2>2, <2>3 DEF Service!Select, Service!Missing, Service!Conflict,
       Service!PatchFails, Service!Is, Service!IsWaiting
<1>14. Reached(a)'
  BY <1>11, <1>13 DEF Reached
\* Who was told before it was told of less.
<1>15. Service!OneAgentAdvances'
  <2>1. ASSUME NEW b \in Callers, b # a, Service!Is(a, "ok")', Service!Is(b, "ok")',
               (patch[a].lead)' = (patch[b].lead)'
        PROVE  (patch[a].to)' # (patch[b].to)'
    <3>1. Service!Is(b, "ok") /\ patch'[b] = patch[b] /\ Reached(b)
      BY <1>1, <1>4, <2>1 DEF Service!Is
    <3>2. status[l] \in Service!Statuses /\ patch[b].lead = l
      BY <1>13, <2>1, <3>1
    <3>3. Progress(patch[b].to) <= Progress(status[l]) /\ patch[b].to \in Service!Statuses
      BY <1>2, <1>3, <3>1, <3>2 DEF Reached, Service!Is, Service!Requests, Service!Statuses
    <3> QED BY <1>11, <1>13, <2>1, <3>1, <3>3
  <2>2. ASSUME NEW b \in Callers, NEW c \in Callers, b # a, c # a, b # c,
               Service!Is(b, "ok")', Service!Is(c, "ok")',
               (patch[b].lead)' = (patch[c].lead)'
        PROVE  (patch[b].to)' # (patch[c].to)'
    BY <1>1, <1>4, <2>2 DEF ServiceInv, Service!OneAgentAdvances, Service!Is,
       Service!LeadOf
  <2> QED BY <2>1, <2>2 DEF Service!OneAgentAdvances, Service!LeadOf, Service!Is
<1> QED BY <1>7, <1>9, <1>10, <1>12, <1>14, <1>15 DEF ServiceInv

-----------------------------------------------------------------------------
(***************************************************************************)
(* The lead API: the theorems                                              *)
(***************************************************************************)

\* At first no lead is stored and no agent was told anything.
LEMMA ServiceStarts ==
  ASSUME Service!LeadServiceAssumption PROVE Service!Init => ServiceInv
BY DEF Service!LeadServiceAssumption, Service!Init, ServiceInv, Service!TypeOK,
   Service!OneAgentAdvances, Service!Is, Created, LockHeld, Reached

\* Every statement of the lead API.
LEMMA ServiceSteps ==
  ASSUME Service!LeadServiceAssumption
  PROVE  ServiceInv /\ [Service!Next]_Service!vars => ServiceInv'
<1> SUFFICES ASSUME ServiceInv, [Service!Next]_Service!vars PROVE ServiceInv'
  OBVIOUS
<1>1. CASE UNCHANGED Service!vars
  BY <1>1 DEF Service!vars, ServiceInv, Service!TypeOK, Service!OneAgentAdvances,
     Service!Is, Service!LeadOf, Created, LockHeld, Reached
<1> QED BY <1>1, LeadStep, AgentStep DEF Service!Next

\* A lead a client was told of is stored, and of two agents that ask for one
\* status one gets it, for any leads, agents and faults (create_lead,
\* update_lead_status).
THEOREM ServiceKeeps ==
  ASSUME Service!LeadServiceAssumption PROVE Service!Spec => []Service!LeadsKept
<1>1. ServiceInv => Service!LeadsKept
  BY DEF ServiceInv, Service!TypeOK, Service!LeadsKept, Service!CreatedIsKept, Created
<1> QED BY <1>1, ServiceStarts, ServiceSteps, PTL DEF Service!Spec

\* Every change of a row is a transition of the lifecycle from what it held
\* (LeadStatus::can_transition_to under select ... for update).
THEOREM ServiceMovesOn ==
  ASSUME Service!LeadServiceAssumption PROVE Service!Spec => Service!StatusMovesOn
<1> DEFINE Moves ==
      \A l \in Leads :
        /\ status[l] \in Service!Statuses /\ status'[l] # status[l] =>
             status'[l] = "deleted" \/ Service!can_transition_to(status[l], status'[l])
        /\ status[l] = "deleted" => status'[l] = "deleted"
<1>1. ServiceInv /\ [Service!Next]_Service!vars => [Moves]_Service!vars
  <2> SUFFICES ASSUME ServiceInv, Service!Next, NEW l \in Leads
               PROVE  /\ status[l] \in Service!Statuses /\ status'[l] # status[l] =>
                           status'[l] = "deleted" \/ Service!can_transition_to(status[l], status'[l])
                      /\ status[l] = "deleted" => status'[l] = "deleted"
    OBVIOUS
  <2>1. /\ Service!TypeOK /\ Created(l) /\ None \notin Service!Statuses \cup {"deleted"}
        /\ \A a \in Callers : LockHeld(a)
    BY DEF ServiceInv, Service!LeadServiceAssumption
  <2>2. ASSUME NEW k \in Leads,
               \/ Service!Submit(k) \/ Service!Insert(k) \/ Service!Enqueue(k)
               \/ Service!CreateFails(k) \/ Service!CreateDropped(k) \/ Service!Delete(k)
        PROVE  status'[l] = status[l] \/ status'[l] = "deleted" \/ status[l] = None
    <3>1. Created(k)
      BY DEF ServiceInv
    <3> QED BY <2>1, <2>2, <3>1 DEF Service!TypeOK, Created, Service!Submit, Service!Insert,
        Service!Enqueue, Service!CreateFails, Service!CreateDropped, Service!Delete
  <2>3. ASSUME NEW a \in Callers,
               \/ Service!Patch(a) \/ Service!Select(a) \/ Service!Missing(a)
               \/ Service!Conflict(a) \/ Service!Update(a) \/ Service!PatchFails(a)
        PROVE  \/ status'[l] = status[l]
               \/ Service!can_transition_to(status[l], status'[l]) /\ status[l] \in Service!Statuses
    BY <2>1, <2>3 DEF Service!TypeOK, LockHeld, Service!Patch, Service!Select,
       Service!Missing, Service!Conflict, Service!Update, Service!PatchFails, Service!LeadOf
  <2> QED BY <2>1, <2>2, <2>3 DEF Service!Next, Service!Statuses
<1>2. Service!Init => ServiceInv
  BY ServiceStarts
<1>3. ServiceInv /\ [Service!Next]_Service!vars => ServiceInv'
  BY ServiceSteps
<1> QED BY <1>1, <1>2, <1>3, PTL DEF Service!Spec, Service!StatusMovesOn, Moves

-----------------------------------------------------------------------------
(***************************************************************************)
(* The lead forms: the inductive invariant                                 *)
(***************************************************************************)
\* What a call has done by its step.
Served(v) ==
  /\ call[v] # None => tries[v] > 0
  /\ call[v] \in {"audit", "notify"} => Site!Submission(v) \in leads
  /\ call[v] = "notify" => Site!Submission(v) \in audits

\* What the page of a visitor who is thanked was told.
Thanked(v) ==
  form[v] = "submitted" =>
    /\ told[v] \in Site!Answers /\ told[v].kind # "error"
    /\ IF told[v].kind = "queued" THEN told[v].id \in queue
       ELSE told[v].id \in leads \cap audits

\* A server with a database has no queue, and one without has no rows.
OnePlace ==
  IF configured THEN queue = {} /\ \A v \in Visitors : call[v] # "queue"
  ELSE leads = {} /\ \A v \in Visitors : call[v] \notin {"audit", "notify"}

SiteInv ==
  /\ Site!TypeOK /\ OnePlace
  /\ \A v \in Visitors : Served(v) /\ Thanked(v)

-----------------------------------------------------------------------------
\* An answer on the page is of a kind the page shows.
LEMMA AnswerShows ==
  ASSUME Site!LeadSiteAssumption, SiteInv, NEW v \in Visitors, NEW answer \in Site!Answers,
         Site!Answer(v, answer), leads \subseteq leads', audits \subseteq audits',
         queue \subseteq queue', tries' = tries,
         answer.kind = "queued" => answer.id \in queue',
         answer.kind = "lead" => answer.id \in leads' \cap audits'
  PROVE  /\ call' \in [Visitors -> Site!Steps \cup {None}]
         /\ form' \in [Visitors -> Site!Pages]
         /\ told' \in [Visitors -> Site!Answers \cup {None}]
         /\ \A w \in Visitors : call'[w] \in {call[w], None}
         /\ \A w \in Visitors : Served(w)' /\ Thanked(w)'
<1>1. Site!TypeOK /\ \A w \in Visitors : Served(w) /\ Thanked(w)
  BY DEF SiteInv
<1>2. Site!PageAfter(v, answer) \in Site!Pages
  BY DEF Site!PageAfter, Site!Pages
<1>3. answer.kind \in {"lead", "queued", "error"}
  BY DEF Site!Answers
<1>4. /\ call' \in [Visitors -> Site!Steps \cup {None}]
      /\ form' \in [Visitors -> Site!Pages]
      /\ told' \in [Visitors -> Site!Answers \cup {None}]
      /\ \A w \in Visitors : call'[w] \in {call[w], None}
  BY <1>1, <1>2 DEF Site!TypeOK, Site!Answer
<1>5. ASSUME NEW w \in Visitors PROVE Served(w)'
  BY <1>1, <1>4 DEF Served, Site!Submission, Site!LeadSiteAssumption, Site!Steps
<1>6. ASSUME NEW w \in Visitors PROVE Thanked(w)'
  <2>1. CASE form'[w] = form[w] /\ told'[w] = told[w]
    BY <1>1, <2>1 DEF Thanked
  <2>2. CASE w = v /\ form'[v] = Site!PageAfter(v, answer) /\ told'[v] = answer
    BY <1>3, <2>2 DEF Thanked, Site!PageAfter, Site!IsTransport
  <2> QED BY <1>1, <2>1, <2>2 DEF Site!TypeOK, Site!Answer
<1> QED BY <1>4, <1>5, <1>6

\* Errors are answers.
LEMMA ErrorsAreAnswers ==
  ASSUME NEW cause \in {"unreachable", "broken", "disk", "transport"}
  PROVE  Site!Error(cause) \in Site!Answers /\ Site!Error(cause).kind = "error"
BY DEF Site!Error, Site!Answers

\* The row of a submission, and what follows from it.
LEMMA CreateStep ==
  ASSUME Site!LeadSiteAssumption, SiteInv, NEW v \in Visitors, Site!CreateLead(v)
  PROVE  SiteInv'
<1>1. Site!TypeOK /\ OnePlace /\ (\A w \in Visitors : Served(w) /\ Thanked(w))
  BY DEF SiteInv
<1>2. PICK outcome \in IF configured THEN Site!InsertOutcomes ELSE {"unconfigured"} :
        /\ Site!Charge(outcome)
        /\ leads' = IF Site!Applied(outcome) THEN leads \cup {Site!Submission(v)} ELSE leads
        /\ IF outcome = "ok"
           THEN call' = [call EXCEPT ![v] = "audit"] /\ UNCHANGED <<form, told>>
           ELSE IF Site!Unavailable(outcome)
           THEN call' = [call EXCEPT ![v] = "queue"] /\ UNCHANGED <<form, told>>
           ELSE Site!Answer(v, Site!Error(IF outcome = "unreachable" THEN outcome ELSE "broken"))
  BY DEF Site!CreateLead
<1>3. /\ UNCHANGED <<configured, up, audits, queue, notified, tries>> /\ call[v] = "create"
      /\ leads \subseteq leads' /\ (~configured => leads' = leads)
      /\ siteFaults' \in 0..MaxSiteFaults
  BY <1>1, <1>2 DEF Site!CreateLead, Site!Applied, Site!Charge, Site!Fault, Site!TypeOK,
     Site!LeadSiteAssumption
<1>4. Site!Submission(v) \in Site!Submissions
  BY <1>1, <1>3 DEF Served, Site!Submission, Site!Submissions, Site!TypeOK,
     Site!LeadSiteAssumption, Site!Steps
<1>5. leads' \subseteq Site!Submissions
  BY <1>1, <1>2, <1>4 DEF Site!TypeOK
<1>6. CASE outcome = "ok" \/ Site!Unavailable(outcome)
  <2>1. /\ call' \in [Visitors -> Site!Steps \cup {None}] /\ UNCHANGED <<form, told>>
        /\ \A w \in Visitors : w # v => call'[w] = call[w]
        /\ IF outcome = "ok" THEN call'[v] = "audit" /\ configured
           ELSE call'[v] = "queue" /\ ~configured
    BY <1>1, <1>2, <1>6 DEF Site!TypeOK, Site!Steps, Site!Unavailable, Site!InsertOutcomes
  <2>2. Site!TypeOK'
    BY <1>1, <1>3, <1>5, <2>1 DEF Site!TypeOK, Site!Submissions
  <2>3. OnePlace'
    BY <1>1, <1>3, <2>1 DEF OnePlace
  <2>4. ASSUME NEW w \in Visitors PROVE Thanked(w)'
    BY <1>1, <1>3, <2>1 DEF Thanked, Site!Answers, Site!Submissions
  <2>5. ASSUME NEW w \in Visitors PROVE Served(w)'
    <3>1. CASE w # v
      BY <1>1, <1>3, <2>1, <3>1 DEF Served, Site!Submission
    <3>2. CASE w = v
      BY <1>1, <1>2, <1>3, <2>1, <3>2 DEF Served, Site!Submission, Site!Applied,
         Site!LeadSiteAssumption, Site!Steps
    <3> QED BY <3>1, <3>2
  <2> QED BY <2>2, <2>3, <2>4, <2>5 DEF SiteInv
<1>7. CASE ~(outcome = "ok" \/ Site!Unavailable(outcome))
  <2>1. PICK cause \in {"unreachable", "broken"} : Site!Answer(v, Site!Error(cause))
    BY <1>2, <1>7
  <2>2. Site!Error(cause) \in Site!Answers /\ Site!Error(cause).kind = "error"
    BY ErrorsAreAnswers
  <2>3. /\ call' \in [Visitors -> Site!Steps \cup {None}]
        /\ form' \in [Visitors -> Site!Pages]
        /\ told' \in [Visitors -> Site!Answers \cup {None}]
        /\ \A w \in Visitors : call'[w] \in {call[w], None}
        /\ \A w \in Visitors : Served(w)' /\ Thanked(w)'
    BY <1>3, <2>1, <2>2, AnswerShows
  <2>4. Site!TypeOK'
    BY <1>1, <1>3, <1>5, <2>3 DEF Site!TypeOK, Site!Submissions
  <2>5. OnePlace'
    BY <1>1, <1>3, <2>3 DEF OnePlace, Site!LeadSiteAssumption, Site!Steps
  <2> QED BY <2>3, <2>4, <2>5 DEF SiteInv
<1> QED BY <1>6, <1>7

\* The row of its audit.
LEMMA AuditStep ==
  ASSUME Site!LeadSiteAssumption, SiteInv, NEW v \in Visitors,
         Site!CreateContactSubmission(v)
  PROVE  SiteInv'
<1>1. Site!TypeOK /\ OnePlace /\ (\A w \in Visitors : Served(w) /\ Thanked(w))
  BY DEF SiteInv
<1>2. PICK outcome \in Site!InsertOutcomes :
        /\ Site!Charge(outcome)
        /\ audits' = IF Site!Applied(outcome) THEN audits \cup {Site!Submission(v)} ELSE audits
        /\ IF outcome = "ok"
           THEN call' = [call EXCEPT ![v] = "notify"] /\ UNCHANGED <<form, told>>
           ELSE Site!Answer(v, Site!Error(IF outcome = "unreachable" THEN outcome ELSE "broken"))
  BY DEF Site!CreateContactSubmission
<1>3. /\ UNCHANGED <<configured, up, leads, queue, notified, tries>> /\ call[v] = "audit"
      /\ audits \subseteq audits' /\ Site!Submission(v) \in leads
      /\ siteFaults' \in 0..MaxSiteFaults
  BY <1>1, <1>2 DEF Site!CreateContactSubmission, Site!Applied, Site!Charge, Site!Fault,
     Site!TypeOK, Site!LeadSiteAssumption, Served
<1>4. audits' \subseteq leads' /\ notified' \subseteq audits'
  BY <1>1, <1>2, <1>3 DEF Site!TypeOK
<1>5. CASE outcome = "ok"
  <2>1. /\ call' \in [Visitors -> Site!Steps \cup {None}] /\ UNCHANGED <<form, told>>
        /\ \A w \in Visitors : w # v => call'[w] = call[w]
        /\ call'[v] = "notify" /\ Site!Submission(v) \in audits'
    BY <1>1, <1>2, <1>5 DEF Site!TypeOK, Site!Steps, Site!Applied
  <2>2. Site!TypeOK'
    BY <1>1, <1>3, <1>4, <2>1 DEF Site!TypeOK, Site!Submissions
  <2>3. OnePlace'
    BY <1>1, <1>3, <2>1 DEF OnePlace
  <2>4. ASSUME NEW w \in Visitors PROVE Thanked(w)'
    BY <1>1, <1>3, <2>1 DEF Thanked, Site!Answers, Site!Submissions
  <2>5. ASSUME NEW w \in Visitors PROVE Served(w)'
    BY <1>1, <1>3, <2>1 DEF Served, Site!Submission, Site!LeadSiteAssumption, Site!Steps
  <2> QED BY <2>2, <2>3, <2>4, <2>5 DEF SiteInv
<1>6. CASE outcome # "ok"
  <2>1. PICK cause \in {"unreachable", "broken"} : Site!Answer(v, Site!Error(cause))
    BY <1>2, <1>6
  <2>2. Site!Error(cause) \in Site!Answers /\ Site!Error(cause).kind = "error"
    BY ErrorsAreAnswers
  <2>3. /\ call' \in [Visitors -> Site!Steps \cup {None}]
        /\ form' \in [Visitors -> Site!Pages]
        /\ told' \in [Visitors -> Site!Answers \cup {None}]
        /\ \A w \in Visitors : call'[w] \in {call[w], None}
        /\ \A w \in Visitors : Served(w)' /\ Thanked(w)'
    BY <1>3, <2>1, <2>2, AnswerShows
  <2>4. Site!TypeOK'
    BY <1>1, <1>3, <1>4, <2>3 DEF Site!TypeOK, Site!Submissions
  <2>5. OnePlace'
    BY <1>1, <1>3, <2>3 DEF OnePlace, Site!LeadSiteAssumption, Site!Steps
  <2> QED BY <2>3, <2>4, <2>5 DEF SiteInv
<1> QED BY <1>5, <1>6

\* The thanks, for a row or for a line in the queue.
LEMMA ThanksStep ==
  ASSUME Site!LeadSiteAssumption, SiteInv, NEW v \in Visitors,
         Site!NotifyOwner(v) \/ Site!QueueLocalLeadSubmission(v)
  PROVE  SiteInv'
<1>1. Site!TypeOK /\ OnePlace /\ (\A w \in Visitors : Served(w) /\ Thanked(w))
  BY DEF SiteInv
<1>2. Site!Submission(v) \in Site!Submissions
  BY <1>1 DEF Served, Site!Submission, Site!Submissions, Site!TypeOK,
     Site!LeadSiteAssumption, Site!Steps, Site!NotifyOwner, Site!QueueLocalLeadSubmission
<1>3. /\ UNCHANGED <<configured, up, leads, audits, tries>>
      /\ queue \subseteq queue' /\ queue' \subseteq Site!Submissions
      /\ notified' \subseteq audits' /\ siteFaults' \in 0..MaxSiteFaults
      /\ configured => queue' = queue
  BY <1>1, <1>2 DEF Site!NotifyOwner, Site!QueueLocalLeadSubmission, Site!Fault,
     Site!TypeOK, Site!LeadSiteAssumption, Served, OnePlace
<1>4. PICK answer \in Site!Answers :
        /\ Site!Answer(v, answer)
        /\ answer.kind = "queued" => answer.id \in queue'
        /\ answer.kind = "lead" => answer.id \in leads' \cap audits'
  <2>1. CASE Site!NotifyOwner(v)
    <3> DEFINE thanks == [kind |-> "lead", id |-> Site!Submission(v)]
    <3>1. thanks \in Site!Answers /\ Site!Answer(v, thanks)
      BY <1>2, <2>1 DEF Site!Answers, Site!NotifyOwner
    <3>2. Site!Submission(v) \in leads' \cap audits'
      BY <1>1, <2>1 DEF Served, Site!NotifyOwner
    <3> QED BY <3>1, <3>2
  <2>2. CASE Site!QueueLocalLeadSubmission(v)
    <3>1. CASE Site!Answer(v, Site!Error("disk"))
      BY <3>1, ErrorsAreAnswers
    <3> DEFINE thanks == [kind |-> "queued", id |-> Site!Submission(v)]
    <3>2. CASE queue' = queue \cup {Site!Submission(v)} /\ Site!Answer(v, thanks)
      <4>1. thanks \in Site!Answers
        BY <1>2 DEF Site!Answers
      <4> QED BY <3>2, <4>1
    <3> QED BY <2>2, <3>1, <3>2 DEF Site!QueueLocalLeadSubmission
  <2> QED BY <2>1, <2>2
<1>5. /\ call' \in [Visitors -> Site!Steps \cup {None}]
      /\ form' \in [Visitors -> Site!Pages]
      /\ told' \in [Visitors -> Site!Answers \cup {None}]
      /\ \A w \in Visitors : call'[w] \in {call[w], None}
      /\ \A w \in Visitors : Served(w)' /\ Thanked(w)'
  BY <1>3, <1>4, AnswerShows
<1>6. Site!TypeOK'
  BY <1>1, <1>3, <1>5 DEF Site!TypeOK, Site!Submissions
<1>7. OnePlace'
  BY <1>1, <1>3, <1>5 DEF OnePlace, Site!LeadSiteAssumption, Site!Steps
<1> QED BY <1>5, <1>6, <1>7 DEF SiteInv

\* The pages, and the faults between them and the database.
LEMMA PageStep ==
  ASSUME Site!LeadSiteAssumption, SiteInv,
         \/ \E v \in Visitors : Site!Send(v) \/ Site!Disconnect(v)
         \/ Site!Restart \/ Site!DatabaseFails \/ Site!DatabaseReturns
  PROVE  SiteInv'
<1>1. Site!TypeOK /\ OnePlace /\ (\A w \in Visitors : Served(w) /\ Thanked(w))
  BY DEF SiteInv
<1>2. UNCHANGED <<configured, leads, audits, queue, notified>>
  BY DEF Site!Send, Site!Disconnect, Site!Restart, Site!DatabaseFails, Site!DatabaseReturns
<1>3. /\ Site!Error("transport") \in Site!Answers
      /\ \A v \in Visitors : Site!PageAfter(v, Site!Error("transport")) \in {"fallback", "failed"}
  BY ErrorsAreAnswers DEF Site!PageAfter
<1>4. CASE \E v \in Visitors : Site!Send(v)
  <2>1. PICK v \in Visitors : Site!Send(v)
    BY <1>4
  <2>2. /\ UNCHANGED <<up, told, siteFaults>>
        /\ call' \in [Visitors -> Site!Steps \cup {None}]
        /\ form' \in [Visitors -> Site!Pages]
        /\ tries' \in [Visitors -> 0..MaxTries]
        /\ \A w \in Visitors : w # v =>
             form'[w] = form[w] /\ call'[w] = call[w] /\ tries'[w] = tries[w]
        /\ form'[v] = "sent" /\ call'[v] = "create" /\ tries'[v] > 0
    BY <1>1, <2>1 DEF Site!Send, Site!TypeOK, Site!Steps, Site!Pages,
       Site!LeadSiteAssumption
  <2>3. Site!TypeOK'
    BY <1>1, <1>2, <2>2 DEF Site!TypeOK, Site!Submissions
  <2>4. \A w \in Visitors : Served(w)' /\ Thanked(w)'
    BY <1>1, <1>2, <2>2 DEF Served, Thanked, Site!Submission, Site!Answers, Site!Submissions
  <2> QED BY <1>1, <1>2, <2>2, <2>3, <2>4 DEF SiteInv, OnePlace
<1>5. CASE ~\E v \in Visitors : Site!Send(v)
  <2> DEFINE Faulted ==
        /\ UNCHANGED tries /\ siteFaults' \in 0..MaxSiteFaults
        /\ call' \in [Visitors -> Site!Steps \cup {None}]
        /\ form' \in [Visitors -> Site!Pages]
        /\ told' \in [Visitors -> Site!Answers \cup {None}]
        /\ \A w \in Visitors : call'[w] \in {call[w], None}
        /\ \A w \in Visitors :
             \/ form'[w] = form[w] /\ told'[w] = told[w]
             \/ form'[w] \in {"fallback", "failed"}
  <2>1. Faulted
    <3>1. \A v \in Visitors : Site!PageAfter(v, Site!Error("transport")) \in Site!Pages
      BY <1>3 DEF Site!Pages
    <3>2. CASE Site!Restart
      BY <1>1, <1>3, <3>1, <3>2 DEF Site!TypeOK, Site!LeadSiteAssumption, Site!Restart,
         Site!Fault
    <3>3. CASE Site!DatabaseFails \/ Site!DatabaseReturns
      <4>1. UNCHANGED <<tries, call, form, told>>
        BY <3>3 DEF Site!DatabaseFails, Site!DatabaseReturns
      <4>2. siteFaults' \in 0..MaxSiteFaults
        BY <1>1, <3>3 DEF Site!DatabaseFails, Site!DatabaseReturns, Site!Fault, Site!TypeOK,
           Site!LeadSiteAssumption
      <4> QED BY <1>1, <4>1, <4>2 DEF Site!TypeOK
    <3>4. ASSUME NEW v \in Visitors, Site!Disconnect(v)
          PROVE  Faulted
      BY <1>1, <1>3, <3>1, <3>4 DEF Site!TypeOK, Site!LeadSiteAssumption,
         Site!Disconnect, Site!Fault
    <3> QED BY <1>5, <3>2, <3>3, <3>4
  <2>2. up' \in BOOLEAN
    BY <1>1, <1>5, Zenon DEF Site!TypeOK, Site!Disconnect, Site!Restart,
       Site!DatabaseFails, Site!DatabaseReturns
  <2>3. Site!TypeOK'
    BY <1>1, <1>2, <2>1, <2>2 DEF Site!TypeOK, Site!Submissions
  <2>4. OnePlace'
    BY <1>1, <1>2, <2>1 DEF OnePlace, Site!LeadSiteAssumption, Site!Steps
  <2>5. \A w \in Visitors : Thanked(w)'
    BY <1>1, <1>2, <2>1 DEF Thanked, Site!Answers, Site!Submissions
  <2>6. \A w \in Visitors : Served(w)'
    BY <1>1, <1>2, <2>1 DEF Served, Site!Submission, Site!LeadSiteAssumption, Site!Steps
  <2> QED BY <2>3, <2>4, <2>5, <2>6 DEF SiteInv
<1> QED BY <1>4, <1>5

-----------------------------------------------------------------------------
(***************************************************************************)
(* The lead forms: the theorem                                             *)
(***************************************************************************)

\* A visitor who is thanked has a lead somebody will read, and no lead is in
\* two places, for any visitors, forms, outages and restarts, with and without
\* a database (lead.submit, queueLocalLeadSubmission).
THEOREM SiteKeeps ==
  ASSUME Site!LeadSiteAssumption PROVE Site!Spec => []Site!LeadsKept
<1>1. Site!Init => SiteInv
  BY DEF Site!LeadSiteAssumption, Site!Init, SiteInv, Site!TypeOK, OnePlace, Served,
     Thanked, Site!Steps, Site!Pages, Site!Submissions
<1>2. SiteInv /\ [Site!Next]_Site!vars => SiteInv'
  <2> SUFFICES ASSUME SiteInv, [Site!Next]_Site!vars PROVE SiteInv'
    OBVIOUS
  <2>1. CASE UNCHANGED Site!vars
    BY <2>1 DEF Site!vars, SiteInv, Site!TypeOK, OnePlace, Served, Thanked,
       Site!Submission, Site!Submissions, Site!Answers
  <2> QED
    BY <2>1, CreateStep, AuditStep, ThanksStep, PageStep DEF Site!Next, Site!Serve
<1>3. SiteInv => Site!LeadsKept
  <2> SUFFICES ASSUME SiteInv PROVE Site!LeadsKept
    OBVIOUS
  <2>1. Site!TypeOK /\ Site!OneHome
    BY DEF SiteInv, OnePlace, Site!OneHome
  <2>2. Site!ThankedIsKept
    BY DEF SiteInv, Thanked, Site!ThankedIsKept
  <2> QED BY <2>1, <2>2 DEF Site!LeadsKept
<1> QED BY <1>1, <1>2, <1>3, PTL DEF Site!Spec

-----------------------------------------------------------------------------
(***************************************************************************)
(* The administration: the inductive invariant                             *)
(***************************************************************************)
Requested == [People -> Admin!Requests \cup {None}]

\* An article that is there and has a date, or is no more.
Dated == post = Gone \/ (post # None /\ post.at # None)

\* What a request may rely on: an administrator's role was his during the
\* request, and who found a date finds it still.
Entitled(p) ==
  request[p] # None =>
    /\ sent > 0
    /\ request[p].role = "admin" \/ roles[p] = "admin" => request[p].held
    /\ request[p].op \notin {"draft", "release"} => post # None
    /\ request[p].step = "write" =>
         /\ request[p].role = "admin" /\ request[p].op = "publish"
         /\ request[p].first \/ Dated

AdminInv ==
  /\ Admin!TypeOK /\ Admin!AdminOnlyByGrant /\ Admin!PublishedHasDate
  /\ \A p \in People : Entitled(p)

-----------------------------------------------------------------------------
\* What the steps of the rows make of the requests: some end, others come to
\* their next step, and the witness marks who is an administrator now.
LEMMA Witnessed ==
  ASSUME Admin!SiteAdminAssumption, AdminInv, NEW q \in Requested,
         \A p \in People : q[p] # None =>
           /\ request[p] # None
           /\ q[p].op = request[p].op /\ q[p].role = request[p].role
           /\ q[p].first = request[p].first /\ q[p].held = request[p].held
           /\ \/ q[p].step = request[p].step \/ q[p].step = "reread"
              \/ q[p].step = "run" /\ request[p].role # None,
         request' = Admin!Witness(roles', q), UNCHANGED <<post, sent>>
  PROVE  /\ request' \in Requested
         /\ \A p \in People :
              request'[p] # None /\ request'[p].step \in {"touch", "run", "write"}
                => request'[p].role # None
         /\ \A p \in People : Entitled(p)'
<1>1. Admin!TypeOK /\ \A p \in People : Entitled(p)
  BY DEF AdminInv
<1>2. ASSUME NEW p \in People
      PROVE  /\ request'[p] \in Admin!Requests \cup {None}
             /\ request'[p] # None =>
                  /\ q[p] # None /\ q[p] \in Admin!Requests
                  /\ request'[p].op = q[p].op /\ request'[p].role = q[p].role
                  /\ request'[p].first = q[p].first /\ request'[p].step = q[p].step
                  /\ q[p].held \/ roles'[p] = "admin" => request'[p].held
  <2>1. request'[p] = IF q[p] # None /\ roles'[p] = "admin"
                      THEN [q[p] EXCEPT !.held = TRUE] ELSE q[p]
    BY DEF Admin!Witness
  <2>2. q[p] \in Admin!Requests \cup {None}
    BY DEF Requested
  <2>3. CASE q[p] # None /\ roles'[p] = "admin"
    <3>1. request'[p] = [q[p] EXCEPT !.held = TRUE] /\ q[p] \in Admin!Requests
      BY <2>1, <2>2, <2>3
    <3> QED BY <2>3, <3>1 DEF Admin!Requests
  <2>4. CASE ~(q[p] # None /\ roles'[p] = "admin")
    BY <2>1, <2>2, <2>4
  <2> QED BY <2>3, <2>4
<1>3. request' \in Requested
  BY <1>2 DEF Admin!Witness, Requested
<1>4. ASSUME NEW p \in People, request'[p] # None
      PROVE  /\ request'[p].step \in {"touch", "run", "write"} => request'[p].role # None
             /\ Entitled(p)'
  <2>1. Entitled(p) /\ request[p] # None
    BY <1>1, <1>2, <1>4
  <2>2. request[p].step \in {"touch", "run", "write"} => request[p].role # None
    BY <1>1, <2>1 DEF Admin!TypeOK
  <2>3. Dated' <=> Dated
    BY DEF Dated
  <2> QED BY <1>2, <1>4, <2>1, <2>2, <2>3 DEF Entitled
<1> QED BY <1>3, <1>4 DEF Entitled

\* Sessions and rows change, and the article does not.
LEMMA RowsStep ==
  ASSUME Admin!SiteAdminAssumption, AdminInv, NEW p \in People,
         \/ Admin!SignIn(p) \/ Admin!Logout(p) \/ Admin!EditRow(p)
         \/ Admin!Sync(p) \/ Admin!Touch(p)
  PROVE  AdminInv' /\ UNCHANGED post
<1>1. /\ Admin!TypeOK /\ Admin!AdminOnlyByGrant /\ Admin!PublishedHasDate
      /\ \A r \in People : Entitled(r)
  BY DEF AdminInv
<1>2. UNCHANGED <<nameless, post, sent>>
  BY DEF Admin!SignIn, Admin!Logout, Admin!EditRow, Admin!Sync, Admin!Touch
<1>3. Admin!Upserted(p) \in [People -> Admin!Roles \cup {None}]
  BY <1>1 DEF Admin!Upserted, Admin!TypeOK, Admin!Roles
<1>4. /\ roles' \in [People -> Admin!Roles \cup {None}] /\ granted' \in [People -> BOOLEAN]
      /\ \A r \in People \ {Owner} : roles'[r] = "admin" => granted'[r]
  <2>1. CASE Admin!EditRow(p)
    <3>1. PICK new \in {"user", "admin", None} \ {roles[p]} :
            /\ roles' = [roles EXCEPT ![p] = new]
            /\ granted' = [granted EXCEPT ![p] = (new = "admin")]
      BY <2>1 DEF Admin!EditRow
    <3> QED BY <1>1, <3>1 DEF Admin!TypeOK, Admin!Roles, Admin!AdminOnlyByGrant
  <2>2. CASE ~Admin!EditRow(p)
    <3>1. granted' = granted /\ roles' \in {roles, Admin!Upserted(p)}
      BY <2>2 DEF Admin!SignIn, Admin!Logout, Admin!Sync, Admin!Touch
    <3>2. \A r \in People \ {Owner} :
            Admin!Upserted(p)[r] = "admin" => roles[r] = "admin"
      BY <1>1 DEF Admin!Upserted, Admin!TypeOK, Admin!SiteAdminAssumption, Admin!Roles
    <3> QED BY <1>1, <1>3, <3>1, <3>2 DEF Admin!TypeOK, Admin!AdminOnlyByGrant
  <2> QED BY <2>1, <2>2
<1>5. /\ cookie' \in [People -> {"named", "nameless", None}]
      /\ grants' \in 0..MaxGrants /\ adminFaults' \in 0..MaxAdminFaults
  BY <1>1 DEF Admin!TypeOK, Admin!SiteAdminAssumption, Admin!Fault, Admin!SignIn,
     Admin!Logout, Admin!EditRow, Admin!Sync, Admin!Touch
<1>6. /\ request' \in Requested
      /\ \A r \in People :
           request'[r] # None /\ request'[r].step \in {"touch", "run", "write"}
             => request'[r].role # None
      /\ \A r \in People : Entitled(r)'
  <2>1. request \in Requested
    BY <1>1 DEF Admin!TypeOK, Requested
  <2>2. CASE Admin!SignIn(p) \/ Admin!EditRow(p)
    <3>1. request' = Admin!Witness(roles', request)
      BY <2>2 DEF Admin!SignIn, Admin!EditRow
    <3> QED BY <1>2, <2>1, <3>1, Witnessed
  <2>3. CASE Admin!Logout(p)
    <3>1. UNCHANGED <<request, roles, post, sent>>
      BY <2>3 DEF Admin!Logout
    <3> QED BY <1>1, <2>1, <3>1 DEF Admin!TypeOK, Entitled, Dated
  <2>4. ASSUME NEW step \in {"reread", "run"}, request[p] # None,
               step = "run" => request[p].role # None,
               request' = Admin!Witness(roles', [request EXCEPT ![p].step = step])
        PROVE  <1>6
    <3> DEFINE q == [request EXCEPT ![p].step = step]
    <3>1. [request[p] EXCEPT !.step = step] \in Admin!Requests
      BY <2>1, <2>4 DEF Requested, Admin!Requests, Admin!Steps
    <3>2. q \in Requested
      BY <2>1, <3>1 DEF Requested
    <3>3. request[p] \in Admin!Requests
      BY <2>1, <2>4 DEF Requested
    <3>4. \A r \in People : q[r] # None =>
            /\ request[r] # None
            /\ q[r].op = request[r].op /\ q[r].role = request[r].role
            /\ q[r].first = request[r].first /\ q[r].held = request[r].held
            /\ \/ q[r].step = request[r].step \/ q[r].step = "reread"
               \/ q[r].step = "run" /\ request[r].role # None
      BY <2>1, <2>4, <3>3 DEF Requested, Admin!Requests
    <3> HIDE DEF q
    <3>5. request' = Admin!Witness(roles', q)
      BY <2>4 DEF q
    <3> QED BY <1>2, <3>2, <3>4, <3>5, Witnessed
  <2>5. ASSUME request' = Admin!Witness(roles', [request EXCEPT ![p] = None])
        PROVE  <1>6
    <3> DEFINE q == [request EXCEPT ![p] = None]
    <3>1. q \in Requested
      BY <2>1 DEF Requested
    <3>2. \A r \in People : q[r] # None => request[r] # None /\ q[r] = request[r]
      BY <2>1 DEF Requested
    <3> HIDE DEF q
    <3>3. request' = Admin!Witness(roles', q)
      BY <2>5 DEF q
    <3> QED BY <1>2, <3>1, <3>2, <3>3, Witnessed
  <2>6. CASE Admin!Sync(p)
    BY <2>4, <2>5, <2>6 DEF Admin!Sync, Admin!Asked
  <2>7. CASE Admin!Touch(p)
    <3>1. request[p] # None /\ request[p].role # None
      BY <1>1, <2>7 DEF Admin!Touch, Admin!Asked, Admin!TypeOK
    <3> QED BY <2>4, <2>5, <2>7, <3>1 DEF Admin!Touch
  <2> QED BY <2>2, <2>3, <2>6, <2>7
<1>7. Admin!TypeOK'
  BY <1>1, <1>2, <1>4, <1>5, <1>6 DEF Admin!TypeOK, Requested, Admin!Articles
<1>8. Admin!AdminOnlyByGrant' /\ Admin!PublishedHasDate'
  BY <1>1, <1>2, <1>4 DEF Admin!AdminOnlyByGrant, Admin!PublishedHasDate
<1> QED BY <1>2, <1>6, <1>7, <1>8 DEF AdminInv

\* A request begins, reads and is refused; the rows and the article stay.
LEMMA RequestStep ==
  ASSUME Admin!SiteAdminAssumption, AdminInv, NEW p \in People,
         \/ \E op \in Admin!Operations : Admin!Begin(p, op)
         \/ Admin!Lookup(p) \/ Admin!Refuse(p) \/ Admin!ReadBlogPost(p)
  PROVE  AdminInv' /\ UNCHANGED post
<1>1. /\ Admin!TypeOK /\ Admin!AdminOnlyByGrant /\ Admin!PublishedHasDate
      /\ (\A r \in People : Entitled(r)) /\ MaxRequests \in Nat /\ MaxAdminFaults \in Nat
  BY DEF AdminInv, Admin!SiteAdminAssumption
<1>2. /\ UNCHANGED <<nameless, roles, cookie, post, granted, grants>>
      /\ adminFaults' \in 0..MaxAdminFaults /\ sent' \in 0..MaxRequests /\ sent' >= sent
  BY <1>1 DEF Admin!TypeOK, Admin!Fault, Admin!Begin, Admin!Lookup, Admin!Refuse,
     Admin!ReadBlogPost
<1>3. \A r \in People : r # p => request'[r] = request[r]
  BY <1>1 DEF Admin!TypeOK, Admin!Begin, Admin!Lookup, Admin!Refuse, Admin!Refused,
     Admin!ReadBlogPost
<1>4. request[p] # None => request[p] \in Admin!Requests
  BY <1>1 DEF Admin!TypeOK
<1>5. /\ request' \in Requested
      /\ request'[p] # None =>
           /\ request'[p].step \in {"touch", "run", "write"} => request'[p].role # None
           /\ Entitled(p)'
  <2>1. ASSUME NEW q \in Admin!Requests \cup {None}, request' = [request EXCEPT ![p] = q],
               q # None =>
                 /\ q.step \in {"touch", "run", "write"} => q.role # None
                 /\ sent' > 0
                 /\ q.role = "admin" \/ roles[p] = "admin" => q.held
                 /\ q.op \notin {"draft", "release"} => post # None
                 /\ q.step = "write" =>
                      /\ q.role = "admin" /\ q.op = "publish"
                      /\ q.first \/ Dated
        PROVE  <1>5
    <3>1. request'[p] = q /\ request' \in Requested
      BY <1>1, <2>1 DEF Admin!TypeOK, Requested
    <3> QED BY <1>2, <2>1, <3>1 DEF Entitled, Dated
  <2>2. CASE \E op \in Admin!Operations : Admin!Begin(p, op)
    <3>1. PICK op \in Admin!Operations : Admin!Begin(p, op)
      BY <2>2
    <3> DEFINE q == [step |-> "lookup", op |-> op, role |-> None, first |-> FALSE,
                     held |-> roles[p] = "admin"]
    <3>2. q \in Admin!Requests
      BY DEF Admin!Requests, Admin!Steps
    <3>3. request' = [request EXCEPT ![p] = q] /\ sent' > 0
          /\ (op \notin {"draft", "release"} => post # None)
      BY <1>1, <3>1 DEF Admin!Begin, Admin!TypeOK
    <3>4. None # "admin"
      BY DEF Admin!SiteAdminAssumption, Admin!Roles
    <3> QED BY <2>1, <3>2, <3>3, <3>4
  <2>3. CASE request' = [request EXCEPT ![p] = None]
    BY <2>1, <2>3
  <2>4. CASE Admin!Lookup(p) /\ request' # [request EXCEPT ![p] = None]
    <3>1. Entitled(p) /\ request[p] # None /\ request[p].step \in {"lookup", "reread"}
      BY <1>1, <2>4 DEF Admin!Lookup, Admin!Asked
    <3>2. \/ /\ roles[p] # None
             /\ request' = [request EXCEPT ![p] = [@ EXCEPT !.step = "touch", !.role = roles[p]]]
          \/ request' = [request EXCEPT ![p] = [@ EXCEPT !.step = "sync"]]
      BY <2>4 DEF Admin!Lookup, Admin!Refused
    <3>3. CASE /\ roles[p] # None
               /\ request' = [request EXCEPT ![p] = [@ EXCEPT !.step = "touch", !.role = roles[p]]]
      <4> DEFINE q == [request[p] EXCEPT !.step = "touch", !.role = roles[p]]
      <4>1. q \in Admin!Requests /\ q.step = "touch" /\ q.role = roles[p] /\ q.held = request[p].held
            /\ q.op = request[p].op
        BY <1>1, <1>4, <3>1 DEF Admin!Requests, Admin!Steps, Admin!TypeOK
      <4>2. request' = [request EXCEPT ![p] = q]
        BY <1>1, <3>3 DEF Admin!TypeOK
      <4>3. sent' > 0
        BY <1>1, <1>2, <3>1 DEF Entitled, Admin!TypeOK
      <4> HIDE DEF q
      <4> QED BY <2>1, <3>1, <3>3, <4>1, <4>2, <4>3 DEF Entitled
    <3>4. CASE request' = [request EXCEPT ![p] = [@ EXCEPT !.step = "sync"]]
      <4> DEFINE q == [request[p] EXCEPT !.step = "sync"]
      <4>1. q \in Admin!Requests /\ q.step = "sync" /\ q.role = request[p].role
            /\ q.held = request[p].held /\ q.op = request[p].op
        BY <1>4, <3>1 DEF Admin!Requests, Admin!Steps
      <4>2. request' = [request EXCEPT ![p] = q]
        BY <1>1, <3>4 DEF Admin!TypeOK
      <4>3. sent' > 0
        BY <1>1, <1>2, <3>1 DEF Entitled, Admin!TypeOK
      <4> HIDE DEF q
      <4> QED BY <2>1, <3>1, <4>1, <4>2, <4>3 DEF Entitled
    <3> QED BY <3>2, <3>3, <3>4
  <2>5. CASE Admin!ReadBlogPost(p)
    <3> DEFINE q == [request[p] EXCEPT !.step = "write", !.first = (post # Gone /\ post.at = None)]
    <3>1. /\ Entitled(p) /\ request[p] # None /\ request[p].role = "admin"
          /\ request[p].op = "publish" /\ None # "admin"
          /\ request' = [request EXCEPT ![p] = q]
      BY <1>1, <2>5 DEF Admin!ReadBlogPost, Admin!Running, Admin!Asked, Admin!Admitted,
         Admin!SiteAdminAssumption, Admin!Roles, Admin!TypeOK
    <3>2. /\ q \in Admin!Requests /\ q.step = "write" /\ q.role = "admin" /\ q.op = "publish"
          /\ q.held = request[p].held /\ q.first = (post # Gone /\ post.at = None)
      BY <1>4, <3>1 DEF Admin!Requests, Admin!Steps
    <3>3. q.first \/ Dated
      BY <3>1, <3>2 DEF Dated, Entitled
    <3>4. sent' > 0
      BY <1>1, <1>2, <3>1 DEF Entitled, Admin!TypeOK
    <3> HIDE DEF q
    <3> QED BY <2>1, <3>1, <3>2, <3>3, <3>4 DEF Entitled
  <2> QED
    BY <2>2, <2>3, <2>4, <2>5 DEF Admin!Refuse, Admin!Refused
<1>6. ASSUME NEW r \in People PROVE Entitled(r)'
  <2>1. CASE r = p
    BY <1>5, <2>1 DEF Entitled
  <2>2. CASE r # p
    BY <1>1, <1>2, <1>3, <2>2 DEF Entitled, Dated, Admin!TypeOK
  <2> QED BY <2>1, <2>2
<1>7. Admin!TypeOK'
  <2>1. \A r \in People : request'[r] # None /\ request'[r].step \in {"touch", "run", "write"}
          => request'[r].role # None
    BY <1>1, <1>3, <1>5 DEF Admin!TypeOK
  <2> QED BY <1>1, <1>2, <1>5, <2>1 DEF Admin!TypeOK, Requested, Admin!Articles
<1>8. Admin!AdminOnlyByGrant' /\ Admin!PublishedHasDate'
  BY <1>1, <1>2 DEF Admin!AdminOnlyByGrant, Admin!PublishedHasDate
<1> QED BY <1>2, <1>6, <1>7, <1>8 DEF AdminInv

\* The article changes, and the request that changed it ends.
LEMMA ArticleStep ==
  ASSUME Admin!SiteAdminAssumption, AdminInv, NEW p \in People,
         Admin!CreateBlogPost(p) \/ Admin!UpdateBlogPost(p) \/ Admin!DeleteBlogPost(p)
  PROVE  AdminInv' /\ request[p] # None /\ request'[p] = None /\ request[p].held
<1>1. /\ Admin!TypeOK /\ Admin!AdminOnlyByGrant /\ Admin!PublishedHasDate
      /\ (\A r \in People : Entitled(r)) /\ MaxRequests \in Nat
  BY DEF AdminInv, Admin!SiteAdminAssumption
<1>2. None # Gone /\ None \notin 1..MaxRequests /\ Gone \notin Admin!Articles
  BY DEF Admin!SiteAdminAssumption
<1>3. /\ request[p] # None /\ request[p] \in Admin!Requests /\ request[p].role = "admin"
      /\ UNCHANGED <<nameless, roles, cookie, granted, sent, grants, adminFaults>>
      /\ request' = [request EXCEPT ![p] = None]
  BY <1>1 DEF Admin!CreateBlogPost, Admin!UpdateBlogPost, Admin!DeleteBlogPost,
     Admin!Running, Admin!Asked, Admin!Admitted, Admin!Refused, Admin!TypeOK, Entitled
<1>4. request[p].held /\ sent \in 1..MaxRequests
  BY <1>1, <1>3 DEF Entitled, Admin!TypeOK
<1>5. /\ post' \in Admin!Articles \cup {Gone}
      /\ post' # Gone /\ post'.published => post'.at # None
      /\ Dated => Dated'
  <2>1. post \in {None, Gone} \/ post \in Admin!Articles
    BY <1>1 DEF Admin!TypeOK
  <2>2. post \in Admin!Articles /\ post.published => post.at # None
    BY <1>1, <1>2 DEF Admin!PublishedHasDate, Admin!SiteAdminAssumption
  <2>3. None \notin Admin!Articles
    BY DEF Admin!SiteAdminAssumption
  <2>4. CASE Admin!CreateBlogPost(p)
    <3>1. CASE post = None
      <4>1. PICK out \in BOOLEAN :
              post' = [published |-> out, at |-> IF out THEN sent ELSE None]
        BY <2>4, <3>1 DEF Admin!CreateBlogPost
      <4> QED BY <1>2, <1>4, <3>1, <4>1 DEF Admin!Articles, Dated
    <3>2. CASE post # None
      BY <1>2, <2>1, <2>2, <2>4, <3>2 DEF Admin!CreateBlogPost, Dated
    <3> QED BY <3>1, <3>2
  <2>5. CASE Admin!DeleteBlogPost(p)
    BY <2>5 DEF Admin!DeleteBlogPost, Dated
  <2>6. CASE Admin!UpdateBlogPost(p)
    <3>1. /\ request[p].op \in {"publish", "withdraw"} /\ post # None
          /\ request[p].op = "publish" => request[p].first \/ Dated
      BY <1>1, <1>3, <2>6 DEF Admin!UpdateBlogPost, Admin!Running, Admin!Asked, Entitled
    <3>2. CASE post = Gone
      BY <2>6, <3>2 DEF Admin!UpdateBlogPost, Dated
    <3>3. CASE post # Gone
      <4>1. post' = [published |-> request[p].op = "publish",
                     at |-> IF request[p].first THEN sent ELSE post.at]
        BY <2>6, <3>3 DEF Admin!UpdateBlogPost
      <4>2. post.at \in 1..MaxRequests \cup {None}
        BY <2>1, <3>1, <3>3 DEF Admin!Articles
      <4>3. post'.published = (request[p].op = "publish")
            /\ post'.at = IF request[p].first THEN sent ELSE post.at
        BY <4>1
      <4>4. post' \in Admin!Articles
        BY <1>4, <4>1, <4>2 DEF Admin!Articles
      <4> QED BY <1>2, <1>4, <2>3, <3>1, <3>3, <4>3, <4>4 DEF Dated
    <3> QED BY <3>2, <3>3
  <2> QED BY <2>4, <2>5, <2>6
<1>6. /\ request' \in Requested /\ request'[p] = None
      /\ \A r \in People : r # p => request'[r] = request[r]
  BY <1>1, <1>3 DEF Admin!TypeOK, Requested
<1>7. Admin!TypeOK'
  BY <1>1, <1>3, <1>5, <1>6 DEF Admin!TypeOK, Requested, Admin!Articles
<1>8. post' # None
  BY <1>2, <1>5 DEF Admin!SiteAdminAssumption
<1>9. \A r \in People : Entitled(r)'
  BY <1>1, <1>3, <1>5, <1>6, <1>8 DEF Entitled
<1>10. Admin!AdminOnlyByGrant' /\ Admin!PublishedHasDate'
  BY <1>1, <1>3, <1>5 DEF Admin!AdminOnlyByGrant, Admin!PublishedHasDate
<1> QED BY <1>3, <1>4, <1>6, <1>7, <1>9, <1>10 DEF AdminInv

-----------------------------------------------------------------------------
(***************************************************************************)
(* The administration: the theorems                                        *)
(***************************************************************************)

\* At first nobody has sent a request.
LEMMA AdminStarts ==
  ASSUME Admin!SiteAdminAssumption PROVE Admin!Init => AdminInv
BY DEF Admin!SiteAdminAssumption, Admin!Init, AdminInv, Admin!TypeOK, Admin!Roles,
   Admin!AdminOnlyByGrant, Admin!PublishedHasDate, Entitled

\* Every statement of the administration.
LEMMA AdminSteps ==
  ASSUME Admin!SiteAdminAssumption
  PROVE  AdminInv /\ [Admin!Next]_Admin!vars => AdminInv'
<1> SUFFICES ASSUME AdminInv, [Admin!Next]_Admin!vars PROVE AdminInv'
  OBVIOUS
<1>1. CASE UNCHANGED Admin!vars
  BY <1>1 DEF Admin!vars, AdminInv, Admin!TypeOK, Admin!Articles, Admin!Requests,
     Admin!AdminOnlyByGrant, Admin!PublishedHasDate, Entitled, Dated
<1> QED
  BY <1>1, RowsStep, RequestStep, ArticleStep DEF Admin!Next, Admin!Procedure

\* Nobody but the owner is an administrator ungranted, and a published article
\* has its date, for any people, requests, edits of rows and faults (upsertUser,
\* blog.update).
THEOREM RightsHold ==
  ASSUME Admin!SiteAdminAssumption PROVE Admin!Spec => []Admin!RightsGranted
<1>1. AdminInv => Admin!RightsGranted
  BY DEF AdminInv, Admin!RightsGranted
<1> QED BY <1>1, AdminStarts, AdminSteps, PTL DEF Admin!Spec

\* An article changes only by a request whose sender was an administrator at
\* some time during it (adminProcedure).
THEOREM ArticlesByAdministrators ==
  ASSUME Admin!SiteAdminAssumption PROVE Admin!Spec => Admin!ChangedByAdministrators
<1>1. AdminInv /\ [Admin!Next]_Admin!vars =>
        [post' # post => \E p \in People :
           request[p] # None /\ request'[p] = None /\ request[p].held]_Admin!vars
  BY RowsStep, RequestStep, ArticleStep DEF Admin!Next, Admin!Procedure
<1> QED BY <1>1, AdminStarts, AdminSteps, PTL DEF Admin!Spec, Admin!ChangedByAdministrators

-----------------------------------------------------------------------------
(***************************************************************************)
(* The knowledge sync: the inductive invariants                            *)
(***************************************************************************)
AtPath(n) == work[n].path
Body(n) == work[n].body[work[n].path]

\* A request works at notes that its node holds.
Carried(n) ==
  work[n] # None =>
    /\ \A p \in work[n].todo : work[n].body[p] # None
    /\ work[n].step # "check" => AtPath(n) \in NotePaths /\ Body(n) # None
    /\ work[n].step = "index" => ~Body(n).deleted

BrainTyped ==
  /\ Brain!TypeOK /\ noon <= edits
  /\ \A n \in Nodes : Carried(n)

\* A request that goes on to write has read a row that its note wins over.
Fresh ==
  \A n \in Nodes : Brain!At(n, "write") => Brain!Newer(Body(n), work[n].existing)

\* A path whose last upsert was left alone: at most one request indexes it, the
\* row is what that request wrote and, once it has removed the entries, none is
\* there; when it is through the entries are those the row asks for.
Tidy(p) ==
  p \notin torn =>
    /\ \A m, n \in Nodes : Brain!Indexing(m, p) /\ Brain!Indexing(n, p) => m = n
    /\ \A n \in Nodes : Brain!Indexing(n, p) =>
         /\ rows[p] = work[n].body[p]
         /\ work[n].step = "index" => Brain!EntriesOf(p) = {}
    /\ (\A n \in Nodes : ~Brain!Indexing(n, p)) => Brain!InStep(p)

AllTidy == \A p \in NotePaths : Tidy(p)

-----------------------------------------------------------------------------
\* What a step makes of the request of its node.
LEMMA RequestMoves ==
  ASSUME Brain!BrainSyncAssumption, BrainTyped, NEW n \in Nodes,
         NEW q \in Brain!Requests \cup {None}, work' = [work EXCEPT ![n] = q],
         q # None =>
           /\ (q.step = "check") = (q.path = None)
           /\ \A p \in q.todo : q.body[p] # None
           /\ q.step # "check" => q.path \in NotePaths /\ q.body[q.path] # None
           /\ q.step = "index" => ~q.body[q.path].deleted
  PROVE  /\ work' \in [Nodes -> Brain!Requests \cup {None}] /\ work'[n] = q
         /\ \A m \in Nodes : m # n => work'[m] = work[m]
         /\ \A m \in Nodes : Carried(m)'
         /\ \A m \in Nodes : work'[m] # None =>
              (work'[m].step = "check") = (work'[m].path = None)
<1>1. Brain!TypeOK /\ \A m \in Nodes : Carried(m)
  BY DEF BrainTyped
<1>2. /\ work' \in [Nodes -> Brain!Requests \cup {None}] /\ work'[n] = q
      /\ \A m \in Nodes : m # n => work'[m] = work[m]
  BY <1>1 DEF Brain!TypeOK
<1>3. ASSUME NEW m \in Nodes PROVE Carried(m)'
  BY <1>1, <1>2 DEF Carried, AtPath, Body
<1>4. ASSUME NEW m \in Nodes, work'[m] # None
      PROVE  (work'[m].step = "check") = (work'[m].path = None)
  BY <1>1, <1>2, <1>4 DEF Brain!TypeOK
<1> QED BY <1>2, <1>3, <1>4

\* The steps of the worker, as steps of one request: it looks at a note and
\* goes on to write it or leaves it, writes its row, removes its entries and
\* adds the new one.
Compared(n, p, q) ==
  /\ p \in work[n].todo /\ work[n].step = "check"
  /\ q.body = work[n].body /\ q.start = work[n].start
  /\ \/ q.step = "write" /\ q.path = p /\ q.todo = work[n].todo
        /\ q.existing = rows[p] /\ Brain!Newer(work[n].body[p], q.existing)
     \/ q.step = "check" /\ q.path = None /\ q.todo = work[n].todo \ {p}

NewEntry(n) == [path |-> AtPath(n), revision |-> Body(n), from |-> n]

GoesOn(n, from, to, q) ==
  /\ work[n].step = from /\ q.body = work[n].body /\ q.start = work[n].start
  /\ \/ q.step = to /\ to # "check" /\ q.path = AtPath(n) /\ q.todo = work[n].todo
     \/ /\ q.step = "check" /\ to \in {"check", "index"} /\ q.path = None
        /\ q.todo = work[n].todo \ {AtPath(n)}
        /\ to = "index" => Body(n).deleted
  /\ q.step = "index" => ~Body(n).deleted

\* The check of a note changes only the request, which it may end.
LEMMA CheckMoves ==
  ASSUME Brain!BrainSyncAssumption, BrainTyped, NEW n \in Nodes, Brain!Check(n)
  PROVE  /\ work[n] # None /\ UNCHANGED <<vault, since, rows, index, noon, torn, edits, syncFaults>>
         /\ \E q \in Brain!Requests, p \in NotePaths :
              work' = [work EXCEPT ![n] = q] /\ Compared(n, p, q)
<1>1. work \in [Nodes -> Brain!Requests \cup {None}] /\ work[n] # None /\ work[n].step = "check"
      /\ work[n].path = None
  BY DEF BrainTyped, Brain!TypeOK, Brain!Check, Brain!At
<1>2. work[n] \in Brain!Requests
  BY <1>1
<1>3. PICK p \in work[n].todo :
        IF Brain!Wins(work[n].body[p], rows[p])
        THEN work' = [work EXCEPT ![n].step = "write", ![n].path = p, ![n].existing = rows[p]]
        ELSE work' = [work EXCEPT ![n].todo = @ \ {p}]
  BY DEF Brain!Check
<1>4. p \in NotePaths /\ rows[p] \in Brain!Revisions \cup {None}
  BY <1>2 DEF Brain!Requests, BrainTyped, Brain!TypeOK, Brain!Notes
<1>5. CASE Brain!Wins(work[n].body[p], rows[p])
  <2> DEFINE q == [work[n] EXCEPT !.step = "write", !.path = p, !.existing = rows[p]]
  <2>1. q \in Brain!Requests /\ Compared(n, p, q)
    BY <1>1, <1>2, <1>4, <1>5 DEF Brain!Requests, Brain!Steps, Compared, Brain!Wins
  <2>2. work' = [work EXCEPT ![n] = q]
    BY <1>1, <1>3, <1>5
  <2> QED BY <1>1, <1>4, <2>1, <2>2 DEF Brain!Check
<1>6. CASE ~Brain!Wins(work[n].body[p], rows[p])
  <2> DEFINE q == [work[n] EXCEPT !.todo = @ \ {p}]
  <2>1. q \in Brain!Requests /\ Compared(n, p, q)
    BY <1>1, <1>2, <1>4 DEF Brain!Requests, Brain!Steps, Compared
  <2>2. work' = [work EXCEPT ![n] = q]
    BY <1>1, <1>3, <1>6
  <2> QED BY <1>1, <1>4, <2>1, <2>2 DEF Brain!Check
<1> QED BY <1>5, <1>6

\* The three writing statements, each with what it changes.
LEMMA WorkerMoves ==
  ASSUME Brain!BrainSyncAssumption, BrainTyped, NEW n \in Nodes,
         Brain!Write(n) \/ Brain!Unindex(n) \/ Brain!Index(n)
  PROVE  /\ work[n] # None /\ AtPath(n) \in NotePaths /\ Body(n) \in Brain!Revisions
         /\ UNCHANGED <<vault, since, noon, edits, syncFaults>>
         /\ \E q \in Brain!Requests :
              /\ work' = [work EXCEPT ![n] = q]
              /\ \/ /\ GoesOn(n, "write", "unindex", q) /\ UNCHANGED index
                    /\ rows' = [rows EXCEPT ![AtPath(n)] = Body(n)]
                    /\ torn' = IF \E m \in Nodes : Brain!Indexing(m, AtPath(n))
                               THEN torn \cup {AtPath(n)} ELSE torn \ {AtPath(n)}
                 \/ /\ GoesOn(n, "unindex", "index", q) /\ UNCHANGED <<rows, torn>>
                    /\ index' = index \ Brain!EntriesOf(AtPath(n))
                 \/ /\ GoesOn(n, "index", "check", q) /\ UNCHANGED <<rows, torn>>
                    /\ index' = index \cup {NewEntry(n)}
<1>1. /\ work \in [Nodes -> Brain!Requests \cup {None}] /\ work[n] # None
      /\ work[n].step \in {"write", "unindex", "index"} /\ Carried(n)
  BY DEF BrainTyped, Brain!TypeOK, Brain!Write, Brain!Unindex, Brain!Index, Brain!At
<1>2. work[n] \in Brain!Requests /\ AtPath(n) \in NotePaths
  BY <1>1 DEF Carried
<1>3. Body(n) \in Brain!Revisions
  BY <1>1, <1>2 DEF Carried, Body, AtPath, Brain!Requests, Brain!Notes
<1> DEFINE written == [work[n] EXCEPT !.step = "unindex", !.existing = None]
           removed == [work[n] EXCEPT !.step = "index"]
           done == [work[n] EXCEPT !.step = "check", !.todo = @ \ {work[n].path}, !.path = None]
<1>4. /\ written \in Brain!Requests /\ written.step = "unindex" /\ written.path = AtPath(n)
      /\ written.body = work[n].body /\ written.start = work[n].start
      /\ written.todo = work[n].todo
      /\ removed \in Brain!Requests /\ removed.step = "index" /\ removed.path = AtPath(n)
      /\ removed.body = work[n].body /\ removed.start = work[n].start
      /\ removed.todo = work[n].todo
  BY <1>2 DEF Brain!Requests, Brain!Steps, AtPath
<1>5. /\ done \in Brain!Requests /\ done.step = "check" /\ done.path = None
      /\ done.body = work[n].body /\ done.start = work[n].start
      /\ done.todo = work[n].todo \ {AtPath(n)}
  BY <1>2 DEF Brain!Requests, Brain!Steps, AtPath
<1>6. Brain!Done(n) => work' = [work EXCEPT ![n] = done]
  BY <1>1 DEF Brain!Done
<1>7. /\ [work EXCEPT ![n].step = "unindex", ![n].existing = None] = [work EXCEPT ![n] = written]
      /\ [work EXCEPT ![n].step = "index"] = [work EXCEPT ![n] = removed]
  BY <1>1
<1> HIDE DEF written, removed, done
<1>8. CASE Brain!Write(n)
  <2>1. GoesOn(n, "write", "unindex", written)
    BY <1>4, <1>8 DEF GoesOn, Brain!Write, Brain!At
  <2> QED
    BY <1>1, <1>2, <1>3, <1>4, <1>7, <1>8, <2>1 DEF Brain!Write, AtPath, Body
<1>9. CASE Brain!Unindex(n)
  <2>1. ~Body(n).deleted => GoesOn(n, "unindex", "index", removed)
    BY <1>4, <1>9 DEF GoesOn, Brain!Unindex, Brain!At
  <2>2. Body(n).deleted => GoesOn(n, "unindex", "index", done)
    BY <1>5, <1>9 DEF GoesOn, Brain!Unindex, Brain!At
  <2> QED
    BY <1>1, <1>2, <1>3, <1>4, <1>5, <1>6, <1>7, <1>9, <2>1, <2>2
    DEF Brain!Unindex, AtPath, Body
<1>10. CASE Brain!Index(n)
  <2>1. GoesOn(n, "index", "check", done)
    BY <1>5, <1>10 DEF GoesOn, Brain!Index, Brain!At
  <2> QED
    BY <1>1, <1>2, <1>3, <1>5, <1>6, <1>10, <2>1 DEF Brain!Index, NewEntry, AtPath, Body
<1> QED BY <1>8, <1>9, <1>10

\* What the steps of a node and an end make of the request.
LEMMA NodeMoves ==
  ASSUME Brain!BrainSyncAssumption, BrainTyped, NEW n \in Nodes,
         \/ \E p \in NotePaths : Brain!Edit(n, p)
         \/ Brain!Send(n) \/ Brain!Answer(n) \/ Brain!BreakOff(n)
  PROVE  /\ UNCHANGED <<rows, index>>
         /\ vault' \in [Nodes -> Brain!Notes] /\ since' \in [Nodes -> Brain!Times]
         /\ noon' \in Brain!Times /\ edits' \in 0..MaxEdits /\ noon' <= edits'
         /\ syncFaults' \in 0..MaxSyncFaults /\ torn' \subseteq NotePaths
         /\ \/ UNCHANGED work
            \/ work' = [work EXCEPT ![n] = None]
            \/ \E q \in Brain!Requests :
                 /\ work' = [work EXCEPT ![n] = q] /\ Brain!Send(n)
                 /\ q.step = "check" /\ q.path = None
                 /\ \A p \in q.todo : q.body[p] # None
<1>1. Brain!TypeOK /\ noon <= edits /\ MaxEdits \in Nat /\ MaxSyncFaults \in Nat
  BY DEF BrainTyped, Brain!BrainSyncAssumption
<1>2. CASE \E p \in NotePaths : Brain!Edit(n, p)
  <2>1. PICK p \in NotePaths : Brain!Edit(n, p)
    BY <1>2
  <2>2. /\ noon' \in Brain!Times /\ edits' \in 0..MaxEdits /\ noon' <= edits'
    BY <1>1, <2>1 DEF Brain!Edit, Brain!TypeOK, Brain!Times
  <2>3. PICK gone \in BOOLEAN :
          vault' = [vault EXCEPT ![n][p] = [at |-> noon', by |-> n, deleted |-> gone]]
    BY <2>1 DEF Brain!Edit
  <2>4. [at |-> noon', by |-> n, deleted |-> gone] \in Brain!Revisions
    BY <2>2 DEF Brain!Revisions
  <2>5. vault' \in [Nodes -> Brain!Notes]
    BY <1>1, <2>3, <2>4 DEF Brain!TypeOK, Brain!Notes
  <2> QED BY <1>1, <2>1, <2>2, <2>5 DEF Brain!Edit, Brain!TypeOK
<1>3. CASE Brain!Send(n)
  <2> DEFINE q == [step |-> "check", path |-> None, body |-> vault[n], start |-> noon,
                   todo |-> {p \in NotePaths : vault[n][p] # None}, existing |-> None]
  <2>1. q \in Brain!Requests
    BY <1>1 DEF Brain!TypeOK, Brain!Requests, Brain!Steps
  <2>2. work' = [work EXCEPT ![n] = q]
    BY <1>3 DEF Brain!Send
  <2>3. /\ q.step = "check" /\ q.path = None
        /\ \A p \in q.todo : q.body[p] # None
    OBVIOUS
  <2>4. UNCHANGED <<vault, since, rows, index, noon, torn, edits, syncFaults>>
    BY <1>3 DEF Brain!Send
  <2> HIDE DEF q
  <2> QED BY <1>1, <1>3, <2>1, <2>2, <2>3, <2>4 DEF Brain!TypeOK
<1>4. CASE Brain!Answer(n)
  <2>1. /\ UNCHANGED <<rows, index, noon, torn, edits>> /\ work' = [work EXCEPT ![n] = None]
        /\ syncFaults' \in 0..MaxSyncFaults
    BY <1>1, <1>4 DEF Brain!Answer, Brain!Fault, Brain!TypeOK
  <2>2. since' \in [Nodes -> Brain!Times]
    <3>1. work[n] \in Brain!Requests
      BY <1>1, <1>4 DEF Brain!Answer, Brain!At, Brain!TypeOK
    <3>2. work[n].start \in Brain!Times
      BY <3>1 DEF Brain!Requests
    <3>3. since' \in {since, [since EXCEPT ![n] = work[n].start]}
      BY <1>4 DEF Brain!Answer
    <3> QED BY <1>1, <3>2, <3>3 DEF Brain!TypeOK
  <2>3. vault' \in [Nodes -> Brain!Notes]
    <3>1. CASE UNCHANGED vault
      BY <1>1, <3>1 DEF Brain!TypeOK
    <3>2. ASSUME NEW list,
                 vault' = [vault EXCEPT ![n] = [p \in NotePaths |->
                   IF p \in list /\ Brain!Newer(rows[p], @[p]) THEN rows[p] ELSE @[p]]]
          PROVE  vault' \in [Nodes -> Brain!Notes]
      <4> DEFINE notes == [p \in NotePaths |->
            IF p \in list /\ Brain!Newer(rows[p], vault[n][p]) THEN rows[p] ELSE vault[n][p]]
      <4>1. notes \in Brain!Notes
        BY <1>1 DEF Brain!TypeOK, Brain!Notes
      <4>2. vault' = [vault EXCEPT ![n] = notes]
        BY <1>1, <3>2 DEF Brain!TypeOK
      <4> HIDE DEF notes
      <4> QED BY <1>1, <4>1, <4>2 DEF Brain!TypeOK
    <3> QED BY <1>4, <3>1, <3>2 DEF Brain!Answer
  <2> QED BY <1>1, <2>1, <2>2, <2>3 DEF Brain!TypeOK
<1>5. CASE Brain!BreakOff(n)
  BY <1>1, <1>5 DEF Brain!BreakOff, Brain!Fault, Brain!TypeOK
<1> QED BY <1>2, <1>3, <1>4, <1>5

\* Every step of the sync keeps the types.
LEMMA TypedSteps ==
  ASSUME Brain!BrainSyncAssumption
  PROVE  BrainTyped /\ [Brain!Next]_Brain!vars => BrainTyped'
<1> SUFFICES ASSUME BrainTyped, [Brain!Next]_Brain!vars PROVE BrainTyped'
  OBVIOUS
<1>1. Brain!TypeOK /\ noon <= edits /\ \A n \in Nodes : Carried(n)
  BY DEF BrainTyped
<1>2. None \notin Brain!Requests
  BY DEF Brain!BrainSyncAssumption
<1>3. CASE UNCHANGED Brain!vars
  BY <1>1, <1>3 DEF Brain!vars, BrainTyped, Brain!TypeOK, Carried, AtPath, Body
<1>4. ASSUME NEW n \in Nodes,
             \/ \E p \in NotePaths : Brain!Edit(n, p)
             \/ Brain!Send(n) \/ Brain!Answer(n) \/ Brain!BreakOff(n)
      PROVE  BrainTyped'
  <2>1. /\ UNCHANGED <<rows, index>>
        /\ vault' \in [Nodes -> Brain!Notes] /\ since' \in [Nodes -> Brain!Times]
        /\ noon' \in Brain!Times /\ edits' \in 0..MaxEdits /\ noon' <= edits'
        /\ syncFaults' \in 0..MaxSyncFaults /\ torn' \subseteq NotePaths
    BY <1>4, NodeMoves
  <2>2. /\ work' \in [Nodes -> Brain!Requests \cup {None}]
        /\ \A m \in Nodes : Carried(m)'
        /\ \A m \in Nodes : work'[m] # None =>
             (work'[m].step = "check") = (work'[m].path = None)
    <3>1. CASE UNCHANGED work
      BY <1>1, <3>1 DEF Brain!TypeOK, Carried, AtPath, Body
    <3>2. CASE work' = [work EXCEPT ![n] = None]
      BY <3>2, RequestMoves
    <3>3. ASSUME NEW q \in Brain!Requests, work' = [work EXCEPT ![n] = q],
                 q.step = "check", q.path = None, \A p \in q.todo : q.body[p] # None
          PROVE  <2>2
      BY <3>3, RequestMoves
    <3> QED BY <1>4, <3>1, <3>2, <3>3, NodeMoves
  <2> QED BY <1>1, <2>1, <2>2 DEF BrainTyped, Brain!TypeOK
<1>5. ASSUME NEW n \in Nodes, Brain!Check(n) PROVE BrainTyped'
  <2>1. PICK q \in Brain!Requests, p \in NotePaths :
          work' = [work EXCEPT ![n] = q] /\ Compared(n, p, q)
    BY <1>5, CheckMoves
  <2>2. UNCHANGED <<vault, since, rows, index, noon, torn, edits, syncFaults>> /\ work[n] # None
    BY <1>5, CheckMoves
  <2>3. None \notin NotePaths
    BY DEF Brain!BrainSyncAssumption
  <2>4. /\ work' \in [Nodes -> Brain!Requests \cup {None}]
        /\ \A m \in Nodes : Carried(m)'
        /\ \A m \in Nodes : work'[m] # None =>
             (work'[m].step = "check") = (work'[m].path = None)
    <3>1. /\ (q.step = "check") = (q.path = None)
          /\ \A r \in q.todo : q.body[r] # None
          /\ q.step # "check" => q.path \in NotePaths /\ q.body[q.path] # None
          /\ q.step = "index" => ~q.body[q.path].deleted
      BY <1>1, <2>1, <2>2, <2>3 DEF Compared, Carried
    <3> QED BY <2>1, <3>1, RequestMoves
  <2> QED BY <1>1, <2>2, <2>4 DEF BrainTyped, Brain!TypeOK
<1>6. ASSUME NEW n \in Nodes, Brain!Write(n) \/ Brain!Unindex(n) \/ Brain!Index(n)
      PROVE  BrainTyped'
  <2>1. /\ work[n] # None /\ AtPath(n) \in NotePaths /\ Body(n) \in Brain!Revisions
        /\ UNCHANGED <<vault, since, noon, edits, syncFaults>>
    BY <1>6, WorkerMoves
  <2>2. PICK q \in Brain!Requests :
          /\ work' = [work EXCEPT ![n] = q]
          /\ torn' = torn \/ torn' \in {torn \cup {AtPath(n)}, torn \ {AtPath(n)}}
          /\ \/ /\ GoesOn(n, "write", "unindex", q) /\ UNCHANGED index
                /\ rows' = [rows EXCEPT ![AtPath(n)] = Body(n)]
             \/ /\ GoesOn(n, "unindex", "index", q) /\ UNCHANGED rows
                /\ index' = index \ Brain!EntriesOf(AtPath(n))
             \/ /\ GoesOn(n, "index", "check", q) /\ UNCHANGED rows
                /\ index' = index \cup {NewEntry(n)}
    BY <1>6, WorkerMoves
  <2>3. None \notin NotePaths /\ Carried(n)
    BY <1>1 DEF Brain!BrainSyncAssumption
  <2>4. /\ (q.step = "check") = (q.path = None)
        /\ \A r \in q.todo : q.body[r] # None
        /\ q.step # "check" => q.path \in NotePaths /\ q.body[q.path] # None
        /\ q.step = "index" => ~q.body[q.path].deleted
    BY <2>1, <2>2, <2>3 DEF GoesOn, Carried, AtPath, Body
  <2>5. /\ work' \in [Nodes -> Brain!Requests \cup {None}]
        /\ \A m \in Nodes : Carried(m)'
        /\ \A m \in Nodes : work'[m] # None =>
             (work'[m].step = "check") = (work'[m].path = None)
    BY <2>2, <2>4, RequestMoves
  <2>6. rows' \in Brain!Notes /\ torn' \subseteq NotePaths
    BY <1>1, <2>1, <2>2 DEF Brain!TypeOK, Brain!Notes
  <2>7. /\ index' \subseteq [path : NotePaths, revision : Brain!Revisions, from : Nodes]
        /\ \A entry \in index' : ~entry.revision.deleted
    <3>1. GoesOn(n, "index", "check", q) => ~Body(n).deleted
      BY <2>1, <2>3 DEF GoesOn, Carried
    <3> QED BY <1>1, <2>1, <2>2, <3>1 DEF Brain!TypeOK, NewEntry
  <2> QED BY <1>1, <2>1, <2>5, <2>6, <2>7 DEF BrainTyped, Brain!TypeOK
<1> QED BY <1>3, <1>4, <1>5, <1>6 DEF Brain!Next, Brain!Serve

\* At first no request is at work and no note is there.
LEMMA BrainStarts ==
  ASSUME Brain!BrainSyncAssumption
  PROVE  Brain!Init => BrainTyped /\ Fresh /\ AllTidy
BY DEF Brain!BrainSyncAssumption, Brain!Init, BrainTyped, Brain!TypeOK, Brain!Notes,
   Brain!Times, Carried, Fresh, AllTidy, Tidy, Brain!At, Brain!Indexing, Brain!InStep,
   Brain!EntriesOf

\* Only the check sends a request on to write, with the row it has read.
LEMMA FreshSteps ==
  ASSUME Brain!BrainSyncAssumption
  PROVE  BrainTyped /\ Fresh /\ [Brain!Next]_Brain!vars => Fresh'
<1> SUFFICES ASSUME BrainTyped, Fresh, [Brain!Next]_Brain!vars PROVE Fresh'
  OBVIOUS
<1>1. work \in [Nodes -> Brain!Requests \cup {None}] /\ None \notin Brain!Requests
  BY DEF BrainTyped, Brain!TypeOK, Brain!BrainSyncAssumption
<1>2. CASE UNCHANGED work
  BY <1>2 DEF Fresh, Brain!At, Body
<1>3. ASSUME NEW n \in Nodes, NEW q, work' = [work EXCEPT ![n] = q],
             q # None /\ q.step = "write" => Brain!Newer(q.body[q.path], q.existing)
      PROVE  Fresh'
  <2>1. work'[n] = q /\ \A m \in Nodes : m # n => work'[m] = work[m]
    BY <1>1, <1>3
  <2> QED BY <1>3, <2>1 DEF Fresh, Brain!At, Body, Brain!Newer
<1>4. ASSUME NEW n \in Nodes,
             \/ \E p \in NotePaths : Brain!Edit(n, p)
             \/ Brain!Send(n) \/ Brain!Answer(n) \/ Brain!BreakOff(n)
      PROVE  Fresh'
  <2>1. \/ UNCHANGED work
        \/ work' = [work EXCEPT ![n] = None]
        \/ \E q : work' = [work EXCEPT ![n] = q] /\ q.step = "check"
    BY <1>4, NodeMoves
  <2> QED BY <1>2, <1>3, <2>1
<1>5. ASSUME NEW n \in Nodes, Brain!Check(n) PROVE Fresh'
  <2>1. PICK q \in Brain!Requests, p \in NotePaths :
          work' = [work EXCEPT ![n] = q] /\ Compared(n, p, q)
    BY <1>5, CheckMoves
  <2>2. q.step = "write" => Brain!Newer(q.body[q.path], q.existing)
    BY <2>1 DEF Compared
  <2> QED BY <1>3, <2>1, <2>2
<1>6. ASSUME NEW n \in Nodes, Brain!Write(n) \/ Brain!Unindex(n) \/ Brain!Index(n)
      PROVE  Fresh'
  <2>1. \E q \in Brain!Requests : work' = [work EXCEPT ![n] = q] /\ q.step # "write"
    BY <1>6, WorkerMoves DEF GoesOn
  <2> QED BY <1>3, <2>1
<1> QED
  BY <1>2, <1>4, <1>5, <1>6 DEF Brain!Next, Brain!Serve, Brain!vars

\* A path whose row, entries and indexing requests a step leaves as they are.
LEMMA RestsTidy ==
  ASSUME NEW p \in NotePaths, Tidy(p), rows'[p] = rows[p],
         Brain!EntriesOf(p)' = Brain!EntriesOf(p), p \in torn => p \in torn',
         \A m \in Nodes : Brain!Indexing(m, p)' <=> Brain!Indexing(m, p),
         \A m \in Nodes : Brain!Indexing(m, p) => work'[m] = work[m]
  PROVE  Tidy(p)'
<1> SUFFICES ASSUME p \notin torn' PROVE Tidy(p)'
  BY DEF Tidy
<1>1. \A n \in Nodes : Brain!Indexing(n, p)' =>
        /\ rows'[p] = work'[n].body[p]
        /\ work'[n].step = "index" => Brain!EntriesOf(p)' = {}
  BY DEF Tidy
<1>2. (\A n \in Nodes : ~Brain!Indexing(n, p)') => Brain!InStep(p)'
  BY DEF Tidy, Brain!InStep
<1>3. \A m, n \in Nodes : Brain!Indexing(m, p)' /\ Brain!Indexing(n, p)' => m = n
  BY DEF Tidy
<1> QED BY <1>1, <1>2, <1>3 DEF Tidy

\* A request that starts, ends or checks is indexing nothing, before or after.
LEMMA OthersTidy ==
  ASSUME BrainTyped, AllTidy, NEW n \in Nodes, NEW q, work' = [work EXCEPT ![n] = q],
         q = None \/ q.step \notin {"unindex", "index"}, UNCHANGED <<rows, index>>,
         \A p \in NotePaths : p \in torn \/ Brain!Indexing(n, p) => p \in torn'
  PROVE  AllTidy'
<1>1. work'[n] = q /\ \A m \in Nodes : m # n => work'[m] = work[m]
  BY DEF BrainTyped, Brain!TypeOK
<1>2. ASSUME NEW p \in NotePaths PROVE Tidy(p)'
  <2>1. CASE Brain!Indexing(n, p)
    BY <2>1 DEF Tidy
  <2>2. CASE ~Brain!Indexing(n, p)
    <3>1. \A m \in Nodes : Brain!Indexing(m, p)' <=> Brain!Indexing(m, p)
      BY <1>1, <2>2 DEF Brain!Indexing, Brain!At
    <3>2. \A m \in Nodes : Brain!Indexing(m, p) => work'[m] = work[m]
      BY <1>1, <2>2
    <3>3. Brain!EntriesOf(p)' = Brain!EntriesOf(p)
      BY DEF Brain!EntriesOf
    <3> QED BY <3>1, <3>2, <3>3, RestsTidy DEF AllTidy
  <2> QED BY <2>1, <2>2
<1> QED BY <1>2 DEF AllTidy

\* A step of an upsert touches its own path only.
LEMMA UpsertTidy ==
  ASSUME Brain!BrainSyncAssumption, BrainTyped, AllTidy, NEW n \in Nodes,
         Brain!Write(n) \/ Brain!Unindex(n) \/ Brain!Index(n)
  PROVE  AllTidy'
<1>1. /\ work \in [Nodes -> Brain!Requests \cup {None}] /\ rows \in Brain!Notes
      /\ None \notin Brain!Requests /\ Carried(n)
  BY DEF BrainTyped, Brain!TypeOK, Brain!BrainSyncAssumption
<1>2. work[n] # None /\ AtPath(n) \in NotePaths /\ Body(n) \in Brain!Revisions
  BY WorkerMoves
<1>3. PICK q \in Brain!Requests :
        /\ work' = [work EXCEPT ![n] = q]
        /\ \/ /\ GoesOn(n, "write", "unindex", q) /\ UNCHANGED index
              /\ rows' = [rows EXCEPT ![AtPath(n)] = Body(n)]
              /\ torn' = IF \E m \in Nodes : Brain!Indexing(m, AtPath(n))
                         THEN torn \cup {AtPath(n)} ELSE torn \ {AtPath(n)}
           \/ /\ GoesOn(n, "unindex", "index", q) /\ UNCHANGED <<rows, torn>>
              /\ index' = index \ Brain!EntriesOf(AtPath(n))
           \/ /\ GoesOn(n, "index", "check", q) /\ UNCHANGED <<rows, torn>>
              /\ index' = index \cup {NewEntry(n)}
  BY WorkerMoves
<1>4. work'[n] = q /\ q # None /\ \A m \in Nodes : m # n => work'[m] = work[m]
  BY <1>1, <1>3
<1>5. \A m \in Nodes, p \in NotePaths :
        m # n => (Brain!Indexing(m, p)' <=> Brain!Indexing(m, p))
  BY <1>4 DEF Brain!Indexing, Brain!At
<1>6. ASSUME NEW p \in NotePaths, p # AtPath(n) PROVE Tidy(p)'
  <2>1. rows'[p] = rows[p]
    BY <1>1, <1>2, <1>3, <1>6 DEF Brain!Notes
  <2>2. p \in torn => p \in torn'
    BY <1>3, <1>6
  <2>3. Brain!EntriesOf(p)' = Brain!EntriesOf(p)
    <3>1. \A entry : entry.path = p => (entry \in index' <=> entry \in index)
      BY <1>3, <1>6 DEF Brain!EntriesOf, NewEntry
    <3> QED BY <3>1 DEF Brain!EntriesOf
  <2>4. q.path \in {AtPath(n), None} /\ None \notin NotePaths
    BY <1>3 DEF GoesOn, Brain!BrainSyncAssumption
  <2>5. ~Brain!Indexing(n, p) /\ ~Brain!Indexing(n, p)'
    BY <1>4, <1>6, <2>4 DEF Brain!Indexing, AtPath
  <2> QED BY <1>4, <1>5, <2>1, <2>2, <2>3, <2>5, RestsTidy DEF AllTidy
<1>7. ASSUME NEW p \in NotePaths, p = AtPath(n) PROVE Tidy(p)'
  <2> SUFFICES ASSUME p \notin torn' PROVE Tidy(p)'
    BY DEF Tidy
  <2>1. p \in NotePaths /\ Tidy(p) /\ Body(n) = work[n].body[p]
    BY <1>7 DEF AllTidy, AtPath, Body
  <2>2. CASE GoesOn(n, "write", "unindex", q)
    <3>1. /\ q.step = "unindex" /\ q.path = p /\ q.body = work[n].body
          /\ rows' = [rows EXCEPT ![p] = Body(n)]
          /\ \A m \in Nodes : ~Brain!Indexing(m, p)
      BY <1>3, <1>7, <2>2 DEF GoesOn
    <3>2. /\ Brain!Indexing(n, p)' /\ \A m \in Nodes : m # n => ~Brain!Indexing(m, p)'
      BY <1>4, <1>5, <1>7, <2>1, <3>1 DEF Brain!Indexing, Brain!At
    <3>3. rows'[p] = Body(n)
      BY <1>1, <2>1, <3>1 DEF Brain!Notes
    <3> QED BY <1>4, <2>1, <3>1, <3>2, <3>3 DEF Tidy
  <2>3. CASE GoesOn(n, "unindex", "index", q) \/ GoesOn(n, "index", "check", q)
    <3>1. p \notin torn /\ rows' = rows /\ Brain!Indexing(n, p)
      BY <1>2, <1>3, <1>7, <2>3 DEF GoesOn, Brain!Indexing, Brain!At, AtPath
    <3>2. /\ rows'[p] = work[n].body[p]
          /\ work[n].step = "index" => Brain!EntriesOf(p) = {}
          /\ \A m \in Nodes : m # n => ~Brain!Indexing(m, p)'
      BY <1>5, <2>1, <3>1 DEF Tidy
    <3>3. CASE GoesOn(n, "unindex", "index", q)
      <4>1. index' = index \ Brain!EntriesOf(p)
        BY <1>3, <1>7, <3>3 DEF GoesOn
      <4>2. Brain!EntriesOf(p)' = {}
        BY <4>1 DEF Brain!EntriesOf
      <4>3. CASE q.step = "index"
        <5>1. q.body = work[n].body
          BY <3>3 DEF GoesOn
        <5>2. Brain!Indexing(n, p)'
          BY <1>4, <1>7, <3>3, <4>3 DEF GoesOn, Brain!Indexing, Brain!At
        <5> QED BY <1>4, <3>2, <4>2, <5>1, <5>2 DEF Tidy
      <4>4. CASE q.step # "index"
        <5>1. q.step = "check" /\ Body(n).deleted
          BY <3>3, <4>4 DEF GoesOn
        <5>2. ~Brain!Indexing(n, p)'
          BY <1>4, <5>1 DEF Brain!Indexing, Brain!At
        <5>3. Brain!InStep(p)'
          BY <2>1, <3>2, <4>2, <5>1 DEF Brain!InStep
        <5> QED BY <3>2, <5>2, <5>3 DEF Tidy
      <4> QED BY <4>3, <4>4
    <3>4. CASE GoesOn(n, "index", "check", q)
      <4>1. /\ index' = index \cup {NewEntry(n)} /\ q.step = "check"
            /\ Brain!EntriesOf(p) = {}
        BY <1>3, <1>7, <3>2, <3>4 DEF GoesOn
      <4>2. Brain!EntriesOf(p)' = {NewEntry(n)}
        BY <1>7, <4>1 DEF Brain!EntriesOf, NewEntry
      <4>3. ~Brain!Indexing(n, p)'
        BY <1>4, <4>1 DEF Brain!Indexing, Brain!At
      <4>4. rows'[p] = Body(n) /\ Body(n) # None /\ ~Body(n).deleted
        BY <1>1, <1>2, <2>1, <3>2, <3>4 DEF Carried, GoesOn
      <4>5. Brain!InStep(p)'
        BY <1>7, <4>2, <4>4 DEF Brain!InStep, NewEntry
      <4> QED BY <3>2, <4>3, <4>5 DEF Tidy
    <3> QED BY <2>3, <3>3, <3>4
  <2> QED BY <1>3, <2>2, <2>3
<1> QED BY <1>6, <1>7 DEF AllTidy

\* Every step keeps the paths tidy whose last upsert was left alone.
LEMMA TidySteps ==
  ASSUME Brain!BrainSyncAssumption
  PROVE  BrainTyped /\ AllTidy /\ [Brain!Next]_Brain!vars => AllTidy'
<1> SUFFICES ASSUME BrainTyped, AllTidy, [Brain!Next]_Brain!vars PROVE AllTidy'
  OBVIOUS
<1>1. CASE UNCHANGED <<work, rows, index, torn>>
  BY <1>1 DEF AllTidy, Tidy, Brain!Indexing, Brain!At, Brain!InStep, Brain!EntriesOf
<1>2. ASSUME NEW n \in Nodes, Brain!Send(n) PROVE AllTidy'
  <2>1. UNCHANGED <<rows, index, torn>> /\ work[n] = None
        /\ \E q : q.step = "check" /\ work' = [work EXCEPT ![n] = q]
    BY <1>2 DEF Brain!Send
  <2> QED BY <2>1, OthersTidy DEF Brain!Indexing, Brain!At
<1>3. ASSUME NEW n \in Nodes, Brain!Check(n) PROVE AllTidy'
  <2>1. PICK q \in Brain!Requests, p \in NotePaths :
          work' = [work EXCEPT ![n] = q] /\ Compared(n, p, q)
    BY <1>3, CheckMoves
  <2>2. UNCHANGED <<rows, index, torn>>
    BY <1>3, CheckMoves
  <2>3. q.step \notin {"unindex", "index"} /\ \A r \in NotePaths : ~Brain!Indexing(n, r)
    BY <2>1 DEF Compared, Brain!Indexing, Brain!At
  <2> QED BY <2>1, <2>2, <2>3, OthersTidy
<1>4. ASSUME NEW n \in Nodes, Brain!Answer(n) PROVE AllTidy'
  <2>1. UNCHANGED <<rows, index, torn>> /\ work' = [work EXCEPT ![n] = None]
        /\ work[n].step = "check"
    BY <1>4 DEF Brain!Answer, Brain!At
  <2> QED BY <2>1, OthersTidy DEF Brain!Indexing, Brain!At
<1>5. ASSUME NEW n \in Nodes, Brain!BreakOff(n) PROVE AllTidy'
  <2>1. /\ UNCHANGED <<rows, index>> /\ work' = [work EXCEPT ![n] = None]
        /\ torn' = torn \cup {p \in NotePaths : Brain!Indexing(n, p)}
    BY <1>5 DEF Brain!BreakOff
  <2> QED BY <2>1, OthersTidy
<1>6. ASSUME NEW n \in Nodes, NEW p \in NotePaths, Brain!Edit(n, p)
      PROVE  UNCHANGED <<work, rows, index, torn>>
  BY <1>6 DEF Brain!Edit
<1> QED
  BY <1>1, <1>2, <1>3, <1>4, <1>5, <1>6, UpsertTidy DEF Brain!Next, Brain!Serve, Brain!vars

-----------------------------------------------------------------------------
(***************************************************************************)
(* The knowledge sync: the theorems                                        *)
(***************************************************************************)

\* Whichever requests race and break off, a path that nobody is indexing has the
\* entries its row asks for, unless its last upsert began over another one's or
\* broke off, for any nodes, notes, edits and faults (upsertNote).
THEOREM SearchIsMended ==
  ASSUME Brain!BrainSyncAssumption
  PROVE  Brain!Spec => [](Brain!TypeOK /\ Brain!SearchMended)
<1>1. BrainTyped /\ AllTidy => Brain!TypeOK /\ Brain!SearchMended
  BY DEF BrainTyped, AllTidy, Tidy, Brain!SearchMended
<1> QED
  BY <1>1, BrainStarts, TypedSteps, TidySteps, PTL DEF Brain!Spec

\* Whichever requests race and break off, no upsert replaces the row its check
\* read with an older one.
THEOREM OlderOnlyByAStaleCheck ==
  ASSUME Brain!BrainSyncAssumption
  PROVE  Brain!Spec => Brain!OlderOnlyIfStale
<1> DEFINE Stale(p) == \E n \in Nodes :
             Brain!At(n, "write") /\ work[n].path = p /\ work[n].existing # rows[p]
           Kept == \A p \in NotePaths :
             rows[p] # None /\ rows'[p].at < rows[p].at => Stale(p)
<1>1. BrainTyped /\ Fresh /\ [Brain!Next]_Brain!vars => [Kept]_Brain!vars
  <2> SUFFICES ASSUME BrainTyped, Fresh, Brain!Next, NEW p \in NotePaths,
                      rows[p] # None, rows'[p].at < rows[p].at
               PROVE  Stale(p)
    OBVIOUS
  <2>1. rows \in Brain!Notes /\ rows[p].at \in Nat /\ MaxEdits \in Nat
    BY DEF BrainTyped, Brain!TypeOK, Brain!Notes, Brain!Revisions, Brain!Times,
       Brain!BrainSyncAssumption
  <2>2. rows' # rows
    BY <2>1
  <2>3. PICK n \in Nodes : Brain!Write(n)
    BY <2>2 DEF Brain!Next, Brain!Serve, Brain!Edit, Brain!Send, Brain!BreakOff,
       Brain!Check, Brain!Unindex, Brain!Index, Brain!Answer
  <2>4. /\ Brain!At(n, "write") /\ AtPath(n) \in NotePaths /\ Body(n) \in Brain!Revisions
        /\ rows' = [rows EXCEPT ![AtPath(n)] = Body(n)]
    BY <2>3, WorkerMoves DEF Brain!Write, AtPath, Body
  <2>5. p = AtPath(n) /\ rows'[p] = Body(n)
    BY <2>1, <2>4 DEF Brain!Notes
  <2>6. Brain!Newer(Body(n), work[n].existing)
    BY <2>4 DEF Fresh
  <2>7. Body(n).at \in Nat
    BY <2>1, <2>4 DEF Brain!Revisions, Brain!Times
  <2>8. work[n].existing # rows[p]
    BY <2>1, <2>5, <2>6, <2>7 DEF Brain!Newer
  <2> QED BY <2>4, <2>5, <2>8 DEF AtPath
<1> QED
  BY <1>1, BrainStarts, TypedSteps, FreshSteps, PTL DEF Brain!Spec, Brain!OlderOnlyIfStale

-----------------------------------------------------------------------------
(***************************************************************************)
(* The composed parts                                                      *)
(***************************************************************************)

\* In the composition each part behaves as it does alone: it moves by its own
\* steps, or another part moves and it rests.
LEMMA PartsBehave ==
  DataSpec => Spec /\ Service!Spec /\ Site!Spec /\ Admin!Spec /\ Brain!Spec
<1>1. DataInit => Init /\ Service!Init /\ Site!Init /\ Admin!Init /\ Brain!Init
  BY DEF DataInit
<1>2. [DataNext]_dataVars =>
        /\ [Next]_vars
        /\ [Service!Next]_Service!vars
        /\ [Site!Next]_Site!vars
        /\ [Admin!Next]_Admin!vars
        /\ [Brain!Next]_Brain!vars
  <2> SUFFICES ASSUME [DataNext]_dataVars
               PROVE  /\ Next \/ UNCHANGED vars
                      /\ Service!Next \/ UNCHANGED serviceVars
                      /\ Site!Next \/ UNCHANGED siteVars
                      /\ Admin!Next \/ UNCHANGED adminVars
                      /\ Brain!Next \/ UNCHANGED brainVars
    BY DEF serviceVars, siteVars, adminVars, brainVars, Service!vars, Site!vars,
       Admin!vars, Brain!vars
  <2>1. CASE DataNext
    BY <2>1, Zenon DEF DataNext
  <2>2. CASE UNCHANGED dataVars
    BY <2>2, Zenon DEF dataVars
  <2> QED BY <2>1, <2>2
<1> QED
  BY <1>1, <1>2, PTL DEF DataSpec, Spec, Service!Spec, Site!Spec, Admin!Spec, Brain!Spec

\* What a client of the lead API or a visitor of the website was told of a lead
\* is so (create_lead, update_lead_status, lead.submit).
THEOREM LeadsAreKept == DataSpec => []LeadsKept
<1>1. DataSpec => []Service!LeadsKept /\ []Site!LeadsKept
  BY PartsBehave, ServiceKeeps, SiteKeeps, DataStoresAssumption
<1> QED BY <1>1, PTL DEF LeadsKept

\* Rights are what the operator granted, and a published article has its date
\* (upsertUser, blog.update).
THEOREM RightsAreGranted == DataSpec => []RightsGranted
BY PartsBehave, RightsHold, DataStoresAssumption, PTL DEF RightsGranted

\* Whichever syncs race and break off, the index has the entries the rows ask
\* for, but for a path whose last upsert was not left alone (upsertNote).
THEOREM SearchKeepsUp == DataSpec => []SearchMended
BY PartsBehave, SearchIsMended, DataStoresAssumption, PTL DEF SearchMended

\* What a step may do to the rows of leases, leads, articles and notes
\* (acquire_lease, update_lead_status, adminProcedure, upsertNote).
THEOREM RowsChange == DataSpec => RowsChangeAsAllowed
BY PartsBehave, OnlyOverdueExpireHolds, ServiceMovesOn, ArticlesByAdministrators,
   OlderOnlyByAStaleCheck, DataStoresAssumption DEF RowsChangeAsAllowed
=============================================================================
