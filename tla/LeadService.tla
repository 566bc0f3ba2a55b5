---------------------------- MODULE LeadService ----------------------------
(***************************************************************************)
(* The lead API of the Rust web service (crates/sirinx-web) over Postgres: *)
(* a lead is inserted, then its follow-up work; its status advances in a   *)
(* transaction that locks the row; a deletion is one statement.  Handlers  *)
(* run at once, statements fail with or without their effect, and a client *)
(* that leaves ends its handler at the next await.                         *)
(***************************************************************************)
EXTENDS Naturals, FiniteSets

CONSTANTS
  Leads,      \* leads the site sends, each with the id it is given
  Agents,     \* callers of the status route, with one request at a time
  MaxFaults,  \* statements that fail and clients that leave
  None

VARIABLES
  row,      \* web_leads: the status of every lead
  work,     \* web_pending_work: how many items name each lead
  create,   \* where POST /api/leads is with every lead
  request,  \* the status request of every agent
  lock,     \* the agent whose transaction holds a lead's row
  faults

vars == <<row, work, create, request, lock, faults>>

Statuses == {"new", "contacted", "qualified", "proposal_sent", "won", "lost"}

\* Linear, with won and lost reachable from every active status.
can_transition_to(s, next) ==
  \/ s \notin {"won", "lost"} /\ next \in {"won", "lost"}
  \/ <<s, next>> \in {<<"new", "contacted">>, <<"contacted", "qualified">>,
                      <<"qualified", "proposal_sent">>}

Requests == [lead : Leads, to : Statuses,
             step : {"select", "update", "ok", "missing", "conflict", "error"}]
Waiting == {"select", "update"}

(* What the constants must satisfy: None is no value in use. *)
LeadServiceAssumption ==
  MaxFaults \in Nat /\ None \notin Agents \cup Requests \cup Statuses \cup {"deleted"}

Init ==
  /\ row = [l \in Leads |-> None] /\ work = [l \in Leads |-> 0]
  /\ create = [l \in Leads |-> "unsent"]
  /\ request = [a \in Agents |-> None]
  /\ lock = [l \in Leads |-> None] /\ faults = 0

Fault == faults < MaxFaults /\ faults' = faults + 1
-----------------------------------------------------------------------------
Submit(l) ==
  /\ create[l] = "unsent"
  /\ create' = [create EXCEPT ![l] = "insert"]
  /\ UNCHANGED <<row, work, request, lock, faults>>

\* insert_lead; the pipeline that follows has no await.
Insert(l) ==
  /\ create[l] = "insert"
  /\ row' = [row EXCEPT ![l] = "new"]
  /\ create' = [create EXCEPT ![l] = "enqueue"]
  /\ UNCHANGED <<work, request, lock, faults>>

\* insert_pending_work, then the answer.
Enqueue(l) ==
  /\ create[l] = "enqueue"
  /\ work' = [work EXCEPT ![l] = @ + 1]
  /\ create' = [create EXCEPT ![l] = "created"]
  /\ UNCHANGED <<row, request, lock, faults>>

\* What the client hears when a statement fails: an error for the lead, but
\* 201 when only the work is missing.
AnswerOfFailure(l) == IF create[l] = "insert" THEN "error" ELSE "created"

\* A statement fails; with a broken connection it may have been applied.
CreateFails(l) ==
  /\ create[l] \in {"insert", "enqueue"} /\ Fault
  /\ \/ UNCHANGED <<row, work>>
     \/ create[l] = "insert" /\ row' = [row EXCEPT ![l] = "new"] /\ UNCHANGED work
     \/ create[l] = "enqueue" /\ work' = [work EXCEPT ![l] = @ + 1] /\ UNCHANGED row
  /\ create' = [create EXCEPT ![l] = AnswerOfFailure(l)]
  /\ UNCHANGED <<request, lock>>

\* The client leaves and the handler ends between its statements.
CreateDropped(l) ==
  /\ create[l] \in {"insert", "enqueue"} /\ Fault
  /\ create' = [create EXCEPT ![l] = "dropped"]
  /\ UNCHANGED <<row, work, request, lock>>
-----------------------------------------------------------------------------
IsWaiting(a) == request[a] # None /\ request[a].step \in Waiting

\* An agent that knows of a lead asks for the next status it thinks of.
Patch(a) ==
  /\ ~IsWaiting(a)
  /\ \E l \in Leads, s \in Statuses :
       /\ create[l] # "unsent"
       /\ request' = [request EXCEPT ![a] =
            [lead |-> l, to |-> s, step |-> "select"]]
  /\ UNCHANGED <<row, work, create, lock, faults>>

Is(a, step) == request[a] # None /\ request[a].step = step
To(a, step) == request' = [request EXCEPT ![a].step = step]
LeadOf(a) == request[a].lead

\* Mutant: a lost lead may be taken up again.
SelectReopens(a) ==
  /\ Is(a, "select") /\ lock[LeadOf(a)] = None
  /\ row[LeadOf(a)] \in Statuses
  /\ \/ can_transition_to(row[LeadOf(a)], request[a].to)
     \/ row[LeadOf(a)] = "lost" /\ request[a].to = "contacted"
  /\ To(a, "update")
  /\ lock' = [lock EXCEPT ![LeadOf(a)] = a]
  /\ UNCHANGED <<row, work, create, faults>>

\* select ... for update: the row is read once no other transaction has it.
Select(a) ==
  /\ Is(a, "select") /\ lock[LeadOf(a)] = None
  /\ row[LeadOf(a)] \in Statuses
  /\ can_transition_to(row[LeadOf(a)], request[a].to)
  /\ To(a, "update")
  /\ lock' = [lock EXCEPT ![LeadOf(a)] = a]
  /\ UNCHANGED <<row, work, create, faults>>

Missing(a) ==
  /\ Is(a, "select") /\ row[LeadOf(a)] \notin Statuses
  /\ To(a, "missing")
  /\ UNCHANGED <<row, work, create, lock, faults>>

\* The transition is refused and the transaction rolled back.
Conflict(a) ==
  /\ Is(a, "select") /\ lock[LeadOf(a)] = None
  /\ row[LeadOf(a)] \in Statuses
  /\ ~can_transition_to(row[LeadOf(a)], request[a].to)
  /\ To(a, "conflict")
  /\ UNCHANGED <<row, work, create, lock, faults>>

Released(a) == [l \in Leads |-> IF lock[l] = a THEN None ELSE lock[l]]

\* update and commit.
Update(a) ==
  /\ Is(a, "update")
  /\ row' = [row EXCEPT ![LeadOf(a)] = IF @ \in Statuses THEN request[a].to ELSE @]
  /\ lock' = Released(a)
  /\ To(a, "ok")
  /\ UNCHANGED <<work, create, faults>>

\* What becomes of the locks of a transaction that ends early.
RolledBack(a) == Released(a)

\* The connection breaks, at a commit perhaps after it, or the client leaves.
PatchFails(a) ==
  /\ IsWaiting(a) /\ Fault
  /\ \/ UNCHANGED row
     \/ /\ Is(a, "update")
        /\ row' = [row EXCEPT ![LeadOf(a)] = IF @ \in Statuses THEN request[a].to ELSE @]
  /\ lock' = RolledBack(a)
  /\ To(a, "error")
  /\ UNCHANGED <<work, create>>

\* One statement, which waits for the lock of the row it deletes.
Delete(l) ==
  /\ row[l] \in Statuses /\ lock[l] = None
  /\ row' = [row EXCEPT ![l] = "deleted"]
  /\ UNCHANGED <<work, create, request, lock, faults>>
-----------------------------------------------------------------------------
Next ==
  \/ \E l \in Leads : Submit(l) \/ Insert(l) \/ Enqueue(l) \/ CreateFails(l)
                      \/ CreateDropped(l) \/ Delete(l)
  \/ \E a \in Agents : Patch(a) \/ Select(a) \/ Missing(a) \/ Conflict(a)
                       \/ Update(a) \/ PatchFails(a)

Spec == Init /\ [][Next]_vars

\* Statements return and a row lock is granted to a waiter: the database
\* keeps them in a queue, so no later request overtakes for ever.
FairSpec ==
  /\ Spec
  /\ \A l \in Leads : WF_vars(Insert(l)) /\ WF_vars(Enqueue(l))
  /\ \A a \in Agents : SF_vars(Select(a) \/ Missing(a) \/ Conflict(a)) /\ WF_vars(Update(a))
-----------------------------------------------------------------------------
\* Types of every variable.
TypeOK ==
  /\ row \in [Leads -> Statuses \cup {None, "deleted"}]
  /\ work \in [Leads -> 0..1]
  /\ create \in [Leads -> {"unsent", "insert", "enqueue", "created", "error", "dropped"}]
  /\ request \in [Agents -> Requests \cup {None}]
  /\ lock \in [Leads -> Agents \cup {None}] /\ faults \in 0..MaxFaults

\* "A pipeline failure must never lose the lead itself": a lead the client
\* was told of is stored until somebody deletes it, and follow-up work never
\* names a lead that was not.
CreatedIsKept ==
  \A l \in Leads :
    create[l] = "created" \/ work[l] > 0 => row[l] \in Statuses \cup {"deleted"}

\* Agents that read and write one lead at once move it along its lifecycle:
\* every change is a transition from what the row held, a lost lead is not
\* revived and a deleted one does not return.
StatusMovesOn ==
  [][\A l \in Leads :
       /\ row[l] \in Statuses /\ row'[l] # row[l] =>
            row'[l] = "deleted" \/ can_transition_to(row[l], row'[l])
       /\ row[l] = "deleted" => row'[l] = "deleted"]_vars

\* Of agents that move one lead to one status, one is answered with it and
\* the others hear of the conflict: their answers never agree.
OneAgentAdvances ==
  \A a, b \in Agents :
    a # b /\ Is(a, "ok") /\ Is(b, "ok") /\ LeadOf(a) = LeadOf(b)
      => request[a].to # request[b].to

\* What a client was told of its lead is so (create_lead, update_lead_status).
LeadsKept == TypeOK /\ CreatedIsKept /\ OneAgentAdvances

=============================================================================
