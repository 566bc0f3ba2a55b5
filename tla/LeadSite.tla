------------------------------ MODULE LeadSite ------------------------------
(***************************************************************************)
(* The lead forms of the public website: the contact and partner pages     *)
(* (Contact.tsx, Partner.tsx), lead.submit and its helpers on the server   *)
(* (routers.ts, db.ts, notification.ts) and the local queue that takes a   *)
(* lead when no database is configured (localLeadQueue.ts).                *)
(*                                                                         *)
(* A call inserts the lead, then its contact submission, then notifies the *)
(* owner, and answers.  Each step awaits: other calls run meanwhile, the   *)
(* database may be unreachable, an insert may be applied although its      *)
(* connection breaks, the file system may refuse the queue, the visitor's  *)
(* connection may break and the server may restart.  A visitor who hears   *)
(* of no success may send the form again.                                  *)
(***************************************************************************)
EXTENDS Naturals, FiniteSets

CONSTANTS
  Visitors,    \* people with a form open, each sending one lead
  Partners,    \* those on the partner page, which has no e-mail fallback
  MaxTries,    \* how often a visitor sends the form
  MaxFaults,   \* faults in a run: outages, broken connections, restarts
  None

VARIABLES
  configured, \* whether DATABASE_URL is set: it does not change
  up,         \* the database can be reached
  leads,      \* rows of the table leads, named by the submission they hold
  audits,     \* leads that have a row in contact_submissions
  queue,      \* submissions in leads.jsonl
  notified,   \* leads the owner was told of
  call,       \* the step each visitor's call is at on the server
  form,       \* what the page shows
  tries,      \* how often each visitor has sent the form
  told,       \* the last answer the page received
  faults

vars == <<configured, up, leads, audits, queue, notified, call, form, tries, told, faults>>

Steps == {"create", "audit", "notify", "queue"}
Pages == {"editing", "sent", "submitted", "fallback", "failed"}

\* A submission is one sending of one form: it stands for the id of its row
\* (an auto-increment) or of its queue record (a random UUID).
Submissions == Visitors \X (1..MaxTries)
Submission(v) == <<v, tries[v]>>

Answers ==
  [kind : {"lead", "queued"}, id : Submissions] \cup
  [kind : {"error"}, cause : {"unreachable", "broken", "disk", "transport"}]

(* What the constants must satisfy: None is no value in use. *)
LeadSiteAssumption ==
  /\ Partners \subseteq Visitors
  /\ MaxTries \in Nat \ {0} /\ MaxFaults \in Nat
  /\ None \notin Steps \cup Answers

Init ==
  /\ configured \in BOOLEAN /\ up \in BOOLEAN
  /\ leads = {} /\ audits = {} /\ queue = {} /\ notified = {}
  /\ call = [v \in Visitors |-> None]
  /\ form = [v \in Visitors |-> "editing"]
  /\ tries = [v \in Visitors |-> 0]
  /\ told = [v \in Visitors |-> None]
  /\ faults = 0

Fault == faults < MaxFaults /\ faults' = faults + 1

-----------------------------------------------------------------------------
(***************************************************************************)
(* The page                                                                *)
(***************************************************************************)

\* The visitor sends the form, again if nothing but an error came back.
Send(v) ==
  /\ form[v] \in {"editing", "fallback", "failed"} /\ call[v] = None
  /\ tries[v] < MaxTries
  /\ tries' = [tries EXCEPT ![v] = @ + 1]
  /\ form' = [form EXCEPT ![v] = "sent"]
  /\ call' = [call EXCEPT ![v] = "create"]
  /\ UNCHANGED <<configured, up, leads, audits, queue, notified, told, faults>>

\* isLeadTransportFallbackError: the message is about the way to the server.
IsTransport(answer) == answer.kind = "error" /\ answer.cause = "transport"

\* onSuccess and onError of the mutation.  Only the contact page offers the
\* summary and the prepared e-mail.
PageAfter(v, answer) ==
  IF answer.kind # "error" THEN "submitted"
  ELSE IF IsTransport(answer) /\ v \notin Partners THEN "fallback" ELSE "failed"

\* The call ends; a page that no longer waits for it does not hear.
Answer(v, answer) ==
  /\ call' = [call EXCEPT ![v] = None]
  /\ IF form[v] = "sent"
     THEN /\ form' = [form EXCEPT ![v] = PageAfter(v, answer)]
          /\ told' = [told EXCEPT ![v] = answer]
     ELSE UNCHANGED <<form, told>>

Error(cause) == [kind |-> "error", cause |-> cause]

\* The connection of the visitor breaks while the call goes on.
Disconnect(v) ==
  /\ Fault /\ form[v] = "sent" /\ call[v] # None
  /\ told' = [told EXCEPT ![v] = Error("transport")]
  /\ form' = [form EXCEPT ![v] = PageAfter(v, Error("transport"))]
  /\ UNCHANGED <<configured, up, leads, audits, queue, notified, call, tries>>

-----------------------------------------------------------------------------
(***************************************************************************)
(* lead.submit                                                             *)
(***************************************************************************)

\* What an insert can do: its connection works, breaks before or after the row
\* is in, or cannot be made.
InsertOutcomes == IF up THEN {"ok", "lost", "applied"} ELSE {"unreachable"}
Applied(outcome) == outcome \in {"ok", "applied"}
Charge(outcome) == IF outcome \in {"lost", "applied"} THEN Fault ELSE UNCHANGED faults

\* isDatabaseUnavailableError: only getDb's own error matches, and getDb gives
\* no database only when none is configured.
Unavailable(outcome) == outcome = "unconfigured"

\* db.createLead and what the catch around the handler makes of its errors.
CreateLead(v) ==
  /\ call[v] = "create"
  /\ \E outcome \in IF configured THEN InsertOutcomes ELSE {"unconfigured"} :
       /\ Charge(outcome)
       /\ leads' = IF Applied(outcome) THEN leads \cup {Submission(v)} ELSE leads
       /\ IF outcome = "ok"
          THEN call' = [call EXCEPT ![v] = "audit"] /\ UNCHANGED <<form, told>>
          ELSE IF Unavailable(outcome)
          THEN call' = [call EXCEPT ![v] = "queue"] /\ UNCHANGED <<form, told>>
          ELSE Answer(v, Error(IF outcome = "unreachable" THEN outcome ELSE "broken"))
  /\ UNCHANGED <<configured, up, audits, queue, notified, tries>>

\* db.createContactSubmission, in the same try as the lead.
CreateContactSubmission(v) ==
  /\ call[v] = "audit"
  /\ \E outcome \in InsertOutcomes :
       /\ Charge(outcome)
       /\ audits' = IF Applied(outcome) THEN audits \cup {Submission(v)} ELSE audits
       /\ IF outcome = "ok"
          THEN call' = [call EXCEPT ![v] = "notify"] /\ UNCHANGED <<form, told>>
          ELSE Answer(v, Error(IF outcome = "unreachable" THEN outcome ELSE "broken"))
  /\ UNCHANGED <<configured, up, leads, queue, notified, tries>>

\* notifyOwner: delivered, refused or unreachable (false), or a configuration
\* error that its own catch keeps from the visitor.
NotifyOwner(v) ==
  /\ call[v] = "notify"
  /\ notified' \in {notified, notified \cup {Submission(v)}}
  /\ Answer(v, [kind |-> "lead", id |-> Submission(v)])
  /\ UNCHANGED <<configured, up, leads, audits, queue, tries, faults>>

\* Mutant: the answer does not wait for the file.
QueueUnawaited(v) ==
  /\ call[v] = "queue"
  /\ \/ queue' = queue \cup {Submission(v)} /\ UNCHANGED faults
     \/ UNCHANGED queue /\ Fault
  /\ Answer(v, [kind |-> "queued", id |-> Submission(v)])
  /\ UNCHANGED <<configured, up, leads, audits, notified, tries>>

\* queueLocalLeadSubmission: makes the directory and appends one line.
QueueLocalLeadSubmission(v) ==
  /\ call[v] = "queue"
  /\ \/ /\ queue' = queue \cup {Submission(v)} /\ UNCHANGED faults
        /\ Answer(v, [kind |-> "queued", id |-> Submission(v)])
     \/ /\ UNCHANGED queue /\ Fault /\ Answer(v, Error("disk"))
  /\ UNCHANGED <<configured, up, leads, audits, notified, tries>>

\* The server goes down with every call; the pages see the transport fail.
Restart ==
  /\ Fault
  /\ call' = [v \in Visitors |-> None]
  /\ LET waiting == {v \in Visitors : form[v] = "sent"}
     IN /\ form' = [v \in Visitors |-> IF v \in waiting THEN PageAfter(v, Error("transport")) ELSE form[v]]
        /\ told' = [v \in Visitors |-> IF v \in waiting THEN Error("transport") ELSE told[v]]
  /\ UNCHANGED <<configured, up, leads, audits, queue, notified, tries>>

\* The database goes and comes; an outage is a fault.
DatabaseFails ==
  /\ Fault /\ up /\ up' = FALSE
  /\ UNCHANGED <<configured, leads, audits, queue, notified, call, form, tries, told>>

DatabaseReturns ==
  /\ ~up /\ up' = TRUE
  /\ UNCHANGED <<configured, leads, audits, queue, notified, call, form, tries, told, faults>>

Serve(v) == CreateLead(v) \/ CreateContactSubmission(v) \/ NotifyOwner(v) \/ QueueLocalLeadSubmission(v)

Next ==
  \/ \E v \in Visitors : Send(v) \/ Disconnect(v) \/ Serve(v)
  \/ Restart \/ DatabaseFails \/ DatabaseReturns

Spec == Init /\ [][Next]_vars

\* Every await of a handler ends: the driver, the file system and fetch all
\* come back with an answer or an error.
FairSpec == Spec /\ \A v \in Visitors : WF_vars(Serve(v))

-----------------------------------------------------------------------------
(***************************************************************************)
(* Properties                                                              *)
(***************************************************************************)

\* Rows, records and pages are of the visitors' submissions.
TypeOK ==
  /\ configured \in BOOLEAN /\ up \in BOOLEAN /\ faults \in 0..MaxFaults
  /\ leads \subseteq Submissions /\ audits \subseteq leads
  /\ queue \subseteq Submissions /\ notified \subseteq audits
  /\ call \in [Visitors -> Steps \cup {None}]
  /\ form \in [Visitors -> Pages]
  /\ tries \in [Visitors -> 0..MaxTries]
  /\ told \in [Visitors -> Answers \cup {None}]

\* A visitor who is thanked has a lead somebody will read: the row, with its
\* audit row, or the line in the queue under the id that was given.
ThankedIsKept ==
  \A v \in Visitors : form[v] = "submitted" =>
    IF told[v].kind = "queued" THEN told[v].id \in queue
    ELSE told[v].id \in leads \cap audits

\* A submission lands in one place: whoever reads the queue into the database
\* does not take a lead in twice.
OneHome == leads \cap queue = {}

\* What a visitor was told of a submission is so (lead.submit).
LeadsKept == TypeOK /\ ThankedIsKept /\ OneHome

\* What the queue says of its records: they are there because the database is
\* not configured or unavailable.  An outage of a configured one is not caught.
UnavailableIsQueued ==
  \A v \in Visitors : told[v] # None /\ told[v].kind = "error" => told[v].cause # "unreachable"

\* What the handler says it does: every lead has a contact submission for the
\* audit trail, once no call is at work on it.
EveryLeadAudited ==
  \A s \in leads : s \in audits \/ (call[s[1]] = "audit" /\ s = Submission(s[1]))
=============================================================================
