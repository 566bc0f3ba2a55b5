--------------------------- MODULE ControlApiProofs ---------------------------
(***************************************************************************)
(* Theorems about the parts of the dev control API and the extension that  *)
(* feeds it: the listing workflow, the approval desk, the ACP probe and    *)
(* the seller guard, for any number of clients, requests and presses, and  *)
(* what they say of the parts composed in ControlApi.                      *)
(***************************************************************************)
EXTENDS ControlApi, FiniteSetTheorems, SequenceTheorems, TLAPS

-----------------------------------------------------------------------------
(***************************************************************************)
(* The workflow: nothing relates two copies, so each invariant is proved   *)
(* of one workflow at a time: Stage is what an answer of the engine or an  *)
(* edit of a client preserves.                                             *)
(***************************************************************************)
States == workflowStates \ {"APPLIED", "MONITORING", "REPORTED", "FAILED"}
Passes == {"qa1_pass", "qa2_pass"} \X Bindings
Workflows == [state : States, context : AllContexts, source : AllSources,
              review : Bindings \union {NoBinding},
              approval : Bindings \union {NoBinding}, passes : SUBSET Passes]

Reviewed(w) ==
  /\ w.review \in Bindings
  /\ w.review.source # NoSource /\ w.review.context # Unbound

BothPassed(w) == w.passes = {<<"qa1_pass", w.review>>, <<"qa2_pass", w.review>>}

(* What the bindings and the passes of a workflow are in each state.       *)
Stage(w) ==
  /\ w.approval # NoBinding => w.review = w.approval
                               /\ w.state \in {"READY_TO_APPLY", "ARCHIVED", "BLOCKED"}
  /\ w.state = "QA1_REVIEW" => Reviewed(w) /\ w.passes = {}
  /\ w.state = "QA2_REVIEW" => Reviewed(w) /\ w.passes = {<<"qa1_pass", w.review>>}
  /\ w.state = "WAITING_APPROVAL" => Reviewed(w) /\ BothPassed(w)
  /\ w.state \in {"READY_TO_APPLY", "ARCHIVED"} =>
       Reviewed(w) /\ BothPassed(w) /\ w.approval = w.review

(* An answer that is ready or archived is bound to what it says now.       *)
Current(w) ==
  w.state \in {"READY_TO_APPLY", "ARCHIVED"} => w.review = currentSource(w)

IInv ==
  /\ held \in [Slots -> Workflows] /\ good \subseteq Slots
  /\ \A k \in Slots : Stage(held[k])
  /\ \A k \in good : Current(held[k])
-----------------------------------------------------------------------------
(* The current source of a workflow is a binding.                          *)
LEMMA CurrentIsBinding ==
  ASSUME NEW w \in Workflows
  PROVE  currentSource(w) \in Bindings
  BY DEF Workflows, currentSource, Bindings

(* A new workflow is in its first stage, whatever was sent along.          *)
LEMMA CreateStage ==
  ASSUME NEW c \in AllContexts, NEW s \in AllSources
  PROVE  Create(c, s) \in Workflows /\ Stage(Create(c, s)) /\ Current(Create(c, s))
  BY DEF Create, Workflows, States, workflowStates, Stage, Current

(* The engine blocks an external event and changes nothing else.           *)
LEMMA BlockedStage ==
  ASSUME NEW w \in Workflows, Stage(w)
  PROVE  LET v == blockedExternalApply(w) IN v \in Workflows /\ Stage(v) /\ Current(v)
  BY DEF blockedExternalApply, Workflows, States, workflowStates, Stage, Current,
         Reviewed, BothPassed

(* A stale workflow starts again without its bindings.                     *)
LEMMA InvalidatedStage ==
  ASSUME NEW w \in Workflows, Stage(w)
  PROVE  LET v == Invalidated(w) IN v \in Workflows /\ Stage(v) /\ Current(v)
  BY DEF Invalidated, Workflows, States, workflowStates, Stage, Current,
         Reviewed, BothPassed

(* A binding that is not stale is the current source.                      *)
LEMMA FreshBindings ==
  ASSUME NEW w \in Workflows, NEW e, e # "reject", ~stale(w, e)
  PROVE  /\ w.review # NoBinding => w.review = currentSource(w)
         /\ w.approval # NoBinding => w.approval = currentSource(w)
  BY DEF stale, sourceMatches

(* Every transition that the guards allow leads to its next stage.         *)
LEMMA ReviewedStage ==
  ASSUME NEW w \in Workflows, Stage(w), NEW t \in transitions,
         t[1] = w.state, ~stale(w, t[2]), Allowed(w, t[2])
  PROVE  LET v == reviewedTransition(w, t[2], t[3])
         IN  v \in Workflows /\ Stage(v) /\ Current(v)
<1> DEFINE v == reviewedTransition(w, t[2], t[3])
           b == currentSource(w)
<1>b. b \in Bindings /\ NoBinding \notin Bindings
  BY CurrentIsBinding, WorkflowAssumption DEF Bindings, AllContexts, AllSources
<1>v. /\ v.state = t[3] /\ v.context = w.context /\ v.source = w.source
      /\ v.review = IF clearReview(t[2]) THEN NoBinding ELSE
                    IF t[2] = "submit_qa1" THEN b ELSE w.review
      /\ v.approval = IF clearReview(t[2]) THEN NoBinding ELSE
                      IF t[2] = "approve" THEN b ELSE w.approval
      /\ v.passes = IF t[2] = "submit_qa1" THEN {} ELSE
                    IF t[2] \in {"qa1_pass", "qa2_pass"}
                    THEN w.passes \union {<<t[2], b>>} ELSE w.passes
  BY DEF reviewedTransition, Workflows
<1>s. t[3] \in States
  BY DEF transitions, States, workflowStates, Workflows
<1>1. v \in Workflows
  <2>1. v.review \in Bindings \union {NoBinding} /\ v.approval \in Bindings \union {NoBinding}
    BY <1>b, <1>v DEF Workflows
  <2>2. v.passes \in SUBSET Passes
    BY <1>b, <1>v DEF Workflows, Passes
  <2> QED
    BY <1>v, <1>s, <2>1, <2>2 DEF reviewedTransition, Workflows
<1>2. CASE t[2] = "submit_qa1"
  <2>1. w.state = "CHANNEL_ADAPTED" /\ t[3] = "QA1_REVIEW"
    BY <1>2 DEF transitions
  <2>2. w.approval = NoBinding
    BY <2>1 DEF Stage
  <2>3. b.source # NoSource /\ b.context # Unbound
    BY <1>2 DEF Allowed, currentSource
  <2> QED
    BY <1>1, <1>2, <1>b, <1>v, <2>1, <2>2, <2>3 DEF Stage, Current, Reviewed, clearReview
<1>3. CASE t[2] = "qa1_pass"
  <2>1. w.state = "QA1_REVIEW" /\ t[3] = "QA2_REVIEW"
    BY <1>3 DEF transitions
  <2>2. Reviewed(w) /\ w.passes = {} /\ w.approval = NoBinding
    BY <2>1 DEF Stage
  <2>3. w.review = b
    BY <1>3, <1>b, <2>2, FreshBindings DEF Reviewed
  <2> QED
    BY <1>1, <1>3, <1>b, <1>v, <2>1, <2>2, <2>3 DEF Stage, Current, Reviewed, clearReview
<1>4. CASE t[2] = "qa2_pass"
  <2>1. w.state = "QA2_REVIEW" /\ t[3] = "WAITING_APPROVAL"
    BY <1>4 DEF transitions
  <2>2. Reviewed(w) /\ w.passes = {<<"qa1_pass", w.review>>} /\ w.approval = NoBinding
    BY <2>1 DEF Stage
  <2>3. w.review = b
    BY <1>4, <1>b, <2>2, FreshBindings DEF Reviewed
  <2>4. v.passes = {<<"qa1_pass", b>>, <<"qa2_pass", b>>}
    BY <1>4, <1>v, <2>2, <2>3
  <2> QED
    BY <1>1, <1>4, <1>b, <1>v, <2>1, <2>2, <2>3, <2>4
    DEF Stage, Current, Reviewed, BothPassed, clearReview
<1>5. CASE t[2] = "approve"
  <2>1. w.state = "WAITING_APPROVAL" /\ t[3] = "READY_TO_APPLY"
    BY <1>5 DEF transitions
  <2>2. Reviewed(w) /\ BothPassed(w) /\ w.approval = NoBinding
    BY <2>1 DEF Stage
  <2>3. w.review = b
    BY <1>5, <1>b, <2>2, FreshBindings DEF Reviewed
  <2> QED
    BY <1>1, <1>5, <1>b, <1>v, <2>1, <2>2, <2>3
    DEF Stage, Current, Reviewed, BothPassed, clearReview, currentSource
<1>6. CASE t[2] = "archive"
  <2>1. w.state = "READY_TO_APPLY" /\ t[3] = "ARCHIVED"
    BY <1>6 DEF transitions, Workflows, States, workflowStates
  <2>2. Reviewed(w) /\ BothPassed(w) /\ w.approval = w.review
    BY <2>1 DEF Stage
  <2>3. w.review = b
    BY <1>6, <1>b, <2>2, FreshBindings DEF Reviewed
  <2> QED
    BY <1>1, <1>6, <1>b, <1>v, <2>1, <2>2, <2>3
    DEF Stage, Current, Reviewed, BothPassed, clearReview, currentSource
<1>7. CASE clearReview(t[2])
  <2>1. t[3] \in {"DRAFTED", "CONTEXT_LOCKED", "REJECTED"}
    BY <1>7 DEF transitions, clearReview
  <2> QED
    BY <1>1, <1>7, <1>v, <2>1 DEF Stage, Current
<1>8. CASE t[2] \in {"lock_context", "plan", "draft", "adapt_channel"}
  <2>1. /\ w.state \in {"INTAKE", "CONTEXT_LOCKED", "PLANNED", "DRAFTED"}
        /\ t[3] \in {"CONTEXT_LOCKED", "PLANNED", "DRAFTED", "CHANNEL_ADAPTED"}
    BY <1>8 DEF transitions
  <2>2. w.approval = NoBinding
    BY <2>1 DEF Stage
  <2> QED
    BY <1>1, <1>8, <1>v, <2>1, <2>2 DEF Stage, Current, clearReview
<1>9. w.state \notin {"APPLIED", "MONITORING", "REPORTED"}
  BY DEF Workflows, States
<1>10. t[2] \in {"submit_qa1", "qa1_pass", "qa2_pass", "approve", "archive",
                 "lock_context", "plan", "draft", "adapt_channel"}
       \/ clearReview(t[2])
  BY <1>9 DEF transitions, clearReview
<1> QED
  BY <1>2, <1>3, <1>4, <1>5, <1>6, <1>7, <1>8, <1>10

(* Whatever the engine answers is in its stage and bound to what it says.  *)
LEMMA AnswersStage ==
  ASSUME NEW w \in Workflows, Stage(w), NEW v \in Answers(w)
  PROVE  v \in Workflows /\ Stage(v) /\ Current(v)
<1>1. CASE v \in {blockedExternalApply(w) : e \in externalApplyEvents}
  BY <1>1, BlockedStage
<1>2. CASE v \in {Invalidated(w) : t \in {u \in transitions : u[1] = w.state /\ stale(w, u[2])}}
  BY <1>2, InvalidatedStage
<1>3. CASE v \in {reviewedTransition(w, t[2], t[3]) :
                    t \in {u \in transitions :
                             u[1] = w.state /\ ~stale(w, u[2]) /\ Allowed(w, u[2])}}
  BY <1>3, ReviewedStage
<1> QED
  BY <1>1, <1>2, <1>3 DEF Answers

(* A client that edits a copy changes neither its bindings nor its state.  *)
LEMMA EditStage ==
  ASSUME NEW w \in Workflows, Stage(w), NEW c \in AllContexts, NEW s \in AllSources
  PROVE  LET v == [w EXCEPT !.context = c, !.source = s] IN v \in Workflows /\ Stage(v)
  BY DEF Workflows, Stage, Reviewed, BothPassed
-----------------------------------------------------------------------------
(* The invariant holds of the workflow that create answered.               *)
LEMMA InitInv == Init => IInv
  BY CreateStage DEF Init, IInv

(* Every step of the engine and of a client keeps the invariant.           *)
LEMMA StepInv == IInv /\ [Next]_vars => IInv'
<1> SUFFICES ASSUME IInv, [Next]_vars PROVE IInv'
  OBVIOUS
<1> USE DEF IInv
<1>1. ASSUME NEW from \in Slots, NEW to \in Slots, Advance(from, to) PROVE IInv'
  <2>1. PICK w \in Answers(held[from]) : held' = [held EXCEPT ![to] = w]
    BY <1>1 DEF Advance
  <2>2. w \in Workflows /\ Stage(w) /\ Current(w)
    BY AnswersStage
  <2> QED
    BY <1>1, <2>1, <2>2 DEF Advance
<1>2. ASSUME NEW k \in Slots, Edit(k) PROVE IInv'
  <2>1. PICK c \in AllContexts, s \in AllSources :
               held' = [held EXCEPT ![k].context = c, ![k].source = s]
    BY <1>2 DEF Edit
  <2> DEFINE w == [held[k] EXCEPT !.context = c, !.source = s]
  <2>2. w \in Workflows /\ Stage(w)
    BY EditStage
  <2>3. held' = [held EXCEPT ![k] = w]
    BY <2>1 DEF Workflows
  <2> HIDE DEF w
  <2> QED
    BY <1>2, <2>2, <2>3 DEF Edit
<1>3. ASSUME NEW k \in Slots, Recreate(k) PROVE IInv'
  <2> DEFINE w == Create(held[k].context, held[k].source)
  <2>1. w \in Workflows /\ Stage(w) /\ Current(w)
    BY CreateStage DEF Workflows
  <2>2. held' = [held EXCEPT ![k] = w]
    BY <1>3 DEF Recreate
  <2> HIDE DEF w
  <2> QED
    BY <1>3, <2>1, <2>2 DEF Recreate
<1>4. CASE UNCHANGED vars
  BY <1>4 DEF vars
<1> QED
  BY <1>1, <1>2, <1>3, <1>4 DEF Next

(* The invariant in every reachable state.                                 *)
LEMMA Invariance == Spec => []IInv
  BY InitInv, StepInv, PTL DEF Spec

(* Types: the engine answers no state past READY_TO_APPLY but ARCHIVED.    *)
THEOREM WorkflowTypes == Spec => []TypeOK
<1>1. IInv => TypeOK
  BY DEF IInv, TypeOK, Workflows, States, Passes
<1> QED
  BY <1>1, Invariance, PTL

(* A workflow answered as ready or archived passed both reviews and was    *)
(* approved with exactly the source and context it shows, whatever was     *)
(* edited, resent or forked on the way.                                    *)
THEOREM ReadyIsReviewed == Spec => []ReadyMeansReviewed
<1>1. IInv => ReadyMeansReviewed
  <2> SUFFICES ASSUME IInv, NEW k \in good,
                      held[k].state \in {"READY_TO_APPLY", "ARCHIVED"}
               PROVE  LET w == held[k] IN
                      /\ w.source # NoSource /\ w.context # Unbound
                      /\ w.review = currentSource(w) /\ w.approval = currentSource(w)
                      /\ w.passes = {<<"qa1_pass", currentSource(w)>>,
                                     <<"qa2_pass", currentSource(w)>>}
    BY DEF ReadyMeansReviewed
  <2>1. /\ held[k].review = currentSource(held[k])
        /\ Reviewed(held[k]) /\ BothPassed(held[k])
        /\ held[k].approval = held[k].review
    BY DEF IInv, Stage, Current
  <2>2. held[k].source # NoSource /\ held[k].context # Unbound
    BY <2>1 DEF Reviewed, currentSource
  <2> QED
    BY <2>1, <2>2 DEF BothPassed
<1> QED
  BY <1>1, Invariance, PTL

(* No copy carries an approval without the review it was given on.         *)
THEOREM ApprovalsNeedReviews == Spec => []ApprovalNeedsReview
<1>1. IInv => ApprovalNeedsReview
  BY DEF IInv, ApprovalNeedsReview, Stage
<1> QED
  BY <1>1, Invariance, PTL

-----------------------------------------------------------------------------
(***************************************************************************)
(* The approval desk: the inductive invariant                              *)
(***************************************************************************)
Ids(d) == Desk(d)!actions \union Asked[d] \union InboxIds[d] \union {"customer-message-send"}
Items(d) ==
  [actionId : Ids(d), risk : {"low", "medium", "high"}, status : Desk(d)!Statuses]
Refusals == {"invalid_request", "auth_required", "execution_disabled",
             "image_edit_caption_required"}
Results ==
  {"blocked_by_kill_switch", "queued_for_approval", "simulated_only", "invalid_json",
   "unknown_action", "blocked", "approval_required", "allowed"} \union Refusals
Replies(d) ==
  [route : {"dry-run", "inbox"}, actionId : Ids(d), result : Results,
   item : Items(d) \union {Desk(d)!NoRequest}, external : BOOLEAN, exact : BOOLEAN]
Events(d) ==
  [id : Nat, target : Ids(d), risk : {"low", "medium", "high"},
   approval : Desk(d)!Statuses \union {"none", "required", "not-required"},
   killSwitch : {"clear", "blocked"}, result : Results]
Snaps(d) ==
  [pc : {"idle", "mkdir", "written", "failed"}, at : 0..MaxSecond[d], content : Seq(Items(d))]

DeskTyped(d) ==
  /\ enabled \subseteq Desk(d)!switches
  /\ queue \in Seq(Items(d)) /\ audit \in Seq(Events(d)) /\ log \in Seq(Replies(d))
  /\ sequence \in Nat /\ second \in 1..MaxSecond[d]
  /\ DOMAIN files \subseteq 1..MaxSecond[d]
  /\ writer \in [Writers[d] -> Snaps(d)]
  /\ \A w \in Writers[d] : writer[w].pc # "idle" => writer[w].at # 0

DeskInv(d) ==
  /\ DeskTyped(d)
  /\ Desk(d)!RequestsAgree /\ Desk(d)!RequestsWereAnswered /\ Desk(d)!TrailIsNewest
  /\ Desk(d)!SwitchOutranksQueue /\ Desk(d)!AllowedOnExactApproval
  /\ Desk(d)!WrittenIsThere

-----------------------------------------------------------------------------
\* What an answer adds to the queue, to its log and to the trail.
Unique(q) == \A i, j \in DOMAIN q : q[i].actionId = q[j].actionId => i = j

Queued(d, e) ==
  \/ queue' = queue
  \/ \E item \in Items(d) :
       /\ queue' = <<item>> \o queue /\ item.actionId = e.actionId
       /\ \A i \in DOMAIN queue : queue[i].actionId # item.actionId
       /\ item.status \in {"pending", "blocked"}
       /\ e.result \in {"approval_required", "queued_for_approval", "blocked_by_kill_switch"}

Trailed(d, e) ==
  IF e.result \in Refusals THEN UNCHANGED <<audit, sequence>>
  ELSE /\ sequence' = sequence + 1
       /\ \E event \in Events(d) :
            /\ audit' = Desk(d)!Recorded(audit, event)
            /\ event.id = sequence + 1 /\ event.target = e.actionId
            /\ event.result = e.result
            /\ event.result = "blocked_by_kill_switch" =>
                 event.killSwitch = "blocked" /\ event.approval # "approved"

Answered(d, e) ==
  /\ log' = Append(log, e) /\ Queued(d, e) /\ Trailed(d, e)
  /\ e.item # Desk(d)!NoRequest => \E i \in DOMAIN queue' : queue'[i] = e.item
  /\ e.result = "allowed" /\ e.external => e.exact
  /\ e.route = "dry-run" /\ e.actionId \in DOMAIN Desk(d)!SwitchedActions
     /\ Desk(d)!SwitchedActions[e.actionId] \ enabled # {}
       => e.result = "blocked_by_kill_switch"

-----------------------------------------------------------------------------
\* The request for an action is the one item the queue has for it.
LEMMA RequestThere ==
  ASSUME NEW d \in Desks, NEW a, NEW q \in Seq(Items(d)),
         Unique(q),
         \E i \in DOMAIN q : q[i].actionId = a
  PROVE  \E i \in DOMAIN q : q[i] = Desk(d)!Request(q, a) /\ q[i].actionId = a
<1> DEFINE First(i) == /\ i \in DOMAIN q /\ q[i].actionId = a
                       /\ \A j \in 1..(i - 1) : q[j].actionId # a
<1>1. PICK i \in DOMAIN q : q[i].actionId = a
  OBVIOUS
<1>2. DOMAIN q = 1..Len(q) /\ Len(q) \in Nat
  OBVIOUS
<1>3. \A j \in 1..(i - 1) : j \in DOMAIN q /\ j # i
  BY <1>1, <1>2
<1>4. First(i)
  BY <1>1, <1>3 DEF Unique
<1>5. First(CHOOSE j \in DOMAIN q : q[j].actionId = a /\ \A k \in 1..(j - 1) : q[k].actionId # a)
  BY <1>4
<1> QED BY <1>5 DEF Desk!Request

\* A new request goes to the head of the queue, and only if there is none.
LEMMA Ensured ==
  ASSUME NEW d \in Desks, NEW item \in Items(d), queue \in Seq(Items(d)),
         Desk(d)!RequestsAgree,
         queue' = Desk(d)!ensureApprovalRequest(queue, item)
  PROVE  /\ queue' \in Seq(Items(d))
         /\ Unique(queue')
         /\ \E i \in DOMAIN queue' : queue'[i].actionId = item.actionId
         /\ \/ queue' = queue
            \/ /\ queue' = <<item>> \o queue
               /\ \A i \in DOMAIN queue : queue[i].actionId # item.actionId
<1>1. CASE \E i \in DOMAIN queue : queue[i].actionId = item.actionId
  BY <1>1 DEF Desk!ensureApprovalRequest, Desk!RequestsAgree, Unique
<1>2. CASE \A i \in DOMAIN queue : queue[i].actionId # item.actionId
  <2>1. queue' = <<item>> \o queue
    BY <1>2 DEF Desk!ensureApprovalRequest
  <2>2. queue' \in Seq(Items(d)) /\ Len(queue') = Len(queue) + 1 /\ queue'[1] = item
    BY <2>1
  <2>3. \A i \in 2..Len(queue') : queue'[i] = queue[i - 1] /\ i - 1 \in DOMAIN queue
    BY <2>1, <2>2
  <2>4. DOMAIN queue' = 1..Len(queue') /\ Len(queue) \in Nat
    BY <2>2
  <2>5. ASSUME NEW i \in DOMAIN queue', NEW j \in DOMAIN queue',
               queue'[i].actionId = queue'[j].actionId
        PROVE  i = j
    <3>1. CASE i = 1 \/ j = 1
      BY <3>1, <2>2, <2>3, <2>4, <2>5, <1>2
    <3>2. CASE i # 1 /\ j # 1
      <4>1. i \in 2..Len(queue') /\ j \in 2..Len(queue')
        BY <3>2, <2>4
      <4>2. i - 1 = j - 1
        BY <4>1, <2>3, <2>5 DEF Desk!RequestsAgree
      <4> QED BY <4>1, <4>2
    <3> QED BY <3>1, <3>2
  <2>6. 1 \in DOMAIN queue'
    BY <2>2, <2>4
  <2> QED BY <1>2, <2>1, <2>2, <2>5, <2>6 DEF Unique
<1> QED BY <1>1, <1>2

-----------------------------------------------------------------------------
\* The request of an approved item needs no switch.
LEMMA SwitchedIsUnapproved ==
  ASSUME NEW d \in Desks, DeskInv(d), NEW i \in DOMAIN queue,
         queue[i].actionId \in DOMAIN Desk(d)!SwitchedActions
  PROVE  queue[i].status # "approved"
<1>1. ASSUME NEW k \in DOMAIN Desk(d)!approvalQueue, queue[i] = Desk(d)!approvalQueue[k]
      PROVE  queue[i].status # "approved"
  <2>1. k \in 1..4
    BY <1>1 DEF Desk!approvalQueue
  <2> QED BY <1>1, <2>1 DEF Desk!approvalQueue, Desk!Item, Desk!SwitchedActions
<1> QED BY <1>1 DEF DeskInv, Desk!RequestsWereAnswered

\* What the policy says of an action is what an item of the queue may have.
LEMMA RiskIsRisk ==
  ASSUME NEW d \in Desks, NEW a \in Desk(d)!actions, NEW status \in {"pending", "blocked"}
  PROVE  Desk(d)!Item(a, Desk(d)!risk(a), status) \in Items(d)
BY DEF Desk!Item, Desk!risk, Items, Ids, Desk!Statuses

\* A dry run of an action of the catalogue.
LEMMA DryRunAnswers ==
  ASSUME NEW d \in Desks, NEW a \in Asked[d], DeskInv(d), Desk(d)!DryRun(a)
  PROVE  \E e \in Replies(d) : Answered(d, e)
<1> DEFINE blocks == Desk(d)!blocked(a) # {}
           new == Desk(d)!Item(a, Desk(d)!risk(a), IF blocks THEN "blocked" ELSE "pending")
           needed == Desk(d)!requiresApproval(a)
           item == IF needed THEN Desk(d)!Request(queue', a) ELSE Desk(d)!NoRequest
           result == IF blocks THEN "blocked_by_kill_switch" ELSE
                     IF needed THEN "queued_for_approval" ELSE "simulated_only"
           e == [route |-> "dry-run", actionId |-> a, result |-> result, item |-> item,
                 external |-> FALSE, exact |-> FALSE]
           event == [id |-> sequence + 1, target |-> a, risk |-> item.risk,
                     approval |-> IF needed THEN item.status ELSE "required",
                     killSwitch |-> IF blocks THEN "blocked" ELSE "clear",
                     result |-> result]
<1>1. a \in Desk(d)!actions /\ DeskTyped(d)
  BY DEF Desk!DryRun, DeskInv
<1>2. /\ queue' = IF needed THEN Desk(d)!ensureApprovalRequest(queue, new) ELSE queue
      /\ log' = Append(log, e)
      /\ sequence' = sequence + 1 /\ audit' = Desk(d)!Recorded(audit, event)
  BY DEF Desk!DryRun, Desk!recordAuditEvent, Desk!Answer
<1>3. new \in Items(d) /\ new.actionId = a /\ new.status \in {"pending", "blocked"}
  BY <1>1, RiskIsRisk DEF Desk!Item
<1>4. blocks => needed
  BY DEF Desk!blocked, Desk!required, Desk!requiresApproval, Desk!FreeActions,
     Desk!SwitchedActions
<1>5. CASE needed
  <2>1. /\ queue' \in Seq(Items(d)) /\ Unique(queue')
        /\ \E i \in DOMAIN queue' : queue'[i].actionId = a
        /\ \/ queue' = queue
           \/ /\ queue' = <<new>> \o queue
              /\ \A i \in DOMAIN queue : queue[i].actionId # a
    <3>1. queue \in Seq(Items(d)) /\ Desk(d)!RequestsAgree
      BY DEF DeskInv, DeskTyped
    <3>2. queue' = Desk(d)!ensureApprovalRequest(queue, new)
      BY <1>2, <1>5
    <3> HIDE DEF new
    <3> QED BY <1>3, <3>1, <3>2, Ensured
  <2>2. PICK i \in DOMAIN queue' : queue'[i] = item /\ queue'[i].actionId = a
    BY <1>5, <2>1, RequestThere
  <2>3. item \in Items(d) /\ item.actionId = a
    BY <2>1, <2>2
  <2>4. blocks => item.status # "approved"
    <3> SUFFICES ASSUME blocks PROVE item.status # "approved"
      OBVIOUS
    <3>1. a \in DOMAIN Desk(d)!SwitchedActions
      BY DEF Desk!blocked, Desk!required
    <3>2. CASE queue' = queue
      BY <2>2, <3>1, <3>2, SwitchedIsUnapproved
    <3>3. CASE queue' = <<new>> \o queue /\ \A j \in DOMAIN queue : queue[j].actionId # a
      <4>1. queue'[1] = new /\ queue' \in Seq(Items(d)) /\ 1 \in DOMAIN queue'
        BY <1>3, <3>3, <1>1, <2>1 DEF DeskTyped
      <4>2. i = 1
        BY <4>1, <2>1, <2>2, <1>3 DEF Unique
      <4> QED BY <4>1, <4>2, <2>2, <1>3
    <3> QED BY <2>1, <3>2, <3>3
  <2> HIDE DEF item, new, blocks, needed
  <2>5. e \in Replies(d)
    BY <1>1, <2>3 DEF Replies, Results, Ids
  <2>6. event \in Events(d)
    BY <1>1, <1>5, <2>3 DEF Events, Items, Results, Ids, DeskTyped
  <2>7. Queued(d, e)
    BY <1>3, <1>5, <2>1 DEF Queued
  <2>8. Trailed(d, e)
    BY <1>2, <1>5, <2>4, <2>6 DEF Trailed, Refusals
  <2>9. e.route = "dry-run" /\ e.actionId \in DOMAIN Desk(d)!SwitchedActions
        /\ Desk(d)!SwitchedActions[e.actionId] \ enabled # {}
          => e.result = "blocked_by_kill_switch"
    BY DEF blocks, Desk!blocked, Desk!required
  <2> QED BY <1>2, <2>2, <2>5, <2>7, <2>8, <2>9 DEF Answered
<1>6. CASE ~needed
  <2>1. ~blocks /\ queue' = queue
    BY <1>2, <1>4, <1>6
  <2>2. item = Desk(d)!NoRequest /\ item.risk = "low"
    BY <1>6 DEF Desk!NoRequest, Desk!Item
  <2>3. a \in DOMAIN Desk(d)!SwitchedActions => Desk(d)!SwitchedActions[a] \ enabled = {}
    BY <2>1 DEF Desk!blocked, Desk!required
  <2> HIDE DEF item, new, blocks, needed
  <2>4. e \in Replies(d)
    BY <1>1, <1>6, <2>1, <2>2 DEF Replies, Results, Ids
  <2>5. event \in Events(d)
    BY <1>1, <1>6, <2>1, <2>2 DEF Events, Results, Ids, DeskTyped
  <2>6. Queued(d, e)
    BY <2>1 DEF Queued
  <2>7. Trailed(d, e)
    BY <1>2, <1>6, <2>1, <2>5 DEF Trailed, Refusals
  <2> QED BY <1>2, <1>6, <2>1, <2>2, <2>3, <2>4, <2>6, <2>7 DEF Answered
<1> QED BY <1>5, <1>6

\* A dry run of anything else.
LEMMA RefusalAnswers ==
  ASSUME NEW d \in Desks, NEW a \in Asked[d], DeskInv(d), Desk(d)!DryRunRefused(a)
  PROVE  \E e \in Replies(d) : Answered(d, e)
<1> DEFINE result == IF a = "invalid-json" THEN "invalid_json" ELSE "unknown_action"
           e == [route |-> "dry-run", actionId |-> a, result |-> result,
                 item |-> Desk(d)!NoRequest, external |-> FALSE, exact |-> FALSE]
           event == [id |-> sequence + 1, target |-> a, risk |-> "low",
                     approval |-> IF a = "invalid-json" THEN "required" ELSE "not-required",
                     killSwitch |-> "clear", result |-> result]
<1>1. /\ a \notin Desk(d)!actions /\ queue' = queue /\ log' = Append(log, e)
      /\ sequence' = sequence + 1 /\ audit' = Desk(d)!Recorded(audit, event)
  BY DEF Desk!DryRunRefused, Desk!recordAuditEvent, Desk!Answer
<1>2. e \in Replies(d) /\ event \in Events(d)
  BY DEF DeskInv, DeskTyped, Replies, Results, Events, Ids
<1>3. a \notin DOMAIN Desk(d)!SwitchedActions
  BY <1>1 DEF Desk!actions
<1> QED BY <1>1, <1>2, <1>3 DEF Answered, Queued, Trailed, Refusals

\* An external action that the policy allows has approval for its target.
LEMMA AllowedIsExact ==
  ASSUME NEW d \in Desks, NEW a, NEW x, NEW p,
         Desk(d)!Decision(a, x, p) = "allowed", Desk(d)!isExternalAction(x)
  PROVE  p.approved /\ p.target = x.target /\ p.target \notin {"none", "vague"}
BY DEF Desk!Decision, Desk!approvalMatches, Desk!targetId

\* A request of the Hermes inbox.
LEMMA InboxAnswers ==
  ASSUME NEW d \in Desks, Desk(d)!DeskAssumption, NEW a \in InboxIds[d],
         NEW x \in InboxActions[d], NEW p \in Approvals[d], DeskInv(d),
         Desk(d)!Inbox(a, x, p)
  PROVE  \E e \in Replies(d) : Answered(d, e)
<1> DEFINE refusal == Desk(d)!InboxRefusal(x)
           decision == Desk(d)!Decision(a, x, p)
           external == Desk(d)!isExternalAction(x)
           exact == p.approved /\ p.target = x.target /\ p.target \notin {"none", "vague"}
           opens == decision = "approval_required"
           new == Desk(d)!Item(a, Desk(d)!InboxRisk(x), "pending")
           item == IF opens THEN Desk(d)!Request(queue', a) ELSE Desk(d)!NoRequest
           refused == [route |-> "inbox", actionId |-> a, result |-> refusal,
                       item |-> Desk(d)!NoRequest, external |-> external, exact |-> FALSE]
           e == [route |-> "inbox", actionId |-> a, result |-> decision,
                 item |-> item, external |-> external, exact |-> exact]
           event == [id |-> sequence + 1, target |-> a,
                     risk |-> IF decision = "blocked" THEN "high" ELSE
                              IF external THEN "medium" ELSE "low",
                     approval |-> IF external THEN "required" ELSE "not-required",
                     killSwitch |-> IF decision = "blocked" THEN "blocked" ELSE "clear",
                     result |-> decision]
<1>1. refusal \in Refusals \union {"none"}
      /\ decision \in {"blocked", "approval_required", "allowed"}
  BY DEF Desk!InboxRefusal, Desk!Decision, Refusals
<1>2. external \in BOOLEAN /\ exact \in BOOLEAN
  BY DEF Desk!isExternalAction
<1>3. CASE refusal # "none"
  <2>1. log' = Append(log, refused) /\ UNCHANGED <<queue, audit, sequence>>
    BY <1>3 DEF Desk!Inbox, Desk!Answer
  <2> HIDE DEF refusal, external
  <2>2. refused \in Replies(d)
    BY <1>1, <1>2, <1>3 DEF Replies, Results, Ids
  <2> QED BY <1>1, <1>3, <2>1, <2>2 DEF Answered, Queued, Trailed, Refusals
<1>4. CASE refusal = "none"
  <2>1. /\ queue' = IF opens THEN Desk(d)!ensureApprovalRequest(queue, new) ELSE queue
        /\ log' = Append(log, e)
        /\ sequence' = sequence + 1 /\ audit' = Desk(d)!Recorded(audit, event)
    BY <1>4, Zenon DEF Desk!Inbox, Desk!recordAuditEvent, Desk!Answer, Desk!OpensRequest
  <2>2. new \in Items(d) /\ new.actionId = a /\ new.status = "pending"
    BY DEF Items, Ids, Desk!Item, Desk!InboxRisk, Desk!Statuses
  <2>3. /\ item \in Items(d) \union {Desk(d)!NoRequest}
        /\ opens => \E i \in DOMAIN queue' : queue'[i] = item
        /\ ~opens => item = Desk(d)!NoRequest /\ queue' = queue
        /\ \/ queue' = queue
           \/ /\ queue' = <<new>> \o queue /\ opens
              /\ \A i \in DOMAIN queue : queue[i].actionId # a
    <3>1. CASE ~opens
      BY <3>1, <2>1
    <3>2. CASE opens
      <4>1. queue \in Seq(Items(d)) /\ Desk(d)!RequestsAgree
        BY DEF DeskInv, DeskTyped
      <4>2. queue' = Desk(d)!ensureApprovalRequest(queue, new)
        BY <2>1, <3>2
      <4>3. item = Desk(d)!Request(queue', a)
        BY <3>2
      <4> HIDE DEF new, opens, item
      <4>4. /\ queue' \in Seq(Items(d)) /\ Unique(queue')
            /\ \E i \in DOMAIN queue' : queue'[i].actionId = a
            /\ \/ queue' = queue
               \/ /\ queue' = <<new>> \o queue
                  /\ \A i \in DOMAIN queue : queue[i].actionId # a
        BY <2>2, <4>1, <4>2, Ensured
      <4>5. PICK i \in DOMAIN queue' : queue'[i] = item
        BY <4>3, <4>4, RequestThere
      <4> QED BY <3>2, <4>4, <4>5
    <3> QED BY <3>1, <3>2
  <2>4. decision = "allowed" /\ external => exact
    BY AllowedIsExact, Zenon
  <2>5. opens <=> decision = "approval_required"
    OBVIOUS
  <2> HIDE DEF new, item, decision, external, exact, opens
  <2>6. e \in Replies(d)
    BY <1>1, <1>2, <2>3 DEF Replies, Results, Ids
  <2>7. event \in Events(d)
    BY <1>1, <1>2 DEF Events, Results, Ids, DeskInv, DeskTyped
  <2>8. Queued(d, e)
    BY <2>2, <2>3, <2>5 DEF Queued
  <2>9. Trailed(d, e)
    BY <1>1, <2>1, <2>7 DEF Trailed, Refusals
  <2> QED BY <2>1, <2>3, <2>4, <2>5, <2>6, <2>8, <2>9 DEF Answered
<1> QED BY <1>3, <1>4

-----------------------------------------------------------------------------
\* The queue keeps its requests, and what is new in it was answered.
LEMMA QueueAfter ==
  ASSUME NEW d \in Desks, DeskInv(d), NEW e \in Replies(d), Queued(d, e)
  PROVE  /\ queue' \in Seq(Items(d)) /\ Unique(queue')
         /\ \A i \in DOMAIN queue : \E j \in DOMAIN queue' : queue'[j] = queue[i]
         /\ \A j \in DOMAIN queue' :
              \/ \E i \in DOMAIN queue : queue[i] = queue'[j]
              \/ /\ queue'[j].actionId = e.actionId
                 /\ queue'[j].status \in {"pending", "blocked"}
                 /\ e.result \in {"approval_required", "queued_for_approval",
                                  "blocked_by_kill_switch"}
<1>1. queue \in Seq(Items(d)) /\ Unique(queue)
  BY DEF DeskInv, DeskTyped, Desk!RequestsAgree, Unique
<1>2. CASE queue' = queue
  BY <1>1, <1>2
<1>3. CASE queue' # queue
  <2>1. PICK item \in Items(d) :
          /\ queue' = <<item>> \o queue /\ item.actionId = e.actionId
          /\ \A i \in DOMAIN queue : queue[i].actionId # item.actionId
          /\ item.status \in {"pending", "blocked"}
          /\ e.result \in {"approval_required", "queued_for_approval",
                           "blocked_by_kill_switch"}
    BY <1>3 DEF Queued
  <2>2. /\ queue' \in Seq(Items(d)) /\ Len(queue') = Len(queue) + 1 /\ queue'[1] = item
        /\ Len(queue) \in Nat /\ DOMAIN queue = 1..Len(queue)
        /\ DOMAIN queue' = 1..(Len(queue) + 1)
    BY <1>1, <2>1
  <2>3. \A i \in DOMAIN queue : i + 1 \in DOMAIN queue' /\ queue'[i + 1] = queue[i]
    BY <1>1, <2>1, <2>2
  <2>4. \A j \in DOMAIN queue' : j = 1 \/ (j - 1 \in DOMAIN queue /\ queue'[j] = queue[j - 1])
    BY <1>1, <2>1, <2>2
  <2>5. Unique(queue')
    <3> SUFFICES ASSUME NEW i \in DOMAIN queue', NEW j \in DOMAIN queue',
                        queue'[i].actionId = queue'[j].actionId
                 PROVE  i = j
      BY DEF Unique
    <3>1. CASE i = 1 \/ j = 1
      BY <3>1, <2>1, <2>2, <2>4
    <3>2. CASE i # 1 /\ j # 1
      BY <3>2, <1>1, <2>2, <2>4 DEF Unique
    <3> QED BY <3>1, <3>2
  <2> QED BY <2>1, <2>2, <2>3, <2>4, <2>5
<1> QED BY <1>2, <1>3

\* The ring takes a new event at its head and loses the last when it is full.
LEMMA RingShifts ==
  ASSUME NEW d \in Desks, Desk(d)!DeskAssumption, NEW events \in Seq(Events(d)),
         NEW event \in Events(d), NEW ring, ring = Desk(d)!Recorded(events, event),
         Len(events) <= MaxEvents[d]
  PROVE  /\ ring \in Seq(Events(d))
         /\ Len(ring) = IF Len(events) < MaxEvents[d] THEN Len(events) + 1 ELSE MaxEvents[d]
         /\ \A i \in DOMAIN ring :
              \/ i = 1 /\ ring[i] = event
              \/ i - 1 \in DOMAIN events /\ ring[i] = events[i - 1]
<1> DEFINE all == <<event>> \o events
           n == IF Len(events) + 1 > MaxEvents[d] THEN MaxEvents[d] ELSE Len(events) + 1
<1>1. Len(events) \in Nat /\ MaxEvents[d] \in Nat
  BY DEF Desk!DeskAssumption
<1>2. /\ all \in Seq(Events(d)) /\ Len(all) = Len(events) + 1
      /\ \A i \in 1..Len(all) : all[i] = IF i = 1 THEN event ELSE events[i - 1]
  OBVIOUS
<1>3. ring = SubSeq(all, 1, n) /\ n \in 0..Len(all)
  BY <1>1, <1>2 DEF Desk!Recorded
<1> HIDE DEF all, n
<1>4. ring \in Seq(Events(d)) /\ Len(ring) = n /\ \A i \in 1..n : ring[i] = all[i]
  BY <1>2, <1>3, SubSeqProperties
<1>5. DOMAIN ring = 1..n /\ DOMAIN events = 1..Len(events)
  BY <1>4
<1>6. \A i \in 1..n : ring[i] = IF i = 1 THEN event ELSE events[i - 1]
  BY <1>1, <1>2, <1>3, <1>4
<1> QED BY <1>1, <1>2, <1>3, <1>4, <1>5, <1>6 DEF n

\* An answer changes no count before it and adds one to the last if audited.
LEMMA ToldAfter ==
  ASSUME NEW d \in Desks, log \in Seq(Replies(d)), NEW e \in Replies(d),
         log' = Append(log, e), NEW k, k = Len(log)
  PROVE  /\ k \in Nat /\ Len(log') = k + 1 /\ log'[k + 1] = e
         /\ DOMAIN log = 1..k /\ DOMAIN log' = 1..(k + 1)
         /\ \A n \in 1..k : log'[n] = log[n]
         /\ \A n \in 0..k : Desk(d)!Told(n) \in Nat /\ Desk(d)!Told(n)' = Desk(d)!Told(n)
         /\ Desk(d)!Told(k + 1)' = Desk(d)!Told(k) + (IF e.result \in Refusals THEN 0 ELSE 1)
<1> DEFINE Up(n) == {m \in 1..n : Desk(d)!Audited(log[m])}
           UpAfter(n) == {m \in 1..n : Desk(d)!Audited(log'[m])}
<1>1. /\ k \in Nat /\ Len(log') = k + 1 /\ log'[k + 1] = e
      /\ DOMAIN log = 1..k /\ DOMAIN log' = 1..(k + 1)
      /\ \A n \in 1..k : log'[n] = log[n]
  OBVIOUS
<1>2. ASSUME NEW n \in 0..k PROVE IsFiniteSet(Up(n)) /\ Cardinality(Up(n)) \in Nat
  <2>1. IsFiniteSet(1..n)
    BY <1>1, FS_Interval
  <2>2. Up(n) \in SUBSET (1..n)
    OBVIOUS
  <2> HIDE DEF Up
  <2> QED BY <2>1, <2>2, FS_Subset, FS_CardinalityType
<1>3. \A n \in 0..k : UpAfter(n) = Up(n)
  BY <1>1
<1>4. UpAfter(k + 1) = IF e.result \in Refusals THEN Up(k) ELSE Up(k) \union {k + 1}
  BY <1>1 DEF Desk!Audited, Refusals
<1>5. k + 1 \notin Up(k)
  BY <1>1
<1>6. \A n : Desk(d)!Told(n) = Cardinality(Up(n)) /\ Desk(d)!Told(n)' = Cardinality(UpAfter(n))
  BY DEF Desk!Told, Desk!Cardinality, Cardinality, Desk!Audited
<1> HIDE DEF Up, UpAfter
<1>7. Cardinality(UpAfter(k + 1)) = Cardinality(Up(k)) + (IF e.result \in Refusals THEN 0 ELSE 1)
  <2>1. IsFiniteSet(Up(k)) /\ Cardinality(Up(k)) \in Nat
    BY <1>1, <1>2
  <2>2. Cardinality(Up(k) \union {k + 1}) = Cardinality(Up(k)) + 1
    BY <1>5, <2>1, FS_AddElement
  <2> QED BY <1>4, <2>1, <2>2
<1> QED BY <1>1, <1>2, <1>3, <1>6, <1>7

-----------------------------------------------------------------------------
\* The trail after an answer.
LEMMA TrailAfter ==
  ASSUME NEW d \in Desks, Desk(d)!DeskAssumption, DeskInv(d), NEW e \in Replies(d),
         Answered(d, e)
  PROVE  /\ audit' \in Seq(Events(d)) /\ sequence' \in Nat /\ Desk(d)!TrailIsNewest'
         /\ \A i \in DOMAIN audit' : audit'[i].result = "blocked_by_kill_switch" =>
              audit'[i].killSwitch = "blocked" /\ audit'[i].approval # "approved"
<1>1. PICK k : k = Len(log)
  OBVIOUS
<1>2. log \in Seq(Replies(d)) /\ log' = Append(log, e)
  BY DEF DeskInv, DeskTyped, Answered
<1>3. /\ k \in Nat /\ Len(log') = k + 1 /\ log'[k + 1] = e
      /\ DOMAIN log = 1..k /\ DOMAIN log' = 1..(k + 1)
      /\ \A n \in 1..k : log'[n] = log[n]
      /\ \A n \in 0..k : Desk(d)!Told(n) \in Nat /\ Desk(d)!Told(n)' = Desk(d)!Told(n)
      /\ Desk(d)!Told(k + 1)' = Desk(d)!Told(k) + (IF e.result \in Refusals THEN 0 ELSE 1)
  BY <1>1, <1>2, ToldAfter
<1>4. /\ audit \in Seq(Events(d)) /\ sequence \in Nat /\ MaxEvents[d] \in Nat
      /\ sequence = Desk(d)!Told(k)
      /\ Len(audit) = IF sequence < MaxEvents[d] THEN sequence ELSE MaxEvents[d]
  BY <1>1 DEF DeskInv, DeskTyped, Desk!TrailIsNewest, Desk!DeskAssumption
<1>5. ASSUME NEW i \in DOMAIN audit
      PROVE  \E n \in 1..k :
               /\ n \in DOMAIN log' /\ Desk(d)!Audited(log'[n])
               /\ Desk(d)!Told(n)' = sequence + 1 - i /\ audit[i].id = Desk(d)!Told(n)'
               /\ audit[i].result = log'[n].result /\ audit[i].target = log'[n].actionId
  <2>1. PICK n \in DOMAIN log :
          /\ Desk(d)!Audited(log[n]) /\ Desk(d)!Told(n) = sequence + 1 - i
          /\ audit[i].id = Desk(d)!Told(n)
          /\ audit[i].result = log[n].result /\ audit[i].target = log[n].actionId
    BY <1>5 DEF DeskInv, Desk!TrailIsNewest
  <2>2. n \in 1..k /\ n \in 0..k /\ n \in DOMAIN log' /\ log'[n] = log[n]
    BY <1>3, <2>1
  <2>3. Desk(d)!Told(n)' = Desk(d)!Told(n)
    BY <1>3, <2>2
  <2> QED BY <2>1, <2>2, <2>3
<1>6. CASE e.result \in Refusals
  <2>1. audit' = audit /\ sequence' = sequence /\ sequence' = Desk(d)!Told(k + 1)'
    BY <1>3, <1>4, <1>6 DEF Answered, Trailed
  <2>2. ASSUME NEW i \in DOMAIN audit'
        PROVE  \E n \in DOMAIN log' :
                 /\ Desk(d)!Audited(log'[n])
                 /\ Desk(d)!Told(n)' = sequence' + 1 - i /\ audit'[i].id = Desk(d)!Told(n)'
                 /\ audit'[i].result = log'[n].result /\ audit'[i].target = log'[n].actionId
    BY <1>5, <2>1
  <2>3. Len(audit') = IF sequence' < MaxEvents[d] THEN sequence' ELSE MaxEvents[d]
    BY <1>4, <2>1
  <2>4. Desk(d)!TrailIsNewest'
    BY <1>3, <2>1, <2>2, <2>3 DEF Desk!TrailIsNewest
  <2> QED BY <1>4, <2>1, <2>4 DEF DeskInv, Desk!SwitchOutranksQueue
<1>7. CASE e.result \notin Refusals
  <2>1. PICK event \in Events(d) :
          /\ audit' = Desk(d)!Recorded(audit, event)
          /\ event.id = sequence + 1 /\ event.target = e.actionId
          /\ event.result = e.result
          /\ event.result = "blocked_by_kill_switch" =>
               event.killSwitch = "blocked" /\ event.approval # "approved"
    BY <1>7 DEF Answered, Trailed
  <2>2. sequence' = sequence + 1 /\ sequence' = Desk(d)!Told(k + 1)'
    BY <1>3, <1>4, <1>7 DEF Answered, Trailed
  <2>3. /\ audit' \in Seq(Events(d))
        /\ Len(audit') = IF Len(audit) < MaxEvents[d] THEN Len(audit) + 1 ELSE MaxEvents[d]
        /\ \A i \in DOMAIN audit' :
             \/ i = 1 /\ audit'[i] = event
             \/ i - 1 \in DOMAIN audit /\ audit'[i] = audit[i - 1]
    BY <1>4, <2>1, RingShifts
  <2>4. Len(audit') = IF sequence' < MaxEvents[d] THEN sequence' ELSE MaxEvents[d]
    BY <1>4, <2>2, <2>3
  <2>5. ASSUME NEW i \in DOMAIN audit'
        PROVE  \E n \in DOMAIN log' :
                 /\ Desk(d)!Audited(log'[n])
                 /\ Desk(d)!Told(n)' = sequence' + 1 - i /\ audit'[i].id = Desk(d)!Told(n)'
                 /\ audit'[i].result = log'[n].result /\ audit'[i].target = log'[n].actionId
    <3>1. CASE i = 1 /\ audit'[i] = event
      <4>1. k + 1 \in DOMAIN log' /\ Desk(d)!Audited(log'[k + 1])
        BY <1>3, <1>7 DEF Desk!Audited, Refusals
      <4>2. Desk(d)!Told(k + 1)' = sequence' + 1 - i
        BY <1>4, <2>2, <3>1
      <4> QED BY <1>3, <2>1, <2>2, <3>1, <4>1, <4>2
    <3>2. CASE i - 1 \in DOMAIN audit /\ audit'[i] = audit[i - 1]
      <4>1. i \in Nat /\ sequence + 1 - (i - 1) = sequence' + 1 - i
        <5>1. DOMAIN audit' = 1..Len(audit') /\ Len(audit') \in Nat
          BY <2>3
        <5> QED BY <1>4, <2>2, <5>1
      <4> QED BY <1>5, <3>2, <4>1
    <3> QED BY <2>3, <3>1, <3>2
  <2>6. Desk(d)!TrailIsNewest'
    BY <1>3, <2>2, <2>4, <2>5 DEF Desk!TrailIsNewest
  <2>7. ASSUME NEW i \in DOMAIN audit', audit'[i].result = "blocked_by_kill_switch"
        PROVE  audit'[i].killSwitch = "blocked" /\ audit'[i].approval # "approved"
    BY <2>1, <2>3, <2>7 DEF DeskInv, Desk!SwitchOutranksQueue
  <2> QED BY <1>4, <2>2, <2>3, <2>6, <2>7
<1> QED BY <1>6, <1>7

\* An answer preserves the invariant.
LEMMA AnswerKeeps ==
  ASSUME NEW d \in Desks, Desk(d)!DeskAssumption, DeskInv(d), NEW e \in Replies(d),
         Answered(d, e), UNCHANGED <<enabled, files, writer, second>>
  PROVE  DeskInv(d)'
<1>1. PICK k : k = Len(log)
  OBVIOUS
<1>2. log \in Seq(Replies(d)) /\ log' = Append(log, e) /\ log' \in Seq(Replies(d))
  BY DEF DeskInv, DeskTyped, Answered
<1>3. /\ k \in Nat /\ log'[k + 1] = e
      /\ DOMAIN log = 1..k /\ DOMAIN log' = 1..(k + 1)
      /\ \A n \in 1..k : log'[n] = log[n]
  BY <1>1, <1>2, ToldAfter
<1>4. /\ queue' \in Seq(Items(d)) /\ Unique(queue')
      /\ \A i \in DOMAIN queue : \E j \in DOMAIN queue' : queue'[j] = queue[i]
      /\ \A j \in DOMAIN queue' :
           \/ \E i \in DOMAIN queue : queue[i] = queue'[j]
           \/ /\ queue'[j].actionId = e.actionId
              /\ queue'[j].status \in {"pending", "blocked"}
              /\ e.result \in {"approval_required", "queued_for_approval",
                               "blocked_by_kill_switch"}
  BY QueueAfter DEF Answered
<1>5. /\ audit' \in Seq(Events(d)) /\ sequence' \in Nat /\ Desk(d)!TrailIsNewest'
      /\ \A i \in DOMAIN audit' : audit'[i].result = "blocked_by_kill_switch" =>
           audit'[i].killSwitch = "blocked" /\ audit'[i].approval # "approved"
  BY TrailAfter
<1>6. DeskTyped(d)'
  BY <1>2, <1>4, <1>5 DEF DeskInv, DeskTyped
<1>7. Desk(d)!RequestsAgree'
  <2>1. ASSUME NEW n \in DOMAIN log', log'[n].item # Desk(d)!NoRequest
        PROVE  \E i \in DOMAIN queue' : queue'[i] = log'[n].item
    <3>1. CASE n = k + 1
      BY <1>3, <2>1, <3>1 DEF Answered
    <3>2. CASE n \in 1..k
      BY <1>3, <1>4, <2>1, <3>2 DEF DeskInv, Desk!RequestsAgree
    <3> QED BY <1>3, <3>1, <3>2
  <2>2. Desk(d)!NoRequest' = Desk(d)!NoRequest
    BY DEF Desk!NoRequest, Desk!Item
  <2> QED BY <1>4, <2>1, <2>2 DEF Desk!RequestsAgree, Unique
<1>8. Desk(d)!RequestsWereAnswered'
  <2> SUFFICES ASSUME NEW j \in DOMAIN queue'
               PROVE  \/ \E m \in DOMAIN Desk(d)!approvalQueue :
                           queue'[j] = Desk(d)!approvalQueue[m]
                      \/ /\ queue'[j].status \in {"pending", "blocked"}
                         /\ \E n \in DOMAIN log' :
                              /\ log'[n].actionId = queue'[j].actionId
                              /\ log'[n].result \in {"approval_required",
                                   "queued_for_approval", "blocked_by_kill_switch"}
    BY DEF Desk!RequestsWereAnswered, Desk!approvalQueue, Desk!Item
  <2>1. CASE \E i \in DOMAIN queue : queue[i] = queue'[j]
    BY <1>3, <2>1 DEF DeskInv, Desk!RequestsWereAnswered
  <2>2. CASE /\ queue'[j].actionId = e.actionId
             /\ queue'[j].status \in {"pending", "blocked"}
             /\ e.result \in {"approval_required", "queued_for_approval",
                              "blocked_by_kill_switch"}
    <3>1. k + 1 \in DOMAIN log'
      BY <1>3
    <3> QED BY <1>3, <2>2, <3>1
  <2> QED BY <1>4, <2>1, <2>2
<1>9. Desk(d)!SwitchOutranksQueue'
  <2>1. ASSUME NEW n \in DOMAIN log', log'[n].route = "dry-run",
               log'[n].actionId \in DOMAIN Desk(d)!SwitchedActions,
               Desk(d)!SwitchedActions[log'[n].actionId] \ enabled # {}
        PROVE  log'[n].result = "blocked_by_kill_switch"
    <3>1. CASE n = k + 1
      BY <1>3, <2>1, <3>1 DEF Answered
    <3>2. CASE n \in 1..k
      BY <1>3, <2>1, <3>2 DEF DeskInv, Desk!SwitchOutranksQueue
    <3> QED BY <1>3, <3>1, <3>2
  <2>2. Desk(d)!SwitchedActions' = Desk(d)!SwitchedActions
    BY Zenon DEF Desk!SwitchedActions
  <2> QED BY <1>5, <2>1, <2>2 DEF Desk!SwitchOutranksQueue
<1>10. Desk(d)!AllowedOnExactApproval'
  <2> SUFFICES ASSUME NEW n \in DOMAIN log', log'[n].result = "allowed", log'[n].external
               PROVE  log'[n].exact
    BY DEF Desk!AllowedOnExactApproval
  <2>1. CASE n = k + 1
    BY <1>3, <2>1 DEF Answered
  <2>2. CASE n \in 1..k
    BY <1>3, <2>2 DEF DeskInv, Desk!AllowedOnExactApproval
  <2> QED BY <1>3, <2>1, <2>2
<1>11. Desk(d)!WrittenIsThere'
  BY DEF DeskInv, Desk!WrittenIsThere
<1> QED BY <1>5, <1>6, <1>7, <1>8, <1>9, <1>10, <1>11 DEF DeskInv

\* A call of either route is an answer.
LEMMA CallKeeps ==
  ASSUME NEW d \in Desks, Desk(d)!DeskAssumption, DeskInv(d), Desk(d)!Call
  PROVE  DeskInv(d)'
<1>1. UNCHANGED <<enabled, files, writer, second>>
  BY DEF Desk!Call
<1>2. \E e \in Replies(d) : Answered(d, e)
  <2>1. CASE \E a \in Asked[d] : Desk(d)!DryRun(a) \/ Desk(d)!DryRunRefused(a)
    BY <2>1, DryRunAnswers, RefusalAnswers
  <2>2. CASE \E a \in InboxIds[d], x \in InboxActions[d], p \in Approvals[d] :
               Desk(d)!Inbox(a, x, p)
    BY <2>2, InboxAnswers
  <2> QED BY <2>1, <2>2 DEF Desk!Call
<1> QED BY <1>1, <1>2, AnswerKeeps

\* The queue of a process that starts.
LEMMA FirstQueue ==
  ASSUME NEW d \in Desks
  PROVE  Desk(d)!approvalQueue \in Seq(Items(d)) /\ Unique(Desk(d)!approvalQueue)
BY DEF Unique, Desk!approvalQueue, Desk!Item, Items, Ids, Desk!actions, Desk!GatedActions,
   Desk!FreeActions, Desk!SwitchedActions, Desk!Statuses

\* A desk starts with the requests it was given, told to nobody.
LEMMA DeskStarts ==
  ASSUME NEW d \in Desks, Desk(d)!DeskAssumption, Desk(d)!Init
  PROVE  DeskInv(d)
<1>1. /\ queue = Desk(d)!approvalQueue /\ audit = <<>> /\ sequence = 0 /\ log = <<>>
      /\ files = <<>> /\ second = 1 /\ writer = [w \in Writers[d] |-> Desk(d)!Idle]
      /\ enabled \subseteq {"customer-messaging", "cloud-mutation"}
  BY DEF Desk!Init, Desk!Booted
<1>2. DOMAIN files = {} /\ writer \in [Writers[d] -> Snaps(d)]
      /\ \A w \in Writers[d] : writer[w].pc = "idle"
  BY <1>1 DEF Desk!Idle, Snaps, Desk!DeskAssumption
<1>3. DeskTyped(d)
  BY <1>1, <1>2, FirstQueue DEF DeskTyped, Desk!switches, Desk!DeskAssumption
<1>4. DOMAIN log = {} /\ DOMAIN audit = {} /\ Len(log) = 0 /\ Len(audit) = 0
  BY <1>1
<1>5. Desk(d)!TrailIsNewest
  <2>1. Desk(d)!Told(0) = 0
    BY FS_EmptySet DEF Desk!Told, Desk!Cardinality, Cardinality
  <2>2. MaxEvents[d] \in Nat
    BY DEF Desk!DeskAssumption
  <2> QED BY <1>1, <1>4, <2>1, <2>2 DEF Desk!TrailIsNewest
<1>6. Desk(d)!RequestsAgree /\ Desk(d)!RequestsWereAnswered
  BY <1>1, <1>4, FirstQueue DEF Desk!RequestsAgree, Desk!RequestsWereAnswered, Unique
<1> QED
  BY <1>1, <1>2, <1>3, <1>4, <1>5, <1>6 DEF DeskInv, Desk!WrittenIsThere,
     Desk!SwitchOutranksQueue, Desk!AllowedOnExactApproval

\* What the memory alone says stays while it does not change.
LEMMA MemoryStays ==
  ASSUME NEW d \in Desks, DeskInv(d), UNCHANGED <<enabled, queue, audit, sequence, log>>
  PROVE  /\ Desk(d)!RequestsAgree' /\ Desk(d)!RequestsWereAnswered' /\ Desk(d)!TrailIsNewest'
         /\ Desk(d)!SwitchOutranksQueue' /\ Desk(d)!AllowedOnExactApproval'
<1>1. Desk(d)!RequestsAgree' /\ Desk(d)!AllowedOnExactApproval'
  BY DEF DeskInv, Desk!RequestsAgree, Desk!AllowedOnExactApproval, Desk!NoRequest, Desk!Item
<1>2. Desk(d)!RequestsWereAnswered'
  BY DEF DeskInv, Desk!RequestsWereAnswered, Desk!approvalQueue, Desk!Item
<1>3. Desk(d)!SwitchOutranksQueue'
  BY Zenon DEF DeskInv, Desk!SwitchOutranksQueue, Desk!SwitchedActions
<1>4. Desk(d)!TrailIsNewest'
  <2>1. \A n : Desk(d)!Told(n)' = Desk(d)!Told(n)
    BY DEF Desk!Told, Desk!Audited
  <2> QED BY <2>1 DEF DeskInv, Desk!TrailIsNewest, Desk!Audited
<1> QED BY <1>1, <1>2, <1>3, <1>4

\* Snapshots, time and restarts.
LEMMA WriterKeeps ==
  ASSUME NEW d \in Desks, Desk(d)!DeskAssumption, DeskInv(d),
         \/ Desk(d)!Tick
         \/ \E w \in Writers[d] : Desk(d)!BeginSnapshot(w) \/ Desk(d)!WriteSnapshot(w)
  PROVE  DeskInv(d)'
<1>1. UNCHANGED <<enabled, queue, audit, sequence, log>>
  BY DEF Desk!Tick, Desk!BeginSnapshot, Desk!WriteSnapshot
<1>2. DeskTyped(d) /\ Desk(d)!WrittenIsThere /\ MaxSecond[d] \in Nat
  BY DEF DeskInv, Desk!DeskAssumption
<1>3. DeskTyped(d)' /\ Desk(d)!WrittenIsThere'
  <2>1. CASE Desk(d)!Tick
    BY <1>1, <1>2, <2>1 DEF Desk!Tick, DeskTyped, Desk!WrittenIsThere
  <2>2. ASSUME NEW w \in Writers[d], Desk(d)!BeginSnapshot(w)
        PROVE  DeskTyped(d)' /\ Desk(d)!WrittenIsThere'
    BY <1>1, <1>2, <2>2 DEF Desk!BeginSnapshot, DeskTyped, Snaps, Desk!WrittenIsThere
  <2>3. ASSUME NEW w \in Writers[d], Desk(d)!WriteSnapshot(w)
        PROVE  DeskTyped(d)' /\ Desk(d)!WrittenIsThere'
    <3>1. second' = second /\ writer[w].at \in 1..MaxSecond[d] /\ writer[w] \in Snaps(d)
      BY <1>2, <2>3 DEF Desk!WriteSnapshot, DeskTyped, Snaps
    <3>2. CASE Desk(d)!Creates(w)
      <4>1. /\ writer' = [writer EXCEPT ![w].pc = "written"]
            /\ files' = [s \in DOMAIN files \union {writer[w].at} |->
                           IF s = writer[w].at THEN writer[w].content ELSE files[s]]
        BY <2>3, <3>2 DEF Desk!WriteSnapshot
      <4>2. writer[w].at \notin DOMAIN files
        BY <3>2 DEF Desk!Creates
      <4>3. DeskTyped(d)'
        BY <1>1, <1>2, <3>1, <4>1 DEF DeskTyped, Snaps
      <4>4. Desk(d)!WrittenIsThere'
        BY <1>2, <4>1, <4>2 DEF DeskTyped, Snaps, Desk!WrittenIsThere
      <4> QED BY <4>3, <4>4
    <3>3. CASE ~Desk(d)!Creates(w)
      <4>1. writer' = [writer EXCEPT ![w].pc = "failed"] /\ files' = files
        BY <2>3, <3>3 DEF Desk!WriteSnapshot
      <4>2. /\ writer' \in [Writers[d] -> Snaps(d)]
            /\ \A v \in Writers[d] : writer'[v].pc # "idle" => writer'[v].at # 0
        <5> DEFINE after == [writer[w] EXCEPT !.pc = "failed"]
        <5>1. after \in Snaps(d) /\ after.at # 0
          BY <1>2, <3>1 DEF Snaps
        <5>2. writer' = [writer EXCEPT ![w] = after]
          BY <4>1
        <5> HIDE DEF after
        <5> QED BY <1>2, <5>1, <5>2 DEF DeskTyped
      <4>3. DeskTyped(d)'
        BY <1>1, <1>2, <3>1, <4>1, <4>2 DEF DeskTyped
      <4>4. Desk(d)!WrittenIsThere'
        BY <1>2, <4>1 DEF DeskTyped, Snaps, Desk!WrittenIsThere
      <4> QED BY <4>3, <4>4
    <3> QED BY <3>2, <3>3
  <2> QED BY <2>1, <2>2, <2>3
<1>4. /\ Desk(d)!RequestsAgree' /\ Desk(d)!RequestsWereAnswered' /\ Desk(d)!TrailIsNewest'
      /\ Desk(d)!SwitchOutranksQueue' /\ Desk(d)!AllowedOnExactApproval'
  BY <1>1, MemoryStays
<1> QED BY <1>3, <1>4 DEF DeskInv

\* A restart puts the queue and the trail back to what they start with.
LEMMA RestartKeeps ==
  ASSUME NEW d \in Desks, Desk(d)!DeskAssumption, DeskInv(d), Desk(d)!Restart
  PROVE  DeskInv(d)'
<1>1. /\ queue' = Desk(d)!approvalQueue /\ audit' = <<>> /\ sequence' = 0 /\ log' = <<>>
      /\ enabled' \subseteq {"customer-messaging", "cloud-mutation"}
      /\ UNCHANGED <<files, second>>
      /\ writer' = [w \in Writers[d] |->
                      IF writer[w].pc = "mkdir" THEN Desk(d)!Idle ELSE writer[w]]
  BY DEF Desk!Restart
<1>2. DeskTyped(d) /\ Desk(d)!WrittenIsThere
  BY DEF DeskInv
<1>3. DOMAIN log' = {} /\ DOMAIN audit' = {} /\ Len(log') = 0 /\ Len(audit') = 0
  BY <1>1
<1>4. DeskTyped(d)'
  BY <1>1, <1>2, FirstQueue DEF DeskTyped, Snaps, Desk!Idle, Desk!switches,
     Desk!DeskAssumption
<1>5. Desk(d)!TrailIsNewest'
  <2>1. Desk(d)!Told(0)' = 0
    BY FS_EmptySet DEF Desk!Told, Desk!Cardinality, Cardinality
  <2>2. MaxEvents[d] \in Nat
    BY DEF Desk!DeskAssumption
  <2> QED BY <1>1, <1>3, <2>1, <2>2 DEF Desk!TrailIsNewest
<1>6. Desk(d)!RequestsAgree' /\ Desk(d)!RequestsWereAnswered'
  <2>1. Desk(d)!approvalQueue' = Desk(d)!approvalQueue
    BY DEF Desk!approvalQueue, Desk!Item
  <2> QED
    BY <1>1, <1>3, <2>1, FirstQueue DEF Desk!RequestsAgree, Desk!RequestsWereAnswered, Unique
<1>7. Desk(d)!WrittenIsThere'
  BY <1>1, <1>2 DEF Desk!WrittenIsThere, Desk!Idle
<1> QED
  BY <1>3, <1>4, <1>5, <1>6, <1>7 DEF DeskInv, Desk!SwitchOutranksQueue,
     Desk!AllowedOnExactApproval

\* Every step of a desk.
LEMMA DeskSteps ==
  ASSUME NEW d \in Desks, Desk(d)!DeskAssumption, DeskInv(d), [Desk(d)!Next]_deskVars
  PROVE  DeskInv(d)'
<1>1. CASE Desk(d)!Next
  BY <1>1, CallKeeps, WriterKeeps, RestartKeeps DEF Desk!Next
<1>2. CASE UNCHANGED deskVars
  BY <1>2, MemoryStays DEF deskVars, DeskInv, DeskTyped, Desk!WrittenIsThere
<1> QED BY <1>1, <1>2

\* What the invariant says of the records, the switches and the approvals.
LEMMA DeskImplies ==
  ASSUME NEW d \in Desks, Desk(d)!DeskAssumption, DeskInv(d)
  PROVE  /\ Desk(d)!TypeOK /\ Desk(d)!RequestsAgree /\ Desk(d)!RequestsWereAnswered
         /\ Desk(d)!TrailIsNewest /\ Desk(d)!WrittenIsThere
         /\ Desk(d)!SwitchOutranksQueue /\ Desk(d)!AllowedOnExactApproval
<1>1. \A i \in DOMAIN queue : queue[i].status \in Desk(d)!Statuses
  <2>1. queue \in Seq(Items(d)) /\ DOMAIN queue = 1..Len(queue)
    BY DEF DeskInv, DeskTyped
  <2>2. \A i \in DOMAIN queue : queue[i] \in Items(d)
    BY <2>1
  <2> QED BY <2>2 DEF Items
<1>2. Len(audit) <= MaxEvents[d]
  BY DEF DeskInv, DeskTyped, Desk!TrailIsNewest, Desk!DeskAssumption
<1> QED BY <1>1, <1>2 DEF DeskInv, DeskTyped, Desk!TypeOK, Snaps

\* No step changes a file that is there.
LEMMA FilesStay ==
  ASSUME NEW d \in Desks, [Desk(d)!Next]_deskVars
  PROVE  Desk(d)!FilesKept
<1>1. CASE files' = files
  BY <1>1 DEF Desk!FilesKept
<1>2. ASSUME NEW w \in Writers[d], Desk(d)!WriteSnapshot(w)
      PROVE  Desk(d)!FilesKept
  BY <1>1, <1>2 DEF Desk!WriteSnapshot, Desk!Creates, Desk!FilesKept
<1> QED
  BY <1>1, <1>2 DEF Desk!Next, Desk!Call, Desk!Tick, Desk!Restart, Desk!BeginSnapshot, deskVars

-----------------------------------------------------------------------------
(***************************************************************************)
(* The ACP probe: the inductive invariant                                  *)
(***************************************************************************)
Reasons ==
  {"none", "agent_not_allowlisted", "invalid_spawn_adapter", "spawn_failed",
   "invalid_spawn_contract", "stdin_close_failed", "stdin_write_failed", "verified",
   "initialize_rejected", "invalid_stdout_frame", "invalid_stdout_json",
   "stdout_limit_exceeded", "stderr_limit_exceeded", "executable_not_found",
   "preflight_passed", "preflight_exit_nonzero", "preflight_signaled",
   "incomplete_stdout_frame", "exited_before_initialize", "timeout",
   "termination_unconfirmed"}
Drafts == [reason : Reasons, verified : BOOLEAN]

\* The verdict is open until an event decides, and is that event's from then on.
Decided ==
  /\ pc \in {"start", "listening"} => draft = Probe!NoDraft /\ first = Probe!NoDraft
  /\ pc \in {"sigterm", "sigkill"} => first = draft
  /\ pc = "start" => child = "none"
  /\ draft.verified => kind = "initialize"

ProbeInv ==
  /\ Probe!TypeOK /\ draft \in Drafts /\ first \in Drafts
  /\ report \in [reason : Reasons, verified : BOOLEAN, exited : BOOLEAN]
  /\ Decided
  /\ Probe!VerifiedMeansGone /\ Probe!FirstEventDecides /\ Probe!ExitReportTrue

-----------------------------------------------------------------------------
\* The promise resolves with the verdict, or withdraws it.
LEMMA Resolved ==
  ASSUME ProbeInv, pc # "resolved", NEW d \in Drafts, NEW exited \in BOOLEAN,
         Probe!Resolve(d, exited), first' = d, draft' = d, kind' = kind,
         d.verified => kind = "initialize",
         child' \in {"none", "running"} \union Probe!Exits,
         exited => child' \in Probe!Exits,
         closed' \in BOOLEAN, spawnErr' \in BOOLEAN, buffer' \in {"empty", "head"},
         outBytes' \in 0..MaxChunks, errBytes' \in 0..MaxChunks
  PROVE  ProbeInv'
<1>1. /\ pc' = "resolved" /\ resolutions' = 1
      /\ report' = IF d.verified /\ ~exited
                   THEN [reason |-> "termination_unconfirmed", verified |-> FALSE,
                         exited |-> exited]
                   ELSE [reason |-> d.reason, verified |-> d.verified, exited |-> exited]
  BY DEF Probe!Resolve, Probe!SafeDraft, ProbeInv, Probe!TypeOK
<1>2. report' \in [reason : Reasons, verified : BOOLEAN, exited : BOOLEAN]
  BY <1>1 DEF Reasons, Drafts
<1>3. Probe!TypeOK'
  BY <1>1 DEF ProbeInv, Probe!TypeOK
<1>4. Decided'
  BY <1>1 DEF Decided
<1>5. report'.verified => d.verified /\ exited
  BY <1>1, <1>2
<1>6. Probe!VerifiedMeansGone'
  BY <1>1, <1>5 DEF Probe!VerifiedMeansGone, Probe!Exits
<1>7. Probe!FirstEventDecides'
  BY <1>1 DEF Probe!FirstEventDecides
<1>8. Probe!ExitReportTrue'
  BY <1>1 DEF Probe!ExitReportTrue, Probe!Exits
<1> QED BY <1>2, <1>3, <1>4, <1>6, <1>7, <1>8 DEF ProbeInv

\* What an event leaves of the invariant: the types of what it touches itself.
EventTypes ==
  /\ kind' = kind /\ child' \in {"none", "running"} \union Probe!Exits
  /\ closed' \in BOOLEAN /\ spawnErr' \in BOOLEAN /\ buffer' \in {"empty", "head"}
  /\ outBytes' \in 0..MaxChunks /\ errBytes' \in 0..MaxChunks

\* A step that leaves the verdict alone.
LEMMA Unmoved ==
  ASSUME ProbeInv, EventTypes, UNCHANGED <<draft, report, resolutions, first>>,
         \/ pc' = pc /\ (pc = "start" => child' = child)
         \/ pc = "sigterm" /\ pc' = "sigkill"
         \/ pc = "start" /\ pc' = "listening",
         pc = "resolved" => child' = child \/ child' \in Probe!Exits
  PROVE  ProbeInv'
<1>1. Probe!TypeOK' /\ Decided'
  BY DEF EventTypes, ProbeInv, Probe!TypeOK, Decided
<1>2. /\ Probe!VerifiedMeansGone' /\ Probe!FirstEventDecides' /\ Probe!ExitReportTrue'
  BY DEF EventTypes, ProbeInv, Probe!VerifiedMeansGone, Probe!FirstEventDecides,
     Probe!ExitReportTrue, Probe!Exits
<1> QED BY <1>1, <1>2 DEF ProbeInv

\* An event that calls finalize.
LEMMA Finalized ==
  ASSUME ProbeInv, EventTypes, NEW d \in Drafts, NEW terminates \in BOOLEAN,
         Probe!finalize(d, terminates), pc \in {"listening", "sigterm", "sigkill"},
         d.verified => kind = "initialize",
         child' = child \/ child' \in Probe!Exits,
         ~terminates => child' \in Probe!Exits
  PROVE  ProbeInv'
<1>1. CASE pc # "listening"
  BY <1>1, Unmoved DEF Probe!finalize, Probe!CanFinalize
<1>2. CASE pc = "listening" /\ terminates /\ Probe!NeedsTermination
  <2>1. /\ pc' = "sigterm" /\ draft' = d /\ first' = d
        /\ UNCHANGED <<report, resolutions>>
    BY <1>2 DEF Probe!finalize, Probe!CanFinalize, ProbeInv, Decided
  <2>2. Probe!TypeOK' /\ Decided'
    BY <1>2, <2>1 DEF EventTypes, ProbeInv, Probe!TypeOK, Decided
  <2> QED
    BY <2>1, <2>2 DEF ProbeInv, Probe!VerifiedMeansGone, Probe!FirstEventDecides,
       Probe!ExitReportTrue
<1>3. CASE pc = "listening" /\ ~(terminates /\ Probe!NeedsTermination)
  <2>1. draft' = d /\ first' = d /\ Probe!Resolve(d, TRUE)
    BY <1>3 DEF Probe!finalize, Probe!CanFinalize, ProbeInv, Decided
  <2>2. child' \in Probe!Exits
    BY <1>3 DEF Probe!NeedsTermination, Probe!hasExited
  <2> QED BY <1>3, <2>1, <2>2, Resolved DEF EventTypes
<1> QED BY <1>1, <1>2, <1>3

\* A failure claims no handshake.
LEMMA FailsUnverified ==
  ASSUME NEW reason \in Reasons
  PROVE  Probe!Fail(reason) \in Drafts /\ ~Probe!Fail(reason).verified
BY DEF Probe!Fail, Drafts

\* The beginning: refusals, a spawn, and what may fail at it.
LEMMA SpawnKeeps ==
  ASSUME ProbeInv,
         Probe!Refuse \/ Probe!SpawnThrows \/ Probe!SpawnWithoutPipes \/ Probe!Spawn
  PROVE  ProbeInv'
<1>1. ASSUME NEW reason \in Reasons, pc = "start", Probe!Answered(reason)
      PROVE  ProbeInv'
  <2>1. /\ pc' = "resolved" /\ resolutions' = 1
        /\ report' = [reason |-> reason, verified |-> FALSE, exited |-> TRUE]
        /\ draft' = Probe!Fail(reason) /\ first' = Probe!Fail(reason)
        /\ UNCHANGED <<kind, child, closed, spawnErr, buffer, outBytes, errBytes>>
    BY <1>1 DEF Probe!Answered
  <2>2. child = "none"
    BY <1>1 DEF ProbeInv, Decided
  <2>3. Probe!TypeOK'
    BY <2>1 DEF ProbeInv, Probe!TypeOK
  <2> QED
    BY <2>1, <2>2, <2>3, FailsUnverified DEF ProbeInv, Decided, Probe!Fail,
       Probe!VerifiedMeansGone, Probe!FirstEventDecides, Probe!ExitReportTrue
<1>2. ASSUME NEW reason \in Reasons, pc = "start", pc' = "sigterm",
             draft' = Probe!Fail(reason), first' = draft', kind' = kind,
             child' \in {"none", "running"}, spawnErr' \in BOOLEAN,
             UNCHANGED <<closed, buffer, outBytes, errBytes, report, resolutions>>
      PROVE  ProbeInv'
  <2>1. Probe!TypeOK'
    BY <1>2 DEF ProbeInv, Probe!TypeOK
  <2> QED
    BY <1>2, <2>1, FailsUnverified DEF ProbeInv, Decided, Probe!Fail,
       Probe!VerifiedMeansGone, Probe!FirstEventDecides, Probe!ExitReportTrue
<1>3. CASE Probe!Refuse \/ Probe!SpawnThrows
  BY <1>1, <1>3 DEF Probe!Refuse, Probe!SpawnThrows, Reasons
<1>4. CASE Probe!SpawnWithoutPipes
  <2>1. spawnErr' \in BOOLEAN
    BY <1>4 DEF Probe!SpawnWithoutPipes, ProbeInv, Probe!TypeOK
  <2> QED BY <1>2, <1>4, <2>1 DEF Probe!SpawnWithoutPipes, Reasons
<1>5. CASE Probe!Spawn
  <2>1. child' \in {"none", "running"} /\ spawnErr' \in BOOLEAN /\ pc = "start"
        /\ UNCHANGED <<kind, closed, buffer, outBytes, errBytes, report, resolutions>>
    BY <1>5 DEF Probe!Spawn
  <2>2. CASE pc' = "listening" /\ UNCHANGED <<draft, first>>
    <3>1. EventTypes
      BY <2>1 DEF EventTypes, ProbeInv, Probe!TypeOK
    <3> QED BY <2>1, <2>2, <3>1, Unmoved
  <2>3. CASE /\ pc' = "sigterm" /\ first' = draft'
             /\ draft' = Probe!Fail(IF kind = "preflight" THEN "stdin_close_failed"
                                    ELSE "stdin_write_failed")
    BY <1>2, <2>1, <2>3 DEF Reasons
  <2> QED BY <1>5, <2>2, <2>3 DEF Probe!Spawn
<1> QED BY <1>3, <1>4, <1>5

\* Output of the child.
LEMMA OutputKeeps ==
  ASSUME Probe!ProbeAssumption, ProbeInv,
         Probe!OnStderr \/ \E c \in Probe!Chunks : Probe!OnStdout(c)
  PROVE  ProbeInv'
<1>1. CASE Probe!OnStderr
  <2>1. EventTypes /\ child' = child /\ pc \in {"listening", "sigterm", "sigkill"}
    BY <1>1 DEF Probe!OnStderr, Probe!Attached, EventTypes, ProbeInv, Probe!TypeOK,
       Probe!ProbeAssumption
  <2>2. CASE Probe!finalize(Probe!Fail("stderr_limit_exceeded"), TRUE)
    <3>1. Probe!Fail("stderr_limit_exceeded") \in Drafts
          /\ ~Probe!Fail("stderr_limit_exceeded").verified
      BY FailsUnverified DEF Reasons
    <3> QED BY <2>1, <2>2, <3>1, Finalized
  <2>3. CASE UNCHANGED <<pc, draft, report, resolutions, first>>
    BY <2>1, <2>3, Unmoved
  <2> QED BY <1>1, <2>2, <2>3 DEF Probe!OnStderr
<1>2. ASSUME NEW c \in Probe!Chunks, Probe!OnStdout(c) PROVE ProbeInv'
  <2>1. EventTypes /\ child' = child /\ pc \in {"listening", "sigterm", "sigkill"}
    <3>1. /\ pc \in {"listening", "sigterm", "sigkill"} /\ outBytes < MaxChunks
          /\ outBytes' = outBytes + 1 /\ UNCHANGED <<kind, child, closed, spawnErr, errBytes>>
      BY <1>2 DEF Probe!OnStdout, Probe!Attached
    <3>2. buffer' \in {buffer, "head", "empty"}
      BY <1>2, Zenon DEF Probe!OnStdout
    <3> QED
      BY <3>1, <3>2 DEF EventTypes, ProbeInv, Probe!TypeOK, Probe!ProbeAssumption
  <2>2. CASE Probe!finalize(Probe!Fail("stdout_limit_exceeded"), TRUE)
    <3>1. Probe!Fail("stdout_limit_exceeded") \in Drafts
          /\ ~Probe!Fail("stdout_limit_exceeded").verified
      BY FailsUnverified DEF Reasons
    <3> QED BY <2>1, <2>2, <3>1, Finalized
  <2>3. CASE UNCHANGED <<pc, draft, report, resolutions, first>>
    BY <2>1, <2>3, Unmoved
  <2>4. CASE kind # "preflight" /\ Probe!finalize(Probe!Verdict(Probe!Completed(c)), TRUE)
    <3>1. kind = "initialize"
      BY <2>4 DEF ProbeInv, Probe!TypeOK, Probe!ProbeAssumption
    <3>2. Probe!Verdict(Probe!Completed(c)) \in Drafts
      BY DEF Probe!Verdict, Probe!Fail, Drafts, Reasons
    <3> QED BY <2>1, <2>4, <3>1, <3>2, Finalized
  <2> QED BY <1>2, <2>2, <2>3, <2>4 DEF Probe!OnStdout
<1> QED BY <1>1, <1>2

\* The child's end and the timers.
LEMMA EndKeeps ==
  ASSUME ProbeInv,
         Probe!OnError \/ Probe!OnClose \/ Probe!OnTimeout \/ Probe!OnGrace
         \/ Probe!ChildExits \/ Probe!Done
  PROVE  ProbeInv'
<1>1. EventTypes /\ (child' = child \/ child' \in Probe!Exits)
  BY DEF EventTypes, ProbeInv, Probe!TypeOK, Probe!OnError, Probe!OnClose, Probe!OnTimeout,
     Probe!OnGrace, Probe!ChildExits, Probe!Done, Probe!Exits, Probe!vars
<1>2. CASE Probe!OnError
  <2>1. Probe!Fail("executable_not_found") \in Drafts
        /\ ~Probe!Fail("executable_not_found").verified
    BY FailsUnverified DEF Reasons
  <2>2. child' \in Probe!Exits
    BY <1>2 DEF Probe!OnError, Probe!Exits
  <2> QED BY <1>1, <1>2, <2>1, <2>2, Finalized DEF Probe!OnError, Probe!Attached
<1>3. CASE Probe!OnClose
  <2>1. child' \in Probe!Exits /\ child' = child
    BY <1>3 DEF Probe!OnClose, Probe!hasExited
  <2>2. CASE pc \in {"sigterm", "sigkill"}
    <3>1. Probe!Resolve(draft, TRUE) /\ UNCHANGED <<draft, first>>
      BY <1>3, <2>2 DEF Probe!OnClose
    <3>2. draft \in Drafts /\ first = draft /\ (draft.verified => kind = "initialize")
      BY <2>2 DEF ProbeInv, Decided
    <3> QED BY <1>1, <2>1, <2>2, <3>1, <3>2, Resolved DEF EventTypes
  <2>3. CASE pc = "listening"
    <3>1. PICK reason \in Reasons : Probe!finalize(Probe!Fail(reason), FALSE)
      BY <1>3, <2>3 DEF Probe!OnClose, Reasons
    <3>2. Probe!Fail(reason) \in Drafts /\ ~Probe!Fail(reason).verified
      BY FailsUnverified
    <3> QED BY <1>1, <2>1, <2>3, <3>1, <3>2, Finalized
  <2> QED BY <1>3, <2>2, <2>3 DEF Probe!OnClose
<1>4. CASE Probe!OnTimeout
  <2>1. Probe!Fail("timeout") \in Drafts /\ ~Probe!Fail("timeout").verified
    BY FailsUnverified DEF Reasons
  <2> QED BY <1>1, <1>4, <2>1, Finalized DEF Probe!OnTimeout
<1>5. CASE Probe!OnGrace
  <2>1. pc \in {"sigterm", "sigkill"} /\ UNCHANGED <<draft, first, child>>
    BY <1>5 DEF Probe!OnGrace, Probe!GraceRuns
  <2>2. CASE Probe!Resolve(draft, Probe!hasExited)
    <3>1. draft \in Drafts /\ first = draft /\ (draft.verified => kind = "initialize")
      BY <2>1 DEF ProbeInv, Decided
    <3>2. Probe!hasExited \in BOOLEAN /\ (Probe!hasExited => child' \in Probe!Exits)
      BY <2>1 DEF Probe!hasExited
    <3> HIDE DEF Probe!hasExited
    <3> QED BY <1>1, <2>1, <2>2, <3>1, <3>2, Resolved DEF EventTypes
  <2>3. CASE pc = "sigterm" /\ pc' = "sigkill" /\ UNCHANGED <<report, resolutions>>
    BY <1>1, <2>1, <2>3, Unmoved
  <2> QED BY <1>5, <2>1, <2>2, <2>3 DEF Probe!OnGrace
<1>6. CASE Probe!ChildExits
  <2>1. pc # "start"
    BY <1>6 DEF Probe!ChildExits, ProbeInv, Decided
  <2> QED BY <1>1, <1>6, <2>1, Unmoved DEF Probe!ChildExits
<1>7. CASE Probe!Done
  BY <1>1, <1>7, Unmoved DEF Probe!Done, Probe!vars
<1> QED BY <1>2, <1>3, <1>4, <1>5, <1>6, <1>7

\* A probe that is not begun has no verdict.
LEMMA ProbeStarts ==
  ASSUME Probe!ProbeAssumption
  PROVE  Probe!Init => ProbeInv
<1> SUFFICES ASSUME Probe!Init PROVE ProbeInv
  OBVIOUS
<1>1. /\ draft = [reason |-> "none", verified |-> FALSE] /\ first = draft
      /\ report = [reason |-> "none", verified |-> FALSE, exited |-> FALSE] /\ pc = "start"
      /\ child = "none"
  BY DEF Probe!Init, Probe!NoDraft, Probe!NoReport
<1>2. Probe!TypeOK
  <2>1. closed \in BOOLEAN /\ spawnErr \in BOOLEAN
    BY DEF Probe!Init
  <2>2. /\ pc = "start" /\ kind \in Kinds /\ child = "none" /\ buffer = "empty"
        /\ outBytes \in 0..MaxChunks /\ errBytes \in 0..MaxChunks /\ resolutions = 0
    BY DEF Probe!Init, Probe!ProbeAssumption
  <2> QED BY <2>1, <2>2 DEF Probe!TypeOK
<1>3. /\ draft \in Drafts /\ first \in Drafts
      /\ report \in [reason : Reasons, verified : BOOLEAN, exited : BOOLEAN]
  BY <1>1 DEF Drafts, Reasons
<1>4. Decided
  BY <1>1 DEF Decided, Probe!NoDraft
<1> QED
  BY <1>1, <1>2, <1>3, <1>4 DEF ProbeInv, Probe!VerifiedMeansGone, Probe!FirstEventDecides,
     Probe!ExitReportTrue

\* Every event of a probe, its child and its timer.
LEMMA ProbeSteps ==
  ASSUME Probe!ProbeAssumption
  PROVE  ProbeInv /\ [Probe!Next]_Probe!vars => ProbeInv'
<1> SUFFICES ASSUME ProbeInv, [Probe!Next]_Probe!vars PROVE ProbeInv'
  OBVIOUS
<1>1. CASE Probe!Next
  BY <1>1, SpawnKeeps, OutputKeeps, EndKeeps DEF Probe!Next
<1>2. CASE UNCHANGED Probe!vars
  BY <1>2, EndKeeps, Unmoved DEF Probe!vars, EventTypes, ProbeInv, Probe!TypeOK
<1> QED BY <1>1, <1>2

-----------------------------------------------------------------------------
(***************************************************************************)
(* The seller guard: the inductive invariant                               *)
(***************************************************************************)
Outcomes ==
  {"seller_page_unavailable", "seller_page_changed", "seller_page_context_invalid",
   "seller_page_context_stale", "bearer_token_missing", "control_api_token_not_configured",
   "control_api_unavailable"}
PressSteps == {"idle", "capture", "recheck", "store", "posted", "done"}
PressRecords ==
  [pc : PressSteps, tab : Tabs \union {None}, page : Pages \union {None},
   snap : Guard!Snapshot \union {None}, outcome : Outcomes \union {None}]

\* A press knows the tab and page it found, and then a snapshot of that tab.
Captured(r) ==
  /\ req[r].pc \in {"capture", "recheck", "store", "posted"} =>
       req[r].tab \in Tabs /\ req[r].page \in Pages
  /\ req[r].pc \in {"recheck", "store", "posted"} =>
       req[r].snap \in Guard!Snapshot /\ req[r].snap.tab = req[r].tab

\* What is posted is of the route on screen at the check, and fresh.
OnScreen(s) ==
  /\ s.snap.tab = s.active /\ s.snap.route = pathname[s.shown]
  /\ s.checked - s.snap.at <= MaxAge

GuardInv ==
  /\ url \in [Tabs -> Pages \union {Elsewhere}] /\ active \in Tabs
  /\ clock \in 0..MaxNow /\ stored \in Guard!Snapshot \union {None}
  /\ req \in [Presses -> PressRecords]
  /\ \A r \in Presses : Captured(r)
  /\ Guard!PostedRouteOnScreen

-----------------------------------------------------------------------------
\* A step of one press.
LEMMA PressMoves ==
  ASSUME GuardInv, NEW r \in Presses, NEW after \in PressRecords,
         req' = [req EXCEPT ![r] = after], UNCHANGED <<url, active, clock>>,
         stored' \in Guard!Snapshot \union {None},
         after.pc \in {"capture", "recheck", "store", "posted"} =>
           after.tab \in Tabs /\ after.page \in Pages,
         after.pc \in {"recheck", "store", "posted"} =>
           after.snap \in Guard!Snapshot /\ after.snap.tab = after.tab,
         \A s \in sent' : s \in sent \/ OnScreen(s)
  PROVE  GuardInv'
<1>1. req' \in [Presses -> PressRecords]
  BY DEF GuardInv
<1>2. \A p \in Presses : Captured(p)'
  BY DEF GuardInv, Captured
<1>3. Guard!PostedRouteOnScreen'
  BY DEF GuardInv, Guard!PostedRouteOnScreen, OnScreen
<1> QED BY <1>1, <1>2, <1>3 DEF GuardInv

\* A press moves from one await to the next.
LEMMA PressKeeps ==
  ASSUME Guard!GuardAssumption, GuardInv, NEW r \in Presses, Guard!Step(r)
  PROVE  GuardInv'
<1>1. /\ req \in [Presses -> PressRecords] /\ req[r] \in PressRecords /\ Captured(r)
      /\ stored \in Guard!Snapshot \union {None}
  BY DEF GuardInv
<1>2. ASSUME NEW why \in Outcomes, Guard!Stop(r, why), UNCHANGED <<url, active, clock>>,
             stored' = stored, sent' = sent
      PROVE  GuardInv'
  <2> DEFINE after == [req[r] EXCEPT !.pc = "done", !.outcome = why]
  <2>1. after \in PressRecords /\ after.pc = "done"
    BY <1>1 DEF PressRecords, PressSteps
  <2>2. req' = [req EXCEPT ![r] = after]
    BY <1>1, <1>2 DEF Guard!Stop
  <2> HIDE DEF after
  <2> QED BY <1>1, <1>2, <2>1, <2>2, PressMoves
<1>3. CASE Guard!FirstQuery(r)
  <2>1. CASE url[active] \in Pages
    <3> DEFINE after == [req[r] EXCEPT !.pc = "capture", !.tab = active, !.page = url[active]]
    <3>1. after \in PressRecords /\ after.pc = "capture" /\ after.tab = active
          /\ after.page = url[active] /\ active \in Tabs
      BY <1>1, <2>1 DEF PressRecords, PressSteps, GuardInv
    <3>2. req' = [req EXCEPT ![r] = after]
          /\ UNCHANGED <<url, active, clock, gate, stored, sent>>
      BY <1>1, <1>3, <2>1 DEF Guard!FirstQuery
    <3> HIDE DEF after
    <3> QED BY <1>1, <2>1, <3>1, <3>2, PressMoves
  <2>2. CASE url[active] \notin Pages
    BY <1>2, <1>3, <2>2 DEF Guard!FirstQuery, Outcomes
  <2> QED BY <2>1, <2>2
<1>4. CASE Guard!Capture(r)
  <2>1. req[r].pc = "capture" /\ req[r].tab \in Tabs /\ req[r].page \in Pages
        /\ UNCHANGED <<url, active, clock, gate, sent>>
    BY <1>1, <1>4 DEF Guard!Capture, Captured
  <2>2. CASE url[req[r].tab] \in Pages
    <3> DEFINE snap == Guard!buildSnapshot(req[r].tab, url[req[r].tab])
               after == [req[r] EXCEPT !.pc = "recheck", !.snap = snap]
    <3>1. snap \in Guard!Snapshot /\ snap.tab = req[r].tab
      BY <2>1, <2>2 DEF Guard!buildSnapshot, Guard!Snapshot, Guard!Routes, GuardInv
    <3>2. req' = [req EXCEPT ![r] = after] /\ stored' = snap
      BY <1>1, <1>4, <2>2 DEF Guard!Capture
    <3> HIDE DEF snap
    <3>3. after \in PressRecords /\ after.pc = "recheck" /\ after.tab = req[r].tab
          /\ after.page = req[r].page /\ after.snap = snap
      BY <1>1, <3>1 DEF PressRecords, PressSteps
    <3> HIDE DEF after
    <3> QED BY <2>1, <3>1, <3>2, <3>3, PressMoves
  <2>3. CASE url[req[r].tab] \notin Pages
    BY <1>2, <1>4, <2>3 DEF Guard!Capture, Outcomes
  <2> QED BY <2>2, <2>3
<1>5. CASE Guard!Recheck(r)
  <2>1. /\ req[r].pc = "recheck" /\ req[r].tab \in Tabs /\ req[r].page \in Pages
        /\ req[r].snap \in Guard!Snapshot /\ req[r].snap.tab = req[r].tab
        /\ UNCHANGED <<url, active, clock, gate, stored>>
    BY <1>1, <1>5 DEF Guard!Recheck, Captured
  <2>2. ASSUME NEW why \in Outcomes, Guard!Stop(r, why) PROVE GuardInv'
    <3>1. req'[r].pc = "done"
      BY <1>1, <2>2 DEF Guard!Stop, PressRecords
    <3>2. sent' = sent
      BY <1>5, <3>1 DEF Guard!Recheck
    <3> QED BY <1>2, <2>1, <2>2, <3>2
  <2>3. CASE /\ url[active] \in Pages /\ Guard!SamePage(r) /\ Guard!RouteMatches(r)
             /\ Guard!Fresh(r) /\ req' = [req EXCEPT ![r].pc = "store"]
    <3> DEFINE after == [req[r] EXCEPT !.pc = "store"]
    <3>1. after \in PressRecords /\ after.pc = "store" /\ after.tab = req[r].tab
          /\ after.page = req[r].page /\ after.snap = req[r].snap
      BY <1>1 DEF PressRecords, PressSteps
    <3>2. req' = [req EXCEPT ![r] = after]
      BY <1>1, <2>3
    <3> HIDE DEF after
    <3>3. sent' = sent \union {[snap |-> req[r].snap, active |-> active,
                               shown |-> url[active], checked |-> clock]}
      BY <1>1, <1>5, <3>1, <3>2 DEF Guard!Recheck
    <3>4. /\ req[r].snap.tab = active /\ req[r].snap.route = pathname[url[active]]
          /\ clock - req[r].snap.at <= MaxAge
      BY <2>1, <2>3 DEF Guard!SamePage, Guard!RouteMatches, Guard!Fresh
    <3>5. \A s \in sent' : s \in sent \/ OnScreen(s)
      BY <3>3, <3>4 DEF OnScreen
    <3> QED BY <1>1, <2>1, <3>1, <3>2, <3>5, PressMoves
  <2> QED BY <1>5, <2>2, <2>3 DEF Guard!Recheck, Outcomes
<1>6. CASE Guard!StoreAndPost(r)
  <2> DEFINE after == [req[r] EXCEPT !.pc = "posted"]
  <2>1. after \in PressRecords /\ after.pc = "posted" /\ after.tab = req[r].tab
        /\ after.page = req[r].page /\ after.snap = req[r].snap
    BY <1>1 DEF PressRecords, PressSteps
  <2>2. req' = [req EXCEPT ![r] = after] /\ req[r].pc = "store" /\ stored' = req[r].snap
        /\ UNCHANGED <<url, active, clock, gate, sent>>
    BY <1>1, <1>6 DEF Guard!StoreAndPost
  <2> HIDE DEF after
  <2> QED BY <1>1, <2>1, <2>2, PressMoves DEF Captured
<1>7. CASE Guard!ControlApi(r)
  BY <1>2, <1>7 DEF Guard!ControlApi, Outcomes
<1>8. CASE Guard!Unreachable(r)
  BY <1>2, <1>8 DEF Guard!Unreachable, Outcomes
<1> QED BY <1>3, <1>4, <1>5, <1>6, <1>7, <1>8 DEF Guard!Step

\* The user, content scripts and time.
LEMMA ScreenKeeps ==
  ASSUME Guard!GuardAssumption, GuardInv,
         \/ Guard!Tick
         \/ \E t \in Tabs : \/ Guard!SwitchTab(t)
                          \/ \E p \in Pages \union {Elsewhere} : Guard!Navigate(t, p)
  PROVE  GuardInv'
<1>1. req' = req /\ sent' = sent
  BY DEF Guard!Tick, Guard!SwitchTab, Guard!Navigate
<1>2. /\ \A r \in Presses : Captured(r)'
      /\ Guard!PostedRouteOnScreen'
  BY <1>1 DEF GuardInv, Captured, Guard!PostedRouteOnScreen
<1>3. CASE Guard!Tick
  BY <1>1, <1>2, <1>3 DEF Guard!Tick, GuardInv, Guard!GuardAssumption
<1>4. ASSUME NEW t \in Tabs, Guard!SwitchTab(t) PROVE GuardInv'
  BY <1>1, <1>2, <1>4 DEF Guard!SwitchTab, GuardInv
<1>5. ASSUME NEW t \in Tabs, NEW p \in Pages \union {Elsewhere}, Guard!Navigate(t, p)
      PROVE  GuardInv'
  BY <1>1, <1>2, <1>5 DEF Guard!Navigate, Guard!Reports, Guard!buildSnapshot, GuardInv,
     Guard!Snapshot, Guard!Routes
<1> QED BY <1>3, <1>4, <1>5

\* Every step of the presses and of the tabs around them.
LEMMA GuardSteps ==
  ASSUME Guard!GuardAssumption
  PROVE  GuardInv /\ [Guard!Next]_Guard!vars => GuardInv'
<1> SUFFICES ASSUME GuardInv, [Guard!Next]_Guard!vars PROVE GuardInv'
  OBVIOUS
<1>1. CASE Guard!Next
  BY <1>1, PressKeeps, ScreenKeeps DEF Guard!Next
<1>2. CASE UNCHANGED Guard!vars
  BY <1>2 DEF Guard!vars, GuardInv, Captured, Guard!PostedRouteOnScreen
<1> QED BY <1>1, <1>2

\* At first nobody has pressed.
LEMMA GuardStarts ==
  ASSUME Guard!GuardAssumption
  PROVE  Guard!Init => GuardInv
BY DEF Guard!GuardAssumption, Guard!Init, Guard!Idle, GuardInv, PressRecords, PressSteps,
   Captured, Guard!PostedRouteOnScreen

\* The invariant gives the types and the property.
LEMMA GuardImplies == GuardInv => Guard!TypeOK /\ Guard!PostedRouteOnScreen
BY DEF GuardInv, Guard!TypeOK, PressRecords, PressSteps

-----------------------------------------------------------------------------
(***************************************************************************)
(* The composed parts                                                      *)
(***************************************************************************)

\* A part moves by its own steps, or another part moves and it rests; a desk
\* keeps its setting.
LEMMA PartsStep ==
  ASSUME [ApiNext]_apiVars
  PROVE  /\ desk' = desk /\ [Next]_vars
         /\ \A d \in Desks : desk = d => [Desk(d)!Next]_deskVars
         /\ [Probe!Next]_Probe!vars /\ [Guard!Next]_Guard!vars
<1> USE DEF Probe!vars, Guard!vars
<1>1. CASE UNCHANGED apiVars
  BY <1>1, Zenon DEF apiVars, deskVars, probeVars, guardVars
<1>2. CASE part = "workflow" /\ Next /\ UNCHANGED <<deskVars, probeVars, guardVars>>
           /\ UNCHANGED <<part, desk>>
  BY <1>2, Zenon DEF probeVars, guardVars
<1>3. CASE /\ \E d \in Desks : desk = d /\ Desk(d)!Next
           /\ UNCHANGED <<vars, probeVars, guardVars>> /\ UNCHANGED <<part, desk>>
  BY <1>3, Zenon DEF probeVars, guardVars
<1>4. CASE /\ Probe!Next /\ UNCHANGED <<vars, deskVars, guardVars>>
           /\ UNCHANGED <<part, desk>>
  BY <1>4, Zenon DEF guardVars
<1>5. CASE /\ Guard!Next /\ UNCHANGED <<vars, deskVars, probeVars>>
           /\ UNCHANGED <<part, desk>>
  BY <1>5, Zenon DEF probeVars
<1> QED BY <1>1, <1>2, <1>3, <1>4, <1>5, Zenon DEF ApiNext

\* In the composition each part behaves as it does alone, fairness aside.
LEMMA PartsBehave ==
  ApiSpec => /\ Spec
             /\ Probe!Init /\ [][Probe!Next]_Probe!vars
             /\ Guard!Init /\ [][Guard!Next]_Guard!vars
<1>1. ApiInit => Init /\ Probe!Init /\ Guard!Init
  BY DEF ApiInit
<1>2. [ApiNext]_apiVars => [Next]_vars /\ [Probe!Next]_Probe!vars /\ [Guard!Next]_Guard!vars
  BY PartsStep
<1> QED BY <1>1, <1>2, PTL DEF ApiSpec, Spec

\* The setting of the desk is one of those there are, and its invariant holds.
DesksInv == \A d \in Desks : desk = d => DeskInv(d)

\* In the composition every desk keeps the invariant of its setting.
LEMMA DesksBehave == ApiSpec => []DesksInv
<1>1. ApiInit => DesksInv
  BY DeskStarts, ControlApiAssumption DEF ApiInit, DesksInv
<1>2. DesksInv /\ [ApiNext]_apiVars => DesksInv'
  <2> SUFFICES ASSUME DesksInv, [ApiNext]_apiVars, NEW d \in Desks, desk' = d
               PROVE  DeskInv(d)'
    BY DEF DesksInv
  <2>1. desk = d /\ [Desk(d)!Next]_deskVars
    BY PartsStep
  <2> QED BY <2>1, DeskSteps, ControlApiAssumption DEF DesksInv
<1> QED BY <1>1, <1>2, PTL DEF ApiSpec

\* The queue, its trail and the evidence files say what happened, whatever
\* routes feed them, restarts included (ensureApprovalRequest,
\* recordAuditEvent, saveApprovalEvidence).
THEOREM RecordsHold == ApiSpec => []RecordsTruthful
<1>1. DesksInv => RecordsTruthful
  BY DeskImplies, ControlApiAssumption DEF DesksInv, RecordsTruthful
<1> QED BY <1>1, DesksBehave, PTL

\* No dry run gets past a switch that is off, and no external action past the
\* approval of its exact target (the dry run of an action, evaluatePolicy).
THEOREM ApprovalsHold == ApiSpec => []NothingUnapproved
<1>1. DesksInv => NothingUnapproved
  BY DeskImplies, ControlApiAssumption DEF DesksInv, NothingUnapproved
<1> QED BY <1>1, DesksBehave, PTL

\* No step rewrites an evidence file, of however many requests in one second
\* (flag wx).
THEOREM SnapshotsStay == ApiSpec => SnapshotImmutable
<1>1. ApiInit => desk \in Desks
  BY DEF ApiInit
<1>2. desk \in Desks /\ [ApiNext]_apiVars => (desk \in Desks)'
  BY PartsStep
<1>3. desk \in Desks /\ [ApiNext]_apiVars => [FilesKept]_files
  BY PartsStep, FilesStay DEF FilesKept, Desk!FilesKept
<1> QED BY <1>1, <1>2, <1>3, PTL DEF ApiSpec, SnapshotImmutable

\* The verdict of a probe is that of the first event that decides, and claims
\* nothing of the child that is not so (finalize, waitForExit).
THEOREM ProbesHold == ApiSpec => []ProbeTruthful
<1>1. ProbeInv => ProbeTruthful
  BY DEF ProbeInv, ProbeTruthful
<1>2. Probe!Init => ProbeInv
  BY ProbeStarts, ControlApiAssumption
<1>3. ProbeInv /\ [Probe!Next]_Probe!vars => ProbeInv'
  BY ProbeSteps, ControlApiAssumption
<1> QED BY <1>1, <1>2, <1>3, PartsBehave, PTL

\* What the extension posts is of the active tab and of the route on screen at
\* the check, and fresh (startLocalWorkflowDryRun).
THEOREM PostsHold == ApiSpec => []PostedRouteOnScreen
<1>1. GuardInv => PostedRouteOnScreen
  BY GuardImplies DEF PostedRouteOnScreen
<1>2. Guard!Init => GuardInv
  BY GuardStarts, ControlApiAssumption
<1>3. GuardInv /\ [Guard!Next]_Guard!vars => GuardInv'
  BY GuardSteps, ControlApiAssumption
<1> QED BY <1>1, <1>2, <1>3, PartsBehave, PTL

\* The theorems of the workflow hold in the composition.
THEOREM WorkflowHolds == ApiSpec => [](ReadyMeansReviewed /\ ApprovalNeedsReview)
BY PartsBehave, ReadyIsReviewed, ApprovalsNeedReviews, PTL
=============================================================================
