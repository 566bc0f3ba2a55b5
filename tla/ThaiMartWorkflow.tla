--------------------------- MODULE ThaiMartWorkflow ---------------------------
(***************************************************************************)
(* The ThaiMart listing workflow:                                          *)
(* services/dev-control-api/src/thaimart-k-workflow-engine.mjs.  The       *)
(* engine keeps nothing: a client holds the workflow it was last answered  *)
(* with, edits its source and context between calls, and sends it back     *)
(* with an event.  A client may hold several copies (two windows, a lost   *)
(* answer) and go on from any of them.                                     *)
(***************************************************************************)
EXTENDS Naturals

CONSTANTS
  Slots,     \* copies of the workflow held by clients
  Sources,   \* source snapshots, told apart by their digest
  Contexts,  \* context versions
  NoSource,  \* an UNBOUND workflow's source
  Unbound,   \* the context version "unbound"
  NoBinding

ASSUME WorkflowAssumption ==
  /\ Slots # {}
  /\ NoSource \notin Sources /\ Unbound \notin Contexts
  /\ NoBinding \notin [context : Contexts \union {Unbound},
                       source : Sources \union {NoSource}]

VARIABLES
  held,  \* the workflow in each slot
  good   \* ghost: the slots whose workflow the engine answered, unedited

vars == <<held, good>>

workflowStates ==
  {"INTAKE", "CONTEXT_LOCKED", "PLANNED", "DRAFTED", "CHANNEL_ADAPTED",
   "QA1_REVIEW", "QA2_REVIEW", "WAITING_APPROVAL", "READY_TO_APPLY", "APPLIED",
   "MONITORING", "REPORTED", "ARCHIVED", "REJECTED", "BLOCKED", "FAILED"}

AllSources == Sources \union {NoSource}
AllContexts == Contexts \union {Unbound}

(* currentSource *)
currentSource(w) == [context |-> w.context, source |-> w.source]
Bindings == [context : AllContexts, source : AllSources]

(* passes is a ghost: what each QA pass since the last submission saw.     *)
Create(c, s) ==
  [state |-> "INTAKE", context |-> c, source |-> s,
   review |-> NoBinding, approval |-> NoBinding, passes |-> {}]

Init == /\ \E c \in AllContexts, s \in AllSources :
             held = [k \in Slots |-> Create(c, s)]
        /\ good = Slots

-----------------------------------------------------------------------------
externalApplyEvents == {"apply", "publish", "price_write", "stock_write", "order_write"}

(* blockedExternalApply, before anything else is looked at.                *)
blockedExternalApply(w) == [w EXCEPT !.state = "BLOCKED"]

transitions ==
  {<<"INTAKE", "lock_context", "CONTEXT_LOCKED">>,
   <<"CONTEXT_LOCKED", "plan", "PLANNED">>,
   <<"PLANNED", "draft", "DRAFTED">>,
   <<"DRAFTED", "adapt_channel", "CHANNEL_ADAPTED">>,
   <<"CHANNEL_ADAPTED", "submit_qa1", "QA1_REVIEW">>,
   <<"CHANNEL_ADAPTED", "rework", "DRAFTED">>,
   <<"QA1_REVIEW", "qa1_pass", "QA2_REVIEW">>,
   <<"QA1_REVIEW", "qa1_rework", "DRAFTED">>,
   <<"QA2_REVIEW", "qa2_pass", "WAITING_APPROVAL">>,
   <<"QA2_REVIEW", "qa2_rework", "DRAFTED">>,
   <<"WAITING_APPROVAL", "approve", "READY_TO_APPLY">>,
   <<"WAITING_APPROVAL", "request_info", "CONTEXT_LOCKED">>,
   <<"READY_TO_APPLY", "archive", "ARCHIVED">>,
   <<"APPLIED", "monitor", "MONITORING">>,
   <<"MONITORING", "report", "REPORTED">>,
   <<"REPORTED", "archive", "ARCHIVED">>}
  \union {<<s, "reject", "REJECTED">> :
            s \in {"INTAKE", "CONTEXT_LOCKED", "PLANNED", "DRAFTED",
                   "CHANNEL_ADAPTED", "QA1_REVIEW", "QA2_REVIEW",
                   "WAITING_APPROVAL"}}

(* Mutant: only the digest of the source is compared.                      *)
SourceHashMatches(w, b) == b.source = w.source

sourceMatches(w, b) == b = currentSource(w)

clearReview(event) ==
  event \in {"rework", "qa1_rework", "qa2_rework", "request_info", "reject"}

(* Mutant: only the approval is compared.                                  *)
StaleApproval(w, event) ==
  event # "reject" /\ w.approval # NoBinding /\ ~sourceMatches(w, w.approval)

(* A binding no longer names the workflow's source and context.            *)
stale(w, event) ==
  /\ event # "reject"
  /\ \E b \in {w.review, w.approval} \ {NoBinding} : ~sourceMatches(w, b)

Invalidated(w) == [w EXCEPT !.state = "CONTEXT_LOCKED", !.review = NoBinding,
                            !.approval = NoBinding]

(* What reviewedTransition requires.                                       *)
Allowed(w, event) ==
  /\ event = "submit_qa1" => w.source # NoSource /\ w.context # Unbound
  /\ event \in {"qa1_pass", "qa2_pass", "approve"} => w.review # NoBinding

reviewedTransition(w, event, next) ==
  [w EXCEPT !.state = next,
            !.review = IF clearReview(event) THEN NoBinding ELSE
                       IF event = "submit_qa1" THEN currentSource(w) ELSE w.review,
            !.approval = IF clearReview(event) THEN NoBinding ELSE
                         IF event = "approve" THEN currentSource(w) ELSE w.approval,
            !.passes = IF event = "submit_qa1" THEN {} ELSE
                       IF event \in {"qa1_pass", "qa2_pass"}
                       THEN @ \union {<<event, currentSource(w)>>} ELSE @]

(* The workflow advanceThaiMartWorkflowDryRun answers; an event that is    *)
(* not allowed is answered with an error and the client keeps what it has. *)
Answers(w) ==
  {blockedExternalApply(w) : e \in externalApplyEvents}
  \union {Invalidated(w) : t \in {u \in transitions : u[1] = w.state /\ stale(w, u[2])}}
  \union {reviewedTransition(w, t[2], t[3]) :
            t \in {u \in transitions :
                     u[1] = w.state /\ ~stale(w, u[2]) /\ Allowed(w, u[2])}}

Advance(from, to) ==
  /\ \E w \in Answers(held[from]) : held' = [held EXCEPT ![to] = w]
  /\ good' = good \union {to}

(* A client edits the source or the context of a copy it holds.            *)
Edit(k) ==
  /\ \E c \in AllContexts, s \in AllSources :
       held' = [held EXCEPT ![k].context = c, ![k].source = s]
  /\ good' = good \ {k}

(* createThaiMartWorkflowDryRun: the state and the bindings sent along are *)
(* discarded.                                                              *)
Recreate(k) ==
  /\ held' = [held EXCEPT ![k] = Create(@.context, @.source)]
  /\ good' = good \union {k}

Next == \/ \E from, to \in Slots : Advance(from, to)
        \/ \E k \in Slots : Edit(k) \/ Recreate(k)

Spec == Init /\ [][Next]_vars

-----------------------------------------------------------------------------
(* The type of the state.  No path leads to APPLIED or beyond: the engine  *)
(* stops at READY_TO_APPLY (transitions).                                  *)
TypeOK ==
  /\ held \in [Slots -> [state : workflowStates \ {"APPLIED", "MONITORING",
                                                   "REPORTED", "FAILED"},
                         context : AllContexts, source : AllSources,
                         review : Bindings \union {NoBinding},
                         approval : Bindings \union {NoBinding},
                         passes : SUBSET ({"qa1_pass", "qa2_pass"} \X Bindings)]]
  /\ good \subseteq Slots

(* A workflow the engine answers as ready or archived was submitted,       *)
(* passed by both reviews and approved with exactly the source and context *)
(* it now has, however its copies were edited in between.                  *)
ReadyMeansReviewed ==
  \A k \in good :
    LET w == held[k] IN
    w.state \in {"READY_TO_APPLY", "ARCHIVED"} =>
      /\ w.source # NoSource /\ w.context # Unbound
      /\ w.review = currentSource(w) /\ w.approval = currentSource(w)
      /\ w.passes = {<<"qa1_pass", currentSource(w)>>, <<"qa2_pass", currentSource(w)>>}

(* An approval never outlives its review: a workflow that goes back for    *)
(* rework, information or a new context carries no approval along, so an   *)
(* old approval cannot meet a new review.                                  *)
ApprovalNeedsReview ==
  \A k \in Slots : held[k].approval # NoBinding =>
    held[k].review = held[k].approval
    /\ held[k].state \in {"READY_TO_APPLY", "ARCHIVED", "BLOCKED"}
=============================================================================
