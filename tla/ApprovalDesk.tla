----------------------------- MODULE ApprovalDesk -----------------------------
(***************************************************************************)
(* The approval queue, kill switches and audit trail of the dev control    *)
(* API (services/dev-control-api/src/{gates,switches,approval-queue,       *)
(* audit-events,approval-evidence}.mjs) with the two routes that feed      *)
(* them: POST /api/dry-run, and POST /api/hermes-inbox/dry-run behind      *)
(* services/hermes-api/src/inbox.mjs and packages/policy-core.  Queue and  *)
(* trail live in the memory of one process, the switches are read from its *)
(* environment when it starts, and evidence snapshots are files.           *)
(***************************************************************************)
EXTENDS Naturals, Sequences, FiniteSets

CONSTANTS
  Asked,        \* action ids POSTed to /api/dry-run
  InboxIds,     \* action ids of Hermes inbox requests
  InboxActions, \* the rest of those requests: see Decision
  Approvals,    \* approval evidence a request may carry
  Writers,      \* snapshot requests
  MaxEvents,    \* maxEvents of audit-events.mjs
  MaxCalls, MaxRestarts, MaxSecond

DeskAssumption ==
  /\ MaxEvents \in Nat /\ MaxSecond \in Nat \ {0}
  /\ MaxCalls \in Nat /\ MaxRestarts \in Nat

VARIABLES
  enabled,    \* the kill switches that were "true" when the process started
  queue,      \* approvalQueue, newest first
  audit,      \* auditEvents, newest first
  sequence,   \* of the audit event ids
  log,        \* ghost: every answer since the process started
  files,      \* evidence snapshots on disk, by the second in their names
  writer,     \* where each snapshot request is
  second,     \* the clock, in the seconds that file names show
  restarts

vars == <<enabled, queue, audit, sequence, log, files, writer, second, restarts>>

-----------------------------------------------------------------------------
(* What the process starts with.                                           *)

switches == {"cloud-mutation", "customer-messaging", "paid-api",
             "public-ai-exposure", "destructive-mcp", "render-export"}

(* The catalogue: the actions that need no approval, those that need it,   *)
(* and those that need kill switches turned on as well.                    *)
FreeActions == {"baseline-check", "dashboard-qa", "brain-index-preflight"}
GatedActions == {"release-preflight", "subdomain-build-preflight",
                 "solis-readonly-preflight", "approval-queue-preflight",
                 "agent-team-profile-check"}
SwitchedActions ==
  [a \in {"telegram-line-bridge-check", "cloudflare-subdomain-plan",
          "external-adapter-smoke"} |->
     CASE a = "telegram-line-bridge-check" -> {"customer-messaging"}
       [] a = "cloudflare-subdomain-plan"  -> {"cloud-mutation"}
       [] OTHER -> {"customer-messaging", "cloud-mutation"}]

actions == FreeActions \union GatedActions \union DOMAIN SwitchedActions
requiresApproval(a) == a \notin FreeActions
risk(a) == IF a \in DOMAIN SwitchedActions THEN "high" ELSE
           IF a \in GatedActions THEN "medium" ELSE "low"

Item(a, rk, status) == [actionId |-> a, risk |-> rk, status |-> status]

approvalQueue == <<Item("release-preflight", "medium", "pending"),
                   Item("baseline-check", "low", "approved"),
                   Item("customer-message-send", "high", "rejected"),
                   Item("external-adapter-smoke", "high", "blocked")>>

Idle == [pc |-> "idle", at |-> 0, content |-> <<>>]

Booted ==
  /\ enabled \in SUBSET {"customer-messaging", "cloud-mutation"}
  /\ queue = approvalQueue
  /\ audit = <<>> /\ sequence = 0 /\ log = <<>>
  /\ writer = [w \in Writers |-> Idle]

Init == Booted /\ files = <<>> /\ second = 1 /\ restarts = 0

-----------------------------------------------------------------------------
(* Mutant: a second request for an action is queued beside the first.      *)
AlwaysQueued(q, item) == <<item>> \o q

(* ensureApprovalRequest: the first item for the action is the request,    *)
(* whatever its status; a new one goes to the head of the queue.           *)
ensureApprovalRequest(q, item) ==
  IF \E i \in DOMAIN q : q[i].actionId = item.actionId THEN q
  ELSE <<item>> \o q

Request(q, a) == q[CHOOSE i \in DOMAIN q :
                     /\ q[i].actionId = a
                     /\ \A j \in 1..(i - 1) : q[j].actionId # a]
NoRequest == Item("none", "low", "none")

(* recordAuditEvent: newest first, cut to maxEvents.                       *)
Recorded(events, e) ==
  SubSeq(<<e>> \o events, 1, IF Len(events) + 1 > MaxEvents THEN MaxEvents
                             ELSE Len(events) + 1)

recordAuditEvent(target, rk, approval, killSwitch, result) ==
  /\ sequence' = sequence + 1
  /\ audit' = Recorded(audit, [id |-> sequence + 1, target |-> target,
                               risk |-> rk, approval |-> approval,
                               killSwitch |-> killSwitch, result |-> result])

Answer(route, a, result, item, external, exact) ==
  log' = Append(log, [route |-> route, actionId |-> a, result |-> result,
                      item |-> item, external |-> external, exact |-> exact])

-----------------------------------------------------------------------------
(* POST /api/dry-run.                                                      *)

required(a) == IF a \in DOMAIN SwitchedActions THEN SwitchedActions[a] ELSE {}

(* Mutant: one enabled switch is enough.                                   *)
BlockedUnlessAny(a) == IF required(a) \intersect enabled = {} THEN required(a) ELSE {}

(* evaluateRequiredSwitches *)
blocked(a) == required(a) \ enabled

(* createDryRunResult and recordDryRunAuditEvent for an action of the      *)
(* catalogue.                                                              *)
DryRun(a) ==
  /\ a \in actions
  /\ LET q == IF requiresApproval(a)
              THEN ensureApprovalRequest(queue,
                     Item(a, risk(a), IF blocked(a) # {} THEN "blocked" ELSE "pending"))
              ELSE queue
         item == IF requiresApproval(a) THEN Request(q, a) ELSE NoRequest
         result == IF blocked(a) # {} THEN "blocked_by_kill_switch" ELSE
                   IF requiresApproval(a) THEN "queued_for_approval"
                   ELSE "simulated_only"
     IN /\ queue' = q
        /\ recordAuditEvent(a, item.risk,
             IF requiresApproval(a) THEN item.status ELSE "required",
             IF blocked(a) # {} THEN "blocked" ELSE "clear", result)
        /\ Answer("dry-run", a, result, item, FALSE, FALSE)

(* An action that is not in the catalogue, or a body that is not JSON:     *)
(* answered with an error and recorded.                                    *)
DryRunRefused(a) ==
  /\ a \notin actions
  /\ LET result == IF a = "invalid-json" THEN "invalid_json" ELSE "unknown_action"
     IN /\ recordAuditEvent(a, "low",
             IF a = "invalid-json" THEN "required" ELSE "not-required", "clear", result)
        /\ Answer("dry-run", a, result, NoRequest, FALSE, FALSE)
  /\ UNCHANGED queue

-----------------------------------------------------------------------------
(* packages/policy-core.  An action has a type, a target ("none", "vague"  *)
(* for an object without a name, or a name) and flags.                     *)

ExternalFlags == {"externalWrite", "productionWrite", "customerVisible",
                  "paidApi", "destructive"}

isExternalAction(x) == x.flags \intersect ExternalFlags # {} \/ x.type # "local"

targetId(t) == IF t \in {"none", "vague"} THEN "" ELSE t

(* solisEvidenceComplete *)
solisEvidenceComplete(x) ==
  x.type = "solis" => {"readOnly", "solisEvidence"} \subseteq x.flags

hardBlocks(x) ==
  (x.flags \intersect {"readsSecretValues", "printsSecrets", "rawChatToMemory"})
  \union {b \in {"secret"} : "refersToSecret" \in x.flags /\ "readOnly" \notin x.flags}
  \union {b \in {"target"} : isExternalAction(x) /\ targetId(x.target) = ""}
  \union {b \in {"solis"} : ~solisEvidenceComplete(x)}

(* approvalMatches *)
approvalMatches(a, x, p) ==
  /\ p.approved
  /\ p.scope \in {"", a, x.type}
  /\ targetId(x.target) # "" /\ targetId(p.target) = targetId(x.target)

(* evaluatePolicy *)
Decision(a, x, p) ==
  IF hardBlocks(x) # {} THEN "blocked" ELSE
  IF isExternalAction(x) /\ ~approvalMatches(a, x, p) THEN "approval_required"
  ELSE "allowed"

(* POST /api/hermes-inbox/dry-run up to the policy: the answers that leave *)
(* neither a request nor an audit event.                                   *)
InboxRefusal(x) ==
  IF x.target = "none" /\ "image-without-caption" \notin x.flags
  THEN "invalid_request" ELSE
  IF "external-source" \in x.flags THEN "auth_required" ELSE
  IF "execute" \in x.flags THEN "execution_disabled" ELSE
  IF "image-without-caption" \in x.flags THEN "image_edit_caption_required"
  ELSE "none"

OpensRequest(decision) == decision = "approval_required"

InboxRisk(x) == IF x.flags \intersect {"productionWrite", "customerVisible"} # {}
                THEN "high" ELSE "medium"

Inbox(a, x, p) ==
  LET d == Decision(a, x, p)
      q == IF OpensRequest(d)
           THEN ensureApprovalRequest(queue, Item(a, InboxRisk(x), "pending"))
           ELSE queue
  IN IF InboxRefusal(x) # "none"
     THEN /\ Answer("inbox", a, InboxRefusal(x), NoRequest, isExternalAction(x), FALSE)
          /\ UNCHANGED <<queue, audit, sequence>>
     ELSE /\ queue' = q
          /\ recordAuditEvent(a,
               IF d = "blocked" THEN "high" ELSE
               IF isExternalAction(x) THEN "medium" ELSE "low",
               IF isExternalAction(x) THEN "required" ELSE "not-required",
               IF d = "blocked" THEN "blocked" ELSE "clear", d)
          /\ Answer("inbox", a, d,
               IF OpensRequest(d) THEN Request(q, a) ELSE NoRequest,
               isExternalAction(x),
               p.approved /\ p.target = x.target /\ p.target \notin {"none", "vague"})

Call ==
  /\ Len(log) < MaxCalls
  /\ \/ \E a \in Asked : DryRun(a) \/ DryRunRefused(a)
     \/ \E a \in InboxIds, x \in InboxActions, p \in Approvals : Inbox(a, x, p)
  /\ UNCHANGED <<enabled, files, writer, second, restarts>>

-----------------------------------------------------------------------------
(* Evidence snapshots: the queue is read, the directory made, and the file *)
(* written with flag wx, with an await between each two.                   *)

BeginSnapshot(w) ==
  /\ writer[w].pc = "idle"
  /\ writer' = [writer EXCEPT ![w] = [pc |-> "mkdir", at |-> second, content |-> queue]]
  /\ UNCHANGED <<enabled, queue, audit, sequence, log, files, second, restarts>>

(* Mutant: the file is written with flag w.                                *)
Overwrites(w) == TRUE

(* writeFile with flag wx fails when the file exists.                      *)
Creates(w) == writer[w].at \notin DOMAIN files

WriteSnapshot(w) ==
  /\ writer[w].pc = "mkdir"
  /\ IF Creates(w)
     THEN /\ files' = [s \in DOMAIN files \union {writer[w].at} |->
                         IF s = writer[w].at THEN writer[w].content ELSE files[s]]
          /\ writer' = [writer EXCEPT ![w].pc = "written"]
     ELSE /\ writer' = [writer EXCEPT ![w].pc = "failed"]
          /\ UNCHANGED files
  /\ UNCHANGED <<enabled, queue, audit, sequence, log, second, restarts>>

Tick ==
  /\ second < MaxSecond /\ Writers # {}
  /\ second' = second + 1
  /\ UNCHANGED <<enabled, queue, audit, sequence, log, files, writer, restarts>>

(* The process restarts with another environment.                          *)
Restart ==
  /\ restarts < MaxRestarts
  /\ restarts' = restarts + 1
  /\ enabled' \in SUBSET {"customer-messaging", "cloud-mutation"}
  /\ queue' = approvalQueue
  /\ audit' = <<>> /\ sequence' = 0 /\ log' = <<>>
  /\ writer' = [w \in Writers |-> IF writer[w].pc = "mkdir" THEN Idle ELSE writer[w]]
  /\ UNCHANGED <<files, second>>

Next == \/ Call \/ Tick \/ Restart
        \/ \E w \in Writers : BeginSnapshot(w) \/ WriteSnapshot(w)

Spec == Init /\ [][Next]_vars

-----------------------------------------------------------------------------
Statuses == {"pending", "approved", "rejected", "blocked"}

(* The type of the state; the trail never outgrows maxEvents.              *)
TypeOK ==
  /\ enabled \subseteq switches
  /\ \A i \in DOMAIN queue : queue[i].status \in Statuses
  /\ Len(audit) <= MaxEvents /\ sequence \in Nat
  /\ DOMAIN files \subseteq 1..MaxSecond
  /\ \A w \in Writers : writer[w].pc \in {"idle", "mkdir", "written", "failed"}

(* Both routes share the queue, keyed by action id: an operator never sees *)
(* two requests for one action, and every request an answer carried since  *)
(* the start is still the one the queue holds (ensureApprovalRequest).     *)
RequestsAgree ==
  /\ \A i, j \in DOMAIN queue : queue[i].actionId = queue[j].actionId => i = j
  /\ \A n \in DOMAIN log : log[n].item # NoRequest =>
       \E i \in DOMAIN queue : queue[i] = log[n].item

(* A request is in the queue because the process started with it or some   *)
(* caller was told that it waits: nothing refused, blocked by policy or    *)
(* allowed leaves a request behind, and no call approves one.              *)
RequestsWereAnswered ==
  \A i \in DOMAIN queue :
    \/ \E k \in DOMAIN approvalQueue : queue[i] = approvalQueue[k]
    \/ /\ queue[i].status \in {"pending", "blocked"}
       /\ \E n \in DOMAIN log :
            /\ log[n].actionId = queue[i].actionId
            /\ log[n].result \in {"approval_required", "queued_for_approval",
                                  "blocked_by_kill_switch"}

(* The answers that are audited, in order: all but the inbox's refusals    *)
(* before the policy.                                                      *)
Audited(e) == e.result \notin {"invalid_request", "auth_required",
                               "execution_disabled", "image_edit_caption_required"}

(* The number of answers that were audited up to the n-th.                 *)
Told(n) == Cardinality({m \in 1..n : Audited(log[m])})

(* The trail is the newest maxEvents audited answers, newest first, with   *)
(* consecutive ids: the ring loses only the oldest (recordAuditEvent).     *)
TrailIsNewest ==
  /\ sequence = Told(Len(log))
  /\ Len(audit) = IF sequence < MaxEvents THEN sequence ELSE MaxEvents
  /\ \A i \in DOMAIN audit : \E n \in DOMAIN log :
       /\ Audited(log[n]) /\ Told(n) = sequence + 1 - i
       /\ audit[i].id = Told(n)
       /\ audit[i].result = log[n].result /\ audit[i].target = log[n].actionId

(* packages/policy-core/README.md:45: an external action is allowed only   *)
(* on approval evidence for its exact target.                              *)
AllowedOnExactApproval ==
  \A n \in DOMAIN log :
    log[n].result = "allowed" /\ log[n].external => log[n].exact

(* While a required switch is off every dry run of the action is blocked   *)
(* and audited as blocked, whatever request the queue holds for it.        *)
SwitchOutranksQueue ==
  /\ \A n \in DOMAIN log :
       log[n].route = "dry-run" /\ log[n].actionId \in DOMAIN SwitchedActions
       /\ SwitchedActions[log[n].actionId] \ enabled # {}
         => log[n].result = "blocked_by_kill_switch"
  /\ \A i \in DOMAIN audit : audit[i].result = "blocked_by_kill_switch" =>
       audit[i].killSwitch = "blocked" /\ audit[i].approval # "approved"

(* A snapshot file is evidence: once written it never changes, also when   *)
(* two requests of one second name the same file (flag wx).                *)
FilesKept == \A s \in DOMAIN files : s \in DOMAIN files' /\ files'[s] = files[s]
SnapshotImmutable == [][FilesKept]_files

(* Who was told that a snapshot was written finds its queue in the file.   *)
WrittenIsThere ==
  \A w \in Writers : writer[w].pc = "written" =>
    writer[w].at \in DOMAIN files /\ files[writer[w].at] = writer[w].content

(* reports/agent-inventory/SIRINX_AGENT_MESH_ARCHITECTURE_20260719.md:273: *)
(* a 202 answer of the inbox opens an approval request, so the request it  *)
(* carries waits for a decision.                                           *)
AcceptedOpensRequest ==
  \A n \in DOMAIN log :
    log[n].route = "inbox" /\ log[n].result = "approval_required"
      => log[n].item.status = "pending"
=============================================================================
