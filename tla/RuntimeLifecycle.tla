-------------------------- MODULE RuntimeLifecycle --------------------------
(***************************************************************************)
(* The closed vocabularies of the agent runtime and the pure rules over    *)
(* them: the lifecycle of tasks and runs, the verdicts a receipt may carry *)
(* in each state, the roles that may make and check work.                  *)
(*                                                                         *)
(* Source: crates/sirinx-core/src/agent_runtime.rs, and the pure helper    *)
(* receipt_result_allowed of crates/sirinx-store/src/agent_runtime.rs.     *)
(***************************************************************************)
EXTENDS Naturals, Sequences

(* What Failed, Canceled ... have in common: an exit every live state has. *)
ExitStates ==
  {"FAILED", "BLOCKED", "CANCELED", "QUARANTINED",
   "INPUT_REQUIRED", "AUTH_REQUIRED", "DEAD_LETTER"}

RuntimeState ==
  {"DRAFT", "TRIAGED", "PLANNED", "QUEUED", "LEASED", "RUNNING", "CHECKING",
   "GUARDED", "WAITING_APPROVAL", "EXECUTING", "VERIFYING", "RECEIPTED",
   "SUCCEEDED", "EFFECT_UNKNOWN"} \cup ExitStates

Terminal ==
  {"SUCCEEDED", "FAILED", "BLOCKED", "CANCELED", "QUARANTINED",
   "EFFECT_UNKNOWN", "DEAD_LETTER"}

(* The ordered edges: every next state that is not an exit.                *)
OrderedEdges ==
  {<<"DRAFT", "TRIAGED">>, <<"TRIAGED", "PLANNED">>, <<"PLANNED", "QUEUED">>,
   <<"QUEUED", "LEASED">>, <<"LEASED", "RUNNING">>,
   <<"RUNNING", "CHECKING">>, <<"RUNNING", "GUARDED">>,
   <<"RUNNING", "VERIFYING">>,
   <<"CHECKING", "GUARDED">>, <<"CHECKING", "VERIFYING">>,
   <<"GUARDED", "WAITING_APPROVAL">>, <<"GUARDED", "EXECUTING">>,
   <<"GUARDED", "VERIFYING">>,
   <<"WAITING_APPROVAL", "EXECUTING">>,
   <<"EXECUTING", "VERIFYING">>, <<"EXECUTING", "EFFECT_UNKNOWN">>,
   <<"VERIFYING", "RECEIPTED">>, <<"VERIFYING", "EFFECT_UNKNOWN">>,
   <<"RECEIPTED", "SUCCEEDED">>,
   <<"INPUT_REQUIRED", "TRIAGED">>,
   <<"AUTH_REQUIRED", "GUARDED">>, <<"AUTH_REQUIRED", "WAITING_APPROVAL">>}

CanTransition(from, to) ==
  /\ from \notin Terminal
  /\ from # to
  /\ to \in ExitStates \/ <<from, to>> \in OrderedEdges

(* The states in which a run is bound to its receipt, and in which a task  *)
(* takes no further receipt.                                               *)
Finalized == {"RECEIPTED", "SUCCEEDED"}

ActionClass == {"A", "B", "C", "D", "X"}
SourceWriteClasses == {"B", "C"}

LeaseState == {"ACTIVE", "EXPIRED", "REVOKED", "RELEASED"}

ReceiptResult ==
  {"PASS", "FAIL", "BLOCKED", "UNVERIFIED", "CANCELED", "EFFECT_UNKNOWN"}

RoleIds == 1..47
MakerRoles == 37..41
CheckerRole == 42

(* The run states in which a verdict may be receipted.                     *)
ReceiptResultAllowed(state, result) ==
  CASE result = "PASS"           -> state = "VERIFYING"
    [] result = "FAIL"           -> state \in {"VERIFYING", "FAILED"}
    [] result = "BLOCKED"        -> state = "BLOCKED"
    [] result = "UNVERIFIED"     -> state \in {"CHECKING", "VERIFYING"}
    [] result = "CANCELED"       -> state = "CANCELED"
    [] result = "EFFECT_UNKNOWN" -> state = "EFFECT_UNKNOWN"

(* A path is the sequence of its components; two paths overlap when they   *)
(* are equal or one is an ancestor directory of the other.                 *)
IsAncestorOrSame(p, q) ==
  /\ Len(p) <= Len(q)
  /\ \A i \in 1..Len(p) : p[i] = q[i]

PathsOverlap(left, right) ==
  IsAncestorOrSame(left, right) \/ IsAncestorOrSame(right, left)

=============================================================================
