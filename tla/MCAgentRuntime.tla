--------------------------- MODULE MCAgentRuntime ---------------------------
(***************************************************************************)
(* Small instances of AgentRuntimeStore for TLC.                           *)
(***************************************************************************)
EXTENDS AgentRuntimeStore

(* The ledger is written by every transition and read by none: it is left  *)
(* out of the fingerprint of the instances whose properties do not mention *)
(* it.                                                                     *)
CoreView == <<tasks, taskIdempotency, runs, leases, receipts>>

Task(t, key) == [task_id |-> t, idempotency_key |-> key, created_at |-> 0]

Run(r, t, role, principal, class) ==
  [run_id |-> r, task_id |-> t, role_id |-> role, principal_id |-> principal,
   action_class |-> class, created_at |-> 0]

Lease(l, run, tree, paths, resources, write, nonce, issued, due, expires) ==
  [lease_id |-> l, task_id |-> run.task_id, run_id |-> run.run_id,
   role_id |-> run.role_id, principal_id |-> run.principal_id,
   tree |-> tree, paths |-> paths, resources |-> resources,
   source_write |-> write, nonce |-> nonce, issued_at |-> issued,
   heartbeat_due_at |-> due, expires_at |-> expires]

Draft(id, run, subject, result, verification) ==
  [receipt_id |-> id, task_id |-> run.task_id, run_id |-> run.run_id,
   role_id |-> run.role_id, principal_id |-> run.principal_id,
   subject |-> subject, result |-> result,
   verification_receipt_id |-> verification]

-----------------------------------------------------------------------------
(* Two makers and a checker of one task.                                   *)
OneTask == {Task("t1", "k1")}
Maker == Run("maker", "t1", 37, "alice", "B")
Maker2 == Run("maker2", "t1", 38, "carol", "C")
Checker == Run("checker", "t1", 42, "bob", "A")

(* Leases: the second maker wants a path inside the first maker's path;    *)
(* each wants to be the writer of tree w; both want the resource db from   *)
(* different trees; one request repeats a nonce.                           *)
LeaseRuns == {Maker, Maker2}
LeaseLeases ==
  {Lease("L1", Maker, "w", {<<"src">>}, {}, FALSE, "n1", 0, 1, 2),
   Lease("L2", Maker2, "w", {<<"src", "a">>}, {"db"}, TRUE, "n2", 0, 1, 1),
   Lease("L3", Maker, "w", {<<"doc">>}, {}, TRUE, "n3", 1, 2, 2),
   Lease("L4", Maker, "v", {<<"src">>}, {"db"}, FALSE, "n1", 1, 2, 2)}
LeaseTargets == {"TRIAGED", "PLANNED", "QUEUED", "LEASED", "RUNNING"}

(* Receipts: the checker's PASS or FAIL, and what the makers then submit:  *)
(* a PASS that cites the checker PASS, one that cites its FAIL, one that    *)
(* cites nothing, one for another subject, and a FAIL.  The maker run may  *)
(* turn out to be the checker's own principal's.                           *)
BobsMaker == Run("maker", "t1", 37, "bob", "B")
ReceiptRuns == {Maker, BobsMaker, Checker}
ReceiptLeases ==
  {Lease("L1", Maker, "w", {<<"src">>}, {}, TRUE, "n1", 0, 1, 1),
   Lease("L1", BobsMaker, "w", {<<"src">>}, {}, TRUE, "n1", 0, 1, 1),
   Lease("L2", Checker, "w", {<<"doc">>}, {}, FALSE, "n2", 0, 1, 1)}
ReceiptChoices ==
  {Draft("c-pass", Checker, "s1", "PASS", None),
   Draft("c-fail", Checker, "s1", "FAIL", None),
   Draft("m-pass", Maker, "s1", "PASS", "c-pass"),
   Draft("m-pass", BobsMaker, "s1", "PASS", "c-pass"),
   Draft("m-fooled", Maker, "s1", "PASS", "c-fail"),
   Draft("m-self", Maker, "s1", "PASS", None),
   Draft("m-other", Maker, "s2", "PASS", "c-pass"),
   Draft("m-fail", Maker, "s1", "FAIL", None)}
ReceiptTargets ==
  {"TRIAGED", "PLANNED", "QUEUED", "LEASED", "RUNNING", "VERIFYING",
   "RECEIPTED", "SUCCEEDED", "FAILED"}

(* The same with one more run that holds no lease and may only fail.       *)
FreezeRuns == {Maker, Maker2, Checker}
FreezeLeases == {q \in ReceiptLeases : q.principal_id # "bob" \/ q.role_id = 42}
FreezeDrafts ==
  {Draft("c-pass", Checker, "s1", "PASS", None),
   Draft("m-pass", Maker, "s1", "PASS", "c-pass"),
   Draft("m2-fail", Maker2, "s1", "FAIL", None)}
FreezeTargets == ReceiptTargets \ {"SUCCEEDED"}

(* Executing: one run, every state on the way through an authorization     *)
(* wait.                                                                   *)
AuthTargets ==
  LeaseTargets \cup {"AUTH_REQUIRED", "GUARDED", "WAITING_APPROVAL", "EXECUTING"}

(* Ledger: two tasks, one of which cannot be created under the other's     *)
(* idempotency key, with a loop and a terminal state among the targets.    *)
LedgerTargets == {"TRIAGED", "INPUT_REQUIRED", "CANCELED"}
LedgerTasks == {Task("t1", "k1"), Task("t2", "k1"), Task("t2", "k2")}
LedgerRuns == {Maker}
LedgerDrafts == {Draft("m-cancel", Maker, "s1", "CANCELED", None)}

=============================================================================
