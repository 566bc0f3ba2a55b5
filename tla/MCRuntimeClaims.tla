-------------------------- MODULE MCRuntimeClaims ---------------------------
(***************************************************************************)
(* What the repository's documents say of the agent runtime and the store  *)
(* does not enforce.  Each claim is checked alone, on an instance in which *)
(* TLC finds the calls that break it.                                      *)
(***************************************************************************)
EXTENDS MCAgentRuntime, FiniteSets

(* History: for each task that was ever RECEIPTED or SUCCEEDED, the number *)
(* of its receipts when it first was.                                      *)
VARIABLE finalizedWith

ReceiptCount(t) ==
  Cardinality({i \in DOMAIN receipts : receipts[i].draft.task_id = t})

ClaimsInit == Init /\ finalizedWith = << >>

ClaimsNext ==
  /\ Next
  /\ finalizedWith' =
       [t \in DOMAIN finalizedWith
                \cup {t \in DOMAIN tasks : tasks[t].state \in Finalized} |->
          IF t \in DOMAIN finalizedWith THEN finalizedWith[t]
          ELSE ReceiptCount(t)]

ClaimsSpec == ClaimsInit /\ [][ClaimsNext]_<<vars, finalizedWith>>

ClaimsView == <<CoreView, finalizedWith>>

(* docs/agent-runtime/47_ROLE_MANAGER_ARCHITECTURE.md:131: "no receipt may *)
(* be appended after task finalization".  A RECEIPTED task may still move  *)
(* to FAILED, CANCELED, INPUT_REQUIRED ..., and append_receipt looks only  *)
(* at the task's present state.                                            *)
ReceiptChainFrozen ==
  \A t \in DOMAIN finalizedWith : ReceiptCount(t) = finalizedWith[t]

(* docs/agent-runtime/47_ROLE_MANAGER_ARCHITECTURE.md:53: "At most one     *)
(* source-mutating maker per worktree".  transition_run asks for a live    *)
(* lease on entry to LEASED only, so a run whose lease has expired still   *)
(* becomes, or stays, RUNNING beside the run that replaced it.             *)
OneRunningWriterPerTree ==
  \A r, s \in DOMAIN runs :
    (r # s /\ runs[r].state = "RUNNING" /\ runs[s].state = "RUNNING")
      => ~\E l, m \in DOMAIN leases :
            /\ leases[l].grant.run_id = r /\ leases[m].grant.run_id = s
            /\ leases[l].state # "RELEASED" /\ leases[m].state # "RELEASED"
            /\ leases[l].grant.source_write /\ leases[m].grant.source_write
            /\ leases[l].grant.tree = leases[m].grant.tree

(* PRODUCTION.md:216: "Every write requires an exact path/resource lease". *)
(* A run reaches EXECUTING, a ticketed action in progress, from DRAFT      *)
(* through AUTH_REQUIRED and GUARDED without any lease ever issued to it.  *)
ExecutingRunWasLeased ==
  \A r \in DOMAIN runs :
    runs[r].state = "EXECUTING"
      => \E l \in DOMAIN leases : leases[l].grant.run_id = r

=============================================================================
