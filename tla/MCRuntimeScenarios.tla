------------------------- MODULE MCRuntimeScenarios -------------------------
(***************************************************************************)
(* The passing instances of the runtime store in one run.  A behaviour     *)
(* plays one scenario from its first step to its last: makers competing    *)
(* for leases, a maker and a checker submitting verdicts, a failure that   *)
(* arrives late, two tasks writing the ledger.                             *)
(***************************************************************************)
EXTENDS MCAgentRuntime

VARIABLE scenario

AllTasks == OneTask \cup LedgerTasks
AllRuns == LeaseRuns \cup ReceiptRuns
AllLeases == LeaseLeases \cup ReceiptLeases
AllDrafts == ReceiptChoices \cup FreezeDrafts \cup LedgerDrafts

Leasing == INSTANCE AgentRuntimeStore WITH
  TaskRequests <- OneTask, RunRequests <- LeaseRuns, LeaseRequests <- LeaseLeases,
  ReceiptDrafts <- {}, TaskTargets <- {}, RunTargets <- LeaseTargets,
  MaxVersion <- 6

Judging == INSTANCE AgentRuntimeStore WITH
  TaskRequests <- OneTask, RunRequests <- ReceiptRuns, LeaseRequests <- ReceiptLeases,
  ReceiptDrafts <- ReceiptChoices, TaskTargets <- ReceiptTargets,
  RunTargets <- ReceiptTargets, Times <- {0}

Freezing == INSTANCE AgentRuntimeStore WITH
  TaskRequests <- OneTask, RunRequests <- FreezeRuns, LeaseRequests <- FreezeLeases,
  ReceiptDrafts <- FreezeDrafts, TaskTargets <- FreezeTargets,
  RunTargets <- FreezeTargets, Times <- {0}

Recording == INSTANCE AgentRuntimeStore WITH
  TaskRequests <- LedgerTasks, RunRequests <- LedgerRuns, LeaseRequests <- {},
  ReceiptDrafts <- LedgerDrafts, TaskTargets <- LedgerTargets,
  RunTargets <- LedgerTargets, Times <- {0, 1}, MaxVersion <- 3

ScenarioInit == Init /\ scenario \in {"leases", "receipts", "final_task", "ledger"}

ScenarioNext ==
  /\ UNCHANGED scenario
  /\ \/ scenario = "leases" /\ Leasing!Next
     \/ scenario = "receipts" /\ Judging!Next
     \/ scenario = "final_task" /\ Freezing!Next
     \/ scenario = "ledger" /\ Recording!Next

ScenarioSpec == ScenarioInit /\ [][ScenarioNext]_<<vars, scenario>>

(* Only the ledger's own scenario keeps the ledger in the fingerprint.     *)
ScenarioView ==
  <<scenario, CoreView, IF scenario = "ledger" THEN <<events, eventSequences>> ELSE <<>>>>
=============================================================================
