------------------------------ MODULE ControlApi ------------------------------
(***************************************************************************)
(* The dev control API, beside its routes to Telegram, and the browser     *)
(* extension that feeds it, composed: the ThaiMart workflow, approval      *)
(* desks (queue, switches, policy, trail and evidence files), the ACP      *)
(* probe and the seller guard.  They share no variable, so a behaviour     *)
(* lets one part move, chosen when it starts: it reaches no state of a     *)
(* part that the part does not reach alone.                                *)
(***************************************************************************)
EXTENDS ThaiMartWorkflow

CONSTANTS
  None,
  Desks, \* settings of a desk: who calls it, and how often
  Asked, InboxIds, InboxActions, Approvals, Writers, \* by desk
  MaxEvents, MaxCalls, MaxRestarts, MaxSecond,       \* by desk
  Kinds, OutputLimit, MaxChunks,
  Tabs, Pages, pathname, Elsewhere, Presses, MaxAge, MaxNow

VARIABLES
  part, desk,
  enabled, queue, audit, sequence, log, files, writer, second, restarts,
  pc, kind, child, closed, spawnErr, buffer, outBytes, errBytes, draft,
  report, resolutions, first,
  url, active, clock, gate, stored, req, sent

deskVars == <<enabled, queue, audit, sequence, log, files, writer, second, restarts>>
probeVars == <<pc, kind, child, closed, spawnErr, buffer, outBytes, errBytes, draft,
               report, resolutions, first>>
guardVars == <<url, active, clock, gate, stored, req, sent>>
apiVars == <<part, desk, vars, deskVars, probeVars, guardVars>>

-----------------------------------------------------------------------------
Desk(d) == INSTANCE ApprovalDesk WITH
  Asked <- Asked[d], InboxIds <- InboxIds[d], InboxActions <- InboxActions[d],
  Approvals <- Approvals[d], Writers <- Writers[d], MaxEvents <- MaxEvents[d],
  MaxCalls <- MaxCalls[d], MaxRestarts <- MaxRestarts[d], MaxSecond <- MaxSecond[d]

Probe == INSTANCE AcpProbe

Guard == INSTANCE SellerGuard WITH Requests <- Presses, now <- clock

ASSUME ControlApiAssumption ==
  /\ \A d \in Desks : Desk(d)!DeskAssumption
  /\ Probe!ProbeAssumption
  /\ Guard!GuardAssumption

-----------------------------------------------------------------------------
Parts == {"workflow", "desk", "probe", "guard"}

(* Every part starts, and one of them moves.                               *)
ApiInit ==
  /\ part \in Parts
  /\ Init /\ Probe!Init /\ Guard!Init
  /\ \E d \in Desks : desk = d /\ Desk(d)!Init

ApiNext ==
  /\ UNCHANGED <<part, desk>>
  /\ \/ /\ part = "workflow" /\ Next
        /\ UNCHANGED <<deskVars, probeVars, guardVars>>
     \/ /\ part = "desk" /\ \E d \in Desks : desk = d /\ Desk(d)!Next
        /\ UNCHANGED <<vars, probeVars, guardVars>>
     \/ /\ part = "probe" /\ Probe!Next
        /\ UNCHANGED <<vars, deskVars, guardVars>>
     \/ /\ part = "guard" /\ Guard!Next
        /\ UNCHANGED <<vars, deskVars, probeVars>>

ApiSpec == ApiInit /\ [][ApiNext]_apiVars

-----------------------------------------------------------------------------
(* The properties of each part, with the types of its variables; the       *)
(* modules of the parts say what code each conjunct is about.  Those of    *)
(* the workflow keep their names.                                          *)

(* Queue, trail and files say what happened: one request per action, the   *)
(* one answers carried; no request nobody was told of; the ring lost only  *)
(* the oldest events; what was reported written is in its file             *)
(* (ensureApprovalRequest, recordAuditEvent, saveApprovalEvidence).        *)
RecordsTruthful ==
  \A d \in Desks : desk = d =>
    /\ Desk(d)!TypeOK /\ Desk(d)!RequestsAgree /\ Desk(d)!RequestsWereAnswered
    /\ Desk(d)!TrailIsNewest /\ Desk(d)!WrittenIsThere

(* A required switch that is off blocks whatever the queue says, and an    *)
(* external action is allowed only on approval for its exact target        *)
(* (the dry run of an action, evaluatePolicy).                             *)
NothingUnapproved ==
  \A d \in Desks : desk = d =>
    Desk(d)!SwitchOutranksQueue /\ Desk(d)!AllowedOnExactApproval

(* A snapshot file never changes once it is written (flag wx).             *)
FilesKept == \A d \in Desks : Desk(d)!FilesKept
SnapshotImmutable == [][FilesKept]_files

(* A verified handshake was concluded by a child that is gone, only the    *)
(* first of racing events gives the verdict, and the report claims no exit *)
(* that did not happen (finalize, waitForExit).                            *)
ProbeTruthful ==
  /\ Probe!TypeOK
  /\ Probe!VerifiedMeansGone /\ Probe!FirstEventDecides /\ Probe!ExitReportTrue

(* startLocalWorkflowDryRun posts a context of the route on screen in the  *)
(* active tab, and fresh.                                                  *)
PostedRouteOnScreen == Guard!TypeOK /\ Guard!PostedRouteOnScreen

(* apps/thaimart-seller-guard/README.md:11: the address is the same too.   *)
(* Only the two ends are compared, and the snapshot has no address.        *)
PostedPageOnScreen == Guard!PostedPageOnScreen
=============================================================================
