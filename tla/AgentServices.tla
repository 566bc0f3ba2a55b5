---------------------------- MODULE AgentServices ----------------------------
(***************************************************************************)
(* What acts on its own or for others, composed: the autonomous loop, the  *)
(* A2A mesh, the OmniRoute router, the layered dispatcher and the gates of *)
(* a resource cleanup.  They share no variable, so a behaviour lets one    *)
(* part move, chosen when it starts: it reaches no state of a part that    *)
(* the part does not reach alone.  A part with several settings takes one  *)
(* of them then.                                                           *)
(***************************************************************************)
EXTENDS AutoLoop

CONSTANTS
  Loads, \* settings of the loop: which runs start, and with which goals
  Starters, Offered,                                     \* by load
  Meshes, \* settings of the mesh: who syncs, and with a token or without
  Lanes, Peers, Work, Bearer, MaxWire, MaxRestarts,      \* by mesh
  Self,
  Ids, Home, Caps, Priorities, Width, MaxRequired, Repeats,
  Roster,
  Preflights, Admissions, \* settings of a cleanup, by the gate it comes to
  MaxTime, MaxEvents, Lifetime, Disk, Boundary,          \* by cleanup
  MaxAge, Growth, Floor, MinReclaim, MaxAffected, RequiredFree, Trees

VARIABLES
  part, load, mesh, cleanup,
  cards, work, wire, known, report, restarts,
  table, asked,
  registered, start, queue, outputs, result,
  now, built, kib, free, shared, tree, consumers, events, removed, manifest, process,
  grant, evidence, cleared, action, admitted, effectState, effect, after, receipt

meshVars == <<cards, work, wire, known, report, restarts>>
routeVars == <<table, asked>>
dispatchVars == <<registered, start, queue, outputs, result>>
cleanupVars == <<now, built, kib, free, shared, tree, consumers, events, removed,
                 manifest, process, grant, evidence, cleared, action, admitted, effectState,
                 effect, after, receipt>>
agentsVars == <<part, load, mesh, cleanup, vars, meshVars, routeVars, dispatchVars, cleanupVars>>

-----------------------------------------------------------------------------
Mesh(d) == INSTANCE A2aMesh WITH
  Agents <- Lanes[d], Peers <- Peers[d], Work <- Work[d], Bearer <- Bearer[d],
  MaxWire <- MaxWire[d], MaxRestarts <- MaxRestarts[d]

Router == INSTANCE OmniRoute WITH Self <- Home, cards <- table

Bus == INSTANCE Dispatcher WITH Agents <- Roster

Cleanup(d) == INSTANCE CleanupAdmission WITH
  MaxTime <- MaxTime[d], MaxEvents <- MaxEvents[d], Lifetime <- Lifetime[d],
  Disk <- Disk[d], Boundary <- Boundary[d]

Cleanups == Preflights \union Admissions

ASSUME AgentServicesAssumption ==
  /\ \A d \in Loads : Starters[d] \subseteq Runs /\ Offered[d] \subseteq Goals
  /\ \A d \in Meshes : Mesh(d)!MeshAssumption
  /\ Router!RouteAssumption /\ Bus!AgentsInRoster
  /\ \A d \in Cleanups : Cleanup(d)!CleanupAssumption

-----------------------------------------------------------------------------
Parts == {"loop", "mesh", "router", "bus", "cleanup"}

(* Every part starts, and one of them moves.                               *)
AgentsInit ==
  /\ part \in Parts
  /\ load \in Loads /\ Init
  /\ \E d \in Meshes : mesh = d /\ Mesh(d)!Init
  /\ Router!Init /\ Bus!Init
  /\ \E d \in Cleanups : cleanup = d /\ Cleanup(d)!Init

LoopNext ==
  \E r \in Starters[load] : (\E goal \in Offered[load] : Start(r, goal)) \/ Step(r)

CleanupNext ==
  \/ \E d \in Preflights : cleanup = d /\ Cleanup(d)!PreflightNext
  \/ \E d \in Admissions : cleanup = d /\ Cleanup(d)!AdmissionNext

AgentsNext ==
  /\ UNCHANGED <<part, load, mesh, cleanup>>
  /\ \/ /\ part = "loop" /\ LoopNext
        /\ UNCHANGED <<meshVars, routeVars, dispatchVars, cleanupVars>>
     \/ /\ part = "mesh" /\ \E d \in Meshes : mesh = d /\ Mesh(d)!Next
        /\ UNCHANGED <<vars, routeVars, dispatchVars, cleanupVars>>
     \/ /\ part = "router" /\ Router!Next
        /\ UNCHANGED <<vars, meshVars, dispatchVars, cleanupVars>>
     \/ /\ part = "bus" /\ Bus!Next
        /\ UNCHANGED <<vars, meshVars, routeVars, cleanupVars>>
     \/ /\ part = "cleanup" /\ CleanupNext
        /\ UNCHANGED <<vars, meshVars, routeVars, dispatchVars>>

AgentsSpec == AgentsInit /\ [][AgentsNext]_agentsVars

-----------------------------------------------------------------------------
(* The properties of each part, with the types of its variables; the       *)
(* modules of the parts say what code each conjunct is about.  Those of    *)
(* the loop keep their names; the others are said of the behaviours their  *)
(* part moves in, and in all others it never leaves its first state.       *)

(* An agent reported as registered is, a caller finds its own card in      *)
(* every answer, and without a token nobody is registered or said to be    *)
(* (executeOmnirouteHandshake, a2a_sync, require_bearer).                  *)
RegistrationsTrue ==
  part = "mesh" => \A d \in Meshes : mesh = d =>
    /\ Mesh(d)!TypeOK /\ Mesh(d)!ReportedIsRegistered /\ Mesh(d)!CallerIsEchoed
    /\ Mesh(d)!NoTokenNoCard

(* The card answered offers all that was required, none is answered only   *)
(* if none does, and of requests without repetitions the fewest surplus    *)
(* capabilities win (route).                                               *)
RoutesBest ==
  part = "router" =>
    /\ Router!TypeOK /\ Router!RouteServes
    /\ ~Repeats => Router!MostSpecializedWins

(* No layer is skipped, each published event reaches each follower once,   *)
(* and an event's consequences are contiguous behind it (Dispatcher::run). *)
EventsDelivered ==
  part = "bus" =>
    Bus!TypeOK /\ Bus!NoLayerSkipped /\ Bus!FollowUpsDelivered /\ Bus!DepthFirst

(* The preflight clears, and an executor is admitted over, only content    *)
(* that stood since it was proposed and approved and the worktree of the   *)
(* approval, and the ages of the documents bound how long a grant can be   *)
(* used (evaluateCleanupPreflight, admission of action-time evidence).     *)
CleanupAsApproved ==
  part = "cleanup" => \A d \in Cleanups : cleanup = d =>
    /\ Cleanup(d)!TypeOK
    /\ Cleanup(d)!ClearedContentStood /\ Cleanup(d)!ClearedSoon
    /\ Cleanup(d)!AdmittedContentStood

(* A PASS receipt means that the target lost what had to be reclaimed; an  *)
(* attempt cleans at most once and is canceled only before anything ran;   *)
(* and within this slice nothing is cleaned (EFFECT_TRANSITIONS,           *)
(* classifyCleanupEffectInterruption, validateCleanupEffectTransition, the *)
(* receipt's checks).                                                      *)
CleanupTells ==
  part = "cleanup" => \A d \in Cleanups : cleanup = d =>
    /\ Cleanup(d)!PassMeansRemoved /\ Cleanup(d)!SliceCleansNothing
    /\ Cleanup(d)!CanceledMeansUntouched /\ Cleanup(d)!EffectAtMostOnce
=============================================================================
