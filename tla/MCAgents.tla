------------------------------- MODULE MCAgents -------------------------------
(***************************************************************************)
(* The instance of AgentServices that TLC checks.  One run of the loop     *)
(* with any goal, and two runs of one tool that teach each other; two      *)
(* agents registered by handshakes with room for a request nobody waits    *)
(* for, two beside a peer that syncs, and two without a token; a           *)
(* preflight, an admission, an admission on a disk that others use, with   *)
(* more happening around it, and one within the slice of the code that has *)
(* no executor.                                                            *)
(***************************************************************************)
EXTENDS AgentServices

CONSTANTS Single, Shared,                \* the two loads
          Handshakes, Syncing, Refused,  \* the three meshes
          Clearing, Admitting, Hurrying, Slicing  \* the four cleanups

(* The gate does not matter to a tool without side effects.                *)
Quoting == [agents : {<<"quote">>}, gate : {[mode |-> "dry_run", tools |-> {}]},
            budget : {2}, recovery : BOOLEAN]

MCStarters == [d \in {Single, Shared} |-> IF d = Single THEN {"r1"} ELSE Runs]
MCOffered == [d \in {Single, Shared} |-> IF d = Single THEN Goals ELSE Quoting]

(* One value for each mesh, one for each cleanup.                          *)
ByMesh(h, s, r) ==
  [d \in {Handshakes, Syncing, Refused} |->
     IF d = Handshakes THEN h ELSE IF d = Syncing THEN s ELSE r]
ByCleanup(c, a, h, s) ==
  [d \in {Clearing, Admitting, Hurrying, Slicing} |->
     CASE d = Clearing -> c [] d = Admitting -> a [] d = Hurrying -> h [] OTHER -> s]

MCLanes == ByMesh({"a1", "a2"}, {"a1", "a2"}, {"a1", "a2"})
MCPeers == ByMesh({}, {"p1"}, {})
MCWork == ByMesh({"w1"}, {"w1"}, {"w1"})
MCBearer == ByMesh(TRUE, TRUE, FALSE)
MCMaxWire == ByMesh(3, 2, 4)
MCMaxRestarts == ByMesh(1, 1, 1)

MCMaxTime == ByCleanup(3, 2, 2, 2)
MCMaxEvents == ByCleanup(1, 1, 2, 1)
MCLifetime == ByCleanup(2, 2, 1, 2)
MCDisk == ByCleanup(2, 3, 3, 2)

(* What getCleanupEffectTransitionDecision keeps out of the slice.         *)
NoExecutor == {"REQUESTING", "RUNNING", "VERIFYING", "CONFIRMED", "FAILED", "EFFECT_UNKNOWN"}
MCBoundary == ByCleanup({}, {}, {}, NoExecutor)

(* The space around the target: other programs hold some of it where more  *)
(* happens.                                                                *)
MCSpace ==
  IF cleanup = Hurrying THEN kib = 1 /\ free = 1
  ELSE kib \in 1..Disk[cleanup] /\ free = Disk[cleanup] - kib

(* The parts that do not move have one first state.                        *)
MCInit ==
  /\ part \in Parts
  /\ part = "loop" \/ load = Single
  /\ part = "mesh" \/ mesh = Handshakes
  /\ \/ part = "router"
     \/ table = [i \in Ids |-> IF i = Home THEN [caps |-> Caps, priority |-> 0, known |-> TRUE]
                              ELSE Router!NoCard]
  /\ part = "bus" \/ (registered = {} /\ start = 1)
  /\ cleanup \in IF part = "cleanup" THEN Cleanups ELSE {Slicing}
  /\ MCSpace /\ tree = "w1" /\ (part = "cleanup" \/ kib = 1)
  /\ AgentsInit

(* A cleanup is over with its receipt.                                     *)
MCNext == receipt = None /\ AgentsNext

MCSpec == MCInit /\ [][MCNext]_agentsVars
=============================================================================
