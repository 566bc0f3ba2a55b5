------------------------------ MODULE MCLiveness ------------------------------
(***************************************************************************)
(* What must eventually happen, for the components whose code schedules it.*)
(* Every part starts and one of them moves; no part reads or writes a      *)
(* variable of another.  As one part moves, the fairness of all parts is   *)
(* stated together: the i-th process of the part that moves is fair.       *)
(***************************************************************************)
EXTENDS Naturals

CONSTANT None

VARIABLES
  part,
  store, gates, overrides, decisions, ask, pc, rows, outcome, lateWrites,
  restarts, everOpen, unpersisted,
  proc, clock, stateFile, lock, mgr, struck, psAnswers,
  req, cache, calls, gateOpen, openSince, wire, delivered, now,
  botRestarts,
  step, kind, child, closed, spawnErr, buffer, outBytes, errBytes, draft,
  report, resolutions, first,
  url, active, time, gate, stored, press, posted,
  registered, start, queue, outputs, result,
  configured, up, leads, audits, leadQueue, notified, call, form, tries, told, faults,
  vault, since, notes, index, work, noon, torn, edits, syncFaults,
  row, followUps, create, request, leadLock, apiFaults,
  cards, items, syncs, known, handshake, meshRestarts

gatesVars == <<store, gates, overrides, decisions, ask, pc, rows, outcome,
               lateWrites, restarts, everOpen, unpersisted>>
stackVars == <<proc, clock, stateFile, lock, mgr, struck, psAnswers>>
deliveryVars == <<req, cache, calls, gateOpen, openSince, wire, delivered,
                  now, botRestarts>>
probeVars == <<step, kind, child, closed, spawnErr, buffer, outBytes,
               errBytes, draft, report, resolutions, first>>
guardVars == <<url, active, time, gate, stored, press, posted>>
busVars == <<registered, start, queue, outputs, result>>
siteVars == <<configured, up, leads, audits, leadQueue, notified, call, form, tries,
              told, faults>>
brainVars == <<vault, since, notes, index, work, noon, torn, edits, syncFaults>>
serviceVars == <<row, followUps, create, request, leadLock, apiFaults>>
meshVars == <<cards, items, syncs, known, handshake, meshRestarts>>
all == <<part, gatesVars, stackVars, deliveryVars, probeVars, guardVars, busVars,
         siteVars, brainVars, serviceVars, meshVars>>

-----------------------------------------------------------------------------
Gates == INSTANCE ControlGates WITH
  Nodes <- {"n1"}, Gates <- {"telegram_send"}, ValidTickets <- {"TG-1"},
  InvalidTickets <- {"T-1"}, Requests <- 1..2, MaxRestarts <- 1

Stack == INSTANCE TelegramStack WITH
  Services <- <<"rustControl">>, Gatekeeper <- "rustControl", Other <- "other",
  Pids <- {"p1"}, Managers <- {"m1", "m2"}, Commands <- {"start", "stop", "status"},
  MaxStarts <- 1, MaxFlakyStarts <- 1

Delivery == INSTANCE TelegramDelivery WITH
  Requests <- 1..2, Keys <- {"k1"}, Texts <- {"t1"},
  Unrouted <- {}, Malformed <- {}, NoBody <- None,
  MaxEntries <- [p \in {"send", "plan"} |-> 1], TTL <- 1,
  MaxNow <- 0, MaxRestarts <- 1,
  restarts <- botRestarts

Probe == INSTANCE AcpProbe WITH
  Kinds <- {"initialize", "preflight"}, OutputLimit <- 2, MaxChunks <- 3,
  pc <- step

Guard == INSTANCE SellerGuard WITH
  Tabs <- {"t1", "t2"}, Pages <- {"p1"}, pathname <- [p \in {"p1"} |-> "route"],
  Elsewhere <- "elsewhere", Requests <- {1}, MaxAge <- 0, MaxNow <- 0,
  now <- time, req <- press, sent <- posted

Bus == INSTANCE Dispatcher WITH
  Agents <- {1, 17, 18, 44}

Site == INSTANCE LeadSite WITH
  Visitors <- {1, 2}, Partners <- {2}, MaxTries <- 2, MaxFaults <- 1,
  queue <- leadQueue

Brain == INSTANCE BrainSync WITH
  Nodes <- 1..2, Paths <- {"plan"}, Limit <- 1, MaxAtWork <- 2, MaxEdits <- 2,
  MaxFaults <- 1,
  rows <- notes, clock <- noon, faults <- syncFaults

Service == INSTANCE LeadService WITH
  Leads <- {"lead"}, Agents <- 1..2, MaxFaults <- 0,
  work <- followUps, lock <- leadLock, faults <- apiFaults

Mesh == INSTANCE A2aMesh WITH
  Agents <- {"a1"}, Peers <- {"p1"}, Self <- "self", Work <- {"w1"},
  Bearer <- TRUE, MaxWire <- 2, MaxRestarts <- 1,
  work <- items, wire <- syncs, report <- handshake, restarts <- meshRestarts

-----------------------------------------------------------------------------
ASSUME /\ Probe!ProbeAssumption /\ Guard!GuardAssumption /\ Bus!AgentsInRoster
       /\ Site!LeadSiteAssumption /\ Brain!BrainSyncAssumption
       /\ Service!LeadServiceAssumption /\ Mesh!MeshAssumption

-----------------------------------------------------------------------------
Parts == {"gates", "stack", "delivery", "probe", "guard", "bus", "site", "brain",
          "service", "mesh"}

(* A part that does not move has its first state fixed.                    *)
LiveInit ==
  /\ part \in Parts
  /\ Gates!Init
  /\ part = "gates" \/ /\ ask = [r \in 1..2 |-> CHOOSE a \in Gates!Asks : a.kind = "read"]
                       /\ store = [g \in {"telegram_send"} |-> Gates!Hold]
  /\ Stack!Init /\ ~psAnswers
  /\ part = "stack" \/ /\ stateFile = Stack!Missing
                       /\ mgr = [m \in {"m1", "m2"} |-> Stack!Idle("status")]
  /\ Delivery!Init /\ (part = "delivery" \/ ~gateOpen)
  /\ Probe!Init /\ (part = "probe" \/ kind = "initialize")
  /\ Guard!Init
  /\ part = "guard" \/ /\ ~gate /\ active = "t1"
                       /\ url = [t \in {"t1", "t2"} |-> "elsewhere"]
  /\ Bus!Init /\ (part = "bus" \/ (registered = {} /\ start = 1))
  /\ Site!Init /\ configured /\ (part = "site" \/ up)
  /\ Brain!Init /\ Service!Init /\ Mesh!Init

OnePart ==
  /\ UNCHANGED part
  /\ IF part = "gates" THEN TRUE ELSE UNCHANGED gatesVars
  /\ IF part = "stack" THEN TRUE ELSE UNCHANGED stackVars
  /\ IF part = "delivery" THEN TRUE ELSE UNCHANGED deliveryVars
  /\ IF part = "probe" THEN TRUE ELSE UNCHANGED probeVars
  /\ IF part = "guard" THEN TRUE ELSE UNCHANGED guardVars
  /\ IF part = "bus" THEN TRUE ELSE UNCHANGED busVars
  /\ IF part = "site" THEN TRUE ELSE UNCHANGED siteVars
  /\ IF part = "brain" THEN TRUE ELSE UNCHANGED brainVars
  /\ IF part = "service" THEN TRUE ELSE UNCHANGED serviceVars
  /\ IF part = "mesh" THEN TRUE ELSE UNCHANGED meshVars

LiveNext ==
  /\ \/ part = "gates" /\ Gates!Next
     \/ part = "stack" /\ Stack!Next
     \/ part = "delivery" /\ Delivery!Next
     \/ part = "probe" /\ Probe!Next
     \/ part = "guard" /\ Guard!Next
     \/ part = "bus" /\ Bus!Next
     \/ part = "site" /\ Site!Next
     \/ part = "brain" /\ Brain!Next
     \/ part = "service" /\ Service!Next
     \/ part = "mesh" /\ Mesh!Next
  /\ OnePart

-----------------------------------------------------------------------------
(* What is scheduled.  Handlers, event loops and timers of the code run    *)
(* on; a database grants a row lock to a waiter; a peer keeps syncing and  *)
(* is not failed by the network for ever.  The modules of the parts state  *)
(* each on its own as Spec or FairSpec.                                    *)
Runs(i) ==
  /\ \/ part = "gates" /\ i \in 1..2 /\ Gates!Step(i)
     \/ part = "stack" /\ i \in 1..2 /\ Stack!Step(<<"m1", "m2">>[i])
     \/ part = "delivery" /\ i \in 1..2 /\ Delivery!Handler(i)
     \/ /\ part = "probe"
        /\ \/ i = 1 /\ (Probe!Spawn \/ Probe!SpawnThrows \/ Probe!SpawnWithoutPipes
                        \/ Probe!Refuse)
           \/ i = 2 /\ Probe!OnTimeout
           \/ i = 3 /\ Probe!OnGrace
     \/ part = "guard" /\ i = 1 /\ Guard!Step(1)
     \/ part = "bus" /\ i = 1 /\ Bus!Next
     \/ part = "site" /\ i \in 1..2 /\ Site!Serve(i)
     \/ /\ part = "brain"
        /\ \/ i \in 1..2 /\ Brain!Send(i)
           \/ i \in 3..4 /\ Brain!Serve(i - 2)
     \/ /\ part = "service"
        /\ \/ i \in 1..2 /\ Service!Update(i)
           \/ i = 3 /\ (Service!Insert("lead") \/ Service!Enqueue("lead"))
     \/ /\ part = "mesh"
        /\ \/ i = 1 /\ Mesh!Report
           \/ i = 2 /\ \E r \in syncs : r.from = "a1" /\ r.awaited
                        /\ (Mesh!Answer(r) \/ Mesh!Timeout(r) \/ Mesh!Break(r))
           \/ i = 3 /\ Mesh!PeerSync("p1")
           \/ i = 4 /\ \E r \in syncs : r.from = "p1" /\ r.at = "failed" /\ Mesh!Answer(r)
  /\ OnePart

RunsAgain(i) ==
  /\ \/ /\ part = "service" /\ i \in 1..2
        /\ Service!Select(i) \/ Service!Missing(i) \/ Service!Conflict(i)
     \/ /\ part = "mesh"
        /\ \/ i = 1 /\ Mesh!PeerAnswered("p1")
           \/ i = 2 /\ \E r \in syncs : r.from = "p1" /\ Mesh!Receive(r)
           \/ i = 3 /\ \E r \in syncs : r.from = "p1" /\ Mesh!List(r)
  /\ OnePart

LiveSpec ==
  /\ LiveInit /\ [][LiveNext]_all
  /\ WF_all(Runs(1)) /\ WF_all(Runs(2)) /\ WF_all(Runs(3)) /\ WF_all(Runs(4))
  /\ SF_all(RunsAgain(1)) /\ SF_all(RunsAgain(2)) /\ SF_all(RunsAgain(3))

-----------------------------------------------------------------------------
(* Who waits: for a gate decision, an action or a read of the gates; for a *)
(* live send, also one that waits for another's; for the answer to a lead  *)
(* form or to a change of a lead's status; for a handshake.                *)
Waiting(i) ==
  \/ pc[i] \notin {"idle", "done"}
  \/ req[i].pc \notin {"new", "done", "lost"}
  \/ form[i] = "sent"
  \/ Service!IsWaiting(i)
  \/ i = 1 /\ handshake.status = "syncing"

(* Whoever waits is answered: no handler leaves gate_decisions locked      *)
(* (decide_gate, run_action), no promise of a replay cache stays unsettled *)
(* (makeRoom and its waiters), no form or row lock is waited for in vain   *)
(* (lead.submit, update_lead_status), and the timer of a registration ends *)
(* a handshake (registerAgentWithControl).                                 *)
EveryRequestAnswered == \A i \in 1..2 : Waiting(i) ~> ~Waiting(i)

(* What was started comes to its end: a command of the stack manager, all  *)
(* of whose waits have deadlines; a probe of an ACP agent, whatever its    *)
(* child does; a press in the seller guard; and a run of the dispatcher,   *)
(* whose follow-ups only go down.                                          *)
EveryRunEnds ==
  <>(/\ part = "stack" => \A m \in {"m1", "m2"} : Stack!Exited(m)
     /\ part = "probe" => step = "resolved"
     /\ part = "guard" => press[1].pc = "done"
     /\ part = "bus" => result # "running")

(* Who keeps syncing catches up: the edge with every vault, whatever races *)
(* and breaks (handleSync), and every peer with the pending work           *)
(* (a2a_sync).                                                             *)
PeersCatchUp == Brain!EdgeCatchesUp /\ Mesh!EveryPeerCatchesUp
=============================================================================
