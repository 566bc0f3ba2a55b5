-------------------------------- MODULE A2aMesh --------------------------------
(***************************************************************************)
(* Delta sync between a control plane (a2a_sync in                         *)
(* crates/sirinx-control/src/lib.rs) and its callers: the live             *)
(* registration of the dev control API                                     *)
(* (services/dev-control-api/src/a2a-live-sync.mjs, driven by              *)
(* executeOmnirouteHandshake), and peer nodes, which are external.  Cards  *)
(* live in the control plane's memory, pending work in its Store.  A       *)
(* request may be lost, refused, abandoned by its caller's timeout and     *)
(* still processed, or fail after it registered its card.                  *)
(***************************************************************************)
EXTENDS Naturals, FiniteSets

CONSTANTS
  Agents,       \* agents of the OmniRoute lanes; every lane has one agent
  Peers,        \* external nodes
  Self,         \* the control plane's own card
  Work,         \* pending-work items
  Bearer,       \* whether the registrar's fetch sends the control plane's
                \* token: only an injected options.fetchImpl can
  MaxWire,      \* bound: requests between caller and answer
  MaxRestarts   \* bound: restarts of the control plane

MeshAssumption ==
  /\ Agents \intersect Peers = {} /\ Self \notin Agents \union Peers
  /\ Bearer \in BOOLEAN /\ MaxRestarts \in Nat /\ MaxWire \in Nat

VARIABLES
  cards,     \* ids of the registered cards (ControlState.omniroute)
  work,      \* the pending work in the Store
  wire,      \* the sync requests somewhere between caller and answer
  known,     \* the work each peer knows
  report,    \* the latest handshake or sync-lanes call and what it answered
  restarts

vars == <<cards, work, wire, known, report, restarts>>

Callers == Agents \union Peers
Stages == {"sent", "listing", "answered", "failed"}
Requests == [from : Callers, knew : SUBSET Work, awaited : BOOLEAN, at : Stages,
             missing : SUBSET Work, echo : SUBSET (Callers \union {Self})]

(* The request body: the caller's card and the ids it already knows; the   *)
(* registrar sends knownWorkIds: [].                                       *)
Request(c) == [from |-> c, knew |-> IF c \in Peers THEN known[c] ELSE {},
               awaited |-> TRUE, at |-> "sent", missing |-> {}, echo |-> {}]

NoReport == [op |-> "none", targets |-> {}, pending |-> {}, ok |-> {},
             status |-> "none", restarted |-> FALSE]

Init == /\ cards = {Self}
        /\ work = {}
        /\ wire = {}
        /\ known = [p \in Peers |-> {}]
        /\ report = NoReport
        /\ restarts = 0

-----------------------------------------------------------------------------
(* The callers.                                                            *)

(* A peer syncs; it has one request on the wire at a time.                 *)
PeerSync(p) ==
  /\ \A r \in wire : r.from # p
  /\ wire' = wire \union {Request(p)}
  /\ UNCHANGED <<cards, work, known, report, restarts>>

CanStart == report.status # "syncing"

(* executeOmnirouteHandshake with dryRun false: the target lanes it does   *)
(* not know are filtered out, and the agents of the others are registered  *)
(* at once (syncAgentIds).                                                 *)
Handshake(T) ==
  /\ CanStart /\ Cardinality(wire) + Cardinality(T) <= MaxWire
  /\ wire' = wire \union {Request(a) : a \in T}
  /\ report' = [op |-> "handshake", targets |-> T, pending |-> T, ok |-> {},
                status |-> "syncing", restarted |-> FALSE]
  /\ UNCHANGED <<cards, work, known, restarts>>

(* POST /api/a2a-live-sync/sync-lanes that names lanes: syncLanes reads a  *)
(* list the other module does not export, throws, and the route answers    *)
(* 503.                                                                    *)
SyncLanes(T) ==
  /\ CanStart /\ T # {}
  /\ report' = [op |-> "lanes", targets |-> T, pending |-> {}, ok |-> {},
                status |-> "threw", restarted |-> FALSE]
  /\ UNCHANGED <<cards, work, wire, known, restarts>>

(* The call of caller c settles, with result.ok or without.                *)
Settled(c, ok) ==
  report' = IF c \in report.pending
            THEN [report EXCEPT !.pending = @ \ {c},
                                !.ok = IF ok THEN @ \union {c} ELSE @]
            ELSE report

(* registerAgentWithControl: response.ok.                                  *)
Succeeded(r) == r.at = "answered"

(* A peer adds the missing items to what it knew.                          *)
Merged(r) == known[r.from] \union r.missing

(* The answer reaches its caller.  One nobody waits for is discarded.      *)
Answer(r) ==
  /\ r.at \in {"answered", "failed"}
  /\ wire' = wire \ {r}
  /\ IF r.awaited THEN Settled(r.from, Succeeded(r)) ELSE UNCHANGED report
  /\ known' = IF r.from \in Peers /\ r.at = "answered"
              THEN [known EXCEPT ![r.from] = Merged(r)] ELSE known
  /\ UNCHANGED <<cards, work, restarts>>

(* The registrar's timer aborts the fetch; the control plane may not       *)
(* notice.                                                                 *)
Timeout(r) ==
  /\ r.from \in Agents /\ r.awaited
  /\ wire' = (wire \ {r}) \union {[r EXCEPT !.awaited = FALSE]}
  /\ Settled(r.from, FALSE)
  /\ UNCHANGED <<cards, work, known, restarts>>

(* The connection breaks, or the control plane notices that the caller has *)
(* gone and drops the handler where it stands.                             *)
Break(r) ==
  /\ wire' = wire \ {r}
  /\ IF r.awaited THEN Settled(r.from, FALSE) ELSE UNCHANGED report
  /\ UNCHANGED <<cards, work, known, restarts>>

(* Mutant: every lane settled counts as every lane registered.             *)
AllSettled == report.pending = {}

(* allLiveSync: every handshake lane is liveSyncComplete.                  *)
AllLiveSync == report.targets \subseteq report.ok

(* Promise.allSettled has every result; executeOmnirouteHandshake reports. *)
Report ==
  /\ report.status = "syncing" /\ report.pending = {}
  /\ report' = [report EXCEPT !.status = IF AllLiveSync THEN "live-synced"
                                         ELSE IF report.ok # {} THEN "partial"
                                         ELSE "unverified"]
  /\ UNCHANGED <<cards, work, wire, known, restarts>>

-----------------------------------------------------------------------------
(* The control plane.                                                      *)

Advance(r, s) == wire' = (wire \ {r}) \union {s}

(* a2a_sync: the card is registered before anything that can fail.         *)
Receive(r) ==
  /\ r.at = "sent" /\ (r.from \in Peers \/ Bearer)
  /\ cards' = cards \union {r.from}
  /\ Advance(r, [r EXCEPT !.at = "listing"])
  /\ UNCHANGED <<work, known, report, restarts>>

(* require_bearer: 401, or 503 where no token is configured.               *)
Refuse(r) ==
  /\ r.at = "sent" /\ r.from \in Agents /\ ~Bearer
  /\ Advance(r, [r EXCEPT !.at = "failed"])
  /\ UNCHANGED <<cards, work, known, report, restarts>>

(* diff_work.                                                              *)
diff_work(knew) == work \ knew

(* The Store answers; the cards are read after it.                         *)
List(r) ==
  /\ r.at = "listing"
  /\ Advance(r, [r EXCEPT !.at = "answered", !.missing = diff_work(r.knew),
                          !.echo = cards])
  /\ UNCHANGED <<cards, work, known, report, restarts>>

(* The Store fails: 500, although the card stays registered.               *)
ListFails(r) ==
  /\ r.at = "listing"
  /\ Advance(r, [r EXCEPT !.at = "failed"])
  /\ UNCHANGED <<cards, work, known, report, restarts>>

(* add_pending.                                                            *)
AddPending(w) ==
  /\ w \notin work
  /\ work' = work \union {w}
  /\ UNCHANGED <<cards, wire, known, report, restarts>>

(* The control plane restarts: the cards and every handler are gone, the   *)
(* callers see their connections break.                                    *)
Restart ==
  /\ restarts < MaxRestarts
  /\ restarts' = restarts + 1
  /\ cards' = {Self}
  /\ wire' = {}
  /\ report' = [report EXCEPT !.pending = {}, !.restarted = report.status # "none"]
  /\ UNCHANGED <<work, known>>

-----------------------------------------------------------------------------
Plane(r) == Receive(r) \/ Refuse(r) \/ List(r) \/ ListFails(r)

Next ==
  \/ \E p \in Peers : PeerSync(p)
  \/ \E T \in SUBSET Agents : Handshake(T) \/ SyncLanes(T)
  \/ \E r \in wire : Answer(r) \/ Timeout(r) \/ Break(r) \/ Plane(r)
  \/ \E w \in Work : AddPending(w)
  \/ Report \/ Restart

(* What is promised to be scheduled: the event loops of both processes.    *)
(* The peers are external: they keep syncing, and the network and the      *)
(* Store do not fail a peer for ever.                                      *)
PeerAnswered(p) ==
  \E r \in wire : r.from = p /\ r.at = "answered" /\ Answer(r)

Fairness ==
  /\ WF_vars(Report)
  /\ \A a \in Agents : WF_vars(\E r \in wire : r.from = a /\ r.awaited
                                               /\ (Answer(r) \/ Timeout(r) \/ Break(r)))
  /\ \A p \in Peers : /\ WF_vars(PeerSync(p)) /\ SF_vars(PeerAnswered(p))
                      /\ SF_vars(\E r \in wire : r.from = p /\ Receive(r))
                      /\ SF_vars(\E r \in wire : r.from = p /\ List(r))
                      /\ WF_vars(\E r \in wire : r.from = p /\ r.at = "failed" /\ Answer(r))

Spec == Init /\ [][Next]_vars
FairSpec == Spec /\ Fairness

-----------------------------------------------------------------------------
(* The type of the state.  A call the handshake waits for is on the wire.  *)
TypeOK ==
  /\ cards \subseteq Callers \union {Self} /\ Self \in cards
  /\ work \subseteq Work
  /\ wire \subseteq Requests
  /\ known \in [Peers -> SUBSET Work]
  /\ report \in [op : {"none", "handshake", "lanes"}, targets : SUBSET Agents,
                 pending : SUBSET Agents, ok : SUBSET Agents,
                 status : {"none", "syncing", "threw", "live-synced", "partial",
                           "unverified"}, restarted : BOOLEAN]
  /\ restarts \in 0..MaxRestarts
  /\ \A a \in report.pending : \E r \in wire : r.from = a /\ r.awaited

(* "Registered n/n agent(s) via Rust A2A control plane"                    *)
(* (a2a-omniroute.mjs:1018): an agent a handshake reports as registered is *)
(* registered, whatever timeouts, failures and late requests the other     *)
(* agents met, unless the control plane restarted since.                   *)
ReportedIsRegistered ==
  report.op = "handshake" /\ ~report.restarted =>
    /\ report.ok \subseteq cards
    /\ report.status = "live-synced" => report.targets \subseteq cards

(* "every card this node knows (including the peer's, echoed)"             *)
(* (a2a lib.rs:104): the caller finds its own card in every answer.        *)
CallerIsEchoed == \A r \in wire : r.at = "answered" => {Self, r.from} \subseteq r.echo

(* "this gives eventual consistency across Mac, PC, and cloud nodes" (a2a  *)
(* lib.rs:15): an item taken in reaches every peer that keeps syncing,     *)
(* although answers are computed from what the peer knew when it asked,    *)
(* requests are lost and the Store fails.                                  *)
EveryPeerCatchesUp == \A w \in Work, p \in Peers : w \in work ~> w \in known[p]

(* No Authorization header is sent by the routes of the dev control API    *)
(* (a2a-live-sync.mjs:98), and the control plane refuses every /api call   *)
(* without one: nobody is registered and nobody is reported to be.         *)
NoTokenNoCard == ~Bearer => cards \intersect Agents = {} /\ report.ok = {}

(* "resolves lane IDs to agent IDs using OMNIROUTE_LANES"                  *)
(* (a2a-live-sync.mjs:177): a request that names lanes is not lost to an   *)
(* error of its own.                                                       *)
LanesResolve == report.op = "lanes" => report.status # "threw"

(* "All target lanes are live-synced with the Rust A2A control plane.      *)
(* Agents are registered and discoverable" (a2a-omniroute.mjs:1078): a     *)
(* handshake that says so registered at least one agent.                   *)
LiveSyncRegisters == report.status = "live-synced" => report.ok # {}
=============================================================================
