---------------------------- MODULE ControlGates ----------------------------
(***************************************************************************)
(* Release gates on several control nodes that share one Store.            *)
(*                                                                         *)
(* Source: crates/sirinx-control/src/lib.rs.  Each node keeps a cache of   *)
(* the gates, a set of local hold overrides and one async mutex,           *)
(* gate_decisions, that a handler holds across its Store call.  A handler  *)
(* is a sequence of steps: it waits for the mutex, changes local state,    *)
(* awaits the Store (the other nodes' handlers run meanwhile), and applies *)
(* the answer.  It may end early at any of its awaits: the Store reports   *)
(* an error, or the client goes away and the handler is dropped.  Either   *)
(* way a write that was sent may have been applied, or be applied later.   *)
(* A node may crash and load again.                                        *)
(*                                                                         *)
(* Data abstraction: a ticket is valid for a gate or not; names of gates   *)
(* that are not among the default ones are answered 404 without effect and *)
(* are left out, as are requests without the bearer token.                 *)
(***************************************************************************)
EXTENDS Naturals

CONSTANTS
  Nodes,
  Gates,            \* DEFAULT_GATES
  ValidTickets,     \* tickets that satisfy a gate's open policy
  InvalidTickets,   \* tickets that do not (an unprefixed telegram ticket)
  Requests,         \* the HTTP requests of one behaviour, each handled once
  MaxRestarts,      \* bound on node restarts
  None

ASSUME GateConstants ==
  /\ MaxRestarts \in Nat
  /\ None \notin Nodes \cup Requests \cup ValidTickets \cup InvalidTickets
  /\ ValidTickets \cap InvalidTickets = {}

Tickets == ValidTickets \cup InvalidTickets

(* Gate: a state, and the ticket that justifies an open one.               *)
Hold == [state |-> "hold", ticket |-> None]
Open(ticket) == [state |-> "open", ticket |-> ticket]
NoRow == [state |-> "absent", ticket |-> None]

StoredGate == {NoRow, Hold} \cup {Open(t) : t \in Tickets}

(* The decisions that pass the ticket check of decide_gate; the others are *)
(* answered 422 before they reach the mutex.                               *)
Decision == {Hold} \cup {Open(t) : t \in ValidTickets}

(* What clients may ask of a node: decide a gate, run an action behind it, *)
(* or read the gates (list_gates, metrics and readiness).                  *)
Asks ==
  [kind : {"decide"}, node : Nodes, gate : Gates, row : Decision]
  \cup [kind : {"action", "read"}, node : Nodes, gate : Gates, row : {NoRow}]

VARIABLES
  store,        \* the shared rows: gate -> row
  gates,        \* node -> gate -> the cached row
  overrides,    \* node -> gates held locally (local_hold_overrides)
  decisions,    \* node -> the request that holds gate_decisions
  ask,          \* request -> what it asks
  pc,           \* request -> how far its handler got
  rows,         \* request -> the rows the Store answered it with
  outcome,      \* request -> what the client is told
  lateWrites,   \* requests whose handler ended with its write in flight
  restarts,     \* restarts so far
  everOpen,     \* history: requests during whose life the gate was open
  unpersisted   \* history: node -> gates held there and not decided since

nodeVars == <<gates, overrides, decisions>>
requestVars == <<ask, pc, rows, outcome>>
vars == <<store, nodeVars, requestVars, lateWrites, restarts, everOpen,
          unpersisted>>

Ended == {"idle", "done"}
NoRows == [g \in Gates |-> NoRow]

(* authoritative_gate and refresh_gate_snapshot on one stored row: an open *)
(* row counts only with a valid ticket, a missing row is a hold.           *)
Effective(row) ==
  IF row.state = "open" /\ row.ticket \in ValidTickets THEN row ELSE Hold

IsOpen(row) == Effective(row).state = "open"

(* The unfinished requests whose gate is open in the given rows.           *)
NowOpen(table) ==
  {r \in Requests : pc[r] \notin Ended /\ IsOpen(table[ask[r].gate])}

(* The handler of r ends and drops its guard of gate_decisions.            *)
Finish(r, told) ==
  /\ pc' = [pc EXCEPT ![r] = "done"]
  /\ rows' = [rows EXCEPT ![r] = NoRows]
  /\ outcome' = [outcome EXCEPT ![r] = told]
  /\ decisions' = [n \in Nodes |-> IF decisions[n] = r THEN None ELSE decisions[n]]
  /\ UNCHANGED ask

-----------------------------------------------------------------------------
(* load_with_persistence: what a node knows after it started.              *)
LoadedGates == [g \in Gates |-> Effective(store[g])]

Init ==
  /\ store \in [Gates -> StoredGate]
  /\ gates = [n \in Nodes |-> LoadedGates]
  /\ overrides = [n \in Nodes |-> {}]
  /\ decisions = [n \in Nodes |-> None]
  /\ ask \in [Requests -> Asks]
  /\ pc = [r \in Requests |-> "idle"]
  /\ rows = [r \in Requests |-> NoRows]
  /\ outcome = [r \in Requests |-> "none"]
  /\ lateWrites = {}
  /\ restarts = 0
  /\ everOpen = {}
  /\ unpersisted = [n \in Nodes |-> {}]

(* A request arrives at its node.                                          *)
Submit(r) ==
  /\ pc[r] = "idle"
  /\ pc' = [pc EXCEPT ![r] = "waiting"]
  /\ everOpen' = IF IsOpen(store[ask[r].gate]) THEN everOpen \cup {r} ELSE everOpen
  /\ UNCHANGED <<store, nodeVars, ask, rows, outcome, lateWrites, restarts,
                 unpersisted>>

(* gate_decisions.lock().await, and the Store call that follows it.        *)
LockAndCall(r) ==
  /\ pc[r] = "waiting"
  /\ decisions[ask[r].node] = None
  /\ decisions' = [decisions EXCEPT ![ask[r].node] = r]
  /\ pc' = [pc EXCEPT ![r] = "calling"]
  /\ UNCHANGED <<ask, rows, outcome>>

(* decide_gate up to its await: a hold applies locally first.              *)
BeginDecision(r) ==
  LET n == ask[r].node  g == ask[r].gate IN
  /\ ask[r].kind = "decide"
  /\ LockAndCall(r)
  /\ IF ask[r].row = Hold
     THEN /\ overrides' = [overrides EXCEPT ![n] = @ \cup {g}]
          /\ gates' = [gates EXCEPT ![n][g] = Hold]
          /\ unpersisted' = [unpersisted EXCEPT ![n] = @ \cup {g}]
     ELSE UNCHANGED <<overrides, gates, unpersisted>>
  /\ UNCHANGED <<store, lateWrites, restarts, everOpen>>

(* upsert_gate takes effect in the Store.                                  *)
UpsertGate(r) ==
  /\ ask[r].kind = "decide" /\ pc[r] = "calling"
  /\ store' = [store EXCEPT ![ask[r].gate] = ask[r].row]
  /\ pc' = [pc EXCEPT ![r] = "answered"]
  /\ everOpen' = everOpen \cup NowOpen(store')
  /\ UNCHANGED <<nodeVars, ask, rows, outcome, lateWrites, restarts,
                 unpersisted>>

(* decide_gate after its await: the override is lifted and the decision    *)
(* cached.                                                                 *)
FinishDecision(r) ==
  LET n == ask[r].node  g == ask[r].gate IN
  /\ ask[r].kind = "decide" /\ pc[r] = "answered"
  /\ overrides' = [overrides EXCEPT ![n] = @ \ {g}]
  /\ unpersisted' = [unpersisted EXCEPT ![n] = @ \ {g}]
  /\ gates' = [gates EXCEPT ![n][g] = ask[r].row]
  /\ Finish(r, "decided")
  /\ UNCHANGED <<store, lateWrites, restarts, everOpen>>

(* run_action behind a local override: held without asking the Store, so   *)
(* the guard is taken and dropped without an await between.                *)
DenyLocally(r) ==
  LET n == ask[r].node  g == ask[r].gate IN
  /\ ask[r].kind = "action" /\ pc[r] = "waiting"
  /\ decisions[n] = None
  /\ g \in overrides[n]
  /\ gates' = [gates EXCEPT ![n][g] = Hold]
  /\ Finish(r, "dry-run")
  /\ UNCHANGED <<store, overrides, lateWrites, restarts, everOpen, unpersisted>>

(* Mutant: the Store is asked whether or not the gate is held locally.     *)
BeginReadUnheld(r) ==
  /\ ask[r].kind \in {"action", "read"}
  /\ LockAndCall(r)
  /\ UNCHANGED <<store, gates, overrides, lateWrites, restarts, everOpen,
                 unpersisted>>

(* run_action without an override, and the snapshot readers, up to their   *)
(* await.                                                                  *)
BeginRead(r) ==
  /\ ask[r].kind \in {"action", "read"}
  /\ LockAndCall(r)
  /\ ask[r].kind = "action" => ask[r].gate \notin overrides[ask[r].node]
  /\ UNCHANGED <<store, gates, overrides, lateWrites, restarts, everOpen,
                 unpersisted>>

(* get_gate or list_gates reads the rows.                                  *)
ReadStore(r) ==
  /\ ask[r].kind \in {"action", "read"} /\ pc[r] = "calling"
  /\ rows' = [rows EXCEPT ![r] = store]
  /\ pc' = [pc EXCEPT ![r] = "answered"]
  /\ UNCHANGED <<store, nodeVars, ask, outcome, lateWrites, restarts, everOpen,
                 unpersisted>>

(* Mutant: the verdict comes from the node's cache, the row refreshes it.  *)
FinishActionCached(r) ==
  LET n == ask[r].node  g == ask[r].gate IN
  /\ ask[r].kind = "action" /\ pc[r] = "answered"
  /\ gates' = [gates EXCEPT ![n][g] = Effective(rows[r][g])]
  /\ Finish(r, IF IsOpen(gates[n][g]) THEN "executed" ELSE "dry-run")
  /\ UNCHANGED <<store, overrides, lateWrites, restarts, everOpen, unpersisted>>

(* run_action after its await: cache the authoritative row, then execute   *)
(* or return the dry run.                                                  *)
FinishAction(r) ==
  LET n == ask[r].node  g == ask[r].gate IN
  /\ ask[r].kind = "action" /\ pc[r] = "answered"
  /\ gates' = [gates EXCEPT ![n][g] = Effective(rows[r][g])]
  /\ Finish(r, IF IsOpen(rows[r][g]) THEN "executed" ELSE "dry-run")
  /\ UNCHANGED <<store, overrides, lateWrites, restarts, everOpen, unpersisted>>

(* Mutant: the snapshot is what the Store says.                            *)
SnapshotOfStore(n, table) == [g \in Gates |-> Effective(table[g])]

(* refresh_gate_snapshot: local holds win over the rows.                   *)
Snapshot(n, table) ==
  [g \in Gates |-> IF g \in overrides[n] THEN Hold ELSE Effective(table[g])]

FinishRead(r) ==
  LET n == ask[r].node
      snapshot == Snapshot(n, rows[r]) IN
  /\ ask[r].kind = "read" /\ pc[r] = "answered"
  /\ gates' = [gates EXCEPT ![n] = snapshot]
  /\ Finish(r, IF snapshot[ask[r].gate].state = "open"
               THEN "reported-open" ELSE "reported-held")
  /\ UNCHANGED <<store, overrides, lateWrites, restarts, everOpen, unpersisted>>

(* The writes that outlive the handlers of the given requests.             *)
InFlight(ending) == {r \in ending : ask[r].kind = "decide" /\ pc[r] = "calling"}

(* Mutant: an error path that leaves gate_decisions locked.                *)
AbortLocked(r) ==
  /\ pc[r] \notin Ended
  /\ lateWrites' = lateWrites \cup InFlight({r})
  /\ pc' = [pc EXCEPT ![r] = "done"]
  /\ rows' = [rows EXCEPT ![r] = NoRows]
  /\ outcome' = [outcome EXCEPT ![r] = "failed"]
  /\ UNCHANGED <<ask, store, nodeVars, restarts, everOpen, unpersisted>>

(* The Store call fails, its answer is lost, or the handler is dropped at  *)
(* an await because its client went away.                                  *)
Abort(r) ==
  /\ pc[r] \notin Ended
  /\ lateWrites' = lateWrites \cup InFlight({r})
  /\ Finish(r, "failed")
  /\ UNCHANGED <<store, gates, overrides, restarts, everOpen, unpersisted>>

(* A write sent by a handler that is gone takes effect.                    *)
LateUpsert(r) ==
  /\ r \in lateWrites
  /\ lateWrites' = lateWrites \ {r}
  /\ store' = [store EXCEPT ![ask[r].gate] = ask[r].row]
  /\ everOpen' = everOpen \cup NowOpen(store')
  /\ UNCHANGED <<nodeVars, requestVars, restarts, unpersisted>>

(* A node crashes and loads: nothing of its memory survives.               *)
Restart(n) ==
  LET lost == {r \in Requests : pc[r] \notin Ended /\ ask[r].node = n} IN
  /\ restarts < MaxRestarts
  /\ restarts' = restarts + 1
  /\ gates' = [gates EXCEPT ![n] = LoadedGates]
  /\ overrides' = [overrides EXCEPT ![n] = {}]
  /\ decisions' = [decisions EXCEPT ![n] = None]
  /\ pc' = [r \in Requests |-> IF r \in lost THEN "done" ELSE pc[r]]
  /\ rows' = [r \in Requests |-> IF r \in lost THEN NoRows ELSE rows[r]]
  /\ outcome' = [r \in Requests |-> IF r \in lost THEN "failed" ELSE outcome[r]]
  /\ lateWrites' = lateWrites \cup InFlight(lost)
  /\ UNCHANGED <<ask, store, everOpen, unpersisted>>

Step(r) ==
  \/ BeginDecision(r) \/ UpsertGate(r) \/ FinishDecision(r)
  \/ DenyLocally(r) \/ BeginRead(r) \/ ReadStore(r)
  \/ FinishAction(r) \/ FinishRead(r)

Next ==
  \/ \E r \in Requests : Submit(r)
  \/ \E r \in Requests : Step(r)
  \/ \E r \in Requests : Abort(r)
  \/ \E r \in Requests : LateUpsert(r)
  \/ \E n \in Nodes : Restart(n)

Spec == Init /\ [][Next]_vars

(* A handler whose next step stays possible takes it: the Store call it    *)
(* awaits returns.  Nothing forces clients to send requests, handlers to   *)
(* be aborted or nodes to crash.                                           *)
LiveSpec == Spec /\ \A r \in Requests : WF_vars(Step(r))

-----------------------------------------------------------------------------
(* Type correctness of the nodes' state, the Store and the requests.  What *)
(* a node caches is a hold or an open gate with a valid ticket, whatever   *)
(* rows the Store holds.                                                   *)
TypeOK ==
  /\ store \in [Gates -> StoredGate]
  /\ gates \in [Nodes -> [Gates -> Decision]]
  /\ overrides \in [Nodes -> SUBSET Gates]
  /\ decisions \in [Nodes -> Requests \cup {None}]
  /\ ask \in [Requests -> Asks]
  /\ pc \in [Requests -> {"idle", "waiting", "calling", "answered", "done"}]
  /\ rows \in [Requests -> [Gates -> StoredGate]]
  /\ outcome \in [Requests -> {"none", "decided", "executed", "dry-run",
                               "reported-open", "reported-held", "failed"}]
  /\ lateWrites \subseteq Requests
  /\ restarts \in 0..MaxRestarts
  /\ everOpen \subseteq Requests
  /\ unpersisted \in [Nodes -> SUBSET Gates]

(* An action is executed, and a gate is reported open, only if at some     *)
(* moment of that very request the shared Store held the gate open under a *)
(* valid ticket: a stale cache, a row with a bad ticket, a missing row, a  *)
(* decision taken on another node or a restart never authorizes            *)
(* (run_action, authoritative_gate, refresh_gate_snapshot).                *)
AuthorizedByStore ==
  \A r \in Requests :
    outcome[r] \in {"executed", "reported-open"} => r \in everOpen

(* What a step may not tell: on a node where a hold was decided and no     *)
(* decision on that gate has succeeded since, an action executes or a      *)
(* reader reports the gate open.                                           *)
HoldRespected ==
  \A r \in Requests :
    (/\ outcome'[r] \in {"executed", "reported-open"}
     /\ outcome[r] # outcome'[r])
      => ask[r].gate \notin unpersisted[ask[r].node]

(* What the comment on local_hold_overrides says: such a hold wins on its  *)
(* node, whatever happens to the node.                                     *)
LocalHoldWins == [][HoldRespected]_vars

(* While no node has restarted a local hold wins, whatever the Store says, *)
(* whether the hold's write was lost, was applied without an answer, or    *)
(* was overwritten by another node (local_hold_overrides).                 *)
HoldWinsUntilRestart == [][restarts = 0 => HoldRespected]_vars

(* Until then the cache a node serves through gate_state never shows a     *)
(* gate open that is held locally.                                         *)
CacheRespectsHold ==
  restarts = 0 =>
    \A n \in Nodes : \A g \in unpersisted[n] : gates[n][g].state = "hold"

(* Every request that arrives is answered: no handler leaves               *)
(* gate_decisions locked, on any path out of decide_gate, run_action or a  *)
(* reader, aborted and restarted ones included.                            *)
EveryRequestAnswered ==
  \A r \in Requests : pc[r] = "waiting" ~> pc[r] = "done"

=============================================================================
