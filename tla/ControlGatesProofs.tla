------------------------- MODULE ControlGatesProofs -------------------------
(***************************************************************************)
(* Proofs about ControlGates, for any number of nodes, gates, tickets,     *)
(* requests and restarts.                                                  *)
(***************************************************************************)
EXTENDS ControlGates, TLAPS

(* An effective row is one a decision could have written.                  *)
LEMMA EffectiveType ==
  ASSUME NEW row \in StoredGate
  PROVE  Effective(row) \in Decision
BY DEF Effective, StoredGate, Decision, Hold, Open, NoRow

(* The absent table is a table.                                            *)
LEMMA NoRowsType == NoRows \in [Gates -> StoredGate]
BY DEF NoRows, StoredGate

(* What a request asks is well formed, and a decision may be stored.       *)
LEMMA AskType ==
  ASSUME NEW a \in Asks
  PROVE  /\ a.node \in Nodes /\ a.gate \in Gates
         /\ a.row \in StoredGate
         /\ a.kind = "decide" => a.row \in Decision
         /\ a.kind \in {"decide", "action", "read"}
<1>1. Decision \subseteq StoredGate
  BY DEF Decision, StoredGate, Tickets
<1>. QED BY <1>1 DEF Asks, StoredGate

Outcomes == {"none", "decided", "executed", "dry-run",
             "reported-open", "reported-held", "failed"}

(* How the end of a handler moves the request's own state.                 *)
LEMMA FinishType ==
  ASSUME TypeOK, NEW r \in Requests, NEW told \in Outcomes, Finish(r, told)
  PROVE  /\ decisions' \in [Nodes -> Requests \cup {None}]
         /\ ask' \in [Requests -> Asks]
         /\ pc' \in [Requests -> {"idle", "waiting", "calling", "answered", "done"}]
         /\ rows' \in [Requests -> [Gates -> StoredGate]]
         /\ outcome' \in [Requests -> Outcomes]
BY NoRowsType DEF TypeOK, Finish, Outcomes

(* Every table a node caches is made of effective rows.                    *)
LEMMA TableType ==
  ASSUME TypeOK
  PROVE  /\ LoadedGates \in [Gates -> Decision]
         /\ \A n \in Nodes, r \in Requests :
              Snapshot(n, rows[r]) \in [Gates -> Decision]
<1>1. \A g \in Gates : store[g] \in StoredGate
  BY DEF TypeOK
<1>2. \A r \in Requests, g \in Gates : rows[r][g] \in StoredGate
  BY DEF TypeOK
<1>3. Hold \in Decision
  BY DEF Decision
<1>. QED BY <1>1, <1>2, <1>3, EffectiveType DEF LoadedGates, Snapshot

(* The initial state is well typed.                                        *)
LEMMA InitType == Init => TypeOK
<1>. SUFFICES ASSUME Init PROVE TypeOK
  OBVIOUS
<1>1. LoadedGates \in [Gates -> Decision]
  BY EffectiveType DEF LoadedGates, Init
<1>. QED BY <1>1, NoRowsType, GateConstants DEF TypeOK, Init

(* Every step of a handler keeps the types.                                *)
LEMMA StepType ==
  ASSUME TypeOK, NEW r \in Requests, Step(r)
  PROVE  TypeOK'
<1>. USE DEF nodeVars, requestVars
<1>1. /\ ask[r] \in Asks /\ ask[r].node \in Nodes /\ ask[r].gate \in Gates
      /\ ask[r].row \in StoredGate
      /\ ask[r].kind = "decide" => ask[r].row \in Decision
  BY AskType DEF TypeOK
<1>2. Hold \in Decision
  BY DEF Decision
<1>3. CASE BeginDecision(r)
  <2>1. CASE ask[r].row = Hold
    <3>1. gates' \in [Nodes -> [Gates -> Decision]]
      <4>1. gates' = [gates EXCEPT ![ask[r].node][ask[r].gate] = Hold]
        BY <1>3, <2>1 DEF BeginDecision
      <4>. QED BY <1>1, <1>2, <4>1 DEF TypeOK
    <3>2. overrides' \in [Nodes -> SUBSET Gates]
      <4>1. overrides' = [overrides EXCEPT ![ask[r].node] = @ \cup {ask[r].gate}]
        BY <1>3, <2>1 DEF BeginDecision
      <4>. QED BY <1>1, <4>1 DEF TypeOK
    <3>3. unpersisted' \in [Nodes -> SUBSET Gates]
      <4>1. unpersisted' = [unpersisted EXCEPT ![ask[r].node] = @ \cup {ask[r].gate}]
        BY <1>3, <2>1 DEF BeginDecision
      <4>. QED BY <1>1, <4>1 DEF TypeOK
    <3>. QED BY <1>1, <1>3, <3>1, <3>2, <3>3
         DEF TypeOK, BeginDecision, LockAndCall
  <2>2. CASE ask[r].row # Hold
    BY <1>1, <1>3, <2>2 DEF TypeOK, BeginDecision, LockAndCall
  <2>. QED BY <2>1, <2>2
<1>4. CASE UpsertGate(r)
  BY <1>1, <1>4 DEF TypeOK, UpsertGate, NowOpen
<1>5. CASE FinishDecision(r)
  BY <1>1, <1>5, FinishType DEF TypeOK, FinishDecision, Outcomes
<1>6. CASE DenyLocally(r)
  BY <1>1, <1>2, <1>6, FinishType DEF TypeOK, DenyLocally, Outcomes
<1>7. CASE BeginRead(r)
  BY <1>1, <1>7 DEF TypeOK, BeginRead, LockAndCall
<1>8. CASE ReadStore(r)
  BY <1>1, <1>8 DEF TypeOK, ReadStore
<1>9. CASE FinishAction(r)
  <2>1. Effective(rows[r][ask[r].gate]) \in Decision
    BY <1>1, EffectiveType DEF TypeOK
  <2>. QED BY <1>1, <1>9, <2>1, FinishType DEF TypeOK, FinishAction, Outcomes
<1>10. CASE FinishRead(r)
  BY <1>1, <1>10, TableType, FinishType DEF TypeOK, FinishRead, Outcomes
<1>. QED BY <1>3, <1>4, <1>5, <1>6, <1>7, <1>8, <1>9, <1>10 DEF Step

(* Every step keeps the types.                                             *)
LEMMA NextType == TypeOK /\ [Next]_vars => TypeOK'
<1>. SUFFICES ASSUME TypeOK, [Next]_vars PROVE TypeOK'
  OBVIOUS
<1>. USE DEF nodeVars, requestVars
<1>1. CASE \E r \in Requests : Submit(r)
  BY <1>1 DEF TypeOK, Submit
<1>2. CASE \E r \in Requests : Step(r)
  BY <1>2, StepType
<1>3. CASE \E r \in Requests : Abort(r)
  BY <1>3, FinishType DEF TypeOK, Abort, InFlight, Outcomes
<1>4. CASE \E r \in Requests : LateUpsert(r)
  BY <1>4, AskType DEF TypeOK, LateUpsert, NowOpen
<1>5. CASE \E n \in Nodes : Restart(n)
  BY <1>5, TableType, NoRowsType, GateConstants DEF TypeOK, Restart, InFlight
<1>6. CASE UNCHANGED vars
  BY <1>6 DEF TypeOK, vars
<1>. QED BY <1>1, <1>2, <1>3, <1>4, <1>5, <1>6 DEF Next

(* Type correctness of the control plane, whatever its size.               *)
THEOREM GateTypeCorrect == Spec => []TypeOK
BY InitType, NextType, PTL DEF Spec

-----------------------------------------------------------------------------
(* Authorization.  AuthorizedByStore speaks of requests that are over; the *)
(* induction needs what an unfinished request has seen: it is in everOpen  *)
(* as soon as the Store shows its gate open, and the rows a reader was     *)
(* answered with show the gate open only then.                             *)
SeenOpen ==
  \A r \in Requests :
    pc[r] \notin Ended /\ IsOpen(store[ask[r].gate]) => r \in everOpen

AnsweredOpen ==
  \A r \in Requests :
    (/\ pc[r] = "answered" /\ ask[r].kind \in {"action", "read"}
     /\ IsOpen(rows[r][ask[r].gate]))
    => r \in everOpen

AuthorizationInv == SeenOpen /\ AnsweredOpen /\ AuthorizedByStore

(* A snapshot shows a gate open only if the rows do.                       *)
LEMMA SnapshotOpen ==
  ASSUME NEW n, NEW table, NEW g \in Gates, Snapshot(n, table)[g].state = "open"
  PROVE  IsOpen(table[g])
BY DEF Snapshot, IsOpen, Hold

(* Every step of a handler keeps AuthorizationInv.                         *)
LEMMA StepAuthorization ==
  ASSUME TypeOK, AuthorizationInv, NEW r \in Requests, Step(r)
  PROVE  AuthorizationInv'
<1>. USE DEF nodeVars, requestVars, Ended
<1>1. ask[r] \in Asks /\ ask[r].gate \in Gates /\ ask[r].node \in Nodes
  BY AskType DEF TypeOK
<1>3. CASE BeginDecision(r)
  BY <1>1, <1>3 DEF TypeOK, AuthorizationInv, SeenOpen, AnsweredOpen,
     AuthorizedByStore, BeginDecision, LockAndCall
<1>4. CASE UpsertGate(r)
  <2>1. SeenOpen'
    BY <1>1, <1>4 DEF TypeOK, AuthorizationInv, SeenOpen, UpsertGate, NowOpen
  <2>2. AnsweredOpen' /\ AuthorizedByStore'
    BY <1>1, <1>4 DEF TypeOK, AuthorizationInv, AnsweredOpen,
       AuthorizedByStore, UpsertGate
  <2>. QED BY <2>1, <2>2 DEF AuthorizationInv
<1>5. CASE FinishDecision(r)
  BY <1>1, <1>5 DEF TypeOK, AuthorizationInv, SeenOpen, AnsweredOpen,
     AuthorizedByStore, FinishDecision, Finish
<1>6. CASE DenyLocally(r)
  BY <1>1, <1>6 DEF TypeOK, AuthorizationInv, SeenOpen, AnsweredOpen,
     AuthorizedByStore, DenyLocally, Finish
<1>7. CASE BeginRead(r)
  BY <1>1, <1>7 DEF TypeOK, AuthorizationInv, SeenOpen, AnsweredOpen,
     AuthorizedByStore, BeginRead, LockAndCall
<1>8. CASE ReadStore(r)
  BY <1>1, <1>8 DEF TypeOK, AuthorizationInv, SeenOpen, AnsweredOpen,
     AuthorizedByStore, ReadStore
<1>9. CASE FinishAction(r)
  BY <1>1, <1>9 DEF TypeOK, AuthorizationInv, SeenOpen, AnsweredOpen,
     AuthorizedByStore, FinishAction, Finish
<1>10. CASE FinishRead(r)
  BY <1>1, <1>10, SnapshotOpen DEF TypeOK, AuthorizationInv, SeenOpen,
     AnsweredOpen, AuthorizedByStore, FinishRead, Finish
<1>. QED BY <1>3, <1>4, <1>5, <1>6, <1>7, <1>8, <1>9, <1>10 DEF Step

(* Every step keeps AuthorizationInv.                                      *)
LEMMA NextAuthorization ==
  TypeOK /\ AuthorizationInv /\ [Next]_vars => AuthorizationInv'
<1>. SUFFICES ASSUME TypeOK, AuthorizationInv, [Next]_vars
              PROVE  AuthorizationInv'
  OBVIOUS
<1>. USE DEF nodeVars, requestVars, Ended
<1>1. CASE \E r \in Requests : Submit(r)
  BY <1>1 DEF TypeOK, AuthorizationInv, SeenOpen, AnsweredOpen,
     AuthorizedByStore, Submit
<1>2. CASE \E r \in Requests : Step(r)
  BY <1>2, StepAuthorization
<1>3. CASE \E r \in Requests : Abort(r)
  BY <1>3 DEF TypeOK, AuthorizationInv, SeenOpen, AnsweredOpen,
     AuthorizedByStore, Abort, Finish
<1>4. CASE \E r \in Requests : LateUpsert(r)
  <2>1. SeenOpen'
    BY <1>4 DEF TypeOK, AuthorizationInv, SeenOpen, LateUpsert, NowOpen
  <2>2. AnsweredOpen' /\ AuthorizedByStore'
    BY <1>4 DEF TypeOK, AuthorizationInv, AnsweredOpen, AuthorizedByStore,
       LateUpsert
  <2>. QED BY <2>1, <2>2 DEF AuthorizationInv
<1>5. CASE \E n \in Nodes : Restart(n)
  BY <1>5 DEF TypeOK, AuthorizationInv, SeenOpen, AnsweredOpen,
     AuthorizedByStore, Restart
<1>6. CASE UNCHANGED vars
  BY <1>6 DEF AuthorizationInv, SeenOpen, AnsweredOpen, AuthorizedByStore, vars
<1>. QED BY <1>1, <1>2, <1>3, <1>4, <1>5, <1>6 DEF Next

(* No action executes and no gate is reported open unless the shared Store *)
(* held it open during that request, for any number of nodes, requests,    *)
(* aborted handlers, late writes and restarts (run_action).                *)
THEOREM Authorization == Spec => []AuthorizedByStore
<1>1. Init => AuthorizationInv
  BY DEF Init, AuthorizationInv, SeenOpen, AnsweredOpen, AuthorizedByStore,
     Ended
<1>2. AuthorizationInv => AuthorizedByStore
  BY DEF AuthorizationInv
<1>. QED BY <1>1, <1>2, InitType, NextType, NextAuthorization, PTL DEF Spec

-----------------------------------------------------------------------------
(* Local holds.  Between the handlers of one node gate_decisions gives     *)
(* mutual exclusion: who calls the Store or has its answer holds the       *)
(* guard, so no hold can begin between an action's look at the overrides   *)
(* and its verdict.                                                        *)
Guarded ==
  \A r \in Requests :
    pc[r] \in {"calling", "answered"} => decisions[ask[r].node] = r

ActionNotOverridden ==
  \A r \in Requests :
    pc[r] \in {"calling", "answered"} /\ ask[r].kind = "action"
      => ask[r].gate \notin overrides[ask[r].node]

OverridesAreUnpersisted == \A n \in Nodes : unpersisted[n] = overrides[n]

CacheHeld == \A n \in Nodes : \A g \in unpersisted[n] : gates[n][g].state = "hold"

HoldInv ==
  Guarded /\ ActionNotOverridden /\ OverridesAreUnpersisted /\ CacheHeld

(* A handler's end leaves the guards of the others alone.                  *)
LEMMA FinishGuarded ==
  ASSUME TypeOK, Guarded, NEW r \in Requests, NEW told, Finish(r, told)
  PROVE  Guarded'
<1>1. \A x \in Requests : ask[x].node \in Nodes /\ x # None
  BY AskType, GateConstants DEF TypeOK
<1>. QED BY <1>1 DEF TypeOK, Guarded, Finish

(* So does every other step of a handler.                                  *)
LEMMA StepGuarded ==
  ASSUME TypeOK, Guarded, NEW r \in Requests, Step(r)
  PROVE  Guarded'
<1>. USE DEF nodeVars, requestVars
<1>1. /\ ask[r] \in Asks /\ ask[r].node \in Nodes
      /\ \A x \in Requests : ask[x].node \in Nodes /\ x # None
  BY AskType, GateConstants DEF TypeOK
<1>2. CASE BeginDecision(r) \/ BeginRead(r)
  BY <1>1, <1>2 DEF TypeOK, Guarded, BeginDecision, BeginRead, LockAndCall
<1>3. CASE UpsertGate(r) \/ ReadStore(r)
  BY <1>1, <1>3 DEF TypeOK, Guarded, UpsertGate, ReadStore
<1>. QED BY <1>2, <1>3, FinishGuarded
     DEF Step, FinishDecision, DenyLocally, FinishAction, FinishRead

(* Every step of a handler keeps HoldInv.                                  *)
LEMMA StepHold ==
  ASSUME TypeOK, HoldInv, NEW r \in Requests, Step(r)
  PROVE  HoldInv'
<1>. USE DEF nodeVars, requestVars
<1>1. /\ ask[r] \in Asks /\ ask[r].node \in Nodes /\ ask[r].gate \in Gates
      /\ \A x \in Requests : ask[x].node \in Nodes /\ ask[x].gate \in Gates
  BY AskType DEF TypeOK
<1>2. Guarded'
  BY StepGuarded DEF HoldInv
<1>3. CASE BeginDecision(r)
  <2>1. \A x \in Requests \ {r} :
          pc[x] \in {"calling", "answered"} => ask[x].node # ask[r].node
    BY <1>1, <1>3, GateConstants DEF HoldInv, Guarded, BeginDecision, LockAndCall
  <2>2. CASE ask[r].row = Hold
    <3>1. /\ gates' = [gates EXCEPT ![ask[r].node][ask[r].gate] = Hold]
          /\ overrides' = [overrides EXCEPT ![ask[r].node] = @ \cup {ask[r].gate}]
          /\ unpersisted' =
               [unpersisted EXCEPT ![ask[r].node] = @ \cup {ask[r].gate}]
          /\ pc' = [pc EXCEPT ![r] = "calling"]
          /\ ask' = ask /\ ask[r].kind = "decide"
      BY <1>3, <2>2 DEF BeginDecision, LockAndCall
    <3>2. ActionNotOverridden'
      BY <1>1, <2>1, <3>1 DEF TypeOK, HoldInv, ActionNotOverridden
    <3>3. OverridesAreUnpersisted'
      BY <1>1, <3>1 DEF TypeOK, HoldInv, OverridesAreUnpersisted
    <3>4. CacheHeld'
      BY <1>1, <3>1 DEF TypeOK, HoldInv, CacheHeld, Hold
    <3>. QED BY <1>2, <3>2, <3>3, <3>4 DEF HoldInv
  <2>3. CASE ask[r].row # Hold
    BY <1>1, <1>2, <1>3, <2>3 DEF TypeOK, HoldInv, ActionNotOverridden,
       OverridesAreUnpersisted, CacheHeld, BeginDecision, LockAndCall
  <2>. QED BY <2>2, <2>3
<1>4. CASE UpsertGate(r) \/ ReadStore(r)
  BY <1>1, <1>2, <1>4 DEF TypeOK, HoldInv, ActionNotOverridden,
     OverridesAreUnpersisted, CacheHeld, UpsertGate, ReadStore
<1>5. CASE FinishDecision(r)
  <2>1. ActionNotOverridden'
    BY <1>1, <1>5 DEF TypeOK, HoldInv, ActionNotOverridden, FinishDecision, Finish
  <2>2. OverridesAreUnpersisted'
    BY <1>1, <1>5 DEF TypeOK, HoldInv, OverridesAreUnpersisted, FinishDecision
  <2>3. CacheHeld'
    BY <1>1, <1>5 DEF TypeOK, HoldInv, CacheHeld, FinishDecision
  <2>. QED BY <1>2, <2>1, <2>2, <2>3 DEF HoldInv
<1>6. CASE DenyLocally(r)
  <2>1. ActionNotOverridden' /\ OverridesAreUnpersisted'
    BY <1>1, <1>6 DEF TypeOK, HoldInv, ActionNotOverridden,
       OverridesAreUnpersisted, DenyLocally, Finish
  <2>2. CacheHeld'
    BY <1>1, <1>6 DEF TypeOK, HoldInv, CacheHeld, DenyLocally, Hold
  <2>. QED BY <1>2, <2>1, <2>2 DEF HoldInv
<1>7. CASE BeginRead(r)
  BY <1>1, <1>2, <1>7 DEF TypeOK, HoldInv, ActionNotOverridden,
     OverridesAreUnpersisted, CacheHeld, BeginRead, LockAndCall
<1>8. CASE FinishAction(r)
  <2>1. ActionNotOverridden' /\ OverridesAreUnpersisted'
    BY <1>1, <1>8 DEF TypeOK, HoldInv, ActionNotOverridden,
       OverridesAreUnpersisted, FinishAction, Finish
  <2>2. ask[r].gate \notin unpersisted[ask[r].node]
    BY <1>1, <1>8 DEF HoldInv, ActionNotOverridden, OverridesAreUnpersisted,
       FinishAction
  <2>3. CacheHeld'
    BY <1>1, <1>8, <2>2 DEF TypeOK, HoldInv, CacheHeld, FinishAction
  <2>. QED BY <1>2, <2>1, <2>3 DEF HoldInv
<1>9. CASE FinishRead(r)
  <2>1. ActionNotOverridden' /\ OverridesAreUnpersisted'
    BY <1>1, <1>9 DEF TypeOK, HoldInv, ActionNotOverridden,
       OverridesAreUnpersisted, FinishRead, Finish
  <2>2. \A g \in unpersisted[ask[r].node] :
          Snapshot(ask[r].node, rows[r])[g].state = "hold"
    BY <1>1 DEF TypeOK, HoldInv, OverridesAreUnpersisted, Snapshot, Hold
  <2>3. CacheHeld'
    BY <1>1, <1>9, <2>2 DEF TypeOK, HoldInv, CacheHeld, FinishRead
  <2>. QED BY <1>2, <2>1, <2>3 DEF HoldInv
<1>. QED BY <1>3, <1>4, <1>5, <1>6, <1>7, <1>8, <1>9 DEF Step

(* A step to a state without a restart comes from one and is none.         *)
LEMMA StillUp ==
  ASSUME TypeOK, [Next]_vars, restarts' = 0
  PROVE  restarts = 0 /\ ~\E n \in Nodes : Restart(n)
<1>. USE DEF nodeVars, requestVars
<1>1. restarts \in Nat
  BY GateConstants DEF TypeOK
<1>2. ASSUME NEW n \in Nodes, Restart(n) PROVE FALSE
  BY <1>1, <1>2 DEF Restart
<1>3. CASE \E r \in Requests : Submit(r) \/ Abort(r) \/ LateUpsert(r)
  BY <1>2, <1>3 DEF Submit, Abort, LateUpsert
<1>4. CASE \E r \in Requests : Step(r)
  BY <1>2, <1>4 DEF Step, BeginDecision, UpsertGate, FinishDecision, DenyLocally,
     BeginRead, ReadStore, FinishAction, FinishRead, LockAndCall
<1>5. CASE UNCHANGED vars
  BY <1>2, <1>5 DEF vars
<1>. QED BY <1>2, <1>3, <1>4, <1>5 DEF Next

(* While no node has restarted every step keeps HoldInv.                   *)
HoldInvNow == restarts = 0 => HoldInv

\* Every step, the restarts included, after which nothing is claimed.
LEMMA NextHold ==
  TypeOK /\ HoldInvNow /\ [Next]_vars => HoldInvNow'
<1>. SUFFICES ASSUME TypeOK, HoldInvNow, [Next]_vars, restarts' = 0
              PROVE  HoldInv'
  BY DEF HoldInvNow
<1>0. HoldInv /\ ~\E n \in Nodes : Restart(n)
  BY StillUp DEF HoldInvNow
<1>. USE DEF nodeVars, requestVars
<1>1. CASE \E r \in Requests : Submit(r)
  BY <1>0, <1>1 DEF TypeOK, HoldInv, Guarded, ActionNotOverridden,
     OverridesAreUnpersisted, CacheHeld, Submit
<1>2. CASE \E r \in Requests : Step(r)
  BY <1>0, <1>2, StepHold
<1>3. ASSUME NEW r \in Requests, Abort(r) PROVE HoldInv'
  <2>1. Guarded'
    BY <1>0, <1>3, FinishGuarded DEF HoldInv, Abort
  <2>. QED BY <1>0, <1>3, <2>1 DEF TypeOK, HoldInv, ActionNotOverridden,
       OverridesAreUnpersisted, CacheHeld, Abort, Finish
<1>4. CASE \E r \in Requests : LateUpsert(r)
  BY <1>0, <1>4 DEF TypeOK, HoldInv, Guarded, ActionNotOverridden,
     OverridesAreUnpersisted, CacheHeld, LateUpsert
<1>5. CASE UNCHANGED vars
  BY <1>0, <1>5 DEF HoldInv, Guarded, ActionNotOverridden,
     OverridesAreUnpersisted, CacheHeld, vars
<1>. QED BY <1>0, <1>1, <1>2, <1>3, <1>4, <1>5 DEF Next

(* HoldInv makes every step respect the holds of its node.                 *)
LEMMA HoldStep ==
  ASSUME TypeOK, HoldInv, [Next]_vars
  PROVE  HoldRespected
<1>. USE DEF nodeVars, requestVars, HoldRespected
<1>1. CASE \E r \in Requests : Submit(r) \/ LateUpsert(r)
  BY <1>1 DEF TypeOK, Submit, LateUpsert
<1>2. ASSUME NEW r \in Requests, Step(r) PROVE HoldRespected
  <2>1. ask[r] \in Asks /\ ask[r].node \in Nodes /\ ask[r].gate \in Gates
    BY AskType DEF TypeOK
  <2>2. CASE BeginDecision(r) \/ BeginRead(r) \/ UpsertGate(r) \/ ReadStore(r)
    BY <2>2 DEF BeginDecision, BeginRead, LockAndCall, UpsertGate, ReadStore
  <2>3. CASE FinishDecision(r) \/ DenyLocally(r)
    BY <2>3 DEF TypeOK, FinishDecision, DenyLocally, Finish
  <2>4. CASE FinishAction(r)
    BY <2>1, <2>4 DEF TypeOK, HoldInv, ActionNotOverridden,
       OverridesAreUnpersisted, FinishAction, Finish
  <2>5. CASE FinishRead(r)
    <3>1. ask[r].gate \in unpersisted[ask[r].node]
            => Snapshot(ask[r].node, rows[r])[ask[r].gate].state = "hold"
      BY <2>1 DEF TypeOK, HoldInv, OverridesAreUnpersisted, Snapshot, Hold
    <3>. QED BY <2>1, <2>5, <3>1 DEF TypeOK, FinishRead, Finish
  <2>. QED BY <1>2, <2>2, <2>3, <2>4, <2>5 DEF Step
<1>3. CASE \E r \in Requests : Abort(r)
  BY <1>3 DEF TypeOK, Abort, Finish
<1>4. CASE \E n \in Nodes : Restart(n)
  BY <1>4 DEF TypeOK, Restart
<1>5. CASE UNCHANGED vars
  BY <1>5 DEF vars
<1>. QED BY <1>1, <1>2, <1>3, <1>4, <1>5 DEF Next

(* Until the first restart a hold wins on its node from the moment it is   *)
(* decided until a decision on that gate succeeds, for any number of       *)
(* nodes, gates, requests, aborted handlers and late writes                *)
(* (local_hold_overrides).                                                 *)
THEOREM HoldWins == Spec => HoldWinsUntilRestart
<1>1. Init => HoldInvNow
  BY DEF Init, HoldInvNow, HoldInv, Guarded, ActionNotOverridden,
     OverridesAreUnpersisted, CacheHeld
<1>2. TypeOK /\ HoldInvNow /\ [Next]_vars => [restarts = 0 => HoldRespected]_vars
  BY HoldStep DEF HoldInvNow
<1>. QED BY <1>1, <1>2, InitType, NextType, NextHold, PTL
     DEF Spec, HoldWinsUntilRestart

(* Until the first restart the cache agrees with the holds of its node.    *)
THEOREM CacheAgrees == Spec => []CacheRespectsHold
<1>1. Init => HoldInvNow
  BY DEF Init, HoldInvNow, HoldInv, Guarded, ActionNotOverridden,
     OverridesAreUnpersisted, CacheHeld
<1>2. HoldInvNow => CacheRespectsHold
  BY DEF HoldInvNow, HoldInv, CacheHeld, CacheRespectsHold
<1>. QED BY <1>1, <1>2, InitType, NextType, NextHold, PTL DEF Spec

=============================================================================
