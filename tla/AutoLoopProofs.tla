--------------------------- MODULE AutoLoopProofs ---------------------------
(***************************************************************************)
(* The autonomous loop, for every set of runs, tools, gates and budgets:   *)
(* what a run has done is paid for, permitted and done once, and what the  *)
(* runs learned from each other counts their failures.                     *)
(***************************************************************************)
EXTENDS AutoLoop, FiniteSetTheorems, TLAPS

(***************************************************************************)
(* The inductive invariant                                                 *)
(***************************************************************************)

\* Where a run stands, its plan, its history and its budget agree.
InStep(state) ==
  /\ state.pc \in {"load", "invoke"} => state.attempts < state.goal.budget
  /\ state.pc \in {"load", "record", "learn", "decide"} => state.goal.recovery
  /\ state.pc \in {"load", "invoke", "record", "learn", "decide"} =>
       /\ state.planned \in 1..Len(PlannedSteps(state.goal))
       /\ state.planned = Len(state.history) + 1
  /\ state.pc = "plan" => state.planned = Len(state.history)
  /\ state.pc \in {"record", "learn", "decide"} => state.kind \in Kinds
  /\ state.pc = "record" => state.attempts >= 1
Staged == \A r \in Runs : run[r] # None => InStep(run[r])

\* Every attempt a running run has paid for is told or failed, at every stage.
Told(history) == {history[i].step + 1 : i \in 1..Len(history)}
Failed(r, events) == {event.attempt : event \in {e \in events : e.run = r}}
Paid(state) == IF state.pc = "record" THEN state.attempts - 1 ELSE state.attempts
Accounted ==
  \A r \in Runs : run[r] # None /\ run[r].goal.recovery /\ run[r].pc # "done" =>
    /\ Told(run[r].history) \cup Failed(r, failures) = 1..Paid(run[r])
    /\ Told(run[r].history) \cap Failed(r, failures) = {}

\* Failures belong to attempts of a run, one to each.
FailuresFiled ==
  /\ IsFiniteSet(failures)
  /\ \A event \in failures :
       /\ event.run \in Runs /\ run[event.run] # None
       /\ event.attempt \in 1..run[event.run].attempts
       /\ run[event.run].pc = "record" => event.attempt < run[event.run].attempts
  /\ \A one, two \in failures : one.run = two.run /\ one.attempt = two.attempt => one = two
  /\ \A r \in Runs : At(r, "learn") => Failure(r) \in failures \ lost

\* What took effect was planned, and before a repeated attempt may be repeated.
EffectsPlanned ==
  \A done \in executions :
    /\ done.run \in Runs /\ run[done.run] # None
    /\ done.step \in 1..run[done.run].planned
    /\ done.tool = PlannedSteps(run[done.run].goal)[done.step]
    /\ run[done.run].pc \in {"load", "invoke"} /\ done.step = run[done.run].planned =>
         done.tool \in RetrySafe

\* A failure that may be retried is a lesson by then.
Taken(state, table) ==
  state.pc = "decide" \/ (state.pc = "load" /\ state.retries > 0) =>
    /\ state.kind \in Kinds
    /\ table[<<PlannedSteps(state.goal)[state.planned], state.kind>>] > 0
Learned == \A r \in Runs : run[r] # None => Taken(run[r], lessons)

IInv ==
  /\ TypeOK /\ Staged /\ Accounted /\ FailuresFiled /\ EffectsPlanned /\ Learned
  /\ NoDuplicateEffect /\ GateOnEveryAttempt /\ RetryIsTaught /\ LessonsCountFailures
  /\ OutcomeTells

-----------------------------------------------------------------------------
(***************************************************************************)
(* What the fields of a run are                                            *)
(***************************************************************************)

\* A plan is a sequence of tools (PlannedSteps).
LEMMA PlanTyped ==
  ASSUME NEW goal \in Goals
  PROVE  /\ Len(PlannedSteps(goal)) \in Nat
         /\ \A i \in 1..Len(PlannedSteps(goal)) : PlannedSteps(goal)[i] \in Tools
<1>1. CASE goal.agents = <<>>
  <2>1. PlannedSteps(goal) = <<Inspect>>
    BY <1>1 DEF PlannedSteps
  <2> QED BY <2>1, AutoLoopAssumption
<1>2. CASE goal.agents # <<>>
  <2>1. PICK n \in 0..MaxAgents : goal.agents \in [1..n -> Tools]
    BY DEF Goals
  <2>2. n \in Nat
    BY AutoLoopAssumption
  <2>3. goal.agents \in Seq(Tools) /\ Len(goal.agents) = n
    BY <2>1, <2>2
  <2>4. PlannedSteps(goal) = goal.agents
    BY <1>2 DEF PlannedSteps
  <2> QED BY <2>1, <2>2, <2>3, <2>4
<1> QED BY <1>1, <1>2

\* A run's fields have their types (RunStates).
LEMMA FieldsTyped ==
  ASSUME NEW state \in RunStates
  PROVE  /\ state.pc \in Stages /\ state.goal \in Goals
         /\ state.goal.budget \in Nat \ {0} /\ state.goal.recovery \in BOOLEAN
         /\ state.planned \in Nat /\ state.attempts \in Nat /\ state.retries \in 0..MaxRetries
         /\ state.taught \in SUBSET Kinds /\ state.kind \in Kinds \cup {None}
         /\ state.history \in Seq(StepRecords) /\ Len(state.history) \in Nat
         /\ state.report \in Seq(StepRecords)
         /\ state # None
<1>1. state.goal.budget \in Budgets /\ state.goal.recovery \in BOOLEAN
  BY DEF RunStates, Goals
<1>2. state.history \in Seq(StepRecords) /\ state.report \in Seq(StepRecords)
  BY DEF RunStates
<1>3. state # None
  BY NoneIsNoRun
<1> QED BY <1>1, <1>2, <1>3, AutoLoopAssumption DEF RunStates

-----------------------------------------------------------------------------
(***************************************************************************)
(* What a step keeps that moves one run                                    *)
(***************************************************************************)

\* The conjuncts that are about each run alone, and the types.
LEMMA RunsKept ==
  ASSUME IInv, NEW r \in Runs, NEW new \in RunStates, run' = [run EXCEPT ![r] = new],
         new.planned <= Len(PlannedSteps(new.goal)), new.attempts <= new.goal.budget,
         InStep(new), Taken(new, lessons'),
         new.pc = "invoke" /\ new.retries > 0 => new.kind \in new.taught,
         new.pc = "done" /\ new.outcome = "completed" =>
           Len(new.report) = Len(PlannedSteps(new.goal)),
         new.pc = "done" /\ new.outcome = "exhausted" => new.attempts = new.goal.budget,
         lessons' \in [Tools \X Kinds -> Nat],
         \A key \in Tools \X Kinds : lessons'[key] >= lessons[key],
         lost' \subseteq failures', faults' \in 0..MaxFaults
  PROVE  TypeOK' /\ Staged' /\ Learned' /\ RetryIsTaught' /\ OutcomeTells'
<1>1. run \in [Runs -> RunStates \cup {None}] /\ lessons \in [Tools \X Kinds -> Nat]
  BY DEF IInv, TypeOK
<1>2. /\ run' \in [Runs -> RunStates \cup {None}] /\ run'[r] = new
      /\ \A other \in Runs \ {r} : run'[other] = run[other]
  BY <1>1
<1>3. TypeOK'
  BY <1>2 DEF IInv, TypeOK
<1>4. Staged'
  BY <1>2 DEF IInv, Staged
<1>5. Learned'
  <2> SUFFICES ASSUME NEW other \in Runs, run'[other] # None
               PROVE  Taken(run'[other], lessons')
    BY DEF Learned
  <2>1. CASE other = r
    BY <2>1, <1>2
  <2>2. CASE other # r /\ (run[other].pc = "decide"
                            \/ (run[other].pc = "load" /\ run[other].retries > 0))
    <3>1. run'[other] = run[other] /\ run[other] \in RunStates
      BY <1>1, <1>2, <2>2
    <3>2. run[other].kind \in Kinds
          /\ lessons[<<PlannedSteps(run[other].goal)[run[other].planned], run[other].kind>>] > 0
      BY <3>1, <2>2 DEF IInv, Learned, Taken
    <3>3. run[other].planned \in 1..Len(PlannedSteps(run[other].goal))
      BY <3>1, <2>2 DEF IInv, Staged, InStep
    <3>4. PlannedSteps(run[other].goal)[run[other].planned] \in Tools
      BY <3>1, <3>3, FieldsTyped, PlanTyped
    <3>5. <<PlannedSteps(run[other].goal)[run[other].planned], run[other].kind>> \in Tools \X Kinds
      BY <3>2, <3>4
    <3> DEFINE key == <<PlannedSteps(run[other].goal)[run[other].planned], run[other].kind>>
    <3>6. lessons'[key] >= lessons[key] /\ lessons'[key] \in Nat /\ lessons[key] \in Nat
      BY <3>5, <1>1
    <3>7. lessons'[key] > 0
      BY <3>2, <3>6
    <3> QED BY <3>1, <3>2, <3>7 DEF Taken
  <2>3. CASE other # r /\ ~(run[other].pc = "decide"
                            \/ (run[other].pc = "load" /\ run[other].retries > 0))
    BY <2>3, <1>2 DEF Taken
  <2> QED BY <2>1, <2>2, <2>3
<1>6. RetryIsTaught'
  BY <1>2 DEF IInv, RetryIsTaught, At
<1>7. OutcomeTells'
  BY <1>2 DEF IInv, OutcomeTells, At
<1> QED BY <1>3, <1>4, <1>5, <1>6, <1>7

\* What took effect, of steps that take no effect (NoDuplicateEffect,
\* GateOnEveryAttempt): the goal stays, and a planned tool is repeated only if
\* it may be.
LEMMA EffectsKept ==
  ASSUME IInv, NEW r \in Runs, run[r] # None, NEW new \in RunStates,
         run' = [run EXCEPT ![r] = new], executions' = executions,
         new.goal = run[r].goal, new.planned >= run[r].planned,
         new.pc \in {"load", "invoke"} =>
           \/ new.planned > run[r].planned
           \/ run[r].pc \in {"load", "invoke"}
           \/ Current(r) \in RetrySafe
  PROVE  EffectsPlanned' /\ NoDuplicateEffect' /\ GateOnEveryAttempt'
<1>1. run \in [Runs -> RunStates \cup {None}]
  BY DEF IInv, TypeOK
<1>2. /\ run'[r] = new /\ \A other \in Runs \ {r} : run'[other] = run[other]
      /\ new # None /\ run[r] \in RunStates /\ new.planned \in Nat /\ run[r].planned \in Nat
  BY <1>1, FieldsTyped
<1>3. EffectsPlanned'
  <2> SUFFICES ASSUME NEW done \in executions
               PROVE  /\ done.run \in Runs /\ run'[done.run] # None
                      /\ done.step \in 1..run'[done.run].planned
                      /\ done.tool = PlannedSteps(run'[done.run].goal)[done.step]
                      /\ run'[done.run].pc \in {"load", "invoke"}
                           /\ done.step = run'[done.run].planned => done.tool \in RetrySafe
    BY DEF EffectsPlanned
  <2>1. /\ done.run \in Runs /\ run[done.run] # None
        /\ done.step \in 1..run[done.run].planned
        /\ done.tool = PlannedSteps(run[done.run].goal)[done.step]
        /\ run[done.run].pc \in {"load", "invoke"} /\ done.step = run[done.run].planned =>
             done.tool \in RetrySafe
    BY DEF IInv, EffectsPlanned
  <2>2. CASE done.run = r
    <3>1. done.step \in 1..new.planned
      BY <2>1, <2>2, <1>2
    <3>2. ASSUME new.pc \in {"load", "invoke"}, done.step = new.planned
          PROVE  done.tool \in RetrySafe
      <4>1. done.step = run[r].planned
        BY <3>2, <2>1, <2>2, <1>2
      <4>2. done.tool = Current(r)
        BY <4>1, <2>1, <2>2 DEF Current
      <4> QED BY <3>2, <4>1, <4>2, <2>1, <2>2, <1>2
    <3> QED BY <3>1, <3>2, <2>1, <2>2, <1>2
  <2>3. CASE done.run # r
    BY <2>1, <2>3, <1>2
  <2> QED BY <2>2, <2>3
<1>4. NoDuplicateEffect'
  BY DEF IInv, NoDuplicateEffect
<1>5. GateOnEveryAttempt'
  BY <1>2 DEF IInv, GateOnEveryAttempt, EffectsPlanned
<1> QED BY <1>3, <1>4, <1>5

\* Failures and lessons, of steps that write none and are not between the two
\* writes (LessonsCountFailures).
LEMMA FailuresKept ==
  ASSUME IInv, NEW r \in Runs, run[r] # None, NEW new \in RunStates,
         run' = [run EXCEPT ![r] = new],
         failures' = failures, lost' = lost, lessons' = lessons,
         run[r].pc # "learn", new.pc # "learn", new.attempts >= run[r].attempts,
         new.pc = "record" => new.attempts > run[r].attempts
  PROVE  FailuresFiled' /\ LessonsCountFailures'
<1>1. run \in [Runs -> RunStates \cup {None}]
  BY DEF IInv, TypeOK
<1>2. /\ run'[r] = new /\ \A other \in Runs \ {r} : run'[other] = run[other]
      /\ new # None /\ run[r] \in RunStates /\ new.attempts \in Nat /\ run[r].attempts \in Nat
  BY <1>1, FieldsTyped
<1>3. ASSUME NEW event \in failures
      PROVE  /\ event.run \in Runs /\ run'[event.run] # None
             /\ event.attempt \in 1..run'[event.run].attempts
             /\ run'[event.run].pc = "record" => event.attempt < run'[event.run].attempts
  BY <1>2 DEF IInv, FailuresFiled
<1>4. ASSUME NEW other \in Runs, At(other, "learn")'
      PROVE  Failure(other)' \in failures \ lost
  <2>1. other # r /\ run'[other] = run[other]
    BY <1>2, <1>4 DEF At
  <2>2. Failure(other)' = Failure(other)
    BY <2>1 DEF Failure, Current
  <2> QED BY <2>1, <2>2, <1>4 DEF IInv, FailuresFiled, At
<1>5. FailuresFiled'
  BY <1>3, <1>4 DEF IInv, FailuresFiled
<1>6. ASSUME NEW tool \in Tools, NEW kind \in Kinds
      PROVE  Counted(tool, kind)' = Counted(tool, kind)
  <2>1. ASSUME NEW event \in failures
        PROVE  Pending(event)' <=> Pending(event)
    BY <1>2 DEF Pending, At, IInv, FailuresFiled
  <2> QED BY <2>1 DEF Counted
<1>7. LessonsCountFailures'
  BY <1>6 DEF IInv, LessonsCountFailures
<1> QED BY <1>5, <1>7

\* The account of a run whose attempts and history stay, or that ends.
LEMMA AccountKept ==
  ASSUME IInv, NEW r \in Runs, run[r] # None, NEW new \in RunStates,
         run' = [run EXCEPT ![r] = new], failures' = failures,
         new.goal = run[r].goal,
         new.pc = "done" \/ (run[r].pc # "done" /\ new.history = run[r].history
                               /\ Paid(new) = Paid(run[r]))
  PROVE  Accounted'
<1>1. run \in [Runs -> RunStates \cup {None}]
  BY DEF IInv, TypeOK
<1>2. run'[r] = new /\ \A other \in Runs \ {r} : run'[other] = run[other]
  BY <1>1
<1> QED BY <1>2 DEF IInv, Accounted

\* A started run at any stage: its types, bounds and plan.
LEMMA RunTyped ==
  ASSUME IInv, NEW r \in Runs, run[r] # None
  PROVE  /\ run[r] \in RunStates /\ InStep(run[r]) /\ Taken(run[r], lessons)
         /\ run[r].goal.budget \in Nat \ {0}
         /\ run[r].planned \in Nat /\ run[r].attempts \in Nat /\ run[r].retries \in 0..MaxRetries
         /\ run[r].history \in Seq(StepRecords) /\ Len(run[r].history) \in Nat
         /\ Len(PlannedSteps(run[r].goal)) \in Nat
         /\ run[r].planned <= Len(PlannedSteps(run[r].goal))
         /\ run[r].attempts <= run[r].goal.budget
         /\ run[r].pc \in {"load", "invoke", "record", "learn", "decide"} => Current(r) \in Tools
<1>1. run[r] \in RunStates /\ InStep(run[r]) /\ Taken(run[r], lessons)
  BY DEF IInv, TypeOK, Staged, Learned
<1>2. run[r].goal \in Goals /\ Len(PlannedSteps(run[r].goal)) \in Nat
  BY <1>1, FieldsTyped, PlanTyped
<1>3. run[r].pc \in {"load", "invoke", "record", "learn", "decide"} => Current(r) \in Tools
  BY <1>1, <1>2, PlanTyped DEF InStep, Current
<1>4. /\ run[r].planned <= Len(PlannedSteps(run[r].goal))
      /\ run[r].attempts <= run[r].goal.budget
  BY DEF IInv, TypeOK
<1> QED BY <1>1, <1>2, <1>3, <1>4, FieldsTyped

\* What the shared store and the faults are.
LEMMA StoreTyped ==
  ASSUME IInv
  PROVE  /\ run \in [Runs -> RunStates \cup {None}] /\ lessons \in [Tools \X Kinds -> Nat]
         /\ lost \subseteq failures /\ faults \in 0..MaxFaults
         /\ \A key \in Tools \X Kinds : lessons[key] >= lessons[key]
BY DEF IInv, TypeOK

-----------------------------------------------------------------------------
(***************************************************************************)
(* One lemma for each action                                               *)
(***************************************************************************)

\* A run begins with nothing paid, failed or done (Start).
LEMMA StartStep ==
  ASSUME IInv, NEW r \in Runs, NEW goal \in Goals, Start(r, goal)
  PROVE  IInv'
<1>1. run' = [run EXCEPT ![r] =
        [pc |-> "plan", goal |-> goal, planned |-> 0, attempts |-> 0, retries |-> 0,
         taught |-> {}, args |-> "plain", kind |-> None, history |-> <<>>,
         outcome |-> None, report |-> <<>>]]
  BY DEF Start
<1> DEFINE new == [pc |-> "plan", goal |-> goal, planned |-> 0, attempts |-> 0, retries |-> 0,
         taught |-> {}, args |-> "plain", kind |-> None, history |-> <<>>,
         outcome |-> None, report |-> <<>>]
<1>2. /\ new \in RunStates /\ new.planned = 0 /\ new.attempts = 0 /\ new.history = <<>>
      /\ new.pc = "plan" /\ new.goal = goal
  <2>1. <<>> \in Seq(StepRecords) /\ 0 \in 0..MaxRetries /\ {} \in SUBSET Kinds
    BY AutoLoopAssumption
  <2>2. new \in RunStates
    BY <2>1 DEF RunStates, Stages
  <2> QED BY <2>2
<1>3. InStep(new) /\ Taken(new, lessons)
  BY DEF InStep, Taken
<1>4. goal.budget \in Nat /\ Len(PlannedSteps(goal)) \in Nat
  BY <1>2, FieldsTyped, PlanTyped
<1>5. run[r] = None /\ UNCHANGED <<failures, lessons, executions, lost, faults>>
  BY DEF Start
<1>6. run' = [run EXCEPT ![r] = new]
  BY <1>1
<1> HIDE DEF new
<1>7. TypeOK' /\ Staged' /\ Learned' /\ RetryIsTaught' /\ OutcomeTells'
  <2>1. new.planned <= Len(PlannedSteps(new.goal)) /\ new.attempts <= new.goal.budget
    BY <1>2, <1>4
  <2>2. /\ Taken(new, lessons') /\ lessons' \in [Tools \X Kinds -> Nat]
        /\ \A key \in Tools \X Kinds : lessons'[key] >= lessons[key]
        /\ lost' \subseteq failures' /\ faults' \in 0..MaxFaults
    BY <1>3, <1>5, StoreTyped
  <2>3. new.pc # "invoke" /\ new.pc # "done"
    BY <1>2
  <2> QED BY <1>2, <1>3, <1>6, <2>1, <2>2, <2>3, RunsKept
<1>8. run'[r] = new /\ \A other \in Runs \ {r} : run'[other] = run[other]
  BY <1>6, StoreTyped
<1>9. EffectsPlanned' /\ NoDuplicateEffect' /\ GateOnEveryAttempt'
  BY <1>5, <1>8 DEF IInv, EffectsPlanned, NoDuplicateEffect, GateOnEveryAttempt
<1>10. \A event \in failures : event.run # r
  BY <1>5 DEF IInv, FailuresFiled
<1>11. Accounted'
  <2>1. Told(new.history) = {} /\ Failed(r, failures) = {} /\ 1..Paid(new) = {}
    BY <1>2, <1>10 DEF Told, Failed, Paid
  <2> QED BY <2>1, <1>5, <1>8 DEF IInv, Accounted
<1>12. FailuresFiled'
  <2>1. ASSUME NEW other \in Runs, At(other, "learn")'
        PROVE  Failure(other)' \in failures \ lost
    <3>1. other # r /\ run'[other] = run[other]
      BY <1>2, <1>8, <2>1 DEF At
    <3>2. Failure(other)' = Failure(other) /\ At(other, "learn")
      BY <3>1, <2>1 DEF Failure, Current, At
    <3> QED BY <3>2 DEF IInv, FailuresFiled
  <2> QED BY <2>1, <1>5, <1>8, <1>10 DEF IInv, FailuresFiled
<1>13. LessonsCountFailures'
  <2>1. ASSUME NEW event \in failures
        PROVE  Pending(event)' <=> Pending(event)
    BY <1>8, <1>10 DEF Pending, At, IInv, FailuresFiled
  <2>2. \A tool \in Tools, kind \in Kinds : Counted(tool, kind)' = Counted(tool, kind)
    BY <2>1, <1>5 DEF Counted
  <2> QED BY <2>2, <1>5 DEF IInv, LessonsCountFailures
<1> QED BY <1>7, <1>9, <1>11, <1>12, <1>13 DEF IInv

\* What Ends makes of a run (the returns of run_with_recovery).
LEMMA EndTyped ==
  ASSUME IInv, NEW r \in Runs, run[r] # None, NEW outcome \in Outcomes,
         NEW told \in Seq(StepRecords)
  PROVE  /\ Ends(r, outcome, told) \in RunStates /\ Ends(r, outcome, told).pc = "done"
         /\ Ends(r, outcome, told).goal = run[r].goal
         /\ Ends(r, outcome, told).planned = run[r].planned
         /\ Ends(r, outcome, told).attempts = run[r].attempts
         /\ Ends(r, outcome, told).outcome = outcome /\ Ends(r, outcome, told).report = told
         /\ InStep(Ends(r, outcome, told)) /\ Taken(Ends(r, outcome, told), lessons)
<1> DEFINE new == Ends(r, outcome, told)
<1>1. run[r] \in RunStates
  BY RunTyped
<1>2. /\ new \in RunStates /\ new.pc = "done" /\ new.goal = run[r].goal
      /\ new.planned = run[r].planned /\ new.attempts = run[r].attempts
      /\ new.outcome = outcome /\ new.report = told
  BY <1>1 DEF Ends, RunStates, Stages
<1> HIDE DEF new
<1>3. InStep(new) /\ Taken(new, lessons)
  BY <1>2 DEF InStep, Taken
<1> QED BY <1>2, <1>3 DEF new

\* A step that writes neither failures nor lessons nor effects, of a run that is
\* not between the two writes.
LEMMA QuietStep ==
  ASSUME IInv, NEW r \in Runs, run[r] # None, NEW new \in RunStates,
         run' = [run EXCEPT ![r] = new],
         UNCHANGED <<failures, lessons, executions, lost>>, faults' \in 0..MaxFaults,
         new.goal = run[r].goal, InStep(new), Taken(new, lessons),
         new.planned <= Len(PlannedSteps(new.goal)), new.attempts <= new.goal.budget,
         new.planned >= run[r].planned, new.attempts >= run[r].attempts,
         new.pc = "invoke" /\ new.retries > 0 => new.kind \in new.taught,
         new.pc = "done" /\ new.outcome = "completed" =>
           Len(new.report) = Len(PlannedSteps(new.goal)),
         new.pc = "done" /\ new.outcome = "exhausted" => new.attempts = new.goal.budget,
         new.pc \in {"load", "invoke"} =>
           \/ new.planned > run[r].planned
           \/ run[r].pc \in {"load", "invoke"}
           \/ Current(r) \in RetrySafe,
         run[r].pc # "learn", new.pc # "learn",
         new.pc = "record" => new.attempts > run[r].attempts,
         Accounted'
  PROVE  IInv'
<1>1. TypeOK' /\ Staged' /\ Learned' /\ RetryIsTaught' /\ OutcomeTells'
  <2>1. /\ Taken(new, lessons') /\ lessons' \in [Tools \X Kinds -> Nat]
        /\ \A key \in Tools \X Kinds : lessons'[key] >= lessons[key]
        /\ lost' \subseteq failures'
    BY StoreTyped
  <2> QED BY <2>1, RunsKept
<1>2. EffectsPlanned' /\ NoDuplicateEffect' /\ GateOnEveryAttempt'
  BY EffectsKept
<1>3. FailuresFiled' /\ LessonsCountFailures'
  BY FailuresKept
<1> QED BY <1>1, <1>2, <1>3 DEF IInv

\* A run ends outside the two writes of its recovery.
LEMMA EndStep ==
  ASSUME IInv, NEW r \in Runs, run[r] # None, run[r].pc # "learn",
         NEW outcome \in Outcomes, NEW told \in Seq(StepRecords),
         run' = [run EXCEPT ![r] = Ends(r, outcome, told)],
         UNCHANGED <<failures, lessons, executions, lost>>, faults' \in 0..MaxFaults,
         outcome = "completed" => Len(told) = Len(PlannedSteps(run[r].goal)),
         outcome = "exhausted" => run[r].attempts = run[r].goal.budget
  PROVE  IInv'
<1> DEFINE new == Ends(r, outcome, told)
<1>1. /\ new \in RunStates /\ new.pc = "done" /\ new.goal = run[r].goal
      /\ new.planned = run[r].planned /\ new.attempts = run[r].attempts
      /\ new.outcome = outcome /\ new.report = told
      /\ InStep(new) /\ Taken(new, lessons)
  BY EndTyped
<1>2. run' = [run EXCEPT ![r] = new]
  OBVIOUS
<1> HIDE DEF new
<1>3. Accounted'
  BY <1>1, <1>2, AccountKept
<1>4. /\ new.planned <= Len(PlannedSteps(new.goal)) /\ new.attempts <= new.goal.budget
      /\ new.planned >= run[r].planned /\ new.attempts >= run[r].attempts
  BY <1>1, RunTyped
<1>5. new.pc \notin {"load", "invoke"} /\ new.pc # "invoke" /\ new.pc # "learn" /\ new.pc # "record"
  BY <1>1
<1> QED BY <1>1, <1>2, <1>3, <1>4, <1>5, QuietStep

\* A planner's step begins, or the run ends with its budget or its plan (Plan).
LEMMA PlanStep ==
  ASSUME IInv, NEW r \in Runs, Plan(r)
  PROVE  IInv'
<1>1. /\ run[r] # None /\ run[r].pc = "plan" /\ run[r] \in RunStates
      /\ UNCHANGED <<failures, lessons, executions, lost, faults>>
  BY RunTyped DEF Plan, At
<1>2. /\ run[r].planned = Len(run[r].history)
      /\ run[r].planned <= Len(PlannedSteps(run[r].goal))
      /\ run[r].attempts <= run[r].goal.budget
      /\ run[r].planned \in Nat /\ run[r].attempts \in Nat
      /\ run[r].goal.budget \in Nat /\ Len(PlannedSteps(run[r].goal)) \in Nat
      /\ run[r].history \in Seq(StepRecords) /\ run[r].goal.recovery \in BOOLEAN
  BY <1>1, RunTyped, FieldsTyped DEF InStep
<1>3. faults' \in 0..MaxFaults
  BY <1>1, StoreTyped
<1>4. CASE run[r].attempts >= run[r].goal.budget
  <2>1. run' = [run EXCEPT ![r] = Ends(r, "exhausted", run[r].history)]
    BY <1>4 DEF Plan
  <2>2. "exhausted" \in Outcomes
    BY DEF Outcomes
  <2>3. run[r].attempts = run[r].goal.budget
    BY <1>2, <1>4
  <2> QED BY <1>1, <1>2, <1>3, <2>1, <2>2, <2>3, EndStep
<1>5. CASE /\ ~(run[r].attempts >= run[r].goal.budget)
           /\ run[r].planned = Len(PlannedSteps(run[r].goal))
  <2>1. run' = [run EXCEPT ![r] = Ends(r, "completed", run[r].history)]
    BY <1>5 DEF Plan
  <2>2. "completed" \in Outcomes
    BY DEF Outcomes
  <2>3. Len(run[r].history) = Len(PlannedSteps(run[r].goal))
    BY <1>2, <1>5
  <2> QED BY <1>1, <1>2, <1>3, <2>1, <2>2, <2>3, EndStep
<1>6. CASE /\ ~(run[r].attempts >= run[r].goal.budget)
           /\ run[r].planned # Len(PlannedSteps(run[r].goal))
  <2> DEFINE stage == Attempting(run[r].goal)
             new == [run[r] EXCEPT !.planned = run[r].planned + 1, !.retries = 0,
                                   !.args = "plain", !.pc = stage]
  <2>1. run' = [run EXCEPT ![r] = new]
    BY <1>6 DEF Plan
  <2>2. /\ stage \in {"load", "invoke"}
        /\ stage = "load" => run[r].goal.recovery
        /\ run[r].planned + 1 \in Nat /\ 0 \in 0..MaxRetries
    BY <1>2, AutoLoopAssumption DEF Attempting
  <2> HIDE DEF stage
  <2>3. /\ new \in RunStates /\ new.pc = stage /\ new.goal = run[r].goal
        /\ new.planned = run[r].planned + 1 /\ new.attempts = run[r].attempts
        /\ new.history = run[r].history /\ new.retries = 0
    BY <1>1, <2>2 DEF RunStates, Stages
  <2> HIDE DEF new
  <2>4. new.planned <= Len(PlannedSteps(new.goal)) /\ new.attempts < new.goal.budget
    BY <1>2, <1>6, <2>3
  <2>5. InStep(new) /\ Taken(new, lessons)
    BY <1>2, <2>2, <2>3, <2>4 DEF InStep, Taken
  <2>6. Paid(new) = Paid(run[r])
    BY <1>1, <2>2, <2>3 DEF Paid
  <2>7. Accounted'
    BY <1>1, <2>1, <2>3, <2>6, AccountKept
  <2>8. /\ new.planned > run[r].planned /\ new.attempts <= new.goal.budget
        /\ new.attempts >= run[r].attempts /\ new.planned >= run[r].planned
    BY <1>2, <2>3, <2>4
  <2>9. new.pc # "done" /\ new.pc # "learn" /\ new.pc # "record" /\ ~(new.retries > 0)
    BY <2>2, <2>3
  <2> QED BY <1>1, <1>3, <2>1, <2>3, <2>4, <2>5, <2>7, <2>8, <2>9, QuietStep
<1> QED BY <1>4, <1>5, <1>6

\* The lessons of the tool are read anew, the failure before among them (Load).
LEMMA LoadStep ==
  ASSUME IInv, NEW r \in Runs, Load(r)
  PROVE  IInv'
<1> DEFINE taught == Taught(Current(r))
           args == Guided(Current(r), taught)
           new == [run[r] EXCEPT !.pc = "invoke", !.taught = taught, !.args = args]
<1>1. /\ run[r] # None /\ run[r].pc = "load" /\ run[r] \in RunStates
      /\ UNCHANGED <<failures, lessons, executions, lost, faults>>
  BY RunTyped DEF Load, At
<1>2. run' = [run EXCEPT ![r] = new]
  BY StoreTyped DEF Load
<1>3. taught \in SUBSET Kinds /\ args \in {"plain", "validated", "throttled"}
  BY DEF Taught, Guided
<1>4. run[r].retries > 0 => run[r].kind \in taught
  BY <1>1, RunTyped DEF Taken, Taught, Current
<1> HIDE DEF taught, args
<1>5. /\ new \in RunStates /\ new.pc = "invoke" /\ new.goal = run[r].goal
      /\ new.planned = run[r].planned /\ new.attempts = run[r].attempts
      /\ new.history = run[r].history /\ new.retries = run[r].retries
      /\ new.kind = run[r].kind /\ new.taught = taught
  BY <1>1, <1>3 DEF RunStates, Stages
<1> HIDE DEF new
<1>6. InStep(new) /\ Taken(new, lessons)
  BY <1>1, <1>5, RunTyped DEF InStep, Taken
<1>7. Accounted'
  BY <1>1, <1>2, <1>5, AccountKept DEF Paid
<1>8. /\ new.planned <= Len(PlannedSteps(new.goal)) /\ new.attempts <= new.goal.budget
      /\ new.planned >= run[r].planned /\ new.attempts >= run[r].attempts
  BY <1>1, <1>5, RunTyped
<1>9. faults' \in 0..MaxFaults
  BY <1>1, StoreTyped
<1>10. new.pc # "done" /\ new.pc # "learn" /\ new.pc # "record" /\ run[r].pc # "learn"
  BY <1>1, <1>5
<1> QED BY <1>1, <1>2, <1>4, <1>5, <1>6, <1>7, <1>8, <1>9, <1>10, QuietStep

\* After a failure: the end, or another attempt of the same planned tool (Decide).
LEMMA DecideStep ==
  ASSUME IInv, NEW r \in Runs, Decide(r)
  PROVE  IInv'
<1>1. /\ run[r] # None /\ run[r].pc = "decide" /\ run[r] \in RunStates /\ run[r].pc # "learn"
      /\ UNCHANGED <<failures, lessons, executions, lost, faults>>
  BY RunTyped DEF Decide, At
<1>2. faults' \in 0..MaxFaults
  BY <1>1, StoreTyped
<1>3. /\ run[r].attempts <= run[r].goal.budget /\ run[r].attempts \in Nat
      /\ run[r].goal.budget \in Nat /\ run[r].history \in Seq(StepRecords)
      /\ run[r].planned <= Len(PlannedSteps(run[r].goal)) /\ run[r].planned \in Nat
      /\ run[r].retries \in 0..MaxRetries /\ InStep(run[r]) /\ Taken(run[r], lessons)
  BY <1>1, RunTyped
<1>4. CASE ~MayRetry(r)
  <2>1. run' = [run EXCEPT ![r] = Ends(r, "error", <<>>)]
    BY <1>4 DEF Decide
  <2>2. "error" \in Outcomes /\ "error" # "completed" /\ "error" # "exhausted"
        /\ <<>> \in Seq(StepRecords)
    BY DEF Outcomes
  <2> QED BY <1>1, <1>2, <2>1, <2>2, EndStep
<1>5. CASE MayRetry(r) /\ run[r].attempts >= run[r].goal.budget
  <2>1. run' = [run EXCEPT ![r] = Ends(r, "exhausted", run[r].history)]
    BY <1>5 DEF Decide
  <2>2. "exhausted" \in Outcomes /\ "exhausted" # "completed"
    BY DEF Outcomes
  <2>3. run[r].attempts = run[r].goal.budget
    BY <1>3, <1>5
  <2> QED BY <1>1, <1>2, <1>3, <2>1, <2>2, <2>3, EndStep
<1>6. CASE MayRetry(r) /\ ~(run[r].attempts >= run[r].goal.budget)
  <2> DEFINE new == [run[r] EXCEPT !.pc = "load", !.retries = run[r].retries + 1]
  <2>1. run' = [run EXCEPT ![r] = new]
    BY <1>6 DEF Decide
  <2>2. run[r].retries + 1 \in 0..MaxRetries /\ Current(r) \in RetrySafe
    <3>1. run[r].retries < MaxRetries /\ Current(r) \in RetrySafe
      BY <1>6 DEF MayRetry
    <3>2. run[r].retries \in 0..MaxRetries
      BY <1>3
    <3>3. MaxRetries \in Nat
      BY AutoLoopAssumption
    <3> QED BY <3>1, <3>2, <3>3
  <2>3. /\ new \in RunStates /\ new.pc = "load" /\ new.goal = run[r].goal
        /\ new.planned = run[r].planned /\ new.attempts = run[r].attempts
        /\ new.history = run[r].history /\ new.kind = run[r].kind
    BY <1>1, <2>2 DEF RunStates, Stages
  <2> HIDE DEF new
  <2>4. InStep(new) /\ Taken(new, lessons)
    BY <1>1, <1>3, <1>6, <2>3 DEF InStep, Taken
  <2>5. Accounted'
    BY <1>1, <2>1, <2>3, AccountKept DEF Paid
  <2>6. /\ new.planned <= Len(PlannedSteps(new.goal)) /\ new.attempts <= new.goal.budget
        /\ new.planned >= run[r].planned /\ new.attempts >= run[r].attempts
    BY <1>3, <2>3
  <2>7. new.pc # "done" /\ new.pc # "learn" /\ new.pc # "record" /\ new.pc # "invoke"
    BY <2>3
  <2> QED BY <1>1, <1>2, <2>1, <2>2, <2>3, <2>4, <2>5, <2>6, <2>7, QuietStep
<1> QED BY <1>4, <1>5, <1>6

\* All of the invariant but what is about effects.
Books ==
  /\ TypeOK /\ Staged /\ Accounted /\ FailuresFiled /\ Learned
  /\ RetryIsTaught /\ LessonsCountFailures /\ OutcomeTells

\* A failed attempt is paid for and still to be recorded, or ends a plain run (Error).
LEMMA ErrorKept ==
  ASSUME IInv, NEW r \in Runs, At(r, "invoke"), NEW kind \in Kinds,
         run' = [run EXCEPT ![r] = Error(r, kind)],
         UNCHANGED <<failures, lessons, lost, faults>>
  PROVE  /\ Books'
         /\ Error(r, kind) \in RunStates /\ Error(r, kind).goal = run[r].goal
         /\ Error(r, kind).planned = run[r].planned
         /\ Error(r, kind).pc \in {"record", "done"}
<1> DEFINE new == Error(r, kind)
<1>1. /\ run[r] # None /\ run[r].pc = "invoke" /\ run[r] \in RunStates /\ InStep(run[r])
      /\ run[r].attempts \in Nat /\ run[r].goal.budget \in Nat /\ run[r].planned \in Nat
      /\ run[r].planned <= Len(PlannedSteps(run[r].goal)) /\ run[r].goal.recovery \in BOOLEAN
  BY RunTyped, FieldsTyped DEF At
<1>2. run[r].attempts + 1 \in Nat /\ run[r].attempts + 1 <= run[r].goal.budget
  BY <1>1 DEF InStep
<1>3. /\ new \in RunStates /\ new.goal = run[r].goal /\ new.planned = run[r].planned
      /\ new.attempts = run[r].attempts + 1
      /\ run[r].goal.recovery => /\ new.pc = "record" /\ new.kind = kind
                                 /\ new.history = run[r].history
      /\ ~run[r].goal.recovery => new.pc = "done" /\ new.outcome = "error"
  <2>1. CASE run[r].goal.recovery
    BY <1>1, <1>2, <2>1 DEF Error, RunStates, Stages
  <2>2. CASE ~run[r].goal.recovery
    <3>1. "error" \in Outcomes /\ <<>> \in Seq(StepRecords)
      BY DEF Outcomes
    <3> QED BY <1>1, <1>2, <2>2, <3>1 DEF Error, Ends, RunStates, Stages
  <2> QED BY <2>1, <2>2
<1>4. run' = [run EXCEPT ![r] = new]
  OBVIOUS
<1> HIDE DEF new
<1>5. InStep(new) /\ Taken(new, lessons)
  BY <1>1, <1>3 DEF InStep, Taken
<1>6. /\ new.planned <= Len(PlannedSteps(new.goal)) /\ new.attempts <= new.goal.budget
      /\ new.attempts > run[r].attempts /\ new.attempts >= run[r].attempts
  BY <1>1, <1>2, <1>3
<1>7. /\ new.pc \in {"record", "done"} /\ new.pc # "invoke" /\ new.pc # "learn"
      /\ run[r].pc # "learn"
      /\ new.pc = "done" => new.outcome # "completed" /\ new.outcome # "exhausted"
  BY <1>1, <1>3
<1>8. TypeOK' /\ Staged' /\ Learned' /\ RetryIsTaught' /\ OutcomeTells'
  <2>1. /\ Taken(new, lessons') /\ lessons' \in [Tools \X Kinds -> Nat]
        /\ \A key \in Tools \X Kinds : lessons'[key] >= lessons[key]
        /\ lost' \subseteq failures' /\ faults' \in 0..MaxFaults
    BY <1>5, StoreTyped
  <2> QED BY <1>3, <1>4, <1>5, <1>6, <1>7, <2>1, RunsKept
<1>9. FailuresFiled' /\ LessonsCountFailures'
  BY <1>1, <1>3, <1>4, <1>6, <1>7, FailuresKept
<1>10. Accounted'
  <2>1. new.pc = "record" => Paid(new) = Paid(run[r])
    BY <1>1, <1>3 DEF Paid
  <2> QED BY <1>1, <1>3, <1>4, <1>7, <2>1, AccountKept
<1> QED BY <1>3, <1>7, <1>8, <1>9, <1>10 DEF Books, new

\* A result is paid for and told (Result).
LEMMA ResultKept ==
  ASSUME IInv, NEW r \in Runs, At(r, "invoke"), NEW executed \in BOOLEAN,
         run' = [run EXCEPT ![r] = Result(r, executed)],
         UNCHANGED <<failures, lessons, lost, faults>>
  PROVE  /\ Books'
         /\ Result(r, executed) \in RunStates /\ Result(r, executed).goal = run[r].goal
         /\ Result(r, executed).planned = run[r].planned
         /\ Result(r, executed).pc = "plan"
<1> DEFINE entry == [step |-> run[r].attempts, tool |-> Current(r), executed |-> executed]
           new == Result(r, executed)
<1>1. /\ run[r] # None /\ run[r].pc = "invoke" /\ run[r] \in RunStates /\ InStep(run[r])
      /\ run[r].attempts \in Nat /\ run[r].goal.budget \in Nat /\ run[r].planned \in Nat
      /\ run[r].planned <= Len(PlannedSteps(run[r].goal)) /\ run[r].goal.recovery \in BOOLEAN
      /\ run[r].history \in Seq(StepRecords) /\ Len(run[r].history) \in Nat
      /\ Current(r) \in Tools
  BY RunTyped, FieldsTyped DEF At
<1>2. run[r].attempts + 1 \in Nat /\ run[r].attempts + 1 <= run[r].goal.budget
  BY <1>1 DEF InStep
<1>3. entry \in StepRecords /\ entry.step = run[r].attempts
  BY <1>1 DEF StepRecords
<1>4. new = [run[r] EXCEPT !.pc = "plan", !.attempts = run[r].attempts + 1,
                           !.history = Append(run[r].history, entry)]
  BY DEF Result
<1> HIDE DEF entry, new
<1>5. /\ Append(run[r].history, entry) \in Seq(StepRecords)
      /\ Len(Append(run[r].history, entry)) = Len(run[r].history) + 1
      /\ \A i \in 1..Len(run[r].history) : Append(run[r].history, entry)[i] = run[r].history[i]
      /\ Append(run[r].history, entry)[Len(run[r].history) + 1] = entry
  BY <1>1, <1>3
<1>6. /\ new \in RunStates /\ new.pc = "plan" /\ new.goal = run[r].goal
      /\ new.planned = run[r].planned /\ new.attempts = run[r].attempts + 1
      /\ new.history = Append(run[r].history, entry)
  BY <1>1, <1>2, <1>4, <1>5 DEF RunStates, Stages
<1>7. run' = [run EXCEPT ![r] = new]
  BY DEF new
<1>8. InStep(new) /\ Taken(new, lessons)
  BY <1>1, <1>5, <1>6 DEF InStep, Taken
<1>9. /\ new.planned <= Len(PlannedSteps(new.goal)) /\ new.attempts <= new.goal.budget
      /\ new.attempts >= run[r].attempts
  BY <1>1, <1>2, <1>6
<1>10. new.pc # "invoke" /\ new.pc # "learn" /\ new.pc # "done" /\ new.pc # "record"
       /\ run[r].pc # "learn"
  BY <1>1, <1>6
<1>11. TypeOK' /\ Staged' /\ Learned' /\ RetryIsTaught' /\ OutcomeTells'
  <2>1. /\ Taken(new, lessons') /\ lessons' \in [Tools \X Kinds -> Nat]
        /\ \A key \in Tools \X Kinds : lessons'[key] >= lessons[key]
        /\ lost' \subseteq failures' /\ faults' \in 0..MaxFaults
    BY <1>8, StoreTyped
  <2> QED BY <1>6, <1>7, <1>8, <1>9, <1>10, <2>1, RunsKept
<1>12. FailuresFiled' /\ LessonsCountFailures'
  BY <1>1, <1>6, <1>7, <1>9, <1>10, FailuresKept
<1>13. Told(new.history) = Told(run[r].history) \cup {run[r].attempts + 1}
  <2>1. 1..Len(new.history) = (1..Len(run[r].history)) \cup {Len(run[r].history) + 1}
    BY <1>1, <1>5, <1>6
  <2>2. \A i \in 1..Len(run[r].history) : new.history[i].step = run[r].history[i].step
    BY <1>5, <1>6
  <2>3. new.history[Len(run[r].history) + 1].step = run[r].attempts
    BY <1>3, <1>5, <1>6
  <2>4. ASSUME NEW i \in 1..Len(new.history)
        PROVE  new.history[i].step + 1 \in Told(run[r].history) \cup {run[r].attempts + 1}
    BY <2>1, <2>2, <2>3 DEF Told
  <2>5. ASSUME NEW i \in 1..Len(run[r].history)
        PROVE  run[r].history[i].step + 1 \in Told(new.history)
    BY <2>1, <2>2 DEF Told
  <2>6. run[r].attempts + 1 \in Told(new.history)
    BY <2>1, <2>3 DEF Told
  <2> QED BY <2>4, <2>5, <2>6 DEF Told
<1>14. Accounted'
  <2>1. run'[r] = new /\ \A other \in Runs \ {r} : run'[other] = run[other]
    BY <1>7, StoreTyped
  <2>2. Paid(new) = run[r].attempts + 1 /\ Paid(run[r]) = run[r].attempts
    BY <1>1, <1>6 DEF Paid
  <2>3. ASSUME run[r].goal.recovery
        PROVE  /\ Told(new.history) \cup Failed(r, failures) = 1..Paid(new)
               /\ Told(new.history) \cap Failed(r, failures) = {}
    <3>1. /\ Told(run[r].history) \cup Failed(r, failures) = 1..run[r].attempts
          /\ Told(run[r].history) \cap Failed(r, failures) = {}
      BY <1>1, <2>2, <2>3 DEF IInv, Accounted
    <3>2. 1..Paid(new) = (1..run[r].attempts) \cup {run[r].attempts + 1}
          /\ run[r].attempts + 1 \notin 1..run[r].attempts
      BY <1>1, <2>2
    <3> QED BY <1>13, <3>1, <3>2
  <2> QED BY <1>6, <2>1, <2>3 DEF IInv, Accounted
<1> QED BY <1>6, <1>11, <1>12, <1>14 DEF Books, new

\* What takes effect is planned, passed the gate and is no second effect.
LEMMA EffectGrows ==
  ASSUME IInv, NEW r \in Runs, At(r, "invoke"), ~Blocked(r), NEW new \in RunStates,
         run' = [run EXCEPT ![r] = new], executions' = executions \cup {Execution(r)},
         new.goal = run[r].goal, new.planned = run[r].planned,
         new.pc \in {"plan", "record", "done"}
  PROVE  EffectsPlanned' /\ NoDuplicateEffect' /\ GateOnEveryAttempt'
<1>1. /\ run[r] # None /\ run[r].pc = "invoke" /\ run[r] \in RunStates /\ run[r].planned \in Nat
      /\ run[r].planned \in 1..Len(PlannedSteps(run[r].goal)) /\ new # None
  BY RunTyped, FieldsTyped DEF At, InStep
<1>2. run'[r] = new /\ \A other \in Runs \ {r} : run'[other] = run[other]
  BY StoreTyped
<1> DEFINE fresh == Execution(r)
<1>3. fresh.run = r /\ fresh.step = run[r].planned /\ fresh.tool = Current(r)
  BY DEF Execution
<1> HIDE DEF fresh
<1>4. executions' = executions \cup {fresh}
  BY DEF fresh
<1>5. ASSUME NEW done \in executions
      PROVE  /\ done.run \in Runs /\ run[done.run] # None
             /\ done.step \in 1..run[done.run].planned
             /\ done.tool = PlannedSteps(run[done.run].goal)[done.step]
             /\ run[done.run].pc \in {"load", "invoke"} /\ done.step = run[done.run].planned =>
                  done.tool \in RetrySafe
             /\ done.tool \in SideEffecting => Permits(run[done.run].goal.gate, done.tool)
  BY DEF IInv, EffectsPlanned, GateOnEveryAttempt
<1>6. ASSUME NEW done \in executions'
      PROVE  /\ done.run \in Runs /\ run'[done.run] # None
             /\ done.step \in 1..run'[done.run].planned
             /\ done.tool = PlannedSteps(run'[done.run].goal)[done.step]
             /\ run'[done.run].pc \in {"load", "invoke"} /\ done.step = run'[done.run].planned =>
                  done.tool \in RetrySafe
             /\ done.tool \in SideEffecting => Permits(run'[done.run].goal.gate, done.tool)
  <2>1. CASE done \in executions /\ done.run # r
    BY <2>1, <1>2, <1>5
  <2>2. CASE done \in executions /\ done.run = r
    BY <2>2, <1>1, <1>2, <1>5
  <2>3. CASE done = fresh
    <3>1. done.tool = PlannedSteps(run[r].goal)[run[r].planned]
      BY <2>3, <1>3 DEF Current
    <3>2. done.step \in 1..new.planned
      BY <2>3, <1>1, <1>3
    <3>3. done.tool \in SideEffecting => Permits(run[r].goal.gate, done.tool)
      BY <2>3, <1>3 DEF Blocked
    <3> QED BY <2>3, <3>1, <3>2, <3>3, <1>1, <1>2, <1>3
  <2> QED BY <1>4, <2>1, <2>2, <2>3
<1>7. EffectsPlanned' /\ GateOnEveryAttempt'
  BY <1>6 DEF EffectsPlanned, GateOnEveryAttempt
<1>8. NoDuplicateEffect'
  <2>1. ASSUME NEW done \in executions, done.run = r, done.step = run[r].planned
        PROVE  done.tool \in RetrySafe /\ fresh.tool = done.tool
    BY <2>1, <1>1, <1>3, <1>5 DEF Current
  <2> QED BY <2>1, <1>3, <1>4 DEF IInv, NoDuplicateEffect
<1> QED BY <1>7, <1>8

\* An attempt is refused, fails, with or without its effect, or succeeds (Invoke).
LEMMA InvokeStep ==
  ASSUME IInv, NEW r \in Runs, Invoke(r)
  PROVE  IInv'
<1>1. /\ At(r, "invoke") /\ run[r] # None /\ run[r].pc = "invoke"
      /\ UNCHANGED <<failures, lessons, lost, faults>> /\ run[r].planned \in Nat
  BY RunTyped DEF Invoke, At
<1>2. ASSUME NEW new \in RunStates, new.goal = run[r].goal, new.planned = run[r].planned,
             new.pc \in {"plan", "record", "done"}, run' = [run EXCEPT ![r] = new], Books',
             \/ executions' = executions
             \/ ~Blocked(r) /\ executions' = executions \cup {Execution(r)}
      PROVE  IInv'
  <2>1. EffectsPlanned' /\ NoDuplicateEffect' /\ GateOnEveryAttempt'
    <3>1. CASE executions' = executions
      <4>1. new.planned >= run[r].planned /\ new.pc \notin {"load", "invoke"}
        BY <1>1, <1>2
      <4> QED BY <1>1, <1>2, <3>1, <4>1, EffectsKept
    <3>2. CASE ~Blocked(r) /\ executions' = executions \cup {Execution(r)}
      BY <1>1, <1>2, <3>2, EffectGrows
    <3> QED BY <1>2, <3>1, <3>2
  <2> QED BY <1>2, <2>1 DEF Books, IInv
<1>3. ASSUME NEW kind \in Kinds, run' = [run EXCEPT ![r] = Error(r, kind)],
             \/ executions' = executions
             \/ ~Blocked(r) /\ executions' = executions \cup {Execution(r)}
      PROVE  IInv'
  BY <1>1, <1>2, <1>3, ErrorKept
<1>4. ASSUME NEW executed \in BOOLEAN, run' = [run EXCEPT ![r] = Result(r, executed)],
             \/ executions' = executions
             \/ ~Blocked(r) /\ executions' = executions \cup {Execution(r)}
      PROVE  IInv'
  BY <1>1, <1>2, <1>4, ResultKept
<1>5. "unknown" \in Kinds /\ "bad_args" \in Kinds /\ "failed" \in Kinds
  BY DEF Kinds
<1> QED BY <1>3, <1>4, <1>5 DEF Invoke

\* The failure is in the store and its lesson is not yet (Record).
LEMMA RecordStep ==
  ASSUME IInv, NEW r \in Runs, Record(r)
  PROVE  IInv'
<1> DEFINE new == [run[r] EXCEPT !.pc = "learn"]
<1>0. PICK fresh : fresh = Failure(r)
  OBVIOUS
<1>1. /\ run[r] # None /\ run[r].pc = "record" /\ run[r] \in RunStates /\ InStep(run[r])
      /\ UNCHANGED <<lessons, executions, lost, faults>>
      /\ failures' = failures \cup {fresh}
      /\ run[r].attempts \in Nat /\ run[r].attempts >= 1 /\ run[r].planned \in Nat
  BY <1>0, RunTyped DEF Record, At, InStep
<1>2. run' = [run EXCEPT ![r] = new]
  BY StoreTyped DEF Record
<1>3. /\ new \in RunStates /\ new.pc = "learn" /\ new.goal = run[r].goal
      /\ new.planned = run[r].planned /\ new.attempts = run[r].attempts
      /\ new.history = run[r].history /\ new.kind = run[r].kind
  BY <1>1 DEF RunStates, Stages
<1>4. fresh.run = r /\ fresh.attempt = run[r].attempts
  BY <1>0 DEF Failure
<1>5. /\ run'[r] = new /\ \A other \in Runs \ {r} : run'[other] = run[other]
      /\ new # None
  BY <1>2, <1>3, StoreTyped, FieldsTyped
<1>6. Failure(r)' = fresh
  BY <1>0, <1>3, <1>5 DEF Failure, Current
<1> HIDE DEF new
<1>7. TypeOK' /\ Staged' /\ Learned' /\ RetryIsTaught' /\ OutcomeTells'
  <2>1. InStep(new) /\ Taken(new, lessons')
    BY <1>1, <1>3 DEF InStep, Taken
  <2>2. /\ lessons' \in [Tools \X Kinds -> Nat] /\ faults' \in 0..MaxFaults
        /\ \A key \in Tools \X Kinds : lessons'[key] >= lessons[key]
        /\ lost' \subseteq failures'
    BY <1>1, StoreTyped
  <2>3. new.planned <= Len(PlannedSteps(new.goal)) /\ new.attempts <= new.goal.budget
    BY <1>1, <1>3, RunTyped
  <2>4. new.pc # "invoke" /\ new.pc # "done"
    BY <1>3
  <2> QED BY <1>2, <1>3, <2>1, <2>2, <2>3, <2>4, RunsKept
<1>8. EffectsPlanned' /\ NoDuplicateEffect' /\ GateOnEveryAttempt'
  <2>1. new.planned >= run[r].planned /\ new.pc \notin {"load", "invoke"}
    BY <1>1, <1>3
  <2> QED BY <1>1, <1>2, <1>3, <2>1, EffectsKept
<1>9. ASSUME NEW event \in failures
      PROVE  /\ event.run \in Runs /\ run[event.run] # None
             /\ event.attempt \in 1..run[event.run].attempts
             /\ run[event.run].pc = "record" => event.attempt < run[event.run].attempts
  BY DEF IInv, FailuresFiled
<1>10. \A event \in failures : event.run = r => event.attempt < run[r].attempts
  BY <1>1, <1>9
<1>11. fresh \notin failures
  BY <1>1, <1>4, <1>10
<1>12. FailuresFiled'
  <2>1. IsFiniteSet(failures')
    BY <1>1, FS_AddElement DEF IInv, FailuresFiled
  <2>2. ASSUME NEW event \in failures'
        PROVE  /\ event.run \in Runs /\ run'[event.run] # None
               /\ event.attempt \in 1..run'[event.run].attempts
               /\ run'[event.run].pc = "record" => event.attempt < run'[event.run].attempts
    <3>1. CASE event \in failures /\ event.run = r
      BY <3>1, <1>3, <1>5, <1>9
    <3>2. CASE event \in failures /\ event.run # r
      BY <3>2, <1>5, <1>9
    <3>3. CASE event = fresh
      BY <3>3, <1>1, <1>3, <1>4, <1>5
    <3> QED BY <1>1, <3>1, <3>2, <3>3
  <2>3. ASSUME NEW one \in failures', NEW two \in failures',
               one.run = two.run, one.attempt = two.attempt
        PROVE  one = two
    <3>1. CASE one \in failures /\ two \in failures
      BY <2>3, <3>1 DEF IInv, FailuresFiled
    <3>2. CASE one = fresh /\ two = fresh
      BY <3>2
    <3>3. CASE one = fresh /\ two \in failures
      BY <2>3, <3>3, <1>1, <1>4, <1>9, <1>10
    <3>4. CASE one \in failures /\ two = fresh
      BY <2>3, <3>4, <1>1, <1>4, <1>9, <1>10
    <3> QED BY <1>1, <3>1, <3>2, <3>3, <3>4
  <2>4. ASSUME NEW other \in Runs, At(other, "learn")'
        PROVE  Failure(other)' \in failures' \ lost'
    <3>1. CASE other = r
      <4>1. fresh \notin lost
        BY <1>11, StoreTyped
      <4> QED BY <3>1, <4>1, <1>1, <1>6
    <3>2. CASE other # r
      <4>1. Failure(other)' = Failure(other) /\ At(other, "learn")
        BY <3>2, <2>4, <1>5 DEF Failure, Current, At
      <4> QED BY <4>1, <1>1 DEF IInv, FailuresFiled
    <3> QED BY <3>1, <3>2
  <2> QED BY <2>1, <2>2, <2>3, <2>4 DEF FailuresFiled
<1>13. LessonsCountFailures'
  <2>1. ASSUME NEW event \in failures
        PROVE  Pending(event)' <=> Pending(event)
    BY <1>1, <1>3, <1>5, <1>9, <1>10 DEF Pending, At
  <2>2. Pending(fresh)'
    BY <1>3, <1>4, <1>5 DEF Pending, At
  <2>3. \A tool \in Tools, kind \in Kinds : Counted(tool, kind)' = Counted(tool, kind)
    BY <1>1, <2>1, <2>2 DEF Counted
  <2> QED BY <1>1, <2>3 DEF IInv, LessonsCountFailures
<1>14. Accounted'
  <2>1. \A other \in Runs \ {r} : Failed(other, failures') = Failed(other, failures)
    BY <1>1, <1>4 DEF Failed
  <2>2. Failed(r, failures') = Failed(r, failures) \cup {run[r].attempts}
    BY <1>1, <1>4 DEF Failed
  <2>3. Paid(run[r]) = run[r].attempts - 1 /\ Paid(new) = run[r].attempts
    BY <1>1, <1>3 DEF Paid
  <2>4. run[r].goal.recovery
    BY <1>1 DEF InStep
  <2>5. /\ Told(run[r].history) \cup Failed(r, failures) = 1..(run[r].attempts - 1)
        /\ Told(run[r].history) \cap Failed(r, failures) = {}
    BY <1>1, <2>3, <2>4 DEF IInv, Accounted
  <2>6. /\ 1..run[r].attempts = (1..(run[r].attempts - 1)) \cup {run[r].attempts}
        /\ run[r].attempts \notin 1..(run[r].attempts - 1)
    BY <1>1
  <2>7. /\ Told(new.history) \cup Failed(r, failures') = 1..Paid(new)
        /\ Told(new.history) \cap Failed(r, failures') = {}
    BY <1>3, <2>2, <2>3, <2>5, <2>6
  <2> QED BY <1>5, <2>1, <2>7 DEF IInv, Accounted
<1> QED BY <1>7, <1>8, <1>12, <1>13, <1>14 DEF IInv

\* The lesson of the failure just recorded is in the store (Learn).
LEMMA LearnStep ==
  ASSUME IInv, NEW r \in Runs, Learn(r)
  PROVE  IInv'
<1> DEFINE new == [run[r] EXCEPT !.pc = "decide"]
<1>0. PICK fresh : fresh = Failure(r)
  OBVIOUS
<1>1. /\ run[r] # None /\ run[r].pc = "learn" /\ run[r] \in RunStates /\ InStep(run[r])
      /\ UNCHANGED <<failures, executions, lost, faults>>
      /\ lessons' = [lessons EXCEPT ![<<Current(r), run[r].kind>>] = Upserted(@)]
      /\ Current(r) \in Tools /\ run[r].kind \in Kinds /\ run[r].planned \in Nat
      /\ run[r].attempts \in Nat
  BY RunTyped DEF Learn, At, InStep
<1>2. run' = [run EXCEPT ![r] = new]
  BY StoreTyped DEF Learn
<1>3. /\ new \in RunStates /\ new.pc = "decide" /\ new.goal = run[r].goal
      /\ new.planned = run[r].planned /\ new.attempts = run[r].attempts
      /\ new.history = run[r].history /\ new.kind = run[r].kind
  BY <1>1 DEF RunStates, Stages
<1>4. /\ fresh.run = r /\ fresh.attempt = run[r].attempts
      /\ fresh.tool = Current(r) /\ fresh.kind = run[r].kind
      /\ fresh \in failures \ lost
  BY <1>0, <1>1 DEF Failure, IInv, FailuresFiled, At
<1>5. /\ run'[r] = new /\ \A other \in Runs \ {r} : run'[other] = run[other]
      /\ new # None
  BY <1>2, <1>3, StoreTyped, FieldsTyped
<1> HIDE DEF new
<1>6. /\ lessons' \in [Tools \X Kinds -> Nat]
      /\ lessons'[<<Current(r), run[r].kind>>] = lessons[<<Current(r), run[r].kind>>] + 1
      /\ \A key \in Tools \X Kinds : key # <<Current(r), run[r].kind>> => lessons'[key] = lessons[key]
      /\ \A key \in Tools \X Kinds : lessons[key] \in Nat
  BY <1>1, StoreTyped DEF Upserted
<1>7. <<Current(r), run[r].kind>> \in Tools \X Kinds
  BY <1>1
<1>8. TypeOK' /\ Staged' /\ Learned' /\ RetryIsTaught' /\ OutcomeTells'
  <2>1. InStep(new)
    BY <1>1, <1>3 DEF InStep
  <2>2. \A key \in Tools \X Kinds : lessons'[key] >= lessons[key]
    BY <1>6, <1>7
  <2>3. lessons'[<<Current(r), run[r].kind>>] > 0
    BY <1>6, <1>7
  <2>4. Taken(new, lessons')
    BY <1>1, <1>3, <2>3 DEF Taken, Current
  <2>5. faults' \in 0..MaxFaults /\ lost' \subseteq failures'
    BY <1>1, StoreTyped
  <2>6. new.planned <= Len(PlannedSteps(new.goal)) /\ new.attempts <= new.goal.budget
    BY <1>1, <1>3, RunTyped
  <2>7. new.pc # "invoke" /\ new.pc # "done"
    BY <1>3
  <2> QED BY <1>2, <1>3, <1>6, <2>1, <2>2, <2>4, <2>5, <2>6, <2>7, RunsKept
<1>9. EffectsPlanned' /\ NoDuplicateEffect' /\ GateOnEveryAttempt'
  <2>1. new.planned >= run[r].planned /\ new.pc \notin {"load", "invoke"}
    BY <1>1, <1>3
  <2> QED BY <1>1, <1>2, <1>3, <2>1, EffectsKept
<1>10. ASSUME NEW event \in failures
       PROVE  /\ event.run \in Runs /\ run[event.run] # None
              /\ event.attempt \in 1..run[event.run].attempts
  BY DEF IInv, FailuresFiled
<1>11. FailuresFiled'
  <2>1. ASSUME NEW event \in failures
        PROVE  /\ event.run \in Runs /\ run'[event.run] # None
               /\ event.attempt \in 1..run'[event.run].attempts
               /\ run'[event.run].pc = "record" => event.attempt < run'[event.run].attempts
    <3>1. CASE event.run = r
      BY <3>1, <1>3, <1>5, <1>10
    <3>2. CASE event.run # r
      BY <3>2, <1>5, <1>10 DEF IInv, FailuresFiled
    <3> QED BY <3>1, <3>2
  <2>2. ASSUME NEW other \in Runs, At(other, "learn")'
        PROVE  Failure(other)' \in failures \ lost
    <3>1. other # r
      BY <2>2, <1>3, <1>5 DEF At
    <3>2. Failure(other)' = Failure(other) /\ At(other, "learn")
      BY <3>1, <2>2, <1>5 DEF Failure, Current, At
    <3> QED BY <3>2 DEF IInv, FailuresFiled
  <2> QED BY <1>1, <2>1, <2>2 DEF IInv, FailuresFiled
<1>12. LessonsCountFailures'
  <2>1. ASSUME NEW event \in failures, event # fresh
        PROVE  Pending(event)' <=> Pending(event)
    <3>1. CASE event.run = r
      <4>1. event.attempt # run[r].attempts
        BY <2>1, <3>1, <1>4 DEF IInv, FailuresFiled
      <4> QED BY <3>1, <4>1, <1>3, <1>5 DEF Pending, At
    <3>2. CASE event.run # r
      BY <3>2, <1>5, <1>10 DEF Pending, At
    <3> QED BY <3>1, <3>2
  <2>2. Pending(fresh) /\ ~Pending(fresh)'
    BY <1>1, <1>3, <1>4, <1>5 DEF Pending, At
  <2> SUFFICES ASSUME NEW tool \in Tools, NEW kind \in Kinds
               PROVE  lessons'[<<tool, kind>>] = Cardinality(Counted(tool, kind)')
    BY DEF LessonsCountFailures
  <2>3. lessons[<<tool, kind>>] = Cardinality(Counted(tool, kind))
    BY DEF IInv, LessonsCountFailures
  <2>4. CASE tool = fresh.tool /\ kind = fresh.kind
    <3>1. Counted(tool, kind)' = Counted(tool, kind) \cup {fresh} /\ fresh \notin Counted(tool, kind)
      BY <1>1, <1>4, <2>1, <2>2, <2>4 DEF Counted
    <3>2. IsFiniteSet(Counted(tool, kind))
      <4>1. Counted(tool, kind) \in SUBSET failures /\ IsFiniteSet(failures)
        BY DEF Counted, IInv, FailuresFiled
      <4> QED BY <4>1, FS_Subset
    <3>3. Cardinality(Counted(tool, kind)') = Cardinality(Counted(tool, kind)) + 1
      BY <3>1, <3>2, FS_AddElement
    <3> QED BY <1>4, <1>6, <2>3, <2>4, <3>3
  <2>5. CASE ~(tool = fresh.tool /\ kind = fresh.kind)
    <3>1. Counted(tool, kind)' = Counted(tool, kind)
      BY <1>1, <2>1, <2>5 DEF Counted
    <3>2. <<tool, kind>> # <<Current(r), run[r].kind>> /\ <<tool, kind>> \in Tools \X Kinds
      BY <1>4, <2>5
    <3> QED BY <1>6, <2>3, <3>1, <3>2
  <2> QED BY <2>4, <2>5
<1>13. Accounted'
  <2>1. Paid(new) = Paid(run[r])
    BY <1>1, <1>3 DEF Paid
  <2> QED BY <1>1, <1>2, <1>3, <2>1, AccountKept
<1> QED BY <1>8, <1>9, <1>11, <1>12, <1>13 DEF IInv

\* A run ends between its two writes: its failure goes without a lesson.
LEMMA LostStep ==
  ASSUME IInv, NEW r \in Runs, At(r, "learn"), NEW outcome \in {"store_error", "crashed"},
         run' = [run EXCEPT ![r] = Ends(r, outcome, <<>>)], lost' = lost \cup {Failure(r)},
         UNCHANGED <<failures, lessons, executions>>, faults' \in 0..MaxFaults
  PROVE  IInv'
<1> DEFINE new == Ends(r, outcome, <<>>)
<1>0. PICK fresh : fresh = Failure(r)
  OBVIOUS
<1>1. /\ run[r] # None /\ run[r].pc = "learn" /\ run[r].planned \in Nat
      /\ run[r].attempts \in Nat /\ run[r].planned <= Len(PlannedSteps(run[r].goal))
      /\ run[r].attempts <= run[r].goal.budget /\ lost' = lost \cup {fresh}
  BY <1>0, RunTyped DEF At
<1>2. run' = [run EXCEPT ![r] = new]
  OBVIOUS
<1>3. /\ new \in RunStates /\ new.pc = "done" /\ new.goal = run[r].goal
      /\ new.planned = run[r].planned /\ new.attempts = run[r].attempts
      /\ new.outcome = outcome /\ InStep(new) /\ Taken(new, lessons)
  <2>1. outcome \in Outcomes
    BY DEF Outcomes
  <2>2. <<>> \in Seq(StepRecords) /\ run[r] # None
    BY <1>1
  <2>3. \A told \in Seq(StepRecords) :
          /\ Ends(r, outcome, told) \in RunStates /\ Ends(r, outcome, told).pc = "done"
          /\ Ends(r, outcome, told).goal = run[r].goal
          /\ Ends(r, outcome, told).planned = run[r].planned
          /\ Ends(r, outcome, told).attempts = run[r].attempts
          /\ Ends(r, outcome, told).outcome = outcome
          /\ InStep(Ends(r, outcome, told)) /\ Taken(Ends(r, outcome, told), lessons)
    BY <2>1, <2>2, EndTyped
  <2> QED BY <2>2, <2>3
<1>4. fresh.run = r /\ fresh.attempt = run[r].attempts /\ fresh \in failures \ lost
  BY <1>0 DEF Failure, IInv, FailuresFiled
<1>5. /\ run'[r] = new /\ \A other \in Runs \ {r} : run'[other] = run[other]
      /\ new # None
  BY <1>2, <1>3, StoreTyped, FieldsTyped
<1> HIDE DEF new
<1>6. TypeOK' /\ Staged' /\ Learned' /\ RetryIsTaught' /\ OutcomeTells'
  <2>1. /\ Taken(new, lessons') /\ lessons' \in [Tools \X Kinds -> Nat]
        /\ \A key \in Tools \X Kinds : lessons'[key] >= lessons[key]
    BY <1>3, StoreTyped
  <2>2. lost' \subseteq failures'
    BY <1>1, <1>4, StoreTyped
  <2>3. new.planned <= Len(PlannedSteps(new.goal)) /\ new.attempts <= new.goal.budget
    BY <1>1, <1>3
  <2>4. new.pc # "invoke" /\ new.outcome # "completed" /\ new.outcome # "exhausted"
    BY <1>3
  <2> QED BY <1>2, <1>3, <2>1, <2>2, <2>3, <2>4, RunsKept
<1>7. EffectsPlanned' /\ NoDuplicateEffect' /\ GateOnEveryAttempt'
  <2>1. new.planned >= run[r].planned
    BY <1>1, <1>3
  <2>2. new.pc \notin {"load", "invoke"}
    BY <1>3
  <2> QED BY <1>1, <1>2, <1>3, <2>1, <2>2, EffectsKept
<1>8. ASSUME NEW event \in failures
      PROVE  /\ event.run \in Runs /\ run[event.run] # None
             /\ event.attempt \in 1..run[event.run].attempts
             /\ event.run = r /\ event.attempt = run[r].attempts => event = fresh
  BY <1>4 DEF IInv, FailuresFiled
<1>9. FailuresFiled'
  <2>1. ASSUME NEW event \in failures
        PROVE  /\ event.run \in Runs /\ run'[event.run] # None
               /\ event.attempt \in 1..run'[event.run].attempts
               /\ run'[event.run].pc = "record" => event.attempt < run'[event.run].attempts
    <3>1. CASE event.run = r
      BY <3>1, <1>3, <1>5, <1>8
    <3>2. CASE event.run # r
      BY <3>2, <1>5, <1>8 DEF IInv, FailuresFiled
    <3> QED BY <3>1, <3>2
  <2>2. ASSUME NEW other \in Runs, At(other, "learn")'
        PROVE  Failure(other)' \in failures' \ lost'
    <3>1. other # r
      BY <2>2, <1>3, <1>5 DEF At
    <3>2. Failure(other)' = Failure(other) /\ At(other, "learn") /\ Failure(other).run = other
      BY <3>1, <2>2, <1>5 DEF Failure, Current, At
    <3> QED BY <3>1, <3>2, <1>1, <1>4 DEF IInv, FailuresFiled
  <2> QED BY <2>1, <2>2 DEF IInv, FailuresFiled
<1>10. LessonsCountFailures'
  <2>1. ASSUME NEW event \in failures, event # fresh
        PROVE  Pending(event)' <=> Pending(event)
    <3>1. CASE event.run = r
      BY <2>1, <3>1, <1>3, <1>5, <1>8 DEF Pending, At
    <3>2. CASE event.run # r
      BY <3>2, <1>5, <1>8 DEF Pending, At
    <3> QED BY <3>1, <3>2
  <2>2. Pending(fresh)
    BY <1>1, <1>4 DEF Pending, At
  <2>3. \A tool \in Tools, kind \in Kinds : Counted(tool, kind)' = Counted(tool, kind)
    BY <1>1, <2>1, <2>2 DEF Counted
  <2> QED BY <2>3 DEF IInv, LessonsCountFailures
<1>11. Accounted'
  BY <1>1, <1>2, <1>3, AccountKept
<1> QED BY <1>6, <1>7, <1>9, <1>10, <1>11 DEF IInv

\* A statement of the store fails or the process ends (StoreFails, Crash).
LEMMA FaultStep ==
  ASSUME IInv, NEW r \in Runs, StoreFails(r) \/ Crash(r)
  PROVE  IInv'
<1>1. PICK outcome \in {"store_error", "crashed"} :
        run' = [run EXCEPT ![r] = Ends(r, outcome, <<>>)]
  BY DEF StoreFails, Crash
<1>2. /\ run[r] # None /\ UNCHANGED <<failures, lessons, executions>>
      /\ lost' = lost \cup (IF run[r].pc = "learn" THEN {Failure(r)} ELSE {})
      /\ faults < MaxFaults /\ faults' = faults + 1
  BY DEF StoreFails, Crash, Fault
<1>3. faults' \in 0..MaxFaults
  <2>1. faults \in 0..MaxFaults /\ MaxFaults \in Nat
    BY StoreTyped, AutoLoopAssumption
  <2> QED BY <1>2, <2>1
<1>4. CASE run[r].pc = "learn"
  BY <1>1, <1>2, <1>3, <1>4, LostStep DEF At
<1>5. CASE run[r].pc # "learn"
  <2>1. outcome \in Outcomes
    BY DEF Outcomes
  <2>3. outcome # "completed" /\ outcome # "exhausted"
    OBVIOUS
  <2>4. <<>> \in Seq(StepRecords)
    OBVIOUS
  <2>2. lost' = lost
    BY <1>2, <1>5
  <2> QED BY <1>1, <1>2, <1>3, <1>5, <2>1, <2>2, <2>3, <2>4, EndStep
<1> QED BY <1>4, <1>5

-----------------------------------------------------------------------------
(***************************************************************************)
(* The invariant                                                           *)
(***************************************************************************)

\* No run has begun and the store is empty.
LEMMA InitInv == Init => IInv
<1> SUFFICES ASSUME Init PROVE IInv
  OBVIOUS
<1>1. /\ \A r \in Runs : run[r] = None
      /\ run \in [Runs -> RunStates \cup {None}]
      /\ failures = {} /\ executions = {} /\ lost = {} /\ faults = 0
      /\ lessons = [key \in Tools \X Kinds |-> 0]
  BY DEF Init
<1>2. TypeOK
  BY <1>1, AutoLoopAssumption DEF TypeOK
<1>3. Staged /\ Accounted /\ Learned /\ RetryIsTaught /\ OutcomeTells
  BY <1>1 DEF Staged, Accounted, Learned, RetryIsTaught, OutcomeTells, At
<1>4. FailuresFiled
  BY <1>1, FS_EmptySet DEF FailuresFiled, At
<1>5. EffectsPlanned /\ NoDuplicateEffect /\ GateOnEveryAttempt
  BY <1>1 DEF EffectsPlanned, NoDuplicateEffect, GateOnEveryAttempt
<1>6. LessonsCountFailures
  <2>1. \A tool \in Tools, kind \in Kinds : Counted(tool, kind) = {}
    BY <1>1 DEF Counted
  <2> QED BY <1>1, <2>1, FS_EmptySet DEF LessonsCountFailures
<1> QED BY <1>2, <1>3, <1>4, <1>5, <1>6 DEF IInv

\* A run goes on.
LEMMA RunStep ==
  ASSUME IInv, NEW r \in Runs, Step(r)
  PROVE  IInv'
BY PlanStep, LoadStep, InvokeStep, RecordStep, LearnStep, DecideStep, FaultStep DEF Step

\* Every step of every run keeps the invariant.
LEMMA NextInv == IInv /\ [Next]_vars => IInv'
<1> SUFFICES ASSUME IInv, [Next]_vars PROVE IInv'
  OBVIOUS
<1>1. CASE UNCHANGED vars
  BY <1>1 DEF vars, IInv, TypeOK, Staged, Accounted, FailuresFiled, EffectsPlanned, Learned,
     NoDuplicateEffect, GateOnEveryAttempt, RetryIsTaught, LessonsCountFailures, OutcomeTells,
     At, Failure, Current, Counted, Pending
<1>2. CASE Next
  BY <1>2, StartStep, RunStep DEF Next
<1> QED BY <1>1, <1>2

\* What the account of a run between two attempts says follows from the account
\* at every stage.
LEMMA AccountsInv == IInv => LoopAccounts /\ LessonsTrue
<1> SUFFICES ASSUME IInv PROVE LoopAccounts /\ LessonsTrue
  OBVIOUS
<1>1. AttemptsAccounted
  <2> SUFFICES ASSUME NEW r \in Runs, run[r] # None, run[r].goal.recovery,
                      run[r].pc \in {"plan", "load"}
               PROVE  LET told == {run[r].history[i].step + 1 : i \in DOMAIN run[r].history}
                          failed == {event.attempt : event \in {e \in failures : e.run = r}} IN
                      told \cup failed = 1..run[r].attempts /\ told \cap failed = {}
    BY DEF AttemptsAccounted
  <2>1. DOMAIN run[r].history = 1..Len(run[r].history)
    BY RunTyped
  <2>2. Paid(run[r]) = run[r].attempts
    BY DEF Paid
  <2> QED BY <2>1, <2>2 DEF IInv, Accounted, Told, Failed
<1> QED BY <1>1 DEF IInv, LoopAccounts, LessonsTrue

\* In every run of the loop no step without retry safety takes effect twice,
\* nothing passes the gate on any attempt, every attempt is paid for once and an
\* outcome says what was done (AutoLoop::run, run_with_recovery).
THEOREM AccountsHold == Spec => []LoopAccounts
<1>1. Spec => []IInv
  BY InitInv, NextInv, PTL DEF Spec
<1> QED BY <1>1, AccountsInv, PTL

\* However runs interleave and end, a retry was taught by the failure before it,
\* and the lessons of every tool count its failures (retrieve_lessons,
\* upsert_lesson).
THEOREM LessonsHold == Spec => []LessonsTrue
<1>1. Spec => []IInv
  BY InitInv, NextInv, PTL DEF Spec
<1> QED BY <1>1, AccountsInv, PTL
=============================================================================
