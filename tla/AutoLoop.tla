------------------------------ MODULE AutoLoop ------------------------------
(***************************************************************************)
(* The autonomous loop (crates/sirinx-autoloop): a planner names the next  *)
(* tool, the registry invokes it under the approval gate, and with         *)
(* recovery a failed attempt is recorded, turned into a lesson and, where  *)
(* the tool allows, tried again.  Several runs share the store of failures *)
(* and lessons; a run may end at any point with its process.               *)
(*                                                                         *)
(* A tool is outside the loop: it succeeds or fails as it likes, and one   *)
(* that fails may have taken effect.  Delays before a retry are left out.  *)
(***************************************************************************)
EXTENDS Naturals, Sequences, FiniteSets

CONSTANTS
  Runs,          \* runs of the loop
  Tools,         \* names a goal may contain
  Registered,    \* tools of the registry
  SideEffecting, \* is_side_effecting
  RetrySafe,     \* is_retry_safe
  Inspect,       \* the tool of a goal without agents
  Throttled,     \* the tool whose arguments a transient failure throttles
  MaxAgents,     \* agents of one goal
  Budgets,       \* max_steps of a goal
  MaxRetries,    \* max_retries of the recovery
  MaxFaults,     \* statements of the store that fail and processes that end
  None

ASSUME AutoLoopAssumption ==
  /\ Registered \subseteq Tools /\ SideEffecting \subseteq Registered
  /\ RetrySafe \subseteq Registered /\ Inspect \in Tools /\ None \notin Tools
  /\ Budgets \subseteq Nat \ {0} /\ MaxAgents \in Nat /\ MaxRetries \in Nat /\ MaxFaults \in Nat

VARIABLES
  run,        \* every run: its goal, its planner and where its loop stands
  failures,   \* failure events in the store
  lessons,    \* occurrences of every lesson in the store
  executions, \* what tools have really done
  lost,       \* failures whose lesson the store has not taken
  faults

vars == <<run, failures, lessons, executions, lost, faults>>

Kinds == {"bad_args", "failed", "unknown"}
Gates == {[mode |-> "dry_run", tools |-> {}], [mode |-> "approved", tools |-> {}]}
           \cup {[mode |-> "allowlist", tools |-> some] : some \in SUBSET SideEffecting}
Goals == [agents : UNION {[1..n -> Tools] : n \in 0..MaxAgents},
          gate : Gates, budget : Budgets, recovery : BOOLEAN]

\* A run of the loop: its goal, what it has planned, paid and written down.
Stages == {"plan", "load", "invoke", "record", "learn", "decide", "done"}
Outcomes == {"completed", "exhausted", "error", "store_error", "crashed"}
StepRecords == [step : Nat, tool : Tools, executed : BOOLEAN]
RunStates ==
  [pc : Stages, goal : Goals, planned : Nat, attempts : Nat, retries : 0..MaxRetries,
   taught : SUBSET Kinds, args : {"plain", "validated", "throttled"},
   kind : Kinds \cup {None}, history : Seq(StepRecords),
   outcome : Outcomes \cup {None}, report : Seq(StepRecords)]

ASSUME NoneIsNoRun == None \notin RunStates

\* The gate lets a side-effecting tool run.
Permits(gate, tool) ==
  \/ gate.mode = "approved"
  \/ gate.mode = "allowlist" /\ tool \in gate.tools

\* GoalPlanner: one call for every agent, or one inspection.
PlannedSteps(goal) == IF goal.agents = <<>> THEN <<Inspect>> ELSE goal.agents

\* Guidance: validation first, throttling for one tool, else as planned.
Guided(tool, taught) ==
  IF "bad_args" \in taught THEN "validated"
  ELSE IF tool = Throttled /\ "failed" \in taught THEN "throttled"
  ELSE "plain"

Init ==
  /\ run = [r \in Runs |-> None]
  /\ failures = {} /\ executions = {} /\ lost = {} /\ faults = 0
  /\ lessons = [key \in Tools \X Kinds |-> 0]

At(r, pc) == run[r] # None /\ run[r].pc = pc
Current(r) == PlannedSteps(run[r].goal)[run[r].planned]
Ends(r, outcome, report) ==
  [run[r] EXCEPT !.pc = "done", !.outcome = outcome, !.report = report]

\* A run of the loop is started with a goal.
Start(r, goal) ==
  /\ run[r] = None
  /\ run' = [run EXCEPT ![r] =
       [pc |-> "plan", goal |-> goal, planned |-> 0, attempts |-> 0, retries |-> 0,
        taught |-> {}, args |-> "plain", kind |-> None, history |-> <<>>,
        outcome |-> None, report |-> <<>>]]
  /\ UNCHANGED <<failures, lessons, executions, lost, faults>>

-----------------------------------------------------------------------------
(***************************************************************************)
(* The loop                                                                *)
(***************************************************************************)

\* An attempt of a recovering run begins with the lessons.
Attempting(goal) == IF goal.recovery THEN "load" ELSE "invoke"

\* The budget is looked at before the planner is asked.
Plan(r) ==
  /\ At(r, "plan")
  /\ run' = [run EXCEPT ![r] =
       IF @.attempts >= @.goal.budget THEN Ends(r, "exhausted", @.history)
       ELSE IF @.planned = Len(PlannedSteps(@.goal)) THEN Ends(r, "completed", @.history)
       ELSE [run[r] EXCEPT !.planned = run[r].planned + 1, !.retries = 0, !.args = "plain",
                           !.pc = Attempting(run[r].goal)]]
  /\ UNCHANGED <<failures, lessons, executions, lost, faults>>

Fault == faults < MaxFaults /\ faults' = faults + 1
Taught(tool) == {kind \in Kinds : lessons[<<tool, kind>>] > 0}

\* Mutant: the lessons are loaded once for a step.
LoadOnce(r) ==
  /\ At(r, "load")
  /\ LET taught == IF run[r].retries > 0 THEN run[r].taught ELSE Taught(Current(r)) IN
       run' = [run EXCEPT ![r].pc = "invoke", ![r].taught = taught,
                          ![r].args = Guided(Current(r), taught)]
  /\ UNCHANGED <<failures, lessons, executions, lost, faults>>

\* The lessons of the tool are read anew before every attempt.
Load(r) ==
  /\ At(r, "load")
  /\ LET taught == Taught(Current(r)) IN
       run' = [run EXCEPT ![r].pc = "invoke", ![r].taught = taught,
                          ![r].args = Guided(Current(r), taught)]
  /\ UNCHANGED <<failures, lessons, executions, lost, faults>>

\* A result goes into the history.
Result(r, executed) ==
  [run[r] EXCEPT !.pc = "plan", !.attempts = run[r].attempts + 1, !.history =
     Append(run[r].history, [step |-> run[r].attempts, tool |-> Current(r), executed |-> executed])]

\* An error ends a plain run and starts the recovery of the others.
Error(r, kind) ==
  IF run[r].goal.recovery
  THEN [run[r] EXCEPT !.pc = "record", !.kind = kind, !.attempts = run[r].attempts + 1]
  ELSE [Ends(r, "error", <<>>) EXCEPT !.attempts = run[r].attempts + 1]

\* The gate holds back a tool with side effects.
Blocked(r) == Current(r) \in SideEffecting /\ ~Permits(run[r].goal.gate, Current(r))

Execution(r) == [run |-> r, attempt |-> run[r].attempts + 1, step |-> run[r].planned,
                 tool |-> Current(r)]

Invoke(r) ==
  /\ At(r, "invoke")
  /\ \/ /\ Current(r) \notin Registered
        /\ run' = [run EXCEPT ![r] = Error(r, "unknown")]
        /\ UNCHANGED executions
     \/ /\ Current(r) \in Registered /\ Blocked(r)
        /\ run' = [run EXCEPT ![r] = Result(r, FALSE)]
        /\ UNCHANGED executions
     \/ /\ Current(r) \in Registered /\ ~Blocked(r)
        /\ \/ /\ run' = [run EXCEPT ![r] = Result(r, TRUE)]
              /\ executions' = executions \cup {Execution(r)}
           \/ /\ run[r].args # "validated"
              /\ run' = [run EXCEPT ![r] = Error(r, "bad_args")]
              /\ UNCHANGED executions
           \/ /\ run' = [run EXCEPT ![r] = Error(r, "failed")]
              /\ executions' \in {executions, executions \cup {Execution(r)}}
  /\ UNCHANGED <<failures, lessons, lost, faults>>

-----------------------------------------------------------------------------
(***************************************************************************)
(* Recovery                                                                *)
(***************************************************************************)

\* What FailureEvent::new makes of the attempt just paid for.
Failure(r) ==
  [run |-> r, tool |-> Current(r), kind |-> run[r].kind, attempt |-> run[r].attempts]

Record(r) ==
  /\ At(r, "record")
  /\ failures' = failures \cup {Failure(r)}
  /\ run' = [run EXCEPT ![r].pc = "learn"]
  /\ UNCHANGED <<lessons, executions, lost, faults>>

\* A new lesson, or one more occurrence of a known one.
Upserted(count) == count + 1

Learn(r) ==
  /\ At(r, "learn")
  /\ lessons' = [lessons EXCEPT ![<<Current(r), run[r].kind>>] = Upserted(@)]
  /\ run' = [run EXCEPT ![r].pc = "decide"]
  /\ UNCHANGED <<failures, executions, lost, faults>>

\* Mutant: any known tool is tried again.
AnyRetry(r) == run[r].kind # "unknown" /\ run[r].retries < MaxRetries

\* The attempt may be repeated: the tool says so and retries are left.
MayRetry(r) ==
  /\ run[r].kind # "unknown" /\ Current(r) \in RetrySafe
  /\ run[r].retries < MaxRetries

Decide(r) ==
  /\ At(r, "decide")
  /\ run' = [run EXCEPT ![r] =
       IF ~MayRetry(r) THEN Ends(r, "error", <<>>)
       ELSE IF @.attempts >= @.goal.budget THEN Ends(r, "exhausted", @.history)
       ELSE [run[r] EXCEPT !.pc = "load", !.retries = run[r].retries + 1]]
  /\ UNCHANGED <<failures, lessons, executions, lost, faults>>

\* A statement of the store fails, and the run with it.
StoreFails(r) ==
  /\ run[r] # None /\ run[r].pc \in {"load", "record", "learn"} /\ Fault
  /\ run' = [run EXCEPT ![r] = Ends(r, "store_error", <<>>)]
  /\ lost' = lost \cup (IF run[r].pc = "learn" THEN {Failure(r)} ELSE {})
  /\ UNCHANGED <<failures, lessons, executions>>

\* The process ends; what the store holds stays.
Crash(r) ==
  /\ run[r] # None /\ run[r].pc # "done" /\ Fault
  /\ run' = [run EXCEPT ![r] = Ends(r, "crashed", <<>>)]
  /\ lost' = lost \cup (IF run[r].pc = "learn" THEN {Failure(r)} ELSE {})
  /\ UNCHANGED <<failures, lessons, executions>>

Step(r) ==
  \/ Plan(r) \/ Load(r) \/ Invoke(r) \/ Record(r) \/ Learn(r) \/ Decide(r)
  \/ StoreFails(r) \/ Crash(r)

Next == \E r \in Runs : (\E goal \in Goals : Start(r, goal)) \/ Step(r)

Spec == Init /\ [][Next]_vars

-----------------------------------------------------------------------------
(***************************************************************************)
(* Properties                                                              *)
(***************************************************************************)

\* Runs are at a point of the loop and their counters stay in bounds.
TypeOK ==
  /\ run \in [Runs -> RunStates \cup {None}]
  /\ \A r \in Runs : run[r] # None =>
       /\ run[r].planned <= Len(PlannedSteps(run[r].goal))
       /\ run[r].attempts <= run[r].goal.budget
  /\ lessons \in [Tools \X Kinds -> Nat] /\ lost \subseteq failures /\ faults \in 0..MaxFaults

\* A step whose tool is not retry-safe takes effect at most once, whatever
\* failed after the effect (tool.rs: no duplicate sends, writes or deployments).
NoDuplicateEffect ==
  \A one, two \in executions :
    one.run = two.run /\ one.step = two.step /\ one.tool \notin RetrySafe => one = two

\* Under a dry run, and for tools off the allowlist, nothing takes effect on
\* any attempt, the retries included.
GateOnEveryAttempt ==
  \A done \in executions :
    done.tool \in SideEffecting => Permits(run[done.run].goal.gate, done.tool)

\* Between two attempts of a recovering run, every attempt it has paid for is
\* in its history or among its failures, and no two have the same number.
AttemptsAccounted ==
  \A r \in Runs : run[r] # None /\ run[r].goal.recovery /\ run[r].pc \in {"plan", "load"} =>
    LET told == {run[r].history[i].step + 1 : i \in DOMAIN run[r].history}
        failed == {event.attempt : event \in {e \in failures : e.run = r}} IN
    told \cup failed = 1..run[r].attempts /\ told \cap failed = {}

\* A retry is guided by the failure before it, although other runs write
\* lessons of the same tool meanwhile.
RetryIsTaught ==
  \A r \in Runs : At(r, "invoke") /\ run[r].retries > 0 => run[r].kind \in run[r].taught

\* A failure whose run has recorded it and not yet written its lesson.
Pending(event) == At(event.run, "learn") /\ event.attempt = run[event.run].attempts

Counted(tool, kind) ==
  {event \in failures \ lost : event.tool = tool /\ event.kind = kind /\ ~Pending(event)}

\* The occurrences of every lesson are the failures of its tool and kind in all
\* runs, but for those whose run is about to write it or ended before it could.
LessonsCountFailures ==
  \A tool \in Tools, kind \in Kinds :
    lessons[<<tool, kind>>] = Cardinality(Counted(tool, kind))

\* What an outcome says: a completed run has a result for every planned step,
\* an exhausted one has paid its budget.
OutcomeTells ==
  \A r \in Runs : At(r, "done") =>
    /\ run[r].outcome = "completed" => Len(run[r].report) = Len(PlannedSteps(run[r].goal))
    /\ run[r].outcome = "exhausted" => run[r].attempts = run[r].goal.budget

\* Types, and what one run may do and must count: no second effect of a step,
\* nothing past the gate on any attempt, every attempt paid for once, and an
\* outcome that says what was done (AutoLoop::run_with_recovery).
LoopAccounts ==
  TypeOK /\ NoDuplicateEffect /\ GateOnEveryAttempt /\ AttemptsAccounted /\ OutcomeTells

\* Lessons of all runs: a retry was taught, no failure goes uncounted
\* (retrieve_lessons, upsert_lesson).
LessonsTrue == RetryIsTaught /\ LessonsCountFailures

\* What StepRecord promises: every run leaves a reviewable record of the steps
\* it executed.
EveryRunLeavesRecord ==
  \A r \in Runs : At(r, "done") /\ run[r].outcome # "crashed" =>
    run[r].report = run[r].history
=============================================================================
