---------------------------- MODULE TelegramStack ----------------------------
(***************************************************************************)
(* The local stack manager of the Telegram control plane,                  *)
(* src/services/telegram-command-bot/src/stack-manager.mjs: a command line *)
(* tool whose invocations `start`, `stop` and `status` supervise detached  *)
(* process groups through a lock file and state.json.  Several invocations *)
(* run at once, any of them may be killed at any step, service processes   *)
(* die and operating systems reuse process ids.                            *)
(***************************************************************************)
EXTENDS Naturals, Sequences, FiniteSets, TLC

CONSTANTS
  Services,     \* TELEGRAM_STACK_SERVICES, in start order
  Gatekeeper,   \* the service whose gate must be held: rustControl
  Other,        \* the command of a process that is none of the services
  Pids,         \* process ids
  Managers,     \* invocations of the manager
  Commands,     \* the commands invocations are given
  MaxStarts,    \* bound on the processes ever started
  MaxFlakyStarts \* the same, where ps may time out

ServiceIds == {Services[i] : i \in DOMAIN Services}

ASSUME ServicesAssumption ==
  /\ Services \in Seq(ServiceIds) /\ Services # <<>>
  /\ \A i, j \in DOMAIN Services : Services[i] = Services[j] => i = j
  /\ Other \notin ServiceIds
ASSUME CommandsAssumption == Commands \subseteq {"start", "stop", "status"}
ASSUME BoundsAssumption == MaxStarts \in Nat /\ MaxFlakyStarts \in Nat

VARIABLES
  proc,       \* the process group led by each pid
  clock,      \* start fingerprints: one more for every process
  stateFile,  \* state.json
  lock,       \* manager.lock: the invocation whose pid it holds
  mgr,        \* every invocation's local state
  struck,     \* history: the SIGTERMs sent
  psAnswers   \* never changes: ps does not time out on a process that is alive

vars == <<proc, clock, stateFile, lock, mgr, struck, psAnswers>>

-----------------------------------------------------------------------------
(* Processes, as the operating system keeps them.  A group outlives its    *)
(* leader while a member survives, and its pid is not reused before that.  *)

NoProc == [cmd |-> Other, start |-> 0, leader |-> FALSE, port |-> Other]
Alive(p) == proc[p] # NoProc
MayStart == clock <= MaxStarts /\ (psAnswers \/ clock <= MaxFlakyStarts)
PortFree(s) == \A p \in Pids : proc[p].port # s

Entry(s, p, t) == [id |-> s, pid |-> p, start |-> t]

Missing == [kind |-> "missing", services |-> <<>>]
Invalid == [kind |-> "invalid", services |-> <<>>]
Valid(es) == [kind |-> "valid", services |-> es]

NoLock == "none"

Idle(c) ==
  [pc |-> "lock", cmd |-> c, idx |-> 1, targets |-> <<>>, seenAt |-> 0,
   unresolved |-> {}, allUp |-> FALSE, verdict |-> "none"]

Exited(m) == mgr[m].pc \in {"done", "crashed"}

(* inspectTrackedEntry and defaultProcessInspect: what ps says of a pid.   *)
NotRunning == [cmd |-> Other, start |-> 0]
Observed(p) == [cmd |-> proc[p].cmd, start |-> proc[p].start]
Inspect(p) ==
  IF ~proc[p].leader THEN {NotRunning}
  ELSE {Observed(p)} \union (IF psAnswers THEN {} ELSE {NotRunning})

(* Mutants: the fingerprint is not compared; only the leader is looked for. *)
OwnedProcessAnyStart(e, o) == o # NotRunning /\ o.cmd = e.id
LeaderIsAlive(p) == proc[p].leader

(* The command signature and the start fingerprint both match the entry.   *)
OwnedProcess(e, o) == o # NotRunning /\ o.cmd = e.id /\ o.start = e.start

ProcessGroupIsAlive(p) == Alive(p)

(* defaultPortOwnershipProbe: lsof finds the service's listener in the     *)
(* group of p.                                                             *)
ListenerOwned(s, p) == proc[p].port = s

-----------------------------------------------------------------------------
Init ==
  /\ proc = [p \in Pids |-> NoProc]
  /\ clock = 1
  /\ stateFile \in {Missing, Invalid}
  /\ lock = NoLock
  /\ mgr \in [Managers -> {Idle(c) : c \in Commands}]
  /\ struck = {}
  /\ psAnswers \in BOOLEAN

Become(m, r) == mgr' = [mgr EXCEPT ![m] = r]
Goto(m, pc) == Become(m, [mgr[m] EXCEPT !.pc = pc])
Report(m, verdict, pc) ==
  Become(m, [mgr[m] EXCEPT !.verdict = verdict, !.pc = pc])

-----------------------------------------------------------------------------
(* The manager lock.                                                       *)

(* Mutant: a lock file that exists is taken over without asking its owner. *)
LockAlwaysAvailable == lock \in Managers \union {NoLock}

(* shlock creates the file, or takes over one whose owner is dead.         *)
LockAvailable == \A m \in Managers : lock = m => Exited(m)

AcquireManagerLock(m) ==
  /\ mgr[m].pc = "lock" /\ mgr[m].cmd # "status"
  /\ LockAvailable
  /\ lock' = m
  /\ Goto(m, IF mgr[m].cmd = "start" THEN "ports" ELSE "load")
  /\ UNCHANGED <<proc, clock, stateFile, struck>>

LockUnavailable(m) ==
  /\ mgr[m].pc = "lock" /\ mgr[m].cmd # "status"
  /\ ~LockAvailable
  /\ Report(m, "HOLD", "done")
  /\ UNCHANGED <<proc, clock, stateFile, lock, struck>>

ReleaseLock(m) ==
  /\ mgr[m].pc = "release"
  /\ lock' = IF lock = m THEN NoLock ELSE lock
  /\ Goto(m, "done")
  /\ UNCHANGED <<proc, clock, stateFile, struck>>

-----------------------------------------------------------------------------
(* start: preflightTelegramStackStart.  A blocker ends in HOLD; the        *)
(* read-only probes that follow a blocker in the code are left out.        *)

CurrentService(m) == Services[mgr[m].idx]

ProbePort(m) ==
  /\ mgr[m].pc = "ports"
  /\ IF ~PortFree(CurrentService(m))
     THEN Report(m, "HOLD", "release")
     ELSE IF mgr[m].idx < Len(Services)
     THEN Become(m, [mgr[m] EXCEPT !.idx = @ + 1])
     ELSE Become(m, [mgr[m] EXCEPT !.idx = 1, !.pc = "admit"])
  /\ UNCHANGED <<proc, clock, stateFile, lock, struck>>

(* Blockers in the environment, the commands or the directory, or in       *)
(* state.json; a state none of whose leaders runs is stale and removed.    *)
Admit(m) ==
  /\ mgr[m].pc = "admit"
  /\ \E o \in [1..Len(stateFile.services) ->
               UNION {Inspect(p) : p \in Pids}] :
       /\ \A i \in DOMAIN o : o[i] \in Inspect(stateFile.services[i].pid)
       /\ \/ Report(m, "HOLD", "release") /\ UNCHANGED stateFile
          \/ /\ stateFile.kind # "invalid"
             /\ \A i \in DOMAIN o : o[i] = NotRunning
             /\ stateFile' = Missing
             /\ Goto(m, "spawn")
  /\ UNCHANGED <<proc, clock, lock, struck>>

-----------------------------------------------------------------------------
(* start: the services in order.                                           *)

Child(m) == mgr[m].targets[Len(mgr[m].targets)]

(* throw: cleanupDirectChildren walks the children backwards.              *)
Throw(m) ==
  Become(m, [mgr[m] EXCEPT !.pc = "sweep", !.idx = Len(mgr[m].targets)])

StartFails(m) ==
  /\ mgr[m].pc \in {"spawn", "verify", "write", "identity", "listener", "gate"}
  /\ Throw(m)
  /\ UNCHANGED <<proc, clock, stateFile, lock, struck>>

SpawnService(m) ==
  /\ mgr[m].pc = "spawn" /\ MayStart
  /\ \E p \in Pids :
       /\ ~Alive(p)
       /\ proc' = [proc EXCEPT ![p] =
            [cmd |-> CurrentService(m), start |-> clock,
             leader |-> TRUE, port |-> Other]]
       /\ Become(m, [mgr[m] EXCEPT !.pc = "verify",
            !.targets = Append(@, Entry(CurrentService(m), p, 0))])
  /\ clock' = clock + 1
  /\ UNCHANGED <<stateFile, lock, struck>>

(* waitForOwnedProcess: the fingerprint of whatever runs the command there. *)
WaitForOwnedProcess(m) ==
  /\ mgr[m].pc = "verify"
  /\ \E o \in Inspect(Child(m).pid) :
       /\ o # NotRunning /\ o.cmd = Child(m).id
       /\ Become(m, [mgr[m] EXCEPT !.pc = "write",
            !.targets[Len(mgr[m].targets)].start = o.start])
  /\ UNCHANGED <<proc, clock, stateFile, lock, struck>>

(* Mutant: the newest entry alone is written.                              *)
WriteStateOfChild(m) ==
  /\ mgr[m].pc = "write"
  /\ stateFile' = Valid(<<Child(m)>>)
  /\ Goto(m, "identity")
  /\ UNCHANGED <<proc, clock, lock, struck>>

(* writeState: a temporary file renamed over state.json.                   *)
WriteState(m) ==
  /\ mgr[m].pc = "write"
  /\ stateFile' = Valid(mgr[m].targets)
  /\ Goto(m, "identity")
  /\ UNCHANGED <<proc, clock, lock, struck>>

(* waitForServiceIdentity asks whoever listens on the port.                *)
WaitForServiceIdentity(m) ==
  /\ mgr[m].pc = "identity"
  /\ \E p \in Pids : proc[p].port = CurrentService(m)
                     /\ proc[p].cmd = CurrentService(m)
  /\ Goto(m, "listener")
  /\ UNCHANGED <<proc, clock, stateFile, lock, struck>>

NextService(r) ==
  IF r.idx < Len(Services)
  THEN [r EXCEPT !.idx = @ + 1, !.pc = "spawn"]
  ELSE [r EXCEPT !.verdict = "RUNNING", !.pc = "release"]

(* waitForServiceOwnership: the listener is in the tracked group.          *)
WaitForServiceOwnership(m) ==
  /\ mgr[m].pc = "listener"
  /\ \E o \in Inspect(Child(m).pid) : OwnedProcess(Child(m), o)
  /\ ListenerOwned(CurrentService(m), Child(m).pid)
  /\ Become(m, IF CurrentService(m) = Gatekeeper
               THEN [mgr[m] EXCEPT !.pc = "gate"]
               ELSE NextService(mgr[m]))
  /\ UNCHANGED <<proc, clock, stateFile, lock, struck>>

(* heldDurableGate: the authority just started answers that it holds.      *)
HeldDurableGate(m) ==
  /\ mgr[m].pc = "gate"
  /\ Become(m, NextService(mgr[m]))
  /\ UNCHANGED <<proc, clock, stateFile, lock, struck>>

-----------------------------------------------------------------------------
(* stop, and the cleanup of a start that failed: the entries in reverse.   *)

LoadState(m) ==
  /\ mgr[m].pc = "load"
  /\ IF stateFile.kind = "valid"
     THEN Become(m, [mgr[m] EXCEPT !.targets = stateFile.services,
            !.idx = Len(stateFile.services), !.pc = "sweep"])
     ELSE Report(m, IF stateFile.kind = "missing" THEN "STOPPED" ELSE "HOLD",
                 "release")
  /\ UNCHANGED <<proc, clock, stateFile, lock, struck>>

Target(m) == mgr[m].targets[mgr[m].idx]
NextTarget(r) == [r EXCEPT !.idx = @ - 1, !.pc = "sweep"]
LeaveTarget(m, r) ==
  NextTarget([r EXCEPT !.unresolved = @ \union {Target(m).pid}])

InspectTarget(m) ==
  /\ mgr[m].pc = "sweep" /\ mgr[m].idx > 0
  /\ \E o \in Inspect(Target(m).pid) :
       Become(m,
         IF o = NotRunning /\ ~ProcessGroupIsAlive(Target(m).pid)
         THEN NextTarget(mgr[m])
         ELSE IF ~OwnedProcess(Target(m), o)
         THEN LeaveTarget(m, mgr[m])
         ELSE [mgr[m] EXCEPT !.pc = "signal", !.seenAt = clock])
  /\ UNCHANGED <<proc, clock, stateFile, lock, struck>>

(* signalOwnedEntry: SIGTERM to the group, whichever leads it by now.      *)
SignalOwnedEntry(m) ==
  /\ mgr[m].pc = "signal"
  /\ struck' = struck \union
       {[hit |-> proc[Target(m).pid].start, tracked |-> Target(m).start,
         seenAt |-> mgr[m].seenAt]}
  /\ Goto(m, "exit")
  /\ UNCHANGED <<proc, clock, stateFile, lock>>

(* Mutant: no deadline.                                                    *)
WaitForExitForever(m) ==
  /\ mgr[m].pc = "exit"
  /\ ~ProcessGroupIsAlive(Target(m).pid)
  /\ Become(m, NextTarget(mgr[m]))
  /\ UNCHANGED <<proc, clock, stateFile, lock, struck>>

(* waitForExit: until leader and group are gone, or the deadline.          *)
WaitForExit(m) ==
  /\ mgr[m].pc = "exit"
  /\ \/ /\ ~ProcessGroupIsAlive(Target(m).pid)
        /\ Become(m, NextTarget(mgr[m]))
     \/ Become(m, LeaveTarget(m, mgr[m]))
  /\ UNCHANGED <<proc, clock, stateFile, lock, struck>>

(* state.json goes only when every entry is resolved.                      *)
FinishSweep(m) ==
  /\ mgr[m].pc = "sweep" /\ mgr[m].idx = 0
  /\ stateFile' = IF mgr[m].unresolved = {} THEN Missing ELSE stateFile
  /\ Report(m, IF mgr[m].cmd = "stop" /\ mgr[m].unresolved = {}
               THEN "STOPPED" ELSE "HOLD", "release")
  /\ UNCHANGED <<proc, clock, lock, struck>>

-----------------------------------------------------------------------------
(* getTelegramStackStatus takes no lock: it inspects every entry, then     *)
(* probes and inspects each one again.                                     *)

StatusLoad(m) ==
  /\ mgr[m].pc = "lock" /\ mgr[m].cmd = "status"
  /\ IF stateFile.kind = "valid"
     THEN Become(m, [mgr[m] EXCEPT !.targets = stateFile.services,
            !.pc = "inspect"])
     ELSE Report(m, IF stateFile.kind = "missing" THEN "NOT_STARTED" ELSE "HOLD",
                 "done")
  /\ UNCHANGED <<proc, clock, stateFile, lock, struck>>

Up(e) == proc[e.pid].leader /\ proc[e.pid].start = e.start

(* An entry that fails a check leaves a blocker: the verdict is HOLD.      *)
StatusHold(m) ==
  /\ mgr[m].pc \in {"inspect", "reinspect"}
  /\ Report(m, "HOLD", "done")
  /\ UNCHANGED <<proc, clock, stateFile, lock, struck>>

StatusInspect(m) ==
  /\ mgr[m].pc = "inspect"
  /\ \E o \in Inspect(Target(m).pid) : OwnedProcess(Target(m), o)
  /\ LET last == mgr[m].idx = Len(mgr[m].targets) IN
     Become(m, [mgr[m] EXCEPT !.idx = IF last THEN 1 ELSE @ + 1,
       !.pc = IF last THEN "reinspect" ELSE "inspect",
       !.allUp = last /\ \A i \in DOMAIN mgr[m].targets : Up(mgr[m].targets[i])])
  /\ UNCHANGED <<proc, clock, stateFile, lock, struck>>

(* The identity and listener probes, and the second inspection after them. *)
StatusRevalidate(m) ==
  /\ mgr[m].pc = "reinspect"
  /\ ListenerOwned(Target(m).id, Target(m).pid)
  /\ \E o \in Inspect(Target(m).pid) : OwnedProcess(Target(m), o)
  /\ IF mgr[m].idx < Len(mgr[m].targets)
     THEN Become(m, [mgr[m] EXCEPT !.idx = @ + 1])
     ELSE Report(m, IF Len(mgr[m].targets) = Len(Services)
                    THEN "RUNNING" ELSE "HOLD", "done")
  /\ UNCHANGED <<proc, clock, stateFile, lock, struck>>

-----------------------------------------------------------------------------
(* The world around the manager.                                           *)

Crash(m) ==
  /\ ~Exited(m) /\ mgr[m].pc # "lock"
  /\ Goto(m, "crashed")
  /\ UNCHANGED <<proc, clock, stateFile, lock, struck, psAnswers>>

BindPort(p) ==
  /\ proc[p].leader /\ proc[p].cmd # Other /\ proc[p].port = Other
  /\ PortFree(proc[p].cmd)
  /\ proc' = [proc EXCEPT ![p].port = proc[p].cmd]
  /\ UNCHANGED <<clock, stateFile, lock, mgr, struck>>

LeaderDies(p) ==
  /\ proc[p].leader
  /\ proc' = [proc EXCEPT ![p].leader = FALSE]
  /\ UNCHANGED <<clock, stateFile, lock, mgr, struck>>

GroupDies(p) ==
  /\ Alive(p)
  /\ proc' = [proc EXCEPT ![p] = NoProc]
  /\ UNCHANGED <<clock, stateFile, lock, mgr, struck>>

(* Somebody else's process, possibly on a service's port.                  *)
ForeignStart(p) ==
  /\ ~Alive(p) /\ MayStart
  /\ \E s \in ServiceIds \union {Other} :
       /\ s = Other \/ PortFree(s)
       /\ proc' = [proc EXCEPT ![p] =
            [cmd |-> Other, start |-> clock, leader |-> TRUE, port |-> s]]
  /\ clock' = clock + 1
  /\ UNCHANGED <<stateFile, lock, mgr, struck>>

-----------------------------------------------------------------------------
Step(m) ==
  /\ \/ AcquireManagerLock(m) \/ LockUnavailable(m) \/ ReleaseLock(m)
     \/ ProbePort(m) \/ Admit(m) \/ StartFails(m) \/ SpawnService(m)
     \/ WaitForOwnedProcess(m) \/ WriteState(m) \/ WaitForServiceIdentity(m)
     \/ WaitForServiceOwnership(m) \/ HeldDurableGate(m)
     \/ LoadState(m) \/ InspectTarget(m) \/ SignalOwnedEntry(m) \/ WaitForExit(m)
     \/ FinishSweep(m)
     \/ StatusLoad(m) \/ StatusHold(m) \/ StatusInspect(m) \/ StatusRevalidate(m)
  /\ UNCHANGED psAnswers

World(p) ==
  /\ BindPort(p) \/ LeaderDies(p) \/ GroupDies(p) \/ ForeignStart(p)
  /\ UNCHANGED psAnswers

Next == (\E m \in Managers : Step(m) \/ Crash(m)) \/ (\E p \in Pids : World(p))

Spec == Init /\ [][Next]_vars

(* Every wait of the manager has a deadline: an invocation that is not     *)
(* killed keeps taking steps.                                              *)
FairSpec == Spec /\ \A m \in Managers : WF_vars(Step(m))

-----------------------------------------------------------------------------
(* Properties.                                                             *)

EntryType(starts) == [id : ServiceIds, pid : Pids, start : starts]

(* Types; an entry that reaches state.json carries a real fingerprint, as  *)
(* validateState demands of the file.                                      *)
TypeOK ==
  /\ \A p \in Pids : proc[p] = NoProc \/ proc[p].start \in 1..MaxStarts
  /\ clock \in 1..(MaxStarts + 1)
  /\ stateFile.kind \in {"missing", "invalid", "valid"}
  /\ \A i \in DOMAIN stateFile.services :
       stateFile.services[i] \in EntryType(1..MaxStarts)
  /\ lock \in Managers \union {NoLock}
  /\ \A m \in Managers :
       /\ \A i \in DOMAIN mgr[m].targets :
            mgr[m].targets[i] \in EntryType(0..MaxStarts)
       /\ mgr[m].unresolved \subseteq Pids

(* Between taking and releasing the lock a living start or stop is alone,  *)
(* although locks of killed invocations are taken over                     *)
(* (acquireManagerLock).                                                   *)
OneManager ==
  \A m, n \in Managers :
    /\ mgr[m].cmd # "status" /\ mgr[m].pc \notin {"lock", "done", "crashed"}
    /\ mgr[n].cmd # "status" /\ mgr[n].pc \notin {"lock", "done", "crashed"}
    => m = n

(* SIGTERM reaches the tracked process, nobody, or a process that was      *)
(* started after the manager's last inspection of that pid: a recycled pid *)
(* that the inspection could have told apart is never signalled            *)
(* (inspectTrackedEntry, signalOwnedEntry).                                *)
StruckWasTracked ==
  \A k \in struck : k.hit = k.tracked \/ k.hit = 0 \/ k.hit >= k.seenAt

GroupOf(e) == proc[e.pid].start = e.start
Removes == stateFile.kind = "valid" /\ stateFile'.kind = "missing"

(* When stop, or the cleanup of a failed start, removes state.json no      *)
(* group it tracked is left, leaderless groups included, although every    *)
(* entry was checked at another moment (stopTelegramStack,                 *)
(* cleanupDirectChildren).                                                 *)
RemovedOnlyWhenGone ==
  [][Removes /\ (\E m \in Managers : mgr[m].pc = "sweep" /\ mgr'[m].pc # "sweep")
     => \A i \in DOMAIN stateFile.services : ~GroupOf(stateFile.services[i])]_vars

(* A start that reports RUNNING has all its children, in order, in         *)
(* state.json when it does: no other invocation rewrote or removed it.     *)
RunningIsTracked ==
  \A m \in Managers :
    mgr[m].cmd = "start" /\ mgr[m].verdict = "RUNNING" /\ mgr[m].pc = "release"
    => /\ stateFile = Valid(mgr[m].targets)
       /\ Len(mgr[m].targets) = Len(Services)

(* While ps answers, a service process with a living leader is recorded in *)
(* state.json, is known to a start at work, was reported as unresolved, or *)
(* was spawned by an invocation that was killed: nothing else loses a      *)
(* child (spawnService, cleanupDirectChildren).                            *)
NoOrphan ==
  psAnswers => \A p \in Pids : proc[p].leader /\ proc[p].cmd \in ServiceIds =>
    \/ \E i \in DOMAIN stateFile.services :
         stateFile.services[i].pid = p /\ GroupOf(stateFile.services[i])
    \/ \E m \in Managers : \E i \in DOMAIN mgr[m].targets :
         /\ mgr[m].cmd = "start"
         /\ mgr[m].targets[i].pid = p
         /\ mgr[m].targets[i].start \in {0, proc[p].start}
         /\ mgr[m].pc # "done" \/ p \in mgr[m].unresolved

(* A status of RUNNING is about one instant: although entries are          *)
(* inspected one after the other, all services were up together at the end *)
(* of the first round (getTelegramStackStatus inspects each one again).    *)
StatusTruthful ==
  \A m \in Managers :
    mgr[m].cmd = "status" /\ mgr[m].verdict = "RUNNING" => mgr[m].allUp

(* Types, and what the manager's record and answers say of the processes:  *)
(* a start that reports RUNNING is recorded whole, no service process goes *)
(* unrecorded, and a status of RUNNING was true of one instant (start,     *)
(* cleanup, getTelegramStackStatus).                                       *)
StateTellsTruth == TypeOK /\ RunningIsTracked /\ NoOrphan /\ StatusTruthful

(* What docs/TELEGRAM_CONTROL_PLANE.md says of a leader that disappears    *)
(* while its process group survives: the state is retained.                *)
StateRetained ==
  [][Removes => \A i \in DOMAIN stateFile.services :
       ~GroupOf(stateFile.services[i])]_vars

(* What the guardrail of stopTelegramStack says: SIGTERM was sent only to  *)
(* tracked groups whose fingerprint matched.                               *)
SignalsOnlyTracked == \A k \in struck : k.hit \in {k.tracked, 0}
=============================================================================
