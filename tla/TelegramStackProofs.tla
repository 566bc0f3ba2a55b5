------------------------ MODULE TelegramStackProofs ------------------------
(***************************************************************************)
(* The stack manager, for every list of services and every set of pids and *)
(* invocations: one start or stop at a time, no signal to a process the    *)
(* inspection could have told apart, and a record and answers that are     *)
(* true of the processes.                                                  *)
(***************************************************************************)
EXTENDS TelegramStack, TLAPS

(***************************************************************************)
(* The inductive invariant                                                 *)
(***************************************************************************)

Tracking == {"verify", "write", "identity", "listener", "gate"}
Starting == {"ports", "admit", "spawn"} \cup Tracking
Sweeping == {"sweep", "signal", "exit"}
Stages == Starting \cup Sweeping
            \cup {"lock", "load", "inspect", "reinspect", "release", "done", "crashed"}
Verdicts == {"none", "HOLD", "RUNNING", "STOPPED", "NOT_STARTED"}

Processes == [cmd : ServiceIds \cup {Other}, start : Nat, leader : BOOLEAN,
              port : ServiceIds \cup {Other}]
Files == [kind : {"missing", "invalid", "valid"}, services : Seq(EntryType(Nat))]
Invocations ==
  [pc : Stages, cmd : {"start", "stop", "status"}, idx : Nat, targets : Seq(EntryType(Nat)),
   seenAt : Nat, unresolved : SUBSET Pids, allUp : BOOLEAN, verdict : Verdicts]

\* The variables have their types, and fingerprints are in the past.
Typed ==
  /\ proc \in [Pids -> Processes] /\ clock \in 1..(MaxStarts + 1)
  /\ stateFile \in Files /\ lock \in Managers \cup {NoLock}
  /\ mgr \in [Managers -> Invocations]
Past ==
  /\ \A p \in Pids : proc[p].start < clock /\ (proc[p] = NoProc \/ proc[p].start >= 1)
  /\ \A i \in 1..Len(stateFile.services) : stateFile.services[i].start \in 1..(clock - 1)
  /\ stateFile.kind = "valid" <=> stateFile.services # <<>>

\* Where an invocation stands, its position and what it tracks agree.
Placed(r) ==
  /\ r.cmd = "status" => r.pc \in {"lock", "inspect", "reinspect", "done", "crashed"}
  /\ r.pc \in {"inspect", "reinspect"} => r.cmd = "status" /\ r.idx \in 1..Len(r.targets)
  /\ r.pc = "load" => r.cmd = "stop"
  /\ r.pc \in Starting => r.cmd = "start" /\ r.idx \in 1..Len(Services)
  /\ r.pc \in {"lock", "ports", "admit"} => r.targets = <<>>
  /\ r.pc \in {"lock", "admit"} => r.idx = 1
  /\ r.pc = "spawn" => r.idx = Len(r.targets) + 1
  /\ r.pc \in Tracking => r.idx = Len(r.targets)
  /\ r.pc = "sweep" => r.idx \in 0..Len(r.targets)
  /\ r.pc \in {"signal", "exit"} => r.idx \in 1..Len(r.targets)
  /\ r.pc = "release" /\ r.cmd = "start" =>
       r.idx = 0 \/ r.targets = <<>> \/ r.verdict = "RUNNING"
Dated(r, time) ==
  /\ r.seenAt <= time /\ \A i \in 1..Len(r.targets) : r.targets[i].start < time
  /\ r.pc \in {"spawn"} \cup Tracking =>
       \A i \in 1..Len(r.targets) :
         r.targets[i].start >= 1 \/ (r.pc = "verify" /\ i = Len(r.targets))

\* Only one that has the lock, and no other, has what state.json says.
Active(r) == r.cmd # "status" /\ r.pc \notin {"lock", "done", "crashed"}
Prefix(file, r) ==
  /\ Len(file.services) <= Len(r.targets)
  /\ \A i \in 1..Len(file.services) : file.services[i] = r.targets[i]
Recorded(r, file) ==
  Active(r) =>
    /\ r.pc = "spawn" => file.services = r.targets
    /\ r.pc \in {"verify", "write"} =>
         Prefix(file, r) /\ Len(file.services) + 1 = Len(r.targets)
    /\ r.pc \in {"identity", "listener", "gate"} => file = Valid(r.targets)
    /\ r.pc \in Sweeping => Prefix(file, r)
    /\ r.pc = "release" /\ r.cmd = "start" /\ r.verdict = "RUNNING" =>
         file = Valid(r.targets) /\ Len(r.targets) = Len(Services)

\* What has been swept is gone, or left for the report.
Swept(r, procs) ==
  /\ r.pc \in Sweeping /\ r.unresolved = {} =>
       \A i \in (r.idx + 1)..Len(r.targets) :
         r.targets[i].start = 0 \/ procs[r.targets[i].pid].start # r.targets[i].start
  /\ r.pc \in Sweeping \cup {"release"} /\ r.cmd = "start" =>
       \A i \in (r.idx + 1)..Len(r.targets) :
         \/ r.targets[i].pid \in r.unresolved
         \/ ~procs[r.targets[i].pid].leader
         \/ procs[r.targets[i].pid].cmd \notin ServiceIds

\* Between inspection and signal a pid is free or reused, never mistaken.
Seen(r, procs) ==
  r.pc = "signal" =>
    \/ procs[r.targets[r.idx].pid].start \in {r.targets[r.idx].start, 0}
    \/ procs[r.targets[r.idx].pid].start >= r.seenAt

\* What was down at the end of the first round is found down in the second.
UpIn(procs, e) == procs[e.pid].leader /\ procs[e.pid].start = e.start
Surveyed(r, procs) ==
  /\ r.pc = "reinspect" =>
       r.allUp \/ \E i \in r.idx..Len(r.targets) : ~UpIn(procs, r.targets[i])
  /\ r.cmd = "status" /\ r.verdict = "RUNNING" => r.allUp /\ r.pc = "done"

Consistent(r, procs, time, file) ==
  /\ Placed(r) /\ Dated(r, time) /\ Recorded(r, file)
  /\ Swept(r, procs) /\ Seen(r, procs) /\ Surveyed(r, procs)

Held == \A m \in Managers : Active(mgr[m]) => lock = m

IInv ==
  /\ Typed /\ Past /\ Held /\ StruckWasTracked
  /\ \A m \in Managers : Consistent(mgr[m], proc, clock, stateFile)

-----------------------------------------------------------------------------
(***************************************************************************)
(* What a step keeps that moves one invocation only                        *)
(***************************************************************************)

\* An invocation has its fields' types and is consistent with the rest.
LEMMA InvocationTyped ==
  ASSUME IInv, NEW m \in Managers
  PROVE  /\ mgr[m] \in Invocations /\ Consistent(mgr[m], proc, clock, stateFile)
         /\ mgr[m].pc \in Stages /\ mgr[m].cmd \in {"start", "stop", "status"}
         /\ mgr[m].idx \in Nat /\ mgr[m].targets \in Seq(EntryType(Nat))
         /\ Len(mgr[m].targets) \in Nat /\ mgr[m].seenAt \in Nat
         /\ mgr[m].unresolved \in SUBSET Pids /\ mgr[m].allUp \in BOOLEAN
         /\ \A i \in 1..Len(mgr[m].targets) :
              /\ mgr[m].targets[i] \in EntryType(Nat) /\ mgr[m].targets[i].pid \in Pids
              /\ mgr[m].targets[i].start \in Nat /\ mgr[m].targets[i].id \in ServiceIds
         /\ clock \in Nat
<1>1. mgr[m] \in Invocations /\ Consistent(mgr[m], proc, clock, stateFile)
  BY DEF IInv, Typed
<1>2. /\ mgr[m].pc \in Stages /\ mgr[m].cmd \in {"start", "stop", "status"}
      /\ mgr[m].idx \in Nat /\ mgr[m].targets \in Seq(EntryType(Nat)) /\ mgr[m].seenAt \in Nat
      /\ mgr[m].unresolved \in SUBSET Pids /\ mgr[m].allUp \in BOOLEAN
  BY <1>1 DEF Invocations
<1>3. Len(mgr[m].targets) \in Nat
      /\ \A i \in 1..Len(mgr[m].targets) : mgr[m].targets[i] \in EntryType(Nat)
  BY <1>2
<1>4. clock \in Nat
  BY BoundsAssumption DEF IInv, Typed
<1> QED BY <1>1, <1>2, <1>3, <1>4 DEF EntryType

\* A step that moves one invocation and leaves processes, record and lock alone.
LEMMA QuietStep ==
  ASSUME IInv, NEW m \in Managers, NEW r \in Invocations, mgr' = [mgr EXCEPT ![m] = r],
         UNCHANGED <<proc, clock, stateFile, lock, struck>>,
         Active(r) => Active(mgr[m]), Consistent(r, proc, clock, stateFile)
  PROVE  IInv'
<1>1. /\ mgr' \in [Managers -> Invocations] /\ mgr'[m] = r
      /\ \A n \in Managers \ {m} : mgr'[n] = mgr[n]
  BY DEF IInv, Typed
<1>2. Typed' /\ Past' /\ StruckWasTracked'
  BY <1>1 DEF IInv, Typed, Past, StruckWasTracked
<1>3. Held'
  BY <1>1 DEF IInv, Held
<1>4. \A n \in Managers : Consistent(mgr'[n], proc', clock', stateFile')
  BY <1>1 DEF IInv
<1> QED BY <1>2, <1>3, <1>4 DEF IInv

\* Start and end: an invocation that tracks as before and no longer works.
LEMMA StopWorking ==
  ASSUME IInv, NEW m \in Managers, NEW r \in Invocations,
         r.pc \in {"done", "crashed"}, r.targets = mgr[m].targets, r.seenAt = mgr[m].seenAt,
         r.cmd = mgr[m].cmd,
         r.cmd = "status" /\ r.verdict = "RUNNING" => r.allUp /\ r.pc = "done"
  PROVE  ~Active(r) /\ Consistent(r, proc, clock, stateFile)
<1>1. Dated(r, clock)
  BY InvocationTyped DEF Consistent, Dated, Tracking
<1>2. Placed(r) /\ Recorded(r, stateFile) /\ ~Active(r)
  BY DEF Placed, Recorded, Active, Starting, Tracking
<1>3. Swept(r, proc) /\ Seen(r, proc) /\ Surveyed(r, proc)
  BY DEF Swept, Seen, Surveyed, Sweeping
<1> QED BY <1>1, <1>2, <1>3 DEF Consistent

-----------------------------------------------------------------------------
(***************************************************************************)
(* The manager lock                                                        *)
(***************************************************************************)

\* HOLD for another's lock (LockUnavailable).
LEMMA LockUnavailableStep ==
  ASSUME IInv, NEW m \in Managers, LockUnavailable(m)
  PROVE  IInv'
<1> DEFINE r == [mgr[m] EXCEPT !.verdict = "HOLD", !.pc = "done"]
<1>1. mgr' = [mgr EXCEPT ![m] = r] /\ UNCHANGED <<proc, clock, stateFile, lock, struck>>
  BY DEF LockUnavailable, Report, Become
<1>2. /\ r \in Invocations /\ r.pc = "done" /\ r.cmd = mgr[m].cmd /\ r.targets = mgr[m].targets
      /\ r.seenAt = mgr[m].seenAt /\ r.verdict = "HOLD"
  BY InvocationTyped DEF Invocations, Stages, Verdicts
<1> HIDE DEF r
<1>3. ~Active(r) /\ Consistent(r, proc, clock, stateFile)
  BY <1>2, StopWorking
<1> QED BY <1>1, <1>2, <1>3, QuietStep

\* An invocation is killed (Crash).
LEMMA CrashStep ==
  ASSUME IInv, NEW m \in Managers, Crash(m)
  PROVE  IInv'
<1> DEFINE r == [mgr[m] EXCEPT !.pc = "crashed"]
<1>1. mgr' = [mgr EXCEPT ![m] = r] /\ UNCHANGED <<proc, clock, stateFile, lock, struck>>
  BY DEF Crash, Goto, Become
<1>2. /\ r \in Invocations /\ r.pc = "crashed" /\ r.cmd = mgr[m].cmd /\ r.targets = mgr[m].targets
      /\ r.seenAt = mgr[m].seenAt /\ r.verdict = mgr[m].verdict
  BY InvocationTyped DEF Invocations, Stages
<1>3. ~(r.cmd = "status" /\ r.verdict = "RUNNING")
  BY <1>2, InvocationTyped DEF Crash, Exited, Consistent, Surveyed
<1> HIDE DEF r
<1>4. ~Active(r) /\ Consistent(r, proc, clock, stateFile)
  BY <1>2, <1>3, StopWorking
<1> QED BY <1>1, <1>2, <1>4, QuietStep

\* What QuietStep asks of the lock, of a step that writes it.
LEMMA LockStep ==
  ASSUME IInv, NEW m \in Managers, NEW r \in Invocations, mgr' = [mgr EXCEPT ![m] = r],
         UNCHANGED <<proc, clock, stateFile, struck>>,
         lock' \in Managers \cup {NoLock}, Active(r) => lock' = m,
         \A n \in Managers \ {m} : Active(mgr[n]) => lock' = n,
         Consistent(r, proc, clock, stateFile)
  PROVE  IInv'
<1>1. /\ mgr' \in [Managers -> Invocations] /\ mgr'[m] = r
      /\ \A n \in Managers \ {m} : mgr'[n] = mgr[n]
  BY DEF IInv, Typed
<1>2. Typed' /\ Past' /\ StruckWasTracked'
  BY <1>1 DEF IInv, Typed, Past, StruckWasTracked
<1>3. Held'
  BY <1>1 DEF Held
<1>4. \A n \in Managers : Consistent(mgr'[n], proc', clock', stateFile')
  BY <1>1 DEF IInv
<1> QED BY <1>2, <1>3, <1>4 DEF IInv

\* The lock is free or its owner is dead (AcquireManagerLock).
LEMMA AcquireStep ==
  ASSUME IInv, NEW m \in Managers, AcquireManagerLock(m)
  PROVE  IInv'
<1> DEFINE stage == IF mgr[m].cmd = "start" THEN "ports" ELSE "load"
           r == [mgr[m] EXCEPT !.pc = stage]
<1>1. /\ mgr' = [mgr EXCEPT ![m] = r] /\ UNCHANGED <<proc, clock, stateFile, struck>>
      /\ lock' = m /\ mgr[m].pc = "lock" /\ mgr[m].cmd # "status" /\ LockAvailable
  BY DEF AcquireManagerLock, Goto, Become
<1>2. stage \in {"ports", "load"} /\ (stage = "ports" <=> mgr[m].cmd = "start")
  OBVIOUS
<1> HIDE DEF stage
<1>3. /\ r \in Invocations /\ r.pc = stage /\ r.cmd = mgr[m].cmd /\ r.targets = mgr[m].targets
      /\ r.idx = mgr[m].idx /\ r.seenAt = mgr[m].seenAt
  BY <1>2, InvocationTyped DEF Invocations, Stages, Starting
<1> HIDE DEF r
<1>4. mgr[m].targets = <<>> /\ mgr[m].idx = 1 /\ mgr[m].cmd \in {"start", "stop"}
  BY <1>1, InvocationTyped DEF Consistent, Placed
<1>5. 1 \in 1..Len(Services)
  BY ServicesAssumption
<1>6. Placed(r)
  BY <1>2, <1>3, <1>4, <1>5 DEF Placed, Starting, Tracking
<1>7. Dated(r, clock) /\ Swept(r, proc) /\ Seen(r, proc)
  <2>1. mgr[m].seenAt <= clock
    BY InvocationTyped DEF Consistent, Dated
  <2> QED BY <1>2, <1>3, <1>4, <2>1 DEF Dated, Swept, Seen, Tracking, Sweeping
<1>8. Recorded(r, stateFile) /\ Surveyed(r, proc)
  BY <1>1, <1>2, <1>3 DEF Recorded, Surveyed, Sweeping
<1>9. \A n \in Managers \ {m} : ~Active(mgr[n])
  BY <1>1 DEF IInv, Held, LockAvailable, Exited, Active
<1> QED BY <1>1, <1>3, <1>6, <1>7, <1>8, <1>9, LockStep DEF Consistent

\* The lock file is removed, if it is still the invocation's (ReleaseLock).
LEMMA ReleaseStep ==
  ASSUME IInv, NEW m \in Managers, ReleaseLock(m)
  PROVE  IInv'
<1> DEFINE r == [mgr[m] EXCEPT !.pc = "done"]
<1>1. /\ mgr' = [mgr EXCEPT ![m] = r] /\ UNCHANGED <<proc, clock, stateFile, struck>>
      /\ lock' = IF lock = m THEN NoLock ELSE lock
      /\ mgr[m].pc = "release"
  BY DEF ReleaseLock, Goto, Become
<1>2. /\ r \in Invocations /\ r.pc = "done" /\ r.cmd = mgr[m].cmd /\ r.targets = mgr[m].targets
      /\ r.seenAt = mgr[m].seenAt
  BY InvocationTyped DEF Invocations, Stages
<1>3. r.cmd # "status"
  BY <1>1, <1>2, InvocationTyped DEF Consistent, Placed
<1> HIDE DEF r
<1>4. ~Active(r) /\ Consistent(r, proc, clock, stateFile)
  BY <1>2, <1>3, StopWorking
<1>5. Active(mgr[m])
  BY <1>1, <1>2, <1>3 DEF Active
<1>6. \A n \in Managers \ {m} : ~Active(mgr[n])
  BY <1>5 DEF IInv, Held
<1>7. lock' \in Managers \cup {NoLock}
  BY <1>1 DEF IInv, Typed
<1> QED BY <1>1, <1>2, <1>4, <1>6, <1>7, LockStep

-----------------------------------------------------------------------------
(***************************************************************************)
(* start                                                                   *)
(***************************************************************************)

\* Before the first child there is nothing an invocation tracks.
LEMMA NothingTracked ==
  ASSUME IInv, NEW m \in Managers, mgr[m].targets = <<>>, mgr[m].cmd # "status",
         NEW r \in Invocations, r.targets = <<>>, r.cmd = mgr[m].cmd, r.seenAt = mgr[m].seenAt,
         \/ r.pc = "release" /\ r.verdict # "RUNNING"
         \/ r.pc = "ports" /\ r.cmd = "start" /\ r.idx \in 1..Len(Services)
         \/ r.pc = "admit" /\ r.cmd = "start" /\ r.idx = 1
  PROVE  Consistent(r, proc, clock, stateFile)
<1>1. mgr[m].seenAt <= clock
  BY InvocationTyped DEF Consistent, Dated
<1>2. 1 \in 1..Len(Services)
  BY ServicesAssumption
<1>3. Placed(r)
  BY <1>2 DEF Placed, Starting, Tracking
<1>4. Dated(r, clock) /\ Seen(r, proc)
  BY <1>1 DEF Dated, Seen, Tracking
<1>5. Swept(r, proc)
  <2>1. r.idx \in Nat /\ Len(r.targets) = 0
    BY DEF Invocations
  <2>2. (r.idx + 1)..Len(r.targets) = {}
    BY <2>1
  <2> QED BY <2>2 DEF Swept
<1>6. Recorded(r, stateFile) /\ Surveyed(r, proc)
  BY DEF Recorded, Surveyed, Sweeping
<1> QED BY <1>3, <1>4, <1>5, <1>6 DEF Consistent

\* A port is free, is the last one, or is taken (ProbePort).
LEMMA ProbePortStep ==
  ASSUME IInv, NEW m \in Managers, ProbePort(m)
  PROVE  IInv'
<1>1. /\ UNCHANGED <<proc, clock, stateFile, lock, struck>> /\ mgr[m].pc = "ports"
      /\ mgr[m].targets = <<>> /\ mgr[m].cmd = "start" /\ mgr[m].idx \in 1..Len(Services)
      /\ Len(Services) \in Nat
  BY InvocationTyped, ServicesAssumption DEF ProbePort, Consistent, Placed, Starting
<1>2. Active(mgr[m])
  BY <1>1 DEF Active
<1>3. CASE ~PortFree(CurrentService(m))
  <2> DEFINE r == [mgr[m] EXCEPT !.verdict = "HOLD", !.pc = "release"]
  <2>1. mgr' = [mgr EXCEPT ![m] = r]
    BY <1>3 DEF ProbePort, Report, Become
  <2>2. /\ r \in Invocations /\ r.pc = "release" /\ r.cmd = mgr[m].cmd
        /\ r.targets = mgr[m].targets /\ r.seenAt = mgr[m].seenAt /\ r.verdict = "HOLD"
    BY InvocationTyped DEF Invocations, Stages, Verdicts
  <2> HIDE DEF r
  <2>3. Consistent(r, proc, clock, stateFile)
    BY <1>1, <2>2, NothingTracked
  <2> QED BY <1>1, <1>2, <2>1, <2>2, <2>3, QuietStep
<1>4. CASE PortFree(CurrentService(m)) /\ mgr[m].idx < Len(Services)
  <2> DEFINE r == [mgr[m] EXCEPT !.idx = mgr[m].idx + 1]
  <2>1. mgr' = [mgr EXCEPT ![m] = r]
    BY <1>4 DEF ProbePort, Become
  <2>2. mgr[m].idx + 1 \in Nat /\ mgr[m].idx + 1 \in 1..Len(Services)
    BY <1>1, <1>4
  <2>3. /\ r \in Invocations /\ r.pc = "ports" /\ r.cmd = mgr[m].cmd
        /\ r.targets = mgr[m].targets /\ r.seenAt = mgr[m].seenAt /\ r.idx = mgr[m].idx + 1
    BY <1>1, <2>2, InvocationTyped DEF Invocations
  <2> HIDE DEF r
  <2>4. Consistent(r, proc, clock, stateFile)
    BY <1>1, <2>2, <2>3, NothingTracked
  <2> QED BY <1>1, <1>2, <2>1, <2>3, <2>4, QuietStep
<1>5. CASE PortFree(CurrentService(m)) /\ ~(mgr[m].idx < Len(Services))
  <2> DEFINE r == [mgr[m] EXCEPT !.idx = 1, !.pc = "admit"]
  <2>1. mgr' = [mgr EXCEPT ![m] = r]
    BY <1>5 DEF ProbePort, Become
  <2>2. /\ r \in Invocations /\ r.pc = "admit" /\ r.cmd = mgr[m].cmd
        /\ r.targets = mgr[m].targets /\ r.seenAt = mgr[m].seenAt /\ r.idx = 1
    BY <1>1, InvocationTyped DEF Invocations, Stages, Starting
  <2> HIDE DEF r
  <2>3. Consistent(r, proc, clock, stateFile)
    BY <1>1, <2>2, NothingTracked
  <2> QED BY <1>1, <1>2, <2>1, <2>2, <2>3, QuietStep
<1> QED BY <1>3, <1>4, <1>5

\* What an invocation that works may do to state.json.
LEMMA FileStep ==
  ASSUME IInv, NEW m \in Managers, Active(mgr[m]), NEW r \in Invocations,
         mgr' = [mgr EXCEPT ![m] = r], UNCHANGED <<proc, clock, lock, struck>>,
         NEW file \in Files, stateFile' = file,
         file.kind = "valid" <=> file.services # <<>>,
         \A i \in 1..Len(file.services) : file.services[i].start \in 1..(clock - 1),
         Consistent(r, proc, clock, file)
  PROVE  IInv'
<1>1. /\ mgr' \in [Managers -> Invocations] /\ mgr'[m] = r
      /\ \A n \in Managers \ {m} : mgr'[n] = mgr[n]
  BY DEF IInv, Typed
<1>2. Typed' /\ Past' /\ StruckWasTracked'
  BY <1>1 DEF IInv, Typed, Past, StruckWasTracked
<1>3. Held'
  BY <1>1 DEF IInv, Held
<1>4. ASSUME NEW n \in Managers
      PROVE  Consistent(mgr'[n], proc', clock', stateFile')
  <2>1. CASE n = m
    BY <2>1, <1>1
  <2>2. CASE n # m
    <3>1. ~Active(mgr[n]) /\ mgr'[n] = mgr[n]
      BY <2>2, <1>1 DEF IInv, Held
    <3>2. Recorded(mgr[n], file)
      BY <3>1 DEF Recorded
    <3> QED BY <3>1, <3>2 DEF IInv, Consistent
  <2> QED BY <2>1, <2>2
<1> QED BY <1>2, <1>3, <1>4 DEF IInv

\* A blocker, or a stale record removed before the first child (Admit).
LEMMA AdmitStep ==
  ASSUME IInv, NEW m \in Managers, Admit(m)
  PROVE  IInv'
<1>1. /\ UNCHANGED <<proc, clock, lock, struck>> /\ mgr[m].pc = "admit"
      /\ mgr[m].targets = <<>> /\ mgr[m].cmd = "start" /\ mgr[m].idx = 1
  BY InvocationTyped DEF Admit, Consistent, Placed, Starting
<1>2. Active(mgr[m])
  BY <1>1 DEF Active
<1>3. CASE Report(m, "HOLD", "release") /\ UNCHANGED stateFile
  <2> DEFINE r == [mgr[m] EXCEPT !.verdict = "HOLD", !.pc = "release"]
  <2>1. mgr' = [mgr EXCEPT ![m] = r]
    BY <1>3 DEF Report, Become
  <2>2. /\ r \in Invocations /\ r.pc = "release" /\ r.cmd = mgr[m].cmd
        /\ r.targets = mgr[m].targets /\ r.seenAt = mgr[m].seenAt /\ r.verdict = "HOLD"
    BY InvocationTyped DEF Invocations, Stages, Verdicts
  <2> HIDE DEF r
  <2>3. Consistent(r, proc, clock, stateFile)
    BY <1>1, <2>2, NothingTracked
  <2> QED BY <1>1, <1>2, <1>3, <2>1, <2>2, <2>3, QuietStep
<1>4. CASE stateFile' = Missing /\ Goto(m, "spawn")
  <2> DEFINE r == [mgr[m] EXCEPT !.pc = "spawn"]
  <2>1. mgr' = [mgr EXCEPT ![m] = r]
    BY <1>4 DEF Goto, Become
  <2>2. /\ r \in Invocations /\ r.pc = "spawn" /\ r.cmd = "start" /\ r.targets = <<>>
        /\ r.seenAt = mgr[m].seenAt /\ r.idx = 1
    BY <1>1, InvocationTyped DEF Invocations, Stages, Starting
  <2> HIDE DEF r
  <2>3. mgr[m].seenAt <= clock /\ 1 \in 1..Len(Services)
    BY InvocationTyped, ServicesAssumption DEF Consistent, Dated
  <2>4. Missing \in Files /\ Missing.services = <<>> /\ Missing.kind = "missing"
    <3>1. <<>> \in Seq(EntryType(Nat))
      OBVIOUS
    <3> QED BY <3>1 DEF Missing, Files
  <2>5. Placed(r) /\ Dated(r, clock) /\ Swept(r, proc) /\ Seen(r, proc)
    BY <2>2, <2>3 DEF Placed, Dated, Swept, Seen, Starting, Tracking, Sweeping
  <2>6. Recorded(r, Missing) /\ Surveyed(r, proc)
    BY <2>2, <2>4 DEF Recorded, Surveyed, Sweeping
  <2>7. Consistent(r, proc, clock, Missing)
    BY <2>5, <2>6 DEF Consistent
  <2>8. /\ Missing.kind = "valid" <=> Missing.services # <<>>
        /\ \A i \in 1..Len(Missing.services) : Missing.services[i].start \in 1..(clock - 1)
    BY <2>4
  <2> QED BY <1>1, <1>2, <1>4, <2>1, <2>2, <2>4, <2>7, <2>8, FileStep
<1> QED BY <1>3, <1>4 DEF Admit

\* A start that fails turns to its children, the last first (Throw).
LEMMA StartFailsStep ==
  ASSUME IInv, NEW m \in Managers, StartFails(m)
  PROVE  IInv'
<1> DEFINE r == [mgr[m] EXCEPT !.pc = "sweep", !.idx = Len(mgr[m].targets)]
<1>1. /\ mgr' = [mgr EXCEPT ![m] = r] /\ UNCHANGED <<proc, clock, stateFile, lock, struck>>
      /\ mgr[m].pc \in {"spawn"} \cup Tracking
  BY DEF StartFails, Throw, Become, Tracking
<1>2. /\ r \in Invocations /\ r.pc = "sweep" /\ r.cmd = mgr[m].cmd /\ r.targets = mgr[m].targets
      /\ r.seenAt = mgr[m].seenAt /\ r.idx = Len(mgr[m].targets) /\ r.verdict = mgr[m].verdict
      /\ Len(mgr[m].targets) \in Nat
  BY InvocationTyped DEF Invocations, Stages, Sweeping
<1> HIDE DEF r
<1>3. mgr[m].cmd = "start" /\ Active(mgr[m])
  BY <1>1, InvocationTyped DEF Consistent, Placed, Starting, Tracking, Active
<1>4. Placed(r) /\ Surveyed(r, proc) /\ Seen(r, proc)
  BY <1>2, <1>3 DEF Placed, Surveyed, Seen, Starting, Tracking
<1>5. Dated(r, clock)
  BY <1>2, InvocationTyped DEF Consistent, Dated, Tracking
<1>6. Recorded(r, stateFile)
  <2>1. Recorded(mgr[m], stateFile) /\ Len(stateFile.services) \in Nat
    BY InvocationTyped DEF Consistent, IInv, Typed, Files
  <2>2. CASE mgr[m].pc = "spawn"
    <3>1. stateFile.services = r.targets
      BY <1>2, <1>3, <2>1, <2>2 DEF Recorded
    <3> QED BY <1>2, <2>1, <3>1 DEF Recorded, Prefix
  <2>3. CASE mgr[m].pc \in {"verify", "write"}
    <3>1. Prefix(stateFile, mgr[m])
      BY <1>3, <2>1, <2>3 DEF Recorded
    <3> QED BY <1>2, <3>1 DEF Recorded, Prefix
  <2>4. CASE mgr[m].pc \in {"identity", "listener", "gate"}
    <3>1. stateFile.services = r.targets
      BY <1>2, <1>3, <2>1, <2>4 DEF Recorded, Valid
    <3> QED BY <1>2, <2>1, <3>1 DEF Recorded, Prefix
  <2> QED BY <1>1, <2>2, <2>3, <2>4 DEF Tracking
<1>7. Swept(r, proc)
  <2>1. (r.idx + 1)..Len(r.targets) = {}
    BY <1>2
  <2> QED BY <2>1 DEF Swept
<1> QED BY <1>1, <1>2, <1>3, <1>4, <1>5, <1>6, <1>7, QuietStep DEF Consistent

\* What happens to processes while an invocation does nothing: they lose their
\* leader, end, or begin, and what begins is newer than all that is tracked.
Ages(p, foreign) ==
  \/ /\ proc'[p].start = proc[p].start /\ proc'[p].cmd = proc[p].cmd
     /\ proc'[p].leader => proc[p].leader
  \/ proc'[p] = NoProc
  \/ /\ proc'[p].start = clock /\ clock' = clock + 1
     /\ foreign => proc'[p].cmd \notin ServiceIds

\* A step that ends and begins processes keeps what a manager knows of their ages.
LEMMA ConsistentAges ==
  ASSUME IInv, NEW n \in Managers, clock' \in {clock, clock + 1},
         \A p \in Pids : Ages(p, Active(mgr[n]))
  PROVE  Consistent(mgr[n], proc', clock', stateFile)
<1> DEFINE r == mgr[n]
<1>1. /\ Placed(r) /\ Dated(r, clock) /\ Recorded(r, stateFile)
      /\ Swept(r, proc) /\ Seen(r, proc) /\ Surveyed(r, proc)
      /\ clock \in Nat /\ r.idx \in Nat /\ r.seenAt \in Nat /\ Len(r.targets) \in Nat
  BY InvocationTyped DEF Consistent
<1>2. \A i \in 1..Len(r.targets) :
        r.targets[i].pid \in Pids /\ r.targets[i].start \in Nat /\ r.targets[i].start < clock
  BY <1>1, InvocationTyped DEF Dated
<1>3. NoProc.start = 0 /\ NoProc.leader = FALSE
  BY DEF NoProc
<1>4. \A p \in Pids : proc[p].start \in Nat
  BY DEF IInv, Typed, Processes
<1> HIDE DEF r
<1>5. Dated(r, clock')
  BY <1>1, <1>2 DEF Dated
<1>6. Swept(r, proc')
  <2>1. ASSUME NEW i \in (r.idx + 1)..Len(r.targets),
               r.targets[i].start = 0 \/ proc[r.targets[i].pid].start # r.targets[i].start
        PROVE  r.targets[i].start = 0 \/ proc'[r.targets[i].pid].start # r.targets[i].start
    <3>1. i \in 1..Len(r.targets)
      BY <1>1
    <3>2. Ages(r.targets[i].pid, Active(r))
      BY <3>1, <1>2 DEF r
    <3> QED BY <2>1, <3>1, <3>2, <1>1, <1>2, <1>3 DEF Ages
  <2>2. ASSUME NEW i \in (r.idx + 1)..Len(r.targets), Active(r),
               \/ ~proc[r.targets[i].pid].leader
               \/ proc[r.targets[i].pid].cmd \notin ServiceIds
        PROVE  \/ ~proc'[r.targets[i].pid].leader
               \/ proc'[r.targets[i].pid].cmd \notin ServiceIds
    <3>1. i \in 1..Len(r.targets)
      BY <1>1
    <3>2. Ages(r.targets[i].pid, TRUE)
      BY <2>2, <3>1, <1>2 DEF r, Ages
    <3> QED BY <2>2, <3>2, <1>3 DEF Ages
  <2>3. r.pc \in Sweeping \cup {"release"} /\ r.cmd = "start" => Active(r)
    BY DEF Active, Sweeping
  <2> QED BY <1>1, <2>1, <2>2, <2>3 DEF Swept
<1>7. Seen(r, proc')
  <2> SUFFICES ASSUME r.pc = "signal" PROVE Seen(r, proc')
    BY DEF Seen
  <2>1. r.idx \in 1..Len(r.targets) /\ r.seenAt <= clock
    BY <1>1 DEF Placed, Dated
  <2>2. Ages(r.targets[r.idx].pid, Active(r))
    BY <2>1, <1>2 DEF r
  <2> QED BY <2>1, <2>2, <1>1, <1>3 DEF Seen, Ages
<1>8. Surveyed(r, proc')
  <2>1. ASSUME NEW i \in r.idx..Len(r.targets), r.pc = "reinspect", ~UpIn(proc, r.targets[i])
        PROVE  ~UpIn(proc', r.targets[i])
    <3>1. i \in 1..Len(r.targets)
      BY <1>1, <2>1 DEF Placed
    <3>2. Ages(r.targets[i].pid, Active(r))
      BY <3>1, <1>2 DEF r
    <3> QED BY <2>1, <3>1, <3>2, <1>1, <1>2, <1>3 DEF Ages, UpIn
  <2> QED BY <1>1, <2>1 DEF Surveyed
<1> QED BY <1>1, <1>5, <1>6, <1>7, <1>8 DEF Consistent, r

\* A child in a new group, tracked from then on (SpawnService).
LEMMA SpawnStep ==
  ASSUME IInv, NEW m \in Managers, SpawnService(m)
  PROVE  IInv'
<1>1. PICK p \in Pids :
        /\ ~Alive(p)
        /\ proc' = [proc EXCEPT ![p] = [cmd |-> CurrentService(m), start |-> clock,
                                        leader |-> TRUE, port |-> Other]]
        /\ Become(m, [mgr[m] EXCEPT !.pc = "verify",
             !.targets = Append(mgr[m].targets, Entry(CurrentService(m), p, 0))])
  BY DEF SpawnService
<1> DEFINE child == Entry(CurrentService(m), p, 0)
           more == Append(mgr[m].targets, child)
           r == [mgr[m] EXCEPT !.pc = "verify", !.targets = more]
           group == [cmd |-> CurrentService(m), start |-> clock, leader |-> TRUE, port |-> Other]
<1>2. /\ mgr[m].pc = "spawn" /\ mgr[m].cmd = "start" /\ Active(mgr[m]) /\ clock <= MaxStarts
      /\ clock' = clock + 1 /\ UNCHANGED <<stateFile, lock, struck>> /\ clock \in Nat /\ clock >= 1
      /\ mgr[m].idx \in 1..Len(Services) /\ mgr[m].idx = Len(mgr[m].targets) + 1
      /\ stateFile.services = mgr[m].targets /\ mgr[m].seenAt <= clock /\ mgr[m].seenAt \in Nat
      /\ mgr[m].targets \in Seq(EntryType(Nat)) /\ Len(mgr[m].targets) \in Nat
  BY InvocationTyped DEF SpawnService, MayStart, Consistent, Placed, Dated, Recorded, Active,
     Starting, IInv, Typed
<1>3. CurrentService(m) \in ServiceIds
  BY <1>2 DEF CurrentService, ServiceIds
<1>4. child \in EntryType(Nat) /\ child.start = 0
  BY <1>3 DEF Entry, EntryType
<1>5. group \in Processes /\ group.start = clock
  BY <1>2, <1>3 DEF Processes
<1>6. proc' = [proc EXCEPT ![p] = group] /\ mgr' = [mgr EXCEPT ![m] = r]
  BY <1>1 DEF Become
<1> HIDE DEF child, group
<1>7. /\ more \in Seq(EntryType(Nat)) /\ Len(more) = Len(mgr[m].targets) + 1
      /\ \A i \in 1..Len(mgr[m].targets) : more[i] = mgr[m].targets[i]
      /\ more[Len(mgr[m].targets) + 1] = child
  BY <1>2, <1>4
<1> HIDE DEF more
<1>8. /\ r \in Invocations /\ r.pc = "verify" /\ r.cmd = mgr[m].cmd /\ r.targets = more
      /\ r.seenAt = mgr[m].seenAt /\ r.idx = mgr[m].idx /\ r.verdict = mgr[m].verdict
  BY <1>7, InvocationTyped DEF Invocations, Stages, Starting, Tracking
<1> HIDE DEF r
<1>9. /\ mgr' \in [Managers -> Invocations] /\ mgr'[m] = r
      /\ \A n \in Managers \ {m} : mgr'[n] = mgr[n] /\ ~Active(mgr[n])
  BY <1>2, <1>6, <1>8 DEF IInv, Typed, Held
<1>10. /\ proc' \in [Pids -> Processes] /\ proc'[p] = group
       /\ \A q \in Pids \ {p} : proc'[q] = proc[q]
  BY <1>5, <1>6 DEF IInv, Typed
<1>11. Typed' /\ StruckWasTracked'
  <2>1. clock' \in 1..(MaxStarts + 1)
    BY <1>2, BoundsAssumption
  <2> QED BY <1>2, <1>9, <1>10, <2>1 DEF IInv, Typed, StruckWasTracked
<1>12. Past'
  <2>1. ASSUME NEW q \in Pids
        PROVE  proc'[q].start < clock' /\ (proc'[q] = NoProc \/ proc'[q].start >= 1)
    <3>1. CASE q = p
      BY <3>1, <1>2, <1>5, <1>10
    <3>2. CASE q # p
      <4>1. proc'[q] = proc[q] /\ proc[q].start \in Nat /\ proc[q].start < clock
            /\ (proc[q] = NoProc \/ proc[q].start >= 1)
        BY <3>2, <1>10 DEF IInv, Past, Typed, Processes
      <4> QED BY <4>1, <1>2
    <3> QED BY <3>1, <3>2
  <2>2. ASSUME NEW i \in 1..Len(stateFile.services)
        PROVE  stateFile.services[i].start \in 1..(clock' - 1)
    <3>1. stateFile.services[i].start \in 1..(clock - 1)
      BY DEF IInv, Past
    <3> QED BY <3>1, <1>2
  <2> QED BY <1>2, <2>1, <2>2 DEF IInv, Past
<1>13. Held'
  BY <1>2, <1>8, <1>9 DEF IInv, Held
<1>14. Consistent(r, proc', clock', stateFile)
  <2>1. Placed(r)
    BY <1>2, <1>7, <1>8 DEF Placed, Starting, Tracking
  <2>2. Dated(r, clock')
    <3>1. ASSUME NEW i \in 1..Len(more)
          PROVE  more[i].start < clock' /\ (more[i].start >= 1 \/ i = Len(more))
      <4>1. CASE i \in 1..Len(mgr[m].targets)
        <5>1. /\ mgr[m].targets[i].start < clock /\ mgr[m].targets[i].start >= 1
              /\ mgr[m].targets[i].start \in Nat
          BY <4>1, <1>2, InvocationTyped DEF Consistent, Dated
        <5>2. more[i] = mgr[m].targets[i]
          BY <4>1, <1>7
        <5>3. clock' = clock + 1 /\ clock \in Nat
          BY <1>2
        <5> QED BY <5>1, <5>2, <5>3
      <4>2. CASE i = Len(mgr[m].targets) + 1
        BY <4>2, <1>2, <1>4, <1>7
      <4> QED BY <4>1, <4>2, <1>2, <1>7
    <3> QED BY <3>1, <1>2, <1>8 DEF Dated
  <2>3. Recorded(r, stateFile)
    BY <1>2, <1>7, <1>8 DEF Recorded, Prefix, Sweeping
  <2>4. Swept(r, proc') /\ Seen(r, proc') /\ Surveyed(r, proc')
    BY <1>2, <1>8 DEF Swept, Seen, Surveyed, Sweeping
  <2> QED BY <2>1, <2>2, <2>3, <2>4 DEF Consistent
<1>15. ASSUME NEW n \in Managers \ {m}
       PROVE  Consistent(mgr[n], proc', clock', stateFile)
  <2>1. \A q \in Pids : Ages(q, Active(mgr[n]))
    BY <1>2, <1>5, <1>9, <1>10 DEF Ages
  <2> QED BY <2>1, <1>2, ConsistentAges
<1>16. \A n \in Managers : Consistent(mgr'[n], proc', clock', stateFile')
  BY <1>2, <1>9, <1>14, <1>15
<1> QED BY <1>11, <1>12, <1>13, <1>16 DEF IInv

\* What ps says of a process that it sees (Inspect).
LEMMA InspectSees ==
  ASSUME IInv, NEW p \in Pids, NEW o \in Inspect(p), o # NotRunning
  PROVE  /\ proc[p].leader /\ o.cmd = proc[p].cmd /\ o.start = proc[p].start
         /\ o.start \in Nat /\ o.start >= 1 /\ o.start < clock
<1>1. proc[p] \in Processes /\ (proc[p] = NoProc \/ proc[p].start >= 1) /\ proc[p].start < clock
  BY DEF IInv, Typed, Past
<1>2. proc[p].leader /\ o = Observed(p)
  BY DEF Inspect
<1>3. proc[p] # NoProc
  BY <1>2 DEF NoProc
<1> QED BY <1>1, <1>2, <1>3 DEF Observed, Processes

\* The child runs its command: its fingerprint is taken (WaitForOwnedProcess).
LEMMA VerifyStep ==
  ASSUME IInv, NEW m \in Managers, WaitForOwnedProcess(m)
  PROVE  IInv'
<1> DEFINE last == Len(mgr[m].targets)
<1>1. PICK o \in Inspect(Child(m).pid) :
        /\ o # NotRunning /\ o.cmd = Child(m).id
        /\ Become(m, [mgr[m] EXCEPT !.pc = "write", !.targets[last].start = o.start])
  BY DEF WaitForOwnedProcess
<1>2. /\ mgr[m].pc = "verify" /\ mgr[m].cmd = "start" /\ Active(mgr[m])
      /\ UNCHANGED <<proc, clock, stateFile, lock, struck>> /\ clock \in Nat
      /\ mgr[m].idx \in 1..Len(Services) /\ mgr[m].idx = last
      /\ Prefix(stateFile, mgr[m]) /\ Len(stateFile.services) + 1 = last
      /\ mgr[m].seenAt <= clock /\ last \in Nat
      /\ mgr[m].targets \in Seq(EntryType(Nat))
      /\ Len(stateFile.services) \in Nat
  BY InvocationTyped DEF WaitForOwnedProcess, Consistent, Placed, Dated, Recorded, Active,
     Starting, Tracking, IInv, Typed, Files
<1>3. last \in 1..last /\ Child(m) = mgr[m].targets[last] /\ Child(m).pid \in Pids
      /\ Child(m) \in EntryType(Nat)
  BY <1>2, InvocationTyped DEF Child
<1>4. o.start \in Nat /\ o.start >= 1 /\ o.start < clock
  BY <1>1, <1>3, InspectSees
<1> DEFINE child == [mgr[m].targets[last] EXCEPT !.start = o.start]
           known == [mgr[m].targets EXCEPT ![last] = child]
           r == [mgr[m] EXCEPT !.pc = "write", !.targets = known]
<1>5. mgr' = [mgr EXCEPT ![m] = r]
  BY <1>1 DEF Become
<1>6. child \in EntryType(Nat) /\ child.start = o.start
  BY <1>3, <1>4 DEF EntryType
<1> HIDE DEF child
<1>7. /\ known \in Seq(EntryType(Nat)) /\ Len(known) = last /\ known[last] = child
      /\ \A i \in 1..last : i # last => known[i] = mgr[m].targets[i]
  BY <1>2, <1>3, <1>6
<1> HIDE DEF known
<1>8. /\ r \in Invocations /\ r.pc = "write" /\ r.cmd = mgr[m].cmd /\ r.targets = known
      /\ r.seenAt = mgr[m].seenAt /\ r.idx = mgr[m].idx
  BY <1>7, InvocationTyped DEF Invocations, Stages, Starting, Tracking
<1> HIDE DEF r, last
<1>9. Placed(r)
  BY <1>2, <1>7, <1>8 DEF Placed, Starting, Tracking
<1>10. Dated(r, clock)
  <2>1. ASSUME NEW i \in 1..last
        PROVE  known[i].start < clock /\ known[i].start >= 1
    <3>1. CASE i # last
      BY <3>1, <1>2, <1>7, InvocationTyped DEF Consistent, Dated, Tracking, last
    <3>2. CASE i = last
      BY <3>2, <1>4, <1>6, <1>7
    <3> QED BY <3>1, <3>2
  <2> QED BY <2>1, <1>2, <1>7, <1>8 DEF Dated
<1>11. Recorded(r, stateFile)
  <2>1. Prefix(stateFile, r)
    <3>1. ASSUME NEW i \in 1..Len(stateFile.services)
          PROVE  i \in 1..last /\ i # last /\ stateFile.services[i] = mgr[m].targets[i]
      BY <1>2 DEF Prefix
    <3> QED BY <3>1, <1>2, <1>7, <1>8 DEF Prefix
  <2> QED BY <2>1, <1>2, <1>7, <1>8 DEF Recorded, Sweeping
<1>12. Swept(r, proc) /\ Seen(r, proc) /\ Surveyed(r, proc)
  BY <1>2, <1>8 DEF Swept, Seen, Surveyed, Sweeping
<1> QED BY <1>2, <1>5, <1>8, <1>9, <1>10, <1>11, <1>12, QuietStep DEF Consistent

\* Between two stages of a start that both have all its children recorded.
LEMMA StageStep ==
  ASSUME IInv, NEW m \in Managers, mgr[m].pc \in Tracking, NEW file \in Files,
         NEW r \in Invocations, r.pc \in {"identity", "listener", "gate"},
         r.targets = mgr[m].targets, r.seenAt = mgr[m].seenAt, r.idx = mgr[m].idx,
         r.cmd = mgr[m].cmd, file = Valid(r.targets), mgr[m].pc # "verify"
  PROVE  Consistent(r, proc, clock, file) /\ Active(mgr[m])
<1>1. /\ mgr[m].cmd = "start" /\ mgr[m].idx \in 1..Len(Services)
      /\ mgr[m].idx = Len(mgr[m].targets) /\ Dated(mgr[m], clock)
  BY InvocationTyped DEF Consistent, Placed, Starting, Tracking
<1>2. Placed(r) /\ Active(mgr[m])
  BY <1>1 DEF Placed, Active, Starting, Tracking
<1>3. Dated(r, clock)
  BY <1>1 DEF Dated, Tracking
<1>4. Recorded(r, file)
  BY DEF Recorded, Sweeping
<1>5. Swept(r, proc) /\ Seen(r, proc) /\ Surveyed(r, proc)
  BY <1>1 DEF Swept, Seen, Surveyed, Sweeping
<1> QED BY <1>2, <1>3, <1>4, <1>5 DEF Consistent

\* The record of all children replaces the one before (WriteState).
LEMMA WriteStep ==
  ASSUME IInv, NEW m \in Managers, WriteState(m)
  PROVE  IInv'
<1> DEFINE r == [mgr[m] EXCEPT !.pc = "identity"]
           file == Valid(mgr[m].targets)
<1>1. /\ mgr' = [mgr EXCEPT ![m] = r] /\ stateFile' = file /\ mgr[m].pc = "write"
      /\ UNCHANGED <<proc, clock, lock, struck>>
  BY DEF WriteState, Goto, Become
<1>2. /\ r \in Invocations /\ r.pc = "identity" /\ r.cmd = mgr[m].cmd
      /\ r.targets = mgr[m].targets /\ r.seenAt = mgr[m].seenAt /\ r.idx = mgr[m].idx
  BY InvocationTyped DEF Invocations, Stages, Starting, Tracking
<1>3. /\ mgr[m].targets \in Seq(EntryType(Nat)) /\ mgr[m].idx = Len(mgr[m].targets)
      /\ mgr[m].idx \in 1..Len(Services)
      /\ \A i \in 1..Len(mgr[m].targets) : /\ mgr[m].targets[i].start \in Nat
                                           /\ mgr[m].targets[i].start < clock
                                           /\ mgr[m].targets[i].start >= 1
      /\ clock \in Nat
  BY <1>1, InvocationTyped DEF Consistent, Placed, Dated, Starting, Tracking
<1>4. /\ file \in Files /\ file.kind = "valid" /\ file.services = mgr[m].targets
  BY <1>3 DEF Files, Valid
<1>5. mgr[m].targets # <<>>
  BY <1>3, ServicesAssumption
<1> HIDE DEF r
<1>6. Consistent(r, proc, clock, file) /\ Active(mgr[m])
  <2>1. mgr[m].pc \in Tracking /\ mgr[m].pc # "verify" /\ file = Valid(r.targets)
    BY <1>1, <1>2 DEF Tracking
  <2> HIDE DEF file
  <2> QED BY <1>2, <1>4, <2>1, StageStep
<1> HIDE DEF file
<1>7. \A i \in 1..Len(file.services) : file.services[i].start \in 1..(clock - 1)
  BY <1>3, <1>4
<1> QED BY <1>1, <1>2, <1>4, <1>5, <1>6, <1>7, FileStep

\* Whoever listens has answered with the identity (WaitForServiceIdentity).
LEMMA IdentityStep ==
  ASSUME IInv, NEW m \in Managers, WaitForServiceIdentity(m)
  PROVE  IInv'
<1> DEFINE r == [mgr[m] EXCEPT !.pc = "listener"]
<1>1. /\ mgr' = [mgr EXCEPT ![m] = r] /\ mgr[m].pc = "identity"
      /\ UNCHANGED <<proc, clock, stateFile, lock, struck>>
  BY DEF WaitForServiceIdentity, Goto, Become
<1>2. /\ r \in Invocations /\ r.pc = "listener" /\ r.cmd = mgr[m].cmd
      /\ r.targets = mgr[m].targets /\ r.seenAt = mgr[m].seenAt /\ r.idx = mgr[m].idx
  BY InvocationTyped DEF Invocations, Stages, Starting, Tracking
<1> HIDE DEF r
<1>3. stateFile = Valid(r.targets) /\ stateFile \in Files
  BY <1>1, <1>2, InvocationTyped
     DEF Consistent, Recorded, Placed, Active, Starting, Tracking, IInv, Typed
<1>4. Consistent(r, proc, clock, stateFile) /\ Active(mgr[m])
  <2>1. mgr[m].pc \in Tracking /\ mgr[m].pc # "verify"
    BY <1>1 DEF Tracking
  <2> QED BY <1>2, <1>3, <2>1, StageStep
<1> QED BY <1>1, <1>2, <1>4, QuietStep

\* The next service, or all of them run (start's loop over the services).
LEMMA NextServiceStep ==
  ASSUME IInv, NEW m \in Managers, mgr[m].pc \in {"listener", "gate"},
         mgr' = [mgr EXCEPT ![m] = NextService(mgr[m])],
         UNCHANGED <<proc, clock, stateFile, lock, struck>>
  PROVE  IInv'
<1>1. /\ mgr[m].cmd = "start" /\ Active(mgr[m]) /\ mgr[m].idx \in 1..Len(Services)
      /\ mgr[m].idx = Len(mgr[m].targets) /\ stateFile = Valid(mgr[m].targets)
      /\ Dated(mgr[m], clock) /\ Len(Services) \in Nat
      /\ mgr[m].targets \in Seq(EntryType(Nat))
  BY InvocationTyped, ServicesAssumption
     DEF Consistent, Placed, Recorded, Active, Starting, Tracking
<1>2. CASE mgr[m].idx < Len(Services)
  <2> DEFINE r == [mgr[m] EXCEPT !.idx = mgr[m].idx + 1, !.pc = "spawn"]
  <2>1. mgr' = [mgr EXCEPT ![m] = r]
    BY <1>2 DEF NextService
  <2>2. mgr[m].idx + 1 \in Nat /\ mgr[m].idx + 1 \in 1..Len(Services)
    BY <1>1, <1>2
  <2>3. /\ r \in Invocations /\ r.pc = "spawn" /\ r.cmd = mgr[m].cmd
        /\ r.targets = mgr[m].targets /\ r.seenAt = mgr[m].seenAt /\ r.idx = mgr[m].idx + 1
    BY <2>2, InvocationTyped DEF Invocations, Stages, Starting
  <2> HIDE DEF r
  <2>4. Placed(r)
    BY <1>1, <2>2, <2>3 DEF Placed, Starting, Tracking
  <2>5. Dated(r, clock)
    BY <1>1, <2>3 DEF Dated, Tracking
  <2>6. Recorded(r, stateFile)
    BY <1>1, <2>3 DEF Recorded, Valid, Sweeping
  <2>7. Swept(r, proc) /\ Seen(r, proc) /\ Surveyed(r, proc)
    BY <1>1, <2>3 DEF Swept, Seen, Surveyed, Sweeping
  <2> QED BY <1>1, <2>1, <2>3, <2>4, <2>5, <2>6, <2>7, QuietStep DEF Consistent
<1>3. CASE ~(mgr[m].idx < Len(Services))
  <2> DEFINE r == [mgr[m] EXCEPT !.verdict = "RUNNING", !.pc = "release"]
  <2>1. mgr' = [mgr EXCEPT ![m] = r]
    BY <1>3 DEF NextService
  <2>2. /\ r \in Invocations /\ r.pc = "release" /\ r.cmd = mgr[m].cmd /\ r.verdict = "RUNNING"
        /\ r.targets = mgr[m].targets /\ r.seenAt = mgr[m].seenAt /\ r.idx = mgr[m].idx
    BY InvocationTyped DEF Invocations, Stages, Verdicts
  <2> HIDE DEF r
  <2>3. Len(r.targets) = Len(Services)
    BY <1>1, <1>3, <2>2
  <2>4. Placed(r) /\ Seen(r, proc) /\ Surveyed(r, proc)
    BY <1>1, <2>2 DEF Placed, Seen, Surveyed, Starting, Tracking
  <2>5. Dated(r, clock)
    BY <1>1, <2>2 DEF Dated, Tracking
  <2>6. Recorded(r, stateFile)
    BY <1>1, <2>2, <2>3 DEF Recorded, Sweeping
  <2>7. Swept(r, proc)
    <3>1. (r.idx + 1)..Len(r.targets) = {}
      BY <1>1, <2>2
    <3> QED BY <3>1 DEF Swept
  <2> QED BY <1>1, <2>1, <2>2, <2>4, <2>5, <2>6, <2>7, QuietStep DEF Consistent
<1> QED BY <1>2, <1>3

\* The listener is in the tracked group: on to its gate or to the next service
\* (WaitForServiceOwnership, HeldDurableGate).
LEMMA OwnershipStep ==
  ASSUME IInv, NEW m \in Managers, WaitForServiceOwnership(m) \/ HeldDurableGate(m)
  PROVE  IInv'
<1>1. UNCHANGED <<proc, clock, stateFile, lock, struck>> /\ mgr[m].pc \in {"listener", "gate"}
  BY DEF WaitForServiceOwnership, HeldDurableGate
<1>2. CASE Become(m, NextService(mgr[m]))
  BY <1>1, <1>2, NextServiceStep DEF Become
<1>3. CASE Become(m, [mgr[m] EXCEPT !.pc = "gate"])
  <2> DEFINE r == [mgr[m] EXCEPT !.pc = "gate"]
  <2>1. mgr' = [mgr EXCEPT ![m] = r]
    BY <1>3 DEF Become
  <2>2. /\ r \in Invocations /\ r.pc = "gate" /\ r.cmd = mgr[m].cmd
        /\ r.targets = mgr[m].targets /\ r.seenAt = mgr[m].seenAt /\ r.idx = mgr[m].idx
    BY InvocationTyped DEF Invocations, Stages, Starting, Tracking
  <2> HIDE DEF r
  <2>3. stateFile = Valid(r.targets) /\ stateFile \in Files
    BY <1>1, <2>2, InvocationTyped
       DEF Consistent, Recorded, Placed, Active, Starting, Tracking, IInv, Typed
  <2>4. mgr[m].pc \in Tracking /\ mgr[m].pc # "verify"
    BY <1>1 DEF Tracking
  <2>5. Consistent(r, proc, clock, stateFile) /\ Active(mgr[m])
    BY <2>2, <2>3, <2>4, StageStep
  <2> QED BY <1>1, <2>1, <2>2, <2>5, QuietStep
<1> QED BY <1>2, <1>3 DEF WaitForServiceOwnership, HeldDurableGate

-----------------------------------------------------------------------------
(***************************************************************************)
(* stop, and the cleanup of a start that failed                            *)
(***************************************************************************)

\* The record is read, or there is nothing to stop (LoadState).
LEMMA LoadStep ==
  ASSUME IInv, NEW m \in Managers, LoadState(m)
  PROVE  IInv'
<1>1. /\ UNCHANGED <<proc, clock, stateFile, lock, struck>> /\ mgr[m].pc = "load"
      /\ mgr[m].cmd = "stop" /\ Active(mgr[m]) /\ mgr[m].seenAt <= clock
      /\ Dated(mgr[m], clock) /\ clock \in Nat
  BY InvocationTyped DEF LoadState, Consistent, Placed, Active, Dated
<1>2. /\ stateFile.services \in Seq(EntryType(Nat)) /\ Len(stateFile.services) \in Nat
      /\ \A i \in 1..Len(stateFile.services) : stateFile.services[i].start \in 1..(clock - 1)
  BY DEF IInv, Typed, Past, Files
<1>3. CASE stateFile.kind = "valid"
  <2> DEFINE r == [mgr[m] EXCEPT !.targets = stateFile.services,
                                 !.idx = Len(stateFile.services), !.pc = "sweep"]
  <2>1. mgr' = [mgr EXCEPT ![m] = r]
    BY <1>3 DEF LoadState, Become
  <2>2. /\ r \in Invocations /\ r.pc = "sweep" /\ r.cmd = mgr[m].cmd
        /\ r.targets = stateFile.services /\ r.seenAt = mgr[m].seenAt
        /\ r.idx = Len(stateFile.services)
    BY <1>2, InvocationTyped DEF Invocations, Stages, Sweeping
  <2> HIDE DEF r
  <2>3. Placed(r) /\ Seen(r, proc) /\ Surveyed(r, proc)
    BY <1>1, <1>2, <2>2 DEF Placed, Seen, Surveyed, Starting, Tracking
  <2>4. Dated(r, clock)
    BY <1>1, <1>2, <2>2 DEF Dated, Tracking
  <2>5. Recorded(r, stateFile)
    BY <1>2, <2>2 DEF Recorded, Prefix
  <2>6. Swept(r, proc)
    <3>1. (r.idx + 1)..Len(r.targets) = {}
      BY <1>2, <2>2
    <3> QED BY <3>1 DEF Swept
  <2> QED BY <1>1, <2>1, <2>2, <2>3, <2>4, <2>5, <2>6, QuietStep DEF Consistent
<1>4. CASE stateFile.kind # "valid"
  <2> DEFINE verdict == IF stateFile.kind = "missing" THEN "STOPPED" ELSE "HOLD"
             r == [mgr[m] EXCEPT !.verdict = verdict, !.pc = "release"]
  <2>1. mgr' = [mgr EXCEPT ![m] = r]
    BY <1>4 DEF LoadState, Report, Become
  <2>2. verdict \in Verdicts
    BY DEF Verdicts
  <2> HIDE DEF verdict
  <2>3. /\ r \in Invocations /\ r.pc = "release" /\ r.cmd = mgr[m].cmd
        /\ r.targets = mgr[m].targets /\ r.seenAt = mgr[m].seenAt
    BY <2>2, InvocationTyped DEF Invocations, Stages
  <2> HIDE DEF r
  <2>4. Placed(r) /\ Seen(r, proc) /\ Surveyed(r, proc)
    BY <1>1, <2>3 DEF Placed, Seen, Surveyed, Starting, Tracking
  <2>5. Dated(r, clock)
    BY <1>1, <2>3 DEF Dated, Tracking
  <2>6. Recorded(r, stateFile) /\ Swept(r, proc)
    BY <1>1, <2>3 DEF Recorded, Swept, Sweeping
  <2> QED BY <1>1, <2>1, <2>3, <2>4, <2>5, <2>6, QuietStep DEF Consistent
<1> QED BY <1>3, <1>4

\* On to the entry before, with this one gone or left for the report (NextTarget).
LEMMA NextTargetStep ==
  ASSUME IInv, NEW m \in Managers, mgr[m].pc \in Sweeping, mgr[m].idx \in 1..Len(mgr[m].targets),
         NEW left \in SUBSET Pids, mgr[m].unresolved \subseteq left,
         Target(m).pid \in left \/ proc[Target(m).pid] = NoProc,
         mgr' = [mgr EXCEPT ![m] =
           [mgr[m] EXCEPT !.unresolved = left, !.idx = mgr[m].idx - 1, !.pc = "sweep"]],
         UNCHANGED <<proc, clock, stateFile, lock, struck>>
  PROVE  IInv'
<1> DEFINE r == [mgr[m] EXCEPT !.unresolved = left, !.idx = mgr[m].idx - 1, !.pc = "sweep"]
<1>1. /\ mgr[m].idx \in Nat /\ Len(mgr[m].targets) \in Nat /\ mgr[m].idx - 1 \in Nat
      /\ Active(mgr[m]) /\ Recorded(mgr[m], stateFile) /\ Dated(mgr[m], clock)
      /\ Placed(mgr[m]) /\ Swept(mgr[m], proc) /\ Surveyed(mgr[m], proc)
  BY InvocationTyped DEF Consistent, Placed, Active, Sweeping
<1>2. /\ r \in Invocations /\ r.pc = "sweep" /\ r.cmd = mgr[m].cmd /\ r.targets = mgr[m].targets
      /\ r.seenAt = mgr[m].seenAt /\ r.idx = mgr[m].idx - 1 /\ r.unresolved = left
      /\ r.verdict = mgr[m].verdict
  BY <1>1, InvocationTyped DEF Invocations, Stages, Sweeping
<1>3. mgr' = [mgr EXCEPT ![m] = r]
  OBVIOUS
<1> HIDE DEF r
<1>4. Placed(r) /\ Seen(r, proc) /\ Surveyed(r, proc) /\ Dated(r, clock)
  BY <1>1, <1>2 DEF Placed, Seen, Surveyed, Dated, Active, Starting, Tracking
<1>5. Recorded(r, stateFile)
  BY <1>1, <1>2 DEF Recorded, Prefix, Sweeping
<1>6. Swept(r, proc)
  <2>1. ASSUME NEW i \in (r.idx + 1)..Len(r.targets), i # mgr[m].idx
        PROVE  i \in (mgr[m].idx + 1)..Len(mgr[m].targets)
    BY <2>1, <1>1, <1>2
  <2>2. mgr[m].targets[mgr[m].idx].start \in Nat /\ NoProc.start = 0 /\ NoProc.leader = FALSE
    BY InvocationTyped DEF NoProc
  <2>3. left = {} => mgr[m].unresolved = {}
    OBVIOUS
  <2> QED BY <1>1, <1>2, <2>1, <2>2, <2>3 DEF Swept, Target
<1> QED BY <1>1, <1>2, <1>3, <1>4, <1>5, <1>6, QuietStep DEF Consistent

\* Gone, not the process that was tracked, or inspected and found (InspectTarget).
LEMMA InspectTargetStep ==
  ASSUME IInv, NEW m \in Managers, InspectTarget(m)
  PROVE  IInv'
<1>1. PICK o \in Inspect(Target(m).pid) :
       Become(m,
         IF o = NotRunning /\ ~ProcessGroupIsAlive(Target(m).pid)
         THEN NextTarget(mgr[m])
         ELSE IF ~OwnedProcess(Target(m), o)
         THEN LeaveTarget(m, mgr[m])
         ELSE [mgr[m] EXCEPT !.pc = "signal", !.seenAt = clock])
  BY DEF InspectTarget
<1>2. /\ mgr[m].pc \in Sweeping /\ mgr[m].pc = "sweep"
      /\ UNCHANGED <<proc, clock, stateFile, lock, struck>>
      /\ mgr[m].idx \in 1..Len(mgr[m].targets) /\ mgr[m] \in Invocations
      /\ mgr[m].unresolved \in SUBSET Pids /\ clock \in Nat
  BY InvocationTyped DEF InspectTarget, Consistent, Placed, Sweeping
<1>3. Target(m).pid \in Pids /\ Target(m) = mgr[m].targets[mgr[m].idx]
  BY <1>2, InvocationTyped DEF Target
<1>4. CASE o = NotRunning /\ ~ProcessGroupIsAlive(Target(m).pid)
  <2>1. proc[Target(m).pid] = NoProc
    BY <1>4 DEF ProcessGroupIsAlive, Alive
  <2>2. mgr' = [mgr EXCEPT ![m] = [mgr[m] EXCEPT !.unresolved = mgr[m].unresolved,
                                   !.idx = mgr[m].idx - 1, !.pc = "sweep"]]
    BY <1>1, <1>2, <1>4 DEF Become, NextTarget, Invocations
  <2> QED BY <1>2, <2>1, <2>2, NextTargetStep
<1>5. CASE /\ ~(o = NotRunning /\ ~ProcessGroupIsAlive(Target(m).pid))
           /\ ~OwnedProcess(Target(m), o)
  <2> DEFINE left == mgr[m].unresolved \cup {Target(m).pid}
  <2>1. mgr' = [mgr EXCEPT ![m] = [mgr[m] EXCEPT !.unresolved = left,
                                   !.idx = mgr[m].idx - 1, !.pc = "sweep"]]
    BY <1>1, <1>5 DEF Become, LeaveTarget, NextTarget
  <2>2. left \in SUBSET Pids /\ mgr[m].unresolved \subseteq left /\ Target(m).pid \in left
    BY <1>2, <1>3
  <2> HIDE DEF left
  <2> QED BY <1>2, <2>1, <2>2, NextTargetStep
<1>6. CASE OwnedProcess(Target(m), o)
  <2> DEFINE r == [mgr[m] EXCEPT !.pc = "signal", !.seenAt = clock]
  <2>1. mgr' = [mgr EXCEPT ![m] = r]
    BY <1>1, <1>6 DEF Become, OwnedProcess
  <2>2. /\ r \in Invocations /\ r.pc = "signal" /\ r.cmd = mgr[m].cmd
        /\ r.targets = mgr[m].targets /\ r.seenAt = clock /\ r.idx = mgr[m].idx
        /\ r.unresolved = mgr[m].unresolved /\ r.verdict = mgr[m].verdict
    BY <1>2 DEF Invocations, Stages, Sweeping
  <2> HIDE DEF r
  <2>3. /\ Active(mgr[m]) /\ Recorded(mgr[m], stateFile) /\ Dated(mgr[m], clock)
        /\ Placed(mgr[m]) /\ Swept(mgr[m], proc) /\ Surveyed(mgr[m], proc)
    BY <1>2, InvocationTyped DEF Consistent, Placed, Active
  <2>4. Placed(r) /\ Surveyed(r, proc) /\ Dated(r, clock)
    BY <1>2, <2>2, <2>3 DEF Placed, Surveyed, Dated, Active, Starting, Tracking
  <2>5. Recorded(r, stateFile) /\ Swept(r, proc)
    BY <1>2, <2>2, <2>3 DEF Recorded, Prefix, Swept, Sweeping
  <2>6. Seen(r, proc)
    <3>1. proc[Target(m).pid].start = Target(m).start
      BY <1>3, <1>6, InspectSees DEF OwnedProcess
    <3> QED BY <1>3, <2>2, <3>1 DEF Seen
  <2> QED BY <1>2, <2>1, <2>2, <2>3, <2>4, <2>5, <2>6, QuietStep DEF Consistent
<1> QED BY <1>4, <1>5, <1>6

\* The signal reaches whatever leads the group by now (SignalOwnedEntry).
LEMMA SignalStep ==
  ASSUME IInv, NEW m \in Managers, SignalOwnedEntry(m)
  PROVE  IInv'
<1> DEFINE r == [mgr[m] EXCEPT !.pc = "exit"]
           shot == [hit |-> proc[Target(m).pid].start, tracked |-> Target(m).start,
                    seenAt |-> mgr[m].seenAt]
<1>1. /\ mgr' = [mgr EXCEPT ![m] = r] /\ mgr[m].pc = "signal" /\ struck' = struck \cup {shot}
      /\ UNCHANGED <<proc, clock, stateFile, lock>>
  BY DEF SignalOwnedEntry, Goto, Become
<1>2. /\ r \in Invocations /\ r.pc = "exit" /\ r.cmd = mgr[m].cmd /\ r.targets = mgr[m].targets
      /\ r.seenAt = mgr[m].seenAt /\ r.idx = mgr[m].idx /\ r.unresolved = mgr[m].unresolved
      /\ r.verdict = mgr[m].verdict
  BY InvocationTyped DEF Invocations, Stages, Sweeping
<1>3. shot.hit = shot.tracked \/ shot.hit = 0 \/ shot.hit >= shot.seenAt
  BY <1>1, InvocationTyped DEF Consistent, Seen, Target
<1> HIDE DEF r, shot
<1>4. /\ Active(mgr[m]) /\ Recorded(mgr[m], stateFile) /\ Dated(mgr[m], clock)
      /\ Placed(mgr[m]) /\ Swept(mgr[m], proc) /\ Surveyed(mgr[m], proc)
  BY <1>1, InvocationTyped DEF Consistent, Placed, Active
<1>5. Placed(r) /\ Surveyed(r, proc) /\ Dated(r, clock) /\ Seen(r, proc)
  BY <1>1, <1>2, <1>4 DEF Placed, Surveyed, Dated, Seen, Active, Starting, Tracking
<1>6. Recorded(r, stateFile) /\ Swept(r, proc)
  BY <1>1, <1>2, <1>4 DEF Recorded, Prefix, Swept, Sweeping
<1>7. /\ mgr' \in [Managers -> Invocations] /\ mgr'[m] = r
      /\ \A n \in Managers \ {m} : mgr'[n] = mgr[n]
  BY <1>1, <1>2 DEF IInv, Typed
<1>8. Typed' /\ Past'
  BY <1>1, <1>7 DEF IInv, Typed, Past
<1>9. StruckWasTracked'
  BY <1>1, <1>3 DEF IInv, StruckWasTracked
<1>10. Held'
  BY <1>1, <1>4, <1>7 DEF IInv, Held
<1>11. \A n \in Managers : Consistent(mgr'[n], proc', clock', stateFile')
  BY <1>1, <1>5, <1>6, <1>7 DEF IInv, Consistent
<1> QED BY <1>8, <1>9, <1>10, <1>11 DEF IInv

\* The group is gone, or the deadline has passed (WaitForExit).
LEMMA WaitForExitStep ==
  ASSUME IInv, NEW m \in Managers, WaitForExit(m)
  PROVE  IInv'
<1>1. /\ mgr[m].pc \in Sweeping /\ UNCHANGED <<proc, clock, stateFile, lock, struck>>
      /\ mgr[m].idx \in 1..Len(mgr[m].targets) /\ mgr[m] \in Invocations
      /\ mgr[m].unresolved \in SUBSET Pids
  BY InvocationTyped DEF WaitForExit, Consistent, Placed, Sweeping
<1>2. Target(m).pid \in Pids
  BY <1>1, InvocationTyped DEF Target
<1>3. CASE ~ProcessGroupIsAlive(Target(m).pid) /\ Become(m, NextTarget(mgr[m]))
  <2>1. proc[Target(m).pid] = NoProc
    BY <1>3 DEF ProcessGroupIsAlive, Alive
  <2>2. mgr' = [mgr EXCEPT ![m] = [mgr[m] EXCEPT !.unresolved = mgr[m].unresolved,
                                   !.idx = mgr[m].idx - 1, !.pc = "sweep"]]
    BY <1>1, <1>3 DEF Become, NextTarget, Invocations
  <2> QED BY <1>1, <2>1, <2>2, NextTargetStep
<1>4. CASE Become(m, LeaveTarget(m, mgr[m]))
  <2> DEFINE left == mgr[m].unresolved \cup {Target(m).pid}
  <2>1. mgr' = [mgr EXCEPT ![m] = [mgr[m] EXCEPT !.unresolved = left,
                                   !.idx = mgr[m].idx - 1, !.pc = "sweep"]]
    BY <1>4 DEF Become, LeaveTarget, NextTarget
  <2>2. left \in SUBSET Pids /\ mgr[m].unresolved \subseteq left /\ Target(m).pid \in left
    BY <1>1, <1>2
  <2> HIDE DEF left
  <2> QED BY <1>1, <2>1, <2>2, NextTargetStep
<1> QED BY <1>3, <1>4 DEF WaitForExit

\* The record goes, or stays for what was left unresolved (FinishSweep).
LEMMA FinishSweepStep ==
  ASSUME IInv, NEW m \in Managers, FinishSweep(m)
  PROVE  IInv'
<1> DEFINE verdict == IF mgr[m].cmd = "stop" /\ mgr[m].unresolved = {} THEN "STOPPED" ELSE "HOLD"
           r == [mgr[m] EXCEPT !.verdict = verdict, !.pc = "release"]
<1>1. /\ mgr' = [mgr EXCEPT ![m] = r] /\ mgr[m].pc = "sweep" /\ mgr[m].idx = 0
      /\ stateFile' = IF mgr[m].unresolved = {} THEN Missing ELSE stateFile
      /\ UNCHANGED <<proc, clock, lock, struck>>
  BY DEF FinishSweep, Report, Become
<1>2. verdict \in {"STOPPED", "HOLD"} /\ verdict \in Verdicts
  BY DEF Verdicts
<1> HIDE DEF verdict
<1>3. /\ r \in Invocations /\ r.pc = "release" /\ r.cmd = mgr[m].cmd
      /\ r.targets = mgr[m].targets /\ r.seenAt = mgr[m].seenAt /\ r.idx = 0
      /\ r.unresolved = mgr[m].unresolved /\ r.verdict # "RUNNING"
  BY <1>1, <1>2, InvocationTyped DEF Invocations, Stages
<1> HIDE DEF r
<1>4. /\ Active(mgr[m]) /\ Dated(mgr[m], clock) /\ Placed(mgr[m]) /\ Swept(mgr[m], proc)
      /\ clock \in Nat
  BY <1>1, InvocationTyped DEF Consistent, Placed, Active
<1>5. Placed(r) /\ Surveyed(r, proc) /\ Dated(r, clock) /\ Seen(r, proc)
  BY <1>1, <1>3, <1>4 DEF Placed, Surveyed, Dated, Seen, Active, Starting, Tracking
<1>6. Swept(r, proc) /\ \A file : Recorded(r, file)
  BY <1>1, <1>3, <1>4 DEF Recorded, Swept, Sweeping
<1>7. \A file : Consistent(r, proc, clock, file)
  BY <1>5, <1>6 DEF Consistent
<1>8. CASE mgr[m].unresolved # {}
  BY <1>1, <1>3, <1>4, <1>7, <1>8, QuietStep
<1>9. CASE mgr[m].unresolved = {}
  <2>1. Missing \in Files /\ Missing.services = <<>> /\ Missing.kind = "missing"
    <3>1. <<>> \in Seq(EntryType(Nat))
      OBVIOUS
    <3> QED BY <3>1 DEF Missing, Files
  <2>2. /\ Missing.kind = "valid" <=> Missing.services # <<>>
        /\ \A i \in 1..Len(Missing.services) : Missing.services[i].start \in 1..(clock - 1)
    BY <2>1
  <2>3. stateFile' = Missing
    BY <1>1, <1>9
  <2> QED BY <1>1, <1>3, <1>4, <1>7, <2>1, <2>2, <2>3, FileStep
<1> QED BY <1>8, <1>9

-----------------------------------------------------------------------------
(***************************************************************************)
(* status                                                                  *)
(***************************************************************************)

\* The record is read, or there is none to read (StatusLoad).
LEMMA StatusLoadStep ==
  ASSUME IInv, NEW m \in Managers, StatusLoad(m)
  PROVE  IInv'
<1>1. /\ UNCHANGED <<proc, clock, stateFile, lock, struck>> /\ mgr[m].pc = "lock"
      /\ mgr[m].cmd = "status" /\ mgr[m].seenAt <= clock /\ mgr[m].idx = 1
      /\ mgr[m].verdict # "RUNNING" /\ clock \in Nat
  BY InvocationTyped DEF StatusLoad, Consistent, Placed, Dated, Surveyed
<1>2. CASE stateFile.kind = "valid"
  <2>1. /\ stateFile.services \in Seq(EntryType(Nat)) /\ stateFile.services # <<>>
        /\ \A i \in 1..Len(stateFile.services) : stateFile.services[i].start \in 1..(clock - 1)
    BY <1>2 DEF IInv, Typed, Past, Files
  <2>2. 1 \in 1..Len(stateFile.services)
    BY <2>1
  <2> DEFINE r == [mgr[m] EXCEPT !.targets = stateFile.services, !.pc = "inspect"]
  <2>3. mgr' = [mgr EXCEPT ![m] = r]
    BY <1>2 DEF StatusLoad, Become
  <2>4. /\ r \in Invocations /\ r.pc = "inspect" /\ r.cmd = "status" /\ r.idx = 1
        /\ r.targets = stateFile.services /\ r.seenAt = mgr[m].seenAt
        /\ r.verdict = mgr[m].verdict
    BY <1>1, <2>1, InvocationTyped DEF Invocations, Stages
  <2> HIDE DEF r
  <2>5. Placed(r) /\ Seen(r, proc) /\ Surveyed(r, proc)
    BY <1>1, <2>2, <2>4 DEF Placed, Seen, Surveyed, Starting, Tracking
  <2>6. Dated(r, clock)
    BY <1>1, <2>1, <2>4 DEF Dated, Tracking
  <2>7. Recorded(r, stateFile) /\ Swept(r, proc) /\ ~Active(r)
    BY <2>4 DEF Recorded, Active, Swept, Sweeping
  <2> QED BY <1>1, <2>3, <2>4, <2>5, <2>6, <2>7, QuietStep DEF Consistent
<1>3. CASE stateFile.kind # "valid"
  <2> DEFINE verdict == IF stateFile.kind = "missing" THEN "NOT_STARTED" ELSE "HOLD"
             r == [mgr[m] EXCEPT !.verdict = verdict, !.pc = "done"]
  <2>1. mgr' = [mgr EXCEPT ![m] = r]
    BY <1>3 DEF StatusLoad, Report, Become
  <2>2. verdict \in Verdicts /\ verdict # "RUNNING"
    BY DEF Verdicts
  <2> HIDE DEF verdict
  <2>3. /\ r \in Invocations /\ r.pc = "done" /\ r.cmd = mgr[m].cmd
        /\ r.targets = mgr[m].targets /\ r.seenAt = mgr[m].seenAt /\ r.verdict # "RUNNING"
    BY <2>2, InvocationTyped DEF Invocations, Stages
  <2> HIDE DEF r
  <2>4. ~Active(r) /\ Consistent(r, proc, clock, stateFile)
    BY <2>3, StopWorking
  <2> QED BY <1>1, <2>1, <2>3, <2>4, QuietStep
<1> QED BY <1>2, <1>3

\* An entry fails a check (StatusHold).
LEMMA StatusHoldStep ==
  ASSUME IInv, NEW m \in Managers, StatusHold(m)
  PROVE  IInv'
<1> DEFINE r == [mgr[m] EXCEPT !.verdict = "HOLD", !.pc = "done"]
<1>1. mgr' = [mgr EXCEPT ![m] = r] /\ UNCHANGED <<proc, clock, stateFile, lock, struck>>
  BY DEF StatusHold, Report, Become
<1>2. /\ r \in Invocations /\ r.pc = "done" /\ r.cmd = mgr[m].cmd /\ r.targets = mgr[m].targets
      /\ r.seenAt = mgr[m].seenAt /\ r.verdict = "HOLD"
  BY InvocationTyped DEF Invocations, Stages, Verdicts
<1> HIDE DEF r
<1>3. ~Active(r) /\ Consistent(r, proc, clock, stateFile)
  BY <1>2, StopWorking
<1> QED BY <1>1, <1>2, <1>3, QuietStep

\* One entry more of the first round, or the end of it (StatusInspect).
LEMMA StatusInspectStep ==
  ASSUME IInv, NEW m \in Managers, StatusInspect(m)
  PROVE  IInv'
<1> DEFINE last == mgr[m].idx = Len(mgr[m].targets)
           up == last /\ \A i \in DOMAIN mgr[m].targets : Up(mgr[m].targets[i])
           next == IF last THEN 1 ELSE mgr[m].idx + 1
           stage == IF last THEN "reinspect" ELSE "inspect"
           r == [mgr[m] EXCEPT !.idx = next, !.pc = stage, !.allUp = up]
<1>1. mgr' = [mgr EXCEPT ![m] = r]
  BY DEF StatusInspect, Become
<1>2. /\ UNCHANGED <<proc, clock, stateFile, lock, struck>>
      /\ mgr[m].cmd = "status" /\ mgr[m].seenAt <= clock /\ mgr[m].pc = "inspect"
      /\ mgr[m].idx \in 1..Len(mgr[m].targets) /\ mgr[m].verdict # "RUNNING"
      /\ Dated(mgr[m], clock) /\ Len(mgr[m].targets) \in Nat
      /\ DOMAIN mgr[m].targets = 1..Len(mgr[m].targets)
  BY InvocationTyped DEF StatusInspect, Consistent, Placed, Dated, Surveyed
<1>3. next \in 1..Len(mgr[m].targets) /\ next \in Nat
  BY <1>2
<1>4. stage \in {"reinspect", "inspect"} /\ up \in BOOLEAN
  OBVIOUS
<1>5. stage = "reinspect" /\ ~up =>
        next = 1 /\ \E i \in 1..Len(mgr[m].targets) : ~UpIn(proc, mgr[m].targets[i])
  BY <1>2 DEF Up, UpIn
<1> HIDE DEF last, up, next, stage
<1>6. /\ r \in Invocations /\ r.pc = stage /\ r.cmd = "status" /\ r.idx = next
      /\ r.targets = mgr[m].targets /\ r.seenAt = mgr[m].seenAt /\ r.allUp = up
      /\ r.verdict = mgr[m].verdict
  BY <1>2, <1>3, <1>4, InvocationTyped DEF Invocations, Stages
<1> HIDE DEF r
<1>7. Placed(r) /\ Seen(r, proc)
  BY <1>2, <1>3, <1>4, <1>6 DEF Placed, Seen, Starting, Tracking
<1>8. Dated(r, clock)
  BY <1>2, <1>4, <1>6 DEF Dated, Tracking
<1>9. Recorded(r, stateFile) /\ Swept(r, proc) /\ ~Active(r)
  BY <1>4, <1>6 DEF Recorded, Active, Swept, Sweeping
<1>10. Surveyed(r, proc)
  BY <1>2, <1>5, <1>6 DEF Surveyed
<1> QED BY <1>1, <1>2, <1>6, <1>7, <1>8, <1>9, <1>10, QuietStep DEF Consistent

\* One entry more of the second round, or the verdict (StatusRevalidate).
LEMMA StatusRevalidateStep ==
  ASSUME IInv, NEW m \in Managers, StatusRevalidate(m)
  PROVE  IInv'
<1>1. /\ UNCHANGED <<proc, clock, stateFile, lock, struck>>
      /\ mgr[m].cmd = "status" /\ mgr[m].pc = "reinspect"
      /\ mgr[m].idx \in 1..Len(mgr[m].targets) /\ mgr[m].verdict # "RUNNING"
      /\ Dated(mgr[m], clock) /\ Len(mgr[m].targets) \in Nat
      /\ mgr[m].allUp \/ \E i \in mgr[m].idx..Len(mgr[m].targets) : ~UpIn(proc, mgr[m].targets[i])
  BY InvocationTyped DEF StatusRevalidate, Consistent, Placed, Surveyed
<1>2. UpIn(proc, mgr[m].targets[mgr[m].idx])
  <2>1. PICK o \in Inspect(Target(m).pid) : OwnedProcess(Target(m), o)
    BY DEF StatusRevalidate
  <2>2. Target(m).pid \in Pids /\ Target(m) = mgr[m].targets[mgr[m].idx]
    BY <1>1, InvocationTyped DEF Target
  <2> QED BY <2>1, <2>2, InspectSees DEF OwnedProcess, UpIn
<1>3. mgr[m].allUp \/ \E i \in (mgr[m].idx + 1)..Len(mgr[m].targets) :
                         ~UpIn(proc, mgr[m].targets[i])
  <2>1. ASSUME NEW i \in mgr[m].idx..Len(mgr[m].targets), i # mgr[m].idx
        PROVE  i \in (mgr[m].idx + 1)..Len(mgr[m].targets)
    BY <2>1, <1>1
  <2> QED BY <1>1, <1>2, <2>1
<1>4. CASE mgr[m].idx < Len(mgr[m].targets)
  <2> DEFINE r == [mgr[m] EXCEPT !.idx = mgr[m].idx + 1]
  <2>1. mgr' = [mgr EXCEPT ![m] = r]
    BY <1>4 DEF StatusRevalidate, Become
  <2>2. mgr[m].idx + 1 \in Nat /\ mgr[m].idx + 1 \in 1..Len(mgr[m].targets)
    BY <1>1, <1>4
  <2>3. /\ r \in Invocations /\ r.pc = "reinspect" /\ r.cmd = "status"
        /\ r.idx = mgr[m].idx + 1 /\ r.targets = mgr[m].targets /\ r.seenAt = mgr[m].seenAt
        /\ r.allUp = mgr[m].allUp /\ r.verdict = mgr[m].verdict
    BY <1>1, <2>2, InvocationTyped DEF Invocations
  <2> HIDE DEF r
  <2>4. Placed(r) /\ Seen(r, proc) /\ Dated(r, clock)
    BY <1>1, <2>2, <2>3 DEF Placed, Seen, Dated, Starting, Tracking
  <2>5. Recorded(r, stateFile) /\ Swept(r, proc) /\ ~Active(r)
    BY <2>3 DEF Recorded, Active, Swept, Sweeping
  <2>6. Surveyed(r, proc)
    BY <1>1, <1>3, <2>3 DEF Surveyed
  <2> QED BY <1>1, <2>1, <2>3, <2>4, <2>5, <2>6, QuietStep DEF Consistent
<1>5. CASE ~(mgr[m].idx < Len(mgr[m].targets))
  <2> DEFINE verdict == IF Len(mgr[m].targets) = Len(Services) THEN "RUNNING" ELSE "HOLD"
             r == [mgr[m] EXCEPT !.verdict = verdict, !.pc = "done"]
  <2>1. mgr' = [mgr EXCEPT ![m] = r]
    BY <1>5 DEF StatusRevalidate, Report, Become
  <2>2. verdict \in Verdicts
    BY DEF Verdicts
  <2> HIDE DEF verdict
  <2>3. /\ r \in Invocations /\ r.pc = "done" /\ r.cmd = mgr[m].cmd /\ r.allUp = mgr[m].allUp
        /\ r.targets = mgr[m].targets /\ r.seenAt = mgr[m].seenAt
    BY <2>2, InvocationTyped DEF Invocations, Stages
  <2>4. mgr[m].allUp
    BY <1>1, <1>3, <1>5
  <2> HIDE DEF r
  <2>5. ~Active(r) /\ Consistent(r, proc, clock, stateFile)
    BY <2>3, <2>4, StopWorking
  <2> QED BY <1>1, <2>1, <2>3, <2>5, QuietStep
<1> QED BY <1>4, <1>5
-----------------------------------------------------------------------------
(***************************************************************************)
(* The world around the manager                                            *)
(***************************************************************************)

\* Processes that age, or begin as somebody else's, leave all records true.
LEMMA AgingStep ==
  ASSUME IInv, NEW p \in Pids, NEW group \in Processes, proc' = [proc EXCEPT ![p] = group],
         UNCHANGED <<stateFile, lock, mgr, struck>>,
         \/ /\ clock' = clock /\ group.start = proc[p].start /\ group.cmd = proc[p].cmd
            /\ group # NoProc => group.start >= 1
            /\ group.leader => proc[p].leader
         \/ clock' = clock /\ group = NoProc
         \/ /\ clock' = clock + 1 /\ clock <= MaxStarts /\ group.start = clock
            /\ group.cmd \notin ServiceIds
  PROVE  IInv'
<1>1. clock \in Nat /\ clock >= 1 /\ MaxStarts \in Nat /\ NoProc.start = 0
  BY BoundsAssumption DEF IInv, Typed, NoProc
<1>2. /\ proc' \in [Pids -> Processes] /\ proc'[p] = group
      /\ \A q \in Pids \ {p} : proc'[q] = proc[q]
  BY DEF IInv, Typed
<1>3. clock' \in {clock, clock + 1} /\ clock' \in 1..(MaxStarts + 1)
  BY <1>1 DEF IInv, Typed
<1>4. Typed' /\ StruckWasTracked' /\ Held'
  BY <1>2, <1>3 DEF IInv, Typed, StruckWasTracked, Held
<1>5. Past'
  <2>1. ASSUME NEW q \in Pids
        PROVE  proc'[q].start < clock' /\ (proc'[q] = NoProc \/ proc'[q].start >= 1)
    <3>1. /\ proc[q].start \in Nat /\ proc[q].start < clock
          /\ (proc[q] = NoProc \/ proc[q].start >= 1)
      BY DEF IInv, Past, Typed, Processes
    <3>2. CASE q = p
      BY <3>1, <3>2, <1>1, <1>2
    <3>3. CASE q # p
      BY <3>1, <3>3, <1>1, <1>2, <1>3
    <3> QED BY <3>2, <3>3
  <2>2. ASSUME NEW i \in 1..Len(stateFile.services)
        PROVE  stateFile.services[i].start \in 1..(clock' - 1)
    <3>1. stateFile.services[i].start \in 1..(clock - 1)
      BY DEF IInv, Past
    <3> QED BY <3>1, <1>1, <1>3
  <2> QED BY <2>1, <2>2 DEF IInv, Past
<1>6. ASSUME NEW n \in Managers
      PROVE  Consistent(mgr[n], proc', clock', stateFile)
  <2>1. \A q \in Pids : Ages(q, Active(mgr[n]))
    BY <1>2 DEF Ages
  <2> QED BY <2>1, <1>3, ConsistentAges
<1> QED BY <1>4, <1>5, <1>6 DEF IInv

\* A process listens, loses its leader, ends, or begins (World).
LEMMA WorldStep ==
  ASSUME IInv, NEW p \in Pids, World(p)
  PROVE  IInv'
<1>1. /\ proc[p] \in Processes /\ (proc[p] = NoProc \/ proc[p].start >= 1)
      /\ NoProc.leader = FALSE /\ clock \in Nat
  BY BoundsAssumption DEF IInv, Typed, Past, NoProc
<1>2. CASE BindPort(p)
  <2> DEFINE group == [proc[p] EXCEPT !.port = proc[p].cmd]
  <2>1. proc' = [proc EXCEPT ![p] = group] /\ UNCHANGED <<clock, stateFile, lock, mgr, struck>>
    BY <1>2 DEF BindPort
  <2>2. /\ group \in Processes /\ group.start = proc[p].start /\ group.cmd = proc[p].cmd
        /\ group.leader = proc[p].leader
    BY <1>1 DEF Processes
  <2>3. proc[p].start >= 1
    BY <1>1, <1>2 DEF BindPort
  <2> HIDE DEF group
  <2> QED BY <2>1, <2>2, <2>3, AgingStep
<1>3. CASE LeaderDies(p)
  <2> DEFINE group == [proc[p] EXCEPT !.leader = FALSE]
  <2>1. proc' = [proc EXCEPT ![p] = group] /\ UNCHANGED <<clock, stateFile, lock, mgr, struck>>
    BY <1>3 DEF LeaderDies
  <2>2. /\ group \in Processes /\ group.start = proc[p].start /\ group.cmd = proc[p].cmd
        /\ group.leader = FALSE
    BY <1>1 DEF Processes
  <2>3. proc[p].start >= 1
    BY <1>1, <1>3 DEF LeaderDies
  <2> HIDE DEF group
  <2> QED BY <2>1, <2>2, <2>3, AgingStep
<1>4. CASE GroupDies(p)
  <2>1. NoProc \in Processes
    BY DEF NoProc, Processes
  <2>2. proc' = [proc EXCEPT ![p] = NoProc] /\ UNCHANGED <<clock, stateFile, lock, mgr, struck>>
    BY <1>4 DEF GroupDies
  <2> QED BY <2>1, <2>2, AgingStep
<1>5. CASE ForeignStart(p)
  <2>1. PICK s \in ServiceIds \cup {Other} :
          proc' = [proc EXCEPT ![p] =
                     [cmd |-> Other, start |-> clock, leader |-> TRUE, port |-> s]]
    BY <1>5 DEF ForeignStart
  <2> DEFINE group == [cmd |-> Other, start |-> clock, leader |-> TRUE, port |-> s]
  <2>2. group \in Processes /\ group.start = clock /\ group.cmd \notin ServiceIds
    BY <1>1, ServicesAssumption DEF Processes
  <2>3. /\ proc' = [proc EXCEPT ![p] = group] /\ clock' = clock + 1 /\ clock <= MaxStarts
        /\ UNCHANGED <<stateFile, lock, mgr, struck>>
    BY <1>5, <2>1 DEF ForeignStart, MayStart
  <2> HIDE DEF group
  <2> QED BY <2>2, <2>3, AgingStep
<1> QED BY <1>2, <1>3, <1>4, <1>5 DEF World

-----------------------------------------------------------------------------
(***************************************************************************)
(* The invariant, and what follows from it                                 *)
(***************************************************************************)

\* No process, no invocation beyond its command line.
LEMMA InitInv == Init => IInv
<1> SUFFICES ASSUME Init PROVE IInv
  OBVIOUS
<1>1. /\ proc \in [Pids -> Processes] /\ clock \in 1..(MaxStarts + 1)
      /\ \A p \in Pids : proc[p] = NoProc
  BY BoundsAssumption DEF Init, NoProc, Processes
<1>2. stateFile \in Files /\ stateFile.services = <<>> /\ stateFile.kind # "valid"
  <2>1. <<>> \in Seq(EntryType(Nat))
    OBVIOUS
  <2>2. /\ Missing \in Files /\ Missing.services = <<>> /\ Missing.kind # "valid"
        /\ Invalid \in Files /\ Invalid.services = <<>> /\ Invalid.kind # "valid"
    BY <2>1 DEF Missing, Invalid, Files
  <2> QED BY <2>2 DEF Init
<1>3. ASSUME NEW c \in Commands
      PROVE  /\ Idle(c) \in Invocations /\ ~Active(Idle(c))
             /\ Consistent(Idle(c), proc, clock, stateFile)
  <2>1. <<>> \in Seq(EntryType(Nat))
    OBVIOUS
  <2>2. Idle(c) \in Invocations
    BY <2>1, CommandsAssumption DEF Idle, Invocations, Stages, Verdicts
  <2> DEFINE r == Idle(c)
  <2>3. /\ r.pc = "lock" /\ r.idx = 1 /\ r.targets = <<>> /\ r.seenAt = 0
        /\ r.verdict = "none" /\ clock = 1
    BY DEF Idle, Init
  <2> HIDE DEF r
  <2>4. Placed(r) /\ Dated(r, clock) /\ Recorded(r, stateFile) /\ ~Active(r)
    BY <2>3 DEF Placed, Dated, Recorded, Active, Starting, Tracking
  <2>5. Swept(r, proc) /\ Seen(r, proc) /\ Surveyed(r, proc)
    BY <2>3 DEF Swept, Seen, Surveyed, Sweeping
  <2> QED BY <2>2, <2>4, <2>5 DEF Consistent, r
<1>4. /\ mgr \in [Managers -> Invocations]
      /\ \A m \in Managers : ~Active(mgr[m]) /\ Consistent(mgr[m], proc, clock, stateFile)
  <2>1. mgr \in [Managers -> {Idle(c) : c \in Commands}]
    BY DEF Init
  <2>2. \A m \in Managers : \E c \in Commands : mgr[m] = Idle(c)
    BY <2>1
  <2> QED BY <2>1, <2>2, <1>3
<1>5. Typed
  BY <1>1, <1>2, <1>4 DEF Typed, Init
<1>6. Past
  BY <1>1, <1>2 DEF Past, Init, NoProc
<1>7. Held /\ StruckWasTracked
  BY <1>4 DEF Held, StruckWasTracked, Init
<1> QED BY <1>4, <1>5, <1>6, <1>7 DEF IInv

\* Every step of every invocation, process and file.
LEMMA NextInv == IInv /\ [Next]_vars => IInv'
<1> SUFFICES ASSUME IInv, [Next]_vars PROVE IInv'
  OBVIOUS
<1>1. ASSUME NEW m \in Managers, Step(m)
      PROVE  IInv'
  BY <1>1, AcquireStep, LockUnavailableStep, ReleaseStep, ProbePortStep, AdmitStep,
     StartFailsStep, SpawnStep, VerifyStep, WriteStep, IdentityStep, OwnershipStep, LoadStep,
     InspectTargetStep, SignalStep, WaitForExitStep, FinishSweepStep, StatusLoadStep,
     StatusHoldStep, StatusInspectStep, StatusRevalidateStep
     DEF Step
<1>2. CASE UNCHANGED vars
  BY <1>2 DEF vars, IInv, Typed, Past, Held, StruckWasTracked
<1> QED BY <1>1, <1>2, CrashStep, WorldStep DEF Next

\* The invariant holds in every behaviour.
LEMMA InvHolds == Spec => []IInv
  BY InitInv, NextInv, PTL DEF Spec

\* At any time one start or stop works (the manager lock, taken over from the dead).
THEOREM OneManagerHolds == Spec => []OneManager
<1>1. IInv => OneManager
  BY DEF IInv, Held, Active, OneManager
<1> QED BY <1>1, InvHolds, PTL

\* A signal reaches the process inspected, nobody, or one begun since the inspection.
THEOREM StruckHolds == Spec => []StruckWasTracked
<1>1. IInv => StruckWasTracked
  BY DEF IInv
<1> QED BY <1>1, InvHolds, PTL

\* Entries of state.json have fingerprints; those in an invocation's memory may not yet.
LEMMA TypeHolds == IInv => TypeOK
<1> SUFFICES ASSUME IInv PROVE TypeOK
  OBVIOUS
<1>1. MaxStarts \in Nat /\ clock \in 1..(MaxStarts + 1)
  BY BoundsAssumption DEF IInv, Typed
<1>2. ASSUME NEW p \in Pids
      PROVE  proc[p] = NoProc \/ proc[p].start \in 1..MaxStarts
  <2>1. proc[p].start \in Nat /\ proc[p].start < clock /\ (proc[p] = NoProc \/ proc[p].start >= 1)
    BY DEF IInv, Typed, Past, Processes
  <2> QED BY <1>1, <2>1
<1>3. ASSUME NEW i \in DOMAIN stateFile.services
      PROVE  stateFile.services[i] \in EntryType(1..MaxStarts)
  <2>1. i \in 1..Len(stateFile.services) /\ stateFile.services[i] \in EntryType(Nat)
    BY DEF IInv, Typed, Files
  <2>2. stateFile.services[i].start \in 1..MaxStarts
    BY <1>1, <2>1 DEF IInv, Past
  <2> QED BY <2>1, <2>2 DEF EntryType
<1>4. ASSUME NEW m \in Managers, NEW i \in DOMAIN mgr[m].targets
      PROVE  mgr[m].targets[i] \in EntryType(0..MaxStarts)
  <2>1. i \in 1..Len(mgr[m].targets) /\ mgr[m].targets[i] \in EntryType(Nat)
    BY InvocationTyped
  <2>2. mgr[m].targets[i].start < clock /\ mgr[m].targets[i].start \in Nat
    BY <2>1, InvocationTyped DEF Consistent, Dated
  <2>3. mgr[m].targets[i].start \in 0..MaxStarts
    BY <1>1, <2>2
  <2> QED BY <2>1, <2>3 DEF EntryType
<1>5. \A m \in Managers : mgr[m].unresolved \subseteq Pids
  BY InvocationTyped
<1>6. stateFile.kind \in {"missing", "invalid", "valid"} /\ lock \in Managers \union {NoLock}
  BY DEF IInv, Typed, Files
<1> QED BY <1>1, <1>2, <1>3, <1>4, <1>5, <1>6 DEF TypeOK

\* What stop and cleanup find of an entry when they remove the record.
LEMMA SweptClean ==
  ASSUME IInv, NEW m \in Managers, FinishSweep(m), mgr[m].unresolved = {},
         NEW i \in DOMAIN stateFile.services
  PROVE  ~GroupOf(stateFile.services[i])
<1>1. /\ mgr[m].pc = "sweep" /\ mgr[m].idx = 0 /\ Active(mgr[m])
      /\ Recorded(mgr[m], stateFile) /\ Swept(mgr[m], proc) /\ Len(mgr[m].targets) \in Nat
  BY InvocationTyped DEF FinishSweep, Consistent, Placed, Active
<1>2. /\ i \in 1..Len(stateFile.services) /\ Len(stateFile.services) \in Nat
      /\ stateFile.services[i].start >= 1
  BY DEF IInv, Typed, Past, Files
<1>3. i \in (mgr[m].idx + 1)..Len(mgr[m].targets) /\ stateFile.services[i] = mgr[m].targets[i]
  BY <1>1, <1>2 DEF Recorded, Prefix, Sweeping
<1> QED BY <1>1, <1>2, <1>3 DEF Swept, Sweeping, GroupOf

\* When a sweep removes state.json no group it tracked is left (stop, cleanup).
THEOREM RemovalHolds == Spec => RemovedOnlyWhenGone
<1>1. ASSUME IInv, Next, Removes, NEW m \in Managers, mgr[m].pc = "sweep", mgr'[m].pc # "sweep",
             NEW i \in DOMAIN stateFile.services
      PROVE  ~GroupOf(stateFile.services[i])
  <2>1. stateFile' # stateFile /\ stateFile'.kind # "valid"
    BY <1>1 DEF Removes
  <2>2. PICK n \in Managers : Step(n)
    BY <1>1, <2>1 DEF Next, Crash, World, BindPort, LeaderDies, GroupDies, ForeignStart
  <2>3. FinishSweep(n) \/ Admit(n) \/ WriteState(n)
    BY <2>1, <2>2 DEF Step, AcquireManagerLock, LockUnavailable, ReleaseLock, ProbePort,
       StartFails, SpawnService, WaitForOwnedProcess, WaitForServiceIdentity,
       WaitForServiceOwnership, HeldDurableGate, LoadState, InspectTarget, SignalOwnedEntry,
       WaitForExit, StatusLoad, StatusHold, StatusInspect, StatusRevalidate
  <2>4. ~WriteState(n)
    BY <2>1 DEF WriteState, Valid
  <2>5. ~Admit(n)
    <3>1. Admit(n) => mgr[n].pc = "admit" /\ \E r : mgr' = [mgr EXCEPT ![n] = r]
      BY DEF Admit, Report, Goto, Become
    <3>2. Admit(n) => n # m /\ mgr'[m] = mgr[m]
      BY <1>1, <3>1 DEF IInv, Typed
    <3> QED BY <1>1, <3>2
  <2>6. FinishSweep(n) /\ mgr[n].unresolved = {}
    BY <2>1, <2>3, <2>4, <2>5 DEF FinishSweep
  <2> QED BY <1>1, <2>6, SweptClean
<1>2. IInv /\ [Next]_vars =>
        [Removes /\ (\E m \in Managers : mgr[m].pc = "sweep" /\ mgr'[m].pc # "sweep")
         => \A i \in DOMAIN stateFile.services : ~GroupOf(stateFile.services[i])]_vars
  BY <1>1
<1> QED BY <1>2, InvHolds, PTL DEF Spec, RemovedOnlyWhenGone

-----------------------------------------------------------------------------
(***************************************************************************)
(* No child is lost                                                        *)
(***************************************************************************)

Serves(p) == proc[p].leader /\ proc[p].cmd \in ServiceIds
OnFile(p) ==
  \E i \in DOMAIN stateFile.services :
    stateFile.services[i].pid = p /\ GroupOf(stateFile.services[i])
KnownBy(n, p) ==
  \E i \in DOMAIN mgr[n].targets :
    /\ mgr[n].cmd = "start"
    /\ mgr[n].targets[i].pid = p
    /\ mgr[n].targets[i].start \in {0, proc[p].start}
    /\ mgr[n].pc # "done" \/ p \in mgr[n].unresolved
Accounted(p) == OnFile(p) \/ \E n \in Managers : KnownBy(n, p)

\* The property NoOrphan in terms of Accounted.
LEMMA NoOrphanMeans == NoOrphan <=> (psAnswers => \A p \in Pids : Serves(p) => Accounted(p))
  BY DEF NoOrphan, Serves, Accounted, OnFile, KnownBy

\* An invocation that stays at work, or never tracked, loses none.
LEMMA StillAccounted ==
  ASSUME IInv, NEW m \in Managers, NEW r, mgr' = [mgr EXCEPT ![m] = r],
         UNCHANGED <<proc, stateFile>>,
         \/ mgr[m].cmd # "start" \/ mgr[m].targets = <<>>
         \/ r.cmd = mgr[m].cmd /\ r.targets = mgr[m].targets /\ r.pc # "done",
         NEW p \in Pids, Accounted(p)
  PROVE  Accounted(p)'
<1>1. mgr'[m] = r /\ \A n \in Managers \ {m} : mgr'[n] = mgr[n]
  BY DEF IInv, Typed
<1>2. ASSUME NEW n \in Managers, KnownBy(n, p)
      PROVE  KnownBy(n, p)'
  BY <1>1, <1>2 DEF KnownBy
<1> QED BY <1>2 DEF Accounted, OnFile, GroupOf

\* The stages that keep what an invocation tracks, and those that track nothing.
LEMMA QuietAccounts ==
  ASSUME IInv, NEW m \in Managers,
         \/ AcquireManagerLock(m) \/ LockUnavailable(m) \/ ProbePort(m) \/ StartFails(m)
         \/ WaitForServiceIdentity(m) \/ WaitForServiceOwnership(m) \/ HeldDurableGate(m)
         \/ LoadState(m) \/ InspectTarget(m) \/ SignalOwnedEntry(m) \/ WaitForExit(m)
         \/ StatusLoad(m) \/ StatusHold(m) \/ StatusInspect(m) \/ StatusRevalidate(m) \/ Crash(m),
         NEW p \in Pids, Accounted(p)
  PROVE  Accounted(p)'
<1>1. Placed(mgr[m]) /\ mgr[m] \in Invocations
  BY InvocationTyped DEF Consistent
<1>2. ASSUME \/ AcquireManagerLock(m) \/ StartFails(m) \/ WaitForServiceIdentity(m)
             \/ SignalOwnedEntry(m) \/ Crash(m)
      PROVE  \E r : /\ mgr' = [mgr EXCEPT ![m] = r] /\ UNCHANGED <<proc, stateFile>>
                    /\ r.cmd = mgr[m].cmd /\ r.targets = mgr[m].targets /\ r.pc # "done"
  <2> DEFINE stage == IF mgr[m].cmd = "start" THEN "ports" ELSE "load"
             At(pc) == [mgr[m] EXCEPT !.pc = pc]
             failed == [mgr[m] EXCEPT !.pc = "sweep", !.idx = Len(mgr[m].targets)]
             Keeps(r) == r.cmd = mgr[m].cmd /\ r.targets = mgr[m].targets /\ r.pc # "done"
  <2>1. \A pc : pc # "done" => Keeps(At(pc))
    BY <1>1 DEF Invocations
  <2>2. Keeps(failed) /\ stage # "done"
    BY <1>1 DEF Invocations
  <2> HIDE DEF stage
  <2>3. /\ \/ mgr' = [mgr EXCEPT ![m] = At(stage)] \/ mgr' = [mgr EXCEPT ![m] = At("listener")]
           \/ mgr' = [mgr EXCEPT ![m] = At("exit")] \/ mgr' = [mgr EXCEPT ![m] = At("crashed")]
           \/ mgr' = [mgr EXCEPT ![m] = failed]
        /\ UNCHANGED <<proc, stateFile>>
    <3>1. CASE AcquireManagerLock(m)
      BY <3>1 DEF AcquireManagerLock, Goto, Become, stage
    <3>2. CASE StartFails(m)
      BY <3>2 DEF StartFails, Throw, Become
    <3>3. CASE WaitForServiceIdentity(m) \/ SignalOwnedEntry(m) \/ Crash(m)
      BY <3>3 DEF WaitForServiceIdentity, SignalOwnedEntry, Crash, Goto, Become
    <3> QED BY <1>2, <3>1, <3>2, <3>3
  <2> HIDE DEF At, failed
  <2> QED BY <2>1, <2>2, <2>3
<1>3. ASSUME WaitForServiceOwnership(m) \/ HeldDurableGate(m)
      PROVE  \E r : /\ mgr' = [mgr EXCEPT ![m] = r] /\ UNCHANGED <<proc, stateFile>>
                    /\ r.cmd = mgr[m].cmd /\ r.targets = mgr[m].targets /\ r.pc # "done"
  <2> DEFINE gated == [mgr[m] EXCEPT !.pc = "gate"]
  <2>1. /\ mgr' = [mgr EXCEPT ![m] = NextService(mgr[m])] \/ mgr' = [mgr EXCEPT ![m] = gated]
        /\ UNCHANGED <<proc, stateFile>>
    BY <1>3 DEF WaitForServiceOwnership, HeldDurableGate, Become
  <2>2. /\ gated.cmd = mgr[m].cmd /\ gated.targets = mgr[m].targets /\ gated.pc # "done"
    BY <1>1 DEF Invocations
  <2>3. /\ NextService(mgr[m]).cmd = mgr[m].cmd /\ NextService(mgr[m]).pc # "done"
        /\ NextService(mgr[m]).targets = mgr[m].targets
    BY <1>1 DEF NextService, Invocations
  <2> HIDE DEF gated
  <2> QED BY <2>1, <2>2, <2>3
<1>4. ASSUME InspectTarget(m) \/ WaitForExit(m)
      PROVE  \E r : /\ mgr' = [mgr EXCEPT ![m] = r] /\ UNCHANGED <<proc, stateFile>>
                    /\ r.cmd = mgr[m].cmd /\ r.targets = mgr[m].targets /\ r.pc # "done"
  <2> DEFINE seen == [mgr[m] EXCEPT !.pc = "signal", !.seenAt = clock]
             Keeps(r) == r.cmd = mgr[m].cmd /\ r.targets = mgr[m].targets /\ r.pc # "done"
  <2>1. /\ \/ mgr' = [mgr EXCEPT ![m] = NextTarget(mgr[m])]
           \/ mgr' = [mgr EXCEPT ![m] = LeaveTarget(m, mgr[m])]
           \/ mgr' = [mgr EXCEPT ![m] = seen]
        /\ UNCHANGED <<proc, stateFile>>
    BY <1>4 DEF InspectTarget, WaitForExit, Become
  <2>2. Keeps(seen)
    BY <1>1 DEF Invocations
  <2>3. Keeps(NextTarget(mgr[m])) /\ Keeps(LeaveTarget(m, mgr[m]))
    BY <1>1 DEF NextTarget, LeaveTarget, Invocations
  <2> HIDE DEF seen
  <2> QED BY <2>1, <2>2, <2>3
<1>5. ASSUME \/ LockUnavailable(m) \/ ProbePort(m) \/ LoadState(m)
             \/ StatusLoad(m) \/ StatusHold(m) \/ StatusInspect(m) \/ StatusRevalidate(m)
      PROVE  /\ \E r : mgr' = [mgr EXCEPT ![m] = r] /\ UNCHANGED <<proc, stateFile>>
             /\ mgr[m].cmd # "start" \/ mgr[m].targets = <<>>
  <2>1. \E r : mgr' = [mgr EXCEPT ![m] = r] /\ UNCHANGED <<proc, stateFile>>
    BY <1>5 DEF LockUnavailable, ProbePort, LoadState, StatusLoad, StatusHold, StatusInspect,
       StatusRevalidate, Report, Become
  <2>2. mgr[m].pc \in {"lock", "ports", "load", "inspect", "reinspect"}
    BY <1>5 DEF LockUnavailable, ProbePort, LoadState, StatusLoad, StatusHold, StatusInspect,
       StatusRevalidate
  <2> QED BY <1>1, <2>1, <2>2 DEF Placed
<1> QED BY <1>2, <1>3, <1>4, <1>5, StillAccounted
\* The child just spawned is known, and all others as before (SpawnService).
LEMMA SpawnAccounts ==
  ASSUME IInv, NEW m \in Managers, SpawnService(m),
         \A q \in Pids : Serves(q) => Accounted(q), NEW p \in Pids, Serves(p)'
  PROVE  Accounted(p)'
<1>1. PICK c \in Pids :
        /\ proc' = [proc EXCEPT ![c] = [cmd |-> CurrentService(m), start |-> clock,
                                        leader |-> TRUE, port |-> Other]]
        /\ Become(m, [mgr[m] EXCEPT !.pc = "verify",
             !.targets = Append(mgr[m].targets, Entry(CurrentService(m), c, 0))])
  BY DEF SpawnService
<1> DEFINE child == Entry(CurrentService(m), c, 0)
           more == Append(mgr[m].targets, child)
           r == [mgr[m] EXCEPT !.pc = "verify", !.targets = more]
<1>2. /\ mgr[m].cmd = "start" /\ mgr[m].targets \in Seq(EntryType(Nat)) /\ mgr[m] \in Invocations
      /\ stateFile' = stateFile /\ mgr[m].idx \in 1..Len(Services)
  BY InvocationTyped DEF SpawnService, Consistent, Placed, Starting
<1>3. child \in EntryType(Nat) /\ child.start = 0 /\ child.pid = c
  <2>1. CurrentService(m) \in ServiceIds
    BY <1>2 DEF CurrentService, ServiceIds
  <2> QED BY <2>1 DEF Entry, EntryType
<1> HIDE DEF child
<1>4. /\ more \in Seq(EntryType(Nat)) /\ Len(more) = Len(mgr[m].targets) + 1
      /\ \A i \in DOMAIN mgr[m].targets : i \in DOMAIN more /\ more[i] = mgr[m].targets[i]
      /\ Len(more) \in DOMAIN more /\ more[Len(more)] = child
  BY <1>2, <1>3
<1> HIDE DEF more
<1>5. r.pc = "verify" /\ r.cmd = "start" /\ r.targets = more
  BY <1>2 DEF Invocations
<1>6. mgr' = [mgr EXCEPT ![m] = r]
  BY <1>1 DEF Become, more, child
<1> HIDE DEF r
<1>7. mgr'[m] = r /\ \A n \in Managers \ {m} : mgr'[n] = mgr[n]
  BY <1>6 DEF IInv, Typed
<1>8. CASE p = c
  <2>1. KnownBy(m, p)'
    BY <1>3, <1>4, <1>5, <1>7, <1>8 DEF KnownBy
  <2> QED BY <2>1 DEF Accounted
<1>9. CASE p # c
  <2>1. proc'[p] = proc[p]
    BY <1>1, <1>9 DEF IInv, Typed
  <2>2. Accounted(p)
    BY <2>1 DEF Serves
  <2>3. OnFile(p) => OnFile(p)'
    BY <1>2, <2>1 DEF OnFile, GroupOf
  <2>4. ASSUME NEW n \in Managers, KnownBy(n, p)
        PROVE  KnownBy(n, p)'
    <3>1. CASE n = m
      BY <1>4, <1>5, <1>7, <2>1, <2>4, <3>1 DEF KnownBy
    <3>2. CASE n # m
      BY <1>7, <2>1, <2>4, <3>2 DEF KnownBy
    <3> QED BY <3>1, <3>2
  <2> QED BY <2>2, <2>3, <2>4 DEF Accounted
<1> QED BY <1>8, <1>9

\* The fingerprint taken is that of the group the child leads (WaitForOwnedProcess).
LEMMA VerifyAccounts ==
  ASSUME IInv, NEW m \in Managers, WaitForOwnedProcess(m), NEW p \in Pids, Accounted(p)
  PROVE  Accounted(p)'
<1> DEFINE last == Len(mgr[m].targets)
<1>1. PICK o \in Inspect(Child(m).pid) :
        /\ o # NotRunning
        /\ Become(m, [mgr[m] EXCEPT !.pc = "write", !.targets[last].start = o.start])
  BY DEF WaitForOwnedProcess
<1>2. /\ mgr[m].cmd = "start" /\ mgr[m].targets \in Seq(EntryType(Nat)) /\ mgr[m] \in Invocations
      /\ UNCHANGED <<proc, stateFile>> /\ last \in 1..last /\ last \in Nat
      /\ last \in DOMAIN mgr[m].targets
  <2>1. /\ mgr[m].cmd = "start" /\ mgr[m].idx = last /\ mgr[m].idx \in 1..Len(Services)
        /\ last \in Nat
    BY InvocationTyped DEF WaitForOwnedProcess, Consistent, Placed, Starting, Tracking
  <2> QED BY <2>1, InvocationTyped DEF WaitForOwnedProcess
<1>3. Child(m) = mgr[m].targets[last] /\ Child(m) \in EntryType(Nat)
  BY <1>2 DEF Child
<1>4. o.start = proc[Child(m).pid].start /\ o.start \in Nat
  <2>1. Child(m).pid \in Pids
    BY <1>3 DEF EntryType
  <2> QED BY <1>1, <2>1, InspectSees
<1> DEFINE child == [mgr[m].targets[last] EXCEPT !.start = o.start]
           known == [mgr[m].targets EXCEPT ![last] = child]
           r == [mgr[m] EXCEPT !.pc = "write", !.targets = known]
<1>5. mgr' = [mgr EXCEPT ![m] = r]
  BY <1>1 DEF Become
<1>6. child.pid = Child(m).pid /\ child.start = o.start /\ child \in EntryType(Nat)
  BY <1>3, <1>4 DEF EntryType
<1> HIDE DEF child
<1>7. /\ DOMAIN known = DOMAIN mgr[m].targets /\ known[last] = child
      /\ \A i \in DOMAIN mgr[m].targets : i # last => known[i] = mgr[m].targets[i]
  BY <1>2
<1> HIDE DEF known
<1>8. r.pc = "write" /\ r.cmd = "start" /\ r.targets = known
  BY <1>2 DEF Invocations
<1> HIDE DEF r
<1>9. mgr'[m] = r /\ \A n \in Managers \ {m} : mgr'[n] = mgr[n]
  BY <1>5 DEF IInv, Typed
<1>10. ASSUME NEW n \in Managers, KnownBy(n, p)
       PROVE  KnownBy(n, p)'
  <2>1. CASE n = m
    <3>1. PICK i \in DOMAIN mgr[m].targets :
            mgr[m].targets[i].pid = p /\ mgr[m].targets[i].start \in {0, proc[p].start}
      BY <1>10, <2>1 DEF KnownBy
    <3>2. known[i].pid = p /\ known[i].start \in {0, proc[p].start}
      BY <1>3, <1>4, <1>6, <1>7, <3>1
    <3> QED BY <1>2, <1>7, <1>8, <1>9, <2>1, <3>2 DEF KnownBy
  <2>2. CASE n # m
    BY <1>2, <1>9, <1>10, <2>2 DEF KnownBy
  <2> QED BY <2>1, <2>2
<1> QED BY <1>2, <1>10 DEF Accounted, OnFile, GroupOf

\* What was on file is among what is written (WriteState).
LEMMA WriteAccounts ==
  ASSUME IInv, NEW m \in Managers, WriteState(m), NEW p \in Pids, Accounted(p)
  PROVE  Accounted(p)'
<1> DEFINE r == [mgr[m] EXCEPT !.pc = "identity"]
<1>1. /\ mgr' = [mgr EXCEPT ![m] = r] /\ stateFile' = Valid(mgr[m].targets) /\ proc' = proc
      /\ mgr[m].pc = "write"
  BY DEF WriteState, Goto, Become
<1>2. r.pc = "identity" /\ r.cmd = mgr[m].cmd /\ r.targets = mgr[m].targets
  BY InvocationTyped DEF Invocations
<1> HIDE DEF r
<1>3. mgr'[m] = r /\ \A n \in Managers \ {m} : mgr'[n] = mgr[n]
  BY <1>1 DEF IInv, Typed
<1>4. ASSUME NEW n \in Managers, KnownBy(n, p)
      PROVE  KnownBy(n, p)'
  BY <1>1, <1>2, <1>3, <1>4 DEF KnownBy
<1>5. ASSUME OnFile(p)
      PROVE  OnFile(p)'
  <2>1. /\ Prefix(stateFile, mgr[m]) /\ Len(mgr[m].targets) \in Nat
        /\ stateFile.services \in Seq(EntryType(Nat)) /\ mgr[m].targets \in Seq(EntryType(Nat))
    BY <1>1, InvocationTyped
       DEF Consistent, Placed, Recorded, Active, Starting, Tracking, IInv, Typed, Files
  <2>2. PICK i \in DOMAIN stateFile.services :
          stateFile.services[i].pid = p /\ GroupOf(stateFile.services[i])
    BY <1>5 DEF OnFile
  <2>3. i \in DOMAIN mgr[m].targets /\ mgr[m].targets[i] = stateFile.services[i]
    BY <2>1 DEF Prefix
  <2>4. stateFile'.services = mgr[m].targets
    BY <1>1 DEF Valid
  <2> QED BY <1>1, <2>2, <2>3, <2>4 DEF OnFile, GroupOf
<1> QED BY <1>4, <1>5 DEF Accounted

\* No leader of what is removed as stale runs, as ps says (Admit).
LEMMA AdmitAccounts ==
  ASSUME IInv, NEW m \in Managers, Admit(m), psAnswers, NEW p \in Pids, Serves(p), Accounted(p)
  PROVE  Accounted(p)'
<1>1. mgr[m].targets = <<>> /\ proc' = proc
  BY InvocationTyped DEF Admit, Consistent, Placed
<1>2. \E r : mgr' = [mgr EXCEPT ![m] = r]
  BY DEF Admit, Report, Goto, Become
<1>3. \A n \in Managers \ {m} : mgr'[n] = mgr[n]
  BY <1>2 DEF IInv, Typed
<1>4. ASSUME NEW n \in Managers, KnownBy(n, p)
      PROVE  KnownBy(n, p)'
  BY <1>1, <1>3, <1>4 DEF KnownBy
<1>5. CASE stateFile' = stateFile
  BY <1>1, <1>4, <1>5 DEF Accounted, OnFile, GroupOf
<1>6. CASE stateFile' # stateFile
  <2>1. PICK o : /\ o \in [1..Len(stateFile.services) -> UNION {Inspect(q) : q \in Pids}]
                 /\ \A i \in DOMAIN o : o[i] \in Inspect(stateFile.services[i].pid)
                 /\ \A i \in DOMAIN o : o[i] = NotRunning
    BY <1>6 DEF Admit
  <2>2. ASSUME NEW i \in DOMAIN stateFile.services, stateFile.services[i].pid = p
        PROVE  FALSE
    <3>1. i \in DOMAIN o
      BY <2>1 DEF IInv, Typed, Files
    <3>2. NotRunning \in Inspect(p)
      BY <2>1, <2>2, <3>1
    <3>3. NotRunning = Observed(p)
      BY <3>2 DEF Inspect, Serves
    <3>4. proc[p].start = 0 /\ proc[p] = NoProc
      BY <3>3 DEF NotRunning, Observed, IInv, Typed, Past, Processes
    <3> QED BY <3>4 DEF Serves, NoProc
  <2>3. ~OnFile(p)
    BY <2>2 DEF OnFile
  <2> QED BY <1>4, <2>3 DEF Accounted
<1> QED BY <1>5, <1>6

\* The groups of what was on file are gone (FinishSweep).
LEMMA FinishAccounts ==
  ASSUME IInv, NEW m \in Managers, FinishSweep(m), NEW p \in Pids, Accounted(p)
  PROVE  Accounted(p)'
<1> DEFINE verdict == IF mgr[m].cmd = "stop" /\ mgr[m].unresolved = {} THEN "STOPPED" ELSE "HOLD"
           r == [mgr[m] EXCEPT !.verdict = verdict, !.pc = "release"]
<1>1. /\ mgr' = [mgr EXCEPT ![m] = r] /\ proc' = proc
      /\ mgr[m].unresolved # {} => stateFile' = stateFile
  BY DEF FinishSweep, Report, Become
<1> HIDE DEF verdict
<1>2. r.pc = "release" /\ r.cmd = mgr[m].cmd /\ r.targets = mgr[m].targets
  BY InvocationTyped DEF Invocations
<1> HIDE DEF r
<1>3. mgr'[m] = r /\ \A n \in Managers \ {m} : mgr'[n] = mgr[n]
  BY <1>1 DEF IInv, Typed
<1>4. ASSUME NEW n \in Managers, KnownBy(n, p)
      PROVE  KnownBy(n, p)'
  BY <1>1, <1>2, <1>3, <1>4 DEF KnownBy
<1>5. CASE mgr[m].unresolved = {}
  <2>1. ~OnFile(p)
    BY <1>5, SweptClean DEF OnFile
  <2> QED BY <1>4, <2>1 DEF Accounted
<1>6. CASE mgr[m].unresolved # {}
  BY <1>1, <1>4, <1>6 DEF Accounted, OnFile, GroupOf
<1> QED BY <1>5, <1>6

\* A start that ends has its children on file, or has swept them (ReleaseLock).
LEMMA ReleaseAccounts ==
  ASSUME IInv, NEW m \in Managers, ReleaseLock(m), NEW p \in Pids, Serves(p), Accounted(p)
  PROVE  Accounted(p)'
<1> DEFINE r == [mgr[m] EXCEPT !.pc = "done"]
<1>1. /\ mgr' = [mgr EXCEPT ![m] = r] /\ UNCHANGED <<proc, stateFile>> /\ mgr[m].pc = "release"
  BY DEF ReleaseLock, Goto, Become
<1>2. r.cmd = mgr[m].cmd /\ r.targets = mgr[m].targets /\ r.unresolved = mgr[m].unresolved
  BY InvocationTyped DEF Invocations
<1> HIDE DEF r
<1>3. mgr'[m] = r /\ \A n \in Managers \ {m} : mgr'[n] = mgr[n]
  BY <1>1 DEF IInv, Typed
<1>4. OnFile(p) => OnFile(p)'
  BY <1>1 DEF OnFile, GroupOf
<1>5. ASSUME NEW n \in Managers, KnownBy(n, p)
      PROVE  OnFile(p) \/ KnownBy(n, p)'
  <2>1. CASE n # m
    BY <1>1, <1>3, <1>5, <2>1 DEF KnownBy
  <2>2. CASE n = m
    <3>1. PICK i \in DOMAIN mgr[m].targets :
            mgr[m].targets[i].pid = p /\ mgr[m].targets[i].start \in {0, proc[p].start}
      BY <1>5, <2>2 DEF KnownBy
    <3>2. /\ mgr[m].cmd = "start" /\ Active(mgr[m]) /\ Swept(mgr[m], proc)
          /\ Recorded(mgr[m], stateFile) /\ i \in 1..Len(mgr[m].targets)
          /\ Len(mgr[m].targets) \in Nat
          /\ mgr[m].idx = 0 \/ mgr[m].verdict = "RUNNING"
      BY <1>1, <1>5, <2>2, <3>1, InvocationTyped DEF Consistent, Placed, Active, KnownBy
    <3>3. CASE mgr[m].idx = 0
      <4>1. i \in (mgr[m].idx + 1)..Len(mgr[m].targets)
        BY <3>2, <3>3
      <4>2. p \in mgr[m].unresolved
        BY <1>1, <3>1, <3>2, <4>1 DEF Swept, Serves
      <4> QED BY <1>1, <1>2, <1>3, <2>2, <3>1, <3>2, <4>2 DEF KnownBy
    <3>4. CASE mgr[m].verdict = "RUNNING"
      <4>1. stateFile = Valid(mgr[m].targets)
        BY <1>1, <3>2, <3>4 DEF Recorded
      <4>2. stateFile.services = mgr[m].targets
        BY <4>1 DEF Valid
      <4>3. mgr[m].targets[i].start >= 1
        BY <3>2, <4>2 DEF IInv, Past
      <4> QED BY <3>1, <4>2, <4>3 DEF OnFile, GroupOf
    <3> QED BY <3>2, <3>3, <3>4
  <2> QED BY <2>1, <2>2
<1> QED BY <1>4, <1>5 DEF Accounted

\* What serves after a step of the world served before it (World).
LEMMA WorldAccounts ==
  ASSUME IInv, NEW w \in Pids, World(w),
         \A q \in Pids : Serves(q) => Accounted(q), NEW p \in Pids, Serves(p)'
  PROVE  Accounted(p)'
<1>1. proc \in [Pids -> Processes] /\ UNCHANGED <<stateFile, mgr>>
  BY DEF IInv, Typed, World, BindPort, LeaderDies, GroupDies, ForeignStart
<1>2. p # w => proc'[p] = proc[p]
  BY <1>1 DEF World, BindPort, LeaderDies, GroupDies, ForeignStart
<1>3. p = w => proc'[p].start = proc[p].start /\ proc'[p].cmd = proc[p].cmd /\ proc[p].leader
  <2>1. CASE BindPort(w)
    <3>1. p = w => proc'[p] = [proc[p] EXCEPT !.port = proc[p].cmd] /\ proc[p].leader
      BY <1>1, <2>1 DEF BindPort
    <3> QED BY <1>1, <3>1 DEF Processes
  <2>2. CASE LeaderDies(w)
    <3>1. p = w => proc'[p] = [proc[p] EXCEPT !.leader = FALSE] /\ proc[p].leader
      BY <1>1, <2>2 DEF LeaderDies
    <3> QED BY <1>1, <3>1 DEF Processes
  <2>3. CASE GroupDies(w)
    <3>1. p = w => proc'[p] = NoProc
      BY <1>1, <2>3 DEF GroupDies
    <3> QED BY <3>1 DEF NoProc, Serves
  <2>4. CASE ForeignStart(w)
    <3>1. p = w => proc'[p].cmd = Other
      BY <1>1, <2>4 DEF ForeignStart
    <3> QED BY <3>1, ServicesAssumption DEF Serves
  <2> QED BY <2>1, <2>2, <2>3, <2>4 DEF World
<1>4. /\ proc'[p].start = proc[p].start /\ Accounted(p)
  BY <1>2, <1>3 DEF Serves
<1>5. OnFile(p) => OnFile(p)'
  BY <1>1, <1>4 DEF OnFile, GroupOf
<1>6. \A n \in Managers : KnownBy(n, p) => KnownBy(n, p)'
  BY <1>1, <1>4 DEF KnownBy
<1> QED BY <1>4, <1>5, <1>6 DEF Accounted

\* No step leaves a living child in nobody's file or memory.
LEMMA NoOrphanStep == IInv /\ NoOrphan /\ [Next]_vars => NoOrphan'
<1> SUFFICES ASSUME IInv, NoOrphan, [Next]_vars PROVE NoOrphan'
  OBVIOUS
<1>1. ASSUME Next, psAnswers', NEW p \in Pids, Serves(p)'
      PROVE  Accounted(p)'
  <2>1. psAnswers /\ \A q \in Pids : Serves(q) => Accounted(q)
    BY <1>1, NoOrphanMeans DEF Next, Step, Crash, World
  <2>2. CASE \E w \in Pids : World(w)
    BY <1>1, <2>1, <2>2, WorldAccounts
  <2>3. ASSUME NEW m \in Managers, Step(m) \/ Crash(m)
        PROVE  Accounted(p)'
    <3>1. CASE SpawnService(m)
      BY <1>1, <2>1, <3>1, SpawnAccounts
    <3>2. CASE ~SpawnService(m)
      <4>1. proc' = proc
        BY <2>3, <3>2 DEF Step, Crash, AcquireManagerLock, LockUnavailable, ReleaseLock,
           ProbePort, Admit, StartFails, WaitForOwnedProcess, WriteState,
           WaitForServiceIdentity, WaitForServiceOwnership, HeldDurableGate, LoadState,
           InspectTarget, SignalOwnedEntry, WaitForExit, FinishSweep, StatusLoad, StatusHold,
           StatusInspect, StatusRevalidate
      <4>2. Serves(p) /\ Accounted(p)
        BY <1>1, <2>1, <4>1 DEF Serves
      <4> QED BY <2>1, <2>3, <3>2, <4>2, QuietAccounts, VerifyAccounts, WriteAccounts,
                 AdmitAccounts, FinishAccounts, ReleaseAccounts
              DEF Step
    <3> QED BY <3>1, <3>2
  <2> QED BY <1>1, <2>2, <2>3 DEF Next
<1>2. CASE Next
  <2>1. NoOrphan' <=> (psAnswers' => \A p \in Pids : Serves(p)' => Accounted(p)')
    BY DEF NoOrphan, Serves, Accounted, OnFile, KnownBy
  <2> QED BY <1>1, <1>2, <2>1
<1>3. CASE UNCHANGED vars
  BY <1>3 DEF vars, NoOrphan, GroupOf
<1> QED BY <1>2, <1>3

\* What state.json and the answers of the manager say of the processes is true.
THEOREM ReportsHold == Spec => []StateTellsTruth
<1>1. Init => NoOrphan
  BY DEF Init, NoOrphan, NoProc
<1>2. IInv => RunningIsTracked
  <2>1. ASSUME IInv, NEW m \in Managers, mgr[m].cmd = "start", mgr[m].verdict = "RUNNING",
               mgr[m].pc = "release"
        PROVE  stateFile = Valid(mgr[m].targets) /\ Len(mgr[m].targets) = Len(Services)
    BY <2>1, InvocationTyped DEF Consistent, Recorded, Active
  <2> QED BY <2>1 DEF RunningIsTracked
<1>3. IInv => StatusTruthful
  BY InvocationTyped DEF StatusTruthful, Consistent, Surveyed
<1>4. IInv /\ NoOrphan => StateTellsTruth
  BY <1>2, <1>3, TypeHolds DEF StateTellsTruth
<1> QED BY <1>1, <1>4, NoOrphanStep, InvHolds, PTL DEF Spec

=============================================================================
