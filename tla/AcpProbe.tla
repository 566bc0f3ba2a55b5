------------------------------- MODULE AcpProbe -------------------------------
(***************************************************************************)
(* One ACP initialize probe: probeAcpInitialize of                         *)
(* services/dev-control-api/src/acp-handshake-probe.mjs.  It spawns an     *)
(* allowlisted agent CLI, listens to the events of the child and to one    *)
(* timer, and the first event that decides starts finalize, which may have *)
(* to terminate the child (SIGTERM, a grace period, SIGKILL, another) while *)
(* further events keep arriving.  The child writes what it likes, exits    *)
(* when it likes, and need not react to signals.                           *)
(***************************************************************************)
EXTENDS Naturals

CONSTANTS
  Kinds,       \* subset of {"initialize", "preflight"}: the profiles probed
  OutputLimit, \* outputLimitBytes, in chunks
  MaxChunks    \* bound on the chunks a child writes to each stream

ProbeAssumption ==
  /\ Kinds \subseteq {"initialize", "preflight"}
  /\ OutputLimit \in Nat \ {0} /\ MaxChunks \in Nat

VARIABLES
  pc,        \* "start", "listening", "sigterm", "sigkill", "resolved"
  kind,      \* profile.kind
  child,     \* the operating system's view: "none", "running", or how it exited
  closed,    \* the close event was emitted
  spawnErr,  \* the error event of a failed spawn is still to come
  buffer,    \* stdoutBuffer: "empty", "head" (a reply cut short) or "junk"
  outBytes, errBytes,
  draft,     \* the verdict finalize was called with
  report,    \* what the promise resolved to
  resolutions, \* ghost: how often resolvePromise was called
  first      \* ghost: the first deciding event

vars == <<pc, kind, child, closed, spawnErr, buffer, outBytes, errBytes, draft,
          report, resolutions, first>>

Exits == {"exit0", "exit1", "signaled"}
NoDraft == [reason |-> "none", verified |-> FALSE]
NoReport == [reason |-> "none", verified |-> FALSE, exited |-> FALSE]

Init ==
  /\ pc = "start" /\ kind \in Kinds /\ child = "none" /\ closed = FALSE
  /\ spawnErr = FALSE /\ buffer = "empty" /\ outBytes = 0 /\ errBytes = 0
  /\ draft = NoDraft /\ report = NoReport
  /\ resolutions = 0 /\ first = NoDraft

hasExited == child \in Exits

Fail(reason) == [reason |-> reason, verified |-> FALSE]

-----------------------------------------------------------------------------
(* finalize.                                                               *)

(* The report: a verified reply is withdrawn when the exit of the child    *)
(* could not be confirmed.                                                 *)
SafeDraft(d, exited) ==
  IF d.verified /\ ~exited
  THEN [reason |-> "termination_unconfirmed", verified |-> FALSE, exited |-> exited]
  ELSE [reason |-> d.reason, verified |-> d.verified, exited |-> exited]

Resolve(d, exited) ==
  /\ pc' = "resolved"
  /\ report' = SafeDraft(d, exited)
  /\ resolutions' = resolutions + 1

(* Mutant: finalize does not look at the finalizing flag.                  *)
AlwaysFinalizes == pc \in {"listening", "sigterm", "sigkill"}

(* finalize returns at once when it is already under way.                  *)
CanFinalize == pc = "listening"

(* terminateChild signals only a child that has not exited.                *)
NeedsTermination == ~hasExited

(* finalize(d, shouldTerminate) as called by an event handler.             *)
finalize(d, shouldTerminate) ==
  IF CanFinalize
  THEN /\ draft' = d
       /\ first' = IF first = NoDraft THEN d ELSE first
       /\ IF shouldTerminate /\ NeedsTermination
          THEN pc' = "sigterm" /\ UNCHANGED <<report, resolutions>>
          ELSE Resolve(d, TRUE)
  ELSE UNCHANGED <<pc, draft, report, resolutions, first>>

-----------------------------------------------------------------------------
(* probeAcpInitialize up to the promise: refusals, a spawn that throws, a  *)
(* child without pipes, and a first write that fails.                      *)

Answered(reason) ==
  /\ pc' = "resolved"
  /\ report' = [reason |-> reason, verified |-> FALSE, exited |-> TRUE]
  /\ resolutions' = 1
  /\ draft' = Fail(reason) /\ first' = Fail(reason)
  /\ UNCHANGED <<kind, child, closed, spawnErr, buffer, outBytes, errBytes>>

Refuse == /\ pc = "start"
          /\ \E reason \in {"agent_not_allowlisted", "invalid_spawn_adapter"} :
               Answered(reason)

SpawnThrows == pc = "start" /\ Answered("spawn_failed")

SpawnWithoutPipes ==
  /\ pc = "start"
  /\ child' = "running" /\ pc' = "sigterm"
  /\ draft' = Fail("invalid_spawn_contract") /\ first' = draft'
  /\ UNCHANGED <<kind, closed, spawnErr, buffer, outBytes, errBytes, report, resolutions>>

(* The child runs, or its error event is on the way and it never will;     *)
(* writing to or ending its stdin may throw.                               *)
Spawn ==
  /\ pc = "start"
  /\ \E failed \in BOOLEAN :
       /\ spawnErr' = failed
       /\ child' = IF failed THEN "none" ELSE "running"
  /\ \/ pc' = "listening" /\ UNCHANGED <<draft, first>>
     \/ /\ pc' = "sigterm"
        /\ draft' = Fail(IF kind = "preflight" THEN "stdin_close_failed"
                         ELSE "stdin_write_failed")
        /\ first' = draft'
  /\ UNCHANGED <<kind, closed, buffer, outBytes, errBytes, report, resolutions>>

-----------------------------------------------------------------------------
(* Events.  Handlers stay attached until finalize knows of the exit.       *)
Attached == /\ pc \in {"listening", "sigterm", "sigkill"}
            /\ draft.reason # "invalid_spawn_contract"

(* A chunk is a whole reply, one that initialize rejects, its head, the    *)
(* rest of it, or text that is no frame; which frame it completes depends  *)
(* on what the buffer holds.                                               *)
Chunks == {"reply", "rejection", "head", "rest", "junk-line", "blank-line"}

Completed(c) ==
  CASE c = "head" -> "nothing"
    [] buffer = "head" /\ c = "rest" -> "reply"
    [] buffer = "empty" /\ c = "rest" -> "junk"
    [] buffer = "head" \/ c = "junk-line" -> "junk"
    [] OTHER -> c

OverLimit(n) == n > OutputLimit

(* analyzeInitializeResponse and the frame errors.                         *)
Verdict(frame) ==
  CASE frame = "reply"     -> [reason |-> "verified", verified |-> TRUE]
    [] frame = "rejection" -> Fail("initialize_rejected")
    [] frame = "blank-line" -> Fail("invalid_stdout_frame")
    [] OTHER -> Fail("invalid_stdout_json")

OnStdout(c) ==
  /\ Attached /\ child # "none" /\ ~closed
  /\ outBytes < MaxChunks
  /\ outBytes' = outBytes + 1
  /\ IF OverLimit(outBytes')
     THEN finalize(Fail("stdout_limit_exceeded"), TRUE) /\ UNCHANGED buffer
     ELSE IF kind = "preflight" \/ pc # "listening"
     THEN UNCHANGED <<pc, draft, report, resolutions, first, buffer>>
     ELSE IF Completed(c) = "nothing"
     THEN buffer' = "head" /\ UNCHANGED <<pc, draft, report, resolutions, first>>
     ELSE buffer' = "empty" /\ finalize(Verdict(Completed(c)), TRUE)
  /\ UNCHANGED <<kind, child, closed, spawnErr, errBytes>>

OnStderr ==
  /\ Attached /\ child # "none" /\ ~closed
  /\ errBytes < MaxChunks
  /\ errBytes' = errBytes + 1
  /\ IF OverLimit(errBytes') THEN finalize(Fail("stderr_limit_exceeded"), TRUE)
     ELSE UNCHANGED <<pc, draft, report, resolutions, first>>
  /\ UNCHANGED <<kind, child, closed, spawnErr, buffer, outBytes>>

(* A failed spawn sets the exit code and emits error: nothing is left to   *)
(* terminate.                                                              *)
OnError ==
  /\ Attached /\ spawnErr
  /\ spawnErr' = FALSE /\ child' = "exit1"
  /\ finalize(Fail("executable_not_found"), FALSE)
  /\ UNCHANGED <<kind, closed, buffer, outBytes, errBytes>>

(* close comes after the exit, once the pipes have ended too: late or      *)
(* never when a descendant of the child keeps them open.  During           *)
(* termination it also ends waitForExit.                                   *)
OnClose ==
  /\ pc \in {"listening", "sigterm", "sigkill"} /\ hasExited /\ ~closed
  /\ closed' = TRUE
  /\ IF pc \in {"sigterm", "sigkill"}
     THEN Resolve(draft, TRUE) /\ UNCHANGED <<draft, first>>
     ELSE finalize(IF kind = "preflight"
                   THEN Fail(IF child = "exit0" THEN "preflight_passed" ELSE
                             IF child = "exit1" THEN "preflight_exit_nonzero"
                             ELSE "preflight_signaled")
                   ELSE Fail(IF buffer # "empty" THEN "incomplete_stdout_frame"
                             ELSE "exited_before_initialize"), FALSE)
  /\ UNCHANGED <<kind, child, spawnErr, buffer, outBytes, errBytes>>

OnTimeout ==
  /\ pc = "listening"
  /\ finalize(Fail("timeout"), TRUE)
  /\ UNCHANGED <<kind, child, closed, spawnErr, buffer, outBytes, errBytes>>

(* A grace period is bounded by a timer.                                   *)
GraceRuns == pc \in {"sigterm", "sigkill"}

(* waitForExit: at the end of a grace period the exit code decides; after  *)
(* the first the child is killed, after the second it is left.             *)
OnGrace ==
  /\ GraceRuns
  /\ IF pc = "sigkill" \/ hasExited
     THEN Resolve(draft, hasExited)
     ELSE pc' = "sigkill" /\ UNCHANGED <<report, resolutions>>
  /\ UNCHANGED <<kind, child, closed, spawnErr, buffer, outBytes, errBytes, draft, first>>

(* The child ends: of itself, or by a signal.                              *)
ChildExits ==
  /\ child = "running"
  /\ child' \in IF pc \in {"sigterm", "sigkill"} THEN Exits ELSE {"exit0", "exit1"}
  /\ UNCHANGED <<pc, kind, closed, spawnErr, buffer, outBytes, errBytes, draft,
                 report, resolutions, first>>

Done == pc = "resolved" /\ UNCHANGED vars

Next ==
  \/ Refuse \/ SpawnThrows \/ SpawnWithoutPipes \/ Spawn
  \/ \E c \in Chunks : OnStdout(c)
  \/ OnStderr \/ OnError \/ OnClose \/ OnTimeout \/ OnGrace \/ ChildExits \/ Done

(* Timers fire and the spawning call returns; the child owes nothing.      *)
Fairness == /\ WF_vars(Spawn \/ SpawnThrows \/ SpawnWithoutPipes \/ Refuse)
            /\ WF_vars(OnTimeout) /\ WF_vars(OnGrace)

Spec == Init /\ [][Next]_vars /\ Fairness

-----------------------------------------------------------------------------
(* The type of the state; finalize resolves the promise at most once.      *)
TypeOK ==
  /\ pc \in {"start", "listening", "sigterm", "sigkill", "resolved"}
  /\ kind \in Kinds /\ child \in {"none", "running"} \union Exits
  /\ closed \in BOOLEAN /\ spawnErr \in BOOLEAN
  /\ buffer \in {"empty", "head"}
  /\ outBytes \in 0..MaxChunks /\ errBytes \in 0..MaxChunks
  /\ resolutions \in 0..1 /\ (resolutions = 1 <=> pc = "resolved")

(* A verified handshake was concluded by a child that is gone, and only by *)
(* a profile that initializes.                                             *)
VerifiedMeansGone ==
  pc = "resolved" /\ report.verified =>
    child \in Exits /\ kind = "initialize" /\ report.exited

(* The first deciding event gives the verdict: output, exits and timers    *)
(* that arrive while the child is being terminated change nothing but      *)
(* withdraw it.                                                            *)
FirstEventDecides ==
  pc = "resolved" =>
    report.reason \in {first.reason} \union
      IF first.verified THEN {"termination_unconfirmed"} ELSE {}

(* The report never claims an exit that did not happen.                    *)
ExitReportTrue ==
  pc = "resolved" /\ report.exited => child # "running"

=============================================================================
