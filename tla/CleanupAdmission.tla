-------------------------- MODULE CleanupAdmission --------------------------
(***************************************************************************)
(* The admission of a resource cleanup, as the dev control API checks it:  *)
(* a manifest of the build output and a snapshot of the processes are      *)
(* proposed, a human issues a grant over them, the preflight compares the  *)
(* grant with evidence observed after it (resource-cleanup-preflight.mjs), *)
(* and the admission of an executor compares it with evidence collected at *)
(* the time of the action, with the attempt at the effect and with the     *)
(* receipt written after it (resource-cleanup-admission.mjs).              *)
(*                                                                         *)
(* The repository has the checks and no executor: in this slice of the     *)
(* code every transition that would reach an effect is refused, though the *)
(* protocol has it (Boundary).  The machine around the checks is external: *)
(* builds write into the target, other programs take and free space and    *)
(* empty the target, somebody edits the worktree, a process opens the      *)
(* target, and an executor that follows the effect protocol cleans.  The   *)
(* documents are honest observations of that machine, but they may be      *)
(* taken, kept and combined in any order.                                  *)
(*                                                                         *)
(* Time runs in units of the freshness bound divided by MaxAge.  Every     *)
(* change of the target takes a unit of time and leaves its mark in the    *)
(* manifest, which names inodes and times of change, so the time of the    *)
(* last one stands for the digest.  The digest of the worktree is that of  *)
(* its content: an edit that is taken back leaves the digest it found.     *)
(***************************************************************************)
EXTENDS Naturals, FiniteSets

CONSTANTS
  MaxTime,       \* the last instant of a run
  MaxEvents,     \* events outside the cleanup in a run
  MaxAge,        \* maxEvidenceAgeSeconds
  Lifetime,      \* maxGrantLifetimeSeconds
  Disk,          \* KiB of the file system, shared by the target and the rest
  Growth,        \* worstCaseCleanupGrowthKiB
  Floor,         \* emergencyFloorKiB
  MinReclaim,    \* minReclaimKiB
  MaxAffected,   \* maxAffectedKiB
  RequiredFree,  \* requiredPostFreeKiB
  Trees,         \* contents of the worktree
  Boundary,      \* effect states the slice in force refuses to enter
  None           \* an absent document or time

EffectStates == {"PREPARED", "REQUESTING", "RUNNING", "VERIFYING", "CONFIRMED",
                 "FAILED", "BLOCKED", "CANCELED", "EFFECT_UNKNOWN"}

\* effectBoundary of getCleanupEffectTransitionDecision; an empty boundary is
\* the protocol with an executor behind it.
SliceBoundary == {"REQUESTING", "RUNNING", "VERIFYING", "CONFIRMED", "FAILED",
                  "EFFECT_UNKNOWN"}

CleanupAssumption ==
  /\ {MaxTime, MaxEvents, MaxAge, Lifetime, Disk, MinReclaim, MaxAffected} \subseteq Nat \ {0}
  /\ {Growth, Floor, RequiredFree} \subseteq Nat
  /\ MinReclaim <= MaxAffected
  /\ Boundary \in {SliceBoundary, {}}
  /\ None \notin Nat \cup EffectStates

VARIABLES
  now,        \* the clock every document is stamped with
  built,      \* when the target was last written: the identity of its content
  kib,        \* KiB allocated to the target
  free,       \* KiB free on the file system
  shared,     \* some file of the target has a hard link outside it
  tree,       \* the content of the worktree
  consumers,  \* some process has the target open
  events,     \* events outside the cleanup so far
  removed,    \* ghost: KiB removed from the target since the action evidence
  manifest,   \* the latest TargetManifestV1
  process,    \* the latest ProcessEvidenceV1
  grant,      \* the grant a human issued
  evidence,   \* the evidence observed for the preflight
  cleared,    \* the last preflight without a blocker of its own
  action,     \* the action-time evidence
  admitted,   \* when the admission last validated it
  effectState,\* the state of the attempt at the effect
  effect,     \* what the executor did: when, how it ended, how often
  after,      \* the read-back after the effect
  receipt     \* the post-action receipt the validator accepted

world == <<built, kib, free, shared, tree, consumers, events, removed>>
papers == <<manifest, process, grant>>
preflight == <<evidence, cleared>>
admission == <<action, admitted>>
outcome == <<effectState, effect, after, receipt>>
vars == <<now, world, papers, preflight, admission, outcome>>

Time == 0..MaxTime
Verdicts == {"PASS", "FAIL", "BLOCKED", "CANCELED", "EFFECT_UNKNOWN"}

Manifests == [at : Time, built : Time, kib : 0..Disk, shared : BOOLEAN]
Snapshots == [at : Time, consumers : BOOLEAN]
Optional(S) == S \cup {None}

Init ==
  /\ now = 0 /\ built = 0 /\ tree \in Trees /\ removed = 0
  /\ kib \in 1..Disk /\ free \in 0 .. Disk - kib
  /\ shared = FALSE /\ consumers = FALSE /\ events = 0
  /\ manifest = None /\ process = None /\ grant = None
  /\ evidence = None /\ cleared = None
  /\ action = None /\ admitted = None
  /\ effectState = None /\ after = None /\ receipt = None
  /\ effect = [startedAt |-> None, endedAt |-> None, clean |-> TRUE, runs |-> 0]

-----------------------------------------------------------------------------
(***************************************************************************)
(* The machine                                                             *)
(***************************************************************************)
Elapse == now < MaxTime /\ now' = now + 1
Event == events < MaxEvents /\ events' = events + 1

Tick == Elapse /\ UNCHANGED <<world, papers, preflight, admission, outcome>>

\* A build writes into the target and takes a unit of free space for it.
Build ==
  /\ Event /\ Elapse /\ free > 0
  /\ built' = now + 1 /\ kib' = kib + 1 /\ free' = free - 1
  /\ UNCHANGED <<shared, tree, consumers, removed, papers, preflight, admission, outcome>>

Remove(left) ==
  \E kept \in 0..Disk :
    /\ kept <= kib - left /\ (kept > 0 => shared)
    /\ kib' = left /\ free' = free + (kib - left) - kept
    /\ built' = IF left = kib THEN built ELSE now + 1
    /\ removed' = removed + (kib - left)

\* Somebody makes a hard link outside the target to a file of it, which changes
\* the link count its manifest records.
Link ==
  /\ Event /\ Elapse /\ ~shared /\ kib > 0
  /\ shared' = TRUE /\ built' = now + 1
  /\ UNCHANGED <<kib, free, tree, consumers, removed, papers, preflight, admission, outcome>>

\* Another program empties the target, in part or whole.  Blocks that a hard
\* link outside still names are not freed.
Empty ==
  /\ Event /\ Elapse
  /\ \E left \in 0 .. kib : left < kib /\ Remove(left)
  /\ UNCHANGED <<shared, tree, consumers, papers, preflight, admission, outcome>>

\* Somebody commits or edits in the worktree, or takes an edit back.
Edit ==
  /\ Event /\ tree' \in Trees \ {tree}
  /\ UNCHANGED <<now, built, kib, free, shared, consumers, removed, papers, preflight,
                 admission, outcome>>

\* Another program takes or frees space outside the target.
OtherUse ==
  /\ Event
  /\ \/ free > 0 /\ free' = free - 1
     \/ free + kib < Disk /\ free' = free + 1
  /\ UNCHANGED <<now, built, kib, shared, tree, consumers, removed, papers, preflight,
                 admission, outcome>>

\* A process opens the target, or the last one closes it.
OpenOrClose ==
  /\ Event
  /\ consumers' = ~consumers
  /\ UNCHANGED <<now, built, kib, free, shared, tree, removed, papers, preflight, admission,
                 outcome>>

-----------------------------------------------------------------------------
(***************************************************************************)
(* The documents and their validators                                      *)
(***************************************************************************)

\* A manifest is refused when a hard link set is not complete inside it.
ValidManifest(m) == m # None /\ ~m.shared

ValidSnapshot(p) == p # None

\* Before the attempt, and again once the executor has cleaned.
TakeManifest ==
  /\ effectState = None \/ effect.endedAt # None
  /\ manifest' = [at |-> now, built |-> built, kib |-> kib, shared |-> shared]
  /\ UNCHANGED <<now, world, process, grant, preflight, admission, outcome>>

TakeSnapshot ==
  /\ process' = [at |-> now, consumers |-> consumers]
  /\ UNCHANGED <<now, world, manifest, grant, preflight, admission, outcome>>

\* The human binds the proposed documents and the worktree of the moment.
IssueGrant ==
  /\ grant = None /\ manifest # None /\ process # None
  /\ \E expiry \in now + 1 .. now + Lifetime + 1 :
       grant' = [issuedAt |-> now, expiresAt |-> expiry, tree |-> tree,
                 manifest |-> manifest, process |-> process]
  /\ UNCHANGED <<now, world, manifest, process, preflight, admission, outcome>>

\* validateResourceCleanupGrant at the instant t.
ValidGrant(g, t) ==
  /\ g # None
  /\ g.manifest.kib <= MaxAffected
  /\ g.expiresAt - g.issuedAt <= Lifetime
  /\ g.issuedAt <= t /\ t < g.expiresAt

-----------------------------------------------------------------------------
(***************************************************************************)
(* The preflight                                                           *)
(***************************************************************************)
Observe ==
  /\ evidence' = [at |-> now, built |-> built, kib |-> kib, free |-> free,
                  tree |-> tree, process |-> process, shared |-> shared]
  /\ process # None
  /\ UNCHANGED <<now, world, papers, cleared, admission, outcome>>

\* The arithmetic both gates repeat over an observation of the file system.
Margins(o) ==
  /\ o.kib <= MaxAffected /\ MinReclaim <= o.kib
  /\ o.free >= Floor + Growth
  /\ o.free + MinReclaim >= RequiredFree + Growth

Fresh(d, t) == d.at <= t /\ t - d.at <= MaxAge

\* evidenceBlockers finds nothing.
EvidenceAgrees(g, e, t) ==
  /\ Fresh(e, t) /\ g.issuedAt <= e.at
  /\ e.tree = g.tree /\ e.process = g.process
  /\ ~e.shared /\ e.built = g.manifest.built /\ Margins(e)

\* targetManifestBlockers finds nothing: the manifest given is the granted one.
ManifestAgrees(g, e, m, t) ==
  m = g.manifest /\ m.at <= g.issuedAt /\ m.at <= e.at /\ Fresh(m, t)

\* processEvidenceBlockers finds nothing.
ProcessAgrees(g, e, p, t) ==
  /\ p = g.process /\ p = e.process /\ ~p.consumers
  /\ p.at <= g.issuedAt /\ p.at <= e.at /\ Fresh(p, t)

\* evaluateResourceCleanupPreflight never lets anything run: it always answers
\* HOLD.  What a reader acts on is whether the blockers that remain are only
\* the standing ones (no authority, circuit, executor or replay protection).
Preflight ==
  /\ ValidGrant(grant, now) /\ evidence # None /\ ValidManifest(grant.manifest)
  /\ ValidSnapshot(grant.process)
  /\ EvidenceAgrees(grant, evidence, now)
  /\ ManifestAgrees(grant, evidence, grant.manifest, now)
  /\ ProcessAgrees(grant, evidence, grant.process, now)
  /\ cleared' = [at |-> now, evidence |-> evidence]
  /\ UNCHANGED <<now, world, papers, evidence, admission, outcome>>

-----------------------------------------------------------------------------
(***************************************************************************)
(* The admission of an executor                                            *)
(***************************************************************************)
Collect ==
  /\ effectState = None /\ manifest # None /\ process # None /\ grant # None
  /\ action' = [at |-> now, manifest |-> manifest, process |-> process,
                tree |-> tree, kib |-> kib, free |-> free]
  /\ removed' = 0
  /\ UNCHANGED <<now, built, kib, free, shared, tree, consumers, events, papers, preflight,
                 admitted, outcome>>

\* Mutant: the content of the target is not compared with the granted one.
ActionTargetDrifts(a, g, t) ==
  /\ a # None /\ ValidGrant(g, t)
  /\ g.issuedAt <= a.at /\ a.at < g.expiresAt /\ Fresh(a, t)
  /\ a.tree = g.tree
  /\ ValidManifest(a.manifest)
  /\ g.issuedAt <= a.manifest.at /\ a.manifest.at <= a.at
  /\ ValidSnapshot(a.process) /\ ~a.process.consumers
  /\ g.issuedAt <= a.process.at /\ a.process.at <= a.at
  /\ Margins(a)

\* validateResourceCleanupActionTimeEvidenceV1.  Only the evidence as a whole
\* has an age; its parts must lie between the grant and the collection.
ValidAction(a, g, t) ==
  /\ a # None /\ ValidGrant(g, t)
  /\ g.issuedAt <= a.at /\ a.at < g.expiresAt /\ Fresh(a, t)
  /\ a.tree = g.tree
  /\ ValidManifest(a.manifest)
  /\ a.manifest.built = g.manifest.built /\ a.manifest.kib = g.manifest.kib
  /\ g.issuedAt <= a.manifest.at /\ a.manifest.at <= a.at
  /\ ValidSnapshot(a.process) /\ ~a.process.consumers
  /\ g.issuedAt <= a.process.at /\ a.process.at <= a.at
  /\ Margins(a)

\* evaluateResourceCleanupExecutorAdmission with an attempt that is PREPARED
\* and bound to the evidence: the evidence is the admissionDigest from now on.
Admit ==
  /\ effectState = None /\ ValidAction(action, grant, now)
  /\ admitted' = now /\ effectState' = "PREPARED"
  /\ UNCHANGED <<now, world, papers, preflight, action, effect, after, receipt>>

\* EFFECT_TRANSITIONS
Successors(from) ==
  CASE from = "PREPARED"   -> {"REQUESTING", "BLOCKED", "CANCELED"}
    [] from = "REQUESTING" -> {"RUNNING", "EFFECT_UNKNOWN"}
    [] from = "RUNNING"    -> {"VERIFYING", "EFFECT_UNKNOWN"}
    [] from = "VERIFYING"  -> {"CONFIRMED", "FAILED", "BLOCKED", "EFFECT_UNKNOWN"}
    [] OTHER -> {}

\* classifyCleanupEffectInterruption
Interrupted(state) ==
  IF state = "PREPARED" THEN "CANCELED"
  ELSE IF state \in {"REQUESTING", "RUNNING", "VERIFYING"} THEN "EFFECT_UNKNOWN" ELSE state

\* validateCleanupEffectTransition: the protocol allows the transition and the
\* slice has it.
Move(to) ==
  /\ effectState # None /\ to \in Successors(effectState) /\ to \notin Boundary
  /\ effectState' = to

Request ==
  /\ Move("REQUESTING")
  /\ UNCHANGED <<now, world, papers, preflight, admission, effect, after, receipt>>

\* The executor cleans: it removes some or all of the target.  The process is
\* started while the attempt is REQUESTING and may be lost before RUNNING is
\* recorded.
Clean ==
  /\ effectState = "REQUESTING" /\ effect.startedAt = None /\ Elapse
  /\ \E left \in 0..kib : Remove(left)
  /\ effect' = [startedAt |-> now, endedAt |-> now + 1, clean |-> TRUE,
                runs |-> effect.runs + 1]
  /\ UNCHANGED <<shared, tree, consumers, events, papers, preflight, admission,
                 effectState, after, receipt>>

\* A transition is recorded: the attempt is withdrawn before its request, or
\* the executor says how far it has come.
Record ==
  /\ effectState = "REQUESTING" => effect.startedAt # None
  /\ \E to \in EffectStates \ {"REQUESTING"} : Move(to)
  /\ UNCHANGED <<now, world, papers, preflight, admission, effect, after, receipt>>

\* The executor or its host dies.
Interrupt ==
  /\ effectState \in {"PREPARED", "REQUESTING", "RUNNING", "VERIFYING"}
  /\ effectState' = Interrupted(effectState)
  /\ effect' = [effect EXCEPT !.clean = FALSE]
  /\ UNCHANGED <<now, world, papers, preflight, admission, after, receipt>>

\* The operator asks for the effect again after an interruption: the protocol
\* has to allow it.
Resume ==
  /\ effectState = "EFFECT_UNKNOWN" /\ Move("REQUESTING")
  /\ effect' = [effect EXCEPT !.startedAt = None, !.endedAt = None]
  /\ UNCHANGED <<now, world, papers, preflight, admission, after, receipt>>

ReadBack ==
  /\ effectState # None
  /\ after' = [at |-> now, kib |-> kib, free |-> free, tree |-> tree]
  /\ UNCHANGED <<now, world, papers, preflight, admission, effectState, effect, receipt>>

Drop(from, to) == IF from > to THEN from - to ELSE 0

\* What a PASS asks for: a process that ran to its end undisturbed, and of the
\* read-back r, the process snapshot p and the manifest m, of a target that is
\* left, that they followed it and show enough gained and nobody at the target.
Passes(r, p, m) ==
  /\ effect.startedAt # None /\ effect.clean
  /\ p # None /\ ~p.consumers /\ p.at <= r.at /\ effect.endedAt <= p.at
  /\ r.kib > 0 => ValidManifest(m) /\ effect.endedAt <= m.at /\ m.at <= r.at
  /\ Drop(r.free, action.free) >= MinReclaim /\ r.free >= RequiredFree

\* What a receipt is held to by the grant, the evidence and the attempt.
BoundReceipt(r) ==
  /\ Drop(action.kib, r.kib) <= MaxAffected
  /\ r.tree = action.tree /\ ValidAction(action, grant, action.at)

\* Mutant: space that appeared is credited whatever the target lost.
OverclaimedReceipt(v, bound, r, p, m) ==
  /\ v = "PASS" => bound /\ Passes(r, p, m)
  /\ bound => BoundReceipt(r)
  /\ effect.endedAt # None => effect.endedAt <= r.at

\* validateResourceCleanupPostActionReceiptV1 for the verdict v, given the
\* grant, the evidence and the attempt or, but for a PASS, not.  The gain is the
\* growth of the free space, the effect the shrinking of the target, and a gain
\* above the effect is refused.  The state a receipt names is its verdict's;
\* that of the attempt is not compared with it.
ValidReceipt(v, bound, r, p, m) ==
  /\ v = "PASS" => bound /\ Passes(r, p, m)
  /\ bound => BoundReceipt(r)
  /\ Drop(r.free, action.free) <= Drop(action.kib, r.kib)
  /\ effect.endedAt # None => effect.endedAt <= r.at

FileReceipt ==
  /\ after # None /\ receipt = None
  /\ \E v \in Verdicts, bound \in BOOLEAN :
       /\ ValidReceipt(v, bound, after, process, manifest)
       /\ receipt' = [verdict |-> v, after |-> after]
  /\ UNCHANGED <<now, world, papers, preflight, admission, effectState, effect, after>>

-----------------------------------------------------------------------------
Machine == Tick \/ Build \/ Link \/ Empty \/ Edit \/ OtherUse \/ OpenOrClose
Propose == TakeManifest \/ TakeSnapshot \/ IssueGrant

PreflightNext == Machine \/ Propose \/ Observe \/ Preflight
AdmissionNext ==
  \/ Machine \/ Propose \/ Collect \/ Admit \/ Request \/ Clean \/ Record
  \/ Interrupt \/ Resume \/ ReadBack \/ FileReceipt

PreflightSpec == Init /\ [][PreflightNext]_vars
AdmissionSpec == Init /\ [][AdmissionNext]_vars

-----------------------------------------------------------------------------
(***************************************************************************)
(* Properties                                                              *)
(***************************************************************************)

\* The documents hold times and sizes of the machine.
TypeOK ==
  /\ now \in Time /\ built \in Time /\ tree \in Trees /\ removed \in Nat
  /\ kib \in 0..Disk /\ free \in 0..Disk /\ kib + free <= Disk
  /\ shared \in BOOLEAN /\ consumers \in BOOLEAN
  /\ manifest \in Optional(Manifests) /\ process \in Optional(Snapshots)
  /\ grant # None => grant.manifest \in Manifests /\ grant.process \in Snapshots
  /\ evidence # None => evidence.process \in Snapshots
  /\ action # None => action.manifest \in Manifests /\ action.process \in Snapshots
  /\ effectState \in Optional(EffectStates) /\ admitted \in Optional(Time)
  /\ receipt # None => receipt.verdict \in Verdicts

\* When nothing but the standing blockers is left, the content the human saw
\* stood unwritten through the approval and until the evidence was observed:
\* the last write is older than the manifest or newer than both.  The worktree
\* then held what it held at the approval, whatever it held in between.
ClearedContentStood ==
  cleared # None =>
    /\ \/ built <= grant.manifest.at
       \/ built > cleared.evidence.at /\ built > grant.issuedAt
    /\ cleared.evidence.tree = grant.tree

\* The bounds on the age of the proposals reach further than each says: a
\* grant that lives for Lifetime is cleared only within MaxAge of its issue.
ClearedSoon == cleared # None => cleared.at - grant.issuedAt <= MaxAge

\* Evidence an executor is admitted with describes the content the human
\* approved, which nobody wrote until the manifest was rebuilt, and a worktree
\* with the content it had at the approval.
AdmittedContentStood ==
  admitted # None =>
    /\ built <= grant.manifest.at \/ built > action.manifest.at
    /\ action.tree = grant.tree

\* A receipt says PASS only of an attempt that cleaned, after MinReclaim KiB or
\* more were removed from the target: what other programs free elsewhere is not
\* credited to it, however builds refill the target meanwhile.  The worktree of
\* the read-back is the approved one.  Another program that empties the target
\* cannot be told from the executor.
PassMeansRemoved ==
  receipt # None /\ receipt.verdict = "PASS" =>
    removed >= MinReclaim /\ effect.runs = 1 /\ receipt.after.tree = grant.tree

\* An attempt counts as canceled only when no executor ever started, wherever
\* the interruption falls.
CanceledMeansUntouched == effectState = "CANCELED" => effect.runs = 0

\* An attempt cleans at most once: an unknown outcome is never tried again.
EffectAtMostOnce == effect.runs <= 1

\* With the boundary of this slice an attempt is only ever prepared, blocked or
\* canceled, nothing is cleaned, and no receipt says PASS, whoever else empties
\* the target and frees space.
SliceCleansNothing ==
  Boundary = SliceBoundary =>
    /\ effect.runs = 0 /\ effectState \in {None, "PREPARED", "BLOCKED", "CANCELED"}
    /\ receipt # None => receipt.verdict # "PASS"

\* What the report on the admission says: the evidence of the action is fresh,
\* the process snapshot with it.  The code bounds only the age of the whole.
AdmittedWithFreshSnapshot ==
  admitted # None => admitted - action.process.at <= MaxAge

\* What the names of the verdicts suggest: a receipt says CANCELED only of an
\* attempt that was not started.  The validator does not compare them.
CanceledReceiptMeansUntouched ==
  receipt # None /\ receipt.verdict = "CANCELED" => effect.runs = 0
=============================================================================
