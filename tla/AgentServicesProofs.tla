------------------------ MODULE AgentServicesProofs ------------------------
(***************************************************************************)
(* Theorems about the parts composed in AgentServices, for any agents,     *)
(* cards, events and documents: the gates of a cleanup, the mesh, the      *)
(* router, the dispatcher, and what they say of the composition.  The loop *)
(* has its theorems in AutoLoopProofs.                                     *)
(***************************************************************************)
EXTENDS AgentServices, AutoLoopProofs, FiniteSetTheorems, SequenceTheorems, TLAPS

-----------------------------------------------------------------------------
(***************************************************************************)
(* The gates of a cleanup                                                  *)
(***************************************************************************)

\* The fields of the documents, beyond the types of the model.
Effects == [startedAt : Nat \union {None}, endedAt : Nat \union {None}, clean : BOOLEAN,
            runs : Nat]
DocsTyped(d) ==
  /\ grant # None => grant.issuedAt \in Nat
  /\ evidence # None => evidence.at \in Nat /\ evidence.built \in Nat
  /\ cleared # None => cleared.at \in Nat /\ cleared.evidence.at \in Nat
  /\ action # None =>
       action.at \in Nat /\ action.kib \in 0..Disk[d] /\ action.free \in 0..Disk[d]
  /\ after # None => after.kib \in 0..Disk[d] /\ after.free \in 0..Disk[d]
  /\ effect \in Effects

\* A document is of the past, and what it describes still stands or has changed
\* since.
Chronicled ==
  /\ built <= now
  /\ manifest # None =>
       /\ manifest.at <= now /\ manifest.built <= manifest.at
       /\ built = manifest.built \/ built > manifest.at
  /\ grant # None =>
       /\ grant.issuedAt <= now
       /\ grant.manifest.at <= grant.issuedAt
       /\ grant.manifest.built <= grant.manifest.at
  /\ evidence # None =>
       evidence.at <= now /\ (built = evidence.built \/ built > evidence.at)
  /\ action # None =>
       /\ grant # None /\ action.manifest.at <= now
       /\ built = action.manifest.built \/ built > action.manifest.at

\* The target is smaller than at the action evidence by no more than was
\* removed since, and so was it at the read-back, which an attempt comes before.
Measured ==
  /\ action # None => kib + removed >= action.kib
  /\ after # None =>
       /\ effectState # None /\ action # None /\ after.kib + removed >= action.kib
  /\ receipt # None /\ receipt.verdict = "PASS" =>
       removed >= MinReclaim /\ receipt.after.tree = grant.tree

\* What was cleared, admitted and received refers to one grant, and no step
\* changes the evidence of an attempt.
Bound(d) ==
  /\ cleared # None =>
       /\ grant # None /\ grant.issuedAt <= cleared.evidence.at /\ cleared.evidence.at <= now
       /\ built <= grant.manifest.at \/ built > cleared.evidence.at
  /\ admitted # None => effectState # None /\ grant # None /\ action # None
  /\ effectState # None => admitted # None
  /\ receipt # None => effectState # None /\ grant # None
  /\ Cleanup(d)!ClearedContentStood /\ Cleanup(d)!ClearedSoon
  /\ Cleanup(d)!AdmittedContentStood

\* An attempt cleans once, not before it is requested, and not at all within
\* the slice; a PASS is of one that did.
Attempted(d) ==
  /\ effect.runs = IF effect.startedAt = None THEN 0 ELSE 1
  /\ effectState \in {None, "PREPARED"} => effect.startedAt = None
  /\ effectState = "CANCELED" => effect.startedAt = None
  /\ Boundary[d] = Cleanup(d)!SliceBoundary =>
       /\ effect.startedAt = None
       /\ effectState \in {None, "PREPARED", "BLOCKED", "CANCELED"}
  /\ receipt # None /\ receipt.verdict = "PASS" => effect.startedAt # None

CleanupInv(d) ==
  /\ Cleanup(d)!TypeOK /\ DocsTyped(d) /\ Chronicled /\ Measured /\ Bound(d)
  /\ Attempted(d)

-----------------------------------------------------------------------------
\* What the setting of a cleanup is assumed to be.
LEMMA CleanupBounds ==
  ASSUME NEW d \in Cleanups
  PROVE  /\ MaxTime[d] \in Nat /\ MaxAge \in Nat /\ Lifetime[d] \in Nat /\ Disk[d] \in Nat
         /\ MinReclaim \in Nat \ {0}
         /\ None \notin Nat /\ None \notin Cleanup(d)!EffectStates
BY AgentServicesAssumption DEF Cleanup!CleanupAssumption

\* The machine moves on: a write is later than every document there is.
LEMMA WorldMoves ==
  ASSUME NEW d \in Cleanups, CleanupInv(d),
         now' \in 0..MaxTime[d], now <= now',
         built' = built \/ (built' = now + 1 /\ now' = now + 1),
         tree' \in Trees, removed' \in Nat, removed' >= removed,
         kib' + removed' >= kib + removed,
         kib' \in 0..Disk[d], free' \in 0..Disk[d], kib' + free' <= Disk[d],
         shared' \in BOOLEAN, consumers' \in BOOLEAN,
         UNCHANGED <<manifest, process, grant, evidence, cleared, action, admitted,
                     effectState, after, receipt>>
  PROVE  /\ Cleanup(d)!TypeOK' /\ Chronicled' /\ Measured' /\ Bound(d)'
         /\ effect' \in Effects => DocsTyped(d)'
<1>1. Cleanup(d)!TypeOK /\ DocsTyped(d) /\ Chronicled /\ Measured /\ Bound(d)
  BY DEF CleanupInv
<1>2. now \in Nat /\ built \in Nat /\ built' \in 0..MaxTime[d]
  <2>1. now \in 0..MaxTime[d] /\ built \in 0..MaxTime[d]
    BY <1>1 DEF Cleanup!TypeOK, Cleanup!Time
  <2> QED BY <2>1, CleanupBounds
<1>3. Cleanup(d)!TypeOK'
  BY <1>1, <1>2 DEF Cleanup!TypeOK, Cleanup!Time, Cleanup!Optional, Cleanup!Manifests,
     Cleanup!Snapshots, Cleanup!EffectStates, Cleanup!Verdicts
<1>4. effect' \in Effects => DocsTyped(d)'
  BY <1>1 DEF DocsTyped
<1>5. /\ manifest # None => manifest.at \in Nat /\ manifest.built \in Nat
      /\ grant # None => grant.manifest.at \in Nat /\ grant.manifest.built \in Nat
      /\ action # None => action.manifest.at \in Nat /\ action.manifest.built \in Nat
  BY <1>1, CleanupBounds DEF Cleanup!TypeOK, Cleanup!Optional, Cleanup!Manifests, Cleanup!Time
<1>6. Chronicled'
  BY <1>1, <1>2, <1>5 DEF Chronicled, DocsTyped
<1>7. Bound(d)'
  BY <1>1, <1>2, <1>5 DEF Bound, Chronicled, DocsTyped, Cleanup!ClearedContentStood,
     Cleanup!ClearedSoon, Cleanup!AdmittedContentStood
<1>8. Measured'
  <2>1. /\ removed \in Nat /\ kib \in Nat /\ kib' \in Nat /\ MinReclaim \in Nat
        /\ action # None => action.kib \in Nat
        /\ after # None => after.kib \in Nat
    BY <1>1, CleanupBounds DEF Cleanup!TypeOK, DocsTyped
  <2> QED BY <1>1, <2>1 DEF Measured
<1> QED BY <1>3, <1>4, <1>6, <1>7, <1>8

\* Whatever happens on the machine keeps what the documents say of it.
LEMMA MachineStep ==
  ASSUME NEW d \in Cleanups, CleanupInv(d), Cleanup(d)!Machine
  PROVE  CleanupInv(d)'
<1>1. /\ now \in 0..MaxTime[d] /\ kib \in 0..Disk[d] /\ free \in 0..Disk[d] /\ kib + free <= Disk[d]
      /\ shared \in BOOLEAN /\ consumers \in BOOLEAN /\ MaxTime[d] \in Nat /\ Disk[d] \in Nat
      /\ tree \in Trees /\ removed \in Nat
  BY CleanupBounds DEF CleanupInv, Cleanup!TypeOK, Cleanup!Time
<1>2. /\ now' \in 0..MaxTime[d] /\ now <= now'
      /\ built' = built \/ (built' = now + 1 /\ now' = now + 1)
      /\ tree' \in Trees /\ removed' \in Nat /\ removed' >= removed
      /\ kib' + removed' >= kib + removed
      /\ kib' \in 0..Disk[d] /\ free' \in 0..Disk[d] /\ kib' + free' <= Disk[d]
      /\ shared' \in BOOLEAN /\ consumers' \in BOOLEAN
      /\ UNCHANGED <<manifest, process, grant, evidence, cleared, action, admitted,
                     effectState, after, receipt, effect>>
  <2>1. CASE Cleanup(d)!Tick
    BY <1>1, <2>1 DEF Cleanup!Tick, Cleanup!Elapse, Cleanup!world, Cleanup!papers,
       Cleanup!preflight, Cleanup!admission, Cleanup!outcome
  <2>2. CASE Cleanup(d)!Build
    BY <1>1, <2>2 DEF Cleanup!Build, Cleanup!Elapse, Cleanup!Event, Cleanup!papers,
       Cleanup!preflight, Cleanup!admission, Cleanup!outcome
  <2>3. CASE Cleanup(d)!Link
    BY <1>1, <2>3 DEF Cleanup!Link, Cleanup!Elapse, Cleanup!Event, Cleanup!papers,
       Cleanup!preflight, Cleanup!admission, Cleanup!outcome
  <2>4. CASE Cleanup(d)!Edit
    BY <1>1, <2>4 DEF Cleanup!Edit, Cleanup!Event, Cleanup!papers,
       Cleanup!preflight, Cleanup!admission, Cleanup!outcome
  <2>5. CASE Cleanup(d)!OtherUse
    BY <1>1, <2>5 DEF Cleanup!OtherUse, Cleanup!Event, Cleanup!papers,
       Cleanup!preflight, Cleanup!admission, Cleanup!outcome
  <2>6. CASE Cleanup(d)!OpenOrClose
    BY <1>1, <2>6 DEF Cleanup!OpenOrClose, Cleanup!Event, Cleanup!papers,
       Cleanup!preflight, Cleanup!admission, Cleanup!outcome
  <2>7. CASE Cleanup(d)!Empty
    <3>1. PICK left \in 0..kib : left < kib /\ Cleanup(d)!Remove(left)
      BY <2>7 DEF Cleanup!Empty
    <3>2. PICK kept \in 0..Disk[d] :
            /\ kept <= kib - left
            /\ kib' = left /\ free' = free + (kib - left) - kept
            /\ built' = IF left = kib THEN built ELSE now + 1
            /\ removed' = removed + (kib - left)
      BY <3>1 DEF Cleanup!Remove
    <3>3. /\ now < MaxTime[d] /\ now' = now + 1
          /\ UNCHANGED <<shared, tree, consumers, manifest, process, grant, evidence, cleared,
                         action, admitted, effectState, after, receipt, effect>>
      BY <2>7 DEF Cleanup!Empty, Cleanup!Elapse, Cleanup!papers, Cleanup!preflight,
         Cleanup!admission, Cleanup!outcome
    <3> QED BY <1>1, <3>1, <3>2, <3>3
  <2> QED BY <2>1, <2>2, <2>3, <2>4, <2>5, <2>6, <2>7 DEF Cleanup!Machine
<1>3. effect' \in Effects
  BY <1>2 DEF CleanupInv, DocsTyped
<1>4. Attempted(d)'
  BY <1>2 DEF CleanupInv, Attempted
<1> QED BY <1>2, <1>3, <1>4, WorldMoves DEF CleanupInv

\* A proposal, and the grant over the proposals of the moment.
LEMMA ProposeStep ==
  ASSUME NEW d \in Cleanups, CleanupInv(d), Cleanup(d)!Propose
  PROVE  CleanupInv(d)'
<1>1. Cleanup(d)!TypeOK /\ DocsTyped(d) /\ Chronicled /\ Measured /\ Bound(d) /\ Attempted(d)
  BY DEF CleanupInv
<1>2. /\ now \in Nat /\ built \in Nat
      /\ now \in 0..MaxTime[d] /\ built \in 0..MaxTime[d]
  <2>1. now \in 0..MaxTime[d] /\ built \in 0..MaxTime[d]
    BY <1>1 DEF Cleanup!TypeOK, Cleanup!Time
  <2> QED BY <2>1, CleanupBounds
<1>3. UNCHANGED <<now, built, kib, free, shared, tree, consumers, removed, evidence, cleared,
                  action, admitted, effectState, effect, after, receipt>>
  BY DEF Cleanup!Propose, Cleanup!TakeManifest, Cleanup!TakeSnapshot, Cleanup!IssueGrant,
     Cleanup!world, Cleanup!preflight, Cleanup!admission, Cleanup!outcome
<1>4. /\ manifest' = manifest \/ (manifest' = [at |-> now, built |-> built, kib |-> kib,
                                               shared |-> shared])
      /\ process' = process \/ process' = [at |-> now, consumers |-> consumers]
      /\ \/ grant' = grant
         \/ /\ grant = None /\ manifest # None /\ process # None
            /\ manifest' = manifest /\ process' = process
            /\ grant'.issuedAt = now /\ grant'.tree = tree
            /\ grant'.manifest = manifest /\ grant'.process = process
  BY DEF Cleanup!Propose, Cleanup!TakeManifest, Cleanup!TakeSnapshot, Cleanup!IssueGrant,
     Cleanup!world, Cleanup!preflight, Cleanup!admission, Cleanup!outcome
<1>5. /\ manifest' \in Cleanup(d)!Optional(Cleanup(d)!Manifests)
      /\ process' \in Cleanup(d)!Optional(Cleanup(d)!Snapshots)
  BY <1>1, <1>4 DEF Cleanup!TypeOK, Cleanup!Optional, Cleanup!Manifests, Cleanup!Snapshots
<1>6. Cleanup(d)!TypeOK'
  <2>1. grant' # None => /\ grant'.manifest \in Cleanup(d)!Manifests
                         /\ grant'.process \in Cleanup(d)!Snapshots
    BY <1>1, <1>4 DEF Cleanup!TypeOK, Cleanup!Optional
  <2> QED BY <1>1, <1>3, <1>5, <2>1 DEF Cleanup!TypeOK, Cleanup!Manifests, Cleanup!Snapshots,
             Cleanup!Optional, Cleanup!Time, Cleanup!EffectStates, Cleanup!Verdicts
<1>7. DocsTyped(d)'
  BY <1>1, <1>2, <1>3, <1>4 DEF DocsTyped
<1>8. Chronicled'
  BY <1>1, <1>2, <1>3, <1>4 DEF Chronicled
<1>9. Bound(d)'
  <2>1. /\ cleared # None => grant' = grant
        /\ admitted # None => grant' = grant
        /\ receipt # None => grant' = grant
    BY <1>1, <1>4 DEF Bound
  <2> QED BY <1>1, <1>3, <2>1 DEF Bound, Cleanup!ClearedContentStood, Cleanup!ClearedSoon,
             Cleanup!AdmittedContentStood
<1>10. Attempted(d)' /\ Measured'
  <2>1. receipt # None => grant' = grant
    BY <1>1, <1>4 DEF Bound
  <2> QED BY <1>1, <1>3, <2>1 DEF Attempted, Measured
<1> QED BY <1>6, <1>7, <1>8, <1>9, <1>10 DEF CleanupInv

\* Evidence observed, and the preflight over it: what the grant binds was
\* written before the manifest in it, and still stood at the evidence.
LEMMA PreflightStep ==
  ASSUME NEW d \in Cleanups, CleanupInv(d), Cleanup(d)!Observe \/ Cleanup(d)!Preflight
  PROVE  CleanupInv(d)'
<1>1. Cleanup(d)!TypeOK /\ DocsTyped(d) /\ Chronicled /\ Measured /\ Bound(d) /\ Attempted(d)
  BY DEF CleanupInv
<1>2. now \in Nat /\ built \in Nat
  <2>1. now \in 0..MaxTime[d] /\ built \in 0..MaxTime[d]
    BY <1>1 DEF Cleanup!TypeOK, Cleanup!Time
  <2> QED BY <2>1, CleanupBounds
<1>3. UNCHANGED <<now, built, kib, free, shared, tree, consumers, removed, manifest, process, grant,
                  action, admitted, effectState, effect, after, receipt>>
  BY DEF Cleanup!Observe, Cleanup!Preflight, Cleanup!world, Cleanup!papers,
     Cleanup!admission, Cleanup!outcome
<1>4. CASE Cleanup(d)!Observe
  <2>1. /\ cleared' = cleared /\ process # None
        /\ evidence'.at = now /\ evidence'.built = built /\ evidence'.process = process
    BY <1>4 DEF Cleanup!Observe
  <2>2. Cleanup(d)!TypeOK'
    BY <1>1, <1>3, <2>1 DEF Cleanup!TypeOK, Cleanup!Manifests, Cleanup!Snapshots,
       Cleanup!Optional, Cleanup!Time, Cleanup!EffectStates, Cleanup!Verdicts
  <2>3. DocsTyped(d)' /\ Chronicled' /\ Measured' /\ Attempted(d)'
    BY <1>1, <1>2, <1>3, <2>1 DEF DocsTyped, Chronicled, Measured, Attempted
  <2>4. Bound(d)'
    BY <1>1, <1>3, <2>1 DEF Bound, Cleanup!ClearedContentStood, Cleanup!ClearedSoon,
       Cleanup!AdmittedContentStood
  <2> QED BY <2>2, <2>3, <2>4 DEF CleanupInv
<1>5. CASE Cleanup(d)!Preflight
  <2>1. /\ evidence' = evidence /\ cleared' = [at |-> now, evidence |-> evidence]
        /\ grant # None /\ evidence # None
        /\ grant.issuedAt <= evidence.at /\ evidence.built = grant.manifest.built
        /\ evidence.tree = grant.tree
        /\ grant.manifest.at <= grant.issuedAt /\ now - grant.manifest.at <= MaxAge
    BY <1>5 DEF Cleanup!Preflight, Cleanup!ValidGrant, Cleanup!EvidenceAgrees,
       Cleanup!ManifestAgrees, Cleanup!Fresh
  <2>2. /\ grant.manifest.at \in Nat /\ grant.manifest.built \in Nat /\ grant.issuedAt \in Nat
        /\ evidence.at \in Nat /\ evidence.built \in Nat /\ MaxAge \in Nat
    BY <1>1, <2>1, CleanupBounds DEF DocsTyped, Cleanup!TypeOK, Cleanup!Manifests, Cleanup!Time
  <2>3. Cleanup(d)!TypeOK'
    BY <1>1, <1>3, <2>1 DEF Cleanup!TypeOK, Cleanup!Manifests, Cleanup!Snapshots,
       Cleanup!Optional, Cleanup!Time, Cleanup!EffectStates, Cleanup!Verdicts
  <2>4. DocsTyped(d)' /\ Chronicled' /\ Measured' /\ Attempted(d)'
    BY <1>1, <1>2, <1>3, <2>1, <2>2 DEF DocsTyped, Chronicled, Measured, Attempted
  <2>5. built <= grant.manifest.at \/ (built > evidence.at /\ built > grant.issuedAt)
    BY <1>1, <1>2, <2>1, <2>2 DEF Chronicled
  <2>6. now - grant.issuedAt <= MaxAge
    BY <1>2, <2>1, <2>2
  <2>7. evidence.at <= now
    BY <1>1, <2>1 DEF Chronicled
  <2>8. /\ cleared'.at = now /\ cleared'.evidence = evidence
    BY <2>1
  <2>9. Bound(d)'
    BY <1>1, <1>3, <2>1, <2>5, <2>6, <2>7, <2>8 DEF Bound, Cleanup!ClearedContentStood,
       Cleanup!ClearedSoon, Cleanup!AdmittedContentStood
  <2> QED BY <2>3, <2>4, <2>9 DEF CleanupInv
<1> QED BY <1>4, <1>5

\* Evidence collected at the time of the action, and its admission.
LEMMA AdmitStep ==
  ASSUME NEW d \in Cleanups, CleanupInv(d), Cleanup(d)!Collect \/ Cleanup(d)!Admit
  PROVE  CleanupInv(d)'
<1>1. Cleanup(d)!TypeOK /\ DocsTyped(d) /\ Chronicled /\ Measured /\ Bound(d) /\ Attempted(d)
  BY DEF CleanupInv
<1>2. now \in Nat /\ built \in Nat
  <2>1. now \in 0..MaxTime[d] /\ built \in 0..MaxTime[d]
    BY <1>1 DEF Cleanup!TypeOK, Cleanup!Time
  <2> QED BY <2>1, CleanupBounds
<1>3. UNCHANGED <<now, built, kib, free, shared, tree, consumers, manifest, process, grant,
                  evidence, cleared, effect, after, receipt>> /\ effectState = None
  BY DEF Cleanup!Collect, Cleanup!Admit, Cleanup!world, Cleanup!papers,
     Cleanup!preflight, Cleanup!outcome
<1>4. /\ admitted = None /\ receipt = None /\ after = None
      /\ None \notin Cleanup(d)!EffectStates
  BY <1>1, <1>3, CleanupBounds DEF Bound, Measured
<1>5. CASE Cleanup(d)!Collect
  <2>1. /\ UNCHANGED <<admitted, effectState>>
        /\ manifest # None /\ process # None /\ grant # None
        /\ action'.at = now /\ action'.manifest = manifest /\ action'.process = process
        /\ action'.tree = tree /\ action'.kib = kib /\ action'.free = free
        /\ removed' = 0
    BY <1>5 DEF Cleanup!Collect, Cleanup!outcome
  <2>2. manifest \in Cleanup(d)!Manifests /\ process \in Cleanup(d)!Snapshots
    BY <1>1, <2>1 DEF Cleanup!TypeOK, Cleanup!Optional
  <2>3. Cleanup(d)!TypeOK'
    BY <1>1, <1>3, <2>1, <2>2 DEF Cleanup!TypeOK, Cleanup!Manifests, Cleanup!Snapshots,
       Cleanup!Optional, Cleanup!Time, Cleanup!EffectStates, Cleanup!Verdicts
  <2>4. DocsTyped(d)'
    BY <1>1, <1>2, <1>3, <2>1 DEF DocsTyped, Cleanup!TypeOK
  <2>5. Chronicled' /\ Attempted(d)' /\ Measured'
    <3>1. kib \in Nat
      BY <1>1, CleanupBounds DEF Cleanup!TypeOK
    <3> QED BY <1>1, <1>2, <1>3, <1>4, <2>1, <3>1 DEF Chronicled, Attempted, Measured
  <2>6. Bound(d)'
    BY <1>1, <1>3, <1>4, <2>1 DEF Bound, Cleanup!ClearedContentStood, Cleanup!ClearedSoon,
       Cleanup!AdmittedContentStood
  <2> QED BY <2>3, <2>4, <2>5, <2>6 DEF CleanupInv
<1>6. CASE Cleanup(d)!Admit
  <2>1. /\ action' = action /\ admitted' = now /\ effectState' = "PREPARED"
        /\ removed' = removed
        /\ action # None /\ grant # None /\ action.tree = grant.tree
        /\ action.manifest.built = grant.manifest.built
        /\ grant.issuedAt <= action.manifest.at
    BY <1>6 DEF Cleanup!Admit, Cleanup!ValidAction, Cleanup!ValidGrant, Cleanup!world
  <2>2. /\ grant.manifest.at \in Nat /\ grant.manifest.built \in Nat
        /\ action.manifest.at \in Nat /\ action.manifest.built \in Nat
    BY <1>1, <2>1, CleanupBounds DEF Cleanup!TypeOK, Cleanup!Manifests, Cleanup!Time
  <2>3. "PREPARED" \in Cleanup(d)!EffectStates
    BY DEF Cleanup!EffectStates
  <2>4. Cleanup(d)!TypeOK'
    BY <1>1, <1>3, <2>1, <2>3 DEF Cleanup!TypeOK, Cleanup!Manifests, Cleanup!Snapshots,
       Cleanup!Optional, Cleanup!Time, Cleanup!Verdicts
  <2>5. DocsTyped(d)' /\ Chronicled'
    BY <1>1, <1>3, <2>1 DEF DocsTyped, Chronicled
  <2>6. Attempted(d)' /\ Measured'
    BY <1>1, <1>3, <1>4, <2>1, <2>3 DEF Attempted, Measured
  <2>7. built <= grant.manifest.at \/ built > action.manifest.at
    BY <1>1, <1>2, <2>1, <2>2 DEF Chronicled
  <2>8. Cleanup(d)!AdmittedContentStood'
    BY <1>3, <2>1, <2>7 DEF Cleanup!AdmittedContentStood
  <2>9. /\ Cleanup(d)!ClearedContentStood' /\ Cleanup(d)!ClearedSoon'
        /\ cleared # None =>
             /\ grant # None /\ grant.issuedAt <= cleared.evidence.at
             /\ cleared.evidence.at <= now
             /\ built <= grant.manifest.at \/ built > cleared.evidence.at
    BY <1>1, <1>3 DEF Bound, Cleanup!ClearedContentStood, Cleanup!ClearedSoon
  <2>10. Bound(d)'
    BY <1>2, <1>3, <1>4, <2>1, <2>3, <2>8, <2>9, CleanupBounds DEF Bound
  <2> QED BY <2>4, <2>5, <2>6, <2>10 DEF CleanupInv
<1> QED BY <1>5, <1>6

\* What changes only the state of an attempt, and how often it cleaned.
LEMMA AttemptMoves ==
  ASSUME NEW d \in Cleanups, CleanupInv(d), effectState # None,
         effectState' \in Cleanup(d)!EffectStates, effect' \in Effects, Attempted(d)',
         UNCHANGED <<now, built, kib, free, shared, tree, consumers, removed, manifest, process, grant,
                     evidence, cleared, action, admitted, after, receipt>>
  PROVE  CleanupInv(d)'
<1>1. None \notin Cleanup(d)!EffectStates
  BY CleanupBounds
<1>2. Cleanup(d)!TypeOK'
  BY DEF CleanupInv, Cleanup!TypeOK, Cleanup!Manifests, Cleanup!Snapshots, Cleanup!Optional,
     Cleanup!Time, Cleanup!Verdicts
<1>3. DocsTyped(d)' /\ Chronicled' /\ Measured'
  BY <1>1 DEF CleanupInv, DocsTyped, Chronicled, Measured
<1>4. Bound(d)'
  BY <1>1 DEF CleanupInv, Bound, Cleanup!ClearedContentStood, Cleanup!ClearedSoon, Cleanup!AdmittedContentStood
<1> QED BY <1>2, <1>3, <1>4 DEF CleanupInv

\* The effect is requested, recorded, interrupted or resumed.
LEMMA EffectStep ==
  ASSUME NEW d \in Cleanups, CleanupInv(d),
         \/ Cleanup(d)!Request \/ Cleanup(d)!Record \/ Cleanup(d)!Interrupt
         \/ Cleanup(d)!Resume
  PROVE  CleanupInv(d)'
<1>1. /\ effect \in Effects /\ Attempted(d) /\ None \notin Cleanup(d)!EffectStates
      /\ effectState \in Cleanup(d)!EffectStates \union {None} /\ None \notin Nat
  BY CleanupBounds DEF CleanupInv, DocsTyped, Cleanup!TypeOK, Cleanup!Optional
<1>2. UNCHANGED <<now, built, kib, free, shared, tree, consumers, removed, manifest, process, grant,
                  evidence, cleared, action, admitted, after, receipt>>
  BY DEF Cleanup!Request, Cleanup!Record, Cleanup!Interrupt, Cleanup!Resume,
     Cleanup!world, Cleanup!papers, Cleanup!preflight, Cleanup!admission
<1>3. CASE Cleanup(d)!Request
  <2>1. /\ effectState = "PREPARED" /\ effectState' = "REQUESTING" /\ effect' = effect
        /\ "REQUESTING" \notin Boundary[d]
    BY <1>1, <1>3 DEF Cleanup!Request, Cleanup!Move, Cleanup!Successors, Cleanup!EffectStates
  <2>2. receipt' = receipt /\ Boundary[d] # Cleanup(d)!SliceBoundary
    BY <1>2, <2>1 DEF Cleanup!SliceBoundary
  <2>3. Attempted(d)' /\ effectState' \in Cleanup(d)!EffectStates /\ effectState # None
    BY <1>1, <2>1, <2>2 DEF Attempted, Cleanup!EffectStates
  <2> QED BY <1>1, <1>2, <2>1, <2>3, AttemptMoves
<1>4. CASE Cleanup(d)!Record
  <2>1. PICK to \in Cleanup(d)!EffectStates \ {"REQUESTING"} : Cleanup(d)!Move(to)
    BY <1>4 DEF Cleanup!Record
  <2>2. /\ effectState # None /\ effectState' = to /\ effect' = effect
        /\ to \in Cleanup(d)!Successors(effectState) /\ to \notin Boundary[d]
        /\ receipt' = receipt
    BY <1>2, <1>4, <2>1 DEF Cleanup!Record, Cleanup!Move
  <2>3. /\ to # "PREPARED" /\ to # None
        /\ to = "CANCELED" => effectState = "PREPARED"
    BY <1>1, <2>1, <2>2 DEF Cleanup!Successors, Cleanup!EffectStates
  <2>4. Boundary[d] = Cleanup(d)!SliceBoundary => to \in {"BLOCKED", "CANCELED"}
    BY <2>1, <2>2, <2>3 DEF Cleanup!SliceBoundary, Cleanup!EffectStates
  <2>5. Attempted(d)'
    BY <1>1, <2>2, <2>3, <2>4 DEF Attempted
  <2> QED BY <1>1, <1>2, <2>1, <2>2, <2>5, AttemptMoves
<1>5. CASE Cleanup(d)!Interrupt
  <2>1. /\ effectState \in {"PREPARED", "REQUESTING", "RUNNING", "VERIFYING"}
        /\ effectState' = IF effectState = "PREPARED" THEN "CANCELED" ELSE "EFFECT_UNKNOWN"
        /\ effect' = [effect EXCEPT !.clean = FALSE]
    BY <1>5 DEF Cleanup!Interrupt, Cleanup!Interrupted
  <2>2. effect' \in Effects /\ effect'.runs = effect.runs /\ effect'.startedAt = effect.startedAt
    BY <1>1, <2>1 DEF Effects
  <2>3. receipt' = receipt
    BY <1>2
  <2>4. Attempted(d)' /\ effectState' \in Cleanup(d)!EffectStates /\ effectState # None
    BY <1>1, <2>1, <2>2, <2>3 DEF Attempted, Cleanup!EffectStates
  <2> QED BY <1>2, <2>2, <2>4, AttemptMoves
<1>6. CASE Cleanup(d)!Resume
  BY <1>6 DEF Cleanup!Resume, Cleanup!Move, Cleanup!Successors
<1> QED BY <1>3, <1>4, <1>5, <1>6

\* The executor cleans.
LEMMA CleanStep ==
  ASSUME NEW d \in Cleanups, CleanupInv(d), Cleanup(d)!Clean
  PROVE  CleanupInv(d)'
<1>1. /\ effect \in Effects /\ Attempted(d) /\ None \notin Nat /\ Disk[d] \in Nat
      /\ MaxTime[d] \in Nat /\ None \notin Cleanup(d)!EffectStates
  BY CleanupBounds DEF CleanupInv, DocsTyped
<1>2. /\ now \in 0..MaxTime[d] /\ built \in 0..MaxTime[d] /\ kib \in 0..Disk[d] /\ free \in 0..Disk[d]
      /\ kib + free <= Disk[d] /\ shared \in BOOLEAN /\ consumers \in BOOLEAN
      /\ tree \in Trees /\ removed \in Nat
  BY DEF CleanupInv, Cleanup!TypeOK, Cleanup!Time
<1>3. /\ effectState = "REQUESTING" /\ effect.startedAt = None
      /\ now < MaxTime[d] /\ now' = now + 1
      /\ effect' = [startedAt |-> now, endedAt |-> now + 1, clean |-> TRUE,
                    runs |-> effect.runs + 1]
      /\ UNCHANGED <<shared, tree, consumers, manifest, process, grant, evidence, cleared,
                     action, admitted, effectState, after, receipt>>
  BY DEF Cleanup!Clean, Cleanup!Elapse, Cleanup!papers, Cleanup!preflight, Cleanup!admission
<1>4. PICK left \in 0..kib, kept \in 0..Disk[d] :
        /\ kept <= kib - left
        /\ kib' = left /\ free' = free + (kib - left) - kept
        /\ built' = IF left = kib THEN built ELSE now + 1
        /\ removed' = removed + (kib - left)
  BY DEF Cleanup!Clean, Cleanup!Remove
<1>5. /\ kib' \in 0..Disk[d] /\ free' \in 0..Disk[d] /\ kib' + free' <= Disk[d]
      /\ now' \in 0..MaxTime[d] /\ now <= now'
      /\ built' = built \/ (built' = now + 1 /\ now' = now + 1)
      /\ tree' \in Trees /\ removed' \in Nat /\ removed' >= removed
      /\ kib' + removed' >= kib + removed
  <2>1. kib \in Nat /\ free \in Nat /\ left \in Nat /\ left <= kib /\ kept \in Nat
    BY <1>1, <1>2, <1>4
  <2>2. /\ kib' \in 0..Disk[d] /\ free' \in 0..Disk[d] /\ kib' + free' <= Disk[d]
        /\ removed' \in Nat /\ removed' >= removed /\ kib' + removed' >= kib + removed
    BY <1>1, <1>2, <1>4, <2>1
  <2> QED BY <1>1, <1>2, <1>3, <1>4, <2>2
<1>6. effect' \in Effects
  BY <1>1, <1>2, <1>3 DEF Effects
<1>7. Attempted(d)'
  BY <1>1, <1>2, <1>3 DEF Attempted, Effects, Cleanup!EffectStates
<1>8. Cleanup(d)!TypeOK' /\ Chronicled' /\ Measured' /\ Bound(d)' /\ DocsTyped(d)'
  BY <1>2, <1>3, <1>5, <1>6, WorldMoves
<1> QED BY <1>7, <1>8 DEF CleanupInv

\* The read-back.
LEMMA ReadBackStep ==
  ASSUME NEW d \in Cleanups, CleanupInv(d), Cleanup(d)!ReadBack
  PROVE  CleanupInv(d)'
<1>1. Cleanup(d)!TypeOK /\ DocsTyped(d) /\ Chronicled /\ Measured /\ Bound(d) /\ Attempted(d)
  BY DEF CleanupInv
<1>2. /\ UNCHANGED <<now, built, kib, free, shared, tree, consumers, removed, manifest, process,
                     grant, evidence, cleared, action, admitted, effectState, effect, receipt>>
      /\ after'.kib = kib /\ after'.free = free /\ effectState # None
  BY DEF Cleanup!ReadBack, Cleanup!world, Cleanup!papers, Cleanup!preflight, Cleanup!admission
<1>3. Cleanup(d)!TypeOK'
  BY <1>1, <1>2 DEF Cleanup!TypeOK, Cleanup!Manifests, Cleanup!Snapshots, Cleanup!Optional,
     Cleanup!Time, Cleanup!EffectStates, Cleanup!Verdicts
<1>4. DocsTyped(d)'
  BY <1>1, <1>2 DEF DocsTyped, Cleanup!TypeOK
<1>5. Chronicled' /\ Attempted(d)'
  BY <1>1, <1>2 DEF Chronicled, Attempted
<1>6. Bound(d)'
  BY <1>1, <1>2 DEF Bound, Cleanup!ClearedContentStood, Cleanup!ClearedSoon,
     Cleanup!AdmittedContentStood
<1>7. Measured'
  BY <1>1, <1>2 DEF Measured, Bound
<1> QED BY <1>3, <1>4, <1>5, <1>6, <1>7 DEF CleanupInv

\* The receipt: a gain of the disk is credited no further than the target
\* shrank, and the worktree is that of the evidence, and so of the grant.
LEMMA ReceiptFiled ==
  ASSUME NEW d \in Cleanups, CleanupInv(d), Cleanup(d)!FileReceipt
  PROVE  CleanupInv(d)'
<1>1. Cleanup(d)!TypeOK /\ DocsTyped(d) /\ Chronicled /\ Measured /\ Bound(d) /\ Attempted(d)
  BY DEF CleanupInv
<1>2. PICK v \in Cleanup(d)!Verdicts, bound \in BOOLEAN :
        /\ Cleanup(d)!ValidReceipt(v, bound, after, process, manifest)
        /\ receipt' = [verdict |-> v, after |-> after]
  BY DEF Cleanup!FileReceipt
<1>3. /\ UNCHANGED <<now, built, kib, free, shared, tree, consumers, removed, manifest, process,
                     grant, evidence, cleared, action, admitted, effectState, effect, after>>
      /\ after # None
  BY DEF Cleanup!FileReceipt, Cleanup!world, Cleanup!papers, Cleanup!preflight, Cleanup!admission
<1>4. receipt'.verdict = v /\ receipt'.after = after /\ effectState # None
  BY <1>1, <1>2, <1>3 DEF Measured
<1>5. Cleanup(d)!TypeOK'
  BY <1>1, <1>2, <1>3, <1>4 DEF Cleanup!TypeOK, Cleanup!Manifests, Cleanup!Snapshots,
     Cleanup!Optional, Cleanup!Time, Cleanup!EffectStates
<1>6. DocsTyped(d)' /\ Chronicled'
  BY <1>1, <1>3 DEF DocsTyped, Chronicled
<1>7. Bound(d)'
  BY <1>1, <1>3, <1>4 DEF Bound, Cleanup!ClearedContentStood, Cleanup!ClearedSoon,
     Cleanup!AdmittedContentStood
<1>8. v = "PASS" =>
        /\ effect.startedAt # None
        /\ Cleanup(d)!Drop(after.free, action.free) >= MinReclaim
        /\ after.tree = action.tree /\ action.tree = grant.tree
  BY <1>2 DEF Cleanup!ValidReceipt, Cleanup!Passes, Cleanup!BoundReceipt, Cleanup!ValidAction
<1>9. Cleanup(d)!Drop(after.free, action.free) <= Cleanup(d)!Drop(action.kib, after.kib)
  BY <1>2 DEF Cleanup!ValidReceipt
<1>10. /\ after.kib \in Nat /\ after.free \in Nat /\ action.kib \in Nat /\ action.free \in Nat
       /\ removed \in Nat /\ MinReclaim \in Nat \ {0} /\ after.kib + removed >= action.kib
  BY <1>1, <1>3, CleanupBounds DEF DocsTyped, Cleanup!TypeOK, Measured
<1>11. v = "PASS" => removed >= MinReclaim
  BY <1>8, <1>9, <1>10 DEF Cleanup!Drop
<1>12. Measured' /\ Attempted(d)'
  BY <1>1, <1>3, <1>4, <1>8, <1>11 DEF Measured, Attempted
<1> QED BY <1>5, <1>6, <1>7, <1>12 DEF CleanupInv

-----------------------------------------------------------------------------
\* No document has been written and nothing attempted.
LEMMA CleanupFirst ==
  ASSUME NEW d \in Cleanups, Cleanup(d)!Init
  PROVE  CleanupInv(d)
<1>1. /\ Disk[d] \in Nat /\ MaxTime[d] \in Nat /\ MaxAge \in Nat
      /\ None \notin Nat /\ None \notin Cleanup(d)!EffectStates
  BY CleanupBounds
<1>2. Cleanup(d)!TypeOK
  <2>1. /\ now = 0 /\ built = 0 /\ tree \in Trees /\ removed = 0 /\ shared = FALSE /\ consumers = FALSE
        /\ kib \in 1..Disk[d] /\ free \in 0 .. Disk[d] - kib
        /\ manifest = None /\ process = None /\ grant = None /\ evidence = None
        /\ action = None /\ admitted = None /\ effectState = None /\ receipt = None
    BY DEF Cleanup!Init
  <2>2. /\ kib \in 0..Disk[d] /\ free \in 0..Disk[d] /\ kib + free <= Disk[d]
        /\ 0 \in 0..MaxTime[d]
    BY <1>1, <2>1
  <2>3. now \in 0..MaxTime[d] /\ built \in 0..MaxTime[d]
    BY <2>1, <2>2
  <2> QED BY <2>1, <2>2, <2>3 DEF Cleanup!TypeOK, Cleanup!Time, Cleanup!Optional
<1>3. DocsTyped(d) /\ Chronicled /\ Measured /\ Attempted(d)
  BY <1>1 DEF Cleanup!Init, DocsTyped, Effects, Chronicled, Measured, Attempted,
     Cleanup!EffectStates
<1>4. Bound(d)
  BY DEF Cleanup!Init, Bound, Cleanup!ClearedContentStood, Cleanup!ClearedSoon, Cleanup!AdmittedContentStood
<1> QED BY <1>2, <1>3, <1>4 DEF CleanupInv

\* Every step of a cleanup keeps the invariant.
LEMMA CleanupKept ==
  ASSUME NEW d \in Cleanups, CleanupInv(d),
         \/ Cleanup(d)!PreflightNext \/ Cleanup(d)!AdmissionNext \/ UNCHANGED cleanupVars
  PROVE  CleanupInv(d)'
<1>1. CASE UNCHANGED cleanupVars
  BY <1>1 DEF cleanupVars, CleanupInv, DocsTyped, Chronicled, Measured, Bound, Attempted,
     Cleanup!TypeOK, Cleanup!Time, Cleanup!Optional, Cleanup!Manifests, Cleanup!Snapshots,
     Cleanup!EffectStates, Cleanup!Verdicts,
     Cleanup!ClearedContentStood, Cleanup!ClearedSoon, Cleanup!AdmittedContentStood
<1>2. CASE Cleanup(d)!PreflightNext
  BY <1>2, MachineStep, ProposeStep, PreflightStep DEF Cleanup!PreflightNext
<1>3. CASE Cleanup(d)!AdmissionNext
  BY <1>3, MachineStep, ProposeStep, AdmitStep, EffectStep, CleanStep, ReadBackStep,
     ReceiptFiled DEF Cleanup!AdmissionNext
<1> QED BY <1>1, <1>2, <1>3

-----------------------------------------------------------------------------
(***************************************************************************)
(* The mesh                                                                *)
(***************************************************************************)

\* Each call a handshake waits for is one request, and has a result pending.
OneCallEach(d) ==
  \A r \in wire : r.from \in Lanes[d] /\ r.awaited =>
    /\ r.from \in report.pending
    /\ \A s \in wire : s.from = r.from /\ s.awaited => s = r

\* A request that got past the token registered its card, and keeps it.
CardsKept ==
  /\ \A r \in wire : r.at \in {"listing", "answered"} => r.from \in cards
  /\ report.op = "handshake" /\ ~report.restarted => report.ok \subseteq cards

\* Without a token no request gets further than the door.
Unlisted(d) ==
  ~Bearer[d] => \A r \in wire : r.from \in Lanes[d] => r.at \in {"sent", "failed"}

\* What the report says follows from its results.
Reported ==
  /\ report.status # "syncing" => report.pending = {}
  /\ report.status = "none" => report.op = "none"
  /\ report.status = "live-synced" => report.targets \subseteq report.ok

MeshInv(d) ==
  /\ Mesh(d)!TypeOK /\ OneCallEach(d) /\ CardsKept /\ Unlisted(d) /\ Reported
  /\ Mesh(d)!CallerIsEchoed /\ Mesh(d)!NoTokenNoCard

-----------------------------------------------------------------------------
\* What the setting of a mesh is assumed to be.
LEMMA MeshBounds ==
  ASSUME NEW d \in Meshes
  PROVE  /\ Lanes[d] \intersect Peers[d] = {} /\ Self \notin Lanes[d] \union Peers[d]
         /\ Bearer[d] \in BOOLEAN /\ MaxRestarts[d] \in Nat
BY AgentServicesAssumption DEF Mesh!MeshAssumption

\* A request on the wire, field by field.
LEMMA RequestTyped ==
  ASSUME NEW d \in Meshes, Mesh(d)!TypeOK, NEW r \in wire
  PROVE  /\ r.from \in Lanes[d] \union Peers[d] /\ r.knew \in SUBSET Work[d]
         /\ r.awaited \in BOOLEAN /\ r.at \in {"sent", "listing", "answered", "failed"}
         /\ r.missing \in SUBSET Work[d]
         /\ r.echo \in SUBSET (Lanes[d] \union Peers[d] \union {Self})
         /\ r \in Mesh(d)!Requests
BY DEF Mesh!TypeOK, Mesh!Requests, Mesh!Callers, Mesh!Stages

\* Nobody has asked anything.
LEMMA MeshFirst ==
  ASSUME NEW d \in Meshes, Mesh(d)!Init
  PROVE  MeshInv(d)
<1>1. Mesh(d)!TypeOK
  BY MeshBounds DEF Mesh!Init, Mesh!TypeOK, Mesh!NoReport
<1>2. OneCallEach(d) /\ CardsKept /\ Unlisted(d) /\ Reported
  BY DEF Mesh!Init, Mesh!NoReport, OneCallEach, CardsKept, Unlisted, Reported
<1>3. Mesh(d)!CallerIsEchoed /\ Mesh(d)!NoTokenNoCard
  BY MeshBounds DEF Mesh!Init, Mesh!NoReport, Mesh!CallerIsEchoed, Mesh!NoTokenNoCard
<1> QED BY <1>1, <1>2, <1>3 DEF MeshInv

\* The control plane takes a request one stage further.
LEMMA StageMoves ==
  ASSUME NEW d \in Meshes, MeshInv(d), NEW r \in wire, NEW s \in Mesh(d)!Requests,
         s.from = r.from, s.awaited = r.awaited,
         wire' = (wire \ {r}) \union {s},
         cards \subseteq cards', cards' \subseteq cards \union {r.from},
         s.at \in {"listing", "answered"} => r.from \in cards',
         s.at = "answered" => {Self, r.from} \subseteq s.echo,
         ~Bearer[d] /\ r.from \in Lanes[d] =>
           s.at \in {"sent", "failed"} /\ cards' = cards,
         UNCHANGED <<work, known, report, restarts>>
  PROVE  MeshInv(d)'
<1>1. Mesh(d)!TypeOK /\ OneCallEach(d) /\ CardsKept /\ Unlisted(d) /\ Reported
      /\ Mesh(d)!CallerIsEchoed /\ Mesh(d)!NoTokenNoCard
  BY DEF MeshInv
<1>2. r.from \in Lanes[d] \union Peers[d]
  BY <1>1, RequestTyped
<1>3. Mesh(d)!TypeOK'
  <2>1. wire' \subseteq Mesh(d)!Requests
    BY <1>1 DEF Mesh!TypeOK
  <2>2. \A a \in report.pending : \E q \in wire' : q.from = a /\ q.awaited
    <3> TAKE a \in report.pending
    <3>1. PICK q \in wire : q.from = a /\ q.awaited
      BY <1>1 DEF Mesh!TypeOK
    <3> QED BY <3>1
  <2> QED BY <1>1, <1>2, <2>1, <2>2 DEF Mesh!TypeOK, Mesh!Callers, Mesh!Requests, Mesh!Stages
<1>4. OneCallEach(d)'
  BY <1>1 DEF OneCallEach
<1>5. CardsKept' /\ Reported'
  BY <1>1 DEF CardsKept, Reported
<1>6. Unlisted(d)'
  BY <1>1 DEF Unlisted
<1>7. Mesh(d)!CallerIsEchoed'
  BY <1>1 DEF Mesh!CallerIsEchoed
<1>8. Mesh(d)!NoTokenNoCard'
  BY <1>1, <1>2, MeshBounds DEF Mesh!NoTokenNoCard
<1> QED BY <1>3, <1>4, <1>5, <1>6, <1>7, <1>8 DEF MeshInv

\* A request leaves the wire, or is awaited no longer: who waited for it has its
\* result, and no other call changes.
LEMMA CallSettles ==
  ASSUME NEW d \in Meshes, MeshInv(d), NEW r \in wire, NEW ok \in BOOLEAN,
         ok => r.at = "answered",
         \/ wire' = wire \ {r}
         \/ wire' = (wire \ {r}) \union {[r EXCEPT !.awaited = FALSE]},
         IF r.awaited THEN Mesh(d)!Settled(r.from, ok) ELSE UNCHANGED report,
         known' \in [Peers[d] -> SUBSET Work[d]],
         UNCHANGED <<cards, work, restarts>>
  PROVE  MeshInv(d)'
<1> DEFINE left == [r EXCEPT !.awaited = FALSE]
<1>1. Mesh(d)!TypeOK /\ OneCallEach(d) /\ CardsKept /\ Unlisted(d) /\ Reported
      /\ Mesh(d)!CallerIsEchoed /\ Mesh(d)!NoTokenNoCard
  BY DEF MeshInv
<1>2. /\ left \in Mesh(d)!Requests /\ left.from = r.from /\ left.at = r.at
      /\ left.echo = r.echo /\ ~left.awaited
  BY <1>1, RequestTyped DEF Mesh!Requests
<1>3. \A s \in wire' : \/ s \in wire /\ s # r
                       \/ s = left
  OBVIOUS
<1>4. \A s \in wire : s # r => s \in wire'
  OBVIOUS
<1> HIDE DEF left
<1>5. CASE r.from \in report.pending /\ r.awaited
  <2> DEFINE more == IF ok THEN report.ok \union {r.from} ELSE report.ok
  <2>1. /\ report' = [report EXCEPT !.pending = report.pending \ {r.from}, !.ok = more]
    BY <1>5 DEF Mesh!Settled
  <2>2. r.from \in Lanes[d] /\ report.status = "syncing"
    BY <1>1, <1>5 DEF Mesh!TypeOK, Reported
  <2>3. more \subseteq Lanes[d] /\ more \subseteq report.ok \union {r.from}
    BY <1>1, <2>2 DEF Mesh!TypeOK
  <2>4. more # report.ok => r.at = "answered"
    OBVIOUS
  <2> HIDE DEF more
  <2>5. /\ report'.pending = report.pending \ {r.from} /\ report'.ok = more
        /\ report'.op = report.op /\ report'.targets = report.targets
        /\ report'.status = "syncing" /\ report'.restarted = report.restarted
        /\ report' \in [op : {"none", "handshake", "lanes"}, targets : SUBSET Lanes[d],
                 pending : SUBSET Lanes[d], ok : SUBSET Lanes[d],
                 status : {"none", "syncing", "threw", "live-synced", "partial",
                           "unverified"}, restarted : BOOLEAN]
    BY <1>1, <2>1, <2>2, <2>3 DEF Mesh!TypeOK
  <2>6. Mesh(d)!TypeOK'
    <3>1. \A a \in report'.pending : \E s \in wire' : s.from = a /\ s.awaited
      <4> TAKE a \in report'.pending
      <4>1. PICK s \in wire : s.from = a /\ s.awaited
        BY <1>1, <2>5 DEF Mesh!TypeOK
      <4>2. s # r
        BY <2>5, <4>1
      <4> QED BY <1>4, <4>1, <4>2
    <3>2. wire' \subseteq Mesh(d)!Requests
      BY <1>1, <1>2, <1>3 DEF Mesh!TypeOK
    <3> QED BY <1>1, <2>5, <3>1, <3>2 DEF Mesh!TypeOK, Mesh!Callers, Mesh!Requests, Mesh!Stages
  <2>7. OneCallEach(d)'
    <3> SUFFICES ASSUME NEW s \in wire', s.from \in Lanes[d], s.awaited
                 PROVE  /\ s.from \in report'.pending
                        /\ \A q \in wire' : q.from = s.from /\ q.awaited => q = s
      BY DEF OneCallEach
    <3>1. s \in wire /\ s # r
      BY <1>2, <1>3
    <3>2. s.from # r.from
      BY <1>1, <1>5, <2>2, <3>1 DEF OneCallEach
    <3> QED BY <1>1, <1>2, <1>3, <2>5, <3>1, <3>2 DEF OneCallEach
  <2>8. CardsKept'
    BY <1>1, <1>2, <1>3, <2>3, <2>4, <2>5 DEF CardsKept
  <2>9. Unlisted(d)' /\ Reported'
    BY <1>1, <1>2, <1>3, <2>5 DEF Unlisted, Reported
  <2>10. Mesh(d)!CallerIsEchoed' /\ Mesh(d)!NoTokenNoCard'
    <3>1. ~Bearer[d] => more = report.ok
      BY <1>1, <2>2, <2>4 DEF Unlisted
    <3> QED BY <1>1, <1>2, <1>3, <2>5, <3>1 DEF Mesh!CallerIsEchoed, Mesh!NoTokenNoCard
  <2> QED BY <2>6, <2>7, <2>8, <2>9, <2>10 DEF MeshInv
<1>6. CASE ~(r.from \in report.pending /\ r.awaited)
  <2>1. report' = report
    BY <1>6 DEF Mesh!Settled
  <2>2. r.awaited => r.from \notin Lanes[d]
    BY <1>1, <1>6 DEF OneCallEach
  <2>3. Mesh(d)!TypeOK'
    <3>1. \A a \in report.pending : \E s \in wire' : s.from = a /\ s.awaited
      <4> TAKE a \in report.pending
      <4>1. PICK s \in wire : s.from = a /\ s.awaited
        BY <1>1 DEF Mesh!TypeOK
      <4>2. s # r
        BY <1>6, <4>1
      <4> QED BY <1>4, <4>1, <4>2
    <3>2. wire' \subseteq Mesh(d)!Requests
      BY <1>1, <1>2, <1>3 DEF Mesh!TypeOK
    <3> QED BY <1>1, <2>1, <3>1, <3>2 DEF Mesh!TypeOK, Mesh!Callers, Mesh!Requests, Mesh!Stages
  <2>4. OneCallEach(d)'
    BY <1>1, <1>2, <1>3, <2>1, <2>2 DEF OneCallEach
  <2>5. CardsKept' /\ Unlisted(d)' /\ Reported'
    BY <1>1, <1>2, <1>3, <2>1 DEF CardsKept, Unlisted, Reported
  <2>6. Mesh(d)!CallerIsEchoed' /\ Mesh(d)!NoTokenNoCard'
    BY <1>1, <1>2, <1>3, <2>1 DEF Mesh!CallerIsEchoed, Mesh!NoTokenNoCard
  <2> QED BY <2>3, <2>4, <2>5, <2>6 DEF MeshInv
<1> QED BY <1>5, <1>6

\* A new request is awaited and has only been sent.
LEMMA RequestIsNew ==
  ASSUME NEW d \in Meshes, Mesh(d)!TypeOK, NEW c \in Lanes[d] \union Peers[d]
  PROVE  /\ Mesh(d)!Request(c) \in Mesh(d)!Requests
         /\ Mesh(d)!Request(c).from = c /\ Mesh(d)!Request(c).awaited
         /\ Mesh(d)!Request(c).at = "sent"
BY DEF Mesh!Request, Mesh!Requests, Mesh!Callers, Mesh!Stages, Mesh!TypeOK

\* A request of a peer is on the wire and belongs to no handshake.
LEMMA PeerSyncStep ==
  ASSUME NEW d \in Meshes, MeshInv(d), NEW p \in Peers[d], Mesh(d)!PeerSync(p)
  PROVE  MeshInv(d)'
<1> DEFINE q == Mesh(d)!Request(p)
<1>1. Mesh(d)!TypeOK /\ OneCallEach(d) /\ CardsKept /\ Unlisted(d) /\ Reported
      /\ Mesh(d)!CallerIsEchoed /\ Mesh(d)!NoTokenNoCard
  BY DEF MeshInv
<1>2. q \in Mesh(d)!Requests /\ q.from = p /\ q.at = "sent" /\ p \notin Lanes[d]
  BY <1>1, RequestIsNew, MeshBounds
<1>3. wire' = wire \union {q} /\ UNCHANGED <<cards, work, known, report, restarts>>
  BY DEF Mesh!PeerSync
<1> HIDE DEF q
<1>4. Mesh(d)!TypeOK'
  BY <1>1, <1>2, <1>3 DEF Mesh!TypeOK, Mesh!Callers, Mesh!Requests, Mesh!Stages
<1>5. OneCallEach(d)' /\ CardsKept' /\ Unlisted(d)' /\ Reported'
  BY <1>1, <1>2, <1>3 DEF OneCallEach, CardsKept, Unlisted, Reported
<1>6. Mesh(d)!CallerIsEchoed' /\ Mesh(d)!NoTokenNoCard'
  BY <1>1, <1>2, <1>3 DEF Mesh!CallerIsEchoed, Mesh!NoTokenNoCard
<1> QED BY <1>4, <1>5, <1>6 DEF MeshInv

\* A handshake begins only when the one before has all its results.
LEMMA HandshakeStep ==
  ASSUME NEW d \in Meshes, MeshInv(d), NEW T \in SUBSET Lanes[d], Mesh(d)!Handshake(T)
  PROVE  MeshInv(d)'
<1>1. Mesh(d)!TypeOK /\ OneCallEach(d) /\ CardsKept /\ Unlisted(d) /\ Reported
      /\ Mesh(d)!CallerIsEchoed /\ Mesh(d)!NoTokenNoCard
  BY DEF MeshInv
<1>2. report.pending = {}
  BY <1>1 DEF Mesh!Handshake, Mesh!CanStart, Reported
<1>3. /\ report' = [op |-> "handshake", targets |-> T, pending |-> T, ok |-> {},
                    status |-> "syncing", restarted |-> FALSE]
      /\ wire' = wire \union {Mesh(d)!Request(a) : a \in T}
      /\ UNCHANGED <<cards, work, known, restarts>>
  BY DEF Mesh!Handshake
<1>4. \A s \in wire' : s \in wire \/ \E a \in T : s = Mesh(d)!Request(a)
  BY <1>3
<1>5. \A a \in T : Mesh(d)!Request(a) \in wire'
  BY <1>3
<1>6. \A a \in T : /\ Mesh(d)!Request(a) \in Mesh(d)!Requests
                   /\ Mesh(d)!Request(a).from = a /\ Mesh(d)!Request(a).awaited
                   /\ Mesh(d)!Request(a).at = "sent"
  BY <1>1, RequestIsNew
<1>7. Mesh(d)!TypeOK'
  <2>1. wire' \subseteq Mesh(d)!Requests
    BY <1>1, <1>4, <1>6 DEF Mesh!TypeOK
  <2>2. \A a \in report'.pending : \E s \in wire' : s.from = a /\ s.awaited
    BY <1>3, <1>5, <1>6
  <2> QED BY <1>1, <1>3, <2>1, <2>2 DEF Mesh!TypeOK, Mesh!Callers, Mesh!Requests, Mesh!Stages
<1>8. OneCallEach(d)'
  <2> SUFFICES ASSUME NEW s \in wire', s.from \in Lanes[d], s.awaited
               PROVE  /\ s.from \in report'.pending
                      /\ \A q \in wire' : q.from = s.from /\ q.awaited => q = s
    BY DEF OneCallEach
  <2>1. \A q \in wire' : q.from \in Lanes[d] /\ q.awaited
                           => q.from \in T /\ q = Mesh(d)!Request(q.from)
    BY <1>1, <1>2, <1>4, <1>6 DEF OneCallEach
  <2> QED BY <1>3, <2>1
<1>9. CardsKept' /\ Unlisted(d)' /\ Reported'
  BY <1>1, <1>3, <1>4, <1>6 DEF CardsKept, Unlisted, Reported
<1>10. Mesh(d)!CallerIsEchoed' /\ Mesh(d)!NoTokenNoCard'
  BY <1>1, <1>3, <1>4, <1>6 DEF Mesh!CallerIsEchoed, Mesh!NoTokenNoCard
<1> QED BY <1>7, <1>8, <1>9, <1>10 DEF MeshInv

\* A request that names lanes is lost to its own error.
LEMMA SyncLanesStep ==
  ASSUME NEW d \in Meshes, MeshInv(d), NEW T \in SUBSET Lanes[d], Mesh(d)!SyncLanes(T)
  PROVE  MeshInv(d)'
<1>1. Mesh(d)!TypeOK /\ OneCallEach(d) /\ CardsKept /\ Unlisted(d) /\ Reported
      /\ Mesh(d)!CallerIsEchoed /\ Mesh(d)!NoTokenNoCard
  BY DEF MeshInv
<1>2. report.pending = {}
  BY <1>1 DEF Mesh!SyncLanes, Mesh!CanStart, Reported
<1>3. /\ report' = [op |-> "lanes", targets |-> T, pending |-> {}, ok |-> {},
                    status |-> "threw", restarted |-> FALSE]
      /\ UNCHANGED <<cards, work, wire, known, restarts>>
  BY DEF Mesh!SyncLanes
<1>4. Mesh(d)!TypeOK'
  BY <1>1, <1>3 DEF Mesh!TypeOK, Mesh!Callers, Mesh!Requests, Mesh!Stages
<1>5. OneCallEach(d)' /\ CardsKept' /\ Unlisted(d)' /\ Reported'
  BY <1>1, <1>2, <1>3 DEF OneCallEach, CardsKept, Unlisted, Reported
<1>6. Mesh(d)!CallerIsEchoed' /\ Mesh(d)!NoTokenNoCard'
  BY <1>1, <1>3 DEF Mesh!CallerIsEchoed, Mesh!NoTokenNoCard
<1> QED BY <1>4, <1>5, <1>6 DEF MeshInv

\* An answer, an abandoned call and a broken connection settle one call.
LEMMA CallEnds ==
  ASSUME NEW d \in Meshes, MeshInv(d), NEW r \in wire,
         Mesh(d)!Answer(r) \/ Mesh(d)!Timeout(r) \/ Mesh(d)!Break(r)
  PROVE  MeshInv(d)'
<1>1. Mesh(d)!TypeOK
  BY DEF MeshInv
<1>2. CASE Mesh(d)!Answer(r)
  <2> DEFINE ok == r.at = "answered"
  <2>1. known' \in [Peers[d] -> SUBSET Work[d]]
    BY <1>1, <1>2, RequestTyped DEF Mesh!Answer, Mesh!Merged, Mesh!TypeOK
  <2>2. IF r.awaited THEN Mesh(d)!Settled(r.from, ok) ELSE UNCHANGED report
    BY <1>2 DEF Mesh!Answer, Mesh!Succeeded
  <2>3. wire' = wire \ {r} /\ UNCHANGED <<cards, work, restarts>>
    BY <1>2 DEF Mesh!Answer
  <2>4. ok \in BOOLEAN
    OBVIOUS
  <2> QED BY <2>1, <2>2, <2>3, <2>4, CallSettles
<1>3. CASE Mesh(d)!Timeout(r)
  <2>1. /\ r.awaited /\ Mesh(d)!Settled(r.from, FALSE)
        /\ wire' = (wire \ {r}) \union {[r EXCEPT !.awaited = FALSE]}
        /\ UNCHANGED <<cards, work, known, restarts>>
    BY <1>3 DEF Mesh!Timeout
  <2>2. known' \in [Peers[d] -> SUBSET Work[d]]
    BY <1>1, <2>1 DEF Mesh!TypeOK
  <2> QED BY <2>1, <2>2, CallSettles
<1>4. CASE Mesh(d)!Break(r)
  <2>1. /\ IF r.awaited THEN Mesh(d)!Settled(r.from, FALSE) ELSE UNCHANGED report
        /\ wire' = wire \ {r} /\ UNCHANGED <<cards, work, known, restarts>>
    BY <1>4 DEF Mesh!Break
  <2>2. known' \in [Peers[d] -> SUBSET Work[d]]
    BY <1>1, <2>1 DEF Mesh!TypeOK
  <2> QED BY <2>1, <2>2, CallSettles
<1> QED BY <1>2, <1>3, <1>4

\* The control plane receives, refuses or answers a request.
LEMMA PlaneStep ==
  ASSUME NEW d \in Meshes, MeshInv(d), NEW r \in wire, Mesh(d)!Plane(r)
  PROVE  MeshInv(d)'
<1>1. Mesh(d)!TypeOK /\ CardsKept /\ Unlisted(d)
  BY DEF MeshInv
<1>2. /\ r \in Mesh(d)!Requests /\ r.from \in Lanes[d] \union Peers[d]
      /\ r.at \in {"sent", "listing", "answered", "failed"}
  BY <1>1, RequestTyped
<1>3. CASE Mesh(d)!Receive(r)
  <2> DEFINE s == [r EXCEPT !.at = "listing"]
  <2>1. s \in Mesh(d)!Requests /\ s.from = r.from /\ s.awaited = r.awaited /\ s.at = "listing"
    BY <1>2 DEF Mesh!Requests, Mesh!Stages
  <2>2. /\ wire' = (wire \ {r}) \union {s} /\ cards' = cards \union {r.from}
        /\ r.from \in Peers[d] \/ Bearer[d]
        /\ UNCHANGED <<work, known, report, restarts>>
    BY <1>3 DEF Mesh!Receive, Mesh!Advance
  <2> HIDE DEF s
  <2> QED BY <2>1, <2>2, MeshBounds, StageMoves
<1>4. CASE Mesh(d)!Refuse(r) \/ Mesh(d)!ListFails(r)
  <2> DEFINE s == [r EXCEPT !.at = "failed"]
  <2>1. s \in Mesh(d)!Requests /\ s.from = r.from /\ s.awaited = r.awaited /\ s.at = "failed"
    BY <1>2 DEF Mesh!Requests, Mesh!Stages
  <2>2. wire' = (wire \ {r}) \union {s} /\ UNCHANGED <<cards, work, known, report, restarts>>
    BY <1>4 DEF Mesh!Refuse, Mesh!ListFails, Mesh!Advance
  <2> HIDE DEF s
  <2> QED BY <2>1, <2>2, StageMoves
<1>5. CASE Mesh(d)!List(r)
  <2> DEFINE s == [r EXCEPT !.at = "answered", !.missing = Mesh(d)!diff_work(r.knew),
                            !.echo = cards]
  <2>1. /\ s \in Mesh(d)!Requests /\ s.from = r.from /\ s.awaited = r.awaited
        /\ s.at = "answered" /\ s.echo = cards
    BY <1>1, <1>2 DEF Mesh!Requests, Mesh!Stages, Mesh!TypeOK, Mesh!diff_work, Mesh!Callers
  <2>2. /\ wire' = (wire \ {r}) \union {s} /\ UNCHANGED <<cards, work, known, report, restarts>>
        /\ r.at = "listing"
    BY <1>5 DEF Mesh!List, Mesh!Advance
  <2>3. {Self, r.from} \subseteq cards
    BY <1>1, <2>2 DEF Mesh!TypeOK, CardsKept
  <2>4. ~Bearer[d] => r.from \notin Lanes[d]
    BY <1>1, <2>2 DEF Unlisted
  <2> HIDE DEF s
  <2> QED BY <2>1, <2>2, <2>3, <2>4, StageMoves
<1> QED BY <1>3, <1>4, <1>5 DEF Mesh!Plane

\* The handshake says what its results say.
LEMMA ReportStep ==
  ASSUME NEW d \in Meshes, MeshInv(d), Mesh(d)!Report
  PROVE  MeshInv(d)'
<1>1. Mesh(d)!TypeOK /\ OneCallEach(d) /\ CardsKept /\ Unlisted(d) /\ Reported
      /\ Mesh(d)!CallerIsEchoed /\ Mesh(d)!NoTokenNoCard
  BY DEF MeshInv
<1>2. PICK said \in {"live-synced", "partial", "unverified"} :
        /\ report' = [report EXCEPT !.status = said]
        /\ said = "live-synced" => report.targets \subseteq report.ok
  BY DEF Mesh!Report, Mesh!AllLiveSync
<1>3. /\ report'.op = report.op /\ report'.targets = report.targets
      /\ report'.pending = report.pending /\ report'.ok = report.ok
      /\ report'.restarted = report.restarted /\ report'.status = said
      /\ report' \in [op : {"none", "handshake", "lanes"}, targets : SUBSET Lanes[d],
                 pending : SUBSET Lanes[d], ok : SUBSET Lanes[d],
                 status : {"none", "syncing", "threw", "live-synced", "partial",
                           "unverified"}, restarted : BOOLEAN]
  BY <1>1, <1>2 DEF Mesh!TypeOK
<1>4. report.pending = {} /\ UNCHANGED <<cards, work, wire, known, restarts>>
  BY DEF Mesh!Report
<1>5. Mesh(d)!TypeOK'
  BY <1>1, <1>3, <1>4 DEF Mesh!TypeOK, Mesh!Callers, Mesh!Requests, Mesh!Stages
<1>6. OneCallEach(d)' /\ CardsKept' /\ Unlisted(d)' /\ Reported'
  BY <1>1, <1>2, <1>3, <1>4 DEF OneCallEach, CardsKept, Unlisted, Reported
<1>7. Mesh(d)!CallerIsEchoed' /\ Mesh(d)!NoTokenNoCard'
  BY <1>1, <1>3, <1>4 DEF Mesh!CallerIsEchoed, Mesh!NoTokenNoCard
<1> QED BY <1>5, <1>6, <1>7 DEF MeshInv

\* The cards are lost, and with them what a report said of them.
LEMMA MeshRestartStep ==
  ASSUME NEW d \in Meshes, MeshInv(d), Mesh(d)!Restart
  PROVE  MeshInv(d)'
<1>1. Mesh(d)!TypeOK /\ Reported /\ Mesh(d)!NoTokenNoCard
  BY DEF MeshInv
<1>2. /\ report' = [report EXCEPT !.pending = {}, !.restarted = report.status # "none"]
      /\ cards' = {Self} /\ wire' = {} /\ UNCHANGED <<work, known>>
      /\ restarts < MaxRestarts[d] /\ restarts' = restarts + 1
  BY DEF Mesh!Restart
<1>3. /\ report'.op = report.op /\ report'.targets = report.targets
      /\ report'.pending = {} /\ report'.ok = report.ok /\ report'.status = report.status
      /\ report'.restarted = (report.status # "none")
      /\ report' \in [op : {"none", "handshake", "lanes"}, targets : SUBSET Lanes[d],
                 pending : SUBSET Lanes[d], ok : SUBSET Lanes[d],
                 status : {"none", "syncing", "threw", "live-synced", "partial",
                           "unverified"}, restarted : BOOLEAN]
  BY <1>1, <1>2 DEF Mesh!TypeOK
<1>4. Mesh(d)!TypeOK'
  BY <1>1, <1>2, <1>3, MeshBounds DEF Mesh!TypeOK, Mesh!Callers
<1>5. OneCallEach(d)' /\ CardsKept' /\ Unlisted(d)' /\ Reported'
  BY <1>1, <1>2, <1>3 DEF OneCallEach, CardsKept, Unlisted, Reported
<1>6. Mesh(d)!CallerIsEchoed' /\ Mesh(d)!NoTokenNoCard'
  BY <1>1, <1>2, <1>3, MeshBounds DEF Mesh!CallerIsEchoed, Mesh!NoTokenNoCard
<1> QED BY <1>4, <1>5, <1>6 DEF MeshInv

\* Every step of a mesh keeps the invariant.
LEMMA MeshKept ==
  ASSUME NEW d \in Meshes, MeshInv(d), Mesh(d)!Next \/ UNCHANGED meshVars
  PROVE  MeshInv(d)'
<1>1. CASE UNCHANGED meshVars
  BY <1>1 DEF meshVars, MeshInv, OneCallEach, CardsKept, Unlisted, Reported,
     Mesh!TypeOK, Mesh!Callers, Mesh!Requests, Mesh!Stages, Mesh!CallerIsEchoed,
     Mesh!NoTokenNoCard
<1>2. CASE \E w \in Work[d] : Mesh(d)!AddPending(w)
  BY <1>2 DEF Mesh!AddPending, MeshInv, OneCallEach, CardsKept, Unlisted, Reported,
     Mesh!TypeOK, Mesh!Callers, Mesh!Requests, Mesh!Stages, Mesh!CallerIsEchoed,
     Mesh!NoTokenNoCard
<1> QED BY <1>1, <1>2, PeerSyncStep, HandshakeStep, SyncLanesStep, CallEnds, PlaneStep,
           ReportStep, MeshRestartStep DEF Mesh!Next

\* The invariant gives what the mesh promises.
LEMMA MeshTells ==
  ASSUME NEW d \in Meshes, MeshInv(d)
  PROVE  /\ Mesh(d)!TypeOK /\ Mesh(d)!ReportedIsRegistered /\ Mesh(d)!CallerIsEchoed
         /\ Mesh(d)!NoTokenNoCard
BY DEF MeshInv, CardsKept, Reported, Mesh!ReportedIsRegistered

-----------------------------------------------------------------------------
(***************************************************************************)
(* The router                                                              *)
(***************************************************************************)
RouterInv ==
  /\ Router!TypeOK /\ Router!RouteServes
  /\ ~Repeats => Router!MostSpecializedWins

-----------------------------------------------------------------------------
\* Naturals have a smallest.
LEMMA SmallestExists ==
  ASSUME NEW S, S \subseteq Nat, S # {}
  PROVE  \E n \in S : \A m \in S : n <= m
<1> DEFINE R == {p \in Nat \X Nat : p[1] < p[2]}
<1>1. IsWellFoundedOn(R, Nat)
  BY NatLessThanWellFounded DEF OpToRel
<1>2. PICK n \in S : \A m \in S : ~ (<<m, n>> \in R)
  BY <1>1, WFMin
<1>3. ASSUME NEW m \in S
      PROVE  n <= m
  <2>1. m \in Nat /\ n \in Nat /\ ~ (<<m, n>> \in R)
    BY <1>2
  <2>2. ~ (m < n)
    BY <2>1
  <2> QED BY <2>1, <2>2
<1> QED BY <1>2, <1>3

\* The remainder of a number below the modulus is that number.
LEMMA SmallRemainder ==
  ASSUME NEW n \in Nat, NEW x \in 0..n, x < n
  PROVE  x % n = x
OBVIOUS

\* A remainder is a natural, whatever is divided.
LEMMA Remainder ==
  ASSUME NEW n \in Nat \ {0}, NEW x \in Int
  PROVE  x % n \in Nat
OBVIOUS

\* What the setting of the router is assumed to be.
LEMMA RouteBounds ==
  /\ Home \in Ids /\ Ids \subseteq Nat /\ \A i \in Ids : i \in Nat
  /\ Priorities \subseteq Int /\ \E top \in Priorities : \A p \in Priorities : p <= top
  /\ IsFiniteSet(Caps) /\ Cardinality(Caps) \in Nat /\ MaxRequired \in Nat
  /\ 2^Width \in Nat /\ Cardinality(Caps) < 2^Width /\ MaxRequired < 2^Width
  /\ Repeats \in BOOLEAN
<1>1. Router!RouteAssumption
  BY AgentServicesAssumption
<1>2. IsFiniteSet(Caps)
  BY <1>1 DEF Router!RouteAssumption, Router!IsFiniteSet, IsFiniteSet
<1>3. Cardinality(Caps) \in Nat
  BY <1>2, FS_CardinalityType
<1> QED BY <1>1, <1>2, <1>3 DEF Router!RouteAssumption, Router!Cardinality, Cardinality

\* A card that is known.
LEMMA CardTyped ==
  ASSUME Router!TypeOK, NEW i \in Ids, table[i].known
  PROVE  /\ table[i].caps \in SUBSET Caps /\ table[i].priority \in Priorities
         /\ IsFiniteSet(table[i].caps) /\ Cardinality(table[i].caps) \in Nat
         /\ Cardinality(table[i].caps) <= Cardinality(Caps)
<1>1. table[i] \in Router!Cards
  BY DEF Router!TypeOK, Router!NoCard
<1>2. table[i].caps \in SUBSET Caps /\ table[i].priority \in Priorities
  BY <1>1 DEF Router!Cards
<1> QED BY <1>2, RouteBounds, FS_Subset, FS_CardinalityType

\* A request of n capabilities.
LEMMA RequestLength ==
  ASSUME NEW n \in Nat, NEW required \in [1..n -> Caps]
  PROVE  required \in Seq(Caps) /\ Len(required) = n /\ DOMAIN required = 1..n
OBVIOUS

\* The surplus is a natural, wrapped or not.
LEMMA SurplusTyped ==
  ASSUME Router!TypeOK, NEW i \in Ids, table[i].known,
         NEW n \in Nat, NEW required \in [1..n -> Caps]
  PROVE  Router!surplus(table[i], required) \in Nat
<1>1. Cardinality(table[i].caps) - Len(required) \in Int
  BY CardTyped, RequestLength
<1>2. 2^Width \in Nat \ {0}
  BY RouteBounds
<1> QED BY <1>1, <1>2, Remainder DEF Router!surplus, Router!Cardinality, Cardinality

\* Of the cards that serve a request one is better than all others: of those
\* with the fewest surplus capabilities and the highest priority the first.
LEMMA BestExists ==
  ASSUME Router!TypeOK, NEW n \in Nat, NEW required \in [1..n -> Caps],
         NEW able, able = {i \in Ids : Router!OffersAll(table[i], required)}, able # {}
  PROVE  \E i \in able : \A j \in able \ {i} : Router!Better(i, j, required)
<1> DEFINE extra(i) == Router!surplus(table[i], required)
<1>1. \A i \in able : i \in Ids /\ table[i].known
  BY DEF Router!OffersAll
<1>2. \A i \in able : extra(i) \in Nat /\ table[i].priority \in Priorities /\ i \in Nat
  BY <1>1, SurplusTyped, CardTyped, RouteBounds
<1> HIDE DEF extra
<1>3. PICK fewest \in able : \A j \in able : extra(fewest) <= extra(j)
  <2> DEFINE S == {extra(i) : i \in able}
  <2>1. S \subseteq Nat /\ S # {}
    BY <1>2
  <2>2. PICK x \in S : \A y \in S : x <= y
    BY <2>1, SmallestExists
  <2> QED BY <2>2
<1> DEFINE special == {i \in able : extra(i) = extra(fewest)}
<1>4. special # {} /\ special \subseteq able
  OBVIOUS
<1>5. PICK top \in Priorities : \A p \in Priorities : p <= top
  BY RouteBounds
<1> DEFINE below(i) == top - table[i].priority
<1>6. \A i \in able : below(i) \in Nat /\ table[i].priority \in Int
  <2> TAKE i \in able
  <2>1. table[i].priority \in Int /\ top \in Int /\ table[i].priority <= top
    BY <1>2, <1>5, RouteBounds
  <2> QED BY <2>1
<1>7. PICK first \in special : \A j \in special : below(first) <= below(j)
  <2> HIDE DEF below, special
  <2> DEFINE S == {below(i) : i \in special}
  <2>1. S \subseteq Nat /\ S # {}
    BY <1>4, <1>6
  <2>2. PICK x \in S : \A y \in S : x <= y
    BY <2>1, SmallestExists
  <2> QED BY <2>2
<1> DEFINE urgent == {i \in special : table[i].priority = table[first].priority}
<1>8. PICK best \in urgent : \A j \in urgent : best <= j
  <2>1. urgent \subseteq Nat /\ urgent # {}
    BY <1>2
  <2> HIDE DEF urgent
  <2> QED BY <2>1, SmallestExists
<1>9. ASSUME NEW j \in able \ {best}
      PROVE  \/ extra(best) < extra(j)
             \/ extra(best) = extra(j) /\ table[best].priority > table[j].priority
             \/ extra(best) = extra(j) /\ table[best].priority = table[j].priority /\ best < j
  <2>1. /\ best \in able /\ extra(best) = extra(fewest)
        /\ table[best].priority = table[first].priority
    BY <1>8
  <2>2. /\ extra(best) \in Nat /\ extra(j) \in Nat /\ best \in Nat /\ j \in Nat
        /\ table[best].priority \in Int /\ table[j].priority \in Int /\ top \in Int
    BY <1>2, <1>5, <1>6, <2>1, RouteBounds
  <2>3. CASE extra(j) # extra(best)
    BY <1>3, <2>1, <2>2, <2>3
  <2>4. CASE extra(j) = extra(best)
    <3>1. j \in special
      BY <2>1, <2>4
    <3>2. table[j].priority <= table[best].priority
      BY <1>7, <2>1, <2>2, <3>1
    <3>3. CASE table[j].priority = table[best].priority
      BY <1>8, <2>1, <2>2, <2>4, <3>1, <3>3
    <3> QED BY <2>2, <2>4, <3>2, <3>3
  <2> QED BY <2>3, <2>4
<1>10. best \in able
  BY <1>8
<1> QED BY <1>9, <1>10 DEF Router!Better, extra

\* The surplus counts what a card offers beyond the request.
LEMMA SurplusCounts ==
  ASSUME Router!TypeOK, NEW n \in Nat, NEW required \in [1..n -> Caps],
         Router!IsInjective(required),
         NEW i \in Ids, Router!OffersAll(table[i], required)
  PROVE  Router!surplus(table[i], required)
           = Cardinality(table[i].caps \ Router!ToSet(required))
<1> DEFINE R == Router!ToSet(required)
           C == table[i].caps
<1>1. /\ R = {required[k] : k \in 1..n} /\ R \subseteq C /\ table[i].known
  BY DEF Router!ToSet, Router!OffersAll
<1>2. Cardinality(R) = n
  <2>1. required \in Bijection(1..n, R)
    BY <1>1 DEF Bijection, Injection, Surjection, Router!IsInjective, IsInjective
  <2> QED BY <2>1, FS_CountingElements DEF ExistsBijection
<1>3. /\ IsFiniteSet(C) /\ Cardinality(C) \in Nat /\ Cardinality(C) <= Cardinality(Caps)
  BY <1>1, CardTyped
<1> HIDE DEF R
<1>4. /\ Cardinality(C \ R) = Cardinality(C) - n
      /\ Cardinality(C \ R) \in Nat
  <2>1. C \intersect R = R
    BY <1>1
  <2>2. Cardinality(C \ R) = Cardinality(C) - Cardinality(C \intersect R)
    BY <1>3, FS_Difference
  <2>3. IsFiniteSet(C \ R)
    BY <1>3, FS_Difference
  <2> QED BY <1>2, <2>1, <2>2, <2>3, FS_CardinalityType
<1>5. Cardinality(C) - n \in 0..(2^Width) /\ Cardinality(C) - n < 2^Width
  BY <1>3, <1>4, RouteBounds
<1>6. (Cardinality(C) - n) % 2^Width = Cardinality(C) - n
  BY <1>5, RouteBounds, SmallRemainder
<1> QED BY <1>4, <1>6, RequestLength DEF Router!surplus, Router!Cardinality, Cardinality, R

\* route answers the best card that serves the request, if any does.
LEMMA RouteAnswers ==
  ASSUME Router!TypeOK, NEW n \in Nat, NEW required \in [1..n -> Caps],
         NEW able, able = {i \in Ids : Router!OffersAll(table[i], required)}
  PROVE  /\ able = {} => Router!route(required) = -1
         /\ able # {} => /\ Router!route(required) \in able
                         /\ \A j \in able \ {Router!route(required)} :
                              Router!Better(Router!route(required), j, required)
<1>1. CASE able = {}
  BY <1>1 DEF Router!route, Router!NotFound
<1>2. CASE able # {}
  <2>1. Router!route(required)
          = CHOOSE i \in able : \A j \in able \ {i} : Router!Better(i, j, required)
    BY <1>2 DEF Router!route
  <2> QED BY <1>2, <2>1, BestExists
<1> QED BY <1>1, <1>2

-----------------------------------------------------------------------------
\* Nothing has been asked.
LEMMA RouterFirst ==
  ASSUME Router!Init
  PROVE  RouterInv
<1>1. asked = [required |-> <<>>, answer |-> -1, done |-> FALSE]
  BY DEF Router!Init, Router!NotAsked
<1>2. table \in [Ids -> Router!Cards \union {Router!NoCard}] /\ table[Home].known
  BY RouteBounds DEF Router!Init, Router!Cards
<1>3. \E n \in 0..MaxRequired : asked.required \in [1..n -> Caps]
  <2>1. asked.required \in [1..0 -> Caps] /\ 0 \in 0..MaxRequired
    BY <1>1, RouteBounds
  <2> QED BY <2>1
<1>4. Router!TypeOK
  BY <1>1, <1>2, <1>3 DEF Router!TypeOK, Router!NotFound
<1>5. Router!RouteServes /\ Router!MostSpecializedWins
  BY <1>1 DEF Router!RouteServes, Router!MostSpecializedWins
<1> QED BY <1>4, <1>5 DEF RouterInv

\* A card is registered, the answer is taken or the node restarts: nothing is
\* asked.
LEMMA NothingAsked ==
  ASSUME asked' = Router!NotAsked, table' \in [Ids -> Router!Cards \union {Router!NoCard}],
         table'[Home].known
  PROVE  RouterInv'
<1>1. asked' = [required |-> <<>>, answer |-> -1, done |-> FALSE]
  BY DEF Router!NotAsked
<1>2. \E n \in 0..MaxRequired : asked'.required \in [1..n -> Caps]
  <2>1. asked'.required \in [1..0 -> Caps] /\ 0 \in 0..MaxRequired
    BY <1>1, RouteBounds
  <2> QED BY <2>1
<1>3. Router!TypeOK'
  <2>1. asked'.answer \in Ids \union {-1} /\ asked'.done \in BOOLEAN
    BY <1>1
  <2> QED BY <1>2, <2>1 DEF Router!TypeOK, Router!NotFound
<1>4. Router!RouteServes' /\ Router!MostSpecializedWins'
  BY <1>1 DEF Router!RouteServes, Router!MostSpecializedWins
<1> QED BY <1>3, <1>4 DEF RouterInv

\* An answer is the best there is at that time.
LEMMA RouteStep ==
  ASSUME RouterInv, Router!Route
  PROVE  RouterInv'
<1>1. Router!TypeOK
  BY DEF RouterInv
<1>2. PICK required \in Router!Requests :
        asked' = [required |-> required, answer |-> Router!route(required), done |-> TRUE]
  BY DEF Router!Route
<1>3. PICK n \in 0..MaxRequired : required \in [1..n -> Caps]
  BY DEF Router!Requests, Router!SeqOf
<1>4. ~Repeats => Router!IsInjective(required)
  BY RouteBounds DEF Router!Requests
<1> DEFINE able == {i \in Ids : Router!OffersAll(table[i], required)}
           best == Router!route(required)
<1>5. n \in Nat
  BY <1>3, RouteBounds
<1>6. /\ able = {} => best = -1
      /\ able # {} => best \in able /\ \A j \in able \ {best} : Router!Better(best, j, required)
  BY <1>1, <1>3, <1>5, RouteAnswers
<1> HIDE DEF best
<1>7. /\ asked'.required = required /\ asked'.answer = best /\ asked'.done = TRUE
      /\ table' = table
  BY <1>2 DEF Router!Route, best
<1>8. Router!TypeOK'
  <2>1. best \in Ids \union {-1}
    BY <1>6
  <2>2. \E m \in 0..MaxRequired : asked'.required \in [1..m -> Caps]
    BY <1>3, <1>7
  <2>3. table' \in [Ids -> Router!Cards \union {Router!NoCard}] /\ table'[Home].known
    BY <1>1, <1>7 DEF Router!TypeOK
  <2> QED BY <1>7, <2>1, <2>2, <2>3 DEF Router!TypeOK, Router!NotFound
<1>9. able = {i \in Ids : table'[i].known
                 /\ \A k \in DOMAIN asked'.required : asked'.required[k] \in table'[i].caps}
  BY <1>7 DEF Router!OffersAll, Router!ToSet
<1>10. Router!RouteServes'
  BY <1>6, <1>7, <1>9 DEF Router!RouteServes, Router!NotFound
<1>11. ASSUME ~Repeats PROVE Router!MostSpecializedWins'
  <2> DEFINE count(i) == Cardinality(table[i].caps \ Router!ToSet(required))
  <2>1. \A i \in able : /\ Router!surplus(table[i], required) = count(i)
                        /\ count(i) \in Nat /\ table[i].priority \in Int
    <3> TAKE i \in able
    <3>1. /\ Router!surplus(table[i], required) = count(i)
      BY <1>1, <1>3, <1>4, <1>5, <1>11, SurplusCounts
    <3>2. Router!surplus(table[i], required) \in Nat /\ table[i].priority \in Int
      BY <1>1, <1>3, <1>5, SurplusTyped, CardTyped, RouteBounds DEF Router!OffersAll
    <3> QED BY <3>1, <3>2
  <2> HIDE DEF count
  <2>2. ASSUME best # -1, NEW i \in able
        PROVE  \/ count(best) < count(i)
               \/ count(best) = count(i) /\ table[best].priority >= table[i].priority
    <3>1. best \in able
      BY <1>6, <2>2
    <3>2. CASE i = best
      BY <2>1, <3>1, <3>2
    <3>3. CASE i # best
      BY <1>6, <2>1, <3>1, <3>3 DEF Router!Better
    <3> QED BY <3>2, <3>3
  <2>3. \A i \in Ids : table[i].known /\ Router!ToSet(required) \subseteq table[i].caps
                         => i \in able
    BY DEF Router!OffersAll
  <2>4. asked'.answer # Router!NotFound => best # -1
    BY <1>7 DEF Router!NotFound
  <2>5. ASSUME best # -1, NEW i \in Ids, table[i].known,
               Router!ToSet(required) \subseteq table[i].caps
        PROVE  \/ count(best) < count(i)
               \/ count(best) = count(i) /\ table[best].priority >= table[i].priority
    BY <2>2, <2>3, <2>5
  <2> QED BY <1>7, <2>4, <2>5 DEF Router!MostSpecializedWins, count,
             Router!Cardinality, Cardinality
<1> QED BY <1>8, <1>10, <1>11 DEF RouterInv

\* Every step of the router keeps the invariant.
LEMMA RouterKept ==
  ASSUME RouterInv, Router!Next \/ UNCHANGED routeVars
  PROVE  RouterInv'
<1>1. Router!TypeOK
  BY DEF RouterInv
<1>2. CASE UNCHANGED routeVars
  <2>1. Router!TypeOK'
    BY <1>1, <1>2 DEF routeVars, Router!TypeOK
  <2>2. Router!RouteServes'
    BY <1>2 DEF routeVars, RouterInv, Router!RouteServes
  <2>3. Router!MostSpecializedWins' = Router!MostSpecializedWins
    BY <1>2 DEF routeVars, Router!MostSpecializedWins
  <2> QED BY <2>1, <2>2, <2>3 DEF RouterInv
<1>3. CASE Router!Answered
  <2>1. /\ table' \in [Ids -> Router!Cards \union {Router!NoCard}] /\ table'[Home].known
    BY <1>1, <1>3 DEF Router!Answered, Router!TypeOK
  <2> QED BY <1>3, <2>1, NothingAsked DEF Router!Answered
<1>4. CASE Router!Restart
  <2>1. /\ table' \in [Ids -> Router!Cards \union {Router!NoCard}] /\ table'[Home].known
    BY <1>4, RouteBounds DEF Router!Restart, Router!Cards
  <2> QED BY <1>4, <2>1, NothingAsked DEF Router!Restart
<1>5. ASSUME NEW i \in Ids \ {Home}, Router!Register(i) PROVE RouterInv'
  <2>1. /\ table' \in [Ids -> Router!Cards \union {Router!NoCard}] /\ table'[Home].known
    BY <1>1, <1>5, RouteBounds DEF Router!Register, Router!TypeOK
  <2> QED BY <1>5, <2>1, NothingAsked DEF Router!Register
<1> QED BY <1>2, <1>3, <1>4, <1>5, RouteStep DEF Router!Next

-----------------------------------------------------------------------------
(***************************************************************************)
(* The dispatcher                                                          *)
(***************************************************************************)
Deliveries == [agent : Roster, path : Seq(Roster)]
Answers == [agent : Roster, path : Seq(Roster), publish : BOOLEAN]

\* A path leads to its agent, and every step of it may be published.
WellRouted(d) ==
  /\ d.path # <<>> /\ d.path[Len(d.path)] = d.agent
  /\ \A i \in 1..Len(d.path) - 1 : Bus!MayPublish(d.path[i], Bus!LayerOf(d.path[i + 1]))

BusTyped ==
  /\ registered \subseteq Roster /\ start \in Roster /\ result \in {"running", "ok", "err"}
  /\ queue \in Seq(Deliveries) /\ outputs \in Seq(Answers)
  /\ \A m \in 1..Len(queue) : WellRouted(queue[m])
  /\ \A i \in 1..Len(outputs) : WellRouted(outputs[i]) /\ outputs[i].agent \in registered

Handled == {outputs[i].path : i \in 1..Len(outputs)}
Waiting == {queue[m].path : m \in 1..Len(queue)}
Due(o) == IF o.publish THEN Bus!Followers(o.agent) ELSE {}

\* No delivery is made twice; what an event passed through before was handled; and
\* what follows from a handled one was handled or waits.
Once ==
  /\ \A i, j \in 1..Len(outputs) : outputs[i].path = outputs[j].path => i = j
  /\ \A m, k \in 1..Len(queue) : queue[m].path = queue[k].path => m = k
  /\ Handled \intersect Waiting = {}
Descended ==
  \A p \in Handled \union Waiting, x \in Seq(Roster) :
    x # <<>> /\ Bus!IsPrefix(x, p) => x = p \/ x \in Handled
Followed ==
  \A i \in 1..Len(outputs) : \A b \in registered :
    Append(outputs[i].path, b) \in Handled \union Waiting <=> b \in Due(outputs[i])

\* What waits belongs to the latest handled deliveries: those it does not follow
\* from are done with all their consequences.
Nested ==
  \A i \in 1..Len(outputs), m \in 1..Len(queue) :
    Bus!IsPrefix(outputs[i].path, queue[m].path) =>
      /\ \A j \in i..Len(outputs) : Bus!IsPrefix(outputs[i].path, outputs[j].path)
      /\ \A k \in m..Len(queue) : Bus!IsPrefix(outputs[i].path, queue[k].path)

BusInv ==
  /\ BusTyped /\ Bus!DepthFirst
  /\ result # "err" => Once /\ Descended /\ Followed /\ Nested
  /\ result = "ok" => queue = <<>>

-----------------------------------------------------------------------------
\* Paths and their prefixes.
LEMMA PrefixByIndex ==
  ASSUME NEW S, NEW s \in Seq(S), NEW t \in Seq(S)
  PROVE  Bus!IsPrefix(s, t) <=> Len(s) <= Len(t) /\ \A i \in 1..Len(s) : s[i] = t[i]
<1>1. SubSeq(s, 1, Len(s)) = s
  OBVIOUS
<1>2. CASE Len(s) <= Len(t)
  <2>1. /\ SubSeq(t, 1, Len(s)) \in Seq(S) /\ Len(SubSeq(t, 1, Len(s))) = Len(s)
        /\ \A i \in 1..Len(s) : SubSeq(t, 1, Len(s))[i] = t[i]
    BY <1>2
  <2>2. (\A i \in 1..Len(s) : s[i] = t[i]) => s = SubSeq(t, 1, Len(s))
    BY <2>1
  <2>3. s = SubSeq(t, 1, Len(s)) => \A i \in 1..Len(s) : s[i] = t[i]
    BY <2>1
  <2> QED BY <1>1, <1>2, <2>2, <2>3 DEF Bus!IsPrefix
<1> QED BY <1>2 DEF Bus!IsPrefix

\* Being a prefix is reflexive and transitive.
LEMMA PrefixOrder ==
  ASSUME NEW S, NEW x \in Seq(S), NEW y \in Seq(S), NEW z \in Seq(S)
  PROVE  /\ Bus!IsPrefix(x, x)
         /\ Bus!IsPrefix(x, y) /\ Bus!IsPrefix(y, z) => Bus!IsPrefix(x, z)
<1>1. Bus!IsPrefix(x, x)
  BY PrefixByIndex
<1>2. ASSUME Bus!IsPrefix(x, y), Bus!IsPrefix(y, z) PROVE Bus!IsPrefix(x, z)
  BY <1>2, PrefixByIndex
<1> QED BY <1>1, <1>2

\* A prefix of an extended path is that path or a prefix of what was extended.
LEMMA PrefixOfExtended ==
  ASSUME NEW S, NEW x \in Seq(S), NEW y \in Seq(S), NEW b \in S
  PROVE  Bus!IsPrefix(x, Append(y, b)) <=> x = Append(y, b) \/ Bus!IsPrefix(x, y)
<1> DEFINE z == Append(y, b)
<1>1. /\ z \in Seq(S) /\ Len(z) = Len(y) + 1 /\ z[Len(y) + 1] = b
      /\ \A i \in 1..Len(y) : z[i] = y[i]
  OBVIOUS
<1> HIDE DEF z
<1>2. Bus!IsPrefix(x, z) <=> Len(x) <= Len(z) /\ \A i \in 1..Len(x) : x[i] = z[i]
  BY <1>1, PrefixByIndex
<1>3. Bus!IsPrefix(x, y) <=> Len(x) <= Len(y) /\ \A i \in 1..Len(x) : x[i] = y[i]
  BY PrefixByIndex
<1>4. ASSUME Bus!IsPrefix(x, z), x # z PROVE Bus!IsPrefix(x, y)
  <2>1. Len(x) # Len(y) + 1
    BY <1>1, <1>2, <1>4, SeqEqual
  <2> QED BY <1>1, <1>2, <1>3, <1>4, <2>1
<1>5. ASSUME Bus!IsPrefix(x, y) PROVE Bus!IsPrefix(x, z)
  BY <1>1, <1>2, <1>3, <1>5
<1>6. Bus!IsPrefix(z, z)
  BY <1>1, PrefixOrder
<1>7. Bus!IsPrefix(x, z) <=> x = z \/ Bus!IsPrefix(x, y)
  BY <1>4, <1>5, <1>6
<1> QED BY <1>7 DEF z

\* An extended path tells what was extended by what.
LEMMA ExtendedOnce ==
  ASSUME NEW S, NEW x \in Seq(S), NEW y \in Seq(S), NEW a \in S, NEW b \in S,
         Append(x, a) = Append(y, b)
  PROVE  x = y /\ a = b
<1> DEFINE u == Append(x, a)  v == Append(y, b)
<1>1. /\ Len(u) = Len(x) + 1 /\ u[Len(x) + 1] = a /\ \A i \in 1..Len(x) : u[i] = x[i]
      /\ Len(v) = Len(y) + 1 /\ v[Len(y) + 1] = b /\ \A i \in 1..Len(y) : v[i] = y[i]
  OBVIOUS
<1>2. u = v
  OBVIOUS
<1> HIDE DEF u, v
<1>3. Len(x) = Len(y)
  BY <1>1, <1>2
<1> QED BY <1>1, <1>2, <1>3

\* What stays on the stack s and the n deliveries t pushed on it.
Restacked(r, s, n, t) ==
  /\ Len(r) = Len(s) - 1 + n
  /\ \A m \in 1..Len(s) - 1 : r[m] = s[m]
  /\ \A k \in 1..n : r[Len(s) - 1 + k] = t[k]

\* The stack without its top, and what is pushed on the rest.
LEMMA PoppedAndPushed ==
  ASSUME NEW S, NEW s \in Seq(S), s # <<>>, NEW n \in Nat, NEW t \in [1..n -> S]
  PROVE  /\ (Bus!Front(s) \o t) \in Seq(S)
         /\ Restacked(Bus!Front(s) \o t, s, n, t)
<1>1. Len(s) \in Nat /\ Len(s) >= 1
  OBVIOUS
<1> DEFINE f == SubSeq(s, 1, Len(s) - 1)
<1>2. /\ f \in Seq(S) /\ Len(f) = Len(s) - 1 /\ \A m \in 1..Len(s) - 1 : f[m] = s[m]
  <2>1. \A m \in 1..Len(s) - 1 : s[m] \in S
    BY <1>1
  <2> DEFINE last == Len(s) - 1
  <2>2. last \in Nat /\ 1 \in Int /\ last - 1 + 1 = last
    BY <1>1
  <2> HIDE DEF last
  <2>3. /\ SubSeq(s, 1, last) \in Seq(S)
        /\ Len(SubSeq(s, 1, last)) = IF 1 <= last THEN last - 1 + 1 ELSE 0
        /\ \A m \in 1..last - 1 + 1 : SubSeq(s, 1, last)[m] = s[1 + m - 1]
    BY <2>1, <2>2, SubSeqProperties DEF last
  <2>4. Len(SubSeq(s, 1, last)) = last /\ \A m \in 1..last : 1 + m - 1 = m
    BY <2>2, <2>3
  <2> QED BY <2>2, <2>3, <2>4 DEF last
<1>3. t \in Seq(S) /\ Len(t) = n
  OBVIOUS
<1> HIDE DEF f
<1>4. /\ (f \o t) \in Seq(S) /\ Len(f \o t) = Len(f) + n
      /\ \A m \in 1..Len(f) + n : (f \o t)[m] = IF m <= Len(f) THEN f[m] ELSE t[m - Len(f)]
  BY <1>2, <1>3, ConcatProperties
<1>5. \A m \in 1..Len(s) - 1 : (f \o t)[m] = s[m]
  BY <1>1, <1>2, <1>4
<1>6. \A k \in 1..n : (f \o t)[Len(s) - 1 + k] = t[k]
  <2> TAKE k \in 1..n
  <2> DEFINE q == Len(f) + k
  <2>1. /\ q \in 1..Len(f) + n /\ ~ (q <= Len(f)) /\ q - Len(f) = k
        /\ Len(s) - 1 + k = q
    BY <1>1, <1>2
  <2> HIDE DEF q
  <2>2. (f \o t)[q] = IF q <= Len(f) THEN f[q] ELSE t[q - Len(f)]
    BY <1>4, <2>1
  <2> QED BY <2>1, <2>2
<1>7. Bus!Front(s) = f
  BY DEF Bus!Front, f
<1> QED BY <1>1, <1>2, <1>4, <1>5, <1>6, <1>7 DEF Restacked

-----------------------------------------------------------------------------
\* One delivery waits, to the agent the caller names.
LEMMA BusFirst ==
  ASSUME Bus!Init
  PROVE  BusInv
<1> DEFINE d == [agent |-> start, path |-> Append(<<>>, start)]
<1>1. /\ registered \subseteq Roster /\ start \in Roster /\ result = "running"
      /\ queue = <<d>> /\ outputs = <<>>
  BY DEF Bus!Init, Bus!Delivery
<1>2. /\ d \in Deliveries /\ d.agent = start /\ d.path = <<start>>
      /\ d.path \in Seq(Roster) /\ Len(d.path) = 1 /\ d.path[1] = start
  BY <1>1 DEF Deliveries
<1> HIDE DEF d
<1>3. /\ queue \in Seq(Deliveries) /\ Len(queue) = 1 /\ queue[1] = d
      /\ outputs \in Seq(Answers) /\ Len(outputs) = 0
  BY <1>1, <1>2
<1>4. /\ Waiting = {<<start>>} /\ Handled = {}
  BY <1>2, <1>3 DEF Waiting, Handled
<1>5. BusTyped
  <2>1. WellRouted(d)
    BY <1>2 DEF WellRouted
  <2> QED BY <1>1, <1>3, <2>1 DEF BusTyped
<1>6. Descended
  <2> SUFFICES ASSUME NEW x \in Seq(Roster), x # <<>>, Bus!IsPrefix(x, <<start>>)
               PROVE  x = <<start>>
    BY <1>4 DEF Descended
  <2>1. Len(x) <= 1 /\ \A i \in 1..Len(x) : x[i] = <<start>>[i]
    <3> DEFINE s == <<start>>
    <3>1. s \in Seq(Roster) /\ Len(s) = 1 /\ Bus!IsPrefix(x, s)
      BY <1>1
    <3> HIDE DEF s
    <3>2. Len(x) <= 1 /\ \A i \in 1..Len(x) : x[i] = s[i]
      BY <3>1, PrefixByIndex
    <3> QED BY <3>2 DEF s
  <2>2. Len(x) = 1
    BY <2>1
  <2> QED BY <2>1, <2>2
<1>7. Once /\ Followed /\ Nested /\ Bus!DepthFirst
  BY <1>3, <1>4 DEF Once, Followed, Nested, Bus!DepthFirst
<1> QED BY <1>1, <1>5, <1>6, <1>7 DEF BusInv

\* The layer after a's may be published to.
LEMMA FollowerMayFollow ==
  ASSUME NEW a, NEW b \in Bus!Followers(a)
  PROVE  b \in registered /\ Bus!MayPublish(a, Bus!LayerOf(b))
<1>1. /\ Bus!LayerOf(a) \in DOMAIN Bus!NextOperational /\ b \in registered
      /\ Bus!LayerOf(b) = Bus!NextOperational[Bus!LayerOf(a)]
  BY DEF Bus!Followers
<1>2. Bus!LayerOf(a) # "research"
  BY <1>1 DEF Bus!NextOperational
<1> QED BY <1>1, <1>2 DEF Bus!MayPublish

\* The roster is finite.
LEMMA RosterFinite == IsFiniteSet(Roster)
<1>1. Roster \subseteq 0..47
  BY AgentServicesAssumption DEF Bus!AgentsInRoster
<1>2. IsFiniteSet(0..47)
  <2>1. \A n \in Nat : IsFiniteSet(0..n)
    BY FS_Interval
  <2> QED BY <2>1
<1> QED BY <1>1, <1>2, FS_Subset

\* An order of a finite set names each of its elements once.
LEMMA EachOnce ==
  ASSUME NEW S, IsFiniteSet(S), NEW next \in Bus!SetToSeqs(S)
  PROVE  \E n \in Nat : /\ next \in [1..n -> S]
                        /\ \A i, j \in 1..n : next[i] = next[j] => i = j
                        /\ \A b \in S : \E i \in 1..n : next[i] = b
<1> DEFINE n == Cardinality(S)
<1>1. n \in Nat
  BY FS_CardinalityType
<1>2. next \in [1..n -> S] /\ \A i, j \in 1..n : i # j => next[i] # next[j]
  BY DEF Bus!SetToSeqs, Bus!Cardinality, Cardinality
<1>3. next \in Injection(1..n, S)
  BY <1>2 DEF Injection, IsInjective
<1>4. IsFiniteSet(1..n) /\ Cardinality(1..n) = n
  BY <1>1, FS_Interval
<1>5. next \in Surjection(1..n, S)
  BY <1>3, <1>4, FS_Injection
<1>6. \A b \in S : \E i \in 1..n : next[i] = b
  BY <1>5 DEF Surjection
<1> QED BY <1>1, <1>2, <1>6

\* The n deliveries follow of what passed through path, one to each of the agents F.
Forwards(follow, next, n, path, F) ==
  /\ next \in [1..n -> registered]
  /\ \A i, j \in 1..n : next[i] = next[j] => i = j
  /\ {next[k] : k \in 1..n} = F
  /\ follow \in [1..n -> Deliveries]
  /\ \A k \in 1..n : follow[k].agent = next[k] /\ follow[k].path = Append(path, next[k])

\* What a handled delivery puts on the stack.
LEMMA Pushes ==
  ASSUME BusTyped, NEW t \in Deliveries, NEW publishes \in BOOLEAN,
         NEW follow \in IF publishes THEN Bus!Routed(t) ELSE {<<>>}
  PROVE  \E n \in Nat : \E next :
           Forwards(follow, next, n, t.path,
                    IF publishes THEN Bus!Followers(t.agent) ELSE {})
<1>1. registered \subseteq Roster /\ t.path \in Seq(Roster)
  BY DEF BusTyped, Deliveries
<1>2. CASE publishes
  <2> DEFINE F == Bus!Followers(t.agent)
  <2>1. F \subseteq registered /\ IsFiniteSet(F)
    BY <1>1, FollowerMayFollow, RosterFinite, FS_Subset
  <2>2. PICK next \in Bus!SetToSeqs(F) :
          follow = [i \in DOMAIN next |-> [agent |-> next[i], path |-> Append(t.path, next[i])]]
    BY <1>2 DEF Bus!Routed, Bus!Delivery
  <2>3. PICK n \in Nat : /\ next \in [1..n -> F]
                         /\ \A i, j \in 1..n : next[i] = next[j] => i = j
                         /\ \A b \in F : \E i \in 1..n : next[i] = b
    BY <2>1, EachOnce
  <2> HIDE DEF F
  <2>4. next \in [1..n -> registered] /\ {next[k] : k \in 1..n} = F
    BY <2>1, <2>3
  <2>5. /\ follow \in [1..n -> Deliveries]
        /\ \A k \in 1..n : /\ follow[k].agent = next[k]
                           /\ follow[k].path = Append(t.path, next[k])
    BY <1>1, <2>2, <2>3, <2>4 DEF Deliveries
  <2> QED BY <1>2, <2>3, <2>4, <2>5 DEF F, Forwards
<1>3. CASE ~publishes
  <2>1. follow \in [1..0 -> Deliveries] /\ <<>> \in [1..0 -> registered]
    BY <1>3
  <2>2. {<<>>[k] : k \in 1..0} = {} /\ 0 \in Nat
    OBVIOUS
  <2>3. Forwards(follow, <<>>, 0, t.path, {})
    BY <1>3, <2>1, <2>2 DEF Forwards
  <2> QED BY <1>3, <2>2, <2>3
<1> QED BY <1>2, <1>3

\* A delivery that waits or was handled, field by field.
LEMMA DeliveryTyped ==
  ASSUME BusTyped
  PROVE  /\ \A m \in 1..Len(queue) : /\ queue[m] \in Deliveries
                                     /\ queue[m].path \in Seq(Roster)
                                     /\ queue[m].path # <<>> /\ queue[m].agent \in Roster
         /\ \A i \in 1..Len(outputs) : /\ outputs[i] \in Answers
                                       /\ outputs[i].path \in Seq(Roster)
                                       /\ outputs[i].path # <<>>
         /\ \A p \in Handled \union Waiting : p \in Seq(Roster) /\ p # <<>>
         /\ Len(queue) \in Nat /\ Len(outputs) \in Nat
<1>1. \A m \in 1..Len(queue) : queue[m] \in Deliveries /\ WellRouted(queue[m])
  BY DEF BusTyped
<1>2. \A i \in 1..Len(outputs) : outputs[i] \in Answers /\ WellRouted(outputs[i])
  BY DEF BusTyped
<1>3. Len(queue) \in Nat /\ Len(outputs) \in Nat
  BY DEF BusTyped
<1> QED BY <1>1, <1>2, <1>3 DEF Deliveries, Answers, WellRouted, Handled, Waiting

\* An agent handles the delivery on top of the stack, and what follows from
\* it takes its place (run).
LEMMA ProcessStep ==
  ASSUME BusInv, NEW publishes \in BOOLEAN, Bus!Process(publishes)
  PROVE  BusInv'
<1> DEFINE N == Len(outputs)
           L == Len(queue)
           t == queue[L]
           new == [agent |-> t.agent, path |-> t.path, publish |-> publishes]
           F == IF publishes THEN Bus!Followers(t.agent) ELSE {}
<1>1. BusTyped /\ Bus!DepthFirst /\ Once /\ Descended /\ Followed /\ Nested
  BY DEF BusInv, Bus!Process
<1>2. /\ queue \in Seq(Deliveries) /\ queue # <<>> /\ result = "running"
      /\ registered \subseteq Roster
  BY <1>1 DEF Bus!Process, BusTyped
<1>3. L \in 1..L /\ L \in Nat /\ N \in Nat /\ L >= 1
  BY <1>1, <1>2
<1>4. /\ t \in Deliveries /\ t.path \in Seq(Roster) /\ t.path # <<>> /\ t.agent \in Roster
      /\ t.path \in Waiting /\ WellRouted(t) /\ t = queue[L]
  BY <1>1, <1>3, DeliveryTyped DEF Waiting, BusTyped
<1>5. Bus!Top = t
  BY DEF Bus!Top, Bus!Last
<1> HIDE DEF t
<1>6. /\ t.agent \in registered /\ outputs' = Append(outputs, new)
      /\ UNCHANGED <<registered, start, result>>
  BY <1>5 DEF Bus!Process, Bus!Answer
<1>7. PICK follow \in IF publishes THEN Bus!Routed(t) ELSE {<<>>} :
        queue' = Bus!Front(queue) \o follow
  BY <1>5 DEF Bus!Process
<1>8. PICK n \in Nat : \E next : Forwards(follow, next, n, t.path, F)
  BY <1>1, <1>4, <1>7, Pushes
<1>9. PICK next :
           /\ next \in [1..n -> registered]
           /\ \A i, j \in 1..n : next[i] = next[j] => i = j
           /\ {next[k] : k \in 1..n} = F
           /\ follow \in [1..n -> Deliveries]
           /\ \A k \in 1..n : /\ follow[k].agent = next[k]
                              /\ follow[k].path = Append(t.path, next[k])
  BY <1>8 DEF Forwards
<1>10. /\ queue' \in Seq(Deliveries) /\ Len(queue') = L - 1 + n
       /\ \A m \in 1..L - 1 : queue'[m] = queue[m]
       /\ \A k \in 1..n : queue'[L - 1 + k] = follow[k]
  <2>1. follow \in [1..n -> Deliveries]
    BY <1>9
  <2>2. /\ (Bus!Front(queue) \o follow) \in Seq(Deliveries)
        /\ Restacked(Bus!Front(queue) \o follow, queue, n, follow)
    BY <1>2, <2>1, PoppedAndPushed
  <2> QED BY <1>7, <2>2 DEF Restacked
<1>11. \A m \in 1..Len(queue') : \/ m \in 1..L - 1
                                 \/ \E k \in 1..n : m = L - 1 + k
  <2> TAKE m \in 1..Len(queue')
  <2>1. m \in 1..L - 1 \/ m - (L - 1) \in 1..n
    BY <1>3, <1>10
  <2> QED BY <1>3, <2>1
<1>12. /\ \A m \in 1..L - 1 : m \in 1..Len(queue')
       /\ \A k \in 1..n : L - 1 + k \in 1..Len(queue')
  BY <1>3, <1>10
<1>13. /\ new \in Answers /\ new.agent = t.agent /\ new.path = t.path
       /\ new.publish = publishes
  BY <1>4 DEF Answers
<1> HIDE DEF new
<1>14. /\ outputs' \in Seq(Answers) /\ Len(outputs') = N + 1 /\ outputs'[N + 1] = new
       /\ \A i \in 1..N : outputs'[i] = outputs[i]
  BY <1>1, <1>6, <1>13 DEF BusTyped
<1>15. \A i \in 1..Len(outputs') : i \in 1..N \/ i = N + 1
  BY <1>3, <1>14
<1>16. \A i \in 1..N : i \in 1..Len(outputs')
  BY <1>3, <1>14
<1>17. N + 1 \in 1..Len(outputs')
  BY <1>3, <1>14
<1> DEFINE News == {Append(t.path, b) : b \in F}
<1>18. F \subseteq registered /\ \A k \in 1..n : next[k] \in F
  BY <1>9
<1> HIDE DEF F
<1>19. \A m \in 1..L - 1 : queue[m].path \in Waiting /\ queue[m].path # t.path
  <2> TAKE m \in 1..L - 1
  <2>1. m \in 1..L /\ m # L
    BY <1>3
  <2>2. queue[m].path # queue[L].path
    BY <1>1, <1>3, <2>1 DEF Once
  <2> QED BY <1>4, <2>1, <2>2 DEF Waiting
<1>20. Handled' = Handled \union {t.path}
  <2>1. \A p \in Handled' : p \in Handled \union {t.path}
    BY <1>13, <1>14, <1>15 DEF Handled
  <2>2. \A p \in Handled : p \in Handled'
    BY <1>14, <1>16 DEF Handled
  <2>3. t.path \in Handled'
    BY <1>13, <1>14, <1>17 DEF Handled
  <2> QED BY <2>1, <2>2, <2>3
<1>21. Waiting' = (Waiting \ {t.path}) \union News
  <2>1. ASSUME NEW p \in Waiting' PROVE p \in (Waiting \ {t.path}) \union News
    <3>1. PICK m \in 1..Len(queue') : p = queue'[m].path
      BY DEF Waiting
    <3>2. CASE m \in 1..L - 1
      BY <1>10, <1>19, <3>1, <3>2
    <3>3. CASE \E k \in 1..n : m = L - 1 + k
      BY <1>9, <1>10, <1>18, <3>1, <3>3
    <3> QED BY <1>11, <3>2, <3>3
  <2>2. ASSUME NEW p \in Waiting, p # t.path PROVE p \in Waiting'
    <3>1. PICK m \in 1..L : p = queue[m].path
      BY DEF Waiting
    <3>2. m \in 1..L - 1
      BY <1>3, <1>4, <2>2, <3>1
    <3> QED BY <1>10, <1>12, <3>1, <3>2 DEF Waiting
  <2>3. ASSUME NEW b \in F PROVE Append(t.path, b) \in Waiting'
    <3>1. PICK k \in 1..n : next[k] = b
      BY <1>9
    <3>2. queue'[L - 1 + k].path = Append(t.path, b)
      BY <1>9, <1>10, <3>1
    <3>3. L - 1 + k \in 1..Len(queue')
      BY <1>12
    <3> QED BY <3>2, <3>3 DEF Waiting
  <2> QED BY <2>1, <2>2, <2>3
<1>22. t.path \notin Handled
  BY <1>1, <1>4 DEF Once
<1>23. \A b \in Roster : /\ Append(t.path, b) \notin Handled \union Waiting
                         /\ Append(t.path, b) # t.path /\ Append(t.path, b) \in Seq(Roster)
                         /\ Append(t.path, b) # <<>>
                         /\ Bus!IsPrefix(t.path, Append(t.path, b))
  <2> TAKE b \in Roster
  <2>1. /\ Append(t.path, b) # t.path /\ Append(t.path, b) \in Seq(Roster)
        /\ Append(t.path, b) # <<>>
    BY <1>4
  <2>2. Bus!IsPrefix(t.path, Append(t.path, b))
    BY <1>4, PrefixOfExtended, PrefixOrder
  <2> QED BY <1>1, <1>4, <1>22, <2>1, <2>2 DEF Descended
<1>24. \A p \in Handled \union Waiting : p \in Seq(Roster) /\ p # <<>>
  BY <1>1, DeliveryTyped
<1>25. \A i \in 1..N : /\ outputs[i].path \in Handled /\ outputs[i].path \in Seq(Roster)
                     /\ outputs[i].path # <<>> /\ outputs[i].path # t.path
  BY <1>1, <1>22, DeliveryTyped DEF Handled
<1>26. BusTyped'
  <2>1. ASSUME NEW m \in 1..Len(queue') PROVE WellRouted(queue'[m])
    <3>1. CASE m \in 1..L - 1
      <4>1. m \in 1..L /\ queue'[m] = queue[m]
        BY <1>3, <1>10, <3>1
      <4> QED BY <1>1, <4>1 DEF BusTyped
    <3>2. ASSUME NEW k \in 1..n, m = L - 1 + k PROVE WellRouted(queue'[m])
      <4> DEFINE p == Append(t.path, next[k])
      <4>1. queue'[m].agent = next[k] /\ queue'[m].path = p
        BY <1>9, <1>10, <3>2
      <4>2. next[k] \in F /\ next[k] \in Roster
        BY <1>2, <1>18
      <4>3. /\ Len(t.path) \in Nat /\ Len(p) = Len(t.path) + 1 /\ p[Len(p)] = next[k]
            /\ p \in Seq(Roster) /\ \A i \in 1..Len(t.path) : p[i] = t.path[i]
        BY <1>4, <4>2
      <4>4. t.path[Len(t.path)] = t.agent /\ Len(t.path) >= 1
        BY <1>4, <4>3 DEF WellRouted
      <4>5. Bus!MayPublish(t.agent, Bus!LayerOf(next[k]))
        BY <4>2, FollowerMayFollow DEF F
      <4> HIDE DEF p
      <4>6. ASSUME NEW i \in 1..Len(p) - 1
            PROVE  Bus!MayPublish(p[i], Bus!LayerOf(p[i + 1]))
        <5>1. CASE i = Len(t.path)
          BY <4>3, <4>4, <4>5, <5>1
        <5>2. CASE i # Len(t.path)
          <6>1. i \in 1..Len(t.path) - 1 /\ i \in 1..Len(t.path) /\ i + 1 \in 1..Len(t.path)
            BY <4>3, <5>2
          <6> QED BY <1>4, <4>3, <6>1 DEF WellRouted
        <5> QED BY <5>1, <5>2
      <4>7. p # <<>>
        BY <4>3, <4>4
      <4> QED BY <4>1, <4>3, <4>6, <4>7 DEF WellRouted
    <3> QED BY <1>11, <3>1, <3>2
  <2>2. ASSUME NEW i \in 1..Len(outputs')
        PROVE  WellRouted(outputs'[i]) /\ outputs'[i].agent \in registered
    <3>1. CASE i \in 1..N
      BY <1>1, <1>14, <3>1 DEF BusTyped
    <3>2. CASE i = N + 1
      BY <1>4, <1>6, <1>13, <1>14, <3>2 DEF WellRouted
    <3> QED BY <1>15, <3>1, <3>2
  <2> QED BY <1>1, <1>6, <1>10, <1>14, <2>1, <2>2 DEF BusTyped
<1>27. Once'
  <2>1. ASSUME NEW i \in 1..Len(outputs'), NEW j \in 1..Len(outputs'),
               outputs'[i].path = outputs'[j].path
        PROVE  i = j
    BY <1>1, <1>13, <1>14, <1>15, <1>25, <2>1 DEF Once
  <2>2. ASSUME NEW m \in 1..Len(queue'), NEW k \in 1..Len(queue'),
               queue'[m].path = queue'[k].path
        PROVE  m = k
    <3>1. ASSUME NEW x \in 1..L - 1, NEW y \in 1..n PROVE queue'[x].path # queue'[L - 1 + y].path
      <4>1. queue'[x].path \in Waiting
        BY <1>10, <1>19
      <4>2. queue'[L - 1 + y].path = Append(t.path, next[y])
        BY <1>9, <1>10
      <4>3. next[y] \in Roster
        BY <1>2, <1>18
      <4> QED BY <1>23, <4>1, <4>2, <4>3
    <3>2. CASE m \in 1..L - 1 /\ k \in 1..L - 1
      <4>1. m \in 1..L /\ k \in 1..L
        BY <1>3, <3>2
      <4> QED BY <1>1, <1>10, <2>2, <3>2, <4>1 DEF Once
    <3>3. ASSUME NEW x \in 1..n, NEW y \in 1..n, m = L - 1 + x, k = L - 1 + y
          PROVE  m = k
      <4>1. Append(t.path, next[x]) = Append(t.path, next[y])
        <5>1. /\ queue'[L - 1 + x].path = Append(t.path, next[x])
              /\ queue'[L - 1 + y].path = Append(t.path, next[y])
          BY <1>9, <1>10
        <5> QED BY <2>2, <3>3, <5>1
      <4>2. next[x] \in Roster /\ next[y] \in Roster
        BY <1>2, <1>18
      <4>3. next[x] = next[y]
        BY <1>4, <4>1, <4>2, ExtendedOnce
      <4> QED BY <1>9, <3>3, <4>3
    <3> QED BY <1>11, <2>2, <3>1, <3>2, <3>3
  <2>3. Handled' \intersect Waiting' = {}
    <3>1. Handled \intersect Waiting = {}
      BY <1>1 DEF Once
    <3>2. \A p \in News : p \notin Handled \union Waiting /\ p # t.path
      BY <1>2, <1>18, <1>23
    <3> QED BY <1>20, <1>21, <3>1, <3>2
  <2> QED BY <2>1, <2>2, <2>3 DEF Once
<1>28. Descended'
  <2> SUFFICES ASSUME NEW p \in Handled' \union Waiting', NEW x \in Seq(Roster),
                      x # <<>>, Bus!IsPrefix(x, p)
               PROVE  x = p \/ x \in Handled'
    BY DEF Descended, Bus!IsPrefix
  <2>1. CASE p \in Handled \union Waiting
    BY <1>1, <1>20, <2>1 DEF Descended
  <2>2. ASSUME NEW b \in F, p = Append(t.path, b) PROVE x = p \/ x \in Handled'
    <3>1. b \in Roster
      BY <1>2, <1>18
    <3>2. x = p \/ Bus!IsPrefix(x, t.path)
      BY <1>4, <2>2, <3>1, PrefixOfExtended
    <3> QED BY <1>1, <1>4, <1>20, <3>2 DEF Descended
  <2> QED BY <1>4, <1>20, <1>21, <2>1, <2>2
<1>29. Followed'
  <2>1. \A x \in Seq(Roster), b \in Roster, c \in Roster :
          Append(x, b) = Append(t.path, c) => x = t.path /\ b = c
    BY <1>4, ExtendedOnce
  <2>2. Handled' \union Waiting' = (Handled \union Waiting) \union News
    BY <1>4, <1>20, <1>21
  <2>3. \A a \in Roster : Bus!Followers(a)' = Bus!Followers(a)
    BY <1>6 DEF Bus!Followers
  <2>4. ASSUME NEW i \in 1..N, NEW b \in registered
        PROVE  Append(outputs'[i].path, b) \in Handled' \union Waiting'
                 <=> b \in Due(outputs[i])
    <3>1. Append(outputs[i].path, b) \notin News
      <4> SUFFICES ASSUME NEW c \in F, Append(outputs[i].path, b) = Append(t.path, c)
                   PROVE  FALSE
        OBVIOUS
      <4>1. b \in Roster /\ c \in Roster
        BY <1>2, <1>18
      <4>2. outputs[i].path \in Seq(Roster) /\ outputs[i].path # t.path
        BY <1>25
      <4>3. outputs[i].path = t.path
        BY <2>1, <4>1, <4>2
      <4> QED BY <4>2, <4>3
    <3> QED BY <1>1, <1>14, <2>2, <3>1 DEF Followed
  <2>5. ASSUME NEW b \in registered
        PROVE  Append(t.path, b) \in Handled' \union Waiting' <=> b \in F
    <3>1. Append(t.path, b) \notin Handled \union Waiting
      BY <1>2, <1>23
    <3>2. ASSUME NEW c \in F, Append(t.path, b) = Append(t.path, c) PROVE b = c
      <4>1. b \in Roster /\ c \in Roster
        BY <1>2, <1>18
      <4> QED BY <1>4, <3>2, <4>1, ExtendedOnce
    <3> QED BY <2>2, <3>1, <3>2
  <2>6. ASSUME NEW i \in 1..Len(outputs'), NEW b \in registered
        PROVE  Append(outputs'[i].path, b) \in Handled' \union Waiting' <=> b \in Due(outputs[i])'
    <3>1. CASE i \in 1..N
      <4>1. outputs[i].agent \in Roster /\ outputs'[i] = outputs[i]
        BY <1>1, <1>2, <1>14, <3>1 DEF BusTyped
      <4>2. Due(outputs[i])' = Due(outputs[i])
        BY <2>3, <4>1 DEF Due
      <4> QED BY <2>4, <3>1, <4>2
    <3>2. CASE i = N + 1
      <4>1. Due(outputs[i])' = F
        BY <1>4, <1>13, <1>14, <2>3, <3>2 DEF Due, F
      <4> QED BY <1>13, <1>14, <2>5, <3>2, <4>1
    <3> QED BY <1>15, <3>1, <3>2
  <2> QED BY <1>6, <2>6 DEF Followed
<1>30. \A x \in Handled, b \in Roster :
         x \in Seq(Roster) /\ (Bus!IsPrefix(x, Append(t.path, b)) => Bus!IsPrefix(x, t.path))
  <2> TAKE x \in Handled, b \in Roster
  <2>1. x \in Seq(Roster) /\ x # Append(t.path, b)
    BY <1>23, <1>24
  <2> QED BY <1>4, <2>1, PrefixOfExtended
<1>31. \A i \in 1..N : Bus!IsPrefix(outputs[i].path, t.path) =>
         \A j \in i..N : Bus!IsPrefix(outputs[i].path, outputs[j].path)
  <2> TAKE i \in 1..N
  <2>1. L \in 1..L /\ t = queue[L]
    BY <1>3, <1>4
  <2> QED BY <1>1, <2>1 DEF Nested
<1>32. \A i \in 1..N, m \in 1..L - 1 : Bus!IsPrefix(outputs[i].path, queue[m].path) =>
         /\ Bus!IsPrefix(outputs[i].path, t.path)
         /\ \A j \in i..N : Bus!IsPrefix(outputs[i].path, outputs[j].path)
         /\ \A k \in m..L - 1 : Bus!IsPrefix(outputs[i].path, queue[k].path)
  <2> SUFFICES ASSUME NEW i \in 1..N, NEW m \in 1..L - 1,
                      Bus!IsPrefix(outputs[i].path, queue[m].path)
               PROVE  /\ Bus!IsPrefix(outputs[i].path, t.path)
                      /\ \A j \in i..N : Bus!IsPrefix(outputs[i].path, outputs[j].path)
                      /\ \A k \in m..L - 1 : Bus!IsPrefix(outputs[i].path, queue[k].path)
    OBVIOUS
  <2>1. m \in 1..L /\ L \in m..L /\ \A k \in m..L - 1 : k \in m..L
    BY <1>3
  <2>2. /\ \A j \in i..N : Bus!IsPrefix(outputs[i].path, outputs[j].path)
        /\ \A k \in m..L : Bus!IsPrefix(outputs[i].path, queue[k].path)
    BY <1>1, <2>1 DEF Nested
  <2> QED BY <1>4, <2>1, <2>2
<1>33. \A k \in 1..n : queue'[L - 1 + k].path = Append(t.path, next[k]) /\ next[k] \in Roster
  BY <1>2, <1>9, <1>10, <1>18
\* A handled path that leads to a waiting delivery leads to all of what is pushed.
<1>34. \A i \in 1..N, m \in 1..Len(queue') :
         Bus!IsPrefix(outputs[i].path, queue'[m].path) =>
           /\ Bus!IsPrefix(outputs[i].path, t.path)
           /\ \A j \in i..N : Bus!IsPrefix(outputs[i].path, outputs[j].path)
           /\ \A k \in m..L - 1 : Bus!IsPrefix(outputs[i].path, queue[k].path)
  <2> SUFFICES ASSUME NEW i \in 1..N, NEW m \in 1..Len(queue'),
                      Bus!IsPrefix(outputs[i].path, queue'[m].path)
               PROVE  /\ Bus!IsPrefix(outputs[i].path, t.path)
                      /\ \A j \in i..N : Bus!IsPrefix(outputs[i].path, outputs[j].path)
                      /\ \A k \in m..L - 1 : Bus!IsPrefix(outputs[i].path, queue[k].path)
    OBVIOUS
  <2>1. CASE m \in 1..L - 1
    BY <1>10, <1>32, <2>1
  <2>2. ASSUME NEW k \in 1..n, m = L - 1 + k
        PROVE  Bus!IsPrefix(outputs[i].path, t.path)
    <3>1. Bus!IsPrefix(outputs[i].path, Append(t.path, next[k])) /\ next[k] \in Roster
      BY <1>33, <2>2
    <3> QED BY <1>25, <1>30, <3>1
  <2>3. ASSUME NEW k \in 1..n, m = L - 1 + k
        PROVE  \A x \in m..L - 1 : FALSE
    BY <1>3, <2>3
  <2> QED BY <1>11, <1>31, <2>1, <2>2, <2>3
<1>35. \A m \in 1..L - 1 : ~ Bus!IsPrefix(t.path, queue[m].path)
  BY <1>1, <1>4, <1>19, <1>22 DEF Descended
<1>36. \A i \in 1..N, k \in 1..n :
         Bus!IsPrefix(outputs[i].path, t.path) => Bus!IsPrefix(outputs[i].path, queue'[L - 1 + k].path)
  <2> SUFFICES ASSUME NEW i \in 1..N, NEW k \in 1..n, Bus!IsPrefix(outputs[i].path, t.path)
               PROVE  Bus!IsPrefix(outputs[i].path, Append(t.path, next[k]))
    BY <1>33
  <2> QED BY <1>4, <1>25, <1>33, PrefixOfExtended
<1>37. ASSUME NEW i \in 1..Len(outputs'), NEW m \in 1..Len(queue'),
              Bus!IsPrefix(outputs'[i].path, queue'[m].path)
       PROVE  /\ \A j \in i..Len(outputs') : Bus!IsPrefix(outputs'[i].path, outputs'[j].path)
              /\ \A k \in m..Len(queue') : Bus!IsPrefix(outputs'[i].path, queue'[k].path)
  <2>1. \A k \in m..Len(queue') : k \in 1..Len(queue')
    BY <1>3, <1>10
  <2>2. CASE i \in 1..N
    <3>1. /\ Bus!IsPrefix(outputs[i].path, t.path) /\ outputs'[i] = outputs[i]
          /\ \A j \in i..N : Bus!IsPrefix(outputs[i].path, outputs[j].path)
          /\ \A k \in m..L - 1 : Bus!IsPrefix(outputs[i].path, queue[k].path)
      BY <1>14, <1>34, <1>37, <2>2
    <3>2. ASSUME NEW j \in i..Len(outputs')
          PROVE  Bus!IsPrefix(outputs[i].path, outputs'[j].path)
      <4>1. (j \in 1..N /\ j \in i..N) \/ j = N + 1
        BY <1>3, <1>14, <2>2
      <4> QED BY <1>13, <1>14, <3>1, <4>1
    <3>3. ASSUME NEW k \in m..Len(queue')
          PROVE  Bus!IsPrefix(outputs[i].path, queue'[k].path)
      <4>1. CASE k \in 1..L - 1
        <5>1. k \in m..L - 1
          BY <1>3, <4>1
        <5> QED BY <1>10, <3>1, <4>1, <5>1
      <4> QED BY <1>11, <1>36, <2>1, <2>2, <3>1, <4>1
    <3> QED BY <3>1, <3>2, <3>3
  <2>3. CASE i = N + 1
    <3>1. outputs'[i].path = t.path
      BY <1>13, <1>14, <2>3
    <3>2. m \notin 1..L - 1
      BY <1>10, <1>35, <1>37, <3>1
    <3>3. ASSUME NEW j \in i..Len(outputs') PROVE Bus!IsPrefix(t.path, outputs'[j].path)
      <4>1. j = i
        BY <1>3, <1>14, <2>3
      <4> QED BY <1>4, <3>1, <4>1, PrefixOrder
    <3>4. ASSUME NEW k \in m..Len(queue') PROVE Bus!IsPrefix(t.path, queue'[k].path)
      <4>1. k \notin 1..L - 1
        BY <1>3, <3>2
      <4>2. PICK x \in 1..n : k = L - 1 + x
        BY <1>11, <2>1, <4>1
      <4> QED BY <1>23, <1>33, <4>2
    <3> QED BY <3>1, <3>3, <3>4
  <2> QED BY <1>15, <2>2, <2>3
<1>38. Nested'
  BY <1>37 DEF Nested, Bus!IsPrefix
<1>39. Bus!DepthFirst'
  <2> SUFFICES ASSUME NEW i \in 1..Len(outputs'), NEW k \in 1..Len(outputs'), NEW j \in i..k,
                      Bus!IsPrefix(outputs'[i].path, outputs'[k].path)
               PROVE  Bus!IsPrefix(outputs'[i].path, outputs'[j].path)
    BY DEF Bus!DepthFirst, Bus!IsPrefix
  <2>1. i <= k /\ j \in Int /\ i <= j /\ j <= k /\ j \in 1..Len(outputs')
    BY <1>3, <1>14
  <2>2. CASE j = k
    BY <2>2
  <2>3. CASE j # k
    <3>1. i \in 1..N /\ j \in 1..N /\ j \in i..N
      BY <1>3, <1>14, <2>1, <2>3
    <3>2. CASE k \in 1..N
      BY <1>1, <1>14, <3>1, <3>2 DEF Bus!DepthFirst
    <3>3. CASE k = N + 1
      BY <1>13, <1>14, <1>31, <3>1, <3>3
    <3> QED BY <1>15, <3>2, <3>3
  <2> QED BY <2>2, <2>3
<1> QED BY <1>2, <1>6, <1>26, <1>27, <1>28, <1>29, <1>38, <1>39 DEF BusInv

\* Every step of a call keeps the invariant.
LEMMA BusKept ==
  ASSUME BusInv, Bus!Next \/ UNCHANGED dispatchVars
  PROVE  BusInv'
<1>1. BusTyped /\ Bus!DepthFirst
  BY DEF BusInv
\* The call ends, or nothing happens: the deliveries and the agents stay.
<1>2. ASSUME UNCHANGED <<registered, start, queue, outputs>>,
             result' \in {"running", "ok", "err"}, result' # "err" => result # "err",
             result' = "ok" => queue = <<>>
      PROVE  BusInv'
  <2>1. BusTyped'
    BY <1>1, <1>2 DEF BusTyped, WellRouted
  <2>2. Bus!DepthFirst'
    BY <1>1, <1>2 DEF Bus!DepthFirst, Bus!IsPrefix
  <2>3. Handled' = Handled /\ Waiting' = Waiting
    BY <1>2 DEF Handled, Waiting
  <2>4. ASSUME result' # "err" PROVE Once' /\ Descended' /\ Nested'
    BY <1>2, <2>3, <2>4 DEF BusInv, Once, Descended, Nested, Bus!IsPrefix
  <2>5. ASSUME result' # "err" PROVE Followed'
    BY <1>2, <2>3, <2>5 DEF BusInv, Followed, Due, Bus!Followers
  <2>6. result' = "ok" => queue' = <<>>
    BY <1>2
  <2> QED BY <2>1, <2>2, <2>4, <2>5, <2>6 DEF BusInv
<1>3. CASE Bus!UnknownAgent
  BY <1>2, <1>3 DEF Bus!UnknownAgent
<1>4. CASE Bus!Return
  BY <1>2, <1>4 DEF Bus!Return
<1>5. CASE Bus!Done \/ UNCHANGED dispatchVars
  <2>1. UNCHANGED <<registered, start, queue, outputs, result>>
    BY <1>5 DEF Bus!Done, Bus!vars, dispatchVars
  <2> QED BY <1>1, <1>2, <2>1 DEF BusInv, BusTyped
<1>6. CASE Bus!Fails
  <2>1. /\ outputs' = <<>> /\ result' = "err" /\ UNCHANGED <<registered, start, queue>>
    BY <1>6 DEF Bus!Fails
  <2>2. BusTyped'
    <3>1. outputs' \in Seq(Answers) /\ 1..Len(outputs') = {}
      BY <2>1
    <3>2. \A i \in 1..Len(queue') : WellRouted(queue'[i])
      BY <1>1, <2>1 DEF BusTyped
    <3> QED BY <1>1, <2>1, <3>1, <3>2 DEF BusTyped
  <2>3. Bus!DepthFirst'
    BY <2>1 DEF Bus!DepthFirst
  <2> QED BY <2>1, <2>2, <2>3 DEF BusInv
<1> QED BY <1>3, <1>4, <1>5, <1>6, ProcessStep DEF Bus!Next

\* The invariant gives what the dispatcher promises.
LEMMA BusTells ==
  ASSUME BusInv
  PROVE  /\ Bus!TypeOK /\ Bus!NoLayerSkipped /\ Bus!FollowUpsDelivered /\ Bus!DepthFirst
<1>1. BusTyped /\ Bus!DepthFirst
  BY DEF BusInv
<1>2. Bus!Path = Handled
  BY <1>1 DEF Bus!Path, Bus!ToSet, Handled, BusTyped
<1>3. Bus!TypeOK
  <2>1. \A d \in Bus!ToSet(queue) : d.agent \in Roster /\ Bus!Last(d.path) = d.agent
    BY <1>1, DeliveryTyped DEF Bus!ToSet, Bus!Last, BusTyped, WellRouted
  <2>2. \A o \in Bus!ToSet(outputs) : o.agent \in registered /\ o.publish \in BOOLEAN
    BY <1>1, DeliveryTyped DEF Bus!ToSet, BusTyped, Answers
  <2> QED BY <1>1, <2>1, <2>2 DEF Bus!TypeOK, BusTyped
<1>4. Bus!NoLayerSkipped
  BY <1>1, <1>2 DEF Bus!NoLayerSkipped, Handled, BusTyped, WellRouted
<1>5. ASSUME result = "ok" PROVE Bus!FollowUpsDelivered
  <2>1. Once /\ Followed /\ Waiting = {}
    BY <1>5 DEF BusInv, Waiting
  <2>2. Cardinality(Handled) = Len(outputs)
    <3> DEFINE f == [i \in 1..Len(outputs) |-> outputs[i].path]
    <3>1. f \in Bijection(1..Len(outputs), Handled)
      BY <2>1 DEF Once, Handled, Bijection, Injection, Surjection, IsInjective
    <3>2. Len(outputs) \in Nat
      BY <1>1, DeliveryTyped
    <3> QED BY <3>1, <3>2, FS_CountingElements DEF ExistsBijection
  <2>3. ASSUME NEW o \in Bus!ToSet(outputs)
        PROVE  {b \in registered : Append(o.path, b) \in Handled}
                 = IF o.publish /\ Bus!LayerOf(o.agent) \in DOMAIN Bus!NextOperational
                   THEN {b \in registered :
                           Bus!LayerOf(b) = Bus!NextOperational[Bus!LayerOf(o.agent)]}
                   ELSE {}
    <3>1. PICK i \in 1..Len(outputs) : o = outputs[i]
      BY <1>1 DEF Bus!ToSet, BusTyped
    <3>2. {b \in registered : Append(o.path, b) \in Handled} = {b \in registered : b \in Due(o)}
      BY <2>1, <3>1 DEF Followed
    <3> QED BY <3>2 DEF Due, Bus!Followers
  <2> QED BY <1>2, <2>2, <2>3 DEF Bus!FollowUpsDelivered, Bus!Cardinality, Cardinality
<1>6. Bus!FollowUpsDelivered
  BY <1>5 DEF Bus!FollowUpsDelivered
<1> QED BY <1>1, <1>3, <1>4, <1>6

-----------------------------------------------------------------------------
(***************************************************************************)
(* The composition                                                         *)
(***************************************************************************)
AgentsInv ==
  /\ load \in Loads /\ mesh \in Meshes /\ cleanup \in Cleanups
  /\ IInv /\ RouterInv /\ BusInv
  /\ \A d \in Meshes : mesh = d => MeshInv(d)
  /\ \A d \in Cleanups : cleanup = d => CleanupInv(d)

\* The invariant gives what the gates of a cleanup promise.
LEMMA CleanupTellsAll ==
  ASSUME NEW d \in Cleanups, CleanupInv(d)
  PROVE  /\ Cleanup(d)!TypeOK /\ Cleanup(d)!ClearedContentStood /\ Cleanup(d)!ClearedSoon
         /\ Cleanup(d)!AdmittedContentStood
         /\ Cleanup(d)!PassMeansRemoved /\ Cleanup(d)!SliceCleansNothing
         /\ Cleanup(d)!CanceledMeansUntouched /\ Cleanup(d)!EffectAtMostOnce
<1>1. Measured /\ Bound(d) /\ Attempted(d) /\ Cleanup(d)!TypeOK
  BY DEF CleanupInv
<1>2. Cleanup(d)!PassMeansRemoved
  BY <1>1 DEF Measured, Attempted, Cleanup!PassMeansRemoved
<1>3. Cleanup(d)!SliceCleansNothing
  BY <1>1 DEF Attempted, Cleanup!SliceCleansNothing
<1>4. Cleanup(d)!CanceledMeansUntouched /\ Cleanup(d)!EffectAtMostOnce
  BY <1>1 DEF Attempted, Cleanup!CanceledMeansUntouched, Cleanup!EffectAtMostOnce
<1> QED BY <1>1, <1>2, <1>3, <1>4 DEF Bound

\* A step of the loop under a load is one of the loop.
LEMMA LoopMoves ==
  ASSUME IInv, load \in Loads, LoopNext \/ UNCHANGED vars
  PROVE  IInv'
<1>1. CASE LoopNext
  <2>1. PICK r \in Starters[load] : (\E goal \in Offered[load] : Start(r, goal)) \/ Step(r)
    BY <1>1 DEF LoopNext
  <2>2. r \in Runs /\ Offered[load] \subseteq Goals
    BY <2>1, AgentServicesAssumption
  <2> QED BY <2>1, <2>2, StartStep, RunStep
<1>2. CASE UNCHANGED vars
  BY <1>2, NextInv
<1> QED BY <1>1, <1>2

\* Every part starts in its invariant.
LEMMA AgentsFirst == AgentsInit => AgentsInv
<1> SUFFICES ASSUME AgentsInit PROVE AgentsInv
  OBVIOUS
<1>1. IInv /\ RouterInv /\ BusInv /\ load \in Loads
  BY InitInv, RouterFirst, BusFirst DEF AgentsInit
<1>2. PICK d \in Meshes : mesh = d /\ Mesh(d)!Init
  BY DEF AgentsInit
<1>3. PICK c \in Cleanups : cleanup = c /\ Cleanup(c)!Init
  BY DEF AgentsInit
<1>4. MeshInv(d) /\ CleanupInv(c)
  BY <1>2, <1>3, MeshFirst, CleanupFirst
<1> QED BY <1>1, <1>2, <1>3, <1>4 DEF AgentsInv

\* Whichever part moves keeps its own invariant, and the others stand.
LEMMA AgentsKept == AgentsInv /\ [AgentsNext]_agentsVars => AgentsInv'
<1> SUFFICES ASSUME AgentsInv, [AgentsNext]_agentsVars PROVE AgentsInv'
  OBVIOUS
<1>1. /\ UNCHANGED <<load, mesh, cleanup>>
      /\ LoopNext \/ UNCHANGED vars
      /\ (\E d \in Meshes : mesh = d /\ Mesh(d)!Next) \/ UNCHANGED meshVars
      /\ Router!Next \/ UNCHANGED routeVars
      /\ Bus!Next \/ UNCHANGED dispatchVars
      /\ CleanupNext \/ UNCHANGED cleanupVars
  BY DEF AgentsNext, agentsVars
<1>2. IInv' /\ RouterInv' /\ BusInv'
  BY <1>1, LoopMoves, RouterKept, BusKept DEF AgentsInv
<1>3. ASSUME NEW d \in Meshes, mesh = d PROVE MeshInv(d)'
  BY <1>1, <1>3, MeshKept DEF AgentsInv
<1>4. ASSUME NEW d \in Cleanups, cleanup = d PROVE CleanupInv(d)'
  <2>1. CleanupInv(d)
    BY <1>4 DEF AgentsInv
  <2>2. \/ Cleanup(d)!PreflightNext \/ Cleanup(d)!AdmissionNext \/ UNCHANGED cleanupVars
    BY <1>1, <1>4 DEF CleanupNext
  <2> QED BY <2>1, <2>2, CleanupKept
<1> QED BY <1>1, <1>2, <1>3, <1>4 DEF AgentsInv

\* Every part keeps its invariant in every behaviour of the composition.
LEMMA AgentsBehave == AgentsSpec => []AgentsInv
BY AgentsFirst, AgentsKept, PTL DEF AgentsSpec

-----------------------------------------------------------------------------
(* The loop keeps its accounts and its lessons whatever else the process   *)
(* hosts (AutoLoop::run, run_with_recovery).                               *)
THEOREM LoopsKeepAccounts == AgentsSpec => [](LoopAccounts /\ LessonsTrue)
<1>1. AgentsInv => LoopAccounts /\ LessonsTrue
  BY AccountsInv DEF AgentsInv
<1> QED BY <1>1, AgentsBehave, PTL

(* A registered agent is one that is registered, and without a token none  *)
(* is, for any lanes, peers, requests and restarts                         *)
(* (executeOmnirouteHandshake, a2a_sync, require_bearer).                  *)
THEOREM RegistrationsHold == AgentsSpec => []RegistrationsTrue
<1>1. AgentsInv => RegistrationsTrue
  BY MeshTells DEF AgentsInv, RegistrationsTrue
<1> QED BY <1>1, AgentsBehave, PTL

(* For any cards a request is answered with one that serves it, and one    *)
(* without repetitions with a most specialized one (route).                *)
THEOREM RoutesHold == AgentsSpec => []RoutesBest
<1>1. AgentsInv => RoutesBest
  BY DEF AgentsInv, RouterInv, RoutesBest
<1> QED BY <1>1, AgentsBehave, PTL

(* For any registered agents no layer is skipped, each event reaches each  *)
(* follower once and its consequences are contiguous (Dispatcher::run).    *)
THEOREM DeliveriesHold == AgentsSpec => []EventsDelivered
<1>1. AgentsInv => EventsDelivered
  BY BusTells DEF AgentsInv, EventsDelivered
<1> QED BY <1>1, AgentsBehave, PTL

(* For any clock, disk and lifetimes a cleanup is cleared and admitted     *)
(* only over the content approved (evaluateCleanupPreflight).              *)
THEOREM CleanupsApproved == AgentsSpec => []CleanupAsApproved
<1>1. AgentsInv => CleanupAsApproved
  BY CleanupTellsAll DEF AgentsInv, CleanupAsApproved
<1> QED BY <1>1, AgentsBehave, PTL

(* For any of them a PASS means that what had to be reclaimed was removed  *)
(* from the target, an attempt cleans once and is canceled only before it, *)
(* and the slice in force cleans nothing (EFFECT_TRANSITIONS, the receipt's *)
(* checks, validateCleanupEffectTransition).                               *)
THEOREM CleanupsTell == AgentsSpec => []CleanupTells
<1>1. AgentsInv => CleanupTells
  BY CleanupTellsAll DEF AgentsInv, CleanupTells
<1> QED BY <1>1, AgentsBehave, PTL
=============================================================================
