----------------------- MODULE TelegramDeliveryProofs -----------------------
(***************************************************************************)
(* Theorems about live Telegram sends, for any number of requests, keys,   *)
(* texts, restarts and any limit of the caches: the receipts a caller gets *)
(* are true and its own, the provider is only called after a last look at  *)
(* the gate, and each replay cache implements module ReplayCache.          *)
(***************************************************************************)
EXTENDS TelegramDelivery, FiniteSetTheorems, TLAPS

-----------------------------------------------------------------------------
(* The inductive invariant.                                                *)

Working == {"status", "gate", "call", "provider"}
PC == Working \union {"new", "await", "done", "lost"}

(* How an execution ends, and how one ends that keeps its cache entry.     *)
Kept == {"held", "none-routed", "confirmed", "rejected", "unknown"}
Receipt == Kept \union {"invalid"}

Row == [route : Routes \union {"none"}, key : Keys \union {"none"},
        body : Bodies \union {NoBody}, pc : PC, by : Requests, outcome : Outcome]
CacheEntry == [body : Bodies, by : Requests, settled : BOOLEAN,
               expiresAt : Nat, after : SUBSET Requests]

Rows == req \in [Requests -> Row]
Caches ==
  /\ DOMAIN cache = Routes
  /\ \A p \in Routes :
       /\ DOMAIN cache[p] \subseteq Keys
       /\ cache[p] \in [DOMAIN cache[p] -> CacheEntry]
Counts == calls \in [Routes -> [Keys -> Nat]]
World ==
  /\ gateOpen \in BOOLEAN
  /\ openSince \subseteq Requests /\ wire \subseteq Requests
  /\ delivered \subseteq Requests
  /\ now \in 0..MaxNow
Types == Rows /\ Caches /\ Counts /\ World

Bounded ==
  \A p \in Routes : /\ IsFiniteSet(DOMAIN cache[p])
                    /\ Cardinality(DOMAIN cache[p]) <= MaxEntries[p]

(* A request that arrived asks something of a process; one that did not    *)
(* has done nothing.                                                       *)
Asks(r) ==
  IF req[r].pc = "new" THEN req[r].by = r /\ req[r].route = "none"
  ELSE req[r].route \in Routes /\ req[r].key \in Keys /\ req[r].body \in Bodies
Undecided(r) == req[r].pc # "done" => req[r].outcome = "none"

(* The same question to the same process.                                  *)
Same(r, q) ==
  /\ req[r].route = req[q].route /\ req[r].key = req[q].key
  /\ req[r].body = req[q].body

(* An execution at work is in the cache, where its retries find it, and    *)
(* has called the provider at most once.                                   *)
AtWork(r) ==
  req[r].pc \in Working =>
    LET p == req[r].route
        k == req[r].key
    IN /\ req[r].by = r
       /\ k \in DOMAIN cache[p] /\ cache[p][k].by = r
       /\ calls[p][k] = IF req[r].pc = "provider" THEN 1 ELSE 0

(* An entry belongs to the execution it names.                             *)
Belongs(p, k) ==
  LET e == cache[p][k] IN
  /\ req[e.by].by = e.by
  /\ req[e.by].route = p /\ req[e.by].key = k /\ req[e.by].body = e.body
  /\ IF e.settled THEN req[e.by].pc = "done" /\ req[e.by].outcome \in Kept
     ELSE req[e.by].pc \in Working

(* A waiter waits for an execution that is at work or has ended.           *)
Waits(r) ==
  req[r].pc = "await" =>
    LET q == req[r].by IN
    /\ req[q].by = q /\ Same(r, q)
    /\ \/ req[q].pc \in Working
       \/ req[q].pc = "done" /\ req[q].outcome \in Receipt

(* An answer is a refusal of its own or the receipt of an execution.       *)
Answers(r) ==
  req[r].pc = "done" =>
    \/ req[r].outcome \in {"conflict", "full"} /\ req[r].by = r
    \/ LET q == req[r].by IN
       /\ req[r].outcome \in Receipt
       /\ req[q].by = q /\ Same(r, q)
       /\ req[q].pc = "done" /\ req[q].outcome = req[r].outcome

(* Only an execution that called the provider can have an effect, and it   *)
(* never says that it had none; a confirmation came after the effect.      *)
Acted(r) ==
  r \in wire \union delivered =>
    /\ req[r].by = r /\ req[r].pc \in {"provider", "done", "lost"}
    /\ req[r].outcome \in {"none", "confirmed", "rejected", "unknown"}
Confirmations(r) == req[r].outcome = "confirmed" => req[r].by \in delivered

(* Whoever can call the provider, or did, saw the gate open at its last    *)
(* look; whoever is about to look, will.                                   *)
Looked(r) ==
  /\ req[r].pc \in {"call", "provider"} \/ r \in wire \union delivered
     => r \in openSince
  /\ req[r].pc = "gate" /\ gateOpen => r \in openSince

Requested(r) ==
  Asks(r) /\ Undecided(r) /\ AtWork(r) /\ Waits(r) /\ Answers(r)
Effects(r) == Acted(r) /\ Confirmations(r) /\ Looked(r)

IInv ==
  /\ Types /\ Bounded
  /\ \A r \in Requests : Requested(r) /\ Effects(r)
  /\ \A p \in Routes : \A k \in DOMAIN cache[p] : Belongs(p, k)

-----------------------------------------------------------------------------
(* How a step changes one request: the others keep their rows.             *)
Alone(r) == \A s \in Requests : s # r => req'[s] = req[s]
Moved(r, pc, outcome) ==
  /\ req'[r].route = req[r].route /\ req'[r].key = req[r].key
  /\ req'[r].body = req[r].body /\ req'[r].by = req[r].by
  /\ req'[r].pc = pc /\ req'[r].outcome = outcome
Arrived(r, p, k, b, pc, by, outcome) ==
  /\ req'[r].route = p /\ req'[r].key = k /\ req'[r].body = b
  /\ req'[r].by = by /\ req'[r].pc = pc /\ req'[r].outcome = outcome

\* A step that writes the row of one request.
LEMMA NewRow ==
  ASSUME Rows, NEW r \in Requests, NEW row \in Row, req' = [req EXCEPT ![r] = row]
  PROVE  Rows' /\ Alone(r) /\ req'[r] = row
BY DEF Rows, Alone

\* A request ends with an outcome.
LEMMA FinishRow ==
  ASSUME Rows, NEW r \in Requests, NEW o \in Outcome, req' = Finish(r, o)
  PROVE  Rows' /\ Alone(r) /\ Moved(r, "done", o)
<1> DEFINE row == [req[r] EXCEPT !.pc = "done", !.outcome = o]
<1>1. req[r] \in Row
  BY DEF Rows
<1>2. row \in Row /\ row.pc = "done" /\ row.outcome = o
  BY <1>1 DEF Row, PC
<1>3. row.route = req[r].route /\ row.key = req[r].key
      /\ row.body = req[r].body /\ row.by = req[r].by
  BY <1>1 DEF Row
<1>4. req' = [req EXCEPT ![r] = row]
  BY DEF Finish
<1> HIDE DEF row
<1> QED BY <1>2, <1>3, <1>4, NewRow DEF Moved

\* A request goes on to its next await.
LEMMA GotoRow ==
  ASSUME Rows, NEW r \in Requests, NEW pc \in PC, req' = Goto(r, pc)
  PROVE  Rows' /\ Alone(r) /\ Moved(r, pc, req[r].outcome)
<1> DEFINE row == [req[r] EXCEPT !.pc = pc]
<1>1. req[r] \in Row
  BY DEF Rows
<1>2. row \in Row /\ row.pc = pc /\ row.outcome = req[r].outcome
  BY <1>1 DEF Row
<1>3. row.route = req[r].route /\ row.key = req[r].key
      /\ row.body = req[r].body /\ row.by = req[r].by
  BY <1>1 DEF Row
<1>4. req' = [req EXCEPT ![r] = row]
  BY DEF Goto
<1> HIDE DEF row
<1> QED BY <1>2, <1>3, <1>4, NewRow DEF Moved

\* A request that is answered when it arrives.
LEMMA AnsweredRow ==
  ASSUME Rows, NEW r \in Requests, NEW p \in Routes, NEW k \in Keys,
         NEW b \in Bodies, NEW o \in Outcome, Answered(r, p, k, b, o)
  PROVE  Rows' /\ Alone(r) /\ Arrived(r, p, k, b, "done", req[r].by, o)
<1> DEFINE row == [req[r] EXCEPT !.route = p, !.key = k, !.body = b,
                                 !.pc = "done", !.outcome = o]
<1>1. req[r] \in Row
  BY DEF Rows
<1>2. row \in Row
  BY <1>1 DEF Row, PC
<1>3. row.route = p /\ row.key = k /\ row.body = b /\ row.by = req[r].by
      /\ row.pc = "done" /\ row.outcome = o
  BY <1>1 DEF Row
<1>4. req' = [req EXCEPT ![r] = row]
  BY DEF Answered
<1> HIDE DEF row
<1> QED BY <1>2, <1>3, <1>4, NewRow DEF Arrived

\* A request that arrives and has to wait or to work.
LEMMA AdmittedRow ==
  ASSUME Rows, NEW r \in Requests, NEW p \in Routes, NEW k \in Keys,
         NEW b \in Bodies, NEW pc \in PC, Admitted(r, p, k, b, pc)
  PROVE  Rows' /\ Alone(r) /\ Arrived(r, p, k, b, pc, req[r].by, req[r].outcome)
<1> DEFINE row == [req[r] EXCEPT !.route = p, !.key = k, !.body = b, !.pc = pc]
<1>1. req[r] \in Row
  BY DEF Rows
<1>2. row \in Row
  BY <1>1 DEF Row
<1>3. row.route = p /\ row.key = k /\ row.body = b /\ row.by = req[r].by
      /\ row.pc = pc /\ row.outcome = req[r].outcome
  BY <1>1 DEF Row
<1>4. req' = [req EXCEPT ![r] = row]
  BY DEF Admitted
<1> HIDE DEF row
<1> QED BY <1>2, <1>3, <1>4, NewRow DEF Arrived

(* A request that joins an execution in the cache.                         *)
LEMMA JoinedRow ==
  ASSUME Rows, NEW r \in Requests, NEW p \in Routes, NEW k \in Keys,
         NEW b \in Bodies, NEW q \in Requests,
         req' = [req EXCEPT ![r] = [@ EXCEPT !.route = p, !.key = k,
                   !.body = b, !.pc = "await", !.by = q]]
  PROVE  Rows' /\ Alone(r) /\ Arrived(r, p, k, b, "await", q, req[r].outcome)
<1> DEFINE row == [req[r] EXCEPT !.route = p, !.key = k, !.body = b,
                                 !.pc = "await", !.by = q]
<1>1. req[r] \in Row
  BY DEF Rows
<1>2. row \in Row
  BY <1>1 DEF Row, PC
<1>3. row.route = p /\ row.key = k /\ row.body = b /\ row.by = q
      /\ row.pc = "await" /\ row.outcome = req[r].outcome
  BY <1>1 DEF Row
<1>4. req' = [req EXCEPT ![r] = row]
  OBVIOUS
<1> HIDE DEF row
<1> QED BY <1>2, <1>3, <1>4, NewRow DEF Arrived

\* At first nothing was asked and the caches are empty.
LEMMA InitInv == Init => IInv
<1> SUFFICES ASSUME Init PROVE IInv
  OBVIOUS
<1>1. Rows
  BY DEF Init, Unsent, Rows, Row, PC, Outcome
<1>2. Caches
  BY DEF Init, Empty, Caches, CacheEntry, Routes
<1>3. Counts /\ World
  BY DeliveryAssumption DEF Init, Counts, World
<1>4. Bounded
  <2> SUFFICES ASSUME NEW p \in Routes
               PROVE  IsFiniteSet(DOMAIN cache[p]) /\ Cardinality(DOMAIN cache[p]) <= MaxEntries[p]
    BY DEF Bounded
  <2>1. DOMAIN cache[p] = {}
    BY DEF Init, Empty
  <2>2. IsFiniteSet({}) /\ Cardinality({}) = 0
    BY FS_EmptySet
  <2>3. MaxEntries[p] \in Nat
    BY DeliveryAssumption
  <2> QED BY <2>1, <2>2, <2>3
<1>5. ASSUME NEW r \in Requests PROVE Requested(r) /\ Effects(r)
  <2>1. req[r].pc = "new" /\ req[r].by = r /\ req[r].outcome = "none"
        /\ req[r].route = "none"
    BY DEF Init, Unsent
  <2>2. r \notin wire \union delivered
    BY DEF Init
  <2>3. Requested(r)
    BY <2>1 DEF Requested, Asks, Undecided, AtWork, Waits, Answers, Working
  <2>4. Effects(r)
    BY <2>1, <2>2 DEF Effects, Acted, Confirmations, Looked
  <2> QED BY <2>3, <2>4
<1>6. ASSUME NEW p \in Routes, NEW k \in DOMAIN cache[p] PROVE FALSE
  BY DEF Init, Empty
<1> QED BY <1>1, <1>2, <1>3, <1>4, <1>5, <1>6 DEF IInv, Types

-----------------------------------------------------------------------------
(* How a step changes a cache.                                             *)

\* Pruning leaves of a cache exactly what it keeps, unchanged.
LEMMA KeptEntries ==
  ASSUME Caches, Bounded, NEW p \in Routes, NEW K \in SUBSET DOMAIN cache[p],
         Keep(p, K)
  PROVE  /\ Caches' /\ Bounded'
         /\ DOMAIN cache'[p] = K
         /\ \A k \in K : cache'[p][k] = cache[p][k]
         /\ \A q \in Routes : q # p => cache'[q] = cache[q]
<1>1. DOMAIN cache' = Routes /\ \A q \in Routes : q # p => cache'[q] = cache[q]
  BY DEF Caches, Keep
<1>2. cache'[p] = [k \in K |-> cache[p][k]]
  BY DEF Caches, Keep
<1>3. IsFiniteSet(K) /\ Cardinality(K) <= Cardinality(DOMAIN cache[p])
  BY FS_Subset DEF Bounded
<1>4. MaxEntries[p] \in Nat /\ Cardinality(DOMAIN cache[p]) \in Nat /\ Cardinality(K) \in Nat
  BY <1>3, DeliveryAssumption, FS_CardinalityType DEF Bounded
<1>5. Bounded'
  <2> SUFFICES ASSUME NEW q \in Routes
               PROVE  IsFiniteSet(DOMAIN cache'[q]) /\ Cardinality(DOMAIN cache'[q]) <= MaxEntries[q]
    BY DEF Bounded
  <2>1. CASE q = p
    BY <2>1, <1>2, <1>3, <1>4 DEF Bounded
  <2>2. CASE q # p
    BY <2>2, <1>1 DEF Bounded
  <2> QED BY <2>1, <2>2
<1>6. Caches'
  <2> SUFFICES ASSUME NEW q \in Routes
               PROVE  DOMAIN cache'[q] \subseteq Keys /\ cache'[q] \in [DOMAIN cache'[q] -> CacheEntry]
    BY <1>1 DEF Caches
  <2>1. CASE q = p
    BY <2>1, <1>2 DEF Caches
  <2>2. CASE q # p
    BY <2>2, <1>1 DEF Caches
  <2> QED BY <2>1, <2>2
<1> QED BY <1>1, <1>2, <1>5, <1>6

\* The entry of a new execution is an entry.
LEMMA EntryType ==
  ASSUME Types, NEW r \in Requests, NEW p \in Routes, NEW b \in Bodies,
         NEW kept \in SUBSET DOMAIN cache[p]
  PROVE  NewEntry(r, p, b, kept) \in CacheEntry
<1>1. now + TTL \in Nat
  BY DeliveryAssumption DEF Types, World
<1>2. {cache[p][k].by : k \in kept} \in SUBSET Requests
  BY DEF Types, Caches, CacheEntry
<1> QED BY <1>1, <1>2 DEF NewEntry, CacheEntry

\* Insertion adds one entry that is not settled, within the cache's limit.
LEMMA InsertedEntry ==
  ASSUME Types, Bounded, NEW r \in Requests, NEW p \in Routes, NEW k \in Keys,
         NEW b \in Bodies, NEW kept \in SUBSET DOMAIN cache[p],
         k \notin kept, Cardinality(kept) < MaxEntries[p],
         Insert(r, p, k, b, kept)
  PROVE  /\ Caches' /\ Bounded'
         /\ DOMAIN cache'[p] = kept \union {k}
         /\ \A j \in kept : cache'[p][j] = cache[p][j]
         /\ cache'[p][k].by = r /\ cache'[p][k].body = b
         /\ ~cache'[p][k].settled
         /\ \A q \in Routes : q # p => cache'[q] = cache[q]
<1> DEFINE e == NewEntry(r, p, b, kept)
<1>1. e \in CacheEntry
  BY EntryType
<1>2. e.by = r /\ e.body = b /\ ~e.settled
  BY DEF NewEntry
<1>3. cache' = [cache EXCEPT ![p] = [j \in kept \union {k} |-> IF j = k THEN e ELSE cache[p][j]]]
  BY DEF Insert, Caches, Types
<1> HIDE DEF e
<1>4. DOMAIN cache' = Routes /\ \A q \in Routes : q # p => cache'[q] = cache[q]
  BY <1>3 DEF Caches, Types
<1>5. cache'[p] = [j \in kept \union {k} |-> IF j = k THEN e ELSE cache[p][j]]
  BY <1>3 DEF Caches, Types
<1>6. IsFiniteSet(kept)
  BY FS_Subset DEF Bounded
<1>7. IsFiniteSet(kept \union {k}) /\ Cardinality(kept \union {k}) = Cardinality(kept) + 1
  BY <1>6, FS_AddElement
<1>8. MaxEntries[p] \in Nat /\ Cardinality(kept) \in Nat
  BY <1>6, DeliveryAssumption, FS_CardinalityType
<1>9. Bounded'
  <2> SUFFICES ASSUME NEW q \in Routes
               PROVE  IsFiniteSet(DOMAIN cache'[q]) /\ Cardinality(DOMAIN cache'[q]) <= MaxEntries[q]
    BY DEF Bounded
  <2>1. CASE q = p
    BY <2>1, <1>5, <1>7, <1>8
  <2>2. CASE q # p
    BY <2>2, <1>4 DEF Bounded
  <2> QED BY <2>1, <2>2
<1>10. Caches'
  <2> SUFFICES ASSUME NEW q \in Routes
               PROVE  DOMAIN cache'[q] \subseteq Keys /\ cache'[q] \in [DOMAIN cache'[q] -> CacheEntry]
    BY <1>4 DEF Caches
  <2>1. CASE q = p
    BY <2>1, <1>1, <1>5 DEF Caches, Types
  <2>2. CASE q # p
    BY <2>2, <1>4 DEF Caches, Types
  <2> QED BY <2>1, <2>2
<1> QED BY <1>2, <1>4, <1>5, <1>9, <1>10

(* What settling changes: the entry of the execution, and nothing else.    *)
LEMMA SettledEntries ==
  ASSUME Types, Bounded, NEW r \in Requests, req[r].route \in Routes,
         NEW o \in Outcome, Settle(r, o)
  PROVE  /\ Caches' /\ Bounded'
         /\ \A p \in Routes :
              /\ DOMAIN cache'[p] = DOMAIN cache[p]
              /\ \A k \in DOMAIN cache[p] :
                   /\ cache'[p][k].by = cache[p][k].by
                   /\ cache'[p][k].body = cache[p][k].body
                   /\ cache'[p][k].settled
                        <=> cache[p][k].settled \/ (p = req[r].route /\ cache[p][k].by = r)
<1> DEFINE p0 == req[r].route
           done(k) == [cache[p0][k] EXCEPT !.settled = TRUE, !.expiresAt = now + TTL]
           es == [k \in DOMAIN cache[p0] |-> IF cache[p0][k].by = r THEN done(k) ELSE cache[p0][k]]
<1>1. now + TTL \in Nat
  BY DeliveryAssumption DEF Types, World
<1>2. ASSUME NEW k \in DOMAIN cache[p0]
      PROVE  /\ es[k] \in CacheEntry /\ es[k].by = cache[p0][k].by
             /\ es[k].body = cache[p0][k].body
             /\ es[k].settled <=> cache[p0][k].settled \/ cache[p0][k].by = r
  <2>1. cache[p0][k] \in CacheEntry
    BY DEF Types, Caches
  <2>2. done(k) \in CacheEntry /\ done(k).by = cache[p0][k].by
        /\ done(k).body = cache[p0][k].body /\ done(k).settled = TRUE
    BY <2>1, <1>1 DEF CacheEntry
  <2>3. CASE cache[p0][k].by = r
    <3>1. es[k] = done(k)
      BY <2>3
    <3> QED BY <2>2, <2>3, <3>1
  <2>4. CASE cache[p0][k].by # r
    <3>1. es[k] = cache[p0][k]
      BY <2>4
    <3> QED BY <2>1, <2>4, <3>1
  <2> QED BY <2>3, <2>4
<1>3. cache' = [cache EXCEPT ![p0] = es]
  BY DEF Settle, Types, Caches
<1>4. DOMAIN es = DOMAIN cache[p0]
  OBVIOUS
<1>5. es \in [DOMAIN cache[p0] -> CacheEntry]
  BY <1>2
<1> HIDE DEF es
<1>6. DOMAIN cache' = Routes /\ cache'[p0] = es /\ \A q \in Routes : q # p0 => cache'[q] = cache[q]
  BY <1>3 DEF Types, Caches
<1>7. Caches'
  <2> SUFFICES ASSUME NEW q \in Routes
               PROVE  DOMAIN cache'[q] \subseteq Keys /\ cache'[q] \in [DOMAIN cache'[q] -> CacheEntry]
    BY <1>6 DEF Caches
  <2>1. CASE q = p0
    BY <2>1, <1>4, <1>5, <1>6 DEF Caches, Types
  <2>2. CASE q # p0
    BY <2>2, <1>6 DEF Caches, Types
  <2> QED BY <2>1, <2>2
<1>8. \A p \in Routes : DOMAIN cache'[p] = DOMAIN cache[p]
  BY <1>4, <1>6
<1>9. Bounded'
  BY <1>8 DEF Bounded
<1>10. ASSUME NEW p \in Routes, NEW k \in DOMAIN cache[p]
       PROVE  /\ cache'[p][k].by = cache[p][k].by
              /\ cache'[p][k].body = cache[p][k].body
              /\ cache'[p][k].settled
                   <=> cache[p][k].settled \/ (p = p0 /\ cache[p][k].by = r)
  <2>1. CASE p = p0
    BY <2>1, <1>2, <1>6
  <2>2. CASE p # p0
    BY <2>2, <1>6
  <2> QED BY <2>1, <2>2
<1> QED BY <1>7, <1>8, <1>9, <1>10

-----------------------------------------------------------------------------
(* What every step owes, apart from what it does to the world around.      *)

Ledger ==
  /\ Rows /\ Caches /\ Counts /\ Bounded
  /\ \A r \in Requests : Requested(r)
  /\ \A p \in Routes : \A k \in DOMAIN cache[p] : Belongs(p, k)

(* The rows an entry and a request point to.                               *)
LEMMA Typing ==
  ASSUME Types
  PROVE  /\ \A r \in Requests :
              /\ req[r].by \in Requests /\ req[r].pc \in PC
              /\ req[r].outcome \in Outcome
         /\ \A p \in Routes : \A k \in DOMAIN cache[p] :
              /\ k \in Keys /\ cache[p][k].by \in Requests
              /\ cache[p][k].settled \in BOOLEAN /\ cache[p][k].body \in Bodies
BY DEF Types, Rows, Row, Caches, CacheEntry

\* An execution that settles gives its receipt to its entry.
LEMMA SettleKeeps ==
  ASSUME IInv, NEW r \in Requests, NEW o \in Kept, req[r].pc \in Working,
         Settle(r, o)
  PROVE  Ledger' /\ Alone(r) /\ Moved(r, "done", o)
<1>1. o \in Outcome /\ Types /\ Bounded
  BY DEF Kept, Outcome, IInv
<1>2. Rows' /\ Alone(r) /\ Moved(r, "done", o)
  BY <1>1, FinishRow DEF Settle, Types
<1>3. Requested(r)
  BY DEF IInv
<1>4. /\ req[r].by = r /\ req[r].route \in Routes
      /\ req[r].key \in Keys /\ req[r].body \in Bodies
  BY <1>3 DEF Requested, Asks, AtWork, Working
<1>5. /\ Caches' /\ Bounded'
      /\ \A p \in Routes :
           /\ DOMAIN cache'[p] = DOMAIN cache[p]
           /\ \A k \in DOMAIN cache[p] :
                /\ cache'[p][k].by = cache[p][k].by
                /\ cache'[p][k].body = cache[p][k].body
                /\ cache'[p][k].settled
                     <=> cache[p][k].settled \/ (p = req[r].route /\ cache[p][k].by = r)
  BY <1>1, <1>4, SettledEntries
<1>6. Counts' /\ calls' = calls
  BY <1>1 DEF Settle, Types, Counts
<1>7. ASSUME NEW s \in Requests PROVE Requested(s)'
  <2>1. Requested(s) /\ req[s].by \in Requests
    BY <1>1, Typing DEF IInv
  <2>2. CASE s = r
    BY <1>2, <1>3, <1>4, <2>2
       DEF Requested, Asks, Undecided, AtWork, Waits, Answers, Same, Moved, Working,
           Kept, Receipt
  <2>3. CASE s # r
    <3>1. req'[s] = req[s]
      BY <1>2, <2>3 DEF Alone
    <3>2. Asks(s)' /\ Undecided(s)'
      BY <2>1, <3>1 DEF Requested, Asks, Undecided
    <3>3. AtWork(s)'
      BY <2>1, <3>1, <1>5, <1>6, <2>3 DEF Requested, Asks, AtWork, Working
    <3>4. req[s].by # r => req'[req[s].by] = req[req[s].by]
      BY <1>2, <2>1 DEF Alone
    <3>5. Waits(s)'
      <4> SUFFICES ASSUME req[s].pc = "await" PROVE Waits(s)'
        BY <3>1 DEF Waits
      <4>1. CASE req[s].by = r
        BY <4>1, <2>1, <3>1, <1>2 DEF Requested, Waits, Same, Moved, Kept, Receipt
      <4>2. CASE req[s].by # r
        BY <4>2, <2>1, <3>1, <3>4 DEF Requested, Waits, Same
      <4> QED BY <4>1, <4>2
    <3>6. Answers(s)'
      <4>1. CASE req[s].by = r
        BY <4>1, <2>1, <2>3, <3>1, <1>2 DEF Requested, Answers, Working
      <4>2. CASE req[s].by # r
        BY <4>2, <2>1, <3>1, <3>4 DEF Requested, Answers, Same
      <4> QED BY <4>1, <4>2
    <3> QED BY <3>2, <3>3, <3>5, <3>6 DEF Requested
  <2> QED BY <2>2, <2>3
<1>8. ASSUME NEW p \in Routes, NEW k \in DOMAIN cache'[p] PROVE Belongs(p, k)'
  <2>1. k \in DOMAIN cache[p] /\ Belongs(p, k) /\ cache[p][k].by \in Requests
    BY <1>1, <1>5, Typing DEF IInv
  <2>2. CASE cache[p][k].by = r
    BY <2>1, <2>2, <1>2, <1>5 DEF Belongs, Moved
  <2>3. CASE cache[p][k].by # r
    BY <2>1, <2>3, <1>2, <1>5 DEF Belongs, Alone
  <2> QED BY <2>2, <2>3
<1> QED BY <1>2, <1>5, <1>6, <1>7, <1>8 DEF Ledger

\* An execution that fails its validation leaves the cache.
LEMMA ThrowKeeps ==
  ASSUME IInv, NEW r \in Requests, req[r].pc \in Working, Throw(r)
  PROVE  Ledger' /\ Alone(r) /\ Moved(r, "done", "invalid")
<1> DEFINE p0 == req[r].route
           K == {k \in DOMAIN cache[p0] : cache[p0][k].by # r}
<1>1. "invalid" \in Outcome /\ Types /\ Bounded
  BY DEF Outcome, IInv
<1>2. Rows' /\ Alone(r) /\ Moved(r, "done", "invalid")
  BY <1>1, FinishRow DEF Throw, Types
<1>3. Requested(r)
  BY DEF IInv
<1>4. /\ req[r].by = r /\ p0 \in Routes
      /\ req[r].key \in Keys /\ req[r].body \in Bodies
  BY <1>3 DEF Requested, Asks, AtWork, Working
<1>5. /\ Caches' /\ Bounded'
      /\ DOMAIN cache'[p0] = K
      /\ \A k \in K : cache'[p0][k] = cache[p0][k]
      /\ \A q \in Routes : q # p0 => cache'[q] = cache[q]
  <2>1. Keep(p0, K)
    BY DEF Throw
  <2> QED BY <2>1, <1>1, <1>4, KeptEntries DEF Types
<1>6. Counts' /\ calls' = calls
  BY <1>1 DEF Throw, Types, Counts
<1>7. ASSUME NEW s \in Requests PROVE Requested(s)'
  <2>1. Requested(s) /\ req[s].by \in Requests
    BY <1>1, Typing DEF IInv
  <2>2. CASE s = r
    BY <1>2, <1>3, <1>4, <2>2
       DEF Requested, Asks, Undecided, AtWork, Waits, Answers, Same, Moved, Working, Receipt
  <2>3. CASE s # r
    <3>1. req'[s] = req[s]
      BY <1>2, <2>3 DEF Alone
    <3>2. Asks(s)' /\ Undecided(s)'
      BY <2>1, <3>1 DEF Requested, Asks, Undecided
    <3>3. AtWork(s)'
      <4> SUFFICES ASSUME req[s].pc \in Working PROVE AtWork(s)'
        BY <3>1 DEF AtWork
      <4>1. req[s].route \in Routes
        BY <2>1 DEF Requested, Asks, Working
      <4>2. CASE req[s].route = p0
        BY <4>2, <2>1, <3>1, <1>5, <1>6, <2>3 DEF Requested, AtWork
      <4>3. CASE req[s].route # p0
        BY <4>1, <4>3, <2>1, <3>1, <1>5, <1>6 DEF Requested, AtWork
      <4> QED BY <4>2, <4>3
    <3>4. req[s].by # r => req'[req[s].by] = req[req[s].by]
      BY <1>2, <2>1 DEF Alone
    <3>5. Waits(s)'
      <4> SUFFICES ASSUME req[s].pc = "await" PROVE Waits(s)'
        BY <3>1 DEF Waits
      <4>1. CASE req[s].by = r
        BY <4>1, <2>1, <3>1, <1>2 DEF Requested, Waits, Same, Moved, Receipt
      <4>2. CASE req[s].by # r
        BY <4>2, <2>1, <3>1, <3>4 DEF Requested, Waits, Same
      <4> QED BY <4>1, <4>2
    <3>6. Answers(s)'
      <4>1. CASE req[s].by = r
        BY <4>1, <2>1, <2>3, <3>1, <1>2 DEF Requested, Answers, Working
      <4>2. CASE req[s].by # r
        BY <4>2, <2>1, <3>1, <3>4 DEF Requested, Answers, Same
      <4> QED BY <4>1, <4>2
    <3> QED BY <3>2, <3>3, <3>5, <3>6 DEF Requested
  <2> QED BY <2>2, <2>3
<1>8. ASSUME NEW p \in Routes, NEW k \in DOMAIN cache'[p] PROVE Belongs(p, k)'
  <2>1. k \in DOMAIN cache[p] /\ cache'[p][k] = cache[p][k]
    BY <1>5
  <2>2. Belongs(p, k) /\ cache[p][k].by \in Requests
    BY <2>1, <1>1, Typing DEF IInv
  <2>3. cache[p][k].by # r
    BY <2>1, <2>2, <1>5, <1>4 DEF Belongs
  <2> QED BY <2>1, <2>2, <2>3, <1>2 DEF Belongs, Alone
<1> QED BY <1>2, <1>5, <1>6, <1>7, <1>8 DEF Ledger

(* A step of an execution that stays at work.                              *)
LEMMA WorkKeeps ==
  ASSUME IInv, NEW r \in Requests, req[r].pc \in Working,
         NEW pc \in Working, req' = Goto(r, pc), UNCHANGED cache, Counts',
         calls'[req[r].route][req[r].key] = IF pc = "provider" THEN 1 ELSE 0,
         \A p \in Routes, k \in Keys :
           p # req[r].route \/ k # req[r].key => calls'[p][k] = calls[p][k]
  PROVE  Ledger' /\ Alone(r) /\ Moved(r, pc, req[r].outcome)
<1>1. pc \in PC /\ Types /\ Bounded
  BY DEF PC, IInv
<1>2. Rows' /\ Alone(r) /\ Moved(r, pc, req[r].outcome)
  BY <1>1, GotoRow DEF Types
<1>3. Requested(r)
  BY DEF IInv
<1>4. Caches' /\ Bounded'
  BY <1>1 DEF Types, Caches, Bounded
<1>5. ASSUME NEW s \in Requests PROVE Requested(s)'
  <2>1. Requested(s) /\ req[s].by \in Requests
    BY <1>1, Typing DEF IInv
  <2>2. CASE s = r
    BY <1>2, <1>3, <2>2
       DEF Requested, Asks, Undecided, AtWork, Waits, Answers, Moved, Working
  <2>3. CASE s # r
    <3>1. req'[s] = req[s]
      BY <1>2, <2>3 DEF Alone
    <3>2. Asks(s)' /\ Undecided(s)'
      BY <2>1, <3>1 DEF Requested, Asks, Undecided
    <3>3. AtWork(s)'
      BY <2>1, <3>1, <1>3, <2>3 DEF Requested, Asks, AtWork, Working
    <3>4. req[s].by # r => req'[req[s].by] = req[req[s].by]
      BY <1>2, <2>1 DEF Alone
    <3>5. Waits(s)'
      BY <2>1, <3>1, <3>4, <1>2 DEF Requested, Waits, Same, Moved
    <3>6. Answers(s)'
      BY <2>1, <2>3, <3>1, <3>4, <1>2 DEF Requested, Answers, Same, Working
    <3> QED BY <3>2, <3>3, <3>5, <3>6 DEF Requested
  <2> QED BY <2>2, <2>3
<1>6. ASSUME NEW p \in Routes, NEW k \in DOMAIN cache'[p] PROVE Belongs(p, k)'
  <2>1. k \in DOMAIN cache[p] /\ Belongs(p, k) /\ cache[p][k].by \in Requests
    BY <1>1, Typing DEF IInv
  <2>2. CASE cache[p][k].by = r
    BY <2>1, <2>2, <1>2 DEF Belongs, Moved, Working
  <2>3. CASE cache[p][k].by # r
    BY <2>1, <2>3, <1>2 DEF Belongs, Alone
  <2> QED BY <2>2, <2>3
<1> QED BY <1>2, <1>4, <1>5, <1>6 DEF Ledger

(* Nobody depends on a request that has no execution of its own.           *)
LEMMA NobodyWaitsFor ==
  ASSUME IInv, NEW r \in Requests, req[r].pc \in {"new", "await"}
  PROVE  /\ \A s \in Requests : s # r /\ req[s].pc # "lost" => req[s].by # r
         /\ \A p \in Routes : \A k \in DOMAIN cache[p] : cache[p][k].by # r
<1>1. ASSUME NEW s \in Requests, s # r, req[s].pc # "lost" PROVE req[s].by # r
  <2>1. Requested(s) /\ req[s].pc \in PC
    BY Typing DEF IInv
  <2> QED BY <1>1, <2>1
          DEF Requested, Asks, AtWork, Waits, Answers, Working, PC
<1>2. ASSUME NEW p \in Routes, NEW k \in DOMAIN cache[p] PROVE cache[p][k].by # r
  <2>1. Belongs(p, k)
    BY DEF IInv
  <2> QED BY <2>1 DEF Belongs, Working
<1> QED BY <1>1, <1>2

(* A step of such a request: it may add an entry of its own and forget     *)
(* entries that have settled.                                              *)
LEMMA NewcomerKeeps ==
  ASSUME IInv, NEW r \in Requests, req[r].pc \in {"new", "await"},
         Rows', Alone(r), Caches', Counts', Bounded', Requested(r)',
         \A s \in Requests : s # r => AtWork(s)',
         \A p \in Routes : \A k \in DOMAIN cache'[p] :
           (k \in DOMAIN cache[p] /\ cache'[p][k] = cache[p][k]) \/ Belongs(p, k)'
  PROVE  Ledger'
<1>1. ASSUME NEW s \in Requests PROVE Requested(s)'
  <2>1. CASE s = r
    BY <2>1
  <2>2. CASE s # r
    <3>1. req'[s] = req[s] /\ Requested(s) /\ req[s].by \in Requests
      BY <2>2, Typing DEF Alone, IInv
    <3>2. req[s].pc # "lost" => req'[req[s].by] = req[req[s].by]
      BY <3>1, <2>2, NobodyWaitsFor DEF Alone
    <3>3. Asks(s)' /\ Undecided(s)'
      BY <3>1 DEF Requested, Asks, Undecided
    <3>4. Waits(s)' /\ Answers(s)'
      BY <3>1, <3>2 DEF Requested, Waits, Answers, Same
    <3> QED BY <2>2, <3>3, <3>4 DEF Requested
  <2> QED BY <2>1, <2>2
<1>2. ASSUME NEW p \in Routes, NEW k \in DOMAIN cache'[p] PROVE Belongs(p, k)'
  <2> SUFFICES ASSUME k \in DOMAIN cache[p], cache'[p][k] = cache[p][k]
               PROVE  Belongs(p, k)'
    OBVIOUS
  <2>1. Belongs(p, k) /\ cache[p][k].by \in Requests /\ cache[p][k].by # r
    BY Typing, NobodyWaitsFor DEF IInv
  <2> QED BY <2>1 DEF Belongs, Alone
<1> QED BY <1>1, <1>2 DEF Ledger

-----------------------------------------------------------------------------
(* The arrival of a request.                                               *)

\* The key of an execution at work is not pruned: it is not settled.
LEMMA WorkIsHeld ==
  ASSUME IInv, NEW s \in Requests, req[s].pc \in Working
  PROVE  LET p == req[s].route
             k == req[s].key
         IN /\ p \in Routes /\ k \in Keys /\ k \in Held(p)
            /\ cache[p][k].by = s /\ ~cache[p][k].settled
<1>1. Requested(s)
  BY DEF IInv
<1> DEFINE p == req[s].route
           k == req[s].key
<1>2. p \in Routes /\ k \in Keys /\ k \in DOMAIN cache[p] /\ cache[p][k].by = s
  BY <1>1 DEF Requested, Asks, AtWork, Working
<1>3. Belongs(p, k)
  BY <1>2 DEF IInv
<1>4. ~cache[p][k].settled
  BY <1>2, <1>3 DEF Belongs, Working
<1> QED BY <1>2, <1>4 DEF Held, Expired

(* Forgetting entries that have settled disturbs no execution.             *)
LEMMA OthersAtWork ==
  ASSUME IInv, NEW r \in Requests, NEW s \in Requests, s # r, Alone(r),
         NEW p \in Routes, NEW K \in SUBSET DOMAIN cache[p],
         \A k \in Held(p) : cache[p][k].settled \/ k \in K,
         K \subseteq DOMAIN cache'[p],
         \A k \in K : cache'[p][k] = cache[p][k] /\ calls'[p][k] = calls[p][k],
         \A q \in Routes : q # p => cache'[q] = cache[q] /\ calls'[q] = calls[q]
  PROVE  AtWork(s)'
<1> SUFFICES ASSUME req[s].pc \in Working PROVE AtWork(s)'
  BY DEF Alone, AtWork
<1>1. req'[s] = req[s] /\ AtWork(s)
  BY DEF Alone, IInv, Requested
<1>2. /\ req[s].route \in Routes /\ req[s].key \in Held(req[s].route)
      /\ ~cache[req[s].route][req[s].key].settled
  BY WorkIsHeld
<1>3. CASE req[s].route = p
  <2>1. req[s].key \in K
    BY <1>2, <1>3
  <2> QED BY <1>1, <1>3, <2>1 DEF AtWork
<1>4. CASE req[s].route # p
  BY <1>1, <1>2, <1>4 DEF AtWork
<1> QED BY <1>3, <1>4

Arrives(r) ==
  /\ Ledger' /\ Alone(r)
  /\ req'[r].pc \in {"done", "await", "status", "gate"}
  /\ req'[r].outcome # "confirmed"

(* A request answered at once, its process having tidied its cache.        *)
LEMMA AnsweredArrives ==
  ASSUME IInv, NEW r \in Requests, req[r].pc = "new",
         NEW p \in Routes, NEW k \in Keys, NEW b \in Bodies,
         NEW o \in {"invalid", "conflict", "full"}, Answered(r, p, k, b, o),
         UNCHANGED cache \/ Keep(p, Held(p)), UNCHANGED calls
  PROVE  Arrives(r)
<1>1. o \in Outcome /\ Types /\ Bounded /\ Requested(r)
  BY DEF Outcome, IInv
<1>2. Rows' /\ Alone(r) /\ Arrived(r, p, k, b, "done", req[r].by, o)
  BY <1>1, AnsweredRow DEF Types
<1>3. req[r].by = r
  BY <1>1 DEF Requested, Asks
<1>4. Requested(r)'
  BY <1>2, <1>3 DEF Requested, Asks, Undecided, AtWork, Waits, Answers, Same,
                    Arrived, Working, Receipt
<1>5. Counts'
  BY <1>1 DEF Types, Counts
<1>6. Held(p) \subseteq DOMAIN cache[p]
  BY DEF Held
<1>7. CASE UNCHANGED cache
  <2>1. Caches' /\ Bounded'
    BY <1>1, <1>7 DEF Types, Caches, Bounded
  <2>2. \A s \in Requests : s # r => AtWork(s)'
    BY <1>2, <1>6, <1>7, OthersAtWork
  <2>3. \A q \in Routes : \A j \in DOMAIN cache'[q] :
          j \in DOMAIN cache[q] /\ cache'[q][j] = cache[q][j]
    BY <1>7
  <2>4. Ledger'
    BY <1>2, <1>4, <1>5, <2>1, <2>2, <2>3, NewcomerKeeps
  <2> QED BY <1>2, <2>4 DEF Arrives, Arrived
<1>8. CASE Keep(p, Held(p))
  <2>1. /\ Caches' /\ Bounded' /\ DOMAIN cache'[p] = Held(p)
        /\ \A j \in Held(p) : cache'[p][j] = cache[p][j]
        /\ \A q \in Routes : q # p => cache'[q] = cache[q]
    BY <1>1, <1>6, <1>8, KeptEntries DEF Types
  <2>2. \A s \in Requests : s # r => AtWork(s)'
    BY <1>2, <1>6, <2>1, OthersAtWork
  <2>3. \A q \in Routes : \A j \in DOMAIN cache'[q] :
          j \in DOMAIN cache[q] /\ cache'[q][j] = cache[q][j]
    BY <1>6, <2>1
  <2>4. Ledger'
    BY <1>2, <1>4, <1>5, <2>1, <2>2, <2>3, NewcomerKeeps
  <2> QED BY <1>2, <2>4 DEF Arrives, Arrived
<1> QED BY <1>7, <1>8

\* A request for a known key waits, is answered or is refused.
LEMMA ReplayArrives ==
  ASSUME IInv, NEW r \in Requests, req[r].pc = "new",
         NEW p \in Routes, NEW k \in Keys, NEW b \in Bodies, Replay(r, p, k, b)
  PROVE  Arrives(r)
<1>1. Types /\ Bounded /\ Requested(r)
  BY DEF IInv
<1>2. CASE ~SameRequest(cache[p][k], b)
  BY <1>2, AnsweredArrives DEF Replay
<1>3. CASE SameRequest(cache[p][k], b)
  <2> DEFINE q == cache[p][k].by
  <2>1. k \in DOMAIN cache[p] /\ cache[p][k].body = b
    BY <1>3 DEF Replay, Held, SameRequest
  <2>2. q \in Requests /\ q # r /\ Belongs(p, k)
    BY <1>1, <2>1, Typing, NobodyWaitsFor DEF IInv
  <2>3. Rows' /\ Alone(r) /\ Arrived(r, p, k, b, "await", q, req[r].outcome)
    <3>1. req' = [req EXCEPT ![r] = [@ EXCEPT !.route = p, !.key = k,
                    !.body = b, !.pc = "await", !.by = q]]
      BY <1>3 DEF Replay
    <3> QED BY <1>1, <2>2, <3>1, JoinedRow DEF Types
  <2>4. req[r].outcome = "none"
    BY <1>1 DEF Requested, Undecided
  <2>5. req'[q] = req[q]
    BY <2>2, <2>3 DEF Alone
  <2>6. Requested(r)'
    BY <2>1, <2>2, <2>3, <2>4, <2>5
       DEF Requested, Asks, Undecided, AtWork, Waits, Answers, Same, Belongs,
           Arrived, Working, Receipt
  <2>7. Held(p) \subseteq DOMAIN cache[p]
    BY DEF Held
  <2>8. /\ Caches' /\ Bounded' /\ DOMAIN cache'[p] = Held(p)
        /\ \A j \in Held(p) : cache'[p][j] = cache[p][j]
        /\ \A x \in Routes : x # p => cache'[x] = cache[x]
    BY <1>1, <2>7, KeptEntries DEF Types, Replay
  <2>9. calls' = calls /\ Counts'
    BY <1>1 DEF Types, Counts, Replay
  <2>10. \A s \in Requests : s # r => AtWork(s)'
    BY <2>3, <2>7, <2>8, <2>9, OthersAtWork
  <2>11. \A x \in Routes : \A j \in DOMAIN cache'[x] :
           j \in DOMAIN cache[x] /\ cache'[x][j] = cache[x][j]
    BY <2>7, <2>8
  <2>12. Ledger'
    BY <2>3, <2>6, <2>8, <2>9, <2>10, <2>11, NewcomerKeeps
  <2> QED BY <2>3, <2>4, <2>12 DEF Arrives, Arrived
<1> QED BY <1>2, <1>3

(* Where an execution goes: what is kept leaves room for its entry.        *)
LEMMA RoomMade ==
  ASSUME Types, Bounded, NEW r \in Requests, NEW p \in Routes, NEW k \in Keys,
         NEW b \in Bodies, Execute(r, p, k, b)
  PROVE  \E kept \in SUBSET Held(p) :
           /\ Cardinality(kept) < MaxEntries[p]
           /\ \A j \in Held(p) : cache[p][j].settled \/ j \in kept
           /\ Insert(r, p, k, b, kept)
<1>1. CASE HasRoom(p) /\ Insert(r, p, k, b, Held(p))
  BY <1>1 DEF HasRoom
<1>2. ASSUME NEW j \in Evictable(p), Insert(r, p, k, b, Held(p) \ {j})
      PROVE  Cardinality(Held(p) \ {j}) < MaxEntries[p]
             /\ \A i \in Held(p) : cache[p][i].settled \/ i \in Held(p) \ {j}
  <2>1. Held(p) \subseteq DOMAIN cache[p] /\ j \in Held(p) /\ cache[p][j].settled
    BY DEF Held, Evictable
  <2>2. IsFiniteSet(Held(p)) /\ Cardinality(Held(p)) <= Cardinality(DOMAIN cache[p])
    BY <2>1, FS_Subset DEF Bounded
  <2>3. Cardinality(Held(p) \ {j}) = Cardinality(Held(p)) - 1
    BY <2>1, <2>2, FS_RemoveElement
  <2>4. Cardinality(Held(p)) \in Nat /\ Cardinality(DOMAIN cache[p]) \in Nat
        /\ MaxEntries[p] \in Nat
    BY <2>2, FS_CardinalityType, DeliveryAssumption DEF Bounded
  <2>5. Cardinality(Held(p) \ {j}) < MaxEntries[p]
    BY <2>2, <2>3, <2>4 DEF Bounded
  <2> QED BY <2>1, <2>5
<1> QED BY <1>1, <1>2 DEF Execute

\* A request for a key that is not known executes, or finds no room.
LEMMA ExecuteArrives ==
  ASSUME IInv, NEW r \in Requests, req[r].pc = "new",
         NEW p \in Routes, NEW k \in Keys, NEW b \in Bodies, Execute(r, p, k, b)
  PROVE  Arrives(r)
<1>1. Types /\ Bounded /\ Requested(r)
  BY DEF IInv
<1>2. PICK kept \in SUBSET Held(p) :
        /\ Cardinality(kept) < MaxEntries[p]
        /\ \A j \in Held(p) : cache[p][j].settled \/ j \in kept
        /\ Insert(r, p, k, b, kept)
  BY <1>1, RoomMade
<1>3. kept \in SUBSET DOMAIN cache[p] /\ k \notin kept
  BY DEF Held, Execute
<1>4. /\ Caches' /\ Bounded'
      /\ DOMAIN cache'[p] = kept \union {k}
      /\ \A j \in kept : cache'[p][j] = cache[p][j]
      /\ cache'[p][k].by = r /\ cache'[p][k].body = b
      /\ ~cache'[p][k].settled
      /\ \A q \in Routes : q # p => cache'[q] = cache[q]
  <2>1. Cardinality(kept) < MaxEntries[p] /\ Insert(r, p, k, b, kept)
    BY <1>2
  <2>2. Types /\ Bounded
    BY <1>1
  <2>3. /\ Caches' /\ Bounded'
        /\ DOMAIN cache'[p] = kept \union {k}
        /\ \A j \in kept : cache'[p][j] = cache[p][j]
    BY ONLY <2>1, <2>2, <1>3, InsertedEntry, r \in Requests, p \in Routes, k \in Keys, b \in Bodies
  <2> QED BY <2>1, <2>2, <2>3, <1>3, InsertedEntry
<1>5. /\ Counts' /\ calls'[p][k] = 0
      /\ \A j \in Keys : j # k => calls'[p][j] = calls[p][j]
      /\ \A q \in Routes : q # p => calls'[q] = calls[q]
  BY <1>1 DEF Execute, Types, Counts
<1> DEFINE pc == IF p = "plan" THEN "status" ELSE "gate"
<1>6. pc \in {"status", "gate"}
  OBVIOUS
<1>7. Admitted(r, p, k, b, pc)
  BY DEF Execute
<1> HIDE DEF pc
<1>8. Rows' /\ Alone(r) /\ Arrived(r, p, k, b, pc, req[r].by, req[r].outcome)
  BY <1>1, <1>6, <1>7, AdmittedRow DEF Types, PC, Working
<1>9. req[r].by = r /\ req[r].outcome = "none"
  BY <1>1 DEF Requested, Asks, Undecided
<1>10. Requested(r)'
  BY <1>4, <1>5, <1>6, <1>8, <1>9
     DEF Requested, Asks, Undecided, AtWork, Waits, Answers, Arrived, Working
<1>11. \A j \in kept : j \in Keys /\ j # k
  BY <1>1, <1>3 DEF Types, Caches
<1>12. \A s \in Requests : s # r => AtWork(s)'
  BY <1>2, <1>3, <1>4, <1>5, <1>8, <1>11, OthersAtWork
<1>13. Belongs(p, k)'
  BY <1>4, <1>6, <1>8, <1>9 DEF Belongs, Arrived, Working
<1>14. \A q \in Routes : \A j \in DOMAIN cache'[q] :
         (j \in DOMAIN cache[q] /\ cache'[q][j] = cache[q][j]) \/ Belongs(q, j)'
  BY <1>3, <1>4, <1>13
<1>15. Ledger'
  BY <1>4, <1>5, <1>8, <1>10, <1>12, <1>14, NewcomerKeeps
<1> QED BY <1>6, <1>8, <1>9, <1>15 DEF Arrives, Arrived

\* A request arrives, by whichever of its branches.
LEMMA SubmitArrives ==
  ASSUME IInv, NEW r \in Requests, Submit(r)
  PROVE  Arrives(r)
<1>1. PICK p \in Routes, k \in Keys, b \in Bodies :
        Reject(r, p, k, b) \/ Replay(r, p, k, b)
        \/ Execute(r, p, k, b) \/ Saturated(r, p, k, b)
  BY DEF Submit
<1>2. req[r].pc = "new"
  BY DEF Submit
<1>3. CASE Reject(r, p, k, b)
  BY <1>2, <1>3, AnsweredArrives DEF Reject
<1>4. CASE Replay(r, p, k, b)
  BY <1>2, <1>4, ReplayArrives
<1>5. CASE Execute(r, p, k, b)
  BY <1>2, <1>5, ExecuteArrives
<1>6. CASE Saturated(r, p, k, b)
  BY <1>2, <1>6, AnsweredArrives DEF Saturated
<1> QED BY <1>1, <1>3, <1>4, <1>5, <1>6

-----------------------------------------------------------------------------
(* The end of a wait, and of a process.                                    *)

\* Who waited gets the outcome of the execution waited for.
LEMMA AwaitKeeps ==
  ASSUME IInv, NEW r \in Requests, Await(r)
  PROVE  /\ Ledger' /\ Alone(r)
         /\ Moved(r, "done", req[req[r].by].outcome)
<1> DEFINE q == req[r].by
<1>1. Types /\ Bounded /\ Requested(r) /\ q \in Requests /\ req[q].outcome \in Outcome
  BY Typing DEF IInv
<1>2. req[r].pc = "await" /\ req[q].outcome # "none"
  BY DEF Await
<1>3. Rows' /\ Alone(r) /\ Moved(r, "done", req[q].outcome)
  BY <1>1, FinishRow DEF Await, Types
<1>4. req[q].pc = "done" /\ req[q].outcome \in Receipt /\ req[q].by = q /\ Same(r, q)
  <2>1. Requested(q)
    BY <1>1 DEF IInv
  <2> QED BY <1>1, <1>2, <2>1 DEF Requested, Waits, Undecided, Working
<1>5. req'[q] = req[q]
  BY <1>1, <1>2, <1>3, <1>4 DEF Alone
<1>6. Requested(r)'
  BY <1>1, <1>2, <1>3, <1>4, <1>5
     DEF Requested, Asks, Undecided, AtWork, Waits, Answers, Same, Moved, Working
<1>7. cache' = cache /\ calls' = calls
  BY DEF Await
<1>8. Caches' /\ Bounded' /\ Counts'
  BY <1>1, <1>7 DEF Types, Caches, Bounded, Counts
<1>9. ASSUME NEW s \in Requests, s # r PROVE AtWork(s)'
  BY <1>3, <1>7, <1>9 DEF IInv, Requested, AtWork, Alone
<1>10. Ledger'
  BY <1>2, <1>3, <1>6, <1>7, <1>8, <1>9, NewcomerKeeps
<1> QED BY <1>3, <1>10

\* A restart loses the unfinished requests of its process and no others.
LEMMA RestartRows ==
  ASSUME Rows, NEW p \in Routes, Restart(p)
  PROVE  /\ Rows'
         /\ \A r \in Requests :
              IF req[r].route = p /\ req[r].pc # "done"
              THEN Moved(r, "lost", req[r].outcome) ELSE req'[r] = req[r]
<1> DEFINE row(r) == IF req[r].route = p /\ req[r].pc # "done"
                     THEN [req[r] EXCEPT !.pc = "lost"] ELSE req[r]
<1>1. req' = [r \in Requests |-> row(r)]
  BY DEF Restart
<1>2. ASSUME NEW r \in Requests
      PROVE  /\ row(r) \in Row
             /\ IF req[r].route = p /\ req[r].pc # "done"
                THEN /\ row(r).route = req[r].route /\ row(r).key = req[r].key
                     /\ row(r).body = req[r].body /\ row(r).by = req[r].by
                     /\ row(r).pc = "lost" /\ row(r).outcome = req[r].outcome
                ELSE row(r) = req[r]
  <2>1. req[r] \in Row
    BY DEF Rows
  <2>2. CASE req[r].route = p /\ req[r].pc # "done"
    <3>1. row(r) = [req[r] EXCEPT !.pc = "lost"]
      BY <2>2
    <3> HIDE DEF row
    <3> QED BY <2>1, <2>2, <3>1 DEF Row, PC
  <2>3. CASE ~(req[r].route = p /\ req[r].pc # "done")
    BY <2>1, <2>3
  <2> QED BY <2>2, <2>3
<1> HIDE DEF row
<1>3. \A r \in Requests : req'[r] = row(r)
  BY <1>1
<1> QED BY <1>1, <1>2, <1>3 DEF Rows, Moved

\* A restart empties the cache of its process.
LEMMA RestartKeeps ==
  ASSUME IInv, NEW p \in Routes, Restart(p)
  PROVE  Ledger'
<1>1. Types /\ Bounded
  BY DEF IInv
<1>2. /\ Rows'
      /\ \A r \in Requests :
           IF req[r].route = p /\ req[r].pc # "done"
           THEN Moved(r, "lost", req[r].outcome) ELSE req'[r] = req[r]
  BY <1>1, RestartRows DEF Types
<1>3. /\ DOMAIN cache' = Routes /\ cache'[p] = Empty
      /\ \A q \in Routes : q # p => cache'[q] = cache[q]
  BY <1>1 DEF Restart, Types, Caches
<1>4. Caches' /\ Bounded'
  <2>1. DOMAIN Empty = {} /\ Empty \in [{} -> CacheEntry]
    BY DEF Empty
  <2>2. IsFiniteSet({}) /\ Cardinality({}) = 0 /\ MaxEntries[p] \in Nat
    BY FS_EmptySet, DeliveryAssumption
  <2>3. Caches'
    BY <1>1, <1>3, <2>1 DEF Types, Caches
  <2>4. Bounded'
    BY <1>1, <1>3, <2>1, <2>2 DEF Bounded
  <2> QED BY <2>3, <2>4
<1>5. calls' = calls /\ Counts'
  BY <1>1 DEF Restart, Types, Counts
<1>6. ASSUME NEW s \in Requests PROVE Requested(s)'
  <2>1. Requested(s) /\ req[s].by \in Requests /\ req[s].pc \in PC
    BY <1>1, Typing DEF IInv
  <2>2. CASE req[s].route = p /\ req[s].pc # "done"
    <3>1. Moved(s, "lost", req[s].outcome)
      BY <1>2, <2>2
    <3>2. req[s].route \in Routes /\ req[s].key \in Keys /\ req[s].body \in Bodies
      BY <2>1, <2>2 DEF Requested, Asks, Routes
    <3> QED BY <2>1, <2>2, <3>1, <3>2
            DEF Requested, Asks, Undecided, AtWork, Waits, Answers, Moved, Working
  <2>3. CASE ~(req[s].route = p /\ req[s].pc # "done")
    <3>1. req'[s] = req[s]
      BY <1>2, <2>3
    <3> DEFINE q == req[s].by
    <3>2. Asks(s)' /\ Undecided(s)'
      BY <2>1, <3>1 DEF Requested, Asks, Undecided
    <3>3. AtWork(s)'
      BY <2>1, <2>3, <3>1, <1>3, <1>5 DEF Requested, Asks, AtWork, Working
    <3>4. Waits(s)'
      <4> SUFFICES ASSUME req[s].pc = "await" PROVE Waits(s)'
        BY <3>1 DEF Waits
      <4>1. req[q].route # p
        BY <2>1, <2>3 DEF Requested, Waits, Same
      <4>2. req'[q] = req[q]
        BY <1>2, <2>1, <4>1
      <4> QED BY <2>1, <3>1, <4>2 DEF Requested, Waits, Same
    <3>5. Answers(s)'
      <4> SUFFICES ASSUME req[s].pc = "done", req[s].outcome \notin {"conflict", "full"}
                   PROVE  Answers(s)'
        BY <2>1, <3>1 DEF Requested, Answers, Receipt, Kept
      <4>1. req[q].pc = "done"
        BY <2>1 DEF Requested, Answers
      <4>2. req'[q] = req[q]
        BY <1>2, <2>1, <4>1
      <4> QED BY <2>1, <3>1, <4>2 DEF Requested, Answers, Same
    <3> QED BY <3>2, <3>3, <3>4, <3>5 DEF Requested
  <2> QED BY <2>2, <2>3
<1>7. ASSUME NEW q \in Routes, NEW k \in DOMAIN cache'[q] PROVE Belongs(q, k)'
  <2>1. q # p /\ cache'[q] = cache[q]
    BY <1>3 DEF Empty
  <2>2. Belongs(q, k) /\ cache[q][k].by \in Requests
    BY <1>1, <2>1, Typing DEF IInv
  <2>3. req'[cache[q][k].by] = req[cache[q][k].by]
    BY <1>2, <2>1, <2>2 DEF Belongs
  <2> QED BY <2>1, <2>2, <2>3 DEF Belongs
<1> QED BY <1>2, <1>4, <1>5, <1>6, <1>7 DEF Ledger

-----------------------------------------------------------------------------
(* Effects.                                                                *)

\* A step of one request adds at most that request to what is on the wire
\* or delivered, so what is known of the others stays.
LEMMA OthersEffects ==
  ASSUME IInv, NEW r \in Requests, NEW s \in Requests, s # r, Alone(r),
         UNCHANGED gateOpen, openSince \subseteq openSince',
         delivered \subseteq delivered',
         wire' \union delivered' \subseteq wire \union delivered \union {r}
  PROVE  Effects(s)'
<1>1. req'[s] = req[s] /\ Effects(s)
  BY DEF Alone, IInv
<1> QED BY <1>1 DEF Effects, Acted, Confirmations, Looked

(* A step of one request preserves the invariant when it keeps the ledger  *)
(* and its own effects.                                                    *)
LEMMA OneStep ==
  ASSUME IInv, NEW r \in Requests, Ledger', Alone(r), World', Effects(r)',
         UNCHANGED gateOpen, openSince \subseteq openSince',
         delivered \subseteq delivered',
         wire' \union delivered' \subseteq wire \union delivered \union {r}
  PROVE  IInv'
<1>1. \A s \in Requests : Effects(s)'
  BY OthersEffects
<1> QED BY <1>1 DEF IInv, Types, Ledger

\* A request arrives.
LEMMA SubmitStep ==
  ASSUME IInv, NEW r \in Requests, Submit(r)
  PROVE  IInv'
<1>1. Arrives(r)
  BY SubmitArrives
<1>2. /\ req[r].pc = "new" /\ UNCHANGED <<gateOpen, wire, delivered, now, restarts>>
      /\ openSince' = IF gateOpen /\ req'[r].pc = "gate"
                      THEN openSince \union {r} ELSE openSince
  BY DEF Submit
<1>3. r \notin wire \union delivered
  BY <1>2 DEF IInv, Effects, Acted
<1>4. Effects(r)'
  BY <1>1, <1>2, <1>3 DEF Arrives, Effects, Acted, Confirmations, Looked
<1>5. World'
  BY <1>2 DEF IInv, Types, World
<1> QED BY <1>1, <1>2, <1>4, <1>5, OneStep DEF Arrives

\* A request that waited is answered.
LEMMA AwaitStep ==
  ASSUME IInv, NEW r \in Requests, Await(r)
  PROVE  IInv'
<1> DEFINE q == req[r].by
<1>1. Ledger' /\ Alone(r) /\ Moved(r, "done", req[q].outcome)
  BY AwaitKeeps
<1>2. req[r].pc = "await" /\ UNCHANGED <<gateOpen, openSince, wire, delivered, now, restarts>>
  BY DEF Await
<1>3. q \in Requests /\ Requested(r) /\ Effects(r) /\ Effects(q)
  BY Typing DEF IInv
<1>4. Effects(r)'
  BY <1>1, <1>2, <1>3
     DEF Requested, Waits, Effects, Acted, Confirmations, Looked, Moved
<1>5. World'
  BY <1>2 DEF IInv, Types, World
<1> QED BY <1>1, <1>2, <1>4, <1>5, OneStep

(* An execution that ends: what it says of its effect is so.               *)
LEMMA SettleStep ==
  ASSUME IInv, NEW r \in Requests, NEW o \in Kept, Settle(r, o),
         req[r].pc \in Working,
         o \in {"held", "none-routed"} => req[r].pc # "provider",
         o = "confirmed" => r \in delivered,
         UNCHANGED <<gateOpen, openSince, delivered, now>>, wire' \subseteq wire
  PROVE  IInv'
<1>1. Ledger' /\ Alone(r) /\ Moved(r, "done", o)
  BY SettleKeeps
<1>2. Requested(r) /\ Effects(r)
  BY DEF IInv
<1>3. Effects(r)'
  BY <1>1, <1>2
     DEF Requested, AtWork, Effects, Acted, Confirmations, Looked, Moved, Working, Kept
<1>4. World'
  BY DEF IInv, Types, World
<1> QED BY <1>1, <1>3, <1>4, OneStep

\* The status of the control plane is read.
LEMMA ReadStatusStep ==
  ASSUME IInv, NEW r \in Requests, ReadStatus(r)
  PROVE  IInv'
<1>1. req[r].pc = "status" /\ UNCHANGED <<gateOpen, wire, delivered, now, restarts>>
  BY DEF ReadStatus
<1>2. Requested(r) /\ Effects(r) /\ Types
  BY DEF IInv
<1>3. World' \/ openSince' # openSince
  BY <1>1, <1>2 DEF Types, World
<1>4. CASE Throw(r) /\ UNCHANGED openSince
  <2>1. Ledger' /\ Alone(r) /\ Moved(r, "done", "invalid")
    BY <1>1, <1>4, ThrowKeeps DEF Working
  <2>2. Effects(r)'
    BY <1>1, <1>2, <1>4, <2>1 DEF Effects, Acted, Confirmations, Looked, Moved
  <2> QED BY <1>1, <1>3, <1>4, <2>1, <2>2, OneStep
<1>5. CASE Settle(r, "none-routed") /\ UNCHANGED openSince
  BY <1>1, <1>5, SettleStep DEF Kept, Working
<1>6. CASE Settle(r, "held") /\ UNCHANGED openSince
  BY <1>1, <1>6, SettleStep DEF Kept, Working
<1>7. CASE TrySend(r) /\ UNCHANGED <<cache, calls>>
  <2>1. /\ req' = Goto(r, "gate") /\ openSince' = openSince \union {r}
        /\ cache' = cache /\ calls' = calls
    BY <1>7 DEF TrySend
  <2>2. Ledger' /\ Alone(r) /\ Moved(r, "gate", req[r].outcome)
    <3>1. calls'[req[r].route][req[r].key] = 0 /\ Counts'
      BY <1>1, <1>2, <2>1 DEF Requested, AtWork, Working, Types, Counts
    <3> QED BY <1>1, <2>1, <3>1, WorkKeeps DEF Working
  <2>3. Effects(r)' /\ World'
    BY <1>1, <1>2, <2>1, <2>2
       DEF Requested, Undecided, Effects, Acted, Confirmations, Looked, Moved, Types, World
  <2> QED BY <1>1, <2>1, <2>2, <2>3, OneStep
<1> QED BY <1>4, <1>5, <1>6, <1>7 DEF ReadStatus

\* The gate is read.
LEMMA ReadGateStep ==
  ASSUME IInv, NEW r \in Requests, ReadGate(r)
  PROVE  IInv'
<1>1. req[r].pc = "gate" /\ UNCHANGED <<gateOpen, openSince, wire, delivered, now, restarts>>
  BY DEF ReadGate
<1>2. Requested(r) /\ Effects(r) /\ Types
  BY DEF IInv
<1>3. CASE Settle(r, "held")
  BY <1>1, <1>3, SettleStep DEF Kept, Working
<1>4. CASE gateOpen /\ req' = Goto(r, "call") /\ UNCHANGED <<cache, calls>>
  <2>1. Ledger' /\ Alone(r) /\ Moved(r, "call", req[r].outcome)
    <3>1. calls'[req[r].route][req[r].key] = 0 /\ Counts'
      BY <1>1, <1>2, <1>4 DEF Requested, AtWork, Working, Types, Counts
    <3> QED BY <1>1, <1>4, <3>1, WorkKeeps DEF Working
  <2>2. Effects(r)' /\ World'
    BY <1>1, <1>2, <1>4, <2>1
       DEF Requested, Undecided, Effects, Acted, Confirmations, Looked, Moved, Types, World
  <2> QED BY <1>1, <2>1, <2>2, OneStep
<1>5. PICK open \in GateReadings :
        \/ ~open /\ Settle(r, "held")
        \/ open /\ req' = Goto(r, "call") /\ UNCHANGED <<cache, calls>>
  BY DEF ReadGate
<1>6. open => gateOpen
  BY DEF GateReadings
<1> QED BY <1>3, <1>4, <1>5, <1>6

\* The provider is called.
LEMMA CallStep ==
  ASSUME IInv, NEW r \in Requests, CallProvider(r)
  PROVE  IInv'
<1>1. /\ req[r].pc = "call" /\ req' = Goto(r, "provider")
      /\ wire' = wire \union {r}
      /\ calls' = [calls EXCEPT ![req[r].route][req[r].key] = @ + 1]
      /\ UNCHANGED <<cache, gateOpen, openSince, delivered, now, restarts>>
  BY DEF CallProvider
<1>2. Requested(r) /\ Effects(r) /\ Types
  BY DEF IInv
<1>3. /\ req[r].by = r /\ req[r].route \in Routes /\ req[r].key \in Keys
      /\ calls[req[r].route][req[r].key] = 0
  BY <1>1, <1>2 DEF Requested, Asks, AtWork, Working
<1>4. /\ Counts' /\ calls'[req[r].route][req[r].key] = 1
      /\ \A p \in Routes, k \in Keys :
           p # req[r].route \/ k # req[r].key => calls'[p][k] = calls[p][k]
  BY <1>1, <1>2, <1>3 DEF Types, Counts
<1>5. Ledger' /\ Alone(r) /\ Moved(r, "provider", req[r].outcome)
  BY <1>1, <1>4, WorkKeeps DEF Working
<1>6. Effects(r)' /\ World'
  BY <1>1, <1>2, <1>3, <1>5
     DEF Requested, Undecided, Effects, Acted, Confirmations, Looked, Moved, Types, World
<1> QED BY <1>1, <1>5, <1>6, OneStep

\* The provider answers, or its answer is lost.
LEMMA ProviderStep ==
  ASSUME IInv, NEW r \in Requests,
         Confirmed(r) \/ Rejected(r) \/ Unreadable(r) \/ TimedOut(r)
  PROVE  IInv'
<1>1. req[r].pc = "provider"
  BY DEF Confirmed, Rejected, Unreadable, TimedOut
<1>2. CASE Confirmed(r)
  BY <1>1, <1>2, SettleStep DEF Confirmed, Kept, Working
<1>3. Unconfirmed(r, "rejected") \in {"rejected", "unknown"}
  BY DEF Unconfirmed
<1>4. CASE Rejected(r)
  BY <1>1, <1>3, <1>4, SettleStep DEF Rejected, Kept, Working
<1>5. CASE Unreadable(r)
  BY <1>1, <1>3, <1>5, SettleStep DEF Unreadable, Kept, Working
<1>6. CASE TimedOut(r)
  BY <1>1, <1>6, SettleStep DEF TimedOut, Kept, Working
<1> QED BY <1>2, <1>4, <1>5, <1>6

\* A late effect happens, the gate is decided, or time passes.
LEMMA WorldStep ==
  ASSUME IInv, \/ \E r \in Requests : Deliver(r)
               \/ DecideGate \/ Tick
  PROVE  IInv'
<1>1. UNCHANGED <<req, cache, calls>> /\ Types
  BY DEF Deliver, DecideGate, Tick, IInv
<1>2. Ledger'
  <2>1. Rows' /\ Caches' /\ Counts' /\ Bounded'
    BY <1>1 DEF Types, Rows, Caches, Counts, Bounded, IInv
  <2>2. \A r \in Requests : Requested(r)'
    BY <1>1 DEF IInv, Requested, Asks, Undecided, AtWork, Waits, Answers, Same
  <2>3. \A p \in Routes : \A k \in DOMAIN cache'[p] : Belongs(p, k)'
    BY <1>1 DEF IInv, Belongs
  <2> QED BY <2>1, <2>2, <2>3 DEF Ledger
<1>3. CASE \E r \in Requests : Deliver(r)
  <2>1. PICK r \in Requests : Deliver(r)
    BY <1>3
  <2>2. Alone(r) /\ Effects(r)
    BY <1>1 DEF Alone, IInv
  <2>3. Effects(r)' /\ World'
    BY <1>1, <2>1, <2>2
       DEF Deliver, Effects, Acted, Confirmations, Looked, Types, World
  <2> QED BY <1>2, <2>1, <2>2, <2>3, OneStep DEF Deliver
<1>4. CASE DecideGate
  <2>1. \A r \in Requests : Effects(r)'
    BY <1>1, <1>4 DEF DecideGate, IInv, Effects, Acted, Confirmations, Looked
  <2>2. World'
    BY <1>1, <1>4 DEF DecideGate, Types, World
  <2> QED BY <1>2, <2>1, <2>2 DEF IInv, Types, Ledger
<1>5. CASE Tick
  <2>1. \A r \in Requests : Effects(r)'
    BY <1>1, <1>5 DEF Tick, IInv, Effects, Acted, Confirmations, Looked
  <2>2. World'
    BY <1>1, <1>5, DeliveryAssumption DEF Tick, Types, World
  <2> QED BY <1>2, <2>1, <2>2 DEF IInv, Types, Ledger
<1> QED BY <1>3, <1>4, <1>5

\* A process restarts.
LEMMA RestartStep ==
  ASSUME IInv, NEW p \in Routes, Restart(p)
  PROVE  IInv'
<1>1. Ledger'
  BY RestartKeeps
<1>2. Types
  BY DEF IInv
<1>3. UNCHANGED <<gateOpen, openSince, wire, delivered, now>>
  BY DEF Restart
<1>4. World'
  BY <1>2, <1>3 DEF Types, World
<1>5. ASSUME NEW r \in Requests PROVE Effects(r)'
  <2>1. Effects(r) /\ Requested(r)
    BY DEF IInv
  <2>2. Moved(r, "lost", req[r].outcome) \/ req'[r] = req[r]
    BY <1>2, RestartRows DEF Types
  <2> QED BY <1>3, <2>1, <2>2 DEF Effects, Acted, Confirmations, Looked, Moved
<1> QED BY <1>1, <1>4, <1>5 DEF IInv, Types, Ledger

\* Every step.
LEMMA StepInv == IInv /\ [Next]_vars => IInv'
<1> SUFFICES ASSUME IInv, [Next]_vars PROVE IInv'
  OBVIOUS
<1>1. ASSUME NEW r \in Requests, Submit(r) PROVE IInv'
  BY <1>1, SubmitStep
<1>2. ASSUME NEW r \in Requests, Handler(r) PROVE IInv'
  BY <1>2, AwaitStep, ReadStatusStep, ReadGateStep, CallStep, ProviderStep DEF Handler
<1>3. ASSUME NEW r \in Requests, Deliver(r) PROVE IInv'
  BY <1>3, WorldStep
<1>4. ASSUME NEW p \in Routes, Restart(p) PROVE IInv'
  BY <1>4, RestartStep
<1>5. CASE DecideGate \/ Tick
  BY <1>5, WorldStep
<1>6. CASE UNCHANGED vars
  BY <1>6 DEF vars, IInv, Types, Rows, Caches, Counts, World, Bounded, Requested, Asks,
     Undecided, AtWork, Waits, Answers, Same, Effects, Acted, Confirmations, Looked, Belongs
<1> QED BY <1>1, <1>2, <1>3, <1>4, <1>5, <1>6 DEF Next

\* IInv holds in every behaviour of the two routes (execute in index.mjs,
\* runIdempotentA2aPlan in server.mjs), from which the theorems below follow.
THEOREM Invariant == Spec => []IInv
BY InitInv, StepInv, PTL DEF Spec

-----------------------------------------------------------------------------
(* The safety properties.                                                  *)

\* Whoever has a receipt has that of the execution it refers to, which had the
\* same question.
LEMMA OutcomeOfReceipt ==
  ASSUME IInv, NEW r \in Requests, req[r].outcome \notin {"none", "conflict", "full"}
  PROVE  LET q == req[r].by IN
         /\ q \in Requests /\ req[q].by = q /\ Same(r, q)
         /\ req[q].outcome = req[r].outcome
<1>1. Requested(r) /\ req[r].by \in Requests
  BY Typing DEF IInv
<1> QED BY <1>1 DEF Requested, Undecided, Answers

(* A caller is answered with the receipt of the execution of its own key   *)
(* and body in its own process; a confirmed message was posted, and one    *)
(* held, invalid or not routed never will be, whatever retries, evictions, *)
(* late effects and restarts come between (makeRoom, sendTelegramMessage); *)
(* and no cache outgrows its limit.                                        *)
THEOREM ReceiptsHold == Spec => []ReceiptsTrue
<1>1. IInv => ReceiptsTrue
  <2> SUFFICES ASSUME IInv PROVE ReceiptsTrue
    OBVIOUS
  <2>1. TypeOK
    <3>1. \A p \in Routes : DOMAIN cache[p] \subseteq Keys
                            /\ Cardinality(DOMAIN cache[p]) <= MaxEntries[p]
      BY DEF IInv, Types, Caches, Bounded
    <3>2. \A r \in Requests :
            /\ req[r].outcome \in Outcome /\ req[r].by \in Requests /\ req[r].pc \in PC
      BY Typing DEF IInv
    <3> QED BY <3>1, <3>2 DEF IInv, Types, World, TypeOK, PC, Working
  <2>2. ReceiptIsOwn
    BY OutcomeOfReceipt DEF ReceiptIsOwn, Same
  <2>3. ReceiptTruthful
    <3> SUFFICES ASSUME NEW r \in Requests
                 PROVE  /\ req[r].outcome = "confirmed" => req[r].by \in delivered
                        /\ req[r].outcome \in {"held", "invalid", "none-routed"}
                             => req[r].by \notin delivered \union wire
      BY DEF ReceiptTruthful
    <3>1. req[r].outcome = "confirmed" => req[r].by \in delivered
      BY DEF IInv, Effects, Confirmations
    <3>2. ASSUME req[r].outcome \in {"held", "invalid", "none-routed"}
          PROVE  req[r].by \notin delivered \union wire
      <4> DEFINE q == req[r].by
      <4>1. q \in Requests /\ req[q].outcome = req[r].outcome
        BY <3>2, OutcomeOfReceipt
      <4>2. Acted(q)
        BY <4>1 DEF IInv, Effects
      <4> QED BY <3>2, <4>1, <4>2 DEF Acted
    <3> QED BY <3>1, <3>2
  <2> QED BY <2>1, <2>2, <2>3 DEF ReceiptsTrue
<1> QED BY <1>1, Invariant, PTL

(* The provider is called, and a message posted, only for a request whose  *)
(* last reading of the gate, begun after its status was computed, could    *)
(* see it open (sendTelegramMessage, routeA2aNotification).                *)
THEOREM GateHolds == Spec => []GateReadLast
<1>1. IInv => GateReadLast
  BY DEF IInv, Effects, Looked, GateReadLast
<1> QED BY <1>1, Invariant, PTL

-----------------------------------------------------------------------------
(* Each cache implements module ReplayCache.                               *)

Cache(p) == INSTANCE ReplayCache WITH run <- RunOf(p)

\* What the cache shows of a key to the abstract specification.
LEMMA RunRows ==
  ASSUME NEW p \in Routes, NEW k \in Keys
  PROVE  /\ k \notin DOMAIN cache[p] => RunOf(p)[k] = Cache(p)!Free
         /\ k \in DOMAIN cache[p] =>
              /\ cache[p][k].settled =>
                   RunOf(p)[k] = [st |-> "settled", body |-> cache[p][k].body,
                                  calls |-> calls[p][k]]
              /\ ~cache[p][k].settled =>
                   RunOf(p)[k] = [st |-> "running", body |-> cache[p][k].body,
                                  calls |-> calls[p][k]]
BY DEF RunOf, Cache!Free

\* The states among them.
LEMMA RunStates ==
  ASSUME NEW p \in Routes, NEW k \in Keys
  PROVE  /\ k \notin DOMAIN cache[p] => RunOf(p)[k].st = "free"
         /\ k \in DOMAIN cache[p] /\ cache[p][k].settled => RunOf(p)[k].st = "settled"
BY DEF RunOf

\* Whatever leaves the cache and its calls alone stutters.
LEMMA SameRun ==
  ASSUME NEW p \in Routes, cache'[p] = cache[p], calls'[p] = calls[p]
  PROVE  RunOf(p)' = RunOf(p)
BY DEF RunOf

(* Keys whose entries have settled may be forgotten.                       *)
LEMMA MayForget ==
  ASSUME NEW p \in Routes, NEW F \in SUBSET Keys,
         \A k \in F : k \in DOMAIN cache[p] => cache[p][k].settled,
         F \subseteq DOMAIN cache[p]
  PROVE  F \in Cache(p)!Forgettable
<1>1. ASSUME NEW k \in F PROVE RunOf(p)[k].st = "settled"
  BY RunStates
<1> QED BY <1>1 DEF Cache!Forgettable

\* Dropping settled entries implements Drop.
LEMMA Forgets ==
  ASSUME Types, NEW p \in Routes, NEW K \in SUBSET DOMAIN cache[p],
         \A k \in DOMAIN cache[p] : cache[p][k].settled \/ k \in K,
         DOMAIN cache'[p] = K,
         \A k \in K : cache'[p][k] = cache[p][k],
         calls'[p] = calls[p]
  PROVE  Cache(p)!Drop
<1> DEFINE F == DOMAIN cache[p] \ K
<1>1. F \in Cache(p)!Forgettable
  BY MayForget DEF Types, Caches
<1>2. RunOf(p)' = Cache(p)!Forget(F)
  BY DEF RunOf, Cache!Forget, Cache!Free, Types, Caches
<1> QED BY <1>1, <1>2 DEF Cache!Drop

(* Between a key's entries and its execution in the abstract cache.        *)
LEMMA Begins ==
  ASSUME Types, NEW p \in Routes, NEW k \in Keys, NEW b \in Bodies,
         NEW K \in SUBSET DOMAIN cache[p], k \notin K,
         \A j \in DOMAIN cache[p] : cache[p][j].settled \/ j \in K,
         DOMAIN cache'[p] = K \union {k},
         \A j \in K : cache'[p][j] = cache[p][j] /\ calls'[p][j] = calls[p][j],
         cache'[p][k].body = b, ~cache'[p][k].settled, calls'[p][k] = 0
  PROVE  Cache(p)!Begin(k, b)
<1> DEFINE F == DOMAIN cache[p] \ K
<1>1. F \in Cache(p)!Forgettable
  BY MayForget DEF Types, Caches
<1>2. RunOf(p)[k].st \in {"free", "settled"}
  BY RunStates
<1>3. Cache(p)!Forget(F)[k] = Cache(p)!Free
  BY RunRows DEF Cache!Forget
<1>4. RunOf(p)' = [Cache(p)!Forget(F) EXCEPT ![k] = Cache(p)!Running(b)]
  <2>1. ASSUME NEW j \in Keys
        PROVE  RunOf(p)'[j] = [Cache(p)!Forget(F) EXCEPT ![k] = Cache(p)!Running(b)][j]
    <3>1. CASE j = k
      BY <3>1 DEF RunOf, Cache!Forget, Cache!Running
    <3>2. CASE j # k /\ j \in K
      BY <3>2 DEF RunOf, Cache!Forget
    <3>3. CASE j # k /\ j \notin K
      BY <3>3 DEF RunOf, Cache!Forget, Cache!Free
    <3> QED BY <3>1, <3>2, <3>3
  <2>2. RunOf(p)' = [j \in Keys |-> RunOf(p)'[j]]
    BY DEF RunOf
  <2> QED BY <2>1, <2>2 DEF Cache!Forget
<1> QED BY <1>1, <1>2, <1>3, <1>4 DEF Cache!Begin

\* Settling an entry implements Settle.
LEMMA Settles ==
  ASSUME Types, NEW p \in Routes, NEW k \in DOMAIN cache[p], ~cache[p][k].settled,
         DOMAIN cache'[p] = DOMAIN cache[p], calls'[p] = calls[p],
         \A j \in DOMAIN cache[p] :
           cache'[p][j].body = cache[p][j].body
           /\ (cache'[p][j].settled <=> cache[p][j].settled \/ j = k)
  PROVE  Cache(p)!Settle(k)
<1>1. k \in Keys
  BY DEF Types, Caches
<1>2. RunOf(p)[k] = [st |-> "running", body |-> cache[p][k].body, calls |-> calls[p][k]]
  BY <1>1, RunRows
<1>3. RunOf(p)'[k] = [RunOf(p)[k] EXCEPT !.st = "settled"]
  BY <1>1, <1>2 DEF RunOf
<1>4. ASSUME NEW j \in Keys, j # k PROVE RunOf(p)'[j] = RunOf(p)[j]
  BY <1>4 DEF RunOf
<1>5. RunOf(p)' = [RunOf(p) EXCEPT ![k].st = "settled"]
  <2> DEFINE e == [RunOf(p)[k] EXCEPT !.st = "settled"]
  <2>1. RunOf(p)'[k] = e
    BY <1>3
  <2>2. RunOf(p) = [j \in Keys |-> RunOf(p)[j]] /\ RunOf(p)' = [j \in Keys |-> RunOf(p)'[j]]
    BY DEF RunOf
  <2> HIDE DEF e
  <2>3. RunOf(p)' = [RunOf(p) EXCEPT ![k] = e]
    BY <1>1, <1>4, <2>1, <2>2
  <2> QED BY <2>3 DEF e
<1> QED BY <1>2, <1>5 DEF Cache!Settle

\* The only call of an execution implements Call.
LEMMA CallsOnce ==
  ASSUME Types, NEW p \in Routes, NEW k \in DOMAIN cache[p], ~cache[p][k].settled,
         cache' = cache, calls[p][k] = 0, calls'[p][k] = 1,
         \A j \in Keys : j # k => calls'[p][j] = calls[p][j]
  PROVE  Cache(p)!Call(k)
<1>1. k \in Keys
  BY DEF Types, Caches
<1>2. RunOf(p)[k] = [st |-> "running", body |-> cache[p][k].body, calls |-> 0]
  BY <1>1, RunRows
<1>3. RunOf(p)'[k] = [RunOf(p)[k] EXCEPT !.calls = 1]
  BY <1>1, <1>2 DEF RunOf
<1>4. ASSUME NEW j \in Keys, j # k PROVE RunOf(p)'[j] = RunOf(p)[j]
  BY <1>4 DEF RunOf
<1>5. RunOf(p)' = [RunOf(p) EXCEPT ![k].calls = 1]
  BY <1>1, <1>3, <1>4 DEF RunOf
<1> QED BY <1>2, <1>5 DEF Cache!Call

\* Removing an execution that called nobody implements Throw.
LEMMA Throws ==
  ASSUME Types, NEW p \in Routes, NEW k \in DOMAIN cache[p], ~cache[p][k].settled,
         calls[p][k] = 0, calls' = calls,
         DOMAIN cache'[p] = DOMAIN cache[p] \ {k},
         \A j \in DOMAIN cache[p] : j # k => cache'[p][j] = cache[p][j]
  PROVE  Cache(p)!Throw(k)
<1>1. k \in Keys
  BY DEF Types, Caches
<1>2. RunOf(p)[k] = [st |-> "running", body |-> cache[p][k].body, calls |-> 0]
  BY <1>1, RunRows
<1>3. RunOf(p)'[k] = Cache(p)!Free
  BY <1>1 DEF RunOf, Cache!Free
<1>4. ASSUME NEW j \in Keys, j # k PROVE RunOf(p)'[j] = RunOf(p)[j]
  BY <1>4 DEF RunOf
<1>5. RunOf(p)' = [RunOf(p) EXCEPT ![k] = Cache(p)!Free]
  BY <1>1, <1>3, <1>4 DEF RunOf
<1> QED BY <1>2, <1>5 DEF Cache!Throw

(* Every step is a step of the abstract cache of each process, or none.    *)
Steps(p) == Cache(p)!Next \/ RunOf(p)' = RunOf(p)

\* Pruning alone is a Drop of one cache and a stutter of the other.
LEMMA TidiedStep ==
  ASSUME IInv, NEW p \in Routes, Keep(p, Held(p)), UNCHANGED calls
  PROVE  \A q \in Routes : Steps(q)
<1>1. Types /\ Bounded /\ Held(p) \in SUBSET DOMAIN cache[p]
  BY DEF IInv, Held
<1>2. /\ DOMAIN cache'[p] = Held(p)
      /\ \A j \in Held(p) : cache'[p][j] = cache[p][j]
      /\ \A x \in Routes : x # p => cache'[x] = cache[x]
  BY <1>1, KeptEntries DEF Types
<1>3. \A k \in DOMAIN cache[p] : cache[p][k].settled \/ k \in Held(p)
  BY DEF Held, Expired
<1>4. Cache(p)!Drop
  BY <1>1, <1>2, <1>3, Forgets
<1>5. ASSUME NEW q \in Routes PROVE Steps(q)
  <2>1. CASE q = p
    BY <1>4, <2>1 DEF Steps, Cache!Next
  <2>2. CASE q # p
    BY <1>2, <2>2, SameRun DEF Steps
  <2> QED BY <2>1, <2>2
<1> QED BY <1>5

\* An execution that begins is a Begin, or finds no room.
LEMMA ExecuteStep ==
  ASSUME IInv, NEW r \in Requests, NEW p \in Routes, NEW k \in Keys,
         NEW b \in Bodies, Execute(r, p, k, b)
  PROVE  \A q \in Routes : Steps(q)
<1>1. Types /\ Bounded
  BY DEF IInv
<1>2. PICK kept \in SUBSET Held(p) :
        /\ Cardinality(kept) < MaxEntries[p]
        /\ \A j \in Held(p) : cache[p][j].settled \/ j \in kept
        /\ Insert(r, p, k, b, kept)
  BY <1>1, RoomMade
<1>3. kept \in SUBSET DOMAIN cache[p] /\ k \notin kept
  BY DEF Held, Execute
<1>4. /\ DOMAIN cache'[p] = kept \union {k}
      /\ \A j \in kept : cache'[p][j] = cache[p][j]
      /\ cache'[p][k].body = b /\ ~cache'[p][k].settled
      /\ \A q \in Routes : q # p => cache'[q] = cache[q]
  BY <1>1, <1>2, <1>3, InsertedEntry
<1>5. /\ calls'[p][k] = 0
      /\ \A j \in Keys : j # k => calls'[p][j] = calls[p][j]
      /\ \A q \in Routes : q # p => calls'[q] = calls[q]
  BY <1>1 DEF Execute, Types, Counts
<1>6. \A j \in kept : j \in Keys /\ j # k
  BY <1>1, <1>3 DEF Types, Caches
<1>7. \A j \in DOMAIN cache[p] : cache[p][j].settled \/ j \in kept
  BY <1>2 DEF Held, Expired
<1>8. Cache(p)!Begin(k, b)
  BY <1>1, <1>3, <1>4, <1>5, <1>6, <1>7, Begins
<1>9. ASSUME NEW q \in Routes PROVE Steps(q)
  <2>1. CASE q = p
    BY <1>8, <2>1 DEF Steps, Cache!Next
  <2>2. CASE q # p
    BY <1>4, <1>5, <2>2, SameRun DEF Steps
  <2> QED BY <2>1, <2>2
<1> QED BY <1>9

\* An execution that ends is a Settle or a Throw.
LEMMA EndStep ==
  ASSUME IInv, NEW r \in Requests, req[r].pc \in Working, NEW o \in Outcome,
         Settle(r, o) \/ (Throw(r) /\ req[r].pc # "provider")
  PROVE  \A q \in Routes : Steps(q)
<1> DEFINE p == req[r].route
           k == req[r].key
<1>1. Types /\ Bounded /\ Requested(r)
  BY DEF IInv
<1>2. /\ p \in Routes /\ k \in Keys /\ k \in DOMAIN cache[p]
      /\ cache[p][k].by = r /\ ~cache[p][k].settled
  BY WorkIsHeld DEF Held
<1>3. \A q \in Routes : \A j \in DOMAIN cache[q] : cache[q][j].by = r => q = p /\ j = k
  BY <1>1 DEF IInv, Belongs
<1>4. CASE Settle(r, o)
  <2>1. \A q \in Routes :
          /\ DOMAIN cache'[q] = DOMAIN cache[q]
          /\ \A j \in DOMAIN cache[q] :
               /\ cache'[q][j].body = cache[q][j].body
               /\ cache'[q][j].settled
                    <=> cache[q][j].settled \/ (q = p /\ cache[q][j].by = r)
    BY <1>1, <1>2, <1>4, SettledEntries
  <2>2. calls' = calls /\ \A q \in Routes : q # p => cache'[q] = cache[q]
    BY <1>1, <1>4 DEF Settle, Types, Caches
  <2>3. Cache(p)!Settle(k)
    BY <1>1, <1>2, <1>3, <2>1, <2>2, Settles
  <2>4. ASSUME NEW q \in Routes PROVE Steps(q)
    <3>1. CASE q = p
      BY <1>2, <2>3, <3>1 DEF Steps, Cache!Next
    <3>2. CASE q # p
      BY <2>2, <3>2, SameRun DEF Steps
    <3> QED BY <3>1, <3>2
  <2> QED BY <2>4
<1>5. CASE Throw(r) /\ req[r].pc # "provider"
  <2> DEFINE K == {j \in DOMAIN cache[p] : cache[p][j].by # r}
  <2>1. Keep(p, K) /\ calls' = calls
    BY <1>5 DEF Throw
  <2>2. /\ DOMAIN cache'[p] = K /\ \A j \in K : cache'[p][j] = cache[p][j]
        /\ \A x \in Routes : x # p => cache'[x] = cache[x]
    BY <1>1, <1>2, <2>1, KeptEntries DEF Types
  <2>3. K = DOMAIN cache[p] \ {k}
    BY <1>2, <1>3
  <2>4. calls[p][k] = 0
    BY <1>1, <1>5 DEF Requested, AtWork
  <2>5. Cache(p)!Throw(k)
    BY <1>1, <1>2, <2>1, <2>2, <2>3, <2>4, Throws
  <2>6. ASSUME NEW q \in Routes PROVE Steps(q)
    <3>1. CASE q = p
      BY <1>2, <2>5, <3>1 DEF Steps, Cache!Next
    <3>2. CASE q # p
      BY <2>1, <2>2, <3>2, SameRun DEF Steps
    <3> QED BY <3>1, <3>2
  <2> QED BY <2>6
<1> QED BY <1>4, <1>5

\* A call of the provider is a Call.
LEMMA CallSteps ==
  ASSUME IInv, NEW r \in Requests, CallProvider(r)
  PROVE  \A q \in Routes : Steps(q)
<1> DEFINE p == req[r].route
           k == req[r].key
<1>1. Types /\ Requested(r) /\ req[r].pc = "call" /\ cache' = cache
      /\ calls' = [calls EXCEPT ![p][k] = @ + 1]
  BY DEF IInv, CallProvider
<1>2. /\ p \in Routes /\ k \in Keys /\ k \in DOMAIN cache[p]
      /\ cache[p][k].by = r /\ ~cache[p][k].settled
  BY <1>1, WorkIsHeld DEF Held, Working
<1>3. calls[p][k] = 0
  BY <1>1 DEF Requested, AtWork, Working
<1>4. /\ calls'[p][k] = 1
      /\ \A j \in Keys : j # k => calls'[p][j] = calls[p][j]
      /\ \A q \in Routes : q # p => calls'[q] = calls[q]
  BY <1>1, <1>2, <1>3 DEF Types, Counts
<1>5. Cache(p)!Call(k)
  BY <1>1, <1>2, <1>3, <1>4, CallsOnce
<1>6. ASSUME NEW q \in Routes PROVE Steps(q)
  <2>1. CASE q = p
    BY <1>2, <1>5, <2>1 DEF Steps, Cache!Next
  <2>2. CASE q # p
    BY <1>1, <1>4, <2>2, SameRun DEF Steps
  <2> QED BY <2>1, <2>2
<1> QED BY <1>6

\* Every step is a step or a stutter of both caches.
LEMMA CacheStep ==
  ASSUME IInv, [Next]_vars
  PROVE  \A q \in Routes : Steps(q)
<1>1. ASSUME UNCHANGED <<cache, calls>> PROVE \A q \in Routes : Steps(q)
  BY <1>1, SameRun DEF Steps
<1>2. ASSUME NEW r \in Requests, Submit(r) PROVE \A q \in Routes : Steps(q)
  <2>1. PICK p \in Routes, k \in Keys, b \in Bodies :
          Reject(r, p, k, b) \/ Replay(r, p, k, b)
          \/ Execute(r, p, k, b) \/ Saturated(r, p, k, b)
    BY <1>2 DEF Submit
  <2>2. CASE Reject(r, p, k, b)
    BY <1>1, <2>2 DEF Reject
  <2>3. CASE Replay(r, p, k, b)
    BY <2>3, TidiedStep DEF Replay
  <2>4. CASE Execute(r, p, k, b)
    BY <2>4, ExecuteStep
  <2>5. CASE Saturated(r, p, k, b)
    BY <2>5, TidiedStep DEF Saturated
  <2> QED BY <2>1, <2>2, <2>3, <2>4, <2>5
<1>3. ASSUME NEW r \in Requests, Handler(r) PROVE \A q \in Routes : Steps(q)
  <2>1. CASE Await(r)
    BY <1>1, <2>1 DEF Await
  <2>2. CASE ReadStatus(r)
    <3>1. \/ req[r].pc = "status" /\ Throw(r)
          \/ req[r].pc = "status" /\ Settle(r, "none-routed")
          \/ req[r].pc = "status" /\ Settle(r, "held")
          \/ UNCHANGED <<cache, calls>>
      BY <2>2 DEF ReadStatus
    <3> QED BY <1>1, <3>1, EndStep DEF Working, Outcome
  <2>3. CASE ReadGate(r)
    <3>1. \/ req[r].pc = "gate" /\ Settle(r, "held")
          \/ UNCHANGED <<cache, calls>>
      BY <2>3 DEF ReadGate
    <3> QED BY <1>1, <3>1, EndStep DEF Working, Outcome
  <2>4. CASE CallProvider(r)
    BY <2>4, CallSteps
  <2>5. CASE Confirmed(r)
    BY <2>5, EndStep DEF Confirmed, Working, Outcome
  <2>6. Unconfirmed(r, "rejected") \in Outcome
    BY DEF Unconfirmed, Outcome
  <2>7. CASE Rejected(r)
    BY <2>6, <2>7, EndStep DEF Rejected, Working
  <2>8. CASE Unreadable(r)
    BY <2>6, <2>8, EndStep DEF Unreadable, Working
  <2>9. CASE TimedOut(r)
    BY <2>9, EndStep DEF TimedOut, Working, Outcome
  <2> QED BY <1>3, <2>1, <2>2, <2>3, <2>4, <2>5, <2>7, <2>8, <2>9 DEF Handler
<1>4. ASSUME NEW p \in Routes, Restart(p) PROVE \A q \in Routes : Steps(q)
  <2>1. calls' = calls /\ cache'[p] = Empty /\ \A q \in Routes : q # p => cache'[q] = cache[q]
    BY <1>4 DEF Restart, IInv, Types, Caches
  <2>2. Cache(p)!Restart
    BY <2>1 DEF RunOf, Empty, Cache!Restart, Cache!Free
  <2>3. ASSUME NEW q \in Routes PROVE Steps(q)
    <3>1. CASE q = p
      BY <2>2, <3>1 DEF Steps, Cache!Next
    <3>2. CASE q # p
      BY <2>1, <3>2, SameRun DEF Steps
    <3> QED BY <3>1, <3>2
  <2> QED BY <2>3
<1>5. CASE \E r \in Requests : Deliver(r)
  BY <1>1, <1>5 DEF Deliver
<1>6. CASE DecideGate \/ Tick \/ UNCHANGED vars
  BY <1>1, <1>6 DEF DecideGate, Tick, vars
<1> QED BY <1>2, <1>3, <1>4, <1>5, <1>6 DEF Next

(* Whatever arrives, expires, is evicted, fails or restarts, each cache    *)
(* implements module ReplayCache: one execution per key at a time, at most *)
(* one provider call of each, none forgotten while it is in progress       *)
(* (makeRoom, ensureA2aIdempotencyCapacity, the replay paths).             *)
THEOREM CacheRefines == Spec => CacheKeepsPromise
<1>1. Init => Bot!Init /\ Planner!Init
  BY DEF Init, Empty, RunOf, Routes, Bot!Init, Bot!Free, Planner!Init, Planner!Free
<1>2. IInv /\ [Next]_vars => [Bot!Next]_(RunOf("send")) /\ [Planner!Next]_(RunOf("plan"))
  <2> SUFFICES ASSUME IInv, [Next]_vars
               PROVE  [Bot!Next]_(RunOf("send")) /\ [Planner!Next]_(RunOf("plan"))
    OBVIOUS
  <2>1. Steps("send") /\ Steps("plan")
    BY CacheStep DEF Routes
  <2>2. Cache("send")!Next => Bot!Next
    BY DEF Cache!Next, Bot!Next, Cache!Call, Bot!Call, Cache!Settle, Bot!Settle,
           Cache!Throw, Bot!Throw, Cache!Begin, Bot!Begin, Cache!Drop, Bot!Drop,
           Cache!Restart, Bot!Restart, Cache!Forget, Bot!Forget,
           Cache!Forgettable, Bot!Forgettable, Cache!Free, Bot!Free,
           Cache!Running, Bot!Running
  <2>3. Cache("plan")!Next => Planner!Next
    BY DEF Cache!Next, Planner!Next, Cache!Call, Planner!Call, Cache!Settle,
           Planner!Settle, Cache!Throw, Planner!Throw, Cache!Begin, Planner!Begin,
           Cache!Drop, Planner!Drop, Cache!Restart, Planner!Restart,
           Cache!Forget, Planner!Forget, Cache!Forgettable, Planner!Forgettable,
           Cache!Free, Planner!Free, Cache!Running, Planner!Running
  <2> QED BY <2>1, <2>2, <2>3 DEF Steps
<1> QED BY <1>1, <1>2, Invariant, PTL DEF Spec, CacheKeepsPromise, Bot!Spec, Planner!Spec

=============================================================================
