--------------------------- MODULE TelegramDelivery ---------------------------
(***************************************************************************)
(* Live Telegram sends, from request to receipt.  Two Node.js processes    *)
(* offer them: POST /send of the command bot                               *)
(* (services/telegram-command-bot/src/index.mjs) and POST                  *)
(* /api/a2a-sync/plan of the dev control API                               *)
(* (services/dev-control-api/server.mjs).  Each keeps a replay cache in    *)
(* its memory and, behind it, runs sendTelegramMessage, which reads the    *)
(* durable gate of sirinx-control and calls the provider.  A handler is    *)
(* interrupted at every await; processes restart; the provider may act on  *)
(* a call whose answer was lost.                                           *)
(***************************************************************************)
EXTENDS Naturals, FiniteSets

CONSTANTS
  Requests,     \* live requests, each one HTTP request
  Keys,         \* idempotency keys
  Texts,        \* bodies of messages that are routed to Telegram
  Unrouted,     \* plan bodies that are blocked or of a type not routed
  Malformed,    \* bodies that fail validation
  NoBody,
  MaxEntries,   \* the limit of each replay cache
  TTL,          \* how long a settled entry is kept
  MaxNow,       \* bound on the clock
  MaxRestarts   \* bound on restarts

Routes == {"send", "plan"}   \* the processes
Bodies == Texts \union Unrouted \union Malformed

ASSUME DeliveryAssumption ==
  /\ MaxEntries \in [Routes -> Nat \ {0}] /\ TTL \in Nat \ {0}
  /\ MaxNow \in Nat /\ MaxRestarts \in Nat
  /\ NoBody \notin Bodies

VARIABLES
  req,        \* every request: what it asks, where it is, its answer
  cache,      \* each process's replay cache: the entries of its keys
  calls,      \* provider calls made under each cached key
  gateOpen,   \* telegram_send in the durable store of sirinx-control
  openSince,  \* requests that could have seen the gate open at their last read
  wire,       \* provider calls the provider may still act on
  delivered,  \* requests whose message was posted
  now,        \* Date.now()
  restarts

vars == <<req, cache, calls, gateOpen, openSince, wire, delivered, now, restarts>>

-----------------------------------------------------------------------------
Unsent(r) == [route |-> "none", key |-> "none", body |-> NoBody,
              pc |-> "new", by |-> r, outcome |-> "none"]

Empty == [k \in {} |-> NoBody]

Init ==
  /\ req = [r \in Requests |-> Unsent(r)]
  /\ cache = [p \in Routes |-> Empty]
  /\ calls = [p \in Routes |-> [k \in Keys |-> 0]]
  /\ gateOpen \in BOOLEAN
  /\ openSince = {} /\ wire = {} /\ delivered = {}
  /\ now = 0 /\ restarts = 0

Finish(r, outcome) ==
  [req EXCEPT ![r].pc = "done", ![r].outcome = outcome]
Goto(r, pc) == [req EXCEPT ![r].pc = pc]

-----------------------------------------------------------------------------
(* The replay cache.                                                       *)

(* Mutant: an execution still in progress expires like any other entry.    *)
ExpiresWhileRunning(e) == e.expiresAt <= now

(* removeExpired and pruneA2aIdempotencyCache: only settled entries go.    *)
Expired(e) == e.settled /\ e.expiresAt <= now

(* Mutant: the key alone decides.                                          *)
SameKey(e, body) == e.body \in Bodies

SameRequest(e, body) == e.body = body

Held(p) == {k \in DOMAIN cache[p] : ~Expired(cache[p][k])}
Keep(p, K) == cache' = [cache EXCEPT ![p] = [k \in K |-> @[k]]]

(* makeRoom and ensureA2aIdempotencyCapacity: the first settled entry in   *)
(* insertion order makes room; none when all are in progress.              *)
Evictable(p) ==
  {k \in Held(p) :
     /\ cache[p][k].settled
     /\ \A j \in Held(p) :
          cache[p][j].settled => cache[p][j].by \notin cache[p][k].after}
HasRoom(p) == Cardinality(Held(p)) < MaxEntries[p]

(* An entry, inserted after those of the keys kept.                        *)
NewEntry(r, p, b, kept) ==
  [body |-> b, by |-> r, settled |-> FALSE, expiresAt |-> now + TTL,
   after |-> {cache[p][k].by : k \in kept}]
Insert(r, p, k, b, kept) ==
  cache' = [cache EXCEPT ![p] =
    [j \in kept \union {k} |-> IF j = k THEN NewEntry(r, p, b, kept) ELSE @[j]]]

Admitted(r, p, k, b, pc) ==
  req' = [req EXCEPT ![r] = [@ EXCEPT !.route = p, !.key = k, !.body = b,
                                      !.pc = pc]]
Answered(r, p, k, b, outcome) ==
  req' = [req EXCEPT ![r] = [@ EXCEPT !.route = p, !.key = k, !.body = b,
                                      !.pc = "done", !.outcome = outcome]]

(* /send validates the body before the cache is consulted.                 *)
Reject(r, p, k, b) ==
  /\ p = "send" /\ b \in Malformed
  /\ Answered(r, p, k, b, "invalid")
  /\ UNCHANGED <<cache, calls>>

(* A key in the cache: 409 for another body, else the promise of its run.  *)
Replay(r, p, k, b) ==
  /\ ~(p = "send" /\ b \in Malformed)
  /\ k \in Held(p)
  /\ IF SameRequest(cache[p][k], b)
     THEN req' = [req EXCEPT ![r] = [@ EXCEPT !.route = p, !.key = k,
                    !.body = b, !.pc = "await", !.by = cache[p][k].by]]
     ELSE Answered(r, p, k, b, "conflict")
  /\ Keep(p, Held(p))
  /\ UNCHANGED calls

(* A new key, when there is room for it.                                   *)
Execute(r, p, k, b) ==
  /\ ~(p = "send" /\ b \in Malformed)
  /\ k \notin Held(p)
  /\ \/ HasRoom(p) /\ Insert(r, p, k, b, Held(p))
     \/ /\ ~HasRoom(p)
        /\ \E j \in Evictable(p) : Insert(r, p, k, b, Held(p) \ {j})
  /\ calls' = [calls EXCEPT ![p][k] = 0]
  /\ Admitted(r, p, k, b, IF p = "plan" THEN "status" ELSE "gate")

(* 503 when every entry is still in progress.                              *)
Saturated(r, p, k, b) ==
  /\ ~(p = "send" /\ b \in Malformed)
  /\ k \notin Held(p)
  /\ ~HasRoom(p) /\ Evictable(p) = {}
  /\ Answered(r, p, k, b, "full")
  /\ Keep(p, Held(p))
  /\ UNCHANGED calls

Submit(r) ==
  /\ req[r].pc = "new"
  /\ \E p \in Routes, k \in Keys, b \in Bodies :
       /\ p = "send" => b \notin Unrouted
       /\ Reject(r, p, k, b) \/ Replay(r, p, k, b)
          \/ Execute(r, p, k, b) \/ Saturated(r, p, k, b)
  /\ openSince' = IF gateOpen /\ req'[r].pc = "gate"
                  THEN openSince \union {r} ELSE openSince
  /\ UNCHANGED <<gateOpen, wire, delivered, now, restarts>>

(* The producer's promise resolves: its receipt is kept and its time to    *)
(* live starts.                                                            *)
Settle(r, outcome) ==
  /\ req' = Finish(r, outcome)
  /\ cache' = [cache EXCEPT ![req[r].route] =
       [k \in DOMAIN @ |-> IF @[k].by = r
                           THEN [@[k] EXCEPT !.settled = TRUE,
                                             !.expiresAt = now + TTL]
                           ELSE @[k]]]
  /\ UNCHANGED calls

(* The producer throws: its entry is deleted and every waiter gets the     *)
(* same rejection.                                                         *)
Throw(r) ==
  /\ req' = Finish(r, "invalid")
  /\ LET p == req[r].route IN
       Keep(p, {k \in DOMAIN cache[p] : cache[p][k].by # r})
  /\ UNCHANGED calls

Await(r) ==
  /\ req[r].pc = "await" /\ req[req[r].by].outcome # "none"
  /\ req' = Finish(r, req[req[r].by].outcome)
  /\ UNCHANGED <<cache, calls, gateOpen, openSince, wire, delivered, now, restarts>>

-----------------------------------------------------------------------------
(* The producer.  A gate that cannot be read, is stale, not durable or has *)
(* no OPS-TG ticket counts as held (readTelegramSendGate).                 *)

GateReadings == {FALSE, gateOpen}

(* Mutant: the status's reading is authority enough.                       *)
TrySendAtOnce(r) == req' = Goto(r, "call") /\ UNCHANGED openSince

(* routeA2aNotification: a ready status only leads to sendTelegramMessage. *)
TrySend(r) == req' = Goto(r, "gate") /\ openSince' = openSince \union {r}

(* createA2aSyncPlan: validation, the blocked goals, then the status whose *)
(* readiness decides whether routeA2aNotification tries to send.           *)
ReadStatus(r) ==
  /\ req[r].pc = "status"
  /\ \E open \in GateReadings :
       \/ /\ req[r].body \in Malformed
          /\ Throw(r)
          /\ UNCHANGED openSince
       \/ /\ req[r].body \in Unrouted
          /\ Settle(r, "none-routed")
          /\ UNCHANGED openSince
       \/ /\ req[r].body \in Texts /\ ~open
          /\ Settle(r, "held")
          /\ UNCHANGED openSince
       \/ /\ req[r].body \in Texts /\ open
          /\ TrySend(r)
          /\ UNCHANGED <<cache, calls>>
  /\ UNCHANGED <<gateOpen, wire, delivered, now, restarts>>

(* sendTelegramMessage re-reads the gate right before the provider call.   *)
ReadGate(r) ==
  /\ req[r].pc = "gate"
  /\ \E open \in GateReadings :
       \/ /\ ~open /\ Settle(r, "held")
       \/ /\ open /\ req' = Goto(r, "call")
          /\ UNCHANGED <<cache, calls>>
  /\ UNCHANGED <<gateOpen, openSince, wire, delivered, now, restarts>>

CallProvider(r) ==
  /\ req[r].pc = "call"
  /\ req' = Goto(r, "provider")
  /\ wire' = wire \union {r}
  /\ calls' = [calls EXCEPT ![req[r].route][req[r].key] = @ + 1]
  /\ UNCHANGED <<cache, gateOpen, openSince, delivered, now, restarts>>

(* The provider posts the message, perhaps long after the caller gave up.  *)
Deliver(r) ==
  /\ r \in wire
  /\ wire' = wire \ {r} /\ delivered' = delivered \union {r}
  /\ UNCHANGED <<req, cache, calls, gateOpen, openSince, now, restarts>>

Confirmed(r) ==
  /\ req[r].pc = "provider" /\ r \in delivered
  /\ Settle(r, "confirmed")
  /\ UNCHANGED <<gateOpen, openSince, wire, delivered, now, restarts>>

(* A provider attempt that did not confirm: routeA2aNotification reports   *)
(* each of them as unknown, /send passes the sender's outcome on.          *)
Unconfirmed(r, outcome) == IF req[r].route = "plan" THEN "unknown" ELSE outcome

Rejected(r) ==
  /\ req[r].pc = "provider" /\ r \in wire
  /\ wire' = wire \ {r}
  /\ Settle(r, Unconfirmed(r, "rejected"))
  /\ UNCHANGED <<gateOpen, openSince, delivered, now, restarts>>

(* The status arrived and the body did not, or is not JSON: the body is    *)
(* taken as null and the call as rejected, whatever the provider did.      *)
Unreadable(r) ==
  /\ req[r].pc = "provider"
  /\ Settle(r, Unconfirmed(r, "rejected"))
  /\ UNCHANGED <<gateOpen, openSince, wire, delivered, now, restarts>>

(* The call timed out or its answer was lost: a receipt of its own.        *)
TimedOut(r) ==
  /\ req[r].pc = "provider"
  /\ Settle(r, "unknown")
  /\ UNCHANGED <<gateOpen, openSince, wire, delivered, now, restarts>>

-----------------------------------------------------------------------------
(* Around the two processes.                                               *)

DecideGate ==
  /\ gateOpen' = ~gateOpen
  /\ openSince' = IF gateOpen THEN openSince
                  ELSE openSince \union {r \in Requests : req[r].pc = "gate"}
  /\ UNCHANGED <<req, cache, calls, wire, delivered, now, restarts>>

Tick ==
  /\ now < MaxNow /\ now' = now + 1
  /\ UNCHANGED <<req, cache, calls, gateOpen, openSince, wire, delivered, restarts>>

Restart(p) ==
  /\ restarts < MaxRestarts /\ restarts' = restarts + 1
  /\ cache' = [cache EXCEPT ![p] = Empty]
  /\ req' = [r \in Requests |->
       IF req[r].route = p /\ req[r].pc # "done"
       THEN [req[r] EXCEPT !.pc = "lost"] ELSE req[r]]
  /\ UNCHANGED <<calls, gateOpen, openSince, wire, delivered, now>>

Handler(r) ==
  \/ Await(r) \/ ReadStatus(r) \/ ReadGate(r) \/ CallProvider(r)
  \/ Confirmed(r) \/ Rejected(r) \/ Unreadable(r) \/ TimedOut(r)

Next ==
  \/ \E r \in Requests : Submit(r) \/ Handler(r) \/ Deliver(r)
  \/ \E p \in Routes : Restart(p)
  \/ DecideGate \/ Tick

Spec == Init /\ [][Next]_vars

(* Awaits end: the gate read and the provider call have timeouts, and a    *)
(* waiter is resumed when its promise settles.                             *)
FairSpec == Spec /\ \A r \in Requests : WF_vars(Handler(r))

-----------------------------------------------------------------------------
(* Properties.                                                             *)

Outcome == {"none", "invalid", "conflict", "full", "held", "none-routed",
            "confirmed", "rejected", "unknown"}

(* Types; a cache never exceeds its limit.                                 *)
TypeOK ==
  /\ \A r \in Requests :
       /\ req[r].outcome \in Outcome /\ req[r].by \in Requests
       /\ req[r].pc \in {"new", "status", "gate", "call", "provider", "await",
                         "done", "lost"}
  /\ \A p \in Routes :
       DOMAIN cache[p] \subseteq Keys /\ Cardinality(DOMAIN cache[p]) <= MaxEntries[p]
  /\ gateOpen \in BOOLEAN /\ wire \subseteq Requests /\ delivered \subseteq Requests
  /\ now \in 0..MaxNow

(* The execution a key names: what module ReplayCache speaks of.           *)
RunOf(p) == [k \in Keys |->
  IF k \notin DOMAIN cache[p] THEN [st |-> "free", body |-> NoBody, calls |-> 0]
  ELSE [st |-> IF cache[p][k].settled THEN "settled" ELSE "running",
        body |-> cache[p][k].body, calls |-> calls[p][k]]]

(* Whoever is answered with a receipt is answered with the receipt of the  *)
(* same body under the same key, from the same process.                    *)
ReceiptIsOwn ==
  \A r \in Requests : req[r].outcome \notin {"none", "conflict", "full"} =>
    LET q == req[r].by IN
    /\ req[q].body = req[r].body /\ req[q].key = req[r].key
    /\ req[q].route = req[r].route /\ req[q].outcome = req[r].outcome

(* What a receipt says of the effect holds then and later: confirmed means *)
(* posted, and a request held, invalid or not routed never posts.          *)
ReceiptTruthful ==
  \A r \in Requests :
    /\ req[r].outcome = "confirmed" => req[r].by \in delivered
    /\ req[r].outcome \in {"held", "invalid", "none-routed"}
       => req[r].by \notin delivered \union wire

(* Types, with the limit of each cache; and a receipt is of the request    *)
(* that gets it and says what became of the message, or that nobody knows  *)
(* (makeRoom, sendTelegramMessage, the replay paths).                      *)
ReceiptsTrue == TypeOK /\ ReceiptIsOwn /\ ReceiptTruthful

(* What docs/TELEGRAM_CONTROL_PLANE.md says of ambiguous provider results: *)
(* they are unknown, so that a rejection means the message is not posted.  *)
RejectedMeansNotPosted ==
  \A r \in Requests :
    req[r].outcome = "rejected" => req[r].by \notin delivered \union wire

(* The provider is called only by a request that found the gate open at    *)
(* its last read, which starts after its status was computed: a hold       *)
(* decided before that read prevents the send.                             *)
GateReadLast ==
  \A r \in Requests : req[r].pc \in {"call", "provider"} \/ r \in delivered
                      => r \in openSince

(* The cache of each process, with its expiry, its limit, its evictions    *)
(* and its awaits, keeps the promise of module ReplayCache: one execution  *)
(* per key at a time, one provider call per execution, nothing forgotten   *)
(* while it runs (makeRoom, ensureA2aIdempotencyCapacity).                 *)
Bot == INSTANCE ReplayCache WITH run <- RunOf("send")
Planner == INSTANCE ReplayCache WITH run <- RunOf("plan")
CacheKeepsPromise == Bot!Spec /\ Planner!Spec

(* Every request is answered unless its process restarts: nobody waits for *)
(* a promise that never settles, and failures reach the waiters.           *)
EveryRequestAnswered ==
  \A r \in Requests :
    (req[r].pc # "new") ~> (req[r].pc \in {"done", "lost"})
=============================================================================
