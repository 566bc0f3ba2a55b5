------------------------------- MODULE OmniRoute -------------------------------
(***************************************************************************)
(* The capability router of crates/sirinx-a2a/src/lib.rs as the control    *)
(* plane uses it: cards are registered and refreshed by id, lost with the  *)
(* process, and POST /api/a2a/route answers the best card that offers      *)
(* every required capability.  A request is a list: nothing removes the    *)
(* repetitions from it.  A card's capabilities are taken to be distinct    *)
(* (default_self_card and the registered agents' cards are).               *)
(***************************************************************************)
EXTENDS Integers, Sequences, SequencesExt, FiniteSets

CONSTANTS
  Ids,          \* card ids; naturals, ordered as the BTreeMap orders them
  Self,         \* the node's own card id
  Caps,         \* capability tags
  Priorities,   \* card priorities
  Width,        \* bits of usize
  MaxRequired,  \* bound: the longest required list
  Repeats       \* whether a request may list a capability twice

(* Priorities are of a bounded type (i32).                                 *)
RouteAssumption ==
  /\ Ids \subseteq Nat /\ Self \in Ids
  /\ Priorities \subseteq Int /\ \E top \in Priorities : \A p \in Priorities : p <= top
  /\ IsFiniteSet(Caps) /\ MaxRequired \in Nat
  /\ 2^Width \in Nat /\ Cardinality(Caps) < 2^Width /\ MaxRequired < 2^Width
  /\ Repeats \in BOOLEAN

VARIABLES
  cards,  \* OmniRoute.cards, by id; NoCard for an unknown id
  asked   \* the last route request: what it required and what it was answered

vars == <<cards, asked>>

NoCard == [caps |-> {}, priority |-> 0, known |-> FALSE]
Cards == [caps : (SUBSET Caps) \ {{}}, priority : Priorities, known : {TRUE}]
Requests == {r \in SeqOf(Caps, MaxRequired) : Repeats \/ IsInjective(r)}
NotAsked == [required |-> <<>>, answer |-> -1, done |-> FALSE]
NotFound == -1

(* The filter of route.                                                    *)
OffersAll(c, required) == c.known /\ ToSet(required) \subseteq c.caps

(* usize subtraction: it wraps in a release build.                         *)
surplus(c, required) == (Cardinality(c.caps) - Len(required)) % 2^Width

(* Mutant: priority is compared before the surplus.                        *)
PriorityFirst(i, j, required) ==
  LET a == cards[i]  b == cards[j] IN
  \/ a.priority > b.priority
  \/ a.priority = b.priority /\ surplus(a, required) < surplus(b, required)
  \/ a.priority = b.priority /\ surplus(a, required) = surplus(b, required) /\ i < j

(* min_by: fewest surplus capabilities, highest priority, smallest id.     *)
Better(i, j, required) ==
  LET a == cards[i]  b == cards[j] IN
  \/ surplus(a, required) < surplus(b, required)
  \/ surplus(a, required) = surplus(b, required) /\ a.priority > b.priority
  \/ surplus(a, required) = surplus(b, required) /\ a.priority = b.priority /\ i < j

route(required) ==
  LET able == {i \in Ids : OffersAll(cards[i], required)} IN
  IF able = {} THEN NotFound
  ELSE CHOOSE i \in able : \A j \in able \ {i} : Better(i, j, required)

-----------------------------------------------------------------------------
(* The node starts with its own card.                                      *)
Init == /\ \E c \in Cards :
             cards = [i \in Ids |-> IF i = Self THEN c ELSE NoCard]
        /\ asked = NotAsked

(* register: a known id is refreshed.                                      *)
Register(i) == /\ \E c \in Cards : cards' = [cards EXCEPT ![i] = c]
               /\ asked' = NotAsked

(* a2a_route.                                                              *)
Route == /\ ~asked.done
         /\ \E required \in Requests :
              asked' = [required |-> required, answer |-> route(required), done |-> TRUE]
         /\ UNCHANGED cards

(* The caller takes the answer.                                            *)
Answered == asked.done /\ asked' = NotAsked /\ UNCHANGED cards

(* The cards live in memory.                                               *)
Restart == /\ \E c \in Cards :
                cards' = [i \in Ids |-> IF i = Self THEN c ELSE NoCard]
           /\ asked' = NotAsked

Next == Route \/ Answered \/ Restart \/ \E i \in Ids \ {Self} : Register(i)

Spec == Init /\ [][Next]_vars

-----------------------------------------------------------------------------
(* The type of the state: the node always knows its own card.              *)
TypeOK ==
  /\ cards \in [Ids -> Cards \union {NoCard}] /\ cards[Self].known
  /\ \E n \in 0..MaxRequired : asked.required \in [1..n -> Caps]
  /\ asked.answer \in Ids \union {NotFound} /\ asked.done \in BOOLEAN

(* What the caller is sent offers all it required, and nothing is sent     *)
(* only when no card offers it (route, a2a_route).                         *)
RouteServes ==
  asked.done =>
    LET able == {i \in Ids : cards[i].known
                    /\ \A k \in DOMAIN asked.required :
                         asked.required[k] \in cards[i].caps}
    IN IF able = {} THEN asked.answer = NotFound ELSE asked.answer \in able

(* "fewest surplus capabilities first (most specialized wins)" (lib.rs:67):*)
(* no card that serves the request offers fewer capabilities it did not    *)
(* ask for, and none as specialised has a higher priority.                 *)
MostSpecializedWins ==
  asked.done /\ asked.answer # NotFound =>
    LET extra(i) == Cardinality(cards[i].caps \ ToSet(asked.required)) IN
    \A i \in Ids :
      cards[i].known /\ ToSet(asked.required) \subseteq cards[i].caps =>
        \/ extra(asked.answer) < extra(i)
        \/ /\ extra(asked.answer) = extra(i)
           /\ cards[asked.answer].priority >= cards[i].priority
=============================================================================
