------------------------- MODULE MCTelegramDelivery -------------------------
(* Live sends over the two processes, one at a time: they share nothing but*)
(* the gate, which moves freely.  The command bot has room for one key,    *)
(* the plan route for two; the bot is asked for two texts, the plan route  *)
(* for one of them and for a body it does not route.                       *)
EXTENDS TelegramDelivery, TLC

CONSTANT OtherTexts   \* what only the bot is asked to send

Rooms == [p \in Routes |-> IF p = "send" THEN 1 ELSE 2]

VARIABLE asked   \* the process that serves this behaviour's requests

Asked(q) ==
  \/ q.route = "none"
  \/ q.route = asked /\ (asked = "plan" => q.body \notin OtherTexts)

DeliveryInit == Init /\ asked \in Routes
DeliveryNext ==
  /\ UNCHANGED asked
  /\ \/ \E r \in Requests : Submit(r) /\ Asked(req[r])'
     \/ \E r \in Requests : Handler(r) \/ Deliver(r)
     \/ Restart(asked) \/ DecideGate \/ Tick
DeliverySpec == DeliveryInit /\ [][DeliveryNext]_<<vars, asked>>

SymmetricInputs == Permutations(Requests) \union Permutations(Keys)
=============================================================================
