--------------------------- MODULE MCTelegramStack ---------------------------
(* The stack manager on two services, two invocations of it and two pids.  *)
(* A behaviour in which ps may time out starts one process less.           *)
EXTENDS TelegramStack

TwoServices == <<"rustControl", "telegramGateway">>
Symmetry == Permutations(Pids) \union Permutations(Managers)
=============================================================================
