----------------------------- MODULE ReplayCache -----------------------------
(***************************************************************************)
(* What an Idempotency-Key promises a caller of a live endpoint.  A key    *)
(* names at most one execution at a time; that execution calls the         *)
(* provider at most once; a key is forgotten only after its execution has  *)
(* settled, or with the whole process.  Both caches of the Telegram control*)
(* plane are shown to implement this (module TelegramDelivery).            *)
(***************************************************************************)
EXTENDS Naturals

CONSTANTS Keys, Bodies, NoBody

VARIABLE run   \* the execution each key names

Free == [st |-> "free", body |-> NoBody, calls |-> 0]
Running(b) == [st |-> "running", body |-> b, calls |-> 0]

Init == run = [k \in Keys |-> Free]

(* Some settled keys may be forgotten whenever a request arrives.          *)
Forgettable == SUBSET {k \in Keys : run[k].st = "settled"}
Forget(F) == [k \in Keys |-> IF k \in F THEN Free ELSE run[k]]

Begin(k, b) ==
  /\ run[k].st \in {"free", "settled"}
  /\ \E F \in Forgettable :
       /\ Forget(F)[k] = Free
       /\ run' = [Forget(F) EXCEPT ![k] = Running(b)]

Drop == \E F \in Forgettable : run' = Forget(F)

(* The provider is called at most once.                                    *)
Call(k) ==
  /\ run[k].st = "running" /\ run[k].calls = 0
  /\ run' = [run EXCEPT ![k].calls = 1]

Settle(k) ==
  /\ run[k].st = "running"
  /\ run' = [run EXCEPT ![k].st = "settled"]

(* An execution that fails before it called the provider frees its key.    *)
Throw(k) ==
  /\ run[k].st = "running" /\ run[k].calls = 0
  /\ run' = [run EXCEPT ![k] = Free]

Restart == run' = [k \in Keys |-> Free]

Next ==
  \/ \E k \in Keys : Call(k) \/ Settle(k) \/ Throw(k)
                     \/ \E b \in Bodies : Begin(k, b)
  \/ Drop \/ Restart

Spec == Init /\ [][Next]_run
=============================================================================
