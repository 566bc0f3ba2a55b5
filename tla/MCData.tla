-------------------------------- MODULE MCData --------------------------------
(***************************************************************************)
(* The instance of DataStores that TLC checks.  Of three leases of two     *)
(* tasks two share one; of two visitors one is on the partner page; an     *)
(* account but the owner's may be without a name; two syncs may be at work *)
(* at once and one request or answer may be lost.                          *)
(***************************************************************************)
EXTENDS DataStores, TLC

CONSTANTS Twins, Shared  \* two leases of one task, and that task

ASSUME Twins \subseteq Leases /\ Shared \in Tasks

(* Leases have no identity of their own: it does not matter which share.   *)
Symmetry == Permutations(Twins)

(* The parts that do not move have one first state where it saves states.  *)
MCInit ==
  /\ DataInit
  /\ \A l \in IF part = "leases" THEN Twins ELSE Leases : task[l] = Shared
  /\ part = "site" \/ (configured /\ up)
  /\ nameless \subseteq IF part = "admin" THEN People \ {Owner} ELSE {}

MCSpec == MCInit /\ [][DataNext]_dataVars
=============================================================================
