--------------------------- MODULE MCControlGates ---------------------------
(***************************************************************************)
(* Instances of ControlGates: two nodes behind one Store, one gate.        *)
(* Requests of one behaviour differ only in what they ask, which Init      *)
(* chooses freely, so they are interchangeable.                            *)
(***************************************************************************)
EXTENDS ControlGates, TLC

InterchangeableRequests == Permutations(Requests)

=============================================================================
