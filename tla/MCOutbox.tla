------------------------------ MODULE MCOutbox ------------------------------
(***************************************************************************)
(* Instances of Outbox for TLC.                                            *)
(***************************************************************************)
EXTENDS Outbox, TLC

CONSTANTS q1

\* One request writes every row.
OneRequest == [r \in Rows |-> q1]

SweepSymmetry == Permutations(Sweeps) \cup Permutations(Hands)
=============================================================================
