--------------------------- MODULE MCChangeEvents ---------------------------
(***************************************************************************)
(* Instances of ChangeEvents for TLC.                                      *)
(***************************************************************************)
EXTENDS ChangeEvents, TLC

\* Appends, trims and clients run the same code.
ProcessSymmetry == Permutations(Appenders) \cup Permutations(Trimmers)
=============================================================================
