---------------------------- MODULE MCWorkQueue ----------------------------
(* Small instances of WorkQueue for TLC. *)
EXTENDS WorkQueue, TLC

\* Every item is one tenant's.
OneOrg == [i \in Items |-> "o1"]

\* Worker slots are interchangeable.
WorkerSymmetry == Permutations(Workers)
=============================================================================
