------------------------------ MODULE MCLeases ------------------------------
(* Instances of Leases: r1, r2 are resources, q1, q2 requests.             *)
EXTENDS Leases, TLC

CONSTANTS r1, r2, q1, q2, cold, none, api, sweep

OneResource == {r1}
TwoResources == {r1, r2}
TwoRequests == {q1, q2}
Labels == {{cold}}

\* The first names its resource and the second is a selector, or both are.
FirstNames == [q \in Requests |-> IF q = q1 THEN r1 ELSE none]
Selectors == [q \in Requests |-> none]
NeedA == [q \in Requests |-> {cold}]

Terms == [q \in Requests |-> 2]
NoWindow == [q \in Requests |-> 0]
FirstHasJob == [q \in Requests |-> IF q = q1 THEN 1 ELSE 0]
ShortTerms == [q \in Requests |-> 1]
Waits == [q \in Requests |-> 2]

\* Where each request is for any resource of the label and each process may sweep,
\* resources are alike, and so are processes.
AlikeSymmetry == Permutations(Resources) \cup Permutations(Callers)
=============================================================================
