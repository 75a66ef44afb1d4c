------------------------------- MODULE Stream -------------------------------
(***************************************************************************)
(* What om/change_events promises of one tenant's stream: events join at   *)
(* the top, whole batches at a time and no event twice, the trim takes     *)
(* them from the bottom, and nothing else ever happens to a stream until   *)
(* its tenant is purged.  The number of log[n] is floor + n.               *)
(***************************************************************************)
EXTENDS Integers, Sequences, FiniteSets

CONSTANTS Ids

VARIABLES log, floor, life

vars == <<log, floor, life>>

Init == log = <<>> /\ floor = 0 /\ life = "live"

\* The events of a batch, in the order they were produced.
InOrder(batch) ==
    {s \in [1..Cardinality(batch) -> batch] : \A m, n \in DOMAIN s : m < n => s[m] < s[n]}

\* One commit adds a batch of events that are not in the stream.
AppendBatch(batch) ==
    /\ life = "live"
    /\ \E s \in InOrder(batch) : log' = log \o s
    /\ UNCHANGED <<floor, life>>

\* The oldest k events go, and the floor moves with them.
TrimBottom(k) ==
    /\ life = "live"
    /\ log' = SubSeq(log, k + 1, Len(log))
    /\ floor' = floor + k
    /\ UNCHANGED life

\* The tenant is past its retention; its stream has no readers any more.
Expire ==
    /\ life = "live"
    /\ life' = "expired" /\ log' = <<>> /\ floor' = 0

Next ==
    \/ \E batch \in SUBSET Ids :
          /\ batch # {} /\ \A n \in DOMAIN log : log[n] \notin batch
          /\ AppendBatch(batch)
    \/ \E k \in 1..Len(log) : TrimBottom(k)
    \/ Expire

Spec == Init /\ [][Next]_vars
=============================================================================
