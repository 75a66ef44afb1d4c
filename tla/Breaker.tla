------------------------------ MODULE Breaker ------------------------------
(***************************************************************************)
(* The breaker of one dependency (infra/breaker.py), shared by every call  *)
(* a process makes to it: the cache's and the topics' decorations ask      *)
(* allows() and bracket what they let out with measured().  The process    *)
(* has one event loop, so each transition is one step; what interleaves is *)
(* the calls that are out.                                                 *)
(***************************************************************************)
EXTENDS Naturals, FiniteSets, FiniteSetsExt

CONSTANTS
    Calls,      \* the calls that may be out at once
    Failures,   \* slow calls in a row that open the breaker
    Cooldown,   \* how long it then refuses
    Slow,       \* the timeout: a call that reaches it is counted
    Lag,        \* how late a call that timed out may be noticed
    MaxEvents   \* bound on outages and on callers that leave

\* A call that is out when the breaker opens ends within the cool-down.  The
\* settings have a timeout of seconds and a cool-down of half a minute.
BreakerAssumption ==
    /\ IsFiniteSet(Calls)
    /\ {Failures, Cooldown, Slow, Lag, MaxEvents} \subseteq Nat
    /\ Failures > 0 /\ Slow > 0
    /\ Slow + Lag < Cooldown

VARIABLES
    consecutive,    \* _consecutive, up to Failures: a greater count reads the same
    opened,         \* _opened_at # None
    since,          \* the time since _opened_at, up to Cooldown
    probing,        \* _probing
    out,            \* the calls that are out: their age and how they will end
    up,             \* whether the dependency answers in time
    events

vars == <<consecutive, opened, since, probing, out, up, events>>

Idle == [age |-> 0, ends |-> "idle"]

IsOut(c) == out[c].ends # "idle"

Init ==
    /\ consecutive = 0
    /\ opened = FALSE
    /\ since = 0
    /\ probing = FALSE
    /\ out = [c \in Calls |-> Idle]
    /\ up = TRUE
    /\ events = 0

Event == events < MaxEvents /\ events' = events + 1

\* allows(): any call while it is closed; one after the cool-down.
Allows == \/ ~opened /\ UNCHANGED probing
          \/ opened /\ ~probing /\ since = Cooldown /\ probing' = TRUE

\* A call that allows() refuses goes nowhere and changes nothing.
Start(c) ==
    /\ ~IsOut(c)
    /\ Allows
    /\ \E ends \in IF up THEN {"in time"} ELSE {"in time", "late"} :
          out' = [out EXCEPT ![c] = [age |-> 0, ends |-> ends]]
    /\ UNCHANGED <<consecutive, opened, since, up, events>>

Failed ==
    /\ probing' = FALSE
    /\ consecutive' = Min({consecutive + 1, Failures})
    /\ opened' = (opened \/ consecutive + 1 >= Failures)
    /\ since' = IF opened' THEN 0 ELSE since

\* A probe that came back in time, and is only counted.
MutSucceeded ==
    /\ probing' = FALSE
    /\ consecutive' = 0
    /\ UNCHANGED <<opened, since>>

Succeeded ==
    /\ probing' = FALSE
    /\ consecutive' = 0
    /\ opened' = FALSE
    /\ since' = 0

\* _record(): what came back, an answer or an error, is read as what it cost.
Return(c) ==
    /\ \/ out[c].ends = "in time" /\ Succeeded
       \/ out[c].ends = "late" /\ out[c].age >= Slow /\ Failed
    /\ out' = [out EXCEPT ![c] = Idle]
    /\ UNCHANGED <<up, events>>

\* A cancel in time that leaves the slot taken.
MutLeft == UNCHANGED <<consecutive, opened, since, probing>>

\* A caller that left before the timeout says nothing of the dependency.
Left == probing' = FALSE /\ UNCHANGED <<consecutive, opened, since>>

Cancel(c) ==
    /\ IsOut(c)
    /\ IF out[c].age >= Slow THEN Failed ELSE Left
    /\ out' = [out EXCEPT ![c] = Idle]
    /\ Event
    /\ UNCHANGED up

Deadline(call) == IF call.ends = "late" THEN Slow + Lag ELSE Slow - 1

Tick ==
    /\ \A c \in Calls : IsOut(c) => out[c].age < Deadline(out[c])
    /\ \/ opened /\ since < Cooldown
       \/ \E c \in Calls : IsOut(c)
    /\ out' = [c \in Calls |-> IF IsOut(c) THEN [out[c] EXCEPT !.age = @ + 1] ELSE Idle]
    /\ since' = IF opened THEN Min({since + 1, Cooldown}) ELSE since
    /\ UNCHANGED <<consecutive, opened, probing, up, events>>

\* An outage of the dependency begins, or is over.
Outage ==
    /\ up' = ~up
    /\ IF up THEN Event ELSE UNCHANGED events
    /\ UNCHANGED <<consecutive, opened, since, probing, out>>

Next ==
    \/ \E c \in Calls : Start(c) \/ Return(c) \/ Cancel(c)
    \/ Tick
    \/ Outage

Spec == Init /\ [][Next]_vars

\* Calls keep coming and come back, and the clock moves.
Fairness ==
    /\ WF_vars(Tick)
    /\ WF_vars(\E c \in Calls : Start(c))
    /\ \A c \in Calls : WF_vars(Return(c))

FairSpec == Spec /\ Fairness

----------------------------------------------------------------------------
(* Properties.                                                             *)

TypeOK ==
    /\ consecutive \in 0..Failures
    /\ {opened, probing, up} \subseteq BOOLEAN
    /\ since \in 0..Cooldown
    /\ out \in [Calls -> [age : 0..(Slow + Lag), ends : {"idle", "in time", "late"}]]
    /\ events \in 0..MaxEvents

\* The probe goes out alone, and while the slot is taken the probe is out: no
\* call that was out before, and no caller that leaves, lets a second one follow
\* or leaves the slot taken by nobody (allows, measured).
ProbeIsAlone ==
    probing => opened /\ \E c \in Calls : {d \in Calls : IsOut(d)} = {c}

\* A call that is out while the breaker refuses was out when it opened.
OutSinceItOpened ==
    opened /\ ~probing => \A c \in Calls : IsOut(c) => out[c].age >= since

\* A taken slot has its one call, after the whole cool-down.
SlotHasItsCall ==
    probing => /\ opened /\ since = Cooldown
               /\ \E c \in Calls : /\ IsOut(c)
                                   /\ \A d \in Calls : IsOut(d) => d = c

\* What the steps keep, from which ProbeIsAlone follows.
IInv == TypeOK /\ OutSinceItOpened /\ SlotHasItsCall

\* Once the dependency answers in time for good, the breaker closes and stays
\* closed: a probe always comes, whichever callers left.
Recovers == <>[]up => <>[]~opened
=============================================================================
