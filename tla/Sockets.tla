------------------------------ MODULE Sockets ------------------------------
(***************************************************************************)
(* The authority of a socket of the API, from the ticket that opens it to  *)
(* the close: the redemption (tenancy/impl/manager.py), the attach and the *)
(* recheck (realtime/socket.py), and what a process hears of the tenant's  *)
(* changes (services/impl/realtime.py).  One ticket, the credential and    *)
(* the member it stands for, and all who present it.  Nothing the bus      *)
(* carries need ever arrive.                                               *)
(*                                                                         *)
(* Time is in steps: an opening and a check each take at most Delay, which *)
(* the storage's timeouts bound, and a timer fires when it is due.         *)
(***************************************************************************)
EXTENDS Integers, FiniteSets

CONSTANTS
    Openers,        \* who presents the ticket
    Kinds,          \* what it may stand for: a session, an api key
    TicketTtl,
    Expiry,         \* when the credential expires
    Interval,       \* realtime_recheck_seconds
    Delay,
    MaxNow

SocketsAssumption ==
    /\ {TicketTtl, Expiry, Interval, Delay, MaxNow} \subseteq Nat
    /\ Delay > 0 /\ Delay <= Interval
    /\ Kinds \subseteq {"session", "key"} /\ Kinds # {}

VARIABLES
    kind,
    redeemed,
    live,       \* whether the credential is not revoked
    member,     \* the membership's role, or that it ended
    plan,       \* whether the org's plan has api keys
    bus,        \* the changes on their way to the processes
    sockets,
    now

vars == <<kind, redeemed, live, member, plan, bus, sockets, now>>
authority == <<kind, live, member, plan>>

Never == -1

Whats == {"credential", "rights", "plan"}

\* `lost` is since when each part of the authority it read no longer holds, and
\* `told` when a change of the account was heard that took its key off the plan.
NoSocket == [pc |-> "idle", since |-> 0, role |-> "none", due |-> 0, nudged |-> FALSE,
             lost |-> [w \in Whats |-> Never], told |-> Never]

Opening == {"redeemed", "found", "attached"}
Checking == {"checking", "known"}
Serving == Checking \cup {"waiting"}
Attached == Serving \cup {"attached"}

Init ==
    /\ kind \in Kinds
    /\ redeemed = FALSE
    /\ live = TRUE /\ member = "role" /\ plan = TRUE
    /\ bus = {}
    /\ sockets = [c \in Openers |-> NoSocket]
    /\ now = 0

----------------------------------------------------------------------------
(* What an opening and a check read.                                       *)

CredentialHolds == live /\ now < Expiry
Allowed == kind = "key" => plan
PrincipalHolds == member # "ended" /\ Allowed

\* Only whether the member and the plan still stand is asked.
MutRefuses(s) == ~PrincipalHolds

\* recheck: refused, or under other rights than the socket's.
Refuses(s) == ~PrincipalHolds \/ member # s.role

Closed(s) == [NoSocket EXCEPT !.pc = "closed"]

Moves(c, s) == sockets' = [sockets EXCEPT ![c] = s]
Ends(c) == Moves(c, Closed(sockets[c]))

\* redeem_socket_ticket: the one conditional write.
Redeem(c) ==
    /\ sockets[c].pc = "idle"
    /\ redeemed' = TRUE
    /\ IF redeemed THEN Ends(c)
       ELSE Moves(c, [sockets[c] EXCEPT !.pc = "redeemed", !.since = now])
    /\ UNCHANGED <<authority, bus, now>>

\* resume: the credential, then the member with the account.
FindCredential(c) ==
    /\ sockets[c].pc = "redeemed"
    /\ IF sockets[c].since < TicketTtl /\ CredentialHolds
       THEN Moves(c, [sockets[c] EXCEPT !.pc = "found"])
       ELSE Ends(c)
    /\ UNCHANGED <<authority, redeemed, bus, now>>

\* Nothing is awaited between the read of the member and the attach.
FindPrincipal(c) ==
    /\ sockets[c].pc = "found"
    /\ IF PrincipalHolds
       THEN Moves(c, [sockets[c] EXCEPT !.pc = "attached", !.role = member])
       ELSE Ends(c)
    /\ UNCHANGED <<authority, redeemed, bus, now>>

\* The head was read: the recheck's loop starts, at a phase drawn at random.
Starts(c) ==
    /\ sockets[c].pc = "attached"
    /\ \E due \in now..(now + Interval) :
          Moves(c, [sockets[c] EXCEPT !.pc = "waiting", !.due = due])
    /\ UNCHANGED <<authority, redeemed, bus, now>>

\* The tick, or a nudge, from which the ticks start again.
StartCheck(c) ==
    /\ sockets[c].pc = "waiting"
    /\ sockets[c].nudged \/ now >= sockets[c].due
    /\ Moves(c, [sockets[c] EXCEPT !.pc = "checking", !.since = now, !.due = now,
                                   !.nudged = FALSE])
    /\ UNCHANGED <<authority, redeemed, bus, now>>

CheckCredential(c) ==
    /\ sockets[c].pc = "checking"
    /\ IF CredentialHolds THEN Moves(c, [sockets[c] EXCEPT !.pc = "known"]) ELSE Ends(c)
    /\ UNCHANGED <<authority, redeemed, bus, now>>

\* Every: the next tick of the grid from the last one.
CheckPrincipal(c) ==
    /\ sockets[c].pc = "known"
    /\ IF Refuses(sockets[c]) THEN Ends(c)
       ELSE Moves(c, [sockets[c] EXCEPT !.pc = "waiting", !.due = @ + Interval])
    /\ UNCHANGED <<authority, redeemed, bus, now>>

\* The credential's expiry; a read that fails; a peer that leaves.
Expire(c) ==
    /\ sockets[c].pc \in Serving /\ now >= Expiry
    /\ Ends(c)
    /\ UNCHANGED <<authority, redeemed, bus, now>>

Drop(c) ==
    /\ sockets[c].pc \in Opening \cup Serving
    /\ Ends(c)
    /\ UNCHANGED <<authority, redeemed, bus, now>>

----------------------------------------------------------------------------
(* What changes meanwhile, and is told.                                    *)

\* What a socket has read of its authority, and no longer holds.
Losses(s, l, m, p) ==
    {w \in Whats :
        CASE w = "credential" -> s.pc \in Attached \cup {"found"} /\ ~l
          [] w = "rights" -> s.pc \in Attached /\ m # s.role
          [] w = "plan" -> s.pc \in Attached /\ kind = "key" /\ ~p}

Mark(l, m, p) ==
    sockets' = [c \in Openers |->
        LET s == sockets[c]
            losses == Losses(s, l, m, p)
        IN [s EXCEPT
              !.lost = [w \in Whats |-> IF w \notin losses THEN Never
                                        ELSE IF s.lost[w] = Never THEN now ELSE s.lost[w]],
              !.told = IF "plan" \in losses THEN @ ELSE Never]]

\* A sign-out, a switch, a key deleted.
Revoke ==
    /\ live /\ live' = FALSE
    /\ bus' = bus \cup {"credential"}
    /\ Mark(FALSE, member, plan)
    /\ UNCHANGED <<kind, redeemed, member, plan, now>>

ChangeRole ==
    /\ member = "role" /\ member' = "other"
    /\ bus' = bus \cup {"membership"}
    /\ Mark(live, "other", plan)
    /\ UNCHANGED <<kind, redeemed, live, plan, now>>

\* The member is removed, or the org is closed.
EndMembership ==
    /\ member # "ended" /\ member' = "ended"
    /\ bus' = bus \cup {"user"}
    /\ Mark(live, "ended", plan)
    /\ UNCHANGED <<kind, redeemed, live, plan, now>>

ChangePlan ==
    /\ plan' = ~plan
    /\ bus' = bus \cup {"account"}
    /\ Mark(live, member, ~plan)
    /\ UNCHANGED <<kind, redeemed, live, member, now>>

\* _on_change, in the process of a socket.
Hears(s, change) ==
    IF s.pc \notin Attached THEN s
    ELSE IF change # "account" THEN Closed(s)
    ELSE IF kind = "key"
         THEN [s EXCEPT !.nudged = TRUE, !.told = IF plan \/ @ # Never THEN @ ELSE now]
    ELSE s

Hear(change) ==
    /\ change \in bus
    /\ bus' = bus \ {change}
    /\ sockets' = [c \in Openers |-> Hears(sockets[c], change)]
    /\ UNCHANGED <<authority, redeemed, now>>

\* Time waits for what is due.
Waits(s) ==
    \/ s.pc \in Opening \cup Checking /\ now - s.since >= Delay
    \/ s.pc = "waiting" /\ (s.nudged \/ now >= s.due)
    \/ s.pc \in Serving /\ now >= Expiry

Tick ==
    /\ now < MaxNow /\ \A c \in Openers : ~Waits(sockets[c])
    /\ now' = now + 1
    /\ UNCHANGED <<authority, redeemed, bus, sockets>>

Next ==
    \/ \E c \in Openers :
          \/ Redeem(c) \/ FindCredential(c) \/ FindPrincipal(c) \/ Starts(c)
          \/ StartCheck(c) \/ CheckCredential(c) \/ CheckPrincipal(c)
          \/ Expire(c) \/ Drop(c)
    \/ Revoke \/ ChangeRole \/ EndMembership \/ ChangePlan
    \/ \E change \in bus : Hear(change)
    \/ Tick

Spec == Init /\ [][Next]_vars

----------------------------------------------------------------------------
(* Properties.                                                             *)

Times == 0..(MaxNow + Interval)

TypeOK ==
    /\ kind \in Kinds
    /\ {redeemed, live, plan} \subseteq BOOLEAN
    /\ member \in {"role", "other", "ended"}
    /\ bus \subseteq {"credential", "membership", "user", "account"}
    /\ sockets \in [Openers -> [
          pc : {"idle", "closed"} \cup Opening \cup Serving, since : Times,
          role : {"none", "role", "other"}, due : Times, nudged : BOOLEAN,
          lost : [Whats -> Times \cup {Never}], told : Times \cup {Never}]]
    /\ now \in 0..MaxNow

\* A ticket opens one socket, however many present it (redeem_socket_ticket).
TicketOpensOne == Cardinality({c \in Openers : sockets[c].pc \in Opening \cup Serving}) <= 1

\* A socket whose credential was revoked, whose member's rights changed or whose
\* key left the plan is closed within an interval and the time it takes to open
\* and to check, though the bus tells nobody; at the credential's expiry, or as it
\* opens if that comes later; and as soon as it can be checked when a change of the
\* account was heard, in whichever step of the recheck that was
\* (recheck_until_refused, recheck).
ClosesInTime ==
    \A c \in Openers :
        LET s == sockets[c]
        IN s.pc \in Attached =>
              /\ \A w \in Whats : s.lost[w] # Never => now - s.lost[w] <= Interval + 2 * Delay
              /\ s.told # Never => now - s.told <= 2 * Delay
              /\ s.pc \in Serving => now < Expiry + Delay

----------------------------------------------------------------------------
(* What the steps keep, from which both follow.                            *)

\* Nobody is in before the ticket is redeemed, and then one.
OneIsIn ==
    \A c \in Openers : sockets[c].pc \in Opening \cup Serving =>
        /\ redeemed
        /\ \A d \in Openers \ {c} : sockets[d].pc \notin Opening \cup Serving

\* What is marked as lost is what no longer holds.
LostIsLost(s) == \A w \in Whats : s.lost[w] # Never <=> w \in Losses(s, live, member, plan)

\* An opening and a check take at most Delay, and the next check is at most an
\* interval away.
IsOnTime(s) ==
    /\ s.pc \in Opening \cup Checking => s.since <= now /\ now <= s.since + Delay
    /\ s.pc \in Checking => s.due = s.since
    /\ s.pc = "waiting" => now <= s.due /\ s.due <= now + Interval

\* The next check, or the one under way that is still to read it, begins within
\* an interval and an opening of the loss.
LossIsSeen(s) ==
    \A w \in Whats : s.lost[w] # Never =>
        /\ s.lost[w] <= now
        /\ s.pc \in Opening => s.since <= s.lost[w]
        /\ s.pc = "waiting" => s.due <= s.lost[w] + Interval + Delay
        /\ s.pc \in Checking => s.since <= s.lost[w] + Interval + Delay
        /\ s.pc = "known" /\ w = "credential" => s.since <= s.lost[w]

\* A socket that was told checks at once, or as soon as it is open.
TellingIsSeen(s) ==
    s.told # Never =>
        /\ s.pc \in Attached /\ kind = "key" /\ ~plan
        /\ s.told <= now
        /\ s.pc = "attached" => s.nudged /\ s.since <= s.told
        /\ s.pc = "waiting" => s.nudged /\ now <= s.told + Delay
        /\ s.pc \in Checking => s.since <= s.told + Delay

\* A credential is read before its expiry.
ExpiryIsSeen(s) ==
    /\ s.pc \in {"found", "attached"} => s.since < Expiry
    /\ s.pc \in Serving => now < Expiry + Delay

Right(s) == LostIsLost(s) /\ IsOnTime(s) /\ LossIsSeen(s) /\ TellingIsSeen(s) /\ ExpiryIsSeen(s)

IInv == TypeOK /\ OneIsIn /\ \A c \in Openers : Right(sockets[c])
=============================================================================
