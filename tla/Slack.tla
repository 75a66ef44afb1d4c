------------------------------- MODULE Slack -------------------------------
(***************************************************************************)
(* The bot token of one org's Slack installation: the pair of tokens in    *)
(* the secret store, the renewal that one caller of bot_token claims on    *)
(* the installation's row, and the writes of that row beside it            *)
(* (slack/impl/manager.py).  A refresh token works once, so a pair that    *)
(* Slack issued and nobody kept leaves the store with one that is spent.   *)
(*                                                                         *)
(* A renewal ends, or its process dies, within the claim: half a minute    *)
(* against Slack's timeout of ten seconds.                                 *)
(***************************************************************************)
EXTENDS Naturals, FiniteSets

CONSTANTS
    Callers,        \* who asks for the token, or writes the row
    MaxPairs,       \* bound on the pairs Slack issues
    MaxFaults       \* bound on crashes and calls to Slack that fail

SlackAssumption ==
    /\ IsFiniteSet(Callers)
    /\ {MaxPairs, MaxFaults} \subseteq Nat /\ MaxPairs > 0

VARIABLES
    claimed,    \* refreshing_until is set
    broken,     \* the installation's status
    stored,     \* the pair in the secret store, numbered as Slack issued them
    age,        \* of the stored pair
    issued,     \* the newest pair
    callers,    \* what each call holds
    lost,       \* whether a pair was issued that nobody received or kept
    bared,      \* whether a renewal goes on that a write of the row took the claim from
    faults

vars == <<claimed, broken, stored, age, issued, callers, lost, bared, faults>>

Ages == {"fresh", "due", "expired"}

Idle == [pc |-> "idle", pair |-> 0, age |-> "fresh", claimed |-> FALSE]

Renewing(c) == callers[c].pc \in {"claimed", "renewing", "renewed", "kept", "refused"}

Init ==
    /\ claimed = FALSE
    /\ broken = FALSE
    /\ stored = 1
    /\ age = "fresh"
    /\ issued = 1
    /\ callers = [c \in Callers |-> Idle]
    /\ lost = FALSE
    /\ bared = FALSE
    /\ faults = 0

Fault == faults < MaxFaults /\ faults' = faults + 1

Goes(c, pc) == callers' = [callers EXCEPT ![c].pc = pc]

Ends(c) == callers' = [callers EXCEPT ![c] = Idle]

\* What a caller that stops leaves behind: a renewal of another goes on.
StillBared(c) == bared' = (bared /\ \E d \in Callers \ {c} : Renewing(d))

----------------------------------------------------------------------------
(* bot_token()                                                             *)

\* The secret is read; a token that is fresh is the answer.
ReadToken(c) ==
    /\ callers[c].pc = "idle"
    /\ age # "fresh"
    /\ callers' = [callers EXCEPT ![c] = [Idle EXCEPT !.pc = "asking", !.pair = stored, !.age = age]]
    /\ UNCHANGED <<claimed, broken, stored, age, issued, lost, bared, faults>>

\* claim_refresh(): its condition on refreshing_until.
MayClaim == ~claimed

\* A caller without the claim uses the token in hand, or raises token_renewing.
Claim(c) ==
    /\ callers[c].pc = "asking"
    /\ claimed' = TRUE
    /\ IF MayClaim THEN Goes(c, "claimed") ELSE Ends(c)
    /\ UNCHANGED <<broken, stored, age, issued, lost, bared, faults>>

\* The pair that was read before the claim.
MutReadAgain(c) == callers[c]

\* A renewal that settled since left a fresh pair.
ReadAgain(c) == [pair |-> stored, age |-> age]

Reread(c) ==
    /\ callers[c].pc = "claimed"
    /\ LET read == ReadAgain(c)
       IN callers' = [callers EXCEPT
              ![c].pc = IF read.age = "fresh" THEN "kept" ELSE "renewing",
              ![c].pair = read.pair, ![c].age = read.age]
    /\ UNCHANGED <<claimed, broken, stored, age, issued, lost, bared, faults>>

\* Slack issues a pair, or refuses a refresh token that is spent.  A call that
\* goes unanswered may have spent it.
Refresh(c) ==
    /\ callers[c].pc = "renewing"
    /\ IF callers[c].pair = issued
       THEN /\ issued < MaxPairs
            /\ \/ /\ issued' = issued + 1
                  /\ callers' = [callers EXCEPT ![c].pc = "renewed", ![c].pair = issued + 1]
                  /\ UNCHANGED <<lost, faults>>
               \/ /\ issued' \in {issued, issued + 1}
                  /\ lost' = (lost \/ issued' # issued)
                  /\ Goes(c, "kept")
                  /\ Fault
       ELSE /\ Goes(c, "refused")
            /\ UNCHANGED <<issued, lost, faults>>
    /\ UNCHANGED <<claimed, broken, stored, age, bared>>

\* The new pair is kept before anything else happens.
Keep(c) ==
    /\ callers[c].pc = "renewed"
    /\ stored' = callers[c].pair
    /\ age' = "fresh"
    /\ Goes(c, "kept")
    /\ UNCHANGED <<claimed, broken, issued, lost, bared, faults>>

\* settle_refresh(): whoever has the claim.  A token Slack refused then breaks the
\* installation.
Settle(c) ==
    /\ callers[c].pc \in {"kept", "refused"}
    /\ claimed' = FALSE
    /\ StillBared(c)
    /\ IF callers[c].pc = "refused" THEN Goes(c, "breaking") ELSE Ends(c)
    /\ UNCHANGED <<broken, stored, age, issued, lost, faults>>

Dies(c) ==
    /\ callers[c].pc # "idle"
    /\ Fault
    /\ lost' = (lost \/ callers[c].pc = "renewed")
    /\ StillBared(c)
    /\ Ends(c)
    /\ UNCHANGED <<claimed, broken, stored, age, issued>>

----------------------------------------------------------------------------
(* The row's other writers, and time.                                      *)

\* bind_channel and bot_joined mend the installation and mark_broken breaks it.
\* Each reads the row and copies it, the claim with it, whatever renewal goes on.
EditReads(c) ==
    /\ \/ /\ callers[c].pc = "idle"
          /\ \E pc \in {"mending", "marking"} :
                callers' = [callers EXCEPT ![c].pc = pc, ![c].claimed = claimed]
       \/ /\ callers[c].pc = "breaking"
          /\ \/ callers' = [callers EXCEPT ![c].pc = "marking", ![c].claimed = claimed]
             \/ broken /\ Ends(c)
    /\ UNCHANGED <<claimed, broken, stored, age, issued, lost, bared, faults>>

\* All of the copy is written.
EditWrites(c) ==
    /\ callers[c].pc \in {"mending", "marking"}
    /\ claimed' = callers[c].claimed
    /\ broken' = (callers[c].pc = "marking")
    /\ bared' = (bared \/ (~callers[c].claimed /\ \E d \in Callers : Renewing(d)))
    /\ Ends(c)
    /\ UNCHANGED <<stored, age, issued, lost, faults>>

\* The claim of a renewal that died is past.
ClaimLapses ==
    /\ claimed
    /\ \A c \in Callers : ~Renewing(c)
    /\ claimed' = FALSE
    /\ UNCHANGED <<broken, stored, age, issued, callers, lost, bared, faults>>

\* The stored token comes into the margin, and expires.
Tick ==
    /\ age # "expired"
    /\ age' = IF age = "fresh" THEN "due" ELSE "expired"
    /\ UNCHANGED <<claimed, broken, stored, issued, callers, lost, bared, faults>>

Next ==
    \/ \E c \in Callers : \/ ReadToken(c) \/ Claim(c) \/ Reread(c) \/ Refresh(c)
                          \/ Keep(c) \/ Settle(c) \/ Dies(c)
                          \/ EditReads(c) \/ EditWrites(c)
    \/ ClaimLapses \/ Tick

Spec == Init /\ [][Next]_vars

----------------------------------------------------------------------------
(* Properties.                                                             *)

Call == [pc : {"idle", "asking", "claimed", "renewing", "renewed", "kept", "refused",
               "breaking", "mending", "marking"},
         pair : 0..MaxPairs, age : Ages, claimed : BOOLEAN]

TypeOK ==
    /\ {claimed, broken, lost, bared} \subseteq BOOLEAN
    /\ stored \in 1..MaxPairs /\ issued \in stored..MaxPairs
    /\ age \in Ages
    /\ callers \in [Callers -> Call]
    /\ faults \in 0..MaxFaults

\* One caller renews at a time, under the claim, unless the claim was taken off.
OneRenews ==
    bared \/ /\ \A c \in Callers : Renewing(c) => claimed
             /\ \A c, d \in Callers : Renewing(c) /\ Renewing(d) => c = d

\* A pair that is about to be kept is the newest, newer than the stored one and
\* the only such; one that is about to be presented came from the store.
RenewedIsNewest ==
    /\ \A c \in Callers : callers[c].pc = "renewed" =>
          callers[c].pair = issued /\ stored < issued
    /\ \A c, d \in Callers :
          callers[c].pc = "renewed" /\ callers[d].pc = "renewed" => c = d
    /\ \A c \in Callers : callers[c].pc = "renewing" => callers[c].pair <= stored

\* The newest pair is in the store, or with the one caller that is about to keep
\* it, unless a pair was lost with a process or an answer: a write of the whole row
\* across a renewal does not undo it.  And no refresh token that is spent is
\* presented (bot_token), unless such a write took a renewal's claim off and that
\* renewal, or one that began beside it, still goes on.
NewestPairIsKept ==
    lost \/ /\ \/ stored = issued
               \/ \E c \in Callers : callers[c].pc = "renewed" /\ callers[c].pair = issued
            /\ bared \/ \A c \in Callers :
                  callers[c].pc = "renewing" => callers[c].pair = issued

IInv == TypeOK /\ OneRenews /\ RenewedIsNewest /\ NewestPairIsKept
=============================================================================
