----------------------------- MODULE Idempotency -----------------------------
(***************************************************************************)
(* One Idempotency-Key of one user (om/idempotency, the gateway's          *)
(* Idempotency.run), with the create that issues a secret behind it: the   *)
(* API key of tenancy's issue_api_key.  A run is one request a client      *)
(* sends under the key; the client sends it again for as long as it is     *)
(* told to wait or the request fails.                                      *)
(*                                                                         *)
(* An attempt is a number, minted in order, as its uuid_v7 is.  The run    *)
(* that writes the marker mints the id of the create with it, so a target  *)
(* is named by the attempt that minted it, and a secret by the attempt     *)
(* that issued it.                                                         *)
(***************************************************************************)
EXTENDS Integers, FiniteSets

CONSTANTS
    Runs,           \* requests under way with the key
    Digests,        \* what they may ask for
    PendingTtl,     \* IdempotencyOptions.pending_ttl
    AbandonAge,     \* pending_ttl * abandoned_after
    Retention,      \* IdempotencyOptions.retention
    Skew,           \* two processes' clocks, and how late a statement lands
    Overtaking,     \* whether a take-over may fall inside a re-mint's statement
    MaxAttempts,    \* bound on the attempts minted
    MaxFaults,      \* bound on crashes, failures and attempts that outlive the lease
    MaxPurges       \* bound on purges

Attempts == 1..MaxAttempts

ASSUME IdempotencyAssumption ==
    /\ IsFiniteSet(Runs) /\ Digests \subseteq Nat
    /\ PendingTtl \in Nat /\ AbandonAge \in Nat /\ Retention \in Nat /\ Skew \in Nat
    /\ Overtaking \in BOOLEAN
    /\ MaxAttempts \in Nat /\ MaxFaults \in Nat /\ MaxPurges \in Nat

VARIABLES
    marker,     \* the record in idempotency_records
    secret,     \* per target, the attempt whose secret the api_keys row holds
    revoked,    \* targets whose row has deleted_at
    runs,       \* what each run holds in memory
    minted,     \* attempts minted so far
    faults,     \* how many of MaxFaults have happened
    purges      \* how many of MaxPurges have happened

vars == <<marker, secret, revoked, runs, minted, faults, purges>>

\* A marker is absent, pending (released when its attempt is 0) or finished, with
\* the outcome's kind and the attempt that recorded it.
Marker(state, target, digest, attempt, since, age) ==
    [state |-> state, target |-> target, digest |-> digest, attempt |-> attempt,
     since |-> since, age |-> age, kind |-> "none", by |-> 0]

NoMarker == Marker("none", 0, 0, 0, 0, 0)

\* pc of a run that works, and of one whose client has its answer.
Working == {"duplicate", "rearm", "takeover", "create", "remint", "landing",
            "finish", "lost", "release"}
Armed == {"create", "remint", "landing", "finish", "lost", "release", "recorded"}
Retried == {"idle", "wait", "failed", "dead"}
Answered == {"recorded", "replayed", "unrecorded", "reused", "gone"}

\* `kind` and `by` are the outcome that the run has, or that it was answered.
Run(r, pc, attempt, target, kind, by) ==
    [pc |-> pc, digest |-> runs[r].digest, attempt |-> attempt, target |-> target,
     kind |-> kind, by |-> by]

\* A run that holds nothing, or nothing any more.
Bare(r, pc) == Run(r, pc, 0, 0, "none", 0)

Init ==
    /\ marker = NoMarker
    /\ secret = [t \in Attempts |-> 0]
    /\ revoked = {}
    /\ runs \in [Runs -> [pc : {"idle"}, digest : Digests, attempt : {0}, target : {0},
                         kind : {"none"}, by : {0}]]
    /\ minted = 0 /\ faults = 0 /\ purges = 0

Fault == faults < MaxFaults /\ faults' = faults + 1

\* Mutant: the statement asks for the pending record, whoever holds it.
MutHoldsPending(attempt) == marker.state = "pending"

\* Mutant: the statement asks for the record by its key alone.
MutHoldsKey(attempt) == marker.state # "none"

\* The condition of finish_pending, release_pending and the re-mint's EXISTS.
Holds(attempt) == marker.state = "pending" /\ marker.attempt = attempt

\* A run that holds the marker and still works.
HolderWorks == \E r \in Runs : runs[r].pc \in Working /\ Holds(runs[r].attempt)

\* A run between the two halves of its re-mint, which holds the marker.
HolderLands == \E r \in Runs : runs[r].pc = "landing" /\ Holds(runs[r].attempt)

-----------------------------------------------------------------------------
(* begin                                                                   *)

\* write_record: the unique key lets the first writer in.
WriteRecord(r) ==
    /\ runs[r].pc \in Retried
    /\ IF marker.state = "none"
       THEN /\ minted < MaxAttempts
            /\ minted' = minted + 1
            /\ marker' = Marker("pending", minted', runs[r].digest, minted', 0, 0)
            /\ runs' = [runs EXCEPT ![r] = Run(r, "create", minted', minted', "none", 0)]
       ELSE /\ runs' = [runs EXCEPT ![r] = Bare(r, "duplicate")]
            /\ UNCHANGED <<marker, minted>>
    /\ UNCHANGED <<secret, revoked, faults, purges>>

\* What _begin does with the record it read: purged meanwhile, another request's,
\* an outcome to replay, released, or held.
AfterRead(r) ==
    IF marker.state = "none" THEN Bare(r, "failed")
    ELSE IF marker.digest # runs[r].digest THEN Bare(r, "reused")
    ELSE IF marker.state = "finished"
         THEN Run(r, "replayed", 0, marker.target, marker.kind, marker.by)
    ELSE Bare(r, IF marker.attempt = 0 THEN "rearm" ELSE "takeover")

ReadRecord(r) ==
    /\ runs[r].pc = "duplicate"
    /\ runs' = [runs EXCEPT ![r] = AfterRead(r)]
    /\ UNCHANGED <<marker, secret, revoked, minted, faults, purges>>

\* Mutant: the id this request minted before it knew of the marker.
MutTargetOwn(attempt) == attempt

\* The id the create uses: the marker's own.
TargetOf(attempt) == marker.target

\* A hand-over stamps a new attempt and nothing else.
Arm(r) ==
    /\ minted < MaxAttempts
    /\ minted' = minted + 1
    /\ marker' = [marker EXCEPT !.attempt = minted', !.since = 0]
    /\ runs' = [runs EXCEPT ![r] = Run(r, "create", minted', TargetOf(minted'), "none", 0)]

InProgress(r) ==
    /\ runs' = [runs EXCEPT ![r] = Bare(r, "wait")]
    /\ UNCHANGED <<marker, minted>>

\* rearm_released's condition.
Released == Holds(0)

RearmReleased(r) ==
    /\ runs[r].pc = "rearm"
    /\ IF Released THEN Arm(r) ELSE InProgress(r)
    /\ UNCHANGED <<secret, revoked, faults, purges>>

\* Mutant: nothing held is ever given up.
MutAbandonedNever(seen) == FALSE

\* take_over_pending's condition, for a token that looks `seen` old.
Abandoned(seen) == marker.state = "pending" /\ marker.attempt # 0 /\ seen > PendingTtl

TakeOverPending(r) ==
    /\ runs[r].pc = "takeover"
    /\ \E seen \in (marker.since - Skew)..(marker.since + Skew) :
          \/ /\ Abandoned(seen)
             /\ IF HolderWorks THEN Fault ELSE faults' = faults
             /\ HolderLands => Overtaking
             /\ Arm(r)
          \/ ~Abandoned(seen) /\ InProgress(r) /\ faults' = faults
    /\ UNCHANGED <<secret, revoked, purges>>

-----------------------------------------------------------------------------
(* The handler: create_api_key under the attempt                           *)

Refusal(r) == runs' = [runs EXCEPT ![r].pc = "finish", ![r].kind = "refused"]

\* The checks before the create refuse.
Refuse(r) ==
    /\ runs[r].pc = "create"
    /\ Refusal(r)
    /\ UNCHANGED <<marker, secret, revoked, minted, faults, purges>>

\* A call raises, or a plan's bound or a rate limit is met: the marker is released.
HandlerFails(r) ==
    /\ runs[r].pc \in {"create", "remint", "landing"}
    /\ Fault
    /\ runs' = [runs EXCEPT ![r].pc = "release"]
    /\ UNCHANGED <<marker, secret, revoked, minted, purges>>

\* issue_api_key's insert.  The request may still fail after it, in the relay of the
\* row's event or at its deadline.
InsertKey(r) ==
    LET t == runs[r].target IN
    /\ runs[r].pc = "create"
    /\ \/ /\ secret[t] # 0
          /\ runs' = [runs EXCEPT ![r].pc = "remint"]
          /\ UNCHANGED <<secret, faults>>
       \/ /\ secret[t] = 0
          /\ secret' = [secret EXCEPT ![t] = runs[r].attempt]
          /\ \/ /\ runs' = [runs EXCEPT ![r].pc = "finish", ![r].kind = "ok"]
                /\ faults' = faults
             \/ /\ runs' = [runs EXCEPT ![r].pc = "release"]
                /\ Fault
    /\ UNCHANGED <<marker, revoked, minted, purges>>

\* The re-mint's statement takes its snapshot and looks for the marker in it.
ReMintReads(r) ==
    /\ runs[r].pc = "remint"
    /\ IF Holds(runs[r].attempt) /\ marker.target = runs[r].target
       THEN runs' = [runs EXCEPT ![r].pc = "landing"]
       ELSE Refusal(r)
    /\ UNCHANGED <<marker, secret, revoked, minted, faults, purges>>

\* It then locks the key's row, of which it sees the newest version.
ReMintLands(r) ==
    LET t == runs[r].target IN
    /\ runs[r].pc = "landing"
    /\ IF t \in revoked
       THEN Refusal(r) /\ UNCHANGED secret
       ELSE /\ secret' = [secret EXCEPT ![t] = runs[r].attempt]
            /\ runs' = [runs EXCEPT ![r].pc = "finish", ![r].kind = "ok"]
    /\ UNCHANGED <<marker, revoked, minted, faults, purges>>

-----------------------------------------------------------------------------
(* finish and release                                                      *)

Finish(r) ==
    /\ runs[r].pc = "finish"
    /\ IF Holds(runs[r].attempt)
       THEN /\ marker' = [marker EXCEPT !.state = "finished", !.kind = runs[r].kind,
                                        !.by = runs[r].attempt]
            /\ runs' = [runs EXCEPT ![r].pc = "recorded", ![r].by = runs[r].attempt]
       ELSE runs' = [runs EXCEPT ![r].pc = "lost"] /\ UNCHANGED marker
    /\ UNCHANGED <<secret, revoked, minted, faults, purges>>

\* Refused: _finish reads why.  A lost attempt is swallowed and the client is
\* answered all the same; a marker that is gone is an error.
ReadWhy(r) ==
    /\ runs[r].pc = "lost"
    /\ runs' = [runs EXCEPT ![r] = Bare(r, IF marker.state = "none" THEN "gone" ELSE "unrecorded")]
    /\ UNCHANGED <<marker, secret, revoked, minted, faults, purges>>

Release(r) ==
    /\ runs[r].pc = "release"
    /\ marker' = IF Holds(runs[r].attempt) THEN [marker EXCEPT !.attempt = 0, !.since = 0]
                                           ELSE marker
    /\ runs' = [runs EXCEPT ![r] = Bare(r, "failed")]
    /\ UNCHANGED <<secret, revoked, minted, faults, purges>>

-----------------------------------------------------------------------------
(* What happens around them                                                *)

\* The API process dies under the run, or the call to finish or release raises.
Crash(r) ==
    /\ runs[r].pc \in Working
    /\ Fault
    /\ runs' = [runs EXCEPT ![r] = Bare(r, "dead")]
    /\ UNCHANGED <<marker, secret, revoked, minted, purges>>

\* revoke_api_key, of a key that is there.
Revoke(t) ==
    /\ secret[t] # 0 /\ t \notin revoked
    /\ revoked' = revoked \cup {t}
    /\ UNCHANGED <<marker, secret, runs, minted, faults, purges>>

\* purge_records.
Purge ==
    /\ \/ marker.state = "finished" /\ marker.age > Retention
       \/ Holds(0) /\ marker.age > Retention
       \/ marker.state = "pending" /\ marker.attempt # 0 /\ marker.since > AbandonAge
    /\ purges < MaxPurges /\ purges' = purges + 1
    /\ marker' = NoMarker
    /\ UNCHANGED <<secret, revoked, runs, minted, faults>>

Older(n, cap) == IF n > cap THEN n ELSE n + 1

Tick ==
    /\ marker.state # "none"
    /\ marker' = [marker EXCEPT !.age = Older(@, Retention),
                     !.since = IF marker.state = "pending" /\ marker.attempt # 0
                               THEN Older(@, AbandonAge) ELSE @]
    /\ UNCHANGED <<secret, revoked, runs, minted, faults, purges>>

\* Everything a request does by itself once it is sent.
Step(r) ==
    \/ ReadRecord(r) \/ RearmReleased(r) \/ TakeOverPending(r)
    \/ Refuse(r) \/ InsertKey(r) \/ ReMintReads(r) \/ ReMintLands(r)
    \/ Finish(r) \/ ReadWhy(r) \/ Release(r)

Next ==
    \/ \E r \in Runs : WriteRecord(r) \/ Step(r) \/ HandlerFails(r) \/ Crash(r)
    \/ \E t \in Attempts : Revoke(t)
    \/ Purge \/ Tick

Spec == Init /\ [][Next]_vars

\* Clients send again what was not answered, requests go on, and time passes.
FairSpec ==
    /\ Spec
    /\ WF_vars(Tick)
    /\ \A r \in Runs : WF_vars(WriteRecord(r)) /\ WF_vars(Step(r))

-----------------------------------------------------------------------------
(* Properties                                                              *)

RunType ==
    [pc : Working \cup Retried \cup Answered, digest : Digests, attempt : 0..MaxAttempts,
     target : 0..MaxAttempts, kind : {"none", "ok", "refused"}, by : 0..MaxAttempts]

\* The record, the keys and the runs have their shape; a finished record, and no
\* other, has an outcome, and keeps the token of the attempt that recorded it.
TypeOK ==
    /\ marker \in [state : {"none", "pending", "finished"}, target : 0..MaxAttempts,
                   digest : Digests \cup {0}, attempt : 0..MaxAttempts,
                   since : Nat, age : Nat, kind : {"none", "ok", "refused"},
                   by : 0..MaxAttempts]
    /\ secret \in [Attempts -> 0..MaxAttempts]
    /\ revoked \subseteq Attempts
    /\ runs \in [Runs -> RunType]
    /\ minted \in 0..MaxAttempts /\ faults \in 0..MaxFaults /\ purges \in 0..MaxPurges
    /\ marker.state = "finished" <=> marker.kind # "none"
    /\ marker.state = "finished" => marker.by = marker.attempt

\* One id, however many runs: whatever crashed, failed or was taken over, a second
\* key is created only under a marker written after the first one was purged.
OneCreate == Cardinality({t \in Attempts : secret[t] # 0}) <= purges + 1

\* One re-mint: once the marker says that an attempt issued the key, it is that
\* attempt's secret the key opens with, until somebody revokes it.
RecordedSecretWorks ==
    marker.kind = "ok" => \/ secret[marker.target] = marker.by
                          \/ marker.target \in revoked

\* Two clients told the outcome of one record, as it was recorded or replayed, are
\* told one outcome.
AnswersAgree ==
    \A p, q \in Runs :
        /\ runs[p].pc \in {"recorded", "replayed"} /\ runs[q].pc \in {"recorded", "replayed"}
        /\ runs[p].target = runs[q].target
        => runs[p].kind = runs[q].kind /\ runs[p].by = runs[q].by

-----------------------------------------------------------------------------
(* The inductive invariant                                                 *)

\* Attempts and targets come from those minted; a run that was armed has both, a run
\* told an outcome has its target, and a run that finishes has an outcome.
FromMinted ==
    /\ marker.attempt <= minted /\ marker.target <= minted
    /\ marker.state = "none" <=> marker.target = 0
    /\ marker.state = "finished" => marker.attempt # 0
    /\ \A r \in Runs :
          /\ runs[r].attempt <= minted /\ runs[r].target <= minted
          /\ runs[r].pc \in Armed => runs[r].attempt # 0 /\ runs[r].target # 0
          /\ runs[r].pc = "replayed" => runs[r].target # 0
          /\ runs[r].pc = "finish" => runs[r].kind # "none"

\* No two runs have one attempt.
AttemptsDiffer ==
    \A p, q \in Runs : p # q /\ runs[p].attempt = runs[q].attempt => runs[p].attempt = 0

\* Whoever holds the marker works on its target.
HolderOnTarget ==
    \A r \in Runs : runs[r].attempt # 0 /\ Holds(runs[r].attempt)
                        => runs[r].target = marker.target

\* A re-mint about to land is the holder's, unless its marker is gone.
LandingHolds ==
    \A r \in Runs : runs[r].pc = "landing" =>
        \/ Overtaking
        \/ Holds(runs[r].attempt)
        \/ marker.target # runs[r].target

\* A holder with a key to report has its own secret on it.
IssuedHolds ==
    \A r \in Runs :
        runs[r].pc = "finish" /\ runs[r].kind = "ok" /\ Holds(runs[r].attempt) =>
            \/ Overtaking
            \/ secret[runs[r].target] = runs[r].attempt
            \/ runs[r].target \in revoked

\* What a client was told is what its record says, while it is kept.
ToldIsRecorded ==
    \A r \in Runs : runs[r].pc \in {"recorded", "replayed"} /\ runs[r].target = marker.target =>
        marker.state = "finished" /\ marker.kind = runs[r].kind /\ marker.by = runs[r].by

\* The ids that a create has used or may use.
Targets ==
    {t \in Attempts : \/ secret[t] # 0 \/ marker.target = t
                      \/ \E r \in Runs : runs[r].target = t}

\* One for each record there is or was.
TargetsCounted == Cardinality(Targets) <= purges + (IF marker.state = "none" THEN 0 ELSE 1)

IInv ==
    /\ TypeOK /\ FromMinted /\ AttemptsDiffer /\ HolderOnTarget /\ LandingHolds
    /\ IssuedHolds /\ (Overtaking \/ RecordedSecretWorks) /\ ToldIsRecorded /\ AnswersAgree
    /\ TargetsCounted

\* The marker never suppresses work for good: a client that sends its request again
\* for as long as it is not answered is answered.
RetriesAreAnswered == \A r \in Runs : runs[r].pc \notin Answered ~> runs[r].pc \in Answered
=============================================================================
