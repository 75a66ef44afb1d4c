------------------------------- MODULE Outbox -------------------------------
(***************************************************************************)
(* The outbox relay (om/outbox) for the rows of one tenant: the request    *)
(* path, which holds a request's rows until its answer is sent and then    *)
(* relays them, and the sweeps, which claim what it left, a batch at a     *)
(* time, and spend an attempt on each.  The stream and the queue appear as *)
(* what the relay has put in them: an append and an enqueue are idempotent *)
(* on the row's id (ChangeEvents, WorkQueue).                              *)
(*                                                                         *)
(* Time is relative: a row's `wait` is how far ahead its next attempt is,  *)
(* and `grace` how long it is still too young for the sweep.               *)
(***************************************************************************)
EXTENDS Integers, FiniteSets

CONSTANTS
    Rows,           \* outbox rows, ordered as their ids are
    WorkRows,       \* those of kind work.<kind>
    Requests,       \* request ids
    RequestOf,      \* the request that writes each row
    Hands,          \* tasks of the API process that relay after an answer
    Sweeps,         \* workers that run relay_pending
    MaxHolders,     \* requests under way with one request id
    MaxAttempts,    \* OutboxOptions.max_attempts
    Limit,          \* rows one sweep claims
    Grace,          \* the sweep leaves rows younger than this
    Base, Cap,      \* the backoff curve
    MaxFaults       \* bound on processes that die and records that fail

OutboxAssumption ==
    /\ Rows \subseteq Nat /\ IsFiniteSet(Rows) /\ WorkRows \subseteq Rows
    /\ RequestOf \in [Rows -> Requests]
    /\ Hands \cap Sweeps = {} /\ IsFiniteSet(Sweeps)
    /\ MaxHolders \in Nat /\ MaxAttempts \in Nat \ {0} /\ Limit \in Nat \ {0}
    /\ Grace \in Nat /\ Base \in Nat /\ Cap \in Nat /\ MaxFaults \in Nat

VARIABLES
    rows,       \* the outbox_rows table
    holds,      \* the relay's _holds: holders and held rows per request id
    relays,     \* what each relaying task holds in memory
    told,       \* changes whose message the bus took
    stream,     \* changes that are in the tenant's stream
    queued,     \* work rows whose item is in the queue
    named,      \* rows whose dead letter is in the tenant's stream
    faults      \* how many of MaxFaults have happened

vars == <<rows, holds, relays, told, stream, queued, named, faults>>

Relayers == Hands \cup Sweeps

\* A row: whether it is unwritten, kept or purged, whether done_at and failed_at
\* are set, and the attempts the claims have spent.
Row(state, done, failed, attempts, wait, grace) ==
    [state |-> state, done |-> done, failed |-> failed, attempts |-> attempts,
     wait |-> wait, grace |-> grace]

NoHold == [holders |-> 0, rows |-> {}]

\* pc: "append", "publish", "enqueue" and "mark" are the steps of _deliver_all for
\* the rows in `cur`; "record" writes the failures of `bad`, "name" the audit event
\* of the row in `dead`, "next" takes the next row of `todo`.  `copy` is the attempt
\* each claimed row came back with.
Task(pc, cur, todo, copy) ==
    [pc |-> pc, cur |-> cur, todo |-> todo, unpublished |-> {}, bad |-> {}, dead |-> {},
     copy |-> copy]

NoCopy == [r \in Rows |-> 0]

Idle == Task("idle", {}, {}, NoCopy)

Deliver(cur, todo, copy) == Task("append", cur, todo, copy)

Init ==
    /\ rows = [r \in Rows |-> Row("unwritten", 0, 0, 0, 0, 0)]
    /\ holds = [q \in Requests |-> NoHold]
    /\ relays = [x \in Relayers |-> Idle]
    /\ told = {} /\ stream = {} /\ queued = {} /\ named = {}
    /\ faults = 0

Fault == faults < MaxFaults /\ faults' = faults + 1

(***************************************************************************)
(* The request path                                                        *)
(***************************************************************************)

\* hold: a request comes in; a client may use one request id twice.
Hold(q) ==
    /\ holds[q].holders < MaxHolders
    /\ holds' = [holds EXCEPT ![q].holders = @ + 1]
    /\ UNCHANGED <<rows, relays, told, stream, queued, named, faults>>

\* A write commits its row with its change and hands it over (relay_all): held
\* under an open hold of its request id, relayed at once without one, and with
\* the sweep alone to relay it when the process dies in between.
Write(r) ==
    LET q == RequestOf[r] IN
    /\ rows[r].state = "unwritten"
    /\ rows' = [rows EXCEPT ![r] = Row("kept", 0, 0, 0, 0, Grace)]
    /\ \/ /\ holds[q].holders > 0
          /\ holds' = [holds EXCEPT ![q].rows = @ \cup {r}]
          /\ UNCHANGED <<relays, faults>>
       \/ /\ holds[q].holders = 0
          /\ \E h \in Hands : /\ relays[h].pc = "idle"
                              /\ relays' = [relays EXCEPT ![h] = Deliver({r}, {}, NoCopy)]
          /\ UNCHANGED <<holds, faults>>
       \/ Fault /\ UNCHANGED <<holds, relays>>
    /\ UNCHANGED <<told, stream, queued, named>>

\* release: the answer is sent; what the hold has so far is relayed now.
Release(q) ==
    /\ holds[q].holders > 0
    /\ holds' = [holds EXCEPT ![q] = [holders |-> @.holders - 1, rows |-> {}]]
    /\ \/ holds[q].rows = {} /\ UNCHANGED relays
       \/ /\ holds[q].rows # {}
          /\ \E h \in Hands :
                /\ relays[h].pc = "idle"
                /\ relays' = [relays EXCEPT ![h] = Deliver(holds[q].rows, {}, NoCopy)]
    /\ UNCHANGED <<rows, told, stream, queued, named, faults>>

\* Mutant: the entry stays when its last holder abandons it.
MutAbandonedHold(hold) == [hold EXCEPT !.holders = @ - 1]

\* What abandon leaves of a hold: the other holder relays the rows, or the sweep.
AbandonedHold(hold) ==
    IF hold.holders > 1 THEN [hold EXCEPT !.holders = @ - 1] ELSE NoHold

\* abandon: the task that would have released is not there any more.
Abandon(q) ==
    /\ holds[q].holders > 0
    /\ holds' = [holds EXCEPT ![q] = AbandonedHold(@)]
    /\ UNCHANGED <<rows, relays, told, stream, queued, named, faults>>

\* The API process dies with its holds and its tasks.
ApiDies ==
    /\ Fault
    /\ holds' = [q \in Requests |-> NoHold]
    /\ relays' = [x \in Relayers |-> IF x \in Hands THEN Idle ELSE relays[x]]
    /\ UNCHANGED <<rows, told, stream, queued, named>>

(***************************************************************************)
(* _deliver_all.  A step that raises may have taken effect: the answer of  *)
(* a statement that committed can be lost.                                 *)
(***************************************************************************)

\* Where a raise leaves the task.  The request path leaves the rows to the sweep;
\* a sweep relays a batch again one by one, and records the failure of one row.
Raised(x) ==
    IF x \in Hands THEN Idle
    ELSE IF Cardinality(relays[x].cur) > 1
         THEN Task("next", {}, relays[x].cur, relays[x].copy)
         ELSE [relays[x] EXCEPT !.pc = "record", !.cur = {}, !.unpublished = {},
                                !.bad = relays[x].cur]

Append(x) ==
    /\ relays[x].pc = "append"
    /\ \/ /\ stream' = stream \cup (relays[x].cur \ WorkRows)
          /\ relays' = [relays EXCEPT ![x].pc = "publish"]
       \/ /\ relays[x].cur \ WorkRows # {}
          /\ stream' \in {stream, stream \cup (relays[x].cur \ WorkRows)}
          /\ relays' = [relays EXCEPT ![x] = Raised(x)]
    /\ UNCHANGED <<rows, holds, told, queued, named, faults>>

\* One message after the other: the bus takes it, or drops it (a refusal, an open
\* breaker).
Publish(x) ==
    /\ relays[x].pc = "publish"
    /\ \E dropped \in SUBSET (relays[x].cur \ WorkRows) :
          /\ told' = told \cup (relays[x].cur \ (WorkRows \cup dropped))
          /\ relays' = [relays EXCEPT ![x].pc = "enqueue", ![x].unpublished = dropped]
    /\ UNCHANGED <<rows, holds, stream, queued, named, faults>>

\* enqueue_relayed for each work row; one that raises leaves those behind it.
Enqueue(x) ==
    LET work == relays[x].cur \cap WorkRows IN
    /\ relays[x].pc = "enqueue"
    /\ \/ /\ queued' = queued \cup work
          /\ relays' = [relays EXCEPT ![x].pc = "mark"]
       \/ /\ work # {}
          /\ \E reached \in SUBSET work : queued' = queued \cup reached
          /\ relays' = [relays EXCEPT ![x] = Raised(x)]
    /\ UNCHANGED <<rows, holds, told, stream, named, faults>>

Delivered(task) == task.cur \ task.unpublished

Marked(ids) ==
    [r \in Rows |-> IF r \in ids /\ rows[r].state = "kept"
                    THEN [rows[r] EXCEPT !.done = 1] ELSE rows[r]]

\* mark_done, of the rows delivered.  A sweep then records the others' failure;
\* the request path leaves them pending.
MarkDone(x) ==
    /\ relays[x].pc = "mark"
    /\ \/ /\ rows' = Marked(Delivered(relays[x]))
          /\ relays' = [relays EXCEPT ![x] =
                IF x \in Hands THEN Idle
                ELSE [@ EXCEPT !.pc = "record", !.cur = {}, !.unpublished = {},
                               !.bad = relays[x].unpublished]]
       \/ /\ Delivered(relays[x]) # {}
          /\ rows' \in {rows, Marked(Delivered(relays[x]))}
          /\ relays' = [relays EXCEPT ![x] = Raised(x)]
    /\ UNCHANGED <<holds, told, stream, queued, named, faults>>

(***************************************************************************)
(* The sweep                                                               *)
(***************************************************************************)

\* The delay of the attempt being spent, rules.relay_delay as the statement
\* spells it.
Backoff(attempts) == LET d == Base * 2^attempts IN IF d <= Cap THEN d ELSE Cap

\* Mutant: a row whose last attempt was claimed is not claimed again.
MutDueUnspent(r) ==
    /\ rows[r].state = "kept" /\ rows[r].done = 0 /\ rows[r].failed = 0
    /\ rows[r].wait = 0 /\ rows[r].grace = 0 /\ rows[r].attempts < MaxAttempts

\* claim_pending's candidates.
Due(r) ==
    /\ rows[r].state = "kept" /\ rows[r].done = 0 /\ rows[r].failed = 0
    /\ rows[r].wait = 0 /\ rows[r].grace = 0

\* The lowest ids due, up to the limit.
Claim(s) ==
    LET due == {r \in Rows : Due(r)}
        batch == {r \in due : Cardinality({d \in due : d < r}) < Limit} IN
    /\ relays[s].pc = "idle" /\ due # {}
    /\ rows' = [r \in Rows |->
          IF r \in batch THEN [rows[r] EXCEPT !.attempts = @ + 1, !.wait = Backoff(rows[r].attempts)]
          ELSE rows[r]]
    /\ relays' = [relays EXCEPT ![s] =
          Deliver(batch, {}, [r \in Rows |-> IF r \in batch THEN rows[r].attempts + 1 ELSE 0])]
    /\ UNCHANGED <<holds, told, stream, queued, named, faults>>

\* One by one, after a batch that failed; or the end of this claim.
NextRow(s) ==
    LET t == relays[s] IN
    /\ t.pc = "next"
    /\ \/ t.todo = {} /\ relays' = [relays EXCEPT ![s] = Idle]
       \/ \E r \in t.todo :
             /\ \A o \in t.todo : r <= o
             /\ relays' = [relays EXCEPT ![s] = Deliver({r}, t.todo \ {r}, t.copy)]
    /\ UNCHANGED <<rows, holds, told, stream, queued, named, faults>>

\* _failed: not row.attempts < max_attempts, on the claimed copy.
Spent(attempts) == attempts >= MaxAttempts

\* _failed and record_failure: failed_at is set with the last attempt and written
\* as null with any other.
RecordFailure(s) ==
    LET t == relays[s] IN
    /\ t.pc = "record"
    /\ \/ /\ t.bad = {}
          /\ relays' = [relays EXCEPT ![s].pc = "next"]
          /\ UNCHANGED rows
       \/ \E r \in t.bad :
             /\ \A o \in t.bad : r <= o
             /\ rows' = IF rows[r].state = "kept" /\ rows[r].done = 0
                        THEN [rows EXCEPT ![r].failed = IF Spent(t.copy[r]) THEN 1 ELSE 0]
                        ELSE rows
             /\ relays' = [relays EXCEPT ![s] =
                   IF Spent(t.copy[r])
                   THEN [t EXCEPT !.bad = @ \ {r}, !.pc = "name", !.dead = {r}]
                   ELSE [t EXCEPT !.bad = @ \ {r}]]
    /\ UNCHANGED <<holds, told, stream, queued, named, faults>>

\* The dead letter's audit event, best effort.
NameDeadLetter(s) ==
    /\ relays[s].pc = "name"
    /\ named' \in {named, named \cup relays[s].dead}
    /\ relays' = [relays EXCEPT ![s].pc = "record", ![s].dead = {}]
    /\ UNCHANGED <<rows, holds, told, stream, queued, faults>>

\* The worker dies, or a record of a failure raises and ends the pass.
SweepDies(s) ==
    /\ relays[s].pc # "idle"
    /\ Fault
    /\ relays' = [relays EXCEPT ![s] = Idle]
    /\ UNCHANGED <<rows, holds, told, stream, queued, named>>

\* purge_done: long after a row is done or failed.  The retention (eight days) is
\* far longer than any task holds a row.
Purge(r) ==
    /\ rows[r].state = "kept" /\ (rows[r].done = 1 \/ rows[r].failed = 1)
    /\ \A x \in Relayers : relays[x].pc = "idle"
    /\ \A q \in Requests : r \notin holds[q].rows
    /\ rows' = [rows EXCEPT ![r] = Row("purged", 0, 0, 0, 0, 0)]
    /\ UNCHANGED <<holds, relays, told, stream, queued, named, faults>>

Less(n) == IF n > 0 THEN n - 1 ELSE 0

Tick ==
    /\ \E r \in Rows : rows[r].wait > 0 \/ rows[r].grace > 0
    /\ rows' = [r \in Rows |-> [rows[r] EXCEPT !.wait = Less(@), !.grace = Less(@)]]
    /\ UNCHANGED <<holds, relays, told, stream, queued, named, faults>>

DeliverStep(x) == Append(x) \/ Publish(x) \/ Enqueue(x) \/ MarkDone(x)

SweepStep(s) ==
    DeliverStep(s) \/ NextRow(s) \/ RecordFailure(s) \/ NameDeadLetter(s)

Next ==
    \/ \E q \in Requests : Hold(q) \/ Release(q) \/ Abandon(q)
    \/ \E r \in Rows : Write(r) \/ Purge(r)
    \/ \E h \in Hands : DeliverStep(h)
    \/ \E s \in Sweeps : Claim(s) \/ SweepStep(s) \/ SweepDies(s)
    \/ ApiDies
    \/ Tick

Spec == Init /\ [][Next]_vars

\* The sweep runs on a timer in every worker and each of its calls comes back;
\* nothing is assumed of the request path, nor that a delivery ever succeeds.
Fairness ==
    /\ WF_vars(Tick)
    /\ \A s \in Sweeps : WF_vars(Claim(s)) /\ WF_vars(SweepStep(s))

FairSpec == Spec /\ Fairness

(***************************************************************************)
(* Properties                                                              *)
(***************************************************************************)

TaskType ==
    [pc : {"idle", "append", "publish", "enqueue", "mark", "record", "name", "next"},
     cur : SUBSET Rows, todo : SUBSET Rows, unpublished : SUBSET Rows, bad : SUBSET Rows,
     dead : SUBSET Rows, copy : [Rows -> Nat]]

\* Every row, hold and task has its shape.
Shapes ==
    /\ rows \in [Rows -> [state : {"unwritten", "kept", "purged"}, done : {0, 1},
                          failed : {0, 1}, attempts : Nat, wait : Nat, grace : Nat]]
    /\ holds \in [Requests -> [holders : 0..MaxHolders, rows : SUBSET Rows]]
    /\ relays \in [Relayers -> TaskType]
    /\ told \subseteq Rows \ WorkRows /\ stream \subseteq Rows \ WorkRows
    /\ queued \subseteq WorkRows /\ named \subseteq Rows
    /\ faults \in 0..MaxFaults

\* The attempts a row may come to: past max_attempts a sweep claims a row only while
\* another that claimed it is at work or after one died, and each that still has an
\* earlier attempt may record it late and have the row claimed again by every sweep.
AttemptsBound == MaxAttempts + Cardinality(Sweeps) * (Cardinality(Sweeps) - 1) + faults

TypeOK == Shapes /\ \A r \in Rows : rows[r].attempts <= AttemptsBound

\* Done means someone was told: a change whose row is done is in the stream and
\* the bus took its message, and a request for work whose row is done has its item
\* in the queue, whichever of the tasks that relayed it marked it.
DoneMeansTold ==
    \A r \in Rows : rows[r].done = 1 =>
        IF r \in WorkRows THEN r \in queued ELSE r \in told /\ r \in stream

\* A hold with rows has a holder that will release or abandon it: no row waits in
\* the process's memory for an answer that was sent.
HeldHasHolder ==
    \A q \in Requests : holds[q].rows # {} => holds[q].holders > 0

\* A row whose attempts are spent fails for good: a dead letter is not pending
\* again.
FailedForGood ==
    [][\A r \in Rows : rows[r].failed = 1 /\ rows[r].done = 0
                        => rows'[r].failed = 1 \/ rows'[r].state = "purged"]_vars

\* A row that will not relay stops nothing behind it, and itself comes to an end:
\* every row written is done or a dead letter in the end, and stays so.
EveryRowSettles ==
    \A r \in Rows : rows[r].state = "kept"
        ~> [](rows[r].done = 1 \/ rows[r].failed = 1 \/ rows[r].state = "purged")

\* What a relaying task has done so far with the rows it holds: those it will mark
\* are in the stream, told and in the queue, each once the task is past that step.
TaskHolds(task) ==
    /\ task.pc \in {"publish", "enqueue", "mark"} => task.cur \ WorkRows \subseteq stream
    /\ task.pc \in {"enqueue", "mark"} =>
          (task.cur \ WorkRows) \ task.unpublished \subseteq told
    /\ task.pc = "mark" => task.cur \cap WorkRows \subseteq queued

TasksHold == \A x \in Relayers : TaskHolds(relays[x])

IInv == Shapes /\ TasksHold /\ DoneMeansTold /\ HeldHasHolder

\* A sweep has a row it claimed until it marks it, records its failure or dies.
Has(s, r) == r \in relays[s].cur \cup relays[s].todo \cup relays[s].bad

\* The sweeps that have the row with an attempt before the last, and those without it.
Early(r) == {s \in Sweeps : Has(s, r) /\ ~Spent(relays[s].copy[r])}
Free(r) == {s \in Sweeps : ~Has(s, r)}

\* Where a sweep has rows.
Carries(task) ==
    /\ task.pc = "idle" => task.todo = {}
    /\ task.pc \in {"idle", "record", "name", "next"} => task.cur = {}
    /\ task.pc \notin {"record", "name"} => task.bad = {}
    /\ task.unpublished \subseteq task.cur
    /\ Cardinality(task.cur) > 1 => task.todo = {}
    /\ task.todo \cap (task.cur \cup task.bad) = {}

\* A pending row past max_attempts leaves room for the attempts to come: one for each
\* sweep without it unless it failed, and one for every sweep each time an earlier
\* attempt may bring it back.
RoomFor(r) ==
    rows[r].state = "kept" /\ rows[r].done = 0 /\ rows[r].attempts >= MaxAttempts =>
        rows[r].attempts + Cardinality(Sweeps) * Cardinality(Early(r))
            + (IF rows[r].failed = 1 THEN 0 ELSE Cardinality(Free(r))) <= AttemptsBound

AttemptsInv ==
    /\ \A s \in Sweeps : Carries(relays[s])
    /\ \A r \in Rows : RoomFor(r)
    /\ TypeOK
=============================================================================
