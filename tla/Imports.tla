------------------------------ MODULE Imports ------------------------------
(***************************************************************************)
(* The imports of one org: each is an orchestration record that work items *)
(* carry, a batch of rows a step, and that parks where the plan's bound    *)
(* stops it (orchestrations/impl/manager.py, tasks/impl/imports.py, the    *)
(* worker's orchestrations.py).  Every write of a record is a              *)
(* compare-and-set on its version.  A plan that rises leaves a wake in its *)
(* own commit (billing/impl/manager.py).                                   *)
(*                                                                         *)
(* Outbox and WorkQueue show that a committed work row becomes an item and *)
(* that one handler at a time runs it; here an item is in the queue as     *)
(* soon as it is written, and may stay there for any time.                 *)
(***************************************************************************)
EXTENDS Naturals, FiniteSets, FiniteSetsExt

CONSTANTS
    Imports,     \* the ids of the imports, in the order a wake reads them
    RowCount,    \* rows of the file of each import
    BadRows,     \* rows that are refused and skipped, of any file
    Batch,       \* IMPORT_BATCH: rows of one step
    FreeBound,   \* open tasks the Free plan lets an org have
    MaxAttempts, \* attempts of a work item
    WakeBatch,   \* records one read of a wake takes
    MaxEvents    \* bound on crashes, errors, and what people and the plan do

ImportsAssumption ==
    /\ Imports \subseteq Nat \ {0} /\ IsFiniteSet(Imports)
    /\ RowCount \in [Imports -> Nat]
    /\ {Batch, FreeBound, MaxAttempts, WakeBatch, MaxEvents} \subseteq Nat
    /\ BadRows \subseteq Nat
    /\ Batch > 0 /\ WakeBatch > 0 /\ MaxAttempts > 0

MaxRows == Max({RowCount[i] : i \in Imports})

VARIABLES
    record,     \* orchestrations, by id
    tasks,      \* the tasks made: <<import, row>> derives the task's id
    open,       \* how many tasks of the org are open
    stored,     \* imports whose file is in the store
    items,      \* the step items in the queue and in a worker's hands
    wakes,      \* the wake items
    plan,       \* what the stored account entitles to
    stale,      \* whether the cached account is one that a write did not orphan
    stranded,   \* history: records, at their version, whose step died for good
    overlooked, \* history: records, at their version, parked past every wake
    events

\* What was left behind: read by the properties, by no action.
left == <<stranded, overlooked>>

vars == <<record, tasks, open, stored, items, wakes, plan, stale, left, events>>

Plans == {"free", "paid"}
Settled == {"succeeded", "failed", "cancelled"}
Statuses == Settled \cup {"running", "parked", "none", "gone"}

Record == [status: Statuses, cursor: 0..MaxRows, version: Nat, applied: Nat, skipped: Nat]

NoRecord == [status |-> "none", cursor |-> 0, version |-> 0, applied |-> 0, skipped |-> 0]

Item == [of: Imports, asked: Nat, attempts: 0..MaxAttempts,
         pc: {"queued", "reading", "counting", "ready", "landed"},
         read: Record, plan: Plans, room: Nat]

Wake == [asked: Nat, pc: {"queued", "reading", "resuming"}, after: Nat,
         batch: SUBSET (Imports \X Nat)]

TypeOK ==
    /\ record \in [Imports -> Record]
    /\ tasks \subseteq Imports \X (1..MaxRows)
    /\ open \in Nat
    /\ stored \subseteq Imports
    /\ items \subseteq Item
    /\ wakes \subseteq Wake
    /\ plan \in Plans
    /\ stale \in BOOLEAN
    /\ stranded \subseteq Imports \X Nat
    /\ overlooked \subseteq Imports \X Nat
    /\ events \in 0..MaxEvents

Init ==
    /\ record = [i \in Imports |-> NoRecord]
    /\ tasks = {}
    /\ open = 0
    /\ stored = Imports
    /\ items = {}
    /\ wakes = {}
    /\ plan = "free"
    /\ stale = FALSE
    /\ stranded = {}
    /\ overlooked = {}
    /\ events = 0

Replace(S, x, y) == (S \ {x}) \cup {y}

Event == events < MaxEvents /\ events' = events + 1
Calm  == UNCHANGED events

----------------------------------------------------------------------------
(* The record's transitions, and the rows each lands beside it.            *)

Moved(r, status) == [r EXCEPT !.status = status, !.version = @ + 1]

\* orchestration_step_rows: a record that runs asks for its next step.
StepRows(i, r) ==
    IF r.status = "running"
    THEN {[of |-> i, asked |-> r.version, attempts |-> 0, pc |-> "queued",
           read |-> NoRecord, plan |-> "free", room |-> 0]}
    ELSE {}

\* A write by id alone.
MutBlind(i, r) == record[i].status # "gone"

\* The compare-and-set of a record that was read as r.
Hits(i, r) == record[i].version = r.version /\ record[i].status # "gone"

Write(i, r) == record' = [record EXCEPT ![i] = r]

LastOf(i, r) == Min({r.cursor + Batch, RowCount[i]})

\* A step's loop: rows are skipped or made until one would pass the room.
CursorAfter(i, r, room) ==
    Max({c \in r.cursor..LastOf(i, r) : Cardinality(((r.cursor + 1)..c) \ BadRows) <= room})

\* The rows the step turned into tasks.
Made(i, r, room) == ((r.cursor + 1)..CursorAfter(i, r, room)) \ BadRows

\* A step that parks counts the rest of its batch as read.
MutAdvanced(i, r, room, landed) ==
    LET cursor == LastOf(i, r)
        status == IF CursorAfter(i, r, room) < cursor THEN "parked"
                  ELSE IF cursor >= RowCount[i] THEN "succeeded" ELSE "running"
    IN [Moved(r, status) EXCEPT
            !.cursor = cursor,
            !.applied = @ + landed,
            !.skipped = @ + Cardinality(((r.cursor + 1)..cursor) \cap BadRows)]

\* advanced(), with the rows that landed added by the commit.
Advanced(i, r, room, landed) ==
    LET cursor == CursorAfter(i, r, room)
        status == IF cursor < LastOf(i, r) THEN "parked"
                  ELSE IF cursor >= RowCount[i] THEN "succeeded" ELSE "running"
    IN [Moved(r, status) EXCEPT
            !.cursor = cursor,
            !.applied = @ + landed,
            !.skipped = @ + Cardinality(((r.cursor + 1)..cursor) \cap BadRows)]

----------------------------------------------------------------------------
(* People.                                                                 *)

\* start(): the record and its first step in one commit.
Start(i) ==
    /\ record[i].status = "none"
    /\ LET r == Moved(NoRecord, "running")
       IN /\ Write(i, r)
          /\ items' = items \cup StepRows(i, r)
    /\ Calm
    /\ UNCHANGED <<tasks, open, stored, wakes, plan, stale, left>>

\* resume(): its read and its write are one step, since the write asks for
\* the version that was read.
Resume(i) ==
    /\ record[i].status = "parked"
    /\ LET r == Moved(record[i], "running")
       IN /\ Write(i, r)
          /\ items' = items \cup StepRows(i, r)
    /\ Event
    /\ UNCHANGED <<tasks, open, stored, wakes, plan, stale, left>>

\* cancel(): running or parked.
Cancel(i) ==
    /\ record[i].status \in {"running", "parked"}
    /\ Write(i, Moved(record[i], "cancelled"))
    /\ Event
    /\ UNCHANGED <<tasks, open, stored, items, wakes, plan, stale, left>>

RemoveFile(i) ==
    /\ i \in stored
    /\ stored' = stored \ {i}
    /\ Event
    /\ UNCHANGED <<record, tasks, open, items, wakes, plan, stale, left>>

CompleteTask ==
    /\ open > 0
    /\ open' = open - 1
    /\ Event
    /\ UNCHANGED <<record, tasks, stored, items, wakes, plan, stale, left>>

\* purge_settled().
Purge(i) ==
    /\ record[i].status \in Settled
    /\ record' = [record EXCEPT ![i].status = "gone"]
    /\ Calm
    /\ UNCHANGED <<tasks, open, stored, items, wakes, plan, stale, left>>

----------------------------------------------------------------------------
(* A step, in a worker.                                                    *)

\* A claim, and the handler's read of the record: one that does not run has
\* nothing for the item to do.
Take(x) ==
    /\ x.pc = "queued"
    /\ items' = IF record[x.of].status = "running"
                THEN Replace(items, x, [x EXCEPT !.pc = "reading", !.attempts = @ + 1,
                                                 !.read = record[x.of]])
                ELSE items \ {x}
    /\ Calm
    /\ UNCHANGED <<record, tasks, open, stored, wakes, plan, stale, left>>

\* The end of a record by a bound; a record that moved is left to its holder.
FileGone(x) ==
    /\ x.pc = "reading"
    /\ x.of \notin stored
    /\ record' = IF Hits(x.of, x.read)
                 THEN [record EXCEPT ![x.of] = Moved(x.read, "failed")]
                 ELSE record
    /\ items' = Replace(items, x, [x EXCEPT !.pc = "landed"])
    /\ Calm
    /\ UNCHANGED <<tasks, open, stored, wakes, plan, stale, left>>

\* room_left(): the plan, of the account as the store or the cache has it.
ReadPlan(x) ==
    /\ x.pc = "reading"
    /\ x.of \in stored
    /\ \E p \in Plans :
          /\ p = plan \/ stale
          /\ items' = Replace(items, x, [x EXCEPT !.pc = "counting", !.plan = p])
    /\ Calm
    /\ UNCHANGED <<record, tasks, open, stored, wakes, plan, stale, left>>

\* room_for(): a plan without the bound leaves room for any row.
RoomFor(p) == IF p = "paid" THEN MaxRows ELSE Max({FreeBound, open}) - open

\* room_left(): the count of the open tasks, where the plan has the bound.
ReadCount(x) ==
    /\ x.pc = "counting"
    /\ items' = Replace(items, x, [x EXCEPT !.pc = "ready", !.room = RoomFor(x.plan)])
    /\ Calm
    /\ UNCHANGED <<record, tasks, open, stored, wakes, plan, stale, left>>

\* A wake that will read the record, whatever becomes of it.
Awaits(w, i) == w.pc = "queued" \/ (w.pc = "reading" /\ i > w.after)

\* The step parks for a bound that was lifted since it read the plan, and no wake
\* is still to read its record.
ParksLate(x, after) ==
    /\ after.status = "parked"
    /\ x.plan = "free" /\ plan = "paid"
    /\ \A w \in wakes : ~Awaits(w, x.of)

\* create_tasks_in_step(): tasks whose ids are there already do not land, and
\* the tasks, the record and the rows of the next step are one commit, which
\* a record that moved rolls back.
Land(x) ==
    /\ x.pc = "ready"
    /\ LET made == {<<x.of, n>> : n \in Made(x.of, x.read, x.room)}
           landed == made \ tasks
           after == Advanced(x.of, x.read, x.room, Cardinality(landed))
           held == Replace(items, x, [x EXCEPT !.pc = "landed"])
       IN IF Hits(x.of, x.read)
          THEN /\ Write(x.of, after)
               /\ tasks' = tasks \cup landed
               /\ open' = open + Cardinality(landed)
               /\ items' = held \cup StepRows(x.of, after)
               /\ overlooked' = IF ParksLate(x, after)
                                THEN overlooked \cup {<<x.of, after.version>>}
                                ELSE overlooked
          ELSE /\ items' = held
               /\ UNCHANGED <<record, tasks, open, overlooked>>
    /\ Calm
    /\ UNCHANGED <<stored, wakes, plan, stale, stranded>>

Complete(x) ==
    /\ x.pc = "landed"
    /\ items' = items \ {x}
    /\ Calm
    /\ UNCHANGED <<record, tasks, open, stored, wakes, plan, stale, left>>

Requeued(x) ==
    [x EXCEPT !.pc = "queued", !.read = NoRecord, !.plan = "free", !.room = 0]

\* In a handler, before its step's commit.
InStep(x) == x.pc \in {"reading", "counting", "ready"}

\* A last attempt that is left to the queue as any other.
MutRaise(x) ==
    /\ InStep(x)
    /\ items' = IF x.attempts < MaxAttempts
                THEN Replace(items, x, Requeued(x))
                ELSE items \ {x}
    /\ Event
    /\ UNCHANGED <<record, tasks, open, stored, wakes, plan, stale, left>>

\* The step raises: the queue retries the item, and on its last attempt the
\* record fails as a defect, unless it moved, when the item is a dead letter.
Raise(x) ==
    /\ InStep(x)
    /\ IF x.attempts < MaxAttempts
       THEN /\ items' = Replace(items, x, Requeued(x))
            /\ UNCHANGED record
       ELSE /\ items' = items \ {x}
            /\ record' = IF Hits(x.of, x.read)
                         THEN [record EXCEPT ![x.of] = Moved(x.read, "failed")]
                         ELSE record
    /\ Event
    /\ UNCHANGED <<tasks, open, stored, wakes, plan, stale, left>>

\* An item that will take the record's next step, or that is taking it from the
\* record as it stands.
Carries(x, i) ==
    /\ x.of = i
    /\ \/ x.pc = "queued" /\ x.attempts < MaxAttempts
       \/ InStep(x) /\ Hits(i, x.read)

\* The death of a record's last carrier, its attempts spent.
Strands(x) ==
    /\ x.attempts = MaxAttempts /\ Carries(x, x.of)
    /\ \A y \in items \ {x} : ~Carries(y, x.of)

\* The worker dies: requeue_stale gives the item back, or, its attempts
\* spent, makes it a dead letter that no handler sees.
Die(x) ==
    /\ x.pc # "queued"
    /\ items' = IF x.attempts < MaxAttempts
                THEN Replace(items, x, Requeued(x))
                ELSE items \ {x}
    /\ stranded' = IF Strands(x)
                   THEN stranded \cup {<<x.of, x.read.version>>}
                   ELSE stranded
    /\ Event
    /\ UNCHANGED <<record, tasks, open, stored, wakes, plan, stale, overlooked>>

----------------------------------------------------------------------------
(* The plan, and the wake of what it parked.                               *)

\* A delivery or a grant lifts the plan: the wake rides the account's commit
\* (wake_rows).  The write orphans the cached account, or
\* fails to.
PlanRises ==
    /\ plan = "free"
    /\ plan' = "paid"
    /\ stale' \in BOOLEAN
    /\ wakes' = wakes \cup {[asked |-> events, pc |-> "queued", after |-> 0, batch |-> {}]}
    /\ Event
    /\ UNCHANGED <<record, tasks, open, stored, items, left>>

PlanFalls ==
    /\ plan = "paid"
    /\ plan' = "free"
    /\ stale' \in BOOLEAN
    /\ Event
    /\ UNCHANGED <<record, tasks, open, stored, items, wakes, left>>

\* The cached account is past its ttl.
CacheEnds ==
    /\ stale
    /\ stale' = FALSE
    /\ Calm
    /\ UNCHANGED <<record, tasks, open, stored, items, wakes, plan, left>>

Parked(after) == {i \in Imports : i > after /\ record[i].status = "parked"}

\* read_parked(): the first records past the last one read.
FirstParked(after) ==
    {i \in Parked(after) : Cardinality({j \in Parked(after) : j < i}) < WakeBatch}

\* wake() reads a batch, and ends after a batch that is short.
WakeReads(w) ==
    /\ w.pc = "queued" \/ (w.pc = "reading" /\ w.batch = {})
    /\ LET batch == FirstParked(w.after)
       IN wakes' = IF batch = {}
                   THEN wakes \ {w}
                   ELSE Replace(wakes, w,
                          [w EXCEPT !.batch = {<<i, record[i].version>> : i \in batch},
                                    !.pc = IF Cardinality(batch) < WakeBatch
                                           THEN "resuming" ELSE "reading",
                                    !.after = Max(batch)])
    /\ Calm
    /\ UNCHANGED <<record, tasks, open, stored, items, plan, stale, left>>

\* _resume(): a record another writer moved is left to it.
WakeResumes(w) ==
    /\ w.batch # {}
    /\ LET first == CHOOSE p \in w.batch : \A q \in w.batch : p[1] <= q[1]
           i == first[1]
           r == Moved(record[i], "running")
           rest == [w EXCEPT !.batch = @ \ {first}]
       IN /\ IF record[i].version = first[2] /\ record[i].status # "gone"
             THEN Write(i, r) /\ items' = items \cup StepRows(i, r)
             ELSE UNCHANGED <<record, items>>
          /\ wakes' = IF rest.batch = {} /\ w.pc = "resuming"
                      THEN wakes \ {w}
                      ELSE Replace(wakes, w, rest)
    /\ Calm
    /\ UNCHANGED <<tasks, open, stored, plan, stale, left>>

\* The worker dies, or the wake raises: the item starts again.
WakeDies(w) ==
    /\ w.pc # "queued"
    /\ wakes' = Replace(wakes, w, [w EXCEPT !.pc = "queued", !.after = 0, !.batch = {}])
    /\ Event
    /\ UNCHANGED <<record, tasks, open, stored, items, plan, stale, left>>

Next ==
    \/ \E i \in Imports : Start(i) \/ Resume(i) \/ Cancel(i) \/ RemoveFile(i) \/ Purge(i)
    \/ \E x \in items : \/ Take(x) \/ FileGone(x) \/ ReadPlan(x) \/ ReadCount(x)
                        \/ Land(x) \/ Complete(x) \/ Raise(x) \/ Die(x)
    \/ \E w \in wakes : WakeReads(w) \/ WakeResumes(w) \/ WakeDies(w)
    \/ CompleteTask \/ PlanRises \/ PlanFalls \/ CacheEnds

Spec == Init /\ [][Next]_vars

----------------------------------------------------------------------------
(* Properties.                                                             *)

\* Each row up to the cursor is one task or was skipped, and is counted once,
\* whatever items ran the step again (the derived ids and the one commit of
\* step_import and create_tasks_in_step).
RowsLandOnce ==
    \A i \in Imports : record[i].status \notin {"none", "gone"} =>
        LET rows == {n \in 1..MaxRows : <<i, n>> \in tasks}
        IN /\ rows = (1..record[i].cursor) \ BadRows
           /\ record[i].applied = Cardinality(rows)
           /\ record[i].skipped = Cardinality((1..record[i].cursor) \cap BadRows)

\* A record that ended stays as it ended, and nothing is made for it after:
\* not by a step under way when it was cancelled, nor by a wake
\* (orchestration.py, SETTLED: the statuses a record never leaves).
EndedStays ==
    \A i \in Imports : record[i].status \in Settled =>
        /\ record'[i] = record[i] \/ record'[i].status = "gone"
        /\ \A n \in 1..MaxRows : <<i, n>> \in tasks' => <<i, n>> \in tasks

\* A running record has an item that carries it (OrchestrationStatus.RUNNING: a
\* work item carries the next step), unless the worker of its last attempt died:
\* then the step is a dead letter, and the record runs with nothing to run it.
RunningIsCarried ==
    \A i \in Imports :
        record[i].status = "running" /\ <<i, record[i].version>> \notin stranded
            => \E x \in items : Carries(x, i)

Reaches(w, i) == Awaits(w, i) \/ <<i, record[i].version>> \in w.batch

\* An import parked on the plan's bound, while the plan has none, has a wake
\* that will reach it (billing/README.md: it goes on when the plan rises), unless
\* its step read the plan before it rose and parked it after the wake went by.
ParkedIsWoken ==
    \A i \in Imports :
        /\ record[i].status = "parked" /\ plan = "paid"
        /\ <<i, record[i].version>> \notin overlooked
        => \E w \in wakes : Reaches(w, i)

\* A record that is under way goes on without anyone asking again.
RecordIsCarried == RunningIsCarried /\ ParkedIsWoken

----------------------------------------------------------------------------
(* Why they hold.                                                          *)

\* The cursor is within the file, and a record that was not started has nothing.
RecordsHold ==
    \A i \in Imports :
        /\ record[i].cursor <= RowCount[i]
        /\ record[i].status = "none" => /\ record[i] = NoRecord
                                       /\ \A n \in 1..MaxRows : <<i, n>> \notin tasks

\* A step read a record that ran, and while its version is the record's, nobody
\* the record since; a plan without the bound left room for all.
ItemHolds(x) ==
    /\ x.pc = "queued" => x.attempts < MaxAttempts
    /\ InStep(x) =>
          /\ x.read.status = "running"
          /\ x.read.version <= record[x.of].version
          /\ Hits(x.of, x.read) => record[x.of] = x.read
    /\ x.pc = "ready" /\ x.plan = "paid" => x.room = MaxRows

\* A wake that starts again starts from the first, and a version it read is of
\* a record that was parked.
WakeHolds(w) ==
    /\ w.pc = "queued" => w.after = 0 /\ w.batch = {}
    /\ \A p \in w.batch :
          /\ p[2] <= record[p[1]].version
          /\ p[2] = record[p[1]].version => record[p[1]].status \in {"parked", "gone"}

IInv ==
    /\ TypeOK /\ RecordsHold /\ RowsLandOnce
    /\ \A x \in items : ItemHolds(x)
    /\ \A w \in wakes : WakeHolds(w)
    /\ RecordIsCarried
=============================================================================
