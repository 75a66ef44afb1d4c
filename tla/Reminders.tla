----------------------------- MODULE Reminders -----------------------------
(***************************************************************************)
(* The reminder of one task's due date (tasks/impl/manager.py update_task, *)
(* reminders.py, workers/maintenance reminders.py and mark_reminded): the  *)
(* edits that set the date, the person and the status, each conditioned on *)
(* the version it read, the items they leave in the queue, and the handler *)
(* that reads, parks until the person's morning, and fires.  An item whose *)
(* lease lapsed is handed out again, while the first handler is at it.     *)
(*                                                                         *)
(* The moments are steps of a clock: a date's first morning anywhere, and  *)
(* after it the morning of each person.                                    *)
(***************************************************************************)
EXTENDS Integers, FiniteSets

CONSTANTS
    People,
    Dates,          \* the dates a task is due on, by their first morning
    LagOf,          \* how long after it each person's morning comes
    MaxNow,         \* bound on the clock
    MaxItems,       \* bound on the items ever queued
    MaxVersion,     \* bound on the writes of the row
    MaxFaults,      \* bound on leases that lapse
    Editors, Runners

RemindersAssumption ==
    /\ Dates \subseteq Nat \ {0}
    /\ LagOf \in [People -> Nat]
    /\ {MaxNow, MaxItems, MaxVersion, MaxFaults} \subseteq Nat
    /\ People # {} /\ "nobody" \notin Runners

VARIABLES
    task,       \* the row
    items,      \* the reminder's items, in the order they were queued
    queued,     \* how many there are
    now,
    edits,      \* the row each edit under way has read
    runs,       \* what each handler holds
    faults,
    told,       \* how often the team was told of the date, since it was set
    missed      \* whether an item found the task done, since the date was set

vars == <<task, items, queued, now, edits, runs, faults, told, missed>>

NoDate == 0
Nobody == "nobody"
ItemIds == 1..MaxItems

NoItem == [state |-> "none", at |-> 0, by |-> Nobody]
NoRun == [pc |-> "idle", item |-> 1, due |-> NoDate, at |-> 0]
NoEdit == [pc |-> "idle", read |-> [status |-> "open", due |-> NoDate,
                                    person |-> CHOOSE p \in People : TRUE,
                                    reminded |-> FALSE, version |-> 0]]

Init ==
    /\ \E p \in People :
          task = [status |-> "open", due |-> NoDate, person |-> p, reminded |-> FALSE,
                  version |-> 1]
    /\ items = [i \in ItemIds |-> NoItem]
    /\ queued = 0
    /\ now = 1
    /\ edits = [e \in Editors |-> NoEdit]
    /\ runs = [r \in Runners |-> NoRun]
    /\ faults = 0
    /\ told = 0
    /\ missed = FALSE

\* reminder_time
Morning(due, person) == due + LagOf[person]

-----------------------------------------------------------------------------
\* An edit: get_task, then the write, conditioned on the version.

ReadTask(e) ==
    /\ edits[e].pc = "idle" /\ task.status # "deleted" /\ task.version < MaxVersion
    /\ edits' = [edits EXCEPT ![e] = [pc |-> "read", read |-> task]]
    /\ UNCHANGED <<task, items, queued, now, runs, faults, told, missed>>

Edited(read) ==
    LET with(f, v) == [read EXCEPT ![f] = v]
    IN {with("due", d) : d \in Dates \union {NoDate}}
         \union {with("person", p) : p \in People}
         \union {with("status", s) : s \in {"open", "done", "deleted"}}

\* A plausible slip: an item that waits for the person before is enough.
MutAsksAgain(read, new) == new.due # read.due

\* rescheduled, reassigned
AsksAgain(read, new) ==
    \/ new.due # read.due
    \/ new.person # read.person /\ ~read.reminded

\* A plausible slip: a date that is taken away leaves its mark behind.
MutReminded(read, new) == read.reminded /\ new.due \in {read.due, NoDate}

\* The mark of the date that was told of, which a new date clears.
Reminded(read, new) == read.reminded /\ new.due = read.due

WriteTask(e) == \E new \in Edited(edits[e].read) :
    LET read == edits[e].read
        moved == new.due # read.due
        asks == AsksAgain(read, new) /\ new.due # NoDate
    IN /\ edits[e].pc = "read"
       /\ edits' = [edits EXCEPT ![e] = NoEdit]
       /\ IF task.version # read.version
          THEN UNCHANGED <<task, items, queued, told, missed>>
          ELSE /\ asks => queued < MaxItems
               /\ task' = [new EXCEPT !.version = read.version + 1,
                                      !.reminded = Reminded(read, new)]
               /\ queued' = queued + (IF asks THEN 1 ELSE 0)
               /\ items' = [i \in ItemIds |->
                              IF asks /\ i = queued + 1
                              THEN [state |-> "queued", at |-> new.due, by |-> Nobody]
                              ELSE items[i]]
               /\ told' = IF moved THEN 0 ELSE told
               /\ missed' = (missed /\ ~moved)
       /\ UNCHANGED <<now, runs, faults>>

-----------------------------------------------------------------------------
\* The handler, on an item that is due.

Claim(r) == \E i \in ItemIds :
    /\ runs[r].pc = "idle"
    /\ items[i].state = "queued" /\ items[i].at <= now
    /\ items' = [items EXCEPT ![i].state = "claimed", ![i].by = r]
    /\ runs' = [runs EXCEPT ![r] = [NoRun EXCEPT !.pc = "claimed", !.item = i]]
    /\ UNCHANGED <<task, queued, now, edits, faults, told, missed>>

\* get_due_reminder
Waits == task.status = "open" /\ task.due # NoDate /\ ~task.reminded

ReadReminder(r) ==
    /\ runs[r].pc = "claimed"
    /\ LET at == Morning(task.due, task.person)
       IN runs' = [runs EXCEPT ![r] =
             IF ~Waits THEN [@ EXCEPT !.pc = "over"]
             ELSE [@ EXCEPT !.pc = IF now < at THEN "early" ELSE "due", !.due = task.due,
                            !.at = at]]
    /\ missed' = (missed \/ task.status = "done")
    /\ UNCHANGED <<task, items, queued, now, edits, faults, told>>

\* fire_reminder: mark_reminded is one conditional write, and the version
\* moves with it.
Fires(due) == Waits /\ task.due = due
Marked(row) == [row EXCEPT !.version = @ + 1, !.reminded = TRUE]

Fire(r) ==
    /\ runs[r].pc = "due"
    /\ IF Fires(runs[r].due)
       THEN task' = Marked(task) /\ told' = told + 1
       ELSE UNCHANGED <<task, told>>
    /\ missed' = (missed \/ task.status = "done")
    /\ runs' = [runs EXCEPT ![r].pc = "over"]
    /\ UNCHANGED <<items, queued, now, edits, faults>>

\* What the worker's loop does with the answer, while the item is still its.
Settle(r) ==
    /\ runs[r].pc \in {"early", "over"}
    /\ LET i == runs[r].item
       IN items' = IF items[i].by # r THEN items
                   ELSE [items EXCEPT ![i] =
                           IF runs[r].pc = "over" THEN [@ EXCEPT !.state = "done", !.by = Nobody]
                           ELSE [state |-> "queued", at |-> runs[r].at, by |-> Nobody]]
    /\ runs' = [runs EXCEPT ![r] = NoRun]
    /\ UNCHANGED <<task, queued, now, edits, faults, told, missed>>

Lapse(i) ==
    /\ items[i].state = "claimed" /\ faults < MaxFaults
    /\ items' = [items EXCEPT ![i].state = "queued", ![i].by = Nobody]
    /\ faults' = faults + 1
    /\ UNCHANGED <<task, queued, now, edits, runs, told, missed>>

Tick ==
    /\ now < MaxNow
    /\ now' = now + 1
    /\ UNCHANGED <<task, items, queued, edits, runs, faults, told, missed>>

Next ==
    \/ Tick
    \/ \E e \in Editors : ReadTask(e) \/ WriteTask(e)
    \/ \E r \in Runners : Claim(r) \/ ReadReminder(r) \/ Fire(r) \/ Settle(r)
    \/ \E i \in ItemIds : Lapse(i)

Spec == Init /\ [][Next]_vars

-----------------------------------------------------------------------------

Row == [status : {"open", "done", "deleted"}, due : Dates \union {NoDate},
        person : People, reminded : BOOLEAN, version : Nat]

Item == [state : {"none", "queued", "claimed", "done"}, at : Nat,
         by : Runners \union {Nobody}]

HandlerRun == [pc : {"idle", "claimed", "early", "due", "over"}, item : Nat,
               due : Dates \union {NoDate}, at : Nat]

TypeOK ==
    /\ task \in Row /\ (task.reminded => task.due # NoDate)
    /\ items \in [ItemIds -> Item]
    /\ queued \in 0..MaxItems
    /\ now \in Nat \ {0}
    /\ edits \in [Editors -> [pc : {"idle", "read"}, read : Row]]
    /\ runs \in [Runners -> HandlerRun]
    /\ told \in Nat /\ missed \in BOOLEAN

\* An item that will still ask, no later than the person's morning as it reads
\* now: one in the queue, or one whose handler has read nothing that changed.
AsksInTime(i) ==
    \/ items[i].state = "queued" /\ \/ items[i].at <= now
                                    \/ items[i].at <= Morning(task.due, task.person)
    \/ items[i].state = "claimed"
       /\ LET run == runs[items[i].by]
          IN \/ run.pc = "claimed"
             \/ run.pc = "due" /\ run.due = task.due
             \/ run.pc = "early" /\ run.at <= Morning(task.due, task.person)

\* A due date is told of once; and while it was not, an open task has an item
\* that asks by its person's morning, whatever edits, parks and second
\* deliveries cross.  A task that was done when its item ran, and is open again
\* before the morning, has none: the reopen does not ask (update_task,
\* get_due_reminder, fire_reminder).
ReminderKept ==
    /\ told <= 1
    /\ Waits /\ ~missed => \E i \in ItemIds : AsksInTime(i)

-----------------------------------------------------------------------------
(* Why they hold.                                                          *)

\* The date was told of as its mark says.
MarkHolds == told = IF task.reminded THEN 1 ELSE 0

\* An edit whose version is the row's has the row.
EditsHold ==
    \A e \in Editors : edits[e].pc = "read" =>
        /\ edits[e].read.status # "deleted"
        /\ edits[e].read.version <= task.version
        /\ edits[e].read.version = task.version => edits[e].read = task

\* An item is claimed by one handler, which is at no other, and was due by then.
ItemsHold ==
    \A i \in ItemIds :
        /\ items[i].state # "none" => i <= queued
        /\ items[i].state = "claimed" \/ items[i].by = Nobody
        /\ items[i].state = "claimed" =>
              /\ items[i].by \in Runners /\ items[i].at <= now
              /\ runs[items[i].by].item = i /\ runs[items[i].by].pc # "idle"

\* A task that is done has its item as an open one has, until an item finds it
\* done: it may be open again before.
AskedFor ==
    task.status # "deleted" /\ task.due # NoDate /\ ~task.reminded /\ ~missed =>
        \E i \in ItemIds : AsksInTime(i)

IInv == TypeOK /\ MarkHolds /\ EditsHold /\ ItemsHold /\ AskedFor
=============================================================================
