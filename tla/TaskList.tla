------------------------------ MODULE TaskList ------------------------------
(***************************************************************************)
(* The order of one org's open tasks (tasks/impl/manager.py create_task,   *)
(* move_task, update_task, respace_ranks; storage/impl/postgres.py): every *)
(* call reads the places it goes by, each in a statement of its own, and   *)
(* lands one conditional write, and the sweep gives a run around a rank    *)
(* that grew too long short ranks again, meanwhile.                        *)
(***************************************************************************)
EXTENDS Ranks, FiniteSets

CONSTANTS
    Tasks,          \* the ids, in their order
    FirstRanks,     \* the ranks of the tasks that are there at first
    Bound,          \* RANK_SCALE_BOUND: a rank with more digits is respaced
    Short,          \* RANK_SCALE_SHORT: one with at most as many bounds a run
    Reach,          \* RESPACE_REACH: how far a run is read each way
    Calls,
    MaxWrites       \* bound on the writes of each row

TaskListAssumption ==
    /\ Tasks \subseteq Nat /\ IsFiniteSet(Tasks)
    /\ DOMAIN FirstRanks \subseteq Tasks /\ FirstRanks \in [DOMAIN FirstRanks -> Int]
    /\ {Bound, Short, MaxWrites} \subseteq Nat /\ Reach \in Nat \ {0}
    /\ Short <= Bound /\ Bound <= Digits

VARIABLES
    tasks,      \* the row of each
    calls,      \* what each call under way has read
    sweep,      \* what the respace has read
    placed      \* the tasks placed since the respace began to read

vars == <<tasks, calls, sweep, placed>>

NoCall == [op |-> "none", pc |-> "idle", task |-> 0, version |-> 0, rank |-> 0]
NoSweep == [pc |-> "idle", long |-> [rank |-> 0, id |-> 0], above |-> {}, below |-> {},
            versions |-> [t \in Tasks |-> 0]]

Init ==
    /\ tasks = [t \in Tasks |->
                   IF t \in DOMAIN FirstRanks
                   THEN [status |-> "open", rank |-> FirstRanks[t], version |-> 1]
                   ELSE [status |-> "none", rank |-> 0, version |-> 0]]
    /\ calls = [c \in Calls |-> NoCall]
    /\ sweep = NoSweep
    /\ placed = {}

Open == {t \in Tasks : tasks[t].status = "open"}
Place(t) == [rank |-> tasks[t].rank, id |-> t]
Precedes(p, q) == p.rank < q.rank \/ (p.rank = q.rank /\ p.id < q.id)
Before(s, t) == Precedes(Place(s), Place(t))

\* The smallest, or the largest, rank among some open tasks; none of none.
LeastRank(S) == {r \in {tasks[t].rank : t \in S} : \A t \in S : r <= tasks[t].rank}

Starts(c, call) ==
    /\ calls[c] = NoCall
    /\ tasks[call.task].version < MaxWrites
    /\ calls' = [calls EXCEPT ![c] = call]
    /\ UNCHANGED <<tasks, sweep, placed>>

-----------------------------------------------------------------------------
\* The calls that place a task.

\* _top_rank: of a create, of a reopen, and of a move to the top.
ReadTop(c) == \E t \in Tasks, op \in {"create", "reopen", "move"} :
    LET top == LeastRank(Open \ {t})
    IN /\ tasks[t].status = [create |-> "none", reopen |-> "done", move |-> "open"][op]
       /\ Starts(c, [op |-> op, pc |-> "write", task |-> t, version |-> tasks[t].version,
                     rank |-> RankBetween({}, top)])

ReadAnchor(c) == \E t, anchor \in Open :
    /\ t # anchor
    /\ Starts(c, [op |-> "move", pc |-> "anchor", task |-> t, version |-> tasks[t].version,
                  rank |-> tasks[anchor].rank])

\* _rank_past, rank_after: the places that share the anchor's are stepped over.
ReadFollowing(c) ==
    /\ calls[c].pc = "anchor"
    /\ LET anchor == calls[c].rank
           following == LeastRank({t \in Open \ {calls[c].task} : tasks[t].rank > anchor})
       IN /\ Fits({anchor}, following, 1)
          /\ calls' = [calls EXCEPT ![c].pc = "write", ![c].rank = RankBetween({anchor}, following)]
    /\ UNCHANGED <<tasks, sweep, placed>>

WritePlace(c) ==
    /\ calls[c].pc = "write"
    /\ LET t == calls[c].task
       IN IF tasks[t].version # calls[c].version
          THEN UNCHANGED <<tasks, placed>>
          ELSE /\ tasks' = [tasks EXCEPT ![t] = [status |-> "open", rank |-> calls[c].rank,
                                                 version |-> @.version + 1]]
               /\ placed' = placed \union {t}
    /\ calls' = [calls EXCEPT ![c] = NoCall]
    /\ UNCHANGED sweep

\* An edit, or the end of a task: one conditional write of what was read.
Edit(t) == \E status \in {"open", "done"} :
    /\ t \in Open /\ tasks[t].version < MaxWrites
    /\ tasks' = [tasks EXCEPT ![t].status = status, ![t].version = @ + 1]
    /\ UNCHANGED <<calls, sweep, placed>>

-----------------------------------------------------------------------------
\* respace_ranks.

Long == {t \in Open : RankScale(tasks[t].rank) > Bound}

ReadLong == \E t \in Long :
    /\ sweep.pc = "idle"
    /\ \A s \in Long : s = t \/ Before(t, s)
    /\ sweep' = [NoSweep EXCEPT !.pc = "above", !.long = Place(t)]
    /\ placed' = {}
    /\ UNCHANGED <<tasks, calls>>

Places == {Place(t) : t \in Open}

\* The places of a side that stand between the long rank and p, and those of them
\* that a read of the side finds: the nearest, as many as it reaches.
Ahead(p, side) ==
    {q \in side : \/ Precedes(p, q) /\ Precedes(q, sweep.long)
                  \/ Precedes(sweep.long, q) /\ Precedes(q, p)}
Nearest(side) == {p \in side : Cardinality(Ahead(p, side)) < Reach}

ReadAbove ==
    /\ sweep.pc = "above"
    /\ sweep' = [sweep EXCEPT !.pc = "below",
                              !.above = Nearest({p \in Places : Precedes(p, sweep.long)})]
    /\ UNCHANGED <<tasks, calls, placed>>

ReadBelow ==
    /\ sweep.pc = "below"
    /\ sweep' = [sweep EXCEPT !.pc = "rows",
                              !.below = Nearest({p \in Places : Precedes(sweep.long, p)})]
    /\ UNCHANGED <<tasks, calls, placed>>

\* respace_run: each side up to its nearest short rank, or its farthest place
\* when it was read as deep as it may be.
Bounds(side) ==
    {p \in side : RankScale(p.rank) <= Short \/ Cardinality(Ahead(p, side)) = Reach - 1}
Edge(side) == {p \in Bounds(side) : Ahead(p, Bounds(side)) = {}}
Inner(side) == {p \in side : \A edge \in Edge(side) : p \in Ahead(edge, side)}
EdgeRank(side) == {p.rank : p \in Edge(side)}

Run == Inner(sweep.above) \cup {sweep.long} \cup Inner(sweep.below)

\* Where a place stands in the run.
Nth(p) == Cardinality({q \in Run : Precedes(q, p)}) + 1

Unmoved(p) == tasks[p.id].status = "open" /\ tasks[p.id].rank = p.rank

ReadRows ==
    /\ sweep.pc = "rows"
    /\ sweep' =
          IF /\ Fits(EdgeRank(sweep.above), EdgeRank(sweep.below), Cardinality(Run))
             /\ \A p \in Run : Unmoved(p)
          THEN [sweep EXCEPT !.pc = "write",
                             !.versions = [t \in Tasks |-> IF \E p \in Run : p.id = t
                                                           THEN tasks[t].version ELSE 0]]
          ELSE NoSweep
    /\ UNCHANGED <<tasks, calls, placed>>

\* A plausible slip: the rows are written as they were read.
MutCurrent(p) == tasks[p.id].version >= sweep.versions[p.id]

\* update_tasks: each on the version read, all or none.
Current(p) == tasks[p.id].version = sweep.versions[p.id]

Ranked == Spread(EdgeRank(sweep.above), EdgeRank(sweep.below), Cardinality(Run))

Respaced ==
    [t \in Tasks |->
        IF \E p \in Run : p.id = t
        THEN [status |-> "open", rank |-> Ranked[Nth(CHOOSE p \in Run : p.id = t)],
              version |-> tasks[t].version + 1]
        ELSE tasks[t]]

WriteRun ==
    /\ sweep.pc = "write"
    /\ tasks' = IF \A p \in Run : Current(p) THEN Respaced ELSE tasks
    /\ sweep' = NoSweep
    /\ UNCHANGED <<calls, placed>>

Next ==
    \/ \E c \in Calls : ReadTop(c) \/ ReadAnchor(c) \/ ReadFollowing(c) \/ WritePlace(c)
    \/ \E t \in Tasks : Edit(t)
    \/ ReadLong \/ ReadAbove \/ ReadBelow \/ ReadRows \/ WriteRun

Spec == Init /\ [][Next]_vars

-----------------------------------------------------------------------------

PlaceType == [rank : Int, id : Tasks]

CallType ==
    [op : {"none", "create", "reopen", "move"}, pc : {"idle", "anchor", "write"}, task : Nat,
     version : Nat, rank : Int]
SweepType ==
    [pc : {"idle", "above", "below", "rows", "write"}, long : [rank : Int, id : Nat],
     above : SUBSET PlaceType, below : SUBSET PlaceType,
     versions : [Tasks -> Nat]]

TypeOK ==
    /\ tasks \in [Tasks -> [status : {"none", "open", "done"}, rank : Int, version : Nat]]
    /\ calls \in [Calls -> CallType]
    /\ \A c \in Calls : calls[c].pc # "idle" => calls[c].task \in Tasks
    /\ sweep \in SweepType
    /\ sweep.pc # "idle" => sweep.long \in PlaceType
    /\ placed \subseteq Tasks

\* A respace changes no order the list shows: every two tasks that stayed where
\* they were while it read and wrote stand as they stood, whatever was edited,
\* finished and placed meanwhile, and it takes no task from a place it did not
\* read.  Where a task that was placed into the run meanwhile stands among it
\* is not promised (respace_ranks).
RespaceKeepsOrder ==
    WriteRun =>
        /\ \A s, t \in Open \ placed : Before(s, t) = Before(s, t)'
        /\ \A t \in Tasks : tasks'[t].rank # tasks[t].rank =>
                Place(t) \in Run /\ t \in Open
        /\ Open' = Open

-----------------------------------------------------------------------------
(* Why it keeps it.                                                        *)

\* Where those stand that were not placed since the respace began to read.
Stayed == {Place(t) : t \in Open \ placed}

\* A read of a side holds all of it that stayed there or, when it went as far as it
\* reaches, all but places beyond its last.
SideHolds(side, read) ==
    /\ IsFiniteSet(read)
    /\ \A p \in side \ read :
            /\ read \subseteq Ahead(p, read)
            /\ \E q \in read : Cardinality(Ahead(q, read)) = Reach - 1

AboveHolds ==
    /\ \A p \in sweep.above : Precedes(p, sweep.long)
    /\ SideHolds({p \in Stayed : Precedes(p, sweep.long)}, sweep.above)
BelowHolds ==
    /\ \A p \in sweep.below : Precedes(sweep.long, p)
    /\ SideHolds({p \in Stayed : Precedes(sweep.long, p)}, sweep.below)

\* While the rows of the run have the versions that were read, they are where they
\* were, and there is room for them.
RowsHold ==
    /\ Fits(EdgeRank(sweep.above), EdgeRank(sweep.below), Cardinality(Run))
    /\ \A p \in Run : /\ sweep.versions[p.id] <= tasks[p.id].version
                      /\ Current(p) => Unmoved(p)

IInv ==
    /\ TypeOK
    /\ sweep.pc \in {"below", "rows", "write"} => AboveHolds
    /\ sweep.pc \in {"rows", "write"} => BelowHolds
    /\ sweep.pc = "write" => RowsHold
=============================================================================
