---------------------------- MODULE DomainProofs ----------------------------
(***************************************************************************)
(* What the runs check of the parts of Domain, proved for every value of   *)
(* its constants.  The argument about each part is in the modules of its   *)
(* proofs; here a behaviour of Domain is shown to be one of its part's,    *)
(* and the part's invariants to be those the runs name.                    *)
(*                                                                         *)
(* The modules of the proofs are instantiated over v1, v2, ... as the      *)
(* parts are in Domain.  The provers see two instances of one definition   *)
(* as two operators, so a lemma for each part (OutboxAre, ImportsAre, ...) *)
(* expands both and finds them the same.  A second (OutboxRuns, ...) says  *)
(* that a behaviour whose part it is follows the part's specification, and *)
(* that another never comes to it; a third (OutboxHolds, ...) brings the   *)
(* part's invariants over.                                                 *)
(***************************************************************************)
EXTENDS Domain, TLAPS

TP == INSTANCE TasksProofs WITH
    Imports <- Files, MaxEvents <- MaxEvents["imports"],
    record <- v1, tasks <- v2, open <- v3, stored <- v4, items <- v5, wakes <- v6,
    plan <- v7, stale <- v8, stranded <- v9, overlooked <- v10, events <- v11,
    People <- Assignees, MaxNow <- MaxNow["reminders"], MaxVersion <- MaxVersion["reminders"],
    MaxFaults <- MaxFaults["reminders"],
    task <- v1, reminders <- v2, queued <- v3, now <- v4, edits <- v5, runs <- v6,
    faults <- v7, told <- v8, missed <- v9,
    Calls <- Editors,
    listed <- v1, calls <- v2, sweep <- v3, placed <- v4,
    MaxDeaths <- MaxFaults["outbox"],
    outbox <- v1, holds <- v2, relays <- v3, sent <- v4, stream <- v5, posted <- v6,
    named <- v7, deaths <- v8

GP == INSTANCE OrgsProofs WITH
    MaxFaults <- MaxFaults["billing"], Starts <- Checkouts, Kinds <- SocketKinds,
    account <- v1, answers <- v2, customers <- v3, subs <- v4, sessions <- v5, marks <- v6,
    done <- v7, starts <- v8, workers <- v9, editor <- v10, grants <- v11, faults <- v12,
    stale <- v13, overtaken <- v14,
    MaxRefusals <- MaxFaults["slack"],
    claimed <- v1, broken <- v2, stored <- v3, age <- v4, issued <- v5, callers <- v6,
    lost <- v7, bared <- v8, refusals <- v9,
    MaxFailures <- MaxFaults["media"],
    fileRow <- v1, aged <- v2, uploads <- v3, numbered <- v4, object <- v5, expired <- v6,
    calls <- v7, sweeps <- v8, failures <- v9,
    MaxNow <- MaxNow["sockets"],
    kind <- v1, redeemed <- v2, live <- v3, member <- v4, plan <- v5, bus <- v6,
    sockets <- v7, now <- v8,
    org <- v1, user <- v2, membership <- v3, moves <- v4, asked <- v5,
    creds <- v1, made <- v2, visited <- v3, step <- v4, lastStep <- v5, presented <- v6

CP == INSTANCE CallersProofs WITH
    MaxEvents <- MaxEvents["channel"],
    head <- v1, floor <- v2, recent <- v3, hints <- v4, server <- v5, lanes <- v6,
    tab <- v7, cursor <- v8, inbox <- v9, replay <- v10, seen <- v11, told <- v12,
    jumped <- v13, events <- v14,
    MaxVersion <- MaxVersion["cache"], MaxFaults <- MaxFaults["cache"],
    source <- v1, unbumped <- v2, bumped <- v3, window <- v4, counts <- v5, entries <- v6,
    readers <- v7, faults <- v8,
    Calls <- Guarded, MaxTurns <- MaxEvents["breaker"],
    consecutive <- v1, opened <- v2, elapsed <- v3, probing <- v4, out <- v5, up <- v6,
    turns <- v7,
    MaxWrites <- MaxVersion["taskCache"], MaxLosses <- MaxFaults["taskCache"],
    history <- v1, pushed <- v2, lists <- v3, heard <- v4, clock <- v5, pending <- v6,
    gathered <- v7, reads <- v8, own <- v9, crossed <- v10, losses <- v11

\* For the lists with other bounds.
CF == INSTANCE CallersProofs WITH
    MaxEvents <- MaxEvents["channel"],
    head <- v1, floor <- v2, recent <- v3, hints <- v4, server <- v5, lanes <- v6,
    tab <- v7, cursor <- v8, inbox <- v9, replay <- v10, seen <- v11, told <- v12,
    jumped <- v13, events <- v14,
    MaxVersion <- MaxVersion["cache"], MaxFaults <- MaxFaults["cache"],
    source <- v1, unbumped <- v2, bumped <- v3, window <- v4, counts <- v5, entries <- v6,
    readers <- v7, faults <- v8,
    Calls <- Guarded, MaxTurns <- MaxEvents["breaker"],
    consecutive <- v1, opened <- v2, elapsed <- v3, probing <- v4, out <- v5, up <- v6,
    turns <- v7,
    MaxWrites <- MaxVersion["failing"],
    MaxLosses <- MaxFaults["failing"],
    history <- v1, pushed <- v2, lists <- v3, heard <- v4, clock <- v5, pending <- v6,
    gathered <- v7, reads <- v8, own <- v9, crossed <- v10, losses <- v11

LEMMA OutboxAre ==
    /\ TP!OB!OutboxAssumption <=> OB!OutboxAssumption
    /\ TP!OB!Init <=> OB!Init
    /\ TP!OB!Next <=> OB!Next
    /\ TP!OB!vars = OB!vars
    /\ TP!OB!TypeOK <=> OB!TypeOK
    /\ TP!OB!HeldHasHolder <=> OB!HeldHasHolder
    /\ TP!OB!DoneMeansTold <=> OB!DoneMeansTold
BY ZenonT(60) DEF
      TP!OB!IsFiniteSet, OB!IsFiniteSet, TP!OB!Cardinality, OB!Cardinality,
      TP!OB!OutboxAssumption, OB!OutboxAssumption, TP!OB!vars, OB!vars, TP!OB!Relayers,
      OB!Relayers, TP!OB!Row, OB!Row, TP!OB!NoHold, OB!NoHold, TP!OB!Task, OB!Task,
      TP!OB!NoCopy, OB!NoCopy, TP!OB!Idle, OB!Idle, TP!OB!Deliver, OB!Deliver, TP!OB!Init,
      OB!Init, TP!OB!Fault, OB!Fault, TP!OB!Hold, OB!Hold, TP!OB!Write, OB!Write,
      TP!OB!Release, OB!Release, TP!OB!AbandonedHold, OB!AbandonedHold, TP!OB!Abandon,
      OB!Abandon, TP!OB!ApiDies, OB!ApiDies, TP!OB!Raised, OB!Raised, TP!OB!Append,
      OB!Append, TP!OB!Publish, OB!Publish, TP!OB!Enqueue, OB!Enqueue, TP!OB!Delivered,
      OB!Delivered, TP!OB!Marked, OB!Marked, TP!OB!MarkDone, OB!MarkDone, TP!OB!Backoff,
      OB!Backoff, TP!OB!Due, OB!Due, TP!OB!Claim, OB!Claim, TP!OB!NextRow, OB!NextRow,
      TP!OB!Spent, OB!Spent, TP!OB!RecordFailure, OB!RecordFailure, TP!OB!NameDeadLetter,
      OB!NameDeadLetter, TP!OB!SweepDies, OB!SweepDies, TP!OB!Purge, OB!Purge, TP!OB!Less,
      OB!Less, TP!OB!Tick, OB!Tick, TP!OB!DeliverStep, OB!DeliverStep, TP!OB!SweepStep,
      OB!SweepStep, TP!OB!Next, OB!Next, TP!OB!TaskType, OB!TaskType, TP!OB!Shapes,
      OB!Shapes, TP!OB!AttemptsBound, OB!AttemptsBound, TP!OB!TypeOK, OB!TypeOK,
      TP!OB!DoneMeansTold, OB!DoneMeansTold, TP!OB!HeldHasHolder, OB!HeldHasHolder

LEMMA ImportsAre ==
    /\ TP!ImportsAssumption <=> IM!ImportsAssumption
    /\ TP!Init <=> IM!Init
    /\ TP!Next <=> IM!Next
    /\ TP!vars = IM!vars
    /\ TP!TypeOK <=> IM!TypeOK
    /\ TP!RowsLandOnce <=> IM!RowsLandOnce
    /\ TP!RecordIsCarried <=> IM!RecordIsCarried
    /\ TP!EndedStays <=> IM!EndedStays
BY ZenonT(60) DEF
      TP!IsFiniteSet, IM!IsFiniteSet, TP!Cardinality, IM!Cardinality, TP!Max, IM!Max,
      TP!Min, IM!Min, TP!ImportsAssumption, IM!ImportsAssumption, TP!MaxRows, IM!MaxRows,
      TP!left, IM!left, TP!vars, IM!vars, TP!Plans, IM!Plans, TP!Settled, IM!Settled,
      TP!Statuses, IM!Statuses, TP!Record, IM!Record, TP!NoRecord, IM!NoRecord, TP!Item,
      IM!Item, TP!Wake, IM!Wake, TP!TypeOK, IM!TypeOK, TP!Init, IM!Init, TP!Replace,
      IM!Replace, TP!Event, IM!Event, TP!Calm, IM!Calm, TP!Moved, IM!Moved, TP!StepRows,
      IM!StepRows, TP!Hits, IM!Hits, TP!Write, IM!Write, TP!LastOf, IM!LastOf,
      TP!CursorAfter, IM!CursorAfter, TP!Made, IM!Made, TP!Advanced, IM!Advanced, TP!Start,
      IM!Start, TP!Resume, IM!Resume, TP!Cancel, IM!Cancel, TP!RemoveFile, IM!RemoveFile,
      TP!CompleteTask, IM!CompleteTask, TP!Purge, IM!Purge, TP!Take, IM!Take, TP!FileGone,
      IM!FileGone, TP!ReadPlan, IM!ReadPlan, TP!RoomFor, IM!RoomFor, TP!ReadCount,
      IM!ReadCount, TP!Awaits, IM!Awaits, TP!ParksLate, IM!ParksLate, TP!Land, IM!Land,
      TP!Complete, IM!Complete, TP!Requeued, IM!Requeued, TP!InStep, IM!InStep, TP!Raise,
      IM!Raise, TP!Carries, IM!Carries, TP!Strands, IM!Strands, TP!Die, IM!Die,
      TP!PlanRises, IM!PlanRises, TP!PlanFalls, IM!PlanFalls, TP!CacheEnds, IM!CacheEnds,
      TP!Parked, IM!Parked, TP!FirstParked, IM!FirstParked, TP!WakeReads, IM!WakeReads,
      TP!WakeResumes, IM!WakeResumes, TP!WakeDies, IM!WakeDies, TP!Next, IM!Next,
      TP!RowsLandOnce, IM!RowsLandOnce, TP!EndedStays, IM!EndedStays, TP!RunningIsCarried,
      IM!RunningIsCarried, TP!Reaches, IM!Reaches, TP!ParkedIsWoken, IM!ParkedIsWoken,
      TP!RecordIsCarried, IM!RecordIsCarried

LEMMA ListAre ==
    /\ TP!TL!TaskListAssumption <=> TL!TaskListAssumption
    /\ TP!TL!RanksAssumption <=> TL!RanksAssumption
    /\ TP!TL!Init <=> TL!Init
    /\ TP!TL!Next <=> TL!Next
    /\ TP!TL!vars = TL!vars
    /\ TP!TL!TypeOK <=> TL!TypeOK
    /\ TP!TL!RespaceKeepsOrder <=> TL!RespaceKeepsOrder
<1>1. /\ TP!TL!TaskListAssumption <=> TL!TaskListAssumption
      /\ TP!TL!RanksAssumption <=> TL!RanksAssumption
  BY ZenonT(60) DEF
      TP!TL!RanksAssumption, TL!RanksAssumption, TP!TL!IsFiniteSet, TL!IsFiniteSet,
      TP!TL!TaskListAssumption, TL!TaskListAssumption
<1>7. /\ TP!TL!Init <=> TL!Init
      /\ TP!TL!vars = TL!vars
      /\ TP!TL!TypeOK <=> TL!TypeOK
  BY ZenonT(60) DEF
      TP!TL!vars, TL!vars, TP!TL!NoCall, TL!NoCall, TP!TL!NoSweep, TL!NoSweep, TP!TL!Init,
      TL!Init, TP!TL!PlaceType, TL!PlaceType, TP!TL!CallType, TL!CallType, TP!TL!SweepType,
      TL!SweepType, TP!TL!TypeOK, TL!TypeOK
<1>2. TP!TL!WriteRun <=> TL!WriteRun
  BY ZenonT(60) DEF
      TP!TL!Unit, TL!Unit, TP!TL!One, TL!One, TP!TL!RankScale, TL!RankScale,
      TP!TL!FirstUnit, TL!FirstUnit, TP!TL!LastUnit, TL!LastUnit, TP!TL!Room, TL!Room,
      TP!TL!Spaced, TL!Spaced, TP!TL!Spread, TL!Spread, TP!TL!Cardinality, TL!Cardinality,
      TP!TL!NoSweep, TL!NoSweep, TP!TL!Precedes, TL!Precedes, TP!TL!Ahead, TL!Ahead,
      TP!TL!Bounds, TL!Bounds, TP!TL!Edge, TL!Edge, TP!TL!Inner, TL!Inner, TP!TL!EdgeRank,
      TL!EdgeRank, TP!TL!Run, TL!Run, TP!TL!Nth, TL!Nth, TP!TL!Current, TL!Current,
      TP!TL!Ranked, TL!Ranked, TP!TL!Respaced, TL!Respaced, TP!TL!WriteRun, TL!WriteRun
<1>3. TP!TL!Next <=> TL!Next
  BY <1>2, ZenonT(60) DEF
      TP!TL!Unit, TL!Unit, TP!TL!One, TL!One, TP!TL!RankScale, TL!RankScale,
      TP!TL!FirstUnit, TL!FirstUnit, TP!TL!LastUnit, TL!LastUnit, TP!TL!Room, TL!Room,
      TP!TL!Spaced, TL!Spaced, TP!TL!HasRoom, TL!HasRoom, TP!TL!Spread, TL!Spread,
      TP!TL!Fits, TL!Fits, TP!TL!RankBetween, TL!RankBetween, TP!TL!Cardinality,
      TL!Cardinality, TP!TL!NoCall, TL!NoCall, TP!TL!NoSweep, TL!NoSweep, TP!TL!Open,
      TL!Open, TP!TL!Place, TL!Place, TP!TL!Precedes, TL!Precedes, TP!TL!Before, TL!Before,
      TP!TL!LeastRank, TL!LeastRank, TP!TL!Starts, TL!Starts, TP!TL!ReadTop, TL!ReadTop,
      TP!TL!ReadAnchor, TL!ReadAnchor, TP!TL!ReadFollowing, TL!ReadFollowing,
      TP!TL!WritePlace, TL!WritePlace, TP!TL!Edit, TL!Edit, TP!TL!Long, TL!Long,
      TP!TL!ReadLong, TL!ReadLong, TP!TL!Places, TL!Places, TP!TL!Ahead, TL!Ahead,
      TP!TL!Nearest, TL!Nearest, TP!TL!ReadAbove, TL!ReadAbove, TP!TL!ReadBelow,
      TL!ReadBelow, TP!TL!Bounds, TL!Bounds, TP!TL!Edge, TL!Edge, TP!TL!Inner, TL!Inner,
      TP!TL!EdgeRank, TL!EdgeRank, TP!TL!Run, TL!Run, TP!TL!Unmoved, TL!Unmoved,
      TP!TL!ReadRows, TL!ReadRows, TP!TL!Next, TL!Next
<1>4. /\ TP!TL!Run = TL!Run
      /\ TP!TL!Open = TL!Open
      /\ \A t : TP!TL!Place(t) = TL!Place(t)
      /\ \A s, t : TP!TL!Before(s, t) = TL!Before(s, t)
  BY ZenonT(60) DEF
      TP!TL!Unit, TL!Unit, TP!TL!RankScale, TL!RankScale, TP!TL!Cardinality, TL!Cardinality,
      TP!TL!Open, TL!Open, TP!TL!Place, TL!Place, TP!TL!Precedes, TL!Precedes, TP!TL!Before,
      TL!Before, TP!TL!Ahead, TL!Ahead, TP!TL!Bounds, TL!Bounds, TP!TL!Edge, TL!Edge,
      TP!TL!Inner, TL!Inner, TP!TL!Run, TL!Run
<1>5. /\ TP!TL!Open' = TL!Open'
      /\ \A s, t : TP!TL!Before(s, t)' = TL!Before(s, t)'
  BY ZenonT(60) DEF
      TP!TL!Open, TL!Open, TP!TL!Place, TL!Place, TP!TL!Precedes, TL!Precedes, TP!TL!Before,
      TL!Before
<1>6. TP!TL!RespaceKeepsOrder <=> TL!RespaceKeepsOrder
  BY <1>2, <1>4, <1>5 DEF TP!TL!RespaceKeepsOrder, TL!RespaceKeepsOrder
<1> QED BY <1>1, <1>3, <1>6, <1>7

LEMMA RemindersAre ==
    /\ TP!RM!RemindersAssumption <=> RM!RemindersAssumption
    /\ TP!RM!Init <=> RM!Init
    /\ TP!RM!Next <=> RM!Next
    /\ TP!RM!vars = RM!vars
    /\ TP!RM!TypeOK <=> RM!TypeOK
    /\ TP!RM!ReminderKept <=> RM!ReminderKept
BY ZenonT(60) DEF
      TP!RM!RemindersAssumption, RM!RemindersAssumption, TP!RM!vars, RM!vars, TP!RM!NoDate,
      RM!NoDate, TP!RM!Nobody, RM!Nobody, TP!RM!ItemIds, RM!ItemIds, TP!RM!NoItem,
      RM!NoItem, TP!RM!NoRun, RM!NoRun, TP!RM!NoEdit, RM!NoEdit, TP!RM!Init, RM!Init,
      TP!RM!Morning, RM!Morning, TP!RM!ReadTask, RM!ReadTask, TP!RM!Edited, RM!Edited,
      TP!RM!AsksAgain, RM!AsksAgain, TP!RM!Reminded, RM!Reminded, TP!RM!WriteTask,
      RM!WriteTask, TP!RM!Claim, RM!Claim, TP!RM!Waits, RM!Waits, TP!RM!ReadReminder,
      RM!ReadReminder, TP!RM!Fires, RM!Fires, TP!RM!Marked, RM!Marked, TP!RM!Fire, RM!Fire,
      TP!RM!Settle, RM!Settle, TP!RM!Lapse, RM!Lapse, TP!RM!Tick, RM!Tick, TP!RM!Next,
      RM!Next, TP!RM!Row, RM!Row, TP!RM!Item, RM!Item, TP!RM!HandlerRun, RM!HandlerRun,
      TP!RM!TypeOK, RM!TypeOK, TP!RM!AsksInTime, RM!AsksInTime, TP!RM!ReminderKept,
      RM!ReminderKept

LEMMA MembersAre ==
    /\ GP!MB!MembersAssumption <=> MB!MembersAssumption
    /\ GP!MB!Init <=> MB!Init
    /\ GP!MB!Next <=> MB!Next
    /\ GP!MB!vars = MB!vars
    /\ GP!MB!TypeOK <=> MB!TypeOK
    /\ GP!MB!OwnerStays <=> MB!OwnerStays
BY ZenonT(60) DEF
      GP!MB!Cardinality, MB!Cardinality, GP!MB!MembersAssumption, MB!MembersAssumption,
      GP!MB!vars, MB!vars, GP!MB!Rank, MB!Rank, GP!MB!Roles, MB!Roles, GP!MB!AtMost,
      MB!AtMost, GP!MB!Manages, MB!Manages, GP!MB!Changes, MB!Changes, GP!MB!Joins,
      MB!Joins, GP!MB!NoCall, MB!NoCall, GP!MB!NoRow, MB!NoRow, GP!MB!Init, MB!Init,
      GP!MB!Counted, MB!Counted, GP!MB!CountedOwners, MB!CountedOwners, GP!MB!Here, MB!Here,
      GP!MB!Owners, MB!Owners, GP!MB!Holds, MB!Holds, GP!MB!Ends, MB!Ends,
      GP!MB!UnchangedRows, MB!UnchangedRows, GP!MB!Free, MB!Free, GP!MB!Starts, MB!Starts,
      GP!MB!Asked, MB!Asked, GP!MB!FromOutside, MB!FromOutside, GP!MB!AskChange,
      MB!AskChange, GP!MB!AskLeave, MB!AskLeave, GP!MB!AskClose, MB!AskClose, GP!MB!AskShut,
      MB!AskShut, GP!MB!AskJoin, MB!AskJoin, GP!MB!ReadTarget, MB!ReadTarget,
      GP!MB!ReadPlaces, MB!ReadPlaces, GP!MB!ReadOrg, MB!ReadOrg, GP!MB!Lands, MB!Lands,
      GP!MB!WriteMembership, MB!WriteMembership, GP!MB!RemoveMember, MB!RemoveMember,
      GP!MB!KeepsAnOwner, MB!KeepsAnOwner, GP!MB!DeletePerson, MB!DeletePerson,
      GP!MB!WriteClosedOrg, MB!WriteClosedOrg, GP!MB!CreateMember, MB!CreateMember,
      GP!MB!DeleteClosedOrg, MB!DeleteClosedOrg, GP!MB!Call, MB!Call, GP!MB!Next, MB!Next,
      GP!MB!TypeOK, MB!TypeOK, GP!MB!StillSo, MB!StillSo, GP!MB!OwnerStays, MB!OwnerStays

LEMMA SignInsAre ==
    /\ GP!SI!SignInsAssumption <=> SI!SignInsAssumption
    /\ GP!SI!Init <=> SI!Init
    /\ GP!SI!Next <=> SI!Next
    /\ GP!SI!vars = SI!vars
    /\ GP!SI!TypeOK <=> SI!TypeOK
    /\ GP!SI!OneLivePerVisit <=> SI!OneLivePerVisit
    /\ GP!SI!CodeVerifiesOnce <=> SI!CodeVerifiesOnce
    /\ GP!SI!EndedVisitStays <=> SI!EndedVisitStays
BY ZenonT(60) DEF
      GP!SI!Cardinality, SI!Cardinality, GP!SI!SignInsAssumption, SI!SignInsAssumption,
      GP!SI!vars, SI!vars, GP!SI!Ids, SI!Ids, GP!SI!Kinds, SI!Kinds, GP!SI!NoVisit,
      SI!NoVisit, GP!SI!NoCred, SI!NoCred, GP!SI!NoCall, SI!NoCall, GP!SI!Init, SI!Init,
      GP!SI!Landed, SI!Landed, GP!SI!Holds, SI!Holds, GP!SI!Ends, SI!Ends, GP!SI!SignIn,
      SI!SignIn, GP!SI!Tick, SI!Tick, GP!SI!Takes, SI!Takes, GP!SI!Present, SI!Present,
      GP!SI!Fresh, SI!Fresh, GP!SI!Codes, SI!Codes, GP!SI!UseStep, SI!UseStep, GP!SI!Read,
      SI!Read, GP!SI!StillLive, SI!StillLive, GP!SI!Kind, SI!Kind, GP!SI!Exchange,
      SI!Exchange, GP!SI!Logout, SI!Logout, GP!SI!Next, SI!Next, GP!SI!TypeOK, SI!TypeOK,
      GP!SI!LiveOf, SI!LiveOf, GP!SI!OneLivePerVisit, SI!OneLivePerVisit,
      GP!SI!CodeVerifiesOnce, SI!CodeVerifiesOnce, GP!SI!EndedVisitStays, SI!EndedVisitStays

LEMMA BillingAre ==
    /\ GP!BillingAssumption <=> BI!BillingAssumption
    /\ GP!Init <=> BI!Init
    /\ GP!Next <=> BI!Next
    /\ GP!vars = BI!vars
    /\ GP!TypeOK <=> BI!TypeOK
    /\ GP!OneCustomer <=> BI!OneCustomer
    /\ GP!Converges <=> BI!Converges
BY ZenonT(60) DEF
      GP!IsFiniteSet, BI!IsFiniteSet, GP!Cardinality, BI!Cardinality, GP!BillingAssumption,
      BI!BillingAssumption, GP!vars, BI!vars, GP!Attempts, BI!Attempts, GP!None, BI!None,
      GP!Failed, BI!Failed, GP!Subs, BI!Subs, GP!Events, BI!Events, GP!NoSub, BI!NoSub,
      GP!NoAccount, BI!NoAccount, GP!NoStart, BI!NoStart, GP!NoWork, BI!NoWork, GP!NoEdit,
      BI!NoEdit, GP!Init, BI!Init, GP!Sent, BI!Sent, GP!Holders, BI!Holders, GP!WriteRow,
      BI!WriteRow, GP!WriteColumns, BI!WriteColumns, GP!PutDown, BI!PutDown, GP!Mirrored,
      BI!Mirrored, GP!StartReads, BI!StartReads, GP!Ask, BI!Ask, GP!MovesOn, BI!MovesOn,
      GP!NextAttempt, BI!NextAttempt, GP!StartFails, BI!StartFails, GP!StartNames,
      BI!StartNames, GP!StartEnds, BI!StartEnds, GP!Subscribe, BI!Subscribe, GP!Changed,
      BI!Changed, GP!ProcessorChanges, BI!ProcessorChanges, GP!Take, BI!Take, GP!Fetch,
      BI!Fetch, GP!Follows, BI!Follows, GP!Apply, BI!Apply, GP!ComesBack, BI!ComesBack,
      GP!EditReads, BI!EditReads, GP!EditTells, BI!EditTells, GP!EditWrites, BI!EditWrites,
      GP!EditFails, BI!EditFails, GP!GrantReads, BI!GrantReads, GP!GrantWrites,
      BI!GrantWrites, GP!Next, BI!Next, GP!Row, BI!Row, GP!Sub, BI!Sub, GP!AStart,
      BI!AStart, GP!Work, BI!Work, GP!AnEdit, BI!AnEdit, GP!Grant, BI!Grant, GP!TypeOK,
      BI!TypeOK, GP!OneCustomer, BI!OneCustomer, GP!Converges, BI!Converges

LEMMA SlackAre ==
    /\ GP!SL!SlackAssumption <=> SL!SlackAssumption
    /\ GP!SL!Init <=> SL!Init
    /\ GP!SL!Next <=> SL!Next
    /\ GP!SL!vars = SL!vars
    /\ GP!SL!TypeOK <=> SL!TypeOK
    /\ GP!SL!NewestPairIsKept <=> SL!NewestPairIsKept
BY ZenonT(60) DEF
      GP!SL!IsFiniteSet, SL!IsFiniteSet, GP!SL!SlackAssumption, SL!SlackAssumption,
      GP!SL!vars, SL!vars, GP!SL!Ages, SL!Ages, GP!SL!Idle, SL!Idle, GP!SL!Renewing,
      SL!Renewing, GP!SL!Init, SL!Init, GP!SL!Fault, SL!Fault, GP!SL!Goes, SL!Goes,
      GP!SL!Ends, SL!Ends, GP!SL!StillBared, SL!StillBared, GP!SL!ReadToken, SL!ReadToken,
      GP!SL!MayClaim, SL!MayClaim, GP!SL!Claim, SL!Claim, GP!SL!ReadAgain, SL!ReadAgain,
      GP!SL!Reread, SL!Reread, GP!SL!Refresh, SL!Refresh, GP!SL!Keep, SL!Keep, GP!SL!Settle,
      SL!Settle, GP!SL!Dies, SL!Dies, GP!SL!EditReads, SL!EditReads, GP!SL!EditWrites,
      SL!EditWrites, GP!SL!ClaimLapses, SL!ClaimLapses, GP!SL!Tick, SL!Tick, GP!SL!Next,
      SL!Next, GP!SL!Call, SL!Call, GP!SL!TypeOK, SL!TypeOK, GP!SL!NewestPairIsKept,
      SL!NewestPairIsKept

LEMMA BreakerAre ==
    /\ CP!BR!BreakerAssumption <=> BR!BreakerAssumption
    /\ CP!BR!Init <=> BR!Init
    /\ CP!BR!Next <=> BR!Next
    /\ CP!BR!vars = BR!vars
    /\ CP!BR!TypeOK <=> BR!TypeOK
    /\ CP!BR!ProbeIsAlone <=> BR!ProbeIsAlone
BY ZenonT(60) DEF
      CP!BR!IsFiniteSet, BR!IsFiniteSet, CP!BR!Min, BR!Min, CP!BR!BreakerAssumption,
      BR!BreakerAssumption, CP!BR!vars, BR!vars, CP!BR!Idle, BR!Idle, CP!BR!IsOut, BR!IsOut,
      CP!BR!Init, BR!Init, CP!BR!Event, BR!Event, CP!BR!Allows, BR!Allows, CP!BR!Start,
      BR!Start, CP!BR!Failed, BR!Failed, CP!BR!Succeeded, BR!Succeeded, CP!BR!Return,
      BR!Return, CP!BR!Left, BR!Left, CP!BR!Cancel, BR!Cancel, CP!BR!Deadline, BR!Deadline,
      CP!BR!Tick, BR!Tick, CP!BR!Outage, BR!Outage, CP!BR!Next, BR!Next, CP!BR!TypeOK,
      BR!TypeOK, CP!BR!ProbeIsAlone, BR!ProbeIsAlone

LEMMA CacheAre ==
    /\ CP!RC!ReadCacheAssumption <=> RC!ReadCacheAssumption
    /\ CP!RC!Init <=> RC!Init
    /\ CP!RC!Next <=> RC!Next
    /\ CP!RC!vars = RC!vars
    /\ CP!RC!TypeOK <=> RC!TypeOK
    /\ CP!RC!FreshAfterBump <=> RC!FreshAfterBump
BY ZenonT(60) DEF
      CP!RC!Max, RC!Max, CP!RC!ReadCacheAssumption, RC!ReadCacheAssumption, CP!RC!vars,
      RC!vars, CP!RC!Windows, RC!Windows, CP!RC!Versions, RC!Versions, CP!RC!Keys, RC!Keys,
      CP!RC!NoEntry, RC!NoEntry, CP!RC!NoRead, RC!NoRead, CP!RC!Init, RC!Init, CP!RC!Fault,
      RC!Fault, CP!RC!Commit, RC!Commit, CP!RC!Bump, RC!Bump, CP!RC!BumpIsLost,
      RC!BumpIsLost, CP!RC!Key, RC!Key, CP!RC!Answered, RC!Answered, CP!RC!Begin, RC!Begin,
      CP!RC!ReadGeneration, RC!ReadGeneration, CP!RC!GetEntry, RC!GetEntry, CP!RC!Load,
      RC!Load, CP!RC!Put, RC!Put, CP!RC!Tick, RC!Tick, CP!RC!NewWindow, RC!NewWindow,
      CP!RC!Next, RC!Next, CP!RC!Read, RC!Read, CP!RC!TypeOK, RC!TypeOK,
      CP!RC!FreshAfterBump, RC!FreshAfterBump

LEMMA MediaAre ==
    /\ GP!MD!MediaAssumption <=> MD!MediaAssumption
    /\ GP!MD!Init <=> MD!Init
    /\ GP!MD!Next <=> MD!Next
    /\ GP!MD!vars = MD!vars
    /\ GP!MD!TypeOK <=> MD!TypeOK
    /\ GP!MD!StoreFollowsRows <=> MD!StoreFollowsRows
BY ZenonT(60) DEF
      GP!MD!IsFiniteSet, MD!IsFiniteSet, GP!MD!MediaAssumption, MD!MediaAssumption,
      GP!MD!vars, MD!vars, GP!MD!NoRow, MD!NoRow, GP!MD!NoCall, MD!NoCall, GP!MD!NoSweep,
      MD!NoSweep, GP!MD!Init, MD!Init, GP!MD!Fault, MD!Fault, GP!MD!IsRow, MD!IsRow,
      GP!MD!IsLive, MD!IsLive, GP!MD!Goes, MD!Goes, GP!MD!Ends, MD!Ends, GP!MD!Begins,
      MD!Begins, GP!MD!StartUpload, MD!StartUpload, GP!MD!CreateFile, MD!CreateFile,
      GP!MD!OwnUpload, MD!OwnUpload, GP!MD!AbortOwn, MD!AbortOwn, GP!MD!BeginConfirm,
      MD!BeginConfirm, GP!MD!CompleteUpload, MD!CompleteUpload, GP!MD!Upsert, MD!Upsert,
      GP!MD!ConfirmWrite, MD!ConfirmWrite, GP!MD!BeginDelete, MD!BeginDelete,
      GP!MD!DeleteWrite, MD!DeleteWrite, GP!MD!CallDies, MD!CallDies, GP!MD!Purgeable,
      MD!Purgeable, GP!MD!AfterRead, MD!AfterRead, GP!MD!SweepReads, MD!SweepReads,
      GP!MD!AbortUpload, MD!AbortUpload, GP!MD!RemoveObject, MD!RemoveObject,
      GP!MD!PurgeRow, MD!PurgeRow, GP!MD!SweepFails, MD!SweepFails, GP!MD!Ages, MD!Ages,
      GP!MD!Expire, MD!Expire, GP!MD!LifecycleAborts, MD!LifecycleAborts, GP!MD!Next,
      MD!Next, GP!MD!Row, MD!Row, GP!MD!TypeOK, MD!TypeOK, GP!MD!ObjectIsNamed,
      MD!ObjectIsNamed, GP!MD!UploadStays, MD!UploadStays, GP!MD!StoreFollowsRows,
      MD!StoreFollowsRows

LEMMA ChannelAre ==
    /\ CP!ChannelAssumption <=> CH!ChannelAssumption
    /\ CP!Init <=> CH!Init
    /\ CP!Next <=> CH!Next
    /\ CP!vars = CH!vars
    /\ CP!TypeOK <=> CH!TypeOK
    /\ CP!NothingIsPassed <=> CH!NothingIsPassed
    /\ CP!NoticesAreToldOnce <=> CH!NoticesAreToldOnce
BY ZenonT(60) DEF
      CP!Cardinality, CH!Cardinality, CP!Range, CH!Range, CP!IsInjective, CH!IsInjective,
      CP!Max, CH!Max, CP!Min, CH!Min, CP!SetToSeq, CH!SetToSeq, CP!SetToSeqs, CH!SetToSeqs,
      CP!Seqs, CH!Seqs, CP!ChannelAssumption, CH!ChannelAssumption, CP!vars, CH!vars,
      CP!stream, CH!stream, CP!page, CH!page, CP!Null, CH!Null, CP!NoSocket, CH!NoSocket,
      CP!NoFrames, CH!NoFrames, CP!NoReplay, CH!NoReplay, CP!Init, CH!Init, CP!Event,
      CH!Event, CP!Running, CH!Running, CP!Record, CH!Record, CP!Trim, CH!Trim, CP!Learn,
      CH!Learn, CP!OfferStream, CH!OfferStream, CP!Hear, CH!Hear, CP!OfferControl,
      CH!OfferControl, CP!ReadHead, CH!ReadHead, CP!Subscribe, CH!Subscribe, CP!Knows,
      CH!Knows, CP!Pong, CH!Pong, CP!KnownAges, CH!KnownAges, CP!Enqueue, CH!Enqueue,
      CP!Opens, CH!Opens, CP!Settled, CH!Settled, CP!StaysOpen, CH!StaysOpen, CP!LetsGo,
      CH!LetsGo, CP!Drops, CH!Drops, CP!Reconnect, CH!Reconnect, CP!Poll, CH!Poll, CP!Pause,
      CH!Pause, CP!Show, CH!Show, CP!Stop, CH!Stop, CP!Drain, CH!Drain, CP!Reads, CH!Reads,
      CP!ReadsAll, CH!ReadsAll, CP!Ascending, CH!Ascending, CP!Tells, CH!Tells, CP!Place,
      CH!Place, CP!Apply, CH!Apply, CP!StartReplay, CH!StartReplay, CP!RefreshAll,
      CH!RefreshAll, CP!CanTell, CH!CanTell, CP!FirstCatchUp, CH!FirstCatchUp, CP!RunJob,
      CH!RunJob, CP!EndReplay, CH!EndReplay, CP!ReplayPage, CH!ReplayPage, CP!ReplayFails,
      CH!ReplayFails, CP!Next, CH!Next, CP!Numbers, CH!Numbers, CP!Frame, CH!Frame, CP!Job,
      CH!Job, CP!TypeOK, CH!TypeOK, CP!Overlooked, CH!Overlooked, CP!NothingIsPassed,
      CH!NothingIsPassed, CP!NoticesAreToldOnce, CH!NoticesAreToldOnce

LEMMA TaskCacheAre ==
    /\ CP!TC!TaskCacheAssumption <=> TC!TaskCacheAssumption
    /\ CP!TC!Init <=> TC!Init
    /\ CP!TC!Next <=> TC!Next
    /\ CP!TC!vars = TC!vars
    /\ CP!TC!TypeOK <=> TC!TypeOK
    /\ CP!TC!ListsShowNewest <=> TC!ListsShowNewest
BY ZenonT(60) DEF
      CP!TC!Cardinality, TC!Cardinality, CP!TC!TaskCacheAssumption, TC!TaskCacheAssumption,
      CP!TC!vars, TC!vars, CP!TC!Lists, TC!Lists, CP!TC!Statuses, TC!Statuses, CP!TC!Unread,
      TC!Unread, CP!TC!Gone, TC!Gone, CP!TC!Nothing, TC!Nothing, CP!TC!Unnamed, TC!Unnamed,
      CP!TC!Now, TC!Now, CP!TC!Live, TC!Live, CP!TC!NoWrite, TC!NoWrite, CP!TC!Init,
      TC!Init, CP!TC!Fault, TC!Fault, CP!TC!Fetching, TC!Fetching, CP!TC!HeldAtOrAbove,
      TC!HeldAtOrAbove, CP!TC!Placed, TC!Placed, CP!TC!BeingRead, TC!BeingRead, CP!TC!Write,
      TC!Write, CP!TC!Admits, TC!Admits, CP!TC!PlaceAnswer, TC!PlaceAnswer, CP!TC!Heard,
      TC!Heard, CP!TC!HeardAny, TC!HeardAny, CP!TC!Holds, TC!Holds, CP!TC!Invalidated,
      TC!Invalidated, CP!TC!RefreshLists, TC!RefreshLists, CP!TC!Answers, TC!Answers,
      CP!TC!Lands, TC!Lands, CP!TC!Refetch, TC!Refetch, CP!TC!Gather, TC!Gather, CP!TC!Hint,
      TC!Hint, CP!TC!QuietBut, TC!QuietBut, CP!TC!ReadCollections, TC!ReadCollections,
      CP!TC!Spared, TC!Spared, CP!TC!Flush, TC!Flush, CP!TC!ReadAnswers, TC!ReadAnswers,
      CP!TC!ReadLands, TC!ReadLands, CP!TC!ReadFails, TC!ReadFails, CP!TC!Becomes,
      TC!Becomes, CP!TC!OtherWrites, TC!OtherWrites, CP!TC!Start, TC!Start, CP!TC!Commits,
      TC!Commits, CP!TC!Answered, TC!Answered, CP!TC!Refused, TC!Refused, CP!TC!Next,
      TC!Next, CP!TC!Versions, TC!Versions, CP!TC!Answer, TC!Answer, CP!TC!ListType,
      TC!ListType, CP!TC!ReadType, TC!ReadType, CP!TC!OwnType, TC!OwnType, CP!TC!TypeOK,
      TC!TypeOK, CP!TC!AtRest, TC!AtRest, CP!TC!ListsShowNewest, TC!ListsShowNewest

LEMMA FailingAre ==
    /\ CF!TC!TaskCacheAssumption <=> TF!TaskCacheAssumption
    /\ CF!TC!Init <=> TF!Init
    /\ CF!TC!Next <=> TF!Next
    /\ CF!TC!vars = TF!vars
    /\ CF!TC!TypeOK <=> TF!TypeOK
    /\ CF!TC!ListsShowNewest <=> TF!ListsShowNewest
BY ZenonT(60) DEF
      CF!TC!Cardinality, TF!Cardinality, CF!TC!TaskCacheAssumption, TF!TaskCacheAssumption,
      CF!TC!vars, TF!vars, CF!TC!Lists, TF!Lists, CF!TC!Statuses, TF!Statuses, CF!TC!Unread,
      TF!Unread, CF!TC!Gone, TF!Gone, CF!TC!Nothing, TF!Nothing, CF!TC!Unnamed, TF!Unnamed,
      CF!TC!Now, TF!Now, CF!TC!Live, TF!Live, CF!TC!NoWrite, TF!NoWrite, CF!TC!Init,
      TF!Init, CF!TC!Fault, TF!Fault, CF!TC!Fetching, TF!Fetching, CF!TC!HeldAtOrAbove,
      TF!HeldAtOrAbove, CF!TC!Placed, TF!Placed, CF!TC!BeingRead, TF!BeingRead, CF!TC!Write,
      TF!Write, CF!TC!Admits, TF!Admits, CF!TC!PlaceAnswer, TF!PlaceAnswer, CF!TC!Heard,
      TF!Heard, CF!TC!HeardAny, TF!HeardAny, CF!TC!Holds, TF!Holds, CF!TC!Invalidated,
      TF!Invalidated, CF!TC!RefreshLists, TF!RefreshLists, CF!TC!Answers, TF!Answers,
      CF!TC!Lands, TF!Lands, CF!TC!Refetch, TF!Refetch, CF!TC!Gather, TF!Gather, CF!TC!Hint,
      TF!Hint, CF!TC!QuietBut, TF!QuietBut, CF!TC!ReadCollections, TF!ReadCollections,
      CF!TC!Spared, TF!Spared, CF!TC!Flush, TF!Flush, CF!TC!ReadAnswers, TF!ReadAnswers,
      CF!TC!ReadLands, TF!ReadLands, CF!TC!ReadFails, TF!ReadFails, CF!TC!Becomes,
      TF!Becomes, CF!TC!OtherWrites, TF!OtherWrites, CF!TC!Start, TF!Start, CF!TC!Commits,
      TF!Commits, CF!TC!Answered, TF!Answered, CF!TC!Refused, TF!Refused, CF!TC!Next,
      TF!Next, CF!TC!Versions, TF!Versions, CF!TC!Answer, TF!Answer, CF!TC!ListType,
      TF!ListType, CF!TC!ReadType, TF!ReadType, CF!TC!OwnType, TF!OwnType, CF!TC!TypeOK,
      TF!TypeOK, CF!TC!AtRest, TF!AtRest, CF!TC!ListsShowNewest, TF!ListsShowNewest

LEMMA SocketsAre ==
    /\ GP!SK!SocketsAssumption <=> SK!SocketsAssumption
    /\ GP!SK!Init <=> SK!Init
    /\ GP!SK!Next <=> SK!Next
    /\ GP!SK!vars = SK!vars
    /\ GP!SK!TypeOK <=> SK!TypeOK
    /\ GP!SK!TicketOpensOne <=> SK!TicketOpensOne
    /\ GP!SK!ClosesInTime <=> SK!ClosesInTime
BY ZenonT(60) DEF
      GP!SK!Cardinality, SK!Cardinality, GP!SK!SocketsAssumption, SK!SocketsAssumption,
      GP!SK!vars, SK!vars, GP!SK!authority, SK!authority, GP!SK!Never, SK!Never,
      GP!SK!Whats, SK!Whats, GP!SK!NoSocket, SK!NoSocket, GP!SK!Opening, SK!Opening,
      GP!SK!Checking, SK!Checking, GP!SK!Serving, SK!Serving, GP!SK!Attached, SK!Attached,
      GP!SK!Init, SK!Init, GP!SK!CredentialHolds, SK!CredentialHolds, GP!SK!Allowed,
      SK!Allowed, GP!SK!PrincipalHolds, SK!PrincipalHolds, GP!SK!Refuses, SK!Refuses,
      GP!SK!Closed, SK!Closed, GP!SK!Moves, SK!Moves, GP!SK!Ends, SK!Ends, GP!SK!Redeem,
      SK!Redeem, GP!SK!FindCredential, SK!FindCredential, GP!SK!FindPrincipal,
      SK!FindPrincipal, GP!SK!Starts, SK!Starts, GP!SK!StartCheck, SK!StartCheck,
      GP!SK!CheckCredential, SK!CheckCredential, GP!SK!CheckPrincipal, SK!CheckPrincipal,
      GP!SK!Expire, SK!Expire, GP!SK!Drop, SK!Drop, GP!SK!Losses, SK!Losses, GP!SK!Mark,
      SK!Mark, GP!SK!Revoke, SK!Revoke, GP!SK!ChangeRole, SK!ChangeRole,
      GP!SK!EndMembership, SK!EndMembership, GP!SK!ChangePlan, SK!ChangePlan, GP!SK!Hears,
      SK!Hears, GP!SK!Hear, SK!Hear, GP!SK!Waits, SK!Waits, GP!SK!Tick, SK!Tick, GP!SK!Next,
      SK!Next, GP!SK!Times, SK!Times, GP!SK!TypeOK, SK!TypeOK, GP!SK!TicketOpensOne,
      SK!TicketOpensOne, GP!SK!ClosesInTime, SK!ClosesInTime

LEMMA PartStays == [Next]_v => part' = part
BY DEF Next, v

LEMMA OutboxRuns == Spec => \/ [](part = "outbox") /\ TP!OB!Spec
                           \/ []~(part = "outbox")
<1>1. Init /\ part = "outbox" => TP!OB!Init
  BY OutboxAre DEF Init
<1>2. /\ [Next]_v /\ part = "outbox" => [TP!OB!Next]_(TP!OB!vars) /\ (part = "outbox")'
      /\ [Next]_v /\ ~(part = "outbox") => ~(part = "outbox")'
  BY PartStays, OutboxAre DEF Next, v, TP!OB!vars
<1> QED BY <1>1, <1>2, PTL DEF Spec, TP!OB!Spec

LEMMA OutboxHolds ==
    Spec => [](part = "outbox" => OB!TypeOK /\ OB!DoneMeansTold /\ OB!HeldHasHolder)
<1>1. TP!OB!OutboxAssumption
  BY OutboxAre, DomainAssumption
<1>2. /\ TP!OB!Spec => []TP!OB!TypeOK
      /\ TP!OB!Spec => [](TP!OB!DoneMeansTold /\ TP!OB!HeldHasHolder)
  BY <1>1, TP!OutboxTyped, TP!RelayHolds
<1>3. TP!OB!TypeOK /\ TP!OB!DoneMeansTold /\ TP!OB!HeldHasHolder
        => OB!TypeOK /\ OB!DoneMeansTold /\ OB!HeldHasHolder
  BY OutboxAre
<1> QED BY <1>2, <1>3, OutboxRuns, PTL

LEMMA ImportsRuns == Spec => \/ [](part = "imports") /\ TP!Spec
                            \/ []~(part = "imports")
<1>1. Init /\ part = "imports" => TP!Init
  BY ImportsAre DEF Init
<1>2. /\ [Next]_v /\ part = "imports" => [TP!Next]_(TP!vars) /\ (part = "imports")'
      /\ [Next]_v /\ ~(part = "imports") => ~(part = "imports")'
  BY PartStays, ImportsAre DEF Next, v, TP!vars, TP!left
<1> QED BY <1>1, <1>2, PTL DEF Spec, TP!Spec

LEMMA ImportsHolds ==
    Spec => [](part = "imports" => IM!TypeOK /\ IM!RowsLandOnce /\ IM!RecordIsCarried)
<1>1. TP!ImportsAssumption
  BY ImportsAre, DomainAssumption
<1>2. /\ TP!Spec => []TP!IInv
      /\ TP!Spec => []TP!RowsLandOnce
      /\ TP!Spec => []TP!RecordIsCarried
  BY <1>1, TP!ImportsInvariant, TP!RowsHold, TP!CarriedHolds
<1>3. TP!IInv /\ TP!RowsLandOnce /\ TP!RecordIsCarried
        => IM!TypeOK /\ IM!RowsLandOnce /\ IM!RecordIsCarried
  BY ImportsAre DEF TP!IInv
<1> QED BY <1>2, <1>3, ImportsRuns, PTL

LEMMA ListRuns == Spec => \/ [](part = "list") /\ TP!TL!Spec
                         \/ []~(part = "list")
<1>1. Init /\ part = "list" => TP!TL!Init
  BY ListAre DEF Init
<1>2. /\ [Next]_v /\ part = "list" => [TP!TL!Next]_(TP!TL!vars) /\ (part = "list")'
      /\ [Next]_v /\ ~(part = "list") => ~(part = "list")'
  BY PartStays, ListAre DEF Next, v, TP!TL!vars
<1> QED BY <1>1, <1>2, PTL DEF Spec, TP!TL!Spec

LEMMA ListHolds == Spec => [](part = "list" => TL!TypeOK)
<1>1. TP!TL!TaskListAssumption /\ TP!TL!RanksAssumption
  BY ListAre, DomainAssumption
<1>2. TP!TL!Spec => []TP!TL!IInv
  BY <1>1, TP!TaskListInvariant
<1>3. TP!TL!IInv
        => TL!TypeOK
  BY ListAre DEF TP!TL!IInv
<1> QED BY <1>2, <1>3, ListRuns, PTL

LEMMA RemindersRuns == Spec => \/ [](part = "reminders") /\ TP!RM!Spec
                              \/ []~(part = "reminders")
<1>1. Init /\ part = "reminders" => TP!RM!Init
  BY RemindersAre DEF Init
<1>2. /\ [Next]_v /\ part = "reminders" => [TP!RM!Next]_(TP!RM!vars) /\ (part = "reminders")'
      /\ [Next]_v /\ ~(part = "reminders") => ~(part = "reminders")'
  BY PartStays, RemindersAre DEF Next, v, TP!RM!vars
<1> QED BY <1>1, <1>2, PTL DEF Spec, TP!RM!Spec

LEMMA RemindersHolds == Spec => [](part = "reminders" => RM!TypeOK /\ RM!ReminderKept)
<1>1. TP!RM!RemindersAssumption
  BY RemindersAre, DomainAssumption
<1>2. /\ TP!RM!Spec => []TP!RM!IInv
      /\ TP!RM!Spec => []TP!RM!ReminderKept
  BY <1>1, TP!RemindersInvariant, TP!RemindersHold
<1>3. TP!RM!IInv /\ TP!RM!ReminderKept
        => RM!TypeOK /\ RM!ReminderKept
  BY RemindersAre DEF TP!RM!IInv
<1> QED BY <1>2, <1>3, RemindersRuns, PTL

LEMMA MembersRuns == Spec => \/ [](part = "members") /\ GP!MB!Spec
                            \/ []~(part = "members")
<1>1. Init /\ part = "members" => GP!MB!Init
  BY MembersAre DEF Init
<1>2. /\ [Next]_v /\ part = "members" => [GP!MB!Next]_(GP!MB!vars) /\ (part = "members")'
      /\ [Next]_v /\ ~(part = "members") => ~(part = "members")'
  BY PartStays, MembersAre DEF Next, v, GP!MB!vars
<1> QED BY <1>1, <1>2, PTL DEF Spec, GP!MB!Spec

LEMMA MembersHolds == Spec => [](part = "members" => MB!TypeOK)
<1>1. GP!MB!MembersAssumption
  BY MembersAre, DomainAssumption
<1>2. GP!MB!Spec => []GP!MB!IInv
  BY <1>1, GP!MembersInvariant
<1>3. GP!MB!IInv
        => MB!TypeOK
  BY MembersAre DEF GP!MB!IInv
<1> QED BY <1>2, <1>3, MembersRuns, PTL

LEMMA SignInsRuns == Spec => \/ [](part = "sign-ins") /\ GP!SI!Spec
                            \/ []~(part = "sign-ins")
<1>1. Init /\ part = "sign-ins" => GP!SI!Init
  BY SignInsAre DEF Init
<1>2. /\ [Next]_v /\ part = "sign-ins" => [GP!SI!Next]_(GP!SI!vars) /\ (part = "sign-ins")'
      /\ [Next]_v /\ ~(part = "sign-ins") => ~(part = "sign-ins")'
  BY PartStays, SignInsAre DEF Next, v, GP!SI!vars
<1> QED BY <1>1, <1>2, PTL DEF Spec, GP!SI!Spec

LEMMA SignInsHolds ==
    Spec => [](part = "sign-ins" => SI!TypeOK /\ SI!OneLivePerVisit /\ SI!CodeVerifiesOnce)
<1>1. GP!SI!SignInsAssumption
  BY SignInsAre, DomainAssumption
<1>2. /\ GP!SI!Spec => []GP!SI!IInv
      /\ GP!SI!Spec => [](GP!SI!OneLivePerVisit /\ GP!SI!CodeVerifiesOnce)
  BY <1>1, GP!SignInsInvariant, GP!UsedOnceHolds
<1>3. GP!SI!IInv /\ GP!SI!OneLivePerVisit /\ GP!SI!CodeVerifiesOnce
        => SI!TypeOK /\ SI!OneLivePerVisit /\ SI!CodeVerifiesOnce
  BY SignInsAre DEF GP!SI!IInv
<1> QED BY <1>2, <1>3, SignInsRuns, PTL

LEMMA BillingRuns == Spec => \/ [](part = "billing") /\ GP!Spec
                            \/ []~(part = "billing")
<1>1. Init /\ part = "billing" => GP!Init
  BY BillingAre DEF Init
<1>2. /\ [Next]_v /\ part = "billing" => [GP!Next]_(GP!vars) /\ (part = "billing")'
      /\ [Next]_v /\ ~(part = "billing") => ~(part = "billing")'
  BY PartStays, BillingAre DEF Next, v, GP!vars
<1> QED BY <1>1, <1>2, PTL DEF Spec, GP!Spec

LEMMA BillingHolds ==
    Spec => [](part = "billing" => BI!TypeOK /\ BI!OneCustomer /\ BI!Converges)
<1>1. GP!BillingAssumption
  BY BillingAre, DomainAssumption
<1>2. /\ GP!Spec => []GP!IInv
      /\ GP!Spec => []GP!OneCustomer
      /\ GP!Spec => []GP!Converges
  BY <1>1, GP!BillingInvariant, GP!OneCustomerHolds, GP!ConvergesHold
<1>3. GP!IInv /\ GP!OneCustomer /\ GP!Converges
        => BI!TypeOK /\ BI!OneCustomer /\ BI!Converges
  BY BillingAre DEF GP!IInv
<1> QED BY <1>2, <1>3, BillingRuns, PTL

LEMMA SlackRuns == Spec => \/ [](part = "slack") /\ GP!SL!Spec
                          \/ []~(part = "slack")
<1>1. Init /\ part = "slack" => GP!SL!Init
  BY SlackAre DEF Init
<1>2. /\ [Next]_v /\ part = "slack" => [GP!SL!Next]_(GP!SL!vars) /\ (part = "slack")'
      /\ [Next]_v /\ ~(part = "slack") => ~(part = "slack")'
  BY PartStays, SlackAre DEF Next, v, GP!SL!vars
<1> QED BY <1>1, <1>2, PTL DEF Spec, GP!SL!Spec

LEMMA SlackHolds == Spec => [](part = "slack" => SL!TypeOK /\ SL!NewestPairIsKept)
<1>1. GP!SL!SlackAssumption
  BY SlackAre, DomainAssumption
<1>2. /\ GP!SL!Spec => []GP!SL!IInv
      /\ GP!SL!Spec => []GP!SL!NewestPairIsKept
  BY <1>1, GP!SlackInvariant, GP!NewestPairHolds
<1>3. GP!SL!IInv /\ GP!SL!NewestPairIsKept
        => SL!TypeOK /\ SL!NewestPairIsKept
  BY SlackAre DEF GP!SL!IInv
<1> QED BY <1>2, <1>3, SlackRuns, PTL

LEMMA BreakerRuns == Spec => \/ [](part = "breaker") /\ CP!BR!Spec
                            \/ []~(part = "breaker")
<1>1. Init /\ part = "breaker" => CP!BR!Init
  BY BreakerAre DEF Init
<1>2. /\ [Next]_v /\ part = "breaker" => [CP!BR!Next]_(CP!BR!vars) /\ (part = "breaker")'
      /\ [Next]_v /\ ~(part = "breaker") => ~(part = "breaker")'
  BY PartStays, BreakerAre DEF Next, v, CP!BR!vars
<1> QED BY <1>1, <1>2, PTL DEF Spec, CP!BR!Spec

LEMMA BreakerHolds == Spec => [](part = "breaker" => BR!TypeOK /\ BR!ProbeIsAlone)
<1>1. CP!BR!BreakerAssumption
  BY BreakerAre, DomainAssumption
<1>2. /\ CP!BR!Spec => []CP!BR!IInv
      /\ CP!BR!Spec => []CP!BR!ProbeIsAlone
  BY <1>1, CP!BreakerInvariant, CP!ProbeGoesAlone
<1>3. CP!BR!IInv /\ CP!BR!ProbeIsAlone
        => BR!TypeOK /\ BR!ProbeIsAlone
  BY BreakerAre DEF CP!BR!IInv
<1> QED BY <1>2, <1>3, BreakerRuns, PTL

LEMMA CacheRuns == Spec => \/ [](part = "cache") /\ CP!RC!Spec
                          \/ []~(part = "cache")
<1>1. Init /\ part = "cache" => CP!RC!Init
  BY CacheAre DEF Init
<1>2. /\ [Next]_v /\ part = "cache" => [CP!RC!Next]_(CP!RC!vars) /\ (part = "cache")'
      /\ [Next]_v /\ ~(part = "cache") => ~(part = "cache")'
  BY PartStays, CacheAre DEF Next, v, CP!RC!vars
<1> QED BY <1>1, <1>2, PTL DEF Spec, CP!RC!Spec

LEMMA CacheHolds == Spec => [](part = "cache" => RC!TypeOK /\ RC!FreshAfterBump)
<1>1. CP!RC!ReadCacheAssumption
  BY CacheAre, DomainAssumption
<1>2. /\ CP!RC!Spec => []CP!RC!IInv
      /\ CP!RC!Spec => []CP!RC!FreshAfterBump
  BY <1>1, CP!ReadCacheInvariant, CP!ReadsAreFresh
<1>3. CP!RC!IInv /\ CP!RC!FreshAfterBump
        => RC!TypeOK /\ RC!FreshAfterBump
  BY CacheAre DEF CP!RC!IInv
<1> QED BY <1>2, <1>3, CacheRuns, PTL

LEMMA MediaRuns == Spec => \/ [](part = "media") /\ GP!MD!Spec
                          \/ []~(part = "media")
<1>1. Init /\ part = "media" => GP!MD!Init
  BY MediaAre DEF Init
<1>2. /\ [Next]_v /\ part = "media" => [GP!MD!Next]_(GP!MD!vars) /\ (part = "media")'
      /\ [Next]_v /\ ~(part = "media") => ~(part = "media")'
  BY PartStays, MediaAre DEF Next, v, GP!MD!vars
<1> QED BY <1>1, <1>2, PTL DEF Spec, GP!MD!Spec

LEMMA MediaHolds == Spec => [](part = "media" => MD!TypeOK /\ MD!StoreFollowsRows)
<1>1. GP!MD!MediaAssumption
  BY MediaAre, DomainAssumption
<1>2. /\ GP!MD!Spec => []GP!MD!IInv
      /\ GP!MD!Spec => []GP!MD!StoreFollowsRows
  BY <1>1, GP!MediaInvariant, GP!StoreFollows
<1>3. GP!MD!IInv /\ GP!MD!StoreFollowsRows
        => MD!TypeOK /\ MD!StoreFollowsRows
  BY MediaAre DEF GP!MD!IInv, GP!MD!Kept
<1> QED BY <1>2, <1>3, MediaRuns, PTL

LEMMA ChannelRuns == Spec => \/ [](part = "channel") /\ CP!Spec
                            \/ []~(part = "channel")
<1>1. Init /\ part = "channel" => CP!Init
  BY ChannelAre DEF Init
<1>2. /\ [Next]_v /\ part = "channel" => [CP!Next]_(CP!vars) /\ (part = "channel")'
      /\ [Next]_v /\ ~(part = "channel") => ~(part = "channel")'
  BY PartStays, ChannelAre DEF Next, v, CP!vars
<1> QED BY <1>1, <1>2, PTL DEF Spec, CP!Spec

LEMMA ChannelHolds == Spec => [](part = "channel" => CH!TypeOK)
<1>1. CP!ChannelAssumption
  BY ChannelAre, DomainAssumption
<1>2. CP!Spec => []CP!IInv
  BY <1>1, CP!ChannelInvariant
<1>3. CP!IInv
        => CH!TypeOK
  BY ChannelAre DEF CP!IInv
<1> QED BY <1>2, <1>3, ChannelRuns, PTL

LEMMA TaskCacheRuns == Spec => \/ [](part = "taskCache") /\ CP!TC!Spec
                              \/ []~(part = "taskCache")
<1>1. Init /\ part = "taskCache" => CP!TC!Init
  BY TaskCacheAre DEF Init
<1>2. /\ [Next]_v /\ part = "taskCache" => [CP!TC!Next]_(CP!TC!vars) /\ (part = "taskCache")'
      /\ [Next]_v /\ ~(part = "taskCache") => ~(part = "taskCache")'
  BY PartStays, TaskCacheAre DEF Next, v, CP!TC!vars
<1> QED BY <1>1, <1>2, PTL DEF Spec, CP!TC!Spec

LEMMA TaskCacheHolds ==
    Spec => [](part = "taskCache" => TC!TypeOK /\ TC!ListsShowNewest)
<1>1. CP!TC!TaskCacheAssumption
  BY TaskCacheAre, DomainAssumption
<1>2. /\ CP!TC!Spec => []CP!TC!IInv
      /\ CP!TC!Spec => []CP!TC!ListsShowNewest
  BY <1>1, CP!TaskCacheInvariant, CP!ListsShowHolds
<1>3. CP!TC!IInv /\ CP!TC!ListsShowNewest
        => TC!TypeOK /\ TC!ListsShowNewest
  BY TaskCacheAre DEF CP!TC!IInv
<1> QED BY <1>2, <1>3, TaskCacheRuns, PTL

LEMMA FailingRuns == Spec => \/ [](part = "failing") /\ CF!TC!Spec
                            \/ []~(part = "failing")
<1>1. Init /\ part = "failing" => CF!TC!Init
  BY FailingAre DEF Init
<1>2. /\ [Next]_v /\ part = "failing" => [CF!TC!Next]_(CF!TC!vars) /\ (part = "failing")'
      /\ [Next]_v /\ ~(part = "failing") => ~(part = "failing")'
  BY PartStays, FailingAre DEF Next, v, CF!TC!vars
<1> QED BY <1>1, <1>2, PTL DEF Spec, CF!TC!Spec

LEMMA FailingHolds == Spec => [](part = "failing" => TF!TypeOK /\ TF!ListsShowNewest)
<1>1. CF!TC!TaskCacheAssumption
  BY FailingAre, DomainAssumption
<1>2. /\ CF!TC!Spec => []CF!TC!IInv
      /\ CF!TC!Spec => []CF!TC!ListsShowNewest
  BY <1>1, CF!TaskCacheInvariant, CF!ListsShowHolds
<1>3. CF!TC!IInv /\ CF!TC!ListsShowNewest
        => TF!TypeOK /\ TF!ListsShowNewest
  BY FailingAre DEF CF!TC!IInv
<1> QED BY <1>2, <1>3, FailingRuns, PTL

LEMMA SocketsRuns == Spec => \/ [](part = "sockets") /\ GP!SK!Spec
                            \/ []~(part = "sockets")
<1>1. Init /\ part = "sockets" => GP!SK!Init
  BY SocketsAre DEF Init
<1>2. /\ [Next]_v /\ part = "sockets" => [GP!SK!Next]_(GP!SK!vars) /\ (part = "sockets")'
      /\ [Next]_v /\ ~(part = "sockets") => ~(part = "sockets")'
  BY PartStays, SocketsAre DEF Next, v, GP!SK!vars
<1> QED BY <1>1, <1>2, PTL DEF Spec, GP!SK!Spec

LEMMA SocketsHolds ==
    Spec => [](part = "sockets" => SK!TypeOK /\ SK!TicketOpensOne /\ SK!ClosesInTime)
<1>1. GP!SK!SocketsAssumption
  BY SocketsAre, DomainAssumption
<1>2. /\ GP!SK!Spec => []GP!SK!IInv
      /\ GP!SK!Spec => [](GP!SK!TicketOpensOne /\ GP!SK!ClosesInTime)
  BY <1>1, GP!SocketsInvariant, GP!ClosesHold
<1>3. GP!SK!IInv /\ GP!SK!TicketOpensOne /\ GP!SK!ClosesInTime
        => SK!TypeOK /\ SK!TicketOpensOne /\ SK!ClosesInTime
  BY SocketsAre DEF GP!SK!IInv
<1> QED BY <1>2, <1>3, SocketsRuns, PTL

-----------------------------------------------------------------------------
\* A relayed row is told of before it is done, and a held row has a request that
\* will let it go (relay.py hold, release, abandon; _deliver_all).
THEOREM RelayIsKept == Spec => []RelayKept
<1>1. (part = "outbox" => OB!TypeOK /\ OB!DoneMeansTold /\ OB!HeldHasHolder) => RelayKept
  BY DEF RelayKept
<1> QED BY <1>1, OutboxHolds, PTL

\* A file's rows land once each and in order (step_import, create_tasks_in_step).
THEOREM RowsLand == Spec => []RowsLandOnce
<1>1. (part = "imports" => IM!TypeOK /\ IM!RowsLandOnce /\ IM!RecordIsCarried) => RowsLandOnce
  BY DEF RowsLandOnce
<1> QED BY <1>1, ImportsHolds, PTL

\* An import that runs has an item that will step it, but for one whose item's last
\* attempt died, and a parked one is woken, but for one whose step read the plan
\* before it rose and parked after the wake went by (start, resume, wake_all).
THEOREM RecordsAreCarried == Spec => []RecordIsCarried
<1>1. (part = "imports" => IM!TypeOK /\ IM!RowsLandOnce /\ IM!RecordIsCarried) => RecordIsCarried
  BY DEF RecordIsCarried
<1> QED BY <1>1, ImportsHolds, PTL

\* A due date is told of once, and one not told of has an item that will ask by its
\* person's morning (update_task, get_due_reminder, mark_reminded).
THEOREM RemindersAreKept == Spec => []ReminderKept
<1>1. (part = "reminders" => RM!TypeOK /\ RM!ReminderKept) => ReminderKept
  BY DEF ReminderKept
<1> QED BY <1>1, RemindersHolds, PTL

\* One visit has one live credential and one code verifies one sign-in
\* (exchange_sign_in, replace_auth_session, use_totp_step).
THEOREM VisitsAreUsedOnce == Spec => []UsedOnce
<1>1. (part = "sign-ins" => SI!TypeOK /\ SI!OneLivePerVisit /\ SI!CodeVerifiesOnce) => UsedOnce
  BY DEF UsedOnce
<1> QED BY <1>1, SignInsHolds, PTL

\* The payment processor makes one customer for an org (customer_key).
THEOREM OneCustomerIsMade == Spec => []OneCustomer
<1>1. (part = "billing" => BI!TypeOK /\ BI!OneCustomer /\ BI!Converges) => OneCustomer
  BY DEF OneCustomer
<1> QED BY <1>1, BillingHolds, PTL

\* Once every delivery was handled the account mirrors the subscription
\* (apply_delivery, _follows).
THEOREM AccountConverges == Spec => []Converges
<1>1. (part = "billing" => BI!TypeOK /\ BI!OneCustomer /\ BI!Converges) => Converges
  BY DEF Converges
<1> QED BY <1>1, BillingHolds, PTL

\* The pair of tokens issued last is stored, or with the caller that will store it,
\* and it is the one a renewal presents, but where a write of the whole row took the
\* claim off a renewal (bot_token, bind_channel, mark_broken).
THEOREM NewestPairsAreKept == Spec => []NewestPairIsKept
<1>1. (part = "slack" => SL!TypeOK /\ SL!NewestPairIsKept) => NewestPairIsKept
  BY DEF NewestPairIsKept
<1> QED BY <1>1, SlackHolds, PTL

\* A half-open breaker lets one call through (allows, measured).
THEOREM ProbesAreAlone == Spec => []ProbeIsAlone
<1>1. (part = "breaker" => BR!TypeOK /\ BR!ProbeIsAlone) => ProbeIsAlone
  BY DEF ProbeIsAlone
<1> QED BY <1>1, BreakerHolds, PTL

\* A read that begins after a write's bump never answers what was before it
\* (ReadCache.read, bump).
THEOREM ReadsAreFresh == Spec => []FreshAfterBump
<1>1. (part = "cache" => RC!TypeOK /\ RC!FreshAfterBump) => FreshAfterBump
  BY DEF FreshAfterBump
<1> QED BY <1>1, CacheHolds, PTL

\* An object in the store has a row a sweep will find it by (create_file,
\* confirm_file, _remove_object).
THEOREM StoresFollowRows == Spec => []StoreFollowsRows
<1>1. (part = "media" => MD!TypeOK /\ MD!StoreFollowsRows) => StoreFollowsRows
  BY DEF StoreFollowsRows
<1> QED BY <1>1, MediaHolds, PTL

\* A ticket opens one socket, and a socket is closed within an interval of the end
\* of its authority (redeem_socket_ticket, recheck_until_refused).
THEOREM SocketsAreClosed == Spec => []SocketsClose
<1>1. (part = "sockets" => SK!TypeOK /\ SK!TicketOpensOne /\ SK!ClosesInTime) => SocketsClose
  BY DEF SocketsClose
<1> QED BY <1>1, SocketsHolds, PTL

\* The tab's cursor passes no change its page has not read, but for what the first
\* catch-up overlooks, and each notice is told once (channel.ts apply, replay).
THEOREM TabsKeepUp == Spec => []TabKeepsUp
<1>1. CP!ChannelAssumption
  BY ChannelAre, DomainAssumption
<1>2. /\ CP!Spec => []CP!NothingIsPassed
      /\ CP!Spec => []CP!NoticesAreToldOnce
  BY <1>1, CP!NothingIsPassedHolds, CP!NoticesHold
<1>3. /\ part = "channel" /\ CP!NothingIsPassed /\ CP!NoticesAreToldOnce => TabKeepsUp
      /\ ~(part = "channel") => TabKeepsUp
  BY ChannelAre DEF TabKeepsUp
<1> QED BY <1>2, <1>3, ChannelRuns, PTL

\* Once nothing is on its way to the tab its lists show the newest version of a task,
\* but for one whose news an older answer crossed (taskCache.ts, ledger.ts, hints.ts).
THEOREM ListsAreShown == Spec => []ListsShowNewest
<1>1. /\ Spec => [](part = "taskCache" => TC!TypeOK /\ TC!ListsShowNewest)
      /\ Spec => [](part = "failing" => TF!TypeOK /\ TF!ListsShowNewest)
  BY TaskCacheHolds, FailingHolds
<1>2. /\ part = "taskCache" => TC!TypeOK /\ TC!ListsShowNewest
      /\ part = "failing" => TF!TypeOK /\ TF!ListsShowNewest
      => ListsShowNewest
  BY DEF ListsShowNewest
<1> QED BY <1>1, <1>2, PTL

\* A respace changes the order of no two tasks that stayed where they were
\* (respace_ranks).
THEOREM RespacesKeepOrder == Spec => RespaceKeepsOrder
<1>1. TP!TL!TaskListAssumption /\ TP!TL!RanksAssumption
  BY ListAre, DomainAssumption
<1>2. TP!TL!Spec => [][TP!TL!RespaceKeepsOrder]_(TP!TL!vars)
  BY <1>1, TP!RespaceKeepsTheOrder
<1>3. /\ [Next]_v /\ part = "list" /\ [TP!TL!RespaceKeepsOrder]_(TP!TL!vars)
            => [part = "list" => TL!RespaceKeepsOrder]_v
      /\ ~(part = "list") => [part = "list" => TL!RespaceKeepsOrder]_v
  <2>1. ASSUME Next, part = "list", UNCHANGED TP!TL!vars PROVE v' = v
    BY <2>1 DEF Next, TP!TL!vars, v, From5
  <2> QED BY <2>1, ListAre
<1> QED BY <1>2, <1>3, ListRuns, PTL DEF Spec, RespaceKeepsOrder

\* An org nobody closed keeps an owner, but for a call that what it goes by is no
\* longer so for (members.py, delete_account, delete_person).
THEOREM OwnersStay == Spec => OwnerStays
<1>1. GP!MB!MembersAssumption
  BY MembersAre, DomainAssumption
<1>2. GP!MB!Spec => [][GP!MB!OwnerStays]_(GP!MB!vars)
  BY <1>1, GP!OwnerHolds
<1>3. /\ [Next]_v /\ part = "members" /\ [GP!MB!OwnerStays]_(GP!MB!vars)
            => [part = "members" => MB!OwnerStays]_v
      /\ ~(part = "members") => [part = "members" => MB!OwnerStays]_v
  <2>1. ASSUME Next, part = "members", UNCHANGED GP!MB!vars PROVE v' = v
    BY <2>1 DEF Next, GP!MB!vars, v, From6
  <2> QED BY <2>1, MembersAre
<1> QED BY <1>2, <1>3, MembersRuns, PTL DEF Spec, OwnerStays

\* A settled orchestration and an ended visit stay so (cas_statement,
\* exchange_sign_in, logout).
THEOREM EndedOnesStay == Spec => EndedStays
<1>1. TP!ImportsAssumption /\ GP!SI!SignInsAssumption
  BY ImportsAre, SignInsAre, DomainAssumption
<1>2. TP!Spec => [][TP!EndedStays]_(TP!vars)
  BY <1>1, TP!EndedHolds
<1>3. GP!SI!Spec => [][GP!SI!EndedVisitStays]_(GP!SI!vars)
  BY <1>1, GP!EndedHolds
<1> DEFINE Stays == /\ part = "imports" => IM!EndedStays
                    /\ part = "sign-ins" => SI!EndedVisitStays
<1>4. [Next]_v /\ part = "imports" /\ [TP!EndedStays]_(TP!vars) => [Stays]_v
  <2>1. ASSUME Next, part = "imports", UNCHANGED TP!vars PROVE v' = v
    BY <2>1 DEF Next, TP!vars, TP!left, v, From12
  <2> QED BY <2>1, ImportsAre
<1>5. [Next]_v /\ part = "sign-ins" /\ [GP!SI!EndedVisitStays]_(GP!SI!vars) => [Stays]_v
  <2>1. ASSUME Next, part = "sign-ins", UNCHANGED GP!SI!vars PROVE v' = v
    BY <2>1 DEF Next, GP!SI!vars, v, From7
  <2> QED BY <2>1, SignInsAre
<1>6. ~(part = "imports") /\ ~(part = "sign-ins") => [Stays]_v
  OBVIOUS
<1> HIDE DEF Stays
<1>7. Spec => [][Stays]_v
  BY <1>2, <1>3, <1>4, <1>5, <1>6, ImportsRuns, SignInsRuns, PTL DEF Spec
<1> QED BY <1>7 DEF Stays, EndedStays

-----------------------------------------------------------------------------
(* The types.                                                              *)

Parts ==
    {"outbox", "imports", "list", "reminders", "members", "sign-ins",
     "billing", "slack", "breaker", "cache", "media", "channel",
     "taskCache", "failing", "sockets"}

\* The variables hold what they may, and the attempts of a row in the outbox stay
\* within its bound (claim_pending, record_failure).
THEOREM TypesHold == Spec => []TypesOK
<1> DEFINE First ==
             /\ part = "outbox" => OB!TypeOK
             /\ part = "imports" => IM!TypeOK
             /\ part = "list" => TL!TypeOK
             /\ part = "reminders" => RM!TypeOK
             /\ part = "members" => MB!TypeOK
             /\ part = "sign-ins" => SI!TypeOK
             /\ part = "billing" => BI!TypeOK
           Second ==
             /\ part = "slack" => SL!TypeOK
             /\ part = "breaker" => BR!TypeOK
             /\ part = "cache" => RC!TypeOK
             /\ part = "media" => MD!TypeOK
             /\ part = "channel" => CH!TypeOK
             /\ part = "taskCache" => TC!TypeOK
             /\ part = "failing" => TF!TypeOK
             /\ part = "sockets" => SK!TypeOK
<1>1. Spec => []First
  BY OutboxHolds, ImportsHolds, ListHolds, RemindersHolds, MembersHolds, SignInsHolds, BillingHolds, PTL
<1>2. Spec => []Second
  BY SlackHolds, BreakerHolds, CacheHolds, MediaHolds, ChannelHolds, TaskCacheHolds, FailingHolds, SocketsHolds, PTL
<1>3. Spec => [](part \in Parts)
  <2>1. Init => part \in Parts
    BY DEF Init, Parts
  <2>2. part \in Parts /\ [Next]_v => (part \in Parts)'
    BY PartStays
  <2> QED BY <2>1, <2>2, PTL DEF Spec
<1>4. First /\ Second /\ part \in Parts => TypesOK
  <2> SUFFICES ASSUME First, Second, part \in Parts PROVE TypesOK
    OBVIOUS
  <2>1. CASE part = "outbox"
    BY <2>1 DEF TypesOK
  <2>2. CASE part = "imports"
    BY <2>2 DEF TypesOK
  <2>3. CASE part = "list"
    BY <2>3 DEF TypesOK
  <2>4. CASE part = "reminders"
    BY <2>4 DEF TypesOK
  <2>5. CASE part = "members"
    BY <2>5 DEF TypesOK
  <2>6. CASE part = "sign-ins"
    BY <2>6 DEF TypesOK
  <2>7. CASE part = "billing"
    BY <2>7 DEF TypesOK
  <2>8. CASE part = "slack"
    BY <2>8 DEF TypesOK
  <2>9. CASE part = "breaker"
    BY <2>9 DEF TypesOK
  <2>10. CASE part = "cache"
    BY <2>10 DEF TypesOK
  <2>11. CASE part = "media"
    BY <2>11 DEF TypesOK
  <2>12. CASE part = "channel"
    BY <2>12 DEF TypesOK
  <2>13. CASE part = "taskCache"
    BY <2>13 DEF TypesOK
  <2>14. CASE part = "failing"
    BY <2>14 DEF TypesOK
  <2>15. CASE part = "sockets"
    BY <2>15 DEF TypesOK
  <2> QED BY <2>1, <2>2, <2>3, <2>4, <2>5, <2>6, <2>7, <2>8, <2>9, <2>10, <2>11, <2>12, <2>13, <2>14,
            <2>15 DEF Parts
<1> HIDE DEF First, Second
<1> QED BY <1>1, <1>2, <1>3, <1>4, PTL
=============================================================================
