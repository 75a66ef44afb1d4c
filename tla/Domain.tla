------------------------------- MODULE Domain -------------------------------
(***************************************************************************)
(* The parts of the domain that are modelled each in a module of its own   *)
(* and share no state, in one specification.  A behaviour is one of one of *)
(* them: `part` says of which, and v1, v2, ... stand for its variables.    *)
(***************************************************************************)
EXTENDS Integers, FiniteSets

\* What parts have alike: calls, the runs of the sweep, and the attempts of an item.
CONSTANTS Calls, Sweeps, MaxAttempts

\* Bounds that parts have each of its own, as functions from the names of the parts.
CONSTANTS MaxEvents, MaxFaults, MaxNow, MaxVersion

\* The outbox.
CONSTANTS Rows, WorkRows, Requests, RequestOf, Hands, MaxHolders, Limit, Grace, Wait, Cap

\* The imports.
CONSTANTS Files, RowCount, BadRows, Batch, FreeBound, WakeBatch

\* The open list.
CONSTANTS Base, Digits, Tasks, FirstRanks, Bound, Short, Reach, MaxWrites

\* The reminders.
CONSTANTS Assignees, Dates, LagOf, MaxItems, Editors, Runners

\* The members and the sign-ins.
CONSTANTS People, Founder, MaxCalls, Visits, MaxCreds, MaxStep, Window

\* The account and the token.
CONSTANTS Checkouts, Workers, MaxChanges, MaxGrants, Callers, MaxPairs

\* The breaker, the cache and the files.
CONSTANTS Guarded, Failures, Cooldown, Slow, Lag, Readers, MaxWindow, Ttl, MaxUploads

\* The tab, its lists, and its sockets.
CONSTANTS MaxSeq, KeyOf, Recents, Notices, PageSize, Lane, MaxInbox, MaxReads
CONSTANTS Openers, SocketKinds, TicketTtl, Expiry, Interval, Delay

VARIABLES part, v1, v2, v3, v4, v5, v6, v7, v8, v9, v10, v11, v12, v13, v14

v == <<part, v1, v2, v3, v4, v5, v6, v7, v8, v9, v10, v11, v12, v13, v14>>

-----------------------------------------------------------------------------
OB == INSTANCE Outbox WITH
    Base <- Wait, MaxFaults <- MaxFaults["outbox"],
    rows <- v1, holds <- v2, relays <- v3, told <- v4, stream <- v5, queued <- v6,
    named <- v7, faults <- v8

IM == INSTANCE Imports WITH
    Imports <- Files, MaxEvents <- MaxEvents["imports"],
    record <- v1, tasks <- v2, open <- v3, stored <- v4, items <- v5, wakes <- v6,
    plan <- v7, stale <- v8, stranded <- v9, overlooked <- v10, events <- v11

TL == INSTANCE TaskList WITH
    Calls <- Editors,
    tasks <- v1, calls <- v2, sweep <- v3, placed <- v4

RM == INSTANCE Reminders WITH
    People <- Assignees, MaxNow <- MaxNow["reminders"],
    MaxVersion <- MaxVersion["reminders"], MaxFaults <- MaxFaults["reminders"],
    task <- v1, items <- v2, queued <- v3, now <- v4, edits <- v5, runs <- v6,
    faults <- v7, told <- v8, missed <- v9

MB == INSTANCE Members WITH
    org <- v1, user <- v2, member <- v3, calls <- v4, asked <- v5

SI == INSTANCE SignIns WITH
    creds <- v1, made <- v2, visited <- v3, now <- v4, lastStep <- v5, calls <- v6

BI == INSTANCE Billing WITH
    Starts <- Checkouts,
    MaxFaults <- MaxFaults["billing"],
    account <- v1, answers <- v2, customers <- v3, subs <- v4, sessions <- v5, marks <- v6,
    done <- v7, starts <- v8, workers <- v9, editor <- v10, grants <- v11, faults <- v12,
    stale <- v13, overtaken <- v14

SL == INSTANCE Slack WITH
    MaxFaults <- MaxFaults["slack"],
    claimed <- v1, broken <- v2, stored <- v3, age <- v4, issued <- v5, callers <- v6,
    lost <- v7, bared <- v8, faults <- v9

BR == INSTANCE Breaker WITH
    Calls <- Guarded, MaxEvents <- MaxEvents["breaker"],
    consecutive <- v1, opened <- v2, since <- v3, probing <- v4, out <- v5, up <- v6,
    events <- v7

RC == INSTANCE ReadCache WITH
    MaxVersion <- MaxVersion["cache"], MaxFaults <- MaxFaults["cache"],
    source <- v1, unbumped <- v2, bumped <- v3, window <- v4, counts <- v5, entries <- v6,
    readers <- v7, faults <- v8

MD == INSTANCE Media WITH
    MaxFaults <- MaxFaults["media"],
    row <- v1, aged <- v2, uploads <- v3, made <- v4, object <- v5, expired <- v6,
    calls <- v7, sweeps <- v8, faults <- v9

CH == INSTANCE Channel WITH
    MaxEvents <- MaxEvents["channel"],
    head <- v1, floor <- v2, recent <- v3, hints <- v4, server <- v5, lanes <- v6,
    tab <- v7, cursor <- v8, inbox <- v9, replay <- v10, seen <- v11, told <- v12,
    jumped <- v13, events <- v14

TC == INSTANCE TaskCache WITH
    MaxVersion <- MaxVersion["taskCache"], MaxFaults <- MaxFaults["taskCache"],
    history <- v1, pushed <- v2, lists <- v3, heard <- v4, clock <- v5, pending <- v6,
    gathered <- v7, reads <- v8, own <- v9, crossed <- v10, faults <- v11

\* The same lists with other bounds.
TF == INSTANCE TaskCache WITH
    MaxVersion <- MaxVersion["failing"],
    MaxFaults <- MaxFaults["failing"],
    history <- v1, pushed <- v2, lists <- v3, heard <- v4, clock <- v5, pending <- v6,
    gathered <- v7, reads <- v8, own <- v9, crossed <- v10, faults <- v11

SK == INSTANCE Sockets WITH
    Kinds <- SocketKinds,
    MaxNow <- MaxNow["sockets"],
    kind <- v1, redeemed <- v2, live <- v3, member <- v4, plan <- v5, bus <- v6,
    sockets <- v7, now <- v8

ASSUME DomainAssumption ==
    /\ OB!OutboxAssumption /\ IM!ImportsAssumption /\ TL!RanksAssumption
    /\ TL!TaskListAssumption /\ RM!RemindersAssumption /\ MB!MembersAssumption
    /\ SI!SignInsAssumption /\ BI!BillingAssumption /\ SL!SlackAssumption
    /\ BR!BreakerAssumption /\ RC!ReadCacheAssumption
    /\ MD!MediaAssumption /\ CH!ChannelAssumption
    /\ TC!TaskCacheAssumption /\ TF!TaskCacheAssumption
    /\ SK!SocketsAssumption

-----------------------------------------------------------------------------
\* The variables a part leaves.
From5 == <<v5, v6, v7, v8, v9, v10, v11, v12, v13, v14>>
From6 == <<v6, v7, v8, v9, v10, v11, v12, v13, v14>>
From7 == <<v7, v8, v9, v10, v11, v12, v13, v14>>
From8 == <<v8, v9, v10, v11, v12, v13, v14>>
From9 == <<v9, v10, v11, v12, v13, v14>>
From10 == <<v10, v11, v12, v13, v14>>
From11 == <<v11, v12, v13, v14>>
From12 == <<v12, v13, v14>>

Zero12 == v12 = 0 /\ v13 = 0 /\ v14 = 0
Zero11 == v11 = 0 /\ Zero12
Zero10 == v10 = 0 /\ Zero11
Zero9 == v9 = 0 /\ Zero10
Zero8 == v8 = 0 /\ Zero9
Zero7 == v7 = 0 /\ Zero8
Zero6 == v6 = 0 /\ Zero7
Zero5 == v5 = 0 /\ Zero6

Init ==
    \/ part = "outbox" /\ OB!Init /\ Zero9
    \/ part = "imports" /\ IM!Init /\ Zero12
    \/ part = "list" /\ TL!Init /\ Zero5
    \/ part = "reminders" /\ RM!Init /\ Zero10
    \/ part = "members" /\ MB!Init /\ Zero6
    \/ part = "sign-ins" /\ SI!Init /\ Zero7
    \/ part = "billing" /\ BI!Init
    \/ part = "slack" /\ SL!Init /\ Zero10
    \/ part = "breaker" /\ BR!Init /\ Zero8
    \/ part = "cache" /\ RC!Init /\ Zero9
    \/ part = "media" /\ MD!Init /\ Zero10
    \/ part = "channel" /\ CH!Init
    \/ part = "taskCache" /\ TC!Init /\ Zero12
    \/ part = "failing" /\ TF!Init /\ Zero12
    \/ part = "sockets" /\ SK!Init /\ Zero9

Next ==
    /\ UNCHANGED part
    /\ \/ part = "outbox" /\ OB!Next /\ UNCHANGED From9
       \/ part = "imports" /\ IM!Next /\ UNCHANGED From12
       \/ part = "list" /\ TL!Next /\ UNCHANGED From5
       \/ part = "reminders" /\ RM!Next /\ UNCHANGED From10
       \/ part = "members" /\ MB!Next /\ UNCHANGED From6
       \/ part = "sign-ins" /\ SI!Next /\ UNCHANGED From7
       \/ part = "billing" /\ BI!Next
       \/ part = "slack" /\ SL!Next /\ UNCHANGED From10
       \/ part = "breaker" /\ BR!Next /\ UNCHANGED From8
       \/ part = "cache" /\ RC!Next /\ UNCHANGED From9
       \/ part = "media" /\ MD!Next /\ UNCHANGED From10
       \/ part = "channel" /\ CH!Next
       \/ part = "taskCache" /\ TC!Next /\ UNCHANGED From12
       \/ part = "failing" /\ TF!Next /\ UNCHANGED From12
       \/ part = "sockets" /\ SK!Next /\ UNCHANGED From9

Spec == Init /\ [][Next]_v

-----------------------------------------------------------------------------
\* The values each part's variables may take.
TypesOK ==
    CASE part = "outbox" -> OB!TypeOK
      [] part = "imports" -> IM!TypeOK
      [] part = "list" -> TL!TypeOK
      [] part = "reminders" -> RM!TypeOK
      [] part = "members" -> MB!TypeOK
      [] part = "sign-ins" -> SI!TypeOK
      [] part = "billing" -> BI!TypeOK
      [] part = "slack" -> SL!TypeOK
      [] part = "breaker" -> BR!TypeOK
      [] part = "cache" -> RC!TypeOK
      [] part = "media" -> MD!TypeOK
      [] part = "channel" -> CH!TypeOK
      [] part = "taskCache" -> TC!TypeOK
      [] part = "failing" -> TF!TypeOK
      [] part = "sockets" -> SK!TypeOK

\* Rows a request holds back for its answer have a holder that will let them go,
\* and a row that is done was told to everyone it is for, whichever of the tasks
\* that relayed it marked it (the relay's hold, release and abandon; the sweep).
RelayKept == part = "outbox" => OB!HeldHasHolder /\ OB!DoneMeansTold

\* A file's rows land once each and in order, whichever steps die, are run again
\* or are run twice at once (step_import, create_tasks_in_step).
RowsLandOnce == part = "imports" => IM!RowsLandOnce

\* An import that runs has an item that will step it, unless a worker died on the
\* item's last attempt; and one that is parked for room is woken when the plan has
\* it, unless it parked after the wake went by (start, resume, wake_all).
RecordIsCarried == part = "imports" => IM!RecordIsCarried

\* A due date is told of once, and an open task that was not told of has an item
\* that asks by its person's morning (update_task, get_due_reminder,
\* mark_reminded).
ReminderKept == part = "reminders" => RM!ReminderKept

\* One visit has one live credential at a time, however many calls present it,
\* and one code of the second factor verifies one sign-in (exchange_sign_in,
\* replace_auth_session, use_totp_step).
UsedOnce == part = "sign-ins" => SI!OneLivePerVisit /\ SI!CodeVerifiesOnce

\* The payment processor makes one customer for an org, whatever checkouts race,
\* fail or go unanswered (customer_key, _next_customer_attempt).
OneCustomer == part = "billing" => BI!OneCustomer

\* Once every delivery was handled, in any order and any number of times, the
\* account mirrors the subscription at the processor (apply_delivery, _follows).
Converges == part = "billing" => BI!Converges

\* The pair of tokens Slack issued last is in the store, or with the caller that
\* is about to keep it, and a spent token is presented only where a write of the
\* whole row took the claim off a renewal (bot_token, bind_channel, mark_broken).
NewestPairIsKept == part = "slack" => SL!NewestPairIsKept

\* A half-open breaker lets one call through, and while its slot is taken that
\* call is out (allows, measured).
ProbeIsAlone == part = "breaker" => BR!ProbeIsAlone

\* A read that begins after a write's bump never answers what was there before,
\* whatever another read puts late (ReadCache.read, bump).
FreshAfterBump == part = "cache" => RC!FreshAfterBump

\* An object in the store has a row a sweep will find it by, and a file that may
\* still be finished has its upload (create_file, confirm_file, _remove_object).
StoreFollowsRows == part = "media" => MD!StoreFollowsRows

\* The tab's cursor passes no change its page has not read, but for what the first
\* catch-up overlooks, and each notice it passes is told once and in order
\* (channel.ts apply, replay, firstCatchUp; tailSince).
TabKeepsUp == part = "channel" => CH!NothingIsPassed /\ CH!NoticesAreToldOnce

\* Once nothing is on its way to the tab, its lists show the newest version of a
\* task where it belongs, whatever answered late, but for one whose news an older
\* answer crossed (taskCache.ts, ledger.ts, hints.ts).
ListsShowNewest ==
    /\ part = "taskCache" => TC!ListsShowNewest
    /\ part = "failing" => TF!ListsShowNewest

\* A ticket opens one socket, and a socket whose authority ended is closed within
\* an interval of the recheck, though the bus tells nobody (redeem_socket_ticket,
\* recheck_until_refused).
SocketsClose == part = "sockets" => SK!TicketOpensOne /\ SK!ClosesInTime

\* A respace changes the order of no two tasks that stayed where they were while
\* it read and wrote, and moves none it did not read (respace_ranks).
RespaceKeepsOrder == [][part = "list" => TL!RespaceKeepsOrder]_v

\* An org nobody closed keeps an owner, but for a call that what it goes by is no
\* longer so for: of two owners who leave at once the second is refused
\* (delete_account, delete_person).
OwnerStays == [][part = "members" => MB!OwnerStays]_v

\* What ended stays so: an orchestration's record that settled, whatever writes
\* cross it (cas_statement), and a visit whose last credential ended, whatever
\* calls still hold it (exchange_sign_in, logout).
EndedStays ==
    [][/\ part = "imports" => IM!EndedStays
       /\ part = "sign-ins" => SI!EndedVisitStays]_v
=============================================================================
