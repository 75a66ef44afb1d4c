# A TLA+ model of tadas

tadas is a multi-tenant task service: an API, a portal and a command line over
one PostgreSQL database, and maintenance workers that do what a request must not
wait for. Its own logic is what keeps those processes honest with each other and
with the providers they call: the work queue, the outbox that carries a committed
change to readers, the numbered stream those readers follow and the tab that
follows it, the leases by which one holder at a time uses a resource, the keys by
which a request sent again is carried out once, and the records that mirror a
payment processor, a bot's token or an object in a bucket. This directory models
that logic from the source, checks it with TLC on small instances, and proves the
safety of eight of its parts with TLAPS for every size. `PROJECT.json` maps each
definition to the lines it stands for, and lists the hazards the properties are
about.

Paths below are relative to `src/om/src/tadas/om/` unless they start with `src/`.

## Inventory

| Component | State it keeps | Operations | What is hard | What makes it correct | Module |
|---|---|---|---|---|---|
| work queue (`work/`), worker loop (`src/workers/maintenance/.../loop.py`) | `work_items`: status, claim token, lease, attempts, available time; `tenant_caps`; a worker's claims and renewals | enqueue, claim, settle, hand back, extend, sweep, purge, operator's requeue and caps | settles, renewals and sweeps race; a process dies with a claim; two clocks | one handler per item inside its lease; attempts neither lost nor added; each item ends | WorkQueue |
| outbox (`outbox/`) | `outbox_rows`: done, failed, attempts, next attempt; holds in memory | hold, release, abandon, sweep, mark, fail, purge | request and sweep relay one row at once; a crash after the commit | done means told; everything written settles | Outbox |
| change events (`change_events/`) | `change_events` numbered per tenant; a cursor of head and floor | append, read a page, trim, purge | statements read a snapshot, then wait for a lock; conflicts retry | no hole above the floor; no reader misses an event | ChangeEvents, Stream |
| API's sockets (`src/services/api/.../realtime/`, `services/impl/realtime.py`) | send buffers, a head per process, a socket's credential and rights | redeem a ticket, attach, push, answer a ping, recheck, close | a push is dropped; a right ends during a read | a ticket opens one socket; a socket whose rights ended is closed in bounded time | Channel, Sockets |
| portal (`src/apps/portal/src/realtime/`, `queries/`) | a cursor, an inbox, a replay; the cached lists with their ledger | connect, ping, replay, resync, pause; place a task, refetch, write | everything that answers late | the cursor passes nothing unread; the lists end at the newest version | Channel, TaskCache |
| leases (`leases/`) | the anchor of a resource (token, lease, held until), requests, leases, a rank order | ask, offer, grant, renew, start, release, revoke, cancel, reorder, update, sweep | everything read is stale by the write; holders' clocks | one holder acts at a time; the line moves; a parked orchestration is told | Leases |
| idempotency (`idempotency/`, the gateway's run) | a marker per user and key: attempt, released, outcome | begin, re-arm, take over, finish, release, purge | the first attempt still runs when a retry takes over | one attempt's outcome is kept and told to all | Idempotency |
| orchestrations (`orchestrations/`), imports (`tasks/impl/imports.py`) | a versioned record: step, park, cancel asked; the tasks it made | start, step, park, wake, cancel, fail, resume, purge | every write is a compare-and-set; a step dies or runs twice | rows land once; terminal is final; whatever runs is carried on | Imports |
| tasks (`tasks/`) | tasks with a version, a rank and a due date; reminders queued | edit, reorder, respace, remind | a respace's run and a reminder's date change under it | the order is kept; a due date is told once | TaskList, Ranks, Reminders |
| tenancy (`tenancy/`) | orgs, users, memberships, credentials, codes | sign in, exchange, switch, sign out, invite, accept, remove, close | two owners leave at once; one code or session presented twice | an org keeps an owner; a visit has one live credential; what ended stays so | Members, SignIns, Idempotency |
| billing (`billing/`) | an account that mirrors a subscription, delivery marks, a customer key | checkout, handle a delivery, grant, the plan's wakes | deliveries repeat and come out of order; a call goes unanswered | one customer per org; the mirror is right once all is handled | Billing, Imports |
| slack (`slack/`) | a bot's pair of tokens, a claim on its renewal | renew, edit, uninstall | two workers renew at once; a pair is lost with its answer | the newest pair is the one in store | Slack |
| media (`media/`) | a row per file; uploads and objects in the bucket | start, confirm, delete, purge | row and store share no transaction | no object without a row; no live file loses its upload | Media |
| infra adapters (`src/infra/`) | a breaker's count and probe; cache entries and windows | allow and measure; read through, bump | probes cross; a value is put late | one probe at a time, and the breaker closes in the end; no read is staler than a bump | Breaker, ReadCache |
| routers, command line, clients, libraries, deployment | none of their own | | | | not modelled |

They meet like this. A request commits its rows and its outbox rows in one
transaction; its answer goes out and the relay tells each row: a change goes to
the **change events** and then to the bus, from which the API's sockets push it to
the tabs; a `work.<kind>` row becomes an item of the **work queue**. A worker claims
items, runs their handlers and sweeps: stale claims back to the queue, rows the
request left to the relay, old events out of the stream, lapsed leases to an end.
An import is a kind of **orchestration**, whose steps are work items; one parks for
room under the org's plan and **billing** wakes it, another asks for a **lease**,
parks on the request and is woken as it settles.

## The modules

The modules of one table or record have its columns as variables or as fields of
one; what a process holds between two steps (a row it read, a claim, an answer)
is a function of its own, over a set of callers, and its `pc` says where in the
code it is. A statement is one step, with the condition of its UPDATE; what was
read before it is another.

**WorkQueue** — the queue of one lane and its workers. `items` and `ownCap` are
the two tables; `runs` is what each slot of a worker holds: the claimed copy,
the time left to its fence (`left`), a renewal read and not yet written
(`renewal`), a settled row on its way (`moved`). A claim is three steps as in
the code: what its statement reads (`ClaimStart`), what it writes
(`ClaimNext`), and the org's read after it (`ServiceContext`), where a deleted
org fails the item. Settling is a read (`BeginTransition`) and a conditional
write (`SettleWrite`); naming a dead letter is a third. `Sweep` is
`requeue_stale`, staggered per tenant; `Crash`, `ClaimFails`, `SweepFails` and
`Stall` are what goes wrong. Time is relative: each timestamp is kept as its
distance from now, and `Tick` moves all of them.

**ChangeEvents** — one tenant's stream. A statement in PostgreSQL reads its
snapshot, waits for the cursor's row and then writes, so the append is
`AppendReads`, `AppendReserves` and `AppendCommits`, with `AppendRollsBack`,
`AppendRaises` and `AppendReadsBack` for a primary key that another append took.
The trim reads, then locks or skips; the reader's page and the cursor's row
are two statements of one transaction that see different commits.

**Stream** — what the stream promises: batches join at the top, a trim takes
from the bottom, no event enters twice. ChangeEvents implements it
(`ImplementsStream`), with the stored events in the order of their numbers
as the log.

**Outbox** — the rows of one tenant, the holds of a request id (which two
requests may share), the tasks that relay after an answer, and the sweeps. One
shape of task serves both: it appends, publishes, enqueues and marks, a batch
or one row at a time. What the tables of the other modules took is kept as sets
(`stream`, `told`, `queued`): an append and an enqueue are idempotent on the
row's id, which ChangeEvents and WorkQueue show.

**Leases** — the anchors, the requests, the one line of an org, the leases, the
holders (`acting` is a holder's deadline on its own clock, which lets it run
`Skew` longer), and the calls in progress. Each storage call locks the row
and checks again, so it is one step; what a manager read before it is a step of
its own, and `calls` keeps it. An offer reads the anchor, the line and the
clock, decides, grants, and reads again if it lost. `undercut` is no column: it
records whose lease fell short of what its holder was told.

**Idempotency** — one key of one user, the record under it (`marker`), and the
requests sent with it (`runs`), each at the point of the gateway's `run` and of
the create of an API key that its `pc` names. The re-mint of the secret reads the
marker in its statement's snapshot and then locks the key's row, so it is two steps
(`ReMintReads`, `ReMintLands`). An attempt is a number, minted in order; the target
of the create carries the number of the attempt that wrote the marker, and a secret
that of the attempt that issued it. A `Fault` is a crash, a failed handler, or a
take-over of a request that still works.

**Imports** — the orchestration's record with the import as its kind: `record` is
the row with its version, `items` the work items that step it (a step reads the
record, the plan, which a cache may have as it was (`stale`), and the count of open
tasks, and commits by a compare-and-set; its item may die at any attempt, be requeued
or run beside another), `tasks` what it created, `open` and `plan` the room there is,
`wakes` the deliveries that tell parked imports of more. Each step writes its tasks
and its cursor in one transaction. `stranded` and `overlooked` record which versions of
a record a death and a late park left behind.

**Ranks**, **TaskList** — the open list. Ranks is the arithmetic of rank texts as
fractions (between, after, the length that asks for a respace); TaskList the edits
that place a task, and `respace_ranks` in its four reads and its write. What a read
with a limit finds of a side is a set, the places with fewer than `Reach` of that side
ahead of them (`Ahead`, `Nearest`), and the n-th place of a run is the one with n - 1
of it before (`Nth`): the order is in the places, not in how they are listed.

**Reminders** — one task with a due date and the people whose zones decide its
morning: the edits that queue an item, the items as they come due, are parked for a
later morning, ask again (`get_due_reminder`) and mark.

**Members** — one team org: users and memberships with their roles, and the calls
that add a person, accept an invitation, change a role, remove a member, delete an
account and close the org, each as it is authenticated, reads and then writes under
the storage's conditions.

**SignIns** — the credentials of one person: the sign-in a visit to the provider
leaves, the second factor's codes, its exchange for a session or an operator's token,
the switch of a session and the sign-out. A credential is replaced in one
conditional write.

**Billing** — one org's account against the processor: checkouts that name the org
(`customer_key`), subscriptions that change and the deliveries that tell of it,
kept, repeated and overtaken; the worker that handles them; and an operator's grant,
which writes the whole row.

**Slack** — a bot's pair of tokens in the secret store, and the claim on its renewal
in the installation's row: the claim, the second read, the refresh at Slack, which
voids the pair before, the write of the new one, and the settling. The row's other
writers, `bind_channel`, `bot_joined` and `mark_broken`, read the row and write it whole at any
time, the claim as they read it with it; `bared` records that such a write took the
claim off a renewal that still goes on.

**Media** — one file: its row, the uploads and the object, the requests that start,
confirm and delete it, the sweeps that abort, remove and purge. Each call to the
store is a step, and each may fail or go unanswered.

**Breaker** — the breaker of one dependency and the calls out through it, with time
in steps. **ReadCache** — the generations of a key, its windows and the readers that
load and put.

**Channel** — one tab on one socket: the server's head, its send buffer (`lanes`)
and the hello, push and pong it carries, the tab's inbox, its replay pages, the
first catch-up and the resync, drops and pauses; `recent` is the records made since
the page began to read, wherever the stream has them, and `seen` those whose change it
has read. **TaskCache** — one task in the tab's cached lists: the
hints that gather, the reads they start, placements, first fetches and refetches,
and an own write's answer; `crossed` is the last version whose only news an older answer
crossed. **Sockets** — a socket's authority: one ticket and all
who present it, what the openings and the rechecks read, and what changes meanwhile.

`WorkQueueProofs`, `LeasesProofs` and `IdempotencyProofs` hold the theorems about the
module each names, `EventsProofs` those about ChangeEvents, `TasksProofs` those about
Imports, Reminders, TaskList and Outbox, `OrgsProofs` those about Billing, Slack, Media,
Sockets, Members and SignIns, and `CallersProofs` those about Channel, TaskCache, Breaker
and ReadCache. A proof module extends one of its components and names an instance of
each other.

`Domain` puts the modules that share no state beside each other, each instantiated over
the same few variables (`v1` to `v14`; `part` says whose they are): a behaviour is one of one
part, so a run costs the sum of the parts and not their product, and a property of a part names
it. TaskCache is there twice, once with more versions and once with a failure.
`DomainProofs` brings the theorems about the parts to Domain's own properties.
`MCWorkQueue`, `MCChangeEvents`, `MCOutbox`, `MCLeases` and `MCDomain` give TLC values and
symmetry. `MCLive` does as Domain does for three liveness properties.

In each module the `Mut...` operators are plausible mistakes in the code, kept
beside the definition they change. Putting one in place of its definition makes
the property named in `PROJECT.json` fail, so each property is known to depend on
the code it is about.

## What the runs show

| Run | Checks | Shows |
|---|---|---|
| work_queue | `RunnerHoldsItem`, `AttemptsAgree`, `TokenPassesThroughQueue` | A handler inside its fence holds the row; no attempt is lost or added by parks, stops, crashes and requeues; a claim passes on only through the queue, a late settle or renewal changes nothing, and done stays done. |
| work_live | `EveryItemSettles` | Each item ends, with crashes at any point. |
| stream | `GaplessAboveFloor`, `AnswersAgree`, `ReaderMissesNothing`, `ImplementsStream` | Numbers above the floor have no hole; two appends of one event answer one number; a page with a hole is never given out; statement by statement, the storage implements the abstract stream. |
| leases | `AnchorAgrees`, `ActsUnderLease`, `SettledIsFinal`, `GrantsFit` | The anchor names the one active lease; whoever acts, on a clock as slow as the margin allows, still holds it, but for a lease that was cut short of what its holder was told; a request that two resources may serve is granted once; a grant fits the labels and the bound of its moment. |
| leases_live | `ParkedStillWaits`, `LineMoves`, `ParkedIsTold` | A park never lands on a settled request, a parked orchestration is told, through crashes of the call that should have told it, and a free resource is not left before its line. |
| idempotency | `OneCreate`, `RecordedSecretWorks`, `AnswersAgree`, `RetriesAreAnswered` | However a request crashes, fails or is taken over while it works, one key is created for each record; the secret that the record says was issued opens it; those told of one record are told one outcome; who sends again until answered is answered. |
| domain | one property or two for each of its parts, below | The promise of each part, on an instance of its own. |
| live | `EveryRowSettles`, `Recovers`, `CatchesUp` | Each of two outbox rows ends, with the sweep dying anywhere and with a batch that fails in part; a breaker whose dependency is back closes for good; a tab that stays has the whole stream, whatever was lost. |

The parts of **domain**:

| Part | Property | What it says |
|---|---|---|
| outbox | `RelayKept` | A held row has a task that will let it go; a row that is done reached the stream and the bus, or the queue. |
| imports | `RowsLandOnce`, `RecordIsCarried`, `EndedStays` | Each row of a file up to the cursor made one task or was skipped, however often a step ran; a running record has an item that will step it, unless a worker died on the item's last attempt, and one parked for room is woken when the plan has room, unless its step read the plan before it rose and parked after the wake; a record that ended changes no more, and nothing is made for it. |
| list | `RespaceKeepsOrder` | A respace changes the order of no two tasks that stayed where they were while it read and wrote, and moves none it did not read. |
| reminders | `ReminderKept` | A due date is told once, and an open task that was not told has an item that asks by its person's morning. |
| members | `OwnerStays` | A step takes the last owner from an org nobody closed only if what its call goes by is no longer so: the author's role, the other's, or the leaver's own. |
| sign-ins | `UsedOnce`, `EndedStays` | One visit has one live credential, one code verifies one sign-in, and a visit whose last credential ended has none again. |
| billing | `OneCustomer`, `Converges` | The processor makes one customer for an org; once every delivery was handled, in any order and any number of times, the account mirrors the subscription. |
| slack | `NewestPairIsKept` | The pair Slack issued last is in the store, or with the caller about to keep it, or went with a lost answer, whatever writes of the row cross a renewal; and a spent token is presented only while a renewal goes on that such a write took the claim off. |
| breaker | `ProbeIsAlone` | A half-open breaker lets one call through, and its slot is taken only while that call is out. |
| cache | `FreshAfterBump` | A read that begins after a write's bump never answers what was there before. |
| media | `StoreFollowsRows` | An object has a row a sweep will find it by; a file that may still be finished has its upload. |
| channel | `TabKeepsUp` | The cursor passes no change the page has not read, but for what the first catch-up overlooks before a tail of which one record is older than the page, and each notice it passes is told once. |
| task cache (twice: three versions, and two with a failure) | `ListsShowNewest` | Once nothing is on its way, the list a task belongs in shows its newest version, and a task of neither list is in none, but for a version whose only news an older answer crossed. |
| sockets | `SocketsClose` | A ticket opens one socket; a socket whose credential, rights or plan ended is closed within an interval of the recheck and the time to open and to check, though the bus tells nobody, and sooner where an account's change was heard. |

`TypesOK` is the type invariant of all of them.

Four runs end in a violation, each of something the repository says of itself:

* **work_dead_letter** (`DeadLetterNamed`, `MaxFaults = 0`). `work/README.md:78`
  promises that an item which fails for good is named in its org's stream, and
  `work/impl/manager.py:465` that only a crash can lose the entry. The renewal
  task is still alive while the handler writes the failed row; its next renewal
  finds the row no longer claimed, takes that for a lost lease and cancels the
  handler, whose audit append is in flight.
* **outbox_dead_letter** (`FailedForGood`, `MaxFaults = 0`). `record_failure`
  writes `failed_at` as it is given, and an attempt that is not the last gives
  `None`. A sweep slower than its backoff takes back what a later attempt of
  another sweep wrote, and the dead letter is pending again, past its attempts
  (`outbox/README.md:27`, `outbox/impl/relay.py:291`).
* **leases_lapse** (`ExpiredIsLapsed`, `MaxMoves = 0`). An offer that read a lapsed
  lease ends it with no condition on its expiry, where the sweep has one. The
  start of its job may have landed since with a full term, and is ended as
  expired (`leases/types/lease.py:19`, `leases/README.md:85`). It is one of the two
  ways into `undercut`, which `ActsUnderLease` excepts.
* **idempotency_remint** (`RecordedSecretWorks`, `Overtaking = TRUE`). The storage's
  contract (`tenancy/storage/__init__.py:569`) and
  `src/docs/adr/0014-the-re-mint-reads-the-idempotency-marker.md:15` say that a
  re-mint lands only while its attempt holds the marker. Its `EXISTS` is read in
  the snapshot the statement began with, and locks nothing of the marker: one that
  began before the take-over and gets the key's row after the retry's re-mint and
  finish replaces the secret the marker has recorded. For that reason the passing
  run and the theorem about the secret keep a take-over out of the re-mint's
  statement (`Overtaking = FALSE`), which a deadline of milliseconds against a
  token's minutes makes rare and not impossible.

### What the code also does

Where the passing runs contain a step that breaks what one would like to say, the
property excepts what that step did and nothing more; without the exception TLC prints
a counterexample in seconds.

* **Leases**: a lease may fall short of what its holder was told (`undercut`). Two
  renewals of different lengths, because the owner lowered the bound between them or
  the lengths were asked for, may land in either order, and so may two whose
  clocks were read in the other order; the shorter lands last, cuts the row,
  and its answer may be lost. Thirty seconds of margin cover clocks and delays
  (`leases/impl/manager.py:72-74`, `leases/README.md:85`), not a term of days cut to minutes while
  a holder acts on the days. The other way is the violation above. From then the holder may act
  beside another until its own clock says stop or it renews.
* **Members**: two owners who demote or remove each other at once leave the org
  without one, and so does an owner who leaves as the other is demoted; only an owner's own
  leaving counts the owners under a lock (`tenancy/rules.py:376-382` speaks of all
  three, and its `closed_org` says that a team org never loses its last owner, which
  `NeverOwnerless` states and the code breaks). A member may also land in an org
  that was closed after the call read it, which the comment of the closing write and
  ADR 0042 exclude, and a role change may put back the membership of a user deleted
  meanwhile, which then counts as a seat.
* **Imports**: an import that reads the plan before it rises and parks after the wake
  passed it stays parked until somebody resumes it (`overlooked`;
  `billing/README.md:41-44`, `tasks/impl/imports.py:134,165`), and so does one that
  reads a plan its process has cached. A worker that dies on an item's last attempt
  leaves the record running with nothing to step it (`stranded`;
  `src/workers/maintenance/.../orchestrations.py:12-16`): the dead letter's handler runs
  for a raise and not for a death.
* **Slack**: a write of the installation's whole row that was read before a claim
  takes the claim off, and two renew at once (`bared`): one is refused for a spent
  token and breaks the installation, though `slack/impl/manager.py:282-284` says that a
  spent token is never presented. The pair itself is in the secret store, which no
  such write touches, so the newest pair is kept all the same. An uninstall that races
  a renewal leaves the secret in the store.
* **Channel**: where one record of the tail was made before the page began to read,
  and the outbox's sweep relayed it late, the first catch-up takes the tail to reach
  back far enough, and overlooks the newer ones before it (`Overlooked`).
  `stream.ts:71-74` says the tail cannot tell if its first record is already that
  recent; the code asks whether all of them are.
* **TaskCache**: a refetch that joins a list's first fetch, a refetch of the lists
  while another answer is on its way, and the late answer of an own write after a
  deletion may leave a version that was superseded or bring back a task that was gone,
  until the next news or refetch (`crossed`; `hints.ts:83-99`, `taskCache.ts:181-183`, against
  `taskCache.ts:7-11`). `InOneList` does not hold of the code either:
  a placement leaves an older copy in the other list where a newer is shown
  (`taskPlacement.ts:142,206`, against `taskCache.ts:33,130-134`).
* **Billing**: two overlapping writes of the whole row may leave the mirror wrong
  for good, or lose a grant or the customer's name; `Converges` excepts them
  (`overtaken`) where ADR 0031:37-41 does not.
* **ReadCache**: a get of the generation that fails leaves a reader without it, and it
  may serve what it would for generation zero after a bump (ADR 0066:88);
  `FreshAfterBump` is of readers whose get answered.
* **Reminders**: a task that was done when its item ran and is reopened before the
  morning is not reminded; a zone moved while an item is parked is reminded at the old
  zone's morning, where ADR 0034 says otherwise. `ReminderKept` is of zones
  that stay.
* **TaskList**: a task that is placed into the run between the respace's read and
  its write may change sides with its neighbours (ADR 0050); `RespaceKeepsOrder` is of tasks that stay.
* **SignIns**: a sign-out that races a switch leaves the new session live.
* **Breaker**: a call that was out when the breaker opened and returns in time
  closes it early.
* **Media**: a confirm that crosses a sweep of the same file may leave a stored row
  whose object is gone, or write the row again; `media/README.md` says a row is stored
  once its object is in the store.
* A late `mark_done` can follow the final failure of an outbox row, which then is both
  done and failed; `EveryRowSettles` counts it as settled.

## Bounds, and why they are enough

* **WorkQueue**: two slots are needed for an item to pass from one to another,
  and three claims of it for a stale one to meet a third. Two items of one tenant
  meet a cap: the lane's is one and the tenant's own, set during the
  run (and cleared in work_live), is two. The lease (4) with its renewal ratio (1), fence (2), slowest claim
  (1) and clock skew (1) is the shortest that meets `TimingAssumption` and lets a
  renewal be refused, late, or unanswered up to the fence. `MaxFaults` bounds
  crashes, failed calls, stops, parks, stalls and the operator. `Retention` and
  `AgeBound` bound how old a row looks; in work_queue `AgeBound` is zero, and rows
  that are ready may be claimed in any order, in work_live the older is first.
* **Idempotency**: two requests make a take-over of one by the other, and each may
  ask for either of two things, so a key used again for another request is there.
  Four attempts are a first, two hand-overs and one after a purge; a purge lets the
  key be used afresh (`MaxPurges` is one). The token's age (1), the abandoned age (2)
  and the retention (2) keep their order, and `Skew` (1) lets a take-over come a
  tick early or late. `MaxFaults` is two: a crash and a slow attempt, in either order.
* **ChangeEvents**: three events leave two overlapping batches that share one and
  differ in one; one trim of at most two, pages of at most two, and
  batches of at most two (`BatchLimit`). A trim takes
  fewer than there are, and a page is shorter than the stream.
* **Leases**: two requests make a line; two resources, either of which may serve
  both requests, make a selector's choice and a contest for a request, with an
  owner who moves a bound between one and two. The first request has a job, so its
  lease starts in a window, and a holder may ask for a term of three, which the bound then
  cuts: renewals differ in length and cross. One resource with a job and a waiting
  orchestration makes the starts, the wakes and the parks (leases_live,
  leases_lapse). `Skew` and `Lag` are one tick and the margin is two, so that expired and
  lapsed differ and a late clock alone undercuts nothing. `OfferTries` is two, so that an offer that
  loses tries again once and then gives up. `MaxMoves` bounds what
  comes from outside the line: an owner's updates, revokes, refusals of a kind,
  crashes. The labels are fixed in the runs. Only `LeaseFloor` bounds how long ago
  a lease expired.
* **domain**, part by part. Outbox: one row, one request's task and two sweeps make
  the races, and two attempts tell the last from one before. Imports: a file of two
  steps and one of one, with a row that is refused, and two events, each a death, the
  operator's or the plan's, which is a death on each of two attempts, or a rise and a
  fall. TaskList: three tasks of four binary digits, the first
  too long, a reach of two and two writes across one respace. Reminders: two dates, two
  people whose mornings differ, two items and an item handed out twice. Members: three
  people and two calls at once, five in all. SignIns: two visits and three credentials,
  so one is exchanged and switched. Billing: two checkouts, so an old subscription and a
  new one, two changes of each, one worker, one grant. Slack: two callers, either of which may renew or write the row, and three
  pairs. Breaker: three calls, of which one is out as it opens, one probes and one asks;
  two failures open it, and a slow call and its lag are shorter than the cooldown.
  ReadCache: two readers, a write, a new window. Media: one file, two requests,
  two sweeps, two uploads. Channel: three records of three entities, pages of two, lanes
  and inbox of one, one event of loss; all three are news to the page, or the third is
  an old one that was relayed late. A tail of two may then be older than the page in
  none or in its last, which a page of one would not tell apart. TaskCache: three versions, or two with a failed read. Sockets: two
  who present one ticket, a session or a key, an interval of two steps and a delay of
  one, so a change falls at every point of an opening and of a check.
  Where a part has `MaxFaults` it is one or two: one failure, or one and a crash.
* **live**: two rows of the two kinds and a sweep that claims two (`Limit`) make a batch that
  fails in part, and its rows run again one by one. The breaker has the sizes it has
  in domain; the channel has two records, either of them news, and pages of one.

Symmetry is used for safety only: over worker slots, appending processes and
sweeps, which run the same code, over the first two callers of a part, and over
resources and requests where all are alike.

## Fairness, and why the code justifies it

* WorkQueue: the workers poll, the sweep runs each interval, handlers end (a
  handler has a deadline), calls return or fail, the clock moves. Nothing is
  assumed of crashes, stalls, producers or the operator. A worker's drain is a
  `Stop`, counted in `MaxFaults`.
* Idempotency: requests go on, time passes, and a client sends a request again
  until it has its answer, which is what the key is for. A request may stop for
  good where it crashes. The system stops when all are answered, so deadlock is
  not checked there.
* Outbox: the sweep runs on a timer and its calls return; the request path
  and every success are unassumed. With the request path left to itself,
  the sweep alone settles the row.
* Leases: a call in progress goes on; the sweep comes back to every org, so it
  ends each lapsed lease, expires each overdue request and offers each free
  resource, with strong fairness where another call may disable it for a while.
  `FairSpec` assumes nothing of the clock: `LineMoves` holds without it, so no
  request need be let go for its age. `ParkedIsTold` needs leases to end and says so
  itself: its antecedent is that the clock moves.
* Breaker: the clock moves, calls return (they have a timeout) and callers go on
  asking. That the dependency answers is the antecedent of `Recovers`.
* Channel: the server reads its head and answers pings, its lanes drain, the tab
  reconnects, runs its jobs and reads its pages: loops and timers of the code. Nothing is
  assumed of the bus, of a push that is dropped, or of the person.

The other modules state safety only and assume nothing.

## What is proved

Eight modules of theorems, each for every value of the constants its named
assumptions allow; those are types and the few relations said here. In each the
property is not inductive and `IInv` is the strengthening, checked by TLC first; each
action has a lemma, one lemma combines them, and the theorem follows from it.

`WorkQueueProofs`: `InvariantHolds`, `RunnersHold` (`RunnerHoldsItem`),
`AttemptsHold` (`AttemptsAgree`, `CopyIsCurrent`) and `TokensPassThroughQueue`
(`TokenPassesThroughQueue`), for every finite set of items, any
tenants, workers, tokens and caps, any attempts, delays and retention.
`TimingAssumption` says what the ratios of the loop are for: a renewal is due before
the fence, and a claim that begins late, or a renewal that takes all the time it has,
leaves the fence before the lease's end by more than the two clocks can differ. A
deployment that breaks it has no such theorem. Nothing in `RunnerHoldsItem` says why a
sweep cannot take the row. `IInv` adds four parts. `TokensDiffer`: a token is on one
row and in one slot, so a slot whose token is on its row is the only one.
`WritesInFlight`: a renewal on its way carries the row's own token and attempts and a
lease that outlasts the fence; a settlement on its way leaves the claim.
`LeaseOutlastsFence`: the row's lease is at least what is left to the fence, plus the
skew, so `Stale` is false while a handler runs. `CopyIsCurrent`: under one token the
worker's copy of the attempts is the row's, so that a decision on the copy is a
decision on the row. The action property follows step by step from `WritesInFlight`:
a write that lands has the row's token or finds none of its rows.

`LeasesProofs`: `LeasesInvariant`, `AnchorHolds` (`AnchorAgrees`), `ParkedHold`
(`ParkedStillWaits`), `GrantsHold` (`GrantsFit`), `SettledHold` (`SettledIsFinal`),
`ActsHold` (`ActsUnderLease`), for any resources, requests,
orchestrations, labels, calls, terms and clocks. `IInv` has three parts, each about
its own variables, so that a step is shown to keep one at a time. The line
(`LineIsWaiting`): the requests that wait, each once, and nobody else. The rows:
an anchor and the one active lease of its resource name each other and agree
(`AnchorNames`), no two leases of a resource have one token (`TokensDiffer`), a lease's
token was its anchor's newest and its term one a bound allowed (`LeasesAreSound`,
`AnchorsAreSound`). The calls (`CallsAreSound`): what one carries names a
resource, a request and a length it may have, and nothing is said of whether what it read
still holds, for the write's own condition asks that. `AnchorAgrees` alone would be lost
at a grant, which meets a lease that ended long ago: that it has an older token is
`LeasesAreSound`. `ActsUnderLease` needs `ActingInv`
beside it: what is left of the holder's term, on its clock, is no more than what is left of
the row's and the margin, on the clock of whoever ends it (`DeadlineIsInTime`), unless
a write has cut the row further (`undercut`); so whoever ends a lease for its age ends
one whose holder has stopped. `MarginAssumption` asks of the margin that it outlasts the
slowest clock, as the code's comment does, and nothing about lengths: what crossing renewals
and a start that overtakes an offer do is in the exception, step by step, and the
theorem says that they are all that breaks it.

`IdempotencyProofs`: `OneCreateHolds`, `AnswersAgreeHolds` and
`RecordedSecretHolds` (the last where `~Overtaking`), for any requests, digests, ages
and skew, and any number of attempts, faults and purges; nothing is asked of the ages,
so safety does not rest on how long a token is good for. `OneCreate` alone is not
inductive, because a target that no key has yet may get one: `TargetsCounted` counts
the targets that a key, the marker or a request has, and only a new record adds one.
`ToldIsRecorded` ties what a client was told to the record while it is kept, so that a
finish, which needs the marker pending, meets nobody told of it. `LandingHolds` says
that a re-mint between its halves still holds the marker, or its marker is gone, and
`IssuedHolds` that the holder with a key to report has its own secret on it; with
`AttemptsDiffer` the holder is one. Without `~Overtaking` the first of these breaks at
a take-over, and that is the violation above.

`EventsProofs`, of ChangeEvents: `GaplessHolds`, `AnswersHold` and `ReadersMissNothing`,
for any events, appends, trims, readers and limits. A batch's numbers are those above
the head only because its statement has had the cursor's row since it read it
(`WriterHasTheCursor`). A trim takes all that is below its top only because its snapshot,
older than its lock, has every event below one it has (`SnapshotsAreBelow`): an event
that was trimmed is never appended again, for which no call presents one as old as the
retention (`CallsAreYoung`). What a call answers stays stored until it is told
(`CallsAreRight`). The combinatorial steps, that a batch's numbering is onto its
interval and that the lowest numbers above a position follow on it, are lemmas over
finite sets. `StreamIsImplemented` (`ImplementsStream`) is the refinement of `Stream`,
step by step from the same invariant: the log is the row of each number above the floor
(`LogOf`), so a commit appends its fresh events in their order, a trim cuts the front,
the tenant's expiry ends it, and whatever else happens leaves it.

`TasksProofs`, of Outbox: `OutboxInvariant` and `RelayHolds` (`DoneMeansTold`,
`HeldHasHolder`, which the run checks as `RelayKept`), for any rows, requests, hands,
sweeps, limits and faults. A row is marked by whichever task gets there, so what
matters is what a task has done by then with the rows it holds: `TasksHold` says it of
each step of the delivery, and holds to the end because the stream, the bus and the
queue only gain. A raise takes the task back to a step that marks nothing.

`OutboxTyped` bounds the attempts of a row, which pass `max_attempts`: a sweep claims a
row again, however often it was tried, while the one before has not recorded how it
ended. Two sweeps add one attempt each, but with three a late record of an earlier
attempt clears what the last one wrote and has the row claimed once more by everybody: the bound
`MaxAttempts + Cardinality(Sweeps) + faults` fails after 34 steps with three sweeps and three
attempts. `AttemptsBound` is what holds, one for every ordered pair of sweeps besides the deaths.
`RoomFor` is why: a pending row past its attempts leaves room for one by each sweep
without it, unless it failed, and for a whole round by each sweep that still has it with an
earlier attempt (`Early`), of which no new one comes once the attempts are used up.

`CallersProofs`, of Channel: `ChannelInvariant`, `NoticesHold` (`NoticesAreToldOnce`) and
`NothingIsPassedHolds` (`NothingIsPassed`), which the run checks as
`TabKeepsUp`, for any records, entities, notices, pages, lanes, inboxes and failures. A
notice could be told again, or out of order, by the replay that kept it or by the first
catch-up: `KeptIsLater` says that what a replay keeps is later than all that was told, and
what the first catch-up has yet to tell is earlier, of which there is one job, because a
socket speaks its hello before anything else and the cursor starts from one
(`HelloIsFirst`). `NothingIsPassed` says nothing while that job waits, though pushes and
replays move the cursor meanwhile: `PassedSinceHello` says that what they passed since
the hello was read. The first catch-up reads the recent records of the tail, and
leaves unread those before it, which are recent only where the tail has a record that
is not: `Overlooked` is exactly these. That the notices
of a page can be put in order is a lemma on finite sets of numbers (`CanBeOrdered`).

`CallersProofs`, of TaskCache: `TaskCacheInvariant` and `ListsShowHolds`
(`ListsShowNewest`), for any number of writes, reads and failures.
`ListsShowNewest` is of the end, when nothing is on its way, and says nothing of what
leads there. `NewestWillShow` does, at every step: a push of the newest version is to
come or its window is open, a read in flight will tell it, the ledger has it, or every
list that was read is being read again and nothing else will be placed, or its news was
crossed (`Promised`). A window that
closes spares the read if the tab has placed the version already, so what the ledger
knows must be in the lists, or in one that will be placed again when it lands
(`KnownWillShow`). A placement has no effect where some list holds the version already,
which would be wrong of a list that is not its own: `MovedForAWhile` says that such a
list is one this tab's own edit wrote ahead of the server, and that it is read again if
the edit is refused. Of a task that was deleted the versions say nothing more, for
the 404 has none; the stamps do: `DeleteIsNews` says that no read in flight which found
the task alive has one as late as what the ledger heard last.

`CallersProofs`, of Breaker: `BreakerInvariant` and `ProbeGoesAlone`, where a slow call and its
lag end before the cooldown does. A call that was out when the breaker opened is not the
probe, and returns before one may start (`OutSinceItOpened`); the slot is taken
by one call, which is out (`SlotHasItsCall`).

`CallersProofs`, of ReadCache: `ReadCacheInvariant` and `ReadsAreFresh`, for any readers,
writes, windows and failed calls. Whatever holds a value from before a bump, an entry
or a reader about to put one, has it under a generation the bump has passed
(`StaleIsPassed`), and a reader that began after the bump goes by a later one
(`BegunPassesStale`), so that what it finds is fresh (`KeyedFindsFresh`).

`TasksProofs`, of Imports: `ImportsInvariant`, `RowsHold` (`RowsLandOnce`),
`EndedHolds` (`EndedStays`), and `CarriedHolds` (`RecordIsCarried`), for any imports,
rows, batches, attempts and versions. A version alone does not say that a record is the one a step read; that
each write moves it does (`ItemHolds`: while the versions agree the record is what was
read, and it was running), so of two items that run one step at most one lands, and
no row past the cursor is there before it does (`RowsLandOnce` itself, at the cursor).
`RunningIsCarried` is kept because an item that ends its step leaves either the
record settled or parked, or the item of its next step. For a parked record the wake goes
through the imports in their order: `WakeHolds` says what is left of it, and a batch
is the least of those past the last one read, so a record it does not take is past
its greatest (`FirstAreLeast`); that a finite set of numbers has a greatest comes from
the well-founded order of its subsets. A step that read no plan, or a plan that has
since risen, parks with a wake still to read its record, or is `overlooked`; a death
leaves another carrier, or its record is `stranded`. Each names the version of the record, so a
record that moves on is out of it.

`TasksProofs`, of Reminders: `RemindersInvariant` and `RemindersHold` (`ReminderKept`),
for any people, dates, mornings, edits, handlers and lapses. `ReminderKept` is of open
tasks, and a task that is reopened asks for nothing, so it is not inductive: `AskedFor` says
the same of a task that is done, which has its item until one finds it done. An edit
queues its item with the row, but decides on the row it read: `EditsHold` says that at
the version it writes it has the row. A second delivery of one item could settle it
under a first that is about to park it again: `ItemsHold` says that a claimed item is in the hands
of one handler, which has no other. `MarkHolds` ties the mark to the count of times the team was
told, so that the mark's own condition keeps it at one.

`TasksProofs`, of TaskList: `TaskListInvariant` and `RespaceKeepsTheOrder`
(`RespaceKeepsOrder`), for any tasks, ranks, reach, calls and edits. `RanksAssumption`
says besides types that the powers of the base are positive whole numbers, which the
provers do not know. A respace reads in four statements, and what was read is true only of the
tasks that stayed: `SideHolds` says that a read of a side holds all of these or, when
it went as deep as it may, that the others stand beyond its last; `RowsHold` that a row of the
run is where it was while its version is the one that was read. From these, a task
that stayed and is left out of the run is an edge of it or stands past one (`LeftOut`).
The new ranks ascend strictly between the edges (`SpreadIs`): for a run open to
one side by whole units, and between two edges at the shortest scale with room, where the
quotients that space them differ by at least one. Two tasks of the run keep their order
because their ranks go by how many of it stand before each (`NthIs`).

`OrgsProofs`, of Sockets: `SocketsInvariant` and `ClosesHold`, for any openers, kinds and
times, where an opening and a check take at most `Delay`, which is not zero and no more
than the interval. The bounds: an interval and two delays after a loss
that nobody tells of, two delays after a change of the account was heard, and less than
a delay after the expiry. None is inductive, for none says when the check begins that
will see the loss. `LossIsSeen` does: within an interval and an opening, and a check
that has read the credential before it was revoked began before that, so that the next
tick of the grid is in time; `TellingIsSeen` says that a socket that was told is nudged
until it checks, and `LostIsLost` that what is marked is what a check would find.

`OrgsProofs`, of Members: `MembersInvariant` and `OwnerHolds` (`OwnerStays`), for any
people, calls and founder. `OwnerStays` is of steps: only a call that goes by what is no
longer so takes the last owner (`StillSo`). Of a change for which it is still so, that takes an owner,
another owner is the author, and stays, for nobody changes themselves (`CallHolds`); who
leaves as an owner is counted again at the commit, and who leaves as anything else takes
no owner away. That a call which adds somebody meets nobody there needs that no two
bring in one person (`CallsApart`) and that who never joined has no row (`UsersAgree`).

`OrgsProofs`, of SignIns: `SignInsInvariant`, `UsedOnceHolds` (`OneLivePerVisit`,
`CodeVerifiesOnce`, which the run checks as `UsedOnce`) and `EndedHolds`
(`EndedVisitStays`), for any visits, credentials, calls and window. A code that is on a
credential could verify another if it were fresh: `CodesAreSpent` says that it is at
most the last step, whether a credential has it or a call still carries it. A visit
could get a second credential from one that is not made yet: `MadeIsVisited` says that
there is none, and that what a call holds was made.

`OrgsProofs`, of Billing: `BillingInvariant`, `OneCustomerHolds` (`OneCustomer`) and
`ConvergesHold` (`Converges`), for any starts, changes, faults and grants, and any number
of workers, where the run has one. One customer is made because the keys are used in turn:
`AnswersHold` says that whoever reached a key saw the ones before it fail, and `RowHolds` says so of every copy of
the row, so that a stale write, which may take the customer's name or the attempt
back, leads no start to a key that is new. `Converges` is of the end of all deliveries and
says nothing of what leads there. `MarkedIsMirrored` does, at every step: once the newest event
of a subscription is marked, the account says what it does. A delivery marks its event with what it fetched
before, so `FetchedIsNews` says that this covers every mark there is by then, and that
it follows no later subscription; it holds because the first mark goes with a
write, after which everybody else holds a stale row (`FreshIsRow`), and what they write is
excepted (`overtaken`). That the old subscription ended before the new one began is
`SubsHold`; that a delivery finds its customer named is `CustomerIsNamed`.

`OrgsProofs`, of Slack: `SlackInvariant` and `NewestPairHolds`, for any callers, pairs and
failures. One caller renews at a time, under the claim, unless the claim was taken off
(`OneRenews`); but of the renewals that go on, only one can have got a pair, since the
others present one that is spent (`RenewedIsNewest`), and that keeps the newest
pair whatever is written over the claim.

`OrgsProofs`, of Media: `MediaInvariant` and `StoreFollows`, for any requests, sweeps,
uploads and failures; the assumption is types alone. A sweep purges the row by its id,
whatever the row has become since it was read. That is safe because the row was written
for one upload and never names another, though a delete writes the whole row back
(`NamesOnly`); because that upload is over once a sweep has aborted it or a confirm has
completed it, and the store makes no object of one that is over (`UploadIsOver`,
`ObjectIsOver`); and because a sweep takes only what cannot be finished any more
(`SweepsAreDue`). `StartsAreOwn` keeps a retry of the start from aborting another's
upload.

`DomainProofs` states what the run `domain` checks, property by property, for all values of
Domain's constants: `TypesHold` (`TypesOK`), `RelayIsKept`, `RowsLand`, `RecordsAreCarried`,
`RemindersAreKept`, `OwnersStay`, `VisitsAreUsedOnce`, `OneCustomerIsMade`,
`AccountConverges`, `NewestPairsAreKept`, `ProbesAreAlone`, `ReadsAreFresh`,
`StoresFollowRows`, `SocketsAreClosed`, `TabsKeepUp`, `ListsAreShown`, `RespacesKeepOrder`
and `EndedOnesStay`. They rest on `DomainAssumption`, which is the assumptions of the parts.
The argument about a part is its own module's. What is
left is that a behaviour of Domain stays with its part (`PartStays`), that it is one of the
part's specification (`OutboxRuns` and the like), and that a definition is the same in the
instance the proofs are about and in the one Domain names, which the provers take for two
(`OutboxAre` and the like).

Only model-checked: every liveness property. Liveness under fairness is beyond the
prover, as is induction over data, which no theorem here needs.

## What is left out, and how things are simplified

* A payload, a label's text, a message and an error are absent or model values.
  Work handlers are how they end.
* WorkQueue models one lane; lanes share nothing but code. The concurrent claims
  that overshoot a tenant's cap are in the model and accepted by
  `src/docs/adr/0087`, so no property forbids them.
* ChangeEvents models one tenant: tenants share no row. After a tenant's purge
  only the purge goes on; events outlive the relays that could append them again,
  so an id the trim took is not presented again.
* Outbox: that an append by id is idempotent while the event is kept is
  ChangeEvents' `AnswersAgree`.
* Leases: the read of an offer's resource and that of its line are one step, as
  are a reorder's reads and its write of a rank, which may put the request at any
  place of the line. A holder's clock is late by at most `Skew` and a call's clock
  reading by at most `Lag`. Not modelled: the purges, the estimates and measured
  holds, a holder's job claim, a kind's shape of an ask.
* Idempotency: the create behind the key is `issue_api_key`; other creates under a
  key differ by issuing no secret. A digest is what is asked for. `RearmReleased`
  asks for no digest, as in the code, so a request that read a record can be armed
  under one written afterwards for another. A statement's delay is in `Skew`. A
  revoked key stays revoked. The operator plane runs the same code.
* Imports: an item is in the queue as soon as it is written; the other kinds'
  steps write the same record. Tasks: archiving and bulk edits are the import's step and
  the edit's write over again; attachments and restores are not modelled.
* Members: the create of an org, the provider's side of an invitation and the purge
  are not modelled; a person joins once. SignIns: the enrolment of a second factor and the delays after wrong codes are
  not; authentication refuses a session whose member is gone, wherever it came from.
* Billing: one worker, and no two checkouts completed at once. Closing an account, the purge of
  delivery marks, deliveries that are malformed or no org's, and the plan a seed grants are not modelled.
* Slack: installing and posting are work of the queue.
* Media: the retry of a start comes within the day that makes a pending row due. The
  bucket's lifecycle, which aborts what nobody names, is external.
* Channel: a fetch and what the page does with its answer are one step; a query that
  fails and is tried again is not modelled. Notices may be told out of order where the
  hello comes after the five seconds that make a socket stable. TaskCache: a list is held whole; its windows, order and views are not modelled.
* Sockets: a session that lapses for being idle is a revocation nobody tells of. The
  mark of a used ticket in the cache, an optimisation, is left out. A notice that comes late
  may close a fresh socket, and the client connects again.
* The in-memory storages are test doubles of the PostgreSQL ones. The routers, the
  command line, the clients, the bucket, secret and flag stores and the deployment keep no state the
  other parts race for: each is a call, a mapping or a value.

## Plan

Built, in this order: WorkQueue, ChangeEvents with Stream, Outbox, Leases and
Idempotency; then Imports, which composes the record with the plan's wakes; the
breaker and the read cache; billing, slack and media; the list, the reminders,
members and sign-ins; the portal's channel, its lists and the authority of sockets.
Domain and MCLive check together what shares no state, and took over the runs of Outbox.

Left, in this order:

1. **FencedLock**, an abstract lock with tokens, implemented by Leases.
2. The kinds of orchestration that park on a lease, composed with Leases.
3. The enrolment of a second factor with its delays, and the purge of a tenant across
   its tables.
4. The worker's ring of providers and its budgets of chores.
