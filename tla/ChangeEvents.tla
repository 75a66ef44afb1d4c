---------------------------- MODULE ChangeEvents ----------------------------
(***************************************************************************)
(* One tenant's change event stream (om/change_events): the append, the    *)
(* trim and the page read of the Postgres storage, the manager's refusal   *)
(* of a page behind the floor, and the client's position in the stream.    *)
(*                                                                         *)
(* Every statement reads from the snapshot taken when it starts and then   *)
(* waits for, or skips, the lock of the tenant's cursor row; the lock is   *)
(* held to the commit, and what a commit wrote is seen at once.            *)
(*                                                                         *)
(* An event is the id of its outbox row.  Ids are numbered in the order    *)
(* they were produced, which need not be the order they are appended in.   *)
(***************************************************************************)
EXTENDS Integers, FiniteSets, FiniteSetsExt

CONSTANTS
    Ids,            \* events, numbered as they were produced
    Appenders,      \* calls of append_change_events under way
    Trimmers,       \* sweeps that trim
    Readers,        \* clients that follow the stream
    Free,           \* the holder of a cursor lock nobody holds
    TrimLimit,      \* most events one trim deletes
    BatchLimit,     \* bound on the events of one append
    PageLimit,      \* most events on a page
    PurgeLimit      \* most events one purge of the tenant deletes

ASSUME StreamAssumption ==
    /\ Ids \subseteq Nat \ {0} /\ IsFiniteSet(Ids)
    /\ Free \notin Appenders
    /\ TrimLimit \in Nat \ {0} /\ BatchLimit \in Nat /\ PageLimit \in Nat \ {0} /\ PurgeLimit \in Nat \ {0}

VARIABLES
    seqOf,      \* the change_events table: the number of each stored id, else 0
    head,       \* the cursor row: the last number given
    floor,      \* and the last number trimmed
    lock,       \* who holds the cursor row's lock
    apps,       \* what each append holds in memory
    trims,      \* what each trim's statement has read
    readers,    \* each client's position and the page it is being read
    cutoff,     \* events up to this id are older than the retention
    purge,      \* the purge of an expired tenant, between its two statements
    life        \* "live", or "expired" once the tenant is past its retention

vars == <<seqOf, head, floor, lock, apps, trims, readers, cutoff, purge, life>>

Stored == {i \in Ids : seqOf[i] # 0}

Unnumbered == [i \in Ids |-> 0]

\* pc: "reading" before the APPEND statement, "waiting" for the cursor's lock,
\* "writing" under it, "refused" after a primary key conflict, "skipping" when
\* the statement left ids out, "done" with its answer.  `todo` is the loop's
\* pending events, `base` the head the numbers are taken from.
Call(pc, batch, todo) ==
    [pc |-> pc, batch |-> batch, todo |-> todo, fresh |-> {}, base |-> 0, got |-> Unnumbered]

NoCall == Call("idle", {}, {})

\* `seen` are the events in the statement's snapshot.  A stored row never changes,
\* so its number is read where it is used.
NoTrim == [pc |-> "idle", seen |-> {}, before |-> 0]

NoPurge == [pc |-> "idle", gone |-> {}]

AtPosition(n) == [pc |-> "idle", after |-> n, page |-> {}]

Init ==
    /\ seqOf = Unnumbered
    /\ head = 0 /\ floor = 0
    /\ lock = Free
    /\ apps = [p \in Appenders |-> NoCall]
    /\ trims = [t \in Trimmers |-> NoTrim]
    /\ readers = [r \in Readers |-> AtPosition(0)]
    /\ cutoff = 0
    /\ purge = NoPurge
    /\ life = "live"

(***************************************************************************)
(* append_change_events                                                    *)
(***************************************************************************)

\* A relay or a manager calls.  Two relays of one row present the same id.  A row
\* is relayed long before its event is as old as the retention.
AppendBegins(p) ==
    /\ apps[p].pc = "idle" /\ life = "live"
    /\ \E batch \in SUBSET {i \in Ids : i > cutoff} :
          /\ batch # {} /\ Cardinality(batch) <= BatchLimit
          /\ apps' = [apps EXCEPT ![p] = Call("reading", batch, batch)]
    /\ UNCHANGED <<seqOf, head, floor, lock, trims, readers, cutoff, purge, life>>

\* The CTE "fresh" over the statement's snapshot.
Fresh(todo) == {i \in todo : seqOf[i] = 0}

\* APPEND starts: `fresh` is read from the snapshot.  With nothing new the cursor
\* is untouched, and what was left out is read back.
AppendReads(p) ==
    LET fresh == Fresh(apps[p].todo) IN
    /\ apps[p].pc = "reading"
    /\ apps' = [apps EXCEPT ![p].fresh = fresh,
                            ![p].pc = IF fresh = {} THEN "skipping" ELSE "waiting"]
    /\ UNCHANGED <<seqOf, head, floor, lock, trims, readers, cutoff, purge, life>>

\* The CTE "taken": head + n under the cursor row's lock.
AppendReserves(p) ==
    /\ apps[p].pc = "waiting"
    /\ lock = Free
    /\ lock' = p
    /\ apps' = [apps EXCEPT ![p].pc = "writing", ![p].base = head]
    /\ UNCHANGED <<seqOf, head, floor, trims, readers, cutoff, purge, life>>

\* An id of the batch was committed since the statement's snapshot: the primary
\* key refuses the insert.
Conflicts(r) == \E i \in r.fresh : seqOf[i] # 0

\* The numbers of a batch: base + 1, base + 2, ..., in the order given.
Numbering(r) ==
    {n \in [r.fresh -> r.base + 1 .. r.base + Cardinality(r.fresh)] :
        \A i, j \in r.fresh : i < j => n[i] < n[j]}

\* Mutant: as many numbers are taken as events were presented.
MutSizeOfBatch(r) == Cardinality(r.todo)

\* How many numbers `wanted` asks the cursor for.
Size(r) == Cardinality(r.fresh)

\* The insert and the commit.
AppendCommits(p) ==
    LET r == apps[p] IN
    /\ r.pc = "writing"
    /\ ~Conflicts(r)
    /\ \E n \in Numbering(r) :
          /\ \A i \in r.fresh, j \in Stored : seqOf[j] # n[i]
          /\ seqOf' = [i \in Ids |-> IF i \in r.fresh THEN n[i] ELSE seqOf[i]]
          /\ apps' = [apps EXCEPT ![p].got = [i \in Ids |-> IF i \in r.fresh THEN n[i] ELSE @[i]],
                                  ![p].todo = r.todo \ r.fresh,
                                  ![p].pc = IF r.todo = r.fresh THEN "done" ELSE "skipping"]
    /\ head' = r.base + Size(r)
    /\ lock' = Free
    /\ UNCHANGED <<floor, trims, readers, cutoff, purge, life>>

\* The primary key refuses the insert; the rollback returns every number.
AppendRollsBack(p) ==
    /\ apps[p].pc = "writing"
    /\ Conflicts(apps[p])
    /\ lock' = Free
    /\ apps' = [apps EXCEPT ![p].pc = "refused"]
    /\ UNCHANGED <<seqOf, head, floor, trims, readers, cutoff, purge, life>>

\* The unique index on the numbers refuses it, and the call raises UniqueKeyTaken.
AppendRaises(p) ==
    /\ apps[p].pc = "writing"
    /\ ~Conflicts(apps[p])
    /\ \E n \in Numbering(apps[p]), i \in apps[p].fresh, j \in Stored : seqOf[j] = n[i]
    /\ lock' = Free
    /\ apps' = [apps EXCEPT ![p] = NoCall]
    /\ UNCHANGED <<seqOf, head, floor, trims, readers, cutoff, purge, life>>

\* _read_ids.  After a conflict, what is found is left out of the next try, and
\* with nothing found the call raises TenantMismatch; after a statement that left
\* ids out, the call is over.
AppendReadsBack(p) ==
    LET r == apps[p]
        found == r.todo \cap Stored IN
    /\ r.pc \in {"refused", "skipping"}
    /\ apps' = [apps EXCEPT ![p] =
           IF r.pc = "refused" /\ found = {} THEN NoCall
           ELSE [r EXCEPT !.got = [i \in Ids |-> IF i \in found THEN seqOf[i] ELSE @[i]],
                          !.todo = r.todo \ found,
                          !.pc = IF r.pc = "refused" /\ r.todo # found
                                 THEN "reading" ELSE "done"]]
    /\ UNCHANGED <<seqOf, head, floor, lock, trims, readers, cutoff, purge, life>>

\* The caller has its answer; or the caller's process dies, and the server rolls
\* the open transaction back.
AppendEnds(p) ==
    /\ apps[p].pc # "idle"
    /\ apps' = [apps EXCEPT ![p] = NoCall]
    /\ lock' = IF lock = p THEN Free ELSE lock
    /\ UNCHANGED <<seqOf, head, floor, trims, readers, cutoff, purge, life>>

(***************************************************************************)
(* trim, one statement across tenants; here the part it plays in one.      *)
(***************************************************************************)

\* An event passes the retention.  Its row was relayed long ago.
Age(i) ==
    /\ i = cutoff + 1
    /\ \A p \in Appenders : i \notin apps[p].batch
    /\ cutoff' = i
    /\ UNCHANGED <<seqOf, head, floor, lock, apps, trims, readers, purge, life>>

\* The statement's snapshot.
TrimReads(t) ==
    /\ trims[t].pc = "idle"
    /\ \E i \in Stored : i <= cutoff
    /\ trims' = [trims EXCEPT ![t] = [pc |-> "locking", seen |-> Stored, before |-> cutoff]]
    /\ UNCHANGED <<seqOf, head, floor, lock, apps, readers, cutoff, purge, life>>

\* The CTEs "old" and "shares": this tenant's share of the oldest `limit` events
\* of all tenants is anything up to its own old ones.
Shares(r) == {k \in 1..TrimLimit : k <= Cardinality({i \in r.seen : i <= r.before})}

\* Mutant: the run is not cut at its first young event.
MutTrimPastYoung(r, share) ==
    {n \in floor + 1 .. floor + share : \E i \in r.seen : seqOf[i] = n}

\* "bounds" and "runs": the numbers in the window above the floor the statement
\* finds under the lock that lie below the window's first young event.
TrimRun(r, share) ==
    {n \in floor + 1 .. floor + share :
        /\ \E i \in r.seen : seqOf[i] = n
        /\ \A i \in r.seen : seqOf[i] \in floor + 1 .. n => i <= r.before}

\* "gone" and "moved", and the commit.
TrimCommits(t) ==
    LET r == trims[t] IN
    /\ r.pc = "locking" /\ lock = Free
    /\ \E share \in Shares(r) :
          \/ TrimRun(r, share) = {} /\ UNCHANGED <<seqOf, floor>>
          \/ \E top \in TrimRun(r, share) :
                /\ \A n \in TrimRun(r, share) : n <= top
                /\ seqOf' = [i \in Ids |->
                      IF i \in r.seen /\ seqOf[i] \in floor + 1 .. top THEN 0 ELSE seqOf[i]]
                /\ floor' = top
    /\ trims' = [trims EXCEPT ![t] = NoTrim]
    /\ UNCHANGED <<head, lock, apps, readers, cutoff, purge, life>>

\* SKIP LOCKED: an append holds the cursor row, and the tenant keeps its events.
TrimSkips(t) ==
    /\ trims[t].pc = "locking" /\ lock # Free
    /\ trims' = [trims EXCEPT ![t] = NoTrim]
    /\ UNCHANGED <<seqOf, head, floor, lock, apps, readers, cutoff, purge, life>>

(***************************************************************************)
(* read_page and get_change_events, and the client that follows            *)
(***************************************************************************)

\* The first statement's page: the lowest numbers above `after`.
Pages(after) ==
    LET above == {n \in {seqOf[i] : i \in Stored} : n > after} IN
    {page \in SUBSET above :
        /\ Cardinality(page) <= PageLimit
        /\ \A n \in page, m \in above \ page : n < m
        /\ Cardinality(page) = PageLimit \/ page = above}

ReadPage(c) ==
    /\ readers[c].pc = "idle" /\ life = "live"
    /\ \E page \in Pages(readers[c].after) :
          readers' = [readers EXCEPT ![c].pc = "page", ![c].page = page]
    /\ UNCHANGED <<seqOf, head, floor, lock, apps, trims, cutoff, purge, life>>

\* Mutant: the manager does not look at the floor.
MutTruncatedNever(after) == FALSE

\* get_change_events: after < page.floor
Truncated(after) == after < floor

\* The second statement reads the cursor row, and the manager answers: the page,
\* or StreamTruncated.  The client advances to the page's last number, or reads
\* afresh and goes on from the head.
ReadCursor(c) ==
    LET r == readers[c] IN
    /\ r.pc = "page" /\ life = "live"
    /\ readers' = [readers EXCEPT ![c] =
          IF Truncated(r.after) THEN AtPosition(head)
          ELSE AtPosition(IF r.page = {} THEN r.after ELSE Max(r.page))]
    /\ UNCHANGED <<seqOf, head, floor, lock, apps, trims, cutoff, purge, life>>

\* A client opens the stream at its head (read_head).
OpenAtHead(c) ==
    /\ life = "live"
    /\ readers[c] # AtPosition(head)
    /\ readers' = [readers EXCEPT ![c] = AtPosition(head)]
    /\ UNCHANGED <<seqOf, head, floor, lock, apps, trims, cutoff, purge, life>>

(***************************************************************************)
(* purge_tenant, of a tenant past its retention, with appends under way.   *)
(***************************************************************************)

\* The tenant is past its retention, and its clients are refused.
TenantExpires ==
    /\ life = "live"
    /\ life' = "expired"
    /\ readers' = [c \in Readers |-> AtPosition(0)]
    /\ UNCHANGED <<seqOf, head, floor, lock, apps, trims, cutoff, purge>>

PurgeReads ==
    /\ life = "expired" /\ purge.pc = "idle"
    /\ \E gone \in SUBSET Stored :
          /\ Cardinality(gone) <= PurgeLimit
          /\ Cardinality(gone) = PurgeLimit \/ gone = Stored
          /\ purge' = [pc |-> "deleting", gone |-> gone]
    /\ UNCHANGED <<seqOf, head, floor, lock, apps, trims, readers, cutoff, life>>

\* The cursor goes with the last batch, once no append holds it.
PurgeCommits ==
    /\ purge.pc = "deleting"
    /\ seqOf' = [i \in Ids |-> IF i \in purge.gone THEN 0 ELSE seqOf[i]]
    /\ IF Cardinality(purge.gone) < PurgeLimit
       THEN lock = Free /\ head' = 0 /\ floor' = 0
       ELSE UNCHANGED <<head, floor>>
    /\ purge' = NoPurge
    /\ UNCHANGED <<lock, apps, trims, readers, cutoff, life>>

AppendStep(p) ==
    \/ AppendReads(p) \/ AppendReserves(p) \/ AppendCommits(p)
    \/ AppendRollsBack(p) \/ AppendRaises(p) \/ AppendReadsBack(p)

Next ==
    \/ \E p \in Appenders : AppendBegins(p) \/ AppendStep(p) \/ AppendEnds(p)
    \/ \E i \in Ids : Age(i)
    \/ \E t \in Trimmers : TrimReads(t) \/ TrimCommits(t) \/ TrimSkips(t)
    \/ \E c \in Readers : ReadPage(c) \/ ReadCursor(c) \/ OpenAtHead(c)
    \/ TenantExpires \/ PurgeReads \/ PurgeCommits

Spec == Init /\ [][Next]_vars

(***************************************************************************)
(* Properties                                                              *)
(***************************************************************************)

CallType ==
    [pc : {"idle", "reading", "waiting", "writing", "refused", "skipping", "done"},
     batch : SUBSET Ids, todo : SUBSET Ids, fresh : SUBSET Ids, base : Nat,
     got : [Ids -> Nat]]

\* Every table and every process has its shape.
TypeOK ==
    /\ seqOf \in [Ids -> Nat]
    /\ head \in Nat /\ floor \in Nat
    /\ lock \in Appenders \cup {Free}
    /\ apps \in [Appenders -> CallType]
    /\ trims \in [Trimmers -> [pc : {"idle", "locking"}, seen : SUBSET Ids, before : Nat]]
    /\ readers \in [Readers -> [pc : {"idle", "page"}, after : Nat, page : SUBSET Nat]]
    /\ \A c \in Readers : Cardinality(readers[c].page) <= PageLimit
    /\ cutoff \in Nat
    /\ purge \in [pc : {"idle", "deleting"}, gone : SUBSET Ids]
    /\ life \in {"live", "expired"}

\* Gapless above the floor: while the tenant lives, the numbers stored are exactly
\* those above the floor up to the head, each on one event, whatever appends,
\* rollbacks and trims interleave.
GaplessAboveFloor ==
    life = "live" =>
        /\ floor <= head
        /\ {seqOf[i] : i \in Stored} = floor + 1 .. head
        /\ \A i, j \in Stored : seqOf[i] = seqOf[j] => i = j

\* Appending twice appends once: every call that answers answers for each event
\* it was given, and two calls that present one event get the same number, the
\* one that is stored until the trim takes it.
AnswersAgree ==
    life = "live" =>
        \A p \in Appenders : apps[p].pc = "done" =>
            \A i \in apps[p].batch : /\ apps[p].got[i] # 0
                                     /\ apps[p].got[i] = seqOf[i]

\* A client skips no number: a page read after a position has no hole when the
\* cursor's statement lets it leave, though the trim and the appends commit between
\* the page's statement and the cursor's.
ReaderMissesNothing ==
    \A c \in Readers :
        LET r == readers[c] IN
        r.pc = "page" /\ ~Truncated(r.after)
        => r.page = r.after + 1 .. r.after + Cardinality(r.page)

\* An event keeps its number until the trim takes it, and the trim takes none
\* younger than the retention.
NumbersStay ==
    [][life = "live" /\ life' = "live" =>
        \A i \in Stored : \/ seqOf'[i] = seqOf[i]
                          \/ /\ seqOf'[i] = 0 /\ i <= cutoff
                             /\ seqOf[i] <= floor']_vars

\* The abstract stream: the stored events in the order of their numbers.
EventAt(n) == IF \E i \in Ids : seqOf[i] = n THEN CHOOSE i \in Ids : seqOf[i] = n ELSE 0

Log == IF life = "live" THEN [n \in 1 .. head - floor |-> EventAt(floor + n)] ELSE <<>>

Promise == INSTANCE Stream WITH log <- Log, floor <- IF life = "live" THEN floor ELSE 0

\* The statements with their snapshots, locks, conflicts and retries implement the
\* stream whose appends and trims are single steps.
ImplementsStream == Promise!Spec

\* Whoever has the tenant's cursor locked is about to commit or roll back: no way
\* out of append_change_events leaves the tenant's other appends waiting.
LockIsReleased == lock # Free => apps[lock].pc = "writing"

(***************************************************************************)
(* What the steps keep, from which the properties follow.                  *)
(***************************************************************************)

\* Who writes has the cursor row locked, and so knows its head.
WriterHasTheCursor ==
    \A p \in Appenders : apps[p].pc = "writing" => lock = p /\ apps[p].base = head

\* No event of a call is as old as the retention.
CallIsYoung(r) ==
    /\ r.todo \subseteq r.batch /\ r.fresh \subseteq r.batch
    /\ \A i \in r.batch : i > cutoff

CallsAreYoung == \A p \in Appenders : CallIsYoung(apps[p])

\* What a call is through with is stored under the number it answers; what its
\* statement leaves out is stored too.
CallIsRight(r) ==
    /\ \A i \in r.batch \ r.todo : r.got[i] # 0 /\ r.got[i] = seqOf[i]
    /\ r.pc \in {"waiting", "writing"} => r.fresh \subseteq r.todo /\ r.todo \ r.fresh \subseteq Stored
    /\ r.pc = "skipping" => r.todo \subseteq Stored
    /\ r.pc = "done" => r.todo = {}

CallsAreRight == life = "live" => \A p \in Appenders : CallIsRight(apps[p])

\* A trim's snapshot has every stored event below one it has, and nothing that
\* could be appended again.
SnapshotIsBelow(r) ==
    /\ r.before <= cutoff
    /\ \A i \in r.seen : i \in Stored \/ i <= cutoff
    /\ \A i, j \in Stored : j \in r.seen /\ seqOf[i] <= seqOf[j] => i \in r.seen

SnapshotsAreBelow ==
    life = "live" => \A t \in Trimmers : trims[t].pc = "locking" => SnapshotIsBelow(trims[t])

\* Nobody reads an expired tenant's stream, and only such a one is purged.
LifeRules ==
    /\ \A c \in Readers : /\ readers[c].pc = "page" => life = "live"
                          /\ IsFiniteSet(readers[c].page)
    /\ purge.pc = "deleting" => life = "expired"

IInv ==
    /\ TypeOK /\ LockIsReleased /\ WriterHasTheCursor /\ CallsAreYoung /\ LifeRules
    /\ GaplessAboveFloor /\ CallsAreRight /\ SnapshotsAreBelow /\ ReaderMissesNothing
=============================================================================
