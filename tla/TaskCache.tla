----------------------------- MODULE TaskCache -----------------------------
(***************************************************************************)
(* One task in the query cache of one tab of the portal: the two lists it  *)
(* may be in (open and done), read by queries; the ledger of what was      *)
(* heard of it (queries/ledger.ts, taskCache.ts); the reader that a push   *)
(* leads to (realtime/hints.ts); and the tab's own writes, placed before   *)
(* and after the server answers (useTasksVm.ts).                           *)
(*                                                                         *)
(* A task is the number of its version.  Each write of it is pushed once   *)
(* and in order, as Channel shows.  Versions and the reads' stamps are the *)
(* only numbers; a list is short enough to be held whole.                  *)
(***************************************************************************)
EXTENDS Integers, Sequences, FiniteSets

CONSTANTS
    MaxVersion,     \* bound on the writes of the task
    MaxReads,       \* bound on the reader's reads in flight
    MaxFaults       \* bound on the reads and answers that are lost

TaskCacheAssumption ==
    /\ {MaxVersion, MaxReads, MaxFaults} \subseteq Nat
    /\ MaxVersion > 0

VARIABLES
    history,    \* what each version of the task made of it
    pushed,     \* the last version that was pushed
    lists,      \* what each list holds of the task, and its query
    heard,      \* the ledger's entry
    clock,      \* the ledger's stamps
    pending,    \* the lists being read while a change was placed
    gathered,   \* what the open window names of the task
    reads,      \* the reader's reads in flight
    own,        \* the tab's write
    crossed,    \* the last version whose news an older answer crossed
    faults

vars == <<history, pushed, lists, heard, clock, pending, gathered, reads, own, crossed, faults>>

Lists == {"open", "done"}
Statuses == Lists \cup {"archived", "deleted"}

Unread == -1    \* a list that was never read, a read that was not answered yet
Gone == 0       \* no task: a list without it, an answer of 404
Nothing == -2   \* a window that names nothing
Unnamed == -1   \* a push that names no version

Now == Len(history)
Live(v) == history[v] # "deleted"

NoWrite == [pc |-> "idle", version |-> 0]

\* The page is mounted, and its queries are on their way; the task is open.
Init ==
    /\ history = <<"open">>
    /\ pushed = 1
    /\ lists = [l \in Lists |-> [held |-> Unread, query |-> "asked", answer |-> Unread]]
    /\ heard = [version |-> 0, since |-> 0, gone |-> FALSE]
    /\ clock = 0
    /\ pending = {}
    /\ gathered = Nothing
    /\ reads = {}
    /\ own = NoWrite
    /\ crossed = 0
    /\ faults = 0

Fault == faults < MaxFaults /\ faults' = faults + 1

Fetching(l) == lists[l].query # "idle"

----------------------------------------------------------------------------
(* taskPlacement.ts, and the ledger.                                       *)

\* placeTask: a task a list holds at this version or a newer is no news.
HeldAtOrAbove(in, v) == \E l \in Lists : in[l].held >= v

\* Where version v goes, or where its removal does.
Placed(in, v) ==
    IF v # Gone /\ HeldAtOrAbove(in, v) THEN in
    ELSE [l \in Lists |-> [in[l] EXCEPT
            !.held = IF @ = Unread THEN Unread
                     ELSE IF v # Gone /\ history[v] = l THEN v ELSE Gone]]

BeingRead(in) == {l \in Lists : in[l].query # "idle"}

\* applyToScope: a list being read may answer with what it was before.
Write(in, v) == lists' = Placed(in, v) /\ pending' = pending \cup BeingRead(in)

\* The answer of the read issued last wins, whatever its version.
MutAdmits(v, since) == since >= heard.since

Admits(v, since) ==
    IF heard.version > 0 /\ ~heard.gone THEN v >= heard.version ELSE since >= heard.since

\* placeTask and removeTask, of an answer.
PlaceAnswer(v, since) ==
    IF v = Gone
    THEN IF since >= heard.since
         THEN /\ heard' = [heard EXCEPT !.since = since, !.gone = TRUE]
              /\ Write(lists, Gone)
         ELSE UNCHANGED <<heard, lists, pending>>
    ELSE IF Admits(v, since)
         THEN heard' = [version |-> v, since |-> since, gone |-> FALSE] /\ Write(lists, v)
         ELSE UNCHANGED <<heard, lists, pending>>

\* What was heard last.
Heard == IF heard.gone THEN Gone ELSE heard.version
HeardAny == heard.gone \/ heard.version > 0

\* heldTask
Holds(v) == ~heard.gone /\ heard.version >= v

----------------------------------------------------------------------------
(* The lists' queries.                                                     *)

\* An invalidation cancels the read it supersedes, but joins a list's first.
Invalidated ==
    [l \in Lists |-> IF lists[l].held = Unread THEN lists[l]
                     ELSE [lists[l] EXCEPT !.query = "asked", !.answer = Unread]]

RefreshLists == lists' = Invalidated

Answers(l) ==
    /\ lists[l].query = "asked"
    /\ lists' = [lists EXCEPT ![l].query = "answered",
                              ![l].answer = IF history[Now] = l THEN Now ELSE Gone]
    /\ UNCHANGED <<history, pushed, heard, clock, pending, gathered, reads, own, crossed, faults>>

\* A list that lands replaces what was held; what was placed while it was read is
\* placed again.
Lands(l) ==
    /\ lists[l].query = "answered"
    /\ LET landed == [lists EXCEPT
                        ![l] = [held |-> @.answer, query |-> "idle", answer |-> Unread]]
       IN IF l \in pending /\ HeardAny
          THEN /\ lists' = Placed(landed, Heard)
               /\ pending' = (pending \ {l}) \cup BeingRead(landed)
          ELSE lists' = landed /\ pending' = pending \ {l}
    /\ UNCHANGED <<history, pushed, heard, clock, gathered, reads, own, crossed, faults>>

\* A focus, a mount past the stale time.
Refetch(l) ==
    /\ ~Fetching(l) /\ Fault
    /\ lists' = [lists EXCEPT ![l].query = "asked"]
    /\ UNCHANGED <<history, pushed, heard, clock, pending, gathered, reads, own, crossed>>

----------------------------------------------------------------------------
(* Pushes, and the reader.                                                 *)

Gather(named) ==
    gathered' = CASE gathered = Nothing -> named
                  [] gathered = Unnamed \/ named = Unnamed -> Unnamed
                  [] OTHER -> IF gathered > named THEN gathered ELSE named

\* A push names its version; a replay keeps the last of a page's, and names none.
Hint ==
    /\ pushed < Now
    /\ \/ pushed' = pushed + 1 /\ Gather(pushed + 1)
       \/ pushed' \in (pushed + 1)..Now /\ Gather(Unnamed)
    /\ UNCHANGED <<history, lists, heard, clock, pending, reads, own, crossed, faults>>

\* No answer of the task is on its way to be placed, but for some reads, and none
\* of a list's first read, which an invalidation joins.
QuietBut(some) ==
    /\ reads \subseteq some /\ pending = {} /\ own.pc # "written"
    /\ \A l \in Lists : lists[l].held = Unread => lists[l].query = "asked"

\* readCollections: what is on its way may be older than what the lists will show,
\* and be placed after they were read.
ReadCollections(some) ==
    /\ RefreshLists
    /\ crossed' = IF QuietBut(some) THEN crossed ELSE pushed

\* A version this tab has placed is not read.
Spared == gathered > 0 /\ Holds(gathered)

\* The window closes: the task is read, or a burst has the lists read again.
Flush ==
    /\ gathered # Nothing
    /\ gathered' = Nothing
    /\ IF Spared THEN UNCHANGED <<lists, clock, reads, crossed>>
       ELSE \/ /\ Cardinality(reads) < MaxReads
               /\ clock' = clock + 1
               /\ reads' = reads \cup {[since |-> clock + 1, answer |-> Unread]}
               /\ UNCHANGED <<lists, crossed>>
            \/ ReadCollections({}) /\ UNCHANGED <<clock, reads>>
    /\ UNCHANGED <<history, pushed, heard, pending, own, faults>>

ReadAnswers(r) ==
    /\ r.answer = Unread
    /\ reads' = (reads \ {r}) \cup {[r EXCEPT !.answer = IF Live(Now) THEN Now ELSE Gone]}
    /\ UNCHANGED <<history, pushed, lists, heard, clock, pending, gathered, own, crossed, faults>>

ReadLands(r) ==
    /\ r.answer # Unread
    /\ reads' = reads \ {r}
    /\ PlaceAnswer(r.answer, r.since)
    /\ UNCHANGED <<history, pushed, clock, gathered, own, crossed, faults>>

\* A read that fails leaves the task's place unknown.
ReadFails(r) ==
    /\ Fault
    /\ reads' = reads \ {r}
    /\ ReadCollections({r})
    /\ UNCHANGED <<history, pushed, heard, clock, pending, gathered, own>>

----------------------------------------------------------------------------
(* Writes: this tab's, and others'.                                        *)

Becomes(s) ==
    /\ Now < MaxVersion /\ Live(Now)
    /\ history' = Append(history, s)

\* Another tab, another person, a sweep.
OtherWrites(s) ==
    /\ Becomes(s)
    /\ UNCHANGED <<pushed, lists, heard, clock, pending, gathered, reads, own, crossed, faults>>

\* complete, reopen, save, destroy: the lists show it at once.
Start(l, s) ==
    /\ own.pc = "idle" /\ lists[l].held > 0 /\ s # "archived"
    /\ own' = [pc |-> "asked", version |-> lists[l].held, to |-> s]
    /\ LET w == lists[l].held
       IN lists' = IF s = l THEN lists
                   ELSE [m \in Lists |-> [lists[m] EXCEPT
                           !.held = IF @ = Unread THEN Unread
                                    ELSE IF m = s THEN w ELSE Gone]]
    /\ UNCHANGED <<history, pushed, heard, clock, pending, gathered, reads, crossed, faults>>

\* If-Match: a version that is no more the task's is refused.
Commits ==
    /\ own.pc = "asked"
    /\ IF own.version = Now /\ Live(Now)
       THEN Becomes(own.to) /\ own' = [own EXCEPT !.pc = "written", !.version = Now + 1]
       ELSE own' = [own EXCEPT !.pc = "refused"] /\ UNCHANGED history
    /\ UNCHANGED <<pushed, lists, heard, clock, pending, gathered, reads, crossed, faults>>

\* The answer takes its stamp as it lands: where the task was deleted since, and the
\* reader has gone to look, the answer is newer than what the read says.
Answered ==
    /\ own.pc = "written"
    /\ clock' = clock + 1
    /\ PlaceAnswer(own.version, clock + 1)
    /\ own' = NoWrite
    /\ crossed' = IF gathered = Nothing /\ own.version < pushed /\ ~Live(pushed)
                  THEN pushed ELSE crossed
    /\ UNCHANGED <<history, pushed, gathered, reads, faults>>

\* fail(): refused, or the answer was lost.
Refused ==
    /\ \/ own.pc = "refused" /\ UNCHANGED faults
       \/ own.pc \in {"asked", "written"} /\ Fault
    /\ own' = NoWrite
    /\ RefreshLists
    /\ UNCHANGED <<history, pushed, heard, clock, pending, gathered, reads, crossed>>

Next ==
    \/ \E l \in Lists : Answers(l) \/ Lands(l) \/ Refetch(l)
    \/ Hint \/ Flush
    \/ \E r \in reads : ReadAnswers(r) \/ ReadLands(r) \/ ReadFails(r)
    \/ \E s \in Statuses : OtherWrites(s)
    \/ \E l \in Lists, s \in Statuses : Start(l, s)
    \/ Commits \/ Answered \/ Refused

Spec == Init /\ [][Next]_vars

----------------------------------------------------------------------------
(* Properties.                                                             *)

Versions == 1..MaxVersion

Answer == {Unread, Gone} \cup Versions

ListType == [held : Answer, query : {"idle", "asked", "answered"}, answer : Answer]
ReadType == [since : Nat, answer : Answer]
OwnType == [pc : {"asked", "written", "refused"}, version : Versions, to : Statuses]

TypeOK ==
    /\ history \in Seq(Statuses) /\ Now \in Versions
    /\ pushed \in Versions
    /\ lists \in [Lists -> ListType]
    /\ heard \in [version : {0} \cup Versions, since : Nat, gone : BOOLEAN]
    /\ clock \in Nat /\ heard.since <= clock
    /\ pending \subseteq Lists
    /\ gathered \in {Nothing, Unnamed} \cup Versions
    /\ reads \subseteq ReadType /\ \A r \in reads : r.since <= clock
    /\ own \in OwnType \cup {NoWrite}
    /\ crossed \in 0..pushed
    /\ faults \in 0..MaxFaults

\* Nothing is on its way to the tab.
AtRest ==
    /\ pushed = Now /\ gathered = Nothing /\ reads = {} /\ own.pc = "idle"
    /\ \A l \in Lists : ~Fetching(l)

\* Once nothing is on its way, the list the task belongs in shows its newest
\* version, and a task of neither list is in none: no answer that came late, no
\* refused edit and no list read before the change stands (admit, admitGone, the
\* lists read while a change was placed).  But for a version whose only news had
\* the lists read again while an answer was on its way, or was a deletion that the
\* answer to this tab's write came after.
ListsShowNewest ==
    AtRest /\ crossed # Now =>
        IF history[Now] \in Lists
        THEN lists[history[Now]].held = Now
        ELSE \A l \in Lists : lists[l].held = Gone

\* Nor is it in the other list, at an older version: false of the code, for a
\* placement that is no news leaves what other lists hold.
InOneList == AtRest => Cardinality({l \in Lists : lists[l].held > 0}) <= 1

----------------------------------------------------------------------------
(* Why they show it.                                                       *)

\* What a list that is read now answers.
Right(l) == IF history[Now] = l THEN Now ELSE Gone

\* What is held, answered and heard is of versions that were; a list never read is
\* being read; a 404 is of a task that is deleted; nothing heard has no stamp.
AnswersWere ==
    /\ pushed <= Now /\ heard.version <= Now /\ (heard.gone => ~Live(Now))
    /\ heard.version = 0 /\ ~heard.gone => heard.since = 0
    /\ gathered > 0 => gathered = pushed
    /\ \A l \in Lists :
          /\ lists[l].held > 0 => lists[l].held <= Now /\ history[lists[l].held] \in Lists
          /\ lists[l].held = Unread => Fetching(l)
          /\ lists[l].query = "answered" =>
                \/ lists[l].answer = Gone
                \/ lists[l].answer \in 1..Now /\ history[lists[l].answer] = l
    /\ \A r \in reads : /\ r.answer > 0 => r.answer <= Now /\ Live(r.answer)
                        /\ r.answer = Gone => ~Live(Now)
    /\ own.pc = "written" => own.version <= Now

\* A list shows the newest version out of its place only while the edit that moved
\* it is under way, or until it is read again after that was refused.
MovedForAWhile ==
    \A m \in Lists : lists[m].held = Now /\ history[Now] # m =>
        LET of == lists[history[Now]]
        IN /\ own.pc # "written" /\ of.held # Unread
           /\ own.pc = "idle" => \/ of.query = "asked"
                                 \/ of.query = "answered" /\ of.answer = Now
                                 \/ of.query = "idle" /\ of.held = Now

\* An answer from before a delete would not be admitted.
Outdated(since) == \A r \in reads : r.answer > 0 => r.since < since

\* The ledger has the newest version, or that the task is gone for good.
Known ==
    IF Live(Now) THEN ~heard.gone /\ heard.version = Now
    ELSE (heard.gone \/ heard.version = Now) /\ Outdated(heard.since)

DeleteIsNews == ~Live(Now) /\ heard.version = Now => Outdated(heard.since)

\* A push is to come, or its window is open; nothing is promised of a version whose
\* news was crossed.
Promised == pushed < Now \/ gathered # Nothing \/ crossed = Now

\* A read will tell.
WillTell(r) ==
    /\ r.answer \in {Unread, IF Live(Now) THEN Now ELSE Gone}
    /\ ~Live(Now) => r.since >= heard.since /\ Outdated(r.since)

\* What list l will show once it is not being read any more.
WillShow(l) ==
    \/ lists[l].query = "asked"
    \/ lists[l].query = "answered" /\ (lists[l].answer = Right(l) \/ l \in pending)
    \/ lists[l].query = "idle" /\ (lists[l].held = Right(l)
                                   \/ (history[Now] \in Lists /\ history[Now] # l))

\* An edit under way that was not written will lead to a new version, or to all
\* that was read being read again.
ListsWillShow ==
    \A l \in Lists : own.pc \in {"idle", "written"} \/ lists[l].held = Unread => WillShow(l)

\* The lists are read again, and nothing else will be placed.
OnlyLists == reads = {} /\ pending = {} /\ own.pc # "written"

NewestWillShow ==
    \/ Promised
    \/ \E r \in reads : WillTell(r)
    \/ Known
    \/ ListsWillShow /\ OnlyLists

\* What is known was placed, and stays placed; so does a 404 until an answer from
\* before it takes its place.
KnownWillShow == Known \/ heard.gone => ListsWillShow

IInv ==
    /\ TypeOK /\ AnswersWere /\ DeleteIsNews
    /\ MovedForAWhile /\ KnownWillShow /\ NewestWillShow
=============================================================================
