------------------------------ MODULE Channel ------------------------------
(***************************************************************************)
(* One tab of the portal and its socket: the channel's loop                *)
(* (src/apps/portal/src/realtime/channel.ts), the handler and the send     *)
(* buffer of the API (realtime/socket.py, send_buffer.py), and what its    *)
(* process knows of the tenant's stream (services/impl/realtime.py).  The  *)
(* stream is what Stream promises: numbers without a hole above a floor.   *)
(*                                                                         *)
(* The client runs one job of its inbox at a time.  A fetch and what the   *)
(* page does with its answer are one step: what comes between them shows   *)
(* the page more than this, never less.  Once the tab stops, nothing that  *)
(* happens is of any account to it, and the model stops with it.           *)
(***************************************************************************)
EXTENDS Integers, FiniteSets, SequencesExt

CONSTANTS
    MaxSeq,         \* bound on the records of the stream
    KeyOf,          \* the entity of each, as a route reads it
    Recents,        \* bound on which of them are made since the page began to read
    Notices,        \* the records a person is told about
    PageSize,
    Lane,           \* realtime_send_buffer_size
    MaxInbox,       \* bound on the jobs that wait
    MaxEvents       \* bound on hides, closes, and calls that fail

Seqs == 1..MaxSeq

ChannelAssumption ==
    /\ {MaxSeq, PageSize, Lane, MaxInbox, MaxEvents} \subseteq Nat
    /\ PageSize > 0 /\ Lane > 0 /\ MaxInbox > 0
    /\ DOMAIN KeyOf = Seqs /\ Notices \subseteq Seqs /\ Recents \subseteq SUBSET Seqs

VARIABLES
    head,       \* the last number of the stream
    floor,      \* the last one trimmed
    recent,     \* the records made since the page began to read
    hints,      \* the records the bus has yet to bring to the process, or never will
    server,     \* the socket's handler, and the head its process knows
    lanes,      \* the send buffer
    tab,        \* the connection as the tab holds it
    cursor,     \* the last contiguous number the tab applied
    inbox,      \* jobs, in the order they arrived
    replay,     \* the replay a job runs, if it does
    seen,       \* the records whose change the page has read
    told,       \* the notices handed over, in order
    jumped,     \* up to where the tab started, or started over
    events

vars == <<head, floor, recent, hints, server, lanes, tab, cursor, inbox, replay, seen, told,
          jumped, events>>

stream == <<head, floor, recent>>
page == <<cursor, inbox, replay, seen, told, jumped>>

Null == -1

NoSocket == [phase |-> "none", subscribed |-> FALSE, known |-> 0, fresh |-> FALSE]
NoFrames == [control |-> <<>>, stream |-> <<>>]
NoReplay == [on |-> FALSE, push |-> 0, kept |-> {}]

\* What was made before the page read is on the page from the start, wherever the
\* stream has it: a sweep of the outbox appends an old record late.
Init ==
    /\ head \in 0..MaxSeq
    /\ floor = 0
    /\ recent \in Recents
    /\ hints = {}
    /\ server = NoSocket
    /\ lanes = NoFrames
    /\ tab = [phase |-> "connecting", settled |-> FALSE, failed |-> 0, polling |-> FALSE]
    /\ cursor = Null
    /\ inbox = <<>>
    /\ replay = NoReplay
    /\ seen = Seqs \ recent
    /\ told = <<>>
    /\ jumped = 0
    /\ events = 0

Event == events < MaxEvents /\ events' = events + 1

----------------------------------------------------------------------------
(* The stream, and the bus from its relay to this process.                 *)

Running == tab.phase # "stopped"

Record ==
    /\ Running /\ head < MaxSeq
    /\ head' = head + 1
    /\ hints' = hints \cup {head + 1}
    /\ UNCHANGED <<floor, recent, server, lanes, tab, page, events>>

Trim ==
    /\ Running /\ floor < head
    /\ floor' = floor + 1
    /\ UNCHANGED <<head, recent, hints, server, lanes, tab, page, events>>

\* _learn: a number below the one known proves nothing.
Learn(n) ==
    IF n >= server.known THEN [server EXCEPT !.known = n, !.fresh = TRUE] ELSE server

\* A full stream lane drops its oldest frame.
OfferStream(n) ==
    LET full == Len(lanes.stream) >= Lane
    IN [lanes EXCEPT !.stream = Append(IF full THEN Tail(@) ELSE @, n)]

Hear(n) ==
    /\ Running /\ n \in hints
    /\ hints' = hints \ {n}
    /\ server' = IF server.phase = "none" THEN server ELSE Learn(n)
    /\ lanes' = IF server.subscribed THEN OfferStream(n) ELSE lanes
    /\ UNCHANGED <<stream, tab, page, events>>

----------------------------------------------------------------------------
(* The socket's handler.                                                   *)

OfferControl(type, n) == [lanes EXCEPT !.control = Append(@, [type |-> type, seq |-> n])]

\* channel: the head is read, and named by the hello.
ReadHead ==
    /\ server.phase = "attached"
    /\ server' = [server EXCEPT !.phase = "open", !.known = head, !.fresh = TRUE]
    /\ lanes' = OfferControl("hello", head)
    /\ UNCHANGED <<stream, hints, tab, page, events>>

\* serve_commands: the tab's first command.
Subscribe ==
    /\ server.phase = "open" /\ ~server.subscribed
    /\ server' = [server EXCEPT !.subscribed = TRUE]
    /\ UNCHANGED <<stream, hints, lanes, tab, page, events>>

\* A head that is known once is never read again.
MutKnows == TRUE

\* pong_head: what the process knows, unless it is too old.
Knows == server.fresh

Pong ==
    /\ server.phase = "open" /\ lanes.control = <<>>
    /\ IF Knows
       THEN lanes' = OfferControl("pong", server.known) /\ UNCHANGED server
       ELSE lanes' = OfferControl("pong", head) /\ server' = Learn(head)
    /\ UNCHANGED <<stream, hints, tab, page, events>>

KnownAges ==
    /\ server.fresh
    /\ server' = [server EXCEPT !.fresh = FALSE]
    /\ UNCHANGED <<stream, hints, lanes, tab, page, events>>

----------------------------------------------------------------------------
(* The tab's connection.                                                   *)

Enqueue(kind, n) ==
    /\ Len(inbox) < MaxInbox
    /\ inbox' = Append(inbox, [kind |-> kind, seq |-> n])

\* onopen: a socket that follows another catches up from the cursor at once.
Opens ==
    /\ tab.phase = "connecting"
    /\ tab' = [tab EXCEPT !.phase = "open", !.settled = FALSE]
    /\ server' = [NoSocket EXCEPT !.phase = "attached"]
    /\ IF cursor = Null THEN UNCHANGED inbox ELSE Enqueue("catch up", 0)
    /\ UNCHANGED <<stream, hints, lanes, cursor, replay, seen, told, jumped, events>>

\* settle(): the server spoke, or kept the socket open for a while.
Settled == [tab EXCEPT !.settled = TRUE, !.failed = 0, !.polling = FALSE]

StaysOpen ==
    /\ tab.phase = "open" /\ ~tab.settled
    /\ IF cursor = Null THEN Enqueue("catch up", 0) ELSE UNCHANGED inbox
    /\ tab' = Settled
    /\ UNCHANGED <<stream, hints, server, lanes, cursor, replay, seen, told, jumped, events>>

LetsGo == server' = NoSocket /\ lanes' = NoFrames

\* The ticket is refused, the head cannot be read, the socket closes: one more
\* failed cycle, and from the second on the tab polls.
Drops ==
    /\ tab.phase \in {"connecting", "open"}
    /\ Event
    /\ LET failed == Min({tab.failed + 1, 2})
       IN tab' = [phase |-> "waiting", settled |-> FALSE, failed |-> failed,
                  polling |-> failed > 1]
    /\ LetsGo
    /\ UNCHANGED <<stream, hints, page>>

Reconnect ==
    /\ tab.phase = "waiting"
    /\ tab' = [tab EXCEPT !.phase = "connecting"]
    /\ UNCHANGED <<stream, hints, server, lanes, page, events>>

Poll ==
    /\ tab.polling
    /\ Enqueue("catch up", 0)
    /\ UNCHANGED <<stream, hints, server, lanes, tab, cursor, replay, seen, told, jumped, events>>

Pause ==
    /\ tab.phase \in {"connecting", "open", "waiting"}
    /\ Event
    /\ tab' = [phase |-> "paused", settled |-> FALSE, failed |-> 0, polling |-> FALSE]
    /\ LetsGo
    /\ UNCHANGED <<stream, hints, page>>

Show ==
    /\ tab.phase = "paused"
    /\ tab' = [tab EXCEPT !.phase = "connecting"]
    /\ UNCHANGED <<stream, hints, server, lanes, page, events>>

\* A switch of tenant, a sign-out: nothing is applied or told after it, and what
\* the tab held goes with its page.
Stop ==
    /\ Running
    /\ tab' = [phase |-> "stopped", settled |-> FALSE, failed |-> 0, polling |-> FALSE]
    /\ cursor' = Null /\ inbox' = <<>> /\ replay' = NoReplay
    /\ seen' = {} /\ told' = <<>> /\ jumped' = 0
    /\ LetsGo
    /\ UNCHANGED <<stream, hints, events>>

\* The drainer empties control first; onmessage takes the frame.
Drain ==
    IF lanes.control # <<>>
    THEN LET frame == Head(lanes.control)
         IN /\ lanes' = [lanes EXCEPT !.control = Tail(@)]
            /\ IF frame.type = "pong"
               THEN Enqueue("pong", frame.seq) /\ UNCHANGED <<tab, cursor, jumped>>
               ELSE /\ tab' = Settled
                    /\ IF cursor = Null
                       THEN /\ Enqueue("first", frame.seq)
                            /\ cursor' = frame.seq
                            /\ jumped' = frame.seq
                       ELSE UNCHANGED <<inbox, cursor, jumped>>
            /\ UNCHANGED <<stream, hints, server, replay, seen, told, events>>
    ELSE /\ lanes.stream # <<>>
         /\ Enqueue("push", Head(lanes.stream))
         /\ lanes' = [lanes EXCEPT !.stream = Tail(@)]
         /\ UNCHANGED <<stream, hints, server, tab, cursor, replay, seen, told, jumped, events>>

----------------------------------------------------------------------------
(* The tab's jobs.                                                         *)

\* A route reads again what carries the entities of some records.
Reads(records) == {m \in 1..head : \E n \in records : KeyOf[m] = KeyOf[n]}
ReadsAll == 1..head

Ascending(S) ==
    CHOOSE s \in SetToSeqs(S) : \A i, j \in DOMAIN s : i < j => s[i] < s[j]

Tells(notices) == told' = told \o Ascending(notices \cap Notices)

Place(n) ==
    IF n <= cursor THEN "seen" ELSE IF n = cursor + 1 THEN "next" ELSE "gap"

\* apply(), of a push.
Apply(n) ==
    CASE Place(n) = "seen" -> UNCHANGED <<cursor, seen, told>>
      [] Place(n) = "next" -> /\ cursor' = n
                              /\ seen' = seen \cup Reads({n})
                              /\ Tells({n})

StartReplay(push) ==
    /\ replay' = [on |-> TRUE, push |-> push, kept |-> {}]
    /\ UNCHANGED <<cursor, seen, told>>

RefreshAll ==
    /\ seen' = seen \cup ReadsAll
    /\ UNCHANGED <<cursor, told, replay>>

\* Whether the tail begins within what the page must have read is not asked.
MutCanTell(after, tail) == floor <= after

\* tailSince: the tail reaches back to what the page must have read, or to the
\* stream's start.
CanTell(after, tail) ==
    /\ floor <= after
    /\ after = 0 \/ tail = {} \/ ~(tail \subseteq recent)

\* firstCatchUp: the tail of the stream up to the hello's head, less what the
\* page must have read; all of it when the tail cannot tell, or a fetch fails.
FirstCatchUp(top) ==
    LET after == Max({0, top - PageSize})
        tail == (after + 1)..top
        since == tail \cap recent
    IN IF top = 0 THEN UNCHANGED <<cursor, seen, told, replay, events>>
       ELSE \/ /\ CanTell(after, tail)
               /\ seen' = seen \cup Reads(since)
               /\ Tells(since)
               /\ UNCHANGED <<cursor, replay, events>>
            \/ ~CanTell(after, tail) /\ RefreshAll /\ UNCHANGED events
            \/ RefreshAll /\ Event

RunJob ==
    /\ inbox # <<>> /\ ~replay.on
    /\ inbox' = Tail(inbox)
    /\ LET job == Head(inbox)
       IN \/ /\ job.kind = "push"
             /\ IF Place(job.seq) = "gap" THEN StartReplay(job.seq)
                ELSE Apply(job.seq) /\ UNCHANGED replay
             /\ UNCHANGED events
          \/ /\ job.kind = "pong"
             /\ IF cursor # Null /\ job.seq > cursor THEN StartReplay(0)
                ELSE UNCHANGED <<cursor, seen, told, replay>>
             /\ UNCHANGED events
          \/ /\ job.kind = "catch up"
             /\ IF cursor = Null THEN RefreshAll ELSE StartReplay(0)
             /\ UNCHANGED events
          \/ job.kind = "first" /\ FirstCatchUp(job.seq)
    /\ UNCHANGED <<stream, hints, server, lanes, tab, jumped>>

\* How a replay ends: its notices are handed over, and the push it began for is
\* applied if its turn has come, and routed if it is still ahead.
EndReplay(passed, read, kept) ==
    LET push == replay.push
        next == push = passed + 1
    IN /\ replay' = NoReplay
       /\ cursor' = IF next THEN push ELSE passed
       /\ seen' = read \cup IF push > passed THEN Reads({push}) ELSE {}
       /\ Tells(kept \cup IF next THEN {push} ELSE {})

\* One page after the cursor; a stream trimmed past it is read afresh, and the
\* cursor goes to its head.
ReplayPage ==
    /\ replay.on
    /\ IF cursor < floor
       THEN /\ EndReplay(Max({cursor, head}), seen \cup ReadsAll, replay.kept)
            /\ jumped' = head
       ELSE LET last == Min({cursor + PageSize, head})
                records == (cursor + 1)..last
                kept == replay.kept \cup (records \cap Notices)
                read == seen \cup Reads(records)
            IN /\ IF last - cursor < PageSize
                  THEN EndReplay(last, read, kept)
                  ELSE /\ replay' = [replay EXCEPT !.kept = kept]
                       /\ cursor' = last
                       /\ seen' = read
                       /\ UNCHANGED told
               /\ UNCHANGED jumped
    /\ UNCHANGED <<stream, hints, server, lanes, tab, inbox, events>>

ReplayFails ==
    /\ replay.on
    /\ Event
    /\ EndReplay(cursor, seen, replay.kept)
    /\ UNCHANGED <<stream, hints, server, lanes, tab, inbox, jumped>>

Next ==
    \/ Record \/ Trim
    \/ \E n \in Seqs : Hear(n)
    \/ ReadHead \/ Subscribe \/ Pong \/ KnownAges
    \/ Opens \/ StaysOpen \/ Drops \/ Reconnect \/ Poll \/ Pause \/ Show \/ Stop
    \/ Drain \/ RunJob \/ ReplayPage \/ ReplayFails

Spec == Init /\ [][Next]_vars

\* The loops of both sides go on; nothing is assumed of the bus, of the stream, or
\* of the person.
Fairness ==
    /\ WF_vars(ReadHead) /\ WF_vars(Pong) /\ WF_vars(KnownAges)
    /\ WF_vars(Opens) /\ WF_vars(Reconnect)
    /\ WF_vars(Drain) /\ WF_vars(RunJob) /\ WF_vars(ReplayPage)

FairSpec == Spec /\ Fairness

----------------------------------------------------------------------------
(* Properties.                                                             *)

Numbers == 0..MaxSeq

Frame == [type : {"hello", "pong"}, seq : Numbers]

Job == [kind : {"push", "pong", "catch up", "first"}, seq : Numbers]

TypeOK ==
    /\ {head, floor, jumped} \subseteq Numbers
    /\ {recent, hints, seen} \subseteq SUBSET Seqs
    /\ server \in [phase : {"none", "attached", "open"}, subscribed : BOOLEAN,
                   known : Numbers, fresh : BOOLEAN]
    /\ lanes \in [control : Seq(Frame), stream : Seq(Seqs)]
    /\ Len(lanes.stream) <= Lane
    /\ tab \in [phase : {"connecting", "open", "waiting", "paused", "stopped"},
                settled : BOOLEAN, failed : 0..2, polling : BOOLEAN]
    /\ cursor \in Numbers \cup {Null}
    /\ inbox \in Seq(Job) /\ Len(inbox) <= MaxInbox
    /\ replay \in [on : BOOLEAN, push : Numbers, kept : SUBSET Seqs]
    /\ told \in Seq(Seqs)
    /\ events \in 0..MaxEvents

\* What was made since the page began to read and lies before the one page of the
\* first catch-up, where that page has a record made earlier, relayed late: the
\* tail is taken to tell unless all of it is recent (tailSince).
Overlooked ==
    LET after == jumped - PageSize
    IN {n \in recent : n <= after /\ ~((after + 1)..jumped \subseteq recent)}

\* The tab never moves past a change its page has not read, whatever pushes were
\* dropped, overtaken or lost, but for the first catch-up that is still to run and
\* for what it overlooks (place, replay, resync, firstCatchUp).
NothingIsPassed ==
    cursor # Null /\ (\A i \in DOMAIN inbox : inbox[i].kind # "first")
        => 1..cursor \subseteq seen \cup Overlooked

\* Each notice is told once, in the order of the stream, and none the cursor
\* passed one by one is left out: it is told, or kept for the end of the replay.
\* Only what the first catch-up tells may follow a later one, where the hello
\* came after the socket had counted as stable (announce, replay).
NoticesAreToldOnce ==
    /\ \A i, j \in DOMAIN told : i < j =>
          told[i] # told[j] /\ (told[i] < told[j] \/ told[j] <= jumped)
    /\ \A n \in Notices : jumped < n /\ n <= cursor => n \in Range(told) \cup replay.kept

\* Whatever the socket and the bus lost, a tab that stays has the whole stream in
\* the end.
HasAll == tab.phase \in {"paused", "stopped"} \/ cursor = head
CatchesUp == <>[]HasAll

----------------------------------------------------------------------------
(* Why nothing is passed, and each notice is told once.                    *)

\* Every number that is about was recorded.
AllRecorded ==
    /\ floor <= head /\ cursor <= head /\ jumped <= head /\ server.known <= head
    /\ replay.push <= head
    /\ \A n \in hints : n <= head
    /\ \A i \in DOMAIN lanes.control : lanes.control[i].seq <= head
    /\ \A i \in DOMAIN lanes.stream : lanes.stream[i] <= head
    /\ \A i \in DOMAIN inbox : inbox[i].seq <= head

\* A socket speaks its hello first, and it is from a hello that the cursor starts.
HelloIsFirst ==
    /\ server.phase # "none" => tab.phase = "open"
    /\ server.phase # "open" => ~server.subscribed /\ lanes.control = <<>>
    /\ server.phase = "open" /\ cursor = Null => lanes.control # <<>>
    /\ ~server.subscribed => lanes.stream = <<>>
    /\ lanes.control # <<>> => Len(lanes.control) = 1
    /\ lanes.control # <<>> /\ cursor = Null => lanes.control[1].type = "hello"
    /\ cursor = Null =>
          /\ ~replay.on /\ told = <<>> /\ jumped = 0
          /\ \A i \in DOMAIN inbox : inbox[i].kind \in {"pong", "catch up"}
    /\ tab.phase = "stopped" => cursor = Null /\ inbox = <<>> /\ ~tab.polling

\* A replay keeps what is later than all that was told; the first catch-up, of
\* which there is one, tells what is earlier.
KeptIsLater ==
    /\ cursor # Null => jumped <= cursor
    /\ ~replay.on => replay.kept = {}
    /\ replay.kept \subseteq Notices /\ \A n \in replay.kept : n <= cursor
    /\ \A i \in DOMAIN told : told[i] <= cursor /\ \A n \in replay.kept : told[i] < n
    /\ \A i \in DOMAIN inbox : inbox[i].kind = "first" =>
          /\ inbox[i].seq <= jumped
          /\ \A j \in DOMAIN inbox : inbox[j].kind = "first" => i = j
          /\ \A k \in DOMAIN told : inbox[i].seq < told[k]
          /\ \A n \in replay.kept : inbox[i].seq < n

\* What is passed while the first catch-up is still to run was read, and all of the
\* stream where a restart came before it.
PassedSinceHello ==
    /\ \A i \in DOMAIN inbox : inbox[i].kind = "first" =>
          /\ (inbox[i].seq + 1)..cursor \subseteq seen
          /\ inbox[i].seq = jumped \/ 1..cursor \subseteq seen
    /\ tab.phase # "stopped" => Seqs \ recent \subseteq seen

IInv ==
    /\ TypeOK /\ AllRecorded /\ HelloIsFirst /\ KeptIsLater /\ NoticesAreToldOnce
    /\ PassedSinceHello /\ NothingIsPassed
=============================================================================
