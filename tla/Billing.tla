------------------------------ MODULE Billing ------------------------------
(***************************************************************************)
(* The billing account of one org: the checkouts that make its customer at *)
(* the payment processor, the deliveries that mirror its subscription, and *)
(* the writes of the whole row that race them (billing/impl/manager.py,    *)
(* operator.py, storage/impl/postgres.py).  The processor is modelled from *)
(* how they call it: a key's first answer is every later call's, and a     *)
(* change of a subscription sends one event, which the queue hands over    *)
(* until a copy is handled, and may hand over again after.                 *)
(*                                                                         *)
(* The processor's keys outlive the calls made under them (a day).         *)
(***************************************************************************)
EXTENDS Integers, FiniteSets

CONSTANTS
    Starts,         \* the checkouts people start
    Workers,        \* who handles a delivery
    MaxChanges,     \* bound on the changes of each subscription
    MaxFaults,      \* bound on calls for a customer that fail
    MaxGrants       \* bound on the operator's grants

BillingAssumption ==
    /\ IsFiniteSet(Starts) /\ IsFiniteSet(Workers)
    /\ MaxChanges \in Nat \ {0} /\ {MaxFaults, MaxGrants} \subseteq Nat
    /\ {"editor", "grants"} \cap Workers = {}

VARIABLES
    account,    \* the row, or NoAccount
    answers,    \* what the processor answered under the key of each attempt
    customers,  \* how many customers it made for the org
    subs,       \* the org's subscriptions at the processor, as they are now
    sessions,   \* checkouts that were handed out and are not completed
    marks,      \* events whose mark is committed
    done,       \* events a copy of which was handled to its end
    starts,     \* what each start holds
    workers,    \* what each handling of a delivery holds
    editor,     \* what a change of the plan, or of its seats, holds
    grants,     \* what the operator's grant holds, and how many there were
    faults,
    stale,      \* who holds a row that was written since it was read
    overtaken   \* whether one of them wrote it

vars == <<account, answers, customers, subs, sessions, marks, done, starts,
          workers, editor, grants, faults, stale, overtaken>>

Attempts == 0..MaxFaults
\* An answer is the customer that was made.
None == 0
Failed == -1

Subs == 1..Cardinality(Starts)
Events == Subs \X (1..MaxChanges)

NoSub == [customer |-> 0, live |-> FALSE, version |-> 0]

NoAccount == [exists |-> FALSE, customer |-> 0, attempt |-> 0, sub |-> 0,
              live |-> FALSE, version |-> 0, comped |-> FALSE]

NoStart == [pc |-> "idle", attempt |-> 0]
NoWork == [pc |-> "idle", event |-> <<1, 1>>, read |-> NoAccount, sub |-> NoSub]
NoEdit == [pc |-> "idle", read |-> NoAccount, sub |-> NoSub]

Init ==
    /\ account = NoAccount
    /\ answers = [a \in Attempts |-> None]
    /\ customers = 0
    /\ subs = [s \in Subs |-> NoSub]
    /\ sessions = 0
    /\ marks = {} /\ done = {}
    /\ starts = [c \in Starts |-> NoStart]
    /\ workers = [w \in Workers |-> NoWork]
    /\ editor = NoEdit
    /\ grants = [made |-> 0, pc |-> "idle", read |-> NoAccount]
    /\ faults = 0
    /\ stale = {}
    /\ overtaken = FALSE

\* The events the processor has sent: one for each version.
Sent == {e \in Events : e[2] <= subs[e[1]].version}

\* Who holds a copy of the row, to write it back.
Holders ==
    {w \in Workers : workers[w].pc # "idle"}
        \cup (IF editor.pc = "idle" THEN {} ELSE {"editor"})
        \cup (IF grants.pc = "idle" THEN {} ELSE {"grants"})

\* write_account(): the whole row, as its holder copied it from the one it read.
WriteRow(holder, row) ==
    /\ account' = row
    /\ overtaken' = (overtaken \/ holder \in stale)
    /\ stale' = Holders \ {holder}

\* The other writes, each on a condition of its own.
WriteColumns(row) ==
    /\ account' = row
    /\ stale' = IF row = account THEN stale ELSE Holders

PutDown(holder) == stale' = stale \ {holder}

\* mirrored(): the account with a subscription as the processor answered it.
Mirrored(row, s, sub) ==
    [row EXCEPT !.sub = s, !.live = sub.live, !.version = sub.version]

----------------------------------------------------------------------------
(* start_checkout()                                                        *)

StartReads(c) ==
    /\ starts[c].pc = "idle"
    /\ ~account.live
    /\ starts' = [starts EXCEPT ![c] =
          [NoStart EXCEPT !.pc = IF account.customer = 0 THEN "asking" ELSE "named",
                          !.attempt = account.attempt]]
    /\ UNCHANGED <<account, answers, customers, subs, sessions, marks, done,
                   workers, editor, grants, faults, stale, overtaken>>

\* customer_key(): the org and the attempt name the key.  The processor makes a
\* customer, or fails and answers that; either is the key's answer from then on.
Ask(c) ==
    /\ starts[c].pc = "asking"
    /\ LET a == starts[c].attempt
       IN \/ /\ answers[a] = None
             /\ customers' = customers + 1
             /\ answers' = [answers EXCEPT ![a] = customers']
             /\ UNCHANGED faults
          \/ /\ answers[a] = None
             /\ faults < MaxFaults
             /\ faults' = faults + 1
             /\ answers' = [answers EXCEPT ![a] = Failed]
             /\ UNCHANGED customers
          \/ /\ answers[a] # None
             /\ UNCHANGED <<answers, customers, faults>>
    /\ starts' = [starts EXCEPT ![c].pc = "asked"]
    /\ UNCHANGED <<account, subs, sessions, marks, done, workers, editor,
                   grants, stale, overtaken>>

\* A failure of any kind moves the org to the next key.
MutMovesOn(failure) == TRUE

\* Only a failure the processor answered does.
MovesOn(failure) == failure = "answered"

\* _next_customer_attempt(): an account is made at the next attempt, or moved to
\* it, unless another start moved it or named a customer.
NextAttempt(a) ==
    IF ~account.exists
    THEN [NoAccount EXCEPT !.exists = TRUE, !.attempt = a + 1]
    ELSE IF account.customer = 0 /\ account.attempt = a
    THEN [account EXCEPT !.attempt = a + 1]
    ELSE account

StartFails(c) ==
    /\ starts[c].pc = "asked"
    /\ LET a == starts[c].attempt
       IN \E failure \in {"answered", "unanswered"} :
             /\ failure = "answered" <=> answers[a] = Failed
             /\ failure = "unanswered" => faults < MaxFaults
             /\ faults' = IF failure = "unanswered" THEN faults + 1 ELSE faults
             /\ WriteColumns(IF MovesOn(failure) THEN NextAttempt(a) ELSE account)
    /\ starts' = [starts EXCEPT ![c] = NoStart]
    /\ UNCHANGED <<answers, customers, subs, sessions, marks, done, workers,
                   editor, grants, overtaken>>

\* _with_customer(): the account is made with the customer, or takes it while it
\* names none (create_account, record_customer).
StartNames(c) ==
    /\ starts[c].pc = "asked"
    /\ LET customer == answers[starts[c].attempt]
       IN /\ customer \notin {None, Failed}
          /\ WriteColumns(IF account.customer = 0
                          THEN [account EXCEPT !.exists = TRUE, !.customer = customer]
                          ELSE account)
    /\ starts' = [starts EXCEPT ![c].pc = "named"]
    /\ UNCHANGED <<answers, customers, subs, sessions, marks, done, workers,
                   editor, grants, faults, overtaken>>

StartEnds(c) ==
    /\ starts[c].pc = "named"
    /\ sessions' = sessions + 1
    /\ starts' = [starts EXCEPT ![c].pc = "done"]
    /\ UNCHANGED <<account, answers, customers, subs, marks, done, workers,
                   editor, grants, faults, stale, overtaken>>

----------------------------------------------------------------------------
(* The processor: a checkout is completed, a subscription changes or ends. *)

\* One at a time: a person who completes two checkouts at once pays twice.
Subscribe(s) ==
    /\ sessions > 0
    /\ subs[s].version = 0
    /\ \A t \in Subs : ~subs[t].live /\ (t < s => subs[t].version > 0)
    /\ sessions' = sessions - 1
    /\ subs' = [subs EXCEPT ![s] = [customer |-> customers, live |-> TRUE, version |-> 1]]
    /\ UNCHANGED <<account, answers, customers, marks, done, starts, workers,
                   editor, grants, faults, stale, overtaken>>

Changed(sub, live) == [sub EXCEPT !.live = live, !.version = @ + 1]

ProcessorChanges(s) ==
    /\ subs[s].live
    /\ subs[s].version < MaxChanges
    /\ \E live \in BOOLEAN : subs' = [subs EXCEPT ![s] = Changed(@, live)]
    /\ UNCHANGED <<account, answers, customers, sessions, marks, done, starts,
                   workers, editor, grants, faults, stale, overtaken>>

----------------------------------------------------------------------------
(* apply_delivery()                                                        *)

\* A copy that was applied, or that finds no customer, is done with at once.
Take(w, e) ==
    /\ workers[w].pc = "idle"
    /\ e \in Sent
    /\ IF e \in marks \/ account.customer = 0
       THEN /\ done' = done \cup {e}
            /\ UNCHANGED workers
       ELSE /\ workers' = [workers EXCEPT ![w] =
                  [NoWork EXCEPT !.pc = "read", !.event = e, !.read = account]]
            /\ UNCHANGED done
    /\ UNCHANGED <<account, answers, customers, subs, sessions, marks, starts,
                   editor, grants, faults, stale, overtaken>>

\* The subscription is read again, never taken from the delivery.
Fetch(w) ==
    /\ workers[w].pc = "read"
    /\ workers' = [workers EXCEPT ![w].pc = "fetched", ![w].sub = subs[workers[w].event[1]]]
    /\ UNCHANGED <<account, answers, customers, subs, sessions, marks, done,
                   starts, editor, grants, faults, stale, overtaken>>

\* A mirror that never takes what is no longer live.
MutFollows(row, s, sub) == sub.customer = row.customer /\ sub.live

\* _follows() and should_mirror().
Follows(row, s, sub) ==
    /\ sub.customer = row.customer
    /\ row.sub \in {0, s} \/ sub.live

\* The mark is first: a copy already applied stops there, with nothing written.
Apply(w) ==
    /\ workers[w].pc = "fetched"
    /\ LET e == workers[w].event
           read == workers[w].read
           sub == workers[w].sub
       IN /\ IF e \notin marks
             THEN WriteRow(w, IF Follows(read, e[1], sub)
                              THEN Mirrored(read, e[1], sub) ELSE read)
             ELSE PutDown(w) /\ UNCHANGED <<account, overtaken>>
          /\ marks' = marks \cup {e}
          /\ done' = done \cup {e}
    /\ workers' = [workers EXCEPT ![w] = NoWork]
    /\ UNCHANGED <<answers, customers, subs, sessions, starts, editor, grants, faults>>

\* A call fails, or the worker dies: the delivery comes back.
ComesBack(w) ==
    /\ workers[w].pc # "idle"
    /\ workers' = [workers EXCEPT ![w] = NoWork]
    /\ PutDown(w)
    /\ UNCHANGED <<account, answers, customers, subs, sessions, marks, done,
                   starts, editor, grants, faults, overtaken>>

----------------------------------------------------------------------------
(* cancel(), resume(), sync_seats(): the processor is told, then mirrored. *)

EditReads ==
    /\ editor.pc = "idle"
    /\ account.live
    /\ editor' = [NoEdit EXCEPT !.pc = "read", !.read = account]
    /\ UNCHANGED <<account, answers, customers, subs, sessions, marks, done,
                   starts, workers, grants, faults, stale, overtaken>>

EditTells ==
    /\ editor.pc = "read"
    /\ LET s == editor.read.sub
       IN /\ subs[s].live
          /\ subs[s].version < MaxChanges
          /\ subs' = [subs EXCEPT ![s] = Changed(@, TRUE)]
          /\ editor' = [editor EXCEPT !.pc = "told", !.sub = subs'[s]]
    /\ UNCHANGED <<account, answers, customers, sessions, marks, done, starts,
                   workers, grants, faults, stale, overtaken>>

EditWrites ==
    /\ editor.pc = "told"
    /\ WriteRow("editor", Mirrored(editor.read, editor.read.sub, editor.sub))
    /\ editor' = NoEdit
    /\ UNCHANGED <<answers, customers, subs, sessions, marks, done, starts,
                   workers, grants, faults>>

\* The call is refused, or the process dies before the write.
EditFails ==
    /\ editor.pc # "idle"
    /\ editor' = NoEdit
    /\ PutDown("editor")
    /\ UNCHANGED <<account, answers, customers, subs, sessions, marks, done,
                   starts, workers, grants, faults, overtaken>>

----------------------------------------------------------------------------
(* comp_plan()                                                             *)

GrantReads ==
    /\ grants.pc = "idle"
    /\ grants.made < MaxGrants
    /\ grants' = [made |-> grants.made + 1, pc |-> "read", read |-> account]
    /\ UNCHANGED <<account, answers, customers, subs, sessions, marks, done,
                   starts, workers, editor, faults, stale, overtaken>>

\* A plan is granted, or taken back.  A create that meets an account starts over.
GrantWrites ==
    /\ grants.pc = "read"
    /\ IF grants.read.exists \/ ~account.exists
       THEN /\ WriteRow("grants", [grants.read EXCEPT !.exists = TRUE, !.comped = ~@])
            /\ grants' = [grants EXCEPT !.pc = "idle", !.read = NoAccount]
       ELSE /\ grants' = [grants EXCEPT !.read = account]
            /\ PutDown("grants")
            /\ UNCHANGED <<account, overtaken>>
    /\ UNCHANGED <<answers, customers, subs, sessions, marks, done, starts,
                   workers, editor, faults>>

Next ==
    \/ \E c \in Starts : StartReads(c) \/ Ask(c) \/ StartFails(c) \/ StartNames(c) \/ StartEnds(c)
    \/ \E s \in Subs : Subscribe(s) \/ ProcessorChanges(s)
    \/ \E w \in Workers : \/ \E e \in Events : Take(w, e)
                          \/ Fetch(w) \/ Apply(w) \/ ComesBack(w)
    \/ EditReads \/ EditTells \/ EditWrites \/ EditFails
    \/ GrantReads \/ GrantWrites

Spec == Init /\ [][Next]_vars

----------------------------------------------------------------------------
(* Properties.                                                             *)

Row == [exists : BOOLEAN, customer : Nat, attempt : Attempts, sub : {0} \cup Subs,
        live : BOOLEAN, version : 0..MaxChanges, comped : BOOLEAN]

Sub == [customer : Nat, live : BOOLEAN, version : 0..MaxChanges]

AStart == [pc : {"idle", "asking", "asked", "named", "done"}, attempt : Attempts]
Work == [pc : {"idle", "read", "fetched"}, event : Nat \X Nat, read : Row, sub : Sub]
AnEdit == [pc : {"idle", "read", "told"}, read : Row, sub : Sub]
Grant == [made : 0..MaxGrants, pc : {"idle", "read"}, read : Row]

TypeOK ==
    /\ account \in Row
    /\ answers \in [Attempts -> {Failed, None} \cup 1..customers]
    /\ {customers, sessions} \subseteq Nat /\ faults \in 0..MaxFaults
    /\ subs \in [Subs -> Sub]
    /\ marks \subseteq done /\ done \subseteq Sent
    /\ starts \in [Starts -> AStart]
    /\ workers \in [Workers -> Work]
    /\ editor \in AnEdit
    /\ grants \in Grant
    /\ stale \subseteq Holders
    /\ overtaken \in BOOLEAN

\* The processor makes one customer for the org, whatever starts race, fail or go
\* unanswered, and whatever a stale row undoes (customer_key: two that race make
\* one customer).
OneCustomer == customers <= 1

\* Once every event sent has been handled, in whatever order, however often, the
\* account mirrors the subscription the org has at the processor, as it is now, or
\* none that is live, unless one write of the whole row overlapped another
\* (should_mirror: a late delivery about the old one must not overwrite the new
\* one with its end).
Converges ==
    LET live == {s \in Subs : subs[s].live}
    IN done = Sent /\ Holders = {} /\ ~overtaken =>
           IF live = {} THEN ~account.live
           ELSE /\ account.live
                /\ account.sub \in live
                /\ account.version = subs[account.sub].version

----------------------------------------------------------------------------
(* Why they hold.                                                          *)

\* An attempt that somebody reached: each before it failed.
InTurn(a) == \A b \in Attempts : b < a => answers[b] = Failed

\* The keys are used in turn, and the last of them, if it did not fail, made the
\* customer.
AnswersHold ==
    /\ OneCustomer
    /\ \A a \in Attempts : /\ answers[a] # None => InTurn(a)
                           /\ answers[a] = Failed => a < faults
    /\ customers > 0 => \E a \in Attempts : answers[a] \notin {None, Failed}
    /\ \A c \in Starts : /\ InTurn(starts[c].attempt)
                         /\ starts[c].pc = "asked" => answers[starts[c].attempt] # None

\* A subscription as it was once, which is as it is while its version is.
WasSub(s, live, version) ==
    /\ s \in Subs /\ version \in 1..subs[s].version
    /\ version = subs[s].version => live = subs[s].live

\* What holds of the row, and of each copy of it, however old.
RowHolds(row) ==
    /\ ~row.exists => row = NoAccount
    /\ row.customer <= customers
    /\ InTurn(row.attempt)
    /\ IF row.sub = 0 THEN ~row.live ELSE WasSub(row.sub, row.live, row.version)

\* The org has one subscription after another.
SubsHold ==
    \A s \in Subs :
        /\ subs[s].live => subs[s].version > 0
        /\ \A t \in Subs : t < s /\ subs[s].version > 0 => ~subs[t].live /\ subs[t].version > 0

\* A delivery is of an event that was sent, to an account there is, and what was
\* fetched for it is of the event's version or a later one.
DeliveryHolds(w) ==
    workers[w].pc # "idle" =>
        /\ workers[w].event \in Sent /\ workers[w].read.exists
        /\ workers[w].pc = "fetched" =>
              /\ WasSub(workers[w].event[1], workers[w].sub.live, workers[w].sub.version)
              /\ workers[w].event[2] <= workers[w].sub.version

EditHolds ==
    /\ editor.pc # "idle" => editor.read.live
    /\ editor.pc = "told" => WasSub(editor.read.sub, editor.sub.live, editor.sub.version)

Copies == {account, editor.read, grants.read} \cup {workers[w].read : w \in Workers}

CopiesHold ==
    /\ \A row \in Copies : RowHolds(row)
    /\ \A w \in Workers : DeliveryHolds(w)
    /\ EditHolds

\* Whoever could write over nobody has the row as it is.
FreshIsRow ==
    /\ \A w \in Workers \ stale : workers[w].pc # "idle" => workers[w].read = account
    /\ editor.pc # "idle" /\ "editor" \notin stale => editor.read = account
    /\ grants.pc # "idle" /\ "grants" \notin stale => grants.read = account

\* Once a checkout was handed out, the account has the customer it is for.
CustomerIsNamed ==
    /\ sessions > 0 \/ (\E c \in Starts : starts[c].pc \in {"named", "done"})
          \/ (\E s \in Subs : subs[s].version > 0) => account.customer = 1
    /\ \A s \in Subs : subs[s].version > 0 => subs[s].customer = 1
    /\ \A w \in Workers : workers[w].pc = "fetched" => workers[w].sub.customer = 1

\* What was fetched for s covers each event of s that is marked.
Covers(s, version) == \A v \in 1..MaxChanges : <<s, v>> \in marks => v <= version

\* What somebody who could write over nobody has fetched is news to the account.
FetchedIsNews ==
    /\ \A w \in Workers \ stale : workers[w].pc = "fetched" =>
          /\ Covers(workers[w].event[1], workers[w].sub.version)
          /\ account.sub > workers[w].event[1] => ~workers[w].sub.live
    /\ editor.pc = "told" /\ "editor" \notin stale => Covers(editor.read.sub, editor.sub.version)

\* The account says of a subscription what its newest event does, once that is
\* marked, and names it if it is live.
MarkedIsMirrored ==
    /\ marks # {} => account.sub # 0
    /\ done \subseteq marks
    /\ \A s \in Subs : <<s, subs[s].version>> \in marks =>
          /\ account.sub = s => account.version = subs[s].version
          /\ subs[s].live => account.sub = s

IInv ==
    /\ TypeOK /\ AnswersHold /\ SubsHold /\ CopiesHold /\ FreshIsRow
    /\ ~overtaken => CustomerIsNamed /\ FetchedIsNews /\ MarkedIsMirrored
=============================================================================
