----------------------------- MODULE TasksProofs -----------------------------
(***************************************************************************)
(* Tasks, each part for all its constants: the imports that make many of   *)
(* them, the reminder of one, the order of an org's open list, and the     *)
(* outbox of what is written.                                              *)
(*                                                                         *)
(* The rows of a file land once, an import that ended stays so, and one    *)
(* under way is carried on. None of it is inductive: a step writes what it *)
(* read, and only because its version says the record is the one it read   *)
(* (ItemHolds), and because no row past the cursor is there yet, does what *)
(* it writes count each row once. A wake resumes by the version too        *)
(* (WakeHolds); that it reaches all that are parked is that the first of a *)
(* batch are the least (FirstAreLeast). A set that is finite has a         *)
(* greatest, by the well-founded order of its subsets.                     *)
(*                                                                         *)
(* A task that is open and due has an item on its way, or told its team.   *)
(* The item that counts is not marked in the row: it is any that asks in   *)
(* time (AskedFor), which a write that moves the date queues with the row, *)
(* and a row that was read is written only at the version it was read at   *)
(* (EditsHold, MarkHolds).                                                 *)
(*                                                                         *)
(* A respace of the list changes no order it shows. Its reads are in       *)
(* statements of their own, so what they found is true of those alone that *)
(* stayed where they were (Stayed): a read of a side holds all of these    *)
(* or, as far as it reached, all that are not beyond its last (SideHolds). *)
(* So one that the run leaves out stands past an edge (LeftOut), and the   *)
(* new ranks ascend strictly between the edges (SpreadIs).                 *)
(*                                                                         *)
(* A row of the outbox that is done was told, for any rows, requests,      *)
(* hands and sweeps. DoneMeansTold does not say what a task has done with  *)
(* the rows it is about to mark; TasksHold does.                           *)
(***************************************************************************)
EXTENDS Imports, FiniteSetTheorems, TLAPS

\* Of the reminder.
CONSTANTS People, Dates, LagOf, MaxNow, MaxItems, MaxVersion, MaxFaults, Editors, Runners

VARIABLES task, reminders, queued, now, edits, runs, faults, told, missed

\* Of the order of the list.
CONSTANTS Base, Digits, Tasks, FirstRanks, Bound, Short, Reach, Calls, MaxWrites

VARIABLES listed, calls, sweep, placed

\* Of the outbox.
CONSTANTS Rows, WorkRows, Requests, RequestOf, Hands, Sweeps, MaxHolders, Limit, Grace,
          Wait, Cap, MaxDeaths

VARIABLES outbox, holds, relays, sent, stream, posted, named, deaths

RM == INSTANCE Reminders WITH items <- reminders
TL == INSTANCE TaskList WITH tasks <- listed
OB == INSTANCE Outbox WITH
    Base <- Wait, MaxFaults <- MaxDeaths,
    rows <- outbox, told <- sent, queued <- posted, faults <- deaths

-----------------------------------------------------------------------------
(* Numbers.                                                                *)

\* A finite set of numbers has a greatest.
LEMMA GreatestOf ==
    ASSUME NEW S \in SUBSET Nat, IsFiniteSet(S), S # {}
    PROVE  /\ Max(S) \in S
           /\ \A n \in S : n <= Max(S)
<1> DEFINE Bad == {T \in FiniteSubsetsOf(S) : T # {} /\ ~\E m \in T : \A n \in T : n <= m}
<1>1. Bad = {}
  <2> SUFFICES ASSUME Bad # {} PROVE FALSE
    OBVIOUS
  <2>1. PICK T \in Bad : \A U \in Bad : <<U, T>> \notin StrictSubsetOrdering(S)
    BY FS_StrictSubsetOrderingWellFounded, WFMin
  <2>2. T \in SUBSET S /\ IsFiniteSet(T) /\ T # {}
    BY DEF FiniteSubsetsOf
  <2>3. PICK t \in T : TRUE
    BY <2>2
  <2> DEFINE U == T \ {t}
  <2>4. U \in FiniteSubsetsOf(S) /\ U # T
    BY <2>2, <2>3, FS_RemoveElement DEF FiniteSubsetsOf
  <2>5. <<U, T>> \in StrictSubsetOrdering(S)
    BY <2>2, <2>4 DEF StrictSubsetOrdering, FiniteSubsetsOf
  <2>6. U \notin Bad
    BY <2>1, <2>5
  <2>7. CASE U = {}
    <3>1. \A n \in T : n <= t
      BY <2>2, <2>7
    <3> QED BY <3>1
  <2>8. CASE U # {}
    <3>1. PICK m \in U : \A n \in U : n <= m
      BY <2>4, <2>6, <2>8
    <3>2. CASE t <= m
      <4>1. m \in T /\ \A n \in T : n <= m
        BY <3>1, <3>2
      <4> QED BY <4>1
    <3>3. CASE ~(t <= m)
      <4>1. \A n \in T : n <= t
        BY <2>2, <3>1, <3>3
      <4> QED BY <4>1
    <3> QED BY <3>2, <3>3
  <2> QED BY <2>7, <2>8
<1>2. S \in FiniteSubsetsOf(S)
  BY DEF FiniteSubsetsOf
<1>3. \E m \in S : \A n \in S : n <= m
  BY <1>1, <1>2
<1> QED BY <1>3 DEF Max

\* Numbers have a least.
LEMMA LeastOf ==
    ASSUME NEW S \in SUBSET Nat, S # {}
    PROVE  \E n \in S : \A m \in S : n <= m
<1>1. PICK top \in S : TRUE
  OBVIOUS
<1> DEFINE Below == {k \in 0..top : top - k \in S}
<1>2. Below \in SUBSET Nat /\ IsFiniteSet(Below) /\ 0 \in Below
  <2>1. top \in Nat /\ top - 0 = top /\ 0 \in 0..top
    BY <1>1
  <2>2. 0 \in Below /\ Below \in SUBSET (0..top)
    BY <1>1, <2>1
  <2>3. IsFiniteSet(0..top) /\ 0..top \subseteq Nat
    BY <2>1, FS_Interval
  <2> QED BY <2>2, <2>3, FS_Subset
<1> DEFINE k == Max(Below)
<1>3. k \in Below /\ \A j \in Below : j <= k
  BY <1>2, GreatestOf
<1> HIDE DEF k
<1>4. ASSUME NEW m \in S PROVE top - k <= m
  <2>1. CASE m <= top
    <3>1. top - m \in Below
      BY <2>1, <1>1
    <3> QED BY <3>1, <1>3, <1>1
  <2>2. CASE m > top
    BY <2>2, <1>3, <1>1
  <2> QED BY <2>1, <2>2, <1>1
<1> QED BY <1>3, <1>4

\* No file has more rows than MaxRows.
LEMMA MaxRowsBounds ==
    ASSUME ImportsAssumption, NEW i \in Imports
    PROVE  /\ MaxRows \in Nat
           /\ RowCount[i] \in 0..MaxRows
<1> DEFINE S == {RowCount[j] : j \in Imports}
           f == [j \in Imports |-> RowCount[j]]
<1>1. S \in SUBSET Nat /\ RowCount[i] \in S
  BY DEF ImportsAssumption
<1>2. f \in Surjection(Imports, S)
  BY DEF Surjection
<1>3. IsFiniteSet(S)
  BY <1>2, FS_Surjection DEF ImportsAssumption
<1>4. MaxRows = Max(S)
  BY DEF MaxRows
<1> HIDE DEF S
<1>5. Max(S) \in S /\ RowCount[i] <= Max(S)
  BY <1>1, <1>3, GreatestOf
<1>6. MaxRows \in Nat /\ RowCount[i] \in Nat /\ RowCount[i] <= MaxRows
  BY <1>1, <1>4, <1>5
<1> QED BY <1>6

-----------------------------------------------------------------------------
(* Where a step's cursor comes to.                                         *)

LEMMA CursorMoves ==
    ASSUME ImportsAssumption, NEW i \in Imports, NEW r \in Record, NEW room \in Nat,
           r.cursor <= RowCount[i]
    PROVE  /\ LastOf(i, r) \in r.cursor..RowCount[i]
           /\ CursorAfter(i, r, room) \in r.cursor..LastOf(i, r)
           /\ room = MaxRows => CursorAfter(i, r, room) = LastOf(i, r)
<1>0. /\ MaxRows \in Nat /\ RowCount[i] \in 0..MaxRows /\ Batch \in Nat
      /\ r.cursor \in Nat
  BY MaxRowsBounds DEF ImportsAssumption, Record
<1> DEFINE C == {c \in r.cursor..LastOf(i, r) :
                    Cardinality(((r.cursor + 1)..c) \ BadRows) <= room}
<1>1. LastOf(i, r) = Min({r.cursor + Batch, RowCount[i]})
  BY DEF LastOf
<1>2. LastOf(i, r) \in r.cursor..RowCount[i]
  <2>1. CASE r.cursor + Batch <= RowCount[i]
    BY <1>0, <1>1, <2>1 DEF Min
  <2>2. CASE RowCount[i] <= r.cursor + Batch
    BY <1>0, <1>1, <2>2 DEF Min
  <2> QED BY <1>0, <2>1, <2>2
<1>3. C \in SUBSET Nat /\ IsFiniteSet(C)
  <2>1. C \in SUBSET (r.cursor..LastOf(i, r))
    OBVIOUS
  <2>2. IsFiniteSet(r.cursor..LastOf(i, r))
    <3>1. r.cursor \in Int /\ LastOf(i, r) \in Int
      BY <1>0, <1>2
    <3> QED BY <3>1, FS_Interval
  <2>3. r.cursor..LastOf(i, r) \subseteq Nat
    BY <1>0, <1>2
  <2> QED BY <2>1, <2>2, <2>3, FS_Subset
<1>4. r.cursor \in C
  <2>1. ((r.cursor + 1)..r.cursor) \ BadRows = {}
    BY <1>0
  <2>2. Cardinality(((r.cursor + 1)..r.cursor) \ BadRows) <= room
    BY <2>1, FS_EmptySet
  <2>3. r.cursor \in r.cursor..LastOf(i, r)
    BY <1>0, <1>2
  <2> QED BY <2>2, <2>3, Zenon
<1>5. CursorAfter(i, r, room) = Max(C)
  BY DEF CursorAfter
<1>6. ASSUME room = MaxRows PROVE LastOf(i, r) \in C
  <2> DEFINE all == (r.cursor + 1)..LastOf(i, r)
  <2>1. IsFiniteSet(all) /\ Cardinality(all) <= MaxRows
    <3>1. r.cursor + 1 \in Int /\ LastOf(i, r) \in Int
      BY <1>0, <1>2
    <3>2. IsFiniteSet(all) /\ Cardinality(all) = IF r.cursor + 1 > LastOf(i, r) THEN 0
                                                 ELSE LastOf(i, r) - (r.cursor + 1) + 1
      BY <3>1, FS_Interval
    <3> QED BY <1>0, <1>2, <3>2
  <2>2. /\ IsFiniteSet(all \ BadRows) /\ Cardinality(all \ BadRows) \in Nat
        /\ Cardinality(all) \in Nat /\ Cardinality(all \ BadRows) <= Cardinality(all)
    BY <2>1, FS_Subset, FS_CardinalityType
  <2> QED BY <1>0, <1>2, <1>6, <2>1, <2>2
<1> HIDE DEF C
<1>7. Max(C) \in C /\ \A c \in C : c <= Max(C)
  BY <1>3, <1>4, GreatestOf
<1>8. \A c \in C : c \in r.cursor..LastOf(i, r)
  BY DEF C
<1>9. CursorAfter(i, r, room) \in r.cursor..LastOf(i, r)
  BY <1>5, <1>7, <1>8
<1>10. ASSUME room = MaxRows PROVE CursorAfter(i, r, room) = LastOf(i, r)
  BY <1>0, <1>2, <1>5, <1>6, <1>7, <1>9, <1>10
<1> QED BY <1>2, <1>9, <1>10

LEMMA TwoParts ==
    ASSUME NEW A, NEW B, IsFiniteSet(A), IsFiniteSet(B), \A n \in A : n \notin B
    PROVE  /\ Cardinality(A) \in Nat /\ Cardinality(B) \in Nat
           /\ Cardinality(A \cup B) = Cardinality(A) + Cardinality(B)
<1>1. A \cap B = {}
  OBVIOUS
<1>2. Cardinality(A \cap B) = 0
  BY <1>1, FS_EmptySet
<1>3. Cardinality(A \cup B) = Cardinality(A) + Cardinality(B) - Cardinality(A \cap B)
  BY FS_Union
<1>4. Cardinality(A) \in Nat /\ Cardinality(B) \in Nat
  BY FS_CardinalityType
<1> QED BY <1>2, <1>3, <1>4

\* Rows up to one cursor, and from it to the next: those of a set, and the others.
LEMMA RowsBetween ==
    ASSUME NEW a \in Nat, NEW b \in Nat, a <= b, NEW S
    PROVE  /\ (1..b) \ S = ((1..a) \ S) \cup (((a + 1)..b) \ S)
           /\ (1..b) \cap S = ((1..a) \cap S) \cup (((a + 1)..b) \cap S)
           /\ IsFiniteSet((1..a) \ S) /\ IsFiniteSet(((a + 1)..b) \ S)
           /\ IsFiniteSet((1..a) \cap S) /\ IsFiniteSet(((a + 1)..b) \cap S)
<1>1. IsFiniteSet(1..a) /\ IsFiniteSet((a + 1)..b)
  BY FS_Interval
<1>2. 1..b = (1..a) \cup ((a + 1)..b)
  OBVIOUS
<1> DEFINE A == 1..a
           B == (a + 1)..b
<1> HIDE DEF A, B
<1>3. /\ IsFiniteSet(A \ S) /\ IsFiniteSet(B \ S)
      /\ IsFiniteSet(A \cap S) /\ IsFiniteSet(B \cap S)
  BY <1>1, FS_Difference, FS_Intersection DEF A, B
<1>4. /\ (A \cup B) \ S = (A \ S) \cup (B \ S)
      /\ (A \cup B) \cap S = (A \cap S) \cup (B \cap S)
  OBVIOUS
<1> QED BY <1>2, <1>3, <1>4, Zenon DEF A, B

\* Tasks of one import are as many as their rows.
LEMMA PairsCount ==
    ASSUME NEW i, NEW S, IsFiniteSet(S)
    PROVE  /\ IsFiniteSet({<<i, n>> : n \in S})
           /\ Cardinality({<<i, n>> : n \in S}) = Cardinality(S)
<1> DEFINE T == {<<i, n>> : n \in S}
           f == [n \in S |-> <<i, n>>]
<1>1. f \in Bijection(S, T)
  BY DEF Bijection, Injection, Surjection, IsInjective
<1> QED BY <1>1, FS_Bijection DEF ExistsBijection

-----------------------------------------------------------------------------
(* Items and wakes after a change.                                         *)

LEMMA PlanForm ==
    ASSUME NEW x \in Item, NEW p \in Plans, NEW y, y = [x EXCEPT !.pc = "counting", !.plan = p]
    PROVE  y \in Item /\ y.of = x.of /\ y.pc = "counting" /\ y.read = x.read
<1>1. /\ y.of = x.of /\ y.asked = x.asked /\ y.attempts = x.attempts
      /\ y.pc = "counting" /\ y.read = x.read /\ y.plan = p /\ y.room = x.room
      /\ DOMAIN y = {"of", "asked", "attempts", "pc", "read", "plan", "room"}
  BY DEF Item
<1>2. y = [f \in DOMAIN y |-> y[f]]
  BY DEF Item
<1>3. /\ x.of \in Imports /\ x.asked \in Nat /\ x.attempts \in 0..MaxAttempts
      /\ x.read \in Record /\ x.room \in Nat
  BY DEF Item
<1>4. y \in Item
  BY <1>1, <1>2, <1>3 DEF Item
<1> QED BY <1>1, <1>4

LEMMA ReadyForm ==
    ASSUME NEW x \in Item, NEW n \in Nat, NEW y, y = [x EXCEPT !.pc = "ready", !.room = n]
    PROVE  /\ y \in Item /\ y.of = x.of /\ y.pc = "ready" /\ y.read = x.read
           /\ y.plan = x.plan /\ y.room = n
<1>1. /\ y.of = x.of /\ y.asked = x.asked /\ y.attempts = x.attempts
      /\ y.pc = "ready" /\ y.read = x.read /\ y.plan = x.plan /\ y.room = n
      /\ DOMAIN y = {"of", "asked", "attempts", "pc", "read", "plan", "room"}
  BY DEF Item
<1>2. y = [f \in DOMAIN y |-> y[f]]
  BY DEF Item
<1>3. /\ x.of \in Imports /\ x.asked \in Nat /\ x.attempts \in 0..MaxAttempts
      /\ x.read \in Record /\ x.plan \in Plans
  BY DEF Item
<1>4. y \in Item
  BY <1>1, <1>2, <1>3 DEF Item
<1> QED BY <1>1, <1>4

LEMMA ItemForms ==
    ASSUME ImportsAssumption, NEW x \in Item
    PROVE  /\ \A r \in Record : x.attempts < MaxAttempts =>
                 LET y == [x EXCEPT !.pc = "reading", !.attempts = @ + 1, !.read = r]
                 IN /\ y \in Item /\ y.of = x.of /\ y.pc = "reading" /\ y.read = r
           /\ LET y == [x EXCEPT !.pc = "landed"]
              IN /\ y \in Item /\ y.of = x.of /\ y.pc = "landed"
           /\ LET y == Requeued(x)
              IN /\ y \in Item /\ y.of = x.of /\ y.pc = "queued" /\ y.attempts = x.attempts
<1>0. NoRecord \in Record /\ MaxAttempts \in Nat /\ "free" \in Plans
  <2>1. MaxRows \in Nat
    BY MaxRowsBounds DEF Item
  <2> QED BY <2>1 DEF NoRecord, Record, Statuses, ImportsAssumption, Plans
<1>1. /\ x.of \in Imports /\ x.asked \in Nat /\ x.attempts \in 0..MaxAttempts
      /\ x.pc \in {"queued", "reading", "counting", "ready", "landed"}
      /\ x.read \in Record /\ x.plan \in Plans /\ x.room \in Nat
  BY DEF Item
<1> DEFINE Fields == {"of", "asked", "attempts", "pc", "read", "plan", "room"}
<1>2. ASSUME NEW y, DOMAIN y = Fields, y = [f \in DOMAIN y |-> y[f]],
             y.of \in Imports, y.asked \in Nat, y.attempts \in 0..MaxAttempts,
             y.pc \in {"queued", "reading", "counting", "ready", "landed"}, y.read \in Record,
             y.plan \in Plans, y.room \in Nat
      PROVE  y \in Item
  BY <1>2 DEF Item
<1>3. ASSUME NEW r \in Record, x.attempts < MaxAttempts
      PROVE  LET y == [x EXCEPT !.pc = "reading", !.attempts = @ + 1, !.read = r]
             IN /\ y \in Item /\ y.of = x.of /\ y.pc = "reading" /\ y.read = r
  <2> DEFINE y == [x EXCEPT !.pc = "reading", !.attempts = @ + 1, !.read = r]
  <2>1. /\ y.of = x.of /\ y.asked = x.asked /\ y.attempts = x.attempts + 1
        /\ y.pc = "reading" /\ y.read = r /\ y.plan = x.plan /\ y.room = x.room
        /\ DOMAIN y = Fields
    BY DEF Item
  <2>2. y = [f \in DOMAIN y |-> y[f]]
    BY DEF Item
  <2> HIDE DEF y
  <2>3. y \in Item
    BY <1>0, <1>1, <1>2, <1>3, <2>1, <2>2
  <2> QED BY <2>1, <2>3 DEF y
<1>5. LET y == [x EXCEPT !.pc = "landed"]
      IN /\ y \in Item /\ y.of = x.of /\ y.pc = "landed"
  <2> DEFINE y == [x EXCEPT !.pc = "landed"]
  <2>1. /\ y.of = x.of /\ y.asked = x.asked /\ y.attempts = x.attempts
        /\ y.pc = "landed" /\ y.read = x.read /\ y.plan = x.plan /\ y.room = x.room
        /\ DOMAIN y = Fields
    BY DEF Item
  <2>2. y = [f \in DOMAIN y |-> y[f]]
    BY DEF Item
  <2> HIDE DEF y
  <2>3. y \in Item
    BY <1>0, <1>1, <1>2, <2>1, <2>2
  <2> QED BY <2>1, <2>3 DEF y
<1>6. LET y == Requeued(x)
      IN /\ y \in Item /\ y.of = x.of /\ y.pc = "queued" /\ y.attempts = x.attempts
  <2> DEFINE y == Requeued(x)
  <2>1. /\ y.of = x.of /\ y.asked = x.asked /\ y.attempts = x.attempts
        /\ y.pc = "queued" /\ y.read = NoRecord /\ y.plan = "free" /\ y.room = 0
        /\ DOMAIN y = Fields
    BY DEF Item, Requeued
  <2>2. y = [f \in DOMAIN y |-> y[f]]
    BY DEF Item, Requeued
  <2> HIDE DEF y
  <2>3. y \in Item
    BY <1>0, <1>1, <1>2, <2>1, <2>2
  <2> QED BY <2>1, <2>3 DEF y
<1> QED BY <1>3, <1>5, <1>6

\* A record that moved to a status is one again, and asks for a step if it runs.
LEMMA MovedIs ==
    ASSUME ImportsAssumption, NEW i \in Imports, NEW r \in Record, NEW s \in Statuses
    PROVE  /\ Moved(r, s) \in Record
           /\ Moved(r, s).status = s
           /\ Moved(r, s).version = r.version + 1
           /\ Moved(r, s).cursor = r.cursor
           /\ Moved(r, s).applied = r.applied
           /\ Moved(r, s).skipped = r.skipped
<1> DEFINE y == Moved(r, s)
<1>1. /\ y.status = s /\ y.version = r.version + 1 /\ y.cursor = r.cursor
      /\ y.applied = r.applied /\ y.skipped = r.skipped
      /\ DOMAIN y = {"status", "cursor", "version", "applied", "skipped"}
  BY DEF Moved, Record
<1>2. y = [f \in DOMAIN y |-> y[f]]
  BY DEF Moved, Record
<1>3. r.cursor \in 0..MaxRows /\ {r.version, r.applied, r.skipped} \subseteq Nat
  BY DEF Record
<1> HIDE DEF y
<1>4. y \in Record
  BY <1>1, <1>2, <1>3 DEF Record
<1> QED BY <1>1, <1>4 DEF y

LEMMA StepRowsAre ==
    ASSUME ImportsAssumption, NEW i \in Imports, NEW r \in Record
    PROVE  /\ StepRows(i, r) \subseteq Item
           /\ \A x \in StepRows(i, r) : /\ x.of = i /\ x.pc = "queued" /\ x.attempts = 0
           /\ r.status = "running" => StepRows(i, r) # {}
<1>1. NoRecord \in Record /\ 0 \in 0..MaxAttempts
  <2>1. MaxRows \in Nat
    BY MaxRowsBounds
  <2> QED BY <2>1 DEF NoRecord, Record, Statuses, ImportsAssumption
<1> DEFINE y == [of |-> i, asked |-> r.version, attempts |-> 0, pc |-> "queued",
                 read |-> NoRecord, plan |-> "free", room |-> 0]
<1>2. y \in Item /\ y.of = i /\ y.pc = "queued" /\ y.attempts = 0
  BY <1>1 DEF Item, Record, Plans
<1>3. StepRows(i, r) = IF r.status = "running" THEN {y} ELSE {}
  BY DEF StepRows
<1> QED BY <1>2, <1>3

-----------------------------------------------------------------------------
(* What a step may do to records, and what it leaves.                      *)

\* A write moves the version on; a purge leaves the record gone.
Follows ==
    \A i \in Imports : \/ record'[i] = record[i]
                       \/ record'[i].version = record[i].version + 1
                       \/ /\ record'[i].version = record[i].version
                          /\ record'[i].status = "gone"

\* The cursor and the counts stay, and nothing that is gone comes back.
SameRows(i) ==
    /\ record'[i].cursor = record[i].cursor
    /\ record'[i].applied = record[i].applied
    /\ record'[i].skipped = record[i].skipped
    /\ record'[i].status = "none" => record'[i] = record[i]
    /\ record[i].status = "gone" => record'[i].status = "gone"

LEMMA EventCounts ==
    ASSUME ImportsAssumption, TypeOK, Event \/ Calm
    PROVE  events' \in 0..MaxEvents
BY DEF ImportsAssumption, TypeOK, Event, Calm

LEMMA ItemStays ==
    ASSUME TypeOK, Follows, NEW x \in items, ItemHolds(x)
    PROVE  ItemHolds(x)'
<1>1. /\ x.of \in Imports /\ x.read \in Record /\ record[x.of] \in Record
  BY DEF TypeOK, Item
<1>2. x.read.version \in Nat /\ record[x.of].version \in Nat
  BY <1>1 DEF Record
<1> QED BY <1>1, <1>2 DEF ItemHolds, Follows, Hits, InStep

LEMMA WakeStays ==
    ASSUME TypeOK, Follows, NEW w \in Wake, WakeHolds(w)
    PROVE  WakeHolds(w)'
<1> SUFFICES ASSUME NEW p \in w.batch
             PROVE  /\ p[2] <= record'[p[1]].version
                    /\ p[2] = record'[p[1]].version
                         => record'[p[1]].status \in {"parked", "gone"}
  BY DEF WakeHolds
<1>1. p[1] \in Imports /\ p[2] \in Nat /\ record[p[1]] \in Record
  BY DEF TypeOK, Wake
<1>2. record[p[1]].version \in Nat
  BY <1>1 DEF Record
<1> QED BY <1>1, <1>2 DEF WakeHolds, Follows

\* Of a record that was not started no row landed, and none is counted.
LEMMA NothingLanded ==
    ASSUME RecordsHold, RowsLandOnce, NEW i \in Imports, record[i].status # "gone"
    PROVE  LET rows == {n \in 1..MaxRows : <<i, n>> \in tasks}
           IN /\ rows = (1..record[i].cursor) \ BadRows
              /\ record[i].applied = Cardinality(rows)
              /\ record[i].skipped = Cardinality((1..record[i].cursor) \cap BadRows)
<1>1. CASE record[i].status # "none"
  BY <1>1 DEF RowsLandOnce
<1>2. CASE record[i].status = "none"
  <2>1. /\ record[i].cursor = 0 /\ record[i].applied = 0 /\ record[i].skipped = 0
        /\ {n \in 1..MaxRows : <<i, n>> \in tasks} = {}
    BY <1>2 DEF RecordsHold, NoRecord
  <2>2. 1..0 = {}
    OBVIOUS
  <2>3. (1..0) \cap BadRows = {} /\ (1..0) \ BadRows = {}
    BY <2>2
  <2>4. Cardinality({}) = 0
    BY FS_EmptySet
  <2> QED BY <2>1, <2>3, <2>4
<1> QED BY <1>1, <1>2

LEMMA RowsStay ==
    ASSUME RecordsHold, RowsLandOnce, tasks' = tasks, \A i \in Imports : SameRows(i)
    PROVE  RecordsHold' /\ RowsLandOnce'
<1>1. RecordsHold'
  BY DEF RecordsHold, SameRows
<1>2. ASSUME NEW i \in Imports, record'[i].status \notin {"none", "gone"}
      PROVE  LET rows == {n \in 1..MaxRows : <<i, n>> \in tasks'}
             IN /\ rows = (1..record'[i].cursor) \ BadRows
                /\ record'[i].applied = Cardinality(rows)
                /\ record'[i].skipped = Cardinality((1..record'[i].cursor) \cap BadRows)
  BY <1>2, NothingLanded DEF SameRows
<1> QED BY <1>1, <1>2 DEF RowsLandOnce

\* What every step but a landing has to show.
LEMMA StepKeeps ==
    ASSUME ImportsAssumption, IInv, Event \/ Calm,
           record' \in [Imports -> Record], items' \subseteq Item, wakes' \subseteq Wake,
           tasks' = tasks, open' \in Nat, stored' \subseteq Imports, plan' \in Plans,
           Follows, \A i \in Imports : SameRows(i),
           \A x \in items' \ items : ItemHolds(x)',
           \A w \in wakes' \ wakes : WakeHolds(w)',
           stale' \in BOOLEAN, stranded' \subseteq Imports \X Nat,
           overlooked' \subseteq Imports \X Nat,
           RunningIsCarried', ParkedIsWoken'
    PROVE  IInv'
<1>1. TypeOK'
  BY EventCounts DEF IInv, TypeOK
<1>2. RecordsHold' /\ RowsLandOnce'
  BY RowsStay DEF IInv
<1>3. \A x \in items' : ItemHolds(x)'
  BY ItemStays DEF IInv
<1>4. \A w \in wakes' : WakeHolds(w)'
  BY WakeStays DEF IInv, TypeOK
<1> QED BY <1>1, <1>2, <1>3, <1>4 DEF IInv, RecordIsCarried

\* A running record is still carried, if it is carried anew, or it is as it was
\* and no item that left carried it.
LEMMA CarriedOn ==
    ASSUME RunningIsCarried, stranded \subseteq stranded',
           \A j \in Imports : \/ record'[j].status # "running"
                              \/ <<j, record'[j].version>> \in stranded'
                              \/ \E x \in items' : Carries(x, j)'
                              \/ /\ record'[j] = record[j]
                                 /\ \A x \in items \ items' : ~Carries(x, j)
    PROVE  RunningIsCarried'
<1> SUFFICES ASSUME NEW j \in Imports, record'[j].status = "running",
                    <<j, record'[j].version>> \notin stranded'
             PROVE  \E x \in items' : Carries(x, j)'
  BY DEF RunningIsCarried
<1>1. CASE record'[j] = record[j] /\ \A x \in items \ items' : ~Carries(x, j)
  <2>1. PICK x \in items : Carries(x, j)
    BY <1>1 DEF RunningIsCarried
  <2>2. x \in items'
    BY <1>1, <2>1
  <2>3. Carries(x, j)'
    BY <1>1, <2>1 DEF Carries, Hits
  <2> QED BY <2>2, <2>3
<1> QED BY <1>1

LEMMA WokenOn ==
    ASSUME ParkedIsWoken, overlooked \subseteq overlooked',
           \A j \in Imports : \/ record'[j].status # "parked"
                              \/ plan' # "paid"
                              \/ <<j, record'[j].version>> \in overlooked'
                              \/ \E w \in wakes' : Reaches(w, j)'
                              \/ /\ record'[j] = record[j] /\ plan' = plan
                                 /\ \A w \in wakes \ wakes' : ~Reaches(w, j)
    PROVE  ParkedIsWoken'
<1> SUFFICES ASSUME NEW j \in Imports, record'[j].status = "parked", plan' = "paid",
                    <<j, record'[j].version>> \notin overlooked'
             PROVE  \E w \in wakes' : Reaches(w, j)'
  BY DEF ParkedIsWoken
<1>1. CASE /\ record'[j] = record[j] /\ plan' = plan
           /\ \A w \in wakes \ wakes' : ~Reaches(w, j)
  <2>1. PICK w \in wakes : Reaches(w, j)
    BY <1>1 DEF ParkedIsWoken
  <2>2. w \in wakes'
    BY <1>1, <2>1
  <2>3. Reaches(w, j)'
    BY <1>1, <2>1 DEF Reaches, Awaits
  <2> QED BY <2>2, <2>3
<1> QED BY <1>1

\* A record that moves to a status.
LEMMA RecordMoves ==
    ASSUME ImportsAssumption, TypeOK, NEW i \in Imports, NEW s \in Statuses \ {"none"},
           record[i].status # "gone",
           record' = [record EXCEPT ![i] = Moved(record[i], s)]
    PROVE  /\ record' \in [Imports -> Record]
           /\ Follows /\ \A j \in Imports : SameRows(j)
           /\ record'[i].status = s /\ record'[i] = Moved(record[i], s)
           /\ \A j \in Imports \ {i} : record'[j] = record[j]
<1>1. record[i] \in Record
  BY DEF TypeOK
<1>2. /\ record' \in [Imports -> Record] /\ record'[i] = Moved(record[i], s)
      /\ \A j \in Imports \ {i} : record'[j] = record[j]
  BY <1>1, MovedIs DEF TypeOK
<1>3. /\ record'[i].status = s /\ record'[i].version = record[i].version + 1
      /\ record'[i].cursor = record[i].cursor /\ record'[i].applied = record[i].applied
      /\ record'[i].skipped = record[i].skipped
  BY <1>1, <1>2, MovedIs
<1> QED BY <1>2, <1>3 DEF Follows, SameRows

LEMMA RecordStays ==
    ASSUME UNCHANGED record
    PROVE  Follows /\ \A j \in Imports : SameRows(j)
BY DEF Follows, SameRows

\* The step of a record that runs carries it.
LEMMA NewStep ==
    ASSUME ImportsAssumption, NEW i \in Imports, NEW r \in Record, record'[i] = r
    PROVE  /\ \A x \in StepRows(i, r) : ItemHolds(x)' /\ Carries(x, i)'
           /\ \A x \in StepRows(i, r) : x \in Item /\ x.of = i /\ x.pc = "queued"
           /\ r.status = "running" => \E x \in StepRows(i, r) : Carries(x, i)'
<1>1. 0 < MaxAttempts
  BY DEF ImportsAssumption
<1>2. \A x \in StepRows(i, r) : ItemHolds(x)' /\ Carries(x, i)'
  BY <1>1, StepRowsAre DEF ItemHolds, Carries, InStep
<1> QED BY <1>2, StepRowsAre

-----------------------------------------------------------------------------
(* People.                                                                 *)

\* The types one at a time.
LEMMA Types ==
    ASSUME ImportsAssumption, IInv
    PROVE  /\ TypeOK /\ RecordsHold /\ RowsLandOnce
           /\ record \in [Imports -> Record] /\ open \in Nat
           /\ items \subseteq Item /\ wakes \subseteq Wake
           /\ stored \subseteq Imports /\ plan \in Plans
           /\ \A x \in items : ItemHolds(x)
           /\ \A w \in wakes : WakeHolds(w)
           /\ stale \in BOOLEAN /\ stranded \subseteq Imports \X Nat
           /\ overlooked \subseteq Imports \X Nat
           /\ RunningIsCarried /\ ParkedIsWoken
BY DEF IInv, TypeOK, RecordIsCarried

\* A record that starts to run again, with the step that carries it.
LEMMA RunsAgain ==
    ASSUME ImportsAssumption, IInv, NEW i \in Imports, record[i].status # "gone",
           record' = [record EXCEPT ![i] = Moved(record[i], "running")],
           items' = items \cup StepRows(i, Moved(record[i], "running")),
           wakes' \subseteq Wake, \A w \in wakes' \ wakes : WakeHolds(w)',
           Event \/ Calm, UNCHANGED <<tasks, open, stored, plan, stale, left>>,
           \A j \in Imports \ {i} : record[j].status = "parked" /\ plan = "paid" =>
              (\E w \in wakes' : Reaches(w, j)') \/ \A w \in wakes \ wakes' : ~Reaches(w, j)
    PROVE  IInv'
<1> DEFINE r == Moved(record[i], "running")
<1>1. /\ record[i] \in Record /\ r \in Record /\ r.status = "running"
      /\ "running" \in Statuses \ {"none"}
  BY Types, MovedIs DEF Statuses
<1>2. /\ record' \in [Imports -> Record]
      /\ Follows /\ \A j \in Imports : SameRows(j)
      /\ record'[i].status = "running" /\ record'[i] = r
      /\ \A j \in Imports \ {i} : record'[j] = record[j]
  BY <1>1, Types, RecordMoves
<1> HIDE DEF r
<1>3. items' = items \cup StepRows(i, r)
  BY DEF r
<1>4. /\ \A x \in StepRows(i, r) : ItemHolds(x)' /\ x \in Item /\ x.pc = "queued"
      /\ \E x \in StepRows(i, r) : Carries(x, i)'
  BY <1>1, <1>2, NewStep
<1>5. stranded' = stranded /\ overlooked' = overlooked /\ stale' = stale
  BY DEF left
<1>6. RunningIsCarried'
  BY <1>2, <1>3, <1>4, <1>5, Types, CarriedOn
<1>7. ParkedIsWoken'
  <2>1. \A j \in Imports \ {i} : \/ record'[j].status # "parked"
                                 \/ plan' # "paid"
                                 \/ \E w \in wakes' : Reaches(w, j)'
                                 \/ /\ record'[j] = record[j] /\ plan' = plan
                                    /\ \A w \in wakes \ wakes' : ~Reaches(w, j)
    BY <1>2
  <2> QED BY <1>2, <1>5, <2>1, Types, WokenOn
<1> QED BY <1>2, <1>3, <1>4, <1>5, <1>6, <1>7, Types, StepKeeps

\* A record that ends, or that is gone.
LEMMA RecordEnds ==
    ASSUME ImportsAssumption, IInv, NEW i \in Imports,
           record' \in [Imports -> Record], Follows, \A j \in Imports : SameRows(j),
           record'[i].status \in Settled \cup {"gone"},
           \A j \in Imports \ {i} : record'[j] = record[j],
           items' \subseteq Item,
           \A x \in items' \ items : ItemHolds(x)',
           \A x \in items \ items' : x.of = i,
           Event \/ Calm, UNCHANGED <<tasks, wakes, plan, stale, left>>, open' \in Nat,
           stored' \subseteq Imports
    PROVE  IInv'
<1>1. stranded' = stranded /\ overlooked' = overlooked /\ stale' = stale
  BY DEF left
<1>2. RunningIsCarried'
  BY <1>1, Types, CarriedOn DEF Settled, Carries
<1>3. ParkedIsWoken'
  BY <1>1, Types, WokenOn DEF Settled
<1> QED BY <1>1, <1>2, <1>3, Types, StepKeeps

LEMMA StartKeeps ==
    ASSUME ImportsAssumption, IInv, NEW i \in Imports, Start(i)
    PROVE  IInv'
<1>1. record[i] = NoRecord /\ record[i].status = "none"
  BY Types DEF Start, RecordsHold
<1> QED BY <1>1, Types, RunsAgain DEF Start, Write

LEMMA ResumeKeeps ==
    ASSUME ImportsAssumption, IInv, NEW i \in Imports, Resume(i)
    PROVE  IInv'
BY Types, RunsAgain DEF Resume, Write

LEMMA CancelKeeps ==
    ASSUME ImportsAssumption, IInv, NEW i \in Imports, Cancel(i)
    PROVE  IInv'
<1>1. /\ "cancelled" \in Statuses \ {"none"} /\ record[i].status # "gone"
      /\ record' = [record EXCEPT ![i] = Moved(record[i], "cancelled")]
      /\ UNCHANGED <<tasks, open, stored, items, wakes, plan, stale, left>> /\ Event
  BY DEF Cancel, Write, Statuses, Settled
<1>2. /\ record' \in [Imports -> Record]
      /\ Follows /\ \A j \in Imports : SameRows(j)
      /\ record'[i].status = "cancelled"
      /\ \A j \in Imports \ {i} : record'[j] = record[j]
  BY <1>1, Types, RecordMoves
<1> QED BY <1>1, <1>2, Types, RecordEnds DEF Settled

LEMMA PurgeKeeps ==
    ASSUME ImportsAssumption, IInv, NEW i \in Imports, Purge(i)
    PROVE  IInv'
<1> DEFINE r == [record[i] EXCEPT !.status = "gone"]
<1>1. /\ record' = [record EXCEPT ![i] = r]
      /\ UNCHANGED <<tasks, open, stored, items, wakes, plan, stale, left>> /\ Calm
  BY DEF Purge
<1>2. record[i] \in Record
  BY Types
<1>3. /\ r \in Record /\ r.status = "gone" /\ r.version = record[i].version
      /\ r.cursor = record[i].cursor /\ r.applied = record[i].applied
      /\ r.skipped = record[i].skipped
  BY <1>2 DEF Record, Statuses
<1> HIDE DEF r
<1>4. /\ record' \in [Imports -> Record] /\ record'[i] = r
      /\ \A j \in Imports \ {i} : record'[j] = record[j]
  BY <1>1, <1>3, Types
<1>5. Follows /\ \A j \in Imports : SameRows(j)
  BY <1>3, <1>4 DEF Follows, SameRows
<1> QED BY <1>1, <1>3, <1>4, <1>5, Types, RecordEnds

\* A step that touches no record and no item, nor plan and wakes.
LEMMA OthersKeep ==
    ASSUME ImportsAssumption, IInv, Event \/ Calm,
           UNCHANGED <<record, tasks, items, wakes, plan, left>>,
           open' \in Nat, stored' \subseteq Imports, stale' \in BOOLEAN
    PROVE  IInv'
<1>1. RunningIsCarried'
  BY Types DEF RunningIsCarried, Carries, InStep, Hits, left
<1>2. ParkedIsWoken'
  BY Types DEF ParkedIsWoken, Reaches, Awaits, left
<1>3. stranded' = stranded /\ overlooked' = overlooked
  BY DEF left
<1> QED BY <1>1, <1>2, <1>3, Types, RecordStays, StepKeeps

LEMMA RemoveFileKeeps ==
    ASSUME ImportsAssumption, IInv, NEW i \in Imports, RemoveFile(i)
    PROVE  IInv'
BY Types, OthersKeep DEF RemoveFile

LEMMA CompleteTaskKeeps ==
    ASSUME ImportsAssumption, IInv, CompleteTask
    PROVE  IInv'
<1>1. open' \in Nat
  BY Types DEF CompleteTask
<1> QED BY <1>1, Types, OthersKeep DEF CompleteTask

-----------------------------------------------------------------------------
(* A step, in a worker.                                                    *)

LEMMA ItemMoves ==
    ASSUME ImportsAssumption, IInv, NEW x \in items, NEW y \in Item,
           items' = Replace(items, x, y),
           UNCHANGED <<record, tasks, open, stored, wakes, plan, stale, stranded, overlooked>>,
           Event \/ Calm, ItemHolds(y), Carries(x, x.of) => Carries(y, x.of)
    PROVE  IInv'
<1>1. items' = (items \ {x}) \cup {y}
  BY DEF Replace
<1>2. ItemHolds(y)' /\ \A j : Carries(y, j) => Carries(y, j)'
  BY DEF ItemHolds, Carries, InStep, Hits
<1>3. RunningIsCarried'
  <2>1. ASSUME NEW j \in Imports
        PROVE  \/ \E z \in items' : Carries(z, j)'
               \/ \A z \in items \ items' : ~Carries(z, j)
    <3>1. CASE Carries(x, j)
      <4>1. Carries(y, j)'
        BY <1>2, <3>1 DEF Carries
      <4> QED BY <1>1, <4>1
    <3>2. CASE ~Carries(x, j)
      BY <1>1, <3>2
    <3> QED BY <3>1, <3>2
  <2> QED BY <2>1, Types, CarriedOn
<1>4. ParkedIsWoken'
  BY Types DEF ParkedIsWoken, Reaches, Awaits
<1> QED BY <1>1, <1>2, <1>3, <1>4, Types, RecordStays, StepKeeps

\* An item goes: none that carried its record, the only one that did, whose death
\* is on record, or one beside another that does.
LEMMA ItemLeaves ==
    ASSUME ImportsAssumption, IInv, NEW x \in items, items' = items \ {x},
           UNCHANGED <<record, tasks, open, stored, wakes, plan, stale, overlooked>>,
           stranded' \subseteq Imports \X Nat, stranded \subseteq stranded',
           Event \/ Calm,
           \/ ~Carries(x, x.of)
           \/ record[x.of].status # "running"
           \/ <<x.of, record[x.of].version>> \in stranded'
           \/ \E y \in items \ {x} : Carries(y, x.of)
    PROVE  IInv'
<1>1. RunningIsCarried'
  <2>1. ASSUME NEW j \in Imports
        PROVE  \/ record'[j].status # "running"
               \/ <<j, record'[j].version>> \in stranded'
               \/ \E z \in items' : Carries(z, j)'
               \/ \A z \in items \ items' : ~Carries(z, j)
    <3>1. \A z : Carries(z, j)' = Carries(z, j)
      BY DEF Carries, InStep, Hits
    <3>2. CASE Carries(x, j)
      BY <3>1, <3>2 DEF Carries
    <3>3. CASE ~Carries(x, j)
      BY <3>3
    <3> QED BY <3>2, <3>3
  <2> QED BY <2>1, Types, CarriedOn
<1>2. ParkedIsWoken'
  BY Types DEF ParkedIsWoken, Reaches, Awaits
<1> QED BY <1>1, <1>2, Types, RecordStays, StepKeeps

LEMMA TakeKeeps ==
    ASSUME ImportsAssumption, IInv, NEW x \in items, Take(x)
    PROVE  IInv'
<1> DEFINE y == [x EXCEPT !.pc = "reading", !.attempts = @ + 1, !.read = record[x.of]]
<1>1. /\ x \in Item /\ x.of \in Imports /\ record[x.of] \in Record
      /\ record[x.of].version \in Nat
  BY Types DEF Item, Record
<1>2. x.pc = "queued" /\ x.attempts < MaxAttempts
  BY Types DEF Take, ItemHolds
<1>3. y \in Item /\ y.of = x.of /\ y.pc = "reading" /\ y.read = record[x.of]
  BY <1>1, <1>2, ItemForms
<1>4. CASE record[x.of].status = "running"
  <2>1. items' = Replace(items, x, y)
    BY <1>4 DEF Take
  <2> HIDE DEF y
  <2>2. ItemHolds(y) /\ Carries(y, x.of)
    BY <1>1, <1>3, <1>4 DEF ItemHolds, Carries, InStep, Hits
  <2> QED BY <1>3, <2>1, <2>2, ItemMoves DEF Take, left
<1>5. CASE record[x.of].status # "running"
  BY <1>5, Types, ItemLeaves DEF Take, left
<1> QED BY <1>4, <1>5

\* What a step that read the record found there is there yet.
LEMMA ReadIsRecord ==
    ASSUME ImportsAssumption, IInv, NEW x \in items, InStep(x),
           Hits(x.of, x.read)
    PROVE  /\ x.of \in Imports /\ record[x.of] = x.read /\ record[x.of].status = "running"
           /\ x.read \in Record
BY Types DEF ItemHolds, Item

\* The record of a step fails, and the item goes or is done with.
LEMMA FailKeeps ==
    ASSUME ImportsAssumption, IInv, NEW x \in items, InStep(x),
           Hits(x.of, x.read),
           record' = [record EXCEPT ![x.of] = Moved(x.read, "failed")],
           items' \subseteq Item, \A z \in items' \ items : z.pc = "landed",
           items \ items' \subseteq {x},
           Event \/ Calm, UNCHANGED <<tasks, open, stored, wakes, plan, stale, left>>
    PROVE  IInv'
<1>1. /\ x.of \in Imports /\ record[x.of] = x.read /\ record[x.of].status = "running"
      /\ "failed" \in Statuses \ {"none"}
  BY ReadIsRecord DEF Statuses, Settled
<1>2. /\ record' \in [Imports -> Record]
      /\ Follows /\ \A j \in Imports : SameRows(j)
      /\ record'[x.of].status = "failed"
      /\ \A j \in Imports \ {x.of} : record'[j] = record[j]
  BY <1>1, Types, RecordMoves
<1>3. \A z \in items' \ items : ItemHolds(z)'
  BY DEF ItemHolds, InStep
<1>4. \A z \in items \ items' : z.of = x.of
  OBVIOUS
<1> QED BY <1>1, <1>2, <1>3, <1>4, Types, RecordEnds DEF Settled

LEMMA FileGoneKeeps ==
    ASSUME ImportsAssumption, IInv, NEW x \in items, FileGone(x)
    PROVE  IInv'
<1> DEFINE y == [x EXCEPT !.pc = "landed"]
<1>1. x \in Item /\ y \in Item /\ y.of = x.of /\ y.pc = "landed"
  BY Types, ItemForms
<1>2. /\ items' = Replace(items, x, y) /\ x.pc = "reading" /\ Calm
      /\ UNCHANGED <<tasks, open, stored, wakes, plan, stale, left>> /\ InStep(x)
  BY DEF FileGone, InStep
<1> HIDE DEF y
<1>3. CASE Hits(x.of, x.read)
  <2>1. record' = [record EXCEPT ![x.of] = Moved(x.read, "failed")]
    BY <1>3 DEF FileGone
  <2>2. items' \subseteq Item /\ (\A z \in items' \ items : z.pc = "landed")
        /\ items \ items' \subseteq {x}
    BY <1>1, <1>2, Types DEF Replace
  <2> QED BY <1>2, <1>3, <2>1, <2>2, FailKeeps
<1>4. CASE ~Hits(x.of, x.read)
  <2>1. record' = record
    BY <1>4 DEF FileGone
  <2>2. ItemHolds(y) /\ ~Carries(x, x.of)
    BY <1>1, <1>2, <1>4 DEF ItemHolds, Carries, InStep
  <2> QED BY <1>1, <1>2, <2>1, <2>2, ItemMoves DEF left
<1> QED BY <1>3, <1>4

LEMMA ReadPlanKeeps ==
    ASSUME ImportsAssumption, IInv, NEW x \in items, ReadPlan(x)
    PROVE  IInv'
<1>1. PICK p \in Plans : items' = Replace(items, x, [x EXCEPT !.pc = "counting", !.plan = p])
  BY DEF ReadPlan
<1>2. PICK y : y = [x EXCEPT !.pc = "counting", !.plan = p]
  OBVIOUS
<1>3. y \in Item /\ y.of = x.of /\ y.pc = "counting" /\ y.read = x.read
  BY <1>2, Types, PlanForm
<1>4. /\ items' = Replace(items, x, y) /\ x.pc = "reading" /\ Calm
      /\ UNCHANGED <<record, tasks, open, stored, wakes, plan, stale, left>>
  BY <1>1, <1>2 DEF ReadPlan
<1>5. ItemHolds(y) /\ (Carries(x, x.of) => Carries(y, x.of))
  BY <1>3, <1>4, Types DEF ItemHolds, Carries, InStep, Hits
<1> QED BY <1>3, <1>4, <1>5, ItemMoves DEF left

LEMMA ReadCountKeeps ==
    ASSUME ImportsAssumption, IInv, NEW x \in items, ReadCount(x)
    PROVE  IInv'
<1> DEFINE y == [x EXCEPT !.pc = "ready", !.room = RoomFor(x.plan)]
<1>1. x \in Item /\ x.of \in Imports
  BY Types DEF Item
<1>2. RoomFor(x.plan) \in Nat /\ (x.plan = "paid" => RoomFor(x.plan) = MaxRows)
  <2>1. MaxRows \in Nat /\ FreeBound \in Nat /\ open \in Nat
    BY <1>1, Types, MaxRowsBounds DEF ImportsAssumption
  <2>2. Max({FreeBound, open}) - open \in Nat
    <3>1. CASE FreeBound <= open
      BY <2>1, <3>1 DEF Max
    <3>2. CASE open <= FreeBound
      BY <2>1, <3>2 DEF Max
    <3> QED BY <2>1, <3>1, <3>2
  <2> QED BY <2>1, <2>2 DEF RoomFor
<1>3. /\ y \in Item /\ y.of = x.of /\ y.pc = "ready" /\ y.read = x.read
      /\ y.plan = x.plan /\ y.room = RoomFor(x.plan)
  BY <1>1, <1>2, ReadyForm
<1>4. /\ items' = Replace(items, x, y) /\ x.pc = "counting" /\ Calm
      /\ UNCHANGED <<record, tasks, open, stored, wakes, plan, stale, left>>
  BY DEF ReadCount
<1> HIDE DEF y
<1>5. ItemHolds(y) /\ (Carries(x, x.of) => Carries(y, x.of))
  BY <1>2, <1>3, <1>4, Types DEF ItemHolds, Carries, InStep, Hits
<1> QED BY <1>3, <1>4, <1>5, ItemMoves DEF left

LEMMA CompleteKeeps ==
    ASSUME ImportsAssumption, IInv, NEW x \in items, Complete(x)
    PROVE  IInv'
<1>1. ~Carries(x, x.of)
  BY DEF Complete, Carries, InStep
<1> QED BY <1>1, Types, ItemLeaves DEF Complete, left

LEMMA RequeueKeeps ==
    ASSUME ImportsAssumption, IInv, NEW x \in items, x.attempts < MaxAttempts,
           items' = Replace(items, x, Requeued(x)), Event,
           UNCHANGED <<record, tasks, open, stored, wakes, plan, stale, stranded, overlooked>>
    PROVE  IInv'
<1> DEFINE y == Requeued(x)
<1>1. /\ y \in Item /\ y.of = x.of /\ y.pc = "queued" /\ y.attempts = x.attempts
  BY Types, ItemForms
<1> HIDE DEF y
<1>2. ItemHolds(y) /\ Carries(y, x.of)
  BY <1>1 DEF ItemHolds, Carries, InStep
<1>3. items' = Replace(items, x, y)
  BY DEF y
<1> QED BY <1>1, <1>2, <1>3, ItemMoves

LEMMA RaiseKeeps ==
    ASSUME ImportsAssumption, IInv, NEW x \in items, Raise(x)
    PROVE  IInv'
<1>1. /\ InStep(x) /\ Event
      /\ UNCHANGED <<tasks, open, stored, wakes, plan, stale, left>>
  BY DEF Raise
<1>2. CASE x.attempts < MaxAttempts
  BY <1>2, RequeueKeeps DEF Raise, left
<1>3. CASE ~(x.attempts < MaxAttempts) /\ Hits(x.of, x.read)
  <2>1. record' = [record EXCEPT ![x.of] = Moved(x.read, "failed")] /\ items' = items \ {x}
    BY <1>3 DEF Raise
  <2> QED BY <1>1, <1>3, <2>1, Types, FailKeeps
<1>4. CASE ~(x.attempts < MaxAttempts) /\ ~Hits(x.of, x.read)
  <2>1. record' = record /\ items' = items \ {x}
    BY <1>4 DEF Raise
  <2>2. ~Carries(x, x.of)
    BY <1>1, <1>4 DEF Carries, InStep
  <2> QED BY <1>1, <2>1, <2>2, Types, ItemLeaves DEF left
<1> QED BY <1>2, <1>3, <1>4

LEMMA DieKeeps ==
    ASSUME ImportsAssumption, IInv, NEW x \in items, Die(x)
    PROVE  IInv'
<1>1. /\ x \in Item /\ x.attempts \in 0..MaxAttempts /\ MaxAttempts \in Nat /\ Event
      /\ UNCHANGED <<record, tasks, open, stored, wakes, plan, stale, overlooked>>
      /\ x.pc # "queued"
  BY Types DEF Die, Item, ImportsAssumption
<1>2. CASE x.attempts < MaxAttempts
  BY <1>1, <1>2, RequeueKeeps DEF Die, Strands
<1>3. CASE x.attempts = MaxAttempts
  <2>1. items' = items \ {x}
    BY <1>1, <1>3 DEF Die
  <2>2. CASE Strands(x)
    <3>1. stranded' = stranded \cup {<<x.of, x.read.version>>}
      BY <2>2 DEF Die
    <3>2. x.of \in Imports /\ x.read.version = record[x.of].version /\ x.read.version \in Nat
      BY <1>1, <2>2, Types DEF Strands, Carries, Hits, Item, Record
    <3>3. /\ stranded' \subseteq Imports \X Nat /\ stranded \subseteq stranded'
          /\ <<x.of, record[x.of].version>> \in stranded'
      <4>1. stranded \subseteq Imports \X Nat
        BY Types
      <4> QED BY <3>1, <3>2, <4>1
    <3> QED BY <1>1, <2>1, <3>3, ItemLeaves
  <2>3. CASE ~Strands(x)
    <3>1. stranded' = stranded
      BY <2>3 DEF Die
    <3>2. ~Carries(x, x.of) \/ \E y \in items \ {x} : Carries(y, x.of)
      BY <1>3, <2>3 DEF Strands
    <3> QED BY <1>1, <2>1, <3>1, <3>2, Types, ItemLeaves
  <2> QED BY <2>2, <2>3
<1> QED BY <1>1, <1>2, <1>3

\* Rows land once: what the step made is not there yet, and the record's counts
\* take it in.
LEMMA RowsLand ==
    ASSUME ImportsAssumption, IInv, NEW i \in Imports, NEW room \in Nat, NEW r,
           r = record[i], r.status = "running"
    PROVE  LET made == {<<i, n>> : n \in Made(i, r, room)}
               landed == made \ tasks
               after == Advanced(i, r, room, Cardinality(landed))
               rows == {n \in 1..MaxRows : <<i, n>> \in tasks \cup landed}
           IN /\ Cardinality(landed) \in Nat
              /\ landed \subseteq {i} \X (1..MaxRows)
              /\ after \in Record
              /\ after.version = r.version + 1
              /\ after.cursor <= RowCount[i]
              /\ after.status \in {"parked", "succeeded", "running"}
              /\ after.status = "parked" => room # MaxRows
              /\ rows = (1..after.cursor) \ BadRows
              /\ after.applied = Cardinality(rows)
              /\ after.skipped = Cardinality((1..after.cursor) \cap BadRows)
<1> DEFINE a == r.cursor
           c == CursorAfter(i, r, room)
           M == Made(i, r, room)
           made == {<<i, n>> : n \in M}
           landed == made \ tasks
           old == {n \in 1..MaxRows : <<i, n>> \in tasks}
           oldBad == (1..a) \cap BadRows
           bad == ((a + 1)..c) \cap BadRows
           status == IF c < LastOf(i, r) THEN "parked"
                     ELSE IF c >= RowCount[i] THEN "succeeded" ELSE "running"
           moved == Moved(r, status)
           after == Advanced(i, r, room, Cardinality(landed))
<1>1. /\ r \in Record /\ a \in 0..MaxRows /\ a <= RowCount[i] /\ MaxRows \in Nat
      /\ RowCount[i] \in 0..MaxRows /\ r.applied \in Nat /\ r.skipped \in Nat
  BY Types, MaxRowsBounds DEF RecordsHold, Record
<1>2. /\ old = (1..a) \ BadRows
      /\ r.applied = Cardinality(old)
      /\ r.skipped = Cardinality(oldBad)
  BY Types DEF RowsLandOnce
<1>3. /\ c \in a..RowCount[i] /\ LastOf(i, r) \in Nat
      /\ room = MaxRows => c = LastOf(i, r)
  BY <1>1, CursorMoves
<1>4. /\ M = ((a + 1)..c) \ BadRows
      /\ \A n \in M : n \in 1..MaxRows /\ n > a
  BY <1>1, <1>3 DEF Made
<1> HIDE DEF a, c, M, old, oldBad, bad
<1>5. landed = made
  <2>1. ASSUME NEW n \in M PROVE <<i, n>> \notin tasks
    BY <1>1, <1>2, <1>4 DEF old
  <2> QED BY <2>1
<1>6. /\ IsFiniteSet(M) /\ Cardinality(M) \in Nat /\ Cardinality(bad) \in Nat
      /\ Cardinality((1..c) \ BadRows) = Cardinality(old) + Cardinality(M)
      /\ (1..c) \ BadRows = old \cup M
      /\ Cardinality((1..c) \cap BadRows) = Cardinality(oldBad) + Cardinality(bad)
  <2>1. a \in Nat /\ c \in Nat /\ a <= c
    BY <1>1, <1>3
  <2>2. /\ (1..c) \ BadRows = ((1..a) \ BadRows) \cup (((a + 1)..c) \ BadRows)
        /\ (1..c) \cap BadRows = ((1..a) \cap BadRows) \cup (((a + 1)..c) \cap BadRows)
    BY <2>1, RowsBetween
  <2>3. /\ IsFiniteSet((1..a) \ BadRows) /\ IsFiniteSet(((a + 1)..c) \ BadRows)
        /\ IsFiniteSet((1..a) \cap BadRows) /\ IsFiniteSet(((a + 1)..c) \cap BadRows)
    BY <2>1, RowsBetween
  <2>4. IsFiniteSet(old) /\ IsFiniteSet(M) /\ IsFiniteSet(oldBad) /\ IsFiniteSet(bad)
    BY <1>2, <1>4, <2>3 DEF oldBad, bad
  <2>5. (1..c) \ BadRows = old \cup M /\ (1..c) \cap BadRows = oldBad \cup bad
    BY <1>2, <1>4, <2>2 DEF oldBad, bad
  <2>6. (\A n \in old : n \notin M) /\ \A n \in oldBad : n \notin bad
    BY <1>2, <1>4, <2>1 DEF oldBad, bad
  <2> QED BY <2>4, <2>5, <2>6, TwoParts
<1>7. Cardinality(landed) = Cardinality(M)
  <2>1. IsFiniteSet(M)
    BY <1>6
  <2>2. Cardinality({<<i, n>> : n \in M}) = Cardinality(M)
    BY <2>1, PairsCount
  <2> QED BY <1>5, <2>2, Zenon
<1>8. status \in {"parked", "succeeded", "running"} /\ (status = "parked" => room # MaxRows)
  BY <1>3
<1>9. /\ moved \in Record /\ moved.status = status /\ moved.version = r.version + 1
      /\ moved.applied = r.applied /\ moved.skipped = r.skipped
  <2>1. status \in Statuses
    BY <1>8 DEF Statuses, Settled
  <2> HIDE DEF status
  <2> QED BY <1>1, <2>1, MovedIs
<1>10. after = [moved EXCEPT !.cursor = c, !.applied = @ + Cardinality(landed),
                             !.skipped = @ + Cardinality(bad)]
  BY DEF Advanced, c, a, bad
<1> HIDE DEF status, moved, after, landed
<1>11. /\ after \in Record /\ after.version = r.version + 1 /\ after.cursor = c
       /\ after.status = status /\ after.applied = r.applied + Cardinality(M)
       /\ after.skipped = r.skipped + Cardinality(bad)
  <2>1. /\ after.version = moved.version /\ after.cursor = c /\ after.status = moved.status
        /\ after.applied = moved.applied + Cardinality(landed)
        /\ after.skipped = moved.skipped + Cardinality(bad)
        /\ DOMAIN after = {"status", "cursor", "version", "applied", "skipped"}
    BY <1>9, <1>10 DEF Record
  <2>2. after = [f \in DOMAIN after |-> after[f]]
    BY <1>9, <1>10 DEF Record
  <2>3. moved.status \in Statuses /\ moved.version \in Nat /\ c \in 0..MaxRows
    BY <1>1, <1>3, <1>9 DEF Record
  <2>4. after \in Record
    BY <1>1, <1>6, <1>7, <1>9, <2>1, <2>2, <2>3 DEF Record
  <2> QED BY <1>7, <1>9, <2>1, <2>4
<1>12. {n \in 1..MaxRows : <<i, n>> \in tasks \cup landed} = (1..c) \ BadRows
  <2>1. \A n \in 1..MaxRows : <<i, n>> \in landed <=> n \in M
    BY <1>5 DEF landed
  <2>2. {n \in 1..MaxRows : <<i, n>> \in tasks \cup landed} = old \cup M
    BY <1>4, <2>1 DEF old
  <2> QED BY <1>2, <1>6, <2>2
<1>13. landed \subseteq {i} \X (1..MaxRows)
  BY <1>4, <1>5 DEF landed
<1>14. /\ after.cursor <= RowCount[i]
       /\ after.applied = Cardinality((1..c) \ BadRows)
       /\ after.skipped = Cardinality((1..c) \cap BadRows)
  BY <1>1, <1>2, <1>3, <1>6, <1>11
<1>15. /\ Cardinality(landed) \in Nat
       /\ landed \subseteq {i} \X (1..MaxRows)
       /\ after \in Record
       /\ after.version = r.version + 1
       /\ after.cursor <= RowCount[i]
       /\ after.status \in {"parked", "succeeded", "running"}
       /\ after.status = "parked" => room # MaxRows
       /\ {n \in 1..MaxRows : <<i, n>> \in tasks \cup landed} = (1..after.cursor) \ BadRows
       /\ after.applied = Cardinality((1..after.cursor) \ BadRows)
       /\ after.skipped = Cardinality((1..after.cursor) \cap BadRows)
  BY <1>6, <1>7, <1>8, <1>11, <1>12, <1>13, <1>14
<1> QED BY <1>15, Zenon DEF landed, after, M

LEMMA LandKeeps ==
    ASSUME ImportsAssumption, IInv, NEW x \in items, Land(x)
    PROVE  IInv'
<1> DEFINE i == x.of
           r == x.read
           landed == {<<i, n>> : n \in Made(i, r, x.room)} \ tasks
           after == Advanced(i, r, x.room, Cardinality(landed))
           y == [x EXCEPT !.pc = "landed"]
<1>1. /\ x \in Item /\ i \in Imports /\ x.room \in Nat /\ x.pc = "ready" /\ Calm
      /\ UNCHANGED <<stored, wakes, plan, stale, stranded>> /\ InStep(x) /\ x.plan \in Plans
  BY Types DEF Land, Item, InStep
<1>2. y \in Item /\ y.of = i /\ y.pc = "landed"
  BY <1>1, ItemForms
<1>3. CASE ~Hits(i, r)
  <2>1. items' = Replace(items, x, y) /\ UNCHANGED <<record, tasks, open, overlooked>>
    BY <1>3 DEF Land
  <2> HIDE DEF y
  <2>2. ItemHolds(y) /\ ~Carries(x, x.of)
    BY <1>1, <1>2, <1>3 DEF ItemHolds, Carries, InStep
  <2> QED BY <1>1, <1>2, <2>1, <2>2, ItemMoves
<1>4. CASE Hits(i, r)
  <2>1. /\ record' = [record EXCEPT ![i] = after]
        /\ tasks' = tasks \cup landed
        /\ open' = open + Cardinality(landed)
        /\ items' = Replace(items, x, y) \cup StepRows(i, after)
        /\ overlooked' = IF ParksLate(x, after)
                         THEN overlooked \cup {<<i, after.version>>} ELSE overlooked
    BY <1>4 DEF Land, Write
  <2>2. r = record[i] /\ r.status = "running" /\ r.version \in Nat
    BY <1>1, <1>4, Types, ReadIsRecord DEF Record
  <2> DEFINE rows == {n \in 1..MaxRows : <<i, n>> \in tasks \cup landed}
  <2>3. /\ Cardinality(landed) \in Nat
        /\ landed \subseteq {i} \X (1..MaxRows)
        /\ after \in Record
        /\ after.version = r.version + 1
        /\ after.cursor <= RowCount[i]
        /\ after.status \in {"parked", "succeeded", "running"}
        /\ after.status = "parked" => x.room # MaxRows
        /\ rows = (1..after.cursor) \ BadRows
        /\ after.applied = Cardinality(rows)
        /\ after.skipped = Cardinality((1..after.cursor) \cap BadRows)
    BY <1>1, <2>2, RowsLand
  <2> HIDE DEF landed, after, y, r, i
  <2>4. /\ record' \in [Imports -> Record] /\ record'[i] = after
        /\ \A j \in Imports \ {i} : record'[j] = record[j]
    BY <1>1, <2>1, <2>3, Types
  <2>5. Follows
    BY <2>2, <2>3, <2>4 DEF Follows
  <2>6. /\ \A z \in StepRows(i, after) : ItemHolds(z)' /\ z \in Item /\ z.pc = "queued"
        /\ after.status = "running" => \E z \in StepRows(i, after) : Carries(z, i)'
    BY <1>1, <2>3, <2>4, NewStep
  <2>7. items' = ((items \ {x}) \cup {y}) \cup StepRows(i, after)
    BY <2>1 DEF Replace
  <2>8. TypeOK'
    <3>1. tasks' \subseteq Imports \X (1..MaxRows) /\ open' \in Nat /\ items' \subseteq Item
      BY <1>1, <1>2, <2>1, <2>3, <2>6, <2>7, Types DEF TypeOK
    <3>2. after.version \in Nat
      BY <2>3 DEF Record
    <3>3. overlooked' \subseteq Imports \X Nat
      BY <1>1, <2>1, <3>2, Types
    <3> QED BY <1>1, <2>4, <3>1, <3>3, Types, EventCounts DEF TypeOK
  <2>9. \A j \in Imports \ {i}, n \in 1..MaxRows : <<j, n>> \in tasks' <=> <<j, n>> \in tasks
    BY <2>1, <2>3
  <2>10. RecordsHold'
    <3>1. ASSUME NEW j \in Imports
          PROVE  /\ record'[j].cursor <= RowCount[j]
                 /\ record'[j].status = "none"
                      => /\ record'[j] = NoRecord
                         /\ \A n \in 1..MaxRows : <<j, n>> \notin tasks'
      <4>1. CASE j = i
        BY <2>3, <2>4, <4>1
      <4>2. CASE j # i
        BY <2>4, <2>9, <4>2, Types DEF RecordsHold
      <4> QED BY <4>1, <4>2
    <3> QED BY <3>1 DEF RecordsHold
  <2>11. RowsLandOnce'
    <3>1. ASSUME NEW j \in Imports, record'[j].status \notin {"none", "gone"}
          PROVE  LET there == {n \in 1..MaxRows : <<j, n>> \in tasks'}
                 IN /\ there = (1..record'[j].cursor) \ BadRows
                    /\ record'[j].applied = Cardinality(there)
                    /\ record'[j].skipped = Cardinality((1..record'[j].cursor) \cap BadRows)
      <4>1. CASE j = i
        BY <2>1, <2>3, <2>4, <4>1
      <4>2. CASE j # i
        <5>1. record'[j] = record[j]
          BY <2>4, <4>2
        <5>2. {n \in 1..MaxRows : <<j, n>> \in tasks'} = {n \in 1..MaxRows : <<j, n>> \in tasks}
          BY <2>9, <4>2
        <5> QED BY <3>1, <5>1, <5>2, Types DEF RowsLandOnce
      <4> QED BY <4>1, <4>2
    <3> QED BY <3>1 DEF RowsLandOnce
  <2>12. \A z \in items' : ItemHolds(z)'
    <3>1. ItemHolds(y)'
      BY <1>2 DEF ItemHolds, InStep
    <3> QED BY <2>5, <2>6, <2>7, <3>1, Types, ItemStays
  <2>13. \A w \in wakes' : WakeHolds(w)'
    BY <1>1, <2>5, Types, WakeStays
  <2>14. RunningIsCarried'
    <3>1. \A j \in Imports \ {i} : \A z \in items \ items' : ~Carries(z, j)
      BY <2>7 DEF Carries, i
    <3> QED BY <1>1, <2>4, <2>6, <2>7, <3>1, Types, CarriedOn
  <2>15. ParkedIsWoken'
    <3>1. overlooked \subseteq overlooked'
      BY <2>1
    <3>2. ASSUME plan = "paid", after.status = "parked"
          PROVE  \/ <<i, after.version>> \in overlooked'
                 \/ \E w \in wakes' : Reaches(w, i)'
      <4>1. x.plan = "free"
        BY <1>1, <2>3, <3>2, Types DEF ItemHolds, Plans
      <4>2. CASE ParksLate(x, after)
        BY <2>1, <4>2
      <4>3. CASE ~ParksLate(x, after)
        <5>1. PICK w \in wakes : Awaits(w, i)
          BY <3>2, <4>1, <4>3 DEF ParksLate, i
        <5>2. w \in wakes' /\ Reaches(w, i)'
          BY <1>1, <5>1 DEF Reaches, Awaits
        <5> QED BY <5>2
      <4> QED BY <4>2, <4>3
    <3> QED BY <1>1, <2>4, <3>1, <3>2, Types, WokenOn
  <2> QED BY <2>8, <2>10, <2>11, <2>12, <2>13, <2>14, <2>15, Types
        DEF IInv, RecordIsCarried, ImportsAssumption
<1> QED BY <1>3, <1>4

-----------------------------------------------------------------------------
(* The plan, and the wake of what it parked.                               *)

\* Only the wakes and the plan change, and each record a wake reached is reached.
LEMMA WakesMove ==
    ASSUME ImportsAssumption, IInv, Event \/ Calm,
           UNCHANGED <<record, tasks, open, stored, items, left>>, plan' \in Plans,
           stale' \in BOOLEAN, wakes' \subseteq Wake, \A w \in wakes' \ wakes : WakeHolds(w),
           ParkedIsWoken'
    PROVE  IInv'
<1>1. \A w \in wakes' \ wakes : WakeHolds(w)'
  BY DEF WakeHolds
<1>2. stranded' = stranded /\ overlooked' = overlooked
  BY DEF left
<1>3. RunningIsCarried'
  BY <1>2, Types DEF RunningIsCarried, Carries, InStep, Hits
<1> QED BY <1>1, <1>2, <1>3, Types, RecordStays, StepKeeps

\* A wake that starts, or starts again, reaches them all.
LEMMA FreshWake ==
    ASSUME NEW w, w.pc = "queued", w.after = 0, w.batch = {}
    PROVE  WakeHolds(w) /\ \A i : Reaches(w, i)'
BY DEF WakeHolds, Reaches, Awaits

LEMMA PlanRisesKeeps ==
    ASSUME ImportsAssumption, IInv, PlanRises
    PROVE  IInv'
<1>0. PICK w : w = [asked |-> events, pc |-> "queued", after |-> 0, batch |-> {}]
  OBVIOUS
<1>1. /\ wakes' = wakes \cup {w} /\ plan' = "paid" /\ Event
      /\ UNCHANGED <<record, tasks, open, stored, items, left>> /\ stale' \in BOOLEAN
  BY <1>0 DEF PlanRises
<1>2. w \in Wake /\ w.pc = "queued" /\ w.after = 0 /\ w.batch = {}
  <2>1. events \in Nat
    BY Types DEF TypeOK
  <2> QED BY <1>0, <2>1 DEF Wake
<1>3. WakeHolds(w) /\ \A i : Reaches(w, i)'
  BY <1>2, FreshWake
<1>4. ParkedIsWoken'
  <2>1. w \in wakes'
    BY <1>1
  <2> QED BY <1>3, <2>1 DEF ParkedIsWoken
<1> QED BY <1>1, <1>2, <1>3, <1>4, Types, WakesMove DEF Plans

LEMMA PlanFallsKeeps ==
    ASSUME ImportsAssumption, IInv, PlanFalls
    PROVE  IInv'
<1>1. ParkedIsWoken'
  BY DEF PlanFalls, ParkedIsWoken
<1> QED BY <1>1, Types, WakesMove DEF PlanFalls, Plans

LEMMA CacheEndsKeeps ==
    ASSUME ImportsAssumption, IInv, CacheEnds
    PROVE  IInv'
BY Types, OthersKeep DEF CacheEnds

\* One wake for another, which reaches what the first did.
LEMMA WakeMoves ==
    ASSUME ImportsAssumption, IInv, NEW w \in wakes, NEW u \in Wake,
           wakes' = Replace(wakes, w, u), Event \/ Calm, WakeHolds(u),
           UNCHANGED <<record, tasks, open, stored, items, plan, stale, left>>,
           \A j \in Imports : record[j].status = "parked" /\ Reaches(w, j) => Reaches(u, j)
    PROVE  IInv'
<1>1. wakes' = (wakes \ {w}) \cup {u}
  BY DEF Replace
<1>2. stranded' = stranded /\ overlooked' = overlooked
  BY DEF left
<1>3. ParkedIsWoken'
  <2>1. ASSUME NEW j \in Imports, record[j].status = "parked"
        PROVE  \/ \E z \in wakes' : Reaches(z, j)'
               \/ \A z \in wakes \ wakes' : ~Reaches(z, j)
    <3>1. CASE Reaches(w, j)
      <4>1. Reaches(u, j)'
        BY <2>1, <3>1 DEF Reaches, Awaits
      <4> QED BY <1>1, <4>1
    <3>2. CASE ~Reaches(w, j)
      BY <1>1, <3>2
    <3> QED BY <3>1, <3>2
  <2> QED BY <1>2, <2>1, Types, WokenOn
<1> QED BY <1>1, <1>2, <1>3, Types, WakesMove

LEMMA BatchForm ==
    ASSUME NEW w \in Wake, NEW batch \in SUBSET (Imports \X Nat),
           NEW pc \in {"reading", "resuming"}, NEW n \in Nat,
           NEW u, u = [w EXCEPT !.batch = batch, !.pc = pc, !.after = n]
    PROVE  u \in Wake
<1>1. /\ u.asked = w.asked /\ u.pc = pc /\ u.after = n /\ u.batch = batch
      /\ DOMAIN u = {"asked", "pc", "after", "batch"}
      /\ w.asked \in Nat
  BY DEF Wake
<1>2. u = [f \in DOMAIN u |-> u[f]]
  BY DEF Wake
<1> QED BY <1>1, <1>2 DEF Wake

LEMMA RestForm ==
    ASSUME NEW w \in Wake, NEW p, NEW u, u = [w EXCEPT !.batch = @ \ {p}]
    PROVE  u \in Wake /\ u.pc = w.pc /\ u.after = w.after /\ u.batch = w.batch \ {p}
BY DEF Wake

LEMMA QueuedForm ==
    ASSUME NEW w \in Wake, NEW u, u = [w EXCEPT !.pc = "queued", !.after = 0, !.batch = {}]
    PROVE  u \in Wake /\ u.pc = "queued" /\ u.after = 0 /\ u.batch = {}
<1>1. /\ u.asked = w.asked /\ u.pc = "queued" /\ u.after = 0 /\ u.batch = {}
      /\ DOMAIN u = {"asked", "pc", "after", "batch"}
      /\ w.asked \in Nat
  BY DEF Wake
<1>2. u = [f \in DOMAIN u |-> u[f]]
  BY DEF Wake
<1> QED BY <1>1, <1>2 DEF Wake

LEMMA WakeDiesKeeps ==
    ASSUME ImportsAssumption, IInv, NEW w \in wakes, WakeDies(w)
    PROVE  IInv'
<1> DEFINE u == [w EXCEPT !.pc = "queued", !.after = 0, !.batch = {}]
<1>1. u \in Wake /\ u.pc = "queued" /\ u.after = 0 /\ u.batch = {}
  BY Types, QueuedForm
<1>2. wakes' = Replace(wakes, w, u) /\ Event
      /\ UNCHANGED <<record, tasks, open, stored, items, plan, stale, left>>
  BY DEF WakeDies
<1> HIDE DEF u
<1>3. WakeHolds(u) /\ \A j : Reaches(u, j)
  BY <1>1 DEF WakeHolds, Reaches, Awaits
<1> QED BY <1>1, <1>2, <1>3, WakeMoves

\* The first of the parked are the least of them, and all if they are few.
LEMMA FirstAreLeast ==
    ASSUME ImportsAssumption, NEW after \in Nat
    PROVE  LET all == Parked(after)
               first == FirstParked(after)
           IN /\ first \subseteq all /\ all \subseteq Imports /\ IsFiniteSet(first)
              /\ \A i \in all, j \in first : i \in first \/ j < i
              /\ Cardinality(first) < WakeBatch => first = all
              /\ first = {} => all = {}
<1> DEFINE all == Parked(after)
           first == FirstParked(after)
           below(i) == {j \in all : j < i}
<1>0. WakeBatch \in Nat /\ WakeBatch > 0 /\ Imports \subseteq Nat /\ IsFiniteSet(Imports)
  BY DEF ImportsAssumption
<1>1. all \subseteq Imports /\ first = {i \in all : Cardinality(below(i)) < WakeBatch}
  BY DEF Parked, FirstParked
<1>2. IsFiniteSet(all) /\ IsFiniteSet(first) /\ first \subseteq all
  BY <1>0, <1>1, FS_Subset
<1> HIDE DEF all, first
<1>3. \A i \in all : i \in first <=> Cardinality(below(i)) < WakeBatch
  BY <1>1
<1>4. ASSUME NEW i
      PROVE  /\ IsFiniteSet(below(i)) /\ Cardinality(below(i)) \in Nat
             /\ \A j \in below(i) : j \in all /\ j < i
  BY <1>2, FS_Subset, FS_CardinalityType
<1>5. ASSUME NEW i \in all, NEW j \in first, i \notin first PROVE j < i
  <2> SUFFICES ASSUME i <= j PROVE FALSE
    BY <1>0, <1>1, <1>2
  <2>1. below(i) \subseteq below(j)
    <3>1. i \in Nat /\ j \in Nat /\ all \subseteq Nat
      BY <1>0, <1>1, <1>2
    <3>2. ASSUME NEW k \in all, k < i PROVE k < j
      BY <3>1, <3>2
    <3> QED BY <3>2
  <2> HIDE DEF below
  <2>2. Cardinality(below(i)) <= Cardinality(below(j))
    BY <1>4, <2>1, FS_Subset
  <2>3. Cardinality(below(j)) < WakeBatch /\ ~(Cardinality(below(i)) < WakeBatch)
    BY <1>2, <1>3, <1>5
  <2> QED BY <1>0, <1>4, <2>2, <2>3
<1>6. ASSUME first # all PROVE Cardinality(first) >= WakeBatch
  <2> DEFINE rest == all \ first
  <2>1. rest \in SUBSET Nat /\ rest # {}
    BY <1>0, <1>1, <1>2, <1>6
  <2>2. PICK least \in rest : \A n \in rest : least <= n
    BY <2>1, LeastOf
  <2> HIDE DEF below
  <2>3. below(least) \subseteq first
    <3>1. ASSUME NEW j \in below(least), j \notin first PROVE FALSE
      <4>1. j \in rest /\ j < least
        BY <1>4, <3>1
      <4> QED BY <2>1, <2>2, <4>1
    <3> QED BY <3>1
  <2>4. ~(Cardinality(below(least)) < WakeBatch)
    BY <1>3, <2>2
  <2>5. Cardinality(below(least)) <= Cardinality(first) /\ Cardinality(first) \in Nat
    BY <1>2, <2>3, FS_Subset, FS_CardinalityType
  <2> QED BY <1>0, <1>4, <2>4, <2>5
<1>7. Cardinality(first) \in Nat
  BY <1>2, FS_CardinalityType
<1>8. Cardinality(first) < WakeBatch => first = all
  BY <1>0, <1>6, <1>7
<1>9. first = {} => all = {}
  BY <1>0, <1>8, FS_EmptySet
<1> QED BY <1>1, <1>2, <1>5, <1>8, <1>9 DEF all, first

LEMMA WakeReadsKeeps ==
    ASSUME ImportsAssumption, IInv, NEW w \in wakes, WakeReads(w)
    PROVE  IInv'
<1> DEFINE all == Parked(w.after)
           batch == FirstParked(w.after)
           read == {<<i, record[i].version>> : i \in batch}
           pc == IF Cardinality(batch) < WakeBatch THEN "resuming" ELSE "reading"
<1>1. /\ w \in Wake /\ w.after \in Nat /\ WakeHolds(w) /\ Calm
      /\ UNCHANGED <<record, tasks, open, stored, items, plan, stale, left>>
      /\ w.pc = "queued" \/ (w.pc = "reading" /\ w.batch = {})
  BY Types DEF WakeReads, Wake
<1>2. /\ batch \subseteq all /\ all \subseteq Imports /\ IsFiniteSet(batch)
      /\ \A i \in all, j \in batch : i \in batch \/ j < i
      /\ Cardinality(batch) < WakeBatch => batch = all
      /\ batch = {} => all = {}
  BY <1>1, FirstAreLeast
<1>3. ASSUME NEW j \in Imports, record[j].status = "parked", Reaches(w, j)
      PROVE  j \in all
  <2>1. j > 0 /\ (w.pc = "queued" => w.after = 0)
    BY <1>1 DEF ImportsAssumption, WakeHolds
  <2>2. j > w.after
    BY <1>1, <1>3, <2>1 DEF Reaches, Awaits
  <2> QED BY <1>3, <2>2 DEF Parked
<1>4. CASE batch = {}
  <2>1. wakes' = wakes \ {w}
    BY <1>4 DEF WakeReads
  <2>2. \A j \in Imports : record[j].status = "parked" => ~Reaches(w, j)
    BY <1>2, <1>3, <1>4
  <2>3. ParkedIsWoken'
    <3>1. overlooked' = overlooked
      BY <1>1 DEF left
    <3> QED BY <1>1, <2>1, <2>2, <3>1, Types, WokenOn
  <2> QED BY <1>1, <2>1, <2>3, Types, WakesMove
<1>5. CASE batch # {}
  <2>1. PICK u : u = [w EXCEPT !.batch = read, !.pc = pc, !.after = Max(batch)]
    OBVIOUS
  <2>2. wakes' = Replace(wakes, w, u)
    BY <1>5, <2>1 DEF WakeReads
  <2>3. Max(batch) \in batch /\ Max(batch) \in Nat
    <3>1. batch \in SUBSET Nat
      BY <1>2 DEF ImportsAssumption
    <3> QED BY <1>2, <1>5, <3>1, GreatestOf
  <2>4. \A i \in batch : record[i].version \in Nat /\ record[i].status = "parked"
    BY <1>2, Types DEF Record, Parked
  <2>5. read \in SUBSET (Imports \X Nat) /\ pc \in {"reading", "resuming"}
    BY <1>2, <2>4
  <2>6. u \in Wake /\ u.pc = pc /\ u.after = Max(batch) /\ u.batch = read
    <3>1. u.pc = pc /\ u.after = Max(batch) /\ u.batch = read
      BY <1>1, <2>1 DEF Wake
    <3>2. u \in Wake
      BY <1>1, <2>1, <2>3, <2>5, BatchForm
    <3> QED BY <3>1, <3>2
  <2>7. WakeHolds(u)
    BY <2>4, <2>5, <2>6 DEF WakeHolds
  <2>8. ASSUME NEW j \in Imports, record[j].status = "parked", Reaches(w, j)
        PROVE  Reaches(u, j)
    <3>1. CASE j \in batch
      BY <2>6, <3>1 DEF Reaches, Awaits
    <3>2. CASE j \notin batch
      <4>1. j > Max(batch) /\ pc = "reading"
        BY <1>2, <1>3, <2>3, <2>8, <3>2 DEF ImportsAssumption
      <4> QED BY <2>6, <4>1 DEF Reaches, Awaits
    <3> QED BY <3>1, <3>2
  <2> QED BY <1>1, <2>2, <2>6, <2>7, <2>8, WakeMoves
<1> QED BY <1>4, <1>5

\* A batch has a first.
LEMMA BatchHasFirst ==
    ASSUME ImportsAssumption, NEW w \in Wake, w.batch # {}
    PROVE  \E p \in w.batch : \A q \in w.batch : p[1] <= q[1]
<1> DEFINE ids == {p[1] : p \in w.batch}
<1>1. ids \in SUBSET Nat /\ ids # {}
  <2>1. \A p \in w.batch : p[1] \in Nat
    BY DEF Wake, ImportsAssumption
  <2> QED BY <2>1
<1>2. PICK n \in ids : \A m \in ids : n <= m
  BY <1>1, LeastOf
<1> QED BY <1>2

LEMMA WakeResumesKeeps ==
    ASSUME ImportsAssumption, IInv, NEW w \in wakes, WakeResumes(w)
    PROVE  IInv'
<1>1. /\ w \in Wake /\ w.batch # {} /\ w.pc # "queued" /\ WakeHolds(w) /\ Calm
      /\ UNCHANGED <<tasks, open, stored, plan, stale, left>>
  BY Types DEF WakeResumes, WakeHolds
<1>2. PICK first \in w.batch :
         first = CHOOSE p \in w.batch : \A q \in w.batch : p[1] <= q[1]
  BY <1>1, BatchHasFirst
<1>3. PICK i : i = first[1]
  OBVIOUS
<1>4. PICK rest : rest = [w EXCEPT !.batch = @ \ {first}]
  OBVIOUS
<1>5. rest \in Wake /\ rest.pc = w.pc /\ rest.batch = w.batch \ {first} /\ i \in Imports
      /\ rest.after = w.after
  <2>1. i \in Imports
    BY <1>1, <1>3 DEF Wake
  <2> QED BY <1>1, <1>4, <2>1, RestForm
<1>6. wakes' = IF rest.batch = {} /\ w.pc = "resuming"
               THEN wakes \ {w}
               ELSE Replace(wakes, w, rest)
  BY <1>2, <1>3, <1>4 DEF WakeResumes
<1>7. /\ wakes' \subseteq Wake
      /\ \A u \in wakes' \ wakes : u = rest
      /\ WakeHolds(rest)
  <2>1. WakeHolds(rest)
    BY <1>1, <1>5 DEF WakeHolds
  <2> QED BY <1>5, <1>6, <2>1, Types DEF Replace
<1>8. ASSUME NEW j \in Imports, record[j].status = "parked", Reaches(w, j),
             <<j, record[j].version>> # first
      PROVE  rest \in wakes' /\ Reaches(rest, j)
  <2>1. Reaches(rest, j) /\ ~(rest.batch = {} /\ w.pc = "resuming")
    BY <1>1, <1>5, <1>8 DEF Reaches, Awaits
  <2> QED BY <1>6, <2>1 DEF Replace
<1>9. CASE record[i].version = first[2] /\ record[i].status # "gone"
  <2>1. /\ record' = [record EXCEPT ![i] = Moved(record[i], "running")]
        /\ items' = items \cup StepRows(i, Moved(record[i], "running"))
    BY <1>2, <1>3, <1>9 DEF WakeResumes, Write
  <2>2. record' \in [Imports -> Record] /\ Follows
        /\ \A j \in Imports \ {i} : record'[j] = record[j]
    BY <1>5, <1>9, <2>1, Types, RecordMoves DEF Statuses
  <2>3. \A u \in wakes' \ wakes : WakeHolds(u)'
    BY <1>5, <1>7, <2>2, Types, WakeStays
  <2>4. \A j \in Imports \ {i} : record[j].status = "parked" /\ plan = "paid" =>
           (\E u \in wakes' : Reaches(u, j)') \/ \A u \in wakes \ wakes' : ~Reaches(u, j)
    BY <1>3, <1>6, <1>8, <2>2 DEF Reaches, Awaits, Replace
  <2> QED BY <1>1, <1>5, <1>7, <1>9, <2>1, <2>3, <2>4, RunsAgain
<1>10. CASE ~(record[i].version = first[2] /\ record[i].status # "gone")
  <2>1. UNCHANGED <<record, items>>
    BY <1>2, <1>3, <1>10 DEF WakeResumes
  <2>2. \A j \in Imports : record[j].status = "parked" => <<j, record[j].version>> # first
    BY <1>3, <1>10
  <2>3. stranded' = stranded /\ overlooked' = overlooked
    BY <1>1 DEF left
  <2>4. ParkedIsWoken'
    <3>1. ASSUME NEW j \in Imports, record[j].status = "parked"
          PROVE  \/ \E z \in wakes' : Reaches(z, j)'
                 \/ \A z \in wakes \ wakes' : ~Reaches(z, j)
      <4>1. CASE Reaches(w, j)
        <5>1. rest \in wakes' /\ Reaches(rest, j)'
          BY <1>8, <2>1, <2>2, <3>1, <4>1 DEF Reaches, Awaits
        <5> QED BY <5>1
      <4>2. CASE ~Reaches(w, j)
        BY <1>6, <4>2 DEF Replace
      <4> QED BY <4>1, <4>2
    <3> QED BY <1>1, <2>1, <2>3, <3>1, Types, WokenOn
  <2> QED BY <1>1, <1>7, <2>1, <2>3, <2>4, Types, WakesMove
<1> QED BY <1>9, <1>10

-----------------------------------------------------------------------------
(* The theorems.                                                           *)

LEMMA InitKeeps ==
    ASSUME ImportsAssumption, Init
    PROVE  IInv
<1>1. TypeOK
  <2>1. \A i \in Imports : NoRecord \in Record
    BY MaxRowsBounds DEF NoRecord, Record, Statuses
  <2>2. record \in [Imports -> Record]
    BY <2>1 DEF Init
  <2>3. open \in Nat /\ events \in 0..MaxEvents /\ plan \in Plans
    BY DEF Init, Plans, ImportsAssumption
  <2>5. stale \in BOOLEAN
    BY Zenon DEF Init
  <2>4. /\ tasks = {} /\ stored = Imports /\ items = {} /\ wakes = {}
        /\ stranded = {} /\ overlooked = {}
    BY DEF Init
  <2> QED BY <2>2, <2>3, <2>4, <2>5 DEF TypeOK
<1>2. RecordsHold
  BY DEF Init, RecordsHold, NoRecord, ImportsAssumption
<1>3. \A i \in Imports : record[i].status = "none"
  BY DEF Init, NoRecord
<1>4. RowsLandOnce /\ RunningIsCarried /\ ParkedIsWoken
  BY <1>3 DEF RowsLandOnce, RunningIsCarried, ParkedIsWoken
<1>5. (\A x \in items : ItemHolds(x)) /\ \A w \in wakes : WakeHolds(w)
  BY DEF Init
<1> QED BY <1>1, <1>2, <1>4, <1>5 DEF IInv, RecordIsCarried

LEMMA StutterKeeps ==
    ASSUME ImportsAssumption, IInv, UNCHANGED vars
    PROVE  IInv'
<1> USE DEF vars, left
<1>1. TypeOK' /\ RecordsHold' /\ RowsLandOnce'
  BY DEF IInv, TypeOK, RecordsHold, RowsLandOnce
<1>2. (\A x \in items' : ItemHolds(x)') /\ \A w \in wakes' : WakeHolds(w)'
  BY DEF IInv, ItemHolds, InStep, WakeHolds, Hits
<1>3. RunningIsCarried'
  BY DEF IInv, RecordIsCarried, RunningIsCarried, Carries, InStep, Hits
<1>4. ParkedIsWoken'
  BY DEF IInv, RecordIsCarried, ParkedIsWoken, Reaches, Awaits
<1> QED BY <1>1, <1>2, <1>3, <1>4 DEF IInv, RecordIsCarried

LEMMA NextKeeps ==
    ASSUME ImportsAssumption, IInv, [Next]_vars
    PROVE  IInv'
<1>1. CASE UNCHANGED vars
  BY <1>1, StutterKeeps
<1>2. ASSUME NEW i \in Imports,
             Start(i) \/ Resume(i) \/ Cancel(i) \/ RemoveFile(i) \/ Purge(i)
      PROVE  IInv'
  BY <1>2, StartKeeps, ResumeKeeps, CancelKeeps, RemoveFileKeeps, PurgeKeeps
<1>3. ASSUME NEW x \in items, \/ Take(x) \/ FileGone(x) \/ ReadPlan(x) \/ ReadCount(x)
                              \/ Land(x) \/ Complete(x) \/ Raise(x) \/ Die(x)
      PROVE  IInv'
  BY <1>3, TakeKeeps, FileGoneKeeps, ReadPlanKeeps, ReadCountKeeps, LandKeeps,
     CompleteKeeps, RaiseKeeps, DieKeeps
<1>4. ASSUME NEW w \in wakes, WakeReads(w) \/ WakeResumes(w) \/ WakeDies(w)
      PROVE  IInv'
  BY <1>4, WakeReadsKeeps, WakeResumesKeeps, WakeDiesKeeps
<1>5. CASE CompleteTask \/ PlanRises \/ PlanFalls \/ CacheEnds
  BY <1>5, CompleteTaskKeeps, PlanRisesKeeps, PlanFallsKeeps, CacheEndsKeeps
<1> QED BY <1>1, <1>2, <1>3, <1>4, <1>5 DEF Next

\* The invariant the others follow from (IInv).
THEOREM ImportsInvariant ==
    ASSUME ImportsAssumption
    PROVE  Spec => []IInv
<1>1. Init => IInv
  BY InitKeeps
<1>2. IInv /\ [Next]_vars => IInv'
  BY NextKeeps
<1> QED BY <1>1, <1>2, PTL DEF Spec

\* Each row of a file up to the cursor is one task or was skipped, and is counted
\* once, for any number of imports, rows, steps and workers, and whatever dies or
\* races (step_import, create_tasks_in_step).
THEOREM RowsHold ==
    ASSUME ImportsAssumption
    PROVE  Spec => []RowsLandOnce
<1>1. IInv => RowsLandOnce
  BY DEF IInv
<1> QED BY <1>1, ImportsInvariant, PTL

\* A record under way goes on without anyone asking again: the running has an item
\* that carries its step, and the parked a wake that reaches it once its plan has
\* no bound; but for one whose last carrier died with its attempts spent, and one
\* that was parked by the bound of a plan that had risen, past the last wake.
THEOREM CarriedHolds ==
    ASSUME ImportsAssumption
    PROVE  Spec => []RecordIsCarried
<1>1. IInv => RecordIsCarried
  BY DEF IInv
<1> QED BY <1>1, ImportsInvariant, PTL

-----------------------------------------------------------------------------
(* What ended stays.                                                       *)

\* Only a record that runs or is parked is written, and rows land for one that runs.
Untouched(i) ==
    /\ record'[i] = record[i] \/ record'[i].status = "gone"
    /\ \A n \in 1..MaxRows : <<i, n>> \in tasks' => <<i, n>> \in tasks

LEMMA OthersUntouched ==
    ASSUME ImportsAssumption, IInv, NEW i \in Imports, NEW r,
           record' = [record EXCEPT ![i] = r], record[i].status \notin Settled,
           tasks' = tasks \/ \E S \in SUBSET ({i} \X (1..MaxRows)) : tasks' = tasks \cup S
    PROVE  EndedStays
<1> SUFFICES ASSUME NEW j \in Imports, record[j].status \in Settled
             PROVE  Untouched(j)
  BY DEF EndedStays, Untouched
<1>1. j # i /\ record'[j] = record[j]
  BY Types
<1> QED BY <1>1 DEF Untouched

LEMMA NothingTouched ==
    ASSUME UNCHANGED <<record, tasks>>
    PROVE  EndedStays
BY DEF EndedStays

LEMMA EndedInStep ==
    ASSUME ImportsAssumption, IInv, [Next]_vars
    PROVE  EndedStays
<1>1. CASE UNCHANGED vars
  BY <1>1, NothingTouched DEF vars
<1>2. ASSUME NEW i \in Imports, Start(i) \/ Resume(i) \/ Cancel(i)
      PROVE  EndedStays
  BY <1>2, OthersUntouched DEF Start, Resume, Cancel, Write, Settled
<1>3. ASSUME NEW i \in Imports, Purge(i)
      PROVE  EndedStays
  <2>1. record[i] \in Record
    BY Types
  <2>2. record'[i].status = "gone" /\ \A j \in Imports \ {i} : record'[j] = record[j]
    BY <1>3, <2>1, Types DEF Purge, Record
  <2> QED BY <1>3, <2>2 DEF Purge, EndedStays
<1>4. ASSUME NEW x \in items, FileGone(x) \/ Raise(x)
      PROVE  EndedStays
  <2>1. InStep(x) /\ tasks' = tasks
    BY <1>4 DEF FileGone, Raise, InStep
  <2>2. \/ UNCHANGED record
        \/ Hits(x.of, x.read) /\ record' = [record EXCEPT ![x.of] = Moved(x.read, "failed")]
    BY <1>4 DEF FileGone, Raise
  <2>3. CASE Hits(x.of, x.read) /\ record' = [record EXCEPT ![x.of] = Moved(x.read, "failed")]
    BY <2>1, <2>3, ReadIsRecord, OthersUntouched DEF Settled
  <2> QED BY <2>1, <2>2, <2>3, NothingTouched
<1>5. ASSUME NEW x \in items, Land(x)
      PROVE  EndedStays
  <2> DEFINE landed == {<<x.of, n>> : n \in Made(x.of, x.read, x.room)} \ tasks
             after == Advanced(x.of, x.read, x.room, Cardinality(landed))
  <2>1. CASE ~Hits(x.of, x.read)
    BY <1>5, <2>1, NothingTouched DEF Land
  <2>2. CASE Hits(x.of, x.read)
    <3>1. record' = [record EXCEPT ![x.of] = after] /\ tasks' = tasks \cup landed
      BY <1>5, <2>2 DEF Land, Write
    <3>2. InStep(x) /\ x.room \in Nat
      BY <1>5, Types DEF Land, Item, InStep
    <3>3. x.of \in Imports /\ record[x.of] = x.read /\ record[x.of].status = "running"
      BY <2>2, <3>2, ReadIsRecord
    <3>4. landed \subseteq {x.of} \X (1..MaxRows)
      BY <3>2, <3>3, RowsLand
    <3> HIDE DEF landed, after
    <3> QED BY <3>1, <3>3, <3>4, OthersUntouched DEF Settled
  <2> QED BY <2>1, <2>2
<1>6. ASSUME NEW w \in wakes, WakeResumes(w)
      PROVE  EndedStays
  <2>1. w \in Wake /\ w.batch # {} /\ WakeHolds(w) /\ tasks' = tasks
    BY <1>6, Types DEF WakeResumes
  <2>2. PICK first \in w.batch :
           first = CHOOSE p \in w.batch : \A q \in w.batch : p[1] <= q[1]
    BY <2>1, BatchHasFirst
  <2>3. PICK i \in Imports : i = first[1]
    BY <2>1 DEF Wake
  <2>4. CASE record[i].version = first[2] /\ record[i].status # "gone"
    <3>1. record' = [record EXCEPT ![i] = Moved(record[i], "running")]
      BY <1>6, <2>2, <2>3, <2>4 DEF WakeResumes, Write
    <3>2. record[i].status = "parked"
      BY <2>1, <2>3, <2>4 DEF WakeHolds
    <3> QED BY <2>1, <3>1, <3>2, OthersUntouched DEF Settled
  <2>5. CASE ~(record[i].version = first[2] /\ record[i].status # "gone")
    BY <1>6, <2>1, <2>2, <2>3, <2>5, NothingTouched DEF WakeResumes
  <2> QED BY <2>4, <2>5
<1>7. ASSUME NEW x \in items, \/ Take(x) \/ ReadPlan(x) \/ ReadCount(x)
                              \/ Complete(x) \/ Die(x)
      PROVE  EndedStays
  BY <1>7, NothingTouched DEF Take, ReadPlan, ReadCount, Complete, Die
<1>8. ASSUME NEW w \in wakes, WakeReads(w) \/ WakeDies(w)
      PROVE  EndedStays
  BY <1>8, NothingTouched DEF WakeReads, WakeDies
<1>9. CASE \/ CompleteTask \/ PlanRises \/ PlanFalls \/ CacheEnds
           \/ \E i \in Imports : RemoveFile(i)
  BY <1>9, NothingTouched DEF CompleteTask, PlanRises, PlanFalls, CacheEnds, RemoveFile
<1> QED BY <1>1, <1>2, <1>3, <1>4, <1>5, <1>6, <1>7, <1>8, <1>9 DEF Next

\* An import that ended stays as it ended, and no row lands for it after, whatever
\* step or wake had read it before (orchestration.py, SETTLED).
THEOREM EndedHolds ==
    ASSUME ImportsAssumption
    PROVE  Spec => [][EndedStays]_vars
<1>1. IInv /\ [Next]_vars => [EndedStays]_vars
  BY EndedInStep
<1> QED BY <1>1, ImportsInvariant, PTL DEF Spec

-----------------------------------------------------------------------------
(* The reminder of a task.                                                 *)

\* Where the row, the items and the handlers stay and the clock does not go back,
\* whatever asked in time still does.
LEMMA StillAsks ==
    ASSUME RM!TypeOK, RM!AskedFor, reminders' = reminders, runs' = runs, now' \in Nat, now <= now',
           task'.due = task.due, task'.person = task.person,
           NEW i \in RM!ItemIds, RM!AsksInTime(i)
    PROVE  RM!AsksInTime(i)'
  BY DEF RM!AsksInTime, RM!Morning, RM!TypeOK, RM!Item

LEMMA DatesAreNat ==
    ASSUME RM!RemindersAssumption, NEW row \in RM!Row
    PROVE  row.due \in Nat /\ row.person \in People /\ LagOf[row.person] \in Nat
<1>1. row.due \in Dates \union {RM!NoDate} /\ row.person \in People
  BY DEF RM!Row
<1>2. \A d \in Dates \union {RM!NoDate} : d \in Nat
  BY DEF RM!RemindersAssumption, RM!NoDate
<1>3. \A p \in People : LagOf[p] \in Nat
  BY DEF RM!RemindersAssumption
<1> QED BY <1>1, <1>2, <1>3

LEMMA MorningIsLater ==
    ASSUME RM!RemindersAssumption, NEW row \in RM!Row
    PROVE  /\ RM!Morning(row.due, row.person) \in Nat
           /\ row.due <= RM!Morning(row.due, row.person)
<1> DEFINE due == row.due
           lag == LagOf[row.person]
<1>1. due \in Nat /\ lag \in Nat
  BY DatesAreNat
<1>2. RM!Morning(row.due, row.person) = due + lag
  BY DEF RM!Morning
<1> HIDE DEF due, lag
<1>3. due + lag \in Nat /\ due <= due + lag
  BY <1>1
<1> QED BY <1>2, <1>3 DEF due, lag

\* An item with another state, in another hand.
LEMMA ReminderMoves ==
    ASSUME NEW x \in RM!Item, NEW s \in {"none", "queued", "claimed", "done"},
           NEW b \in Runners \union {RM!Nobody}
    PROVE  /\ [x EXCEPT !.state = s, !.by = b] \in RM!Item
           /\ [x EXCEPT !.state = s, !.by = b].state = s
           /\ [x EXCEPT !.state = s, !.by = b].by = b
           /\ [x EXCEPT !.state = s, !.by = b].at = x.at
<1> DEFINE y == [x EXCEPT !.state = s, !.by = b]
<1>1. x \in [{"state", "at", "by"} -> {x.state, x.at, x.by}]
  BY DEF RM!Item
<1>2. DOMAIN y = {"state", "at", "by"} /\ y = [f \in DOMAIN y |-> y[f]]
  BY <1>1
<1>3. y.state = s /\ y.by = b /\ y.at = x.at /\ x.at \in Nat
  BY DEF RM!Item
<1> HIDE DEF y
<1>4. y \in RM!Item
  BY <1>2, <1>3 DEF RM!Item
<1> QED BY <1>3, <1>4 DEF y

LEMMA RunMoves ==
    ASSUME NEW x \in RM!HandlerRun, NEW n \in Nat, NEW d \in Dates \union {RM!NoDate},
           NEW p \in {"idle", "claimed", "early", "due", "over"}
    PROVE  [x EXCEPT !.pc = p, !.due = d, !.at = n] \in RM!HandlerRun
<1> DEFINE y == [x EXCEPT !.pc = p, !.due = d, !.at = n]
<1>1. x \in [{"pc", "item", "due", "at"} -> {x.pc, x.item, x.due, x.at}]
  BY DEF RM!HandlerRun
<1>2. DOMAIN y = {"pc", "item", "due", "at"} /\ y = [f \in DOMAIN y |-> y[f]]
  BY <1>1
<1>3. y.pc = p /\ y.due = d /\ y.at = n /\ y.item = x.item /\ x.item \in Nat
  BY DEF RM!HandlerRun
<1> HIDE DEF y
<1>4. y \in RM!HandlerRun
  BY <1>2, <1>3 DEF RM!HandlerRun
<1> QED BY <1>4 DEF y

\* A write moves the version and sets the mark.
LEMMA RowMoves ==
    ASSUME NEW x \in RM!Row, NEW v \in Nat, NEW m \in BOOLEAN
    PROVE  /\ [x EXCEPT !.version = v + 1, !.reminded = m] \in RM!Row
           /\ [x EXCEPT !.version = v + 1, !.reminded = m].status = x.status
           /\ [x EXCEPT !.version = v + 1, !.reminded = m].due = x.due
           /\ [x EXCEPT !.version = v + 1, !.reminded = m].person = x.person
           /\ [x EXCEPT !.version = v + 1, !.reminded = m].version = v + 1
           /\ [x EXCEPT !.version = v + 1, !.reminded = m].reminded = m
<1> DEFINE y == [x EXCEPT !.version = v + 1, !.reminded = m]
<1>1. x \in [{"status", "due", "person", "reminded", "version"} ->
             {x.status, x.due, x.person, x.reminded, x.version}]
  BY DEF RM!Row
<1>2. DOMAIN y = {"status", "due", "person", "reminded", "version"}
      /\ y = [f \in DOMAIN y |-> y[f]]
  BY <1>1
<1>3. y.status = x.status /\ y.due = x.due /\ y.person = x.person /\ y.version = v + 1
      /\ y.reminded = m
  BY DEF RM!Row
<1>4. x.status \in {"open", "done", "deleted"} /\ x.due \in Dates \union {RM!NoDate}
      /\ x.person \in People /\ v + 1 \in Nat
  BY DEF RM!Row
<1> HIDE DEF y
<1>5. y \in RM!Row
  BY <1>2, <1>3, <1>4 DEF RM!Row
<1> QED BY <1>3, <1>5 DEF y

\* Init
LEMMA RemindersInit == ASSUME RM!RemindersAssumption, RM!Init PROVE RM!IInv
<1>1. PICK p \in People : task = [status |-> "open", due |-> RM!NoDate, person |-> p,
                                  reminded |-> FALSE, version |-> 1]
  BY DEF RM!Init
<1>2. RM!NoEdit \in [pc : {"idle", "read"}, read : RM!Row]
  <2>1. (CHOOSE q \in People : TRUE) \in People
    BY DEF RM!RemindersAssumption
  <2> QED BY <2>1 DEF RM!NoEdit, RM!Row
<1>3. RM!NoItem \in RM!Item
  BY DEF RM!NoItem, RM!Item
<1>4. RM!NoRun \in RM!HandlerRun
  BY DEF RM!NoRun, RM!HandlerRun
<1>5. RM!TypeOK
  <2>1. task \in RM!Row /\ (task.reminded => task.due # RM!NoDate)
    BY <1>1 DEF RM!Row
  <2>2. edits \in [Editors -> [pc : {"idle", "read"}, read : RM!Row]]
    BY <1>2 DEF RM!Init
  <2>3. reminders \in [RM!ItemIds -> RM!Item] /\ runs \in [Runners -> RM!HandlerRun]
    BY <1>3, <1>4 DEF RM!Init
  <2>4. queued \in 0..MaxItems
    BY DEF RM!Init, RM!RemindersAssumption
  <2>5. now \in Nat \ {0} /\ told \in Nat
    BY DEF RM!Init
  <2>6. missed \in BOOLEAN
    BY DEF RM!Init
  <2> QED BY <2>1, <2>2, <2>3, <2>4, <2>5, <2>6 DEF RM!TypeOK
<1>6. RM!MarkHolds
  BY <1>1 DEF RM!Init, RM!MarkHolds
<1>7. RM!EditsHold
  BY DEF RM!Init, RM!EditsHold, RM!NoEdit
<1>8. RM!ItemsHold
  BY DEF RM!Init, RM!ItemsHold, RM!NoItem
<1>9. RM!AskedFor
  BY <1>1 DEF RM!AskedFor
<1> QED BY <1>5, <1>6, <1>7, <1>8, <1>9 DEF RM!IInv

\* ReadTask
LEMMA ReadTaskKeeps ==
    ASSUME RM!RemindersAssumption, RM!IInv, NEW e \in Editors, RM!ReadTask(e)
    PROVE  RM!IInv'
<1> USE DEF RM!IInv
<1>1. RM!TypeOK'
  BY DEF RM!TypeOK, RM!ReadTask
<1>2. RM!MarkHolds' /\ RM!ItemsHold'
  BY DEF RM!ReadTask, RM!MarkHolds, RM!ItemsHold
<1>3. RM!EditsHold'
  BY DEF RM!ReadTask, RM!EditsHold, RM!TypeOK, RM!Row
<1>4. RM!AskedFor'
  BY DEF RM!ReadTask, RM!AskedFor, RM!AsksInTime
<1> QED BY <1>1, <1>2, <1>3, <1>4

\* What a write of an edit makes of the row is a row.
LEMMA EditedIsRow ==
    ASSUME RM!RemindersAssumption, NEW read \in RM!Row, NEW new \in RM!Edited(read)
    PROVE  /\ new \in RM!Row /\ new.version = read.version /\ new.reminded = read.reminded
           /\ \/ new.person = read.person /\ new.status = read.status
              \/ new.due = read.due /\ new.status = read.status
              \/ new.due = read.due /\ new.person = read.person
<1>1. CASE \E d \in Dates \union {RM!NoDate} : new = [read EXCEPT !["due"] = d]
  BY <1>1 DEF RM!Row
<1>2. CASE \E p \in People : new = [read EXCEPT !["person"] = p]
  BY <1>2 DEF RM!Row
<1>3. CASE \E s \in {"open", "done", "deleted"} : new = [read EXCEPT !["status"] = s]
  BY <1>3 DEF RM!Row
<1> QED BY <1>1, <1>2, <1>3 DEF RM!Edited

\* WriteTask
LEMMA WriteTaskKeeps ==
    ASSUME RM!RemindersAssumption, RM!IInv, NEW e \in Editors, RM!WriteTask(e)
    PROVE  RM!IInv'
<1> USE DEF RM!IInv
<1>1. PICK new \in RM!Edited(edits[e].read) :
        LET read == edits[e].read
            moved == new.due # read.due
            asks == RM!AsksAgain(read, new) /\ new.due # RM!NoDate
        IN /\ edits[e].pc = "read"
           /\ edits' = [edits EXCEPT ![e] = RM!NoEdit]
           /\ IF task.version # read.version
              THEN UNCHANGED <<task, reminders, queued, told, missed>>
              ELSE /\ asks => queued < MaxItems
                   /\ task' = [new EXCEPT !.version = read.version + 1,
                                          !.reminded = RM!Reminded(read, new)]
                   /\ queued' = queued + (IF asks THEN 1 ELSE 0)
                   /\ reminders' = [i \in RM!ItemIds |->
                                      IF asks /\ i = queued + 1
                                      THEN [state |-> "queued", at |-> new.due, by |-> RM!Nobody]
                                      ELSE reminders[i]]
                   /\ told' = IF moved THEN 0 ELSE told
                   /\ missed' = (missed /\ ~moved)
           /\ UNCHANGED <<now, runs, faults>>
  BY DEF RM!WriteTask
<1>2. edits' \in [Editors -> [pc : {"idle", "read"}, read : RM!Row]] /\ edits[e].read \in RM!Row
  <2>1. (CHOOSE q \in People : TRUE) \in People
    BY DEF RM!RemindersAssumption
  <2>2. RM!NoEdit \in [pc : {"idle", "read"}, read : RM!Row]
    BY <2>1 DEF RM!NoEdit, RM!Row
  <2> QED BY <1>1, <2>2 DEF RM!TypeOK
<1>3. CASE task.version # edits[e].read.version
  <2>1. UNCHANGED <<task, reminders, queued, told, missed, now, runs>>
    BY <1>1, <1>3
  <2>2. RM!TypeOK'
    BY <1>2, <2>1 DEF RM!TypeOK
  <2>3. RM!EditsHold'
    BY <1>1, <2>1 DEF RM!EditsHold, RM!TypeOK, RM!NoEdit
  <2>4. RM!MarkHolds' /\ RM!ItemsHold' /\ RM!AskedFor'
    BY <2>1 DEF RM!MarkHolds, RM!ItemsHold, RM!AskedFor, RM!AsksInTime, RM!Morning
  <2> QED BY <2>2, <2>3, <2>4
<1>4. CASE task.version = edits[e].read.version
  <2> DEFINE asks == RM!AsksAgain(task, new) /\ new.due # RM!NoDate
  <2>1. edits[e].read = task /\ task.status # "deleted"
    BY <1>1, <1>4 DEF RM!EditsHold
  <2>2. /\ task' = [new EXCEPT !.version = task.version + 1, !.reminded = RM!Reminded(task, new)]
        /\ asks => queued < MaxItems
        /\ queued' = queued + (IF asks THEN 1 ELSE 0)
        /\ reminders' = [i \in RM!ItemIds |-> IF asks /\ i = queued + 1
                                              THEN [state |-> "queued", at |-> new.due, by |-> RM!Nobody]
                                              ELSE reminders[i]]
        /\ told' = IF new.due # task.due THEN 0 ELSE told
        /\ missed' = (missed /\ new.due = task.due)
        /\ UNCHANGED <<now, runs>>
    BY <1>1, <1>4, <2>1
  <2>3. /\ new \in RM!Row /\ new.version = task.version /\ new.reminded = task.reminded
        /\ \/ new.person = task.person /\ new.status = task.status
           \/ new.due = task.due /\ new.status = task.status
           \/ new.due = task.due /\ new.person = task.person
    <3>1. task \in RM!Row /\ new \in RM!Edited(task)
      BY <2>1 DEF RM!TypeOK
    <3> QED BY <3>1, EditedIsRow
  <2>4. /\ task'.status = new.status /\ task'.due = new.due /\ task'.person = new.person
        /\ task'.version = task.version + 1
        /\ task'.reminded = (task.reminded /\ new.due = task.due)
        /\ task' \in RM!Row
    <3>1. RM!Reminded(task, new) \in BOOLEAN /\ task.version \in Nat
      BY DEF RM!Reminded, RM!TypeOK, RM!Row
    <3>2. RM!Reminded(task, new) = (task.reminded /\ new.due = task.due)
      BY DEF RM!Reminded
    <3>3. PICK m \in BOOLEAN : m = RM!Reminded(task, new)
      BY <3>1
    <3>4. task' = [new EXCEPT !.version = task.version + 1, !.reminded = m]
      BY <2>2, <3>3
    <3>5. new \in RM!Row /\ task.version \in Nat
      BY <2>3, <3>1
    <3>6. /\ task'.status = new.status /\ task'.due = new.due /\ task'.person = new.person
          /\ task'.version = task.version + 1 /\ task'.reminded = m /\ task' \in RM!Row
      <4> DEFINE z == [new EXCEPT !.version = task.version + 1, !.reminded = m]
      <4>0. PICK w \in Nat : w = task.version
        BY <3>5
      <4>1. /\ z.status = new.status /\ z.due = new.due /\ z.person = new.person
            /\ z.version = task.version + 1 /\ z.reminded = m /\ z \in RM!Row
        <5>1. z.status = new.status /\ z.due = new.due /\ z.person = new.person
              /\ z.version = task.version + 1 /\ z.reminded = m
          BY <3>5 DEF RM!Row
        <5>2. z = [new EXCEPT !.version = w + 1, !.reminded = m]
          BY <4>0
        <5>3. [new EXCEPT !.version = w + 1, !.reminded = m] \in RM!Row
          BY <3>5, RowMoves, Zenon
        <5> QED BY <5>1, <5>2, <5>3
      <4>2. task' = z
        BY <3>4
      <4> HIDE DEF z
      <4> QED BY <4>1, <4>2
    <3>7. m = (task.reminded /\ new.due = task.due)
      BY <3>2, <3>3, Zenon
    <3> QED BY <3>6, <3>7, Zenon
  <2>5. reminders' \in [RM!ItemIds -> RM!Item]
    <3>1. new.due \in Nat
      BY <2>3, DatesAreNat
    <3>2. [state |-> "queued", at |-> new.due, by |-> RM!Nobody] \in
              RM!Item
      BY <3>1 DEF RM!Item
    <3> QED BY <2>2, <3>2 DEF RM!TypeOK
  <2>6. queued' \in 0..MaxItems
    BY <2>2 DEF RM!TypeOK, RM!RemindersAssumption
  <2>7. RM!TypeOK'
    BY <1>2, <2>2, <2>4, <2>5, <2>6 DEF RM!TypeOK
  <2>8. RM!MarkHolds'
    BY <2>2, <2>4 DEF RM!MarkHolds, RM!TypeOK, RM!Row
  <2>9. RM!EditsHold'
    <3>1. \A d \in Editors : edits'[d].pc = "read" => edits'[d] = edits[d]
      BY <1>1 DEF RM!TypeOK, RM!NoEdit
    <3>2. \A d \in Editors : edits[d].read.version \in Nat /\ task.version \in Nat
      BY DEF RM!TypeOK, RM!Row
    <3> QED BY <2>4, <3>1, <3>2 DEF RM!EditsHold
  <2>10. RM!ItemsHold'
    <3> SUFFICES ASSUME NEW i \in RM!ItemIds
                 PROVE  /\ reminders'[i].state # "none" => i <= queued'
                        /\ reminders'[i].state = "claimed" \/ reminders'[i].by = RM!Nobody
                        /\ reminders'[i].state = "claimed" =>
                              /\ reminders'[i].by \in Runners /\ reminders'[i].at <= now'
                              /\ runs'[reminders'[i].by].item = i
                              /\ runs'[reminders'[i].by].pc # "idle"
      BY DEF RM!ItemsHold
    <3>1. CASE asks /\ i = queued + 1
      BY <2>2, <3>1 DEF RM!TypeOK, RM!ItemIds
    <3>2. CASE ~(asks /\ i = queued + 1)
      <4>1. reminders'[i] = reminders[i]
        BY <2>2, <3>2
      <4>2. queued <= queued' /\ queued \in Nat /\ queued' \in Nat
        BY <2>2, <2>6 DEF RM!TypeOK
      <4> QED BY <2>2, <4>1, <4>2 DEF RM!ItemsHold, RM!ItemIds
    <3> QED BY <3>1, <3>2
  <2>11. RM!AskedFor'
    <3> SUFFICES ASSUME task'.due # RM!NoDate, ~task'.reminded, ~missed'
                 PROVE  \E i \in RM!ItemIds : RM!AsksInTime(i)'
      BY DEF RM!AskedFor
    <3>1. CASE asks
      <4>1. PICK i \in RM!ItemIds : i = queued + 1
        BY <2>2, <3>1 DEF RM!TypeOK, RM!ItemIds, RM!RemindersAssumption
      <4>2. reminders'[i] = [state |-> "queued", at |-> new.due, by |-> RM!Nobody]
        BY <2>2, <3>1, <4>1
      <4>3. new.due <= RM!Morning(new.due, new.person)
        BY <2>3, MorningIsLater
      <4>4. reminders'[i].at <= RM!Morning(task'.due, task'.person)
        BY <2>4, <4>2, <4>3
      <4>5. RM!AsksInTime(i)'
        BY <4>2, <4>4 DEF RM!AsksInTime, RM!Morning
      <4> QED BY <4>1, <4>5
    <3>2. CASE ~asks
      <4>1. new.due = task.due /\ ~task.reminded /\ ~missed /\ task.due # RM!NoDate
        BY <2>2, <2>4, <3>2 DEF RM!AsksAgain
      <4>2. new.person = task.person
        BY <2>4, <3>2, <4>1 DEF RM!AsksAgain
      <4>3. PICK i \in RM!ItemIds : RM!AsksInTime(i)
        BY <2>1, <4>1 DEF RM!AskedFor
      <4>4. reminders'[i] = reminders[i]
        BY <2>2, <3>2
      <4>5. RM!AsksInTime(i)'
        BY <2>2, <2>4, <4>1, <4>2, <4>3, <4>4 DEF RM!AsksInTime, RM!Morning
      <4> QED BY <4>5
    <3> QED BY <3>1, <3>2
  <2> QED BY <2>7, <2>8, <2>9, <2>10, <2>11
<1> QED BY <1>3, <1>4

\* Claim
LEMMA ClaimKeeps ==
    ASSUME RM!RemindersAssumption, RM!IInv, NEW r \in Runners, RM!Claim(r)
    PROVE  RM!IInv'
<1> USE DEF RM!IInv
<1>1. PICK i \in RM!ItemIds :
        /\ runs[r].pc = "idle"
        /\ reminders[i].state = "queued" /\ reminders[i].at <= now
        /\ reminders' = [reminders EXCEPT ![i].state = "claimed", ![i].by = r]
        /\ runs' = [runs EXCEPT ![r] = [RM!NoRun EXCEPT !.pc = "claimed", !.item = i]]
        /\ UNCHANGED <<task, queued, now, edits, faults, told, missed>>
  BY DEF RM!Claim
<1>2. reminders'[i] = [reminders[i] EXCEPT !.state = "claimed", !.by = r]
  BY <1>1 DEF RM!TypeOK
<1>3. reminders'[i].state = "claimed" /\ reminders'[i].by = r /\ reminders'[i].at = reminders[i].at
  BY <1>2 DEF RM!TypeOK
<1>4. \A j \in RM!ItemIds : j # i => reminders'[j] = reminders[j]
  BY <1>1 DEF RM!TypeOK
<1>5. runs'[r].pc = "claimed" /\ runs'[r].item = i
  BY <1>1 DEF RM!TypeOK, RM!NoRun, RM!HandlerRun
<1>6. \A q \in Runners : q # r => runs'[q] = runs[q]
  BY <1>1 DEF RM!TypeOK
<1>7. RM!TypeOK'
  <2>1. reminders' \in [RM!ItemIds -> RM!Item]
    <3>1. [reminders[i] EXCEPT !.state = "claimed", !.by = r] \in
              RM!Item
      <4>1. reminders[i] \in RM!Item
        BY DEF RM!TypeOK
      <4> QED BY <4>1, ReminderMoves
    <3>2. reminders' = [reminders EXCEPT ![i] = [reminders[i] EXCEPT !.state = "claimed", !.by = r]]
      BY <1>1 DEF RM!TypeOK
    <3> QED BY <3>1, <3>2 DEF RM!TypeOK
  <2>2. i \in Nat
    BY DEF RM!ItemIds
  <2>3. runs' \in [Runners -> RM!HandlerRun]
    BY <1>1, <2>2 DEF RM!TypeOK, RM!NoRun, RM!HandlerRun
  <2> QED BY <1>1, <2>1, <2>3 DEF RM!TypeOK
<1>8. RM!MarkHolds' /\ RM!EditsHold'
  BY <1>1 DEF RM!MarkHolds, RM!EditsHold
<1>9. RM!ItemsHold'
  <2> SUFFICES ASSUME NEW j \in RM!ItemIds
               PROVE  /\ reminders'[j].state # "none" => j <= queued'
                      /\ reminders'[j].state = "claimed" \/ reminders'[j].by = RM!Nobody
                      /\ reminders'[j].state = "claimed" =>
                            /\ reminders'[j].by \in Runners /\ reminders'[j].at <= now'
                            /\ runs'[reminders'[j].by].item = j
                            /\ runs'[reminders'[j].by].pc # "idle"
    BY DEF RM!ItemsHold
  <2>1. CASE j = i
    BY <1>1, <1>3, <1>5, <2>1 DEF RM!ItemsHold
  <2>2. CASE j # i
    <3>1. reminders'[j] = reminders[j]
      BY <1>4, <2>2
    <3>2. reminders[j].state = "claimed" => reminders[j].by \in Runners /\ reminders[j].by # r
      BY <1>1 DEF RM!ItemsHold
    <3>3. reminders[j].state = "claimed" => runs'[reminders[j].by] = runs[reminders[j].by]
      BY <1>6, <3>2
    <3>4. /\ reminders[j].state # "none" => j <= queued
          /\ reminders[j].state = "claimed" \/ reminders[j].by = RM!Nobody
          /\ reminders[j].state = "claimed" =>
                /\ reminders[j].at <= now /\ runs[reminders[j].by].item = j
                /\ runs[reminders[j].by].pc # "idle"
      BY DEF RM!ItemsHold
    <3> QED BY <1>1, <3>1, <3>2, <3>3, <3>4
  <2> QED BY <2>1, <2>2
<1>10. RM!AskedFor'
  <2> SUFFICES ASSUME NEW j \in RM!ItemIds, RM!AsksInTime(j) PROVE RM!AsksInTime(j)'
    BY <1>1 DEF RM!AskedFor
  <2>1. CASE j = i
    BY <1>3, <1>5, <2>1 DEF RM!AsksInTime
  <2>2. CASE j # i
    <3>1. reminders'[j] = reminders[j]
      BY <1>4, <2>2
    <3>2. reminders[j].state = "claimed" => runs'[reminders[j].by] = runs[reminders[j].by]
      BY <1>1, <1>6 DEF RM!ItemsHold
    <3> QED BY <1>1, <3>1, <3>2 DEF RM!AsksInTime
  <2> QED BY <2>1, <2>2
<1> QED BY <1>7, <1>8, <1>9, <1>10

\* A step of one handler that leaves it at its item disturbs no other's claim.
LEMMA HandlerKeeps ==
    ASSUME RM!ItemsHold, reminders' = reminders, queued' = queued, now' = now,
           NEW r \in Runners, \A q \in Runners : q # r => runs'[q] = runs[q],
           runs'[r].item = runs[r].item, runs'[r].pc # "idle"
    PROVE  RM!ItemsHold'
BY DEF RM!ItemsHold

\* ReadReminder
LEMMA ReadReminderKeeps ==
    ASSUME RM!RemindersAssumption, RM!IInv, NEW r \in Runners, RM!ReadReminder(r)
    PROVE  RM!IInv'
<1> USE DEF RM!IInv
<1> DEFINE at == RM!Morning(task.due, task.person)
<1>1. /\ runs[r].pc = "claimed"
      /\ runs' = [runs EXCEPT ![r] =
             IF ~RM!Waits THEN [runs[r] EXCEPT !.pc = "over"]
             ELSE [runs[r] EXCEPT !.pc = IF now < at THEN "early" ELSE "due", !.due = task.due,
                            !.at = at]]
      /\ missed' = (missed \/ task.status = "done")
      /\ UNCHANGED <<task, reminders, queued, now, edits, told>>
  BY DEF RM!ReadReminder
<1>2. at \in Nat
  <2>1. task.due \in Nat /\ LagOf[task.person] \in Nat
    BY DatesAreNat DEF RM!TypeOK
  <2> QED BY <2>1 DEF RM!Morning
<1>3. RM!TypeOK'
  <2>1. runs' \in [Runners -> RM!HandlerRun]
    <3> HIDE DEF at
    <3>1. task.due \in Dates \union {RM!NoDate}
      BY DEF RM!TypeOK, RM!Row
    <3>2. [runs[r] EXCEPT !.pc = "over"] \in
              RM!HandlerRun
      BY DEF RM!TypeOK, RM!HandlerRun
    <3>3. \A pc \in {"early", "due"} :
              [runs[r] EXCEPT !.pc = pc, !.due = task.due, !.at = at] \in
              RM!HandlerRun
      BY <1>2, <3>1, RunMoves DEF RM!TypeOK
    <3> QED BY <1>1, <3>2, <3>3 DEF RM!TypeOK
  <2> QED BY <1>1, <2>1 DEF RM!TypeOK
<1>4. RM!MarkHolds' /\ RM!EditsHold'
  BY <1>1 DEF RM!MarkHolds, RM!EditsHold
<1>5. \A q \in Runners : q # r => runs'[q] = runs[q]
  BY <1>1 DEF RM!TypeOK
<1>6. /\ runs'[r].item = runs[r].item /\ runs'[r].pc # "idle"
      /\ RM!Waits => \/ runs'[r].pc = "early" /\ runs'[r].at = at
                     \/ runs'[r].pc = "due" /\ runs'[r].due = task.due
  <2> HIDE DEF at
  <2> QED BY <1>1 DEF RM!TypeOK
<1>7. RM!ItemsHold'
  BY <1>1, <1>5, <1>6, HandlerKeeps
<1>8. RM!AskedFor'
  <2> SUFFICES ASSUME task.status # "deleted", task.due # RM!NoDate, ~task.reminded, ~missed'
               PROVE  \E i \in RM!ItemIds : RM!AsksInTime(i)'
    BY <1>1 DEF RM!AskedFor
  <2>1. RM!Waits /\ ~missed
    BY <1>1 DEF RM!Waits, RM!TypeOK, RM!Row
  <2>2. PICK i \in RM!ItemIds : RM!AsksInTime(i)
    BY <2>1 DEF RM!AskedFor, RM!Waits
  <2>3. CASE reminders[i].state = "claimed" /\ reminders[i].by = r
    BY <1>1, <1>2, <1>6, <2>1, <2>3 DEF RM!AsksInTime
  <2>4. CASE ~(reminders[i].state = "claimed" /\ reminders[i].by = r)
    <3>1. reminders[i].state = "claimed" => runs'[reminders[i].by] = runs[reminders[i].by]
      BY <1>5, <2>4 DEF RM!ItemsHold
    <3>2. RM!AsksInTime(i)'
      BY <1>1, <2>2, <3>1 DEF RM!AsksInTime
    <3> QED BY <3>2
  <2> QED BY <2>3, <2>4
<1> QED BY <1>3, <1>4, <1>7, <1>8

\* Fire
LEMMA FireKeeps ==
    ASSUME RM!RemindersAssumption, RM!IInv, NEW r \in Runners, RM!Fire(r)
    PROVE  RM!IInv'
<1> USE DEF RM!IInv
<1>1. /\ runs[r].pc = "due"
      /\ IF RM!Fires(runs[r].due)
         THEN task' = RM!Marked(task) /\ told' = told + 1
         ELSE UNCHANGED <<task, told>>
      /\ missed' = (missed \/ task.status = "done")
      /\ runs' = [runs EXCEPT ![r].pc = "over"]
      /\ UNCHANGED <<reminders, queued, now, edits>>
  BY DEF RM!Fire
<1>2. \A q \in Runners : q # r => runs'[q] = runs[q]
  BY <1>1 DEF RM!TypeOK
<1>3. runs'[r].item = runs[r].item /\ runs'[r].pc = "over"
  BY <1>1 DEF RM!TypeOK
<1>4. RM!ItemsHold'
  BY <1>1, <1>2, <1>3, HandlerKeeps
<1>5. runs' \in [Runners -> RM!HandlerRun]
  BY <1>1 DEF RM!TypeOK, RM!HandlerRun
<1>6. CASE RM!Fires(runs[r].due)
  <2>1. /\ task' \in RM!Row /\ task'.reminded /\ task'.due = task.due /\ task.due # RM!NoDate
        /\ task'.version = task.version + 1 /\ task.version \in Nat /\ ~task.reminded
    <3>1. task.version \in Nat /\ task.due # RM!NoDate /\ ~task.reminded /\ task \in RM!Row
      BY <1>6 DEF RM!Fires, RM!Waits, RM!TypeOK, RM!Row
    <3>2. task' = [task EXCEPT !.version = task.version + 1, !.reminded = TRUE]
      BY <1>1, <1>6 DEF RM!Marked
    <3> QED BY <3>1, <3>2, RowMoves
  <2>2. RM!TypeOK'
    BY <1>1, <1>5, <1>6, <2>1 DEF RM!TypeOK
  <2>3. RM!MarkHolds'
    BY <1>1, <1>6, <2>1 DEF RM!MarkHolds
  <2>4. RM!EditsHold'
    <3>1. \A d \in Editors : edits[d].read.version \in Nat
      BY DEF RM!TypeOK, RM!Row
    <3> QED BY <1>1, <2>1, <3>1 DEF RM!EditsHold
  <2>5. RM!AskedFor'
    BY <2>1 DEF RM!AskedFor
  <2> QED BY <1>4, <2>2, <2>3, <2>4, <2>5
<1>7. CASE ~RM!Fires(runs[r].due)
  <2>1. UNCHANGED <<task, told>>
    BY <1>1, <1>7
  <2>2. RM!TypeOK'
    BY <1>1, <1>5, <2>1 DEF RM!TypeOK
  <2>3. RM!MarkHolds' /\ RM!EditsHold'
    BY <1>1, <2>1 DEF RM!MarkHolds, RM!EditsHold
  <2>4. RM!AskedFor'
    <3> SUFFICES ASSUME task.status # "deleted", task.due # RM!NoDate, ~task.reminded, ~missed'
                 PROVE  \E i \in RM!ItemIds : RM!AsksInTime(i)'
      BY <2>1 DEF RM!AskedFor
    <3>1. RM!Waits /\ ~missed
      BY <1>1 DEF RM!Waits, RM!TypeOK, RM!Row
    <3>2. PICK i \in RM!ItemIds : RM!AsksInTime(i)
      BY <3>1 DEF RM!AskedFor, RM!Waits
    <3>3. ~(reminders[i].state = "claimed" /\ reminders[i].by = r)
      BY <1>1, <1>7, <3>1, <3>2 DEF RM!AsksInTime, RM!Fires
    <3>4. reminders[i].state = "claimed" => runs'[reminders[i].by] = runs[reminders[i].by]
      BY <1>2, <3>3 DEF RM!ItemsHold
    <3>5. RM!AsksInTime(i)'
      BY <1>1, <2>1, <3>2, <3>4 DEF RM!AsksInTime
    <3> QED BY <3>5
  <2> QED BY <1>4, <2>2, <2>3, <2>4
<1> QED BY <1>6, <1>7

\* Settle
LEMMA SettleKeeps ==
    ASSUME RM!RemindersAssumption, RM!IInv, NEW r \in Runners, RM!Settle(r)
    PROVE  RM!IInv'
<1> USE DEF RM!IInv
<1> DEFINE i == runs[r].item
           settled == IF runs[r].pc = "over"
                      THEN [reminders[i] EXCEPT !.state = "done", !.by = RM!Nobody]
                      ELSE [state |-> "queued", at |-> runs[r].at, by |-> RM!Nobody]
<1>1. /\ runs[r].pc \in {"early", "over"}
      /\ reminders' = IF reminders[i].by # r THEN reminders ELSE [reminders EXCEPT ![i] = settled]
      /\ runs' = [runs EXCEPT ![r] = RM!NoRun]
      /\ UNCHANGED <<task, queued, now, edits, told, missed>>
  BY DEF RM!Settle
<1>2. \A q \in Runners : q # r => runs'[q] = runs[q]
  BY <1>1 DEF RM!TypeOK
<1>3. \A j \in RM!ItemIds : reminders[j].state = "claimed" /\ reminders[j].by = r => i = j
  BY DEF RM!ItemsHold
<1>4. ASSUME NEW j \in RM!ItemIds
      PROVE  \/ reminders'[j] = reminders[j] /\ (reminders[j].state = "claimed" => reminders[j].by # r)
             \/ j = i /\ reminders'[j] = settled
  BY <1>1, <1>3 DEF RM!TypeOK
<1>5. settled.state \in {"done", "queued"}
  BY DEF RM!TypeOK
<1>6. RM!TypeOK'
  <2>1. reminders' \in [RM!ItemIds -> RM!Item]
    <3>1. i \in RM!ItemIds => settled \in RM!Item
      <4>1. \A x \in RM!Item : [x EXCEPT !.state = "done", !.by = RM!Nobody] \in RM!Item
        BY ReminderMoves
      <4>2. i \in RM!ItemIds => reminders[i] \in RM!Item
        BY DEF RM!TypeOK
      <4>3. [state |-> "queued", at |-> runs[r].at, by |-> RM!Nobody] \in
                RM!Item
        BY DEF RM!TypeOK, RM!HandlerRun, RM!Item
      <4> QED BY <4>1, <4>2, <4>3
    <3> HIDE DEF i, settled
    <3> QED BY <1>1, <3>1 DEF RM!TypeOK
  <2>2. runs' \in [Runners -> RM!HandlerRun]
    BY <1>1 DEF RM!TypeOK, RM!NoRun, RM!HandlerRun
  <2> QED BY <1>1, <2>1, <2>2 DEF RM!TypeOK
<1>7. RM!MarkHolds' /\ RM!EditsHold'
  BY <1>1 DEF RM!MarkHolds, RM!EditsHold
<1>8. RM!ItemsHold'
  <2> SUFFICES ASSUME NEW j \in RM!ItemIds
               PROVE  /\ reminders'[j].state # "none" => j <= queued'
                      /\ reminders'[j].state = "claimed" \/ reminders'[j].by = RM!Nobody
                      /\ reminders'[j].state = "claimed" =>
                            /\ reminders'[j].by \in Runners /\ reminders'[j].at <= now'
                            /\ runs'[reminders'[j].by].item = j
                            /\ runs'[reminders'[j].by].pc # "idle"
    BY DEF RM!ItemsHold
  <2>1. CASE reminders'[j] = reminders[j] /\ (reminders[j].state = "claimed" => reminders[j].by # r)
    <3>1. reminders[j].state = "claimed" =>
              reminders[j].by \in Runners /\ runs'[reminders[j].by] = runs[reminders[j].by]
      BY <1>2, <2>1 DEF RM!ItemsHold
    <3> HIDE DEF i, settled
    <3> QED BY <1>1, <2>1, <3>1 DEF RM!ItemsHold
  <2>2. CASE reminders'[j] = settled /\ reminders'[j] # reminders[j]
    <3>1. reminders[j].by = r /\ j = i
      BY <1>1, <1>4, <2>2
    <3>2. reminders[j].state = "claimed" /\ j <= queued
      BY <3>1 DEF RM!ItemsHold, RM!RemindersAssumption, RM!Nobody
    <3>3. settled.by = RM!Nobody
      BY <3>1 DEF RM!TypeOK
    <3>4. settled.state # "claimed" /\ queued' = queued
      BY <1>1, <1>5
    <3>5. reminders'[j].state # "claimed" /\ reminders'[j].by = RM!Nobody /\ j <= queued'
      <4> HIDE DEF settled
      <4> QED BY <2>2, <3>2, <3>3, <3>4
    <3> QED BY <3>5
  <2> HIDE DEF i, settled
  <2> QED BY <1>4, <1>5, <2>1, <2>2
<1>9. RM!AskedFor'
  <2> SUFFICES ASSUME NEW j \in RM!ItemIds, RM!AsksInTime(j), task.status # "deleted",
                      task.due # RM!NoDate, ~task.reminded
               PROVE  RM!AsksInTime(j)'
    BY <1>1 DEF RM!AskedFor, RM!AsksInTime
  <2>1. CASE reminders'[j] = reminders[j] /\ (reminders[j].state = "claimed" => reminders[j].by # r)
    <3>1. reminders[j].state = "claimed" => runs'[reminders[j].by] = runs[reminders[j].by]
      BY <1>2, <2>1 DEF RM!ItemsHold
    <3> HIDE DEF i, settled
    <3> QED BY <1>1, <2>1, <3>1 DEF RM!AsksInTime
  <2>2. CASE reminders'[j] = settled /\ reminders'[j] # reminders[j]
    <3>1. reminders[j].by = r /\ j = i
      BY <1>1, <1>4, <2>2
    <3>2. reminders[j].state = "claimed"
      BY <3>1 DEF RM!ItemsHold, RM!RemindersAssumption, RM!Nobody
    <3>3. runs[r].pc = "early" /\ runs[r].at <= RM!Morning(task.due, task.person)
      BY <1>1, <3>1, <3>2 DEF RM!AsksInTime
    <3>4. reminders'[j].state = "queued" /\ reminders'[j].at = runs[r].at
      BY <2>2, <3>3
    <3> HIDE DEF i, settled
    <3>5. reminders'[j].state = "queued" /\ reminders'[j].at <= RM!Morning(task.due, task.person)
      BY <3>3, <3>4
    <3>6. task' = task
      BY <1>1
    <3> HIDE DEF i, settled
    <3> QED BY <3>5, <3>6 DEF RM!AsksInTime, RM!Morning
  <2> HIDE DEF i, settled
  <2> QED BY <1>4, <1>5, <2>1, <2>2
<1> QED BY <1>6, <1>7, <1>8, <1>9

\* Lapse
LEMMA LapseKeeps ==
    ASSUME RM!RemindersAssumption, RM!IInv, NEW i \in RM!ItemIds, RM!Lapse(i)
    PROVE  RM!IInv'
<1> USE DEF RM!IInv
<1>1. /\ reminders[i].state = "claimed"
      /\ reminders' = [reminders EXCEPT ![i] = [reminders[i] EXCEPT !.state = "queued", !.by = RM!Nobody]]
      /\ UNCHANGED <<task, queued, now, edits, runs, told, missed>>
  BY DEF RM!Lapse, RM!TypeOK
<1>2. [reminders[i] EXCEPT !.state = "queued", !.by = RM!Nobody] \in RM!Item
  <2>1. \A x \in RM!Item : [x EXCEPT !.state = "queued", !.by = RM!Nobody] \in RM!Item
    BY ReminderMoves
  <2>2. reminders[i] \in RM!Item
    BY DEF RM!TypeOK
  <2> QED BY <2>1, <2>2
<1>3. RM!TypeOK'
  BY <1>1, <1>2 DEF RM!TypeOK
<1>4. RM!MarkHolds' /\ RM!EditsHold'
  BY <1>1 DEF RM!MarkHolds, RM!EditsHold
<1>5. \A j \in RM!ItemIds : j # i => reminders'[j] = reminders[j]
  BY <1>1
<1>6. reminders'[i].state = "queued" /\ reminders'[i].by = RM!Nobody /\ reminders'[i].at = reminders[i].at
  BY <1>1 DEF RM!TypeOK
<1>7. i <= queued /\ reminders[i].at <= now
  BY <1>1 DEF RM!ItemsHold
<1>8. RM!ItemsHold'
  BY <1>1, <1>5, <1>6, <1>7 DEF RM!ItemsHold
<1>9. RM!AskedFor'
  <2> SUFFICES ASSUME NEW j \in RM!ItemIds, RM!AsksInTime(j) PROVE RM!AsksInTime(j)'
    BY <1>1 DEF RM!AskedFor
  <2>1. CASE j = i
    BY <1>1, <1>6, <1>7, <2>1 DEF RM!AsksInTime
  <2>2. CASE j # i
    BY <1>1, <1>5, <2>2 DEF RM!AsksInTime
  <2> QED BY <2>1, <2>2
<1> QED BY <1>3, <1>4, <1>8, <1>9

\* Tick
LEMMA TickKeeps == ASSUME RM!RemindersAssumption, RM!IInv, RM!Tick PROVE RM!IInv'
<1> USE DEF RM!IInv
<1>1. now' = now + 1 /\ UNCHANGED <<task, reminders, queued, edits, runs, told, missed>>
  BY DEF RM!Tick
<1>2. RM!TypeOK'
  BY <1>1 DEF RM!TypeOK
<1>3. RM!MarkHolds' /\ RM!EditsHold'
  BY <1>1 DEF RM!MarkHolds, RM!EditsHold
<1>4. \A i \in RM!ItemIds : reminders[i].at \in Nat /\ now \in Nat
  BY DEF RM!TypeOK, RM!Item
<1>5. RM!ItemsHold'
  BY <1>1, <1>4 DEF RM!ItemsHold
<1>6. RM!AskedFor'
  BY <1>1, <1>4 DEF RM!AskedFor, RM!AsksInTime, RM!Morning
<1> QED BY <1>2, <1>3, <1>5, <1>6

LEMMA RemindersNext == ASSUME RM!RemindersAssumption PROVE RM!IInv /\ [RM!Next]_(RM!vars) => RM!IInv'
<1> SUFFICES ASSUME RM!IInv, [RM!Next]_(RM!vars) PROVE RM!IInv'
  OBVIOUS
<1>1. CASE UNCHANGED RM!vars
  BY <1>1 DEF RM!vars, RM!IInv, RM!TypeOK, RM!MarkHolds, RM!EditsHold, RM!ItemsHold, RM!AskedFor, RM!AsksInTime, RM!Morning
<1>2. CASE RM!Tick
  BY <1>2, TickKeeps
<1>3. ASSUME NEW e \in Editors, RM!ReadTask(e) \/ RM!WriteTask(e) PROVE RM!IInv'
  BY <1>3, ReadTaskKeeps, WriteTaskKeeps
<1>4. ASSUME NEW r \in Runners, RM!Claim(r) \/ RM!ReadReminder(r) \/ RM!Fire(r) \/ RM!Settle(r)
      PROVE  RM!IInv'
  BY <1>4, ClaimKeeps, ReadReminderKeeps, FireKeeps, SettleKeeps
<1>5. ASSUME NEW i \in RM!ItemIds, RM!Lapse(i) PROVE RM!IInv'
  BY <1>5, LapseKeeps
<1> QED BY <1>1, <1>2, <1>3, <1>4, <1>5 DEF RM!Next

\* The row, its mark, the edits and the items agree (IInv).
THEOREM RemindersInvariant ==
    ASSUME RM!RemindersAssumption
    PROVE  RM!Spec => []RM!IInv
<1>1. RM!Init => RM!IInv
  BY RemindersInit
<1>2. RM!IInv /\ [RM!Next]_(RM!vars) => RM!IInv'
  BY RemindersNext
<1> QED BY <1>1, <1>2, PTL DEF RM!Spec

\* A due date is told of once, and an open task that was not told of has an item
\* that asks by its person's morning, whatever edits, parks and second deliveries
\* cross (update_task, get_due_reminder, fire_reminder, mark_reminded).
THEOREM RemindersHold ==
    ASSUME RM!RemindersAssumption
    PROVE  RM!Spec => []RM!ReminderKept
<1>1. RM!IInv => RM!ReminderKept
  BY DEF RM!IInv, RM!ReminderKept, RM!MarkHolds, RM!AskedFor, RM!Waits
<1> QED BY <1>1, RemindersInvariant, PTL

-----------------------------------------------------------------------------
(* The order of the list.                                                  *)

\* The instance counts as this module does.
LEMMA ListCounts ==
    /\ \A S : TL!Cardinality(S) = Cardinality(S)
    /\ \A S : TL!IsFiniteSet(S) <=> IsFiniteSet(S)
  BY DEF TL!Cardinality, Cardinality, TL!IsFiniteSet, IsFiniteSet

-----------------------------------------------------------------------------
(* Numbers.                                                                *)

LEMMA WholeUnits ==
    ASSUME NEW a \in Int, NEW u \in Nat \ {0}
    PROVE  /\ a \div u \in Int
           /\ u * (a \div u) <= a
           /\ a < u * (a \div u) + u
  BY Z3T(30)

LEMMA TimesOrdered ==
    ASSUME NEW a \in Int, NEW b \in Int, NEW u \in Nat \ {0}
    PROVE  /\ a * u \in Int
           /\ a < b => a * u < b * u
           /\ a <= b => a * u <= b * u
  BY Z3T(30)

LEMMA UnitMore ==
    ASSUME NEW a \in Int, NEW b \in Int, NEW d \in Nat \ {0}, a + d <= b
    PROVE  a \div d < b \div d
<1> DEFINE p == a \div d
           q == b \div d
<1>1. p \in Int /\ q \in Int /\ d * p <= a /\ b < d * q + d
  BY WholeUnits
<1> HIDE DEF p, q
<1>2. SUFFICES ASSUME q <= p PROVE FALSE
  BY <1>1 DEF p, q
<1>3. d * q <= d * p
  BY <1>1, <1>2, TimesOrdered, q * d = d * q, p * d = d * p
<1> QED  BY <1>1, <1>3

LEMMA OneMoreTime ==
    ASSUME NEW i \in Int, NEW m \in Int
    PROVE  (i + 1) * m = i * m + m
  BY Z3T(30)

LEMMA UnitsAre ==
    ASSUME TL!RanksAssumption
    PROVE  \A s \in 0..Digits : TL!Unit(s) \in Nat \ {0}
  BY DEF TL!RanksAssumption, TL!Unit

\* Evenly spaced ranks ascend, strictly between the two.
LEMMA SpacedAre ==
    ASSUME NEW l \in Int, NEW h \in Int, NEW n \in Nat \ {0}, NEW u \in Nat \ {0},
           TL!Room(l, h, u) >= n
    PROVE  \A i \in 1..n :
              /\ TL!Spaced(l, h, n, u)[i] \in Int
              /\ l < TL!Spaced(l, h, n, u)[i] /\ TL!Spaced(l, h, n, u)[i] < h
              /\ \A j \in 1..n : i < j => TL!Spaced(l, h, n, u)[i] < TL!Spaced(l, h, n, u)[j]
<1> DEFINE first == TL!FirstUnit(l, u)
           last == TL!LastUnit(h, u)
           room == last - first + 1
           Step(i) == (i * (room + 1)) \div (n + 1)
           At(i) == first + Step(i) - 1
<1>1. first \in Int /\ l < first * u
  <2>1. l \div u \in Int /\ l < u * (l \div u) + u
    BY WholeUnits
  <2>2. (l \div u + 1) * u = (l \div u) * u + u
    BY <2>1, OneMoreTime
  <2>3. u * (l \div u) = (l \div u) * u
    BY <2>1
  <2> QED  BY <2>1, <2>2, <2>3 DEF TL!FirstUnit
<1>2. last \in Int /\ last * u < h
  <2> DEFINE d == (-h) \div u
  <2>1. d \in Int /\ -h < u * d + u
    BY WholeUnits
  <2>2. last = -d - 1
    BY DEF TL!LastUnit
  <2> HIDE DEF d, last
  <2>3. last \in Int
    BY <2>1, <2>2
  <2>4. (d + 1) * u = d * u + u /\ d * u = u * d
    BY <2>1, OneMoreTime
  <2>5. last = -(d + 1)
    BY <2>1, <2>2
  <2>6. last * u = -((d + 1) * u)
    BY <2>1, <2>5, Z3T(30)
  <2> QED  BY <2>1, <2>3, <2>4, <2>6, TimesOrdered
<1>3. room \in Int /\ room >= n
  BY <1>1, <1>2 DEF TL!Room
<1>4. \A i \in 1..n : TL!Spaced(l, h, n, u)[i] = At(i) * u
  BY DEF TL!Spaced, TL!Room
<1> HIDE DEF first, last
<1>5. \A i \in Int : Step(i) \in Int
  <2> TAKE i \in Int
  <2>1. i * (room + 1) \in Int
    BY <1>3, TimesOrdered, room + 1 \in Nat \ {0}
  <2> QED  BY <2>1, WholeUnits, n + 1 \in Nat \ {0}
<1>6. \A i, j \in 1..n : i < j => Step(i) < Step(j)
  <2> SUFFICES ASSUME NEW i \in 1..n, NEW j \in 1..n, i < j PROVE Step(i) < Step(j)
    OBVIOUS
  <2> DEFINE m == room + 1
  <2>1. m \in Nat \ {0} /\ n + 1 <= m
    BY <1>3
  <2> HIDE DEF m
  <2>2. i * m \in Int /\ j * m \in Int /\ (i + 1) * m <= j * m
    BY <2>1, TimesOrdered, i + 1 <= j, i + 1 \in Int
  <2>3. (i + 1) * m = i * m + m
    BY <2>1, OneMoreTime
  <2>4. i * m + (n + 1) <= j * m
    BY <2>1, <2>2, <2>3
  <2>5. (i * m) \div (n + 1) < (j * m) \div (n + 1)
    BY <2>2, <2>4, UnitMore, n + 1 \in Nat \ {0}
  <2> QED  BY <2>5 DEF m
<1>7. \A i \in 1..n : 1 <= Step(i) /\ Step(i) <= room
  <2> SUFFICES ASSUME NEW i \in 1..n PROVE 1 <= Step(i) /\ Step(i) <= room
    OBVIOUS
  <2> DEFINE m == room + 1
             s == (i * m) \div (n + 1)
  <2>1. m \in Nat \ {0} /\ n + 1 <= m /\ room = m - 1
    BY <1>3
  <2>s. s = Step(i)
    OBVIOUS
  <2> HIDE DEF m
  <2>2. i * m \in Int /\ 1 * m <= i * m /\ i * m <= n * m
    BY <2>1, TimesOrdered
  <2>3. s \in Int /\ (n + 1) * s <= i * m /\ i * m < (n + 1) * s + (n + 1)
    BY <2>2, WholeUnits, n + 1 \in Nat \ {0}
  <2> HIDE DEF s
  <2>4. (n + 1) * m = n * m + m /\ n * m \in Int
    BY <2>1, OneMoreTime, TimesOrdered
  <2>5. 1 <= s
    <3> SUFFICES ASSUME s <= 0 PROVE FALSE
      BY <2>3
    <3>1. s * (n + 1) <= 0 * (n + 1)
      BY <2>3, TimesOrdered, n + 1 \in Nat \ {0}
    <3>2. (n + 1) * s = s * (n + 1)
      BY <2>3
    <3> QED  BY <2>1, <2>2, <2>3, <3>1, <3>2
  <2>6. s < m
    <3> SUFFICES ASSUME m <= s PROVE FALSE
      BY <2>1, <2>3
    <3>1. m * (n + 1) <= s * (n + 1)
      BY <2>1, <2>3, TimesOrdered, n + 1 \in Nat \ {0}
    <3>2. (n + 1) * s = s * (n + 1) /\ m * (n + 1) = (n + 1) * m
      BY <2>1, <2>3
    <3> QED  BY <2>1, <2>2, <2>3, <2>4, <3>1, <3>2
  <2> QED  BY <2>1, <2>3, <2>5, <2>6, <2>s
<1>8. \A i \in 1..n : At(i) \in Int /\ first <= At(i) /\ At(i) <= last
  <2> TAKE i \in 1..n
  <2>1. Step(i) \in Int /\ 1 <= Step(i) /\ Step(i) <= room
    BY <1>5, <1>7
  <2> HIDE DEF Step
  <2> QED  BY <1>1, <1>2, <2>1
<1>9. \A i, j \in 1..n : i < j => At(i) < At(j)
  BY <1>1, <1>5, <1>6
<1> HIDE DEF Step, At, room
<1>10. \A i \in 1..n : /\ At(i) * u \in Int
                       /\ first * u <= At(i) * u /\ At(i) * u <= last * u
  BY <1>1, <1>2, <1>8, TimesOrdered
<1>11. \A i, j \in 1..n : i < j => At(i) * u < At(j) * u
  BY <1>8, <1>9, TimesOrdered
<1>12. first * u \in Int /\ last * u \in Int
  BY <1>1, <1>2, TimesOrdered
<1> QED
  <2> TAKE i \in 1..n
  <2>1. /\ TL!Spaced(l, h, n, u)[i] \in Int
        /\ l < TL!Spaced(l, h, n, u)[i] /\ TL!Spaced(l, h, n, u)[i] < h
    BY <1>1, <1>2, <1>4, <1>10, <1>12
  <2>2. \A j \in 1..n : i < j => TL!Spaced(l, h, n, u)[i] < TL!Spaced(l, h, n, u)[j]
    BY <1>4, <1>11
  <2> QED  BY <2>1, <2>2

LEMMA LeastNumber ==
    ASSUME NEW T \in SUBSET Nat, T # {}
    PROVE  \E n \in T : \A m \in T : n <= m
<1>1. PICK n \in T : \A m \in T : <<m, n>> \notin OpToRel(<, Nat)
  BY NatLessThanWellFounded, WFMin, Zenon
<1>2. \A m \in T : ~(m < n)
  BY <1>1, Zenon DEF OpToRel
<1> QED  BY <1>2

\* The shortest scale there is room at.
LEMMA ShortestScale ==
    ASSUME TL!RanksAssumption, NEW l \in Int, NEW h \in Int, NEW n \in Nat \ {0},
           TL!HasRoom(l, h, n)
    PROVE  LET scale == CHOOSE s \in 0..Digits :
                            /\ TL!Room(l, h, TL!Unit(s)) >= n
                            /\ \A t \in 0..(s - 1) : TL!Room(l, h, TL!Unit(t)) < n
           IN scale \in 0..Digits /\ TL!Room(l, h, TL!Unit(scale)) >= n
<1> DEFINE at == [s \in 0..Digits |-> TL!Room(l, h, TL!Unit(s))]
           roomy == {s \in 0..Digits : at[s] >= n}
<1>1. at \in [0..Digits -> Int]
  <2> SUFFICES ASSUME NEW s \in 0..Digits PROVE TL!Room(l, h, TL!Unit(s)) \in Int
    OBVIOUS
  <2> DEFINE u == TL!Unit(s)
  <2>1. u \in Nat \ {0}
    BY UnitsAre
  <2> HIDE DEF u
  <2>2. l \div u \in Int /\ (-h) \div u \in Int
    BY <2>1, WholeUnits
  <2>3. TL!Room(l, h, u) \in Int
    BY <2>2 DEF TL!Room, TL!FirstUnit, TL!LastUnit
  <2> QED  BY <2>3 DEF u
<1>2. Digits \in 0..Digits /\ at[Digits] >= n
  BY DEF TL!HasRoom, TL!RanksAssumption
<1>3. \A s \in 0..Digits : at[s] = TL!Room(l, h, TL!Unit(s))
  OBVIOUS
<1> HIDE DEF at
<1>4. roomy \in SUBSET Nat /\ roomy # {}
  BY <1>2 DEF TL!RanksAssumption
<1>5. PICK s \in roomy : \A m \in roomy : s <= m
  BY <1>4, LeastNumber
<1>6. s \in 0..Digits /\ at[s] >= n
  BY <1>5
<1>7. \A t \in 0..(s - 1) : at[t] < n
  <2> TAKE t \in 0..(s - 1)
  <2>1. t \in 0..Digits /\ t < s
    BY <1>6 DEF TL!RanksAssumption
  <2>2. at[t] \in Int /\ t \notin roomy
    BY <1>1, <1>4, <1>5, <2>1
  <2> QED  BY <2>1, <2>2
<1>8. \A t \in 0..(s - 1) : TL!Room(l, h, TL!Unit(t)) < n
  <2> TAKE t \in 0..(s - 1)
  <2>1. t \in 0..Digits
    BY <1>6 DEF TL!RanksAssumption
  <2> QED  BY <1>3, <1>7, <2>1
<1> QED  BY <1>3, <1>6, <1>8

\* What spread gives stands between the two, and ascends.
LEMMA SpreadIs ==
    ASSUME TL!RanksAssumption, NEW low \in SUBSET Int, NEW high \in SUBSET Int,
           NEW n \in Nat \ {0}, TL!Fits(low, high, n),
           \A a, b \in low : a = b, \A a, b \in high : a = b
    PROVE  \A i \in 1..n :
              /\ TL!Spread(low, high, n)[i] \in Int
              /\ \A l \in low : l < TL!Spread(low, high, n)[i]
              /\ \A h \in high : TL!Spread(low, high, n)[i] < h
              /\ \A j \in 1..n : i < j => TL!Spread(low, high, n)[i] < TL!Spread(low, high, n)[j]
<1> DEFINE R == TL!Spread(low, high, n)
           l == CHOOSE x \in low : TRUE
           h == CHOOSE x \in high : TRUE
<1>1. TL!One \in Nat \ {0}
  BY UnitsAre DEF TL!One, TL!RanksAssumption
<1>l. low # {} => l \in Int /\ low = {l}
  OBVIOUS
<1>h. high # {} => h \in Int /\ high = {h}
  OBVIOUS
<1>2. CASE low = {} /\ high = {}
  <2>1. R = [i \in 1..n |-> (i - 1) * TL!One]
    BY <1>2 DEF TL!Spread
  <2>2. \A i \in 1..n : R[i] \in Int /\ \A j \in 1..n : i < j => R[i] < R[j]
    BY <1>1, <2>1, TimesOrdered
  <2> QED  BY <1>2, <2>2
<1>3. CASE low = {} /\ high # {}
  <2> DEFINE top == h \div TL!One
  <2>1. R = [i \in 1..n |-> (top - n + i - 1) * TL!One]
    BY <1>3 DEF TL!Spread
  <2>2. top \in Int /\ TL!One * top <= h
    BY <1>1, <1>3, <1>h, WholeUnits
  <2> HIDE DEF top
  <2>3. \A i \in 1..n : R[i] \in Int /\ \A j \in 1..n : i < j => R[i] < R[j]
    BY <1>1, <2>1, <2>2, TimesOrdered
  <2>4. \A i \in 1..n : R[i] < top * TL!One /\ top * TL!One \in Int
    BY <1>1, <2>1, <2>2, TimesOrdered
  <2>5. top * TL!One = TL!One * top
    BY <1>1, <2>2
  <2>6. \A i \in 1..n : R[i] < h
    BY <1>3, <1>h, <2>2, <2>3, <2>4, <2>5
  <2> QED  BY <1>3, <1>h, <2>3, <2>6
<1>4. CASE low # {} /\ high = {}
  <2> DEFINE bottom == l \div TL!One
  <2>1. R = [i \in 1..n |-> (bottom + i) * TL!One]
    BY <1>4 DEF TL!Spread
  <2>2. bottom \in Int /\ l < TL!One * bottom + TL!One
    BY <1>1, <1>4, <1>l, WholeUnits
  <2> HIDE DEF bottom
  <2>3. \A i \in 1..n : R[i] \in Int /\ \A j \in 1..n : i < j => R[i] < R[j]
    BY <1>1, <2>1, <2>2, TimesOrdered
  <2>4. \A i \in 1..n : (bottom + 1) * TL!One <= R[i] /\ (bottom + 1) * TL!One \in Int
    BY <1>1, <2>1, <2>2, TimesOrdered
  <2>5. (bottom + 1) * TL!One = TL!One * bottom + TL!One
    BY <1>1, <2>2, OneMoreTime, bottom * TL!One = TL!One * bottom
  <2>6. \A i \in 1..n : l < R[i]
    BY <1>4, <1>l, <2>2, <2>3, <2>4, <2>5
  <2> QED  BY <1>4, <1>l, <2>3, <2>6
<1>5. CASE low # {} /\ high # {}
  <2> DEFINE scale == CHOOSE s \in 0..Digits :
                            /\ TL!Room(l, h, TL!Unit(s)) >= n
                            /\ \A t \in 0..(s - 1) : TL!Room(l, h, TL!Unit(t)) < n
  <2>1. R = TL!Spaced(l, h, n, TL!Unit(scale))
    BY <1>5 DEF TL!Spread
  <2>2. TL!HasRoom(l, h, n)
    BY <1>5, <1>l, <1>h DEF TL!Fits
  <2>3. l \in Int /\ h \in Int
    BY <1>5, <1>l, <1>h
  <2>6. scale \in 0..Digits /\ TL!Room(l, h, TL!Unit(scale)) >= n
    <3> HIDE DEF l, h
    <3> QED  BY <2>2, <2>3, ShortestScale, Zenon
  <2> HIDE DEF scale
  <2>7. TL!Unit(scale) \in Nat \ {0}
    BY <2>6, UnitsAre
  <2> QED  BY <1>5, <1>l, <1>h, <2>1, <2>6, <2>7, SpacedAre
<1> QED  BY <1>2, <1>3, <1>4, <1>5

-----------------------------------------------------------------------------
(* TL!Places.                                                                 *)

Spots == [rank : Int, id : Nat]

LEMMA PlacesAreOrdered ==
    /\ \A p \in Spots : ~TL!Precedes(p, p)
    /\ \A p, q \in Spots : TL!Precedes(p, q) => ~TL!Precedes(q, p)
    /\ \A p, q \in Spots : p = q \/ TL!Precedes(p, q) \/ TL!Precedes(q, p)
    /\ \A p, q, r \in Spots : TL!Precedes(p, q) /\ TL!Precedes(q, r) => TL!Precedes(p, r)
    /\ \A p, q \in Spots : TL!Precedes(p, q) => p.rank <= q.rank
<1>1. \A p \in Spots : ~TL!Precedes(p, p)
  BY DEF Spots, TL!Precedes
<1>2. \A p, q \in Spots : TL!Precedes(p, q) => ~TL!Precedes(q, p)
  BY DEF Spots, TL!Precedes
<1>3. \A p, q \in Spots : p = q \/ TL!Precedes(p, q) \/ TL!Precedes(q, p)
  <2> SUFFICES ASSUME NEW p \in Spots, NEW q \in Spots,
                      ~TL!Precedes(p, q), ~TL!Precedes(q, p)
               PROVE  p = q
    OBVIOUS
  <2>1. p.rank = q.rank /\ p.id = q.id
    BY DEF Spots, TL!Precedes
  <2> QED  BY <2>1 DEF Spots
<1>4. \A p, q, r \in Spots : TL!Precedes(p, q) /\ TL!Precedes(q, r) => TL!Precedes(p, r)
  BY DEF Spots, TL!Precedes
<1>5. \A p, q \in Spots : TL!Precedes(p, q) => p.rank <= q.rank
  BY DEF Spots, TL!Precedes
<1> QED  BY <1>1, <1>2, <1>3, <1>4, <1>5

\* Places of one side.
OneSide(S) ==
    /\ S \in SUBSET Spots /\ sweep.long \in Spots
    /\ \/ \A p \in S : TL!Precedes(p, sweep.long)
       \/ \A p \in S : TL!Precedes(sweep.long, p)

\* What is ahead of a place of one side is that side's order, from the long rank out.
LEMMA AheadIs ==
    ASSUME NEW S, OneSide(S)
    PROVE  /\ \A p \in S : p \notin TL!Ahead(p, S) /\ TL!Ahead(p, S) \subseteq S
           /\ \A p, q \in S : p = q \/ p \in TL!Ahead(q, S) \/ q \in TL!Ahead(p, S)
           /\ \A p, q \in S : q \in TL!Ahead(p, S) => TL!Ahead(q, S) \subseteq TL!Ahead(p, S)
           /\ \A p, q \in S : q \in TL!Ahead(p, S) => p \notin TL!Ahead(q, S)
           /\ \A T \in SUBSET S : \A p \in S : TL!Ahead(p, T) = TL!Ahead(p, S) \cap T
<1> S \in SUBSET Spots /\ sweep.long \in Spots
  BY DEF OneSide
<1> USE PlacesAreOrdered
<1>1. \A p \in S : TL!Ahead(p, S) \subseteq S
  BY DEF TL!Ahead
<1>5. \A T \in SUBSET S : \A p \in S : TL!Ahead(p, T) = TL!Ahead(p, S) \cap T
  BY DEF TL!Ahead
<1>2. CASE \A p \in S : TL!Precedes(p, sweep.long)
  <2>1. \A p, q \in S : q \in TL!Ahead(p, S) <=> TL!Precedes(p, q)
    BY <1>2 DEF TL!Ahead
  <2>2. \A p, q \in S : q \in TL!Ahead(p, S) => TL!Ahead(q, S) \subseteq TL!Ahead(p, S)
    <3> SUFFICES ASSUME NEW p \in S, NEW q \in S, q \in TL!Ahead(p, S), NEW r \in TL!Ahead(q, S)
                 PROVE  r \in TL!Ahead(p, S)
      OBVIOUS
    <3> r \in S
      BY <1>1
    <3> QED  BY <2>1
  <2> QED  BY <1>1, <1>5, <2>1, <2>2
<1>3. CASE \A p \in S : TL!Precedes(sweep.long, p)
  <2>1. \A p, q \in S : q \in TL!Ahead(p, S) <=> TL!Precedes(q, p)
    BY <1>3 DEF TL!Ahead
  <2>2. \A p, q \in S : q \in TL!Ahead(p, S) => TL!Ahead(q, S) \subseteq TL!Ahead(p, S)
    <3> SUFFICES ASSUME NEW p \in S, NEW q \in S, q \in TL!Ahead(p, S), NEW r \in TL!Ahead(q, S)
                 PROVE  r \in TL!Ahead(p, S)
      OBVIOUS
    <3> r \in S
      BY <1>1
    <3> QED  BY <2>1
  <2> QED  BY <1>1, <1>5, <2>1, <2>2
<1> QED  BY <1>2, <1>3 DEF OneSide

\* The more of a side is ahead, the farther out.
LEMMA AheadCounts ==
    ASSUME NEW S, OneSide(S), IsFiniteSet(S)
    PROVE  /\ \A p \in S : IsFiniteSet(TL!Ahead(p, S)) /\ Cardinality(TL!Ahead(p, S)) \in Nat
           /\ \A p, q \in S : q \in TL!Ahead(p, S) <=>
                 Cardinality(TL!Ahead(q, S)) < Cardinality(TL!Ahead(p, S))
<1>1. \A p \in S : IsFiniteSet(TL!Ahead(p, S)) /\ Cardinality(TL!Ahead(p, S)) \in Nat
  BY AheadIs, FS_Subset, FS_CardinalityType
<1>2. ASSUME NEW p \in S, NEW q \in S, q \in TL!Ahead(p, S)
      PROVE  Cardinality(TL!Ahead(q, S)) < Cardinality(TL!Ahead(p, S))
  <2>1. TL!Ahead(q, S) \in SUBSET TL!Ahead(p, S) /\ q \notin TL!Ahead(q, S)
    BY <1>2, AheadIs
  <2>2. /\ Cardinality(TL!Ahead(q, S)) <= Cardinality(TL!Ahead(p, S))
        /\ Cardinality(TL!Ahead(p, S)) # Cardinality(TL!Ahead(q, S))
    BY <1>1, <1>2, <2>1, FS_Subset
  <2> QED  BY <1>1, <2>2
<1>3. ASSUME NEW p \in S, NEW q \in S, Cardinality(TL!Ahead(q, S)) < Cardinality(TL!Ahead(p, S))
      PROVE  q \in TL!Ahead(p, S)
  <2>1. p # q
    BY <1>1, <1>3
  <2>2. p \notin TL!Ahead(q, S)
    BY <1>1, <1>2, <1>3
  <2> QED  BY <2>1, <2>2, AheadIs
<1> QED  BY <1>1, <1>2, <1>3

\* Among some places of a side there is a nearest, and a farthest.
LEMMA NearestOf ==
    ASSUME NEW S, OneSide(S), IsFiniteSet(S), NEW T \in SUBSET S, T # {}
    PROVE  \E p \in T : \A q \in T : q \notin TL!Ahead(p, S)
<1> DEFINE count == [p \in S |-> Cardinality(TL!Ahead(p, S))]
           counts == {count[p] : p \in T}
<1>1. count \in [S -> Nat]
  BY AheadCounts
<1>2. \A p \in S : count[p] = Cardinality(TL!Ahead(p, S))
  OBVIOUS
<1> HIDE DEF count
<1>3. counts \in SUBSET Nat /\ counts # {}
  BY <1>1
<1>4. PICK n \in counts : \A m \in counts : n <= m
  BY <1>3, LeastNumber
<1>5. PICK p \in T : n = count[p]
  BY <1>4
<1>6. \A q \in T : ~(count[q] < count[p])
  BY <1>1, <1>4, <1>5
<1> QED  BY <1>2, <1>6, AheadCounts

LEMMA FarthestOf ==
    ASSUME NEW S, OneSide(S), IsFiniteSet(S), NEW T \in SUBSET S, T # {}
    PROVE  \E p \in T : \A q \in T : p \notin TL!Ahead(q, S)
<1> DEFINE most == Cardinality(S)
           gap == [p \in S |-> most - Cardinality(TL!Ahead(p, S))]
           gaps == {gap[p] : p \in T}
<1>0. most \in Nat
  BY FS_CardinalityType
<1>1. gap \in [S -> Nat]
  <2> SUFFICES ASSUME NEW p \in S PROVE most - Cardinality(TL!Ahead(p, S)) \in Nat
    OBVIOUS
  <2>1. Cardinality(TL!Ahead(p, S)) <= most /\ Cardinality(TL!Ahead(p, S)) \in Nat
    BY AheadIs, AheadCounts, FS_Subset
  <2> QED  BY <1>0, <2>1
<1>2. \A p \in S : gap[p] = most - Cardinality(TL!Ahead(p, S))
  OBVIOUS
<1> HIDE DEF gap, most
<1>3. gaps \in SUBSET Nat /\ gaps # {}
  BY <1>1
<1>4. PICK n \in gaps : \A m \in gaps : n <= m
  BY <1>3, LeastNumber
<1>5. PICK p \in T : n = gap[p]
  BY <1>4
<1>6. \A q \in T : ~(gap[q] < gap[p])
  BY <1>1, <1>4, <1>5
<1>7. ASSUME NEW q \in T, p \in TL!Ahead(q, S) PROVE FALSE
  <2>1. /\ Cardinality(TL!Ahead(p, S)) < Cardinality(TL!Ahead(q, S))
        /\ Cardinality(TL!Ahead(p, S)) \in Nat /\ Cardinality(TL!Ahead(q, S)) \in Nat
    BY <1>7, AheadCounts
  <2>2. gap[q] < gap[p]
    BY <1>0, <1>2, <2>1
  <2> QED  BY <1>6, <2>2
<1> QED  BY <1>7

\* A place that a read of its side did not find stands beyond all that it found, and
\* the last of them is as deep as a read may go.
LEMMA BeyondNearest ==
    ASSUME Reach \in Nat \ {0}, NEW S, OneSide(S), IsFiniteSet(S),
           NEW far \in S \ TL!Nearest(S)
    PROVE  /\ TL!Nearest(S) \subseteq TL!Ahead(far, TL!Nearest(S))
           /\ \E p \in TL!Nearest(S) : Cardinality(TL!Ahead(p, TL!Nearest(S))) = Reach - 1
<1> DEFINE N == TL!Nearest(S)
           C(p) == Cardinality(TL!Ahead(p, S))
<1>1. N \in SUBSET S /\ \A p \in S : p \in N <=> C(p) < Reach
  BY ListCounts DEF TL!Nearest
<1>2. \A p \in S : C(p) \in Nat
  BY AheadCounts
<1>3. \A p, q \in S : q \in TL!Ahead(p, S) <=> C(q) < C(p)
  BY AheadCounts
<1>0. far \in S \ N
  OBVIOUS
<1> HIDE DEF N, C
<1>4. \A q \in S \ N : N \subseteq TL!Ahead(q, S)
  BY <1>1, <1>2, <1>3
<1>5. \E p \in N : C(p) = Reach - 1 /\ TL!Ahead(p, S) \subseteq N
  <2>1. PICK q \in S \ N : \A r \in S \ N : r \notin TL!Ahead(q, S)
    BY <1>0, NearestOf
  <2>2. TL!Ahead(q, S) = N
    BY <1>4, <2>1, AheadIs
  <2>3. C(q) >= Reach
    BY <1>1, <1>2
  <2>4. N # {}
    <3>1. C(q) # 0
      BY <1>2, <2>3
    <3> QED  BY <2>2, <3>1, FS_EmptySet DEF C
  <2>5. PICK p \in N : \A r \in N : p \notin TL!Ahead(r, S)
    BY <1>1, <2>4, FarthestOf
  <2>6. TL!Ahead(p, S) \subseteq N
    BY <1>1, <1>2, <1>3, AheadIs
  <2>7. N = TL!Ahead(p, S) \cup {p}
    BY <1>1, <2>5, <2>6, AheadIs
  <2>8. p \notin TL!Ahead(p, S) /\ IsFiniteSet(TL!Ahead(p, S))
    BY <1>1, AheadIs, AheadCounts
  <2>9. C(q) = C(p) + 1
    BY <2>2, <2>7, <2>8, FS_AddElement DEF C
  <2>10. C(p) = Reach - 1
    BY <1>1, <1>2, <2>3, <2>9
  <2> QED  BY <2>6, <2>10
<1>6. PICK p \in N : C(p) = Reach - 1 /\ TL!Ahead(p, S) \subseteq N
  BY <1>5
<1>7. TL!Ahead(p, N) = TL!Ahead(p, S)
  <2>1. TL!Ahead(p, N) = TL!Ahead(p, S) \cap N
    BY <1>1, AheadIs
  <2> QED  BY <1>6, <2>1
<1>8. N \subseteq TL!Ahead(far, N)
  <2>1. TL!Ahead(far, N) = TL!Ahead(far, S) \cap N
    BY <1>0, <1>1, AheadIs
  <2> QED  BY <1>0, <1>4, <2>1
<1> QED  BY <1>6, <1>7, <1>8 DEF C, N

\* The edge of a side that was read is one place, or there is none and no bound.
LEMMA EdgeIs ==
    ASSUME NEW S, OneSide(S), IsFiniteSet(S)
    PROVE  /\ TL!Edge(S) \subseteq TL!Bounds(S) /\ TL!Bounds(S) \subseteq S
           /\ \A p, q \in TL!Edge(S) : p = q
           /\ TL!Bounds(S) # {} => TL!Edge(S) # {}
<1>1. TL!Bounds(S) \in SUBSET S /\ TL!Edge(S) \subseteq TL!Bounds(S)
  BY DEF TL!Bounds, TL!Edge
<1>2. \A p \in TL!Bounds(S) : TL!Ahead(p, TL!Bounds(S)) = TL!Ahead(p, S) \cap TL!Bounds(S)
  BY <1>1, AheadIs
<1>3. \A p, q \in TL!Edge(S) : p = q
  BY <1>1, <1>2, AheadIs DEF TL!Edge
<1>4. ASSUME TL!Bounds(S) # {} PROVE TL!Edge(S) # {}
  <2>1. PICK p \in TL!Bounds(S) : \A q \in TL!Bounds(S) : q \notin TL!Ahead(p, S)
    BY <1>1, <1>4, NearestOf
  <2>2. TL!Ahead(p, TL!Bounds(S)) = {}
    BY <1>2, <2>1
  <2> QED  BY <2>2 DEF TL!Edge
<1> QED  BY <1>1, <1>3, <1>4

\* A place of a side that the run leaves out is its edge, or stands beyond it.
LEMMA PastEdge ==
    ASSUME NEW S, OneSide(S), IsFiniteSet(S), NEW p \in Spots, p \notin TL!Inner(S),
           p \notin S => /\ S \subseteq TL!Ahead(p, S)
                         /\ \E q \in S : Cardinality(TL!Ahead(q, S)) = Reach - 1
    PROVE  \E e \in TL!Edge(S) : e \in S /\ (p = e \/ e \in TL!Ahead(p, S))
<1>1. TL!Edge(S) \subseteq S
  BY EdgeIs
<1>2. CASE p \in S
  <2>1. PICK e \in TL!Edge(S) : p \notin TL!Ahead(e, S)
    BY <1>2 DEF TL!Inner
  <2> QED  BY <1>1, <1>2, <2>1, AheadIs
<1>3. CASE p \notin S
  <2>1. TL!Bounds(S) # {}
    BY <1>3, ListCounts DEF TL!Bounds
  <2> QED  BY <1>1, <1>3, <2>1, EdgeIs
<1> QED  BY <1>2, <1>3

-----------------------------------------------------------------------------
(* The run.                                                                *)

LEMMA SidesAre ==
    ASSUME TL!TaskListAssumption, TL!IInv, sweep.pc \in {"rows", "write"}
    PROVE  /\ OneSide(sweep.above) /\ IsFiniteSet(sweep.above)
           /\ OneSide(sweep.below) /\ IsFiniteSet(sweep.below)
           /\ sweep.long \in Spots
           /\ \A p \in sweep.above : TL!Precedes(p, sweep.long)
           /\ \A p \in sweep.below : TL!Precedes(sweep.long, p)
<1>1. TL!TypeOK /\ TL!AboveHolds /\ TL!BelowHolds /\ TL!PlaceType \in SUBSET Spots
  BY DEF TL!IInv, TL!PlaceType, Spots, TL!TaskListAssumption
<1>2. /\ sweep.long \in Spots
      /\ sweep.above \in SUBSET Spots /\ sweep.below \in SUBSET Spots
  BY <1>1 DEF TL!TypeOK, TL!SweepType
<1> QED  BY <1>1, <1>2, ListCounts DEF OneSide, TL!AboveHolds, TL!BelowHolds, TL!SideHolds

LEMMA RunIs ==
    ASSUME TL!TaskListAssumption, TL!IInv, sweep.pc \in {"rows", "write"}
    PROVE  /\ TL!Run \in SUBSET Spots /\ IsFiniteSet(TL!Run)
           /\ sweep.long \in TL!Run
           /\ Cardinality(TL!Run) \in Nat \ {0}
           /\ \A p \in TL!Run : p.id \in Tasks
           /\ TL!EdgeRank(sweep.above) \in SUBSET Int
           /\ TL!EdgeRank(sweep.below) \in SUBSET Int
           /\ \A a, b \in TL!EdgeRank(sweep.above) : a = b
           /\ \A a, b \in TL!EdgeRank(sweep.below) : a = b
<1>1. /\ sweep.above \in SUBSET Spots /\ sweep.below \in SUBSET Spots /\ sweep.long \in Spots
      /\ IsFiniteSet(sweep.above) /\ IsFiniteSet(sweep.below)
  BY SidesAre DEF OneSide
<1>2. TL!Inner(sweep.above) \in SUBSET sweep.above /\ TL!Inner(sweep.below) \in SUBSET sweep.below
  BY DEF TL!Inner
<1>3. IsFiniteSet(TL!Inner(sweep.above)) /\ IsFiniteSet(TL!Inner(sweep.below))
  BY <1>1, <1>2, FS_Subset
<1>4. TL!Run \in SUBSET Spots /\ sweep.long \in TL!Run
  BY <1>1, <1>2 DEF TL!Run
<1>5. IsFiniteSet(TL!Run)
  <2>1. IsFiniteSet(TL!Inner(sweep.above) \cup {sweep.long})
    BY <1>3, FS_AddElement
  <2> QED  BY <1>3, <2>1, FS_Union DEF TL!Run
<1>6. Cardinality(TL!Run) \in Nat \ {0}
  BY <1>4, <1>5, FS_EmptySet, FS_CardinalityType
<1>7. \A p \in TL!Run : p.id \in Tasks
  <2>1. /\ sweep.above \in SUBSET TL!PlaceType /\ sweep.below \in SUBSET TL!PlaceType
        /\ sweep.long \in TL!PlaceType
    BY DEF TL!IInv, TL!TypeOK, TL!SweepType
  <2>2. TL!Run \in SUBSET TL!PlaceType
    BY <1>2, <2>1 DEF TL!Run
  <2> QED  BY <2>2 DEF TL!PlaceType
<1>8. /\ TL!EdgeRank(sweep.above) \in SUBSET Int
      /\ \A a, b \in TL!EdgeRank(sweep.above) : a = b
  <2>1. /\ TL!Edge(sweep.above) \in SUBSET Spots
        /\ \A p, q \in TL!Edge(sweep.above) : p = q
    BY <1>1, SidesAre, EdgeIs
  <2> QED  BY <2>1 DEF TL!EdgeRank, Spots
<1>9. /\ TL!EdgeRank(sweep.below) \in SUBSET Int
      /\ \A a, b \in TL!EdgeRank(sweep.below) : a = b
  <2>1. /\ TL!Edge(sweep.below) \in SUBSET Spots
        /\ \A p, q \in TL!Edge(sweep.below) : p = q
    BY <1>1, SidesAre, EdgeIs
  <2> QED  BY <2>1 DEF TL!EdgeRank, Spots
<1> QED  BY <1>4, <1>5, <1>6, <1>7, <1>8, <1>9

\* Where it stands in the run tells two places of it apart, in their order.
LEMMA NthIs ==
    ASSUME NEW R, R = TL!Run, R \in SUBSET Spots, IsFiniteSet(R)
    PROVE  /\ \A p \in R : TL!Nth(p) \in 1..Cardinality(R)
           /\ \A p, q \in R : TL!Precedes(p, q) => TL!Nth(p) < TL!Nth(q)
<1> DEFINE First(p) == {q \in R : TL!Precedes(q, p)}
<1>1. \A p \in R : TL!Nth(p) = Cardinality(First(p)) + 1
  BY ListCounts DEF TL!Nth
<1>2. \A p \in R : p \notin First(p) /\ First(p) \in SUBSET R
  BY PlacesAreOrdered
<1>3. \A p \in R : /\ IsFiniteSet(First(p)) /\ Cardinality(First(p)) \in Nat
                   /\ Cardinality(First(p)) < Cardinality(R)
  <2> TAKE p \in R
  <2>1. IsFiniteSet(First(p)) /\ Cardinality(First(p)) <= Cardinality(R)
    BY <1>2, FS_Subset
  <2>2. Cardinality(R) # Cardinality(First(p))
    BY <1>2, FS_Subset
  <2> QED  BY <2>1, <2>2, FS_CardinalityType
<1>4. ASSUME NEW p \in R, NEW q \in R, TL!Precedes(p, q)
      PROVE  Cardinality(First(p)) < Cardinality(First(q))
  <2>1. First(p) \in SUBSET First(q) /\ p \in First(q)
    BY <1>4, PlacesAreOrdered
  <2> HIDE DEF First
  <2>2. First(p) # First(q)
    BY <1>2, <2>1
  <2>3. /\ Cardinality(First(p)) <= Cardinality(First(q))
        /\ Cardinality(First(q)) # Cardinality(First(p))
    BY <1>3, <2>1, <2>2, FS_Subset
  <2> QED  BY <1>3, <2>3
<1> HIDE DEF First
<1>5. Cardinality(R) \in Nat
  BY FS_CardinalityType
<1>6. \A p \in R : TL!Nth(p) \in 1..Cardinality(R)
  <2> TAKE p \in R
  <2> DEFINE f == Cardinality(First(p))
             n == Cardinality(R)
  <2>1. TL!Nth(p) = f + 1 /\ f \in Nat /\ f < n /\ n \in Nat
    BY <1>1, <1>3, <1>5
  <2> HIDE DEF f, n
  <2>2. TL!Nth(p) \in 1..n
    BY <2>1
  <2> QED  BY <2>2 DEF n
<1>7. ASSUME NEW p \in R, NEW q \in R, TL!Precedes(p, q) PROVE TL!Nth(p) < TL!Nth(q)
  BY <1>1, <1>3, <1>4, <1>7
<1> QED  BY <1>6, <1>7

\* A task that stayed and is left out of the run stands before all of it or after all
\* of it, no nearer than the rank its new ranks stop short of.
LEMMA LeftOut ==
    ASSUME TL!TaskListAssumption, TL!IInv, sweep.pc \in {"rows", "write"},
           NEW t \in TL!Open \ placed, TL!Place(t) \notin TL!Run
    PROVE  \/ \E l \in TL!EdgeRank(sweep.above) :
                 listed[t].rank <= l /\ \A p \in TL!Run : TL!Precedes(TL!Place(t), p)
           \/ \E h \in TL!EdgeRank(sweep.below) :
                 h <= listed[t].rank /\ \A p \in TL!Run : TL!Precedes(p, TL!Place(t))
<1> DEFINE p == TL!Place(t)
           A == sweep.above
           B == sweep.below
           o == sweep.long
<1>1. p \in Spots /\ p.rank = listed[t].rank
  BY DEF TL!IInv, TL!TypeOK, TL!Open, TL!Place, Spots, TL!TaskListAssumption
<1>2. /\ OneSide(A) /\ IsFiniteSet(A) /\ A \in SUBSET Spots
      /\ OneSide(B) /\ IsFiniteSet(B) /\ B \in SUBSET Spots
      /\ o \in Spots
      /\ \A q \in A : TL!Precedes(q, o)
      /\ \A q \in B : TL!Precedes(o, q)
  BY SidesAre DEF OneSide
<1>3. p \notin TL!Inner(A) /\ p \notin TL!Inner(B) /\ p # o
  BY DEF TL!Run
<1>4. p \in TL!Stayed
  BY DEF TL!Stayed
<1>5. Reach \in Nat \ {0}
  BY DEF TL!TaskListAssumption
<1>6. /\ \A q \in TL!Run : q \in Spots
      /\ \A q \in TL!Run : q \in TL!Inner(A) \/ q = o \/ q \in TL!Inner(B)
      /\ TL!Inner(A) \subseteq A /\ TL!Inner(B) \subseteq B
  BY RunIs DEF TL!Run, TL!Inner
<1>7. CASE TL!Precedes(p, o)
  <2>1. p \notin A => /\ A \subseteq TL!Ahead(p, A)
                      /\ \E q \in A : Cardinality(TL!Ahead(q, A)) = Reach - 1
    BY <1>4, <1>7, ListCounts DEF TL!IInv, TL!AboveHolds, TL!SideHolds
  <2>2. PICK e \in TL!Edge(A) : e \in A /\ (p = e \/ e \in TL!Ahead(p, A))
    <3> HIDE DEF p, A
    <3> QED  BY <1>1, <1>2, <1>3, <2>1, PastEdge
  <2>3. p = e \/ TL!Precedes(p, e)
    BY <1>1, <1>2, <2>2, PlacesAreOrdered DEF TL!Ahead
  <2>4. p.rank <= e.rank /\ e.rank \in TL!EdgeRank(A)
    BY <1>1, <1>2, <2>2, <2>3, PlacesAreOrdered DEF TL!EdgeRank, Spots
  <2>5. ASSUME NEW q \in TL!Run PROVE TL!Precedes(p, q)
    <3>1. CASE q \in TL!Inner(A)
      <4>1. q \in TL!Ahead(e, A)
        BY <2>2, <3>1 DEF TL!Inner
      <4>2. TL!Precedes(e, q)
        BY <1>2, <1>6, <2>2, <3>1, <4>1, PlacesAreOrdered DEF TL!Ahead
      <4> HIDE DEF p
      <4> QED  BY <1>1, <1>2, <1>6, <2>2, <2>3, <3>1, <4>2, PlacesAreOrdered
    <3>2. CASE q = o
      BY <1>7, <3>2
    <3>3. CASE q \in TL!Inner(B)
      <4>1. TL!Precedes(o, q)
        BY <1>2, <1>6, <3>3
      <4> HIDE DEF p, o
      <4> QED  BY <1>1, <1>2, <1>6, <1>7, <4>1, PlacesAreOrdered
    <3> QED  BY <1>6, <3>1, <3>2, <3>3
  <2> QED  BY <1>1, <2>4, <2>5
<1>8. CASE TL!Precedes(o, p)
  <2>1. p \notin B => /\ B \subseteq TL!Ahead(p, B)
                      /\ \E q \in B : Cardinality(TL!Ahead(q, B)) = Reach - 1
    BY <1>4, <1>8, ListCounts DEF TL!IInv, TL!BelowHolds, TL!SideHolds
  <2>2. PICK e \in TL!Edge(B) : e \in B /\ (p = e \/ e \in TL!Ahead(p, B))
    <3> HIDE DEF p, B
    <3> QED  BY <1>1, <1>2, <1>3, <2>1, PastEdge
  <2>3. p = e \/ TL!Precedes(e, p)
    BY <1>1, <1>2, <2>2, PlacesAreOrdered DEF TL!Ahead
  <2>4. e.rank <= p.rank /\ e.rank \in TL!EdgeRank(B)
    BY <1>1, <1>2, <2>2, <2>3, PlacesAreOrdered DEF TL!EdgeRank, Spots
  <2>5. ASSUME NEW q \in TL!Run PROVE TL!Precedes(q, p)
    <3>1. CASE q \in TL!Inner(B)
      <4>1. q \in TL!Ahead(e, B)
        BY <2>2, <3>1 DEF TL!Inner
      <4>2. TL!Precedes(q, e)
        BY <1>2, <1>6, <2>2, <3>1, <4>1, PlacesAreOrdered DEF TL!Ahead
      <4> HIDE DEF p
      <4> QED  BY <1>1, <1>2, <1>6, <2>2, <2>3, <3>1, <4>2, PlacesAreOrdered
    <3>2. CASE q = o
      BY <1>8, <3>2
    <3>3. CASE q \in TL!Inner(A)
      <4>1. TL!Precedes(q, o)
        BY <1>2, <1>6, <3>3
      <4> HIDE DEF p, o
      <4> QED  BY <1>1, <1>2, <1>6, <1>8, <4>1, PlacesAreOrdered
    <3> QED  BY <1>6, <3>1, <3>2, <3>3
  <2> QED  BY <1>1, <2>4, <2>5
<1> QED  BY <1>1, <1>2, <1>3, <1>7, <1>8, PlacesAreOrdered

LEMMA RespaceKeeps ==
    ASSUME TL!TaskListAssumption, TL!RanksAssumption, TL!IInv
    PROVE  TL!RespaceKeepsOrder
<1> SUFFICES ASSUME TL!WriteRun
             PROVE  /\ \A s, t \in TL!Open \ placed : TL!Before(s, t) = TL!Before(s, t)'
                    /\ \A t \in Tasks : listed'[t].rank # listed[t].rank =>
                            TL!Place(t) \in TL!Run /\ t \in TL!Open
                    /\ TL!Open' = TL!Open
  BY DEF TL!RespaceKeepsOrder
<1>0. /\ sweep.pc = "write"
      /\ listed' = IF \A p \in TL!Run : TL!Current(p) THEN TL!Respaced ELSE listed
  BY DEF TL!WriteRun
<1>1. CASE listed' = listed
  BY <1>1 DEF TL!Before, TL!Place, TL!Open
<1>2. CASE (\A p \in TL!Run : TL!Current(p)) /\ listed' = TL!Respaced
  <2> DEFINE A == TL!EdgeRank(sweep.above)
             B == TL!EdgeRank(sweep.below)
             n == Cardinality(TL!Run)
             In(t) == t \in TL!Open /\ TL!Place(t) \in TL!Run
  <2>1. /\ TL!Run \in SUBSET Spots /\ IsFiniteSet(TL!Run) /\ n \in Nat \ {0}
        /\ \A p \in TL!Run : p.id \in Tasks
        /\ A \in SUBSET Int /\ B \in SUBSET Int
        /\ \A a, b \in A : a = b
        /\ \A a, b \in B : a = b
    BY <1>0, RunIs
  <2>2. TL!Fits(A, B, n) /\ \A p \in TL!Run : TL!Unmoved(p)
    BY <1>0, <1>2, ListCounts DEF TL!IInv, TL!RowsHold
  <2>3. \A p \in TL!Run : p = TL!Place(p.id) /\ p.id \in TL!Open
    BY <2>1, <2>2 DEF TL!Unmoved, TL!Place, TL!Open, Spots
  <2>4. \A t \in Tasks : /\ TL!Place(t) \in Spots /\ TL!Place(t).id = t
                         /\ TL!Place(t).rank = listed[t].rank
    BY DEF TL!IInv, TL!TypeOK, TL!Place, Spots, TL!TaskListAssumption
  <2>5. \A i \in 1..n : /\ TL!Ranked[i] \in Int
                        /\ \A l \in A : l < TL!Ranked[i]
                        /\ \A h \in B : TL!Ranked[i] < h
                        /\ \A j \in 1..n : i < j => TL!Ranked[i] < TL!Ranked[j]
    <3> HIDE DEF A, B, n
    <3>1. TL!Ranked = TL!Spread(A, B, n)
      BY ListCounts DEF TL!Ranked, A, B, n
    <3> QED  BY <2>1, <2>2, <3>1, SpreadIs
  <2>6. /\ \A p \in TL!Run : TL!Nth(p) \in 1..n
        /\ \A p, q \in TL!Run : TL!Precedes(p, q) => TL!Nth(p) < TL!Nth(q)
    BY <2>1, NthIs
  <2>7. ASSUME NEW t \in Tasks, In(t)
        PROVE  /\ listed'[t].rank = TL!Ranked[TL!Nth(TL!Place(t))]
               /\ listed'[t].status = "open"
    <3>1. \A p \in TL!Run : p.id = t <=> p = TL!Place(t)
      BY <2>3, <2>4
    <3>2. (CHOOSE p \in TL!Run : p.id = t) = TL!Place(t)
      BY <2>7, <3>1
    <3>3. \E p \in TL!Run : p.id = t
      BY <2>7, <3>1
    <3> QED  BY <1>2, <3>2, <3>3 DEF TL!Respaced
  <2>8. ASSUME NEW t \in Tasks, ~In(t)
        PROVE  listed'[t] = listed[t]
    <3>1. ~\E p \in TL!Run : p.id = t
      BY <2>3, <2>8
    <3> QED  BY <1>2, <3>1 DEF TL!Respaced
  <2>9. TL!Open' = TL!Open
    <3>1. \A t \in Tasks : listed'[t].status = "open" <=> listed[t].status = "open"
      BY <2>7, <2>8 DEF TL!Open
    <3> QED  BY <3>1 DEF TL!Open
  <2>10. \A t \in Tasks :
            listed'[t].rank # listed[t].rank => TL!Place(t) \in TL!Run /\ t \in TL!Open
    BY <2>8
  <2> DEFINE New(t) == [rank |-> listed'[t].rank, id |-> t]
  <2>11. \A t \in Tasks : New(t) \in Spots
    <3> TAKE t \in Tasks
    <3>1. listed'[t].rank \in Int
      <4>1. CASE In(t)
        BY <2>5, <2>6, <2>7, <4>1
      <4>2. CASE ~In(t)
        BY <2>4, <2>8, <4>2 DEF Spots
      <4> QED  BY <4>1, <4>2
    <3> QED  BY <3>1 DEF Spots, TL!TaskListAssumption
  <2>12. ASSUME NEW s \in TL!Open \ placed, NEW t \in TL!Open \ placed,
                TL!Precedes(TL!Place(s), TL!Place(t))
         PROVE  TL!Precedes(New(s), New(t))
    <3>0. s \in Tasks /\ t \in Tasks
      BY DEF TL!Open
    <3>1. CASE In(s) /\ In(t)
      <4>1. /\ TL!Nth(TL!Place(s)) < TL!Nth(TL!Place(t))
            /\ TL!Nth(TL!Place(s)) \in 1..n /\ TL!Nth(TL!Place(t)) \in 1..n
        BY <2>6, <2>12, <3>1
      <4>2. TL!Ranked[TL!Nth(TL!Place(s))] < TL!Ranked[TL!Nth(TL!Place(t))]
        BY <2>5, <4>1
      <4> QED  BY <2>7, <3>0, <3>1, <4>2 DEF TL!Precedes
    <3>2. CASE In(s) /\ ~In(t)
      <4>1. PICK h \in B : h <= listed[t].rank
        BY <1>0, <2>4, <2>12, <3>0, <3>2, LeftOut, PlacesAreOrdered
      <4>2. listed'[s].rank < h /\ listed'[s].rank \in Int /\ h \in Int
        BY <2>1, <2>5, <2>6, <2>7, <3>0, <3>2
      <4>3. listed'[t].rank = listed[t].rank /\ listed[t].rank \in Int
        BY <2>4, <2>8, <3>0, <3>2 DEF Spots
      <4> QED  BY <4>1, <4>2, <4>3 DEF TL!Precedes
    <3>3. CASE ~In(s) /\ In(t)
      <4>1. PICK l \in A : listed[s].rank <= l
        BY <1>0, <2>4, <2>12, <3>0, <3>3, LeftOut, PlacesAreOrdered
      <4>2. l < listed'[t].rank /\ listed'[t].rank \in Int /\ l \in Int
        BY <2>1, <2>5, <2>6, <2>7, <3>0, <3>3
      <4>3. listed'[s].rank = listed[s].rank /\ listed[s].rank \in Int
        BY <2>4, <2>8, <3>0, <3>3 DEF Spots
      <4> QED  BY <4>1, <4>2, <4>3 DEF TL!Precedes
    <3>4. CASE ~In(s) /\ ~In(t)
      BY <2>8, <2>12, <3>0, <3>4 DEF TL!Place
    <3> QED  BY <3>1, <3>2, <3>3, <3>4
  <2>13. \A s, t \in TL!Open \ placed : TL!Before(s, t) = TL!Before(s, t)'
    <3> SUFFICES ASSUME NEW s \in TL!Open \ placed, NEW t \in TL!Open \ placed
                 PROVE  TL!Before(s, t) = TL!Before(s, t)'
      OBVIOUS
    <3>0. s \in Tasks /\ t \in Tasks
      BY DEF TL!Open
    <3>1. /\ TL!Before(s, t)' = TL!Precedes(New(s), New(t))
          /\ TL!Before(s, t) = TL!Precedes(TL!Place(s), TL!Place(t))
      BY DEF TL!Before, TL!Place
    <3>2. TL!Place(s) = TL!Place(t) <=> s = t
      BY DEF TL!Place
    <3> HIDE DEF New
    <3>3. TL!Precedes(TL!Place(s), TL!Place(t)) <=> TL!Precedes(New(s), New(t))
      BY <2>4, <2>11, <2>12, <3>0, <3>2, PlacesAreOrdered
    <3>4. TL!Precedes(TL!Place(s), TL!Place(t)) = TL!Precedes(New(s), New(t))
      BY <3>3 DEF TL!Precedes
    <3> QED  BY <3>1, <3>4
  <2> QED  BY <2>9, <2>10, <2>13
<1> QED  BY <1>0, <1>1, <1>2

-----------------------------------------------------------------------------
(* What was read holds.                                                    *)

LEMMA InitHolds ==
    ASSUME TL!TaskListAssumption, TL!Init PROVE TL!IInv
<1>1. listed \in [Tasks -> [status : {"none", "open", "done"}, rank : Int, version : Nat]]
  BY DEF TL!TaskListAssumption, TL!Init
<1>2. TL!NoCall \in TL!CallType /\ TL!NoCall.pc = "idle"
  BY DEF TL!NoCall, TL!CallType
<1>3. TL!NoSweep \in TL!SweepType /\ TL!NoSweep.pc = "idle"
  BY DEF TL!NoSweep, TL!SweepType
<1> QED  BY <1>1, <1>2, <1>3 DEF TL!Init, TL!IInv, TL!TypeOK

\* The rank a call is given.
LEMMA RankBetweenIs ==
    ASSUME TL!RanksAssumption, NEW low \in SUBSET Int, NEW high \in SUBSET Int,
           \A a, b \in low : a = b, \A a, b \in high : a = b, TL!Fits(low, high, 1)
    PROVE  TL!RankBetween(low, high) \in Int
<1>1. 1 \in Nat \ {0} /\ 1 \in 1..1
  OBVIOUS
<1> QED  BY <1>1, SpreadIs DEF TL!RankBetween

LEMMA LeastRankIs ==
    ASSUME TL!TypeOK, NEW S \in SUBSET Tasks
    PROVE  /\ TL!LeastRank(S) \in SUBSET Int
           /\ \A a, b \in TL!LeastRank(S) : a = b
<1>1. \A t \in Tasks : listed[t].rank \in Int
  BY DEF TL!TypeOK
<1>2. TL!LeastRank(S) \in SUBSET Int
  BY <1>1 DEF TL!LeastRank
<1>3. \A a, b \in TL!LeastRank(S) : a = b
  <2> SUFFICES ASSUME NEW a \in TL!LeastRank(S), NEW b \in TL!LeastRank(S) PROVE a = b
    OBVIOUS
  <2>1. PICK s \in S : a = listed[s].rank /\ \A t \in S : a <= listed[t].rank
    BY DEF TL!LeastRank
  <2>2. PICK t \in S : b = listed[t].rank /\ \A r \in S : b <= listed[r].rank
    BY DEF TL!LeastRank
  <2>3. a <= b /\ b <= a /\ a \in Int /\ b \in Int
    BY <1>1, <2>1, <2>2
  <2> QED  BY <2>3
<1> QED  BY <1>2, <1>3

\* What a call writes down of what it read.
LEMMA CallsType ==
    ASSUME TL!TaskListAssumption, TL!TypeOK, NEW c \in Calls, NEW call \in TL!CallType,
           call.pc # "idle" => call.task \in Tasks, calls' = [calls EXCEPT ![c] = call]
    PROVE  /\ calls' \in [Calls -> TL!CallType]
           /\ \A d \in Calls : calls'[d].pc # "idle" => calls'[d].task \in Tasks
  BY DEF TL!TypeOK

\* What was read still holds when no row moves but by a write of its own version,
\* and one that is placed is marked so.
MovesOn ==
    /\ sweep' = sweep
    /\ placed \subseteq placed'
    /\ \A t \in Tasks :
          \/ listed'[t] = listed[t]
          \/ /\ listed'[t].version = listed[t].version + 1
             /\ \/ t \in placed'
                \/ listed'[t].rank = listed[t].rank /\ t \in TL!Open

LEMMA HoldsOn ==
    ASSUME TL!TaskListAssumption, TL!IInv, TL!TypeOK', MovesOn
    PROVE  TL!IInv'
<1>1. TL!Stayed' \subseteq TL!Stayed
  <2> SUFFICES ASSUME NEW t \in TL!Open' \ placed'
               PROVE  t \in TL!Open \ placed /\ TL!Place(t)' = TL!Place(t)
    BY DEF TL!Stayed, TL!Place
  <2>1. t \in Tasks /\ t \notin placed /\ t \notin placed'
    BY DEF MovesOn, TL!Open
  <2>2. listed'[t].rank = listed[t].rank
    BY <2>1 DEF MovesOn
  <2>3. t \in TL!Open
    BY <2>1 DEF MovesOn, TL!Open
  <2> QED  BY <2>1, <2>2, <2>3 DEF TL!Place
<1>2. ASSUME sweep.pc \in {"below", "rows", "write"} PROVE TL!AboveHolds'
  <2>1. TL!AboveHolds
    BY <1>2 DEF TL!IInv
  <2> QED  BY <1>1, <2>1 DEF TL!AboveHolds, TL!SideHolds, TL!Ahead, TL!Precedes, MovesOn
<1>3. ASSUME sweep.pc \in {"rows", "write"} PROVE TL!BelowHolds'
  <2>1. TL!BelowHolds
    BY <1>3 DEF TL!IInv
  <2> QED  BY <1>1, <2>1 DEF TL!BelowHolds, TL!SideHolds, TL!Ahead, TL!Precedes, MovesOn
<1>4. ASSUME sweep.pc = "write" PROVE TL!RowsHold'
  <2>1. TL!RowsHold /\ \A p \in TL!Run : p.id \in Tasks
    BY <1>4, RunIs DEF TL!IInv
  <2>2. TL!Run' = TL!Run /\ TL!EdgeRank(sweep.above)' = TL!EdgeRank(sweep.above)
        /\ TL!EdgeRank(sweep.below)' = TL!EdgeRank(sweep.below)
    BY DEF MovesOn, TL!Run, TL!Inner, TL!EdgeRank, TL!Edge, TL!Bounds, TL!Ahead, TL!Precedes
  <2>3. ASSUME NEW p \in TL!Run
        PROVE  /\ sweep.versions[p.id] <= listed'[p.id].version
               /\ listed'[p.id].version = sweep.versions[p.id] =>
                     listed'[p.id].status = "open" /\ listed'[p.id].rank = p.rank
    <3>1. /\ sweep.versions[p.id] <= listed[p.id].version
          /\ listed[p.id].version = sweep.versions[p.id] =>
                listed[p.id].status = "open" /\ listed[p.id].rank = p.rank
          /\ listed[p.id].version \in Nat /\ sweep.versions[p.id] \in Nat
          /\ p.id \in Tasks
      BY <2>1, <2>3 DEF TL!RowsHold, TL!Current, TL!Unmoved, TL!IInv, TL!TypeOK, TL!SweepType
    <3>2. \/ listed'[p.id] = listed[p.id]
          \/ listed'[p.id].version = listed[p.id].version + 1
      BY <3>1 DEF MovesOn
    <3> QED  BY <3>1, <3>2
  <2> QED  BY <2>1, <2>2, <2>3 DEF TL!RowsHold, TL!Current, TL!Unmoved, TL!Fits, MovesOn
<1> QED  BY <1>2, <1>3, <1>4 DEF TL!IInv, MovesOn

LEMMA CallsKeep ==
    ASSUME TL!TaskListAssumption, TL!RanksAssumption, TL!IInv, NEW c \in Calls,
           TL!ReadTop(c) \/ TL!ReadAnchor(c) \/ TL!ReadFollowing(c) \/ TL!WritePlace(c)
    PROVE  TL!IInv'
<1>0. TL!TypeOK /\ Tasks \subseteq Nat
  BY DEF TL!IInv, TL!TaskListAssumption
<1>t. \A t \in Tasks : listed[t].version \in Nat /\ listed[t].rank \in Int
  BY <1>0 DEF TL!TypeOK
<1>1. ASSUME NEW call \in TL!CallType, call.pc # "idle" => call.task \in Tasks,
             calls' = [calls EXCEPT ![c] = call], UNCHANGED <<listed, sweep, placed>>
      PROVE  TL!IInv'
  <2>1. TL!TypeOK'
    BY <1>0, <1>1, CallsType DEF TL!TypeOK
  <2>2. MovesOn
    BY <1>1 DEF MovesOn
  <2> QED  BY <2>1, <2>2, HoldsOn
<1>2. CASE TL!ReadTop(c)
  <2>1. PICK t \in Tasks, op \in {"create", "reopen", "move"} :
            TL!Starts(c, [op |-> op, pc |-> "write", task |-> t, version |-> listed[t].version,
                          rank |-> TL!RankBetween({}, TL!LeastRank(TL!Open \ {t}))])
    BY <1>2 DEF TL!ReadTop
  <2>2. TL!RankBetween({}, TL!LeastRank(TL!Open \ {t})) \in Int
    <3> DEFINE top == TL!LeastRank(TL!Open \ {t})
    <3>1. top \in SUBSET Int /\ \A a, b \in top : a = b
      BY <1>0, LeastRankIs DEF TL!Open
    <3> HIDE DEF top
    <3>2. TL!Fits({}, top, 1)
      BY DEF TL!Fits
    <3>3. TL!RankBetween({}, top) \in Int
      BY <3>1, <3>2, RankBetweenIs
    <3> QED  BY <3>3 DEF top
  <2> DEFINE call == [op |-> op, pc |-> "write", task |-> t, version |-> listed[t].version,
                      rank |-> TL!RankBetween({}, TL!LeastRank(TL!Open \ {t}))]
  <2>3. call \in TL!CallType /\ call.task \in Tasks
    BY <1>0, <1>t, <2>2 DEF TL!CallType
  <2>4. calls' = [calls EXCEPT ![c] = call] /\ UNCHANGED <<listed, sweep, placed>>
    BY <2>1 DEF TL!Starts
  <2> HIDE DEF call
  <2> QED  BY <1>1, <2>3, <2>4
<1>3. CASE TL!ReadAnchor(c)
  <2>1. PICK t, anchor \in TL!Open :
            TL!Starts(c, [op |-> "move", pc |-> "anchor", task |-> t,
                          version |-> listed[t].version, rank |-> listed[anchor].rank])
    BY <1>3 DEF TL!ReadAnchor
  <2> DEFINE call == [op |-> "move", pc |-> "anchor", task |-> t,
                      version |-> listed[t].version, rank |-> listed[anchor].rank]
  <2>3. call \in TL!CallType /\ call.task \in Tasks
    BY <1>0, <1>t DEF TL!CallType, TL!Open
  <2>4. calls' = [calls EXCEPT ![c] = call] /\ UNCHANGED <<listed, sweep, placed>>
    BY <2>1 DEF TL!Starts
  <2> HIDE DEF call
  <2> QED  BY <1>1, <2>3, <2>4
<1>4. CASE TL!ReadFollowing(c)
  <2> DEFINE anchor == calls[c].rank
             S == {t \in TL!Open \ {calls[c].task} : listed[t].rank > anchor}
             following == TL!LeastRank(S)
             rank == TL!RankBetween({anchor}, following)
  <2>1. /\ calls[c].pc = "anchor" /\ TL!Fits({anchor}, following, 1)
        /\ calls' = [calls EXCEPT ![c].pc = "write", ![c].rank = rank]
        /\ UNCHANGED <<listed, sweep, placed>>
    BY <1>4 DEF TL!ReadFollowing
  <2>2. S \in SUBSET Tasks /\ anchor \in Int
    BY <1>0 DEF TL!Open, TL!TypeOK, TL!CallType
  <2> HIDE DEF S, anchor
  <2>3. following \in SUBSET Int /\ \A a, b \in following : a = b
    BY <1>0, <2>2, LeastRankIs
  <2> HIDE DEF following
  <2>4. rank \in Int
    BY <2>1, <2>2, <2>3, RankBetweenIs
  <2> HIDE DEF rank
  <2>5. TL!TypeOK'
    <3>1. /\ calls' \in [Calls -> TL!CallType]
          /\ \A d \in Calls : calls'[d].pc # "idle" => calls'[d].task \in Tasks
      BY <1>0, <2>1, <2>4 DEF TL!TypeOK, TL!CallType
    <3> QED  BY <1>0, <2>1, <3>1 DEF TL!TypeOK
  <2>6. MovesOn
    BY <2>1 DEF MovesOn
  <2> QED  BY <2>5, <2>6, HoldsOn
<1>5. CASE TL!WritePlace(c)
  <2> DEFINE t == calls[c].task
             rank == calls[c].rank
  <2>1. calls[c].pc = "write" /\ calls' = [calls EXCEPT ![c] = TL!NoCall] /\ sweep' = sweep
    BY <1>5 DEF TL!WritePlace
  <2>2. t \in Tasks /\ rank \in Int
    BY <1>0, <2>1 DEF TL!TypeOK, TL!CallType
  <2>3. \/ UNCHANGED <<listed, placed>>
        \/ /\ listed' = [listed EXCEPT ![t] = [status |-> "open", rank |-> rank,
                                               version |-> listed[t].version + 1]]
           /\ placed' = placed \union {t}
    BY <1>0, <1>5, <2>2 DEF TL!WritePlace, TL!TypeOK
  <2>4. /\ calls' \in [Calls -> TL!CallType]
        /\ \A d \in Calls : calls'[d].pc # "idle" => calls'[d].task \in Tasks
    <3>1. TL!NoCall \in TL!CallType /\ TL!NoCall.pc = "idle"
      BY DEF TL!NoCall, TL!CallType
    <3> QED  BY <1>0, <2>1, <3>1, CallsType
  <2> HIDE DEF t, rank
  <2>5. /\ listed' \in [Tasks -> [status : {"none", "open", "done"}, rank : Int, version : Nat]]
        /\ placed' \subseteq Tasks
    <3>1. CASE UNCHANGED <<listed, placed>>
      BY <1>0, <3>1 DEF TL!TypeOK
    <3>2. CASE /\ listed' = [listed EXCEPT ![t] = [status |-> "open", rank |-> rank,
                                                   version |-> listed[t].version + 1]]
               /\ placed' = placed \union {t}
      <4> DEFINE row == [status |-> "open", rank |-> rank, version |-> listed[t].version + 1]
      <4>1. row \in [status : {"none", "open", "done"}, rank : Int, version : Nat]
        BY <1>t, <2>2
      <4>2. listed' = [listed EXCEPT ![t] = row]
        BY <3>2
      <4> HIDE DEF row
      <4> QED  BY <1>0, <2>2, <3>2, <4>1, <4>2 DEF TL!TypeOK
    <3> QED  BY <2>3, <3>1, <3>2
  <2>6. TL!TypeOK'
    BY <1>0, <2>1, <2>4, <2>5 DEF TL!TypeOK
  <2>7. MovesOn
    BY <1>0, <2>1, <2>2, <2>3 DEF MovesOn, TL!TypeOK
  <2> QED  BY <2>6, <2>7, HoldsOn
<1> QED  BY <1>2, <1>3, <1>4, <1>5

LEMMA EditKeeps ==
    ASSUME TL!TaskListAssumption, TL!IInv, NEW t \in Tasks, TL!Edit(t)
    PROVE  TL!IInv'
<1>0. TL!TypeOK
  BY DEF TL!IInv
<1>1. PICK status \in {"open", "done"} :
          /\ t \in TL!Open
          /\ listed' = [listed EXCEPT ![t].status = status, ![t].version = @ + 1]
          /\ UNCHANGED <<calls, sweep, placed>>
  BY DEF TL!Edit
<1>2. listed' \in [Tasks -> [status : {"none", "open", "done"}, rank : Int, version : Nat]]
  BY <1>0, <1>1 DEF TL!TypeOK
<1>3. TL!TypeOK'
  BY <1>0, <1>1, <1>2 DEF TL!TypeOK
<1>4. MovesOn
  BY <1>0, <1>1 DEF MovesOn, TL!TypeOK
<1> QED  BY <1>3, <1>4, HoldsOn

LEMMA ReadLongKeeps ==
    ASSUME TL!TaskListAssumption, TL!IInv, TL!ReadLong PROVE TL!IInv'
<1>0. TL!TypeOK
  BY DEF TL!IInv
<1>1. PICK t \in TL!Long :
          /\ sweep' = [TL!NoSweep EXCEPT !.pc = "above", !.long = TL!Place(t)]
          /\ placed' = {} /\ UNCHANGED <<listed, calls>>
  BY DEF TL!ReadLong
<1>2. TL!Place(t) \in TL!PlaceType /\ TL!Place(t) \in [rank : Int, id : Nat]
  BY <1>0 DEF TL!Long, TL!Open, TL!TypeOK, TL!Place, TL!PlaceType, TL!TaskListAssumption
<1>3. TL!NoSweep \in TL!SweepType
  BY DEF TL!NoSweep, TL!SweepType
<1>4. sweep' \in TL!SweepType /\ sweep'.pc = "above" /\ sweep'.long = TL!Place(t)
  BY <1>1, <1>2, <1>3 DEF TL!SweepType
<1>5. TL!TypeOK'
  BY <1>0, <1>1, <1>2, <1>4 DEF TL!TypeOK, TL!PlaceType
<1> QED  BY <1>4, <1>5 DEF TL!IInv

\* The places, and those of a side of the long rank.
LEMMA PlacesAre ==
    ASSUME TL!TaskListAssumption, TL!IInv, sweep.pc # "idle",
           NEW S, \/ S = {p \in TL!Places : TL!Precedes(p, sweep.long)}
                  \/ S = {p \in TL!Places : TL!Precedes(sweep.long, p)}
    PROVE  /\ OneSide(S) /\ IsFiniteSet(S)
           /\ TL!Nearest(S) \in SUBSET S /\ S \in SUBSET TL!PlaceType
<1>0. TL!TypeOK
  BY DEF TL!IInv
<1>1. TL!Places \in SUBSET TL!PlaceType /\ TL!PlaceType \in SUBSET Spots /\ sweep.long \in Spots
  BY <1>0 DEF TL!Places, TL!Place, TL!Open, TL!PlaceType, Spots, TL!TypeOK, TL!TaskListAssumption
<1>2. IsFiniteSet(TL!Places)
  <2>1. IsFiniteSet(TL!Open)
    BY FS_Subset, ListCounts DEF TL!Open, TL!TaskListAssumption
  <2> DEFINE f == [t \in TL!Open |-> TL!Place(t)]
  <2>2. f \in Surjection(TL!Open, TL!Places)
    BY DEF Surjection, TL!Places
  <2> QED  BY <2>1, <2>2, FS_Surjection DEF ExistsSurjection
<1>3. S \in SUBSET TL!Places
  OBVIOUS
<1>4. IsFiniteSet(S)
  BY <1>2, <1>3, FS_Subset
<1>5. OneSide(S)
  BY <1>1, <1>3 DEF OneSide
<1> QED  BY <1>1, <1>3, <1>4, <1>5 DEF TL!Nearest

\* A read of a side that is made now holds all it should of those that stayed.
LEMMA ReadHolds ==
    ASSUME TL!TaskListAssumption, NEW S, OneSide(S), IsFiniteSet(S), NEW side \in SUBSET S
    PROVE  TL!SideHolds(side, TL!Nearest(S))
<1>1. IsFiniteSet(TL!Nearest(S))
  BY FS_Subset DEF TL!Nearest
<1>2. Reach \in Nat \ {0}
  BY DEF TL!TaskListAssumption
<1>3. \A p \in side \ TL!Nearest(S) :
          /\ TL!Nearest(S) \subseteq TL!Ahead(p, TL!Nearest(S))
          /\ \E q \in TL!Nearest(S) : Cardinality(TL!Ahead(q, TL!Nearest(S))) = Reach - 1
  BY <1>2, BeyondNearest
<1> QED  BY <1>1, <1>3, ListCounts DEF TL!SideHolds

LEMMA ReadAboveKeeps ==
    ASSUME TL!TaskListAssumption, TL!IInv, TL!ReadAbove PROVE TL!IInv'
<1> DEFINE S == {p \in TL!Places : TL!Precedes(p, sweep.long)}
<1>0. TL!TypeOK
  BY DEF TL!IInv
<1>1. /\ sweep.pc = "above"
      /\ sweep' = [sweep EXCEPT !.pc = "below", !.above = TL!Nearest(S)]
      /\ UNCHANGED <<listed, calls, placed>>
  BY DEF TL!ReadAbove
<1>2. /\ OneSide(S) /\ IsFiniteSet(S)
      /\ TL!Nearest(S) \in SUBSET S /\ S \in SUBSET TL!PlaceType
  BY <1>1, PlacesAre
<1>3. /\ sweep' \in TL!SweepType /\ sweep'.pc = "below"
      /\ sweep'.long = sweep.long /\ sweep'.above = TL!Nearest(S)
  BY <1>0, <1>1, <1>2 DEF TL!TypeOK, TL!SweepType
<1>4. TL!TypeOK'
  BY <1>0, <1>1, <1>3 DEF TL!TypeOK, TL!PlaceType
<1>5. TL!SideHolds({p \in TL!Stayed : TL!Precedes(p, sweep.long)}, TL!Nearest(S))
  <2>1. {p \in TL!Stayed : TL!Precedes(p, sweep.long)} \in SUBSET S
    BY DEF TL!Stayed, TL!Places
  <2> HIDE DEF S
  <2> QED  BY <1>2, <2>1, ReadHolds
<1>6. TL!Stayed' = TL!Stayed
  BY <1>1 DEF TL!Stayed, TL!Open, TL!Place
<1>7. \A p \in TL!Nearest(S) : TL!Precedes(p, sweep.long)
  BY <1>2
<1> HIDE DEF S
<1>8. TL!AboveHolds'
  <2>1. \A p, T : TL!Ahead(p, T)' = TL!Ahead(p, T)
    BY <1>3 DEF TL!Ahead, TL!Precedes
  <2> QED  BY <1>3, <1>5, <1>6, <1>7 DEF TL!AboveHolds, TL!SideHolds, TL!Ahead, TL!Precedes
<1> QED  BY <1>3, <1>4, <1>8 DEF TL!IInv

LEMMA ReadBelowKeeps ==
    ASSUME TL!TaskListAssumption, TL!IInv, TL!ReadBelow PROVE TL!IInv'
<1> DEFINE S == {p \in TL!Places : TL!Precedes(sweep.long, p)}
<1>0. TL!TypeOK
  BY DEF TL!IInv
<1>1. /\ sweep.pc = "below"
      /\ sweep' = [sweep EXCEPT !.pc = "rows", !.below = TL!Nearest(S)]
      /\ UNCHANGED <<listed, calls, placed>>
  BY DEF TL!ReadBelow
<1>2. /\ OneSide(S) /\ IsFiniteSet(S)
      /\ TL!Nearest(S) \in SUBSET S /\ S \in SUBSET TL!PlaceType
  BY <1>1, PlacesAre
<1>3. /\ sweep' \in TL!SweepType /\ sweep'.pc = "rows" /\ sweep'.above = sweep.above
      /\ sweep'.long = sweep.long /\ sweep'.below = TL!Nearest(S)
  BY <1>0, <1>1, <1>2 DEF TL!TypeOK, TL!SweepType
<1>4. TL!TypeOK'
  BY <1>0, <1>1, <1>3 DEF TL!TypeOK, TL!PlaceType
<1>5. TL!SideHolds({p \in TL!Stayed : TL!Precedes(sweep.long, p)}, TL!Nearest(S))
  <2>1. {p \in TL!Stayed : TL!Precedes(sweep.long, p)} \in SUBSET S
    BY DEF TL!Stayed, TL!Places
  <2> HIDE DEF S
  <2> QED  BY <1>2, <2>1, ReadHolds
<1>6. TL!Stayed' = TL!Stayed
  BY <1>1 DEF TL!Stayed, TL!Open, TL!Place
<1>7. \A p \in TL!Nearest(S) : TL!Precedes(sweep.long, p)
  BY <1>2
<1> HIDE DEF S
<1>8. TL!BelowHolds'
  BY <1>3, <1>5, <1>6, <1>7 DEF TL!BelowHolds, TL!SideHolds, TL!Ahead, TL!Precedes
<1>9. TL!AboveHolds'
  <2>1. TL!AboveHolds
    BY <1>1 DEF TL!IInv
  <2> QED  BY <1>3, <1>6, <2>1 DEF TL!AboveHolds, TL!SideHolds, TL!Ahead, TL!Precedes
<1> QED  BY <1>3, <1>4, <1>8, <1>9 DEF TL!IInv

LEMMA ReadRowsKeeps ==
    ASSUME TL!TaskListAssumption, TL!IInv, TL!ReadRows PROVE TL!IInv'
<1>0. /\ TL!TypeOK /\ sweep.pc = "rows" /\ TL!AboveHolds /\ TL!BelowHolds
      /\ TL!NoSweep \in TL!SweepType
  BY DEF TL!IInv, TL!ReadRows, TL!NoSweep, TL!SweepType
<1>1. UNCHANGED <<listed, calls, placed>>
  BY DEF TL!ReadRows
<1>2. CASE sweep' = TL!NoSweep
  <2>1. sweep'.pc = "idle"
    BY <1>2 DEF TL!NoSweep
  <2> QED  BY <1>0, <1>1, <1>2, <2>1 DEF TL!IInv, TL!TypeOK
<1> DEFINE versions == [t \in Tasks |-> IF \E p \in TL!Run : p.id = t
                                        THEN listed[t].version ELSE 0]
<1>3. CASE /\ TL!Fits(TL!EdgeRank(sweep.above), TL!EdgeRank(sweep.below), Cardinality(TL!Run))
           /\ \A p \in TL!Run : TL!Unmoved(p)
           /\ sweep' = [sweep EXCEPT !.pc = "write", !.versions = versions]
  <2>1. versions \in [Tasks -> Nat]
    BY <1>0 DEF TL!TypeOK
  <2>2. \A p \in TL!Run : p.id \in Tasks /\ versions[p.id] = listed[p.id].version
    BY <1>0, RunIs
  <2> HIDE DEF versions
  <2>3. /\ sweep' \in TL!SweepType /\ sweep'.pc = "write" /\ sweep'.long = sweep.long
        /\ sweep'.above = sweep.above /\ sweep'.below = sweep.below
        /\ sweep'.versions = versions
    BY <1>0, <1>3, <2>1 DEF TL!TypeOK, TL!SweepType
  <2>4. TL!TypeOK'
    BY <1>0, <1>1, <2>3 DEF TL!TypeOK, TL!PlaceType
  <2>5. TL!Stayed' = TL!Stayed
    BY <1>1 DEF TL!Stayed, TL!Open, TL!Place
  <2>6. TL!AboveHolds' /\ TL!BelowHolds'
    <3>1. TL!AboveHolds'
      BY <1>0, <2>3, <2>5 DEF TL!AboveHolds, TL!SideHolds, TL!Ahead, TL!Precedes
    <3>2. TL!BelowHolds'
      BY <1>0, <2>3, <2>5 DEF TL!BelowHolds, TL!SideHolds, TL!Ahead, TL!Precedes
    <3> QED  BY <3>1, <3>2
  <2>7. /\ TL!Run' = TL!Run
        /\ TL!EdgeRank(sweep.above)' = TL!EdgeRank(sweep.above)
        /\ TL!EdgeRank(sweep.below)' = TL!EdgeRank(sweep.below)
    BY <2>3 DEF TL!Run, TL!Inner, TL!EdgeRank, TL!Edge, TL!Bounds, TL!Ahead, TL!Precedes
  <2>8. \A p \in TL!Run : versions[p.id] <= listed[p.id].version
    BY <1>0, <2>2 DEF TL!TypeOK
  <2>9. TL!RowsHold'
    BY <1>1, <1>3, <2>3, <2>7, <2>8, ListCounts DEF TL!RowsHold, TL!Current, TL!Unmoved, TL!Fits
  <2> QED  BY <2>3, <2>4, <2>6, <2>9 DEF TL!IInv
<1> QED  BY <1>2, <1>3, ListCounts DEF TL!ReadRows

LEMMA WriteRunKeeps ==
    ASSUME TL!TaskListAssumption, TL!RanksAssumption, TL!IInv, TL!WriteRun PROVE TL!IInv'
<1>0. TL!TypeOK /\ sweep.pc = "write" /\ TL!RowsHold /\ TL!NoSweep \in TL!SweepType
  BY DEF TL!IInv, TL!WriteRun, TL!NoSweep, TL!SweepType
<1>1. /\ UNCHANGED <<calls, placed>> /\ sweep' = TL!NoSweep /\ sweep'.pc = "idle"
      /\ listed' = TL!Respaced \/ listed' = listed
  BY DEF TL!WriteRun, TL!NoSweep
<1>2. TL!Respaced \in [Tasks -> [status : {"none", "open", "done"}, rank : Int, version : Nat]]
  <2> DEFINE A == TL!EdgeRank(sweep.above)
             B == TL!EdgeRank(sweep.below)
             n == Cardinality(TL!Run)
  <2>1. /\ TL!Run \in SUBSET Spots /\ IsFiniteSet(TL!Run) /\ n \in Nat \ {0}
        /\ A \in SUBSET Int /\ B \in SUBSET Int
        /\ \A a, b \in A : a = b
        /\ \A a, b \in B : a = b
        /\ TL!Fits(A, B, n)
    BY <1>0, RunIs, ListCounts DEF TL!RowsHold
  <2>2. \A i \in 1..n : TL!Ranked[i] \in Int
    <3> HIDE DEF A, B, n
    <3>1. TL!Ranked = TL!Spread(A, B, n)
      BY ListCounts DEF TL!Ranked, A, B, n
    <3> QED  BY <2>1, <3>1, SpreadIs
  <2>3. \A p \in TL!Run : TL!Nth(p) \in 1..n
    BY <2>1, NthIs
  <2>4. \A p \in TL!Run : TL!Ranked[TL!Nth(p)] \in Int
    BY <2>2, <2>3
  <2>5. \A t \in Tasks : (\E p \in TL!Run : p.id = t) =>
                              TL!Ranked[TL!Nth(CHOOSE p \in TL!Run : p.id = t)] \in Int
    BY <2>4
  <2> QED  BY <1>0, <2>5 DEF TL!Respaced, TL!TypeOK
<1>3. TL!TypeOK'
  BY <1>0, <1>1, <1>2 DEF TL!TypeOK
<1> QED  BY <1>1, <1>3 DEF TL!IInv

-----------------------------------------------------------------------------

LEMMA StepHolds ==
    ASSUME TL!TaskListAssumption, TL!RanksAssumption, TL!IInv, [TL!Next]_(TL!vars) PROVE TL!IInv'
<1>1. CASE TL!Next
  BY <1>1, CallsKeep, EditKeeps, ReadLongKeeps, ReadAboveKeeps, ReadBelowKeeps,
     ReadRowsKeeps, WriteRunKeeps DEF TL!Next
<1>2. CASE UNCHANGED TL!vars
  <2>1. TL!TypeOK' /\ MovesOn
    BY <1>2 DEF TL!IInv, TL!TypeOK, MovesOn, TL!vars
  <2> QED  BY <2>1, HoldsOn
<1> QED  BY <1>1, <1>2

\* What a respace read of the list holds until it writes, whatever is edited,
\* finished and placed meanwhile: each side all of those that stayed or, as deep as
\* the read went, all but some beyond its last; and a row of the run is where it was
\* for as long as its version is the one read (respace_ranks, respace_run).
THEOREM TaskListInvariant ==
    ASSUME TL!TaskListAssumption, TL!RanksAssumption
    PROVE  TL!Spec => []TL!IInv
<1>1. TL!Init => TL!IInv
  BY InitHolds
<1>2. TL!IInv /\ [TL!Next]_(TL!vars) => TL!IInv'
  BY StepHolds
<1> QED  BY <1>1, <1>2, PTL DEF TL!Spec

\* A respace changes no order the list shows, whatever is edited, finished and placed
\* while it reads and writes: of those that stayed, the ones of its run ascend between
\* its two edges, and the ones it left out stand at the edges or beyond them
\* (respace_ranks, spread, update_tasks).
THEOREM RespaceKeepsTheOrder ==
    ASSUME TL!TaskListAssumption, TL!RanksAssumption
    PROVE  TL!Spec => [][TL!RespaceKeepsOrder]_(TL!vars)
<1>1. TL!IInv /\ [TL!Next]_(TL!vars) => [TL!RespaceKeepsOrder]_(TL!vars)
  BY RespaceKeeps
<1> QED  BY <1>1, TaskListInvariant, PTL DEF TL!Spec

-----------------------------------------------------------------------------
\* The outbox.

\* A power of two counts the subsets of a set.
LEMMA PowerOfTwo == ASSUME NEW n \in Nat PROVE 2^n \in Nat
<1>1. IsFiniteSet(1..n) /\ Cardinality(1..n) = n
  BY FS_Interval
<1>2. IsFiniteSet(SUBSET (1..n)) /\ Cardinality(SUBSET (1..n)) = 2^n
  BY <1>1, FS_SUBSET
<1> QED BY <1>2, FS_CardinalityType

RowType ==
    [state : {"unwritten", "kept", "purged"}, done : {0, 1}, failed : {0, 1},
     attempts : Nat, wait : Nat, grace : Nat]

HoldType == [holders : 0..MaxHolders, rows : SUBSET Rows]

\* What the variables hold, and the bounds.
LEMMA RelayShapes ==
    ASSUME OB!OutboxAssumption, OB!Shapes
    PROVE  /\ outbox \in [Rows -> RowType] /\ holds \in [Requests -> HoldType]
           /\ relays \in [OB!Relayers -> OB!TaskType]
           /\ sent \subseteq Rows \ WorkRows /\ stream \subseteq Rows \ WorkRows
           /\ posted \subseteq WorkRows /\ named \subseteq Rows /\ deaths \in 0..MaxDeaths
           /\ WorkRows \subseteq Rows /\ Rows \subseteq Nat
           /\ MaxHolders \in Nat /\ MaxDeaths \in Nat /\ Grace \in Nat
           /\ RequestOf \in [Rows -> Requests]
BY DEF OB!Shapes, RowType, HoldType, OB!OutboxAssumption

LEMMA BackoffIsNat ==
    ASSUME OB!OutboxAssumption, NEW n \in Nat
    PROVE  OB!Backoff(n) \in Nat
<1>1. PICK k \in Nat : k = 2^n
  BY PowerOfTwo
<1>2. Wait * k \in Nat /\ Cap \in Nat
  BY DEF OB!OutboxAssumption
<1> QED BY <1>1, <1>2 DEF OB!Backoff

LEMMA IdleIsTask ==
    ASSUME OB!OutboxAssumption
    PROVE  OB!Idle \in OB!TaskType /\ OB!Idle.pc = "idle"
BY DEF OB!OutboxAssumption, OB!Idle, OB!Task, OB!NoCopy, OB!TaskType

\* A task that begins to deliver has done nothing yet.
LEMMA DeliverIsTask ==
    ASSUME NEW cur \in SUBSET Rows, NEW todo \in SUBSET Rows, NEW copy \in [Rows -> Nat]
    PROVE  OB!Deliver(cur, todo, copy) \in OB!TaskType /\ OB!Deliver(cur, todo, copy).pc = "append"
BY DEF OB!Deliver, OB!Task, OB!TaskType

\* A raise leaves a task that will mark nothing.
LEMMA RaisedIsTask ==
    ASSUME OB!OutboxAssumption, OB!Shapes, NEW x \in OB!Relayers
    PROVE  OB!Raised(x) \in OB!TaskType /\ OB!Raised(x).pc \in {"idle", "next", "record"}
<1>1. relays[x] \in OB!TaskType
  BY RelayShapes
<1>2. CASE x \in Hands
  BY <1>2, IdleIsTask DEF OB!Raised
<1>3. CASE x \notin Hands /\ OB!Cardinality(relays[x].cur) > 1
  BY <1>1, <1>3 DEF OB!Raised, OB!Task, OB!TaskType
<1>4. CASE x \notin Hands /\ ~(OB!Cardinality(relays[x].cur) > 1)
  BY <1>1, <1>4 DEF OB!Raised, OB!TaskType
<1> QED BY <1>2, <1>3, <1>4

\* A step of the tasks, which only adds to the stream, the bus and the queue, where
\* every task that changes holds what it has done: the others still do, and so does
\* every row that is done.
LEMMA TasksMove ==
    ASSUME OB!IInv, relays' \in [OB!Relayers -> OB!TaskType],
           \A y \in OB!Relayers : relays'[y] = relays[y] \/ OB!TaskHolds(relays[y])',
           stream \subseteq stream', sent \subseteq sent', posted \subseteq posted'
    PROVE  OB!TasksHold'
<1>1. ASSUME NEW y \in OB!Relayers PROVE OB!TaskHolds(relays[y])'
  <2>1. CASE relays'[y] = relays[y]
    BY <2>1 DEF OB!IInv, OB!TasksHold, OB!TaskHolds
  <2> QED BY <2>1
<1> QED BY <1>1 DEF OB!TasksHold

LEMMA DoneStaysTold ==
    ASSUME OB!IInv, \A r \in Rows : outbox'[r].done = 1 => outbox[r].done = 1,
           stream \subseteq stream', sent \subseteq sent', posted \subseteq posted'
    PROVE  OB!DoneMeansTold'
BY DEF OB!IInv, OB!DoneMeansTold

\* A step of one task that leaves the rows and the holds.
LEMMA TaskMoves ==
    ASSUME OB!OutboxAssumption, OB!IInv, NEW x \in OB!Relayers, NEW t \in OB!TaskType,
           relays' = [relays EXCEPT ![x] = t], UNCHANGED <<outbox, holds>>,
           named' \subseteq Rows, deaths' \in 0..MaxDeaths,
           stream \subseteq stream', sent \subseteq sent', posted \subseteq posted',
           stream' \subseteq Rows \ WorkRows, sent' \subseteq Rows \ WorkRows,
           posted' \subseteq WorkRows,
           OB!TaskHolds(t)'
    PROVE  OB!IInv'
<1>1. relays' \in [OB!Relayers -> OB!TaskType] /\ relays'[x] = t
      /\ \A y \in OB!Relayers : y # x => relays'[y] = relays[y]
  BY RelayShapes DEF OB!IInv
<1>2. OB!TasksHold'
  <2>1. OB!TaskHolds(relays[x])'
    BY <1>1 DEF OB!TaskHolds
  <2> QED BY <1>1, <2>1, TasksMove
<1>3. OB!DoneMeansTold' /\ OB!HeldHasHolder'
  BY DoneStaysTold DEF OB!IInv, OB!HeldHasHolder
<1>4. OB!Shapes'
  BY <1>1 DEF OB!IInv, OB!Shapes
<1> QED BY <1>2, <1>3, <1>4 DEF OB!IInv

\* A step of one task that changes rows too, which stay done or become it told.
LEMMA RowsMove ==
    ASSUME OB!OutboxAssumption, OB!IInv, NEW x \in OB!Relayers, NEW t \in OB!TaskType,
           relays' = [relays EXCEPT ![x] = t], UNCHANGED <<holds, stream, sent, posted, named>>,
           outbox' \in [Rows -> RowType], deaths' \in 0..MaxDeaths,
           \A r \in Rows : outbox'[r].done = 1 =>
              \/ outbox[r].done = 1
              \/ IF r \in WorkRows THEN r \in posted ELSE r \in sent /\ r \in stream,
           t.pc \notin {"publish", "enqueue", "mark"}
    PROVE  OB!IInv'
<1>1. relays' \in [OB!Relayers -> OB!TaskType] /\ relays'[x] = t
      /\ \A y \in OB!Relayers : y # x => relays'[y] = relays[y]
  BY RelayShapes DEF OB!IInv
<1>2. OB!TaskHolds(relays[x])'
  BY <1>1 DEF OB!TaskHolds
<1>3. OB!TasksHold'
  BY <1>1, <1>2, TasksMove
<1>4. OB!DoneMeansTold' /\ OB!HeldHasHolder'
  BY DEF OB!IInv, OB!DoneMeansTold, OB!HeldHasHolder
<1>5. OB!Shapes'
  BY <1>1 DEF OB!IInv, OB!Shapes, RowType
<1> QED BY <1>3, <1>4, <1>5 DEF OB!IInv

LEMMA OutboxInit == ASSUME OB!OutboxAssumption, OB!Init PROVE OB!IInv
<1>1. outbox \in [Rows -> RowType] /\ \A r \in Rows : outbox[r].done = 0
  BY DEF OB!Init, OB!Row, RowType
<1>2. relays \in [OB!Relayers -> OB!TaskType] /\ \A x \in OB!Relayers : relays[x].pc = "idle"
  BY IdleIsTask DEF OB!Init
<1>3. holds \in [Requests -> HoldType] /\ \A q \in Requests : holds[q].rows = {}
  BY DEF OB!Init, OB!NoHold, HoldType, OB!OutboxAssumption
<1>4. OB!Shapes
  BY <1>1, <1>2, <1>3 DEF OB!Init, OB!Shapes, RowType, HoldType, OB!OutboxAssumption
<1>5. OB!TasksHold
  BY <1>2 DEF OB!TasksHold, OB!TaskHolds
<1> QED BY <1>1, <1>3, <1>4, <1>5 DEF OB!IInv, OB!DoneMeansTold, OB!HeldHasHolder

\* Rows and holds that change beside a task that begins to deliver, or none.
LEMMA RequestMoves ==
    ASSUME OB!OutboxAssumption, OB!IInv, relays' \in [OB!Relayers -> OB!TaskType],
           \A y \in OB!Relayers : relays'[y] = relays[y] \/ relays'[y].pc \in {"idle", "append"},
           UNCHANGED <<stream, sent, posted, named>>, deaths' \in 0..MaxDeaths,
           outbox' \in [Rows -> RowType], \A r \in Rows : outbox'[r].done = 1 => outbox[r].done = 1,
           holds' \in [Requests -> HoldType], OB!HeldHasHolder'
    PROVE  OB!IInv'
<1>1. ASSUME NEW y \in OB!Relayers PROVE relays'[y] = relays[y] \/ OB!TaskHolds(relays[y])'
  BY DEF OB!TaskHolds
<1>2. OB!TasksHold'
  BY <1>1, TasksMove
<1>3. OB!DoneMeansTold'
  BY DoneStaysTold
<1>4. OB!Shapes'
  BY DEF OB!IInv, OB!Shapes, RowType, HoldType
<1> QED BY <1>2, <1>3, <1>4 DEF OB!IInv

\* One hold changes, and still has a holder for its rows.
LEMMA HoldMoves ==
    ASSUME OB!OutboxAssumption, OB!IInv, NEW q \in Requests, NEW h \in HoldType,
           holds' = [holds EXCEPT ![q] = h], h.rows # {} => h.holders > 0
    PROVE  holds' \in [Requests -> HoldType] /\ OB!HeldHasHolder'
<1>1. /\ holds' \in [Requests -> HoldType] /\ holds'[q] = h
      /\ \A p \in Requests : p # q => holds'[p] = holds[p]
  BY RelayShapes DEF OB!IInv
<1> QED BY <1>1 DEF OB!IInv, OB!HeldHasHolder

LEMMA HoldIs ==
    ASSUME OB!OutboxAssumption, OB!IInv, NEW q \in Requests
    PROVE  /\ holds[q].holders \in 0..MaxHolders /\ holds[q].rows \subseteq Rows
           /\ holds[q] \in HoldType /\ MaxHolders \in Nat
BY RelayShapes DEF OB!IInv, HoldType

LEMMA HoldStep ==
    ASSUME OB!OutboxAssumption, OB!IInv, NEW q \in Requests, OB!Hold(q)
    PROVE  OB!IInv'
<1> DEFINE h == [holds[q] EXCEPT !.holders = @ + 1]
<1>1. h \in HoldType /\ h.holders > 0
  BY HoldIs DEF OB!Hold, HoldType
<1>2. holds' = [holds EXCEPT ![q] = h]
  BY DEF OB!Hold
<1> HIDE DEF h
<1>3. holds' \in [Requests -> HoldType] /\ OB!HeldHasHolder'
  BY <1>1, <1>2, HoldMoves
<1>4. UNCHANGED <<outbox, relays, sent, stream, posted, named, deaths>>
  BY DEF OB!Hold
<1> QED BY <1>3, <1>4, RequestMoves, RelayShapes DEF OB!IInv

LEMMA ReleaseStep ==
    ASSUME OB!OutboxAssumption, OB!IInv, NEW q \in Requests, OB!Release(q)
    PROVE  OB!IInv'
<1> DEFINE h == [holders |-> holds[q].holders - 1, rows |-> {}]
<1>1. h \in HoldType /\ h.rows = {}
  BY HoldIs DEF OB!Release, HoldType
<1>2. holds' = [holds EXCEPT ![q] = h]
  BY DEF OB!Release
<1> HIDE DEF h
<1>3. holds' \in [Requests -> HoldType] /\ OB!HeldHasHolder'
  BY <1>1, <1>2, HoldMoves
<1>4. /\ relays' \in [OB!Relayers -> OB!TaskType]
      /\ \A y \in OB!Relayers : relays'[y] = relays[y] \/ relays'[y].pc \in {"idle", "append"}
  <2>1. CASE UNCHANGED relays
    BY <2>1, RelayShapes DEF OB!IInv
  <2>2. ASSUME NEW h2 \in Hands,
               relays' = [relays EXCEPT ![h2] = OB!Deliver(holds[q].rows, {}, OB!NoCopy)]
        PROVE  <1>4
    <3>1. OB!NoCopy \in [Rows -> Nat] /\ h2 \in OB!Relayers
      BY DEF OB!NoCopy, OB!Relayers
    <3>2. /\ OB!Deliver(holds[q].rows, {}, OB!NoCopy) \in OB!TaskType
          /\ OB!Deliver(holds[q].rows, {}, OB!NoCopy).pc = "append"
      BY <3>1, HoldIs, DeliverIsTask
    <3> QED BY <2>2, <3>1, <3>2, RelayShapes DEF OB!IInv
  <2> QED BY <2>1, <2>2 DEF OB!Release
<1>5. UNCHANGED <<outbox, sent, stream, posted, named, deaths>>
  BY DEF OB!Release
<1> QED BY <1>3, <1>4, <1>5, RequestMoves, RelayShapes DEF OB!IInv

LEMMA AbandonStep ==
    ASSUME OB!OutboxAssumption, OB!IInv, NEW q \in Requests, OB!Abandon(q)
    PROVE  OB!IInv'
<1> DEFINE h == OB!AbandonedHold(holds[q])
<1>1. h \in HoldType /\ (h.rows # {} => h.holders > 0)
  BY HoldIs DEF OB!AbandonedHold, OB!NoHold, HoldType
<1>2. holds' = [holds EXCEPT ![q] = h]
  BY DEF OB!Abandon
<1> HIDE DEF h
<1>3. holds' \in [Requests -> HoldType] /\ OB!HeldHasHolder'
  BY <1>1, <1>2, HoldMoves
<1>4. UNCHANGED <<outbox, relays, sent, stream, posted, named, deaths>>
  BY DEF OB!Abandon
<1> QED BY <1>3, <1>4, RequestMoves, RelayShapes DEF OB!IInv

\* A write's row is new, so it is not done; who relays it begins to.
LEMMA WriteStep ==
    ASSUME OB!OutboxAssumption, OB!IInv, NEW r \in Rows, OB!Write(r)
    PROVE  OB!IInv'
<1> DEFINE q == RequestOf[r]
           row == OB!Row("kept", 0, 0, 0, 0, Grace)
<1>1. q \in Requests /\ row \in RowType /\ row.done = 0 /\ deaths' \in 0..MaxDeaths
  <2>1. q \in Requests
    BY RelayShapes DEF OB!IInv
  <2>2. row \in RowType /\ row.done = 0
    BY RelayShapes DEF OB!IInv, OB!Row, RowType
  <2>3. deaths' = deaths \/ OB!Fault
    BY DEF OB!Write
  <2>4. deaths' \in 0..MaxDeaths
    BY <2>3, RelayShapes DEF OB!IInv, OB!Fault
  <2> QED BY <2>1, <2>2, <2>4
<1>2. outbox' = [outbox EXCEPT ![r] = row] /\ UNCHANGED <<sent, stream, posted, named>>
  BY DEF OB!Write
<1> HIDE DEF row
<1>3. outbox' \in [Rows -> RowType] /\ \A o \in Rows : outbox'[o].done = 1 => outbox[o].done = 1
  BY <1>1, <1>2, RelayShapes DEF OB!IInv
<1>4. CASE UNCHANGED relays /\ holds' = holds
  BY <1>1, <1>2, <1>3, <1>4, RequestMoves, RelayShapes DEF OB!IInv, OB!HeldHasHolder
<1>5. CASE holds[q].holders > 0 /\ holds' = [holds EXCEPT ![q].rows = @ \cup {r}] /\ UNCHANGED relays
  <2> DEFINE h == [holds[q] EXCEPT !.rows = @ \cup {r}]
  <2>1. h \in HoldType /\ h.holders > 0
    BY <1>1, <1>5, HoldIs DEF HoldType
  <2>2. holds' = [holds EXCEPT ![q] = h]
    BY <1>5
  <2> HIDE DEF h, q
  <2>3. holds' \in [Requests -> HoldType] /\ OB!HeldHasHolder'
    BY <1>1, <2>1, <2>2, HoldMoves
  <2> QED BY <1>1, <1>2, <1>3, <1>5, <2>3, RequestMoves, RelayShapes DEF OB!IInv
<1>6. ASSUME NEW h \in Hands, holds' = holds,
             relays' = [relays EXCEPT ![h] = OB!Deliver({r}, {}, OB!NoCopy)]
      PROVE  OB!IInv'
  <2>1. OB!NoCopy \in [Rows -> Nat] /\ h \in OB!Relayers /\ {r} \in SUBSET Rows
    BY DEF OB!NoCopy, OB!Relayers
  <2>2. OB!Deliver({r}, {}, OB!NoCopy) \in OB!TaskType /\ OB!Deliver({r}, {}, OB!NoCopy).pc = "append"
    BY <2>1, DeliverIsTask
  <2>3. /\ relays' \in [OB!Relayers -> OB!TaskType]
        /\ \A y \in OB!Relayers : relays'[y] = relays[y] \/ relays'[y].pc \in {"idle", "append"}
    BY <1>6, <2>1, <2>2, RelayShapes DEF OB!IInv
  <2> QED BY <1>1, <1>2, <1>3, <1>6, <2>3, RequestMoves, RelayShapes DEF OB!IInv,
                                                                         OB!HeldHasHolder
<1> QED BY <1>4, <1>5, <1>6 DEF OB!Write

LEMMA ApiDiesStep ==
    ASSUME OB!OutboxAssumption, OB!IInv, OB!ApiDies
    PROVE  OB!IInv'
<1>1. /\ relays' = [x \in OB!Relayers |-> IF x \in Hands THEN OB!Idle ELSE relays[x]]
      /\ holds' = [q \in Requests |-> OB!NoHold]
      /\ UNCHANGED <<outbox, sent, stream, posted, named>>
      /\ deaths' \in 0..MaxDeaths
  BY RelayShapes DEF OB!ApiDies, OB!Fault, OB!IInv
<1>2. /\ relays' \in [OB!Relayers -> OB!TaskType]
      /\ \A y \in OB!Relayers : relays'[y] = relays[y] \/ relays'[y].pc \in {"idle", "append"}
  BY <1>1, IdleIsTask, RelayShapes DEF OB!IInv
<1>3. holds' \in [Requests -> HoldType] /\ OB!HeldHasHolder'
  <2>1. OB!NoHold \in HoldType /\ OB!NoHold.rows = {}
    BY RelayShapes DEF OB!IInv, OB!NoHold, HoldType
  <2> QED BY <1>1, <2>1 DEF OB!HeldHasHolder
<1> QED BY <1>1, <1>2, <1>3, RequestMoves, RelayShapes DEF OB!IInv

LEMMA DeliverAppendStep ==
    ASSUME OB!OutboxAssumption, OB!IInv, NEW x \in OB!Relayers, OB!Append(x)
    PROVE  OB!IInv'
<1>1. relays[x] \in OB!TaskType /\ relays[x].cur \subseteq Rows /\ relays[x].pc = "append"
  BY RelayShapes DEF OB!IInv, OB!TaskType, OB!Append
<1>2. PICK t \in OB!TaskType : /\ t = [relays[x] EXCEPT !.pc = "publish"]
                              /\ t.pc = "publish" /\ t.cur = relays[x].cur
  <2>1. [relays[x] EXCEPT !.pc = "publish"] \in OB!TaskType
    BY <1>1 DEF OB!TaskType
  <2> QED BY <1>1, <2>1 DEF OB!TaskType
<1>3. /\ UNCHANGED <<outbox, holds, sent, posted, named, deaths>>
      /\ stream \subseteq stream' /\ stream' \subseteq Rows \ WorkRows
  BY <1>1, RelayShapes DEF OB!Append, OB!IInv
<1>4. CASE relays' = [relays EXCEPT ![x] = t] /\ stream' = stream \cup (relays[x].cur \ WorkRows)
  <2>1. OB!TaskHolds(t)'
    BY <1>2, <1>4 DEF OB!TaskHolds
  <2> QED BY <1>2, <1>3, <1>4, <2>1, TaskMoves, RelayShapes DEF OB!IInv
<1>5. CASE relays' = [relays EXCEPT ![x] = OB!Raised(x)]
  <2>1. PICK r \in OB!TaskType : r = OB!Raised(x) /\ r.pc \in {"idle", "next", "record"}
    BY RaisedIsTask DEF OB!IInv
  <2>2. OB!TaskHolds(r)'
    BY <2>1 DEF OB!TaskHolds
  <2>3. relays' = [relays EXCEPT ![x] = r]
    BY <1>5, <2>1
  <2> QED BY <1>3, <2>2, <2>3, TaskMoves, RelayShapes DEF OB!IInv
<1> QED BY <1>2, <1>4, <1>5 DEF OB!Append

LEMMA PublishStep ==
    ASSUME OB!OutboxAssumption, OB!IInv, NEW x \in OB!Relayers, OB!Publish(x)
    PROVE  OB!IInv'
<1>1. PICK dropped \in SUBSET (relays[x].cur \ WorkRows) :
         /\ sent' = sent \cup (relays[x].cur \ (WorkRows \cup dropped))
         /\ relays' = [relays EXCEPT ![x] = [@ EXCEPT !.pc = "enqueue", !.unpublished = dropped]]
  BY DEF OB!Publish
<1>2. /\ relays[x] \in OB!TaskType /\ relays[x].cur \subseteq Rows /\ relays[x].pc = "publish"
      /\ OB!TaskHolds(relays[x]) /\ UNCHANGED <<outbox, holds, stream, posted, named, deaths>>
  BY RelayShapes DEF OB!IInv, OB!TaskType, OB!Publish, OB!TasksHold
<1>3. PICK t \in OB!TaskType :
         /\ t = [relays[x] EXCEPT !.pc = "enqueue", !.unpublished = dropped]
         /\ t.pc = "enqueue" /\ t.cur = relays[x].cur /\ t.unpublished = dropped
  <2>1. [relays[x] EXCEPT !.pc = "enqueue", !.unpublished = dropped] \in OB!TaskType
    BY <1>2 DEF OB!TaskType
  <2> QED BY <1>2, <2>1 DEF OB!TaskType
<1>4. relays' = [relays EXCEPT ![x] = t]
  BY <1>1, <1>3
<1>5. sent \subseteq sent' /\ sent' \subseteq Rows \ WorkRows
  BY <1>1, <1>2, RelayShapes DEF OB!IInv
<1>6. OB!TaskHolds(t)'
  BY <1>1, <1>2, <1>3 DEF OB!TaskHolds
<1> QED BY <1>2, <1>3, <1>4, <1>5, <1>6, TaskMoves, RelayShapes DEF OB!IInv

LEMMA EnqueueStep ==
    ASSUME OB!OutboxAssumption, OB!IInv, NEW x \in OB!Relayers, OB!Enqueue(x)
    PROVE  OB!IInv'
<1> DEFINE work == relays[x].cur \cap WorkRows
<1>1. /\ relays[x] \in OB!TaskType /\ relays[x].cur \subseteq Rows /\ relays[x].pc = "enqueue"
      /\ OB!TaskHolds(relays[x]) /\ UNCHANGED <<outbox, holds, sent, stream, named, deaths>>
  BY RelayShapes DEF OB!IInv, OB!TaskType, OB!Enqueue, OB!TasksHold
<1>2. PICK t \in OB!TaskType :
         /\ t = [relays[x] EXCEPT !.pc = "mark"]
         /\ t.pc = "mark" /\ t.cur = relays[x].cur
         /\ t.unpublished = relays[x].unpublished
  <2>1. [relays[x] EXCEPT !.pc = "mark"] \in OB!TaskType
    BY <1>1 DEF OB!TaskType
  <2> QED BY <1>1, <2>1 DEF OB!TaskType
<1>3. posted \subseteq posted' /\ posted' \subseteq WorkRows
  BY RelayShapes DEF OB!Enqueue, OB!IInv
<1>4. CASE relays' = [relays EXCEPT ![x] = t] /\ posted' = posted \cup work
  <2>1. OB!TaskHolds(t)'
    BY <1>1, <1>2, <1>4 DEF OB!TaskHolds
  <2> QED BY <1>1, <1>2, <1>3, <1>4, <2>1, TaskMoves, RelayShapes DEF OB!IInv
<1>5. CASE relays' = [relays EXCEPT ![x] = OB!Raised(x)]
  <2>1. PICK r \in OB!TaskType : r = OB!Raised(x) /\ r.pc \in {"idle", "next", "record"}
    BY RaisedIsTask DEF OB!IInv
  <2>2. OB!TaskHolds(r)'
    BY <2>1 DEF OB!TaskHolds
  <2>3. relays' = [relays EXCEPT ![x] = r]
    BY <1>5, <2>1
  <2> QED BY <1>1, <1>3, <2>2, <2>3, TaskMoves, RelayShapes DEF OB!IInv
<1> QED BY <1>2, <1>4, <1>5 DEF OB!Enqueue

\* What a delivery marks is what it delivered, and every other row is as it was.
LEMMA MarkedIs ==
    ASSUME OB!OutboxAssumption, OB!IInv, NEW ids \in SUBSET Rows
    PROVE  /\ OB!Marked(ids) \in [Rows -> RowType]
           /\ \A r \in Rows : OB!Marked(ids)[r].done = 1 => outbox[r].done = 1 \/ r \in ids
<1>1. ASSUME NEW r \in Rows
      PROVE  OB!Marked(ids)[r] \in RowType /\ (OB!Marked(ids)[r].done = 1 => outbox[r].done = 1 \/ r \in ids)
  <2>1. outbox[r] \in RowType
    BY RelayShapes DEF OB!IInv
  <2> QED BY <2>1 DEF OB!Marked, RowType
<1> QED BY <1>1 DEF OB!Marked

LEMMA MarkDoneStep ==
    ASSUME OB!OutboxAssumption, OB!IInv, NEW x \in OB!Relayers, OB!MarkDone(x)
    PROVE  OB!IInv'
<1> DEFINE ids == OB!Delivered(relays[x])
           t == IF x \in Hands THEN OB!Idle
                ELSE [relays[x] EXCEPT !.pc = "record", !.cur = {}, !.unpublished = {},
                                       !.bad = relays[x].unpublished]
<1>1. /\ relays[x] \in OB!TaskType /\ relays[x].cur \subseteq Rows /\ relays[x].pc = "mark"
      /\ OB!TaskHolds(relays[x]) /\ UNCHANGED <<holds, sent, stream, posted, named, deaths>>
      /\ deaths \in 0..MaxDeaths
  BY RelayShapes DEF OB!IInv, OB!TaskType, OB!MarkDone, OB!TasksHold
<1>2. ids \in SUBSET Rows
  BY <1>1 DEF OB!Delivered
<1>3. \A r \in ids : IF r \in WorkRows THEN r \in posted ELSE r \in sent /\ r \in stream
  BY <1>1 DEF OB!Delivered, OB!TaskHolds
<1>4. outbox' = OB!Marked(ids) \/ outbox' = outbox
  BY DEF OB!MarkDone
<1> HIDE DEF ids
<1>5. /\ outbox' \in [Rows -> RowType]
      /\ \A r \in Rows : outbox'[r].done = 1 =>
            \/ outbox[r].done = 1
            \/ IF r \in WorkRows THEN r \in posted ELSE r \in sent /\ r \in stream
  BY <1>2, <1>3, <1>4, MarkedIs, RelayShapes DEF OB!IInv
<1>6. CASE relays' = [relays EXCEPT ![x] = t]
  <2>1. t \in OB!TaskType /\ t.pc \notin {"publish", "enqueue", "mark"}
    BY <1>1, IdleIsTask DEF OB!TaskType
  <2> HIDE DEF t
  <2> QED BY <1>1, <1>5, <1>6, <2>1, RowsMove
<1>7. CASE relays' = [relays EXCEPT ![x] = OB!Raised(x)]
  <2>1. OB!Raised(x) \in OB!TaskType /\ OB!Raised(x).pc \notin {"publish", "enqueue", "mark"}
    BY RaisedIsTask DEF OB!IInv
  <2> QED BY <1>1, <1>5, <1>7, <2>1, RowsMove
<1> QED BY <1>6, <1>7 DEF OB!MarkDone

\* The batch a sweep claims, one attempt dearer; none of its rows is done.
LEMMA ClaimStep ==
    ASSUME OB!OutboxAssumption, OB!IInv, NEW s \in OB!Relayers, OB!Claim(s)
    PROVE  OB!IInv'
<1>1. PICK batch \in SUBSET Rows :
         /\ outbox' = [r \in Rows |->
               IF r \in batch THEN [outbox[r] EXCEPT !.attempts = @ + 1, !.wait = OB!Backoff(outbox[r].attempts)]
               ELSE outbox[r]]
         /\ relays' = [relays EXCEPT ![s] =
               OB!Deliver(batch, {}, [r \in Rows |-> IF r \in batch THEN outbox[r].attempts + 1 ELSE 0])]
         /\ UNCHANGED <<holds, sent, stream, posted, named, deaths>>
  <2> DEFINE due == {r \in Rows : OB!Due(r)}
             batch == {r \in due : OB!Cardinality({d \in due : d < r}) < Limit}
  <2>1. batch \in SUBSET Rows
    OBVIOUS
  <2> QED BY <2>1 DEF OB!Claim
<1> DEFINE copy == [r \in Rows |-> IF r \in batch THEN outbox[r].attempts + 1 ELSE 0]
<1>2. \A r \in Rows : outbox[r] \in RowType /\ outbox[r].attempts \in Nat
  BY RelayShapes DEF OB!IInv, RowType
<1>3. copy \in [Rows -> Nat]
  BY <1>2
<1> HIDE DEF copy
<1>4. OB!Deliver(batch, {}, copy) \in OB!TaskType /\ OB!Deliver(batch, {}, copy).pc = "append"
  BY <1>3, DeliverIsTask
<1>5. ASSUME NEW n \in Nat PROVE OB!Backoff(n) \in Nat
  BY BackoffIsNat
<1>6. outbox' \in [Rows -> RowType] /\ \A r \in Rows : outbox'[r].done = outbox[r].done
  <2>1. ASSUME NEW r \in Rows PROVE outbox'[r] \in RowType /\ outbox'[r].done = outbox[r].done
    <3>1. PICK d \in Nat : d = OB!Backoff(outbox[r].attempts)
      BY <1>2, <1>5
    <3>2. PICK n \in Nat : n = outbox[r].attempts + 1
      BY <1>2
    <3>3. outbox'[r] = IF r \in batch THEN [outbox[r] EXCEPT !.attempts = n, !.wait = d] ELSE outbox[r]
      BY <1>1, <3>1, <3>2
    <3> QED BY <1>2, <3>3 DEF RowType
  <2> QED BY <1>1, <2>1
<1>7. relays' = [relays EXCEPT ![s] = OB!Deliver(batch, {}, copy)]
  BY <1>1 DEF copy
<1> QED BY <1>1, <1>4, <1>6, <1>7, RowsMove, RelayShapes DEF OB!IInv

LEMMA NextRowStep ==
    ASSUME OB!OutboxAssumption, OB!IInv, NEW s \in OB!Relayers, OB!NextRow(s)
    PROVE  OB!IInv'
<1>1. relays[s] \in OB!TaskType /\ UNCHANGED <<outbox, holds, sent, stream, posted, named, deaths>>
  BY RelayShapes DEF OB!IInv, OB!NextRow
<1>2. CASE relays' = [relays EXCEPT ![s] = OB!Idle]
  BY <1>1, <1>2, IdleIsTask, RowsMove, RelayShapes DEF OB!IInv
<1>3. ASSUME NEW r \in relays[s].todo,
             relays' = [relays EXCEPT ![s] = OB!Deliver({r}, relays[s].todo \ {r}, relays[s].copy)]
      PROVE  OB!IInv'
  <2>1. /\ {r} \in SUBSET Rows /\ relays[s].todo \ {r} \in SUBSET Rows
        /\ relays[s].copy \in [Rows -> Nat]
    BY <1>1 DEF OB!TaskType
  <2>2. PICK t \in OB!TaskType : /\ t = OB!Deliver({r}, relays[s].todo \ {r}, relays[s].copy)
                                /\ t.pc = "append"
    BY <2>1, DeliverIsTask
  <2>3. relays' = [relays EXCEPT ![s] = t]
    BY <1>3, <2>2
  <2> QED BY <1>1, <2>2, <2>3, RowsMove, RelayShapes DEF OB!IInv
<1> QED BY <1>2, <1>3 DEF OB!NextRow

LEMMA RecordFailureStep ==
    ASSUME OB!OutboxAssumption, OB!IInv, NEW s \in OB!Relayers, OB!RecordFailure(s)
    PROVE  OB!IInv'
<1>1. /\ relays[s] \in OB!TaskType /\ relays[s].pc = "record"
      /\ UNCHANGED <<holds, sent, stream, posted, named, deaths>>
  BY RelayShapes DEF OB!IInv, OB!RecordFailure
<1>2. CASE relays' = [relays EXCEPT ![s].pc = "next"] /\ UNCHANGED outbox
  <2>1. PICK t \in OB!TaskType : t = [relays[s] EXCEPT !.pc = "next"] /\ t.pc = "next"
    <3>1. [relays[s] EXCEPT !.pc = "next"] \in OB!TaskType
      BY <1>1 DEF OB!TaskType
    <3> QED BY <1>1, <3>1 DEF OB!TaskType
  <2>2. relays' = [relays EXCEPT ![s] = t]
    BY <1>2, <2>1
  <2> QED BY <1>1, <1>2, <2>1, <2>2, RowsMove, RelayShapes DEF OB!IInv
<1>3. ASSUME NEW r \in relays[s].bad,
             outbox' = IF outbox[r].state = "kept" /\ outbox[r].done = 0
                       THEN [outbox EXCEPT ![r].failed = IF OB!Spent(relays[s].copy[r]) THEN 1 ELSE 0]
                       ELSE outbox,
             relays' = [relays EXCEPT ![s] =
                   IF OB!Spent(relays[s].copy[r])
                   THEN [relays[s] EXCEPT !.bad = @ \ {r}, !.pc = "name", !.dead = {r}]
                   ELSE [relays[s] EXCEPT !.bad = @ \ {r}]]
      PROVE  OB!IInv'
  <2>1. r \in Rows
    BY <1>1 DEF OB!TaskType
  <2>2. outbox' \in [Rows -> RowType] /\ \A o \in Rows : outbox'[o].done = outbox[o].done
    BY <1>3, <2>1, RelayShapes DEF OB!IInv, RowType
  <2>3. PICK t \in OB!TaskType : /\ relays' = [relays EXCEPT ![s] = t]
                                /\ t.pc \in {"name", "record"}
    <3>1. CASE OB!Spent(relays[s].copy[r])
      <4>1. [relays[s] EXCEPT !.bad = @ \ {r}, !.pc = "name", !.dead = {r}] \in OB!TaskType
        BY <1>1, <2>1 DEF OB!TaskType
      <4> QED BY <1>1, <1>3, <3>1, <4>1 DEF OB!TaskType
    <3>2. CASE ~OB!Spent(relays[s].copy[r])
      <4>1. [relays[s] EXCEPT !.bad = @ \ {r}] \in OB!TaskType
        BY <1>1, <2>1 DEF OB!TaskType
      <4> QED BY <1>1, <1>3, <3>2, <4>1 DEF OB!TaskType
    <3> QED BY <3>1, <3>2
  <2> QED BY <1>1, <2>2, <2>3, RowsMove, RelayShapes DEF OB!IInv
<1> QED BY <1>2, <1>3 DEF OB!RecordFailure

LEMMA NameDeadLetterStep ==
    ASSUME OB!OutboxAssumption, OB!IInv, NEW s \in OB!Relayers, OB!NameDeadLetter(s)
    PROVE  OB!IInv'
<1>1. /\ relays[s] \in OB!TaskType /\ relays[s].dead \subseteq Rows
      /\ UNCHANGED <<outbox, holds, sent, stream, posted, deaths>>
      /\ named' \in {named, named \cup relays[s].dead}
      /\ relays' = [relays EXCEPT ![s] = [relays[s] EXCEPT !.pc = "record", !.dead = {}]]
  BY RelayShapes DEF OB!IInv, OB!NameDeadLetter, OB!TaskType
<1>2. PICK t \in OB!TaskType : /\ t = [relays[s] EXCEPT !.pc = "record", !.dead = {}]
                              /\ t.pc = "record"
  <2>1. [relays[s] EXCEPT !.pc = "record", !.dead = {}] \in OB!TaskType
    BY <1>1 DEF OB!TaskType
  <2> QED BY <1>1, <2>1 DEF OB!TaskType
<1>3. OB!TaskHolds(t)'
  BY <1>2 DEF OB!TaskHolds
<1>4. named' \subseteq Rows /\ relays' = [relays EXCEPT ![s] = t]
  BY <1>1, <1>2, RelayShapes DEF OB!IInv
<1> QED BY <1>1, <1>3, <1>4, TaskMoves, RelayShapes DEF OB!IInv

LEMMA SweepDiesStep ==
    ASSUME OB!OutboxAssumption, OB!IInv, NEW s \in OB!Relayers, OB!SweepDies(s)
    PROVE  OB!IInv'
<1>1. /\ relays' = [relays EXCEPT ![s] = OB!Idle] /\ deaths' \in 0..MaxDeaths
      /\ UNCHANGED <<outbox, holds, sent, stream, posted, named>>
  BY RelayShapes DEF OB!SweepDies, OB!Fault, OB!IInv
<1> QED BY <1>1, IdleIsTask, RowsMove, RelayShapes DEF OB!IInv

\* The table alone changes, and no row becomes done.
LEMMA TableMoves ==
    ASSUME OB!OutboxAssumption, OB!IInv,
           UNCHANGED <<holds, relays, sent, stream, posted, named, deaths>>,
           outbox' \in [Rows -> RowType], \A r \in Rows : outbox'[r].done = 1 => outbox[r].done = 1
    PROVE  OB!IInv'
BY RequestMoves, RelayShapes DEF OB!IInv, OB!HeldHasHolder

LEMMA PurgeRowStep ==
    ASSUME OB!OutboxAssumption, OB!IInv, NEW r \in Rows, OB!Purge(r)
    PROVE  OB!IInv'
<1>1. OB!Row("purged", 0, 0, 0, 0, 0) \in RowType /\ OB!Row("purged", 0, 0, 0, 0, 0).done = 0
  BY DEF OB!Row, RowType
<1>2. outbox' \in [Rows -> RowType] /\ \A o \in Rows : outbox'[o].done = 1 => outbox[o].done = 1
  BY <1>1, RelayShapes DEF OB!Purge, OB!IInv
<1> QED BY <1>2, TableMoves DEF OB!Purge

LEMMA TickStep ==
    ASSUME OB!OutboxAssumption, OB!IInv, OB!Tick
    PROVE  OB!IInv'
<1>1. ASSUME NEW r \in Rows PROVE outbox'[r] \in RowType /\ outbox'[r].done = outbox[r].done
  <2>1. /\ outbox[r] \in RowType /\ outbox[r].wait \in Nat /\ outbox[r].grace \in Nat
        /\ outbox'[r] = [outbox[r] EXCEPT !.wait = OB!Less(outbox[r].wait), !.grace = OB!Less(outbox[r].grace)]
    BY RelayShapes DEF OB!IInv, OB!Tick, RowType
  <2>2. OB!Less(outbox[r].wait) \in Nat /\ OB!Less(outbox[r].grace) \in Nat
    BY <2>1 DEF OB!Less
  <2> QED BY <2>1, <2>2 DEF RowType
<1>2. outbox' \in [Rows -> RowType] /\ \A r \in Rows : outbox'[r].done = 1 => outbox[r].done = 1
  BY <1>1 DEF OB!Tick
<1> QED BY <1>2, TableMoves DEF OB!Tick

LEMMA OutboxNext ==
    ASSUME OB!OutboxAssumption, OB!IInv, [OB!Next]_(OB!vars)
    PROVE  OB!IInv'
<1>1. CASE UNCHANGED OB!vars
  BY <1>1, TableMoves, RelayShapes DEF OB!vars, OB!IInv
<1>2. ASSUME NEW x \in OB!Relayers, OB!DeliverStep(x) PROVE OB!IInv'
  BY <1>2, DeliverAppendStep, PublishStep, EnqueueStep, MarkDoneStep DEF OB!DeliverStep
<1>3. \A h \in Hands : h \in OB!Relayers
  BY DEF OB!Relayers
<1>4. ASSUME NEW s \in Sweeps, OB!Claim(s) \/ OB!SweepStep(s) \/ OB!SweepDies(s) PROVE OB!IInv'
  <2>1. s \in OB!Relayers
    BY DEF OB!Relayers
  <2> QED BY <1>2, <1>4, <2>1, ClaimStep, NextRowStep, RecordFailureStep, NameDeadLetterStep,
             SweepDiesStep DEF OB!SweepStep
<1> QED BY <1>1, <1>2, <1>3, <1>4, HoldStep, ReleaseStep, AbandonStep, WriteStep, PurgeRowStep,
           ApiDiesStep, TickStep DEF OB!Next

\* What each relaying task has done with the rows it holds, in every state.
THEOREM OutboxInvariant == ASSUME OB!OutboxAssumption PROVE OB!Spec => []OB!IInv
<1>1. OB!Init => OB!IInv
  BY OutboxInit
<1>2. OB!IInv /\ [OB!Next]_(OB!vars) => OB!IInv'
  BY OutboxNext
<1> QED BY <1>1, <1>2, PTL DEF OB!Spec

\* Done means someone was told (mark_done after _deliver_all), and a hold with rows
\* has a holder that will release or abandon it (hold, abandon).
THEOREM RelayHolds ==
    ASSUME OB!OutboxAssumption
    PROVE  OB!Spec => [](OB!DoneMeansTold /\ OB!HeldHasHolder)
<1>1. OB!IInv => OB!DoneMeansTold /\ OB!HeldHasHolder
  BY DEF OB!IInv
<1> QED BY <1>1, OutboxInvariant, PTL

-----------------------------------------------------------------------------
(* The attempts of a row.                                                  *)

LEMMA OutboxCardinality == ASSUME NEW S PROVE OB!Cardinality(S) = Cardinality(S)
BY DEF OB!Cardinality, Cardinality, OB!IsFiniteSet, IsFiniteSet

\* A row past max_attempts that may still be claimed or brought back.
Pending(r) == outbox[r].state = "kept" /\ outbox[r].done = 0 /\ outbox[r].attempts >= MaxAttempts

\* A step leaves a sweep with the row, or without it, and the attempt it has.
SameFor(s, r) ==
    /\ OB!Has(s, r)' <=> OB!Has(s, r)
    /\ OB!Has(s, r) => relays'[s].copy[r] = relays[s].copy[r]

\* The sweeps, the early ones among them, and those without a row, are counted.
LEMMA SweepsAreCounted ==
    ASSUME OB!OutboxAssumption, NEW r \in Rows
    PROVE  /\ IsFiniteSet(OB!Early(r)) /\ IsFiniteSet(OB!Free(r))
           /\ OB!Cardinality(OB!Early(r)) \in Nat /\ OB!Cardinality(OB!Free(r)) \in Nat
           /\ OB!Cardinality(Sweeps) \in Nat
           /\ OB!Cardinality(OB!Early(r)) <= OB!Cardinality(Sweeps)
           /\ OB!Cardinality(OB!Free(r)) <= OB!Cardinality(Sweeps)
<1>1. IsFiniteSet(Sweeps)
  BY DEF OB!OutboxAssumption, OB!IsFiniteSet, IsFiniteSet
<1>2. OB!Early(r) \subseteq Sweeps /\ OB!Free(r) \subseteq Sweeps
  BY DEF OB!Early, OB!Free
<1> QED BY <1>1, <1>2, OutboxCardinality, FS_Subset, FS_CardinalityType

\* And after a step.
LEMMA SweepsAreCountedNext ==
    ASSUME OB!OutboxAssumption, NEW r \in Rows
    PROVE  /\ IsFiniteSet(OB!Early(r)') /\ IsFiniteSet(OB!Free(r)')
           /\ OB!Cardinality(OB!Early(r)') \in Nat /\ OB!Cardinality(OB!Free(r)') \in Nat
           /\ OB!Cardinality(OB!Free(r)') <= OB!Cardinality(Sweeps)
<1>1. IsFiniteSet(Sweeps)
  BY DEF OB!OutboxAssumption, OB!IsFiniteSet, IsFiniteSet
<1>2. OB!Early(r)' \subseteq Sweeps /\ OB!Free(r)' \subseteq Sweeps
  BY DEF OB!Early, OB!Free
<1> QED BY <1>1, <1>2, OutboxCardinality, FS_Subset, FS_CardinalityType

LEMMA SameHolders ==
    ASSUME NEW r \in Rows, \A s \in Sweeps : SameFor(s, r)
    PROVE  OB!Early(r)' = OB!Early(r) /\ OB!Free(r)' = OB!Free(r)
BY DEF SameFor, OB!Early, OB!Free, OB!Spent

\* The room a row needs, in numbers: n sweeps, e early and f without it.
LEMMA RoomIs ==
    ASSUME OB!OutboxAssumption, OB!IInv, OB!AttemptsInv, NEW r \in Rows, Pending(r)
    PROVE  outbox[r].attempts + OB!Cardinality(Sweeps) * OB!Cardinality(OB!Early(r))
              + (IF outbox[r].failed = 1 THEN 0 ELSE OB!Cardinality(OB!Free(r)))
              <= MaxAttempts + OB!Cardinality(Sweeps) * (OB!Cardinality(Sweeps) - 1) + deaths
BY DEF OB!AttemptsInv, OB!RoomFor, OB!AttemptsBound, Pending

LEMMA RowNumbers ==
    ASSUME OB!OutboxAssumption, OB!IInv, OB!IInv', NEW r \in Rows
    PROVE  /\ outbox[r].attempts \in Nat /\ outbox'[r].attempts \in Nat
           /\ outbox[r].failed \in {0, 1} /\ outbox'[r].failed \in {0, 1}
           /\ deaths \in Nat /\ deaths' \in Nat /\ MaxAttempts \in Nat \ {0}
<1>1. outbox[r] \in RowType /\ outbox'[r] \in RowType
  BY DEF OB!IInv, OB!Shapes, RowType
<1>2. deaths \in Nat /\ deaths' \in Nat
  BY DEF OB!IInv, OB!Shapes, OB!OutboxAssumption
<1> QED BY <1>1, <1>2 DEF RowType, OB!OutboxAssumption

\* What is to show of a row after a step: it is as RoomIs has it.
LEMMA RoomWillDo ==
    ASSUME NEW r \in Rows,
           Pending(r)' =>
              outbox'[r].attempts + OB!Cardinality(Sweeps) * OB!Cardinality(OB!Early(r)')
                 + (IF outbox'[r].failed = 1 THEN 0 ELSE OB!Cardinality(OB!Free(r)'))
                 <= MaxAttempts + OB!Cardinality(Sweeps) * (OB!Cardinality(Sweeps) - 1) + deaths'
    PROVE  OB!RoomFor(r)'
BY DEF OB!RoomFor, OB!AttemptsBound, Pending

\* The row, its early sweeps and the free ones are as they were, or the row failed.
LEMMA RoomStays ==
    ASSUME OB!OutboxAssumption, OB!IInv, OB!IInv', OB!AttemptsInv, NEW r \in Rows,
           deaths <= deaths',
           Pending(r)' => /\ Pending(r) /\ outbox'[r].attempts = outbox[r].attempts
                          /\ OB!Early(r)' = OB!Early(r)
                          /\ \/ outbox'[r].failed = 1
                             \/ /\ outbox'[r].failed = outbox[r].failed
                                /\ OB!Free(r)' = OB!Free(r)
    PROVE  OB!RoomFor(r)'
<1> SUFFICES ASSUME Pending(r)'
             PROVE  outbox'[r].attempts + OB!Cardinality(Sweeps) * OB!Cardinality(OB!Early(r)')
                 + (IF outbox'[r].failed = 1 THEN 0 ELSE OB!Cardinality(OB!Free(r)'))
                 <= MaxAttempts + OB!Cardinality(Sweeps) * (OB!Cardinality(Sweeps) - 1) + deaths'
  BY RoomWillDo
<1> DEFINE n == OB!Cardinality(Sweeps)
           e == OB!Cardinality(OB!Early(r))
           f == OB!Cardinality(OB!Free(r))
           p == n * e
           q == n * (n - 1)
<1>1. n \in Nat /\ e \in Nat /\ f \in Nat
  BY SweepsAreCounted
<1>2. p \in Int /\ q \in Int
  BY <1>1
<1>3. /\ outbox[r].attempts \in Nat /\ deaths \in Nat /\ deaths' \in Nat /\ MaxAttempts \in Nat
  BY RowNumbers
<1>4. outbox[r].attempts + p + (IF outbox[r].failed = 1 THEN 0 ELSE f) <= MaxAttempts + q + deaths
  BY RoomIs
<1>5. OB!Cardinality(Sweeps) * OB!Cardinality(OB!Early(r)') = p
  OBVIOUS
<1>6. outbox'[r].failed = 1 \/ (outbox'[r].failed = outbox[r].failed /\ OB!Cardinality(OB!Free(r)') = f)
  OBVIOUS
<1> HIDE DEF n, e, f, p, q
<1>7. outbox'[r].attempts + p + (IF outbox'[r].failed = 1 THEN 0 ELSE OB!Cardinality(OB!Free(r)'))
        <= MaxAttempts + q + deaths'
  BY <1>1, <1>2, <1>3, <1>4, <1>6
<1> QED BY <1>5, <1>7 DEF n, q

\* A sweep that had an earlier attempt gives it up: the row may be claimed again.
LEMMA RoomForAll ==
    ASSUME OB!OutboxAssumption, OB!IInv, OB!IInv', OB!AttemptsInv, NEW r \in Rows,
           NEW s \in OB!Early(r), deaths <= deaths',
           Pending(r)' => /\ Pending(r) /\ outbox'[r].attempts = outbox[r].attempts
                          /\ OB!Early(r)' = OB!Early(r) \ {s}
    PROVE  OB!RoomFor(r)'
<1> SUFFICES ASSUME Pending(r)'
             PROVE  outbox'[r].attempts + OB!Cardinality(Sweeps) * OB!Cardinality(OB!Early(r)')
                 + (IF outbox'[r].failed = 1 THEN 0 ELSE OB!Cardinality(OB!Free(r)'))
                 <= MaxAttempts + OB!Cardinality(Sweeps) * (OB!Cardinality(Sweeps) - 1) + deaths'
  BY RoomWillDo
<1> DEFINE n == OB!Cardinality(Sweeps)
           e == OB!Cardinality(OB!Early(r))
           f == OB!Cardinality(OB!Free(r))
           g == OB!Cardinality(OB!Free(r)')
           d == OB!Cardinality(OB!Early(r)')
           p == n * e
           q == n * (n - 1)
<1>1. n \in Nat /\ e \in Nat /\ f \in Nat /\ g \in Nat /\ g <= n
  BY SweepsAreCounted, SweepsAreCountedNext
<1>2. p \in Int /\ q \in Int
  BY <1>1
<1>3. /\ outbox[r].attempts \in Nat /\ deaths \in Nat /\ deaths' \in Nat /\ MaxAttempts \in Nat
  BY RowNumbers
<1>4. outbox[r].attempts + p + (IF outbox[r].failed = 1 THEN 0 ELSE f) <= MaxAttempts + q + deaths
  BY RoomIs
<1>5. d = e - 1
  BY SweepsAreCounted, OutboxCardinality, FS_RemoveElement
<1>6. n * d = p - n
  BY <1>1, <1>5
<1> HIDE DEF n, e, f, g, d, p, q
<1>7. outbox'[r].attempts + (p - n) + (IF outbox'[r].failed = 1 THEN 0 ELSE g)
        <= MaxAttempts + q + deaths'
  BY <1>1, <1>2, <1>3, <1>4
<1>8. outbox'[r].attempts + n * d + (IF outbox'[r].failed = 1 THEN 0 ELSE g)
        <= MaxAttempts + q + deaths'
  BY <1>6, <1>7
<1> QED BY <1>8 DEF n, d, g, q

\* A sweep dies with the row: one more may claim it, and one more has died.
LEMMA RoomForOneMore ==
    ASSUME OB!OutboxAssumption, OB!IInv, OB!IInv', OB!AttemptsInv, NEW r \in Rows,
           NEW s, deaths' = deaths + 1,
           Pending(r)' => /\ Pending(r) /\ outbox'[r].attempts = outbox[r].attempts
                          /\ outbox'[r].failed = outbox[r].failed
                          /\ OB!Early(r)' = OB!Early(r) /\ OB!Free(r)' = OB!Free(r) \cup {s}
    PROVE  OB!RoomFor(r)'
<1> SUFFICES ASSUME Pending(r)'
             PROVE  outbox'[r].attempts + OB!Cardinality(Sweeps) * OB!Cardinality(OB!Early(r)')
                 + (IF outbox'[r].failed = 1 THEN 0 ELSE OB!Cardinality(OB!Free(r)'))
                 <= MaxAttempts + OB!Cardinality(Sweeps) * (OB!Cardinality(Sweeps) - 1) + deaths'
  BY RoomWillDo
<1> DEFINE n == OB!Cardinality(Sweeps)
           e == OB!Cardinality(OB!Early(r))
           f == OB!Cardinality(OB!Free(r))
           g == OB!Cardinality(OB!Free(r)')
           p == n * e
           q == n * (n - 1)
<1>1. n \in Nat /\ e \in Nat /\ f \in Nat /\ g \in Nat
  BY SweepsAreCounted, SweepsAreCountedNext
<1>2. p \in Int /\ q \in Int
  BY <1>1
<1>3. /\ outbox[r].attempts \in Nat /\ deaths \in Nat /\ deaths' \in Nat /\ MaxAttempts \in Nat
  BY RowNumbers
<1>4. outbox[r].attempts + p + (IF outbox[r].failed = 1 THEN 0 ELSE f) <= MaxAttempts + q + deaths
  BY RoomIs
<1>5. g <= f + 1
  <2>1. IsFiniteSet(OB!Free(r)) /\ Cardinality(OB!Free(r)) = f
    BY SweepsAreCounted, OutboxCardinality
  <2>2. Cardinality(OB!Free(r) \cup {s}) \in {f, f + 1}
    BY <2>1, FS_AddElement
  <2>3. Cardinality(OB!Free(r) \cup {s}) = g
    BY OutboxCardinality
  <2> HIDE DEF f, g
  <2> QED BY <1>1, <2>2, <2>3
<1>6. OB!Cardinality(Sweeps) * OB!Cardinality(OB!Early(r)') = p
  OBVIOUS
<1> HIDE DEF n, e, f, g, p, q
<1>7. outbox'[r].attempts + p + (IF outbox'[r].failed = 1 THEN 0 ELSE g)
        <= MaxAttempts + q + deaths'
  BY <1>1, <1>2, <1>3, <1>4, <1>5
<1> QED BY <1>6, <1>7 DEF n, g, q

\* A sweep that was idle claims the row: the attempt is its last if any is spent.
LEMMA RoomForClaim ==
    ASSUME OB!OutboxAssumption, OB!IInv, OB!IInv', OB!AttemptsInv, NEW r \in Rows,
           NEW s \in OB!Free(r), deaths' = deaths, outbox[r].failed = 0,
           outbox[r].state = "kept", outbox[r].done = 0,
           outbox'[r].attempts = outbox[r].attempts + 1, outbox'[r].failed = 0,
           OB!Spent(outbox[r].attempts + 1) =>
               OB!Early(r)' = OB!Early(r) /\ OB!Free(r)' = OB!Free(r) \ {s}
    PROVE  OB!RoomFor(r)'
<1> SUFFICES ASSUME Pending(r)'
             PROVE  outbox'[r].attempts + OB!Cardinality(Sweeps) * OB!Cardinality(OB!Early(r)')
                 + (IF outbox'[r].failed = 1 THEN 0 ELSE OB!Cardinality(OB!Free(r)'))
                 <= MaxAttempts + OB!Cardinality(Sweeps) * (OB!Cardinality(Sweeps) - 1) + deaths'
  BY RoomWillDo
<1> DEFINE n == OB!Cardinality(Sweeps)
           e == OB!Cardinality(OB!Early(r))
           f == OB!Cardinality(OB!Free(r))
           g == OB!Cardinality(OB!Free(r)')
           p == n * e
           q == n * (n - 1)
<1>1. n \in Nat /\ e \in Nat /\ f \in Nat /\ g \in Nat
  BY SweepsAreCounted, SweepsAreCountedNext
<1>2. p \in Int /\ q \in Int
  BY <1>1
<1>3. /\ outbox[r].attempts \in Nat /\ deaths \in Nat /\ MaxAttempts \in Nat
  BY RowNumbers
<1>4. OB!Spent(outbox[r].attempts + 1)
  BY DEF Pending, OB!Spent
<1>5. g = f - 1
  <2>1. IsFiniteSet(OB!Free(r)) /\ Cardinality(OB!Free(r)) = f
    BY SweepsAreCounted, OutboxCardinality
  <2>2. Cardinality(OB!Free(r) \ {s}) = f - 1
    BY <2>1, FS_RemoveElement
  <2> QED BY <1>4, <2>2, OutboxCardinality
<1>6. OB!Cardinality(Sweeps) * OB!Cardinality(OB!Early(r)') = p
  BY <1>4
<1>7. e + f <= n
  <2>1. IsFiniteSet(Sweeps)
    BY DEF OB!OutboxAssumption, OB!IsFiniteSet, IsFiniteSet
  <2>2. OB!Early(r) \cup OB!Free(r) \subseteq Sweeps /\ OB!Early(r) \cap OB!Free(r) = {}
    BY DEF OB!Early, OB!Free
  <2>3. Cardinality(OB!Early(r) \cup OB!Free(r)) <= Cardinality(Sweeps)
    BY <2>1, <2>2, FS_Subset
  <2>4. Cardinality(OB!Early(r) \cup OB!Free(r)) = Cardinality(OB!Early(r)) + Cardinality(OB!Free(r))
    <3>1. /\ IsFiniteSet(OB!Early(r)) /\ IsFiniteSet(OB!Free(r))
          /\ Cardinality(OB!Early(r)) \in Nat /\ Cardinality(OB!Free(r)) \in Nat
      BY SweepsAreCounted, OutboxCardinality
    <3>2. Cardinality(OB!Early(r) \cap OB!Free(r)) = 0
      BY <2>2, FS_EmptySet
    <3>3. Cardinality(OB!Early(r) \cup OB!Free(r))
          = Cardinality(OB!Early(r)) + Cardinality(OB!Free(r))
            - Cardinality(OB!Early(r) \cap OB!Free(r))
      BY <3>1, FS_Union
    <3> QED BY <3>1, <3>2, <3>3
  <2> QED BY <2>3, <2>4, OutboxCardinality
<1>8. CASE outbox[r].attempts >= MaxAttempts
  <2>1. outbox[r].attempts + p + f <= MaxAttempts + q + deaths
    BY <1>8, RoomIs DEF Pending
  <2> HIDE DEF n, e, f, g, p, q
  <2>2. outbox'[r].attempts + p + g <= MaxAttempts + q + deaths'
    BY <1>1, <1>2, <1>3, <1>5, <2>1
  <2> QED BY <1>6, <2>2 DEF n, g, q
<1>9. CASE outbox'[r].attempts = MaxAttempts
  <2> DEFINE k == n - 1 - e
  <2>1. k \in Nat /\ g <= k
    BY <1>1, <1>5, <1>7
  <2>2. n \in Nat \ {0}
    BY <1>1, <1>5, <1>7
  <2> HIDE DEF k
  <2>3. k <= n * k
    BY <2>1, <2>2
  <2>4. q = p + n * k
    BY <1>1 DEF k
  <2> HIDE DEF n, e, f, g, p, q
  <2>5. n * k \in Int
    BY <1>1, <2>1
  <2>6. outbox'[r].attempts + p + g <= MaxAttempts + q + deaths'
    BY <1>1, <1>2, <1>3, <1>9, <2>1, <2>3, <2>4, <2>5
  <2> QED BY <1>6, <2>6 DEF n, g, q
<1> QED BY <1>3, <1>4, <1>8, <1>9 DEF OB!Spent

\* A step that claims nothing: what each sweep carries, the rows, and the room of each
\* are what is to show.
LEMMA AttemptsMove ==
    ASSUME OB!OutboxAssumption, OB!IInv, OB!IInv', OB!AttemptsInv, deaths <= deaths',
           \A r \in Rows : outbox'[r].attempts <= outbox[r].attempts \/ outbox'[r].attempts = 0,
           \A s \in Sweeps : OB!Carries(relays[s])', \A r \in Rows : OB!RoomFor(r)'
    PROVE  OB!AttemptsInv'
<1>1. ASSUME NEW r \in Rows PROVE outbox'[r].attempts <= OB!AttemptsBound'
  <2> DEFINE q == OB!Cardinality(Sweeps) * (OB!Cardinality(Sweeps) - 1)
  <2>1. q \in Nat
    <3>1. OB!Cardinality(Sweeps) \in Nat
      BY SweepsAreCounted
    <3>2. CASE OB!Cardinality(Sweeps) = 0
      BY <3>2
    <3>3. CASE OB!Cardinality(Sweeps) # 0
      BY <3>1, <3>3
    <3> QED BY <3>2, <3>3
  <2>2. outbox[r].attempts <= MaxAttempts + q + deaths
    BY DEF OB!AttemptsInv, OB!TypeOK, OB!AttemptsBound
  <2> HIDE DEF q
  <2>3. outbox'[r].attempts <= MaxAttempts + q + deaths'
    BY <2>1, <2>2, RowNumbers
  <2> QED BY <2>3 DEF q, OB!AttemptsBound
<1> QED BY <1>1 DEF OB!AttemptsInv, OB!TypeOK, OB!IInv

\* A step after which the sweeps have the rows that are pending as they had them.
LEMMA QuietStep ==
    ASSUME OB!OutboxAssumption, OB!IInv, OB!IInv', OB!AttemptsInv, deaths <= deaths',
           \A r \in Rows : outbox'[r].attempts <= outbox[r].attempts \/ outbox'[r].attempts = 0,
           \A s \in Sweeps : OB!Carries(relays[s])',
           \A r \in Rows : Pending(r)' =>
              /\ Pending(r) /\ outbox'[r].attempts = outbox[r].attempts
              /\ outbox'[r].failed = outbox[r].failed
              /\ \A s \in Sweeps : SameFor(s, r)
    PROVE  OB!AttemptsInv'
<1>1. ASSUME NEW r \in Rows PROVE OB!RoomFor(r)'
  BY RoomStays, SameHolders
<1> QED BY <1>1, AttemptsMove

\* A step of the request path: the sweeps are as they were.
LEMMA RequestQuiet ==
    ASSUME OB!OutboxAssumption, OB!IInv, OB!IInv', OB!AttemptsInv, deaths <= deaths',
           \A s \in Sweeps : relays'[s] = relays[s],
           \A r \in Rows : outbox'[r].attempts <= outbox[r].attempts \/ outbox'[r].attempts = 0,
           \A r \in Rows : Pending(r)' =>
              /\ Pending(r) /\ outbox'[r].attempts = outbox[r].attempts
              /\ outbox'[r].failed = outbox[r].failed
    PROVE  OB!AttemptsInv'
<1>1. \A s \in Sweeps : OB!Carries(relays[s])'
  BY DEF OB!AttemptsInv, OB!Carries
<1>2. \A r \in Rows : \A s \in Sweeps : SameFor(s, r)
  BY DEF SameFor, OB!Has
<1> QED BY <1>1, <1>2, QuietStep

\* A step of the request path that leaves the table.
LEMMA TableQuiet ==
    ASSUME OB!OutboxAssumption, OB!IInv, OB!IInv', OB!AttemptsInv, deaths <= deaths',
           \A s \in Sweeps : relays'[s] = relays[s], outbox' = outbox
    PROVE  OB!AttemptsInv'
<1>1. \A r \in Rows : outbox'[r].attempts <= outbox[r].attempts
  BY RowNumbers
<1>2. \A r \in Rows : Pending(r)' => Pending(r)
  BY DEF Pending
<1> QED BY <1>1, <1>2, RequestQuiet

\* A step of one sweep, which has the pending rows it had.
LEMMA SweepQuiet ==
    ASSUME OB!OutboxAssumption, OB!IInv, OB!IInv', OB!AttemptsInv, deaths <= deaths',
           NEW s \in Sweeps, NEW t, relays' = [relays EXCEPT ![s] = t],
           OB!Carries(t),
           \A r \in Rows : outbox'[r].attempts <= outbox[r].attempts \/ outbox'[r].attempts = 0,
           \A r \in Rows : Pending(r)' =>
              /\ Pending(r) /\ outbox'[r].attempts = outbox[r].attempts
              /\ outbox'[r].failed = outbox[r].failed
              /\ r \in t.cur \cup t.todo \cup t.bad <=> OB!Has(s, r)
              /\ OB!Has(s, r) => t.copy[r] = relays[s].copy[r]
    PROVE  OB!AttemptsInv'
<1>1. relays'[s] = t /\ \A y \in Sweeps : y # s => relays'[y] = relays[y]
  <2>1. relays \in [OB!Relayers -> OB!TaskType] /\ Sweeps \subseteq OB!Relayers
    BY DEF OB!IInv, OB!Shapes, OB!Relayers
  <2> QED BY <2>1
<1>2. \A y \in Sweeps : OB!Carries(relays[y])'
  BY <1>1 DEF OB!AttemptsInv, OB!Carries
<1>3. ASSUME NEW r \in Rows, Pending(r)' PROVE \A y \in Sweeps : SameFor(y, r)
  BY <1>1, <1>3 DEF SameFor, OB!Has
<1> QED BY <1>2, <1>3, QuietStep

\* The rows keep their attempts, and those that stay pending were so.
RowsKeep ==
    \A r \in Rows : /\ outbox'[r].attempts = outbox[r].attempts
                    /\ Pending(r)' => Pending(r) /\ outbox'[r].failed = outbox[r].failed

LEMMA SameTable == outbox' = outbox => RowsKeep
BY DEF RowsKeep, Pending

\* A step of one sweep, which leaves what it has.
LEMMA SweepKeeps ==
    ASSUME OB!OutboxAssumption, OB!IInv, OB!IInv', OB!AttemptsInv, deaths' = deaths, RowsKeep,
           NEW s \in Sweeps, NEW t, relays' = [relays EXCEPT ![s] = t], OB!Carries(t),
           t.cur \cup t.todo \cup t.bad = relays[s].cur \cup relays[s].todo \cup relays[s].bad,
           t.copy = relays[s].copy
    PROVE  OB!AttemptsInv'
<1>1. \A r \in Rows : outbox'[r].attempts <= outbox[r].attempts /\ deaths <= deaths'
  BY RowNumbers DEF RowsKeep
<1>2. deaths <= deaths'
  BY DEF OB!IInv, OB!Shapes, OB!OutboxAssumption
<1> QED BY <1>1, <1>2, SweepQuiet DEF RowsKeep, OB!Has

\* What a sweep carries is a task's.
LEMMA SweepCarries ==
    ASSUME OB!OutboxAssumption, OB!IInv, OB!AttemptsInv, NEW s \in Sweeps
    PROVE  /\ relays[s] \in OB!TaskType /\ OB!Carries(relays[s]) /\ s \notin Hands
           /\ s \in OB!Relayers
BY DEF OB!IInv, OB!Shapes, OB!AttemptsInv, OB!OutboxAssumption, OB!Relayers

LEMMA OneIsNotMore == ASSUME NEW r PROVE ~(OB!Cardinality({r}) > 1) /\ ~(OB!Cardinality({}) > 1)
<1>1. Cardinality({r}) = 1
  BY FS_Singleton
<1>2. Cardinality({}) = 0
  BY FS_EmptySet
<1> QED BY <1>1, <1>2, OutboxCardinality

\* A raise keeps the rows: those of a batch to relay one by one, or one as failed.
LEMMA RaisedKeeps ==
    ASSUME OB!OutboxAssumption, OB!IInv, OB!AttemptsInv, NEW s \in Sweeps,
           relays[s].pc \notin {"record", "name"}
    PROVE  /\ OB!Carries(OB!Raised(s)) /\ OB!Raised(s).copy = relays[s].copy
           /\ OB!Raised(s).cur \cup OB!Raised(s).todo \cup OB!Raised(s).bad
              = relays[s].cur \cup relays[s].todo \cup relays[s].bad
<1>1. relays[s] \in OB!TaskType /\ OB!Carries(relays[s]) /\ s \notin Hands
  BY SweepCarries
<1>2. /\ relays[s].bad = {} /\ relays[s].todo \cap relays[s].cur = {}
      /\ ~(OB!Cardinality({}) > 1)
  BY <1>1, OneIsNotMore DEF OB!Carries
<1>3. CASE OB!Cardinality(relays[s].cur) > 1
  <2>1. relays[s].todo = {}
    BY <1>1, <1>3 DEF OB!Carries
  <2>2. OB!Raised(s) = OB!Task("next", {}, relays[s].cur, relays[s].copy)
    BY <1>1, <1>3 DEF OB!Raised
  <2> QED BY <1>2, <2>1, <2>2 DEF OB!Task, OB!Carries
<1>4. CASE ~(OB!Cardinality(relays[s].cur) > 1)
  <2> DEFINE t == [relays[s] EXCEPT !.pc = "record", !.cur = {}, !.unpublished = {},
                                    !.bad = relays[s].cur]
  <2>1. OB!Raised(s) = t
    BY <1>1, <1>4 DEF OB!Raised
  <2>2. /\ t.pc = "record" /\ t.cur = {} /\ t.unpublished = {} /\ t.bad = relays[s].cur
        /\ t.todo = relays[s].todo /\ t.copy = relays[s].copy
    BY <1>1 DEF OB!TaskType
  <2> HIDE DEF t
  <2>3. OB!Carries(t)
    BY <1>2, <2>2 DEF OB!Carries
  <2> QED BY <1>2, <2>1, <2>2, <2>3
<1> QED BY <1>3, <1>4

LEMMA RaiseCounts ==
    ASSUME OB!OutboxAssumption, OB!IInv, OB!IInv', OB!AttemptsInv, deaths' = deaths, RowsKeep,
           NEW s \in Sweeps, relays[s].pc \notin {"record", "name"},
           relays' = [relays EXCEPT ![s] = OB!Raised(s)]
    PROVE  OB!AttemptsInv'
BY RaisedKeeps, SweepKeeps

LEMMA AppendCounts ==
    ASSUME OB!OutboxAssumption, OB!IInv, OB!IInv', OB!AttemptsInv, NEW s \in Sweeps, OB!Append(s)
    PROVE  OB!AttemptsInv'
<1>1. relays[s].pc = "append" /\ UNCHANGED <<outbox, deaths>>
  BY DEF OB!Append
<1>2. CASE relays' = [relays EXCEPT ![s] = OB!Raised(s)]
  BY <1>1, <1>2, RaiseCounts, SameTable
<1>3. CASE relays' = [relays EXCEPT ![s].pc = "publish"]
  <2> DEFINE t == [relays[s] EXCEPT !.pc = "publish"]
  <2>1. relays[s] \in OB!TaskType /\ OB!Carries(relays[s])
    BY SweepCarries
  <2>2. /\ t.pc = "publish" /\ t.cur = relays[s].cur /\ t.unpublished = relays[s].unpublished
        /\ t.bad = relays[s].bad /\ t.todo = relays[s].todo /\ t.copy = relays[s].copy
    BY <2>1 DEF OB!TaskType
  <2>3. relays' = [relays EXCEPT ![s] = t]
    BY <1>3
  <2> HIDE DEF t
  <2>4. OB!Carries(t)
    BY <1>1, <2>1, <2>2 DEF OB!Carries
  <2> QED BY <1>1, <2>2, <2>3, <2>4, SweepKeeps, SameTable
<1> QED BY <1>2, <1>3 DEF OB!Append

LEMMA PublishCounts ==
    ASSUME OB!OutboxAssumption, OB!IInv, OB!IInv', OB!AttemptsInv, NEW s \in Sweeps, OB!Publish(s)
    PROVE  OB!AttemptsInv'
<1>1. relays[s].pc = "publish" /\ UNCHANGED <<outbox, deaths>>
  BY DEF OB!Publish
<1>2. PICK dropped \in SUBSET (relays[s].cur \ WorkRows) :
         relays' = [relays EXCEPT ![s] = [@ EXCEPT !.pc = "enqueue", !.unpublished = dropped]]
  BY DEF OB!Publish
<1> DEFINE t == [relays[s] EXCEPT !.pc = "enqueue", !.unpublished = dropped]
<1>3. relays[s] \in OB!TaskType /\ OB!Carries(relays[s])
  BY SweepCarries
<1>4. /\ t.pc = "enqueue" /\ t.cur = relays[s].cur /\ t.unpublished = dropped
      /\ t.bad = relays[s].bad /\ t.todo = relays[s].todo /\ t.copy = relays[s].copy
  BY <1>3 DEF OB!TaskType
<1>5. relays' = [relays EXCEPT ![s] = t]
  BY <1>2
<1> HIDE DEF t
<1>6. OB!Carries(t)
  BY <1>1, <1>3, <1>4 DEF OB!Carries
<1> QED BY <1>1, <1>4, <1>5, <1>6, SweepKeeps, SameTable

LEMMA EnqueueCounts ==
    ASSUME OB!OutboxAssumption, OB!IInv, OB!IInv', OB!AttemptsInv, NEW s \in Sweeps, OB!Enqueue(s)
    PROVE  OB!AttemptsInv'
<1>1. relays[s].pc = "enqueue" /\ UNCHANGED <<outbox, deaths>>
  BY DEF OB!Enqueue
<1>2. CASE relays' = [relays EXCEPT ![s] = OB!Raised(s)]
  BY <1>1, <1>2, RaiseCounts, SameTable
<1>3. CASE relays' = [relays EXCEPT ![s].pc = "mark"]
  <2> DEFINE t == [relays[s] EXCEPT !.pc = "mark"]
  <2>1. relays[s] \in OB!TaskType /\ OB!Carries(relays[s])
    BY SweepCarries
  <2>2. /\ t.pc = "mark" /\ t.cur = relays[s].cur /\ t.unpublished = relays[s].unpublished
        /\ t.bad = relays[s].bad /\ t.todo = relays[s].todo /\ t.copy = relays[s].copy
    BY <2>1 DEF OB!TaskType
  <2>3. relays' = [relays EXCEPT ![s] = t]
    BY <1>3
  <2> HIDE DEF t
  <2>4. OB!Carries(t)
    BY <1>1, <2>1, <2>2 DEF OB!Carries
  <2> QED BY <1>1, <2>2, <2>3, <2>4, SweepKeeps, SameTable
<1> QED BY <1>2, <1>3 DEF OB!Enqueue

\* A row that a mark leaves pending is not among those marked.
LEMMA MarkLeaves ==
    ASSUME OB!OutboxAssumption, OB!IInv, NEW ids, outbox' = OB!Marked(ids)
    PROVE  RowsKeep /\ \A r \in ids : r \in Rows => ~Pending(r)'
<1>1. ASSUME NEW r \in Rows
      PROVE  /\ outbox'[r].attempts = outbox[r].attempts
             /\ Pending(r)' => /\ Pending(r) /\ outbox'[r].failed = outbox[r].failed
                               /\ r \notin ids
  <2>1. outbox[r] \in RowType
    BY DEF OB!IInv, OB!Shapes, RowType
  <2>2. CASE r \in ids /\ outbox[r].state = "kept"
    <3>1. outbox'[r] = [outbox[r] EXCEPT !.done = 1]
      BY <2>2 DEF OB!Marked
    <3>2. outbox'[r].done = 1 /\ outbox'[r].attempts = outbox[r].attempts
      BY <2>1, <3>1 DEF RowType
    <3> QED BY <3>2 DEF Pending
  <2>3. CASE ~(r \in ids /\ outbox[r].state = "kept")
    <3>1. outbox'[r] = outbox[r]
      BY <2>3 DEF OB!Marked
    <3> QED BY <2>3, <3>1 DEF Pending
  <2> QED BY <2>2, <2>3
<1> QED BY <1>1 DEF RowsKeep

LEMMA MarkCounts ==
    ASSUME OB!OutboxAssumption, OB!IInv, OB!IInv', OB!AttemptsInv, NEW s \in Sweeps, OB!MarkDone(s)
    PROVE  OB!AttemptsInv'
<1> DEFINE ids == OB!Delivered(relays[s])
           t == [relays[s] EXCEPT !.pc = "record", !.cur = {}, !.unpublished = {},
                                  !.bad = relays[s].unpublished]
<1>1. relays[s] \in OB!TaskType /\ OB!Carries(relays[s]) /\ s \notin Hands
  BY SweepCarries
<1>2. relays[s].pc = "mark" /\ deaths' = deaths
  BY DEF OB!MarkDone
<1>3. CASE outbox' = OB!Marked(ids) /\ relays' = [relays EXCEPT ![s] = t]
  <2>1. /\ t.pc = "record" /\ t.cur = {} /\ t.unpublished = {} /\ t.bad = relays[s].unpublished
        /\ t.todo = relays[s].todo /\ t.copy = relays[s].copy
    BY <1>1 DEF OB!TaskType
  <2>2. /\ relays[s].bad = {} /\ relays[s].unpublished \subseteq relays[s].cur
        /\ relays[s].todo \cap relays[s].cur = {} /\ ~(OB!Cardinality({}) > 1)
    BY <1>1, <1>2, OneIsNotMore DEF OB!Carries
  <2> HIDE DEF t
  <2>3. OB!Carries(t)
    BY <2>1, <2>2 DEF OB!Carries
  <2>4. RowsKeep /\ \A r \in ids : r \in Rows => ~Pending(r)'
    BY <1>3, MarkLeaves
  <2>5. ASSUME NEW r \in Rows, Pending(r)'
        PROVE  r \in t.cur \cup t.todo \cup t.bad <=> OB!Has(s, r)
    <3>1. r \in relays[s].cur <=> r \in relays[s].unpublished
      BY <2>2, <2>4, <2>5 DEF OB!Delivered
    <3> QED BY <2>1, <2>2, <3>1 DEF OB!Has
  <2>6. \A r \in Rows : outbox'[r].attempts <= outbox[r].attempts
    BY <2>4, RowNumbers DEF RowsKeep
  <2>7. deaths <= deaths'
    BY <1>2 DEF OB!IInv, OB!Shapes, OB!OutboxAssumption
  <2>8. ASSUME NEW r \in Rows, Pending(r)'
        PROVE  /\ Pending(r) /\ outbox'[r].attempts = outbox[r].attempts
               /\ outbox'[r].failed = outbox[r].failed
               /\ r \in t.cur \cup t.todo \cup t.bad <=> OB!Has(s, r)
               /\ OB!Has(s, r) => t.copy[r] = relays[s].copy[r]
    BY <2>1, <2>4, <2>5, <2>8 DEF RowsKeep
  <2>9. relays' = [relays EXCEPT ![s] = t]
    BY <1>3
  <2> QED BY <2>3, <2>6, <2>7, <2>8, <2>9, SweepQuiet
<1>4. CASE /\ outbox' = outbox \/ outbox' = OB!Marked(ids)
           /\ relays' = [relays EXCEPT ![s] = OB!Raised(s)]
  <2>1. RowsKeep
    BY <1>4, SameTable, MarkLeaves
  <2> QED BY <1>2, <1>4, <2>1, RaiseCounts
<1> QED BY <1>1, <1>3, <1>4 DEF OB!MarkDone

LEMMA NextRowCounts ==
    ASSUME OB!OutboxAssumption, OB!IInv, OB!IInv', OB!AttemptsInv, NEW s \in Sweeps, OB!NextRow(s)
    PROVE  OB!AttemptsInv'
<1>1. relays[s] \in OB!TaskType /\ OB!Carries(relays[s])
  BY SweepCarries
<1>2. relays[s].pc = "next" /\ UNCHANGED <<outbox, deaths>>
  BY DEF OB!NextRow
<1>3. relays[s].cur = {} /\ relays[s].bad = {} /\ RowsKeep
  BY <1>1, <1>2, SameTable DEF OB!Carries
<1>4. CASE relays[s].todo = {} /\ relays' = [relays EXCEPT ![s] = OB!Idle]
  <2>1. OB!Carries(OB!Idle)
    BY OneIsNotMore DEF OB!Carries, OB!Idle, OB!Task
  <2>2. \A r \in Rows : /\ ~OB!Has(s, r)
                        /\ r \notin OB!Idle.cur \cup OB!Idle.todo \cup OB!Idle.bad
    BY <1>3, <1>4 DEF OB!Has, OB!Idle, OB!Task
  <2>3. \A r \in Rows : outbox'[r].attempts <= outbox[r].attempts
    BY <1>3, RowNumbers DEF RowsKeep
  <2>4. deaths <= deaths'
    BY <1>2 DEF OB!IInv, OB!Shapes, OB!OutboxAssumption
  <2> QED BY <1>3, <1>4, <2>1, <2>2, <2>3, <2>4, SweepQuiet DEF RowsKeep
<1>5. ASSUME NEW r \in relays[s].todo,
             relays' = [relays EXCEPT ![s] = OB!Deliver({r}, relays[s].todo \ {r}, relays[s].copy)]
      PROVE  OB!AttemptsInv'
  <2> DEFINE t == OB!Deliver({r}, relays[s].todo \ {r}, relays[s].copy)
  <2>1. /\ t.pc = "append" /\ t.cur = {r} /\ t.todo = relays[s].todo \ {r} /\ t.bad = {}
        /\ t.unpublished = {} /\ t.copy = relays[s].copy
    BY DEF OB!Deliver, OB!Task
  <2>2. relays' = [relays EXCEPT ![s] = t]
    BY <1>5
  <2> HIDE DEF t
  <2>3. OB!Carries(t)
    BY <2>1, OneIsNotMore DEF OB!Carries
  <2>4. t.cur \cup t.todo \cup t.bad = relays[s].cur \cup relays[s].todo \cup relays[s].bad
    BY <1>3, <2>1
  <2> QED BY <1>2, <1>3, <2>1, <2>2, <2>3, <2>4, SweepKeeps
<1> QED BY <1>4, <1>5 DEF OB!NextRow

LEMMA NameCounts ==
    ASSUME OB!OutboxAssumption, OB!IInv, OB!IInv', OB!AttemptsInv, NEW s \in Sweeps,
           OB!NameDeadLetter(s)
    PROVE  OB!AttemptsInv'
<1>1. relays[s] \in OB!TaskType /\ OB!Carries(relays[s])
  BY SweepCarries
<1> DEFINE t == [relays[s] EXCEPT !.pc = "record", !.dead = {}]
<1>2. /\ relays[s].pc = "name" /\ UNCHANGED <<outbox, deaths>>
      /\ relays' = [relays EXCEPT ![s] = t]
  BY DEF OB!NameDeadLetter
<1>3. /\ t.pc = "record" /\ t.cur = relays[s].cur /\ t.unpublished = relays[s].unpublished
      /\ t.bad = relays[s].bad /\ t.todo = relays[s].todo /\ t.copy = relays[s].copy
  BY <1>1 DEF OB!TaskType
<1> HIDE DEF t
<1>4. OB!Carries(t)
  BY <1>1, <1>2, <1>3 DEF OB!Carries
<1> QED BY <1>2, <1>3, <1>4, SweepKeeps, SameTable

\* Of the row whose failure is recorded the sweep lets go, and of no other.
LEMMA FailureIsRecorded ==
    ASSUME OB!OutboxAssumption, OB!IInv, OB!IInv', OB!AttemptsInv, NEW s \in Sweeps,
           NEW r \in relays[s].bad, relays[s].pc = "record", deaths' = deaths,
           outbox' = IF outbox[r].state = "kept" /\ outbox[r].done = 0
                     THEN [outbox EXCEPT ![r].failed = IF OB!Spent(relays[s].copy[r]) THEN 1 ELSE 0]
                     ELSE outbox,
           NEW t, relays' = [relays EXCEPT ![s] = t], t.pc \in {"record", "name"},
           t.cur = relays[s].cur, t.unpublished = relays[s].unpublished,
           t.todo = relays[s].todo, t.copy = relays[s].copy, t.bad = relays[s].bad \ {r}
    PROVE  OB!AttemptsInv'
<1>1. relays[s] \in OB!TaskType /\ OB!Carries(relays[s]) /\ s \in OB!Relayers
  BY SweepCarries
<1>2. /\ relays[s].cur = {} /\ r \notin relays[s].todo /\ r \in Rows
  BY <1>1 DEF OB!Carries, OB!TaskType
<1>3. OB!Carries(t)
  BY <1>1, <1>2, OneIsNotMore DEF OB!Carries
<1>4. relays'[s] = t /\ \A y \in Sweeps : y # s => relays'[y] = relays[y]
  <2>1. relays \in [OB!Relayers -> OB!TaskType] /\ Sweeps \subseteq OB!Relayers
    BY DEF OB!IInv, OB!Shapes, OB!Relayers
  <2> QED BY <2>1
<1>5. \A y \in Sweeps : OB!Carries(relays[y])'
  BY <1>3, <1>4 DEF OB!AttemptsInv, OB!Carries
<1>6. deaths <= deaths'
  BY DEF OB!IInv, OB!Shapes, OB!OutboxAssumption
<1>7. outbox \in [Rows -> RowType]
  BY DEF OB!IInv, OB!Shapes, RowType
<1>8. /\ \A o \in Rows : o # r => outbox'[o] = outbox[o]
      /\ \A o \in Rows : outbox'[o].attempts = outbox[o].attempts
      /\ Pending(r)' => /\ Pending(r)
                        /\ outbox'[r].failed = IF OB!Spent(relays[s].copy[r]) THEN 1 ELSE 0
  <2>1. CASE outbox[r].state = "kept" /\ outbox[r].done = 0
    <3>1. /\ outbox'[r] = [outbox[r] EXCEPT !.failed = IF OB!Spent(relays[s].copy[r]) THEN 1 ELSE 0]
          /\ \A o \in Rows : o # r => outbox'[o] = outbox[o]
      BY <1>2, <1>7, <2>1
    <3>2. /\ outbox'[r].failed = IF OB!Spent(relays[s].copy[r]) THEN 1 ELSE 0
          /\ outbox'[r].attempts = outbox[r].attempts
      BY <1>2, <1>7, <3>1 DEF RowType
    <3> QED BY <2>1, <3>1, <3>2 DEF Pending
  <2>2. CASE ~(outbox[r].state = "kept" /\ outbox[r].done = 0)
    BY <2>2 DEF Pending
  <2> QED BY <2>1, <2>2
<1>9. ASSUME NEW o \in Rows, o # r PROVE OB!RoomFor(o)'
  <2>1. \A y \in Sweeps : SameFor(y, o)
    BY <1>4, <1>9 DEF SameFor, OB!Has
  <2>2. Pending(o)' => Pending(o) /\ outbox'[o].failed = outbox[o].failed
    BY <1>8, <1>9 DEF Pending
  <2> QED BY <1>6, <1>8, <2>1, <2>2, SameHolders, RoomStays
<1>10. OB!Has(s, r) /\ ~OB!Has(s, r)'
  BY <1>2, <1>4 DEF OB!Has
<1>11. \A y \in Sweeps : y # s => SameFor(y, r)
  BY <1>4 DEF SameFor, OB!Has
<1>12. OB!RoomFor(r)'
  <2>1. CASE OB!Spent(relays[s].copy[r])
    <3>1. OB!Early(r)' = OB!Early(r)
      BY <1>10, <1>11, <2>1 DEF OB!Early, SameFor, OB!Spent
    <3> QED BY <1>2, <1>6, <1>8, <2>1, <3>1, RoomStays
  <2>2. CASE ~OB!Spent(relays[s].copy[r])
    <3>1. s \in OB!Early(r) /\ OB!Early(r)' = OB!Early(r) \ {s}
      BY <1>10, <1>11, <2>2 DEF OB!Early, SameFor, OB!Spent
    <3> QED BY <1>2, <1>6, <1>8, <3>1, RoomForAll
  <2> QED BY <2>1, <2>2
<1>13. \A o \in Rows : outbox'[o].attempts <= outbox[o].attempts
  BY <1>8, RowNumbers
<1> QED BY <1>5, <1>6, <1>9, <1>12, <1>13, AttemptsMove

LEMMA RecordCounts ==
    ASSUME OB!OutboxAssumption, OB!IInv, OB!IInv', OB!AttemptsInv, NEW s \in Sweeps,
           OB!RecordFailure(s)
    PROVE  OB!AttemptsInv'
<1>1. relays[s] \in OB!TaskType /\ OB!Carries(relays[s])
  BY SweepCarries
<1>2. relays[s].pc = "record" /\ deaths' = deaths
  BY DEF OB!RecordFailure
<1>3. CASE /\ relays[s].bad = {} /\ UNCHANGED outbox
           /\ relays' = [relays EXCEPT ![s] = [relays[s] EXCEPT !.pc = "next"]]
  <2> DEFINE t == [relays[s] EXCEPT !.pc = "next"]
  <2>1. /\ t.pc = "next" /\ t.cur = relays[s].cur /\ t.unpublished = relays[s].unpublished
        /\ t.bad = relays[s].bad /\ t.todo = relays[s].todo /\ t.copy = relays[s].copy
    BY <1>1 DEF OB!TaskType
  <2> HIDE DEF t
  <2>2. OB!Carries(t)
    BY <1>1, <1>2, <1>3, <2>1 DEF OB!Carries
  <2>3. relays' = [relays EXCEPT ![s] = t]
    BY <1>3 DEF t
  <2> QED BY <1>2, <1>3, <2>1, <2>2, <2>3, SweepKeeps, SameTable
<1>4. ASSUME NEW r \in relays[s].bad,
             outbox' = IF outbox[r].state = "kept" /\ outbox[r].done = 0
                       THEN [outbox EXCEPT ![r].failed = IF OB!Spent(relays[s].copy[r]) THEN 1 ELSE 0]
                       ELSE outbox,
             relays' = [relays EXCEPT ![s] =
                   IF OB!Spent(relays[s].copy[r])
                   THEN [relays[s] EXCEPT !.bad = @ \ {r}, !.pc = "name", !.dead = {r}]
                   ELSE [relays[s] EXCEPT !.bad = @ \ {r}]]
      PROVE  OB!AttemptsInv'
  <2> DEFINE t == IF OB!Spent(relays[s].copy[r])
                  THEN [relays[s] EXCEPT !.bad = @ \ {r}, !.pc = "name", !.dead = {r}]
                  ELSE [relays[s] EXCEPT !.bad = @ \ {r}]
  <2>1. /\ t.pc \in {"record", "name"} /\ t.cur = relays[s].cur
        /\ t.unpublished = relays[s].unpublished
        /\ t.todo = relays[s].todo /\ t.copy = relays[s].copy /\ t.bad = relays[s].bad \ {r}
    BY <1>1, <1>2 DEF OB!TaskType
  <2>2. relays' = [relays EXCEPT ![s] = t]
    BY <1>4
  <2> HIDE DEF t
  <2> QED BY <1>2, <1>4, <2>1, <2>2, FailureIsRecorded
<1> QED BY <1>3, <1>4 DEF OB!RecordFailure

LEMMA DeathCounts ==
    ASSUME OB!OutboxAssumption, OB!IInv, OB!IInv', OB!AttemptsInv, NEW s \in Sweeps,
           OB!SweepDies(s)
    PROVE  OB!AttemptsInv'
<1>1. /\ relays' = [relays EXCEPT ![s] = OB!Idle] /\ deaths' = deaths + 1 /\ outbox' = outbox
  BY DEF OB!SweepDies, OB!Fault
<1>2. relays'[s] = OB!Idle /\ \A y \in Sweeps : y # s => relays'[y] = relays[y]
  <2>1. relays \in [OB!Relayers -> OB!TaskType] /\ Sweeps \subseteq OB!Relayers
    BY DEF OB!IInv, OB!Shapes, OB!Relayers
  <2> QED BY <1>1, <2>1
<1>3. OB!Carries(OB!Idle)
  BY OneIsNotMore DEF OB!Carries, OB!Idle, OB!Task
<1>4. \A y \in Sweeps : OB!Carries(relays[y])'
  BY <1>2, <1>3 DEF OB!AttemptsInv, OB!Carries
<1>5. deaths <= deaths'
  BY <1>1 DEF OB!IInv, OB!Shapes, OB!OutboxAssumption
<1>6. ASSUME NEW r \in Rows PROVE OB!RoomFor(r)'
  <2>1. Pending(r)' => Pending(r)
    BY <1>1 DEF Pending
  <2>2. ~OB!Has(s, r)'
    BY <1>2 DEF OB!Has, OB!Idle, OB!Task
  <2>3. \A y \in Sweeps : y # s => SameFor(y, r)
    BY <1>2 DEF SameFor, OB!Has
  <2>4. CASE s \in OB!Early(r)
    <3>1. OB!Early(r)' = OB!Early(r) \ {s}
      BY <2>2, <2>3, <2>4 DEF OB!Early, SameFor, OB!Spent
    <3> QED BY <1>1, <1>5, <2>1, <2>4, <3>1, RoomForAll
  <2>5. CASE s \notin OB!Early(r)
    <3>1. OB!Early(r)' = OB!Early(r)
      BY <2>2, <2>3, <2>5 DEF OB!Early, SameFor, OB!Spent
    <3>2. OB!Free(r)' = OB!Free(r) \cup {s}
      BY <2>2, <2>3 DEF OB!Free, SameFor
    <3> QED BY <1>1, <2>1, <3>1, <3>2, RoomForOneMore
  <2> QED BY <2>4, <2>5
<1>7. \A r \in Rows : outbox'[r].attempts <= outbox[r].attempts
  BY <1>1, RowNumbers
<1> QED BY <1>4, <1>5, <1>6, <1>7, AttemptsMove

LEMMA DeathsGrow ==
    ASSUME OB!OutboxAssumption, OB!IInv, deaths' = deaths \/ deaths' = deaths + 1
    PROVE  deaths <= deaths'
BY DEF OB!IInv, OB!Shapes, OB!OutboxAssumption

\* A claim adds to the attempts of the rows it takes, and the sweep has them.
LEMMA ClaimCounts ==
    ASSUME OB!OutboxAssumption, OB!IInv, OB!IInv', OB!AttemptsInv, NEW s \in Sweeps, OB!Claim(s)
    PROVE  OB!AttemptsInv'
<1>0. deaths' = deaths
  BY DEF OB!Claim
<1>1. PICK batch \in SUBSET Rows :
         /\ \A r \in batch : OB!Due(r)
         /\ outbox' = [r \in Rows |->
               IF r \in batch
               THEN [outbox[r] EXCEPT !.attempts = @ + 1, !.wait = OB!Backoff(outbox[r].attempts)]
               ELSE outbox[r]]
         /\ relays' = [relays EXCEPT ![s] =
               OB!Deliver(batch, {},
                  [r \in Rows |-> IF r \in batch THEN outbox[r].attempts + 1 ELSE 0])]
         /\ relays[s].pc = "idle" /\ deaths' = deaths
  <2> DEFINE due == {r \in Rows : OB!Due(r)}
             batch == {r \in due : OB!Cardinality({d \in due : d < r}) < Limit}
  <2>1. batch \in SUBSET Rows /\ \A r \in batch : OB!Due(r)
    OBVIOUS
  <2> QED BY <2>1 DEF OB!Claim
<1> DEFINE copy == [r \in Rows |-> IF r \in batch THEN outbox[r].attempts + 1 ELSE 0]
           t == OB!Deliver(batch, {}, copy)
<1>2. /\ relays[s] \in OB!TaskType /\ OB!Carries(relays[s]) /\ s \in OB!Relayers
  BY SweepCarries
<1>3. \A r \in Rows : ~OB!Has(s, r)
  BY <1>1, <1>2 DEF OB!Has, OB!Carries
<1>4. /\ t.pc = "append" /\ t.cur = batch /\ t.todo = {} /\ t.bad = {} /\ t.unpublished = {}
      /\ t.copy = copy
  BY DEF OB!Deliver, OB!Task
<1>5. \A r \in batch : copy[r] = outbox[r].attempts + 1
  OBVIOUS
<1>6. relays' = [relays EXCEPT ![s] = t]
  BY <1>1
<1> HIDE DEF t, copy
<1>7. relays'[s] = t /\ \A y \in Sweeps : y # s => relays'[y] = relays[y]
  <2>1. relays \in [OB!Relayers -> OB!TaskType] /\ Sweeps \subseteq OB!Relayers
    BY DEF OB!IInv, OB!Shapes, OB!Relayers
  <2> QED BY <1>6, <2>1
<1>8. OB!Carries(t)
  BY <1>4 DEF OB!Carries
<1>9. \A y \in Sweeps : OB!Carries(relays[y])'
  BY <1>7, <1>8 DEF OB!AttemptsInv, OB!Carries
<1>10. ASSUME NEW r \in Rows, r \in batch
       PROVE  /\ OB!RoomFor(r)'
              /\ outbox'[r].attempts = outbox[r].attempts + 1
              /\ outbox'[r].state = "kept" /\ outbox'[r].done = 0 /\ outbox'[r].failed = 0
  <2>1. outbox[r] \in RowType /\ OB!Due(r)
    BY <1>1, <1>10 DEF OB!IInv, OB!Shapes, RowType
  <2>2. PICK d : outbox'[r] = [outbox[r] EXCEPT !.attempts = outbox[r].attempts + 1, !.wait = d]
    BY <1>1, <1>10
  <2>3. /\ outbox'[r].attempts = outbox[r].attempts + 1 /\ outbox'[r].failed = 0
        /\ outbox'[r].state = "kept" /\ outbox'[r].done = 0
        /\ outbox[r].state = "kept" /\ outbox[r].done = 0 /\ outbox[r].failed = 0
    BY <2>1, <2>2 DEF RowType, OB!Due
  <2>4. s \in OB!Free(r) /\ OB!Has(s, r)' /\ relays'[s].copy[r] = outbox[r].attempts + 1
    BY <1>3, <1>4, <1>5, <1>7, <1>10 DEF OB!Free, OB!Has
  <2>5. \A y \in Sweeps : y # s => SameFor(y, r)
    BY <1>7 DEF SameFor, OB!Has
  <2>6. OB!Free(r)' = OB!Free(r) \ {s}
    BY <2>4, <2>5 DEF OB!Free, SameFor
  <2>7. ASSUME OB!Spent(outbox[r].attempts + 1) PROVE OB!Early(r)' = OB!Early(r)
    BY <1>3, <2>4, <2>5, <2>7 DEF OB!Early, SameFor, OB!Spent
  <2>8. OB!RoomFor(r)'
    BY <1>1, <2>3, <2>4, <2>6, <2>7, RoomForClaim
  <2> QED BY <2>3, <2>8
<1>11. ASSUME NEW r \in Rows, r \notin batch
       PROVE  OB!RoomFor(r)' /\ outbox'[r] = outbox[r]
  <2>1. outbox'[r] = outbox[r]
    BY <1>1, <1>11
  <2>2. \A y \in Sweeps : SameFor(y, r)
    BY <1>3, <1>4, <1>7, <1>11 DEF SameFor, OB!Has
  <2>3. Pending(r)' => Pending(r)
    BY <2>1 DEF Pending
  <2>4. deaths <= deaths'
    BY <1>0, DeathsGrow
  <2> QED BY <2>1, <2>2, <2>3, <2>4, SameHolders, RoomStays
<1>12. ASSUME NEW r \in Rows PROVE outbox'[r].attempts <= OB!AttemptsBound'
  <2> DEFINE q == OB!Cardinality(Sweeps) * (OB!Cardinality(Sweeps) - 1)
             p == OB!Cardinality(Sweeps) * OB!Cardinality(OB!Early(r)')
             g == OB!Cardinality(OB!Free(r)')
  <2>1. q \in Nat /\ p \in Nat /\ g \in Nat
    <3>1. OB!Cardinality(Sweeps) \in Nat /\ OB!Cardinality(OB!Early(r)') \in Nat /\ g \in Nat
      BY SweepsAreCounted, SweepsAreCountedNext
    <3>2. p \in Nat
      BY <3>1
    <3>3. CASE OB!Cardinality(Sweeps) = 0
      BY <3>1, <3>2, <3>3
    <3>4. CASE OB!Cardinality(Sweeps) # 0
      BY <3>1, <3>2, <3>4
    <3> QED BY <3>3, <3>4
  <2>2. CASE r \in batch
    <3>1. CASE outbox'[r].attempts >= MaxAttempts
      <4>1. outbox'[r].attempts + p + g <= MaxAttempts + q + deaths'
        BY <1>10, <2>2, <3>1 DEF OB!RoomFor, OB!AttemptsBound
      <4> HIDE DEF p, q, g
      <4>2. outbox'[r].attempts <= MaxAttempts + q + deaths'
        BY <2>1, <4>1, RowNumbers
      <4> QED BY <4>2 DEF q, OB!AttemptsBound
    <3>2. CASE ~(outbox'[r].attempts >= MaxAttempts)
      <4> HIDE DEF p, q, g
      <4>1. outbox'[r].attempts <= MaxAttempts + q + deaths'
        BY <2>1, <3>2, RowNumbers
      <4> QED BY <4>1 DEF q, OB!AttemptsBound
    <3> QED BY <3>1, <3>2
  <2>3. CASE r \notin batch
    <3>1. outbox[r].attempts <= OB!AttemptsBound /\ OB!AttemptsBound' = OB!AttemptsBound
      BY <1>1 DEF OB!AttemptsInv, OB!TypeOK, OB!AttemptsBound
    <3> QED BY <1>11, <2>3, <3>1
  <2> QED BY <2>2, <2>3
<1> QED BY <1>9, <1>10, <1>11, <1>12 DEF OB!AttemptsInv, OB!TypeOK, OB!IInv

LEMMA SweepCounts ==
    ASSUME OB!OutboxAssumption, OB!IInv, OB!IInv', OB!AttemptsInv, NEW s \in Sweeps,
           OB!Claim(s) \/ OB!SweepStep(s) \/ OB!SweepDies(s)
    PROVE  OB!AttemptsInv'
BY ClaimCounts, AppendCounts, PublishCounts, EnqueueCounts, MarkCounts, NextRowCounts,
   RecordCounts, NameCounts, DeathCounts DEF OB!SweepStep, OB!DeliverStep

\* A task of the request path is none of a sweep.
LEMMA HandIsNoSweep ==
    ASSUME OB!OutboxAssumption, OB!IInv, NEW h \in Hands, NEW t,
           relays' = [relays EXCEPT ![h] = t]
    PROVE  \A s \in Sweeps : relays'[s] = relays[s]
BY DEF OB!OutboxAssumption, OB!IInv, OB!Shapes, OB!Relayers

LEMMA HandCounts ==
    ASSUME OB!OutboxAssumption, OB!IInv, OB!IInv', OB!AttemptsInv, NEW h \in Hands,
           OB!DeliverStep(h)
    PROVE  OB!AttemptsInv'
<1>1. deaths <= deaths'
  <2>1. deaths' = deaths
    BY DEF OB!DeliverStep, OB!Append, OB!Publish, OB!Enqueue, OB!MarkDone
  <2> QED BY <2>1 DEF OB!IInv, OB!Shapes, OB!OutboxAssumption
<1>2. \A s \in Sweeps : relays'[s] = relays[s]
  <2>1. CASE OB!Append(h)
    BY <2>1, HandIsNoSweep DEF OB!Append
  <2>2. CASE OB!Publish(h)
    <3>1. PICK t : relays' = [relays EXCEPT ![h] = t]
      BY <2>2 DEF OB!Publish
    <3> QED BY <3>1, HandIsNoSweep
  <2>3. CASE OB!Enqueue(h)
    BY <2>3, HandIsNoSweep DEF OB!Enqueue
  <2>4. CASE OB!MarkDone(h)
    BY <2>4, HandIsNoSweep DEF OB!MarkDone
  <2> QED BY <2>1, <2>2, <2>3, <2>4 DEF OB!DeliverStep
<1>3. RowsKeep
  <2>1. CASE outbox' = outbox
    BY <2>1, SameTable
  <2>2. CASE OB!MarkDone(h)
    BY <2>2, MarkLeaves, SameTable DEF OB!MarkDone
  <2> QED BY <2>1, <2>2 DEF OB!DeliverStep, OB!Append, OB!Publish, OB!Enqueue
<1>4. \A r \in Rows : outbox'[r].attempts <= outbox[r].attempts
  BY <1>3, RowNumbers DEF RowsKeep
<1> QED BY <1>1, <1>2, <1>3, <1>4, RequestQuiet DEF RowsKeep

\* A step that changes rows beside their attempts, or makes one new.
LEMMA WriteCounts ==
    ASSUME OB!OutboxAssumption, OB!IInv, OB!IInv', OB!AttemptsInv, NEW r \in Rows, OB!Write(r)
    PROVE  OB!AttemptsInv'
<1>1. deaths <= deaths'
  <2>1. deaths' = deaths \/ deaths' = deaths + 1
    BY DEF OB!Write, OB!Fault
  <2> QED BY <2>1 DEF OB!IInv, OB!Shapes, OB!OutboxAssumption
<1>2. \A s \in Sweeps : relays'[s] = relays[s]
  BY HandIsNoSweep DEF OB!Write
<1>3. /\ outbox'[r].attempts = 0 /\ \A o \in Rows : o # r => outbox'[o] = outbox[o]
  <2>1. outbox \in [Rows -> RowType]
    BY DEF OB!IInv, OB!Shapes, RowType
  <2>2. outbox' = [outbox EXCEPT ![r] = OB!Row("kept", 0, 0, 0, 0, Grace)]
    BY DEF OB!Write
  <2>3. outbox'[r] = OB!Row("kept", 0, 0, 0, 0, Grace)
        /\ \A o \in Rows : o # r => outbox'[o] = outbox[o]
    BY <2>1, <2>2
  <2> QED BY <2>3 DEF OB!Row
<1>4. ~Pending(r)' /\ \A o \in Rows : o # r => (Pending(o)' => Pending(o))
  BY <1>3 DEF Pending, OB!OutboxAssumption
<1>5. \A o \in Rows : outbox'[o].attempts <= outbox[o].attempts \/ outbox'[o].attempts = 0
  BY <1>3, RowNumbers
<1> QED BY <1>1, <1>2, <1>3, <1>4, <1>5, RequestQuiet

LEMMA PurgeCounts ==
    ASSUME OB!OutboxAssumption, OB!IInv, OB!IInv', OB!AttemptsInv, NEW r \in Rows, OB!Purge(r)
    PROVE  OB!AttemptsInv'
<1>1. deaths <= deaths' /\ \A s \in Sweeps : relays'[s] = relays[s]
  BY DEF OB!Purge, OB!IInv, OB!Shapes, OB!OutboxAssumption
<1>2. /\ outbox'[r].attempts = 0 /\ outbox'[r].state = "purged"
      /\ \A o \in Rows : o # r => outbox'[o] = outbox[o]
  <2>1. outbox \in [Rows -> RowType]
    BY DEF OB!IInv, OB!Shapes, RowType
  <2>2. outbox' = [outbox EXCEPT ![r] = OB!Row("purged", 0, 0, 0, 0, 0)]
    BY DEF OB!Purge
  <2>3. outbox'[r] = OB!Row("purged", 0, 0, 0, 0, 0)
        /\ \A o \in Rows : o # r => outbox'[o] = outbox[o]
    BY <2>1, <2>2
  <2> QED BY <2>3 DEF OB!Row
<1>3. ~Pending(r)' /\ \A o \in Rows : o # r => (Pending(o)' => Pending(o))
  BY <1>2 DEF Pending
<1>4. \A o \in Rows : outbox'[o].attempts <= outbox[o].attempts \/ outbox'[o].attempts = 0
  BY <1>2, RowNumbers
<1> QED BY <1>1, <1>2, <1>3, <1>4, RequestQuiet

LEMMA TickCounts ==
    ASSUME OB!OutboxAssumption, OB!IInv, OB!IInv', OB!AttemptsInv, OB!Tick
    PROVE  OB!AttemptsInv'
<1>1. deaths <= deaths' /\ \A s \in Sweeps : relays'[s] = relays[s]
  <2>1. deaths' = deaths /\ relays' = relays
    BY DEF OB!Tick
  <2> QED BY <2>1, DeathsGrow
<1>2. ASSUME NEW r \in Rows
      PROVE  /\ outbox'[r].attempts = outbox[r].attempts /\ outbox'[r].failed = outbox[r].failed
             /\ Pending(r)' => Pending(r)
  <2>1. outbox[r] \in RowType
    BY DEF OB!IInv, OB!Shapes, RowType
  <2>2. PICK w, g : outbox'[r] = [outbox[r] EXCEPT !.wait = w, !.grace = g]
    BY DEF OB!Tick
  <2>3. /\ outbox'[r].attempts = outbox[r].attempts /\ outbox'[r].failed = outbox[r].failed
        /\ outbox'[r].state = outbox[r].state /\ outbox'[r].done = outbox[r].done
    BY <2>1, <2>2 DEF RowType
  <2> QED BY <2>3 DEF Pending
<1>3. \A o \in Rows : outbox'[o].attempts <= outbox[o].attempts
  BY <1>2, RowNumbers
<1> QED BY <1>1, <1>2, <1>3, RequestQuiet

LEMMA HoldsCount ==
    ASSUME OB!OutboxAssumption, OB!IInv, OB!IInv', OB!AttemptsInv,
           \/ \E q \in Requests : OB!Hold(q) \/ OB!Release(q) \/ OB!Abandon(q)
           \/ OB!ApiDies
           \/ UNCHANGED OB!vars
    PROVE  OB!AttemptsInv'
<1>1. outbox' = outbox
  BY DEF OB!Hold, OB!Release, OB!Abandon, OB!ApiDies, OB!vars
<1>2. deaths <= deaths'
  <2>1. deaths' = deaths \/ deaths' = deaths + 1
    BY DEF OB!Hold, OB!Release, OB!Abandon, OB!ApiDies, OB!vars, OB!Fault
  <2> QED BY <2>1 DEF OB!IInv, OB!Shapes, OB!OutboxAssumption
<1>3. \A s \in Sweeps : relays'[s] = relays[s]
  <2>1. CASE OB!ApiDies
    BY <2>1 DEF OB!ApiDies, OB!Relayers, OB!OutboxAssumption
  <2>2. CASE \E q \in Requests : OB!Release(q)
    BY <2>2, HandIsNoSweep DEF OB!Release
  <2>3. CASE UNCHANGED relays
    BY <2>3
  <2> QED BY <2>1, <2>2, <2>3 DEF OB!Hold, OB!Abandon, OB!vars
<1> QED BY <1>1, <1>2, <1>3, TableQuiet

LEMMA AttemptsInit == ASSUME OB!OutboxAssumption, OB!Init PROVE OB!AttemptsInv
<1>1. OB!IInv
  BY OutboxInit
<1>2. \A r \in Rows : outbox[r].attempts = 0 /\ outbox[r].state = "unwritten"
  BY DEF OB!Init, OB!Row
<1>3. \A s \in Sweeps : OB!Carries(relays[s])
  BY OneIsNotMore DEF OB!Init, OB!Carries, OB!Idle, OB!Task, OB!Relayers
<1>4. \A r \in Rows : OB!RoomFor(r)
  BY <1>2 DEF OB!RoomFor
<1>5. ASSUME NEW r \in Rows PROVE outbox[r].attempts <= OB!AttemptsBound
  <2> DEFINE q == OB!Cardinality(Sweeps) * (OB!Cardinality(Sweeps) - 1)
  <2>1. q \in Nat
    <3>1. OB!Cardinality(Sweeps) \in Nat
      BY SweepsAreCounted
    <3>2. CASE OB!Cardinality(Sweeps) = 0
      BY <3>2
    <3>3. CASE OB!Cardinality(Sweeps) # 0
      BY <3>1, <3>3
    <3> QED BY <3>2, <3>3
  <2>2. MaxAttempts \in Nat /\ deaths \in Nat
    BY <1>1 DEF OB!IInv, OB!Shapes, OB!OutboxAssumption
  <2> HIDE DEF q
  <2>3. 0 <= MaxAttempts + q + deaths
    BY <2>1, <2>2
  <2> QED BY <1>2, <2>3 DEF q, OB!AttemptsBound
<1> QED BY <1>1, <1>3, <1>4, <1>5 DEF OB!AttemptsInv, OB!TypeOK, OB!IInv

LEMMA AttemptsNext ==
    ASSUME OB!OutboxAssumption, OB!IInv, OB!IInv', OB!AttemptsInv, [OB!Next]_(OB!vars)
    PROVE  OB!AttemptsInv'
BY SweepCounts, HandCounts, WriteCounts, PurgeCounts, TickCounts, HoldsCount DEF OB!Next

\* A row is claimed past max_attempts only as often as the sweeps at work on it, those
\* that died, and the earlier attempts they may yet record allow.
THEOREM OutboxTyped == ASSUME OB!OutboxAssumption PROVE OB!Spec => []OB!TypeOK
<1>1. OB!Init => OB!AttemptsInv
  BY AttemptsInit
<1>2. OB!IInv /\ OB!IInv' /\ OB!AttemptsInv /\ [OB!Next]_(OB!vars) => OB!AttemptsInv'
  BY AttemptsNext
<1>3. OB!AttemptsInv => OB!TypeOK
  BY DEF OB!AttemptsInv
<1> QED BY <1>1, <1>2, <1>3, OutboxInvariant, PTL DEF OB!Spec
=============================================================================
