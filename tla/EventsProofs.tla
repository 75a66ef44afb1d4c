---------------------------- MODULE EventsProofs ----------------------------
(***************************************************************************)
(* A tenant's stream is gapless above its floor, two calls that append one *)
(* event answer one number, and a page that leaves has no hole: for every  *)
(* number of events, appends, trims and readers, and all limits.           *)
(*                                                                         *)
(* None of the three is inductive. The numbers of a batch are those above  *)
(* the head only because its statement has had the head's lock since it    *)
(* read it (WriterHasTheCursor). The trim takes every number up to its top *)
(* only because its snapshot, older than its lock, has every event below   *)
(* one it has (SnapshotsAreBelow): that holds since an event that is       *)
(* trimmed is never appended again, for which calls are young              *)
(* (CallsAreYoung). And what a call answers stays stored until it is told  *)
(* (CallsAreRight).                                                        *)
(*                                                                         *)
(* The same invariant makes every step one of the abstract stream's: a     *)
(* commit appends its events in order, a trim cuts the front, and whatever *)
(* else happens leaves the log.                                            *)
(***************************************************************************)
EXTENDS ChangeEvents, Sequences, FiniteSetTheorems, FunctionTheorems, TLAPS

-----------------------------------------------------------------------------
\* The stream.

TrimType == [pc : {"idle", "locking"}, seen : SUBSET Ids, before : Nat]
ReaderType == [pc : {"idle", "page"}, after : Nat, page : SUBSET Nat]

\* A set of ids is finite.
LEMMA IdsAreFinite ==
    ASSUME NEW S, S \subseteq Ids
    PROVE  IsFiniteSet(S) /\ Cardinality(S) \in Nat
BY FS_Subset, FS_CardinalityType, StreamAssumption

\* An event is stored under a number above zero.
LEMMA StoredNumbers ==
    ASSUME TypeOK
    PROVE  /\ Stored \subseteq Ids
           /\ \A i \in Ids : seqOf[i] \in Nat /\ (i \in Stored <=> seqOf[i] > 0)
BY DEF TypeOK, Stored

\* A call that holds nothing.
LEMMA NoCallIsCall ==
    /\ NoCall \in CallType /\ NoCall.pc = "idle"
    /\ CallIsYoung(NoCall) /\ CallIsRight(NoCall)
<1>1. Unnumbered \in [Ids -> Nat]
  BY DEF Unnumbered
<1> QED BY <1>1 DEF NoCall, Call, CallType, CallIsYoung, CallIsRight

\* How many numbers there are from one after a to k after a.
LEMMA IntervalAfter ==
    ASSUME NEW a \in Nat, NEW k \in Nat
    PROVE  IsFiniteSet(a + 1 .. a + k) /\ Cardinality(a + 1 .. a + k) = k
<1> DEFINE lo == a + 1
           hi == a + k
<1>1. lo \in Int /\ hi \in Int /\ (lo > hi <=> k = 0) /\ hi - lo + 1 = k
  OBVIOUS
<1> HIDE DEF lo, hi
<1>2. IsFiniteSet(lo..hi) /\ Cardinality(lo..hi) = IF lo > hi THEN 0 ELSE hi - lo + 1
  BY <1>1, FS_Interval
<1>3. Cardinality(lo..hi) = k
  BY <1>1, <1>2
<1> QED BY <1>2, <1>3 DEF lo, hi

\* The numbers of a batch are the ones after its base, each once.
LEMMA NumberingIsOnto ==
    ASSUME NEW r \in CallType, NEW n \in Numbering(r)
    PROVE  /\ \A i, j \in r.fresh : n[i] = n[j] => i = j
           /\ {n[i] : i \in r.fresh} = r.base + 1 .. r.base + Cardinality(r.fresh)
<1> DEFINE T == r.base + 1 .. r.base + Cardinality(r.fresh)
<1>1. /\ r.fresh \subseteq Ids /\ r.base \in Nat
      /\ IsFiniteSet(r.fresh) /\ Cardinality(r.fresh) \in Nat
  BY IdsAreFinite DEF CallType
<1>2. n \in [r.fresh -> T] /\ \A i, j \in r.fresh : i < j => n[i] < n[j]
  BY DEF Numbering
<1>3. IsFiniteSet(T) /\ Cardinality(T) = Cardinality(r.fresh)
  BY <1>1, IntervalAfter
<1>4. ASSUME NEW i \in r.fresh, NEW j \in r.fresh, n[i] = n[j]
      PROVE  i = j
  <2>1. i \in Nat /\ j \in Nat
    BY <1>1, StreamAssumption
  <2>2. n[i] \in Int /\ n[j] \in Int
    BY <1>1, <1>2
  <2>3. ~(i < j) /\ ~(j < i)
    BY <1>2, <1>4, <2>2
  <2> QED BY <2>1, <2>3
<1>5. n \in Injection(r.fresh, T)
  BY <1>2, <1>4 DEF Injection, IsInjective
<1>6. n \in Surjection(r.fresh, T)
  BY <1>1, <1>3, <1>5, FS_Injection
<1>7. {n[i] : i \in r.fresh} = T
  BY <1>2, <1>6 DEF Surjection
<1> QED BY <1>4, <1>7

-----------------------------------------------------------------------------
(* The append.                                                             *)

\* A call moves on, and the table, the cursor and everyone else stay.
LEMMA CallMoves ==
    ASSUME IInv, NEW p \in Appenders, NEW r \in CallType,
           apps' = [apps EXCEPT ![p] = r],
           UNCHANGED <<seqOf, head, floor, trims, readers, cutoff, purge, life>>,
           CallIsYoung(r), life = "live" => CallIsRight(r),
           \/ r.pc = "writing" /\ lock' = p /\ r.base = head /\ lock \in {p, Free}
           \/ r.pc # "writing" /\ lock' = IF lock = p THEN Free ELSE lock
    PROVE  IInv'
<1>1. /\ apps' \in [Appenders -> CallType] /\ apps'[p] = r
      /\ \A q \in Appenders \ {p} : apps'[q] = apps[q]
  BY DEF IInv, TypeOK
<1>2. lock' \in Appenders \cup {Free}
  BY DEF IInv, TypeOK
<1>3. TypeOK'
  BY <1>1, <1>2 DEF IInv, TypeOK
<1>4. LockIsReleased' /\ WriterHasTheCursor'
  <2>1. Free \notin Appenders /\ lock \in Appenders \cup {Free}
    BY StreamAssumption DEF IInv, TypeOK
  <2>2. \A q \in Appenders : apps[q].pc = "writing" => lock = q /\ apps[q].base = head
    BY DEF IInv, WriterHasTheCursor
  <2>3. lock # Free => apps[lock].pc = "writing"
    BY DEF IInv, LockIsReleased
  <2>4. LockIsReleased'
    BY <1>1, <2>1, <2>3 DEF LockIsReleased
  <2>5. WriterHasTheCursor'
    BY <1>1, <2>1, <2>2 DEF WriterHasTheCursor
  <2> QED BY <2>4, <2>5
<1>5. CallsAreYoung'
  BY <1>1 DEF IInv, CallsAreYoung, CallIsYoung
<1>6. CallsAreRight'
  BY <1>1 DEF IInv, CallsAreRight, CallIsRight, Stored
<1>7. GaplessAboveFloor' /\ SnapshotsAreBelow' /\ ReaderMissesNothing' /\ LifeRules'
  BY DEF IInv, GaplessAboveFloor, SnapshotsAreBelow, SnapshotIsBelow, ReaderMissesNothing,
         Truncated, LifeRules, Stored
<1> QED BY <1>3, <1>4, <1>5, <1>6, <1>7 DEF IInv

\* What a call holds.
LEMMA CallFacts ==
    ASSUME IInv, NEW p \in Appenders
    PROVE  /\ apps[p] \in CallType /\ CallIsYoung(apps[p])
           /\ life = "live" => CallIsRight(apps[p])
           /\ apps[p].pc # "writing" => lock # p
BY StreamAssumption DEF IInv, TypeOK, CallsAreYoung, CallsAreRight, LockIsReleased

LEMMA BeginsStep == ASSUME IInv, NEW p \in Appenders, AppendBegins(p) PROVE IInv'
<1>1. PICK batch \in SUBSET {i \in Ids : i > cutoff} :
            apps' = [apps EXCEPT ![p] = Call("reading", batch, batch)]
  BY DEF AppendBegins
<1> DEFINE r == Call("reading", batch, batch)
<1>2. r \in CallType /\ r.pc = "reading" /\ CallIsYoung(r) /\ CallIsRight(r)
  <2>1. Unnumbered \in [Ids -> Nat]
    BY DEF Unnumbered
  <2> QED BY <2>1 DEF Call, CallType, CallIsYoung, CallIsRight
<1>3. lock # p
  BY CallFacts DEF AppendBegins
<1> HIDE DEF r
<1>4. apps' = [apps EXCEPT ![p] = r]
  BY <1>1 DEF r
<1> QED BY <1>2, <1>3, <1>4, CallMoves DEF AppendBegins

LEMMA ReadsStep == ASSUME IInv, NEW p \in Appenders, AppendReads(p) PROVE IInv'
<1> DEFINE fresh == Fresh(apps[p].todo)
           r == [apps[p] EXCEPT !.fresh = fresh,
                                !.pc = IF fresh = {} THEN "skipping" ELSE "waiting"]
<1>1. /\ apps[p] \in CallType /\ CallIsYoung(apps[p]) /\ apps[p].pc = "reading" /\ lock # p
      /\ life = "live" => CallIsRight(apps[p])
  BY CallFacts DEF AppendReads
<1>2. /\ fresh \subseteq apps[p].todo /\ apps[p].todo \subseteq Ids
      /\ apps[p].todo \ fresh \subseteq Stored
  BY <1>1 DEF Fresh, Stored, CallType
<1>3. apps' = [apps EXCEPT ![p] = r]
  BY DEF AppendReads, IInv, TypeOK
<1>4. /\ r \in CallType /\ r.pc \in {"skipping", "waiting"} /\ r.fresh = fresh
      /\ r.todo = apps[p].todo /\ r.batch = apps[p].batch /\ r.got = apps[p].got
      /\ r.pc = "skipping" => fresh = {}
  BY <1>1, <1>2 DEF CallType
<1> HIDE DEF fresh, r
<1>5. CallIsYoung(r)
  BY <1>1, <1>2, <1>4 DEF CallIsYoung
<1>6. life = "live" => CallIsRight(r)
  BY <1>1, <1>2, <1>4 DEF CallIsRight
<1> QED BY <1>1, <1>3, <1>4, <1>5, <1>6, CallMoves DEF AppendReads

LEMMA ReservesStep == ASSUME IInv, NEW p \in Appenders, AppendReserves(p) PROVE IInv'
<1> DEFINE r == [apps[p] EXCEPT !.pc = "writing", !.base = head]
<1>1. /\ apps[p] \in CallType /\ CallIsYoung(apps[p]) /\ apps[p].pc = "waiting"
      /\ life = "live" => CallIsRight(apps[p])
  BY CallFacts DEF AppendReserves
<1>2. apps' = [apps EXCEPT ![p] = r]
  BY DEF AppendReserves, IInv, TypeOK
<1>3. head \in Nat
  BY DEF IInv, TypeOK
<1>4. /\ r \in CallType /\ r.pc = "writing" /\ r.fresh = apps[p].fresh /\ r.base = head
      /\ r.todo = apps[p].todo /\ r.batch = apps[p].batch /\ r.got = apps[p].got
  BY <1>1, <1>3 DEF CallType
<1> HIDE DEF r
<1>5. CallIsYoung(r) /\ (life = "live" => CallIsRight(r))
  BY <1>1, <1>4 DEF CallIsYoung, CallIsRight
<1> QED BY <1>2, <1>4, <1>5, CallMoves DEF AppendReserves

LEMMA RollsBackStep == ASSUME IInv, NEW p \in Appenders, AppendRollsBack(p) PROVE IInv'
<1> DEFINE r == [apps[p] EXCEPT !.pc = "refused"]
<1>1. /\ apps[p] \in CallType /\ CallIsYoung(apps[p]) /\ apps[p].pc = "writing"
      /\ life = "live" => CallIsRight(apps[p])
  BY CallFacts DEF AppendRollsBack
<1>2. apps' = [apps EXCEPT ![p] = r]
  BY DEF AppendRollsBack, IInv, TypeOK
<1>3. /\ r \in CallType /\ r.pc = "refused" /\ r.fresh = apps[p].fresh
      /\ r.todo = apps[p].todo /\ r.batch = apps[p].batch /\ r.got = apps[p].got
  BY <1>1 DEF CallType
<1> HIDE DEF r
<1>4. CallIsYoung(r) /\ (life = "live" => CallIsRight(r))
  BY <1>1, <1>3 DEF CallIsYoung, CallIsRight
<1>5. lock = p
  BY <1>1 DEF IInv, WriterHasTheCursor
<1> QED BY <1>2, <1>3, <1>4, <1>5, CallMoves DEF AppendRollsBack

\* The call is over, whatever it held.
LEMMA EndsStep ==
    ASSUME IInv, NEW p \in Appenders, AppendRaises(p) \/ AppendEnds(p)
    PROVE  IInv'
<1>1. /\ apps' = [apps EXCEPT ![p] = NoCall]
      /\ UNCHANGED <<seqOf, head, floor, trims, readers, cutoff, purge, life>>
  BY DEF AppendRaises, AppendEnds
<1>2. lock' = IF lock = p THEN Free ELSE lock
  <2>1. CASE AppendRaises(p)
    BY <2>1 DEF AppendRaises, IInv, WriterHasTheCursor
  <2>2. CASE AppendEnds(p)
    BY <2>2 DEF AppendEnds
  <2> QED BY <2>1, <2>2
<1> QED BY <1>1, <1>2, NoCallIsCall, CallMoves

LEMMA ReadsBackStep == ASSUME IInv, NEW p \in Appenders, AppendReadsBack(p) PROVE IInv'
<1> DEFINE found == apps[p].todo \cap Stored
           got == [i \in Ids |-> IF i \in found THEN seqOf[i] ELSE apps[p].got[i]]
           pc == IF apps[p].pc = "refused" /\ apps[p].todo # found THEN "reading" ELSE "done"
           r == [apps[p] EXCEPT !.got = got, !.todo = apps[p].todo \ found, !.pc = pc]
<1>1. /\ apps[p] \in CallType /\ CallIsYoung(apps[p]) /\ lock # p
      /\ apps[p].pc \in {"refused", "skipping"}
      /\ life = "live" => CallIsRight(apps[p])
  BY CallFacts DEF AppendReadsBack
<1>2. CASE apps' = [apps EXCEPT ![p] = NoCall]
  BY <1>1, <1>2, NoCallIsCall, CallMoves DEF AppendReadsBack
<1>3. CASE apps' = [apps EXCEPT ![p] = r]
  <2>1. got \in [Ids -> Nat] /\ \A i \in found : got[i] = seqOf[i] /\ got[i] # 0
    BY <1>1 DEF IInv, TypeOK, CallType, Stored
  <2>2. \A i \in Ids \ found : got[i] = apps[p].got[i]
    OBVIOUS
  <2>3. pc \in {"reading", "done"} /\ (pc = "done" => apps[p].pc = "skipping" \/ apps[p].todo = found)
    BY <1>1
  <2>4. apps[p].todo \subseteq Ids /\ found \subseteq apps[p].todo
    BY <1>1 DEF CallType
  <2> HIDE DEF got, pc
  <2>5. /\ r \in CallType /\ r.pc = pc /\ r.todo = apps[p].todo \ found /\ r.got = got
        /\ r.batch = apps[p].batch /\ r.fresh = apps[p].fresh
    BY <1>1, <2>1, <2>3, <2>4 DEF CallType
  <2> HIDE DEF r
  <2>6. CallIsYoung(r)
    BY <1>1, <2>5 DEF CallIsYoung
  <2>7. ASSUME life = "live" PROVE CallIsRight(r)
    <3>1. \A i \in r.batch \ r.todo : r.got[i] # 0 /\ r.got[i] = seqOf[i]
      BY <1>1, <2>1, <2>2, <2>5, <2>7 DEF CallIsRight, CallType
    <3>2. r.pc = "done" => r.todo = {}
      BY <1>1, <2>3, <2>5, <2>7 DEF CallIsRight
    <3> QED BY <2>3, <2>5, <3>1, <3>2 DEF CallIsRight
  <2>8. r.pc # "writing"
    BY <2>3, <2>5
  <2> QED BY <1>1, <1>3, <2>5, <2>6, <2>7, <2>8, CallMoves DEF AppendReadsBack
<1>4. apps' = [apps EXCEPT ![p] = NoCall] \/ apps' = [apps EXCEPT ![p] = r]
  BY DEF AppendReadsBack, IInv, TypeOK
<1> QED BY <1>2, <1>3, <1>4

\* The insert commits: its numbers are the next ones, and nothing that is stored
\* moves.
LEMMA CommitsStep == ASSUME IInv, NEW p \in Appenders, AppendCommits(p) PROVE IInv'
<1> DEFINE r == apps[p]
<1>1. /\ r \in CallType /\ CallIsYoung(r) /\ r.pc = "writing" /\ lock = p /\ r.base = head
      /\ life = "live" => CallIsRight(r)
      /\ head \in Nat /\ floor \in Nat
  BY CallFacts DEF AppendCommits, IInv, WriterHasTheCursor, TypeOK
<1>2. /\ r.fresh \subseteq Ids /\ IsFiniteSet(r.fresh) /\ Cardinality(r.fresh) \in Nat
      /\ \A i \in r.fresh : seqOf[i] = 0 /\ i > cutoff /\ i \notin Stored
  BY <1>1, IdsAreFinite DEF AppendCommits, Conflicts, CallType, CallIsYoung, Stored
<1> DEFINE k == Cardinality(r.fresh)
<1>3. PICK n \in Numbering(r) :
        /\ seqOf' = [i \in Ids |-> IF i \in r.fresh THEN n[i] ELSE seqOf[i]]
        /\ apps' = [apps EXCEPT
              ![p].got = [i \in Ids |-> IF i \in r.fresh THEN n[i] ELSE @[i]],
              ![p].todo = r.todo \ r.fresh,
              ![p].pc = IF r.todo = r.fresh THEN "done" ELSE "skipping"]
  BY DEF AppendCommits
<1>4. /\ \A i, j \in r.fresh : n[i] = n[j] => i = j
      /\ {n[i] : i \in r.fresh} = head + 1 .. head + k
  BY <1>1, NumberingIsOnto
<1>5. \A i \in r.fresh : n[i] \in Nat /\ n[i] > head /\ n[i] <= head + k
  <2> HIDE DEF k
  <2> SUFFICES ASSUME NEW i \in r.fresh
               PROVE  n[i] \in Nat /\ n[i] > head /\ n[i] <= head + k
    OBVIOUS
  <2>1. n[i] \in head + 1 .. head + k
    BY <1>4
  <2>2. k \in Nat
    BY <1>2 DEF k
  <2> QED BY <1>1, <2>1, <2>2
<1>6. /\ head' = head + k /\ lock' = Free
      /\ UNCHANGED <<floor, trims, readers, cutoff, purge, life>>
  BY <1>1 DEF AppendCommits, Size
<1>7. /\ \A i \in r.fresh : seqOf'[i] = n[i] /\ seqOf'[i] # 0
      /\ \A i \in Ids \ r.fresh : seqOf'[i] = seqOf[i]
      /\ seqOf' \in [Ids -> Nat]
  <2>1. \A i \in Ids : seqOf[i] \in Nat
    BY DEF IInv, TypeOK
  <2>2. \A i \in r.fresh : n[i] \in Nat /\ n[i] # 0 /\ i \in Ids
    BY <1>1, <1>2, <1>5
  <2>3. seqOf' = [i \in Ids |-> IF i \in r.fresh THEN n[i] ELSE seqOf[i]]
    BY <1>3
  <2> HIDE DEF r
  <2> QED BY <2>1, <2>2, <2>3
<1>8. Stored' = Stored \cup r.fresh
  BY <1>2, <1>7 DEF Stored
<1> DEFINE got == [i \in Ids |-> IF i \in r.fresh THEN n[i] ELSE r.got[i]]
           pc == IF r.todo = r.fresh THEN "done" ELSE "skipping"
           q == [r EXCEPT !.got = got, !.todo = r.todo \ r.fresh, !.pc = pc]
<1>9. got \in [Ids -> Nat] /\ pc \in {"done", "skipping"}
  BY <1>1, <1>5 DEF CallType
<1>10. apps' = [apps EXCEPT ![p] = q]
  BY <1>1, <1>3 DEF IInv, TypeOK
<1>11. /\ \A i \in r.fresh : got[i] = n[i]
       /\ \A i \in Ids \ r.fresh : got[i] = r.got[i]
       /\ (pc = "done" => r.todo = r.fresh)
  BY <1>2
<1> HIDE DEF got, pc
<1>12. /\ q \in CallType /\ q.pc = pc /\ q.todo = r.todo \ r.fresh /\ q.got = got
       /\ q.batch = r.batch /\ q.fresh = r.fresh
  BY <1>1, <1>9 DEF CallType
<1> HIDE DEF q
<1>13. /\ apps' \in [Appenders -> CallType] /\ apps'[p] = q
       /\ \A o \in Appenders \ {p} : apps'[o] = apps[o]
  BY <1>10, <1>12 DEF IInv, TypeOK
<1>14. TypeOK'
  <2>1. head' \in Nat
    BY <1>1, <1>2, <1>6
  <2>2. lock' \in Appenders \cup {Free}
    BY <1>6
  <2> QED BY <1>6, <1>7, <1>13, <2>1, <2>2 DEF IInv, TypeOK
<1>15. LockIsReleased' /\ WriterHasTheCursor'
  <2>1. \A o \in Appenders : apps'[o].pc # "writing"
    BY <1>1, <1>9, <1>12, <1>13 DEF IInv, WriterHasTheCursor
  <2> QED BY <1>6, <2>1 DEF LockIsReleased, WriterHasTheCursor
<1>16. CallsAreYoung'
  BY <1>1, <1>6, <1>12, <1>13 DEF IInv, CallsAreYoung, CallIsYoung
<1>17. LifeRules' /\ ReaderMissesNothing'
  BY <1>6 DEF IInv, LifeRules, ReaderMissesNothing, Truncated
<1>18. CallsAreRight'
  <2> SUFFICES ASSUME life = "live", NEW o \in Appenders
               PROVE  CallIsRight(apps[o])'
    BY <1>6 DEF CallsAreRight
  <2>1. CASE o # p
    <3>1. apps'[o] = apps[o] /\ CallIsRight(apps[o]) /\ apps[o] \in CallType
      BY <1>13, <2>1, CallFacts
    <3>2. \A i \in Ids : seqOf[i] # 0 => seqOf'[i] = seqOf[i]
      BY <1>2, <1>7
    <3>3. apps[o].batch \subseteq Ids
      BY <3>1 DEF CallType
    <3> QED BY <1>8, <3>1, <3>2, <3>3 DEF CallIsRight
  <2>2. CASE o = p
    <3>1. CallIsRight(r) /\ r.todo \subseteq r.batch /\ r.batch \subseteq Ids
          /\ r.todo \subseteq Ids
      BY <1>1 DEF CallIsYoung, CallType
    <3>2. r.fresh \subseteq r.todo /\ r.todo \ r.fresh \subseteq Stored
      BY <1>1, <3>1 DEF CallIsRight
    <3>3. ASSUME NEW i \in r.batch \ (r.todo \ r.fresh)
          PROVE  got[i] # 0 /\ got[i] = seqOf'[i]
      <4>1. CASE i \in r.fresh
        BY <1>7, <1>11, <4>1
      <4>2. CASE i \notin r.fresh
        <5>1. i \in Ids /\ i \in r.batch \ r.todo
          BY <3>1, <4>2
        <5>2. r.got[i] # 0 /\ r.got[i] = seqOf[i]
          BY <3>1, <5>1 DEF CallIsRight
        <5> QED BY <1>7, <1>11, <4>2, <5>1, <5>2
      <4> QED BY <4>1, <4>2
    <3>4. q.todo \subseteq Stored'
      BY <1>8, <1>12, <3>2
    <3>5. q.pc = "done" => q.todo = {}
      BY <1>11, <1>12
    <3>6. q.pc \notin {"waiting", "writing"}
      BY <1>9, <1>12
    <3> QED BY <1>12, <1>13, <2>2, <3>3, <3>4, <3>5, <3>6 DEF CallIsRight
  <2> QED BY <2>1, <2>2
<1>19. GaplessAboveFloor'
  <2> SUFFICES ASSUME life = "live"
               PROVE  /\ floor <= head + k
                      /\ {seqOf'[i] : i \in Stored'} = floor + 1 .. head + k
                      /\ \A i, j \in Stored' : seqOf'[i] = seqOf'[j] => i = j
    BY <1>6 DEF GaplessAboveFloor
  <2>1. /\ floor <= head /\ {seqOf[i] : i \in Stored} = floor + 1 .. head
        /\ \A i, j \in Stored : seqOf[i] = seqOf[j] => i = j
    BY DEF IInv, GaplessAboveFloor
  <2>2. /\ \A i \in Stored : seqOf'[i] = seqOf[i] /\ i \notin r.fresh
        /\ Stored \subseteq Ids
    BY <1>2, <1>7 DEF Stored
  <2>3. \A i \in Stored : seqOf[i] \in Nat /\ seqOf[i] <= head
    <3> SUFFICES ASSUME NEW i \in Stored PROVE seqOf[i] \in Nat /\ seqOf[i] <= head
      OBVIOUS
    <3>1. seqOf[i] \in floor + 1 .. head
      BY <2>1
    <3> QED BY <1>1, <3>1
  <2>4. {seqOf'[i] : i \in Stored'} = {seqOf[i] : i \in Stored} \cup {n[i] : i \in r.fresh}
    BY <1>7, <1>8, <2>2
  <2>5. floor <= head + k /\ floor + 1 .. head + k = (floor + 1 .. head) \cup (head + 1 .. head + k)
    <3>1. k \in Nat
      BY <1>2
    <3> HIDE DEF k
    <3> QED BY <1>1, <2>1, <3>1
  <2>6. \A i, j \in Stored' : seqOf'[i] = seqOf'[j] => i = j
    <3> SUFFICES ASSUME NEW i \in Stored', NEW j \in Stored', seqOf'[i] = seqOf'[j]
                 PROVE  i = j
      OBVIOUS
    <3>1. CASE i \in r.fresh /\ j \in r.fresh
      BY <1>4, <1>7, <3>1
    <3>2. CASE i \in Stored /\ j \in Stored
      BY <2>1, <2>2, <3>2
    <3>3. ASSUME NEW a \in Stored, NEW b \in r.fresh PROVE seqOf'[a] # seqOf'[b]
      <4>1. seqOf'[a] = seqOf[a] /\ seqOf[a] \in Nat /\ seqOf[a] <= head
        BY <2>2, <2>3
      <4>2. seqOf'[b] = n[b] /\ n[b] \in Nat /\ n[b] > head
        BY <1>5, <1>7
      <4> QED BY <1>1, <4>1, <4>2
    <3> QED BY <1>8, <3>1, <3>2, <3>3
  <2> QED BY <1>4, <2>1, <2>4, <2>5, <2>6
<1>20. SnapshotsAreBelow'
  <2> SUFFICES ASSUME life = "live", NEW t \in Trimmers, trims[t].pc = "locking"
               PROVE  SnapshotIsBelow(trims[t])'
    BY <1>6 DEF SnapshotsAreBelow
  <2>1. SnapshotIsBelow(trims[t]) /\ trims[t].seen \subseteq Ids
    BY DEF IInv, SnapshotsAreBelow, TypeOK
  <2>2. \A i \in r.fresh : i \notin trims[t].seen
    <3> SUFFICES ASSUME NEW i \in r.fresh, i \in trims[t].seen PROVE FALSE
      OBVIOUS
    <3>1. i <= cutoff /\ i > cutoff
      BY <1>2, <2>1 DEF SnapshotIsBelow
    <3>2. i \in Nat /\ cutoff \in Nat
      BY <1>2, StreamAssumption DEF IInv, TypeOK
    <3> QED BY <3>1, <3>2
  <2>3. ASSUME NEW i \in Stored', NEW j \in Stored', j \in trims[t].seen, seqOf'[i] <= seqOf'[j]
        PROVE  i \in trims[t].seen
    <3>1. j \in Stored /\ seqOf'[j] = seqOf[j]
      BY <1>7, <1>8, <2>2, <2>3 DEF Stored
    <3>2. seqOf[j] \in Nat /\ seqOf[j] <= head
      <4>1. seqOf[j] \in floor + 1 .. head
        BY <3>1 DEF IInv, GaplessAboveFloor
      <4> QED BY <1>1, <4>1
    <3>3. CASE i \in r.fresh
      <4>1. seqOf'[i] \in Nat /\ seqOf'[i] > head
        BY <1>5, <1>7, <3>3
      <4> QED BY <1>1, <2>3, <3>1, <3>2, <4>1
    <3>4. CASE i \notin r.fresh
      <4>1. i \in Stored /\ seqOf'[i] = seqOf[i]
        BY <1>7, <1>8, <3>4 DEF Stored
      <4> QED BY <2>1, <2>3, <3>1, <4>1 DEF SnapshotIsBelow
    <3> QED BY <3>3, <3>4
  <2>4. trims' = trims /\ cutoff' = cutoff /\ Stored \subseteq Stored'
    BY <1>6, <1>8
  <2> QED BY <2>1, <2>3, <2>4 DEF SnapshotIsBelow
<1> QED BY <1>14, <1>15, <1>16, <1>17, <1>18, <1>19, <1>20 DEF IInv

-----------------------------------------------------------------------------
(* The trim, and the events that age.                                      *)

\* An event ages: no call holds it.
LEMMA AgeStep == ASSUME IInv, NEW i \in Ids, Age(i) PROVE IInv'
<1>1. /\ cutoff \in Nat /\ cutoff' = cutoff + 1 /\ i = cutoff + 1
      /\ \A p \in Appenders : i \notin apps[p].batch
      /\ UNCHANGED <<seqOf, head, floor, lock, apps, trims, readers, purge, life>>
  BY DEF Age, IInv, TypeOK
<1>2. TypeOK'
  BY <1>1 DEF IInv, TypeOK
<1>3. CallsAreYoung'
  <2> SUFFICES ASSUME NEW p \in Appenders, NEW j \in apps[p].batch
               PROVE  j > cutoff'
    BY <1>1 DEF IInv, CallsAreYoung, CallIsYoung
  <2>1. j > cutoff /\ j # i
    BY <1>1 DEF IInv, CallsAreYoung, CallIsYoung
  <2>2. j \in Nat
    <3>1. apps[p].batch \subseteq Ids
      BY CallFacts DEF CallType
    <3> QED BY <3>1, StreamAssumption
  <2> QED BY <1>1, <2>1, <2>2
<1>4. SnapshotsAreBelow'
  <2> SUFFICES ASSUME life = "live", NEW t \in Trimmers, trims[t].pc = "locking"
               PROVE  SnapshotIsBelow(trims[t])'
    BY <1>1 DEF SnapshotsAreBelow
  <2>1. SnapshotIsBelow(trims[t]) /\ trims[t].seen \subseteq Ids /\ trims[t].before \in Nat
    BY DEF IInv, SnapshotsAreBelow, TypeOK
  <2>2. trims[t].before <= cutoff'
    BY <1>1, <2>1 DEF SnapshotIsBelow
  <2>3. \A j \in trims[t].seen : j \in Stored \/ j <= cutoff'
    <3> SUFFICES ASSUME NEW j \in trims[t].seen, j <= cutoff PROVE j <= cutoff'
      BY <2>1 DEF SnapshotIsBelow
    <3>1. j \in Nat
      BY <2>1, StreamAssumption
    <3> QED BY <1>1, <3>1
  <2> QED BY <1>1, <2>1, <2>2, <2>3 DEF SnapshotIsBelow, Stored
<1>5. /\ LockIsReleased' /\ WriterHasTheCursor' /\ LifeRules'
      /\ GaplessAboveFloor' /\ CallsAreRight' /\ ReaderMissesNothing'
  BY <1>1 DEF IInv, LockIsReleased, WriterHasTheCursor, LifeRules, GaplessAboveFloor,
              CallsAreRight, CallIsRight, ReaderMissesNothing, Truncated, Stored
<1> QED BY <1>2, <1>3, <1>4, <1>5 DEF IInv

\* A trim moves on, and everything else stays.
LEMMA TrimMoves ==
    ASSUME IInv, NEW t \in Trimmers, NEW r \in TrimType,
           trims' = [trims EXCEPT ![t] = r],
           UNCHANGED <<seqOf, head, floor, lock, apps, readers, cutoff, purge, life>>,
           life = "live" /\ r.pc = "locking" => SnapshotIsBelow(r)
    PROVE  IInv'
<1>1. /\ trims' \in [Trimmers -> TrimType] /\ trims'[t] = r
      /\ \A u \in Trimmers \ {t} : trims'[u] = trims[u]
  BY DEF IInv, TypeOK, TrimType
<1>2. TypeOK'
  BY <1>1 DEF IInv, TypeOK, TrimType
<1>3. SnapshotsAreBelow'
  BY <1>1 DEF IInv, SnapshotsAreBelow, SnapshotIsBelow, Stored
<1>4. /\ LockIsReleased' /\ WriterHasTheCursor' /\ CallsAreYoung' /\ LifeRules'
      /\ GaplessAboveFloor' /\ CallsAreRight' /\ ReaderMissesNothing'
  BY DEF IInv, LockIsReleased, WriterHasTheCursor, CallsAreYoung, CallIsYoung, LifeRules,
         GaplessAboveFloor, CallsAreRight, CallIsRight, ReaderMissesNothing, Truncated, Stored
<1> QED BY <1>2, <1>3, <1>4 DEF IInv

LEMMA NoTrimIsTrim == NoTrim \in TrimType /\ NoTrim.pc = "idle"
BY DEF NoTrim, TrimType

\* The snapshot has every event that is stored.
LEMMA TrimReadsStep == ASSUME IInv, NEW t \in Trimmers, TrimReads(t) PROVE IInv'
<1> DEFINE r == [pc |-> "locking", seen |-> Stored, before |-> cutoff]
<1>1. cutoff \in Nat /\ Stored \subseteq Ids
  BY DEF IInv, TypeOK, Stored
<1>2. r \in TrimType /\ SnapshotIsBelow(r)
  BY <1>1 DEF TrimType, SnapshotIsBelow
<1> HIDE DEF r
<1>3. trims' = [trims EXCEPT ![t] = r]
  BY DEF TrimReads, r
<1> QED BY <1>2, <1>3, TrimMoves DEF TrimReads

\* A trim deletes whole: every number from the floor to its top.
LEMMA TrimCommitsStep == ASSUME IInv, NEW t \in Trimmers, TrimCommits(t) PROVE IInv'
<1> DEFINE r == trims[t]
<1>1. /\ r.pc = "locking" /\ lock = Free /\ r.seen \subseteq Ids /\ r.before \in Nat
      /\ trims' = [trims EXCEPT ![t] = NoTrim]
      /\ UNCHANGED <<head, lock, apps, readers, cutoff, purge, life>>
      /\ head \in Nat /\ floor \in Nat /\ cutoff \in Nat
  BY DEF TrimCommits, IInv, TypeOK
<1>2. CASE UNCHANGED <<seqOf, floor>>
  BY <1>1, <1>2, NoTrimIsTrim, TrimMoves
<1>3. ASSUME NEW share \in Shares(r), NEW top \in TrimRun(r, share),
             seqOf' = [i \in Ids |->
                 IF i \in r.seen /\ seqOf[i] \in floor + 1 .. top THEN 0 ELSE seqOf[i]],
             floor' = top
      PROVE  IInv'
  <2>1. /\ top \in Nat /\ top > floor
        /\ \E i \in r.seen : seqOf[i] = top
        /\ \A i \in r.seen : seqOf[i] \in floor + 1 .. top => i <= r.before
    <3>1. /\ top \in floor + 1 .. floor + share
          /\ \E i \in r.seen : seqOf[i] = top
          /\ \A i \in r.seen : seqOf[i] \in floor + 1 .. top => i <= r.before
      BY DEF TrimRun
    <3> QED BY <1>1, <3>1
  <2> DEFINE gone == {i \in r.seen : seqOf[i] \in floor + 1 .. top}
  <2>2. /\ \A i \in gone : seqOf'[i] = 0
        /\ \A i \in Ids \ gone : seqOf'[i] = seqOf[i]
        /\ gone \subseteq Ids
    BY <1>1, <1>3
  <2>3. seqOf' \in [Ids -> Nat]
    BY <1>3, <2>2 DEF IInv, TypeOK
  <2>4. /\ trims' \in [Trimmers -> TrimType] /\ trims'[t].pc = "idle"
        /\ \A u \in Trimmers \ {t} : trims'[u] = trims[u]
    BY <1>1, NoTrimIsTrim DEF IInv, TypeOK, TrimType
  <2>5. TypeOK'
    BY <1>1, <1>3, <2>1, <2>3, <2>4 DEF IInv, TypeOK, TrimType
  <2>6. Stored' = Stored \ gone
    BY <2>2 DEF Stored
  <2>7. LockIsReleased' /\ WriterHasTheCursor' /\ CallsAreYoung' /\ LifeRules'
    BY <1>1 DEF IInv, LockIsReleased, WriterHasTheCursor, CallsAreYoung, CallIsYoung,
                LifeRules
  <2>8. life = "live" => \A i \in gone : i <= cutoff
    <3> SUFFICES ASSUME life = "live", NEW i \in gone PROVE i <= cutoff
      OBVIOUS
    <3>1. i <= r.before /\ r.before <= cutoff
      BY <1>1, <2>1 DEF IInv, SnapshotsAreBelow, SnapshotIsBelow
    <3>2. i \in Nat
      BY <2>2, StreamAssumption
    <3> QED BY <1>1, <3>1, <3>2
  <2>9. CallsAreRight'
    <3> SUFFICES ASSUME life = "live", NEW p \in Appenders
                 PROVE  CallIsRight(apps[p])'
      BY <1>1 DEF CallsAreRight
    <3>1. CallIsRight(apps[p]) /\ CallIsYoung(apps[p]) /\ apps[p] \in CallType
      BY CallFacts
    <3>2. \A i \in apps[p].batch : i \in Ids /\ i \notin gone
      <4> SUFFICES ASSUME NEW i \in apps[p].batch, i \in gone PROVE FALSE
        BY <3>1 DEF CallType
      <4>1. i > cutoff /\ i <= cutoff /\ i \in Nat
        BY <2>2, <2>8, <3>1, StreamAssumption DEF CallIsYoung
      <4> QED BY <1>1, <4>1
    <3>3. \A i \in apps[p].batch : seqOf'[i] = seqOf[i] /\ (i \in Stored => i \in Stored')
      BY <2>2, <2>6, <3>2
    <3>4. apps' = apps /\ apps[p].todo \subseteq apps[p].batch
      BY <1>1, <3>1 DEF CallIsYoung
    <3> HIDE DEF gone
    <3> QED BY <3>1, <3>3, <3>4 DEF CallIsRight
  <2>10. SnapshotsAreBelow'
    <3> SUFFICES ASSUME life = "live", NEW u \in Trimmers \ {t}, trims[u].pc = "locking"
                 PROVE  SnapshotIsBelow(trims[u])'
      BY <1>1, <2>4 DEF SnapshotsAreBelow
    <3>1. SnapshotIsBelow(trims[u]) /\ trims[u].seen \subseteq Ids
      BY DEF IInv, SnapshotsAreBelow, TypeOK
    <3>2. \A i \in trims[u].seen : i \in Stored' \/ i <= cutoff
      BY <2>6, <2>8, <3>1 DEF SnapshotIsBelow
    <3>3. \A i \in Stored' : i \in Stored /\ seqOf'[i] = seqOf[i]
      BY <2>2, <2>6 DEF Stored
    <3>4. trims'[u] = trims[u] /\ cutoff' = cutoff
      BY <1>1, <2>4
    <3> HIDE DEF gone
    <3> QED BY <3>1, <3>2, <3>3, <3>4 DEF SnapshotIsBelow
  <2>11. GaplessAboveFloor'
    <3> SUFFICES ASSUME life = "live"
                 PROVE  /\ top <= head
                        /\ {seqOf'[i] : i \in Stored'} = top + 1 .. head
                        /\ \A i, j \in Stored' : seqOf'[i] = seqOf'[j] => i = j
      BY <1>1, <1>3 DEF GaplessAboveFloor
    <3>1. /\ {seqOf[i] : i \in Stored} = floor + 1 .. head
          /\ \A i, j \in Stored : seqOf[i] = seqOf[j] => i = j
      BY DEF IInv, GaplessAboveFloor
    <3>2. SnapshotIsBelow(r)
      BY <1>1 DEF IInv, SnapshotsAreBelow
    <3>3. PICK last \in r.seen : seqOf[last] = top
      BY <2>1
    <3>4. last \in Stored
      BY <1>1, <2>1, <3>3 DEF Stored
    <3>5. top <= head
      <4>1. top \in floor + 1 .. head
        BY <3>1, <3>3, <3>4
      <4> QED BY <1>1, <4>1
    <3>6. \A i \in Stored : /\ seqOf[i] \in Nat /\ seqOf[i] > floor /\ seqOf[i] <= head
                            /\ i \in gone <=> seqOf[i] <= top
      <4> SUFFICES ASSUME NEW i \in Stored
                   PROVE  /\ seqOf[i] \in Nat /\ seqOf[i] > floor /\ seqOf[i] <= head
                          /\ i \in gone <=> seqOf[i] <= top
        OBVIOUS
      <4>1. seqOf[i] \in floor + 1 .. head
        BY <3>1
      <4>2. seqOf[i] \in Nat /\ seqOf[i] > floor /\ seqOf[i] <= head
        BY <1>1, <4>1
      <4>3. seqOf[i] <= top => i \in r.seen
        BY <3>2, <3>3, <3>4 DEF SnapshotIsBelow
      <4>4. seqOf[i] <= top <=> seqOf[i] \in floor + 1 .. top
        BY <1>1, <2>1, <4>2
      <4> QED BY <4>2, <4>3, <4>4
    <3>7. \A i \in Stored' : i \in Stored /\ seqOf'[i] = seqOf[i] /\ seqOf[i] > top
      <4> SUFFICES ASSUME NEW i \in Stored'
                   PROVE  i \in Stored /\ seqOf'[i] = seqOf[i] /\ seqOf[i] > top
        OBVIOUS
      <4>1. i \in Stored /\ i \notin gone /\ seqOf'[i] = seqOf[i]
        BY <2>2, <2>6 DEF Stored
      <4>2. seqOf[i] \in Nat /\ ~(seqOf[i] <= top)
        BY <3>6, <4>1
      <4> QED BY <2>1, <4>1, <4>2
    <3>8. \A i, j \in Stored' : seqOf'[i] = seqOf'[j] => i = j
      BY <3>1, <3>7
    <3>9. {seqOf'[i] : i \in Stored'} = top + 1 .. head
      <4>1. ASSUME NEW i \in Stored' PROVE seqOf'[i] \in top + 1 .. head
        <5>1. seqOf'[i] \in Nat /\ seqOf'[i] > top /\ seqOf'[i] <= head
          BY <3>6, <3>7
        <5> QED BY <1>1, <2>1, <5>1
      <4>2. ASSUME NEW m \in top + 1 .. head PROVE \E i \in Stored' : seqOf'[i] = m
        <5>1. m \in floor + 1 .. head /\ m > top /\ m \in Nat
          BY <1>1, <2>1
        <5>2. PICK i \in Stored : seqOf[i] = m
          BY <3>1, <5>1
        <5>3. i \notin gone
          BY <2>1, <3>6, <5>1, <5>2
        <5>4. i \in Stored' /\ seqOf'[i] = m
          BY <2>2, <2>6, <5>2, <5>3 DEF Stored
        <5> QED BY <5>4
      <4> QED BY <4>1, <4>2
    <3> QED BY <3>5, <3>8, <3>9
  <2>12. ReaderMissesNothing'
    <3> SUFFICES ASSUME NEW c \in Readers, readers[c].pc = "page", ~(readers[c].after < top)
                 PROVE  readers[c].page
                            = readers[c].after + 1 .. readers[c].after + Cardinality(readers[c].page)
      BY <1>1, <1>3 DEF ReaderMissesNothing, Truncated
    <3>1. readers[c].after \in Nat
      BY DEF IInv, TypeOK
    <3>2. ~(readers[c].after < floor)
      BY <1>1, <2>1, <3>1
    <3> QED BY <3>2 DEF IInv, ReaderMissesNothing, Truncated
  <2> QED BY <2>5, <2>7, <2>9, <2>10, <2>11, <2>12 DEF IInv
<1> QED BY <1>2, <1>3 DEF TrimCommits

LEMMA TrimSkipsStep == ASSUME IInv, NEW t \in Trimmers, TrimSkips(t) PROVE IInv'
BY NoTrimIsTrim, TrimMoves DEF TrimSkips

-----------------------------------------------------------------------------
(* The pages, and the client that follows.                                 *)

\* The lowest of the numbers after a, up to h, follow on a.
LEMMA LowestFollowOn ==
    ASSUME NEW a \in Nat, NEW h \in Nat, NEW page, page \subseteq a + 1 .. h,
           \A m \in page, n \in (a + 1 .. h) \ page : m < n
    PROVE  page = a + 1 .. a + Cardinality(page)
<1> DEFINE k == Cardinality(page)
<1>1. IsFiniteSet(page) /\ k \in Nat
  <2>1. IsFiniteSet(a + 1 .. h)
    BY FS_Interval
  <2> QED BY <2>1, FS_Subset, FS_CardinalityType
<1>2. ASSUME NEW m \in page PROVE m \in a + 1 .. a + k
  <2>1. m \in Nat /\ m > a /\ m <= h
    OBVIOUS
  <2>2. a + 1 .. m \subseteq page
    <3> SUFFICES ASSUME NEW n \in a + 1 .. m, n \notin page PROVE FALSE
      OBVIOUS
    <3>1. n \in (a + 1 .. h) \ page /\ n \in Nat /\ n <= m
      BY <2>1
    <3>2. m < n
      BY <3>1
    <3> QED BY <2>1, <3>1, <3>2
  <2>3. PICK d \in Nat : m = a + d
    <3>1. m - a \in Nat /\ m = a + (m - a)
      BY <2>1
    <3> QED BY <3>1
  <2>4. Cardinality(a + 1 .. m) = d
    BY <2>3, IntervalAfter
  <2>5. d <= k
    BY <1>1, <2>2, <2>4, FS_Subset
  <2> HIDE DEF k
  <2> QED BY <1>1, <2>1, <2>3, <2>5
<1>3. IsFiniteSet(a + 1 .. a + k) /\ Cardinality(a + 1 .. a + k) = k
  BY <1>1, IntervalAfter
<1>4. page \in SUBSET (a + 1 .. a + k)
  BY <1>2
<1>5. Cardinality(page) = k
  OBVIOUS
<1> HIDE DEF k
<1> QED BY <1>3, <1>4, <1>5, FS_Subset DEF k

\* Finitely many numbers are stored.
LEMMA NumbersAreFinite == IsFiniteSet({seqOf[i] : i \in Stored})
<1> DEFINE N == {seqOf[i] : i \in Stored}
           f == [i \in Stored |-> seqOf[i]]
<1>1. IsFiniteSet(Stored)
  BY IdsAreFinite DEF Stored
<1>2. f \in [Stored -> N] /\ \A n \in N : \E i \in Stored : f[i] = n
  OBVIOUS
<1> HIDE DEF N, f
<1>3. f \in Surjection(Stored, N)
  BY <1>2, Fun_IsSurj
<1>4. IsFiniteSet(N)
  BY <1>1, <1>3, FS_Surjection
<1> QED BY <1>4 DEF N

\* A client moves, and nothing else does.
LEMMA ReaderMoves ==
    ASSUME IInv, NEW c \in Readers, NEW r \in ReaderType, IsFiniteSet(r.page),
           Cardinality(r.page) <= PageLimit,
           readers' = [readers EXCEPT ![c] = r],
           UNCHANGED <<seqOf, head, floor, lock, apps, trims, cutoff, purge, life>>,
           r.pc = "page" => life = "live",
           r.pc = "page" /\ ~Truncated(r.after)
               => r.page = r.after + 1 .. r.after + Cardinality(r.page)
    PROVE  IInv'
<1>1. /\ readers' \in [Readers -> ReaderType] /\ readers'[c] = r
      /\ \A d \in Readers \ {c} : readers'[d] = readers[d]
  BY DEF IInv, TypeOK, ReaderType
<1>2. TypeOK'
  <2>1. \A d \in Readers : Cardinality(readers'[d].page) <= PageLimit
    BY <1>1 DEF IInv, TypeOK
  <2> QED BY <1>1, <2>1 DEF IInv, TypeOK, ReaderType
<1>3. LifeRules'
  BY <1>1 DEF IInv, LifeRules
<1>4. ReaderMissesNothing'
  BY <1>1 DEF IInv, ReaderMissesNothing, Truncated
<1>5. /\ LockIsReleased' /\ WriterHasTheCursor' /\ CallsAreYoung' /\ SnapshotsAreBelow'
      /\ GaplessAboveFloor' /\ CallsAreRight'
  BY DEF IInv, LockIsReleased, WriterHasTheCursor, CallsAreYoung, CallIsYoung,
         GaplessAboveFloor, CallsAreRight, CallIsRight, SnapshotsAreBelow, SnapshotIsBelow, Stored
<1> QED BY <1>2, <1>3, <1>4, <1>5 DEF IInv

\* A client at a position has no page.
LEMMA PositionMoves ==
    ASSUME IInv, NEW c \in Readers, NEW n \in Nat,
           readers' = [readers EXCEPT ![c] = AtPosition(n)],
           UNCHANGED <<seqOf, head, floor, lock, apps, trims, cutoff, purge, life>>
    PROVE  IInv'
<1> DEFINE r == AtPosition(n)
<1>1. r \in ReaderType /\ r.pc = "idle" /\ r.page = {}
  BY DEF AtPosition, ReaderType
<1>2. IsFiniteSet(r.page) /\ Cardinality(r.page) <= PageLimit
  <2>1. IsFiniteSet({}) /\ Cardinality({}) = 0 /\ PageLimit \in Nat
    BY FS_EmptySet, StreamAssumption
  <2> QED BY <1>1, <2>1
<1> HIDE DEF r
<1>3. readers' = [readers EXCEPT ![c] = r]
  BY DEF r
<1> QED BY <1>1, <1>2, <1>3, ReaderMoves

\* The page is the lowest numbers after the position: with nothing trimmed above
\* it, the numbers that follow on it.
LEMMA ReadPageStep == ASSUME IInv, NEW c \in Readers, ReadPage(c) PROVE IInv'
<1> DEFINE a == readers[c].after
           above == {n \in {seqOf[i] : i \in Stored} : n > a}
<1>1. PICK page \in SUBSET above :
        /\ Cardinality(page) <= PageLimit
        /\ \A n \in page, m \in above \ page : n < m
        /\ readers' = [readers EXCEPT ![c].pc = "page", ![c].page = page]
  <2>1. PICK page \in Pages(a) : readers' = [readers EXCEPT ![c].pc = "page", ![c].page = page]
    BY DEF ReadPage
  <2>2. page \in SUBSET above /\ Cardinality(page) <= PageLimit
    BY DEF Pages
  <2>3. \A n \in page, m \in above \ page : n < m
    BY DEF Pages
  <2> QED BY <2>1, <2>2, <2>3
<1>2. readers[c] \in ReaderType /\ a \in Nat /\ head \in Nat /\ floor \in Nat /\ life = "live"
  BY DEF ReadPage, IInv, TypeOK, ReaderType
<1>3. page \subseteq Nat /\ IsFiniteSet(page)
  <2>1. page \subseteq Nat
    BY DEF IInv, TypeOK, Stored
  <2>2. page \subseteq {seqOf[i] : i \in Stored}
    OBVIOUS
  <2> HIDE DEF above
  <2> QED BY <2>1, <2>2, NumbersAreFinite, FS_Subset
<1> DEFINE r == [readers[c] EXCEPT !.pc = "page", !.page = page]
<1>4. readers' = [readers EXCEPT ![c] = r]
  BY <1>1 DEF IInv, TypeOK
<1>5. r \in ReaderType /\ r.pc = "page" /\ r.after = a /\ r.page = page
  BY <1>2, <1>3 DEF ReaderType
<1>6. ~Truncated(a) => page = a + 1 .. a + Cardinality(page)
  <2> SUFFICES ASSUME ~Truncated(a) PROVE page = a + 1 .. a + Cardinality(page)
    OBVIOUS
  <2>1. a >= floor
    BY <1>2 DEF Truncated
  <2>2. {seqOf[i] : i \in Stored} = floor + 1 .. head
    BY <1>2 DEF IInv, GaplessAboveFloor
  <2>3. above = a + 1 .. head
    <3>1. \A n : n \in floor + 1 .. head /\ n > a <=> n \in a + 1 .. head
      BY <1>2, <2>1
    <3> QED BY <2>2, <3>1
  <2>4. page \subseteq a + 1 .. head /\ \A n \in page, m \in (a + 1 .. head) \ page : n < m
    BY <1>1, <2>3
  <2> HIDE DEF a, above
  <2> QED BY <1>2, <2>4, LowestFollowOn
<1> HIDE DEF a, r
<1> QED BY <1>1, <1>2, <1>3, <1>4, <1>5, <1>6, ReaderMoves DEF ReadPage

\* The client goes on from the last number of its page, or from the head.
LEMMA ReadCursorStep == ASSUME IInv, NEW c \in Readers, ReadCursor(c) PROVE IInv'
<1> DEFINE r == readers[c]
           n == IF Truncated(r.after) THEN head ELSE IF r.page = {} THEN r.after ELSE Max(r.page)
<1>1. /\ r \in ReaderType /\ r.after \in Nat /\ r.page \subseteq Nat /\ head \in Nat
      /\ r.pc = "page"
  BY DEF ReadCursor, IInv, TypeOK, ReaderType
<1>2. readers' = [readers EXCEPT ![c] = AtPosition(n)]
  BY Zenon DEF ReadCursor
<1>3. CASE Truncated(r.after) \/ r.page = {}
  <2>1. n \in Nat
    BY <1>1, <1>3
  <2> HIDE DEF n
  <2> QED BY <1>2, <2>1, PositionMoves DEF ReadCursor
<1>4. CASE ~Truncated(r.after) /\ r.page # {}
  <2> DEFINE k == Cardinality(r.page)
  <2>1. r.page = r.after + 1 .. r.after + k
    BY <1>1, <1>4 DEF IInv, ReaderMissesNothing
  <2>2. k \in Nat /\ k # 0
    <3>1. IsFiniteSet(r.page)
      BY DEF IInv, LifeRules
    <3> QED BY <1>4, <3>1, FS_CardinalityType, FS_EmptySet
  <2>3. Max(r.page) \in r.page
    <3> HIDE DEF r, k
    <3>1. r.after + k \in r.page /\ \A m \in r.page : r.after + k >= m
      BY <1>1, <2>1, <2>2
    <3> QED BY <3>1 DEF Max
  <2>4. n \in Nat
    BY <1>1, <1>4, <2>3
  <2> HIDE DEF n
  <2> QED BY <1>2, <2>4, PositionMoves DEF ReadCursor
<1> QED BY <1>3, <1>4

LEMMA OpenAtHeadStep == ASSUME IInv, NEW c \in Readers, OpenAtHead(c) PROVE IInv'
<1>1. head \in Nat
  BY DEF IInv, TypeOK
<1> QED BY <1>1, PositionMoves DEF OpenAtHead

-----------------------------------------------------------------------------
(* The tenant's end.                                                       *)

LEMMA ExpiresStep == ASSUME IInv, TenantExpires PROVE IInv'
<1>1. /\ life' = "expired" /\ readers' = [c \in Readers |-> AtPosition(0)]
      /\ UNCHANGED <<seqOf, head, floor, lock, apps, trims, cutoff, purge>>
  BY DEF TenantExpires
<1>2. AtPosition(0) \in ReaderType /\ AtPosition(0).pc = "idle" /\ AtPosition(0).page = {}
  BY DEF AtPosition, ReaderType
<1>3. IsFiniteSet({}) /\ Cardinality({}) <= PageLimit
  BY FS_EmptySet, StreamAssumption
<1>4. /\ readers' \in [Readers -> ReaderType]
      /\ \A c \in Readers : readers'[c].pc = "idle" /\ readers'[c].page = {}
  BY <1>1, <1>2
<1>5. TypeOK'
  BY <1>1, <1>3, <1>4 DEF IInv, TypeOK, ReaderType
<1>6. LockIsReleased' /\ WriterHasTheCursor' /\ CallsAreYoung' /\ LifeRules'
  BY <1>1, <1>3, <1>4 DEF IInv, LockIsReleased, WriterHasTheCursor, CallsAreYoung,
                          CallIsYoung, LifeRules
<1>7. GaplessAboveFloor' /\ CallsAreRight' /\ SnapshotsAreBelow' /\ ReaderMissesNothing'
  BY <1>1, <1>4 DEF GaplessAboveFloor, CallsAreRight, SnapshotsAreBelow, ReaderMissesNothing
<1> QED BY <1>5, <1>6, <1>7 DEF IInv

\* The purge of a tenant that is over: the cursor goes only when nobody has it.
LEMMA PurgeStep == ASSUME IInv, PurgeReads \/ PurgeCommits PROVE IInv'
<1>1. life = "expired" /\ life' = "expired"
  BY DEF PurgeReads, PurgeCommits, IInv, LifeRules
<1>2. UNCHANGED <<lock, apps, trims, readers, cutoff>>
  BY DEF PurgeReads, PurgeCommits
<1>3. seqOf' \in [Ids -> Nat] /\ head' \in Nat /\ floor' \in Nat
  BY DEF PurgeReads, PurgeCommits, IInv, TypeOK
<1>4. purge' \in [pc : {"idle", "deleting"}, gone : SUBSET Ids]
  <2>1. CASE PurgeReads
    BY <2>1 DEF PurgeReads, Stored
  <2>2. CASE PurgeCommits
    BY <2>2 DEF PurgeCommits, NoPurge
  <2> QED BY <2>1, <2>2
<1>5. TypeOK'
  BY <1>1, <1>2, <1>3, <1>4 DEF IInv, TypeOK
<1>6. WriterHasTheCursor'
  <2>1. head' = head \/ lock = Free
    BY DEF PurgeReads, PurgeCommits
  <2>2. Free \notin Appenders
    BY StreamAssumption
  <2> QED BY <1>2, <2>1, <2>2 DEF IInv, WriterHasTheCursor
<1>7. LockIsReleased' /\ CallsAreYoung' /\ LifeRules'
  BY <1>1, <1>2 DEF IInv, LockIsReleased, CallsAreYoung, CallIsYoung, LifeRules
<1>8. GaplessAboveFloor' /\ CallsAreRight' /\ SnapshotsAreBelow' /\ ReaderMissesNothing'
  BY <1>1, <1>2 DEF IInv, LifeRules, GaplessAboveFloor, CallsAreRight, SnapshotsAreBelow,
                    ReaderMissesNothing
<1> QED BY <1>5, <1>6, <1>7, <1>8 DEF IInv

-----------------------------------------------------------------------------
\* A stream starts empty, with no call under way.
LEMMA InitIsKept == Init => IInv
<1> SUFFICES ASSUME Init PROVE IInv
  OBVIOUS
<1>1. Unnumbered \in [Ids -> Nat] /\ \A i \in Ids : Unnumbered[i] = 0
  BY DEF Unnumbered
<1>2. Stored = {}
  BY <1>1 DEF Init, Stored
<1>3. AtPosition(0) \in ReaderType /\ AtPosition(0).pc = "idle" /\ AtPosition(0).page = {}
  BY DEF AtPosition, ReaderType
<1>4. IsFiniteSet({}) /\ Cardinality({}) <= PageLimit
  BY FS_EmptySet, StreamAssumption
<1>5. NoPurge \in [pc : {"idle", "deleting"}, gone : SUBSET Ids] /\ NoPurge.pc = "idle"
  BY DEF NoPurge
<1>6. TypeOK
  BY <1>1, <1>3, <1>4, <1>5, NoCallIsCall, NoTrimIsTrim DEF Init, TypeOK, ReaderType, TrimType
<1>7. LockIsReleased /\ WriterHasTheCursor /\ CallsAreYoung /\ CallsAreRight
  BY NoCallIsCall DEF Init, LockIsReleased, WriterHasTheCursor, CallsAreYoung, CallsAreRight
<1>8. GaplessAboveFloor
  <2>1. {seqOf[i] : i \in Stored} = {} /\ 0 + 1 .. 0 = {}
    BY <1>2
  <2> QED BY <1>2, <2>1 DEF Init, GaplessAboveFloor
<1>9. LifeRules /\ SnapshotsAreBelow /\ ReaderMissesNothing
  BY <1>3, <1>4, <1>5, NoTrimIsTrim DEF Init, LifeRules, SnapshotsAreBelow,
                                        ReaderMissesNothing
<1> QED BY <1>6, <1>7, <1>8, <1>9 DEF IInv

LEMMA NextIsKept == IInv /\ [Next]_vars => IInv'
<1> SUFFICES ASSUME IInv, [Next]_vars PROVE IInv'
  OBVIOUS
<1>1. CASE UNCHANGED vars
  BY <1>1 DEF vars, IInv, TypeOK, LockIsReleased, WriterHasTheCursor, CallsAreYoung,
              CallIsYoung,
              LifeRules, GaplessAboveFloor, CallsAreRight, CallIsRight, SnapshotsAreBelow,
              SnapshotIsBelow, ReaderMissesNothing, Truncated, Stored
<1>2. CASE \E p \in Appenders : AppendBegins(p) \/ AppendStep(p) \/ AppendEnds(p)
  BY <1>2, BeginsStep, ReadsStep, ReservesStep, CommitsStep, RollsBackStep, EndsStep, ReadsBackStep
     DEF AppendStep
<1>3. CASE \E i \in Ids : Age(i)
  BY <1>3, AgeStep
<1>4. CASE \E t \in Trimmers : TrimReads(t) \/ TrimCommits(t) \/ TrimSkips(t)
  BY <1>4, TrimReadsStep, TrimCommitsStep, TrimSkipsStep
<1>5. CASE \E c \in Readers : ReadPage(c) \/ ReadCursor(c) \/ OpenAtHead(c)
  BY <1>5, ReadPageStep, ReadCursorStep, OpenAtHeadStep
<1>6. CASE TenantExpires
  BY <1>6, ExpiresStep
<1>7. CASE PurgeReads \/ PurgeCommits
  BY <1>7, PurgeStep
<1> QED BY <1>1, <1>2, <1>3, <1>4, <1>5, <1>6, <1>7 DEF Next

\* The statements of om/change_events, with their snapshots, locks, conflicts and
\* retries, keep what IInv says.
THEOREM StreamInvariant == Spec => []IInv
BY InitIsKept, NextIsKept, PTL DEF Spec

\* While the tenant lives the numbers stored are those above the floor up to the
\* head, each on one event.
THEOREM GaplessHolds == Spec => []GaplessAboveFloor
<1>1. IInv => GaplessAboveFloor
  BY DEF IInv
<1> QED BY <1>1, StreamInvariant, PTL

\* A call that is done answers for each event it was given the number that is
\* stored (append_change_events).
THEOREM AnswersHold == Spec => []AnswersAgree
<1>1. IInv => AnswersAgree
  <2> SUFFICES ASSUME IInv, life = "live", NEW p \in Appenders, apps[p].pc = "done",
                      NEW i \in apps[p].batch
               PROVE  apps[p].got[i] # 0 /\ apps[p].got[i] = seqOf[i]
    BY DEF AnswersAgree
  <2>1. CallIsRight(apps[p])
    BY CallFacts
  <2> QED BY <2>1 DEF CallIsRight
<1> QED BY <1>1, StreamInvariant, PTL

\* A page that leaves has no hole (read_page, get_change_events).
THEOREM ReadersMissNothing == Spec => []ReaderMissesNothing
<1>1. IInv => ReaderMissesNothing
  BY DEF IInv
<1> QED BY <1>1, StreamInvariant, PTL

\* No way out of append_change_events leaves the cursor's row locked.
THEOREM LockHolds == Spec => []LockIsReleased
<1>1. IInv => LockIsReleased
  BY DEF IInv
<1> QED BY <1>1, StreamInvariant, PTL

-----------------------------------------------------------------------------
(* Each step is a step of the abstract stream, or none of it.              *)

\* The event a table gives a number.
RowOf(f, n) == IF \E i \in Ids : f[i] = n THEN CHOOSE i \in Ids : f[i] = n ELSE 0

\* The log of a table between two numbers.
LogOf(f, lo, hi) == [m \in 1 .. hi - lo |-> RowOf(f, lo + m)]

LEMMA RowIsFound ==
    ASSUME NEW f, NEW i \in Ids, \A j \in Ids : f[j] = f[i] => j = i
    PROVE  RowOf(f, f[i]) = i
BY DEF RowOf

LEMMA SeqEqual ==
    ASSUME NEW S, NEW s \in Seq(S), NEW t \in Seq(S), Len(s) = Len(t),
           \A m \in 1..Len(s) : s[m] = t[m]
    PROVE  s = t
OBVIOUS

LEMMA ConcatAt ==
    ASSUME NEW S, NEW s \in Seq(S), NEW t \in Seq(S), NEW m \in 1 .. Len(s) + Len(t)
    PROVE  (s \o t)[m] = IF m <= Len(s) THEN s[m] ELSE t[m - Len(s)]
OBVIOUS

LEMMA CutFront ==
    ASSUME NEW S, NEW s \in Seq(S), NEW k \in Nat, k <= Len(s)
    PROVE  SubSeq(s, k + 1, Len(s)) = [m \in 1 .. Len(s) - k |-> s[k + m]]
OBVIOUS

\* The abstract stream counts as its implementation does.
LEMMA SameCardinality == ASSUME NEW S PROVE Promise!Cardinality(S) = Cardinality(S)
BY DEF Promise!Cardinality, Cardinality

\* While the tenant lives, every number above the floor is on one event, and the log
\* has it there.
LEMMA EventsNow ==
    ASSUME IInv, life = "live"
    PROVE  /\ head \in Nat /\ floor \in Nat /\ floor <= head
           /\ \A m \in floor + 1 .. head : \E i \in Stored : seqOf[i] = m
           /\ \A i \in Stored : /\ i \in Ids /\ seqOf[i] \in floor + 1 .. head
                                /\ RowOf(seqOf, seqOf[i]) = i
<1>1. /\ head \in Nat /\ floor \in Nat /\ floor <= head
      /\ {seqOf[i] : i \in Stored} = floor + 1 .. head
      /\ \A i, j \in Stored : seqOf[i] = seqOf[j] => i = j
  BY DEF IInv, TypeOK, GaplessAboveFloor
<1>2. ASSUME NEW i \in Stored PROVE RowOf(seqOf, seqOf[i]) = i
  <2>1. \A j \in Ids : seqOf[j] = seqOf[i] => j = i
    BY <1>1 DEF Stored
  <2> QED BY <2>1, RowIsFound DEF Stored
<1> QED BY <1>1, <1>2 DEF Stored

LEMMA EventsNext ==
    ASSUME IInv', life' = "live"
    PROVE  /\ head' \in Nat /\ floor' \in Nat /\ floor' <= head'
           /\ \A m \in floor' + 1 .. head' : \E i \in Stored' : seqOf'[i] = m
           /\ \A i \in Stored' : /\ i \in Ids /\ seqOf'[i] \in floor' + 1 .. head'
                                 /\ RowOf(seqOf', seqOf'[i]) = i
<1>1. /\ head' \in Nat /\ floor' \in Nat /\ floor' <= head'
      /\ {seqOf'[i] : i \in Stored'} = floor' + 1 .. head'
      /\ \A i, j \in Stored' : seqOf'[i] = seqOf'[j] => i = j
  BY DEF IInv, TypeOK, GaplessAboveFloor
<1>2. ASSUME NEW i \in Stored' PROVE RowOf(seqOf', seqOf'[i]) = i
  <2>1. \A j \in Ids : seqOf'[j] = seqOf'[i] => j = i
    BY <1>1 DEF Stored
  <2> QED BY <2>1, RowIsFound DEF Stored
<1> QED BY <1>1, <1>2 DEF Stored

LEMMA LogNow ==
    ASSUME IInv, life = "live"
    PROVE  /\ Log = [m \in 1 .. head - floor |-> RowOf(seqOf, floor + m)]
           /\ Log \in Seq(Ids) /\ Len(Log) = head - floor
           /\ \A m \in 1 .. head - floor :
                 Log[m] = RowOf(seqOf, floor + m) /\ Log[m] \in Stored /\ seqOf[Log[m]] = floor + m
<1>1. Log = [m \in 1 .. head - floor |-> RowOf(seqOf, floor + m)]
  BY DEF Log, EventAt, RowOf
<1>2. ASSUME NEW m \in 1 .. head - floor
      PROVE  RowOf(seqOf, floor + m) \in Stored /\ seqOf[RowOf(seqOf, floor + m)] = floor + m
  <2>1. floor + m \in floor + 1 .. head
    BY EventsNow
  <2>2. PICK i \in Stored : seqOf[i] = floor + m
    BY <2>1, EventsNow
  <2>3. RowOf(seqOf, floor + m) = i
    BY <2>2, EventsNow
  <2> QED BY <2>2, <2>3
<1>3. head - floor \in Nat /\ Stored \subseteq Ids
  BY EventsNow
<1> QED BY <1>1, <1>2, <1>3

\* What a step leaves of the table leaves the log.
LEMMA SameLog ==
    ASSUME UNCHANGED <<seqOf, head, floor, life>>
    PROVE  UNCHANGED Promise!vars
BY DEF Promise!vars, Log, EventAt

LEMMA ExpiredHasNoLog ==
    ASSUME life = "expired", life' = "expired"
    PROVE  UNCHANGED Promise!vars
BY DEF Promise!vars, Log

\* What a commit writes: the numbers above the head, in the order of the events.
LEMMA CommitNumbers ==
    ASSUME IInv, NEW p \in Appenders, AppendCommits(p)
    PROVE  /\ apps[p].fresh \subseteq Ids /\ Cardinality(apps[p].fresh) \in Nat
           /\ \A i \in apps[p].fresh : seqOf[i] = 0
           /\ head' = head + Cardinality(apps[p].fresh) /\ UNCHANGED <<floor, life>>
           /\ \A i \in Ids \ apps[p].fresh : seqOf'[i] = seqOf[i]
           /\ \A i \in apps[p].fresh :
                 seqOf'[i] \in head + 1 .. head + Cardinality(apps[p].fresh)
           /\ \A i, j \in apps[p].fresh : i < j => seqOf'[i] < seqOf'[j]
<1> DEFINE r == apps[p]
<1>1. r \in CallType /\ r.base = head /\ r.fresh \subseteq Ids
  BY DEF IInv, TypeOK, WriterHasTheCursor, AppendCommits, CallType
<1>2. Cardinality(r.fresh) \in Nat /\ \A i \in r.fresh : seqOf[i] = 0
  BY <1>1, IdsAreFinite DEF AppendCommits, Conflicts
<1>3. PICK n \in Numbering(r) : seqOf' = [i \in Ids |-> IF i \in r.fresh THEN n[i] ELSE seqOf[i]]
  BY DEF AppendCommits
<1>4. /\ \A i \in r.fresh : n[i] \in head + 1 .. head + Cardinality(r.fresh)
      /\ \A i, j \in r.fresh : i < j => n[i] < n[j]
  BY <1>1 DEF Numbering
<1>5. head' = head + Cardinality(r.fresh) /\ UNCHANGED <<floor, life>>
  BY <1>1 DEF AppendCommits, Size
<1> QED BY <1>1, <1>2, <1>3, <1>4, <1>5

\* A commit appends its fresh events to the log, in their order.
LEMMA CommitAppends ==
    ASSUME IInv, IInv', NEW p \in Appenders, AppendCommits(p), life = "live"
    PROVE  [Promise!Next]_(Promise!vars)
<1> DEFINE F == apps[p].fresh
           k == Cardinality(F)
           s == [m \in 1..k |-> RowOf(seqOf', head + m)]
<1>1. /\ F \subseteq Ids /\ k \in Nat /\ head' = head + k /\ UNCHANGED <<floor, life>>
      /\ \A i \in F : seqOf[i] = 0 /\ seqOf'[i] \in head + 1 .. head + k
      /\ \A i \in Ids \ F : seqOf'[i] = seqOf[i]
      /\ \A i, j \in F : i < j => seqOf'[i] < seqOf'[j]
  BY CommitNumbers
<1>2. head \in Nat /\ floor \in Nat /\ floor <= head
  BY EventsNow
<1> HIDE DEF F, k
<1>3. ASSUME NEW m \in 1..k
      PROVE  RowOf(seqOf', head + m) \in F /\ seqOf'[RowOf(seqOf', head + m)] = head + m
  <2>1. head + m \in floor' + 1 .. head' /\ head + m > head
    BY <1>1, <1>2
  <2>2. PICK i \in Stored' : seqOf'[i] = head + m
    BY <1>1, <2>1, EventsNext
  <2>3. i \in Ids /\ RowOf(seqOf', head + m) = i
    BY <1>1, <2>2, EventsNext
  <2>4. i \in F
    <3> SUFFICES ASSUME i \notin F PROVE FALSE
      OBVIOUS
    <3>1. seqOf[i] = head + m /\ i \in Stored
      BY <1>1, <2>2, <2>3 DEF Stored
    <3>2. seqOf[i] \in floor + 1 .. head
      BY <3>1, EventsNow
    <3> QED BY <1>1, <1>2, <2>1, <3>1, <3>2
  <2> QED BY <2>2, <2>3, <2>4
<1>4. s \in [1..k -> F]
  BY <1>3
<1>5. ASSUME NEW m \in 1..k, NEW n \in 1..k, m < n
      PROVE  s[m] < s[n]
  <2>1. /\ s[m] \in F /\ s[n] \in F
        /\ seqOf'[s[m]] = head + m /\ seqOf'[s[n]] = head + n
    BY <1>3
  <2>2. s[m] \in Nat /\ s[n] \in Nat
    BY <1>1, <2>1, StreamAssumption
  <2> HIDE DEF s
  <2>3. head + m < head + n
    BY <1>1, <1>2, <1>5
  <2>4. ~(s[n] < s[m])
    BY <1>1, <1>2, <2>1, <2>3
  <2>5. s[n] # s[m]
    BY <1>1, <1>2, <2>1, <2>3
  <2> QED BY <2>2, <2>4, <2>5
<1>6. s \in Promise!InOrder(F)
  <2>1. DOMAIN s = 1..k
    OBVIOUS
  <2> HIDE DEF s
  <2> QED BY <1>4, <1>5, <2>1, SameCardinality DEF Promise!InOrder, k
<1>7. /\ Log = [m \in 1 .. head - floor |-> RowOf(seqOf, floor + m)]
      /\ Log \in Seq(Ids) /\ Len(Log) = head - floor
      /\ \A m \in 1 .. head - floor : Log[m] \in Stored /\ seqOf[Log[m]] = floor + m
  BY LogNow
<1>8. Log' = [m \in 1 .. (head + k) - floor |-> RowOf(seqOf', floor + m)]
  <2>1. life' = "live" /\ floor' = floor /\ head' = head + k
    BY <1>1
  <2>2. Log' = LogOf(seqOf', floor', head')
    BY <2>1 DEF Log, EventAt, RowOf, LogOf
  <2>3. Log' = LogOf(seqOf', floor, head + k)
    BY <2>1, <2>2
  <2> QED BY <2>3 DEF LogOf
<1>9. ASSUME NEW m \in 1 .. head - floor PROVE Log'[m] = Log[m]
  <2>1. m \in 1 .. (head + k) - floor
    BY <1>1, <1>2
  <2>2. Log[m] \in Stored /\ Log[m] \in Ids /\ seqOf[Log[m]] = floor + m
    BY <1>7, EventsNow
  <2>3. Log[m] \notin F /\ seqOf'[Log[m]] = floor + m /\ Log[m] \in Stored'
    BY <1>1, <1>2, <2>2 DEF Stored
  <2>4. RowOf(seqOf', floor + m) = Log[m]
    BY <1>1, <2>3, EventsNext
  <2> QED BY <1>8, <2>1, <2>4
<1>10. ASSUME NEW m \in 1..k PROVE Log'[head - floor + m] = s[m]
  <2>1. head - floor + m \in 1 .. (head + k) - floor /\ floor + (head - floor + m) = head + m
    BY <1>1, <1>2
  <2> QED BY <1>8, <2>1
<1>11. Log' = Log \o s
  <2>1. s \in Seq(Ids) /\ Len(s) = k
    BY <1>1, <1>4
  <2>2. Log' \in Seq(Ids) /\ Len(Log') = (head + k) - floor
    <3>1. \A m \in 1 .. (head + k) - floor : Log'[m] \in Ids
      <4> SUFFICES ASSUME NEW m \in 1 .. (head + k) - floor PROVE Log'[m] \in Ids
        OBVIOUS
      <4>1. CASE m <= head - floor
        BY <1>2, <1>7, <1>9, <4>1, EventsNow
      <4>2. CASE ~(m <= head - floor)
        <5>1. m - (head - floor) \in 1..k /\ head - floor + (m - (head - floor)) = m
          BY <1>1, <1>2, <4>2
        <5>2. Log'[m] = s[m - (head - floor)]
          BY <1>10, <5>1
        <5> QED BY <1>1, <1>4, <5>1, <5>2
      <4> QED BY <4>1, <4>2
    <3>2. (head + k) - floor \in Nat
      BY <1>1, <1>2
    <3> QED BY <1>8, <3>1, <3>2
  <2> HIDE DEF s
  <2>3. Log \o s \in Seq(Ids) /\ Len(Log \o s) = (head + k) - floor
    BY <1>1, <1>2, <1>7, <2>1
  <2>4. ASSUME NEW m \in 1 .. (head + k) - floor PROVE Log'[m] = (Log \o s)[m]
    <3>1. CASE m <= head - floor
      BY <1>2, <1>7, <1>9, <2>1, <3>1
    <3>2. CASE ~(m <= head - floor)
      <4>1. m - (head - floor) \in 1..k /\ head - floor + (m - (head - floor)) = m
        BY <1>1, <1>2, <3>2
      <4>2. Log'[m] = s[m - (head - floor)]
        BY <1>10, <4>1
      <4>3. m \in 1 .. Len(Log) + Len(s) /\ ~(m <= Len(Log)) /\ m - Len(Log) = m - (head - floor)
        BY <1>1, <1>2, <1>7, <2>1, <3>2
      <4>4. (Log \o s)[m] = s[m - Len(Log)]
        BY <1>7, <2>1, <4>3, ConcatAt
      <4> QED BY <4>2, <4>3, <4>4
    <3> QED BY <3>1, <3>2
  <2> QED BY <2>2, <2>3, <2>4, SeqEqual
<1>12. Promise!AppendBatch(F)
  BY <1>1, <1>6, <1>11 DEF Promise!AppendBatch
<1>13. \A m \in DOMAIN Log : Log[m] \notin F
  BY <1>1, <1>7 DEF Stored
<1>14. CASE F # {}
  BY <1>1, <1>12, <1>13, <1>14 DEF Promise!Next
<1>15. CASE F = {}
  <2>1. k = 0
    BY <1>15, FS_EmptySet DEF k
  <2>2. Log' = Log
    <3>1. Log' = [m \in 1 .. head - floor |-> RowOf(seqOf', floor + m)]
      BY <1>2, <1>8, <2>1
    <3> QED BY <1>7, <1>9, <3>1
  <2> QED BY <1>1, <2>2 DEF Promise!vars
<1> QED BY <1>14, <1>15

\* A trim that moves the floor takes the log's first entries.
LEMMA TrimCuts ==
    ASSUME IInv, IInv', NEW t \in Trimmers, TrimCommits(t), life = "live"
    PROVE  [Promise!Next]_(Promise!vars)
<1>1. head' = head /\ life' = life
  BY DEF TrimCommits
<1>2. CASE UNCHANGED <<seqOf, floor>>
  BY <1>1, <1>2, SameLog
<1>3. ASSUME NEW share \in Shares(trims[t]), NEW top \in TrimRun(trims[t], share), floor' = top,
             seqOf' = [i \in Ids |->
                 IF i \in trims[t].seen /\ seqOf[i] \in floor + 1 .. top THEN 0 ELSE seqOf[i]]
      PROVE  [Promise!Next]_(Promise!vars)
  <2>1. /\ head \in Nat /\ floor \in Nat /\ floor <= head
        /\ top \in Nat /\ top <= head /\ floor < top
    <3>1. top \in floor + 1 .. floor + share
      BY DEF TrimRun
    <3>2. share \in Nat
      BY DEF Shares
    <3> QED BY <1>1, <1>3, <3>1, <3>2, EventsNow, EventsNext
  <2>2. ASSUME NEW m \in 1 .. head - top
        PROVE  RowOf(seqOf', top + m) = RowOf(seqOf, top + m)
    <3>1. top + m \in floor' + 1 .. head'
      BY <1>1, <1>3, <2>1
    <3>2. PICK i \in Stored' : seqOf'[i] = top + m
      BY <1>1, <3>1, EventsNext
    <3>3. i \in Ids /\ RowOf(seqOf', top + m) = i
      BY <1>1, <3>2, EventsNext
    <3>4. seqOf[i] = top + m /\ i \in Stored
      BY <1>3, <2>1, <3>2, <3>3 DEF Stored
    <3>5. RowOf(seqOf, top + m) = i
      BY <3>4, EventsNow
    <3> QED BY <3>3, <3>5
  <2>3. /\ Log = [m \in 1 .. head - floor |-> RowOf(seqOf, floor + m)]
        /\ Log \in Seq(Ids) /\ Len(Log) = head - floor
    BY LogNow
  <2>4. Log' = [m \in 1 .. head - top |-> RowOf(seqOf', top + m)]
    <3>1. Log' = LogOf(seqOf', floor', head')
      BY <1>1 DEF Log, EventAt, RowOf, LogOf
    <3>2. Log' = LogOf(seqOf', top, head)
      BY <1>1, <1>3, <3>1
    <3> QED BY <3>2 DEF LogOf
  <2> DEFINE k == top - floor
  <2>5. k \in 1 .. Len(Log) /\ floor' = floor + k
    BY <1>3, <2>1, <2>3
  <2>6. SubSeq(Log, k + 1, Len(Log)) = [m \in 1 .. head - top |-> Log[k + m]]
    BY <2>1, <2>3, CutFront
  <2>7. ASSUME NEW m \in 1 .. head - top PROVE Log[k + m] = RowOf(seqOf, top + m)
    <3>1. k + m \in 1 .. head - floor /\ floor + (k + m) = top + m
      BY <2>1
    <3> QED BY <2>3, <3>1
  <2> HIDE DEF k
  <2>8. Log' = SubSeq(Log, k + 1, Len(Log))
    BY <2>2, <2>4, <2>6, <2>7
  <2>9. Promise!TrimBottom(k)
    BY <1>1, <2>5, <2>8 DEF Promise!TrimBottom
  <2> QED BY <2>5, <2>9 DEF Promise!Next
<1> QED BY <1>2, <1>3 DEF TrimCommits

\* Every step is one of the abstract stream, or leaves it as it is.
LEMMA StepsImplement == IInv /\ IInv' /\ [Next]_vars => [Promise!Next]_(Promise!vars)
<1> SUFFICES ASSUME IInv, IInv', [Next]_vars PROVE [Promise!Next]_(Promise!vars)
  OBVIOUS
<1>1. life \in {"live", "expired"}
  BY DEF IInv, TypeOK
<1>2. CASE UNCHANGED vars
  BY <1>2, SameLog DEF vars
<1>3. ASSUME NEW p \in Appenders, AppendBegins(p) \/ AppendStep(p) \/ AppendEnds(p)
      PROVE  [Promise!Next]_(Promise!vars)
  <2>1. CASE AppendCommits(p)
    <3>1. life' = life
      BY <2>1 DEF AppendCommits
    <3> QED BY <1>1, <2>1, <3>1, CommitAppends, ExpiredHasNoLog
  <2>2. CASE ~AppendCommits(p)
    <3>1. UNCHANGED <<seqOf, head, floor, life>>
      BY <1>3, <2>2 DEF AppendBegins, AppendStep, AppendEnds, AppendReads, AppendReserves,
                        AppendRollsBack, AppendRaises, AppendReadsBack
    <3> QED BY <3>1, SameLog
  <2> QED BY <2>1, <2>2
<1>4. ASSUME NEW t \in Trimmers, TrimReads(t) \/ TrimCommits(t) \/ TrimSkips(t)
      PROVE  [Promise!Next]_(Promise!vars)
  <2>1. CASE TrimCommits(t)
    <3>1. life' = life
      BY <2>1 DEF TrimCommits
    <3> QED BY <1>1, <2>1, <3>1, TrimCuts, ExpiredHasNoLog
  <2>2. CASE TrimReads(t) \/ TrimSkips(t)
    <3>1. UNCHANGED <<seqOf, head, floor, life>>
      BY <2>2 DEF TrimReads, TrimSkips
    <3> QED BY <3>1, SameLog
  <2> QED BY <1>4, <2>1, <2>2
<1>5. ASSUME \/ \E i \in Ids : Age(i)
             \/ \E c \in Readers : ReadPage(c) \/ ReadCursor(c) \/ OpenAtHead(c)
      PROVE  [Promise!Next]_(Promise!vars)
  <2>1. UNCHANGED <<seqOf, head, floor, life>>
    BY <1>5 DEF Age, ReadPage, ReadCursor, OpenAtHead
  <2> QED BY <2>1, SameLog
<1>6. CASE TenantExpires
  <2>1. life = "live" /\ life' = "expired"
    BY <1>6 DEF TenantExpires
  <2>2. Promise!Expire
    BY <2>1 DEF Promise!Expire, Log
  <2> QED BY <2>2 DEF Promise!Next
<1>7. CASE PurgeReads \/ PurgeCommits
  <2>1. life = "expired" /\ life' = "expired"
    BY <1>7 DEF PurgeReads, PurgeCommits, IInv, LifeRules
  <2> QED BY <2>1, ExpiredHasNoLog
<1> QED BY <1>2, <1>3, <1>4, <1>5, <1>6, <1>7 DEF Next

\* The statements, with their snapshots, locks, conflicts and retries, implement the
\* stream whose appends and trims are single steps.
THEOREM StreamIsImplemented == Spec => ImplementsStream
<1>1. Init => Promise!Init
  <2> SUFFICES ASSUME Init PROVE Promise!Init
    OBVIOUS
  <2>1. life = "live" /\ head = 0 /\ floor = 0
    BY DEF Init
  <2>2. Log = <<>>
    BY <2>1 DEF Log
  <2> QED BY <2>1, <2>2 DEF Promise!Init
<1>2. Spec => Promise!Spec
  BY <1>1, StepsImplement, StreamInvariant, PTL DEF Spec, Promise!Spec
<1> QED BY <1>2 DEF ImplementsStream
=============================================================================
