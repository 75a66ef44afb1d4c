---------------------------- MODULE CallersProofs ----------------------------
(***************************************************************************)
(* Four that act on what they cannot see, each for all its constants: the  *)
(* portal's tab on a stream it hears of over a socket, the tab's lists on  *)
(* a task that others write, a process on the entries of a cache, and the  *)
(* breaker on a service that fails.                                        *)
(*                                                                         *)
(* The tab passes no change its page has not read, and tells each notice   *)
(* once.  Neither is inductive.  What a replay keeps to tell at its end is *)
(* later than all that was told, and what the first catch-up is to tell is *)
(* earlier (KeptIsLater); while that job is still to run, all the tab has  *)
(* moved past since the hello was read (PassedSinceHello); and that it     *)
(* runs once is that a socket speaks its hello first (HelloIsFirst).       *)
(* What a first catch-up overlooks, a late record on its page having told  *)
(* it that the page is old enough, stays overlooked until the tab starts   *)
(* over, and is all that it overlooks (Overlooked).                        *)
(*                                                                         *)
(* The lists end at the newest version of a task, but for a version whose  *)
(* news an older answer crossed.  That is of the end, when nothing is on   *)
(* its way; NewestWillShow says at each step what will bring them there: a *)
(* push is to come, a read will tell, the ledger has it, or the lists are  *)
(* read again.  What is known was placed (KnownWillShow), no answer from   *)
(* before a delete is admitted after it (DeleteIsNews), and a list that    *)
(* shows the newest version out of its place, which keeps a placement from *)
(* taking effect, does so while an edit of this tab is under way           *)
(* (MovedForAWhile).                                                       *)
(*                                                                         *)
(* A read of the cache that began after the bump of a write answers that   *)
(* write or a later one.  FreshAfterBump is not inductive: a hit answers   *)
(* what some other read put under the key, so what may be under a key      *)
(* matters, and what may still be put there.  StaleIsPassed says of both   *)
(* that a value older than a bump is under a key the bump has passed;      *)
(* BegunPassesStale and KeyedFindsFresh carry that to a read that goes by  *)
(* a window and a generation it took before the counters moved on.         *)
(*                                                                         *)
(* The probe of a half-open breaker is alone.  ProbeIsAlone is not         *)
(* inductive: a second call out beside the probe could be one from before  *)
(* the breaker opened.  That there is none is OutSinceItOpened: such a     *)
(* call is at least as old as the opening, and after the cool-down it      *)
(* would be older than any call lives.                                     *)
(***************************************************************************)
EXTENDS Channel, FiniteSetTheorems, TLAPS

\* Of the read cache.
CONSTANTS Readers, MaxVersion, MaxWindow, Ttl, MaxFaults
VARIABLES source, unbumped, bumped, window, counts, entries, readers, faults

\* Of the breaker.
CONSTANTS Calls, Failures, Cooldown, Slow, Lag, MaxTurns
VARIABLES consecutive, opened, elapsed, probing, out, up, turns

\* Of the task in the tab's lists.
CONSTANTS MaxWrites, MaxReads, MaxLosses
VARIABLES history, pushed, lists, heard, clock, pending, gathered, reads, own, crossed, losses

RC == INSTANCE ReadCache
BR == INSTANCE Breaker WITH since <- elapsed, events <- turns, MaxEvents <- MaxTurns
TC == INSTANCE TaskCache WITH
    MaxVersion <- MaxWrites, MaxFaults <- MaxLosses, faults <- losses

-----------------------------------------------------------------------------
(* Numbers in order.                                                       *)

\* A finite set of numbers has a greatest.
LEMMA GreatestOf ==
    ASSUME NEW S \in SUBSET Nat, IsFiniteSet(S), S # {}
    PROVE  /\ Max(S) \in S
           /\ \A n \in S : n <= Max(S)
<1> DEFINE Bad == {T \in FiniteSubsetsOf(S) : T # {} /\ ~\E m \in T : \A n \in T : n <= m}
<1>1. Bad = {}
  <2> SUFFICES ASSUME Bad # {} PROVE FALSE
    OBVIOUS
  <2>1. PICK T \in Bad : \A U \in Bad : <<U, T>> \notin StrictSubsetOrdering(S)
    BY FS_StrictSubsetOrderingWellFounded, WFMin
  <2>2. T \in SUBSET S /\ IsFiniteSet(T) /\ T # {}
    BY DEF FiniteSubsetsOf
  <2>3. PICK t \in T : TRUE
    BY <2>2
  <2> DEFINE U == T \ {t}
  <2>4. U \in FiniteSubsetsOf(S) /\ U # T
    BY <2>2, <2>3, FS_RemoveElement DEF FiniteSubsetsOf
  <2>5. <<U, T>> \in StrictSubsetOrdering(S)
    BY <2>2, <2>4 DEF StrictSubsetOrdering, FiniteSubsetsOf
  <2>6. U \notin Bad
    BY <2>1, <2>5
  <2>7. CASE U = {}
    <3>1. \A n \in T : n <= t
      BY <2>2, <2>7
    <3> QED BY <3>1
  <2>8. CASE U # {}
    <3>1. PICK m \in U : \A n \in U : n <= m
      BY <2>4, <2>6, <2>8
    <3>2. CASE t <= m
      <4>1. m \in T /\ \A n \in T : n <= m
        BY <3>1, <3>2
      <4> QED BY <4>1
    <3>3. CASE ~(t <= m)
      <4>1. \A n \in T : n <= t
        BY <2>2, <3>1, <3>3
      <4> QED BY <4>1
    <3> QED BY <3>2, <3>3
  <2> QED BY <2>7, <2>8
<1>2. S \in FiniteSubsetsOf(S)
  BY DEF FiniteSubsetsOf
<1>3. \E m \in S : \A n \in S : n <= m
  BY <1>1, <1>2
<1> QED BY <1>3 DEF Max

\* The greater, and the lesser, of two.
LEMMA OfTwo ==
    ASSUME NEW a \in Int, NEW b \in Int
    PROVE  /\ Max({a, b}) = IF a >= b THEN a ELSE b
           /\ Min({a, b}) = IF a <= b THEN a ELSE b
<1>1. \E x \in {a, b} : \A y \in {a, b} : x >= y
  <2>1. CASE a >= b
    BY <2>1
  <2>2. CASE ~(a >= b)
    BY <2>2
  <2> QED BY <2>1, <2>2
<1>2. \E x \in {a, b} : \A y \in {a, b} : x =< y
  <2>1. CASE a <= b
    BY <2>1
  <2>2. CASE ~(a <= b)
    BY <2>2
  <2> QED BY <2>1, <2>2
<1>3. Max({a, b}) \in {a, b} /\ \A y \in {a, b} : Max({a, b}) >= y
  BY <1>1 DEF Max
<1>4. Min({a, b}) \in {a, b} /\ \A y \in {a, b} : Min({a, b}) =< y
  BY <1>2 DEF Min
<1> QED BY <1>3, <1>4

\* A finite set of numbers can be told in order, each once.
LEMMA CanBeOrdered ==
    ASSUME NEW S \in SUBSET Nat, IsFiniteSet(S)
    PROVE  \E s \in SetToSeqs(S) : \A i, j \in DOMAIN s : i < j => s[i] < s[j]
<1> DEFINE Goes(T) == \E s \in SetToSeqs(T) : \A i, j \in DOMAIN s : i < j => s[i] < s[j]
           Bad == {T \in FiniteSubsetsOf(S) : ~Goes(T)}
<1>1. Bad = {}
  <2> SUFFICES ASSUME Bad # {} PROVE FALSE
    OBVIOUS
  <2>1. PICK T \in Bad : \A U \in Bad : <<U, T>> \notin StrictSubsetOrdering(S)
    BY FS_StrictSubsetOrderingWellFounded, WFMin
  <2>2. T \in SUBSET S /\ IsFiniteSet(T) /\ ~Goes(T)
    BY DEF FiniteSubsetsOf
  <2>3. T # {}
    <3> SUFFICES ASSUME T = {} PROVE Goes(T)
      BY <2>2
    <3>1. Cardinality(T) = 0
      BY FS_EmptySet
    <3>2. << >> \in [1..0 -> {}]
      OBVIOUS
    <3>3. << >> \in SetToSeqs(T)
      BY <3>1, <3>2 DEF SetToSeqs
    <3> QED BY <3>3
  <2> DEFINE m == Max(T)
             U == T \ {m}
             n == Cardinality(T)
  <2>4. m \in T /\ \A k \in T : k <= m
    BY <2>2, <2>3, GreatestOf
  <2>5. /\ U \in FiniteSubsetsOf(S) /\ U # T
        /\ n \in Nat /\ n > 0 /\ Cardinality(U) = n - 1
    <3> HIDE DEF m
    <3>1. n \in Nat /\ n # 0
      BY <2>2, <2>3, FS_CardinalityType, FS_EmptySet
    <3>2. IsFiniteSet(U) /\ Cardinality(U) = n - 1
      BY <2>2, <2>4, FS_RemoveElement
    <3>3. U \in FiniteSubsetsOf(S) /\ U # T
      BY <2>2, <2>4, <3>2 DEF FiniteSubsetsOf
    <3> QED BY <3>1, <3>2, <3>3
  <2>6. <<U, T>> \in StrictSubsetOrdering(S)
    BY <2>2, <2>5 DEF StrictSubsetOrdering, FiniteSubsetsOf
  <2>7. Goes(U)
    BY <2>1, <2>5, <2>6
  <2>8. PICK u \in [1..(n - 1) -> U] :
            \A i, j \in 1..(n - 1) : /\ i # j => u[i] # u[j]
                                     /\ i < j => u[i] < u[j]
    BY <2>5, <2>7 DEF SetToSeqs
  <2> DEFINE s == [i \in 1..n |-> IF i = n THEN m ELSE u[i]]
  <2>9. \A i \in 1..n : i # n => i \in 1..(n - 1) /\ u[i] \in U
    BY <2>5, <2>8
  <2>10. s \in [1..n -> T]
    BY <2>4, <2>9
  <2>11. \A i, j \in 1..n : i < j => s[i] < s[j]
    <3> SUFFICES ASSUME NEW i \in 1..n, NEW j \in 1..n, i < j PROVE s[i] < s[j]
      OBVIOUS
    <3>1. i # n /\ i \in 1..(n - 1) /\ u[i] \in U
      BY <2>5, <2>9
    <3>2. CASE j = n
      <4>1. u[i] \in T /\ u[i] # m
        BY <3>1
      <4>2. u[i] \in Nat /\ m \in Nat /\ u[i] <= m
        BY <2>2, <2>4, <4>1
      <4>3. s[i] = u[i] /\ s[j] = m
        BY <3>1, <3>2
      <4> HIDE DEF s, m
      <4> QED BY <4>1, <4>2, <4>3
    <3>3. CASE j # n
      BY <2>8, <2>9, <3>1, <3>3
    <3> QED BY <3>2, <3>3
  <2>12. \A i, j \in 1..n : i # j => s[i] # s[j]
    <3> HIDE DEF s
    <3>1. \A i \in 1..n : s[i] \in Nat
      BY <2>2, <2>10
    <3> QED BY <2>5, <2>11, <3>1
  <2>13. s \in SetToSeqs(T)
    BY <2>10, <2>12 DEF SetToSeqs
  <2>14. DOMAIN s = 1..n
    OBVIOUS
  <2> HIDE DEF s
  <2> QED BY <2>2, <2>11, <2>13, <2>14
<1>2. S \in FiniteSubsetsOf(S)
  BY DEF FiniteSubsetsOf
<1> QED BY <1>1, <1>2

\* What Ascending is.
LEMMA AscendingIs ==
    ASSUME NEW S \in SUBSET Nat, IsFiniteSet(S)
    PROVE  /\ Ascending(S) \in Seq(S)
           /\ \A n \in S : \E i \in DOMAIN Ascending(S) : Ascending(S)[i] = n
           /\ \A i, j \in DOMAIN Ascending(S) : i < j => Ascending(S)[i] < Ascending(S)[j]
<1> DEFINE s == Ascending(S)
<1>1. s \in SetToSeqs(S) /\ \A i, j \in DOMAIN s : i < j => s[i] < s[j]
  BY CanBeOrdered DEF Ascending
<1>2. Cardinality(S) \in Nat
  BY FS_CardinalityType
<1>3. /\ s \in [1..Cardinality(S) -> S]
      /\ \A i, j \in 1..Cardinality(S) : i # j => s[i] # s[j]
  BY <1>1 DEF SetToSeqs
<1> HIDE DEF s
<1>4. s \in Seq(S)
  BY <1>2, <1>3
<1>5. \A n \in S : \E i \in DOMAIN s : s[i] = n
  <2>1. s \in Injection(1..Cardinality(S), S)
    BY <1>3 DEF Injection, IsInjective
  <2>2. Cardinality(1..Cardinality(S)) = Cardinality(S)
    BY <1>2, FS_Interval
  <2>3. s \in Surjection(1..Cardinality(S), S)
    BY <2>1, <2>2, FS_Injection
  <2> QED BY <1>3, <2>3 DEF Surjection
<1> QED BY <1>1, <1>4, <1>5 DEF s

-----------------------------------------------------------------------------
(* The tab's jobs.                                                         *)

LEMMA NumbersAre ==
    ASSUME ChannelAssumption
    PROVE  /\ MaxSeq \in Nat
           /\ \A n : n \in Numbers <=> n \in Nat /\ n <= MaxSeq
           /\ \A n : n \in Seqs <=> n \in Nat /\ 0 < n /\ n <= MaxSeq
           /\ \A n : n \in Seqs => n \in Numbers /\ n \in Nat
BY DEF ChannelAssumption, Numbers, Seqs

\* What there is of numbers.
LEMMA Types ==
    ASSUME ChannelAssumption, TypeOK
    PROVE  /\ head \in Nat /\ floor \in Nat /\ jumped \in Nat /\ server.known \in Nat
           /\ replay.push \in Nat /\ cursor \in Int /\ cursor >= -1 /\ (cursor # Null => cursor \in Nat)
           /\ \A n \in hints : n \in Nat
           /\ \A n \in replay.kept : n \in Nat
           /\ \A i \in DOMAIN lanes.stream : lanes.stream[i] \in Nat
           /\ \A i \in DOMAIN lanes.control : lanes.control[i].seq \in Nat
           /\ \A i \in DOMAIN inbox : inbox[i] \in Job /\ inbox[i].seq \in Nat
           /\ \A i \in DOMAIN told : told[i] \in Seqs /\ told[i] \in Nat
<1>1. /\ head \in Nat /\ floor \in Nat /\ jumped \in Nat /\ server.known \in Nat
      /\ replay.push \in Nat /\ cursor \in Int /\ cursor >= -1 /\ (cursor # Null => cursor \in Nat)
  BY DEF TypeOK, Numbers, Null
<1>2. (\A n \in hints : n \in Nat) /\ \A n \in replay.kept : n \in Nat
  <2>1. hints \subseteq Seqs /\ replay.kept \subseteq Seqs
    BY DEF TypeOK
  <2> QED BY <2>1 DEF Seqs
<1>3. \A i \in DOMAIN lanes.stream : lanes.stream[i] \in Nat
  <2>1. lanes.stream \in Seq(Seqs)
    BY DEF TypeOK
  <2>2. \A i \in DOMAIN lanes.stream : lanes.stream[i] \in Seqs
    BY <2>1
  <2> QED BY <2>2 DEF Seqs
<1>4. \A i \in DOMAIN lanes.control : lanes.control[i].seq \in Nat
  <2>1. lanes.control \in Seq(Frame)
    BY DEF TypeOK
  <2>2. \A i \in DOMAIN lanes.control : lanes.control[i] \in Frame
    BY <2>1
  <2>3. \A f \in Frame : f.seq \in Nat
    BY NumbersAre DEF Frame
  <2> QED BY <2>2, <2>3
<1>5. \A i \in DOMAIN inbox : inbox[i] \in Job /\ inbox[i].seq \in Nat
  <2>1. \A i \in DOMAIN inbox : inbox[i] \in Job
    BY DEF TypeOK
  <2>2. \A j \in Job : j.seq \in Nat
    BY NumbersAre DEF Job
  <2> QED BY <2>1, <2>2
<1>6. \A i \in DOMAIN told : told[i] \in Seqs /\ told[i] \in Nat
  <2>1. \A i \in DOMAIN told : told[i] \in Seqs
    BY DEF TypeOK
  <2> QED BY <2>1 DEF Seqs
<1> QED BY <1>1, <1>2, <1>3, <1>4, <1>5, <1>6

\* A job that waits behind the others.
LEMMA EnqueueAdds ==
    ASSUME ChannelAssumption, TypeOK, NEW kind, NEW n, [kind |-> kind, seq |-> n] \in Job,
           Enqueue(kind, n)
    PROVE  /\ inbox' \in Seq(Job) /\ Len(inbox') <= MaxInbox
           /\ Len(inbox') = Len(inbox) + 1
           /\ \A i \in DOMAIN inbox : i \in DOMAIN inbox' /\ inbox'[i] = inbox[i]
           /\ inbox'[Len(inbox) + 1].kind = kind /\ inbox'[Len(inbox) + 1].seq = n
           /\ \A i \in DOMAIN inbox' : i \in DOMAIN inbox \/ i = Len(inbox) + 1
<1> DEFINE job == [kind |-> kind, seq |-> n]
<1>1. inbox' = Append(inbox, job) /\ Len(inbox) < MaxInbox
  BY DEF Enqueue
<1>2. inbox \in Seq(Job) /\ job \in Job
  BY DEF TypeOK
<1>5. job.kind = kind /\ job.seq = n
  OBVIOUS
<1> HIDE DEF job
<1>3. /\ inbox' \in Seq(Job) /\ Len(inbox') = Len(inbox) + 1 /\ inbox'[Len(inbox) + 1] = job
      /\ \A i \in 1..Len(inbox) : inbox'[i] = inbox[i]
  BY <1>1, <1>2
<1>4. MaxInbox \in Nat /\ Len(inbox) \in Nat
  BY <1>2 DEF ChannelAssumption
<1> QED BY <1>1, <1>2, <1>3, <1>4, <1>5

\* What the page knows of the jobs that wait.
NoNewFirst ==
    \A i \in DOMAIN inbox' : inbox'[i].kind = "first" =>
        /\ i \in DOMAIN inbox /\ inbox'[i] = inbox[i]

FirstStays ==
    \A i \in DOMAIN inbox : inbox[i].kind = "first" =>
        \E j \in DOMAIN inbox' : inbox'[j].kind = "first"

\* A step that leaves the page, but for jobs that wait, leaves what it has of the
\* stream.
LEMMA PageStays ==
    ASSUME TypeOK, KeptIsLater, NoticesAreToldOnce, PassedSinceHello /\ NothingIsPassed,
           NoNewFirst, FirstStays,
           UNCHANGED <<cursor, replay, seen, told, jumped, recent>>,
           tab'.phase # "stopped" => tab.phase # "stopped"
    PROVE  /\ KeptIsLater' /\ NoticesAreToldOnce'
           /\ PassedSinceHello' /\ NothingIsPassed'
<1>1. KeptIsLater'
  BY DEF KeptIsLater, NoNewFirst
<1>2. NoticesAreToldOnce'
  BY DEF NoticesAreToldOnce
<1>3. PassedSinceHello'
  BY DEF PassedSinceHello, NoNewFirst
<1>4. NothingIsPassed'
  <2>1. Overlooked' = Overlooked
    BY DEF Overlooked
  <2> QED BY <2>1 DEF NothingIsPassed, FirstStays
<1> QED BY <1>1, <1>2, <1>3, <1>4

-----------------------------------------------------------------------------
(* The steps.                                                              *)

LEMMA InitHolds == ASSUME ChannelAssumption, Init PROVE IInv
<1>1. TypeOK
  <2>1. recent \in SUBSET Seqs
    BY DEF Init, Seqs, ChannelAssumption
  <2>2. head \in Numbers /\ 0 \in Numbers
    BY DEF Init, Numbers, ChannelAssumption
  <2> QED BY <2>1, <2>2 DEF Init, TypeOK, NoSocket, NoFrames, NoReplay, ChannelAssumption
<1>2. AllRecorded /\ HelloIsFirst
  BY DEF Init, AllRecorded, HelloIsFirst, NoSocket, NoFrames, NoReplay, Null, ChannelAssumption
<1>3. KeptIsLater /\ NoticesAreToldOnce
  <2>1. /\ cursor = -1 /\ jumped = 0 /\ told = <<>> /\ inbox = <<>> /\ replay.kept = {}
    BY DEF Init, NoReplay, Null
  <2>2. \A n \in Notices : n \in Nat
    BY DEF ChannelAssumption, Seqs
  <2>3. KeptIsLater
    BY <2>1 DEF KeptIsLater, Null
  <2>4. NoticesAreToldOnce
    BY <2>1, <2>2 DEF NoticesAreToldOnce
  <2> QED BY <2>3, <2>4
<1>4. PassedSinceHello /\ NothingIsPassed
  BY DEF Init, PassedSinceHello, NothingIsPassed
<1> QED BY <1>1, <1>2, <1>3, <1>4 DEF IInv

\* Record, Trim, Hear
LEMMA StreamKeeps ==
    ASSUME ChannelAssumption, IInv, Record \/ Trim \/ \E n \in Seqs : Hear(n)
    PROVE  IInv'
<1> USE DEF IInv
<1>1. UNCHANGED <<tab, page, recent, events>>
  BY DEF Record, Trim, Hear, stream
<1>2. NoNewFirst /\ FirstStays
  BY <1>1 DEF NoNewFirst, FirstStays, page
<1>3. KeptIsLater' /\ NoticesAreToldOnce' /\ PassedSinceHello' /\ NothingIsPassed'
  BY <1>1, <1>2, PageStays DEF page
<1>4. CASE Record
  <2>1. /\ head' = head + 1 /\ head' \in Numbers /\ head' \in Seqs /\ head \in Numbers
        /\ UNCHANGED <<floor, recent, server, lanes, tab, page, events>>
        /\ hints' = hints \cup {head'}
    BY <1>4 DEF Record, TypeOK, Numbers, Seqs, ChannelAssumption
  <2>2. TypeOK'
    BY <2>1 DEF TypeOK, page
  <2>3. AllRecorded'
    BY <2>1, Types DEF AllRecorded, page
  <2>4. HelloIsFirst'
    BY <2>1 DEF HelloIsFirst, page
  <2> QED BY <1>3, <2>2, <2>3, <2>4
<1>5. CASE Trim
  <2>1. /\ floor' = floor + 1 /\ floor' \in Numbers /\ floor' <= head
        /\ UNCHANGED <<head, recent, hints, server, lanes, tab, page, events>>
    BY <1>5 DEF Trim, TypeOK, Numbers, ChannelAssumption
  <2>2. TypeOK' /\ AllRecorded' /\ HelloIsFirst'
    BY <2>1 DEF TypeOK, AllRecorded, HelloIsFirst, page
  <2> QED BY <1>3, <2>2
<1>6. ASSUME NEW n \in Seqs, Hear(n) PROVE IInv'
  <2>1. /\ n <= head /\ n \in Numbers /\ n \in hints /\ hints' = hints \ {n}
        /\ server' = IF server.phase = "none" THEN server ELSE Learn(n)
        /\ lanes' = IF server.subscribed THEN OfferStream(n) ELSE lanes
        /\ UNCHANGED <<head, floor, recent, tab, page, events>>
    BY <1>6 DEF Hear, AllRecorded, stream, Seqs, Numbers
  <2>2. /\ server' \in [phase : {"none", "attached", "open"}, subscribed : BOOLEAN,
                        known : Numbers, fresh : BOOLEAN]
        /\ server'.phase = server.phase /\ server'.subscribed = server.subscribed
        /\ server'.known <= head
    BY <2>1 DEF Learn, TypeOK, AllRecorded
  <2>3. /\ lanes'.control = lanes.control
        /\ lanes' \in [control : Seq(Frame),
                       stream : Seq(Seqs)]
        /\ Len(lanes'.stream) <= Lane
        /\ \A i \in DOMAIN lanes'.stream : lanes'.stream[i] <= head
        /\ ~server.subscribed => lanes'.stream = lanes.stream
    <3>1. CASE ~server.subscribed
      BY <2>1, <3>1 DEF TypeOK, AllRecorded
    <3>2. CASE server.subscribed
      <4> DEFINE s == lanes.stream
                 t == Append(IF Len(s) >= Lane THEN Tail(s) ELSE s, n)
      <4>1. lanes' = [lanes EXCEPT !.stream = t]
        BY <2>1, <3>2 DEF OfferStream
      <4>2. s \in Seq(Seqs) /\ Len(s) <= Lane /\ Lane \in Nat /\ Lane > 0
            /\ \A i \in DOMAIN s : s[i] <= head
        BY DEF TypeOK, AllRecorded, ChannelAssumption
      <4>3. t \in Seq(Seqs) /\ Len(t) <= Lane /\ \A i \in DOMAIN t : t[i] <= head
        <5> HIDE DEF s
        <5>1. CASE Len(s) >= Lane
          BY <2>1, <4>2, <5>1
        <5>2. CASE ~(Len(s) >= Lane)
          BY <2>1, <4>2, <5>2
        <5> QED BY <5>1, <5>2
      <4> HIDE DEF t
      <4> QED BY <3>2, <4>1, <4>3 DEF TypeOK
    <3> QED BY <3>1, <3>2
  <2>4. TypeOK'
    BY <2>1, <2>2, <2>3 DEF TypeOK, page
  <2>5. AllRecorded'
    BY <2>1, <2>2, <2>3 DEF AllRecorded, page
  <2>6. HelloIsFirst'
    BY <2>1, <2>2, <2>3 DEF HelloIsFirst, page
  <2> QED BY <1>3, <2>4, <2>5, <2>6
<1> QED BY <1>4, <1>5, <1>6

\* What the handler keeps of a socket, and of its head.
ServerType == [phase : {"none", "attached", "open"}, subscribed : BOOLEAN,
               known : Numbers, fresh : BOOLEAN]

\* What the process makes of a number it hears.
LEMMA LearnIs ==
    ASSUME server \in ServerType, NEW n \in Numbers
    PROVE  /\ Learn(n) \in ServerType /\ Learn(n).phase = server.phase
           /\ Learn(n).subscribed = server.subscribed /\ Learn(n).known \in {server.known, n}
<1>1. CASE n >= server.known
  BY <1>1 DEF Learn, ServerType
<1>2. CASE ~(n >= server.known)
  BY <1>2 DEF Learn, ServerType
<1> QED BY <1>1, <1>2

\* A frame of the handler's own.
LEMMA OfferControlAdds ==
    ASSUME TypeOK, NEW type \in {"hello", "pong"}, NEW n \in Numbers, lanes.control = <<>>
    PROVE  /\ Len(OfferControl(type, n).control) = 1
           /\ OfferControl(type, n).control # <<>>
           /\ OfferControl(type, n).control[1].type = type
           /\ \A i \in DOMAIN OfferControl(type, n).control : OfferControl(type, n).control[i].seq = n
           /\ OfferControl(type, n).stream = lanes.stream
           /\ OfferControl(type, n) \in [control : Seq(Frame), stream : Seq(Seqs)]
<1>1. [type |-> type, seq |-> n] \in Frame
  BY DEF Frame
<1>2. PICK f \in Frame : f = [type |-> type, seq |-> n]
  BY <1>1
<1>3. OfferControl(type, n) = [lanes EXCEPT !.control = Append(lanes.control, f)]
  BY <1>2 DEF OfferControl
<1>4. /\ lanes \in [control : Seq(Frame), stream : Seq(Seqs)]
      /\ Append(lanes.control, f) = << f >> /\ << f >> \in Seq(Frame)
  BY DEF TypeOK
<1>5. /\ OfferControl(type, n).control = << f >> /\ OfferControl(type, n).stream = lanes.stream
      /\ OfferControl(type, n) \in [control : Seq(Frame), stream : Seq(Seqs)]
  BY <1>3, <1>4
<1>6. f.type = type /\ f.seq = n
  BY <1>2
<1>7. Len(<< f >>) = 1 /\ << f >> # <<>> /\ << f >>[1] = f /\ \A i \in DOMAIN << f >> : << f >>[i] = f
  OBVIOUS
<1> QED BY <1>5, <1>6, <1>7

\* ReadHead, Subscribe, Pong, KnownAges
LEMMA HandlerKeeps ==
    ASSUME ChannelAssumption, IInv, ReadHead \/ Subscribe \/ Pong \/ KnownAges
    PROVE  IInv'
<1> USE DEF IInv
<1>1. UNCHANGED <<head, floor, hints, tab, page, recent, events>>
  BY DEF ReadHead, Subscribe, Pong, KnownAges, stream
<1>2. NoNewFirst /\ FirstStays
  BY <1>1 DEF NoNewFirst, FirstStays, page
<1>3. KeptIsLater' /\ NoticesAreToldOnce' /\ PassedSinceHello' /\ NothingIsPassed'
  BY <1>1, <1>2, PageStays DEF page
<1>4. server \in ServerType /\ head \in Numbers /\ server.known \in Numbers
  BY DEF TypeOK, ServerType
<1>5. CASE ReadHead
  <2>1. /\ server.phase = "attached" /\ lanes.control = <<>> /\ ~server.subscribed
        /\ server' = [server EXCEPT !.phase = "open", !.known = head, !.fresh = TRUE]
        /\ lanes' = OfferControl("hello", head)
    BY <1>5 DEF ReadHead, HelloIsFirst
  <2>2. /\ server' \in ServerType /\ server'.phase = "open" /\ server'.known = head
        /\ ~server'.subscribed
    BY <1>4, <2>1 DEF ServerType
  <2>3. /\ Len(lanes'.control) = 1 /\ lanes'.control # <<>> /\ lanes'.control[1].type = "hello"
        /\ \A i \in DOMAIN lanes'.control : lanes'.control[i].seq = head
        /\ lanes'.stream = lanes.stream
        /\ lanes' \in [control : Seq(Frame), stream : Seq(Seqs)]
    BY <1>4, <2>1, OfferControlAdds
  <2>4. TypeOK'
    BY <1>1, <2>2, <2>3 DEF TypeOK, page, ServerType
  <2>5. AllRecorded'
    BY <1>1, <2>2, <2>3, Types DEF AllRecorded, page
  <2>6. HelloIsFirst'
    BY <1>1, <2>1, <2>2, <2>3 DEF HelloIsFirst, page
  <2> QED BY <1>3, <2>4, <2>5, <2>6
<1>6. CASE Subscribe
  <2>1. /\ server.phase = "open" /\ server' = [server EXCEPT !.subscribed = TRUE]
        /\ UNCHANGED lanes
    BY <1>6 DEF Subscribe
  <2>2. /\ server' \in ServerType /\ server'.phase = "open" /\ server'.known = server.known
        /\ server'.subscribed
    BY <1>4, <2>1 DEF ServerType
  <2>3. TypeOK'
    BY <1>1, <2>1, <2>2 DEF TypeOK, page, ServerType
  <2>4. AllRecorded'
    BY <1>1, <2>1, <2>2 DEF AllRecorded, page
  <2>5. HelloIsFirst'
    BY <1>1, <2>1, <2>2 DEF HelloIsFirst, page
  <2> QED BY <1>3, <2>3, <2>4, <2>5
<1>7. CASE Pong
  <2>1. /\ server.phase = "open" /\ lanes.control = <<>> /\ cursor # Null
        /\ \E n \in {server.known, head} : lanes' = OfferControl("pong", n)
        /\ server' = server \/ server' = Learn(head)
    BY <1>7 DEF Pong, HelloIsFirst
  <2>2. PICK n \in {server.known, head} : lanes' = OfferControl("pong", n)
    BY <2>1
  <2>3. n \in Numbers /\ n <= head
    BY <1>4, Types DEF AllRecorded
  <2>4. /\ Len(lanes'.control) = 1 /\ lanes'.control # <<>> /\ lanes'.control[1].type = "pong"
        /\ \A i \in DOMAIN lanes'.control : lanes'.control[i].seq = n
        /\ lanes'.stream = lanes.stream
        /\ lanes' \in [control : Seq(Frame), stream : Seq(Seqs)]
    BY <2>1, <2>2, <2>3, OfferControlAdds
  <2>5. /\ server' \in ServerType /\ server'.phase = "open"
        /\ server'.subscribed = server.subscribed /\ server'.known <= head
    <3>1. server.known <= head /\ head \in Nat
      BY Types DEF AllRecorded
    <3>2. CASE server' = server
      BY <1>4, <2>1, <3>1, <3>2
    <3>3. CASE server' = Learn(head)
      <4>1. /\ Learn(head) \in ServerType /\ Learn(head).phase = server.phase
            /\ Learn(head).subscribed = server.subscribed
            /\ Learn(head).known \in {server.known, head}
        BY <1>4, LearnIs
      <4> QED BY <2>1, <3>1, <3>3, <4>1
    <3> QED BY <2>1, <3>2, <3>3
  <2>6. TypeOK'
    BY <1>1, <2>4, <2>5 DEF TypeOK, page, ServerType
  <2>7. AllRecorded'
    BY <1>1, <2>3, <2>4, <2>5 DEF AllRecorded, page
  <2>8. HelloIsFirst'
    BY <1>1, <2>1, <2>4, <2>5 DEF HelloIsFirst, page
  <2> QED BY <1>3, <2>6, <2>7, <2>8
<1>8. CASE KnownAges
  <2>1. server' = [server EXCEPT !.fresh = FALSE] /\ UNCHANGED lanes
    BY <1>8 DEF KnownAges
  <2>2. /\ server' \in ServerType /\ server'.phase = server.phase /\ server'.known = server.known
        /\ server'.subscribed = server.subscribed
    BY <1>4, <2>1 DEF ServerType
  <2>3. TypeOK'
    BY <1>1, <2>1, <2>2 DEF TypeOK, page, ServerType
  <2>4. AllRecorded' /\ HelloIsFirst'
    BY <1>1, <2>1, <2>2 DEF AllRecorded, HelloIsFirst, page
  <2> QED BY <1>3, <2>3, <2>4
<1> QED BY <1>5, <1>6, <1>7, <1>8

\* A job that is no first catch-up leaves what the page has of the stream.
LEMMA JobAdded ==
    ASSUME ChannelAssumption, TypeOK, NEW kind \in {"push", "pong", "catch up"}, NEW n \in Numbers,
           Enqueue(kind, n)
    PROVE  /\ NoNewFirst /\ FirstStays
           /\ inbox' \in Seq(Job) /\ Len(inbox') <= MaxInbox
           /\ \A i \in DOMAIN inbox' : \/ i \in DOMAIN inbox /\ inbox'[i] = inbox[i]
                                       \/ inbox'[i].kind = kind /\ inbox'[i].seq = n
<1>1. [kind |-> kind, seq |-> n] \in Job
  BY DEF Job
<1>2. /\ inbox' \in Seq(Job) /\ Len(inbox') <= MaxInbox
      /\ \A i \in DOMAIN inbox : i \in DOMAIN inbox' /\ inbox'[i] = inbox[i]
      /\ inbox'[Len(inbox) + 1].kind = kind /\ inbox'[Len(inbox) + 1].seq = n
      /\ \A i \in DOMAIN inbox' : i \in DOMAIN inbox \/ i = Len(inbox) + 1
  BY <1>1, EnqueueAdds
<1>3. kind # "first"
  OBVIOUS
<1>4. NoNewFirst
  BY <1>2, <1>3 DEF NoNewFirst
<1>5. FirstStays
  BY <1>2 DEF FirstStays
<1> QED BY <1>2, <1>4, <1>5

LEMMA EventCounts ==
    ASSUME ChannelAssumption, TypeOK, UNCHANGED events \/ Event
    PROVE  events' \in 0..MaxEvents
BY DEF ChannelAssumption, TypeOK, Event

\* The socket of a tab that stops listening.
LEMMA LetGo ==
    ASSUME TypeOK, ChannelAssumption, LetsGo
    PROVE  /\ server' \in ServerType /\ server'.phase = "none" /\ ~server'.subscribed
           /\ server'.known = 0
           /\ lanes' \in [control : Seq(Frame), stream : Seq(Seqs)]
           /\ lanes'.control = <<>> /\ lanes'.stream = <<>>
BY DEF LetsGo, NoSocket, NoFrames, ServerType, Numbers, ChannelAssumption

TabType == [phase : {"connecting", "open", "waiting", "paused", "stopped"},
            settled : BOOLEAN, failed : 0..2, polling : BOOLEAN]

\* The failed cycles in a row, of which no more than two matter.
LEMMA FailedIs == ASSUME NEW f \in 0..2 PROVE Min({f + 1, 2}) \in 0..2
<1>1. f + 1 \in Int /\ 2 \in Int
  OBVIOUS
<1>2. Min({f + 1, 2}) = IF f + 1 <= 2 THEN f + 1 ELSE 2
  BY <1>1, OfTwo, Zenon
<1> QED BY <1>2

LEMMA OneFrame ==
    ASSUME NEW c \in Seq(Frame), Len(c) = 1
    PROVE  c[1] \in Frame /\ 1 \in DOMAIN c /\ Head(c) = c[1] /\ Tail(c) = <<>>
<1>1. c[1] \in Frame /\ 1 \in DOMAIN c /\ c # <<>>
  OBVIOUS
<1>2. Tail(c) \in Seq(Frame) /\ Len(Tail(c)) = 0
  BY <1>1
<1>3. \A s \in Seq(Frame) : Len(s) = 0 => s = <<>>
  OBVIOUS
<1>4. Tail(c) = <<>>
  BY <1>2, <1>3, Zenon
<1>5. Head(c) = c[1]
  BY <1>1
<1> QED BY <1>1, <1>4, <1>5, Zenon

\* Drops, Reconnect, Pause, Show, Poll, Opens, StaysOpen
LEMMA TabKeeps ==
    ASSUME ChannelAssumption, IInv,
           Opens \/ StaysOpen \/ Drops \/ Reconnect \/ Poll \/ Pause \/ Show
    PROVE  IInv'
<1> USE DEF IInv
<1>1. /\ UNCHANGED <<head, floor, hints, recent, cursor, replay, seen, told, jumped>>
      /\ events' \in 0..MaxEvents
  <2>1. UNCHANGED <<head, floor, hints, recent, cursor, replay, seen, told, jumped>>
    BY DEF Opens, StaysOpen, Drops, Reconnect, Poll, Pause, Show, stream, page
  <2>2. UNCHANGED events \/ Event
    BY DEF Opens, StaysOpen, Drops, Reconnect, Poll, Pause, Show, page
  <2> QED BY <2>1, <2>2, EventCounts
<1>2. /\ NoNewFirst /\ FirstStays
      /\ inbox' \in Seq(Job) /\ Len(inbox') <= MaxInbox
      /\ \A i \in DOMAIN inbox' : \/ i \in DOMAIN inbox /\ inbox'[i] = inbox[i]
                                  \/ inbox'[i].kind = "catch up" /\ inbox'[i].seq = 0
  <2>1. CASE UNCHANGED inbox
    BY <2>1 DEF NoNewFirst, FirstStays, TypeOK
  <2>2. CASE Enqueue("catch up", 0)
    <3>1. 0 \in Numbers
      BY NumbersAre
    <3> QED BY <2>2, <3>1, JobAdded
  <2> QED BY <2>1, <2>2 DEF Opens, StaysOpen, Drops, Reconnect, Poll, Pause, Show, page
<1>3. /\ tab.phase # "stopped" /\ tab'.phase # "stopped" /\ tab' \in TabType
      /\ server' \in ServerType /\ server'.known <= head
      /\ lanes' \in [control : Seq(Frame), stream : Seq(Seqs)]
      /\ \/ UNCHANGED <<server, lanes>> /\ (server.phase = "none" \/ tab'.phase = tab.phase)
         \/ /\ server'.phase \in {"none", "attached"} /\ ~server'.subscribed
            /\ lanes'.control = <<>> /\ lanes'.stream = <<>>
            /\ server'.phase = "attached" => tab'.phase = "open"
  <2>1. /\ tab \in TabType /\ server \in ServerType /\ server.known <= head /\ head \in Nat
        /\ lanes \in [control : Seq(Frame), stream : Seq(Seqs)]
    BY Types DEF TypeOK, TabType, ServerType, AllRecorded
  <2>2. CASE Opens
    <3>1. /\ tab.phase = "connecting" /\ tab' = [tab EXCEPT !.phase = "open", !.settled = FALSE]
          /\ server' = [NoSocket EXCEPT !.phase = "attached"] /\ UNCHANGED lanes
      BY <2>2 DEF Opens
    <3>2. /\ server' \in ServerType /\ server'.phase = "attached" /\ ~server'.subscribed
          /\ server'.known = 0
      <4>1. /\ NoSocket \in ServerType /\ NoSocket.known = 0 /\ ~NoSocket.subscribed
        BY NumbersAre DEF ServerType, NoSocket
      <4> QED BY <3>1, <4>1 DEF ServerType
    <3>3. lanes.control = <<>> /\ lanes.stream = <<>>
      BY <3>1 DEF HelloIsFirst
    <3>4. tab' \in TabType /\ tab'.phase = "open"
      BY <2>1, <3>1 DEF TabType
    <3> QED BY <2>1, <3>1, <3>2, <3>3, <3>4
  <2>3. CASE StaysOpen
    <3>1. /\ tab.phase = "open" /\ tab' = Settled /\ UNCHANGED <<server, lanes>>
      BY <2>3 DEF StaysOpen
    <3>2. tab' \in TabType /\ tab'.phase = tab.phase
      <4>1. 0 \in 0..2 /\ TRUE \in BOOLEAN /\ FALSE \in BOOLEAN
        OBVIOUS
      <4>2. tab' = [tab EXCEPT !.settled = TRUE, !.failed = 0, !.polling = FALSE]
        BY <3>1 DEF Settled
      <4>3. DOMAIN tab = {"phase", "settled", "failed", "polling"}
        BY <2>1 DEF TabType
      <4> QED BY <2>1, <4>1, <4>2, <4>3 DEF TabType
    <3> QED BY <2>1, <3>1, <3>2
  <2>4. CASE Drops
    <3>1. tab.phase # "stopped" /\ LetsGo
      BY <2>4 DEF Drops
    <3>2. tab' \in TabType /\ tab'.phase = "waiting"
      <4>1. tab.failed \in 0..2
        BY <2>1 DEF TabType
      <4>2. Min({tab.failed + 1, 2}) \in 0..2
        BY <4>1, FailedIs
      <4>3. PICK n \in 0..2 : tab' = [phase |-> "waiting", settled |-> FALSE, failed |-> n,
                                     polling |-> n > 1]
        BY <2>4, <4>2 DEF Drops
      <4> QED BY <4>3 DEF TabType
    <3> QED BY <2>1, <3>1, <3>2, LetGo
  <2>5. CASE Reconnect
    <3>1. /\ tab.phase = "waiting" /\ tab' = [tab EXCEPT !.phase = "connecting"]
          /\ UNCHANGED <<server, lanes>>
      BY <2>5 DEF Reconnect
    <3>2. tab' \in TabType /\ tab'.phase = "connecting" /\ server.phase = "none"
      BY <2>1, <3>1 DEF TabType, HelloIsFirst
    <3> QED BY <2>1, <3>1, <3>2
  <2>6. CASE Poll
    <3>1. tab.phase # "stopped" /\ UNCHANGED <<tab, server, lanes>>
      BY <2>6 DEF Poll, HelloIsFirst
    <3> QED BY <2>1, <3>1
  <2>7. CASE Pause
    <3>1. /\ tab.phase # "stopped" /\ LetsGo
          /\ tab' = [phase |-> "paused", settled |-> FALSE, failed |-> 0, polling |-> FALSE]
      BY <2>7 DEF Pause
    <3>2. tab' \in TabType /\ tab'.phase = "paused"
      BY <3>1 DEF TabType
    <3> QED BY <2>1, <3>1, <3>2, LetGo
  <2>8. CASE Show
    <3>1. /\ tab.phase = "paused" /\ tab' = [tab EXCEPT !.phase = "connecting"]
          /\ UNCHANGED <<server, lanes>>
      BY <2>8 DEF Show
    <3>2. tab' \in TabType /\ tab'.phase = "connecting" /\ server.phase = "none"
      BY <2>1, <3>1 DEF TabType, HelloIsFirst
    <3> QED BY <2>1, <3>1, <3>2
  <2> QED BY <2>2, <2>3, <2>4, <2>5, <2>6, <2>7, <2>8
<1>4. KeptIsLater' /\ NoticesAreToldOnce' /\ PassedSinceHello' /\ NothingIsPassed'
  BY <1>1, <1>2, <1>3, PageStays
<1>5. Len(lanes'.stream) <= Lane
  BY <1>3 DEF TypeOK, ChannelAssumption
<1>6. TypeOK'
  BY <1>1, <1>2, <1>3, <1>5 DEF TypeOK, ServerType, TabType
<1>7. AllRecorded'
  <2>1. \A i \in DOMAIN inbox' : inbox'[i].seq <= head
    <3>1. head \in Nat /\ \A i \in DOMAIN inbox : inbox[i].seq <= head
      BY Types DEF AllRecorded
    <3> SUFFICES ASSUME NEW i \in DOMAIN inbox' PROVE inbox'[i].seq <= head
      OBVIOUS
    <3>2. CASE i \in DOMAIN inbox /\ inbox'[i] = inbox[i]
      BY <3>1, <3>2
    <3>3. CASE inbox'[i].seq = 0
      BY <3>1, <3>3
    <3> QED BY <1>2, <3>2, <3>3
  <2> QED BY <1>1, <1>3, <2>1 DEF AllRecorded
<1>8. HelloIsFirst'
  <2>1. cursor = Null => \A i \in DOMAIN inbox' : inbox'[i].kind \in {"pong", "catch up"}
    BY <1>2 DEF HelloIsFirst
  <2> QED BY <1>1, <1>3, <2>1 DEF HelloIsFirst
<1> QED BY <1>4, <1>6, <1>7, <1>8

\* Stop
LEMMA StopKeeps == ASSUME ChannelAssumption, IInv, Stop PROVE IInv'
<1> USE DEF IInv
<1>1. /\ tab' = [phase |-> "stopped", settled |-> FALSE, failed |-> 0, polling |-> FALSE]
      /\ cursor' = -1 /\ inbox' = <<>> /\ replay' = [on |-> FALSE, push |-> 0, kept |-> {}]
      /\ seen' = {} /\ told' = <<>> /\ jumped' = 0
      /\ LetsGo /\ UNCHANGED <<head, floor, recent, hints, events>>
  BY DEF Stop, stream, Null, NoReplay
<1>2. /\ server' \in ServerType /\ server'.phase = "none" /\ ~server'.subscribed
      /\ server'.known = 0
      /\ lanes' \in [control : Seq(Frame), stream : Seq(Seqs)]
      /\ lanes'.control = <<>> /\ lanes'.stream = <<>>
  BY <1>1, LetGo
<1>3. TypeOK'
  <2>1. 0 \in Numbers /\ Len(lanes'.stream) <= Lane /\ MaxInbox >= 0
    BY <1>2, NumbersAre DEF ChannelAssumption
  <2> QED BY <1>1, <1>2, <2>1 DEF TypeOK, ServerType, Null
<1>4. AllRecorded' /\ HelloIsFirst'
  <2>1. replay'.push = 0 /\ ~replay'.on /\ tab'.phase = "stopped" /\ ~tab'.polling
    BY <1>1
  <2>2. floor <= head /\ head \in Nat /\ \A n \in hints : n <= head
    BY Types DEF AllRecorded
  <2>3. AllRecorded'
    BY <1>1, <1>2, <2>1, <2>2 DEF AllRecorded
  <2>4. HelloIsFirst'
    <3>1. told' = <<>> /\ jumped' = 0 /\ \A i \in DOMAIN inbox' : FALSE
      BY <1>1
    <3>2. cursor' = Null /\ inbox' = <<>>
      BY <1>1 DEF Null
    <3> QED BY <1>2, <2>1, <3>1, <3>2 DEF HelloIsFirst
  <2> QED BY <2>3, <2>4
<1>5. KeptIsLater' /\ NoticesAreToldOnce'
  <2>1. \A n \in Notices : n \in Nat
    BY DEF ChannelAssumption, Seqs
  <2> QED BY <1>1, <2>1 DEF KeptIsLater, NoticesAreToldOnce, Null
<1>6. PassedSinceHello' /\ NothingIsPassed'
  BY <1>1 DEF PassedSinceHello, NothingIsPassed, Null
<1> QED BY <1>3, <1>4, <1>5, <1>6

-----------------------------------------------------------------------------
(* What the page does.                                                     *)

\* What a read of some records' routes has read.
LEMMA ReadsAre ==
    ASSUME ChannelAssumption, TypeOK, NEW records, records \subseteq 1..head
    PROVE  /\ Reads(records) \in SUBSET Seqs /\ records \subseteq Reads(records)
           /\ ReadsAll \in SUBSET Seqs
<1>1. head \in Nat /\ head <= MaxSeq /\ MaxSeq \in Nat
  BY NumbersAre DEF TypeOK
<1>2. 1..head \subseteq Seqs
  BY <1>1 DEF Seqs
<1> QED BY <1>2 DEF Reads, ReadsAll

\* The notices among some records are told after the others, in their order.
ToldMore(S) ==
    /\ told' \in Seq(Seqs)
    /\ \A i \in DOMAIN told : i \in DOMAIN told' /\ told'[i] = told[i]
    /\ \A i \in DOMAIN told' : \A j \in DOMAIN told : i < j => i \in DOMAIN told
    /\ \A n \in S \cap Notices : \E i \in DOMAIN told' : told'[i] = n
    /\ \A i \in DOMAIN told' : i \in DOMAIN told \/ told'[i] \in S \cap Notices
    /\ \A i, j \in DOMAIN told' : i < j /\ i \notin DOMAIN told => told'[i] < told'[j]

LEMMA SeqOfMore == ASSUME NEW T, NEW N \in SUBSET T, NEW s \in Seq(N) PROVE s \in Seq(T)
<1>1. Len(s) \in Nat /\ s \in [1..Len(s) -> N]
  OBVIOUS
<1>2. s \in [1..Len(s) -> T]
  BY <1>1
<1> QED BY <1>1, <1>2

LEMMA TellsIs ==
    ASSUME ChannelAssumption, TypeOK, NEW S \in SUBSET Seqs, Tells(S)
    PROVE  ToldMore(S)
<1> DEFINE N == S \cap Notices
           s == Ascending(N)
<1>1. N \in SUBSET Nat /\ N \in SUBSET Seqs /\ IsFiniteSet(N)
  <2>1. IsFiniteSet(Seqs) /\ Seqs \subseteq Nat
    BY NumbersAre, FS_Interval DEF Seqs
  <2> QED BY <2>1, FS_Subset
<1>2. /\ s \in Seq(N)
      /\ \A n \in N : \E i \in DOMAIN s : s[i] = n
      /\ \A i, j \in DOMAIN s : i < j => s[i] < s[j]
  BY <1>1, AscendingIs
<1>3. told' = told \o s /\ told \in Seq(Seqs)
  BY DEF Tells, TypeOK
<1> HIDE DEF s, N
<1>4. s \in Seq(Seqs)
  BY <1>1, <1>2, SeqOfMore
<1>5. /\ told' \in Seq(Seqs) /\ Len(told') = Len(told) + Len(s)
      /\ \A i \in 1..Len(told) : told'[i] = told[i]
      /\ \A i \in 1..Len(s) : told'[Len(told) + i] = s[i]
  BY <1>3, <1>4
<1>6. /\ DOMAIN told = 1..Len(told) /\ DOMAIN s = 1..Len(s) /\ DOMAIN told' = 1..Len(told')
      /\ Len(told) \in Nat /\ Len(s) \in Nat
  BY <1>3, <1>4, <1>5
<1>7. \A i \in DOMAIN told' : i \notin DOMAIN told =>
          i - Len(told) \in 1..Len(s) /\ told'[i] = s[i - Len(told)]
  <2> SUFFICES ASSUME NEW i \in DOMAIN told', i \notin DOMAIN told
               PROVE  i - Len(told) \in 1..Len(s) /\ told'[i] = s[i - Len(told)]
    OBVIOUS
  <2>1. i - Len(told) \in 1..Len(s) /\ Len(told) + (i - Len(told)) = i
    BY <1>5, <1>6
  <2> QED BY <1>5, <2>1
<1>8. \A n \in N : \E i \in DOMAIN told' : told'[i] = n
  <2> SUFFICES ASSUME NEW n \in N PROVE \E i \in DOMAIN told' : told'[i] = n
    OBVIOUS
  <2>1. PICK i \in 1..Len(s) : s[i] = n
    BY <1>2, <1>6
  <2>2. Len(told) + i \in DOMAIN told'
    BY <1>5, <1>6
  <2> QED BY <1>5, <2>1, <2>2
<1>9. \A i \in DOMAIN told' : i \in DOMAIN told \/ told'[i] \in N
  <2>1. \A i \in 1..Len(s) : s[i] \in N
    BY <1>2
  <2> QED BY <1>7, <2>1
<1>10. \A i, j \in DOMAIN told' : i < j /\ i \notin DOMAIN told => told'[i] < told'[j]
  <2> SUFFICES ASSUME NEW i \in DOMAIN told', NEW j \in DOMAIN told', i < j, i \notin DOMAIN told
               PROVE  told'[i] < told'[j]
    OBVIOUS
  <2>1. j \notin DOMAIN told /\ i - Len(told) < j - Len(told)
    BY <1>5, <1>6
  <2> QED BY <1>2, <1>6, <1>7, <2>1
<1>11. \A i \in DOMAIN told, j \in DOMAIN told' : i < j \/ i = j \/ j \in DOMAIN told
  BY <1>5, <1>6
<1>12. \A i \in DOMAIN told' : \A j \in DOMAIN told : i < j => i \in DOMAIN told
  BY <1>5, <1>6
<1>13. \A i \in DOMAIN told : i \in DOMAIN told' /\ told'[i] = told[i]
  BY <1>5, <1>6
<1> QED BY <1>5, <1>8, <1>9, <1>10, <1>12, <1>13 DEF ToldMore, N

LEMMA NoneTold == ASSUME TypeOK, UNCHANGED told PROVE ToldMore({})
BY DEF ToldMore, TypeOK

\* The page goes on: the cursor moves over what was read, and what is told is
\* later than all that was, or earlier than the page's start and never told.
LEMMA PageGoesOn ==
    ASSUME ChannelAssumption, IInv, cursor # Null,
           UNCHANGED <<head, floor, recent, hints, server, lanes, tab>>, events' \in 0..MaxEvents,
           NEW shift \in {0, 1}, inbox' \in Seq(Job), Len(inbox') <= Len(inbox),
           \A i \in DOMAIN inbox' : i + shift \in DOMAIN inbox /\ inbox'[i] = inbox[i + shift],
           cursor' \in Numbers, cursor <= cursor', cursor' <= head,
           jumped' \in Numbers, jumped <= jumped', jumped' <= cursor',
           seen' \in SUBSET Seqs, seen \subseteq seen', (cursor + 1)..cursor' \subseteq seen',
           (\A i \in DOMAIN inbox' : inbox'[i].kind # "first") =>
               1..cursor \subseteq seen' \cup Overlooked,
           jumped' = jumped \/ 1..cursor' \subseteq seen',
           replay' \in [on : BOOLEAN, push : Numbers, kept : SUBSET Seqs],
           replay'.push <= head, ~replay'.on => replay'.kept = {}, replay'.kept \subseteq Notices,
           \A n \in replay'.kept : n <= cursor' /\ (n \in replay.kept \/ cursor < n),
           NEW S \in SUBSET Seqs, ToldMore(S),
           \A n \in S \cap Notices :
               /\ n <= cursor'
               /\ \/ n \in replay.kept \/ cursor < n
                  \/ /\ n <= jumped /\ \A k \in DOMAIN told : told[k] # n
                     /\ \A i \in DOMAIN inbox' : inbox'[i].kind # "first"
               /\ \A m \in replay'.kept : n < m,
           \A n \in Notices : jumped' < n /\ n <= cursor' /\ (n \in replay.kept \/ cursor < n) =>
               n \in S \/ n \in replay'.kept
    PROVE  IInv'
<1> USE DEF IInv
<1>1. TypeOK'
  <2>1. told' \in Seq(Seqs)
    BY DEF ToldMore
  <2>2. Len(inbox') <= MaxInbox
    BY DEF TypeOK, ChannelAssumption
  <2> QED BY <2>1, <2>2 DEF TypeOK
<1>2. AllRecorded'
  <2>1. head \in Nat /\ jumped' \in Nat /\ cursor' \in Nat /\ jumped' <= head
    BY NumbersAre, Types
  <2>2. \A i \in DOMAIN inbox' : inbox'[i].seq <= head
    BY DEF AllRecorded
  <2> QED BY <2>1, <2>2 DEF AllRecorded
<1>3. HelloIsFirst'
  <2>1. cursor' # Null
    <3>1. cursor' \in Nat
      BY NumbersAre
    <3> QED BY <3>1 DEF Null
  <2>2. tab.phase # "stopped"
    BY DEF HelloIsFirst
  <2> QED BY <2>1, <2>2 DEF HelloIsFirst
<1>4. /\ cursor \in Nat /\ cursor' \in Nat /\ jumped \in Nat /\ jumped' \in Nat /\ jumped <= cursor
      /\ \A n \in replay.kept : n \in Nat /\ n <= cursor
      /\ \A n \in replay'.kept : n \in Nat
      /\ \A n \in S : n \in Nat
      /\ \A n \in Notices : n \in Nat
      /\ \A k \in DOMAIN told : told[k] \in Nat /\ told[k] <= cursor
  BY NumbersAre, Types DEF KeptIsLater, ChannelAssumption
<1>5. \A i \in DOMAIN inbox' : inbox'[i].kind = "first" =>
          /\ inbox'[i].seq \in Nat /\ inbox'[i].seq <= jumped
          /\ \A j \in DOMAIN inbox' : inbox'[j].kind = "first" => i = j
          /\ \A k \in DOMAIN told : inbox'[i].seq < told[k]
          /\ \A n \in replay.kept : inbox'[i].seq < n
  <2> SUFFICES ASSUME NEW i \in DOMAIN inbox', inbox'[i].kind = "first"
               PROVE  /\ inbox'[i].seq \in Nat /\ inbox'[i].seq <= jumped
                      /\ \A j \in DOMAIN inbox' : inbox'[j].kind = "first" => i = j
                      /\ \A k \in DOMAIN told : inbox'[i].seq < told[k]
                      /\ \A n \in replay.kept : inbox'[i].seq < n
    OBVIOUS
  <2>1. i + shift \in DOMAIN inbox /\ inbox[i + shift] = inbox'[i]
    OBVIOUS
  <2>2. /\ inbox'[i].seq <= jumped
        /\ \A k \in DOMAIN told : inbox'[i].seq < told[k]
        /\ \A n \in replay.kept : inbox'[i].seq < n
        /\ \A j \in DOMAIN inbox : inbox[j].kind = "first" => i + shift = j
    BY <2>1 DEF KeptIsLater
  <2>3. inbox'[i].seq \in Nat
    BY <2>1, Types
  <2>4. \A j \in DOMAIN inbox' : inbox'[j].kind = "first" => i = j
    <3> SUFFICES ASSUME NEW j \in DOMAIN inbox', inbox'[j].kind = "first" PROVE i = j
      OBVIOUS
    <3>1. i + shift = j + shift
      BY <2>2
    <3>2. i \in Int /\ j \in Int /\ shift \in Int
      OBVIOUS
    <3> QED BY <3>1, <3>2
  <2> QED BY <2>2, <2>3, <2>4
<1>6. \A n \in S \cap Notices : \A k \in DOMAIN told : told[k] < n \/ (n <= jumped /\ told[k] # n)
  <2> SUFFICES ASSUME NEW n \in S \cap Notices, NEW k \in DOMAIN told
               PROVE  told[k] < n \/ (n <= jumped /\ told[k] # n)
    OBVIOUS
  <2>1. CASE n \in replay.kept
    BY <2>1 DEF KeptIsLater
  <2>2. CASE cursor < n
    <3>1. n \in Nat /\ told[k] \in Nat /\ told[k] <= cursor
      BY <1>4
    <3> QED BY <1>4, <2>2, <3>1
  <2> QED BY <2>1, <2>2
<1>7. \A n \in S \cap Notices : \A i \in DOMAIN inbox' : inbox'[i].kind = "first" => inbox'[i].seq < n
  <2> SUFFICES ASSUME NEW n \in S \cap Notices, NEW i \in DOMAIN inbox', inbox'[i].kind = "first"
               PROVE  inbox'[i].seq < n
    OBVIOUS
  <2>1. n \in replay.kept \/ cursor < n
    OBVIOUS
  <2>2. inbox'[i].seq \in Nat /\ inbox'[i].seq <= jumped
    BY <1>5
  <2>3. CASE n \in replay.kept
    BY <1>5, <2>3
  <2>4. CASE cursor < n
    <3>1. n \in Nat
      BY <1>4
    <3> QED BY <1>4, <2>2, <2>4, <3>1
  <2> QED BY <2>1, <2>3, <2>4
<1>8. \A k \in DOMAIN told' : \/ k \in DOMAIN told /\ told'[k] = told[k]
                              \/ told'[k] \in S \cap Notices
  BY DEF ToldMore
<1>9. KeptIsLater'
  <2>1. \A k \in DOMAIN told' : /\ told'[k] <= cursor'
                                /\ \A n \in replay'.kept : told'[k] < n
    <3> SUFFICES ASSUME NEW k \in DOMAIN told'
                 PROVE  told'[k] <= cursor' /\ \A n \in replay'.kept : told'[k] < n
      OBVIOUS
    <3>1. CASE k \in DOMAIN told /\ told'[k] = told[k]
      BY <1>4, <3>1 DEF KeptIsLater
    <3>2. CASE told'[k] \in S \cap Notices
      BY <3>2
    <3> QED BY <1>8, <3>1, <3>2
  <2>2. \A i \in DOMAIN inbox' : inbox'[i].kind = "first" =>
            /\ inbox'[i].seq <= jumped'
            /\ \A j \in DOMAIN inbox' : inbox'[j].kind = "first" => i = j
            /\ \A k \in DOMAIN told' : inbox'[i].seq < told'[k]
            /\ \A n \in replay'.kept : inbox'[i].seq < n
    <3> SUFFICES ASSUME NEW i \in DOMAIN inbox', inbox'[i].kind = "first"
                 PROVE  /\ inbox'[i].seq <= jumped'
                        /\ \A j \in DOMAIN inbox' : inbox'[j].kind = "first" => i = j
                        /\ \A k \in DOMAIN told' : inbox'[i].seq < told'[k]
                        /\ \A n \in replay'.kept : inbox'[i].seq < n
      OBVIOUS
    <3>1. inbox'[i].seq <= jumped'
      BY <1>4, <1>5
    <3>2. \A k \in DOMAIN told' : inbox'[i].seq < told'[k]
      BY <1>5, <1>7, <1>8
    <3>3. \A n \in replay'.kept : inbox'[i].seq < n
      BY <1>4, <1>5
    <3> QED BY <1>5, <3>1, <3>2, <3>3
  <2> QED BY <2>1, <2>2 DEF KeptIsLater
<1>10. NoticesAreToldOnce'
  <2>1. \A i, j \in DOMAIN told' : i < j =>
            told'[i] # told'[j] /\ (told'[i] < told'[j] \/ told'[j] <= jumped')
    <3> SUFFICES ASSUME NEW i \in DOMAIN told', NEW j \in DOMAIN told', i < j
                 PROVE  told'[i] # told'[j] /\ (told'[i] < told'[j] \/ told'[j] <= jumped')
      OBVIOUS
    <3>1. CASE i \notin DOMAIN told
      <4>1. told'[i] < told'[j] /\ told'[i] \in Nat /\ told'[j] \in Nat
        BY <1>4, <1>8, <3>1 DEF ToldMore
      <4> QED BY <4>1
    <3>2. CASE i \in DOMAIN told /\ j \in DOMAIN told
      <4>1. told'[i] = told[i] /\ told'[j] = told[j]
        BY <3>2 DEF ToldMore
      <4>2. told[i] # told[j] /\ (told[i] < told[j] \/ told[j] <= jumped)
        BY <3>2 DEF NoticesAreToldOnce
      <4> QED BY <1>4, <3>2, <4>1, <4>2
    <3>3. CASE i \in DOMAIN told /\ j \notin DOMAIN told
      <4>1. told'[i] = told[i] /\ told'[j] \in S \cap Notices
        BY <1>8, <3>3 DEF ToldMore
      <4> QED BY <1>4, <1>6, <3>3, <4>1
    <3> QED BY <3>1, <3>2, <3>3
  <2>2. \A n \in Notices : jumped' < n /\ n <= cursor' => n \in Range(told') \cup replay'.kept
    <3> SUFFICES ASSUME NEW n \in Notices, jumped' < n, n <= cursor', n \notin replay'.kept
                 PROVE  \E k \in DOMAIN told' : told'[k] = n
      BY DEF Range
    <3>1. CASE n \in S
      BY <3>1 DEF ToldMore
    <3>2. CASE n \notin S
      <4>1. n \notin replay.kept /\ ~(cursor < n)
        BY <3>2
      <4>2. jumped < n /\ n <= cursor
        BY <1>4, <4>1
      <4>3. PICK k \in DOMAIN told : told[k] = n
        BY <4>1, <4>2 DEF NoticesAreToldOnce, Range
      <4> QED BY <4>3 DEF ToldMore
    <3> QED BY <3>1, <3>2
  <2> QED BY <2>1, <2>2 DEF NoticesAreToldOnce
<1>11. PassedSinceHello' /\ NothingIsPassed'
  <2>1. \A i \in DOMAIN inbox' : inbox'[i].kind = "first" => (inbox'[i].seq + 1)..cursor' \subseteq seen'
    <3> SUFFICES ASSUME NEW i \in DOMAIN inbox', inbox'[i].kind = "first",
                        NEW n \in (inbox'[i].seq + 1)..cursor'
                 PROVE  n \in seen'
      OBVIOUS
    <3>1. (inbox'[i].seq + 1)..cursor \subseteq seen
      BY DEF PassedSinceHello
    <3>2. inbox'[i].seq \in Nat
      BY <1>5
    <3>3. n \in (inbox'[i].seq + 1)..cursor \/ n \in (cursor + 1)..cursor'
      BY <1>4, <3>2
    <3> QED BY <3>1, <3>3
  <2>2. NothingIsPassed'
    <3> SUFFICES ASSUME \A i \in DOMAIN inbox' : inbox'[i].kind # "first", NEW n \in 1..cursor'
                 PROVE  n \in seen' \cup Overlooked'
      BY DEF NothingIsPassed
    <3>1. 1..cursor \subseteq seen' \cup Overlooked
      OBVIOUS
    <3>2. n \in 1..cursor \/ n \in (cursor + 1)..cursor'
      BY <1>4
    <3>3. jumped' = jumped => Overlooked' = Overlooked
      BY DEF Overlooked
    <3> QED BY <3>1, <3>2, <3>3
  <2>3. \A i \in DOMAIN inbox' : inbox'[i].kind = "first" =>
            inbox'[i].seq = jumped' \/ 1..cursor' \subseteq seen'
    <3> SUFFICES ASSUME NEW i \in DOMAIN inbox', inbox'[i].kind = "first", jumped' = jumped,
                        inbox'[i].seq # jumped, NEW n \in 1..cursor'
                 PROVE  n \in seen'
      OBVIOUS
    <3>1. 1..cursor \subseteq seen
      BY DEF PassedSinceHello
    <3>2. n \in 1..cursor \/ n \in (cursor + 1)..cursor'
      BY <1>4
    <3> QED BY <3>1, <3>2
  <2>4. PassedSinceHello'
    BY <2>1, <2>3 DEF PassedSinceHello
  <2> QED BY <2>2, <2>4
<1> QED BY <1>1, <1>2, <1>3, <1>9, <1>10, <1>11

\* The first job, and those behind it.
LEMMA JobsAre ==
    ASSUME ChannelAssumption, TypeOK, inbox # <<>>
    PROVE  /\ Head(inbox) = inbox[1] /\ 1 \in DOMAIN inbox /\ inbox[1] \in Job
           /\ Tail(inbox) \in Seq(Job) /\ Len(Tail(inbox)) <= Len(inbox)
           /\ \A i \in DOMAIN Tail(inbox) : i + 1 \in DOMAIN inbox /\ Tail(inbox)[i] = inbox[i + 1]
           /\ \A i \in DOMAIN Tail(inbox) : i # 0
<1> DEFINE t == Tail(inbox)
<1>1. inbox \in Seq(Job)
  BY DEF TypeOK
<1>2. Len(inbox) \in Nat /\ Len(inbox) > 0 /\ 1 \in DOMAIN inbox /\ inbox[1] \in Job
  BY <1>1
<1>3. t \in Seq(Job) /\ Len(t) = Len(inbox) - 1 /\ \A i \in 1..Len(t) : t[i] = inbox[i + 1]
  BY <1>1, <1>2
<1> HIDE DEF t
<1>4. \A i \in DOMAIN t : i \in 1..Len(t) /\ i # 0 /\ i + 1 \in DOMAIN inbox
  BY <1>1, <1>2, <1>3
<1> QED BY <1>1, <1>2, <1>3, <1>4 DEF t

\* RunJob
LEMMA RunJobKeeps == ASSUME ChannelAssumption, IInv, RunJob PROVE IInv'
<1> USE DEF IInv
<1> DEFINE job == Head(inbox)
<1>1. /\ inbox # <<>> /\ ~replay.on /\ inbox' = Tail(inbox)
      /\ UNCHANGED <<head, floor, recent, hints, server, lanes, tab, jumped>>
  BY DEF RunJob, stream
<1>2. /\ job = inbox[1] /\ 1 \in DOMAIN inbox /\ job \in Job
      /\ inbox' \in Seq(Job) /\ Len(inbox') <= Len(inbox)
      /\ \A i \in DOMAIN inbox' : i + 1 \in DOMAIN inbox /\ inbox'[i] = inbox[i + 1]
      /\ \A i \in DOMAIN inbox' : i # 0
  BY <1>1, JobsAre
<1>3. /\ job.seq \in Nat /\ job.seq <= head /\ job.seq \in Numbers /\ replay.kept = {}
      /\ head \in Nat /\ head <= MaxSeq
  BY <1>1, <1>2, Types, NumbersAre DEF AllRecorded, KeptIsLater, Job, TypeOK
<1>4. \/ job.kind = "push"
      \/ job.kind = "pong"
      \/ job.kind = "catch up"
      \/ job.kind = "first"
  BY <1>2 DEF Job
<1>5. events' \in 0..MaxEvents
  <2>1. UNCHANGED events \/ Event
    BY DEF RunJob, FirstCatchUp
  <2> QED BY <2>1, EventCounts
<1>6. /\ cursor \in Numbers \cup {Null} /\ jumped \in Numbers /\ seen \in SUBSET Seqs
      /\ replay \in [on : BOOLEAN, push : Numbers, kept : SUBSET Seqs] /\ replay.push <= head
      /\ cursor <= head /\ (cursor # Null => jumped <= cursor /\ cursor \in Nat)
  BY Types DEF TypeOK, AllRecorded, KeptIsLater
<1> HIDE DEF job
<1>7. CASE cursor = Null
  <2>1. job.kind \in {"pong", "catch up"}
    BY <1>2, <1>7 DEF HelloIsFirst
  <2>2. /\ UNCHANGED <<cursor, replay, told>>
        /\ seen' = seen \/ seen' = seen \cup ReadsAll
    BY <1>7, <2>1 DEF RunJob, job, RefreshAll
  <2>3. seen' \in SUBSET Seqs /\ seen \subseteq seen'
    <3>1. ReadsAll \in SUBSET Seqs
      BY ReadsAre
    <3> QED BY <1>6, <2>2, <3>1
  <2>4. TypeOK'
    <3>1. Len(inbox') <= MaxInbox
      BY <1>2 DEF TypeOK, ChannelAssumption
    <3> QED BY <1>1, <1>2, <1>5, <2>2, <2>3, <3>1 DEF TypeOK
  <2>5. AllRecorded'
    <3>1. \A i \in DOMAIN inbox' : inbox'[i].seq <= head
      BY <1>2 DEF AllRecorded
    <3> QED BY <1>1, <2>2, <3>1 DEF AllRecorded
  <2>6. \A i \in DOMAIN inbox' : inbox'[i].kind \in {"pong", "catch up"}
    BY <1>2, <1>7 DEF HelloIsFirst
  <2>7. HelloIsFirst'
    <3>1. tab.phase # "stopped"
      BY <1>1 DEF HelloIsFirst
    <3> QED BY <1>1, <2>2, <2>6, <3>1 DEF HelloIsFirst
  <2>8. KeptIsLater' /\ NoticesAreToldOnce'
    BY <1>1, <2>2, <2>6 DEF KeptIsLater, NoticesAreToldOnce
  <2>9. PassedSinceHello' /\ NothingIsPassed'
    BY <1>1, <1>7, <2>2, <2>3, <2>6 DEF PassedSinceHello, NothingIsPassed
  <2> QED BY <2>4, <2>5, <2>7, <2>8, <2>9
<1>8. CASE cursor # Null /\ job.kind # "first"
  <2>1. (\A i \in DOMAIN inbox' : inbox'[i].kind # "first") =>
            1..cursor \subseteq seen \cup Overlooked
    <3> SUFFICES ASSUME \A i \in DOMAIN inbox' : inbox'[i].kind # "first"
                 PROVE  1..cursor \subseteq seen \cup Overlooked
      OBVIOUS
    <3>1. \A j \in DOMAIN inbox : inbox[j].kind # "first"
      <4> SUFFICES ASSUME NEW j \in DOMAIN inbox PROVE inbox[j].kind # "first"
        OBVIOUS
      <4>1. CASE j = 1
        BY <1>2, <1>8, <4>1
      <4>2. CASE j # 1
        <5>1. inbox \in Seq(Job)
          BY DEF TypeOK
        <5>2. j - 1 \in DOMAIN inbox' /\ (j - 1) + 1 = j
          BY <1>1, <4>2, <5>1
        <5> QED BY <1>2, <5>2
      <4> QED BY <4>1, <4>2
    <3> QED BY <1>8, <3>1 DEF NothingIsPassed
  <2>2. CASE UNCHANGED <<cursor, seen, told>> /\ (replay' = replay \/ \E n \in {0, job.seq} : StartReplay(n))
    <3>1. ToldMore({}) /\ {} \in SUBSET Seqs
      BY <2>2, NoneTold
    <3>2. /\ replay' \in [on : BOOLEAN, push : Numbers, kept : SUBSET Seqs]
          /\ replay'.push <= head /\ replay'.kept = {}
      <4>1. 0 \in Numbers /\ 0 <= head
        BY <1>3, NumbersAre
      <4>2. CASE replay' = replay
        BY <1>3, <1>6, <4>2
      <4>3. CASE \E n \in {0, job.seq} : StartReplay(n)
        <5>1. PICK n \in Numbers : n <= head /\ StartReplay(n)
          BY <1>3, <4>1, <4>3
        <5> QED BY <5>1 DEF StartReplay
      <4> QED BY <2>2, <4>2, <4>3
    <3>3. (cursor + 1)..cursor' \subseteq seen'
      BY <1>6, <1>8, <2>2
    <3>4. /\ cursor' \in Numbers /\ cursor <= cursor' /\ cursor' <= head
          /\ jumped' \in Numbers /\ jumped <= jumped' /\ jumped' <= cursor'
      BY <1>1, <1>6, <1>8, <2>2, NumbersAre
    <3>5. (\A i \in DOMAIN inbox' : inbox'[i].kind # "first") =>
              1..cursor \subseteq seen' \cup Overlooked
      BY <2>1, <2>2
    <3>6. \A n \in Notices : jumped' < n /\ n <= cursor' /\ (n \in replay.kept \/ cursor < n) =>
              n \in {} \/ n \in replay'.kept
      <4>1. \A n \in Notices : n \in Nat
        BY NumbersAre DEF ChannelAssumption
      <4> QED BY <1>3, <1>6, <1>8, <2>2, <4>1
    <3>7. seen' \in SUBSET Seqs /\ seen \subseteq seen'
      BY <1>6, <2>2
    <3> QED BY <1>1, <1>2, <1>5, <1>8, <3>1, <3>2, <3>3, <3>4, <3>5, <3>6, <3>7, PageGoesOn
  <2>3. CASE /\ cursor' = job.seq /\ cursor' = cursor + 1 /\ seen' = seen \cup Reads({job.seq})
             /\ Tells({job.seq}) /\ UNCHANGED replay
    <3>1. job.seq \in 1..head /\ {job.seq} \in SUBSET Seqs /\ cursor \in Nat
      BY <1>3, <1>6, <1>8, <2>3, NumbersAre
    <3>2. ToldMore({job.seq})
      BY <2>3, <3>1, TellsIs
    <3>3. Reads({job.seq}) \in SUBSET Seqs /\ {job.seq} \subseteq Reads({job.seq})
      BY <3>1, ReadsAre
    <3>4. seen' \in SUBSET Seqs /\ seen \subseteq seen' /\ (cursor + 1)..cursor' \subseteq seen'
      <4>1. \A n \in (cursor + 1)..cursor' : n = job.seq
        BY <2>3, <3>1
      <4> QED BY <1>6, <2>3, <3>1, <3>3, <4>1
    <3>5. /\ cursor' \in Numbers /\ cursor <= cursor' /\ cursor' <= head
          /\ jumped' \in Numbers /\ jumped <= jumped' /\ jumped' <= cursor'
      BY <1>1, <1>3, <1>6, <1>8, <2>3, <3>1, NumbersAre
    <3>6. (\A i \in DOMAIN inbox' : inbox'[i].kind # "first") =>
              1..cursor \subseteq seen' \cup Overlooked
      BY <2>1, <3>4
    <3>7. /\ replay' \in [on : BOOLEAN, push : Numbers, kept : SUBSET Seqs]
          /\ replay'.push <= head /\ replay'.kept = {}
      BY <1>3, <1>6, <2>3
    <3>8. \A n \in {job.seq} : n <= cursor' /\ cursor < n
      BY <2>3, <3>1
    <3>9. \A n \in Notices : jumped' < n /\ n <= cursor' /\ (n \in replay.kept \/ cursor < n) =>
              n \in {job.seq}
      <4>1. \A n \in Notices : n \in Nat
        BY NumbersAre DEF ChannelAssumption
      <4> QED BY <1>3, <2>3, <3>1, <4>1
    <3> QED BY <1>1, <1>2, <1>5, <1>8, <3>1, <3>2, <3>4, <3>5, <3>6, <3>7, <3>8, <3>9, PageGoesOn
  <2>4. \/ UNCHANGED <<cursor, seen, told>> /\ (replay' = replay \/ \E n \in {0, job.seq} : StartReplay(n))
        \/ /\ cursor' = job.seq /\ job.seq = cursor + 1 /\ seen' = seen \cup Reads({job.seq})
           /\ Tells({job.seq}) /\ UNCHANGED replay
    BY <1>4, <1>8 DEF RunJob, job, Apply, Place, StartReplay
  <2> QED BY <2>2, <2>3, <2>4
<1>9. CASE cursor # Null /\ job.kind = "first"
  <2> DEFINE top == job.seq
             after == Max({0, top - PageSize})
             tail == (after + 1)..top
             since == tail \cap recent
  <2>1. FirstCatchUp(top)
    BY <1>9 DEF RunJob, job
  <2>2. /\ \A i \in DOMAIN inbox' : inbox'[i].kind # "first"
        /\ top <= jumped /\ \A k \in DOMAIN told : top < told[k]
    <3>1. /\ \A j \in DOMAIN inbox : inbox[j].kind = "first" => 1 = j
          /\ top <= jumped /\ \A k \in DOMAIN told : top < told[k]
      BY <1>2, <1>9 DEF KeptIsLater
    <3>2. \A i \in DOMAIN inbox' : i + 1 # 1
      BY <1>2
    <3> QED BY <1>2, <3>1, <3>2
  <2>3. /\ after \in Nat /\ after <= top /\ (top > 0 => after < top)
    <3>1. PageSize \in Nat /\ PageSize > 0 /\ top \in Nat
      BY <1>3 DEF ChannelAssumption
    <3>2. after = IF 0 >= top - PageSize THEN 0 ELSE top - PageSize
      BY <3>1, OfTwo
    <3> HIDE DEF after
    <3> QED BY <3>1, <3>2
  <2>4. since \subseteq 1..head /\ since \in SUBSET Seqs
    <3> HIDE DEF after
    <3>1. tail \subseteq 1..head
      BY <1>3, <2>3
    <3> QED BY <1>3, <3>1, NumbersAre
  <2>5. Reads(since) \in SUBSET Seqs /\ since \subseteq Reads(since) /\ ReadsAll \in SUBSET Seqs
    <3> HIDE DEF since
    <3> QED BY <2>4, ReadsAre
  <2>6. UNCHANGED <<cursor, replay>>
    BY <2>1 DEF FirstCatchUp, RefreshAll
  <2>7. /\ seen' \in SUBSET Seqs /\ seen \subseteq seen'
        /\ \/ ToldMore({})
           \/ ToldMore(since)
        /\ \/ top = 0
           \/ CanTell(after, tail) /\ since \subseteq seen'
           \/ 1..head \subseteq seen'
    <3>1. CASE top = 0
      <4>1. UNCHANGED <<seen, told>>
        BY <2>1, <3>1 DEF FirstCatchUp
      <4> QED BY <1>6, <3>1, <4>1, NoneTold
    <3>2. CASE CanTell(after, tail) /\ seen' = seen \cup Reads(since) /\ Tells(since)
      <4> HIDE DEF since
      <4>1. ToldMore(since)
        BY <2>4, <3>2, TellsIs
      <4> QED BY <1>6, <2>5, <3>2, <4>1
    <3>3. CASE RefreshAll
      <4>1. seen' = seen \cup ReadsAll /\ ToldMore({})
        BY <3>3, NoneTold DEF RefreshAll
      <4>2. 1..head \subseteq ReadsAll
        BY DEF ReadsAll
      <4> QED BY <1>6, <2>5, <4>1, <4>2
    <3> QED BY <2>1, <3>1, <3>2, <3>3 DEF FirstCatchUp
  <2>8. 1..cursor \subseteq seen' \cup Overlooked
    <3> SUFFICES ASSUME NEW n \in 1..cursor PROVE n \in seen' \cup Overlooked
      OBVIOUS
    <3>1. /\ (top + 1)..cursor \subseteq seen /\ Seqs \ recent \subseteq seen
          /\ top = jumped \/ 1..cursor \subseteq seen
      BY <1>1, <1>2, <1>9 DEF PassedSinceHello, HelloIsFirst
    <3>2. n \in Nat /\ n > 0 /\ n <= cursor /\ cursor \in Nat /\ cursor <= head /\ top \in Nat /\ n \in Seqs
      BY <1>3, <1>6, <1>9, NumbersAre
    <3>3. CASE n > top
      BY <2>7, <3>1, <3>2, <3>3
    <3>4. CASE 1..head \subseteq seen'
      <4>1. n \in 1..head
        BY <1>3, <3>2
      <4> QED BY <3>4, <4>1
    <3>5. CASE n <= top /\ CanTell(after, tail) /\ since \subseteq seen'
      <4>1. CASE n \in tail /\ n \in recent
        BY <3>5, <4>1
      <4>2. CASE n \notin recent
        BY <2>7, <3>1, <3>2, <4>2
      <4>3. CASE n \notin tail /\ n \in recent /\ top = jumped
        <5>1. PageSize \in Nat
          BY DEF ChannelAssumption
        <5>2. after = IF 0 >= top - PageSize THEN 0 ELSE top - PageSize
          BY <3>2, <5>1, OfTwo
        <5>3. after # 0 /\ n <= after
          <6> HIDE DEF after
          <6> QED BY <2>3, <3>2, <3>5, <4>3
        <5>4. after = jumped - PageSize
          <6> HIDE DEF after
          <6> QED BY <4>3, <5>2, <5>3
        <5>5. ~(tail \subseteq recent)
          <6> HIDE DEF after
          <6>1. tail # {}
            BY <2>3, <3>2, <3>5
          <6> QED BY <3>5, <5>3, <6>1 DEF CanTell
        <5>6. (jumped - PageSize + 1)..jumped = tail
          BY <4>3, <5>4
        <5> HIDE DEF after
        <5> QED BY <4>3, <5>3, <5>4, <5>5, <5>6 DEF Overlooked
      <4> QED BY <2>7, <3>1, <4>1, <4>2, <4>3
    <3>6. CASE top = 0
      BY <3>2, <3>3, <3>6
    <3>7. n > top \/ n <= top
      BY <3>2
    <3> HIDE DEF after, tail, top, since
    <3> QED BY <2>7, <3>3, <3>4, <3>5, <3>6, <3>7
  <2> HIDE DEF since, top
  <2>9. PICK S \in SUBSET Seqs : ToldMore(S) /\ S \subseteq since
    BY <2>4, <2>7
  <2>10. \A n \in S : n \in Nat /\ n <= top
    <3>1. top \in Nat
      BY <1>3 DEF top
    <3>2. since \subseteq tail
      BY DEF since
    <3>3. \A n \in tail : n \in Nat /\ n <= top
      <4> HIDE DEF after
      <4> QED BY <2>3, <3>1
    <3> HIDE DEF tail
    <3> QED BY <2>9, <3>2, <3>3
  <2>11. /\ cursor' \in Numbers /\ cursor <= cursor' /\ cursor' <= head /\ cursor \in Nat
         /\ jumped' \in Numbers /\ jumped <= jumped' /\ jumped' <= cursor' /\ jumped \in Nat
    BY <1>1, <1>6, <1>9, <2>6, NumbersAre
  <2>12. /\ replay' \in [on : BOOLEAN, push : Numbers, kept : SUBSET Seqs]
         /\ replay'.push <= head /\ replay'.kept = {}
    BY <1>3, <1>6, <2>6
  <2>13. (cursor + 1)..cursor' \subseteq seen'
    BY <2>6, <2>11
  <2>14. \A n \in S \cap Notices :
             n <= cursor' /\ n <= jumped /\ \A k \in DOMAIN told : told[k] # n
    <3>1. \A k \in DOMAIN told : told[k] \in Nat
      BY Types
    <3>2. top \in Nat
      BY <1>3 DEF top
    <3> SUFFICES ASSUME NEW n \in S
                 PROVE  n <= cursor' /\ n <= jumped /\ \A k \in DOMAIN told : told[k] # n
      OBVIOUS
    <3>3. n \in Nat /\ n <= top /\ top <= jumped
      BY <2>2, <2>10
    <3>4. n <= jumped /\ n <= cursor'
      BY <1>1, <2>11, <3>2, <3>3, NumbersAre
    <3>5. \A k \in DOMAIN told : n < told[k]
      BY <2>2, <3>1, <3>2, <3>3
    <3> QED BY <3>1, <3>3, <3>4, <3>5
  <2>15. \A n \in Notices : ~(jumped' < n /\ n <= cursor' /\ (n \in replay.kept \/ cursor < n))
    <3>1. \A n \in Notices : n \in Nat
      BY NumbersAre DEF ChannelAssumption
    <3> QED BY <1>3, <2>6, <2>11, <3>1
  <2> QED BY <1>1, <1>2, <1>5, <1>9, <2>2, <2>7, <2>8, <2>9, <2>11, <2>12, <2>13, <2>14, <2>15,
             PageGoesOn
<1> QED BY <1>7, <1>8, <1>9

\* EndReplay
LEMMA ReplayEnds ==
    ASSUME ChannelAssumption, IInv, replay.on,
           UNCHANGED <<head, floor, recent, hints, server, lanes, tab, inbox>>,
           events' \in 0..MaxEvents,
           NEW passed \in Numbers, cursor <= passed, passed <= head,
           jumped' \in Numbers, jumped <= jumped', jumped' <= passed,
           NEW read \in SUBSET Seqs, seen \subseteq read, (cursor + 1)..passed \subseteq read,
           jumped' = jumped \/ 1..passed \subseteq read,
           NEW kept \in SUBSET Seqs, kept \subseteq Notices, replay.kept \subseteq kept,
           \A n \in kept : n <= passed /\ (n \in replay.kept \/ cursor < n),
           \A n \in Notices : jumped' < n /\ n <= passed /\ cursor < n => n \in kept,
           EndReplay(passed, read, kept)
    PROVE  IInv'
<1> USE DEF IInv
<1> DEFINE push == replay.push
           next == push = passed + 1
           S == kept \cup IF next THEN {push} ELSE {}
<1>1. /\ replay' = NoReplay
      /\ cursor' = IF next THEN push ELSE passed
      /\ seen' = read \cup IF push > passed THEN Reads({push}) ELSE {}
      /\ Tells(S)
  BY DEF EndReplay
<1>2. /\ push \in Nat /\ push <= head /\ head \in Nat /\ passed \in Nat /\ head <= MaxSeq
      /\ cursor # Null /\ cursor \in Nat /\ jumped \in Nat /\ jumped' \in Nat
      /\ seen \in SUBSET Seqs
  BY Types, NumbersAre DEF AllRecorded, HelloIsFirst, TypeOK
<1>3. push > passed => push \in Seqs /\ {push} \subseteq 1..head
  BY <1>2, NumbersAre
<1>4. /\ push > passed => Reads({push}) \in SUBSET Seqs /\ push \in Reads({push})
  <2> SUFFICES ASSUME push > passed PROVE Reads({push}) \in SUBSET Seqs /\ push \in Reads({push})
    OBVIOUS
  <2> HIDE DEF push
  <2>1. Reads({push}) \in SUBSET Seqs /\ {push} \subseteq Reads({push})
    BY <1>3, ReadsAre
  <2> QED BY <2>1
<1>5. S \in SUBSET Seqs
  BY <1>2, <1>3
<1>6. ToldMore(S)
  <2> HIDE DEF S
  <2> QED BY <1>1, <1>5, TellsIs
<1>7. /\ cursor' \in Numbers /\ cursor <= cursor' /\ cursor' <= head
      /\ jumped' <= cursor' /\ passed <= cursor'
      /\ \A n \in Nat : n <= cursor' /\ ~(n <= passed) => next /\ n = push
  <2>1. CASE next
    BY <1>1, <1>2, <2>1, NumbersAre
  <2>2. CASE ~next
    BY <1>1, <1>2, <2>2, NumbersAre
  <2> QED BY <2>1, <2>2
<1>8. /\ seen' \in SUBSET Seqs /\ seen \subseteq seen' /\ read \subseteq seen'
      /\ next => push \in seen'
  <2>1. read \in SUBSET Seqs /\ seen \subseteq read
    OBVIOUS
  <2>2. next => push > passed
    BY <1>2
  <2> HIDE DEF push, next
  <2>3. CASE push > passed
    <3>1. seen' = read \cup Reads({push})
      BY <1>1, <2>3
    <3> QED BY <1>4, <2>1, <2>3, <3>1
  <2>4. CASE ~(push > passed)
    <3>1. seen' = read
      BY <1>1, <2>4
    <3> QED BY <2>1, <2>2, <2>4, <3>1
  <2> QED BY <2>3, <2>4
<1>9. (cursor + 1)..cursor' \subseteq seen'
  <2> SUFFICES ASSUME NEW n \in (cursor + 1)..cursor' PROVE n \in seen'
    OBVIOUS
  <2>1. n \in Nat /\ n <= cursor' /\ n >= cursor + 1
    BY <1>2, <1>7, NumbersAre
  <2>2. CASE n <= passed
    <3>1. n \in (cursor + 1)..passed
      BY <1>2, <2>1, <2>2
    <3> QED BY <1>8, <3>1
  <2>3. CASE ~(n <= passed)
    BY <1>7, <1>8, <2>1, <2>3
  <2> QED BY <2>2, <2>3
<1>10. (\A i \in DOMAIN inbox' : inbox'[i].kind # "first") =>
              1..cursor \subseteq seen' \cup Overlooked
  BY <1>2, <1>8 DEF NothingIsPassed
<1>15. jumped' = jumped \/ 1..cursor' \subseteq seen'
  <2> SUFFICES ASSUME 1..passed \subseteq read, NEW n \in 1..cursor' PROVE n \in seen'
    OBVIOUS
  <2>1. n \in Nat /\ n <= cursor' /\ n >= 1
    BY <1>7, NumbersAre
  <2>2. CASE n <= passed
    <3>1. n \in 1..passed
      BY <1>2, <2>1, <2>2
    <3> QED BY <1>8, <3>1
  <2>3. CASE ~(n <= passed)
    BY <1>7, <1>8, <2>1, <2>3
  <2> QED BY <2>2, <2>3
<1>11. /\ replay' \in [on : BOOLEAN, push : Numbers, kept : SUBSET Seqs]
       /\ replay'.push <= head /\ replay'.kept = {}
  BY <1>1, <1>2, NumbersAre DEF NoReplay
<1>12. \A n \in S : n <= cursor' /\ (n \in replay.kept \/ cursor < n)
  <2> SUFFICES ASSUME NEW n \in S PROVE n <= cursor' /\ (n \in replay.kept \/ cursor < n)
    OBVIOUS
  <2>1. CASE n \in kept
    <3>1. n \in Nat
      BY <2>1, NumbersAre
    <3>2. cursor' \in Nat
      BY <1>7, NumbersAre
    <3> QED BY <1>2, <1>7, <2>1, <3>1, <3>2
  <2>2. CASE next /\ n = push
    BY <1>1, <1>2, <2>2
  <2> QED BY <2>1, <2>2
<1>13. \A n \in Notices : jumped' < n /\ n <= cursor' /\ (n \in replay.kept \/ cursor < n) => n \in S
  <2> SUFFICES ASSUME NEW n \in Notices, jumped' < n, n <= cursor', n \in replay.kept \/ cursor < n
               PROVE  n \in S
    OBVIOUS
  <2>1. n \in Nat
    BY NumbersAre DEF ChannelAssumption
  <2>2. CASE n \in replay.kept
    BY <2>2
  <2>3. CASE cursor < n /\ n <= passed
    BY <2>3
  <2>4. CASE ~(n <= passed)
    BY <1>7, <2>1, <2>4
  <2> QED BY <2>2, <2>3, <2>4
<1>14. /\ inbox' \in Seq(Job) /\ Len(inbox') <= Len(inbox)
       /\ \A i \in DOMAIN inbox' : i + 0 \in DOMAIN inbox /\ inbox'[i] = inbox[i + 0]
  BY DEF TypeOK
<1> HIDE DEF S
<1> QED BY <1>2, <1>5, <1>6, <1>7, <1>8, <1>9, <1>10, <1>11, <1>12, <1>13, <1>14, <1>15,
           PageGoesOn

\* ReplayPage, ReplayFails
LEMMA ReplayKeeps ==
    ASSUME ChannelAssumption, IInv, ReplayPage \/ ReplayFails
    PROVE  IInv'
<1> USE DEF IInv
<1>1. /\ replay.on /\ UNCHANGED <<head, floor, recent, hints, server, lanes, tab, inbox>>
      /\ cursor # Null
  BY DEF ReplayPage, ReplayFails, stream, HelloIsFirst
<1>2. events' \in 0..MaxEvents
  <2>1. UNCHANGED events \/ Event
    BY DEF ReplayPage, ReplayFails
  <2> QED BY <2>1, EventCounts
<1>3. /\ cursor \in Nat /\ cursor \in Numbers /\ cursor <= head /\ head \in Nat /\ head \in Numbers
      /\ head <= MaxSeq /\ jumped \in Numbers /\ jumped \in Nat /\ jumped <= cursor /\ jumped <= head
      /\ seen \in SUBSET Seqs /\ replay.kept \in SUBSET Seqs /\ replay.kept \subseteq Notices
      /\ \A n \in replay.kept : n \in Nat /\ n <= cursor
  <2>1. /\ cursor \in Nat /\ cursor \in Numbers /\ head \in Nat /\ head \in Numbers
        /\ head <= MaxSeq /\ jumped \in Numbers /\ jumped \in Nat
        /\ seen \in SUBSET Seqs /\ replay.kept \in SUBSET Seqs
    BY <1>1, Types, NumbersAre DEF TypeOK
  <2> QED BY <1>1, <2>1, Types DEF AllRecorded, KeptIsLater
<1>4. \A n \in Notices : n \in Nat /\ n \in Seqs
  BY NumbersAre DEF ChannelAssumption
<1>5. CASE ReplayFails
  <2>1. EndReplay(cursor, seen, replay.kept) /\ UNCHANGED jumped
    BY <1>5 DEF ReplayFails
  <2>2. (cursor + 1)..cursor \subseteq seen
    BY <1>3
  <2>3. \A n \in Notices : ~(n <= cursor /\ cursor < n)
    BY <1>3, <1>4
  <2> QED BY <1>1, <1>2, <1>3, <2>1, <2>2, <2>3, ReplayEnds
<1>6. CASE ReplayPage /\ cursor < floor
  <2>1. EndReplay(Max({cursor, head}), seen \cup ReadsAll, replay.kept) /\ jumped' = head
    BY <1>6 DEF ReplayPage
  <2>2. EndReplay(head, seen \cup ReadsAll, replay.kept)
    <3>1. Max({cursor, head}) = head
      BY <1>3, OfTwo
    <3> QED BY <2>1, <3>1
  <2>3. /\ seen \cup ReadsAll \in SUBSET Seqs /\ (cursor + 1)..head \subseteq seen \cup ReadsAll
        /\ 1..head \subseteq seen \cup ReadsAll
    <3>1. ReadsAll \in SUBSET Seqs
      BY ReadsAre
    <3>2. (cursor + 1)..head \subseteq ReadsAll /\ 1..head \subseteq ReadsAll
      BY <1>3 DEF ReadsAll
    <3> QED BY <1>3, <3>1, <3>2
  <2>4. \A n \in Notices : ~(jumped' < n /\ n <= head)
    BY <1>3, <1>4, <2>1
  <2>5. \A n \in replay.kept : n <= head
    BY <1>3
  <2> QED BY <1>1, <1>2, <1>3, <2>1, <2>2, <2>3, <2>4, <2>5, ReplayEnds
<1>7. CASE ReplayPage /\ ~(cursor < floor)
  <2> DEFINE last == Min({cursor + PageSize, head})
             records == (cursor + 1)..last
             kept == replay.kept \cup (records \cap Notices)
             read == seen \cup Reads(records)
  <2>1. /\ IF last - cursor < PageSize
           THEN EndReplay(last, read, kept)
           ELSE /\ replay' = [replay EXCEPT !.kept = kept]
                /\ cursor' = last
                /\ seen' = read
                /\ UNCHANGED told
        /\ UNCHANGED jumped
    BY <1>7 DEF ReplayPage
  <2>2. last \in Nat /\ cursor <= last /\ last <= head /\ last \in Numbers
    <3>1. PageSize \in Nat
      BY DEF ChannelAssumption
    <3>2. last = IF cursor + PageSize <= head THEN cursor + PageSize ELSE head
      <4>1. cursor + PageSize \in Int /\ head \in Int
        BY <1>3, <3>1
      <4> HIDE DEF records, kept, read
      <4> QED BY <4>1, OfTwo, Zenon
    <3> HIDE DEF last
    <3> QED BY <1>3, <3>1, <3>2, NumbersAre
  <2> HIDE DEF last
  <2>3. read \in SUBSET Seqs /\ seen \subseteq read /\ records \subseteq read
    <3>1. records \subseteq 1..head
      BY <1>3, <2>2
    <3> HIDE DEF records
    <3>2. Reads(records) \in SUBSET Seqs /\ records \subseteq Reads(records)
      BY <3>1, ReadsAre
    <3> QED BY <1>3, <3>2
  <2>4. /\ kept \in SUBSET Seqs /\ kept \subseteq Notices /\ replay.kept \subseteq kept
        /\ \A n \in kept : n <= last /\ (n \in replay.kept \/ cursor < n)
        /\ \A n \in Notices : n <= last /\ cursor < n => n \in kept
    <3>1. kept \in SUBSET Seqs /\ kept \subseteq Notices /\ replay.kept \subseteq kept
      BY <1>3, <1>4
    <3>2. \A n \in replay.kept : n <= last
      BY <1>3, <2>2
    <3>3. \A n \in records : n <= last /\ cursor < n
      BY <1>3, <2>2
    <3>4. \A n \in Nat : n <= last /\ cursor < n => n \in records
      BY <1>3, <2>2
    <3> HIDE DEF records
    <3> QED BY <1>4, <3>1, <3>2, <3>3, <3>4
  <2>5. jumped' = jumped /\ jumped' \in Numbers /\ jumped <= jumped' /\ jumped' <= last
    BY <1>3, <2>1, <2>2
  <2> HIDE DEF read, kept
  <2>6. CASE last - cursor < PageSize
    <3>1. EndReplay(last, read, kept)
      BY <2>1, <2>6
    <3> QED BY <1>1, <1>2, <2>2, <2>3, <2>4, <2>5, <3>1, ReplayEnds
  <2>7. CASE ~(last - cursor < PageSize)
    <3>1. /\ replay' = [replay EXCEPT !.kept = kept] /\ cursor' = last /\ seen' = read
          /\ UNCHANGED told
      BY <2>1, <2>7
    <3>2. /\ replay' \in [on : BOOLEAN, push : Numbers, kept : SUBSET Seqs]
          /\ replay'.push <= head /\ replay'.on /\ replay'.kept = kept
      BY <1>1, <2>4, <3>1 DEF TypeOK, AllRecorded
    <3>3. ToldMore({}) /\ {} \in SUBSET Seqs
      BY <3>1, NoneTold
    <3>4. /\ inbox' \in Seq(Job) /\ Len(inbox') <= Len(inbox)
          /\ \A i \in DOMAIN inbox' : i + 0 \in DOMAIN inbox /\ inbox'[i] = inbox[i + 0]
      BY <1>1 DEF TypeOK
    <3>5. (\A i \in DOMAIN inbox' : inbox'[i].kind # "first") =>
              1..cursor \subseteq seen' \cup Overlooked
      BY <1>1, <2>3, <3>1 DEF NothingIsPassed
    <3>6. \A n \in Notices : jumped' < n /\ n <= cursor' /\ (n \in replay.kept \/ cursor < n) =>
              n \in replay'.kept
      BY <2>4, <3>1, <3>2
    <3>7. \A n \in replay'.kept : n <= cursor' /\ (n \in replay.kept \/ cursor < n)
      BY <2>4, <3>1, <3>2
    <3>8. cursor' \in Numbers /\ cursor <= cursor' /\ cursor' <= head /\ jumped' <= cursor'
      BY <2>2, <2>5, <3>1
    <3>9. seen' \in SUBSET Seqs /\ seen \subseteq seen' /\ (cursor + 1)..cursor' \subseteq seen'
      BY <2>3, <3>1
    <3> QED BY <1>1, <1>2, <2>4, <2>5, <3>2, <3>3, <3>4, <3>5, <3>6, <3>7, <3>8, <3>9, PageGoesOn
  <2> QED BY <2>6, <2>7
<1> QED BY <1>5, <1>6, <1>7

\* Drain
LEMMA DrainKeeps == ASSUME ChannelAssumption, IInv, Drain PROVE IInv'
<1> USE DEF IInv
<1>1. UNCHANGED <<head, floor, recent, hints, server, replay, seen, told, events>>
  BY DEF Drain, stream
<1>2. /\ lanes \in [control : Seq(Frame), stream : Seq(Seqs)]
      /\ tab \in TabType /\ server \in ServerType
      /\ \A i \in DOMAIN lanes.control : lanes.control[i] \in Frame
  BY DEF TypeOK, TabType, ServerType
<1>3. CASE lanes.control = <<>>
  <2>1. /\ lanes.stream # <<>> /\ Enqueue("push", Head(lanes.stream))
        /\ lanes' = [lanes EXCEPT !.stream = Tail(@)] /\ UNCHANGED <<tab, cursor, jumped>>
    BY <1>3 DEF Drain
  <2>2. cursor # Null /\ server.phase = "open" /\ server.subscribed
    BY <1>3, <2>1 DEF HelloIsFirst
  <2> DEFINE s == lanes.stream
  <2>3. /\ Head(s) \in Seqs /\ Head(s) \in Numbers /\ Head(s) <= head
        /\ Tail(s) \in Seq(Seqs) /\ Len(Tail(s)) <= Lane
        /\ \A i \in DOMAIN Tail(s) : Tail(s)[i] <= head
    <3>1. /\ s \in Seq(Seqs) /\ s # <<>> /\ Len(s) <= Lane /\ Lane \in Nat
          /\ \A i \in DOMAIN s : s[i] <= head
      BY <1>2, <2>1 DEF TypeOK, AllRecorded, ChannelAssumption
    <3> HIDE DEF s
    <3>2. 1 \in DOMAIN s /\ Head(s) = s[1] /\ s[1] \in Seqs
      BY <3>1
    <3>3. /\ Tail(s) \in Seq(Seqs) /\ Len(Tail(s)) = Len(s) - 1
          /\ \A i \in 1..Len(Tail(s)) : i + 1 \in 1..Len(s) /\ Tail(s)[i] = s[i + 1]
      BY <3>1
    <3> QED BY <3>1, <3>2, <3>3, NumbersAre
  <2>4. lanes' \in [control : Seq(Frame), stream : Seq(Seqs)] /\ lanes'.control = <<>>
        /\ lanes'.stream = Tail(s)
    BY <1>2, <1>3, <2>1, <2>3
  <2>5. /\ NoNewFirst /\ FirstStays
        /\ inbox' \in Seq(Job) /\ Len(inbox') <= MaxInbox
        /\ \A i \in DOMAIN inbox' : \/ i \in DOMAIN inbox /\ inbox'[i] = inbox[i]
                                    \/ inbox'[i].kind = "push" /\ inbox'[i].seq = Head(s)
    <3> HIDE DEF s
    <3>1. Enqueue("push", Head(s))
      BY <2>1 DEF s
    <3> QED BY <2>3, <3>1, JobAdded
  <2> HIDE DEF s
  <2>6. KeptIsLater' /\ NoticesAreToldOnce' /\ PassedSinceHello' /\ NothingIsPassed'
    BY <1>1, <2>1, <2>5, PageStays
  <2>7. TypeOK'
    BY <1>1, <2>1, <2>3, <2>4, <2>5 DEF TypeOK
  <2>8. AllRecorded'
    <3>1. \A i \in DOMAIN inbox' : inbox'[i].seq <= head
      BY <2>3, <2>5 DEF AllRecorded
    <3> QED BY <1>1, <2>1, <2>3, <2>4, <3>1 DEF AllRecorded
  <2>9. HelloIsFirst'
    BY <1>1, <2>1, <2>2, <2>4 DEF HelloIsFirst
  <2> QED BY <2>6, <2>7, <2>8, <2>9
<1>4. CASE lanes.control # <<>>
  <2> DEFINE frame == Head(lanes.control)
  <2>1. /\ lanes' = [lanes EXCEPT !.control = Tail(@)]
        /\ IF frame.type = "pong"
           THEN Enqueue("pong", frame.seq) /\ UNCHANGED <<tab, cursor, jumped>>
           ELSE /\ tab' = Settled
                /\ IF cursor = Null
                   THEN /\ Enqueue("first", frame.seq)
                        /\ cursor' = frame.seq
                        /\ jumped' = frame.seq
                   ELSE UNCHANGED <<inbox, cursor, jumped>>
    BY <1>4 DEF Drain
  <2>2. /\ server.phase = "open" /\ tab.phase = "open" /\ Len(lanes.control) = 1
        /\ cursor = Null => lanes.control[1].type = "hello"
    BY <1>4 DEF HelloIsFirst
  <2>3. /\ frame = lanes.control[1] /\ frame \in Frame /\ frame.seq \in Numbers /\ frame.seq <= head
        /\ Tail(lanes.control) = <<>>
    <3> DEFINE c == lanes.control
    <3>1. c \in Seq(Frame) /\ Len(c) = 1 /\ \A i \in DOMAIN c : c[i].seq <= head
      BY <1>2, <2>2 DEF AllRecorded
    <3> HIDE DEF c
    <3>2. c[1] \in Frame /\ 1 \in DOMAIN c /\ Head(c) = c[1] /\ Tail(c) = <<>>
      BY <3>1, OneFrame
    <3>3. \A f \in Frame : f.seq \in Numbers
      BY DEF Frame
    <3> QED BY <3>1, <3>2, <3>3 DEF c
  <2>4. /\ lanes' \in [control : Seq(Frame), stream : Seq(Seqs)] /\ lanes'.control = <<>>
        /\ lanes'.stream = lanes.stream
    <3>1. lanes' = [lanes EXCEPT !.control = <<>>]
      BY <2>1, <2>3
    <3>2. <<>> \in Seq(Frame)
      OBVIOUS
    <3> QED BY <1>2, <3>1, <3>2
  <2> HIDE DEF frame
  <2>5. Len(lanes'.stream) <= Lane
    BY <2>4 DEF TypeOK
  <2>6. CASE frame.type = "pong"
    <3>1. Enqueue("pong", frame.seq) /\ UNCHANGED <<tab, cursor, jumped>>
      BY <2>1, <2>6
    <3>2. cursor # Null
      BY <2>2, <2>3, <2>6
    <3>3. /\ NoNewFirst /\ FirstStays
          /\ inbox' \in Seq(Job) /\ Len(inbox') <= MaxInbox
          /\ \A i \in DOMAIN inbox' : \/ i \in DOMAIN inbox /\ inbox'[i] = inbox[i]
                                      \/ inbox'[i].kind = "pong" /\ inbox'[i].seq = frame.seq
      BY <2>3, <3>1, JobAdded
    <3>4. KeptIsLater' /\ NoticesAreToldOnce' /\ PassedSinceHello' /\ NothingIsPassed'
      BY <1>1, <3>1, <3>3, PageStays
    <3>5. TypeOK'
      BY <1>1, <2>4, <2>5, <3>1, <3>3 DEF TypeOK
    <3>6. AllRecorded'
      <4>1. \A i \in DOMAIN inbox' : inbox'[i].seq <= head
        BY <2>3, <3>3 DEF AllRecorded
      <4> QED BY <1>1, <2>4, <3>1, <4>1 DEF AllRecorded
    <3>7. HelloIsFirst'
      BY <1>1, <2>2, <2>4, <3>1, <3>2 DEF HelloIsFirst
    <3> QED BY <3>4, <3>5, <3>6, <3>7
  <2>7. tab' = Settled => tab' \in TabType /\ tab'.phase = "open"
    <3> SUFFICES ASSUME tab' = Settled PROVE tab' \in TabType /\ tab'.phase = "open"
      OBVIOUS
    <3>1. 0 \in 0..2 /\ TRUE \in BOOLEAN /\ FALSE \in BOOLEAN
      OBVIOUS
    <3>2. tab' = [tab EXCEPT !.settled = TRUE, !.failed = 0, !.polling = FALSE]
      BY DEF Settled
    <3>3. DOMAIN tab = {"phase", "settled", "failed", "polling"}
      BY <1>2 DEF TabType
    <3> QED BY <1>2, <2>2, <3>1, <3>2, <3>3 DEF TabType
  <2>8. CASE frame.type # "pong" /\ cursor # Null
    <3>1. tab' = Settled /\ UNCHANGED <<inbox, cursor, jumped>>
      BY <2>1, <2>8
    <3>2. tab' \in TabType /\ tab'.phase = "open"
      BY <2>7, <3>1
    <3>3. NoNewFirst /\ FirstStays
      BY <3>1 DEF NoNewFirst, FirstStays
    <3>4. KeptIsLater' /\ NoticesAreToldOnce' /\ PassedSinceHello' /\ NothingIsPassed'
      BY <1>1, <2>2, <3>1, <3>3, PageStays
    <3>5. TypeOK'
      BY <1>1, <2>4, <2>5, <3>1, <3>2 DEF TypeOK, TabType
    <3>6. AllRecorded'
      BY <1>1, <2>4, <3>1 DEF AllRecorded
    <3>7. HelloIsFirst'
      BY <1>1, <2>2, <2>4, <2>8, <3>1, <3>2 DEF HelloIsFirst
    <3> QED BY <3>4, <3>5, <3>6, <3>7
  <2>9. CASE frame.type # "pong" /\ cursor = Null
    <3>1. /\ tab' = Settled /\ Enqueue("first", frame.seq)
          /\ cursor' = frame.seq /\ jumped' = frame.seq
      BY <2>1, <2>9
    <3>2. tab' \in TabType /\ tab'.phase = "open"
      BY <2>7, <3>1
    <3>3. [kind |-> "first", seq |-> frame.seq] \in Job
      BY <2>3 DEF Job
    <3>4. /\ inbox' \in Seq(Job) /\ Len(inbox') <= MaxInbox
          /\ \A i \in DOMAIN inbox : i \in DOMAIN inbox' /\ inbox'[i] = inbox[i]
          /\ inbox'[Len(inbox) + 1].kind = "first" /\ inbox'[Len(inbox) + 1].seq = frame.seq
          /\ \A i \in DOMAIN inbox' : i \in DOMAIN inbox \/ i = Len(inbox) + 1
      BY <3>1, <3>3, EnqueueAdds
    <3>5. /\ \A i \in DOMAIN inbox : inbox[i].kind # "first"
          /\ ~replay.on /\ told = <<>> /\ jumped = 0 /\ replay.kept = {}
      BY <2>9 DEF HelloIsFirst, KeptIsLater
    <3>6. \A i \in DOMAIN inbox' : inbox'[i].kind = "first" =>
              i = Len(inbox) + 1 /\ inbox'[i].seq = frame.seq
      BY <3>4, <3>5
    <3>7. frame.seq \in Nat /\ cursor' # Null
      <4>1. frame.seq \in Nat
        BY <2>3, NumbersAre
      <4> QED BY <3>1, <4>1 DEF Null
    <3>8. TypeOK'
      BY <1>1, <2>3, <2>4, <2>5, <3>1, <3>2, <3>4 DEF TypeOK, TabType
    <3>9. AllRecorded'
      <4>1. \A i \in DOMAIN inbox' : inbox'[i].seq <= head
        BY <2>3, <3>4 DEF AllRecorded
      <4> QED BY <1>1, <2>3, <2>4, <3>1, <4>1 DEF AllRecorded
    <3>10. HelloIsFirst'
      BY <1>1, <2>2, <2>4, <3>2, <3>7 DEF HelloIsFirst
    <3>11. KeptIsLater'
      <4>1. told' = <<>> /\ replay'.kept = {} /\ jumped' = frame.seq /\ cursor' = frame.seq
        BY <1>1, <3>1, <3>5
      <4>2. \A i \in DOMAIN told' : FALSE
        BY <4>1
      <4> QED BY <3>6, <3>7, <4>1, <4>2 DEF KeptIsLater
    <3>12. NoticesAreToldOnce'
      <4>1. \A i \in DOMAIN told' : FALSE
        BY <1>1, <3>5
      <4>2. \A n \in Notices : ~(jumped' < n /\ n <= cursor')
        <5>1. \A n \in Notices : n \in Nat
          BY NumbersAre DEF ChannelAssumption
        <5> QED BY <3>1, <3>7, <5>1
      <4> QED BY <4>1, <4>2 DEF NoticesAreToldOnce
    <3>13. PassedSinceHello' /\ NothingIsPassed'
      <4>1. \A i \in DOMAIN inbox' : inbox'[i].kind = "first" =>
                (inbox'[i].seq + 1)..cursor' \subseteq seen' /\ inbox'[i].seq = jumped'
        BY <3>1, <3>6, <3>7
      <4>2. Seqs \ recent' \subseteq seen'
        BY <1>1, <2>2 DEF PassedSinceHello
      <4>3. Len(inbox) + 1 \in DOMAIN inbox'
        <5>1. inbox \in Seq(Job) /\ inbox' = Append(inbox, [kind |-> "first", seq |-> frame.seq])
          BY <3>1 DEF TypeOK, Enqueue
        <5> QED BY <5>1
      <4>4. NothingIsPassed'
        BY <3>4, <4>3 DEF NothingIsPassed
      <4> QED BY <4>1, <4>2, <4>4 DEF PassedSinceHello
    <3> QED BY <3>8, <3>9, <3>10, <3>11, <3>12, <3>13
  <2> QED BY <2>6, <2>8, <2>9
<1> QED BY <1>3, <1>4

LEMMA NextHolds == ASSUME ChannelAssumption PROVE IInv /\ [Next]_vars => IInv'
<1> SUFFICES ASSUME IInv, [Next]_vars PROVE IInv'
  OBVIOUS
<1>1. CASE UNCHANGED vars
  <2> USE DEF IInv
  <2>1. UNCHANGED <<head, floor, recent, hints, server, lanes, tab, cursor, inbox, replay,
                   seen, told, jumped, events>>
    BY <1>1 DEF vars
  <2>2. NoNewFirst /\ FirstStays
    BY <2>1 DEF NoNewFirst, FirstStays
  <2>3. KeptIsLater' /\ NoticesAreToldOnce' /\ PassedSinceHello' /\ NothingIsPassed'
    BY <2>1, <2>2, PageStays
  <2>4. TypeOK'
    BY <2>1 DEF TypeOK
  <2>5. AllRecorded' /\ HelloIsFirst'
    BY <2>1 DEF AllRecorded, HelloIsFirst
  <2> QED BY <2>3, <2>4, <2>5
<1>2. CASE Next
  BY <1>2, StreamKeeps, HandlerKeeps, TabKeeps, StopKeeps, DrainKeeps, RunJobKeeps, ReplayKeeps
     DEF Next
<1> QED BY <1>1, <1>2

\* The numbers a tab holds were all recorded, its cursor starts at a hello, and
\* what it keeps to tell is later than what it told (channel.ts).
THEOREM ChannelInvariant == ASSUME ChannelAssumption PROVE Spec => []IInv
<1>1. Init => IInv
  BY InitHolds
<1>2. IInv /\ [Next]_vars => IInv'
  BY NextHolds
<1> QED BY <1>1, <1>2, PTL DEF Spec

\* Each notice is told once and in order, whatever the bus, the socket and the
\* replays do (announce, replay, tailSince).
THEOREM NoticesHold == ASSUME ChannelAssumption PROVE Spec => []NoticesAreToldOnce
<1>1. IInv => NoticesAreToldOnce
  BY DEF IInv
<1> QED BY <1>1, ChannelInvariant, PTL

\* In whatever order records are relayed, the tab moves past no change its page has
\* not read, but for what its first catch-up overlooks (place, replay, resync,
\* firstCatchUp).
THEOREM NothingIsPassedHolds == ASSUME ChannelAssumption PROVE Spec => []NothingIsPassed
<1>1. IInv => NothingIsPassed
  BY DEF IInv
<1> QED BY <1>1, ChannelInvariant, PTL

-----------------------------------------------------------------------------
(* The read cache.                                                         *)

Entry == [value : RC!Versions, left : 0..Ttl]

\* The bounds are numbers.
LEMMA Bounds ==
    ASSUME RC!ReadCacheAssumption
    PROVE  /\ MaxVersion \in Nat /\ MaxWindow \in Nat /\ MaxFaults \in Nat
           /\ Ttl \in Nat /\ Ttl > 0
<1>1. {MaxVersion, MaxWindow, Ttl, MaxFaults} \subseteq Nat
  BY DEF RC!ReadCacheAssumption
<1>2. MaxVersion \in Nat /\ MaxWindow \in Nat /\ MaxFaults \in Nat /\ Ttl \in Nat
  BY <1>1, Zenon
<1> QED BY <1>2 DEF RC!ReadCacheAssumption

\* What the variables that are numbers hold.
LEMMA CacheNumbers ==
    ASSUME RC!ReadCacheAssumption, RC!TypeOK
    PROVE  /\ source \in Nat /\ source <= MaxVersion /\ source \in RC!Versions
           /\ bumped \in Nat /\ bumped \in RC!Versions /\ window \in Nat /\ window \in RC!Windows
           /\ RC!Versions \subseteq Nat /\ RC!Windows \subseteq Nat
           /\ \A w \in RC!Windows : counts[w] \in Nat /\ counts[w] \in RC!Versions
           /\ 0 \in RC!Versions /\ 0 \in RC!Windows
<1>1. RC!Versions \subseteq Nat /\ RC!Windows \subseteq Nat /\ 0 \in RC!Versions /\ 0 \in RC!Windows
  BY Bounds DEF RC!Versions, RC!Windows
<1>2. source \in RC!Versions /\ bumped \in RC!Versions /\ window \in RC!Windows
  BY Zenon DEF RC!TypeOK
<1>3. \A w \in RC!Windows : counts[w] \in RC!Versions
  BY Zenon DEF RC!TypeOK
<1>4. source <= MaxVersion
  BY <1>2, Bounds DEF RC!Versions
<1> QED BY <1>1, <1>2, <1>3, <1>4, Zenon

\* What a reader's record holds.
LEMMA ReaderTypes ==
    ASSUME RC!ReadCacheAssumption, RC!TypeOK, NEW r \in Readers
    PROVE  /\ readers[r] \in RC!Read
           /\ readers[r].window \in RC!Windows /\ readers[r].generation \in RC!Versions
           /\ readers[r].value \in RC!Versions /\ readers[r].owed \in RC!Versions
           /\ readers[r].blind \in BOOLEAN
BY DEF RC!TypeOK, RC!Read

\* A read that holds nothing is one of its states.
LEMMA NoReadIsRead == ASSUME RC!ReadCacheAssumption PROVE RC!NoRead \in RC!Read
<1>1. 0 \in RC!Versions /\ 0 \in RC!Windows
  BY Bounds DEF RC!Versions, RC!Windows
<1> QED BY <1>1 DEF RC!NoRead, RC!Read

\* A read that moves on without a value of its own adds nothing to what is held.
LEMMA HoldsNoMore ==
    ASSUME RC!TypeOK, NEW r \in Readers, NEW q \in RC!Read, q.pc # "loaded",
           readers' = [readers EXCEPT ![r] = q], entries' = entries,
           NEW w, NEW g, NEW x, RC!Holding(w, g, x)'
    PROVE  RC!Holding(w, g, x)
<1>1. /\ readers'[r] = q
      /\ \A s \in Readers \ {r} : readers'[s] = readers[s]
  BY DEF RC!TypeOK
<1> QED BY <1>1 DEF RC!Holding, RC!Key

\* One read moves, and what it adds to what is held is the source of now.
LEMMA ReadMoves ==
    ASSUME RC!ReadCacheAssumption, RC!IInv, NEW r \in Readers, NEW q \in RC!Read,
           readers' = [readers EXCEPT ![r] = q],
           UNCHANGED <<source, unbumped, bumped, window, counts>>,
           entries' \in [RC!Keys -> Entry], faults' \in 0..MaxFaults,
           \A w \in RC!Windows, g, x \in RC!Versions : RC!Holding(w, g, x)' =>
               RC!Holding(w, g, x) \/ (x = source /\ w <= window /\ g <= counts[w]),
           q.window <= window, q.generation <= counts[q.window], q.owed <= bumped,
           q.pc = "loaded" => q.value >= q.owed,
           q.pc = "begun" =>
               \A g, x \in RC!Versions : RC!Holding(q.window, g, x) /\ x < q.owed
                                         => g < counts[q.window],
           q.pc = "keyed" /\ ~q.blind =>
               \A x \in RC!Versions : RC!Holding(q.window, q.generation, x) => x >= q.owed,
           q.pc = "answered" /\ ~q.blind => q.value >= q.owed
    PROVE  RC!IInv'
<1>1. /\ readers' \in [Readers -> RC!Read] /\ readers'[r] = q
      /\ \A s \in Readers \ {r} : readers'[s] = readers[s]
  BY DEF RC!IInv, RC!TypeOK
<1>2. RC!TypeOK'
  BY <1>1, Zenon DEF RC!IInv, RC!TypeOK, Entry
<1>3. RC!BumpsAreCounted'
  BY DEF RC!IInv, RC!BumpsAreCounted
<1>4. RC!ReadsGoByCounts'
  BY <1>1 DEF RC!IInv, RC!ReadsGoByCounts
<1>5. RC!StaleIsPassed'
  <2> SUFFICES ASSUME NEW w \in RC!Windows, NEW g \in RC!Versions, NEW x \in RC!Versions,
                      RC!Holding(w, g, x)'
               PROVE  /\ w <= window /\ g <= counts[w]
                      /\ x < bumped => w < window \/ g < counts[w]
    BY DEF RC!StaleIsPassed
  <2>1. CASE RC!Holding(w, g, x)
    BY <2>1 DEF RC!IInv, RC!StaleIsPassed
  <2>2. CASE x = source /\ w <= window /\ g <= counts[w]
    <3>1. bumped <= source /\ bumped \in Nat /\ source \in Nat
      BY CacheNumbers DEF RC!IInv, RC!BumpsAreCounted
    <3> QED BY <2>2, <3>1
  <2> QED BY <2>1, <2>2
<1>6. ASSUME NEW s \in Readers, NEW x \in RC!Versions, x = source
      PROVE  x >= readers'[s].owed
  <2>1. readers'[s].owed <= bumped /\ bumped <= source
    BY <1>1 DEF RC!IInv, RC!ReadsGoByCounts, RC!BumpsAreCounted
  <2>2. readers'[s].owed \in Nat /\ bumped \in Nat /\ source \in Nat
    BY <1>1, CacheNumbers DEF RC!IInv, RC!Read
  <2> QED BY <1>6, <2>1, <2>2
<1>7. RC!BegunPassesStale'
  <2> SUFFICES ASSUME NEW s \in Readers, readers'[s].pc = "begun",
                      NEW g \in RC!Versions, NEW x \in RC!Versions,
                      RC!Holding(readers[s].window, g, x)', x < readers'[s].owed
               PROVE  g < counts[readers'[s].window]
    BY DEF RC!BegunPassesStale
  <2>1. x # source
    <3>1. readers'[s].owed \in Nat /\ x \in Nat
      BY <1>1, CacheNumbers DEF RC!IInv, RC!Read
    <3> QED BY <1>6, <3>1
  <2>2. readers'[s].window \in RC!Windows
    BY <1>1 DEF RC!Read
  <2>3. RC!Holding(readers'[s].window, g, x)
    BY <2>1, <2>2 DEF RC!Holding, RC!Key
  <2> QED BY <1>1, <2>3 DEF RC!IInv, RC!BegunPassesStale
<1>8. RC!KeyedFindsFresh'
  <2> SUFFICES ASSUME NEW s \in Readers, readers'[s].pc = "keyed", ~readers'[s].blind,
                      NEW x \in RC!Versions,
                      RC!Holding(readers[s].window, readers[s].generation, x)'
               PROVE  x >= readers'[s].owed
    BY DEF RC!KeyedFindsFresh
  <2>1. readers'[s].window \in RC!Windows /\ readers'[s].generation \in RC!Versions
    BY <1>1 DEF RC!Read
  <2>2. CASE x = source
    BY <1>6, <2>2
  <2>3. CASE x # source
    <3>1. RC!Holding(readers'[s].window, readers'[s].generation, x)
      BY <2>1, <2>3 DEF RC!Holding, RC!Key
    <3> QED BY <1>1, <3>1 DEF RC!IInv, RC!KeyedFindsFresh
  <2> QED BY <2>2, <2>3
<1>9. RC!FreshAfterBump'
  BY <1>1 DEF RC!IInv, RC!FreshAfterBump
<1> QED BY <1>2, <1>3, <1>4, <1>5, <1>7, <1>8, <1>9 DEF RC!IInv

-----------------------------------------------------------------------------
(* The steps of a read.                                                    *)

\* A read takes the window of now, and owes what was bumped by now.
LEMMA BeginStep ==
    ASSUME RC!ReadCacheAssumption, RC!IInv, NEW r \in Readers, RC!Begin(r)
    PROVE  RC!IInv'
<1> DEFINE q == [RC!NoRead EXCEPT !.pc = "begun", !.window = window, !.owed = bumped]
<1>1. /\ q \in RC!Read /\ q.pc = "begun" /\ q.window = window /\ q.generation = 0
      /\ q.owed = bumped
  BY NoReadIsRead, CacheNumbers DEF RC!IInv, RC!NoRead, RC!Read
<1>2. readers' = [readers EXCEPT ![r] = q]
  BY DEF RC!Begin
<1> HIDE DEF q
<1>3. \A w \in RC!Windows, g, x \in RC!Versions : RC!Holding(w, g, x)' => RC!Holding(w, g, x)
  BY <1>1, <1>2, HoldsNoMore DEF RC!Begin, RC!IInv
<1>4. \A g, x \in RC!Versions : RC!Holding(q.window, g, x) /\ x < q.owed => g < counts[q.window]
  BY <1>1, CacheNumbers DEF RC!IInv, RC!StaleIsPassed
<1>5. q.window <= window /\ q.generation <= counts[q.window] /\ q.owed <= bumped
  BY <1>1, CacheNumbers DEF RC!IInv
<1>6. entries' \in [RC!Keys -> Entry] /\ faults' \in 0..MaxFaults
  BY DEF RC!Begin, RC!IInv, RC!TypeOK, Entry
<1>7. UNCHANGED <<source, unbumped, bumped, window, counts>>
  BY DEF RC!Begin
<1> QED BY <1>1, <1>2, <1>3, <1>4, <1>5, <1>6, <1>7, ReadMoves

\* A failure is counted.
LEMMA FaultTypes ==
    ASSUME RC!ReadCacheAssumption, RC!TypeOK, RC!Fault \/ UNCHANGED faults
    PROVE  faults' \in 0..MaxFaults
<1>1. faults \in 0..MaxFaults
  BY DEF RC!TypeOK
<1> QED BY <1>1, Bounds DEF RC!Fault

\* A read takes the generation of its window, or goes blind.
LEMMA GenerationStep ==
    ASSUME RC!ReadCacheAssumption, RC!IInv, NEW r \in Readers, RC!ReadGeneration(r)
    PROVE  RC!IInv'
<1>1. /\ readers[r] \in RC!Read /\ readers[r].pc = "begun" /\ readers[r].window \in RC!Windows
      /\ readers[r].window <= window /\ readers[r].owed <= bumped
      /\ readers[r].generation <= counts[readers[r].window]
  BY ReaderTypes DEF RC!ReadGeneration, RC!IInv, RC!ReadsGoByCounts
<1>2. counts[readers[r].window] \in Nat /\ counts[readers[r].window] \in RC!Versions
  BY <1>1, CacheNumbers DEF RC!IInv
<1>3. PICK q \in RC!Read :
        /\ readers' = [readers EXCEPT ![r] = q]
        /\ q.pc = "keyed" /\ q.window = readers[r].window /\ q.owed = readers[r].owed
        /\ \/ q.generation = counts[readers[r].window]
           \/ q.generation = readers[r].generation /\ q.blind
  <2>1. CASE readers' = [readers EXCEPT ![r].pc = "keyed",
                                        ![r].generation = counts[readers[r].window]]
    <3> DEFINE p == [readers[r] EXCEPT !.pc = "keyed",
                                       !.generation = counts[readers[r].window]]
    <3>1. /\ p \in RC!Read /\ p.pc = "keyed" /\ p.window = readers[r].window
          /\ p.owed = readers[r].owed /\ p.generation = counts[readers[r].window]
      BY <1>1, <1>2 DEF RC!Read
    <3>2. readers' = [readers EXCEPT ![r] = p]
      BY <2>1 DEF RC!IInv, RC!TypeOK
    <3> HIDE DEF p
    <3> QED BY <3>1, <3>2
  <2>2. CASE readers' = [readers EXCEPT ![r].pc = "keyed", ![r].blind = TRUE]
    <3> DEFINE p == [readers[r] EXCEPT !.pc = "keyed", !.blind = TRUE]
    <3>1. /\ p \in RC!Read /\ p.pc = "keyed" /\ p.window = readers[r].window
          /\ p.owed = readers[r].owed /\ p.generation = readers[r].generation /\ p.blind
      BY <1>1 DEF RC!Read
    <3>2. readers' = [readers EXCEPT ![r] = p]
      BY <2>2 DEF RC!IInv, RC!TypeOK
    <3> HIDE DEF p
    <3> QED BY <3>1, <3>2
  <2> QED BY <2>1, <2>2 DEF RC!ReadGeneration
<1>4. \A w \in RC!Windows, g, x \in RC!Versions : RC!Holding(w, g, x)' => RC!Holding(w, g, x)
  BY <1>3, HoldsNoMore DEF RC!ReadGeneration, RC!IInv
<1>5. ~q.blind => \A x \in RC!Versions : RC!Holding(q.window, q.generation, x) => x >= q.owed
  <2> SUFFICES ASSUME ~q.blind, NEW x \in RC!Versions, RC!Holding(q.window, q.generation, x)
               PROVE  x >= q.owed
    OBVIOUS
  <2>1. x < q.owed => q.generation < counts[q.window]
    BY <1>1, <1>2, <1>3 DEF RC!IInv, RC!BegunPassesStale
  <2>2. x \in Nat /\ q.owed \in Nat /\ q.generation \in Nat
    BY CacheNumbers DEF RC!IInv, RC!Read
  <2> QED BY <1>3, <2>1, <2>2
<1>6. q.window <= window /\ q.generation <= counts[q.window] /\ q.owed <= bumped
  BY <1>1, <1>2, <1>3
<1>7. entries' \in [RC!Keys -> Entry] /\ faults' \in 0..MaxFaults
  BY FaultTypes DEF RC!ReadGeneration, RC!IInv, RC!TypeOK, Entry
<1>8. UNCHANGED <<source, unbumped, bumped, window, counts>>
  BY DEF RC!ReadGeneration
<1> QED BY <1>3, <1>4, <1>5, <1>6, <1>7, <1>8, ReadMoves

\* A read that answers keeps what it owed and whether it was blind.
LEMMA AnsweredTypes ==
    ASSUME RC!ReadCacheAssumption, RC!TypeOK, NEW r \in Readers, NEW x \in RC!Versions
    PROVE  /\ RC!Answered(readers[r], x) \in RC!Read
           /\ RC!Answered(readers[r], x).pc = "answered" /\ RC!Answered(readers[r], x).value = x
           /\ RC!Answered(readers[r], x).owed = readers[r].owed
           /\ RC!Answered(readers[r], x).blind = readers[r].blind
           /\ RC!Answered(readers[r], x).window = 0 /\ RC!Answered(readers[r], x).generation = 0
<1>1. readers[r].owed \in RC!Versions /\ readers[r].blind \in BOOLEAN
  BY ReaderTypes
<1>2. RC!NoRead \in RC!Read /\ RC!NoRead.window = 0 /\ RC!NoRead.generation = 0
  BY NoReadIsRead DEF RC!NoRead
<1> QED BY <1>1, <1>2 DEF RC!Answered, RC!Read

\* A read that is done answers, and what is held does not grow.
LEMMA AnswerMoves ==
    ASSUME RC!ReadCacheAssumption, RC!IInv, NEW r \in Readers, NEW x \in RC!Versions,
           readers' = [readers EXCEPT ![r] = RC!Answered(readers[r], x)],
           UNCHANGED <<source, unbumped, bumped, window, counts>>,
           entries' \in [RC!Keys -> Entry], faults' \in 0..MaxFaults,
           \A w \in RC!Windows, g, y \in RC!Versions : RC!Holding(w, g, y)' => RC!Holding(w, g, y),
           ~readers[r].blind => x >= readers[r].owed
    PROVE  RC!IInv'
<1> DEFINE q == RC!Answered(readers[r], x)
<1>1. /\ q \in RC!Read /\ q.pc = "answered" /\ q.value = x /\ q.owed = readers[r].owed
      /\ q.blind = readers[r].blind /\ q.window = 0 /\ q.generation = 0
  BY AnsweredTypes DEF RC!IInv
<1>2. readers' = [readers EXCEPT ![r] = q]
  OBVIOUS
<1> HIDE DEF q
<1>3. q.window <= window /\ q.generation <= counts[q.window] /\ q.owed <= bumped
  BY <1>1, CacheNumbers DEF RC!IInv, RC!ReadsGoByCounts
<1> QED BY <1>1, <1>2, <1>3, ReadMoves

\* A hit answers, a miss loads.
LEMMA GetStep ==
    ASSUME RC!ReadCacheAssumption, RC!IInv, NEW r \in Readers, RC!GetEntry(r)
    PROVE  RC!IInv'
<1>1. /\ readers[r] \in RC!Read /\ readers[r].pc = "keyed" /\ readers[r].window \in RC!Windows
      /\ readers[r].generation \in RC!Versions
      /\ readers[r].window <= window /\ readers[r].owed <= bumped
      /\ readers[r].generation <= counts[readers[r].window]
  BY ReaderTypes DEF RC!GetEntry, RC!IInv, RC!ReadsGoByCounts
<1>2. entries' \in [RC!Keys -> Entry] /\ faults' \in 0..MaxFaults /\ entries' = entries
  BY FaultTypes DEF RC!GetEntry, RC!IInv, RC!TypeOK, Entry
<1>3. UNCHANGED <<source, unbumped, bumped, window, counts>>
  BY DEF RC!GetEntry
<1> DEFINE x == entries[RC!Key(r)].value
<1>4. CASE entries[RC!Key(r)].left > 0 /\ readers' = [readers EXCEPT ![r] = RC!Answered(readers[r], x)]
  <2>1. RC!Key(r) \in RC!Keys /\ x \in RC!Versions
    BY <1>1 DEF RC!Key, RC!Keys, RC!IInv, RC!TypeOK
  <2>2. RC!Holding(readers[r].window, readers[r].generation, x)
    BY <1>4 DEF RC!Holding, RC!Key
  <2>3. ~readers[r].blind => x >= readers[r].owed
    BY <1>1, <2>1, <2>2 DEF RC!IInv, RC!KeyedFindsFresh
  <2>4. /\ RC!Answered(readers[r], x) \in RC!Read
        /\ RC!Answered(readers[r], x).pc # "loaded"
    BY <2>1, AnsweredTypes DEF RC!IInv
  <2> HIDE DEF x
  <2>5. \A w \in RC!Windows, g, y \in RC!Versions : RC!Holding(w, g, y)' => RC!Holding(w, g, y)
    BY <1>2, <1>4, <2>4, HoldsNoMore DEF RC!IInv
  <2> QED BY <1>2, <1>3, <1>4, <2>1, <2>3, <2>5, AnswerMoves
<1>5. CASE readers' = [readers EXCEPT ![r] = [readers[r] EXCEPT !.pc = "missed"]]
  <2> DEFINE q == [readers[r] EXCEPT !.pc = "missed"]
  <2>1. /\ q \in RC!Read /\ q.pc = "missed" /\ q.window = readers[r].window
        /\ q.generation = readers[r].generation /\ q.owed = readers[r].owed
    BY <1>1 DEF RC!Read
  <2> HIDE DEF q
  <2>2. readers' = [readers EXCEPT ![r] = q]
    BY <1>5 DEF q
  <2>3. \A w \in RC!Windows, g, y \in RC!Versions : RC!Holding(w, g, y)' => RC!Holding(w, g, y)
    BY <1>2, <2>1, <2>2, HoldsNoMore DEF RC!IInv
  <2> QED BY <1>1, <1>2, <1>3, <2>1, <2>2, <2>3, ReadMoves
<1>6. \/ /\ entries[RC!Key(r)].left > 0
         /\ readers' = [readers EXCEPT ![r] = RC!Answered(readers[r], x)]
      \/ readers' = [readers EXCEPT ![r] = [readers[r] EXCEPT !.pc = "missed"]]
  BY DEF RC!GetEntry, RC!IInv, RC!TypeOK
<1> QED BY <1>4, <1>5, <1>6

\* A read that missed loads the source of now.
LEMMA LoadStep ==
    ASSUME RC!ReadCacheAssumption, RC!IInv, NEW r \in Readers, RC!Load(r)
    PROVE  RC!IInv'
<1>1. /\ readers[r] \in RC!Read /\ readers[r].pc = "missed" /\ readers[r].window \in RC!Windows
      /\ readers[r].window <= window /\ readers[r].owed <= bumped
      /\ readers[r].generation <= counts[readers[r].window]
  BY ReaderTypes DEF RC!Load, RC!IInv, RC!ReadsGoByCounts
<1>2. source \in RC!Versions /\ bumped <= source
  BY CacheNumbers DEF RC!IInv, RC!BumpsAreCounted
<1> DEFINE q == [readers[r] EXCEPT !.pc = "loaded", !.value = source]
<1>3. /\ q \in RC!Read /\ q.pc = "loaded" /\ q.window = readers[r].window /\ q.value = source
      /\ q.generation = readers[r].generation /\ q.owed = readers[r].owed
  BY <1>1, <1>2 DEF RC!Read
<1>4. readers' = [readers EXCEPT ![r] = q]
  BY DEF RC!Load, RC!IInv, RC!TypeOK
<1> HIDE DEF q
<1>5. /\ readers'[r] = q
      /\ \A s \in Readers \ {r} : readers'[s] = readers[s]
  BY <1>4 DEF RC!IInv, RC!TypeOK
<1>6. ASSUME NEW w \in RC!Windows, NEW g \in RC!Versions, NEW x \in RC!Versions,
             RC!Holding(w, g, x)'
      PROVE  RC!Holding(w, g, x) \/ (x = source /\ w <= window /\ g <= counts[w])
  <2>1. CASE entries'[<<w, g>>].left > 0 /\ entries'[<<w, g>>].value = x
    BY <2>1 DEF RC!Load, RC!Holding
  <2>2. CASE \E s \in Readers : /\ readers'[s].pc = "loaded" /\ RC!Key(s)' = <<w, g>>
                                /\ readers'[s].value = x
    <3>1. PICK s \in Readers : /\ readers'[s].pc = "loaded" /\ RC!Key(s)' = <<w, g>>
                               /\ readers'[s].value = x
      BY <2>2
    <3>2. CASE s = r
      <4>1. w = q.window /\ g = q.generation /\ x = source
        BY <1>3, <1>5, <3>1, <3>2 DEF RC!Key
      <4> QED BY <1>1, <1>3, <4>1
    <3>3. CASE s # r
      BY <1>5, <3>1, <3>3 DEF RC!Holding, RC!Key
    <3> QED BY <3>2, <3>3
  <2> QED BY <1>6, <2>1, <2>2 DEF RC!Holding
<1>7. q.value >= q.owed
  <2>1. source \in Nat /\ bumped \in Nat /\ readers[r].owed \in Nat
    BY CacheNumbers, ReaderTypes DEF RC!IInv
  <2> QED BY <1>1, <1>2, <1>3, <2>1
<1>8. entries' \in [RC!Keys -> Entry] /\ faults' \in 0..MaxFaults
  BY DEF RC!Load, RC!IInv, RC!TypeOK, Entry
<1>9. UNCHANGED <<source, unbumped, bumped, window, counts>>
  BY DEF RC!Load
<1> QED BY <1>1, <1>3, <1>4, <1>6, <1>7, <1>8, <1>9, ReadMoves

\* What a read loaded is put under its own key, or is not put.
LEMMA PutStep == ASSUME RC!ReadCacheAssumption, RC!IInv, NEW r \in Readers,
                        RC!Put(r) PROVE RC!IInv'
<1> DEFINE x == readers[r].value
<1>1. /\ readers[r] \in RC!Read /\ readers[r].pc = "loaded" /\ readers[r].window \in RC!Windows
      /\ readers[r].generation \in RC!Versions /\ x \in RC!Versions /\ x >= readers[r].owed
  BY ReaderTypes DEF RC!Put, RC!IInv, RC!ReadsGoByCounts
<1>2. readers' = [readers EXCEPT ![r] = RC!Answered(readers[r], x)]
  BY DEF RC!Put, RC!IInv, RC!TypeOK
<1>3. UNCHANGED <<source, unbumped, bumped, window, counts>>
  BY DEF RC!Put
<1>4. RC!Key(r) \in RC!Keys /\ RC!Key(r) = <<readers[r].window, readers[r].generation>>
  BY <1>1 DEF RC!Key, RC!Keys
<1>5. entries' = entries \/ entries' = [entries EXCEPT ![RC!Key(r)] = [value |-> x, left |-> Ttl]]
  BY DEF RC!Put
<1>6. entries' \in [RC!Keys -> Entry] /\ faults' \in 0..MaxFaults
  <2>1. [value |-> x, left |-> Ttl] \in Entry
    BY <1>1, Bounds DEF Entry
  <2>2. faults' \in 0..MaxFaults
    BY FaultTypes DEF RC!Put, RC!IInv
  <2> QED BY <1>4, <1>5, <2>1, <2>2 DEF RC!IInv, RC!TypeOK, Entry
<1>7. /\ readers'[r] = RC!Answered(readers[r], x) /\ readers'[r].pc = "answered"
      /\ \A s \in Readers \ {r} : readers'[s] = readers[s]
  BY <1>1, <1>2, AnsweredTypes DEF RC!IInv, RC!TypeOK
<1>8. ASSUME NEW w \in RC!Windows, NEW g \in RC!Versions, NEW y \in RC!Versions,
             RC!Holding(w, g, y)'
      PROVE  RC!Holding(w, g, y)
  <2>1. CASE \E s \in Readers : /\ readers'[s].pc = "loaded" /\ RC!Key(s)' = <<w, g>>
                                /\ readers'[s].value = y
    BY <1>7, <2>1 DEF RC!Holding, RC!Key
  <2>2. CASE entries'[<<w, g>>].left > 0 /\ entries'[<<w, g>>].value = y
    <3>1. <<w, g>> \in RC!Keys
      BY DEF RC!Keys
    <3>2. CASE entries'[<<w, g>>] = entries[<<w, g>>]
      BY <2>2, <3>2 DEF RC!Holding
    <3>3. CASE <<w, g>> = RC!Key(r) /\ entries'[<<w, g>>] = [value |-> x, left |-> Ttl]
      BY <1>1, <2>2, <3>3 DEF RC!Holding
    <3> QED BY <1>4, <1>5, <3>1, <3>2, <3>3 DEF RC!IInv, RC!TypeOK
  <2> QED BY <1>8, <2>1, <2>2 DEF RC!Holding
<1> HIDE DEF x
<1> QED BY <1>1, <1>2, <1>3, <1>6, <1>8, AnswerMoves

-----------------------------------------------------------------------------
(* The steps of the writers and of time.                                   *)

\* The cache counts as the theorems on finite sets do.
LEMMA SameCount == \A S : RC!Cardinality(S) = Cardinality(S)
BY DEF RC!Cardinality, Cardinality

\* The versions that wait for their bump are finitely many.
LEMMA WaitingIsFinite ==
    ASSUME RC!ReadCacheAssumption, RC!TypeOK, RC!BumpsAreCounted
    PROVE  IsFiniteSet(unbumped) /\ RC!Cardinality(unbumped) \in Nat
<1>1. source \in Nat
  BY CacheNumbers
<1>2. IsFiniteSet(1..source)
  BY <1>1, FS_Interval
<1> QED BY <1>2, SameCount, FS_Subset, FS_CardinalityType DEF RC!BumpsAreCounted

\* The reads and what is held stand while a writer moves: what they need of the
\* counters is that none falls.
LEMMA WriterMoves ==
    ASSUME RC!ReadCacheAssumption, RC!IInv, UNCHANGED <<window, entries, readers>>,
           RC!TypeOK', RC!BumpsAreCounted',
           \A w \in RC!Windows : counts'[w] >= counts[w],
           \/ bumped' = bumped
           \/ bumped <= bumped' /\ counts'[window] > counts[window]
    PROVE  RC!IInv'
<1>1. \A w, g, x : RC!Holding(w, g, x)' <=> RC!Holding(w, g, x)
  BY DEF RC!Holding, RC!Key
<1>2. /\ \A w \in RC!Windows : counts[w] \in Nat /\ counts'[w] \in Nat
      /\ bumped \in Nat /\ bumped' \in Nat /\ window \in Nat /\ window \in RC!Windows
      /\ RC!Versions \subseteq Nat /\ RC!Windows \subseteq Nat
  BY CacheNumbers DEF RC!IInv, RC!TypeOK, RC!Versions, RC!Windows
<1>3. RC!ReadsGoByCounts'
  <2> SUFFICES ASSUME NEW r \in Readers
               PROVE  /\ readers[r].window <= window
                      /\ readers[r].generation <= counts'[readers[r].window]
                      /\ readers[r].owed <= bumped'
                      /\ readers[r].pc = "loaded" => readers[r].value >= readers[r].owed
    BY DEF RC!ReadsGoByCounts
  <2>1. /\ readers[r].window \in RC!Windows /\ readers[r].generation \in Nat
        /\ readers[r].owed \in Nat
    BY <1>2, ReaderTypes DEF RC!IInv
  <2>2. /\ readers[r].window <= window
        /\ readers[r].generation <= counts[readers[r].window]
        /\ readers[r].owed <= bumped
        /\ readers[r].pc = "loaded" => readers[r].value >= readers[r].owed
    BY DEF RC!IInv, RC!ReadsGoByCounts
  <2> DEFINE before == counts[readers[r].window]
             after == counts'[readers[r].window]
  <2>3. before \in Nat /\ after \in Nat /\ after >= before
    BY <1>2, <2>1
  <2>4. readers[r].generation <= before
    BY <2>2
  <2> HIDE DEF before, after
  <2>5. readers[r].generation <= after
    BY <2>1, <2>3, <2>4
  <2>6. readers[r].owed <= bumped'
    BY <1>2, <2>1, <2>2
  <2> QED BY <2>2, <2>5, <2>6 DEF after
<1>4. RC!StaleIsPassed'
  <2> SUFFICES ASSUME NEW w \in RC!Windows, NEW g \in RC!Versions, NEW x \in RC!Versions,
                      RC!Holding(w, g, x)
               PROVE  /\ w <= window /\ g <= counts'[w]
                      /\ x < bumped' => w < window \/ g < counts'[w]
    BY <1>1 DEF RC!StaleIsPassed
  <2>1. w <= window /\ g <= counts[w] /\ (x < bumped => w < window \/ g < counts[w])
    BY DEF RC!IInv, RC!StaleIsPassed
  <2>2. w \in Nat /\ g \in Nat /\ x \in Nat /\ counts[w] \in Nat /\ counts'[w] \in Nat
    BY <1>2
  <2>3. CASE bumped' = bumped
    BY <2>1, <2>2, <2>3
  <2>4. CASE counts'[window] > counts[window]
    BY <1>2, <2>1, <2>2, <2>4
  <2> QED BY <2>3, <2>4
<1>5. RC!BegunPassesStale'
  <2> SUFFICES ASSUME NEW r \in Readers, readers[r].pc = "begun",
                      NEW g \in RC!Versions, NEW x \in RC!Versions,
                      RC!Holding(readers[r].window, g, x), x < readers[r].owed
               PROVE  g < counts'[readers[r].window]
    BY <1>1 DEF RC!BegunPassesStale
  <2>1. readers[r].window \in RC!Windows /\ g \in Nat
    BY <1>2, ReaderTypes DEF RC!IInv
  <2>2. g < counts[readers[r].window]
    BY DEF RC!IInv, RC!BegunPassesStale
  <2> DEFINE before == counts[readers[r].window]
             after == counts'[readers[r].window]
  <2>3. before \in Nat /\ after \in Nat /\ after >= before /\ g < before
    BY <1>2, <2>1, <2>2
  <2> HIDE DEF before, after
  <2>4. g < after
    BY <2>1, <2>3
  <2> QED BY <2>4 DEF after
<1>6. RC!KeyedFindsFresh' /\ RC!FreshAfterBump'
  BY <1>1 DEF RC!IInv, RC!KeyedFindsFresh, RC!FreshAfterBump
<1> QED BY <1>3, <1>4, <1>5, <1>6 DEF RC!IInv

\* A write commits.
LEMMA CommitStep == ASSUME RC!ReadCacheAssumption, RC!IInv, RC!Commit PROVE RC!IInv'
<1>1. /\ source \in Nat /\ bumped \in Nat /\ source + 1 \in RC!Versions
      /\ unbumped' = unbumped \cup {source + 1} /\ source' = source + 1
  BY CacheNumbers, Bounds DEF RC!Commit, RC!IInv, RC!Versions
<1>2. /\ unbumped \subseteq 1..source /\ bumped <= source
      /\ \A w \in RC!Windows : counts[w] + RC!Cardinality(unbumped) <= source
  BY DEF RC!IInv, RC!BumpsAreCounted
<1>3. RC!Cardinality(unbumped') = RC!Cardinality(unbumped) + 1 /\ RC!Cardinality(unbumped) \in Nat
  <2>1. IsFiniteSet(unbumped) /\ RC!Cardinality(unbumped) \in Nat
    BY WaitingIsFinite DEF RC!IInv
  <2>2. source + 1 \notin unbumped
    BY <1>1, <1>2
  <2> QED BY <1>1, <2>1, <2>2, SameCount, FS_AddElement
<1>4. RC!TypeOK'
  <2>1. unbumped' \subseteq RC!Versions
    BY <1>1 DEF RC!IInv, RC!TypeOK
  <2>2. {source', bumped'} \subseteq RC!Versions
    BY <1>1, Zenon DEF RC!Commit, RC!IInv, RC!TypeOK
  <2> QED BY <2>1, <2>2, Zenon DEF RC!Commit, RC!IInv, RC!TypeOK
<1>5. RC!BumpsAreCounted'
  <2>1. unbumped' \subseteq 1..source' /\ bumped' <= source'
    BY <1>1, <1>2 DEF RC!Commit
  <2>2. \A w \in RC!Windows : counts'[w] + RC!Cardinality(unbumped') <= source'
    <3> SUFFICES ASSUME NEW w \in RC!Windows
                 PROVE  counts[w] + RC!Cardinality(unbumped') <= source'
      BY DEF RC!Commit
    <3>1. counts[w] \in Nat
      BY CacheNumbers DEF RC!IInv
    <3> QED BY <1>1, <1>2, <1>3, <3>1
  <2> QED BY <2>1, <2>2 DEF RC!BumpsAreCounted
<1>6. \A w \in RC!Windows : counts'[w] >= counts[w]
  BY CacheNumbers DEF RC!Commit, RC!IInv
<1> QED BY <1>4, <1>5, <1>6, WriterMoves DEF RC!Commit

\* The greater of two numbers is one of them and at least each.
LEMMA MaxOfTwo ==
    ASSUME NEW m \in Nat, NEW n \in Nat
    PROVE  RC!Max({m, n}) \in {m, n} /\ RC!Max({m, n}) >= m
<1>1. \E x \in {m, n} : \A y \in {m, n} : x >= y
  <2>1. CASE m <= n BY <2>1
  <2>2. CASE n <= m BY <2>2
  <2> QED BY <2>1, <2>2
<1> QED BY <1>1 DEF RC!Max

\* One version fewer waits for its bump.
LEMMA OneFewer ==
    ASSUME RC!ReadCacheAssumption, RC!TypeOK, RC!BumpsAreCounted, NEW x \in unbumped,
           unbumped' = unbumped \ {x}
    PROVE  RC!Cardinality(unbumped') + 1 = RC!Cardinality(unbumped)
           /\ RC!Cardinality(unbumped') \in Nat
<1>1. IsFiniteSet(unbumped) /\ RC!Cardinality(unbumped) \in Nat
  BY WaitingIsFinite
<1>2. RC!Cardinality(unbumped \ {x}) = RC!Cardinality(unbumped) - 1
  BY <1>1, SameCount, FS_RemoveElement
<1>3. RC!Cardinality(unbumped \ {x}) \in Nat
  BY <1>1, SameCount, FS_Subset, FS_CardinalityType
<1> QED BY <1>1, <1>2, <1>3

\* A writer bumps the window of now.
LEMMA BumpStep ==
    ASSUME RC!ReadCacheAssumption, RC!IInv, NEW x \in RC!Versions, RC!Bump(x)
    PROVE  RC!IInv'
<1>1. /\ x \in unbumped /\ unbumped' = unbumped \ {x} /\ source' = source
      /\ counts' = [counts EXCEPT ![window] = counts[window] + 1]
      /\ bumped' = RC!Max({bumped, x})
  BY DEF RC!Bump
<1>2. /\ unbumped \subseteq 1..source /\ bumped <= source
      /\ \A w \in RC!Windows : counts[w] + RC!Cardinality(unbumped) <= source
  BY DEF RC!IInv, RC!BumpsAreCounted
<1>3. RC!Cardinality(unbumped') + 1 = RC!Cardinality(unbumped) /\ RC!Cardinality(unbumped') \in Nat
  BY <1>1, OneFewer DEF RC!IInv
<1>4. /\ source \in Nat /\ bumped \in Nat /\ x \in Nat /\ window \in RC!Windows
      /\ source <= MaxVersion /\ bumped \in RC!Versions
      /\ \A w \in RC!Windows : counts[w] \in Nat
  BY CacheNumbers DEF RC!IInv
<1>5. bumped' \in {bumped, x} /\ bumped' >= bumped
  BY <1>1, <1>4, MaxOfTwo
<1>6. x <= source
  BY <1>1, <1>2, <1>4
<1>7. /\ \A w \in RC!Windows \ {window} : counts'[w] = counts[w]
      /\ counts'[window] = counts[window] + 1
  BY <1>1, <1>4 DEF RC!IInv, RC!TypeOK
<1>8. ASSUME NEW w \in RC!Windows
      PROVE  /\ counts'[w] \in Nat /\ counts'[w] >= counts[w]
             /\ counts'[w] + RC!Cardinality(unbumped') <= source
  <2>1. counts[w] + RC!Cardinality(unbumped) <= source /\ counts[w] \in Nat
    BY <1>2, <1>4
  <2>2. CASE w = window
    BY <1>3, <1>4, <1>7, <2>1, <2>2
  <2>3. CASE w # window
    BY <1>3, <1>4, <1>7, <2>1, <2>3
  <2> QED BY <2>2, <2>3
<1>9. RC!TypeOK'
  <2>1. counts' \in [RC!Windows -> RC!Versions]
    <3>1. \A w \in RC!Windows : counts'[w] \in RC!Versions
      BY <1>3, <1>4, <1>8, Bounds DEF RC!Versions
    <3> QED BY <1>1, <3>1 DEF RC!IInv, RC!TypeOK
  <2>2. {source', bumped'} \subseteq RC!Versions /\ unbumped' \subseteq RC!Versions
    BY <1>1, <1>5, Zenon DEF RC!IInv, RC!TypeOK
  <2> QED BY <2>1, <2>2, Zenon DEF RC!Bump, RC!IInv, RC!TypeOK
<1>10. RC!BumpsAreCounted'
  <2>1. unbumped' \subseteq 1..source' /\ bumped' <= source'
    BY <1>1, <1>2, <1>5, <1>6
  <2>2. \A w \in RC!Windows : counts'[w] + RC!Cardinality(unbumped') <= source'
    BY <1>1, <1>8
  <2> QED BY <2>1, <2>2 DEF RC!BumpsAreCounted
<1>11. bumped <= bumped' /\ counts'[window] > counts[window]
  BY <1>4, <1>5, <1>7
<1> QED BY <1>8, <1>9, <1>10, <1>11, WriterMoves DEF RC!Bump

\* A bump that is dropped leaves the counters.
LEMMA BumpIsLostStep ==
    ASSUME RC!ReadCacheAssumption, RC!IInv, NEW x \in RC!Versions, RC!BumpIsLost(x)
    PROVE  RC!IInv'
<1>1. x \in unbumped /\ unbumped' = unbumped \ {x} /\ UNCHANGED <<source, bumped, counts>>
  BY DEF RC!BumpIsLost
<1>2. RC!Cardinality(unbumped') + 1 = RC!Cardinality(unbumped) /\ RC!Cardinality(unbumped') \in Nat
  BY <1>1, OneFewer DEF RC!IInv
<1>3. RC!TypeOK'
  <2>1. faults' \in 0..MaxFaults
    BY FaultTypes DEF RC!BumpIsLost, RC!IInv
  <2> QED BY <1>1, <2>1, Zenon DEF RC!BumpIsLost, RC!IInv, RC!TypeOK
<1>4. RC!BumpsAreCounted'
  <2>1. unbumped' \subseteq 1..source' /\ bumped' <= source'
    BY <1>1 DEF RC!IInv, RC!BumpsAreCounted
  <2>2. \A w \in RC!Windows : counts'[w] + RC!Cardinality(unbumped') <= source'
    <3> SUFFICES ASSUME NEW w \in RC!Windows
                 PROVE  counts[w] + RC!Cardinality(unbumped') <= source
      BY <1>1
    <3>1. counts[w] \in Nat /\ source \in Nat
      BY CacheNumbers DEF RC!IInv
    <3>2. counts[w] + RC!Cardinality(unbumped) <= source
      BY DEF RC!IInv, RC!BumpsAreCounted
    <3> QED BY <1>2, <3>1, <3>2
  <2> QED BY <2>1, <2>2 DEF RC!BumpsAreCounted
<1>5. \A w \in RC!Windows : counts'[w] >= counts[w]
  BY <1>1, CacheNumbers DEF RC!IInv
<1> QED BY <1>1, <1>3, <1>4, <1>5, WriterMoves DEF RC!BumpIsLost

\* Entries age and lapse.
LEMMA TickStep == ASSUME RC!ReadCacheAssumption, RC!IInv, RC!Tick PROVE RC!IInv'
<1>1. ASSUME NEW k \in RC!Keys
      PROVE  /\ entries'[k] \in Entry
             /\ entries'[k].left > 0 => entries[k].left > 0 /\ entries'[k].value = entries[k].value
  <2>1. entries[k] \in Entry /\ entries[k].left \in 0..Ttl
    BY DEF RC!IInv, RC!TypeOK, Entry
  <2>2. CASE entries[k].left > 1
    <3> DEFINE e == [entries[k] EXCEPT !.left = @ - 1]
    <3>1. entries'[k] = e
      BY <2>2 DEF RC!Tick
    <3>2. entries[k].left - 1 \in 0..Ttl /\ entries[k].left > 0
      BY <2>1, <2>2, Bounds
    <3>3. e \in Entry /\ e.value = entries[k].value
      BY <2>1, <3>2 DEF Entry
    <3> QED BY <3>1, <3>2, <3>3
  <2>3. CASE ~(entries[k].left > 1)
    <3>1. entries'[k] = RC!NoEntry
      BY <2>3 DEF RC!Tick
    <3>2. RC!NoEntry \in Entry /\ ~(RC!NoEntry.left > 0)
      <4>1. 0 \in RC!Versions /\ 0 \in 0..Ttl
        BY Bounds DEF RC!Versions
      <4> QED BY <4>1 DEF RC!NoEntry, Entry
    <3> QED BY <3>1, <3>2
  <2> QED BY <2>2, <2>3
<1>2. entries' \in [RC!Keys -> Entry]
  BY <1>1 DEF RC!Tick
<1>3. RC!TypeOK'
  BY <1>2, Zenon DEF RC!Tick, RC!IInv, RC!TypeOK, Entry
<1>4. ASSUME NEW w \in RC!Windows, NEW g \in RC!Versions, NEW x \in RC!Versions,
             RC!Holding(w, g, x)'
      PROVE  RC!Holding(w, g, x)
  <2>1. <<w, g>> \in RC!Keys
    BY DEF RC!Keys
  <2> QED BY <1>1, <1>4, <2>1 DEF RC!Tick, RC!Holding, RC!Key
<1>5. RC!BumpsAreCounted' /\ RC!ReadsGoByCounts' /\ RC!FreshAfterBump'
  BY DEF RC!Tick, RC!IInv, RC!BumpsAreCounted, RC!ReadsGoByCounts, RC!FreshAfterBump
<1>6. RC!StaleIsPassed'
  BY <1>4 DEF RC!Tick, RC!IInv, RC!StaleIsPassed
<1>7. \A r \in Readers : readers[r].window \in RC!Windows /\ readers[r].generation \in RC!Versions
  BY ReaderTypes DEF RC!IInv
<1>8. RC!BegunPassesStale' /\ RC!KeyedFindsFresh'
  BY <1>4, <1>7 DEF RC!Tick, RC!IInv, RC!BegunPassesStale, RC!KeyedFindsFresh
<1> QED BY <1>3, <1>5, <1>6, <1>8 DEF RC!IInv

\* The next window begins, with no bumps of its own.
LEMMA NewWindowStep == ASSUME RC!ReadCacheAssumption, RC!IInv, RC!NewWindow PROVE RC!IInv'
<1>1. window \in Nat /\ RC!Windows \subseteq Nat /\ window' = window + 1 /\ window' \in RC!Windows
  BY CacheNumbers, Bounds DEF RC!NewWindow, RC!IInv, RC!Windows
<1>2. RC!TypeOK'
  BY <1>1, Zenon DEF RC!NewWindow, RC!IInv, RC!TypeOK
<1>3. \A w, g, x : RC!Holding(w, g, x)' <=> RC!Holding(w, g, x)
  BY DEF RC!NewWindow, RC!Holding, RC!Key
<1>4. \A w \in RC!Windows : w <= window => w <= window' /\ w < window'
  BY <1>1
<1>5. \A r \in Readers : readers[r].window \in RC!Windows
  BY ReaderTypes DEF RC!IInv
<1>6. RC!BumpsAreCounted' /\ RC!ReadsGoByCounts' /\ RC!FreshAfterBump'
  BY <1>4, <1>5 DEF RC!NewWindow, RC!IInv, RC!BumpsAreCounted, RC!ReadsGoByCounts,
                    RC!FreshAfterBump
<1>7. RC!StaleIsPassed'
  BY <1>3, <1>4 DEF RC!NewWindow, RC!IInv, RC!StaleIsPassed
<1>8. RC!BegunPassesStale' /\ RC!KeyedFindsFresh'
  BY <1>3 DEF RC!NewWindow, RC!IInv, RC!BegunPassesStale, RC!KeyedFindsFresh
<1> QED BY <1>2, <1>6, <1>7, <1>8 DEF RC!IInv

-----------------------------------------------------------------------------
\* A cache starts with nothing in it and no read under way.
LEMMA InitIsKept == ASSUME RC!ReadCacheAssumption, RC!Init PROVE RC!IInv
<1>1. 0 \in RC!Versions /\ 0 \in RC!Windows /\ 0 \in 0..Ttl /\ 0 \in 0..MaxFaults
  BY Bounds DEF RC!Versions, RC!Windows
<1>2. RC!NoRead \in RC!Read /\ RC!NoEntry \in Entry
  BY <1>1, NoReadIsRead DEF RC!NoEntry, Entry
<1>3. RC!TypeOK
  <2>1. /\ entries \in [RC!Keys -> Entry] /\ readers \in [Readers -> RC!Read]
        /\ counts \in [RC!Windows -> RC!Versions]
    BY <1>1, <1>2 DEF RC!Init
  <2>2. {source, bumped} \subseteq RC!Versions /\ unbumped \subseteq RC!Versions
    BY <1>1, Zenon DEF RC!Init
  <2> QED BY <1>1, <2>1, <2>2, Zenon DEF RC!Init, RC!TypeOK, Entry
<1>4. \A w \in RC!Windows, g, x \in RC!Versions : ~RC!Holding(w, g, x)
  BY DEF RC!Init, RC!Holding, RC!NoEntry, RC!NoRead, RC!Keys
<1>5. RC!BumpsAreCounted
  BY SameCount, FS_EmptySet DEF RC!Init, RC!BumpsAreCounted
<1>6. RC!ReadsGoByCounts /\ RC!FreshAfterBump /\ RC!BegunPassesStale
  BY <1>1 DEF RC!Init, RC!ReadsGoByCounts, RC!FreshAfterBump, RC!BegunPassesStale, RC!NoRead
<1>7. RC!StaleIsPassed
  BY <1>4 DEF RC!StaleIsPassed
<1>8. RC!KeyedFindsFresh
  BY DEF RC!Init, RC!KeyedFindsFresh, RC!NoRead
<1> QED BY <1>3, <1>5, <1>6, <1>7, <1>8 DEF RC!IInv

LEMMA NextIsKept == ASSUME RC!ReadCacheAssumption, RC!IInv, [RC!Next]_(RC!vars) PROVE RC!IInv'
<1>1. CASE UNCHANGED RC!vars
  BY <1>1 DEF RC!vars, RC!IInv, RC!TypeOK, RC!BumpsAreCounted, RC!ReadsGoByCounts,
              RC!StaleIsPassed,
              RC!BegunPassesStale, RC!KeyedFindsFresh, RC!FreshAfterBump, RC!Holding, RC!Key
<1>2. CASE RC!Commit BY <1>2, CommitStep
<1>3. CASE \E x \in RC!Versions : RC!Bump(x) \/ RC!BumpIsLost(x)
  BY <1>3, BumpStep, BumpIsLostStep
<1>4. CASE \E r \in Readers : RC!Begin(r) \/ RC!ReadGeneration(r) \/ RC!GetEntry(r) \/ RC!Load(r) \/ RC!Put(r)
  BY <1>4, BeginStep, GenerationStep, GetStep, LoadStep, PutStep
<1>5. CASE RC!Tick BY <1>5, TickStep
<1>6. CASE RC!NewWindow BY <1>6, NewWindowStep
<1> QED BY <1>1, <1>2, <1>3, <1>4, <1>5, <1>6 DEF RC!Next

\* The reads of a tenant, its writers and the cache keep what IInv says
\* (infra/cache/read.py).
THEOREM ReadCacheInvariant == ASSUME RC!ReadCacheAssumption PROVE RC!Spec => []RC!IInv
<1>1. RC!Init => RC!IInv
  BY InitIsKept
<1>2. RC!IInv /\ [RC!Next]_(RC!vars) => RC!IInv'
  BY NextIsKept
<1> QED BY <1>1, <1>2, PTL DEF RC!Spec

\* A read that began after the bump of a write answers that write or a later one
\* (ReadCache.read, .bump), for every number of readers, writes, windows and
\* failed calls.
THEOREM ReadsAreFresh == ASSUME RC!ReadCacheAssumption PROVE RC!Spec => []RC!FreshAfterBump
<1>1. RC!IInv => RC!FreshAfterBump
  BY DEF RC!IInv
<1> QED BY <1>1, ReadCacheInvariant, PTL

-----------------------------------------------------------------------------
(* The breaker.                                                            *)

Call == [age : 0..(Slow + Lag), ends : {"idle", "in time", "late"}]

\* The settings are numbers, and a call ends within the cool-down.
LEMMA Settings ==
    ASSUME BR!BreakerAssumption
    PROVE  /\ Failures \in Nat /\ Cooldown \in Nat /\ Slow \in Nat /\ Lag \in Nat
           /\ MaxTurns \in Nat
           /\ Failures > 0 /\ Slow > 0 /\ Slow + Lag < Cooldown
           /\ 0 \in 0..(Slow + Lag)
<1>1. {Failures, Cooldown, Slow, Lag, MaxTurns} \subseteq Nat
  BY DEF BR!BreakerAssumption
<1>2. /\ Failures \in Nat /\ Cooldown \in Nat /\ Slow \in Nat /\ Lag \in Nat
      /\ MaxTurns \in Nat
  BY <1>1, Zenon
<1> QED BY <1>2 DEF BR!BreakerAssumption

\* The record of a call that is not out is one of its states.
LEMMA IdleIsCall == ASSUME BR!BreakerAssumption PROVE BR!Idle \in Call
<1>1. 0 \in 0..(Slow + Lag)
  BY Settings, Zenon
<1> QED BY <1>1 DEF BR!Idle, Call

\* The age of a call is a number, and less than the cool-down.
LEMMA AgeIsNat ==
    ASSUME BR!BreakerAssumption, BR!TypeOK, NEW c \in Calls
    PROVE  out[c] \in Call /\ out[c].age \in Nat /\ out[c].age < Cooldown
<1>1. out[c] \in Call
  BY DEF BR!TypeOK, Call
<1>2. out[c].age \in 0..(Slow + Lag)
  BY <1>1 DEF Call
<1> QED BY <1>1, <1>2, Settings

\* The lesser of two numbers is one of them and at most each.
LEMMA MinOfTwo ==
    ASSUME NEW m \in Nat, NEW n \in Nat
    PROVE  BR!Min({m, n}) \in {m, n} /\ BR!Min({m, n}) <= m /\ BR!Min({m, n}) <= n
<1>1. \E x \in {m, n} : \A y \in {m, n} : x <= y
  <2>1. CASE m <= n BY <2>1
  <2>2. CASE n <= m BY <2>2
  <2> QED BY <2>1, <2>2
<1> QED BY <1>1 DEF BR!Min

\* What a returned or a left call leaves behind in the breaker.
LEMMA FailedTypes ==
    ASSUME BR!BreakerAssumption, BR!TypeOK, BR!Failed
    PROVE  /\ consecutive' \in 0..Failures /\ elapsed' \in 0..Cooldown
           /\ {opened', probing'} \subseteq BOOLEAN
           /\ probing' = FALSE /\ (opened' => elapsed' = 0)
<1>1. probing' = FALSE /\ opened' \in BOOLEAN /\ (opened' => elapsed' = 0)
  BY Zenon DEF BR!Failed, BR!TypeOK
<1>2. consecutive \in 0..Failures /\ elapsed \in 0..Cooldown
  BY DEF BR!TypeOK
<1>3. /\ consecutive \in 0..Failures /\ consecutive + 1 \in Nat
      /\ elapsed \in 0..Cooldown /\ Failures \in Nat /\ Cooldown \in Nat
  BY <1>2, Settings
<1>4. consecutive' \in 0..Failures
  <2>1. /\ BR!Min({consecutive + 1, Failures}) \in {consecutive + 1, Failures}
        /\ BR!Min({consecutive + 1, Failures}) <= Failures
    BY <1>3, MinOfTwo
  <2>2. consecutive' = BR!Min({consecutive + 1, Failures})
    BY DEF BR!Failed
  <2> QED BY <1>3, <2>1, <2>2
<1>5. elapsed' \in 0..Cooldown
  BY <1>3 DEF BR!Failed
<1> QED BY <1>1, <1>4, <1>5, Zenon

LEMMA SucceededTypes ==
    ASSUME BR!BreakerAssumption, BR!TypeOK, BR!Succeeded
    PROVE  /\ consecutive' \in 0..Failures /\ elapsed' \in 0..Cooldown
           /\ {opened', probing'} \subseteq BOOLEAN
           /\ probing' = FALSE /\ opened' = FALSE
<1>1. consecutive' \in 0..Failures /\ elapsed' \in 0..Cooldown
  BY Settings DEF BR!Succeeded
<1> QED BY <1>1, Zenon DEF BR!Succeeded

LEMMA LeftTypes ==
    ASSUME BR!BreakerAssumption, BR!TypeOK, BR!Left
    PROVE  /\ consecutive' \in 0..Failures /\ elapsed' \in 0..Cooldown
           /\ {opened', probing'} \subseteq BOOLEAN
           /\ probing' = FALSE /\ opened' = opened /\ elapsed' = elapsed
<1>1. probing' = FALSE /\ opened' = opened /\ opened \in BOOLEAN
  BY Zenon DEF BR!Left, BR!TypeOK
<1>2. elapsed' = elapsed /\ consecutive' \in 0..Failures /\ elapsed' \in 0..Cooldown
  BY DEF BR!Left, BR!TypeOK
<1> QED BY <1>1, <1>2, Zenon

\* A call comes back or leaves: the slot is free, and the calls that stay out
\* were out before.
LEMMA EndStep ==
    ASSUME BR!BreakerAssumption, BR!IInv, NEW c \in Calls, BR!IsOut(c),
           out' = [out EXCEPT ![c] = BR!Idle],
           up' \in BOOLEAN, turns' \in 0..MaxTurns,
           BR!Failed \/ BR!Succeeded \/ BR!Left
    PROVE  BR!IInv'
<1>1. /\ consecutive' \in 0..Failures /\ elapsed' \in 0..Cooldown
      /\ {opened', probing'} \subseteq BOOLEAN /\ probing' = FALSE
      /\ \/ opened' => elapsed' = 0
         \/ opened' = opened /\ elapsed' = elapsed
  BY FailedTypes, SucceededTypes, LeftTypes, Zenon DEF BR!IInv
<1>2. /\ out' \in [Calls -> Call] /\ ~BR!IsOut(c)'
      /\ \A d \in Calls \ {c} : out'[d] = out[d]
  BY IdleIsCall DEF BR!IInv, BR!TypeOK, Call, BR!IsOut, BR!Idle
<1>3. BR!TypeOK'
  BY <1>1, <1>2, Zenon DEF BR!TypeOK, Call
<1>4. \A d \in Calls : BR!IsOut(d)' => d # c /\ BR!IsOut(d) /\ out'[d] = out[d]
  BY <1>2 DEF BR!IsOut
<1>5. BR!OutSinceItOpened'
  <2> SUFFICES ASSUME opened', NEW d \in Calls, BR!IsOut(d)'
               PROVE  out'[d].age >= elapsed'
    BY DEF BR!OutSinceItOpened
  <2>1. /\ d # c /\ BR!IsOut(d) /\ out'[d] = out[d] /\ out[d].age \in Nat
        /\ elapsed' \in 0..Cooldown
    BY <1>1, <1>4, AgeIsNat DEF BR!IInv
  <2>2. CASE elapsed' = 0 BY <2>1, <2>2
  <2>3. CASE opened' = opened /\ elapsed' = elapsed
    <3>1. ~probing
      BY <2>1 DEF BR!IInv, BR!SlotHasItsCall
    <3> QED BY <2>1, <2>3, <3>1 DEF BR!IInv, BR!OutSinceItOpened
  <2> QED BY <1>1, <2>2, <2>3
<1>6. BR!SlotHasItsCall'
  BY <1>1 DEF BR!SlotHasItsCall
<1> QED BY <1>3, <1>5, <1>6 DEF BR!IInv

\* After the cool-down no call from before it is left.
LEMMA NoneIsLeft ==
    ASSUME BR!BreakerAssumption, BR!TypeOK, BR!OutSinceItOpened,
           opened, ~probing, elapsed = Cooldown
    PROVE  \A c \in Calls : ~BR!IsOut(c)
<1> SUFFICES ASSUME NEW c \in Calls PROVE ~BR!IsOut(c)
  OBVIOUS
<1>1. out[c].age \in Nat /\ Cooldown \in Nat /\ out[c].age < Cooldown
  BY AgeIsNat, Settings
<1>2. ~(out[c].age >= Cooldown)
  BY <1>1
<1> QED BY <1>2, Zenon DEF BR!OutSinceItOpened

\* A call is let out: while the breaker is open nothing else is.
LEMMA StartStep ==
    ASSUME BR!BreakerAssumption, BR!IInv, NEW c \in Calls, BR!Start(c)
    PROVE  BR!IInv'
<1>1. PICK ends \in {"in time", "late"} :
            out' = [out EXCEPT ![c] = [age |-> 0, ends |-> ends]]
  BY DEF BR!Start
<1>2. /\ out' \in [Calls -> Call] /\ BR!IsOut(c)' /\ out'[c].age = 0
      /\ \A d \in Calls \ {c} : out'[d] = out[d]
  <2> DEFINE r == [age |-> 0, ends |-> ends]
  <2>1. r \in Call /\ r.ends # "idle" /\ r.age = 0
    <3>1. 0 \in 0..(Slow + Lag)
      BY Settings, Zenon
    <3>2. ends \in {"idle", "in time", "late"} /\ ends # "idle"
      OBVIOUS
    <3> QED BY <3>1, <3>2 DEF Call
  <2> HIDE DEF r
  <2> QED BY <1>1, <2>1 DEF BR!IInv, BR!TypeOK, Call, BR!IsOut, r
<1>3. probing' \in BOOLEAN
  BY Zenon DEF BR!Start, BR!Allows, BR!IInv, BR!TypeOK
<1>4. BR!TypeOK'
  BY <1>2, <1>3, Zenon DEF BR!Start, BR!IInv, BR!TypeOK, Call
<1>5. CASE ~opened /\ UNCHANGED probing
  <2>1. ~opened' /\ probing' = probing /\ ~probing
    BY <1>5 DEF BR!Start, BR!IInv, BR!SlotHasItsCall
  <2> QED BY <1>4, <2>1 DEF BR!IInv, BR!OutSinceItOpened, BR!SlotHasItsCall
<1>6. CASE opened /\ ~probing /\ elapsed = Cooldown /\ probing' = TRUE
  <2>1. \A d \in Calls : ~BR!IsOut(d)
    BY <1>6, NoneIsLeft DEF BR!IInv
  <2>2. \A d \in Calls : BR!IsOut(d)' => d = c
    BY <1>2, <2>1 DEF BR!IsOut
  <2>3. opened' /\ elapsed' = Cooldown /\ probing'
    BY <1>6 DEF BR!Start
  <2> QED BY <1>2, <1>4, <2>2, <2>3 DEF BR!IInv, BR!OutSinceItOpened, BR!SlotHasItsCall
<1> QED BY <1>4, <1>5, <1>6 DEF BR!Start, BR!Allows

\* Time passes for the calls and for the cool-down alike.
LEMMA BreakerTickStep == ASSUME BR!BreakerAssumption, BR!IInv, BR!Tick PROVE BR!IInv'
<1>1. \A c \in Calls : out[c].age \in Nat /\ out[c] \in Call
  BY AgeIsNat DEF BR!IInv
<1>2. out' = [c \in Calls |-> IF BR!IsOut(c) THEN [out[c] EXCEPT !.age = @ + 1] ELSE BR!Idle]
  BY DEF BR!Tick
<1>3. ASSUME NEW c \in Calls
      PROVE  /\ out'[c] \in Call /\ (BR!IsOut(c)' <=> BR!IsOut(c))
             /\ BR!IsOut(c) => out'[c].age = out[c].age + 1
  <2>1. CASE ~BR!IsOut(c)
    BY <1>2, <2>1, IdleIsCall DEF BR!IsOut, BR!Idle
  <2>2. CASE BR!IsOut(c)
    <3>1. out[c].age < BR!Deadline(out[c])
      BY <2>2 DEF BR!Tick
    <3>2. out[c].age + 1 \in 0..(Slow + Lag)
      BY <1>1, <3>1, Settings DEF BR!Deadline
    <3> QED BY <1>1, <1>2, <2>2, <3>2 DEF BR!IsOut, Call
  <2> QED BY <2>1, <2>2
<1>4. /\ elapsed' \in 0..Cooldown
      /\ opened => elapsed' <= elapsed + 1 /\ (elapsed = Cooldown => elapsed' = Cooldown)
  <2>1. elapsed \in 0..Cooldown
    BY DEF BR!IInv, BR!TypeOK
  <2>2. elapsed \in 0..Cooldown /\ Cooldown \in Nat /\ elapsed + 1 \in Nat
    BY <2>1, Settings
  <2>3. CASE opened
    <3>1. elapsed' = BR!Min({elapsed + 1, Cooldown})
      BY <2>3 DEF BR!Tick
    <3>2. /\ BR!Min({elapsed + 1, Cooldown}) \in {elapsed + 1, Cooldown}
          /\ BR!Min({elapsed + 1, Cooldown}) <= elapsed + 1
          /\ BR!Min({elapsed + 1, Cooldown}) <= Cooldown
      BY <2>2, MinOfTwo
    <3> QED BY <2>2, <3>1, <3>2
  <2>4. CASE ~opened
    BY <2>2, <2>4 DEF BR!Tick
  <2> QED BY <2>3, <2>4
<1>5. BR!TypeOK'
  <2>1. out' \in [Calls -> Call]
    BY <1>2, <1>3
  <2> QED BY <1>4, <2>1, Zenon DEF BR!Tick, BR!IInv, BR!TypeOK, Call
<1>6. BR!OutSinceItOpened'
  <2> SUFFICES ASSUME opened, ~probing, NEW c \in Calls, BR!IsOut(c)'
               PROVE  out'[c].age >= elapsed'
    BY DEF BR!OutSinceItOpened, BR!Tick
  <2>1. BR!IsOut(c) /\ out[c].age >= elapsed /\ out'[c].age = out[c].age + 1
    BY <1>3 DEF BR!IInv, BR!OutSinceItOpened
  <2>2. elapsed' <= elapsed + 1 /\ out[c].age \in Nat
    BY <1>1, <1>4
  <2>3. elapsed \in 0..Cooldown
    BY DEF BR!IInv, BR!TypeOK
  <2> QED BY <1>4, <2>1, <2>2, <2>3, Settings
<1>7. BR!SlotHasItsCall'
  BY <1>3, <1>4 DEF BR!Tick, BR!IInv, BR!SlotHasItsCall
<1> QED BY <1>5, <1>6, <1>7 DEF BR!IInv

\* A breaker starts closed with nothing out.
LEMMA BreakerInitIsKept == ASSUME BR!BreakerAssumption, BR!Init PROVE BR!IInv
<1>1. out \in [Calls -> Call] /\ \A c \in Calls : ~BR!IsOut(c)
  BY IdleIsCall DEF BR!Init, BR!IsOut, BR!Idle
<1>2. consecutive \in 0..Failures /\ elapsed \in 0..Cooldown /\ turns \in 0..MaxTurns
  BY Settings DEF BR!Init
<1>3. {opened, probing, up} \subseteq BOOLEAN
  BY Zenon DEF BR!Init
<1> QED BY <1>1, <1>2, <1>3, Zenon DEF BR!Init, BR!IInv, BR!TypeOK, Call,
       BR!OutSinceItOpened, BR!SlotHasItsCall

LEMMA BreakerNextIsKept == ASSUME BR!BreakerAssumption, BR!IInv, [BR!Next]_(BR!vars) PROVE BR!IInv'
<1>1. CASE UNCHANGED BR!vars
  BY <1>1 DEF BR!vars, BR!IInv, BR!TypeOK, BR!OutSinceItOpened, BR!SlotHasItsCall, BR!IsOut
<1>2. CASE \E c \in Calls : BR!Start(c)
  BY <1>2, StartStep
<1>3. CASE \E c \in Calls : BR!Return(c)
  <2>1. PICK c \in Calls : BR!Return(c)
    BY <1>3
  <2>2. BR!IsOut(c) /\ out' = [out EXCEPT ![c] = BR!Idle] /\ (BR!Failed \/ BR!Succeeded \/ BR!Left)
    BY <2>1 DEF BR!Return, BR!IsOut
  <2>3. up' \in BOOLEAN /\ turns' \in 0..MaxTurns
    BY <2>1, Zenon DEF BR!Return, BR!IInv, BR!TypeOK
  <2> QED BY <2>2, <2>3, EndStep
<1>4. CASE \E c \in Calls : BR!Cancel(c)
  <2>1. PICK c \in Calls : BR!Cancel(c)
    BY <1>4
  <2>2. BR!IsOut(c) /\ out' = [out EXCEPT ![c] = BR!Idle] /\ (BR!Failed \/ BR!Succeeded \/ BR!Left)
    BY <2>1 DEF BR!Cancel
  <2>3. up' \in BOOLEAN
    BY <2>1, Zenon DEF BR!Cancel, BR!IInv, BR!TypeOK
  <2>4. turns' \in 0..MaxTurns
    <3>1. turns \in 0..MaxTurns
      BY DEF BR!IInv, BR!TypeOK
    <3>2. turns < MaxTurns /\ turns' = turns + 1
      BY <2>1 DEF BR!Cancel, BR!Event
    <3> QED BY <3>1, <3>2, Settings
  <2> QED BY <2>2, <2>3, <2>4, EndStep
<1>5. CASE BR!Tick
  BY <1>5, BreakerTickStep
<1>6. CASE BR!Outage
  <2>1. up' \in BOOLEAN
    BY <1>6, Zenon DEF BR!Outage, BR!IInv, BR!TypeOK
  <2>2. turns' \in 0..MaxTurns
    <3>1. turns \in 0..MaxTurns
      BY DEF BR!IInv, BR!TypeOK
    <3>2. turns' = turns \/ (turns < MaxTurns /\ turns' = turns + 1)
      BY <1>6, Zenon DEF BR!Outage, BR!Event
    <3> QED BY <3>1, <3>2, Settings
  <2>3. BR!TypeOK'
    BY <1>6, <2>1, <2>2, Zenon DEF BR!Outage, BR!IInv, BR!TypeOK
  <2> QED BY <1>6, <2>3 DEF BR!Outage, BR!IInv, BR!OutSinceItOpened, BR!SlotHasItsCall, BR!IsOut
<1> QED BY <1>1, <1>2, <1>3, <1>4, <1>5, <1>6 DEF BR!Next

\* A breaker and the calls it let out keep what IInv says (infra/breaker.py).
THEOREM BreakerInvariant == ASSUME BR!BreakerAssumption PROVE BR!Spec => []BR!IInv
<1>1. BR!Init => BR!IInv
  BY BreakerInitIsKept
<1>2. BR!IInv /\ [BR!Next]_(BR!vars) => BR!IInv'
  BY BreakerNextIsKept
<1> QED BY <1>1, <1>2, PTL DEF BR!Spec

\* The probe of a half-open breaker is the one call that is out (allows,
\* measured): for every number of calls, and all settings that end a call that
\* times out within the cool-down.
THEOREM ProbeGoesAlone == ASSUME BR!BreakerAssumption PROVE BR!Spec => []BR!ProbeIsAlone
<1>1. BR!IInv => BR!ProbeIsAlone
  <2> SUFFICES ASSUME BR!IInv, probing
               PROVE  opened /\ \E c \in Calls : {d \in Calls : BR!IsOut(d)} = {c}
    BY DEF BR!ProbeIsAlone
  <2>1. PICK c \in Calls : BR!IsOut(c) /\ \A d \in Calls : BR!IsOut(d) => d = c
    BY DEF BR!IInv, BR!SlotHasItsCall
  <2> QED BY <2>1 DEF BR!IInv, BR!SlotHasItsCall
<1> QED BY <1>1, BreakerInvariant, PTL

-----------------------------------------------------------------------------
(* The task in the tab's lists.                                             *)

\* What a place may be.
ListsWere(in) ==
    \A l \in TC!Lists :
       /\ in[l].held > 0 => in[l].held <= TC!Now /\ history[in[l].held] \in TC!Lists
       /\ in[l].held = TC!Unread => in[l].query # "idle"
       /\ in[l].query = "answered" =>
             \/ in[l].answer = TC!Gone
             \/ in[l].answer \in 1..TC!Now /\ history[in[l].answer] = l

\* MovedForAWhile, of lists in and a write at pc.
Moved(in, pc) ==
    \A m \in TC!Lists : in[m].held = TC!Now /\ history[TC!Now] # m =>
        LET of == in[history[TC!Now]]
        IN /\ pc # "written" /\ of.held # TC!Unread
           /\ pc = "idle" => \/ of.query = "asked"
                             \/ of.query = "answered" /\ of.answer = TC!Now
                             \/ of.query = "idle" /\ of.held = TC!Now

ShownIn(in, l) ==
    in[l].held = TC!Right(l) \/ (history[TC!Now] \in TC!Lists /\ history[TC!Now] # l)

\* The versions are numbers, and those of what lists hold, of reads and writes too.
LEMMA TaskNumbers ==
    ASSUME TC!TaskCacheAssumption
    PROVE  /\ TC!Versions \subseteq Nat \ {0} /\ TC!Answer \subseteq Int
           /\ TC!Answer = {TC!Unread, TC!Gone} \cup TC!Versions
           /\ \A a \in TC!Answer : a > 0 <=> a \in TC!Versions
BY DEF TC!TaskCacheAssumption, TC!Versions, TC!Answer, TC!Unread, TC!Gone

LEMMA VersionNumbers ==
    ASSUME TC!TaskCacheAssumption
    PROVE  /\ \A v \in {0, TC!Gone} \cup TC!Versions :
                 v \in Nat /\ (v # TC!Gone => v > 0 /\ v \in TC!Versions)
           /\ \A v \in TC!Versions : v \in Nat /\ v > 0 /\ v # TC!Gone /\ v # TC!Unread
BY DEF TC!TaskCacheAssumption, TC!Versions, TC!Gone, TC!Unread

\* What is in a list.
LEMMA ListHas ==
    ASSUME NEW in \in [TC!Lists -> TC!ListType], NEW l \in TC!Lists
    PROVE  /\ in[l] \in TC!ListType /\ in[l].held \in TC!Answer /\ in[l].answer \in TC!Answer
           /\ in[l].query \in {"idle", "asked", "answered"}
BY DEF TC!ListType

\* A list from its parts.
LEMMA ListOf ==
    ASSUME NEW h \in TC!Answer, NEW q \in {"idle", "asked", "answered"}, NEW a \in TC!Answer
    PROVE  [held |-> h, query |-> q, answer |-> a] \in TC!ListType
BY DEF TC!ListType

\* What Placed does: nothing where a list holds as much, or else every list that
\* was read holds what it should of v.
LEMMA PlacedIs ==
    ASSUME TC!TaskCacheAssumption, NEW in \in [TC!Lists -> TC!ListType],
           NEW v \in {TC!Gone} \cup TC!Versions
    PROVE  /\ TC!Placed(in, v) \in [TC!Lists -> TC!ListType]
           /\ \A l \in TC!Lists :
                 /\ TC!Placed(in, v)[l].query = in[l].query
                 /\ TC!Placed(in, v)[l].answer = in[l].answer
                 /\ in[l].held = TC!Unread => TC!Placed(in, v)[l].held = TC!Unread
                 /\ in[l].held # TC!Unread =>
                       TC!Placed(in, v)[l].held =
                           IF v # TC!Gone /\ TC!HeldAtOrAbove(in, v) THEN in[l].held
                           ELSE IF v # TC!Gone /\ history[v] = l THEN v ELSE TC!Gone
<1>1. CASE v # TC!Gone /\ TC!HeldAtOrAbove(in, v)
  <2>1. TC!Placed(in, v) = in
    BY <1>1 DEF TC!Placed
  <2> QED
    BY <1>1, <2>1
<1>2. CASE ~(v # TC!Gone /\ TC!HeldAtOrAbove(in, v))
  <2> DEFINE h(l) == IF in[l].held = TC!Unread THEN TC!Unread
                     ELSE IF v # TC!Gone /\ history[v] = l THEN v ELSE TC!Gone
  <2>1. TC!Placed(in, v) = [l \in TC!Lists |-> [in[l] EXCEPT !.held = h(l)]]
    BY <1>2 DEF TC!Placed
  <2>2. ASSUME NEW l \in TC!Lists
        PROVE  /\ h(l) \in TC!Answer
               /\ in[l].held = TC!Unread => h(l) = TC!Unread
               /\ in[l].held # TC!Unread => h(l) = IF v # TC!Gone /\ history[v] = l THEN v ELSE TC!Gone
    BY TaskNumbers, ListHas DEF TC!Unread, TC!Gone
  <2> HIDE DEF h
  <2>3. ASSUME NEW l \in TC!Lists
        PROVE  /\ [in[l] EXCEPT !.held = h(l)] \in TC!ListType
               /\ [in[l] EXCEPT !.held = h(l)].held = h(l)
               /\ [in[l] EXCEPT !.held = h(l)].query = in[l].query
               /\ [in[l] EXCEPT !.held = h(l)].answer = in[l].answer
    BY <2>2, ListHas DEF TC!ListType
  <2> QED
    BY <1>2, <2>1, <2>2, <2>3
<1> QED
  BY <1>1, <1>2

\* What is placed is of versions that were.
LEMMA PlacedWas ==
    ASSUME TC!TaskCacheAssumption, NEW in \in [TC!Lists -> TC!ListType],
           NEW v \in {TC!Gone} \cup TC!Versions,
           v <= TC!Now, ListsWere(in), TC!Now \in Nat
    PROVE  ListsWere(TC!Placed(in, v))
<1>1. ASSUME NEW l \in TC!Lists
      PROVE  /\ TC!Placed(in, v)[l].held > 0 => TC!Placed(in, v)[l].held <= TC!Now
                                                 /\ history[TC!Placed(in, v)[l].held] \in TC!Lists
             /\ TC!Placed(in, v)[l].held = TC!Unread => TC!Placed(in, v)[l].query # "idle"
  BY PlacedIs, ListHas, TaskNumbers DEF ListsWere, TC!Unread, TC!Gone
<1> QED
  BY <1>1, PlacedIs DEF ListsWere

\* Placing leaves none out of place but those that were.
LEMMA PlacedMoved ==
    ASSUME TC!TaskCacheAssumption, NEW in \in [TC!Lists -> TC!ListType],
           NEW v \in {TC!Gone} \cup TC!Versions,
           v <= TC!Now, TC!Now \in TC!Versions, NEW pc, Moved(in, pc), ListsWere(in)
    PROVE  Moved(TC!Placed(in, v), pc)
<1>1. CASE v # TC!Gone /\ TC!HeldAtOrAbove(in, v)
  BY <1>1 DEF TC!Placed
<1>2. CASE ~(v # TC!Gone /\ TC!HeldAtOrAbove(in, v))
  <2>1. ASSUME NEW m \in TC!Lists, TC!Placed(in, v)[m].held = TC!Now
        PROVE  history[TC!Now] = m
    BY <1>2, <2>1, PlacedIs, ListHas, TaskNumbers DEF TC!Unread, TC!Gone
  <2> QED
    BY <2>1 DEF Moved
<1> QED
  BY <1>1, <1>2

\* Placing the newest version, or that the task is gone, shows it in each list that
\* is not being read.
LEMMA PlaceTruth ==
    ASSUME TC!TaskCacheAssumption, NEW in \in [TC!Lists -> TC!ListType],
           NEW v \in {TC!Gone} \cup TC!Versions,
           TC!Now \in TC!Versions, ListsWere(in), NEW pc \in {"idle", "written"}, Moved(in, pc),
           v = TC!Now \/ (v = TC!Gone /\ ~TC!Live(TC!Now))
    PROVE  \A l \in TC!Lists : in[l].query = "idle" => ShownIn(TC!Placed(in, v), l)
<1> SUFFICES ASSUME NEW l \in TC!Lists, in[l].query = "idle"
             PROVE  ShownIn(TC!Placed(in, v), l)
  OBVIOUS
<1>0. in[l].held # TC!Unread
  BY DEF ListsWere
<1>1. CASE v # TC!Gone /\ TC!HeldAtOrAbove(in, v)
  <2>1. PICK m \in TC!Lists : in[m].held = TC!Now
    BY <1>1, ListHas, TaskNumbers DEF TC!HeldAtOrAbove, ListsWere
  <2>2. history[TC!Now] \in TC!Lists
    BY <2>1, TaskNumbers DEF ListsWere
  <2>3. CASE history[TC!Now] = l
    <3>1. in[l].held = TC!Now
      BY <2>1, <2>3 DEF Moved
    <3> QED
      BY <1>1, <2>3, <3>1 DEF TC!Placed, ShownIn, TC!Right
  <2> QED
    BY <2>2, <2>3 DEF ShownIn
<1>2. CASE ~(v # TC!Gone /\ TC!HeldAtOrAbove(in, v))
  <2>1. TC!Placed(in, v)[l].held = IF v # TC!Gone /\ history[v] = l THEN v ELSE TC!Gone
    BY <1>0, <1>2, PlacedIs
  <2>2. v = TC!Gone => history[TC!Now] \notin TC!Lists
    BY TaskNumbers DEF TC!Live, TC!Lists, TC!Gone
  <2> QED
    BY <2>1, <2>2, TaskNumbers DEF ShownIn, TC!Right, TC!Gone
<1> QED
  BY <1>1, <1>2

\* The parts of IInv that are about lists, of the lists there are.
LEMMA OfLists ==
    ASSUME TC!TypeOK
    PROVE  /\ lists \in [TC!Lists -> TC!ListType] /\ TC!Now \in TC!Versions /\ history \in Seq(TC!Statuses)
           /\ own.pc \in {"idle", "asked", "written", "refused"}
           /\ TC!MovedForAWhile <=> Moved(lists, own.pc)
           /\ TC!AnswersWere => ListsWere(lists)
           /\ own # TC!NoWrite => own \in TC!OwnType
           /\ own.pc # "idle" <=> own # TC!NoWrite
  BY DEF TC!TypeOK, TC!OwnType, TC!NoWrite, TC!MovedForAWhile, Moved, TC!AnswersWere, ListsWere,
         TC!Fetching

\* What a version became stays as it was; a version is written after one that lives.
LEMMA Appended ==
    ASSUME TC!TaskCacheAssumption, TC!TypeOK, NEW s \in TC!Statuses, TC!Becomes(s)
    PROVE  /\ history' \in Seq(TC!Statuses) /\ TC!Now' = TC!Now + 1 /\ TC!Now' \in TC!Versions
           /\ TC!Now \in Nat /\ TC!Live(TC!Now)
           /\ \A v \in 1..TC!Now : history'[v] = history[v]
           /\ history'[TC!Now'] = s
  BY DEF TC!TaskCacheAssumption, TC!TypeOK, TC!Becomes, TC!Now, TC!Versions

\* A new version: a push is to come.
LEMMA NewVersion ==
    ASSUME TC!TaskCacheAssumption, TC!IInv, NEW s \in TC!Statuses, TC!Becomes(s),
           UNCHANGED <<pushed, lists, heard, gathered, reads>>,
           own'.pc \in {"asked", "written", "idle", "refused"},
           own'.pc = "written" => own'.version <= TC!Now'
    PROVE  TC!AnswersWere' /\ TC!DeleteIsNews' /\ TC!MovedForAWhile' /\ TC!KnownWillShow' /\ TC!NewestWillShow'
<1> USE DEF TC!IInv
<1>1. /\ TC!Now' = TC!Now + 1 /\ TC!Now \in Nat /\ TC!Live(TC!Now) /\ TC!Now' \in TC!Versions
      /\ \A v \in 1..TC!Now : history'[v] = history[v]
      /\ history'[TC!Now'] = s
  BY Appended
<1>2. /\ ~heard.gone /\ heard.version <= TC!Now /\ pushed <= TC!Now
      /\ heard.version \in Int /\ pushed \in Int
  BY <1>1, TaskNumbers DEF TC!AnswersWere, TC!TypeOK
<1>3. TC!AnswersWere'
  <2>1. \A l \in TC!Lists : lists[l] \in TC!ListType
    BY DEF TC!TypeOK
  <2>2. ASSUME NEW l \in TC!Lists
        PROVE  /\ lists[l].held > 0 => lists[l].held <= TC!Now' /\ history'[lists[l].held] \in TC!Lists
               /\ lists[l].held = TC!Unread => TC!Fetching(l)
               /\ lists[l].query = "answered" =>
                     \/ lists[l].answer = TC!Gone
                     \/ lists[l].answer \in 1..TC!Now' /\ history'[lists[l].answer] = l
    BY <1>1, <2>1, TaskNumbers DEF TC!AnswersWere, TC!ListType
  <2>3. ASSUME NEW r \in reads
        PROVE  /\ r.answer > 0 => r.answer <= TC!Now' /\ history'[r.answer] # "deleted"
               /\ r.answer # TC!Gone
    <3>1. r.answer \in TC!Answer
      BY DEF TC!TypeOK, TC!ReadType
    <3> QED
      BY <1>1, <3>1, TaskNumbers DEF TC!AnswersWere, TC!Live, TC!Gone
  <2> QED
    BY <1>1, <1>2, <2>2, <2>3 DEF TC!AnswersWere, TC!Live, TC!Fetching
<1>4. heard'.version # TC!Now' /\ ~heard'.gone
  BY <1>1, <1>2
<1>5. ~TC!Known' /\ TC!DeleteIsNews'
  BY <1>4 DEF TC!Known, TC!DeleteIsNews
<1>6. TC!MovedForAWhile'
  <2>1. ASSUME NEW m \in TC!Lists
        PROVE  lists'[m].held # TC!Now'
    <3>1. lists[m].held \in TC!Answer
      BY DEF TC!TypeOK, TC!ListType
    <3> QED
      BY <1>1, <3>1, TaskNumbers DEF TC!AnswersWere, TC!Gone, TC!Unread
  <2> QED
    BY <2>1 DEF TC!MovedForAWhile
<1>7. TC!Promised'
  BY <1>1, <1>2 DEF TC!Promised
<1> QED
  BY <1>3, <1>4, <1>5, <1>6, <1>7 DEF TC!KnownWillShow, TC!NewestWillShow

LEMMA OtherWritesKeeps ==
    ASSUME TC!TaskCacheAssumption, TC!IInv, NEW s \in TC!Statuses,
           TC!OtherWrites(s)
    PROVE  TC!IInv'
<1>1. TC!TypeOK'
  BY Appended DEF TC!IInv, TC!OtherWrites, TC!TypeOK, TC!Becomes
<1>2. own'.pc \in {"asked", "written", "idle", "refused"} /\ own' = own
  BY OfLists DEF TC!IInv, TC!OtherWrites
<1>3. own'.pc = "written" => own'.version <= TC!Now'
  <2> HAVE own'.pc = "written"
  <2>1. own.version \in Int /\ own.version <= TC!Now /\ TC!Now' = TC!Now + 1 /\ TC!Now \in Nat
    BY <1>2, Appended, OfLists, TaskNumbers DEF TC!IInv, TC!OtherWrites, TC!AnswersWere,
                                                TC!OwnType, TC!NoWrite
  <2> QED
    BY <1>2, <2>1
<1> QED
  BY <1>1, <1>2, <1>3, NewVersion DEF TC!IInv, TC!OtherWrites

LEMMA CommitsKeeps ==
    ASSUME TC!TaskCacheAssumption, TC!IInv, TC!Commits
    PROVE  TC!IInv'
<1>0. /\ own \in TC!OwnType /\ own.pc = "asked" /\ TC!TypeOK
      /\ UNCHANGED <<pushed, lists, heard, clock, pending, gathered, reads, crossed, losses>>
  BY OfLists DEF TC!IInv, TC!Commits, TC!NoWrite
<1>1. CASE own.version = TC!Now /\ TC!Live(TC!Now)
  <2>1. /\ TC!Becomes(own.to) /\ own.to \in TC!Statuses
        /\ own' = [own EXCEPT !.pc = "written", !.version = TC!Now + 1]
    BY <1>0, <1>1 DEF TC!Commits, TC!OwnType
  <2>2. TC!Now' = TC!Now + 1 /\ TC!Now' \in TC!Versions /\ history' \in Seq(TC!Statuses)
    BY <1>0, <2>1, Appended
  <2>3. own' \in TC!OwnType /\ own'.pc = "written" /\ own'.version = TC!Now'
    BY <1>0, <2>1, <2>2 DEF TC!OwnType
  <2>4. TC!TypeOK'
    BY <1>0, <2>2, <2>3 DEF TC!TypeOK
  <2>5. own'.version <= TC!Now'
    BY <2>2, <2>3, TaskNumbers
  <2> QED
    BY <1>0, <2>1, <2>3, <2>4, <2>5, NewVersion DEF TC!IInv
<1>2. CASE ~(own.version = TC!Now /\ TC!Live(TC!Now))
  <2>1. own' = [own EXCEPT !.pc = "refused"] /\ history' = history
    BY <1>0, <1>2 DEF TC!Commits
  <2>2. own' \in TC!OwnType /\ own'.pc = "refused"
    BY <1>0, <2>1 DEF TC!OwnType
  <2>3. TC!TypeOK'
    BY <1>0, <2>1, <2>2 DEF TC!TypeOK, TC!Now
  <2>4. TC!AnswersWere' /\ TC!DeleteIsNews' /\ TC!MovedForAWhile'
    BY <1>0, <2>1, <2>2 DEF TC!IInv, TC!AnswersWere, TC!DeleteIsNews, TC!MovedForAWhile, TC!Now,
                            TC!Live, TC!Outdated, TC!Fetching
  <2>5. (TC!Known' <=> TC!Known) /\ (TC!ListsWillShow => TC!ListsWillShow')
    BY <1>0, <2>1, <2>2 DEF TC!Known, TC!ListsWillShow, TC!WillShow, TC!Now, TC!Live, TC!Outdated,
                            TC!Right
  <2>6. /\ TC!Promised => TC!Promised'
        /\ \A r \in reads : TC!WillTell(r) => TC!WillTell(r)'
        /\ TC!OnlyLists => TC!OnlyLists'
    BY <1>0, <2>1, <2>2 DEF TC!Promised, TC!WillTell, TC!OnlyLists, TC!Now, TC!Live, TC!Outdated
  <2>7. TC!KnownWillShow'
    BY <1>0, <2>5 DEF TC!IInv, TC!KnownWillShow
  <2>8. TC!NewestWillShow'
    BY <1>0, <2>5, <2>6 DEF TC!IInv, TC!NewestWillShow
  <2> QED
    BY <2>3, <2>4, <2>7, <2>8 DEF TC!IInv
<1> QED
  BY <1>1, <1>2

\* What a list is read to be is right.
LEMMA AnswersKeeps ==
    ASSUME TC!TaskCacheAssumption, TC!IInv, NEW l \in TC!Lists, TC!Answers(l)
    PROVE  TC!IInv'
<1>0. TC!TypeOK /\ UNCHANGED <<history, pushed, heard, clock, pending, gathered, reads, own, crossed, losses>>
  BY DEF TC!IInv, TC!Answers
<1>1. /\ TC!Right(l) \in TC!Answer /\ lists[l].query = "asked"
      /\ TC!Right(l) = TC!Gone \/ (TC!Right(l) \in 1..TC!Now /\ history[TC!Right(l)] = l)
  BY <1>0, OfLists, TaskNumbers DEF TC!Right, TC!Answers, TC!Gone
<1>2. lists' = [lists EXCEPT ![l].query = "answered", ![l].answer = TC!Right(l)]
  BY <1>0 DEF TC!Answers, TC!Right
<1>3. /\ lists' \in [TC!Lists -> TC!ListType]
      /\ lists'[l].held = lists[l].held /\ lists'[l].query = "answered" /\ lists'[l].answer = TC!Right(l)
      /\ \A m \in TC!Lists : lists'[m].held = lists[m].held /\ (m # l => lists'[m] = lists[m])
  BY <1>0, <1>1, <1>2, OfLists DEF TC!ListType
<1>4. TC!TypeOK'
  BY <1>0, <1>3 DEF TC!TypeOK, TC!Now
<1>5. TC!AnswersWere'
  <2>1. \A m \in TC!Lists :
          /\ lists'[m].held > 0 => lists'[m].held <= TC!Now /\ history[lists'[m].held] \in TC!Lists
          /\ lists'[m].held = TC!Unread => lists'[m].query # "idle"
          /\ lists'[m].query = "answered" =>
                \/ lists'[m].answer = TC!Gone
                \/ lists'[m].answer \in 1..TC!Now /\ history[lists'[m].answer] = m
    BY <1>1, <1>3 DEF TC!IInv, TC!AnswersWere, TC!Fetching
  <2> QED
    BY <1>0, <2>1 DEF TC!IInv, TC!AnswersWere, TC!Now, TC!Live, TC!Fetching
<1>6. TC!MovedForAWhile'
  <2>1. ASSUME NEW m \in TC!Lists, lists[m].held = TC!Now, history[TC!Now] # m
        PROVE  history[TC!Now] \in TC!Lists
    BY <1>0, <2>1, OfLists, TaskNumbers DEF TC!IInv, TC!AnswersWere
  <2>2. ASSUME NEW m \in TC!Lists, lists[m].held = TC!Now, history[TC!Now] # m
        PROVE  LET of == lists'[history[TC!Now]]
               IN /\ own.pc # "written" /\ of.held # TC!Unread
                  /\ own.pc = "idle" => \/ of.query = "asked"
                                        \/ of.query = "answered" /\ of.answer = TC!Now
                                        \/ of.query = "idle" /\ of.held = TC!Now
    BY <1>3, <2>1, <2>2 DEF TC!IInv, TC!MovedForAWhile, TC!Right
  <2> QED
    BY <1>0, <1>3, <2>2 DEF TC!MovedForAWhile, TC!Now
<1>7. \A m \in TC!Lists : TC!WillShow(m) => TC!WillShow(m)'
  BY <1>0, <1>3 DEF TC!WillShow, TC!Right, TC!Now
<1>8. TC!ListsWillShow => TC!ListsWillShow'
  BY <1>0, <1>1, <1>3, <1>7 DEF TC!ListsWillShow, TC!WillShow, TC!Right, TC!Now
<1>9. /\ TC!Known' <=> TC!Known
      /\ TC!DeleteIsNews' <=> TC!DeleteIsNews
      /\ \A r \in reads : TC!WillTell(r) => TC!WillTell(r)'
      /\ TC!OnlyLists => TC!OnlyLists'
      /\ TC!Promised => TC!Promised'
  BY <1>0 DEF TC!Known, TC!DeleteIsNews, TC!WillTell, TC!OnlyLists, TC!Promised, TC!Live, TC!Now,
              TC!Outdated
<1>10. TC!KnownWillShow'
  BY <1>0, <1>8, <1>9 DEF TC!IInv, TC!KnownWillShow
<1>11. TC!NewestWillShow'
  BY <1>0, <1>8, <1>9 DEF TC!IInv, TC!NewestWillShow
<1> QED
  BY <1>4, <1>5, <1>6, <1>9, <1>10, <1>11 DEF TC!IInv

\* A list that is read once more.
LEMMA RefetchKeeps ==
    ASSUME TC!TaskCacheAssumption, TC!IInv, NEW l \in TC!Lists, TC!Refetch(l)
    PROVE  TC!IInv'
<1>0. /\ TC!TypeOK /\ UNCHANGED <<history, pushed, heard, clock, pending, gathered, reads, own, crossed>>
      /\ losses' \in 0..MaxLosses
  BY DEF TC!IInv, TC!Refetch, TC!Fault, TC!TypeOK, TC!TaskCacheAssumption
<1>2. lists' = [lists EXCEPT ![l].query = "asked"]
  BY <1>0 DEF TC!Refetch
<1>3. /\ lists' \in [TC!Lists -> TC!ListType]
      /\ lists'[l].held = lists[l].held /\ lists'[l].query = "asked"
      /\ \A m \in TC!Lists : lists'[m].held = lists[m].held /\ (m # l => lists'[m] = lists[m])
  BY <1>0, <1>2, OfLists DEF TC!ListType
<1>4. TC!TypeOK'
  BY <1>0, <1>3 DEF TC!TypeOK, TC!Now
<1>5. TC!AnswersWere'
  <2>1. \A m \in TC!Lists :
          /\ lists'[m].held > 0 => lists'[m].held <= TC!Now /\ history[lists'[m].held] \in TC!Lists
          /\ lists'[m].held = TC!Unread => lists'[m].query # "idle"
          /\ lists'[m].query = "answered" =>
                \/ lists'[m].answer = TC!Gone
                \/ lists'[m].answer \in 1..TC!Now /\ history[lists'[m].answer] = m
    BY <1>3 DEF TC!IInv, TC!AnswersWere, TC!Fetching
  <2> QED
    BY <1>0, <2>1 DEF TC!IInv, TC!AnswersWere, TC!Now, TC!Live, TC!Fetching
<1>6. TC!MovedForAWhile'
  <2>1. ASSUME NEW m \in TC!Lists, lists[m].held = TC!Now, history[TC!Now] # m
        PROVE  history[TC!Now] \in TC!Lists
    BY <1>0, <2>1, OfLists, TaskNumbers DEF TC!IInv, TC!AnswersWere
  <2>2. ASSUME NEW m \in TC!Lists, lists[m].held = TC!Now, history[TC!Now] # m
        PROVE  LET of == lists'[history[TC!Now]]
               IN /\ own.pc # "written" /\ of.held # TC!Unread
                  /\ own.pc = "idle" => \/ of.query = "asked"
                                        \/ of.query = "answered" /\ of.answer = TC!Now
                                        \/ of.query = "idle" /\ of.held = TC!Now
    BY <1>3, <2>1, <2>2 DEF TC!IInv, TC!MovedForAWhile
  <2> QED
    BY <1>0, <1>3, <2>2 DEF TC!MovedForAWhile, TC!Now
<1>7. \A m \in TC!Lists : TC!WillShow(m) => TC!WillShow(m)'
  BY <1>0, <1>3 DEF TC!WillShow, TC!Right, TC!Now
<1>8. TC!ListsWillShow => TC!ListsWillShow'
  BY <1>0, <1>3, <1>7 DEF TC!ListsWillShow
<1>9. /\ TC!Known' <=> TC!Known
      /\ TC!DeleteIsNews' <=> TC!DeleteIsNews
      /\ \A r \in reads : TC!WillTell(r) => TC!WillTell(r)'
      /\ TC!OnlyLists => TC!OnlyLists'
      /\ TC!Promised => TC!Promised'
  BY <1>0 DEF TC!Known, TC!DeleteIsNews, TC!WillTell, TC!OnlyLists, TC!Promised, TC!Live, TC!Now,
              TC!Outdated
<1>10. TC!KnownWillShow'
  BY <1>0, <1>8, <1>9 DEF TC!IInv, TC!KnownWillShow
<1>11. TC!NewestWillShow'
  BY <1>0, <1>8, <1>9 DEF TC!IInv, TC!NewestWillShow
<1> QED
  BY <1>4, <1>5, <1>6, <1>9, <1>10, <1>11 DEF TC!IInv

\* A push: its window is open.
LEMMA HintKeeps ==
    ASSUME TC!TaskCacheAssumption, TC!IInv, TC!Hint
    PROVE  TC!IInv'
<1>0. TC!TypeOK /\ UNCHANGED <<history, lists, heard, clock, pending, reads, own, crossed, losses>>
  BY DEF TC!IInv, TC!Hint
<1>1. /\ pushed' \in TC!Versions /\ pushed' <= TC!Now
      /\ gathered' \in {TC!Nothing, TC!Unnamed} \cup TC!Versions
      /\ gathered' # TC!Nothing /\ (gathered' > 0 => gathered' = pushed')
  <2>1. /\ pushed \in TC!Versions /\ pushed < TC!Now /\ TC!Now \in TC!Versions
        /\ gathered \in {TC!Nothing, TC!Unnamed} \cup TC!Versions
        /\ gathered > 0 => gathered = pushed
    BY DEF TC!IInv, TC!Hint, TC!TypeOK, TC!AnswersWere
  <2>2. TC!Versions = {i \in Int : 1 <= i /\ i <= MaxWrites} /\ MaxWrites \in Int
    BY DEF TC!Versions, TC!TaskCacheAssumption
  <2>3. CASE pushed' = pushed + 1 /\ TC!Gather(pushed + 1)
    BY <2>1, <2>2, <2>3 DEF TC!Gather, TC!Nothing, TC!Unnamed
  <2>4. CASE pushed' \in (pushed + 1)..TC!Now /\ TC!Gather(TC!Unnamed)
    <3>1. gathered' = TC!Unnamed
      BY <2>4 DEF TC!Gather, TC!Nothing, TC!Unnamed
    <3> QED
      BY <2>1, <2>2, <2>4, <3>1 DEF TC!Nothing, TC!Unnamed
  <2> QED
    BY <2>3, <2>4 DEF TC!Hint
<1>2. TC!TypeOK'
  <2>1. pushed \in Nat /\ pushed' \in Nat /\ pushed <= pushed'
    <3>1. pushed \in TC!Versions /\ TC!Now \in TC!Versions
      BY <1>0 DEF TC!TypeOK
    <3>2. pushed \in Nat /\ pushed' \in Nat /\ TC!Now \in Nat
      BY <1>1, <3>1, VersionNumbers
    <3> QED
      BY <3>2 DEF TC!Hint
  <2>2. crossed' \in 0..pushed'
    BY <1>0, <2>1 DEF TC!TypeOK
  <2> QED
    BY <1>0, <1>1, <2>2 DEF TC!TypeOK, TC!Now
<1>3. TC!AnswersWere' /\ TC!DeleteIsNews' /\ TC!MovedForAWhile'
  BY <1>0, <1>1 DEF TC!IInv, TC!AnswersWere, TC!DeleteIsNews, TC!MovedForAWhile, TC!Now, TC!Live,
                    TC!Outdated, TC!Fetching
<1>4. TC!KnownWillShow'
  BY <1>0 DEF TC!IInv, TC!KnownWillShow, TC!Known, TC!ListsWillShow, TC!WillShow, TC!Now, TC!Live,
              TC!Outdated, TC!Right
<1>5. TC!Promised'
  BY <1>1 DEF TC!Promised
<1> QED
  BY <1>2, <1>3, <1>4, <1>5 DEF TC!IInv, TC!NewestWillShow

\* The lists are read again, but for those that are being read for the first time.
LEMMA InvalidatedIs ==
    ASSUME TC!TypeOK
    PROVE  /\ TC!Invalidated \in [TC!Lists -> TC!ListType]
           /\ \A l \in TC!Lists :
                 /\ TC!Invalidated[l].held = lists[l].held
                 /\ lists[l].held = TC!Unread => TC!Invalidated[l] = lists[l]
                 /\ lists[l].held # TC!Unread => TC!Invalidated[l].query = "asked"
<1>1. ASSUME NEW l \in TC!Lists
      PROVE  /\ [lists[l] EXCEPT !.query = "asked", !.answer = TC!Unread] \in TC!ListType
             /\ [lists[l] EXCEPT !.query = "asked", !.answer = TC!Unread].held = lists[l].held
             /\ [lists[l] EXCEPT !.query = "asked", !.answer = TC!Unread].query = "asked"
  BY OfLists DEF TC!ListType, TC!Answer
<1> QED
  BY <1>1, OfLists DEF TC!Invalidated

\* What is refreshed was, and is out of its place for a while at most.
LEMMA RefreshedWas ==
    ASSUME TC!TaskCacheAssumption, TC!TypeOK, TC!AnswersWere, TC!MovedForAWhile, NEW pc,
           pc = "written" => own.pc = "written"
    PROVE  ListsWere(TC!Invalidated) /\ Moved(TC!Invalidated, pc)
<1>1. ListsWere(TC!Invalidated)
  BY InvalidatedIs DEF ListsWere, TC!AnswersWere, TC!Fetching
<1>2. Moved(TC!Invalidated, pc)
  <2> SUFFICES ASSUME NEW m \in TC!Lists, TC!Invalidated[m].held = TC!Now, history[TC!Now] # m
               PROVE  LET of == TC!Invalidated[history[TC!Now]]
                      IN /\ pc # "written" /\ of.held # TC!Unread
                         /\ pc = "idle" => of.query = "asked"
    BY DEF Moved
  <2>1. lists[m].held = TC!Now /\ history[TC!Now] \in TC!Lists
    BY InvalidatedIs, OfLists, TaskNumbers DEF TC!AnswersWere
  <2>2. own.pc # "written" /\ lists[history[TC!Now]].held # TC!Unread
    BY <2>1 DEF TC!MovedForAWhile
  <2> QED
    BY <2>1, <2>2, InvalidatedIs
<1> QED
  BY <1>1, <1>2

\* The lists are read again: what will be shown will be still, and where nothing else
\* is on its way to be placed it is what the task is.
LEMMA RefreshShows ==
    ASSUME TC!TaskCacheAssumption, TC!TypeOK, UNCHANGED <<history, own, pending>>,
           lists' = TC!Invalidated
    PROVE  /\ TC!ListsWillShow => TC!ListsWillShow'
           /\ (\A l \in TC!Lists : lists[l].held = TC!Unread => lists[l].query = "asked")
                  => TC!ListsWillShow'
<1>1. ASSUME NEW l \in TC!Lists, lists[l].held # TC!Unread
      PROVE  TC!WillShow(l)'
  BY <1>1, InvalidatedIs DEF TC!WillShow
<1>2. ASSUME NEW l \in TC!Lists, lists[l].held = TC!Unread
      PROVE  lists'[l] = lists[l]
  BY <1>2, InvalidatedIs
<1>3. ASSUME NEW l \in TC!Lists, lists[l].held = TC!Unread, TC!WillShow(l)
      PROVE  TC!WillShow(l)'
  BY <1>2, <1>3 DEF TC!WillShow, TC!Right, TC!Now
<1> QED
  BY <1>1, <1>2, <1>3 DEF TC!ListsWillShow, TC!WillShow

\* A version whose news is crossed is promised no more.
LEMMA CrossedIsExempt ==
    ASSUME TC!TaskCacheAssumption, TC!IInv, UNCHANGED <<history, pushed>>, crossed' = pushed
    PROVE  TC!Promised'
<1>1. pushed <= TC!Now /\ pushed \in Nat /\ TC!Now \in Nat /\ TC!Now' = TC!Now
  BY VersionNumbers DEF TC!IInv, TC!TypeOK, TC!AnswersWere, TC!Now
<1> QED
  BY <1>1 DEF TC!Promised

\* The window closes.
LEMMA FlushKeeps ==
    ASSUME TC!TaskCacheAssumption, TC!IInv, TC!Flush
    PROVE  TC!IInv'
<1>0. /\ TC!TypeOK /\ UNCHANGED <<history, pushed, heard, pending, own, losses>>
      /\ gathered' = TC!Nothing /\ gathered # TC!Nothing
  BY DEF TC!IInv, TC!Flush
<1>1. CASE TC!Spared
  <2>1. UNCHANGED <<lists, clock, reads, crossed>>
    BY <1>1 DEF TC!Flush
  <2>2. TC!TypeOK' /\ TC!AnswersWere' /\ TC!DeleteIsNews' /\ TC!MovedForAWhile'
    BY <1>0, <2>1 DEF TC!IInv, TC!TypeOK, TC!AnswersWere, TC!DeleteIsNews, TC!MovedForAWhile,
                      TC!Now, TC!Live, TC!Outdated,
                      TC!Fetching, TC!Nothing
  <2>3. TC!Known' <=> TC!Known
    BY <1>0, <2>1 DEF TC!Known, TC!Now, TC!Live, TC!Outdated
  <2>4. TC!KnownWillShow'
    BY <1>0, <2>1, <2>3 DEF TC!IInv, TC!KnownWillShow, TC!ListsWillShow, TC!WillShow, TC!Now,
                            TC!Right
  <2>5. pushed = TC!Now => TC!Known
    BY <1>0, <1>1, TaskNumbers DEF TC!IInv, TC!Spared, TC!Holds, TC!AnswersWere, TC!TypeOK,
                                   TC!DeleteIsNews, TC!Known
  <2>6. pushed # TC!Now => TC!Promised'
    BY <1>0, TaskNumbers DEF TC!IInv, TC!AnswersWere, TC!TypeOK, TC!Promised, TC!Now
  <2> QED
    BY <2>2, <2>3, <2>4, <2>5, <2>6 DEF TC!IInv, TC!NewestWillShow
<1>2. ASSUME ~TC!Spared, clock' = clock + 1, UNCHANGED <<lists, crossed>>,
             reads' = reads \cup {[since |-> clock + 1, answer |-> TC!Unread]}
      PROVE  TC!IInv'
  <2>0. clock \in Nat
    BY <1>0 DEF TC!TypeOK
  <2>1. PICK r \in TC!ReadType : /\ r.since = clock + 1 /\ r.answer = TC!Unread
                                 /\ reads' = reads \cup {r}
    <3>1. [since |-> clock + 1, answer |-> TC!Unread] \in TC!ReadType
      BY <2>0 DEF TC!ReadType, TC!Answer
    <3> QED
      BY <1>2, <3>1
  <2>3. TC!TypeOK'
    BY <1>0, <1>2, <2>0, <2>1 DEF TC!TypeOK, TC!Now, TC!ReadType
  <2>4. TC!AnswersWere'
    BY <1>0, <1>2, <2>0, <2>1 DEF TC!IInv, TC!AnswersWere, TC!Now, TC!Live, TC!Fetching,
                                  TC!Unread, TC!Gone, TC!Nothing
  <2>5. \A s : TC!Outdated(s)' <=> TC!Outdated(s)
    BY <2>0, <2>1 DEF TC!Outdated, TC!Unread
  <2>6. TC!DeleteIsNews' /\ TC!MovedForAWhile' /\ (TC!Known' <=> TC!Known)
    BY <1>0, <1>2, <2>5 DEF TC!IInv, TC!DeleteIsNews, TC!MovedForAWhile, TC!Known, TC!Now, TC!Live
  <2>7. TC!KnownWillShow'
    BY <1>0, <1>2, <2>6 DEF TC!IInv, TC!KnownWillShow, TC!ListsWillShow, TC!WillShow, TC!Now,
                            TC!Right
  <2>8. TC!Outdated(clock + 1)
    BY <1>0, <2>0 DEF TC!TypeOK, TC!Outdated, TC!ReadType
  <2>9. TC!WillTell(r)'
    BY <1>0, <2>0, <2>1, <2>5, <2>8 DEF TC!WillTell, TC!TypeOK, TC!Now, TC!Live
  <2> QED
    BY <2>1, <2>3, <2>4, <2>6, <2>7, <2>9 DEF TC!IInv, TC!NewestWillShow
<1>3. ASSUME TC!ReadCollections({}), UNCHANGED <<clock, reads>>
      PROVE  TC!IInv'
  <2>1. /\ lists' = TC!Invalidated
        /\ crossed' = pushed \/ (crossed' = crossed /\ TC!QuietBut({}))
    BY <1>3 DEF TC!ReadCollections, TC!RefreshLists
  <2>2. ListsWere(lists') /\ Moved(lists', own.pc) /\ lists' \in [TC!Lists -> TC!ListType]
    BY <1>0, <2>1, RefreshedWas, InvalidatedIs DEF TC!IInv
  <2>3. TC!TypeOK'
    <3>1. crossed' \in 0..pushed
      BY <1>0, <2>1, VersionNumbers DEF TC!TypeOK
    <3> QED
      BY <1>0, <1>3, <2>2, <3>1 DEF TC!TypeOK, TC!Now
  <2>4. TC!AnswersWere' /\ TC!MovedForAWhile'
    BY <1>0, <1>3, <2>1, <2>2 DEF TC!IInv, TC!AnswersWere, ListsWere, Moved, TC!MovedForAWhile,
                                  TC!Now, TC!Live, TC!Fetching, TC!Nothing
  <2>5. TC!DeleteIsNews' /\ (TC!Known' <=> TC!Known)
    BY <1>0, <1>3 DEF TC!IInv, TC!DeleteIsNews, TC!Known, TC!Outdated, TC!Now, TC!Live
  <2>6. /\ TC!ListsWillShow => TC!ListsWillShow'
        /\ (\A l \in TC!Lists : lists[l].held = TC!Unread => lists[l].query = "asked")
               => TC!ListsWillShow'
    BY <1>0, <2>1, RefreshShows
  <2>7. TC!KnownWillShow'
    BY <1>0, <2>5, <2>6 DEF TC!IInv, TC!KnownWillShow
  <2>8. CASE crossed' = pushed
    <3>1. TC!Promised'
      BY <1>0, <2>8, CrossedIsExempt
    <3> QED
      BY <2>3, <2>4, <2>5, <2>7, <3>1 DEF TC!IInv, TC!NewestWillShow
  <2>9. CASE TC!QuietBut({})
    <3>1. TC!OnlyLists'
      BY <1>0, <1>3, <2>9 DEF TC!OnlyLists, TC!QuietBut
    <3>2. TC!ListsWillShow'
      BY <2>6, <2>9 DEF TC!QuietBut
    <3> QED
      BY <2>3, <2>4, <2>5, <2>7, <3>1, <3>2 DEF TC!IInv, TC!NewestWillShow
  <2> QED
    BY <2>1, <2>8, <2>9
<1> QED
  BY <1>1, <1>2, <1>3 DEF TC!Flush

LEMMA ReadFailsKeeps ==
    ASSUME TC!TaskCacheAssumption, TC!IInv, NEW r \in reads, TC!ReadFails(r)
    PROVE  TC!IInv'
<1>0. /\ TC!TypeOK /\ UNCHANGED <<history, pushed, heard, clock, pending, gathered, own>>
      /\ losses' \in 0..MaxLosses /\ reads' = reads \ {r} /\ TC!ReadCollections({r})
  BY DEF TC!IInv, TC!ReadFails, TC!Fault, TC!TypeOK, TC!TaskCacheAssumption
<1>1. /\ lists' = TC!Invalidated
      /\ crossed' = pushed \/ (crossed' = crossed /\ TC!QuietBut({r}))
  BY <1>0 DEF TC!ReadCollections, TC!RefreshLists
<1>2. ListsWere(lists') /\ Moved(lists', own.pc) /\ lists' \in [TC!Lists -> TC!ListType]
  BY <1>0, <1>1, RefreshedWas, InvalidatedIs DEF TC!IInv
<1>3. TC!TypeOK'
  <2>1. crossed' \in 0..pushed
    BY <1>0, <1>1, VersionNumbers DEF TC!TypeOK
  <2> QED
    BY <1>0, <1>2, <2>1 DEF TC!TypeOK, TC!Now
<1>4. TC!AnswersWere' /\ TC!MovedForAWhile'
  BY <1>0, <1>1, <1>2 DEF TC!IInv, TC!AnswersWere, ListsWere, Moved, TC!MovedForAWhile, TC!Now,
                          TC!Live, TC!Fetching
<1>5. TC!DeleteIsNews'
  BY <1>0 DEF TC!IInv, TC!DeleteIsNews, TC!Outdated, TC!Now, TC!Live
<1>6. /\ TC!ListsWillShow => TC!ListsWillShow'
      /\ (\A l \in TC!Lists : lists[l].held = TC!Unread => lists[l].query = "asked")
             => TC!ListsWillShow'
  BY <1>0, <1>1, RefreshShows
<1>7. TC!KnownWillShow'
  <2>1. TC!Known' => TC!Known \/ heard.gone
    BY <1>0 DEF TC!IInv, TC!DeleteIsNews, TC!Known, TC!Now, TC!Live
  <2> QED
    BY <1>0, <1>6, <2>1 DEF TC!IInv, TC!KnownWillShow
<1>8. CASE crossed' = pushed
  <2>1. TC!Promised'
    BY <1>0, <1>8, CrossedIsExempt
  <2> QED
    BY <1>3, <1>4, <1>5, <1>7, <2>1 DEF TC!IInv, TC!NewestWillShow
<1>9. CASE TC!QuietBut({r})
  <2>1. TC!OnlyLists'
    BY <1>0, <1>9 DEF TC!OnlyLists, TC!QuietBut
  <2>2. TC!ListsWillShow'
    BY <1>6, <1>9 DEF TC!QuietBut
  <2> QED
    BY <1>3, <1>4, <1>5, <1>7, <2>1, <2>2 DEF TC!IInv, TC!NewestWillShow
<1> QED
  BY <1>1, <1>8, <1>9

\* A write that failed: what was read is read again.
LEMMA RefusedKeeps ==
    ASSUME TC!TaskCacheAssumption, TC!IInv, TC!Refused
    PROVE  TC!IInv'
<1>0. /\ TC!TypeOK /\ UNCHANGED <<history, pushed, heard, clock, pending, gathered, reads, crossed>>
      /\ losses' \in 0..MaxLosses /\ own' = TC!NoWrite /\ own.pc # "idle" /\ own'.pc = "idle"
      /\ lists' = TC!Invalidated
  BY DEF TC!IInv, TC!Refused, TC!Fault, TC!TypeOK, TC!TaskCacheAssumption, TC!NoWrite,
         TC!RefreshLists
<1>1. lists' \in [TC!Lists -> TC!ListType]
  BY <1>0, InvalidatedIs
<1>2. TC!TypeOK'
  BY <1>0, <1>1 DEF TC!TypeOK, TC!Now
<1>3. ListsWere(lists')
  BY <1>0, RefreshedWas DEF TC!IInv
<1>4. TC!AnswersWere'
  BY <1>0, <1>3 DEF TC!IInv, TC!AnswersWere, ListsWere, TC!Now, TC!Live, TC!Fetching
<1>5. TC!MovedForAWhile'
  <2>1. ASSUME NEW m \in TC!Lists, lists'[m].held = TC!Now, history[TC!Now] # m
        PROVE  lists'[history[TC!Now]].held # TC!Unread /\ lists'[history[TC!Now]].query = "asked"
    <3>1. lists[m].held = TC!Now /\ history[TC!Now] \in TC!Lists
      BY <1>0, <2>1, InvalidatedIs, OfLists, TaskNumbers DEF TC!IInv, TC!AnswersWere
    <3>2. lists[history[TC!Now]].held # TC!Unread
      BY <2>1, <3>1 DEF TC!IInv, TC!MovedForAWhile
    <3> QED
      BY <1>0, <3>1, <3>2, InvalidatedIs
  <2> QED
    BY <1>0, <2>1 DEF TC!MovedForAWhile, TC!Now
<1>6. TC!ListsWillShow => TC!ListsWillShow'
  <2>1. ASSUME TC!ListsWillShow, NEW l \in TC!Lists
        PROVE  TC!WillShow(l)'
    <3>1. CASE lists[l].held = TC!Unread
      BY <1>0, <2>1, <3>1, InvalidatedIs DEF TC!ListsWillShow, TC!WillShow, TC!Right, TC!Now
    <3>2. CASE lists[l].held # TC!Unread
      BY <1>0, <3>2, InvalidatedIs DEF TC!WillShow
    <3> QED
      BY <3>1, <3>2
  <2> QED
    BY <2>1 DEF TC!ListsWillShow
<1>7. /\ TC!Known' <=> TC!Known
      /\ TC!DeleteIsNews' <=> TC!DeleteIsNews
      /\ \A r \in reads : TC!WillTell(r) => TC!WillTell(r)'
      /\ TC!OnlyLists => TC!OnlyLists'
      /\ TC!Promised => TC!Promised'
  BY <1>0 DEF TC!Known, TC!DeleteIsNews, TC!WillTell, TC!OnlyLists, TC!Promised, TC!Live, TC!Now,
              TC!Outdated
<1>8. TC!KnownWillShow'
  BY <1>0, <1>6, <1>7 DEF TC!IInv, TC!KnownWillShow
<1>9. TC!NewestWillShow'
  BY <1>0, <1>6, <1>7 DEF TC!IInv, TC!NewestWillShow
<1> QED
  BY <1>2, <1>4, <1>5, <1>7, <1>8, <1>9 DEF TC!IInv

\* The tab's own write: the lists show it, and it is on its way.
LEMMA StartKeeps ==
    ASSUME TC!TaskCacheAssumption, TC!IInv, NEW l \in TC!Lists, NEW s \in TC!Statuses,
           TC!Start(l, s)
    PROVE  TC!IInv'
<1>0. /\ TC!TypeOK /\ UNCHANGED <<history, pushed, heard, clock, pending, gathered, reads, crossed, losses>>
      /\ own.pc = "idle" /\ lists[l].held > 0
  BY DEF TC!IInv, TC!Start
<1> DEFINE w == lists[l].held
<1>1. /\ w \in TC!Versions /\ w <= TC!Now /\ history[w] \in TC!Lists /\ TC!Now \in TC!Versions
  BY <1>0, OfLists, ListHas, TaskNumbers DEF TC!IInv, TC!AnswersWere
<1>2. own' \in TC!OwnType /\ own'.pc = "asked"
  BY <1>1 DEF TC!Start, TC!OwnType
<1>3. /\ lists' \in [TC!Lists -> TC!ListType]
      /\ \A m \in TC!Lists :
            /\ lists'[m].query = lists[m].query /\ lists'[m].answer = lists[m].answer
            /\ lists[m].held = TC!Unread <=> lists'[m].held = TC!Unread
            /\ s = l => lists'[m].held = lists[m].held
            /\ s # l /\ lists[m].held # TC!Unread => lists'[m].held = IF m = s THEN w ELSE TC!Gone
  <2>1. CASE s = l
    BY <1>0, <2>1, OfLists DEF TC!Start
  <2>2. CASE s # l
    <3> DEFINE h(m) == IF lists[m].held = TC!Unread THEN TC!Unread ELSE IF m = s THEN w ELSE TC!Gone
    <3>1. lists' = [m \in TC!Lists |-> [lists[m] EXCEPT !.held = h(m)]]
      BY <2>2 DEF TC!Start
    <3>2. ASSUME NEW m \in TC!Lists
          PROVE  /\ h(m) \in TC!Answer
                 /\ h(m) = TC!Unread <=> lists[m].held = TC!Unread
                 /\ lists[m].held # TC!Unread => h(m) = IF m = s THEN w ELSE TC!Gone
      BY <1>1, TaskNumbers DEF TC!Unread, TC!Gone
    <3> HIDE DEF h, w
    <3>3. ASSUME NEW m \in TC!Lists
          PROVE  /\ [lists[m] EXCEPT !.held = h(m)] \in TC!ListType
                 /\ [lists[m] EXCEPT !.held = h(m)].held = h(m)
                 /\ [lists[m] EXCEPT !.held = h(m)].query = lists[m].query
                 /\ [lists[m] EXCEPT !.held = h(m)].answer = lists[m].answer
      BY <1>0, <3>2, OfLists DEF TC!ListType
    <3> QED
      BY <2>2, <3>1, <3>2, <3>3
  <2> QED
    BY <2>1, <2>2
<1> HIDE DEF w
<1>4. TC!TypeOK'
  BY <1>0, <1>2, <1>3 DEF TC!TypeOK, TC!Now
<1>5. \A m \in TC!Lists : lists'[m].held > 0 => \/ lists'[m].held = lists[m].held /\ s = l
                                                \/ lists'[m].held = w /\ m = s /\ s # l
  BY <1>3, <1>0, OfLists, ListHas, TaskNumbers DEF TC!Unread, TC!Gone
<1>6. TC!AnswersWere'
  <2>1. ListsWere(lists')
    BY <1>1, <1>3, <1>5 DEF TC!IInv, TC!AnswersWere, ListsWere, TC!Fetching
  <2> QED
    BY <1>0, <1>2, <2>1 DEF TC!IInv, TC!AnswersWere, ListsWere, TC!Now, TC!Live, TC!Fetching
<1>7. TC!MovedForAWhile'
  <2>1. ASSUME NEW m \in TC!Lists, lists'[m].held = TC!Now, history[TC!Now] # m
        PROVE  history[TC!Now] \in TC!Lists /\ lists'[history[TC!Now]].held # TC!Unread
    <3>0. TC!Now > 0
      BY <1>1, TaskNumbers
    <3>1. CASE s = l
      <4>1. lists[m].held = TC!Now /\ history[TC!Now] \in TC!Lists
        BY <1>3, <3>0, <3>1, <2>1 DEF TC!IInv, TC!AnswersWere
      <4>2. lists[history[TC!Now]].held # TC!Unread
        BY <2>1, <4>1 DEF TC!IInv, TC!MovedForAWhile
      <4> QED
        BY <1>3, <4>1, <4>2
    <3>2. CASE s # l
      <4>1. w = TC!Now /\ m = s
        BY <1>5, <2>1, <3>0, <3>2
      <4>2. history[TC!Now] = l
        BY <1>1, <2>1, <3>2, <4>1 DEF TC!Lists
      <4> QED
        BY <1>0, <1>3, <4>2 DEF TC!Unread
    <3> QED
      BY <3>1, <3>2
  <2> QED
    BY <1>0, <1>2, <2>1 DEF TC!MovedForAWhile, TC!Now
<1>8. TC!ListsWillShow => TC!ListsWillShow'
  <2>1. ASSUME TC!ListsWillShow, NEW m \in TC!Lists, lists'[m].held = TC!Unread
        PROVE  TC!WillShow(m)'
    <3>1. lists[m].held = TC!Unread /\ TC!WillShow(m) /\ lists[m].query # "idle"
      BY <1>3, <2>1 DEF TC!ListsWillShow, TC!IInv, TC!AnswersWere, TC!Fetching
    <3> QED
      BY <1>0, <1>3, <3>1 DEF TC!WillShow, TC!Right, TC!Now
  <2> QED
    BY <1>2, <2>1 DEF TC!ListsWillShow
<1>9. /\ TC!Known' <=> TC!Known
      /\ TC!DeleteIsNews' <=> TC!DeleteIsNews
      /\ \A r \in reads : TC!WillTell(r) => TC!WillTell(r)'
      /\ TC!OnlyLists => TC!OnlyLists'
      /\ TC!Promised => TC!Promised'
  BY <1>0, <1>2 DEF TC!Known, TC!DeleteIsNews, TC!WillTell, TC!OnlyLists, TC!Promised, TC!Live,
                    TC!Now, TC!Outdated
<1>10. TC!KnownWillShow'
  BY <1>0, <1>8, <1>9 DEF TC!IInv, TC!KnownWillShow
<1>11. TC!NewestWillShow'
  BY <1>0, <1>8, <1>9 DEF TC!IInv, TC!NewestWillShow
<1> QED
  BY <1>4, <1>6, <1>7, <1>9, <1>10, <1>11 DEF TC!IInv

\* A read is answered with what the task is.
LEMMA ReadAnswersKeeps ==
    ASSUME TC!TaskCacheAssumption, TC!IInv, NEW r \in reads, TC!ReadAnswers(r)
    PROVE  TC!IInv'
<1>0. /\ TC!TypeOK /\ UNCHANGED <<history, pushed, lists, heard, clock, pending, gathered, own, crossed, losses>>
      /\ r \in TC!ReadType /\ r.answer = TC!Unread /\ TC!Now \in TC!Versions
  BY DEF TC!IInv, TC!ReadAnswers, TC!TypeOK
<1>1. PICK a \in TC!ReadType : /\ a.since = r.since
                               /\ a.answer = (IF TC!Live(TC!Now) THEN TC!Now ELSE TC!Gone)
                               /\ reads' = (reads \ {r}) \cup {a}
  <2>1. [r EXCEPT !.answer = IF TC!Live(TC!Now) THEN TC!Now ELSE TC!Gone] \in TC!ReadType
    BY <1>0 DEF TC!ReadType, TC!Answer
  <2> QED
    BY <1>0, <2>1 DEF TC!ReadAnswers, TC!ReadType
<1>2. TC!TypeOK'
  BY <1>0, <1>1 DEF TC!TypeOK, TC!Now
<1>4. ~TC!Live(TC!Now) => \A s : TC!Outdated(s)' <=> TC!Outdated(s)
  BY <1>0, <1>1 DEF TC!Outdated, TC!Unread, TC!Gone
<1>5. TC!AnswersWere'
  <2>1. a.answer > 0 => a.answer <= TC!Now /\ TC!Live(a.answer)
    BY <1>0, <1>1, TaskNumbers DEF TC!Gone
  <2>2. a.answer = TC!Gone => ~TC!Live(TC!Now)
    BY <1>0, <1>1, TaskNumbers DEF TC!Gone
  <2> QED
    BY <1>0, <1>1, <2>1, <2>2 DEF TC!IInv, TC!AnswersWere, TC!Now, TC!Live, TC!Fetching
<1>6. TC!DeleteIsNews' /\ TC!MovedForAWhile' /\ (TC!Known' <=> TC!Known)
  BY <1>0, <1>4 DEF TC!IInv, TC!DeleteIsNews, TC!MovedForAWhile, TC!Known, TC!Now, TC!Live
<1>7. TC!ListsWillShow' <=> TC!ListsWillShow
  BY <1>0 DEF TC!ListsWillShow, TC!WillShow, TC!Now, TC!Right
<1>8. TC!Promised => TC!Promised'
  BY <1>0 DEF TC!Promised, TC!Now
<1>9. ASSUME NEW x \in reads, TC!WillTell(x)
      PROVE  \E y \in reads' : TC!WillTell(y)'
  <2>1. ASSUME NEW y, y \in reads', y.since = x.since,
               y.answer \in {TC!Unread, IF TC!Live(TC!Now) THEN TC!Now ELSE TC!Gone}
        PROVE  TC!WillTell(y)'
    BY <1>0, <1>4, <1>9, <2>1 DEF TC!WillTell, TC!Now, TC!Live
  <2>2. CASE x = r
    BY <1>1, <2>1, <2>2
  <2>3. CASE x # r
    BY <1>1, <1>9, <2>1, <2>3 DEF TC!WillTell
  <2> QED
    BY <2>2, <2>3
<1>10. ~TC!OnlyLists
  BY DEF TC!OnlyLists
<1>11. TC!KnownWillShow'
  BY <1>0, <1>6, <1>7 DEF TC!IInv, TC!KnownWillShow
<1>12. TC!NewestWillShow'
  BY <1>6, <1>7, <1>8, <1>9, <1>10 DEF TC!IInv, TC!NewestWillShow
<1> QED
  BY <1>2, <1>5, <1>6, <1>11, <1>12 DEF TC!IInv

\* An answer is placed, or it is not admitted and nothing changes.
LEMMA PlaceAnswerDoes ==
    ASSUME TC!TaskCacheAssumption, TC!TypeOK, NEW v \in {TC!Gone} \cup TC!Versions,
           NEW since \in Nat,
           TC!PlaceAnswer(v, since)
    PROVE  \/ /\ UNCHANGED <<heard, lists, pending>>
              /\ v = TC!Gone => ~(since >= heard.since)
              /\ v # TC!Gone => ~TC!Admits(v, since)
           \/ /\ lists' = TC!Placed(lists, v) /\ pending' = pending \cup TC!BeingRead(lists)
              /\ heard' \in [version : {0} \cup TC!Versions, since : Nat, gone : BOOLEAN]
              /\ heard'.since = since
              /\ v = TC!Gone => /\ since >= heard.since
                                /\ heard'.gone /\ heard'.version = heard.version
              /\ v # TC!Gone => /\ TC!Admits(v, since)
                                /\ ~heard'.gone /\ heard'.version = v
<1>1. heard \in [version : {0} \cup TC!Versions, since : Nat, gone : BOOLEAN]
  BY DEF TC!TypeOK
<1>2. CASE v = TC!Gone
  <2>1. CASE since >= heard.since
    <3>1. heard' = [heard EXCEPT !.since = since, !.gone = TRUE] /\ TC!Write(lists, TC!Gone)
      BY <1>2, <2>1 DEF TC!PlaceAnswer
    <3>2. /\ heard' \in [version : {0} \cup TC!Versions, since : Nat, gone : BOOLEAN]
          /\ heard'.since = since /\ heard'.gone /\ heard'.version = heard.version
      BY <1>1, <3>1
    <3> QED
      BY <1>2, <2>1, <3>1, <3>2 DEF TC!Write
  <2>2. CASE ~(since >= heard.since)
    BY <1>2, <2>2 DEF TC!PlaceAnswer
  <2> QED
    BY <2>1, <2>2
<1>3. CASE v # TC!Gone
  <2>1. CASE TC!Admits(v, since)
    <3>1. heard' = [version |-> v, since |-> since, gone |-> FALSE] /\ TC!Write(lists, v)
      BY <1>3, <2>1 DEF TC!PlaceAnswer
    <3>2. /\ heard' \in [version : {0} \cup TC!Versions, since : Nat, gone : BOOLEAN]
          /\ heard'.since = since /\ ~heard'.gone /\ heard'.version = v
      BY <1>3, <3>1
    <3> QED
      BY <1>3, <2>1, <3>1, <3>2 DEF TC!Write
  <2>2. CASE ~TC!Admits(v, since)
    BY <1>3, <2>2 DEF TC!PlaceAnswer
  <2> QED
    BY <2>1, <2>2
<1> QED
  BY <1>2, <1>3

\* The lists that an answer was placed in, or was not.
LEMMA PlacedKeeps ==
    ASSUME TC!TaskCacheAssumption, TC!TypeOK, TC!AnswersWere, TC!MovedForAWhile,
           NEW v \in {TC!Gone} \cup TC!Versions, v <= TC!Now, history' = history,
           lists' = lists \/ lists' = TC!Placed(lists, v),
           own' = own \/ (own.pc = "written" /\ own'.pc = "idle")
    PROVE  lists' \in [TC!Lists -> TC!ListType] /\ ListsWere(lists') /\ TC!MovedForAWhile'
<1>1. lists' \in [TC!Lists -> TC!ListType] /\ ListsWere(lists')
  BY OfLists, PlacedIs, PlacedWas, TaskNumbers
<1>2. Moved(lists', own.pc)
  BY OfLists, PlacedMoved
<1>3. Moved(lists', own'.pc)
  BY <1>2 DEF Moved
<1> QED
  BY <1>1, <1>3 DEF Moved, TC!MovedForAWhile, TC!Now

\* Where the newest version, or that the task is gone, was placed, the lists will
\* show it.
LEMMA TruthWillShow ==
    ASSUME TC!TaskCacheAssumption, TC!TypeOK, TC!AnswersWere, TC!MovedForAWhile,
           NEW v \in {TC!Gone} \cup TC!Versions, v = TC!Now \/ (v = TC!Gone /\ ~TC!Live(TC!Now)),
           history' = history, lists' = TC!Placed(lists, v), TC!BeingRead(lists) \subseteq pending',
           own' = own \/ (own.pc = "written" /\ own'.pc = "idle")
    PROVE  TC!ListsWillShow'
<1> SUFFICES ASSUME NEW l \in TC!Lists,
                    own'.pc \in {"idle", "written"} \/ lists'[l].held = TC!Unread
             PROVE  TC!WillShow(l)'
  BY DEF TC!ListsWillShow
<1>1. lists'[l].query = lists[l].query /\ lists'[l].query \in {"idle", "asked", "answered"}
  BY OfLists, PlacedIs, ListHas
<1>2. CASE lists[l].query = "answered"
  BY <1>1, <1>2 DEF TC!WillShow, TC!BeingRead
<1>3. CASE lists[l].query = "asked"
  BY <1>1, <1>3 DEF TC!WillShow
<1>4. CASE lists[l].query = "idle"
  <2>1. lists[l].held # TC!Unread
    BY <1>4 DEF TC!AnswersWere, TC!Fetching
  <2>2. lists'[l].held # TC!Unread
    BY <2>1, OfLists, PlacedIs, TaskNumbers DEF TC!Unread, TC!Gone
  <2>3. own.pc \in {"idle", "written"}
    BY <2>2, OfLists
  <2>4. ShownIn(lists', l)
    BY <1>4, <2>3, OfLists, PlaceTruth
  <2> QED
    BY <1>1, <1>4, <2>4 DEF TC!WillShow, ShownIn, TC!Right, TC!Now
<1> QED
  BY <1>1, <1>2, <1>3, <1>4

\* A read lands.
LEMMA ReadLandsKeeps ==
    ASSUME TC!TaskCacheAssumption, TC!IInv, NEW r \in reads, TC!ReadLands(r)
    PROVE  TC!IInv'
<1> DEFINE v == r.answer
           t == r.since
<1>0. /\ TC!TypeOK /\ TC!AnswersWere /\ TC!MovedForAWhile
      /\ UNCHANGED <<history, pushed, clock, gathered, own, crossed, losses>>
      /\ reads' = reads \ {r} /\ TC!PlaceAnswer(v, t)
      /\ r \in TC!ReadType /\ v # TC!Unread /\ TC!Now \in TC!Versions /\ t <= clock
  BY DEF TC!IInv, TC!ReadLands, TC!TypeOK
<1>1. /\ v \in {TC!Gone} \cup TC!Versions /\ t \in Nat /\ v <= TC!Now
      /\ v > 0 => TC!Live(v)
      /\ v = TC!Gone => ~TC!Live(TC!Now)
  BY <1>0, TaskNumbers DEF TC!ReadType, TC!AnswersWere, TC!Gone
<1> DEFINE Kept == /\ UNCHANGED <<heard, lists, pending>>
                   /\ v = TC!Gone => ~(t >= heard.since)
                   /\ v # TC!Gone => ~TC!Admits(v, t)
           Took == /\ lists' = TC!Placed(lists, v) /\ pending' = pending \cup TC!BeingRead(lists)
                   /\ heard' \in [version : {0} \cup TC!Versions, since : Nat, gone : BOOLEAN]
                   /\ heard'.since = t
                   /\ v = TC!Gone => /\ t >= heard.since
                                     /\ heard'.gone /\ heard'.version = heard.version
                   /\ v # TC!Gone => /\ TC!Admits(v, t)
                                     /\ ~heard'.gone /\ heard'.version = v
<1>2. Kept \/ Took
  BY <1>0, <1>1, PlaceAnswerDoes
<1>3. lists' \in [TC!Lists -> TC!ListType] /\ ListsWere(lists') /\ TC!MovedForAWhile'
  BY <1>0, <1>1, <1>2, PlacedKeeps
<1>4. /\ heard \in [version : {0} \cup TC!Versions, since : Nat, gone : BOOLEAN]
      /\ heard.version <= TC!Now /\ (heard.gone => ~TC!Live(TC!Now))
      /\ heard.version = 0 /\ ~heard.gone => heard.since = 0
      /\ TC!Versions \subseteq Nat \ {0}
  BY <1>0, TaskNumbers DEF TC!TypeOK, TC!AnswersWere
<1>5. TC!TypeOK'
  <2>1. pending' \subseteq TC!Lists
    BY <1>0, <1>2 DEF TC!TypeOK, TC!BeingRead
  <2>2. heard' \in [version : {0} \cup TC!Versions, since : Nat, gone : BOOLEAN] /\ heard'.since <= clock
    BY <1>0, <1>2, <1>4 DEF TC!TypeOK
  <2> QED
    BY <1>0, <1>3, <2>1, <2>2 DEF TC!TypeOK, TC!Now
<1>6. TC!AnswersWere'
  <2>1. /\ heard'.version <= TC!Now /\ (heard'.gone => ~TC!Live(TC!Now))
        /\ heard'.version = 0 /\ ~heard'.gone => heard'.since = 0
    BY <1>1, <1>2, <1>4 DEF TC!Gone
  <2> QED
    BY <1>0, <1>3, <2>1 DEF TC!AnswersWere, ListsWere, TC!Now, TC!Live, TC!Fetching
<1>7. /\ TC!Promised => TC!Promised'
      /\ \A s : TC!Outdated(s) => TC!Outdated(s)'
      /\ ~TC!OnlyLists
  BY <1>0 DEF TC!Promised, TC!Now, TC!Outdated, TC!OnlyLists
<1>8. \A s \in Nat, u \in Nat : TC!Outdated(s) /\ s <= u => TC!Outdated(u)
  BY <1>0 DEF TC!Outdated, TC!TypeOK, TC!ReadType
<1>12. \A s : v > 0 /\ TC!Outdated(s) => t < s
  BY <1>0 DEF TC!Outdated
<1>13. TC!WillTell(r) => /\ v = IF TC!Live(TC!Now) THEN TC!Now ELSE TC!Gone
                         /\ ~TC!Live(TC!Now) => t >= heard.since /\ TC!Outdated(t)
  BY <1>0 DEF TC!WillTell
<1>14. v # TC!Gone => v > 0 /\ v \in TC!Versions
  BY <1>1, VersionNumbers
<1>15. heard.version \in Nat /\ heard.since \in Nat /\ v \in Nat /\ TC!Now \in Nat
  BY <1>0, <1>1, <1>4, VersionNumbers
<1> HIDE DEF v, t
<1>9. CASE Took /\ (v = TC!Now \/ v = TC!Gone)
  <2>1. TC!ListsWillShow'
    BY <1>0, <1>1, <1>9, TruthWillShow
  <2>2. TC!DeleteIsNews'
    <3> SUFFICES ASSUME ~TC!Live(TC!Now), heard'.version = TC!Now
                 PROVE  TC!Outdated(heard.since)'
      BY <1>0 DEF TC!DeleteIsNews, TC!Now, TC!Live
    <3>1. v = TC!Gone
      BY <1>1, <1>0, <1>4, <1>9
    <3>2. TC!Outdated(heard.since) /\ heard.since <= t
      BY <1>1, <1>4, <1>9, <3>1 DEF TC!IInv, TC!DeleteIsNews
    <3> QED
      BY <1>1, <1>4, <1>7, <1>8, <1>9, <3>2
  <2>3. CASE TC!Live(TC!Now)
    <3>1. TC!Known'
      BY <1>0, <1>1, <1>9, <2>3, <1>4 DEF TC!Known, TC!Now, TC!Live, TC!Gone
    <3> QED
      BY <1>3, <1>5, <1>6, <2>1, <2>2, <3>1 DEF TC!IInv, TC!KnownWillShow, TC!NewestWillShow
  <2>4. CASE ~TC!Live(TC!Now)
    <3>1. v = TC!Gone
      BY <1>1, <1>0, <1>4, <1>9, <2>4
    <3>2. TC!Outdated(t) => TC!Known'
      BY <1>0, <1>7, <1>9, <2>4, <3>1 DEF TC!Known, TC!Now, TC!Live
    <3>3. TC!Known => TC!Known'
      BY <1>1, <1>4, <1>8, <1>9, <2>4, <3>1, <3>2 DEF TC!Known
    <3>4. ASSUME NEW x \in reads, TC!WillTell(x), ~TC!Outdated(t)
          PROVE  x \in reads' /\ TC!WillTell(x)'
      <4>1. x \in TC!ReadType /\ x.since \in Nat /\ x # r
        BY <1>0, <1>13, <2>4, <3>4 DEF TC!TypeOK, TC!ReadType
      <4>2. TC!Outdated(x.since) /\ ~(x.since <= t)
        BY <1>1, <1>8, <2>4, <3>4, <4>1 DEF TC!WillTell
      <4> QED
        BY <1>0, <1>1, <1>7, <1>9, <2>4, <3>4, <4>1, <4>2 DEF TC!WillTell, TC!Now, TC!Live
    <3>5. TC!NewestWillShow'
      BY <1>7, <3>2, <3>3, <3>4 DEF TC!IInv, TC!NewestWillShow
    <3> QED
      BY <1>3, <1>5, <1>6, <2>1, <2>2, <3>5 DEF TC!IInv, TC!KnownWillShow
  <2> QED
    BY <2>3, <2>4
<1>10. CASE Took /\ v # TC!Now /\ v # TC!Gone
  <2>1. v \in TC!Versions /\ v < TC!Now /\ ~heard'.gone /\ heard'.version = v /\ TC!Admits(v, t) /\ TC!Live(v)
    BY <1>1, <1>10, <1>14, <1>15
  <2>2. ~TC!Known' /\ TC!DeleteIsNews'
    BY <1>0, <2>1 DEF TC!Known, TC!DeleteIsNews, TC!Now, TC!Live
  <2>3. ~TC!Known
    <3> SUFFICES ASSUME TC!Known
                 PROVE  FALSE
      OBVIOUS
    <3>1. CASE TC!Live(TC!Now)
      BY <1>0, <1>4, <2>1, <3>1 DEF TC!Known, TC!Admits
    <3>2. CASE ~TC!Live(TC!Now)
      <4>1. (heard.gone \/ heard.version = TC!Now) /\ t < heard.since
        BY <1>14, <1>12, <2>1, <1>10, <3>2 DEF TC!Known
      <4> QED
        BY <1>0, <1>1, <1>4, <2>1, <4>1 DEF TC!Admits
    <3> QED
      BY <3>1, <3>2
  <2>4. ASSUME NEW x \in reads, TC!WillTell(x)
        PROVE  x \in reads' /\ TC!WillTell(x)'
    <3>1. x \in TC!ReadType /\ x.since \in Nat /\ x # r
      BY <1>0, <1>10, <1>13, <2>4 DEF TC!TypeOK, TC!ReadType
    <3>2. ~TC!Live(TC!Now) => t < x.since
      BY <1>10, <1>12, <1>14, <2>4 DEF TC!WillTell
    <3> QED
      BY <1>0, <1>1, <1>7, <1>10, <2>4, <3>1, <3>2 DEF TC!WillTell, TC!Now, TC!Live
  <2>5. TC!NewestWillShow'
    BY <1>7, <2>3, <2>4 DEF TC!IInv, TC!NewestWillShow
  <2> QED
    BY <1>3, <1>5, <1>6, <2>1, <2>2, <2>5 DEF TC!IInv, TC!KnownWillShow
<1>11. CASE Kept
  <2>0. UNCHANGED <<heard, lists, pending>>
    BY <1>11
  <2>1. TC!ListsWillShow' <=> TC!ListsWillShow
    BY <1>0, <2>0 DEF TC!ListsWillShow, TC!WillShow, TC!Now, TC!Right
  <2>2. TC!DeleteIsNews' /\ (TC!Known => TC!Known')
    BY <1>0, <2>0, <1>7 DEF TC!IInv, TC!DeleteIsNews, TC!Known, TC!Now, TC!Live
  <2>3. TC!Known' => TC!Known
    <3>1. CASE TC!Live(TC!Now)
      BY <1>0, <2>0, <3>1 DEF TC!Known, TC!Now, TC!Live
    <3>2. CASE ~TC!Live(TC!Now)
      <4> SUFFICES ASSUME TC!Known'
                   PROVE  TC!Outdated(heard.since)
        BY <1>0, <2>0, <3>2 DEF TC!Known, TC!Now, TC!Live
      <4>1. (heard.gone \/ heard.version = TC!Now) /\ TC!Outdated(heard.since)'
        BY <1>0, <2>0, <3>2 DEF TC!Known, TC!Now, TC!Live
      <4>2. CASE heard.version = TC!Now
        BY <3>2, <4>2 DEF TC!IInv, TC!DeleteIsNews
      <4>3. CASE heard.gone
        <5>1. v > 0 => t < heard.since
          BY <1>1, <1>4, <1>11, <4>3 DEF TC!Admits, TC!Gone
        <5> QED
          BY <1>0, <2>0, <4>1, <5>1 DEF TC!Outdated, v, t
      <4> QED
        BY <4>1, <4>2, <4>3
    <3> QED
      BY <3>1, <3>2
  <2>4. ASSUME NEW x \in reads, TC!WillTell(x)
        PROVE  x \in reads' /\ TC!WillTell(x)'
    <3>1. x # r
      <4> SUFFICES ASSUME x = r
                   PROVE  FALSE
        OBVIOUS
      <4>1. CASE TC!Live(TC!Now)
        <5>1. v = TC!Now /\ v # TC!Gone
          BY <1>0, <1>4, <1>13, <2>4, <4>1 DEF TC!Gone
        <5>2. ~heard.gone /\ (heard.version = 0 => heard.since = 0)
          BY <1>4, <4>1
        <5>3. TC!Admits(v, t)
          BY <1>1, <1>4, <1>15, <5>1, <5>2 DEF TC!Admits
        <5> QED
          BY <1>11, <5>1, <5>3
      <4>2. CASE ~TC!Live(TC!Now)
        BY <1>11, <1>13, <2>4, <4>2
      <4> QED
        BY <4>1, <4>2
    <3> QED
      BY <1>0, <2>0, <1>7, <2>4, <3>1 DEF TC!WillTell, TC!Now, TC!Live
  <2>5. TC!KnownWillShow'
    BY <2>0, <2>1, <2>3 DEF TC!IInv, TC!KnownWillShow
  <2>6. TC!NewestWillShow'
    BY <1>7, <2>2, <2>4 DEF TC!IInv, TC!NewestWillShow
  <2> QED
    BY <1>3, <1>5, <1>6, <2>2, <2>5, <2>6 DEF TC!IInv
<1> QED
  BY <1>2, <1>9, <1>10, <1>11

\* The tab's own write is answered.
LEMMA AnsweredKeeps ==
    ASSUME TC!TaskCacheAssumption, TC!IInv, TC!Answered
    PROVE  TC!IInv'
<1> DEFINE v == own.version
           t == clock + 1
<1>0. /\ TC!TypeOK /\ TC!AnswersWere /\ TC!MovedForAWhile
      /\ UNCHANGED <<history, pushed, gathered, reads, losses>>
      /\ crossed' = (IF gathered = TC!Nothing /\ v < pushed /\ ~TC!Live(pushed)
                     THEN pushed ELSE crossed)
      /\ clock' = t /\ TC!PlaceAnswer(v, t) /\ clock \in Nat /\ heard.since <= clock
      /\ own.pc = "written" /\ own' = TC!NoWrite /\ own'.pc = "idle" /\ TC!Now \in TC!Versions
  BY DEF TC!IInv, TC!Answered, TC!TypeOK, TC!NoWrite
<1>1. /\ v \in TC!Versions /\ t \in Nat /\ v <= TC!Now /\ v # TC!Gone /\ v \in {TC!Gone} \cup TC!Versions
  BY <1>0, OfLists, VersionNumbers DEF TC!OwnType, TC!AnswersWere
<1> DEFINE Kept == /\ UNCHANGED <<heard, lists, pending>>
                   /\ v = TC!Gone => ~(t >= heard.since)
                   /\ v # TC!Gone => ~TC!Admits(v, t)
           Took == /\ lists' = TC!Placed(lists, v) /\ pending' = pending \cup TC!BeingRead(lists)
                   /\ heard' \in [version : {0} \cup TC!Versions, since : Nat, gone : BOOLEAN]
                   /\ heard'.since = t
                   /\ v = TC!Gone => /\ t >= heard.since
                                     /\ heard'.gone /\ heard'.version = heard.version
                   /\ v # TC!Gone => /\ TC!Admits(v, t)
                                     /\ ~heard'.gone /\ heard'.version = v
<1>2. Kept \/ Took
  BY <1>0, <1>1, PlaceAnswerDoes
<1>3. lists' \in [TC!Lists -> TC!ListType] /\ ListsWere(lists') /\ TC!MovedForAWhile'
  BY <1>0, <1>1, <1>2, PlacedKeeps
<1>4. /\ heard \in [version : {0} \cup TC!Versions, since : Nat, gone : BOOLEAN]
      /\ heard.version <= TC!Now /\ (heard.gone => ~TC!Live(TC!Now))
      /\ heard.version = 0 /\ ~heard.gone => heard.since = 0
  BY <1>0 DEF TC!TypeOK, TC!AnswersWere
<1>5. TC!TypeOK'
  <2>1. pending' \subseteq TC!Lists
    BY <1>0, <1>2 DEF TC!TypeOK, TC!BeingRead
  <2>2. heard' \in [version : {0} \cup TC!Versions, since : Nat, gone : BOOLEAN] /\ heard'.since <= clock'
    BY <1>0, <1>1, <1>2, <1>4
  <2>3. clock' \in Nat /\ \A r \in reads : r.since <= clock'
    BY <1>0 DEF TC!TypeOK, TC!ReadType
  <2>4. crossed' \in 0..pushed
    <3> HIDE DEF v
    <3> QED
      BY <1>0, VersionNumbers DEF TC!TypeOK
  <2> QED
    BY <1>0, <1>3, <2>1, <2>2, <2>3, <2>4 DEF TC!TypeOK, TC!Now
<1>6. /\ heard.version \in Nat /\ heard.since \in Nat /\ v \in Nat /\ TC!Now \in Nat /\ v > 0 /\ TC!Now > 0
      /\ t > heard.since
  BY <1>0, <1>1, <1>4, VersionNumbers
<1>7. TC!AnswersWere'
  <2>1. /\ heard'.version <= TC!Now /\ (heard'.gone => ~TC!Live(TC!Now))
        /\ heard'.version = 0 /\ ~heard'.gone => heard'.since = 0
    BY <1>1, <1>2, <1>4, <1>6
  <2> QED
    BY <1>0, <1>3, <2>1 DEF TC!AnswersWere, ListsWere, TC!Now, TC!Live, TC!Fetching
<1>8. /\ TC!Promised => TC!Promised'
      /\ \A s : TC!Outdated(s) <=> TC!Outdated(s)'
      /\ ~TC!OnlyLists
      /\ TC!Outdated(t)
  <2>1. \A r \in reads : r.since < t
    BY <1>0 DEF TC!TypeOK, TC!ReadType
  <2> HIDE DEF t, v
  <2>2. crossed' = crossed \/ crossed' = pushed
    BY <1>0
  <2>3. TC!Promised => TC!Promised'
    <3>1. CASE crossed' = crossed
      BY <1>0, <3>1 DEF TC!Promised, TC!Now
    <3>2. CASE crossed' = pushed
      BY <1>0, <3>2, CrossedIsExempt
    <3> QED
      BY <2>2, <3>1, <3>2
  <2> QED
    BY <1>0, <2>1, <2>3 DEF TC!Outdated, TC!OnlyLists
<1> HIDE DEF v, t
<1>9. CASE Took /\ v = TC!Now
  <2>1. TC!ListsWillShow'
    BY <1>0, <1>1, <1>9, TruthWillShow
  <2>2. heard'.version = TC!Now /\ ~heard'.gone /\ TC!Outdated(heard'.since)
    BY <1>1, <1>8, <1>9
  <2>3. TC!DeleteIsNews' /\ TC!Known'
    BY <1>0, <1>8, <2>2 DEF TC!DeleteIsNews, TC!Known, TC!Now, TC!Live
  <2> QED
    BY <1>3, <1>5, <1>7, <2>1, <2>3 DEF TC!IInv, TC!KnownWillShow, TC!NewestWillShow
<1>10. CASE Took /\ v # TC!Now
  <2>1. ~heard'.gone /\ heard'.version = v /\ TC!Admits(v, t) /\ v < TC!Now
    BY <1>1, <1>6, <1>10
  <2>2. ~TC!Known' /\ TC!DeleteIsNews'
    BY <1>0, <1>6, <2>1 DEF TC!Known, TC!DeleteIsNews, TC!Now, TC!Live
  <2>3. TC!NewestWillShow'
    <3>1. CASE TC!Live(TC!Now)
      <4>1. ~TC!Known
        BY <1>4, <1>6, <2>1, <3>1 DEF TC!Known, TC!Admits
      <4>2. ASSUME NEW x \in reads, TC!WillTell(x)
            PROVE  x \in reads' /\ TC!WillTell(x)'
        BY <1>0, <3>1, <4>2 DEF TC!WillTell, TC!Now, TC!Live
      <4> QED
        BY <1>8, <4>1, <4>2 DEF TC!IInv, TC!NewestWillShow
    <3>2. CASE ~TC!Live(TC!Now)
      <4>1. pushed <= TC!Now /\ pushed \in Nat
        BY <1>0, VersionNumbers DEF TC!TypeOK, TC!AnswersWere
      <4>2. CASE pushed < TC!Now \/ gathered # TC!Nothing
        BY <1>0, <4>2 DEF TC!Promised, TC!Now, TC!NewestWillShow
      <4>3. CASE pushed = TC!Now /\ gathered = TC!Nothing
        <5>1. crossed' = pushed
          BY <1>0, <2>1, <3>2, <4>3
        <5> QED
          BY <1>0, <5>1, CrossedIsExempt DEF TC!NewestWillShow
      <4> QED
        BY <1>6, <4>1, <4>2, <4>3
    <3> QED
      BY <3>1, <3>2
  <2> QED
    BY <1>3, <1>5, <1>7, <2>1, <2>2, <2>3 DEF TC!IInv, TC!KnownWillShow
<1>11. CASE Kept
  <2>0. UNCHANGED <<heard, lists, pending>>
    BY <1>11
  <2>1. TC!ListsWillShow' <=> TC!ListsWillShow
    BY <1>0, <2>0 DEF TC!ListsWillShow, TC!WillShow, TC!Now, TC!Right
  <2>2. TC!DeleteIsNews' /\ (TC!Known <=> TC!Known')
    BY <1>0, <2>0, <1>8 DEF TC!IInv, TC!DeleteIsNews, TC!Known, TC!Now, TC!Live
  <2>3. ASSUME NEW x \in reads, TC!WillTell(x)
        PROVE  x \in reads' /\ TC!WillTell(x)'
    BY <1>0, <2>0, <1>8, <2>3 DEF TC!WillTell, TC!Now, TC!Live
  <2>4. TC!KnownWillShow'
    BY <2>0, <2>1, <2>2 DEF TC!IInv, TC!KnownWillShow
  <2>5. TC!NewestWillShow'
    BY <1>8, <2>2, <2>3 DEF TC!IInv, TC!NewestWillShow
  <2> QED
    BY <1>3, <1>5, <1>7, <2>2, <2>4, <2>5 DEF TC!IInv
<1> QED
  BY <1>2, <1>9, <1>10, <1>11

\* A list lands, and what was placed while it was read is placed in it again.
LEMMA LandsKeeps ==
    ASSUME TC!TaskCacheAssumption, TC!IInv, NEW l \in TC!Lists, TC!Lands(l)
    PROVE  TC!IInv'
<1>0. /\ TC!TypeOK /\ TC!AnswersWere /\ TC!MovedForAWhile /\ lists[l].query = "answered"
      /\ UNCHANGED <<history, pushed, heard, clock, gathered, reads, own, crossed, losses>>
      /\ TC!Now \in TC!Versions
  BY DEF TC!IInv, TC!Lands, TC!TypeOK
<1>1. PICK landed \in [TC!Lists -> TC!ListType] :
        /\ landed[l].held = lists[l].answer /\ landed[l].query = "idle"
        /\ \A m \in TC!Lists \ {l} : landed[m] = lists[m]
        /\ IF l \in pending /\ TC!HeardAny
           THEN /\ lists' = TC!Placed(landed, TC!Heard)
                /\ pending' = (pending \ {l}) \cup TC!BeingRead(landed)
           ELSE lists' = landed /\ pending' = pending \ {l}
  <2> DEFINE in == [lists EXCEPT ![l] = [held |-> @.answer, query |-> "idle", answer |-> TC!Unread]]
  <2>1. in = [lists EXCEPT ![l] = [held |-> lists[l].answer, query |-> "idle", answer |-> TC!Unread]]
    BY <1>0, OfLists
  <2>2. lists[l].answer \in TC!Answer /\ TC!Unread \in TC!Answer
    BY <1>0, OfLists, ListHas DEF TC!Answer
  <2>3. PICK c \in TC!ListType : c = [held |-> lists[l].answer, query |-> "idle", answer |-> TC!Unread]
    BY <2>2, ListOf
  <2>4. c.held = lists[l].answer /\ c.query = "idle" /\ in = [lists EXCEPT ![l] = c]
    BY <2>1, <2>3
  <2>5. /\ in \in [TC!Lists -> TC!ListType] /\ in[l] = c
        /\ \A m \in TC!Lists \ {l} : in[m] = lists[m]
    BY <1>0, <2>4, OfLists
  <2>6. IF l \in pending /\ TC!HeardAny
        THEN lists' = TC!Placed(in, TC!Heard) /\ pending' = (pending \ {l}) \cup TC!BeingRead(in)
        ELSE lists' = in /\ pending' = pending \ {l}
    BY DEF TC!Lands
  <2> HIDE DEF in
  <2> QED
    BY <2>4, <2>5, <2>6
<1>2. ListsWere(landed) /\ Moved(landed, own.pc)
  <2>0. lists[l].answer # TC!Unread
    BY <1>0, VersionNumbers, TaskNumbers DEF TC!AnswersWere, TC!Unread, TC!Gone
  <2>1. ListsWere(landed)
    <3>1. ASSUME NEW m \in TC!Lists
          PROVE  /\ landed[m].held > 0 => landed[m].held <= TC!Now /\ history[landed[m].held] \in TC!Lists
                 /\ landed[m].held = TC!Unread => landed[m].query # "idle"
                 /\ landed[m].query = "answered" =>
                        \/ landed[m].answer = TC!Gone
                        \/ landed[m].answer \in 1..TC!Now /\ history[landed[m].answer] = m
      <4>1. CASE m = l
        BY <1>0, <1>1, <2>0, <4>1, VersionNumbers DEF TC!AnswersWere, TC!Gone
      <4>2. CASE m # l
        BY <1>0, <1>1, <4>2 DEF TC!AnswersWere, TC!Fetching
      <4> QED
        BY <4>1, <4>2
    <3> QED
      BY <3>1 DEF ListsWere
  <2>2. ASSUME NEW m \in TC!Lists, landed[m].held = TC!Now, history[TC!Now] # m
        PROVE  /\ m # l /\ lists[m].held = TC!Now /\ history[TC!Now] = l
    <3>1. m # l
      BY <1>0, <1>1, <2>2, VersionNumbers DEF TC!AnswersWere, TC!Gone
    <3>2. lists[m].held = TC!Now /\ history[TC!Now] \in TC!Lists
      BY <1>0, <1>1, <2>2, <3>1, VersionNumbers DEF TC!AnswersWere
    <3> QED
      BY <2>2, <3>1, <3>2 DEF TC!Lists
  <2>3. ASSUME NEW m \in TC!Lists, landed[m].held = TC!Now, history[TC!Now] # m
        PROVE  /\ own.pc # "written" /\ landed[history[TC!Now]].held # TC!Unread
               /\ own.pc = "idle" => /\ landed[history[TC!Now]].query = "idle"
                                     /\ landed[history[TC!Now]].held = TC!Now
    BY <1>0, <1>1, <2>0, <2>2, <2>3 DEF TC!MovedForAWhile
  <2> QED
    BY <2>1, <2>3 DEF Moved
<1>3. TC!HeardAny => TC!Heard \in {TC!Gone} \cup TC!Versions /\ TC!Heard <= TC!Now
  BY <1>0, VersionNumbers DEF TC!HeardAny, TC!Heard, TC!TypeOK, TC!AnswersWere, TC!Gone
<1>4. lists' \in [TC!Lists -> TC!ListType] /\ ListsWere(lists') /\ Moved(lists', own.pc)
  BY <1>0, <1>1, <1>2, <1>3, PlacedIs, PlacedWas, PlacedMoved, VersionNumbers
<1>5. TC!TypeOK'
  BY <1>0, <1>1, <1>4 DEF TC!TypeOK, TC!BeingRead, TC!Now
<1>6. TC!AnswersWere' /\ TC!MovedForAWhile'
  BY <1>0, <1>4 DEF TC!AnswersWere, ListsWere, Moved, TC!MovedForAWhile, TC!Now, TC!Live,
                    TC!Fetching
<1>7. /\ TC!Known' <=> TC!Known
      /\ TC!DeleteIsNews' <=> TC!DeleteIsNews
      /\ \A r \in reads : TC!WillTell(r) => TC!WillTell(r)'
      /\ TC!Promised => TC!Promised'
  BY <1>0 DEF TC!Known, TC!DeleteIsNews, TC!WillTell, TC!Promised, TC!Live, TC!Now, TC!Outdated
<1>8. \A m \in TC!Lists : lists'[m].query = landed[m].query /\ lists'[m].answer = landed[m].answer
  BY <1>1, <1>3, PlacedIs
<1>9. CASE l \in pending /\ TC!HeardAny
  <2>1. /\ lists' = TC!Placed(landed, TC!Heard) /\ pending' = (pending \ {l}) \cup TC!BeingRead(landed)
        /\ ~TC!OnlyLists
    BY <1>1, <1>9 DEF TC!OnlyLists
  <2>2. TC!Known \/ heard.gone => TC!ListsWillShow'
    <3> SUFFICES ASSUME TC!Known \/ heard.gone, NEW m \in TC!Lists,
                        own.pc \in {"idle", "written"} \/ lists'[m].held = TC!Unread
                 PROVE  TC!WillShow(m)'
      BY <1>0 DEF TC!ListsWillShow
    <3>1. TC!Heard = TC!Now \/ (TC!Heard = TC!Gone /\ ~TC!Live(TC!Now))
      BY <1>0 DEF TC!Known, TC!Heard, TC!AnswersWere
    <3>2. landed[m].query \in {"idle", "asked", "answered"}
      BY <1>1, ListHas
    <3>3. CASE landed[m].query = "answered"
      BY <1>8, <2>1, <3>3 DEF TC!WillShow, TC!BeingRead
    <3>4. CASE landed[m].query = "asked"
      BY <1>8, <3>4 DEF TC!WillShow
    <3>5. CASE landed[m].query = "idle"
      <4>1. lists'[m].held # TC!Unread
        BY <1>4, <1>8, <3>5 DEF ListsWere
      <4>2. ShownIn(lists', m)
        BY <1>0, <1>2, <1>3, <1>9, <2>1, <3>1, <3>5, <4>1, PlaceTruth
      <4> QED
        BY <1>0, <1>8, <3>5, <4>2 DEF TC!WillShow, ShownIn, TC!Right, TC!Now
    <3> QED
      BY <3>2, <3>3, <3>4, <3>5
  <2> QED
    BY <1>5, <1>6, <1>7, <1>0, <2>1, <2>2 DEF TC!IInv, TC!KnownWillShow, TC!NewestWillShow
<1>10. CASE ~(l \in pending /\ TC!HeardAny)
  <2>1. lists' = landed /\ pending' = pending \ {l} /\ (TC!OnlyLists => TC!OnlyLists')
    BY <1>0, <1>1, <1>10 DEF TC!OnlyLists
  <2>2. (TC!Known \/ heard.gone \/ TC!OnlyLists) => l \notin pending
    <3>1. TC!Known \/ heard.gone => TC!HeardAny
      BY <1>0, VersionNumbers DEF TC!Known, TC!HeardAny
    <3> QED
      BY <1>10, <3>1 DEF TC!OnlyLists
  <2>3. ASSUME TC!ListsWillShow, l \notin pending
        PROVE  TC!ListsWillShow'
    <3> SUFFICES ASSUME NEW m \in TC!Lists,
                        own.pc \in {"idle", "written"} \/ landed[m].held = TC!Unread
                 PROVE  TC!WillShow(m)'
      BY <1>0, <2>1 DEF TC!ListsWillShow
    <3>1. CASE m = l
      <4>1. landed[l].held # TC!Unread
        BY <1>1, <1>2 DEF ListsWere
      <4>2. TC!WillShow(l)
        BY <2>3, <3>1, <4>1 DEF TC!ListsWillShow
      <4>3. landed[l].held = TC!Right(l)
        BY <1>0, <1>1, <2>3, <4>2 DEF TC!WillShow
      <4> QED
        BY <1>0, <1>1, <2>1, <3>1, <4>3 DEF TC!WillShow, TC!Right, TC!Now
    <3>2. CASE m # l
      <4>1. TC!WillShow(m) /\ landed[m] = lists[m]
        BY <1>1, <2>3, <3>2 DEF TC!ListsWillShow
      <4> QED
        BY <1>0, <2>1, <3>2, <4>1 DEF TC!WillShow, TC!Right, TC!Now
    <3> QED
      BY <3>1, <3>2
  <2>4. TC!KnownWillShow'
    BY <1>0, <1>7, <2>2, <2>3 DEF TC!IInv, TC!KnownWillShow
  <2>5. TC!NewestWillShow'
    BY <1>0, <1>7, <2>1, <2>2, <2>3 DEF TC!IInv, TC!NewestWillShow
  <2> QED
    BY <1>5, <1>6, <1>7, <2>4, <2>5 DEF TC!IInv
<1> QED
  BY <1>9, <1>10

LEMMA TaskCacheInit ==
    ASSUME TC!TaskCacheAssumption, TC!Init
    PROVE  TC!IInv
<1>0. /\ history = <<"open">> /\ pushed = 1 /\ clock = 0 /\ pending = {} /\ gathered = TC!Nothing
      /\ reads = {} /\ own = TC!NoWrite /\ crossed = 0 /\ losses = 0
      /\ lists = [l \in TC!Lists |-> [held |-> TC!Unread, query |-> "asked", answer |-> TC!Unread]]
      /\ heard = [version |-> 0, since |-> 0, gone |-> FALSE]
  BY DEF TC!Init
<1>1. /\ history \in Seq(TC!Statuses) /\ TC!Now = 1 /\ history[TC!Now] = "open" /\ 1 \in TC!Versions
      /\ own.pc = "idle" /\ 0 \in 0..MaxLosses /\ TC!Live(TC!Now)
  BY <1>0 DEF TC!Now, TC!Statuses, TC!Lists, TC!Versions, TC!NoWrite, TC!Live,
              TC!TaskCacheAssumption
<1>2. /\ lists \in [TC!Lists -> TC!ListType]
      /\ \A l \in TC!Lists : lists[l].held = TC!Unread /\ lists[l].query = "asked"
  <2>1. PICK c \in TC!ListType : c = [held |-> TC!Unread, query |-> "asked", answer |-> TC!Unread]
    BY ListOf DEF TC!Answer
  <2>2. c.held = TC!Unread /\ c.query = "asked" /\ lists = [l \in TC!Lists |-> c]
    BY <1>0, <2>1
  <2> QED
    BY <2>2
<1>3. TC!TypeOK
  BY <1>0, <1>1, <1>2 DEF TC!TypeOK
<1>4. TC!AnswersWere
  BY <1>0, <1>1, <1>2 DEF TC!AnswersWere, TC!Fetching, TC!Unread, TC!Nothing
<1>5. TC!DeleteIsNews
  BY <1>1 DEF TC!DeleteIsNews
<1>6. TC!MovedForAWhile
  BY <1>1, <1>2 DEF TC!MovedForAWhile, TC!Unread
<1>7. TC!ListsWillShow /\ TC!OnlyLists
  BY <1>0, <1>1, <1>2 DEF TC!ListsWillShow, TC!WillShow, TC!OnlyLists
<1> QED
  BY <1>3, <1>4, <1>5, <1>6, <1>7 DEF TC!IInv, TC!KnownWillShow, TC!NewestWillShow

LEMMA TaskCacheNext ==
    ASSUME TC!TaskCacheAssumption, TC!IInv, [TC!Next]_(TC!vars)
    PROVE  TC!IInv'
<1>1. CASE TC!Next
  BY <1>1, AnswersKeeps, LandsKeeps, RefetchKeeps, HintKeeps, FlushKeeps, ReadAnswersKeeps,
     ReadLandsKeeps, ReadFailsKeeps, OtherWritesKeeps, StartKeeps, CommitsKeeps, AnsweredKeeps,
     RefusedKeeps DEF TC!Next
<1>2. CASE UNCHANGED TC!vars
  <2>1. UNCHANGED <<history, pushed, lists, heard, clock, pending, gathered, reads, own, crossed, losses>>
    BY <1>2 DEF TC!vars
  <2>2. TC!TypeOK' /\ TC!AnswersWere' /\ TC!DeleteIsNews' /\ TC!MovedForAWhile'
    BY <2>1 DEF TC!IInv, TC!TypeOK, TC!AnswersWere, TC!DeleteIsNews, TC!MovedForAWhile, TC!Now,
                TC!Live, TC!Outdated, TC!Fetching
  <2>3. /\ TC!Known' <=> TC!Known
        /\ TC!ListsWillShow' <=> TC!ListsWillShow
        /\ TC!OnlyLists' <=> TC!OnlyLists
        /\ TC!Promised' <=> TC!Promised
        /\ \A r \in reads : TC!WillTell(r)' <=> TC!WillTell(r)
    BY <2>1 DEF TC!Known, TC!ListsWillShow, TC!WillShow, TC!OnlyLists, TC!Promised, TC!WillTell,
                TC!Now, TC!Live, TC!Outdated, TC!Right
  <2>4. TC!KnownWillShow'
    BY <2>1, <2>3 DEF TC!IInv, TC!KnownWillShow
  <2>5. TC!NewestWillShow'
    BY <2>1, <2>3 DEF TC!IInv, TC!NewestWillShow
  <2> QED
    BY <2>2, <2>4, <2>5 DEF TC!IInv
<1> QED
  BY <1>1, <1>2

\* The lists, the ledger and what is on its way keep what IInv says (ledger.ts,
\* taskCache.ts, hints.ts).
THEOREM TaskCacheInvariant ==
    ASSUME TC!TaskCacheAssumption
    PROVE  TC!Spec => []TC!IInv
<1>1. TC!Init => TC!IInv
  BY TaskCacheInit
<1>2. TC!IInv /\ [TC!Next]_(TC!vars) => TC!IInv'
  BY TaskCacheNext
<1> QED
  BY <1>1, <1>2, PTL DEF TC!Spec

\* At rest nothing is promised, so the lists show what they will show.
LEMMA ShownAtRest ==
    ASSUME TC!TaskCacheAssumption, TC!IInv
    PROVE  TC!ListsShowNewest
<1> SUFFICES ASSUME TC!AtRest, crossed # TC!Now
             PROVE  IF history[TC!Now] \in TC!Lists
                    THEN lists[history[TC!Now]].held = TC!Now
                    ELSE \A l \in TC!Lists : lists[l].held = TC!Gone
  BY DEF TC!ListsShowNewest
<1>1. /\ pushed = TC!Now /\ gathered = TC!Nothing /\ reads = {} /\ own.pc = "idle" /\ TC!Now \in TC!Versions
      /\ \A l \in TC!Lists : lists[l].query = "idle"
  BY OfLists, ListHas DEF TC!AtRest, TC!Fetching, TC!IInv
<1>2. TC!ListsWillShow
  <2>1. ~TC!Promised
    BY <1>1, VersionNumbers DEF TC!Promised
  <2> QED
    BY <1>1, <2>1 DEF TC!IInv, TC!KnownWillShow, TC!NewestWillShow
<1>3. \A l \in TC!Lists : lists[l].held = TC!Right(l) \/ (history[TC!Now] \in TC!Lists /\ history[TC!Now] # l)
  BY <1>1, <1>2 DEF TC!ListsWillShow, TC!WillShow
<1> QED
  BY <1>3 DEF TC!Right

\* Once nothing is on its way the lists show the newest version of the task, but for
\* one whose news an older answer crossed (readCollections, admit, admitGone): with
\* any number of writes, reads and losses.
THEOREM ListsShowHolds ==
    ASSUME TC!TaskCacheAssumption
    PROVE  TC!Spec => []TC!ListsShowNewest
<1>1. TC!IInv => TC!ListsShowNewest
  BY ShownAtRest
<1> QED
  BY <1>1, TaskCacheInvariant, PTL
=============================================================================
