---------------------------- MODULE LeasesProofs ----------------------------
(***************************************************************************)
(* TLAPS proofs about Leases: its invariants and action properties, for    *)
(* any resources, requests, callers, lengths, windows and moves, and for   *)
(* every margin that outlasts the slowest holder's clock.                  *)
(***************************************************************************)
EXTENDS Leases, SequenceTheorems, WellFoundedInduction, TLAPS

-----------------------------------------------------------------------------
(* Numbers, lengths, places.                                               *)

LEMMA Numbers ==
    /\ Margin \in Nat /\ Skew \in Nat /\ Lag \in Nat /\ OfferTries \in Nat /\ MaxMoves \in Nat
    /\ None \notin Requests /\ None \notin Resources
    /\ Names \in [Requests -> Resources \cup {None}]
    /\ Term \in [Requests -> Nat \ {0}] /\ Window \in [Requests -> Nat]
    /\ Wait \in [Requests -> Nat]
    /\ Bounds \subseteq Nat \ {0} /\ Named \subseteq Nat \ {0} /\ Sweepers \subseteq Callers
    /\ 0 \in 0..Lag
BY LeasesAssumption

\* A bound cuts a length to another of the request's.
LEMMA LengthsAre ==
    ASSUME NEW q \in Requests
    PROVE  /\ Lengths(q) \subseteq Nat \ {0}
           /\ \A b \in Bounds : TermOf(q, b) \in Lengths(q)
           /\ \A n \in Lengths(q) \cup Named, b \in Bounds : RenewalOf(n, b) \in Lengths(q)
<1>1. Term[q] \in Nat \ {0}
  BY Numbers
<1>2. Lengths(q) \subseteq Nat \ {0}
  BY <1>1, Numbers DEF Lengths
<1>3. ASSUME NEW n \in Named \cup {Term[q]}, NEW b \in Bounds
      PROVE  Lesser(n, b) \in Lengths(q)
  <2>1. n \in Nat /\ b \in Nat
    BY <1>1, Numbers
  <2>2. Lesser(n, b) = IF n < b THEN n ELSE b
    BY <2>1 DEF Lesser
  <2> QED BY <2>2 DEF Lengths
<1>4. \A b \in Bounds : TermOf(q, b) \in Lengths(q)
  BY <1>3 DEF TermOf
<1>5. ASSUME NEW n \in Lengths(q), NEW b \in Bounds PROVE RenewalOf(n, b) \in Lengths(q)
  <2>1. PICK m \in Named \cup {Term[q]}, a \in Bounds : n = IF m < a THEN m ELSE a
    BY DEF Lengths
  <2>2. m \in Nat /\ a \in Nat /\ b \in Nat
    BY <1>1, Numbers
  <2>3. Lesser(n, b) = IF m < Lesser(a, b) THEN m ELSE Lesser(a, b)
    BY <2>1, <2>2 DEF Lesser
  <2>4. Lesser(a, b) \in Bounds
    BY DEF Lesser
  <2> QED BY <2>3, <2>4 DEF Lengths, RenewalOf
<1> QED BY <1>2, <1>3, <1>4, <1>5 DEF RenewalOf

\* The least of some places is one of them.
LEMMA LeastPlace ==
    ASSUME NEW P, P \subseteq Nat, P # {}
    PROVE  Min(P) \in P
<1>1. \E x \in P : \A y \in P : ~(<<y, x>> \in OpToRel(<, Nat))
  BY NatLessThanWellFounded, WFMin
<1>2. PICK x \in P : \A y \in P : ~(<<y, x>> \in OpToRel(<, Nat))
  BY <1>1
<1>3. ASSUME NEW y \in P PROVE x <= y
  <2>1. ~(y < x)
    BY <1>2 DEF OpToRel
  <2> QED BY <2>1
<1> QED BY <1>3 DEF Min

InLine(s, q) == \E i \in 1..Len(s) : s[i] = q
Once(s) == \A i, j \in 1..Len(s) : i # j => s[i] # s[j]

\* Who leaves the line leaves the others in it.
LEMMA RemovesOne ==
    ASSUME NEW S, NEW s \in Seq(S), Once(s), NEW q
    PROVE  /\ RemoveFirst(s, q) \in Seq(S) /\ Once(RemoveFirst(s, q))
           /\ \A p : InLine(RemoveFirst(s, q), p) <=> InLine(s, p) /\ p # q
           /\ Len(RemoveFirst(s, q)) = IF InLine(s, q) THEN Len(s) - 1 ELSE Len(s)
<1>1. CASE ~InLine(s, q)
  BY <1>1 DEF RemoveFirst, InLine
<1>2. CASE InLine(s, q)
  <2> DEFINE P == {i \in 1..Len(s) : s[i] = q}
             k == Min(P)
             t == RemoveFirst(s, q)
  <2>1. P # {} /\ P \subseteq Nat
    BY <1>2 DEF InLine
  <2>2. k \in P
    BY <2>1, LeastPlace
  <2>3. t = RemoveAt(s, k)
    BY <1>2, <2>1 DEF RemoveFirst, SelectInSeq, InLine
  <2> HIDE DEF k
  <2>4. k \in 1..Len(s) /\ s[k] = q /\ Len(s) \in Nat
    BY <2>2
  <2> HIDE DEF t, P
  <2> DEFINE before == SubSeq(s, 1, k - 1)
             after == SubSeq(s, k + 1, Len(s))
  <2>5. /\ before \in Seq(S) /\ Len(before) = k - 1
        /\ \A i \in 1..(k - 1) : before[i] = s[i]
    BY <2>4, SubSeqProperties
  <2>6. /\ after \in Seq(S) /\ Len(after) = Len(s) - k
        /\ \A i \in 1..(Len(s) - k) : after[i] = s[i + k]
    BY <2>4, SubSeqProperties
  <2>7. t = before \o after
    BY <2>3 DEF RemoveAt
  <2> HIDE DEF before, after
  <2>8. t \in Seq(S) /\ Len(t) = Len(s) - 1
    <3>1. t \in Seq(S) /\ Len(t) = Len(before) + Len(after)
      BY <2>5, <2>6, <2>7, ConcatProperties
    <3> QED BY <2>4, <2>5, <2>6, <3>1
  <2>9. \A i \in 1..(Len(s) - 1) : t[i] = IF i < k THEN s[i] ELSE s[i + 1]
    <3> SUFFICES ASSUME NEW i \in 1..(Len(s) - 1)
                 PROVE  t[i] = IF i < k THEN s[i] ELSE s[i + 1]
      OBVIOUS
    <3>1. t[i] = IF i <= Len(before) THEN before[i] ELSE after[i - Len(before)]
      BY <2>4, <2>5, <2>6, <2>7, ConcatProperties
    <3>2. CASE i < k
      BY <2>4, <2>5, <3>1, <3>2
    <3>3. CASE i >= k
      <4>1. i - (k - 1) \in 1..(Len(s) - k)
        BY <2>4, <3>3
      <4>2. after[i - (k - 1)] = s[i - (k - 1) + k]
        BY <2>6, <4>1
      <4>3. i - (k - 1) + k = i + 1
        BY <2>4
      <4> QED BY <2>4, <2>5, <3>1, <3>3, <4>2, <4>3
    <3> QED BY <2>4, <3>2, <3>3
  <2>10. Once(t)
    <3> SUFFICES ASSUME NEW i \in 1..Len(t), NEW j \in 1..Len(t), i # j PROVE t[i] # t[j]
      BY DEF Once
    <3> DEFINE f(n) == IF n < k THEN n ELSE n + 1
    <3>1. f(i) \in 1..Len(s) /\ f(j) \in 1..Len(s) /\ f(i) # f(j)
      BY <2>4, <2>8
    <3>2. t[i] = s[f(i)] /\ t[j] = s[f(j)]
      BY <2>8, <2>9
    <3> HIDE DEF f
    <3> QED BY <3>1, <3>2 DEF Once
  <2>11. ASSUME NEW p PROVE InLine(t, p) <=> InLine(s, p) /\ p # q
    <3>1. ASSUME NEW i \in 1..Len(s), i # k, s[i] = p PROVE InLine(t, p)
      <4>1. CASE i < k
        <5>1. i \in 1..Len(t) /\ t[i] = p
          BY <2>4, <2>8, <2>9, <3>1, <4>1
        <5> QED BY <5>1 DEF InLine
      <4>2. CASE i > k
        <5>1. i - 1 \in 1..Len(t) /\ i - 1 \in 1..(Len(s) - 1) /\ ~(i - 1 < k) /\ (i - 1) + 1 = i
          BY <2>4, <2>8, <4>2
        <5>2. t[i - 1] = s[(i - 1) + 1]
          BY <2>9, <5>1
        <5> QED BY <3>1, <5>1, <5>2 DEF InLine
      <4> QED BY <2>4, <3>1, <4>1, <4>2
    <3>2. ASSUME NEW i \in 1..Len(t), t[i] = p PROVE InLine(s, p) /\ p # q
      <4> DEFINE j == IF i < k THEN i ELSE i + 1
      <4>1. j \in 1..Len(s) /\ j # k
        BY <2>4, <2>8
      <4>2. s[j] = p
        BY <2>8, <2>9, <3>2
      <4> HIDE DEF j
      <4> QED BY <2>4, <4>1, <4>2 DEF InLine, Once
    <3> QED BY <2>4, <3>1, <3>2 DEF InLine
  <2> QED BY <1>2, <2>8, <2>10, <2>11 DEF t
<1> QED BY <1>1, <1>2

\* Who is put in the line stands in it beside the others.
LEMMA InsertsOne ==
    ASSUME NEW S, NEW s \in Seq(S), Once(s), NEW q \in S, ~InLine(s, q),
           NEW i \in 1..(Len(s) + 1)
    PROVE  /\ InsertAt(s, i, q) \in Seq(S) /\ Once(InsertAt(s, i, q))
           /\ \A p : InLine(InsertAt(s, i, q), p) <=> InLine(s, p) \/ p = q
<1> DEFINE t == InsertAt(s, i, q)
           before == SubSeq(s, 1, i - 1)
           one == <<q>>
           after == SubSeq(s, i, Len(s))
<1>1. Len(s) \in Nat /\ i \in Nat /\ 1 <= i /\ i <= Len(s) + 1
  OBVIOUS
<1>2. /\ before \in Seq(S) /\ Len(before) = i - 1
      /\ \A j \in 1..(i - 1) : before[j] = s[j]
  BY <1>1, SubSeqProperties
<1>3. /\ after \in Seq(S) /\ Len(after) = Len(s) - i + 1
      /\ \A j \in 1..(Len(s) - i + 1) : after[j] = s[i + j - 1]
  BY <1>1, SubSeqProperties
<1>4. one \in Seq(S) /\ Len(one) = 1 /\ one[1] = q
  OBVIOUS
<1>5. t = (before \o one) \o after
  BY DEF InsertAt
<1> HIDE DEF t, before, one, after
<1> DEFINE front == before \o one
<1>6. /\ front \in Seq(S) /\ Len(front) = Len(before) + Len(one)
      /\ \A j \in 1..(Len(before) + Len(one)) :
            front[j] = IF j <= Len(before) THEN before[j] ELSE one[j - Len(before)]
  BY <1>2, <1>4, ConcatProperties
<1>7. t = front \o after
  BY <1>5
<1> HIDE DEF front
<1>8. /\ t \in Seq(S) /\ Len(t) = Len(front) + Len(after)
      /\ \A j \in 1..(Len(front) + Len(after)) :
            t[j] = IF j <= Len(front) THEN front[j] ELSE after[j - Len(front)]
  <2>1. front \in Seq(S) /\ after \in Seq(S)
    BY <1>3, <1>6
  <2>2. /\ front \o after \in Seq(S)
        /\ Len(front \o after) = Len(front) + Len(after)
        /\ \A j \in 1..(Len(front) + Len(after)) :
              (front \o after)[j] =
                 IF j <= Len(front) THEN front[j] ELSE after[j - Len(front)]
    BY <2>1, ConcatProperties
  <2> QED BY <1>7, <2>2
<1>9. Len(front) = i /\ Len(t) = Len(s) + 1
  <2>1. Len(before) = i - 1 /\ Len(one) = 1 /\ Len(after) = Len(s) - i + 1
    BY <1>2, <1>3, <1>4
  <2>2. Len(front) = Len(before) + Len(one) /\ Len(t) = Len(front) + Len(after)
    BY <1>6, <1>8
  <2> QED BY <1>1, <2>1, <2>2
<1>10. ASSUME NEW j \in 1..(i - 1) PROVE t[j] = s[j]
  <2>1. j \in 1..(Len(front) + Len(after)) /\ j <= Len(front)
    BY <1>1, <1>3, <1>9
  <2>2. j \in 1..(Len(before) + Len(one)) /\ j <= Len(before)
    BY <1>1, <1>2, <1>4
  <2> QED BY <1>2, <1>6, <1>8, <2>1, <2>2
<1>11. t[i] = q
  <2>1. i \in 1..(Len(front) + Len(after)) /\ i <= Len(front)
    BY <1>1, <1>3, <1>9
  <2>2. i \in 1..(Len(before) + Len(one)) /\ ~(i <= Len(before)) /\ i - Len(before) = 1
    BY <1>1, <1>2, <1>4
  <2> QED BY <1>4, <1>6, <1>8, <2>1, <2>2
<1>12. ASSUME NEW j \in (i + 1)..(Len(s) + 1) PROVE t[j] = s[j - 1]
  <2>1. j \in 1..(Len(front) + Len(after)) /\ ~(j <= Len(front)) /\ j - Len(front) = j - i
    BY <1>1, <1>3, <1>9
  <2>2. j - i \in 1..(Len(s) - i + 1) /\ i + (j - i) - 1 = j - 1
    BY <1>1
  <2>3. t[j] = after[j - i]
    BY <1>8, <2>1
  <2>4. after[j - i] = s[i + (j - i) - 1]
    BY <1>3, <2>2
  <2> QED BY <2>2, <2>3, <2>4
<1>13. Once(t)
  <2> SUFFICES ASSUME NEW j \in 1..Len(t), NEW k \in 1..Len(t), j # k, t[j] = t[k] PROVE FALSE
    BY DEF Once
  <2> DEFINE f(n) == IF n < i THEN n ELSE n - 1
  <2>1. ASSUME NEW n \in 1..Len(t), n # i PROVE f(n) \in 1..Len(s) /\ t[n] = s[f(n)]
    <3>1. CASE n < i
      BY <1>1, <1>9, <1>10, <2>1, <3>1
    <3>2. CASE n > i
      <4>1. n \in (i + 1)..(Len(s) + 1) /\ f(n) = n - 1
        BY <1>1, <1>9, <2>1, <3>2
      <4> QED BY <1>1, <1>12, <4>1
    <3> QED BY <1>1, <2>1, <3>1, <3>2
  <2>2. f(j) = f(k) => j = k \/ j = i \/ k = i
    BY <1>1, <1>9
  <2> HIDE DEF f
  <2>3. CASE j = i
    BY <1>11, <2>1, <2>3 DEF InLine
  <2>4. CASE k = i
    BY <1>11, <2>1, <2>4 DEF InLine
  <2>5. CASE j # i /\ k # i
    BY <2>1, <2>2, <2>5 DEF Once
  <2> QED BY <2>3, <2>4, <2>5
<1>14. ASSUME NEW p PROVE InLine(t, p) <=> InLine(s, p) \/ p = q
  <2>1. ASSUME NEW j \in 1..Len(t), t[j] = p PROVE InLine(s, p) \/ p = q
    <3>1. CASE j < i
      <4>1. j \in 1..(i - 1) /\ j \in 1..Len(s)
        BY <1>1, <1>9, <3>1
      <4> QED BY <1>10, <2>1, <4>1 DEF InLine
    <3>2. CASE j = i
      BY <1>11, <2>1, <3>2
    <3>3. CASE j > i
      <4>1. j \in (i + 1)..(Len(s) + 1) /\ j - 1 \in 1..Len(s)
        BY <1>1, <1>9, <3>3
      <4> QED BY <1>12, <2>1, <4>1 DEF InLine
    <3> QED BY <1>1, <1>9, <3>1, <3>2, <3>3
  <2>2. ASSUME NEW j \in 1..Len(s), s[j] = p PROVE InLine(t, p)
    <3>1. CASE j < i
      <4>1. j \in 1..(i - 1) /\ j \in 1..Len(t)
        BY <1>1, <1>9, <3>1
      <4> QED BY <1>10, <2>2, <4>1 DEF InLine
    <3>2. CASE j >= i
      <4>1. j + 1 \in (i + 1)..(Len(s) + 1) /\ j + 1 \in 1..Len(t) /\ (j + 1) - 1 = j
        BY <1>1, <1>9, <3>2
      <4>2. t[j + 1] = s[(j + 1) - 1]
        BY <1>12, <4>1
      <4> QED BY <2>2, <4>1, <4>2 DEF InLine
    <3> QED BY <1>1, <3>1, <3>2
  <2>3. InLine(t, q)
    <3>1. i \in 1..Len(t)
      BY <1>1, <1>9
    <3> QED BY <1>11, <3>1 DEF InLine
  <2> QED BY <2>1, <2>2, <2>3 DEF InLine
<1> QED BY <1>8, <1>13, <1>14 DEF t

-----------------------------------------------------------------------------
(* The invariant in three parts: the line, the rows, the calls.            *)

LineFine ==
    /\ requests \in [Requests -> RequestRow] /\ line \in Seq(Requests)
    /\ LineIsWaiting /\ ParkedStillWaits

RowsFine ==
    /\ anchors \in [Resources -> AnchorRow] /\ leases \in [Requests -> LeaseRow]
    /\ acting \in [Requests -> Int]
    /\ AnchorsAreSound /\ LeasesAreSound /\ AnchorNames /\ TokensDiffer

CallsFine == calls \in [Callers -> CallRow] /\ CallsAreSound

LEMMA Parts ==
    /\ IInv <=> /\ LineFine /\ RowsFine /\ CallsFine /\ moves \in 0..MaxMoves
                /\ undercut \subseteq Requests
    /\ IInv' <=> /\ LineFine' /\ RowsFine' /\ CallsFine' /\ (moves \in 0..MaxMoves)'
                 /\ (undercut \subseteq Requests)'
BY DEF IInv, TypeOK, LineFine, RowsFine, CallsFine

\* Each part is about variables of its own.
LEMMA Stays ==
    /\ LineFine /\ UNCHANGED <<requests, line>> => LineFine'
    /\ RowsFine /\ UNCHANGED <<anchors, leases, acting>> => RowsFine'
    /\ CallsFine /\ UNCHANGED calls => CallsFine'
    /\ moves \in 0..MaxMoves /\ UNCHANGED moves => (moves \in 0..MaxMoves)'
    /\ moves \in 0..MaxMoves /\ Move => (moves \in 0..MaxMoves)'
<1>1. LineFine /\ UNCHANGED <<requests, line>> => LineFine'
  BY DEF LineFine, LineIsWaiting, ParkedStillWaits, Waiting
<1>2. RowsFine /\ UNCHANGED <<anchors, leases, acting>> => RowsFine'
  BY DEF RowsFine, AnchorsAreSound, LeasesAreSound, AnchorNames, TokensDiffer, Acting
<1>3. CallsFine /\ UNCHANGED calls => CallsFine'
  BY DEF CallsFine, CallsAreSound
<1>4. moves \in 0..MaxMoves /\ Move => (moves \in 0..MaxMoves)'
  BY Numbers DEF Move
<1> QED BY <1>1, <1>2, <1>3, <1>4

-----------------------------------------------------------------------------
(* Calls.                                                                  *)

\* A call that may stand in the table.
Fine(k) == k \in CallRow /\ CallIsSound(k)

LEMMA CallMoves ==
    ASSUME CallsFine, NEW c \in Callers, NEW k, Fine(k), calls' = [calls EXCEPT ![c] = k]
    PROVE  CallsFine'
BY DEF CallsFine, CallsAreSound, Fine

LEMMA IdleIsFine == Fine(Idle)
BY Numbers DEF Fine, Idle, Call, CallRow, CallIsSound

LEMMA OfferingIsFine ==
    ASSUME NEW r \in Resources, NEW todo \in SUBSET Resources, NEW tries \in Nat,
           NEW park \in Requests \cup {None}
    PROVE  Fine(Call("offering", r, None, todo, tries, park))
BY Numbers DEF Fine, Call, CallRow, CallIsSound

LEMMA AfterIsFine ==
    ASSUME NEW todo \in SUBSET Resources, NEW park \in Requests \cup {None},
           NEW k \in After(todo, park)
    PROVE  Fine(k)
<1>1. CASE todo # {}
  <2>1. PICK r \in todo : k = Call("offering", r, None, todo \ {r}, 0, park)
    BY <1>1 DEF After
  <2> QED BY <2>1, OfferingIsFine
<1>2. CASE todo = {} /\ park # None
  <2>1. k = Call("parking", None, None, {}, 0, park)
    BY <1>2 DEF After
  <2> QED BY <1>2, <2>1, Numbers DEF Fine, Call, CallRow, CallIsSound
<1>3. CASE todo = {} /\ park = None
  BY <1>3, IdleIsFine DEF After
<1> QED BY <1>1, <1>2, <1>3

\* The call's fields, whatever the call does.
LEMMA CallFields ==
    ASSUME CallsFine, NEW c \in Callers
    PROVE  /\ Fine(calls[c])
           /\ calls[c].todo \in SUBSET Resources /\ calls[c].park \in Requests \cup {None}
           /\ calls[c].tries \in Nat /\ calls[c].age \in 0..Lag /\ calls[c].term \in Nat
           /\ calls[c].left \in Int /\ calls[c].token \in Nat
<1>1. Fine(calls[c])
  BY DEF CallsFine, CallsAreSound, Fine
<1>2. ASSUME NEW k, Fine(k)
      PROVE  /\ k.todo \in SUBSET Resources /\ k.park \in Requests \cup {None}
             /\ k.tries \in Nat /\ k.age \in 0..Lag /\ k.term \in Nat
             /\ k.left \in Int /\ k.token \in Nat
  BY <1>2 DEF Fine, CallRow
<1> QED BY <1>1, <1>2

LEMMA CallLeaves ==
    ASSUME CallsFine, NEW c \in Callers, Leaves(c)
    PROVE  CallsFine'
BY CallFields, AfterIsFine, CallMoves DEF Leaves

LEMMA CallRepeats ==
    ASSUME CallsFine, NEW c \in Callers, Again(c),
           calls[c].pc \in {"offering", "granting", "ending"}
    PROVE  CallsFine'
<1> DEFINE k == calls[c]
           n == Call("offering", k.res, None, k.todo, k.tries + 1, k.park)
<1>1. k.res \in Resources
  BY CallFields DEF Fine, CallIsSound
<1>2. k.tries + 1 \in Nat
  BY CallFields
<1>3. Fine(n)
  BY <1>1, <1>2, CallFields, OfferingIsFine
<1>4. calls' = [calls EXCEPT ![c] = n]
  BY DEF Again
<1> QED BY <1>3, <1>4, CallMoves

LEMMA OnLeaseIsFine ==
    ASSUME NEW q \in Requests, NEW pc \in {"renewing", "starting"}, NEW left \in Lengths(q),
           pc = "starting" => Window[q] > 0
    PROVE  Fine(OnLease(pc, q, left))
<1>1. left \in Int
  BY LengthsAre
<1> DEFINE k == [Call(pc, None, q, {}, 0, None) EXCEPT !.left = left]
<1>2. k = [pc |-> pc, res |-> None, req |-> q, todo |-> {}, tries |-> 0, park |-> None,
           token |-> 0, term |-> 0, left |-> left, age |-> 0]
  BY DEF Call
<1> HIDE DEF k
<1>3. Fine(k)
  BY <1>1, <1>2, Numbers DEF Fine, CallRow, CallIsSound
<1> QED BY <1>3 DEF k, OnLease

-----------------------------------------------------------------------------
(* The line.                                                               *)

LEMMA LineWords ==
    /\ LineIsWaiting <=> Once(line) /\ \A q \in Requests : Waiting(q) <=> InLine(line, q)
    /\ LineIsWaiting' <=> Once(line') /\ \A q \in Requests : Waiting(q)' <=> InLine(line', q)
BY DEF LineIsWaiting, Once, InLine

\* A request that leaves its line is told, or was never parked.
LEMMA SettleKeepsLine ==
    ASSUME LineFine, NEW q \in Requests, NEW row \in RequestRow,
           row.status # "waiting", row.waiter # "parked",
           requests' = [requests EXCEPT ![q] = row], line' = RemoveFirst(line, q)
    PROVE  LineFine'
<1>1. row \in RequestRow /\ row.status # "waiting" /\ row.waiter # "parked"
  OBVIOUS
<1>2. requests' = [requests EXCEPT ![q] = row] /\ requests \in [Requests -> RequestRow]
  BY DEF LineFine
<1>3. requests' \in [Requests -> RequestRow]
  BY <1>1, <1>2
<1>4. \A p \in Requests : requests'[p] = IF p = q THEN row ELSE requests[p]
  BY <1>2
<1>5. line \in Seq(Requests) /\ Once(line)
      /\ \A p \in Requests : Waiting(p) <=> InLine(line, p)
  BY LineWords DEF LineFine
<1>6. line' \in Seq(Requests) /\ Once(line')
      /\ \A p : InLine(line', p) <=> InLine(line, p) /\ p # q
  BY <1>5, RemovesOne
<1>7. \A p \in Requests : Waiting(p)' <=> InLine(line', p)
  BY <1>1, <1>4, <1>5, <1>6 DEF Waiting
<1>8. ParkedStillWaits'
  BY <1>1, <1>4 DEF LineFine, ParkedStillWaits, Waiting
<1> QED BY <1>3, <1>6, <1>7, <1>8, LineWords DEF LineFine

LEMMA SettledRow ==
    ASSUME NEW status \in {"granted", "cancelled", "expired"}, NEW waiter \in {"none", "told", "gone"}
    PROVE  LET row == Request(status, 0, waiter)
           IN row \in RequestRow /\ row.status # "waiting" /\ row.waiter # "parked"
BY DEF Request, RequestRow

LEMMA ToldIs ==
    ASSUME LineFine, NEW q \in Requests
    PROVE  Told(requests[q].waiter) \in {"none", "told", "gone"}
BY DEF LineFine, RequestRow, Told

LEMMA SettlesKeepLine ==
    ASSUME LineFine, NEW q \in Requests, NEW status \in {"granted", "cancelled", "expired"},
           NEW waiter \in {"none", "told", "gone"}, Settle(q, status, waiter)
    PROVE  LineFine'
<1> DEFINE row == Request(status, 0, waiter)
<1>1. row \in RequestRow /\ row.status # "waiting" /\ row.waiter # "parked"
  BY SettledRow
<1>2. requests' = [requests EXCEPT ![q] = row] /\ line' = RemoveFirst(line, q)
  BY DEF Settle
<1> HIDE DEF row
<1> QED BY <1>1, <1>2, SettleKeepsLine

\* What changes of a request's row beside its status.
LEMMA WaiterChanges ==
    ASSUME LineFine, NEW q \in Requests, NEW waiter \in {"none", "parked", "told", "gone"},
           waiter = "parked" => Waiting(q),
           requests' = [requests EXCEPT ![q].waiter = waiter], UNCHANGED line
    PROVE  LineFine'
<1>1. \A p \in Requests :
         /\ requests'[p].status = requests[p].status
         /\ requests'[p].waiter = IF p = q THEN waiter ELSE requests[p].waiter
  BY DEF LineFine, RequestRow
<1>2. requests' \in [Requests -> RequestRow]
  BY DEF LineFine, RequestRow
<1>3. LineIsWaiting'
  BY <1>1 DEF LineFine, LineIsWaiting, Waiting
<1>4. ParkedStillWaits'
  BY <1>1 DEF LineFine, ParkedStillWaits, Waiting
<1> QED BY <1>2, <1>3, <1>4 DEF LineFine

LEMMA AskKeepsLine ==
    ASSUME LineFine, NEW q \in Requests, requests[q].status = "absent",
           requests' = [requests EXCEPT ![q] = Request("waiting", Wait[q], "none")],
           line' = Append(line, q)
    PROVE  LineFine'
<1> DEFINE row == Request("waiting", Wait[q], "none")
<1>1. row \in RequestRow /\ row.status = "waiting" /\ row.waiter # "parked"
  BY Numbers DEF RequestRow, Request
<1> HIDE DEF row
<1>2. requests' = [requests EXCEPT ![q] = row] /\ requests \in [Requests -> RequestRow]
  BY DEF LineFine, row
<1>3. requests' \in [Requests -> RequestRow]
  BY <1>1, <1>2
<1>4. \A p \in Requests : requests'[p] = IF p = q THEN row ELSE requests[p]
  BY <1>2
<1>5. line \in Seq(Requests) /\ Once(line) /\ Len(line) \in Nat
      /\ \A p \in Requests : Waiting(p) <=> InLine(line, p)
  BY LineWords DEF LineFine
<1>6. ~InLine(line, q)
  BY <1>5 DEF Waiting
<1>7. /\ line' \in Seq(Requests) /\ Len(line') = Len(line) + 1
      /\ \A i \in 1..Len(line) : line'[i] = line[i]
      /\ line'[Len(line) + 1] = q
  BY <1>5
<1>8. Once(line')
  <2> SUFFICES ASSUME NEW i \in 1..Len(line'), NEW j \in 1..Len(line'), i # j,
                      line'[i] = line'[j]
               PROVE  FALSE
    BY DEF Once
  <2>1. CASE i \in 1..Len(line) /\ j \in 1..Len(line)
    BY <1>5, <1>7, <2>1 DEF Once
  <2>2. CASE i = Len(line) + 1
    <3>1. j \in 1..Len(line)
      BY <1>5, <1>7, <2>2
    <3> QED BY <1>6, <1>7, <2>2, <3>1 DEF InLine
  <2>3. CASE j = Len(line) + 1
    <3>1. i \in 1..Len(line)
      BY <1>5, <1>7, <2>3
    <3> QED BY <1>6, <1>7, <2>3, <3>1 DEF InLine
  <2> QED BY <1>5, <1>7, <2>1, <2>2, <2>3
<1>9. ASSUME NEW p PROVE InLine(line', p) <=> InLine(line, p) \/ p = q
  <2>1. \A i \in 1..Len(line') : i \in 1..Len(line) \/ i = Len(line) + 1
    BY <1>5, <1>7
  <2>2. \A i \in 1..Len(line) : i \in 1..Len(line')
    BY <1>5, <1>7
  <2>3. Len(line) + 1 \in 1..Len(line')
    BY <1>5, <1>7
  <2> QED BY <1>7, <2>1, <2>2, <2>3 DEF InLine
<1>10. \A p \in Requests : Waiting(p)' <=> InLine(line', p)
  BY <1>1, <1>4, <1>5, <1>9 DEF Waiting
<1>11. ParkedStillWaits'
  BY <1>1, <1>4 DEF LineFine, ParkedStillWaits, Waiting
<1> QED BY <1>3, <1>7, <1>8, <1>10, <1>11, LineWords DEF LineFine

LEMMA ReorderKeepsLine ==
    ASSUME LineFine, NEW q \in Requests, Waiting(q), NEW i \in 1..Len(line),
           line' = InsertAt(RemoveFirst(line, q), i, q), UNCHANGED requests
    PROVE  LineFine'
<1> DEFINE rest == RemoveFirst(line, q)
<1>1. line \in Seq(Requests) /\ Once(line) /\ Len(line) \in Nat
      /\ \A p \in Requests : Waiting(p) <=> InLine(line, p)
  BY LineWords DEF LineFine
<1>2. /\ rest \in Seq(Requests) /\ Once(rest)
      /\ \A p : InLine(rest, p) <=> InLine(line, p) /\ p # q
      /\ Len(rest) = Len(line) - 1
  BY <1>1, RemovesOne
<1> HIDE DEF rest
<1>3. i \in 1..(Len(rest) + 1)
  BY <1>1, <1>2
<1>4. /\ line' \in Seq(Requests) /\ Once(line')
      /\ \A p : InLine(line', p) <=> InLine(rest, p) \/ p = q
  <2>1. line' = InsertAt(rest, i, q)
    BY DEF rest
  <2> QED BY <1>2, <1>3, <2>1, InsertsOne
<1>5. \A p \in Requests : Waiting(p)' <=> InLine(line', p)
  BY <1>1, <1>2, <1>4 DEF Waiting
<1> QED BY <1>4, <1>5, LineWords DEF LineFine, ParkedStillWaits, Waiting

\* The head of a resource's line is one of those that wait.
LEMMA FirstWaits ==
    ASSUME LineFine, NEW r, WaitLine(r) # {}
    PROVE  /\ First(r) \in Requests /\ Waiting(First(r)) /\ StandsIn(First(r), r)
<1>1. WaitLine(r) \subseteq 1..Len(line) /\ WaitLine(r) \subseteq Nat
  BY DEF WaitLine
<1>2. Min(WaitLine(r)) \in WaitLine(r)
  BY <1>1, LeastPlace
<1>3. line \in Seq(Requests) /\ \A p \in Requests : Waiting(p) <=> InLine(line, p)
  BY LineWords DEF LineFine
<1> DEFINE i == Min(WaitLine(r))
<1> HIDE DEF i
<1>4. i \in 1..Len(line) /\ First(r) = line[i] /\ StandsIn(line[i], r)
  BY <1>2 DEF First, WaitLine, i
<1>5. line[i] \in Requests /\ InLine(line, line[i])
  BY <1>3, <1>4 DEF InLine
<1> QED BY <1>3, <1>4, <1>5

-----------------------------------------------------------------------------
(* The rows: resources and leases.                                         *)

LEMMA RowTypes ==
    ASSUME RowsFine
    PROVE  /\ \A r \in Resources :
                 /\ anchors[r] \in AnchorRow /\ anchors[r].token \in Nat /\ anchors[r].held \in Int
                 /\ anchors[r].lease \in Requests \cup {None} /\ anchors[r].avail \in {0, 1}
                 /\ anchors[r].labels \in LabelSets \cup {{}}
                 /\ anchors[r].bound \in Bounds \cup {0}
           /\ \A q \in Requests :
                 /\ leases[q] \in LeaseRow /\ leases[q].token \in Nat /\ leases[q].left \in Int
                 /\ leases[q].term \in Nat /\ leases[q].started \in {0, 1}
                 /\ acting[q] \in Int
BY DEF RowsFine, AnchorRow, LeaseRow

\* What is known of a lease that runs.
LEMMA ActiveRow ==
    ASSUME RowsFine, NEW q \in Requests, leases[q].status = "active"
    PROVE  LET r == leases[q].res
           IN /\ r \in Resources /\ anchors[r].state # "absent" /\ anchors[r].lease = q
              /\ anchors[r].token = leases[q].token /\ anchors[r].held = leases[q].left
              /\ anchors[r].bound \in Bounds
              /\ 0 < leases[q].token /\ leases[q].term \in Lengths(q)
              /\ Window[q] = 0 \/ leases[q].started = 1 =>
                    \E m \in Lengths(q) : leases[q].left <= m
<1>1. /\ leases[q].res \in Resources /\ anchors[leases[q].res].state # "absent"
      /\ 0 < leases[q].token /\ leases[q].term \in Lengths(q)
      /\ Window[q] = 0 \/ leases[q].started = 1 =>
            \E m \in Lengths(q) : leases[q].left <= m
  BY DEF RowsFine, LeasesAreSound
<1>2. anchors[leases[q].res].lease = q
  BY DEF RowsFine, AnchorNames
<1>3. anchors[leases[q].res].token = leases[q].token /\ anchors[leases[q].res].held = leases[q].left
  BY <1>1, <1>2, Numbers DEF RowsFine, AnchorNames
<1>4. anchors[leases[q].res].bound \in Bounds
  BY <1>1 DEF RowsFine, AnchorsAreSound
<1> QED BY <1>1, <1>2, <1>3, <1>4

\* The storage's grant, renewal, start and end write one resource and one lease of
\* it, which it names while the lease runs and at no other time.
LEMMA WritesKeepRows ==
    ASSUME RowsFine, NEW r \in Resources, NEW q \in Requests, NEW A \in AnchorRow,
           NEW L \in LeaseRow,
           anchors' = [anchors EXCEPT ![r] = A], leases' = [leases EXCEPT ![q] = L],
           acting' \in [Requests -> Int],
           \A p \in Requests : p # q => acting'[p] = acting[p],
           A.state # "absent", A.bound \in Bounds, anchors[r].token <= A.token,
           L.res = r, L.status # "none", 0 < L.token, L.token <= A.token,
           L.term \in Lengths(q),
           L.status = "active" /\ (Window[q] = 0 \/ L.started = 1) =>
              \E m \in Lengths(q) : L.left <= m,
           anchors[r].lease \in {None, q}, A.lease = IF L.status = "active" THEN q ELSE None,
           L.status = "active" => A.token = L.token /\ A.held = L.left,
           \/ leases[q].res = r /\ leases[q].status = "active" /\ L.token = leases[q].token
           \/ leases[q] = NoLease /\ anchors[r].token < L.token
    PROVE  RowsFine'
<1>1. \A s \in Resources : anchors'[s] = IF s = r THEN A ELSE anchors[s]
  BY DEF RowsFine
<1>2. \A p \in Requests : leases'[p] = IF p = q THEN L ELSE leases[p]
  BY DEF RowsFine
<1>3. anchors' \in [Resources -> AnchorRow] /\ leases' \in [Requests -> LeaseRow]
  BY DEF RowsFine
<1>4. AnchorsAreSound'
  BY <1>1 DEF RowsFine, AnchorsAreSound
<1>5. LeasesAreSound'
  <2> SUFFICES ASSUME NEW p \in Requests
               PROVE  IF leases'[p].status = "none" THEN leases'[p] = NoLease /\ ~Acting(p)'
                      ELSE LET l == leases'[p]
                           IN /\ l.res \in Resources /\ anchors'[l.res].state # "absent"
                              /\ 0 < l.token /\ l.token <= anchors'[l.res].token
                              /\ l.term \in Lengths(p)
                              /\ l.status = "active" /\ (Window[p] = 0 \/ l.started = 1) =>
                                    \E m \in Lengths(p) : l.left <= m
    BY DEF LeasesAreSound
  <2>1. CASE p = q
    BY <1>1, <1>2, <2>1
  <2>2. CASE p # q /\ leases[p].status = "none"
    BY <1>2, <2>2 DEF RowsFine, LeasesAreSound, Acting
  <2>3. CASE p # q /\ leases[p].status # "none"
    <3>1. /\ leases[p].res \in Resources /\ anchors[leases[p].res].state # "absent"
          /\ 0 < leases[p].token /\ leases[p].token <= anchors[leases[p].res].token
          /\ leases[p].term \in Lengths(p)
          /\ leases[p].status = "active" /\ (Window[p] = 0 \/ leases[p].started = 1) =>
                \E m \in Lengths(p) : leases[p].left <= m
      BY <2>3 DEF RowsFine, LeasesAreSound
    <3>2. leases[p].token <= anchors'[leases[p].res].token
      <4>1. anchors[leases[p].res].token \in Nat /\ leases[p].token \in Nat /\ A.token \in Nat
        BY <3>1, RowTypes DEF AnchorRow
      <4> QED BY <1>1, <3>1, <4>1
    <3> QED BY <1>1, <1>2, <2>3, <3>1, <3>2
  <2> QED BY <2>1, <2>2, <2>3
<1>6. q # None /\ \A p \in Requests : p # None
  BY Numbers
<1>7. AnchorNames'
  <2>1. ASSUME NEW s \in Resources, anchors'[s].lease # None
        PROVE  LET a == anchors'[s]
               IN /\ leases'[a.lease].status = "active" /\ leases'[a.lease].res = s
                  /\ leases'[a.lease].token = a.token /\ leases'[a.lease].left = a.held
    <3>1. CASE s = r
      BY <1>1, <1>2, <2>1, <3>1
    <3>2. CASE s # r
      <4> DEFINE p == anchors[s].lease
      <4>1. /\ anchors'[s] = anchors[s] /\ p \in Requests
            /\ leases[p].status = "active" /\ leases[p].res = s
            /\ leases[p].token = anchors[s].token /\ leases[p].left = anchors[s].held
        BY <1>1, <2>1, <3>2, RowTypes DEF RowsFine, AnchorNames
      <4>2. p # q
        BY <3>2, <4>1 DEF NoLease, Lease
      <4> QED BY <1>2, <4>1, <4>2
    <3> QED BY <3>1, <3>2
  <2>2. ASSUME NEW p \in Requests, leases'[p].status = "active"
        PROVE  anchors'[leases'[p].res].lease = p
    <3>1. CASE p = q
      BY <1>1, <1>2, <2>2, <3>1
    <3>2. CASE p # q
      <4>1. leases'[p] = leases[p] /\ leases[p].status = "active"
        BY <1>2, <2>2, <3>2
      <4>2. leases[p].res \in Resources /\ anchors[leases[p].res].lease = p
        BY <4>1, ActiveRow
      <4>3. leases[p].res # r
        BY <1>6, <3>2, <4>2
      <4> QED BY <1>1, <4>1, <4>2, <4>3
    <3> QED BY <3>1, <3>2
  <2> QED BY <2>1, <2>2 DEF AnchorNames
<1>8. TokensDiffer'
  <2>1. ASSUME NEW p \in Requests, p # q, leases[p].res = r
        PROVE  leases[p].token # L.token
    <3>1. CASE leases[q].res = r /\ L.token = leases[q].token
      <4>1. r # None
        BY Numbers
      <4> QED BY <2>1, <3>1, <4>1 DEF RowsFine, TokensDiffer
    <3>2. CASE anchors[r].token < L.token
      <4>1. leases[p].status # "none"
        <5>1. NoLease.res = None /\ r # None
          BY Numbers DEF NoLease, Lease
        <5> QED BY <2>1, <5>1 DEF RowsFine, LeasesAreSound
      <4>2. leases[p].token <= anchors[r].token
        BY <2>1, <4>1 DEF RowsFine, LeasesAreSound
      <4>3. leases[p].token \in Nat /\ anchors[r].token \in Nat /\ L.token \in Nat
        BY RowTypes DEF LeaseRow
      <4> QED BY <3>2, <4>2, <4>3
    <3> QED BY <3>1, <3>2
  <2> SUFFICES ASSUME NEW o \in Requests, NEW p \in Requests, o # p,
                      leases'[o].res = leases'[p].res, leases'[o].res # None
               PROVE  leases'[o].token # leases'[p].token
    BY DEF TokensDiffer
  <2>2. CASE o = q
    BY <1>2, <2>1, <2>2
  <2>3. CASE p = q
    BY <1>2, <2>1, <2>3
  <2>4. CASE o # q /\ p # q
    BY <1>2, <2>4 DEF RowsFine, TokensDiffer
  <2> QED BY <2>2, <2>3, <2>4
<1> QED BY <1>3, <1>4, <1>5, <1>7, <1>8 DEF RowsFine

\* What the owner changes of a resource leaves its lease as it is.
LEMMA OwnerKeepsRows ==
    ASSUME RowsFine, NEW r \in Resources, NEW A \in AnchorRow,
           anchors' = [anchors EXCEPT ![r] = A], UNCHANGED <<leases, acting>>,
           A.state # "absent", A.bound \in Bounds,
           A.token = anchors[r].token, A.lease = anchors[r].lease,
           A.lease # None => A.held = anchors[r].held
    PROVE  RowsFine'
<1>1. \A s \in Resources : anchors'[s] = IF s = r THEN A ELSE anchors[s]
  BY DEF RowsFine
<1>2. anchors' \in [Resources -> AnchorRow] /\ leases' = leases /\ acting' = acting
  BY DEF RowsFine
<1>3. AnchorsAreSound'
  BY <1>1 DEF RowsFine, AnchorsAreSound
<1>4. LeasesAreSound'
  BY <1>1, <1>2 DEF RowsFine, LeasesAreSound, Acting
<1>5. AnchorNames'
  <2>1. ASSUME NEW s \in Resources, anchors'[s].lease # None
        PROVE  LET a == anchors'[s]
               IN /\ leases'[a.lease].status = "active" /\ leases'[a.lease].res = s
                  /\ leases'[a.lease].token = a.token /\ leases'[a.lease].left = a.held
    BY <1>1, <1>2, <2>1 DEF RowsFine, AnchorNames
  <2>2. ASSUME NEW p \in Requests, leases'[p].status = "active"
        PROVE  anchors'[leases'[p].res].lease = p
    <3>1. leases[p].res \in Resources /\ anchors[leases[p].res].lease = p
      BY <1>2, <2>2, ActiveRow
    <3> QED BY <1>1, <1>2, <3>1
  <2> QED BY <2>1, <2>2 DEF AnchorNames
<1>6. TokensDiffer'
  BY <1>2 DEF RowsFine, TokensDiffer
<1> QED BY <1>2, <1>3, <1>4, <1>5, <1>6 DEF RowsFine

\* What a holder learns leaves the rows as they are.
LEMMA HoldersKeepRows ==
    ASSUME RowsFine, UNCHANGED <<anchors, leases>>, acting' \in [Requests -> Int],
           \A p \in Requests :
              acting'[p] = acting[p] \/ acting'[p] = Stopped \/ leases[p].status # "none"
    PROVE  RowsFine'
<1>1. anchors' = anchors /\ leases' = leases
  OBVIOUS
<1>2. LeasesAreSound'
  <2>1. ASSUME NEW p \in Requests, leases[p].status = "none" PROVE ~Acting(p)'
    <3>1. Stopped \in Int
      BY Numbers DEF Stopped
    <3> QED BY <2>1, <3>1 DEF RowsFine, LeasesAreSound, Acting
  <2> QED BY <1>1, <2>1 DEF RowsFine, LeasesAreSound
<1>3. AnchorsAreSound' /\ AnchorNames' /\ TokensDiffer'
  BY <1>1 DEF RowsFine, AnchorsAreSound, AnchorNames, TokensDiffer
<1> QED BY <1>1, <1>2, <1>3 DEF RowsFine

LEMMA EndKeepsRows ==
    ASSUME RowsFine, NEW q \in Requests, leases[q].status = "active",
           NEW status \in Ended, End(q, status), acting' \in [Requests -> Int],
           \A p \in Requests : p # q => acting'[p] = acting[p]
    PROVE  RowsFine'
<1> DEFINE l == leases[q]
           r == l.res
           a == anchors[r]
           A == Anchor(a.state, a.token, None, 0, a.avail, a.labels, a.bound)
           L == Lease(status, l.res, l.token, l.term, 0, l.started)
<1>1. /\ r \in Resources /\ a.state # "absent" /\ a.lease = q /\ a.token = l.token
      /\ a.bound \in Bounds /\ 0 < l.token /\ l.term \in Lengths(q)
  BY ActiveRow
<1>2. status \notin {"none", "active"}
  BY DEF Ended
<1>3. /\ A \in AnchorRow /\ A.state = a.state /\ A.token = a.token /\ A.lease = None
      /\ A.bound = a.bound
  BY <1>1, RowTypes, Numbers DEF Anchor, AnchorRow
<1>4. /\ L \in LeaseRow /\ L.status = status /\ L.res = r /\ L.token = l.token
      /\ L.term = l.term
  BY <1>1, RowTypes DEF Lease, LeaseRow
<1>5. anchors' = [anchors EXCEPT ![r] = A] /\ leases' = [leases EXCEPT ![q] = L]
  BY <1>1 DEF End, Freed
<1>6. a.token \in Nat /\ l.token \in Nat
  BY <1>1, RowTypes
<1>7. a.token <= A.token /\ 0 < L.token /\ L.token <= A.token
  BY <1>1, <1>3, <1>4, <1>6
<1> HIDE DEF A, L
<1> QED BY <1>1, <1>2, <1>3, <1>4, <1>5, <1>7, WritesKeepRows

LEMMA ExtendKeepsRows ==
    ASSUME RowsFine, NEW q \in Requests, leases[q].status = "active",
           NEW left \in Int, NEW m \in Lengths(q), left <= m, NEW started \in {0, 1},
           Extend(q, left, started), acting' \in [Requests -> Int],
           \A p \in Requests : p # q => acting'[p] = acting[p]
    PROVE  RowsFine'
<1> DEFINE l == leases[q]
           r == l.res
           a == anchors[r]
           A == Anchor(a.state, a.token, a.lease, left, a.avail, a.labels, a.bound)
           L == Lease("active", l.res, l.token, l.term, left, started)
<1>1. /\ r \in Resources /\ a.state # "absent" /\ a.lease = q /\ a.token = l.token
      /\ a.bound \in Bounds /\ 0 < l.token /\ l.term \in Lengths(q)
  BY ActiveRow
<1>2. /\ A \in AnchorRow /\ A.state = a.state /\ A.token = a.token /\ A.lease = q
      /\ A.bound = a.bound /\ A.held = left
  BY <1>1, RowTypes, Numbers DEF Anchor, AnchorRow
<1>3. /\ L \in LeaseRow /\ L.status = "active" /\ L.res = r /\ L.token = l.token
      /\ L.term = l.term /\ L.left = left
  BY <1>1, RowTypes DEF Lease, LeaseRow
<1>4. anchors' = [anchors EXCEPT ![r] = A] /\ leases' = [leases EXCEPT ![q] = L]
  BY <1>1 DEF Extend, HeldUntil
<1>5. a.token \in Nat /\ l.token \in Nat
  BY <1>1, RowTypes
<1>6. a.token <= A.token /\ 0 < L.token /\ L.token <= A.token
  BY <1>1, <1>2, <1>3, <1>5
<1>7. \E n \in Lengths(q) : L.left <= n
  BY <1>3
<1>8. A.state # "absent" /\ A.bound \in Bounds /\ a.lease \in {None, q} /\ A.held = L.left
      /\ L.term \in Lengths(q) /\ L.status # "none" /\ A.token = L.token
  BY <1>1, <1>2, <1>3
<1> HIDE DEF A, L
<1> QED BY <1>1, <1>2, <1>3, <1>4, <1>6, <1>7, <1>8, WritesKeepRows

LEMMA GrantKeepsRows ==
    ASSUME RowsFine, CallsFine, NEW c \in Callers, Grant(c)
    PROVE  RowsFine'
<1> DEFINE k == calls[c]
           q == k.req
           r == k.res
           a == anchors[r]
           left == k.left - k.age
           A == Anchor(a.state, k.token + 1, q, left, a.avail, a.labels, a.bound)
           L == Lease("active", r, k.token + 1, k.term, left, 0)
<1>1. /\ r \in Resources /\ q \in Requests /\ k.term \in Lengths(q) /\ k.left \in Nat
      /\ Window[q] = 0 => k.left \in Lengths(q)
  BY CallFields DEF Grant, Fine, CallIsSound
<1>2. /\ a.state = "live" /\ a.lease = None /\ a.token = k.token /\ leases[q] = NoLease
  BY DEF Grant, GrantLands, Grantable
<1>3. left \in Int /\ left <= k.left /\ k.term \in Nat /\ k.token \in Nat
  <2>1. k.age \in Nat /\ k.term \in Nat /\ k.token \in Nat
    BY CallFields, Numbers
  <2> QED BY <1>1, <2>1
<1>4. a.bound \in Bounds
  BY <1>1, <1>2 DEF RowsFine, AnchorsAreSound
<1>5. k.token + 1 \in Nat /\ k.token < k.token + 1 /\ 0 < k.token + 1
  BY <1>3
<1>6. /\ A \in AnchorRow /\ A.state = a.state /\ A.token = k.token + 1 /\ A.lease = q
      /\ A.bound = a.bound /\ A.held = left
  BY <1>1, <1>3, <1>5, RowTypes DEF Anchor, AnchorRow
<1>7. /\ L \in LeaseRow /\ L.status = "active" /\ L.res = r /\ L.token = k.token + 1
      /\ L.term = k.term /\ L.left = left /\ L.started = 0
  BY <1>1, <1>3, <1>5 DEF Lease, LeaseRow
<1>8. anchors' = [anchors EXCEPT ![r] = A] /\ leases' = [leases EXCEPT ![q] = L]
      /\ acting' = acting
  BY <1>1 DEF Grant
<1>9. acting' \in [Requests -> Int] /\ \A p \in Requests : p # q => acting'[p] = acting[p]
  BY <1>8 DEF RowsFine
<1>10. Window[q] = 0 => \E m \in Lengths(q) : L.left <= m
  BY <1>1, <1>3, <1>7
<1>11. a.token <= A.token /\ 0 < L.token /\ L.token <= A.token /\ a.token < L.token
       /\ A.token = L.token
  BY <1>2, <1>3, <1>5, <1>6, <1>7
<1>12. A.state # "absent" /\ A.bound \in Bounds /\ a.lease \in {None, q} /\ A.held = L.left
       /\ 0 # 1 /\ L.term \in Lengths(q) /\ L.status # "none"
  BY <1>1, <1>2, <1>4, <1>6, <1>7
<1> HIDE DEF A, L
<1> QED BY <1>1, <1>2, <1>6, <1>7, <1>8, <1>9, <1>10, <1>11, <1>12, WritesKeepRows

-----------------------------------------------------------------------------
(* Time.                                                                   *)

LEMMA Floors ==
    /\ LeaseFloor \in Int /\ LeaseFloor <= 0 /\ LeaseFloor = -(Margin + Lag)
    /\ Stopped \in Int /\ Stopped <= 0 /\ Stopped = -Skew
BY Numbers DEF LeaseFloor, Stopped

LEMMA TickKeepsLine ==
    ASSUME LineFine, Tick
    PROVE  LineFine'
<1>1. requests' = [q \in Requests |-> [requests[q] EXCEPT !.wait = Down(@, 0)]] /\ line' = line
  BY DEF Tick
<1>2. ASSUME NEW q \in Requests
      PROVE  /\ requests'[q] \in RequestRow /\ requests'[q].status = requests[q].status
             /\ requests'[q].waiter = requests[q].waiter
  <2>1. requests[q] \in RequestRow
    BY DEF LineFine
  <2>2. Down(requests[q].wait, 0) \in Nat
    BY <2>1 DEF RequestRow, Down
  <2> QED BY <1>1, <2>1, <2>2 DEF RequestRow
<1>3. requests' \in [Requests -> RequestRow]
  BY <1>1, <1>2
<1>4. LineIsWaiting' /\ ParkedStillWaits'
  BY <1>1, <1>2 DEF LineFine, LineIsWaiting, ParkedStillWaits, Waiting
<1> QED BY <1>1, <1>3, <1>4 DEF LineFine

LEMMA TickKeepsCalls ==
    ASSUME CallsFine, Tick
    PROVE  CallsFine'
<1>1. calls' = [c \in Callers |->
                   IF HasClock(calls[c]) THEN [calls[c] EXCEPT !.age = @ + 1] ELSE calls[c]]
  BY DEF Tick
<1>2. ASSUME NEW c \in Callers PROVE Fine(calls'[c])
  <2>1. Fine(calls[c]) /\ calls[c].age \in 0..Lag
    BY CallFields
  <2>2. CASE ~HasClock(calls[c])
    BY <1>1, <2>1, <2>2
  <2>3. CASE HasClock(calls[c])
    <3>1. calls[c].age < Lag
      BY <2>3 DEF Tick
    <3>2. calls[c].age + 1 \in 0..Lag
      BY <2>1, <3>1, Numbers
    <3>3. calls'[c] = [calls[c] EXCEPT !.age = calls[c].age + 1]
      BY <1>1, <2>3
    <3>4. ASSUME NEW k, Fine(k), NEW age \in 0..Lag PROVE Fine([k EXCEPT !.age = age])
      BY <3>4 DEF Fine, CallRow, CallIsSound
    <3> QED BY <2>1, <3>2, <3>3, <3>4
  <2> QED BY <2>2, <2>3
<1> QED BY <1>1, <1>2 DEF CallsFine, CallsAreSound, Fine

\* The rows after a tick, one by one.
LEMMA TickRows ==
    ASSUME RowsFine, Tick
    PROVE  /\ anchors' \in [Resources -> AnchorRow] /\ leases' \in [Requests -> LeaseRow]
           /\ acting' \in [Requests -> Int]
           /\ \A r \in Resources :
                 /\ anchors'[r].state = anchors[r].state /\ anchors'[r].token = anchors[r].token
                 /\ anchors'[r].lease = anchors[r].lease /\ anchors'[r].bound = anchors[r].bound
                 /\ anchors[r].lease # None => anchors'[r].held = Down(anchors[r].held, LeaseFloor)
           /\ \A q \in Requests :
                 /\ leases[q].status # "active" => leases'[q] = leases[q]
                 /\ leases'[q].status = leases[q].status /\ leases'[q].res = leases[q].res
                 /\ leases'[q].token = leases[q].token /\ leases'[q].term = leases[q].term
                 /\ leases'[q].started = leases[q].started
                 /\ leases[q].status = "active" =>
                       leases'[q].left = Down(leases[q].left, LeaseFloor)
                 /\ acting'[q] = Down(acting[q], Stopped)
<1>1. /\ leases' = [q \in Requests |->
                       IF leases[q].status = "active"
                       THEN [leases[q] EXCEPT !.left = Down(@, LeaseFloor)] ELSE leases[q]]
      /\ anchors' = [r \in Resources |->
                        IF anchors[r].lease # None
                        THEN [anchors[r] EXCEPT !.held = Down(@, LeaseFloor)] ELSE anchors[r]]
      /\ acting' = [q \in Requests |-> Down(acting[q], Stopped)]
  BY DEF Tick
<1>2. ASSUME NEW n \in Int PROVE Down(n, LeaseFloor) \in Int /\ Down(n, Stopped) \in Int
  BY Floors DEF Down
<1>3. acting' \in [Requests -> Int] /\ \A q \in Requests : acting'[q] = Down(acting[q], Stopped)
  BY <1>1, <1>2, RowTypes
<1>4. ASSUME NEW r \in Resources
      PROVE  /\ anchors'[r] \in AnchorRow
             /\ anchors'[r].state = anchors[r].state /\ anchors'[r].token = anchors[r].token
             /\ anchors'[r].lease = anchors[r].lease /\ anchors'[r].bound = anchors[r].bound
             /\ anchors[r].lease # None => anchors'[r].held = Down(anchors[r].held, LeaseFloor)
  <2>1. anchors[r] \in AnchorRow /\ Down(anchors[r].held, LeaseFloor) \in Int
    BY <1>2, RowTypes
  <2> QED BY <1>1, <2>1 DEF AnchorRow
<1>5. ASSUME NEW q \in Requests
      PROVE  /\ leases'[q] \in LeaseRow
             /\ leases[q].status # "active" => leases'[q] = leases[q]
             /\ leases'[q].status = leases[q].status /\ leases'[q].res = leases[q].res
             /\ leases'[q].token = leases[q].token /\ leases'[q].term = leases[q].term
             /\ leases'[q].started = leases[q].started
             /\ leases[q].status = "active" =>
                   leases'[q].left = Down(leases[q].left, LeaseFloor)
  <2>1. leases[q] \in LeaseRow /\ Down(leases[q].left, LeaseFloor) \in Int
    BY <1>2, RowTypes
  <2> QED BY <1>1, <2>1 DEF LeaseRow
<1>6. anchors' \in [Resources -> AnchorRow] /\ leases' \in [Requests -> LeaseRow]
  BY <1>1, <1>4, <1>5
<1> QED BY <1>3, <1>4, <1>5, <1>6

LEMMA TickKeepsRows ==
    ASSUME RowsFine, Tick
    PROVE  RowsFine'
<1>1. AnchorsAreSound'
  BY TickRows DEF RowsFine, AnchorsAreSound
<1>2. LeasesAreSound'
  <2> SUFFICES ASSUME NEW p \in Requests
               PROVE  IF leases'[p].status = "none" THEN leases'[p] = NoLease /\ ~Acting(p)'
                      ELSE LET l == leases'[p]
                           IN /\ l.res \in Resources /\ anchors'[l.res].state # "absent"
                              /\ 0 < l.token /\ l.token <= anchors'[l.res].token
                              /\ l.term \in Lengths(p)
                              /\ l.status = "active" /\ (Window[p] = 0 \/ l.started = 1) =>
                                    \E m \in Lengths(p) : l.left <= m
    BY DEF LeasesAreSound
  <2>1. CASE leases[p].status = "none"
    <3>1. leases[p] = NoLease /\ ~(acting[p] > Stopped) /\ acting[p] \in Int
      BY <2>1, RowTypes DEF RowsFine, LeasesAreSound, Acting
    <3>2. leases'[p] = leases[p] /\ acting'[p] = Down(acting[p], Stopped)
      BY <2>1, TickRows
    <3>3. ~(acting'[p] > Stopped)
      BY <3>1, <3>2, Floors DEF Down
    <3> QED BY <2>1, <3>1, <3>2, <3>3 DEF Acting
  <2>2. CASE leases[p].status # "none"
    <3>1. /\ leases[p].res \in Resources /\ anchors[leases[p].res].state # "absent"
          /\ 0 < leases[p].token /\ leases[p].token <= anchors[leases[p].res].token
          /\ leases[p].term \in Lengths(p)
          /\ leases[p].status = "active" /\ (Window[p] = 0 \/ leases[p].started = 1) =>
                \E m \in Lengths(p) : leases[p].left <= m
      BY <2>2 DEF RowsFine, LeasesAreSound
    <3>2. ASSUME NEW m \in Lengths(p), leases[p].left <= m
          PROVE  Down(leases[p].left, LeaseFloor) <= m
      <4>1. m \in Nat /\ leases[p].left \in Int
        BY LengthsAre, RowTypes
      <4> QED BY <3>2, <4>1, Floors DEF Down
    <3> QED BY <2>2, <3>1, <3>2, TickRows
  <2> QED BY <2>1, <2>2
<1>3. AnchorNames'
  <2>1. ASSUME NEW s \in Resources, anchors'[s].lease # None
        PROVE  LET a == anchors'[s]
               IN /\ leases'[a.lease].status = "active" /\ leases'[a.lease].res = s
                  /\ leases'[a.lease].token = a.token /\ leases'[a.lease].left = a.held
    <3> DEFINE q == anchors[s].lease
    <3>1. q # None /\ q \in Requests
      BY <2>1, TickRows, RowTypes
    <3>2. /\ leases[q].status = "active" /\ leases[q].res = s
          /\ leases[q].token = anchors[s].token /\ leases[q].left = anchors[s].held
      BY <3>1 DEF RowsFine, AnchorNames
    <3> QED BY <3>1, <3>2, TickRows
  <2>2. ASSUME NEW p \in Requests, leases'[p].status = "active"
        PROVE  anchors'[leases'[p].res].lease = p
    <3>1. leases[p].status = "active"
      BY <2>2, TickRows
    <3>2. leases[p].res \in Resources /\ anchors[leases[p].res].lease = p
      BY <3>1, ActiveRow
    <3> QED BY <3>2, TickRows
  <2> QED BY <2>1, <2>2 DEF AnchorNames
<1>4. TokensDiffer'
  BY TickRows DEF RowsFine, TokensDiffer
<1> QED BY <1>1, <1>2, <1>3, <1>4, TickRows DEF RowsFine

-----------------------------------------------------------------------------
(* The steps.                                                              *)

Kept == LineFine /\ RowsFine /\ CallsFine /\ moves \in 0..MaxMoves

LEMMA OwnersKeep ==
    ASSUME Kept, NEW r \in Resources,
           \/ Retire(r)
           \/ \E c \in Callers : Register(c, r) \/ Update(c, r) \/ SweepOffers(c, r)
    PROVE  Kept'
<1> USE DEF Kept
<1>1. ASSUME NEW c \in Callers, calls' = [calls EXCEPT ![c] = Offering(r)] PROVE CallsFine'
  <2>1. Offering(r) = Call("offering", r, None, {}, 0, None) /\ 0 \in Nat /\ {} \in SUBSET Resources
    BY DEF Offering
  <2>2. Fine(Offering(r))
    BY <2>1, OfferingIsFine
  <2> QED BY <1>1, <2>2, CallMoves
<1>2. ASSUME NEW c \in Callers, Register(c, r) PROVE Kept'
  <2>1. PICK labels \in LabelSets, bound \in Bounds :
           anchors' = [anchors EXCEPT ![r] = Anchor("live", 0, None, 0, 1, labels, bound)]
    BY <1>2 DEF Register
  <2> DEFINE A == Anchor("live", 0, None, 0, 1, labels, bound)
  <2>2. /\ A \in AnchorRow /\ A.state = "live" /\ A.bound \in Bounds /\ A.token = 0
        /\ A.lease = None
    BY DEF Anchor, AnchorRow
  <2>3. anchors[r].state = "absent"
    BY <1>2 DEF Register
  <2>4. anchors[r].token = 0 /\ anchors[r].lease = None
    BY <2>3 DEF RowsFine, AnchorsAreSound
  <2> HIDE DEF A
  <2>5. RowsFine'
    <3>1. anchors' = [anchors EXCEPT ![r] = A] /\ leases' = leases /\ acting' = acting
      BY <1>2, <2>1 DEF A, Register
    <3> QED BY <2>2, <2>4, <3>1, OwnerKeepsRows
  <2>6. CallsFine'
    BY <1>1, <1>2 DEF Register
  <2> QED BY <1>2, <2>5, <2>6, Stays DEF Register
<1>3. ASSUME NEW c \in Callers, Update(c, r) PROVE Kept'
  <2>1. PICK labels \in LabelSets, bound \in Bounds, avail \in {0, 1} :
           anchors' = [anchors EXCEPT ![r] =
                          Anchor(@.state, @.token, @.lease, @.held, avail, labels, bound)]
    BY <1>3 DEF Update
  <2> DEFINE a == anchors[r]
             A == Anchor(a.state, a.token, a.lease, a.held, avail, labels, bound)
  <2>2. anchors[r].state = "live"
    BY <1>3 DEF Update
  <2>3. /\ A \in AnchorRow /\ A.state = a.state /\ A.bound \in Bounds /\ A.token = a.token
        /\ A.lease = a.lease /\ A.held = a.held
    BY <2>2, RowTypes DEF Anchor, AnchorRow
  <2> HIDE DEF A
  <2>4. RowsFine'
    <3>1. anchors' = [anchors EXCEPT ![r] = A] /\ leases' = leases /\ acting' = acting
      BY <1>3, <2>1 DEF A, Update, RowsFine
    <3> QED BY <2>2, <2>3, <3>1, OwnerKeepsRows
  <2>5. CallsFine'
    BY <1>1, <1>3 DEF Update
  <2> QED BY <1>3, <2>4, <2>5, Stays DEF Update
<1>4. ASSUME Retire(r) PROVE Kept'
  <2> DEFINE a == anchors[r]
             A == Anchor("retired", a.token, a.lease, a.held, 0, a.labels, a.bound)
  <2>1. anchors[r].state = "live"
    BY <1>4 DEF Retire
  <2>2. a.bound \in Bounds
    BY <2>1 DEF RowsFine, AnchorsAreSound
  <2>3. /\ A \in AnchorRow /\ A.state = "retired" /\ A.bound \in Bounds /\ A.token = a.token
        /\ A.lease = a.lease /\ A.held = a.held
    BY <2>2, RowTypes DEF Anchor, AnchorRow
  <2> HIDE DEF A
  <2>4. RowsFine'
    <3>1. anchors' = [anchors EXCEPT ![r] = A] /\ leases' = leases /\ acting' = acting
      BY <1>4 DEF A, Retire, RowsFine
    <3> QED BY <2>3, <3>1, OwnerKeepsRows
  <2> QED BY <1>4, <2>4, Stays DEF Retire
<1>5. ASSUME NEW c \in Callers, SweepOffers(c, r) PROVE Kept'
  <2>1. CallsFine'
    BY <1>1, <1>5 DEF SweepOffers
  <2> QED BY <1>5, <2>1, Stays DEF SweepOffers
<1> QED BY <1>2, <1>3, <1>4, <1>5

LEMMA LinesKeep ==
    ASSUME Kept, NEW q \in Requests,
           Cancel(q) \/ WaiterEnds(q) \/ Leave(q) \/ SweepExpires(q) \/ Strand(q)
    PROVE  Kept'
<1> USE DEF Kept
<1> DEFINE w == Told(requests[q].waiter)
<1>1. w \in {"none", "told", "gone"}
  BY ToldIs
<1>2. ASSUME NEW status \in {"granted", "cancelled", "expired"}, Settle(q, status, w)
      PROVE  LineFine'
  BY <1>1, <1>2, SettlesKeepLine
<1> HIDE DEF w
<1>3. CASE Cancel(q)
  <2>1. LineFine'
    BY <1>2, <1>3 DEF Cancel, w
  <2> QED BY <1>3, <2>1, Stays DEF Cancel
<1>4. CASE WaiterEnds(q)
  <2>1. LineFine'
    <3>1. requests' = [requests EXCEPT ![q].waiter = "gone"] /\ UNCHANGED line
      BY <1>4 DEF WaiterEnds
    <3> QED BY <3>1, WaiterChanges
  <2> QED BY <1>4, <2>1, Stays DEF WaiterEnds
<1>5. CASE Leave(q)
  <2>1. LineFine'
    BY <1>5, SettlesKeepLine DEF Leave
  <2> QED BY <1>5, <2>1, Stays DEF Leave
<1>6. CASE SweepExpires(q)
  <2>1. LineFine'
    BY <1>2, <1>6 DEF SweepExpires, w
  <2> QED BY <1>6, <2>1, Stays DEF SweepExpires
<1>7. CASE Strand(q)
  <2>1. LineFine'
    BY <1>2, <1>7 DEF Strand, w
  <2> QED BY <1>7, <2>1, Stays DEF Strand
<1> QED BY <1>3, <1>4, <1>5, <1>6, <1>7

\* The resources an ask or a reorder offers afterwards.
LEMMA OffersKeepCalls ==
    ASSUME CallsFine, NEW c \in Callers, NEW todo \in SUBSET Resources,
           NEW park \in Requests \cup {None},
           \E k \in After(todo, park) : calls' = [calls EXCEPT ![c] = k]
    PROVE  CallsFine'
BY AfterIsFine, CallMoves

LEMMA AsksKeep ==
    ASSUME Kept, NEW c \in Callers,
           \/ \E q \in Requests : AskReads(c, q) \/ Reorder(c, q)
           \/ AskCreates(c) \/ AskParks(c)
    PROVE  Kept'
<1> USE DEF Kept
<1>1. ASSUME NEW q \in Requests, AskReads(c, q) PROVE Kept'
  <2> DEFINE k == Call("asking", None, q, {}, 0, IF q \in Waiters THEN q ELSE None)
  <2>1. Fine(k)
    BY Numbers DEF Fine, Call, CallRow, CallIsSound
  <2> HIDE DEF k
  <2>2. CallsFine'
    BY <1>1, <2>1, CallMoves DEF AskReads, k
  <2> QED BY <1>1, <2>2, Stays DEF AskReads
<1>2. ASSUME NEW q \in Requests, Reorder(c, q) PROVE Kept'
  <2>1. LineFine'
    <3>1. /\ Waiting(q) /\ UNCHANGED requests
          /\ \E i \in 1..Len(line) : line' = InsertAt(RemoveFirst(line, q), i, q)
      BY <1>2 DEF Reorder
    <3> QED BY <3>1, ReorderKeepsLine
  <2> DEFINE todo == {r \in Resources : Grantable(r) /\ StandsIn(q, r)}
  <2>2. \E k \in After(todo, None) : calls' = [calls EXCEPT ![c] = k]
    BY <1>2 DEF Reorder
  <2>3. todo \in SUBSET Resources
    OBVIOUS
  <2> HIDE DEF todo
  <2>4. CallsFine'
    BY <2>2, <2>3, OffersKeepCalls
  <2> QED BY <1>2, <2>1, <2>4, Stays DEF Reorder
<1>3. CASE AskCreates(c)
  <2> DEFINE q == calls[c].req
             park == calls[c].park
             todo == IF requests'[q].status # "waiting" THEN {}
                     ELSE {r \in Resources : Grantable(r) /\ StandsIn(q, r)}
  <2>1. q \in Requests /\ park \in Requests \cup {None}
    BY <1>3, CallFields DEF AskCreates, Fine, CallIsSound
  <2>2. LineFine'
    <3>1. CASE requests[q].status = "absent"
      <4>1. /\ requests' = [requests EXCEPT ![q] = Request("waiting", Wait[q], "none")]
            /\ line' = Append(line, q)
        BY <1>3, <3>1 DEF AskCreates
      <4> QED BY <2>1, <3>1, <4>1, AskKeepsLine
    <3>2. CASE requests[q].status # "absent"
      BY <1>3, <3>2, Stays DEF AskCreates
    <3> QED BY <3>1, <3>2
  <2>3. \E k \in After(todo, park) : calls' = [calls EXCEPT ![c] = k]
    BY <1>3 DEF AskCreates
  <2>4. todo \in SUBSET Resources
    OBVIOUS
  <2> HIDE DEF todo
  <2>5. CallsFine'
    BY <2>1, <2>3, <2>4, OffersKeepCalls
  <2> QED BY <1>3, <2>2, <2>5, Stays DEF AskCreates
<1>4. CASE AskParks(c)
  <2> DEFINE q == calls[c].park
             now == requests[q].waiter
             waiter == IF now # "none" THEN now ELSE IF MayPark(q) THEN "parked" ELSE "told"
  <2>1. q \in Requests
    BY <1>4, CallFields DEF AskParks, Fine, CallIsSound
  <2>2. waiter \in {"none", "parked", "told", "gone"}
    BY <2>1 DEF LineFine, RequestRow
  <2>3. waiter = "parked" => Waiting(q)
    BY <2>1 DEF LineFine, ParkedStillWaits, MayPark
  <2>4. requests' = [requests EXCEPT ![q].waiter = waiter] /\ UNCHANGED line
    BY <1>4, <2>1 DEF AskParks, LineFine
  <2> HIDE DEF waiter
  <2>5. LineFine'
    BY <2>1, <2>2, <2>3, <2>4, WaiterChanges
  <2>6. CallsFine'
    BY <1>4, IdleIsFine, CallMoves DEF AskParks
  <2> QED BY <1>4, <2>5, <2>6, Stays DEF AskParks
<1> QED BY <1>1, <1>2, <1>3, <1>4

LEMMA OffersKeep ==
    ASSUME Kept, NEW c \in Callers,
           \/ OfferFindsLapsed(c) \/ OfferStops(c) \/ OfferExpires(c) \/ OfferRefuses(c)
           \/ OfferDecides(c) \/ OfferEnds(c)
    PROVE  Kept'
<1> USE DEF Kept
<1> DEFINE k == calls[c]
           r == k.res
           first == First(r)
<1>1. Fine(k)
  BY CallFields
<1>2. k.pc \in {"offering", "granting", "ending"} => r \in Resources
  BY <1>1 DEF Fine, CallIsSound
<1>3. MayOffer(c) => first \in Requests /\ Waiting(first) /\ r \in Resources
  BY <1>2, FirstWaits DEF MayOffer, InOffer
<1>4. CASE OfferFindsLapsed(c)
  <2>1. r \in Resources /\ anchors[r].lease # None
    BY <1>2, <1>4 DEF OfferFindsLapsed, InOffer, HoldLapsed
  <2>2. anchors[r].lease \in Requests
    BY <2>1, RowTypes
  <2>3. ASSUME NEW j, Fine(j), j.res \in Resources, NEW q \in Requests
        PROVE  Fine([j EXCEPT !.pc = "ending", !.req = q])
    BY <2>3 DEF Fine, CallRow, CallIsSound
  <2>4. Fine([k EXCEPT !.pc = "ending", !.req = anchors[r].lease])
    BY <1>1, <2>1, <2>2, <2>3
  <2>5. calls' = [calls EXCEPT ![c] = [k EXCEPT !.pc = "ending", !.req = anchors[r].lease]]
    BY <1>4 DEF OfferFindsLapsed, CallsFine
  <2>6. CallsFine'
    BY <2>4, <2>5, CallMoves
  <2> QED BY <1>4, <2>6, Stays DEF OfferFindsLapsed
<1>5. CASE OfferStops(c)
  <2>1. CallsFine'
    BY <1>5, CallLeaves DEF OfferStops
  <2> QED BY <1>5, <2>1, Stays DEF OfferStops
<1>6. ASSUME NEW status \in {"granted", "cancelled", "expired"}, MayOffer(c),
             Settle(first, status, Told(requests[first].waiter))
      PROVE  LineFine'
  <2> DEFINE w == Told(requests[first].waiter)
  <2>1. w \in {"none", "told", "gone"} /\ first \in Requests
    BY <1>3, <1>6, ToldIs
  <2> HIDE DEF w, first
  <2> QED BY <1>6, <2>1, SettlesKeepLine DEF w
<1>7. ASSUME MayOffer(c), Again(c) PROVE CallsFine'
  BY <1>7, CallRepeats DEF MayOffer, InOffer
<1>8. CASE OfferExpires(c)
  <2>1. LineFine' /\ CallsFine'
    BY <1>6, <1>7, <1>8 DEF OfferExpires
  <2> QED BY <1>8, <2>1, Stays DEF OfferExpires
<1>9. CASE OfferRefuses(c)
  <2>1. LineFine' /\ CallsFine'
    BY <1>6, <1>7, <1>9 DEF OfferRefuses
  <2>2. (moves \in 0..MaxMoves)'
    BY <1>9, Stays DEF OfferRefuses
  <2> QED BY <1>9, <2>1, <2>2, Stays DEF OfferRefuses
<1>10. CASE OfferDecides(c)
  <2> DEFINE a == anchors[r]
             term == TermOf(first, a.bound)
             left == WindowOf(first, a.bound)
             j == [k EXCEPT !.pc = "granting", !.req = first, !.token = a.token,
                            !.term = term, !.left = left]
  <2>1. MayOffer(c)
    BY <1>10 DEF OfferDecides
  <2>2. first \in Requests /\ r \in Resources
    BY <1>3, <2>1
  <2>3. a.bound \in Bounds /\ a.token \in Nat
    BY <2>1, <2>2, RowTypes DEF MayOffer, Grantable, RowsFine, AnchorsAreSound
  <2>4. term \in Lengths(first) /\ term \in Nat
    BY <2>2, <2>3, LengthsAre
  <2>5. left \in Nat /\ (Window[first] = 0 => left \in Lengths(first))
    <3>1. Window[first] \in Nat /\ a.bound \in Nat
      BY <2>2, <2>3, Numbers
    <3> QED BY <2>4, <3>1 DEF WindowOf, Lesser
  <2> HIDE DEF term, left
  <2>6. ASSUME NEW n, Fine(n), n.res \in Resources, NEW q \in Requests, NEW tk \in Nat,
               NEW t \in Nat, t \in Lengths(q), NEW l \in Nat, Window[q] = 0 => l \in Lengths(q)
        PROVE  Fine([n EXCEPT !.pc = "granting", !.req = q, !.token = tk, !.term = t, !.left = l])
    <3> DEFINE m == [n EXCEPT !.pc = "granting", !.req = q, !.token = tk, !.term = t, !.left = l]
    <3>1. n \in CallRow
      BY <2>6 DEF Fine
    <3>2. /\ m.pc = "granting" /\ m.req = q /\ m.term = t /\ m.left = l /\ m.res = n.res
      BY <3>1 DEF CallRow
    <3>3. m \in CallRow
      <4> DEFINE o == [n EXCEPT !.pc = "granting", !.req = q]
      <4>1. o \in CallRow
        BY <3>1 DEF CallRow
      <4>2. m = [o EXCEPT !.token = tk, !.term = t, !.left = l]
        BY <3>1 DEF CallRow
      <4> HIDE DEF m, o
      <4>3. l \in Int
        OBVIOUS
      <4> QED BY <4>1, <4>2, <4>3 DEF CallRow
    <3> HIDE DEF m
    <3>4. CallIsSound(m)
      BY <2>6, <3>2 DEF CallIsSound
    <3> QED BY <3>3, <3>4 DEF Fine, m
  <2>7. Fine(j)
    BY <1>1, <2>2, <2>3, <2>4, <2>5, <2>6
  <2>8. calls' = [calls EXCEPT ![c] = j]
    BY <1>10 DEF OfferDecides, term, left
  <2> HIDE DEF j
  <2>9. CallsFine'
    BY <2>7, <2>8, CallMoves
  <2> QED BY <1>10, <2>9, Stays DEF OfferDecides
<1>11. CASE OfferEnds(c)
  <2> DEFINE q == k.req
  <2>1. k.pc = "ending" /\ q \in Requests
    BY <1>1, <1>11 DEF OfferEnds, Fine, CallIsSound
  <2>2. CallsFine'
    BY <1>11, <2>1, CallRepeats DEF OfferEnds
  <2>3. RowsFine'
    <3>1. CASE leases[q].status = "active"
      <4>1. End(q, "expired") /\ acting' = acting
        BY <1>11, <3>1 DEF OfferEnds
      <4>2. "expired" \in Ended /\ acting' \in [Requests -> Int]
        BY <4>1 DEF Ended, RowsFine
      <4> HIDE DEF q
      <4> QED BY <2>1, <3>1, <4>1, <4>2, EndKeepsRows
    <3>2. CASE leases[q].status # "active"
      BY <1>11, <3>2, Stays DEF OfferEnds
    <3> QED BY <3>1, <3>2
  <2> QED BY <1>11, <2>2, <2>3, Stays DEF OfferEnds
<1> QED BY <1>4, <1>5, <1>8, <1>9, <1>10, <1>11

LEMMA GrantsKeep ==
    ASSUME Kept, NEW c \in Callers, Grant(c) \/ GrantLoses(c)
    PROVE  Kept'
<1> USE DEF Kept
<1>1. CASE Grant(c)
  <2> DEFINE q == calls[c].req
             w == Told(requests[q].waiter)
             row == Request("granted", 0, w)
  <2>1. q \in Requests
    BY <1>1, CallFields DEF Grant, Fine, CallIsSound
  <2>2. w \in {"none", "told", "gone"}
    BY <2>1, ToldIs
  <2>3. requests' = [requests EXCEPT ![q] = row] /\ line' = RemoveFirst(line, q)
    BY <1>1, <2>1 DEF Grant, LineFine
  <2> HIDE DEF w
  <2>4. row \in RequestRow /\ row.status # "waiting" /\ row.waiter # "parked"
    BY <2>2, SettledRow
  <2> HIDE DEF row, q
  <2>5. LineFine'
    BY <2>1, <2>3, <2>4, SettleKeepsLine
  <2>6. RowsFine'
    BY <1>1, GrantKeepsRows
  <2>7. CallsFine'
    BY <1>1, CallLeaves DEF Grant
  <2> QED BY <1>1, <2>5, <2>6, <2>7, Stays DEF Grant
<1>2. CASE GrantLoses(c)
  <2>1. CallsFine'
    BY <1>2, CallLeaves, CallRepeats DEF GrantLoses
  <2> QED BY <1>2, <2>1, Stays DEF GrantLoses
<1> QED BY <1>1, <1>2

\* An answer says something to its holder alone.
LEMMA AnswerIs ==
    ASSUME RowsFine, NEW q \in Requests, NEW left \in Int, Answered(q, left)
    PROVE  /\ acting' \in [Requests -> Int]
           /\ \A p \in Requests : p # q => acting'[p] = acting[p]
           /\ acting'[q] \in {acting[q], left, Stopped}
           /\ acting'[q] # acting[q] => acting'[q] = IF left > Stopped THEN left ELSE Stopped
BY Floors DEF RowsFine, Answered

LEMMA HoldersKeep ==
    ASSUME Kept, NEW c \in Callers, NEW q \in Requests,
           \/ RenewReads(c, q) \/ StartReads(c, q)
           \/ Release(c, q) \/ Revoke(c, q) \/ SweepEnds(c, q)
    PROVE  Kept'
<1> USE DEF Kept
<1> DEFINE l == leases[q]
<1>1. ASSUME leases[q].status = "active", calls' = [calls EXCEPT ![c] = Offering(l.res)]
      PROVE  CallsFine'
  <2>1. l.res \in Resources
    BY <1>1, ActiveRow
  <2>2. Offering(l.res) = Call("offering", l.res, None, {}, 0, None) /\ 0 \in Nat
        /\ {} \in SUBSET Resources
    BY DEF Offering
  <2>3. Fine(Offering(l.res))
    BY <2>1, <2>2, OfferingIsFine
  <2> QED BY <1>1, <2>3, CallMoves
<1>2. "released" \in Ended /\ "revoked" \in Ended /\ "expired" \in Ended
  BY DEF Ended
<1>4. CASE RenewReads(c, q)
  <2>1. l.status # "none"
    BY <1>4 DEF RenewReads, RowsFine, LeasesAreSound
  <2>2. /\ l.res \in Resources /\ anchors[l.res].bound \in Bounds /\ l.term \in Lengths(q)
    BY <2>1 DEF RowsFine, LeasesAreSound, AnchorsAreSound
  <2>3. PICK asked \in {l.term} \cup Named :
           calls' = [calls EXCEPT ![c] =
                        OnLease("renewing", q, RenewalOf(asked, anchors[l.res].bound))]
    BY <1>4 DEF RenewReads
  <2> DEFINE left == RenewalOf(asked, anchors[l.res].bound)
             k == OnLease("renewing", q, left)
  <2>4. left \in Lengths(q)
    BY <2>2, LengthsAre
  <2> HIDE DEF left
  <2>5. Fine(k)
    BY <2>4, OnLeaseIsFine
  <2>6. calls' = [calls EXCEPT ![c] = k]
    BY <2>3 DEF left
  <2> HIDE DEF k
  <2>7. CallsFine'
    BY <2>5, <2>6, CallMoves
  <2> QED BY <1>4, <2>7, Stays DEF RenewReads
<1>5. CASE StartReads(c, q)
  <2> DEFINE k == OnLease("starting", q, l.term)
  <2>1. l.term \in Lengths(q) /\ Window[q] > 0
    BY <1>5, ActiveRow DEF StartReads
  <2>2. Fine(k)
    BY <2>1, OnLeaseIsFine
  <2>3. calls' = [calls EXCEPT ![c] = k]
    BY <1>5 DEF StartReads
  <2> HIDE DEF k
  <2>4. CallsFine'
    BY <2>2, <2>3, CallMoves
  <2> QED BY <1>5, <2>4, Stays DEF StartReads
<1>6. CASE Release(c, q)
  <2>1. /\ l.status = "active" /\ End(q, "released")
        /\ acting' = [acting EXCEPT ![q] = Stopped]
    BY <1>6 DEF Release
  <2>2. acting' \in [Requests -> Int] /\ \A p \in Requests : p # q => acting'[p] = acting[p]
    BY <2>1, Floors DEF RowsFine
  <2>3. RowsFine'
    BY <1>2, <2>1, <2>2, EndKeepsRows
  <2>4. CallsFine'
    BY <1>1, <1>6 DEF Release
  <2> QED BY <1>6, <2>3, <2>4, Stays DEF Release
<1>7. CASE Revoke(c, q)
  <2>1. l.status = "active" /\ End(q, "revoked") /\ acting' = acting
    BY <1>7 DEF Revoke
  <2>2. acting' \in [Requests -> Int] /\ \A p \in Requests : p # q => acting'[p] = acting[p]
    BY <2>1 DEF RowsFine
  <2>3. RowsFine'
    BY <1>2, <2>1, <2>2, EndKeepsRows
  <2>4. CallsFine'
    BY <1>1, <1>7 DEF Revoke
  <2> QED BY <1>7, <2>3, <2>4, Stays DEF Revoke
<1>8. CASE SweepEnds(c, q)
  <2>1. l.status = "active" /\ End(q, "expired") /\ acting' = acting
    BY <1>8 DEF SweepEnds
  <2>2. acting' \in [Requests -> Int] /\ \A p \in Requests : p # q => acting'[p] = acting[p]
    BY <2>1 DEF RowsFine
  <2>3. RowsFine'
    BY <1>2, <2>1, <2>2, EndKeepsRows
  <2>4. CallsFine'
    BY <1>1, <1>8 DEF SweepEnds
  <2> QED BY <1>8, <2>3, <2>4, Stays DEF SweepEnds
<1> QED BY <1>4, <1>5, <1>6, <1>7, <1>8

LEMMA WritesKeep ==
    ASSUME Kept, NEW c \in Callers, RenewWrites(c) \/ StartWrites(c) \/ Dies(c)
    PROVE  Kept'
<1> USE DEF Kept
<1> DEFINE k == calls[c]
           q == k.req
           left == k.left - k.age
<1>1. calls' = [calls EXCEPT ![c] = Idle] => CallsFine'
  BY IdleIsFine, CallMoves
<1>2. ASSUME k.pc \in {"renewing", "starting"}
      PROVE  q \in Requests /\ k.left \in Lengths(q) /\ left \in Int /\ left <= k.left
  <2>1. q \in Requests /\ k.left \in Lengths(q)
    BY <1>2, CallFields DEF Fine, CallIsSound
  <2>2. k.left \in Int /\ k.age \in Nat
    BY CallFields, Numbers
  <2> QED BY <2>1, <2>2
<1> HIDE DEF left
<1>3. CASE RenewWrites(c)
  <2>1. q \in Requests /\ k.left \in Lengths(q) /\ left \in Int /\ left <= k.left
    BY <1>2, <1>3 DEF RenewWrites
  <2>2. CASE Renewable(q, k.age)
    <3> DEFINE started == leases[q].started
    <3>1. /\ leases[q].status = "active" /\ Extend(q, left, started)
          /\ Answered(q, left)
      BY <1>3, <2>2 DEF RenewWrites, Renewable, Extend, left
    <3>2. acting' \in [Requests -> Int] /\ \A p \in Requests : p # q => acting'[p] = acting[p]
      BY <2>1, <3>1, AnswerIs
    <3>3. started \in {0, 1}
      BY <2>1, RowTypes
    <3> HIDE DEF started
    <3>4. RowsFine'
      BY <2>1, <3>1, <3>2, <3>3, ExtendKeepsRows
    <3> QED BY <1>1, <1>3, <3>4, Stays DEF RenewWrites
  <2>3. CASE ~Renewable(q, k.age)
    <3>1. Answered(q, Stopped) /\ UNCHANGED <<leases, anchors>>
      BY <1>3, <2>3 DEF RenewWrites
    <3>2. acting' \in [Requests -> Int] /\ \A p \in Requests : acting'[p] \in {acting[p], Stopped}
      BY <2>1, <3>1, Floors, AnswerIs
    <3>3. RowsFine'
      BY <3>1, <3>2, HoldersKeepRows
    <3> QED BY <1>1, <1>3, <3>3, Stays DEF RenewWrites
  <2> QED BY <2>2, <2>3
<1>4. CASE StartWrites(c)
  <2>1. q \in Requests /\ k.left \in Lengths(q) /\ left \in Int /\ left <= k.left
    BY <1>2, <1>4 DEF StartWrites
  <2>2. CASE Startable(q, k.age)
    <3>1. /\ leases[q].status = "active" /\ Extend(q, left, 1) /\ Answered(q, left)
      BY <1>4, <2>2 DEF StartWrites, Startable, Extend, left
    <3>2. acting' \in [Requests -> Int] /\ \A p \in Requests : p # q => acting'[p] = acting[p]
      BY <2>1, <3>1, AnswerIs
    <3>3. RowsFine'
      BY <2>1, <3>1, <3>2, ExtendKeepsRows
    <3> QED BY <1>1, <1>4, <3>3, Stays DEF StartWrites
  <2>3. CASE ~Startable(q, k.age)
    BY <1>1, <1>4, <2>3, Stays DEF StartWrites
  <2> QED BY <2>2, <2>3
<1>5. CASE Dies(c)
  BY <1>1, <1>5, Stays DEF Dies
<1> QED BY <1>3, <1>4, <1>5

LEMMA TimeKeeps ==
    ASSUME Kept, Tick
    PROVE  Kept'
<1>1. UNCHANGED moves
  BY DEF Tick
<1> QED BY <1>1, TickKeepsLine, TickKeepsRows, TickKeepsCalls, Stays DEF Kept

-----------------------------------------------------------------------------
(* The invariant.                                                          *)

\* The steps that change a lease or what a holder knows of it.
LEMMA LeaseSteps ==
    ASSUME Next
    PROVE  \/ UNCHANGED <<leases, acting, undercut>>
           \/ \E c \in Callers : OfferEnds(c) \/ Grant(c) \/ RenewWrites(c) \/ StartWrites(c)
           \/ \E c \in Callers, q \in Requests : Release(c, q) \/ Revoke(c, q) \/ SweepEnds(c, q)
           \/ \E q \in Requests : Holds(q)
           \/ Tick
<1>1. ASSUME NEW c \in Callers, CallSteps(c) \/ Dies(c)
      PROVE  \/ UNCHANGED <<leases, acting, undercut>>
             \/ OfferEnds(c) \/ Grant(c) \/ RenewWrites(c) \/ StartWrites(c)
  BY <1>1 DEF CallSteps, Dies, AskCreates, AskParks, OfferFindsLapsed, OfferStops, OfferExpires,
              OfferRefuses, OfferDecides, GrantLoses
<1>2. ASSUME NEW c \in Callers, NEW r \in Resources,
             Register(c, r) \/ Update(c, r) \/ SweepOffers(c, r)
      PROVE  UNCHANGED <<leases, acting, undercut>>
  BY <1>2 DEF Register, Update, SweepOffers
<1>3. ASSUME NEW r \in Resources, Retire(r) PROVE UNCHANGED <<leases, acting, undercut>>
  BY <1>3 DEF Retire
<1>4. ASSUME NEW c \in Callers, NEW q \in Requests,
             AskReads(c, q) \/ Reorder(c, q) \/ RenewReads(c, q) \/ StartReads(c, q)
      PROVE  UNCHANGED <<leases, acting, undercut>>
  BY <1>4 DEF AskReads, Reorder, RenewReads, StartReads
<1>5. ASSUME NEW q \in Requests,
             Cancel(q) \/ WaiterEnds(q) \/ Leave(q) \/ SweepExpires(q) \/ Strand(q)
      PROVE  UNCHANGED <<leases, acting, undercut>>
  BY <1>5 DEF Cancel, WaiterEnds, Leave, SweepExpires, Strand
<1> QED BY <1>1, <1>2, <1>3, <1>4, <1>5 DEF Next

\* They are requests, whoever was told what.
LEMMA UndercutAre ==
    ASSUME CallsFine, undercut \subseteq Requests, Next
    PROVE  undercut' \subseteq Requests
<1>1. ASSUME NEW c \in Callers, calls[c].pc \in {"ending", "renewing", "starting"}
      PROVE  calls[c].req \in Requests
  BY <1>1, CallFields DEF Fine, CallIsSound
<1>2. ASSUME NEW c \in Callers, OfferEnds(c) PROVE undercut' \subseteq Requests
  BY <1>1, <1>2 DEF OfferEnds
<1>3. ASSUME NEW q \in Requests, NEW left, NEW started, Extend(q, left, started)
      PROVE  undercut' \subseteq Requests
  BY <1>3 DEF Extend
<1>4. ASSUME NEW c \in Callers, RenewWrites(c) \/ StartWrites(c)
      PROVE  undercut' \subseteq Requests
  <2>1. calls[c].req \in Requests
    BY <1>1, <1>4 DEF RenewWrites, StartWrites
  <2> QED BY <1>3, <1>4, <2>1 DEF RenewWrites, StartWrites
<1>5. ASSUME NEW c \in Callers, NEW q \in Requests,
             Release(c, q) \/ Revoke(c, q) \/ SweepEnds(c, q)
      PROVE  undercut' \subseteq Requests
  BY <1>5 DEF Release, Revoke, SweepEnds
<1>6. ASSUME NEW c \in Callers, Grant(c) PROVE undercut' \subseteq Requests
  BY <1>6 DEF Grant
<1>7. ASSUME NEW q \in Requests, Holds(q) PROVE undercut' \subseteq Requests
  BY <1>7 DEF Holds
<1>8. ASSUME Tick PROVE undercut' \subseteq Requests
  BY <1>8 DEF Tick
<1> QED BY <1>2, <1>4, <1>5, <1>6, <1>7, <1>8, LeaseSteps

LEMMA InitIsKept == Init => IInv
<1> SUFFICES ASSUME Init PROVE IInv
  OBVIOUS
<1>1. RowsFine
  <2>1. /\ anchors = [r \in Resources |-> Unregistered] /\ leases = [q \in Requests |-> NoLease]
        /\ acting = [q \in Requests |-> Stopped]
    BY DEF Init
  <2>2. /\ Unregistered \in AnchorRow /\ Unregistered.state = "absent"
        /\ Unregistered.token = 0 /\ Unregistered.lease = None
    BY DEF Unregistered, Anchor, AnchorRow
  <2>3. NoLease \in LeaseRow /\ NoLease.status = "none" /\ NoLease.res = None
    BY DEF NoLease, Lease, LeaseRow
  <2>4. anchors \in [Resources -> AnchorRow] /\ leases \in [Requests -> LeaseRow]
        /\ acting \in [Requests -> Int]
    BY <2>1, <2>2, <2>3, Floors
  <2>5. AnchorsAreSound
    BY <2>1, <2>2 DEF AnchorsAreSound
  <2>6. LeasesAreSound
    BY <2>1, <2>3, Floors DEF LeasesAreSound, Acting
  <2>7. AnchorNames
    BY <2>1, <2>2, <2>3 DEF AnchorNames
  <2>8. TokensDiffer
    BY <2>1, <2>3 DEF TokensDiffer
  <2> QED BY <2>4, <2>5, <2>6, <2>7, <2>8 DEF RowsFine
<1>2. LineFine
  <2>1. /\ requests = [q \in Requests |-> Request("absent", 0, "none")] /\ line = <<>>
    BY DEF Init
  <2>2. requests \in [Requests -> RequestRow]
    BY <2>1 DEF Request, RequestRow
  <2>3. \A q \in Requests : ~Waiting(q) /\ requests[q].waiter # "parked"
    BY <2>1 DEF Request, Waiting
  <2> QED BY <2>1, <2>2, <2>3 DEF LineFine, LineIsWaiting, ParkedStillWaits
<1>3. CallsFine
  BY IdleIsFine DEF Init, CallsFine, CallsAreSound, Fine
<1>4. moves \in 0..MaxMoves
  BY Numbers DEF Init
<1>5. undercut \subseteq Requests
  BY DEF Init
<1> QED BY <1>1, <1>2, <1>3, <1>4, <1>5, Parts

LEMMA NextIsKept == IInv /\ [Next]_vars => IInv'
<1> SUFFICES ASSUME IInv, [Next]_vars PROVE IInv'
  OBVIOUS
<1>1. Kept
  BY Parts DEF Kept
<1>2. Kept' => IInv'
  <2>1. undercut \subseteq Requests
    BY Parts
  <2>2. undercut' \subseteq Requests
    BY <1>1, <2>1, UndercutAre DEF Kept, vars
  <2> QED BY <2>2, Parts DEF Kept
<1>3. ASSUME NEW c \in Callers, CallSteps(c) \/ Dies(c) PROVE Kept'
  BY <1>1, <1>3, AsksKeep, OffersKeep, GrantsKeep, WritesKeep DEF CallSteps
<1>4. ASSUME NEW c \in Callers, NEW r \in Resources,
             Register(c, r) \/ Update(c, r) \/ SweepOffers(c, r)
      PROVE  Kept'
  BY <1>1, <1>4, OwnersKeep
<1>5. ASSUME NEW r \in Resources, Retire(r) PROVE Kept'
  BY <1>1, <1>5, OwnersKeep
<1>6. ASSUME NEW c \in Callers, NEW q \in Requests,
             \/ AskReads(c, q) \/ Reorder(c, q) \/ Release(c, q) \/ Revoke(c, q)
             \/ RenewReads(c, q) \/ StartReads(c, q) \/ SweepEnds(c, q)
      PROVE  Kept'
  BY <1>1, <1>6, AsksKeep, HoldersKeep
<1>7. ASSUME NEW q \in Requests,
             Cancel(q) \/ WaiterEnds(q) \/ Leave(q) \/ SweepExpires(q) \/ Strand(q)
      PROVE  Kept'
  BY <1>1, <1>7, LinesKeep
<1>8. ASSUME NEW q \in Requests, Holds(q) PROVE Kept'
  <2>1. /\ acting' \in [Requests -> Int] /\ leases[q].status = "active"
        /\ \A p \in Requests : p # q => acting'[p] = acting[p]
    BY <1>1, <1>8, RowTypes DEF Holds, Kept, RowsFine
  <2>2. RowsFine'
    BY <1>1, <1>8, <2>1, HoldersKeepRows DEF Holds, Kept
  <2> QED BY <1>1, <1>8, <2>2, Stays DEF Holds, Kept
<1>9. ASSUME Tick PROVE Kept'
  BY <1>1, <1>9, TimeKeeps
<1>10. ASSUME UNCHANGED vars PROVE Kept'
  BY <1>1, <1>10, Stays DEF vars, Kept
<1> QED BY <1>2, <1>3, <1>4, <1>5, <1>6, <1>7, <1>8, <1>9, <1>10 DEF Next

\* Whatever comes in between a call's reads and its write, the rows, the line and
\* the calls agree with each other as IInv says.
THEOREM LeasesInvariant == Spec => []IInv
<1>1. Init => IInv
  BY InitIsKept
<1>2. IInv /\ [Next]_vars => IInv'
  BY NextIsKept
<1> QED BY <1>1, <1>2, PTL DEF Spec

LEMMA AnchorsAgree == IInv => AnchorAgrees
<1> SUFFICES ASSUME RowsFine, NEW r \in Resources
             PROVE  /\ ActiveOn(r) = {anchors[r].lease} \ {None}
                    /\ \A q \in ActiveOn(r) :
                          /\ anchors[r].token = leases[q].token
                          /\ anchors[r].held = leases[q].left
                    /\ \A p, q \in Requests :
                          leases[p].res = r /\ leases[q].res = r /\ p # q =>
                             /\ leases[p].token # leases[q].token
                             /\ leases[p].token <= anchors[r].token
  BY Parts DEF AnchorAgrees
<1>1. r # None /\ NoLease.res = None
  BY Numbers DEF NoLease, Lease
<1>2. ASSUME NEW q \in Requests
      PROVE  leases[q].status = "active" /\ leases[q].res = r <=>
                anchors[r].lease = q
  <2>1. leases[q].status = "active" => anchors[leases[q].res].lease = q
    BY ActiveRow
  <2>2. anchors[r].lease = q => leases[q].status = "active" /\ leases[q].res = r
    BY Numbers DEF RowsFine, AnchorNames
  <2> QED BY <2>1, <2>2
<1>3. anchors[r].lease \in Requests \cup {None}
  BY RowTypes
<1>4. ActiveOn(r) = {anchors[r].lease} \ {None}
  BY <1>2, <1>3, Numbers DEF ActiveOn
<1>5. \A q \in ActiveOn(r) : anchors[r].token = leases[q].token /\ anchors[r].held = leases[q].left
  BY ActiveRow DEF ActiveOn
<1>6. ASSUME NEW p \in Requests, leases[p].res = r
      PROVE  leases[p].token <= anchors[r].token
  BY <1>1, <1>6 DEF RowsFine, LeasesAreSound
<1>7. \A p, q \in Requests :
         leases[p].res = r /\ leases[q].res = r /\ p # q => leases[p].token # leases[q].token
  BY <1>1 DEF RowsFine, TokensDiffer
<1> QED BY <1>4, <1>5, <1>6, <1>7

\* One lease of a resource at a time, under its newest token: the anchor and the
\* leases agree, whoever grants, renews, starts, ends or revokes in between.
THEOREM AnchorHolds == Spec => []AnchorAgrees
BY LeasesInvariant, AnchorsAgree, PTL

\* No orchestration parks on a request that has left its line.
THEOREM ParkedHold == Spec => []ParkedStillWaits
<1>1. IInv => ParkedStillWaits
  BY DEF IInv
<1> QED BY <1>1, LeasesInvariant, PTL

-----------------------------------------------------------------------------
(* What a step does to one request and to one lease.                       *)

\* A request's status changes when it enters its line and when it leaves it.
LEMMA RequestChanges ==
    ASSUME IInv, Next, NEW q \in Requests
    PROVE  \/ requests'[q].status = requests[q].status
           \/ requests[q].status \in {"absent", "waiting"}
<1>1. Kept
  BY Parts DEF Kept
<1> DEFINE Same == requests'[q].status = requests[q].status
           Open == requests[q].status \in {"absent", "waiting"}
<1>2. requests \in [Requests -> RequestRow]
  BY <1>1 DEF Kept, LineFine
<1>3. ASSUME UNCHANGED requests PROVE Same
  BY <1>3
<1>4. ASSUME NEW p, NEW status, NEW waiter, Settle(p, status, waiter) PROVE Same \/ Open
  BY <1>2, <1>4 DEF Settle, Waiting
<1>5. ASSUME NEW p, NEW w, requests' = [requests EXCEPT ![p].waiter = w] PROVE Same
  BY <1>2, <1>5 DEF RequestRow
<1>6. ASSUME NEW c \in Callers, CallSteps(c) \/ Dies(c) PROVE Same \/ Open
  <2>1. CASE AskCreates(c)
    BY <1>2, <1>3, <2>1 DEF AskCreates
  <2>2. CASE AskParks(c)
    <3> DEFINE p == calls[c].park
               w == IF requests[p].waiter # "none" THEN requests[p].waiter
                    ELSE IF MayPark(p) THEN "parked" ELSE "told"
    <3>1. p \in Requests
      BY <1>1, <2>2, CallFields DEF Kept, AskParks, Fine, CallIsSound
    <3>2. requests' = [requests EXCEPT ![p].waiter = w]
      BY <1>2, <2>2, <3>1 DEF AskParks
    <3> HIDE DEF w
    <3> QED BY <1>5, <3>2
  <2>3. CASE OfferExpires(c) \/ OfferRefuses(c)
    BY <1>4, <2>3 DEF OfferExpires, OfferRefuses
  <2>4. CASE Grant(c)
    <3>1. Waiting(calls[c].req)
      BY <2>4 DEF Grant, GrantLands
    <3> QED BY <1>2, <2>4, <3>1 DEF Grant, Waiting
  <2>5. CASE OfferFindsLapsed(c) \/ OfferEnds(c) \/ OfferStops(c) \/ OfferDecides(c)
    BY <1>3, <2>5 DEF OfferFindsLapsed, OfferEnds, OfferStops, OfferDecides
  <2>6. CASE GrantLoses(c) \/ RenewWrites(c) \/ StartWrites(c) \/ Dies(c)
    BY <1>3, <2>6 DEF GrantLoses, RenewWrites, StartWrites, Dies
  <2> QED BY <1>6, <2>1, <2>2, <2>3, <2>4, <2>5, <2>6 DEF CallSteps
<1>7. ASSUME NEW c \in Callers, NEW r \in Resources,
             Register(c, r) \/ Update(c, r) \/ SweepOffers(c, r)
      PROVE  Same
  BY <1>3, <1>7 DEF Register, Update, SweepOffers
<1>8. ASSUME NEW r \in Resources, Retire(r) PROVE Same
  BY <1>3, <1>8 DEF Retire
<1>9. ASSUME NEW c \in Callers, NEW p \in Requests,
             \/ AskReads(c, p) \/ Reorder(c, p) \/ Release(c, p) \/ Revoke(c, p)
             \/ RenewReads(c, p) \/ StartReads(c, p) \/ SweepEnds(c, p)
      PROVE  Same
  BY <1>3, <1>9 DEF AskReads, Reorder, Release, Revoke, RenewReads, StartReads, SweepEnds
<1>10. ASSUME NEW p \in Requests, Cancel(p) \/ Leave(p) \/ SweepExpires(p) \/ Strand(p)
       PROVE  Same \/ Open
  BY <1>4, <1>10 DEF Cancel, Leave, SweepExpires, Strand
<1>11. ASSUME NEW p \in Requests, WaiterEnds(p) \/ Holds(p) PROVE Same
  BY <1>3, <1>5, <1>11 DEF WaiterEnds, Holds
<1>12. ASSUME Tick PROVE Same
  <2>1. requests' = [p \in Requests |-> [requests[p] EXCEPT !.wait = Down(@, 0)]]
    BY <1>12 DEF Tick
  <2> QED BY <1>2, <2>1 DEF RequestRow
<1> HIDE DEF Same, Open
<1>13. Same \/ Open
  BY <1>6, <1>7, <1>8, <1>9, <1>10, <1>11, <1>12 DEF Next
<1> QED BY <1>13 DEF Same, Open

\* A lease changes while it runs; it begins in a grant and in no other way.
LEMMA LeaseChanges ==
    ASSUME IInv, Next, NEW q \in Requests
    PROVE  \/ leases'[q] = leases[q]
           \/ leases[q].status = "active"
           \/ \E c \in Callers : Grant(c) /\ calls[c].req = q
<1>1. Kept
  BY Parts DEF Kept
<1> DEFINE Same == leases'[q] = leases[q]
           Runs == leases[q].status = "active"
           Begins == \E c \in Callers : Grant(c) /\ calls[c].req = q
<1>2. leases \in [Requests -> LeaseRow]
  BY <1>1 DEF Kept, RowsFine
<1>3. ASSUME UNCHANGED leases PROVE Same
  BY <1>3
<1>4. ASSUME NEW p, NEW status, End(p, status), leases[p].status = "active" PROVE Same \/ Runs
  BY <1>2, <1>4 DEF End
<1>5. ASSUME NEW p, NEW left, NEW started, Extend(p, left, started),
             leases[p].status = "active"
      PROVE  Same \/ Runs
  BY <1>2, <1>5 DEF Extend
<1>6. ASSUME NEW c \in Callers, CallSteps(c) \/ Dies(c) PROVE Same \/ Runs \/ Begins
  <2>1. CASE Grant(c)
    BY <1>2, <2>1 DEF Grant
  <2>2. CASE OfferEnds(c)
    BY <1>3, <1>4, <2>2 DEF OfferEnds
  <2>3. CASE RenewWrites(c)
    BY <1>3, <1>5, <2>3 DEF RenewWrites, Renewable
  <2>4. CASE StartWrites(c)
    BY <1>3, <1>5, <2>4 DEF StartWrites, Startable
  <2>5. CASE OfferFindsLapsed(c) \/ OfferStops(c) \/ OfferDecides(c) \/ OfferExpires(c)
             \/ OfferRefuses(c)
    BY <1>3, <2>5 DEF OfferFindsLapsed, OfferStops, OfferDecides, OfferExpires, OfferRefuses
  <2>6. CASE AskCreates(c) \/ AskParks(c) \/ GrantLoses(c) \/ Dies(c)
    BY <1>3, <2>6 DEF AskCreates, AskParks, GrantLoses, Dies
  <2> QED BY <1>6, <2>1, <2>2, <2>3, <2>4, <2>5, <2>6 DEF CallSteps
<1>7. ASSUME NEW c \in Callers, NEW r \in Resources,
             Register(c, r) \/ Update(c, r) \/ SweepOffers(c, r)
      PROVE  Same
  BY <1>3, <1>7 DEF Register, Update, SweepOffers
<1>8. ASSUME NEW r \in Resources, Retire(r) PROVE Same
  BY <1>3, <1>8 DEF Retire
<1>9. ASSUME NEW c \in Callers, NEW p \in Requests,
             AskReads(c, p) \/ Reorder(c, p) \/ RenewReads(c, p) \/ StartReads(c, p)
      PROVE  Same
  BY <1>3, <1>9 DEF AskReads, Reorder, RenewReads, StartReads
<1>10. ASSUME NEW c \in Callers, NEW p \in Requests,
              Release(c, p) \/ Revoke(c, p) \/ SweepEnds(c, p)
       PROVE  Same \/ Runs
  BY <1>4, <1>10 DEF Release, Revoke, SweepEnds
<1>11. ASSUME NEW p \in Requests,
              \/ Cancel(p) \/ WaiterEnds(p) \/ Leave(p) \/ Holds(p) \/ SweepExpires(p)
              \/ Strand(p)
       PROVE  Same
  BY <1>3, <1>11 DEF Cancel, WaiterEnds, Leave, Holds, SweepExpires, Strand
<1>12. ASSUME Tick PROVE Same \/ Runs
  BY <1>1, <1>12, TickRows DEF Kept
<1> HIDE DEF Same, Runs, Begins
<1>13. Same \/ Runs \/ Begins
  BY <1>6, <1>7, <1>8, <1>9, <1>10, <1>11, <1>12 DEF Next
<1> QED BY <1>13 DEF Same, Runs, Begins

\* A request that is settled stays as it was settled, and a lease that ended as it
\* ended, whichever call lands late.
THEOREM SettledHold == Spec => SettledIsFinal
<1> DEFINE Final == \A q \in Requests :
                       /\ requests[q].status \in {"granted", "cancelled", "expired"} =>
                             requests'[q].status = requests[q].status
                       /\ leases[q].status \notin {"none", "active"} => leases'[q] = leases[q]
<1>1. ASSUME IInv, [Next]_vars PROVE Final
  <2>1. CASE UNCHANGED vars
    BY <2>1 DEF vars
  <2>2. CASE Next
    <3> SUFFICES ASSUME NEW q \in Requests
                 PROVE  /\ requests[q].status \in {"granted", "cancelled", "expired"} =>
                              requests'[q].status = requests[q].status
                        /\ leases[q].status \notin {"none", "active"} => leases'[q] = leases[q]
      OBVIOUS
    <3>1. requests[q].status \in {"granted", "cancelled", "expired"} =>
             requests'[q].status = requests[q].status
      BY <1>1, <2>2, RequestChanges
    <3>2. ASSUME NEW c \in Callers, Grant(c), calls[c].req = q PROVE leases[q].status = "none"
      BY <3>2 DEF Grant, GrantLands, NoLease, Lease
    <3>3. leases[q].status \notin {"none", "active"} => leases'[q] = leases[q]
      BY <1>1, <2>2, <3>2, LeaseChanges
    <3> QED BY <3>1, <3>3
  <2> QED BY <1>1, <2>1, <2>2
<1>2. IInv /\ [Next]_vars => [Final]_vars
  BY <1>1
<1>3. Spec => [][Final]_vars
  BY <1>2, LeasesInvariant, PTL DEF Spec
<1> QED BY <1>3 DEF SettledIsFinal

\* What a grant was decided on may have changed: it lands on a resource whose labels
\* its request still asks for, and within the bound its owner sets by then.
THEOREM GrantsHold == Spec => GrantsFit
<1> DEFINE Fit == \A q \in Requests :
                     leases[q] = NoLease /\ leases'[q] # NoLease =>
                        LET r == leases'[q].res
                        IN /\ StandsIn(q, r)
                           /\ leases'[q].term <= anchors[r].bound
                           /\ leases'[q].left <= anchors[r].bound
<1>1. ASSUME IInv, [Next]_vars PROVE Fit
  <2>1. CASE UNCHANGED vars
    BY <2>1 DEF vars
  <2>2. CASE Next
    <3> SUFFICES ASSUME NEW q \in Requests, leases[q] = NoLease, leases'[q] # NoLease
                 PROVE  LET r == leases'[q].res
                        IN /\ StandsIn(q, r)
                           /\ leases'[q].term <= anchors[r].bound
                           /\ leases'[q].left <= anchors[r].bound
      OBVIOUS
    <3>1. PICK c \in Callers : Grant(c) /\ calls[c].req = q
      BY <1>1, <2>2, LeaseChanges DEF NoLease, Lease
    <3>2. RowsFine /\ CallsFine
      BY <1>1, Parts
    <3> DEFINE k == calls[c]
               bound == anchors[k.res].bound
    <3>3. /\ StandsIn(q, k.res) /\ k.term <= bound /\ k.left <= bound
      BY <3>1 DEF Grant, GrantLands, GrantFits
    <3>4. leases'[q] = Lease("active", k.res, k.token + 1, k.term, k.left - k.age, 0)
      BY <3>1, <3>2 DEF Grant, RowsFine
    <3>5. leases'[q].res = k.res /\ leases'[q].term = k.term /\ leases'[q].left = k.left - k.age
      BY <3>4 DEF Lease
    <3>6. k.res \in Resources /\ k.left \in Int /\ k.age \in Nat /\ bound \in Int
      <4>1. Fine(k) /\ k.pc = "granting" /\ k.left \in Int /\ k.age \in 0..Lag
        BY <3>1, <3>2, CallFields DEF Grant
      <4>2. k.res \in Resources
        BY <4>1 DEF Fine, CallIsSound
      <4>3. bound \in Bounds \cup {0}
        BY <3>2, <4>2, RowTypes
      <4>4. bound \in Int
        <5>1. Bounds \subseteq Nat
          BY Numbers
        <5> HIDE DEF bound
        <5> QED BY <4>3, <5>1
      <4>5. k.age \in Nat
        BY <4>1, Numbers
      <4> QED BY <4>1, <4>2, <4>4, <4>5
    <3>7. k.left - k.age <= bound
      BY <3>3, <3>6
    <3> QED BY <3>3, <3>5, <3>7
  <2> QED BY <1>1, <2>1, <2>2
<1>2. IInv /\ [Next]_vars => [Fit]_vars
  BY <1>1
<1>3. Spec => [][Fit]_vars
  BY <1>2, LeasesInvariant, PTL DEF Spec
<1> QED BY <1>3 DEF GrantsFit

-----------------------------------------------------------------------------
(* Who acts, and until when.                                               *)

\* ActingInv of one request.
Timely(q) == Acting(q) =>
    /\ leases[q].status \in {"active", "revoked"} \/ q \in undercut
    /\ leases[q].status = "active" /\ q \notin undercut =>
          acting[q] + Skew <= leases[q].left + Margin

LEMMA ActingWords ==
    /\ ActingInv <=> \A q \in Requests : Timely(q)
    /\ ActingInv' <=> \A q \in Requests : Timely(q)'
BY DEF ActingInv, ActsUnderLease, DeadlineIsInTime, Timely, Acting

LEMMA NoLeaseChanges ==
    ASSUME ActingInv, UNCHANGED <<leases, acting, undercut>>
    PROVE  ActingInv'
BY ActingWords DEF Timely, Acting

\* A step about one lease and its holder: what is left to show of it.
LEMMA OneHolder ==
    ASSUME ActingInv, NEW q \in Requests,
           \A p \in Requests : p # q => /\ leases'[p] = leases[p] /\ acting'[p] = acting[p]
                                        /\ p \in undercut' <=> p \in undercut,
           Timely(q)'
    PROVE  ActingInv'
<1>1. ASSUME NEW p \in Requests, p # q PROVE Timely(p)'
  BY <1>1, ActingWords DEF Timely, Acting
<1> QED BY <1>1, ActingWords

\* Who acts has not lapsed.
LEMMA LapsedIsStopped ==
    ASSUME Kept, ActingInv, NEW q \in Requests, q \notin undercut,
           leases[q].status = "active", Lapsed(leases[q].left)
    PROVE  ~Acting(q)
<1> SUFFICES ASSUME Acting(q) PROVE FALSE
  OBVIOUS
<1>1. acting[q] + Skew <= leases[q].left + Margin
  BY ActingWords DEF Timely
<1>2. acting[q] > -Skew /\ leases[q].left <= -Margin
  BY DEF Lapsed, Acting, Stopped
<1>3. acting[q] \in Int /\ leases[q].left \in Int /\ Skew \in Nat /\ Margin \in Nat
  BY RowTypes, Numbers DEF Kept
<1> QED BY <1>1, <1>2, <1>3

\* A lease ends when its holder has stopped, is revoked, or is known to be undercut.
LEMMA EndKeepsActing ==
    ASSUME Kept, ActingInv, NEW q \in Requests, NEW status \in Ended, End(q, status),
           \A p \in Requests : p # q => acting'[p] = acting[p] /\ (p \in undercut' <=> p \in undercut),
           status = "revoked" \/ ~Acting(q)' \/ q \in undercut'
    PROVE  ActingInv'
<1> DEFINE l == leases[q]
           L == Lease(status, l.res, l.token, l.term, 0, l.started)
<1>1. leases' = [leases EXCEPT ![q] = L]
  BY DEF End
<1>2. L.status = status
  BY DEF Lease
<1> HIDE DEF L
<1>3. leases'[q].status = status /\ \A p \in Requests : p # q => leases'[p] = leases[p]
  BY <1>1, <1>2 DEF Kept, RowsFine
<1>4. status # "active"
  BY DEF Ended
<1>5. Timely(q)'
  BY <1>3, <1>4 DEF Timely, Acting
<1> QED BY <1>3, <1>5, OneHolder

\* A renewal or a start leaves the margin wide enough for what the holder was told,
\* or undercuts it.
LEMMA ExtendKeepsActing ==
    ASSUME Kept, ActingInv, NEW q \in Requests, NEW left \in Int, NEW started,
           Extend(q, left, started)
    PROVE  ActingInv'
<1> DEFINE L == Lease("active", leases[q].res, leases[q].token, leases[q].term, left, started)
           Short == acting'[q] > Stopped /\ acting'[q] + Skew > left + Margin
<1>1. leases' = [leases EXCEPT ![q] = L]
  BY DEF Extend
<1>2. L.status = "active" /\ L.left = left
  BY DEF Lease
<1> HIDE DEF L
<1>3. leases'[q].status = "active" /\ leases'[q].left = left
      /\ \A p \in Requests : p # q => leases'[p] = leases[p]
  BY <1>1, <1>2 DEF Kept, RowsFine
<1>4. acting' \in [Requests -> Int] /\ \A p \in Requests : p # q => acting'[p] = acting[p]
  BY AnswerIs DEF Extend, Kept
<1>5. undercut' = IF Short THEN undercut \cup {q} ELSE undercut \ {q}
  BY DEF Extend
<1>6. ~Short /\ acting'[q] > Stopped => acting'[q] + Skew <= left + Margin
  <2>1. acting'[q] \in Int /\ Skew \in Nat /\ Margin \in Nat
    BY <1>4, Numbers
  <2> QED BY <2>1
<1>7. Timely(q)'
  BY <1>3, <1>5, <1>6 DEF Timely, Acting
<1> QED BY <1>3, <1>4, <1>5, <1>7, OneHolder

LEMMA RenewKeepsActing ==
    ASSUME Kept, ActingInv, NEW c \in Callers, RenewWrites(c)
    PROVE  ActingInv'
<1> DEFINE k == calls[c]
<1>0. k.req \in Requests /\ k.left \in Lengths(k.req) /\ k.age \in 0..Lag
  BY CallFields DEF RenewWrites, Kept, Fine, CallIsSound
<1> PICK q \in Requests : q = k.req
  BY <1>0
<1>1. k.left - k.age \in Int
  BY <1>0, LengthsAre, Numbers
<1>2. CASE Renewable(q, k.age)
  <2>1. Extend(q, k.left - k.age, leases[q].started)
    BY <1>2 DEF RenewWrites
  <2> QED BY <1>1, <2>1, ExtendKeepsActing
<1>3. CASE ~Renewable(q, k.age)
  <2>1. Answered(q, Stopped) /\ leases' = leases /\ undercut' = undercut
    BY <1>3 DEF RenewWrites
  <2>2. \A p \in Requests : p # q => acting'[p] = acting[p]
    BY <2>1, Floors, AnswerIs DEF Kept
  <2>3. acting'[q] \in {acting[q], Stopped}
    BY <2>1, Floors, AnswerIs DEF Kept
  <2>4. Timely(q)'
    <3>1. ~(Stopped > Stopped)
      BY Floors
    <3>2. Acting(q)' => Acting(q) /\ acting'[q] = acting[q]
      BY <2>3, <3>1 DEF Acting
    <3> QED BY <2>1, <3>2, ActingWords DEF Timely
  <2> QED BY <2>1, <2>2, <2>4, OneHolder
<1> QED BY <1>2, <1>3

LEMMA StartKeepsActing ==
    ASSUME Kept, ActingInv, NEW c \in Callers, StartWrites(c)
    PROVE  ActingInv'
<1> DEFINE k == calls[c]
           q == k.req
<1>1. q \in Requests /\ k.left \in Lengths(q) /\ k.age \in 0..Lag
  BY CallFields DEF StartWrites, Kept, Fine, CallIsSound
<1>2. CASE Startable(q, k.age)
  <2>1. Extend(q, k.left - k.age, 1) /\ k.left - k.age \in Int
    BY <1>1, <1>2, LengthsAre, Numbers DEF StartWrites
  <2> QED BY <1>1, <2>1, ExtendKeepsActing
<1>3. CASE ~Startable(q, k.age)
  BY <1>3, NoLeaseChanges DEF StartWrites
<1> QED BY <1>2, <1>3

LEMMA GrantKeepsActing ==
    ASSUME Kept, ActingInv, NEW c \in Callers, Grant(c)
    PROVE  ActingInv'
<1>0. calls[c].req \in Requests
  BY CallFields DEF Grant, Kept, Fine, CallIsSound
<1> PICK q \in Requests : q = calls[c].req
  BY <1>0
<1>1. leases[q] = NoLease /\ NoLease.status = "none"
  BY DEF Grant, GrantLands, NoLease, Lease
<1>2. ~Acting(q)
  BY <1>1 DEF Kept, RowsFine, LeasesAreSound
<1>3. acting' = acting /\ undercut' = undercut
      /\ \A p \in Requests : p # q => leases'[p] = leases[p]
  BY <1>1 DEF Grant, Kept, RowsFine
<1>4. Timely(q)'
  BY <1>2, <1>3 DEF Timely, Acting
<1> QED BY <1>3, <1>4, OneHolder

LEMMA HoldsKeepsActing ==
    ASSUME Kept, ActingInv, NEW q \in Requests, Holds(q)
    PROVE  ActingInv'
<1>1. /\ leases[q].status = "active" /\ leases' = leases /\ undercut' = undercut \ {q}
      /\ acting' = [acting EXCEPT ![q] = leases[q].left]
  BY DEF Holds
<1>2. acting'[q] = leases[q].left /\ \A p \in Requests : p # q => acting'[p] = acting[p]
  BY <1>1 DEF Kept, RowsFine
<1>3. acting'[q] + Skew <= leases[q].left + Margin
  <2>1. Skew <= Margin /\ leases[q].left \in Int /\ Skew \in Nat /\ Margin \in Nat
    BY MarginAssumption, RowTypes, Numbers DEF Kept
  <2> QED BY <1>2, <2>1
<1>4. Timely(q)'
  BY <1>1, <1>2, <1>3 DEF Timely, Acting
<1> QED BY <1>1, <1>2, <1>4, OneHolder

LEMMA TickKeepsActing ==
    ASSUME Kept, ActingInv, Tick
    PROVE  ActingInv'
<1>1. RowsFine /\ undercut' = undercut
  BY DEF Kept, Tick
<1>2. ASSUME NEW q \in Requests PROVE Timely(q)'
  <2> SUFFICES ASSUME acting'[q] > Stopped
               PROVE  /\ leases'[q].status \in {"active", "revoked"} \/ q \in undercut
                      /\ leases'[q].status = "active" /\ q \notin undercut =>
                            acting'[q] + Skew <= leases'[q].left + Margin
    BY <1>1 DEF Timely, Acting
  <2>1. acting[q] \in Int /\ acting'[q] = Down(acting[q], Stopped)
    BY <1>1, RowTypes, TickRows
  <2>2. acting'[q] = acting[q] - 1 /\ acting[q] > Stopped
    BY <2>1, Floors DEF Down
  <2>3. /\ leases[q].status \in {"active", "revoked"} \/ q \in undercut
        /\ leases[q].status = "active" /\ q \notin undercut =>
              acting[q] + Skew <= leases[q].left + Margin
    BY <2>2, ActingWords DEF Timely, Acting
  <2>4. leases'[q].status = leases[q].status
    BY <1>1, TickRows
  <2>5. ASSUME leases[q].status = "active", q \notin undercut
        PROVE  acting'[q] + Skew <= leases'[q].left + Margin
    <3>1. leases'[q].left = Down(leases[q].left, LeaseFloor) /\ leases[q].left \in Int
      BY <1>1, <2>5, TickRows, RowTypes
    <3>2. acting[q] + Skew <= leases[q].left + Margin
      BY <2>3, <2>5
    <3>3. Skew \in Nat /\ Margin \in Nat /\ LeaseFloor \in Int
      BY Numbers, Floors
    <3>4. leases'[q].left \in Int /\ leases[q].left - 1 <= leases'[q].left
      BY <3>1, <3>3 DEF Down
    <3> QED BY <2>1, <2>2, <3>1, <3>2, <3>3, <3>4
  <2> QED BY <2>3, <2>4, <2>5
<1> QED BY <1>2, ActingWords

LEMMA ActingIsKept ==
    ASSUME IInv, ActingInv, [Next]_vars
    PROVE  ActingInv'
<1>1. Kept
  BY Parts DEF Kept
<1>2. ASSUME Next PROVE ActingInv'
  <2>1. CASE UNCHANGED <<leases, acting, undercut>>
    BY <2>1, NoLeaseChanges
  <2>2. ASSUME NEW c \in Callers, OfferEnds(c) PROVE ActingInv'
    <3>0. calls[c].req \in Requests
      BY <1>1, <2>2, CallFields DEF OfferEnds, Kept, Fine, CallIsSound
    <3> PICK q \in Requests : q = calls[c].req
      BY <3>0
    <3>1. acting' = acting
      BY <2>2 DEF OfferEnds
    <3>2. CASE leases[q].status = "active"
      <4>1. /\ End(q, "expired") /\ "expired" \in Ended
            /\ undercut' = IF Lapsed(leases[q].left) THEN undercut ELSE undercut \cup {q}
        BY <2>2, <3>2 DEF OfferEnds, Ended
      <4>2. ~Acting(q)' \/ q \in undercut'
        BY <1>1, <3>1, <3>2, <4>1, LapsedIsStopped DEF Acting
      <4> QED BY <1>1, <3>1, <4>1, <4>2, EndKeepsActing
    <3>3. CASE leases[q].status # "active"
      BY <2>2, <3>1, <3>3, NoLeaseChanges DEF OfferEnds
    <3> QED BY <3>2, <3>3
  <2>3. ASSUME NEW c \in Callers, Grant(c) \/ RenewWrites(c) \/ StartWrites(c)
        PROVE  ActingInv'
    BY <1>1, <2>3, GrantKeepsActing, RenewKeepsActing, StartKeepsActing
  <2>4. ASSUME NEW c \in Callers, NEW q \in Requests, Release(c, q) PROVE ActingInv'
    <3>1. /\ End(q, "released") /\ "released" \in Ended /\ undercut' = undercut
          /\ acting' = [acting EXCEPT ![q] = Stopped]
      BY <2>4 DEF Release, Ended
    <3>2. ~(Stopped > Stopped)
      BY Floors
    <3>3. ~Acting(q)' /\ \A p \in Requests : p # q => acting'[p] = acting[p]
      BY <1>1, <3>1, <3>2 DEF Acting, Kept, RowsFine
    <3> QED BY <1>1, <3>1, <3>3, EndKeepsActing
  <2>5. ASSUME NEW c \in Callers, NEW q \in Requests, Revoke(c, q) PROVE ActingInv'
    <3>1. /\ End(q, "revoked") /\ "revoked" \in Ended
          /\ acting' = acting /\ undercut' = undercut
      BY <2>5 DEF Revoke, Ended
    <3> QED BY <1>1, <3>1, EndKeepsActing
  <2>6. ASSUME NEW c \in Callers, NEW q \in Requests, SweepEnds(c, q) PROVE ActingInv'
    <3>1. /\ leases[q].status = "active" /\ End(q, "expired") /\ "expired" \in Ended
          /\ acting' = acting /\ undercut' = undercut /\ Lapsed(leases[q].left)
      BY <2>6 DEF SweepEnds, Ended
    <3>2. ~Acting(q)' \/ q \in undercut'
      BY <1>1, <3>1, LapsedIsStopped DEF Acting
    <3> QED BY <1>1, <3>1, <3>2, EndKeepsActing
  <2>7. ASSUME NEW q \in Requests, Holds(q) PROVE ActingInv'
    BY <1>1, <2>7, HoldsKeepsActing
  <2>8. ASSUME Tick PROVE ActingInv'
    BY <1>1, <2>8, TickKeepsActing
  <2> QED BY <1>2, <2>1, <2>2, <2>3, <2>4, <2>5, <2>6, <2>7, <2>8, LeaseSteps
<1>3. ASSUME UNCHANGED vars PROVE ActingInv'
  BY <1>3, NoLeaseChanges DEF vars
<1> QED BY <1>2, <1>3

LEMMA InitActs == Init => ActingInv
<1> SUFFICES ASSUME Init PROVE ActingInv
  OBVIOUS
<1>1. ~(Stopped > Stopped)
  BY Floors
<1>2. \A q \in Requests : ~Acting(q)
  BY <1>1 DEF Init, Acting
<1> QED BY <1>2 DEF ActingInv, ActsUnderLease, DeadlineIsInTime

\* Whoever acts on a resource holds its lease or has had it revoked, however late
\* renewals, starts and offers land (renew_lease, start_lease, _offer) and as slow a
\* clock as the margin outlasts; but for a lease a renewal cut, or an offer ended,
\* shorter than its holder was told by more than the margin covers.
THEOREM ActsHold == Spec => []ActsUnderLease
<1>1. Init => ActingInv
  BY InitActs
<1>2. IInv /\ ActingInv /\ [Next]_vars => ActingInv'
  BY ActingIsKept
<1>3. ActingInv => ActsUnderLease
  BY DEF ActingInv
<1> QED BY <1>1, <1>2, <1>3, LeasesInvariant, PTL DEF Spec

=============================================================================
