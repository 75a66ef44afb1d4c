-------------------------- MODULE WorkQueueProofs --------------------------
(***************************************************************************)
(* TLAPS proofs about WorkQueue: its inductive invariant holds for every   *)
(* number of items, tenants, workers and attempts and for every lease,     *)
(* fence, delay and clock skew that meet TimingAssumption.                 *)
(***************************************************************************)
EXTENDS WorkQueue, FiniteSetTheorems, TLAPS

\* The rows the actions build have the shape of a row.
LEMMA RowTypes ==
    /\ Absent \in RowType
    /\ Idle \in RunType
    /\ \A d \in Int, a \in 0..MaxAttempts : Queued(d, a) \in RowType
    /\ \A st \in {"done", "failed"}, a \in 0..MaxAttempts : Settled(st, a) \in RowType
    /\ \A t \in Tokens, a \in 0..MaxAttempts : Claimed(t, a) \in RowType
    /\ \A a \in 1..MaxAttempts : RetryDelay(a) \in Nat
<1>1. Absent \in RowType
  BY SetsAssumption, NumbersAssumption DEF Absent, Row, RowType
<1>2. Idle \in RunType
  BY <1>1, NumbersAssumption DEF Idle, Slot, RunType
<1>3. \A d \in Int, a \in 0..MaxAttempts : Queued(d, a) \in RowType
  BY NumbersAssumption DEF Absent, Row, RowType, Queued
<1>4. \A st \in {"done", "failed"}, a \in 0..MaxAttempts : Settled(st, a) \in RowType
  BY NumbersAssumption DEF Absent, Row, RowType, Settled
<1>5. \A t \in Tokens, a \in 0..MaxAttempts : Claimed(t, a) \in RowType
  BY NumbersAssumption DEF Absent, Row, RowType, Claimed
<1>6. \A a \in 1..MaxAttempts : RetryDelay(a) \in Nat
  BY NumbersAssumption, CurveAssumption DEF RetryDelay
<1> QED BY <1>1, <1>2, <1>3, <1>4, <1>5, <1>6

\* The fields of a row and of a slot.
LEMMA FieldTypes ==
    /\ \A row \in RowType : /\ row.lease \in Int /\ row.lease <= Lease
                             /\ row.attempts \in 0..MaxAttempts
                             /\ row.token \in Tokens \cup {NoToken}
    /\ \A r \in RunType : /\ r.left \in Nat /\ r.attempts \in 0..MaxAttempts
                           /\ r.renewal \in RowType /\ r.moved \in RowType
                           /\ r.token \in Tokens \cup {NoToken}
<1>1. \A row \in RowType : row.lease \in -1..Lease
  BY DEF RowType
<1>2. \A n \in -1..Lease : n \in Int /\ n <= Lease
  BY NumbersAssumption
<1> QED BY <1>1, <1>2 DEF RowType, RunType

\* Time leaves a row its shape, and moves the lease of a claimed row by one.
LEMMA AgedRowTypes ==
    ASSUME NEW row \in RowType
    PROVE  /\ AgedRow(row) \in RowType
           /\ AgedRow(row).status = row.status
           /\ AgedRow(row).token = row.token
           /\ AgedRow(row).attempts = row.attempts
           /\ row.status = "claimed" /\ row.lease > 0 => AgedRow(row).lease = row.lease - 1
           /\ row.status = "absent" => AgedRow(row) = row
<1>1. CASE row.status = "queued"
  BY <1>1, NumbersAssumption DEF AgedRow, RowType
<1>2. CASE row.status = "claimed"
  BY <1>2, NumbersAssumption DEF AgedRow, RowType
<1>3. CASE row.status \in {"done", "failed"}
  BY <1>3, NumbersAssumption DEF AgedRow, RowType
<1>4. CASE row.status = "absent"
  BY <1>4, NumbersAssumption DEF AgedRow, RowType
<1> QED BY <1>1, <1>2, <1>3, <1>4 DEF RowType

\* Time leaves a slot its shape and what it claims, and moves its deadline by one.
LEMMA AgedRunTypes ==
    ASSUME NEW r \in RunType
    PROVE  /\ AgedRun(r) \in RunType
           /\ AgedRun(r).pc = r.pc /\ AgedRun(r).item = r.item
           /\ AgedRun(r).token = r.token /\ AgedRun(r).attempts = r.attempts
           /\ AgedRun(r).moved = AgedRow(r.moved)
           /\ AgedRun(r).renewal = AgedRow(r.renewal) /\ AgedRun(r).late = r.late
           /\ r.left > 0 => AgedRun(r).left = r.left - 1
<1>1. r.left \in Nat /\ AgedRow(r.moved) \in RowType /\ AgedRow(r.renewal) \in RowType
  BY FieldTypes, AgedRowTypes
<1> DEFINE m == AgedRow(r.moved)
           n == AgedRow(r.renewal)
           l == IF r.left > 0 THEN r.left - 1 ELSE r.left
<1>2. AgedRun(r) = [r EXCEPT !.left = l, !.moved = m, !.renewal = n]
  BY DEF AgedRun
<1>3. l \in Nat /\ (r.left > 0 => l = r.left - 1)
  BY <1>1
<1> HIDE DEF m, n, l
<1>4. m \in RowType /\ n \in RowType
  BY <1>1 DEF m, n
<1>5. /\ AgedRun(r) \in RunType
      /\ AgedRun(r).pc = r.pc /\ AgedRun(r).item = r.item
      /\ AgedRun(r).token = r.token /\ AgedRun(r).attempts = r.attempts
      /\ AgedRun(r).moved = m /\ AgedRun(r).renewal = n /\ AgedRun(r).left = l
      /\ AgedRun(r).late = r.late
  BY <1>2, <1>3, <1>4 DEF RunType
<1> QED BY <1>3, <1>5 DEF m, n

\* The empty queue and idle slots satisfy the inductive invariant.
LEMMA InitIInv == Init => IInv
<1> SUFFICES ASSUME Init PROVE IInv
  OBVIOUS
<1>1. TypeOK
  BY RowTypes, NumbersAssumption DEF Init, TypeOK
<1>2. QED
  BY <1>1 DEF Init, IInv, AttemptsAgree, CopyIsCurrent, TokensDiffer, WritesInFlight,
     LeaseOutlastsFence, Row, Absent, Slot, Idle

\* What a step must do to a slot and to the row it holds for IInv to be kept, when
\* it changes one slot w and no row.
LEMMA SlotStep ==
    ASSUME IInv, NEW w \in Workers, NEW r \in RunType,
           runs' = [runs EXCEPT ![w] = r],
           items' = items, ownCap' = ownCap, owing' \subseteq Items,
           named' \subseteq Items, liveOrgs' = liveOrgs,
           faults' \in 0..MaxFaults, crashes' \in Nat,
           r.token # NoToken <=> r.pc \notin {"idle", "claiming"},
           r.token # NoToken => /\ r.token = runs[w].token
                                /\ r.item = runs[w].item
                                /\ r.attempts = runs[w].attempts,
           r.renewal # Absent
           => \/ r.renewal = runs[w].renewal /\ r.left = runs[w].left
              \/ /\ r.renewal.status = "claimed"
                 /\ r.renewal.token = r.token
                 /\ r.renewal.attempts = r.attempts
                 /\ r.late = 0 => r.renewal.lease >= Lease - (Fence - RenewAfter) + r.left,
           r.renewal # Absent => HasRenewal(r),
           r.pc = "settling"
           => \/ runs[w].pc = "settling" /\ r.moved = runs[w].moved
              \/ /\ r.moved.status \in {"queued", "done", "failed"}
                 /\ r.moved.token = NoToken
                 /\ r.moved.status = "queued" => r.moved.attempts < MaxAttempts,
           r.token # NoToken /\ r.late = 0 => runs[w].late = 0,
           r.pc = "claimed" => runs[w].pc = "claimed" /\ r.left = runs[w].left,
           r.pc = "running"
           => \/ runs[w].pc = "running" /\ r.left = runs[w].left
              \/ runs[w].pc = "claimed" /\ r.left = Fence
    PROVE  IInv'
<1> USE SetsAssumption, NumbersAssumption
<1>1. TypeOK'
  BY DEF IInv, TypeOK
<1>2. \A v \in Workers : v # w => runs'[v] = runs[v]
  BY DEF IInv, TypeOK
<1>3. runs'[w] = r
  BY DEF IInv, TypeOK
<1>4. AttemptsAgree'
  BY DEF IInv, AttemptsAgree
<1>5. CopyIsCurrent'
  BY <1>2, <1>3 DEF IInv, CopyIsCurrent, IsHeld, TokensDiffer
<1>6. TokensDiffer'
  BY <1>2, <1>3 DEF IInv, TokensDiffer, TypeOK
<1>7. WritesInFlight'
  BY <1>2, <1>3 DEF IInv, WritesInFlight, HasRenewal
<1>8. LeaseOutlastsFence'
  <2>1. ASSUME NEW v \in Workers, v # w
        PROVE  /\ runs'[v].pc = "claimed" /\ runs'[v].late = 0
                  => /\ IsHeld(runs[v].item, runs[v].token)
                     /\ items[runs[v].item].lease >= Lease - ClaimDelay + runs[v].left
               /\ runs'[v].pc = "running" /\ runs'[v].late = 0
                  => /\ IsHeld(runs[v].item, runs[v].token)
                     /\ items[runs[v].item].lease >= runs[v].left + Skew
    BY <1>2, <2>1 DEF IInv, LeaseOutlastsFence
  <2>2. CASE r.pc = "running" /\ runs[w].pc = "claimed" /\ r.late = 0
    <3>1. /\ IsHeld(runs[w].item, runs[w].token)
          /\ items[runs[w].item].lease >= Lease - ClaimDelay + runs[w].left
      BY <2>2 DEF IInv, LeaseOutlastsFence
    <3>2. runs[w].item \in Items
      BY <2>2 DEF IInv, TokensDiffer
    <3>3. items[runs[w].item].lease \in Int /\ runs[w].left \in Nat
      BY <3>2, FieldTypes DEF IInv, TypeOK
    <3>4. items[runs[w].item].lease >= Fence + Skew
      BY <3>1, <3>3, TimingAssumption
    <3> QED BY <1>2, <1>3, <2>1, <2>2, <3>1, <3>4 DEF LeaseOutlastsFence, IsHeld
  <2>3. CASE ~(r.pc = "running" /\ runs[w].pc = "claimed" /\ r.late = 0)
    BY <1>2, <1>3, <2>1, <2>3 DEF IInv, LeaseOutlastsFence, IsHeld
  <2> QED BY <2>2, <2>3
<1> QED BY <1>1, <1>4, <1>5, <1>6, <1>7, <1>8 DEF IInv

\* A step that takes rows out of their claims, or moves rows that have none, keeps
\* IInv if no slot in a claim or a handler holds one of those rows afterwards, and
\* if every slot it changes is emptied or goes on to name a dead letter.
LEMMA ReleaseStep ==
    ASSUME IInv,
           items' \in [Items -> RowType], runs' \in [Workers -> RunType],
           ownCap' = ownCap, owing' \subseteq Items,
           named' \subseteq Items, liveOrgs' = liveOrgs,
           faults' \in 0..MaxFaults, crashes' \in Nat,
           \A i \in Items : \/ items'[i] = items[i]
                             \/ /\ items'[i].token = NoToken
                                /\ items'[i].status # "claimed"
                                /\ items'[i].status = "queued"
                                   => items'[i].attempts < MaxAttempts
                                /\ \A v \in Workers :
                                      /\ runs'[v].pc \in {"claimed", "running"}
                                      /\ runs'[v].late = 0
                                      /\ IsHeld(i, runs[v].token)
                                      => runs[v].item # i,
           \A v \in Workers : \/ runs'[v] = runs[v]
                               \/ runs'[v] = Idle
                               \/ /\ runs'[v].pc = "naming"
                                  /\ runs[v].token # NoToken
                                  /\ runs'[v].token = runs[v].token
                                  /\ runs'[v].item = runs[v].item
                                  /\ runs'[v].attempts = runs[v].attempts
                                  /\ runs'[v].left = runs[v].left
                                  /\ runs'[v].renewal = runs[v].renewal
                                  /\ runs'[v].late = runs[v].late
    PROVE  IInv'
<1> USE SetsAssumption, NumbersAssumption
<1>1. TypeOK'
  BY DEF IInv, TypeOK
<1>2. Idle.pc = "idle" /\ Idle.token = NoToken /\ Idle.renewal = Absent
  BY DEF Idle, Slot
<1>3. AttemptsAgree'
  BY DEF IInv, AttemptsAgree
<1>4. TokensDiffer'
  BY <1>2 DEF IInv, TokensDiffer
<1>5. CopyIsCurrent'
  <2> SUFFICES ASSUME NEW v \in Workers,
                      runs'[v].token # NoToken,
                      items'[runs'[v].item].status = "claimed",
                      items'[runs'[v].item].token = runs'[v].token
               PROVE  items'[runs'[v].item].attempts = runs'[v].attempts
    BY DEF CopyIsCurrent, IsHeld
  <2>1. /\ runs[v].token # NoToken
        /\ runs'[v].token = runs[v].token /\ runs'[v].item = runs[v].item
        /\ runs'[v].attempts = runs[v].attempts
    BY <1>2
  <2>2. runs[v].item \in Items
    BY <2>1 DEF IInv, TokensDiffer
  <2>3. items'[runs[v].item] = items[runs[v].item]
    BY <2>1, <2>2
  <2> QED BY <2>1, <2>3 DEF IInv, CopyIsCurrent, IsHeld
<1>6. WritesInFlight'
  BY <1>2 DEF IInv, WritesInFlight, HasRenewal
<1>7. LeaseOutlastsFence'
  <2> SUFFICES ASSUME NEW v \in Workers, runs'[v].pc \in {"claimed", "running"},
                      runs'[v].late = 0
               PROVE  /\ runs'[v] = runs[v]
                      /\ items'[runs[v].item] = items[runs[v].item]
    BY DEF IInv, LeaseOutlastsFence, IsHeld
  <2>1. runs'[v] = runs[v]
    BY <1>2
  <2>2. runs[v].item \in Items /\ IsHeld(runs[v].item, runs[v].token)
    BY <2>1 DEF IInv, TokensDiffer, LeaseOutlastsFence
  <2> QED BY <2>1, <2>2
<1> QED BY <1>1, <1>3, <1>4, <1>5, <1>6, <1>7 DEF IInv

\* A step that empties one slot and leaves every row.
LEMMA EmptySlot ==
    ASSUME IInv, NEW w \in Workers, runs' = [runs EXCEPT ![w] = Idle],
           items' = items, ownCap' = ownCap, owing' \subseteq Items,
           named' \subseteq Items, liveOrgs' = liveOrgs,
           faults' \in 0..MaxFaults, crashes' \in Nat
    PROVE  IInv'
<1>1. Idle.pc = "idle" /\ Idle.token = NoToken /\ Idle.renewal = Absent /\ Idle \in RunType
  BY RowTypes DEF Idle, Slot
<1> QED BY <1>1, SlotStep

\* A step that takes the row of slot w out of w's own claim, while w gives the
\* claim up.
LEMMA EndClaim ==
    ASSUME IInv, NEW w \in Workers, NEW row \in RowType, NEW r \in RunType,
           IsHeld(runs[w].item, runs[w].token), runs[w].token # NoToken,
           items' = [items EXCEPT ![runs[w].item] = row],
           runs' = [runs EXCEPT ![w] = r],
           ownCap' = ownCap, owing' \subseteq Items,
           named' \subseteq Items, liveOrgs' = liveOrgs,
           faults' \in 0..MaxFaults, crashes' \in Nat,
           row.token = NoToken, row.status # "claimed",
           row.status = "queued" => row.attempts < MaxAttempts,
           \/ r = Idle
           \/ /\ r.pc = "naming" /\ r.token = runs[w].token /\ r.item = runs[w].item
              /\ r.attempts = runs[w].attempts /\ r.left = runs[w].left
              /\ r.renewal = runs[w].renewal /\ r.late = runs[w].late
    PROVE  IInv'
<1>1. /\ items' \in [Items -> RowType] /\ runs' \in [Workers -> RunType]
      /\ \A v \in Workers : v # w => runs'[v] = runs[v]
      /\ runs'[w] = r
      /\ \A i \in Items : i # runs[w].item => items'[i] = items[i]
      /\ runs[w].item \in Items => items'[runs[w].item] = row
  BY DEF IInv, TypeOK
<1>2. r.pc \notin {"claimed", "running"}
  BY DEF Idle, Slot
<1>3. \A v \in Workers : IsHeld(runs[w].item, runs[v].token) => v = w
  <2>1. \A v \in Workers : runs[w].token = runs[v].token => v = w
    BY DEF IInv, TokensDiffer
  <2> QED BY <2>1 DEF IsHeld
<1>4. \A v \in Workers : runs'[v].pc \in {"claimed", "running"}
                           => ~IsHeld(runs[w].item, runs[v].token)
  BY <1>1, <1>2, <1>3
<1>5. \A i \in Items : \/ items'[i] = items[i]
                       \/ /\ items'[i].token = NoToken
                          /\ items'[i].status # "claimed"
                          /\ items'[i].status = "queued"
                             => items'[i].attempts < MaxAttempts
                          /\ \A v \in Workers :
                                /\ runs'[v].pc \in {"claimed", "running"}
                                /\ runs'[v].late = 0
                                /\ IsHeld(i, runs[v].token)
                                => runs[v].item # i
  BY <1>1, <1>4
<1> QED BY <1>1, <1>5, ReleaseStep

\* The claim: a fresh token on a queued row and in the slot that claimed it.
LEMMA ClaimNextStep == ASSUME IInv, NEW w \in Workers, ClaimNext(w) PROVE IInv'
<1> USE SetsAssumption, NumbersAssumption
<1>1. CASE Ready(runs[w].atCap) = {} /\ runs' = [runs EXCEPT ![w] = Idle] /\ UNCHANGED items
  BY <1>1, EmptySlot DEF ClaimNext, IInv, TypeOK
<1>2. ASSUME NEW i \in Ready(runs[w].atCap), NEW t \in Tokens \ UsedTokens,
             items' = [items EXCEPT ![i] = Claimed(t, items[i].attempts + 1)],
             runs' = [runs EXCEPT ![w] =
                        Slot("claimed", i, t, items[i].attempts + 1, ClaimDelay, {})]
      PROVE  IInv'
  <2> DEFINE n == items[i].attempts + 1
             r == Slot("claimed", i, t, n, ClaimDelay, {})
  <2>1. i \in Items /\ items[i].status = "queued"
    BY <1>2 DEF Ready
  <2>2. n \in 1..MaxAttempts
    <3>1. items[i] \in RowType /\ items[i].attempts < MaxAttempts
      BY <2>1 DEF IInv, TypeOK, AttemptsAgree
    <3>2. items[i].attempts \in 0..MaxAttempts
      BY <3>1, FieldTypes
    <3> QED BY <3>1, <3>2
  <2>3. Claimed(t, n) \in RowType /\ r \in RunType
    <3>1. n \in 0..MaxAttempts
      BY <2>2
    <3>2. Claimed(t, n) \in RowType
      BY <3>1, RowTypes
    <3>3. r \in RunType
      BY <2>1, <3>1, RowTypes DEF Slot, RunType
    <3> QED BY <3>2, <3>3
  <2>4. /\ Claimed(t, n).status = "claimed" /\ Claimed(t, n).token = t
        /\ Claimed(t, n).attempts = n /\ Claimed(t, n).lease = Lease
        /\ r.pc = "claimed" /\ r.token = t /\ r.item = i /\ r.attempts = n
        /\ r.left = ClaimDelay /\ r.late = 0 /\ r.renewal = Absent
    BY DEF Claimed, Row, Slot
  <2>5. /\ items'[i] = Claimed(t, n) /\ runs'[w] = r
        /\ \A j \in Items : j # i => items'[j] = items[j]
        /\ \A v \in Workers : v # w => runs'[v] = runs[v]
    BY <1>2, <2>1 DEF IInv, TypeOK
  <2>6. /\ t # NoToken
        /\ \A j \in Items : items[j].token # t
        /\ \A v \in Workers : runs[v].token # t
    BY DEF UsedTokens
  <2>7. TypeOK'
    BY <1>2, <2>3 DEF ClaimNext, IInv, TypeOK
  <2>8. AttemptsAgree'
    BY <2>2, <2>4, <2>5 DEF IInv, AttemptsAgree
  <2>9. TokensDiffer'
    BY <2>1, <2>4, <2>5, <2>6 DEF IInv, TokensDiffer
  <2>10. WritesInFlight'
    BY <2>2, <2>4, <2>5 DEF IInv, WritesInFlight, HasRenewal
  <2>11. \A v \in Workers : /\ v # w /\ runs[v].pc \in {"claimed", "running"}
                             /\ runs[v].late = 0
                             => runs[v].item # i
    BY <2>1 DEF IInv, LeaseOutlastsFence, IsHeld
  <2>12. \A v \in Workers : runs[v].token # NoToken => runs[v].item \in Items
    BY DEF IInv, TokensDiffer
  <2>13. LeaseOutlastsFence'
    <3>1. /\ items'[runs'[w].item].status = "claimed"
          /\ items'[runs'[w].item].token = runs'[w].token
          /\ items'[runs'[w].item].lease >= Lease - ClaimDelay + runs'[w].left
          /\ runs'[w].pc = "claimed"
      BY <2>4, <2>5
    <3>2. ASSUME NEW v \in Workers, v # w, runs[v].pc \in {"claimed", "running"},
                 runs[v].late = 0
          PROVE  /\ runs'[v] = runs[v]
                 /\ items'[runs[v].item] = items[runs[v].item]
      <4>1. runs[v].item \in Items
        BY <3>2, <2>12 DEF IInv, TokensDiffer
      <4> QED BY <3>2, <4>1, <2>5, <2>11
    <3> QED BY <3>1, <3>2, <2>5 DEF IInv, LeaseOutlastsFence, IsHeld
  <2>14. CopyIsCurrent'
    <3> SUFFICES ASSUME NEW v \in Workers,
                        runs'[v].token # NoToken,
                        items'[runs'[v].item].status = "claimed",
                        items'[runs'[v].item].token = runs'[v].token
                 PROVE  items'[runs'[v].item].attempts = runs'[v].attempts
      BY DEF CopyIsCurrent, IsHeld
    <3>1. CASE v = w
      BY <3>1, <2>4, <2>5
    <3>2. CASE v # w
      <4>1. runs'[v] = runs[v] /\ runs[v].token # t
        BY <3>2, <2>5, <2>6
      <4>2. runs[v].item # i
        BY <4>1, <2>4, <2>5
      <4>3. runs[v].item \in Items
        BY <4>1, <2>12 DEF IInv, TokensDiffer
      <4> QED BY <4>1, <4>2, <4>3, <2>5 DEF IInv, CopyIsCurrent, IsHeld
    <3> QED BY <3>1, <3>2
  <2> QED BY <2>7, <2>8, <2>9, <2>10, <2>13, <2>14 DEF IInv
<1> QED BY <1>1, <1>2 DEF ClaimNext

\* The context is minted, or the orphan is failed under its own claim.
LEMMA ServiceContextStep == ASSUME IInv, NEW w \in Workers, ServiceContext(w) PROVE IInv'
<1> USE SetsAssumption, NumbersAssumption
<1>1. runs[w] \in RunType /\ runs[w].pc = "claimed" /\ runs[w].token # NoToken
      /\ runs[w].item \in Items
  BY DEF ServiceContext, IInv, TypeOK, TokensDiffer
<1>2. CASE OrgOf[runs[w].item] \in liveOrgs
  <2> DEFINE r == [runs[w] EXCEPT !.pc = "running", !.left = Fence]
  <2>1. runs' = [runs EXCEPT ![w] = r] /\ items' = items
    BY <1>2 DEF ServiceContext, IInv, TypeOK
  <2>2. r \in RunType /\ r.pc = "running" /\ r.left = Fence /\ r.token = runs[w].token
        /\ r.item = runs[w].item /\ r.attempts = runs[w].attempts
        /\ r.renewal = Absent /\ r.late = runs[w].late
    BY <1>1 DEF RunType, IInv, WritesInFlight, HasRenewal
  <2> QED BY <1>1, <2>1, <2>2, SlotStep DEF ServiceContext, IInv, TypeOK
<1>3. CASE OrgOf[runs[w].item] \notin liveOrgs
  <2>1. /\ Settled("failed", runs[w].attempts) \in RowType
        /\ Settled("failed", runs[w].attempts).token = NoToken
        /\ Settled("failed", runs[w].attempts).status = "failed"
    BY <1>1, RowTypes, FieldTypes DEF Settled, Row
  <2>2. CASE IsHeld(runs[w].item, runs[w].token)
    BY <1>1, <1>3, <2>1, <2>2, RowTypes, EndClaim DEF ServiceContext, IInv, TypeOK
  <2>3. CASE ~IsHeld(runs[w].item, runs[w].token)
    BY <1>3, <2>3, EmptySlot DEF ServiceContext, IInv, TypeOK
  <2> QED BY <2>2, <2>3
<1> QED BY <1>2, <1>3

\* The first half of _transition, for any settlement that ends the claim.
LEMMA BeginTransitionStep ==
    ASSUME IInv, NEW w \in Workers, NEW moved \in RowType, BeginTransition(w, moved),
           moved.status \in {"queued", "done", "failed"}, moved.token = NoToken,
           moved.status = "queued" => moved.attempts < MaxAttempts,
           faults' \in 0..MaxFaults
    PROVE  IInv'
<1> USE SetsAssumption, NumbersAssumption
<1>1. runs[w] \in RunType /\ runs[w].pc = "running" /\ runs[w].token # NoToken
  BY DEF BeginTransition, IInv, TypeOK, TokensDiffer
<1> DEFINE r == [runs[w] EXCEPT !.pc = "settling", !.moved = moved]
<1>2. CASE runs' = [runs EXCEPT ![w] = r]
  <2>1. /\ r \in RunType /\ r.pc = "settling" /\ r.moved = moved /\ r.left = runs[w].left
        /\ r.token = runs[w].token /\ r.item = runs[w].item
        /\ r.attempts = runs[w].attempts /\ r.renewal = runs[w].renewal /\ HasRenewal(r)
        /\ r.late = runs[w].late
    BY <1>1 DEF RunType, HasRenewal
  <2>2. /\ items' = items /\ ownCap' = ownCap /\ owing' \subseteq Items
        /\ named' \subseteq Items /\ liveOrgs' = liveOrgs /\ crashes' \in Nat
    BY DEF BeginTransition, IInv, TypeOK
  <2> HIDE DEF r
  <2> QED BY <1>1, <1>2, <2>1, <2>2, SlotStep
<1>3. CASE runs' = [runs EXCEPT ![w] = Idle]
  BY <1>3, EmptySlot DEF BeginTransition, IInv, TypeOK
<1> QED BY <1>2, <1>3 DEF BeginTransition

\* Every way a handler ends begins a settlement of the right shape.
LEMMA HandlerStep ==
    ASSUME IInv, NEW w \in Workers, HandlerEnds(w) \/ Park(w) \/ Stop(w)
    PROVE  IInv'
<1> USE SetsAssumption, NumbersAssumption
<1> DEFINE n == runs[w].attempts
<1>1. n \in 1..MaxAttempts /\ faults \in 0..MaxFaults
  BY DEF HandlerEnds, Complete, Fail, Refuse, Park, Stop, BeginTransition, IInv, TypeOK,
         TokensDiffer, WritesInFlight
<1>2. n \in 0..MaxAttempts
  BY <1>1
<1>3. \A st \in {"done", "failed"} : /\ Settled(st, n) \in RowType
                                     /\ Settled(st, n).status = st
                                     /\ Settled(st, n).token = NoToken
  BY <1>2, RowTypes DEF Settled, Row
<1>4. \A d \in Int, a \in 0..MaxAttempts : /\ Queued(d, a) \in RowType
                                           /\ Queued(d, a).status = "queued"
                                           /\ Queued(d, a).token = NoToken
                                           /\ Queued(d, a).attempts = a
  BY RowTypes DEF Queued, Row
<1>5. RetryDelay(n) \in Int
  BY <1>1, RowTypes
<1>6. AttemptsAfterHandBack(n) \in 0..MaxAttempts /\ AttemptsAfterHandBack(n) < MaxAttempts
  BY <1>1 DEF AttemptsAfterHandBack
<1>7. Fault => faults' \in 0..MaxFaults
  BY <1>1 DEF Fault
<1>8. CASE Complete(w)
  BY <1>1, <1>3, <1>8, BeginTransitionStep DEF Complete
<1>9. CASE Fail(w)
  BY <1>1, <1>2, <1>3, <1>4, <1>5, <1>9, BeginTransitionStep DEF Fail, IsExhausted
<1>10. CASE Refuse(w)
  BY <1>1, <1>3, <1>10, BeginTransitionStep DEF Refuse
<1>11. CASE Park(w)
  <2>1. PICK d \in ParkDelays :
             BeginTransition(w, Queued(d, AttemptsAfterHandBack(n))) /\ Fault
    BY <1>11 DEF Park
  <2> QED BY <1>4, <1>6, <1>7, <2>1, BeginTransitionStep
<1>12. CASE Stop(w)
  BY <1>4, <1>6, <1>7, <1>12, BeginTransitionStep DEF Stop
<1> QED BY <1>8, <1>9, <1>10, <1>11, <1>12 DEF HandlerEnds

\* The second half of _transition: the conditional write.
LEMMA SettleWriteStep == ASSUME IInv, NEW w \in Workers, SettleWrite(w) PROVE IInv'
<1> USE SetsAssumption, NumbersAssumption
<1>1. /\ runs[w] \in RunType /\ runs[w].moved \in RowType
      /\ runs[w].token # NoToken
      /\ runs[w].moved.status \in {"queued", "done", "failed"}
      /\ runs[w].moved.token = NoToken
      /\ runs[w].moved.status = "queued" => runs[w].moved.attempts < MaxAttempts
  BY FieldTypes DEF SettleWrite, IInv, TypeOK, TokensDiffer, WritesInFlight
<1> DEFINE r == [runs[w] EXCEPT !.pc = "naming", !.moved = Absent]
<1>2. /\ r \in RunType /\ r.pc = "naming" /\ r.left = runs[w].left
      /\ r.token = runs[w].token /\ r.item = runs[w].item
      /\ r.attempts = runs[w].attempts /\ r.renewal = runs[w].renewal
      /\ r.late = runs[w].late
  BY <1>1, RowTypes DEF RunType
<1>3. CASE IsHeld(runs[w].item, runs[w].token)
  <2>1. /\ items' = [items EXCEPT ![runs[w].item] = runs[w].moved]
        /\ runs' = [runs EXCEPT ![w] = r] \/ runs' = [runs EXCEPT ![w] = Idle]
    BY <1>3 DEF SettleWrite
  <2>2. /\ ownCap' = ownCap /\ owing' \subseteq Items /\ named' \subseteq Items
        /\ liveOrgs' = liveOrgs /\ faults' \in 0..MaxFaults /\ crashes' \in Nat
    BY DEF SettleWrite, IInv, TypeOK
  <2> HIDE DEF r
  <2>3. CASE runs' = [runs EXCEPT ![w] = r]
    BY <1>1, <1>2, <1>3, <2>1, <2>2, <2>3, EndClaim
  <2>4. CASE runs' = [runs EXCEPT ![w] = Idle]
    BY <1>1, <1>3, <2>1, <2>2, <2>4, RowTypes, EndClaim
  <2> QED BY <2>1, <2>3, <2>4
<1>4. CASE ~IsHeld(runs[w].item, runs[w].token)
  BY <1>4, EmptySlot DEF SettleWrite, IInv, TypeOK
<1> QED BY <1>3, <1>4

\* Whatever a cancelled task had in flight, landed or not, IInv is kept.
LEMMA CancelStep ==
    ASSUME IInv, NEW w \in Workers, CancelOwner(w),
           faults' \in 0..MaxFaults, crashes' \in Nat,
           UNCHANGED <<ownCap, owing, liveOrgs>>
    PROVE  IInv'
<1> USE SetsAssumption, NumbersAssumption
<1>1. CASE items' = items
  <2>1. runs[w].pc = "naming" => runs[w].item \in Items
    BY DEF IInv, TokensDiffer
  <2>2. named' \subseteq Items
    BY <1>1, <2>1 DEF CancelOwner, IInv, TypeOK
  <2> QED BY <1>1, <2>2, EmptySlot DEF CancelOwner, IInv, TypeOK
<1>2. CASE /\ runs[w].pc = "settling" /\ IsHeld(runs[w].item, runs[w].token)
           /\ items' = [items EXCEPT ![runs[w].item] = runs[w].moved]
           /\ UNCHANGED named
  <2>1. /\ runs[w].moved \in RowType /\ runs[w].token # NoToken
        /\ runs[w].moved.status \in {"queued", "done", "failed"}
        /\ runs[w].moved.token = NoToken
        /\ runs[w].moved.status = "queued" => runs[w].moved.attempts < MaxAttempts
    BY <1>2, FieldTypes DEF IInv, TypeOK, TokensDiffer, WritesInFlight
  <2> QED BY <1>2, <2>1, RowTypes, EndClaim DEF CancelOwner, IInv, TypeOK
<1> QED BY <1>1, <1>2 DEF CancelOwner

\* A renewal in flight is the claimed row with a lease counted from its start.
LEMMA RenewReadStep == ASSUME IInv, NEW w \in Workers, RenewRead(w) PROVE IInv'
<1> USE SetsAssumption, NumbersAssumption
<1>1. /\ runs[w] \in RunType /\ runs[w].token # NoToken /\ runs[w].item \in Items
      /\ runs[w].left \in Nat
  BY FieldTypes DEF RenewRead, HasRenewal, IInv, TypeOK, TokensDiffer
<1>2. CASE IsHeld(runs[w].item, runs[w].token)
  <2> DEFINE row == [items[runs[w].item] EXCEPT !.lease = Lease]
             r == [runs[w] EXCEPT !.renewal = row]
  <2>1. items[runs[w].item] \in RowType
    BY <1>1 DEF IInv, TypeOK
  <2>2. /\ row \in RowType /\ row.status = "claimed" /\ row.token = runs[w].token
        /\ row.lease = Lease /\ row.attempts = items[runs[w].item].attempts
    BY <1>2, <2>1 DEF RowType, IsHeld
  <2> HIDE DEF row
  <2>3. /\ r \in RunType /\ r.pc = runs[w].pc /\ r.left = runs[w].left
        /\ r.moved = runs[w].moved /\ r.renewal = row
        /\ r.token = runs[w].token /\ r.item = runs[w].item
        /\ r.attempts = runs[w].attempts /\ HasRenewal(r) /\ HasRenewal(runs[w])
        /\ r.late = runs[w].late
    BY <1>1, <2>2 DEF RunType, HasRenewal, RenewRead
  <2>4. runs' = [runs EXCEPT ![w] = r] /\ items' = items /\ named' = named
    BY <1>2 DEF RenewRead, row, Renewed
  <2> HIDE DEF r
  <2>5. Lease >= Lease - (Fence - RenewAfter) + runs[w].left
    BY <1>1 DEF RenewRead
  <2>6. row.attempts = runs[w].attempts
    BY <1>1, <1>2, <2>2 DEF IInv, CopyIsCurrent
  <2> QED BY <1>1, <2>2, <2>3, <2>4, <2>5, <2>6, SlotStep
          DEF RenewRead, IInv, TypeOK, TokensDiffer, HasRenewal
<1>3. CASE ~IsHeld(runs[w].item, runs[w].token)
  BY <1>3, CancelStep DEF RenewRead, IInv, TypeOK
<1> QED BY <1>2, <1>3

\* A renewal that lands puts the fence a full half-lease ahead, and the row's
\* lease past it.
LEMMA RenewWriteStep == ASSUME IInv, NEW w \in Workers, RenewWrite(w) PROVE IInv'
<1> USE SetsAssumption, NumbersAssumption
<1> DEFINE i == runs[w].item
           row == runs[w].renewal
           r == [runs[w] EXCEPT !.renewal = Absent, !.left = Fence]
<1>1. /\ runs[w] \in RunType /\ runs[w].token # NoToken /\ i \in Items
      /\ row \in RowType /\ runs[w].left \in Nat /\ row.lease \in Int
  BY FieldTypes DEF RenewWrite, HasRenewal, IInv, TypeOK, TokensDiffer
<1>2. /\ row.status = "claimed" /\ row.token = runs[w].token
      /\ row.attempts = runs[w].attempts
      /\ runs[w].late = 0 => row.lease >= Lease - (Fence - RenewAfter) + runs[w].left
      /\ row.attempts \in 1..MaxAttempts
  BY <1>1 DEF RenewWrite, IInv, WritesInFlight
<1>3. runs[w].late = 0 => row.lease >= Fence + Skew
  BY <1>1, <1>2, TimingAssumption
<1>4. /\ r \in RunType /\ r.pc = runs[w].pc /\ r.left = Fence
      /\ r.moved = runs[w].moved /\ r.renewal = Absent
      /\ r.token = runs[w].token /\ r.item = i /\ r.attempts = runs[w].attempts
      /\ r.pc # "claimed" /\ r.late = runs[w].late
  BY <1>1, RowTypes DEF RunType, RenewWrite, HasRenewal
<1>5. CASE IsHeld(i, runs[w].token)
  <2>1. /\ items' = [items EXCEPT ![i] = row] /\ runs' = [runs EXCEPT ![w] = r]
        /\ named' = named
    BY <1>5 DEF RenewWrite
  <2> HIDE DEF r, row, i
  <2>2. /\ items'[i] = row /\ runs'[w] = r
        /\ \A j \in Items : j # i => items'[j] = items[j]
        /\ \A v \in Workers : v # w => runs'[v] = runs[v]
    BY <1>1, <2>1 DEF IInv, TypeOK
  <2>3. items[i].status = "claimed" /\ items[i].token = runs[w].token
    BY <1>5 DEF IsHeld
  <2>4. \A v \in Workers : v # w /\ runs[v].token # NoToken => runs[v].token # runs[w].token
    BY <1>1 DEF IInv, TokensDiffer
  <2>5. TypeOK'
    BY <1>1, <1>4, <2>1 DEF RenewWrite, IInv, TypeOK
  <2>6. AttemptsAgree'
    BY <1>2, <2>2 DEF IInv, AttemptsAgree
  <2>7. TokensDiffer'
    <3>1. \A j \in Items : items'[j].token = items[j].token /\ items'[j].status = items[j].status
      BY <1>2, <2>2, <2>3
    <3>2. \A v \in Workers : /\ runs'[v].token = runs[v].token
                              /\ runs'[v].item = runs[v].item /\ runs'[v].pc = runs[v].pc
      BY <1>4, <2>2 DEF i
    <3> QED BY <3>1, <3>2 DEF IInv, TokensDiffer
  <2>8. WritesInFlight'
    BY <1>2, <1>4, <2>2 DEF IInv, WritesInFlight, HasRenewal
  <2>9. CopyIsCurrent'
    <3> SUFFICES ASSUME NEW v \in Workers, runs'[v].token # NoToken,
                        items'[runs'[v].item].status = "claimed",
                        items'[runs'[v].item].token = runs'[v].token
                 PROVE  items'[runs'[v].item].attempts = runs'[v].attempts
      BY DEF CopyIsCurrent, IsHeld
    <3>1. CASE v = w
      BY <3>1, <1>2, <1>4, <2>2
    <3>2. CASE v # w
      <4>1. runs'[v] = runs[v] /\ runs[v].token # NoToken
        BY <2>2, <3>2
      <4>2. runs[v].item # i
        BY <1>2, <2>2, <2>4, <3>2, <4>1
      <4>3. runs[v].item \in Items
        BY <4>1 DEF IInv, TokensDiffer
      <4>4. items'[runs[v].item] = items[runs[v].item]
        BY <2>2, <4>2, <4>3
      <4>5. items[runs[v].item].status = "claimed" /\ items[runs[v].item].token = runs[v].token
        BY <4>1, <4>4
      <4> QED BY <4>1, <4>4, <4>5 DEF IInv, CopyIsCurrent, IsHeld
    <3> QED BY <3>1, <3>2
  <2>10. LeaseOutlastsFence'
    <3>1. ASSUME NEW v \in Workers, v # w, runs[v].pc \in {"claimed", "running"},
                 runs[v].late = 0
          PROVE  /\ runs'[v] = runs[v]
                 /\ items'[runs[v].item] = items[runs[v].item]
      <4>1. IsHeld(runs[v].item, runs[v].token) /\ runs[v].item \in Items
            /\ runs[v].token # NoToken
        BY <3>1 DEF IInv, LeaseOutlastsFence, TokensDiffer
      <4>2. runs[v].item # i
        BY <3>1, <4>1, <2>3, <2>4 DEF IsHeld
      <4> QED BY <2>2, <3>1, <4>1, <4>2
    <3>2. runs'[w].pc = "running" /\ runs'[w].late = 0
          => /\ items'[runs'[w].item].status = "claimed"
             /\ items'[runs'[w].item].token = runs'[w].token
             /\ items'[runs'[w].item].lease >= runs'[w].left + Skew
      BY <1>2, <1>3, <1>4, <2>2
    <3>3. runs'[w].pc # "claimed"
      BY <1>4, <2>2
    <3> QED BY <3>1, <3>2, <3>3, <2>2 DEF IInv, LeaseOutlastsFence, IsHeld
  <2> QED BY <2>5, <2>6, <2>7, <2>8, <2>9, <2>10 DEF IInv
<1>6. CASE ~IsHeld(i, runs[w].token)
  BY <1>6, CancelStep DEF RenewWrite, IInv, TypeOK
<1> QED BY <1>5, <1>6

\* Time passes: the lease of a claim and the time left to its fence shrink alike.
LEMMA TickStep == ASSUME IInv, Tick PROVE IInv'
<1> USE SetsAssumption, NumbersAssumption
<1>1. \A j \in Items : /\ items[j] \in RowType /\ items'[j] = AgedRow(items[j])
                       /\ items'[j] \in RowType
                       /\ items'[j].status = items[j].status
                       /\ items'[j].token = items[j].token
                       /\ items'[j].attempts = items[j].attempts
                       /\ items[j].status = "claimed" /\ items[j].lease > 0
                          => items'[j].lease = items[j].lease - 1
  BY AgedRowTypes DEF Tick, IInv, TypeOK
<1>2. \A v \in Workers :
        /\ runs[v] \in RunType
        /\ runs'[v] = AgedRun(runs[v])
        /\ runs'[v].pc = runs[v].pc /\ runs'[v].item = runs[v].item
        /\ runs'[v].token = runs[v].token /\ runs'[v].attempts = runs[v].attempts
        /\ runs'[v].moved = AgedRow(runs[v].moved)
        /\ runs'[v].renewal = AgedRow(runs[v].renewal)
        /\ runs'[v].late = runs[v].late
        /\ HasDeadline(runs[v])
           => runs[v].left > 0 /\ runs'[v].left = runs[v].left - 1
  BY AgedRunTypes DEF Tick, IInv, TypeOK
<1>3. \A v \in Workers : runs'[v] \in RunType
  BY <1>2, AgedRunTypes
<1>4. TypeOK'
  BY <1>1, <1>3 DEF Tick, IInv, TypeOK
<1>5. AttemptsAgree'
  BY <1>1 DEF IInv, AttemptsAgree
<1>6. TokensDiffer'
  BY <1>1, <1>2 DEF IInv, TokensDiffer
<1>7. CopyIsCurrent'
  <2> SUFFICES ASSUME NEW v \in Workers, runs'[v].token # NoToken,
                      items'[runs'[v].item].status = "claimed",
                      items'[runs'[v].item].token = runs'[v].token
               PROVE  items'[runs'[v].item].attempts = runs'[v].attempts
    BY DEF CopyIsCurrent, IsHeld
  <2>1. /\ runs'[v].item = runs[v].item /\ runs'[v].token = runs[v].token
        /\ runs'[v].attempts = runs[v].attempts /\ runs[v].token # NoToken
    BY <1>2
  <2>2. runs[v].item \in Items
    BY <2>1 DEF IInv, TokensDiffer
  <2>3. items'[runs[v].item].attempts = items[runs[v].item].attempts
        /\ IsHeld(runs[v].item, runs[v].token)
    BY <1>1, <2>1, <2>2 DEF IsHeld
  <2> QED BY <2>1, <2>3 DEF IInv, CopyIsCurrent
<1>8. WritesInFlight'
  <2> SUFFICES ASSUME NEW v \in Workers
               PROVE  /\ runs'[v].renewal # Absent
                         => /\ HasRenewal(runs'[v])
                            /\ runs'[v].renewal.status = "claimed"
                            /\ runs'[v].renewal.token = runs'[v].token
                            /\ runs'[v].renewal.attempts = runs'[v].attempts
                            /\ runs'[v].late = 0 => runs'[v].renewal.lease
                               >= Lease - (Fence - RenewAfter) + runs'[v].left
                      /\ runs'[v].pc = "settling"
                         => /\ runs'[v].moved.status \in {"queued", "done", "failed"}
                            /\ runs'[v].moved.token = NoToken
                            /\ runs'[v].moved.status = "queued"
                               => runs'[v].moved.attempts < MaxAttempts
                      /\ runs'[v].token # NoToken => runs'[v].attempts \in 1..MaxAttempts
    BY DEF WritesInFlight
  <2>1. /\ runs[v].renewal \in RowType /\ runs[v].moved \in RowType
        /\ runs[v].left \in Nat /\ runs[v].renewal.lease \in Int
    BY <1>2, FieldTypes
  <2>2. CASE runs[v].renewal = Absent
    <3>1. Absent.status = "absent"
      BY DEF Absent, Row
    <3>2. AgedRow(Absent) = Absent
      BY <3>1, RowTypes, AgedRowTypes
    <3> QED BY <1>2, <2>1, <2>2, <3>2, AgedRowTypes DEF IInv, WritesInFlight
  <2>3. CASE runs[v].renewal # Absent
    <3>1. /\ HasRenewal(runs[v]) /\ runs[v].renewal.status = "claimed"
          /\ runs[v].renewal.token = runs[v].token
          /\ runs[v].renewal.attempts = runs[v].attempts
      BY <2>3 DEF IInv, WritesInFlight
    <3>2. ASSUME runs[v].late = 0
          PROVE  runs'[v].renewal.lease >= Lease - (Fence - RenewAfter) + runs'[v].left
      <4>1. runs[v].renewal.lease >= Lease - (Fence - RenewAfter) + runs[v].left
        BY <2>3, <3>2 DEF IInv, WritesInFlight
      <4>2. runs[v].left > 0 /\ runs'[v].left = runs[v].left - 1
        BY <1>2, <3>1, <3>2 DEF HasDeadline
      <4>3. runs[v].renewal.lease > 0
        BY <2>1, <4>1, <4>2, TimingAssumption
      <4>4. AgedRow(runs[v].renewal).lease = runs[v].renewal.lease - 1
        BY <2>1, <3>1, <4>3, AgedRowTypes
      <4> QED BY <1>2, <2>1, <4>1, <4>2, <4>4
    <3> QED BY <1>2, <2>1, <3>1, <3>2, AgedRowTypes DEF IInv, WritesInFlight, HasRenewal
  <2> QED BY <2>2, <2>3
<1>9. LeaseOutlastsFence'
  <2> SUFFICES ASSUME NEW v \in Workers, runs[v].pc \in {"claimed", "running"},
                      runs[v].late = 0
               PROVE  /\ IsHeld(runs[v].item, runs[v].token)
                      /\ items'[runs[v].item].status = "claimed"
                      /\ items'[runs[v].item].token = runs[v].token
                      /\ items'[runs[v].item].lease = items[runs[v].item].lease - 1
                      /\ items[runs[v].item].lease \in Int /\ runs[v].left \in Nat
                      /\ runs'[v].left = runs[v].left - 1
    BY <1>2 DEF IInv, LeaseOutlastsFence, IsHeld
  <2>1. runs[v].item \in Items /\ IsHeld(runs[v].item, runs[v].token)
    BY DEF IInv, TokensDiffer, LeaseOutlastsFence
  <2>2. /\ items[runs[v].item].lease \in Int /\ runs[v].left \in Nat
        /\ runs[v].left > 0 /\ runs'[v].left = runs[v].left - 1
    BY <1>1, <1>2, <2>1, FieldTypes DEF HasDeadline, HasRenewal
  <2>3. items[runs[v].item].lease > 0
    BY <2>2, TimingAssumption DEF IInv, LeaseOutlastsFence
  <2> QED BY <1>1, <2>1, <2>2, <2>3 DEF IsHeld
<1> QED BY <1>4, <1>5, <1>6, <1>7, <1>8, <1>9 DEF IInv

\* The sweep takes no row whose claim is still in a handler: its lease outlasts
\* the fence by more than the sweep's clock is ahead.
LEMMA SweepStep == ASSUME IInv, Sweep PROVE IInv'
<1> USE SetsAssumption, NumbersAssumption
<1>1. PICK batch \in SUBSET {i \in Items : Stale(i)} :
        /\ items' = [i \in Items |->
              IF i \notin batch THEN items[i]
              ELSE IF IsExhausted(items[i].attempts)
                   THEN Settled("failed", items[i].attempts)
                   ELSE Queued(StaggerDelay(i, batch), items[i].attempts)]
        /\ owing' = owing \cup {i \in batch : IsExhausted(items[i].attempts)}
        /\ UNCHANGED <<ownCap, runs, named, liveOrgs, faults, crashes>>
  BY DEF Sweep
<1>2. ASSUME NEW i \in batch PROVE StaggerDelay(i, batch) \in Int
  <2>1. {j \in batch : OrgOf[j] = OrgOf[i] /\ j < i} \subseteq Items
    BY <1>1
  <2>2. Cardinality({j \in batch : OrgOf[j] = OrgOf[i] /\ j < i}) \in Nat
    BY <2>1, FS_Subset, FS_CardinalityType
  <2> QED BY <2>2 DEF StaggerDelay
<1>3. \A i \in batch :
        /\ i \in Items /\ items[i] \in RowType /\ items[i].attempts \in 0..MaxAttempts
        /\ items[i].lease < Skew /\ items[i].lease \in Int
  BY <1>1, FieldTypes DEF Stale, IInv, TypeOK
<1>4. ASSUME NEW i \in batch
      PROVE  /\ items'[i] \in RowType /\ items'[i].token = NoToken
             /\ items'[i].status # "claimed"
             /\ items'[i].status = "queued" => items'[i].attempts < MaxAttempts
  <2>1. CASE IsExhausted(items[i].attempts)
    <3>1. items'[i] = Settled("failed", items[i].attempts)
      BY <1>1, <1>3, <2>1
    <3> QED BY <3>1, <1>3, RowTypes DEF Settled, Row
  <2>2. CASE ~IsExhausted(items[i].attempts)
    <3>1. items'[i] = Queued(StaggerDelay(i, batch), items[i].attempts)
      BY <1>1, <1>3, <2>2
    <3>2. items[i].attempts < MaxAttempts
      BY <1>3, <2>2 DEF IsExhausted
    <3> QED BY <3>1, <3>2, <1>2, <1>3, RowTypes DEF Queued, Row
  <2> QED BY <2>1, <2>2
<1>5. ASSUME NEW i \in batch, NEW v \in Workers, runs[v].pc \in {"claimed", "running"},
             runs[v].late = 0
      PROVE  runs[v].item # i
  <2>1. runs[v].left \in Nat
    BY FieldTypes DEF IInv, TypeOK
  <2> QED BY <1>3, <1>5, <2>1, TimingAssumption DEF IInv, LeaseOutlastsFence
<1>6. items' \in [Items -> RowType]
  BY <1>1, <1>4 DEF IInv, TypeOK
<1>7. \A i \in Items : i \notin batch => items'[i] = items[i]
  BY <1>1
<1>8. owing' \subseteq Items
  BY <1>1 DEF IInv, TypeOK
<1> QED BY <1>1, <1>4, <1>5, <1>6, <1>7, <1>8, ReleaseStep DEF IInv, TypeOK

\* A step that moves one row no claim is on: enqueue, purge, requeue.
LEMMA FreeRowStep ==
    ASSUME IInv, NEW i \in Items, NEW row \in RowType, items[i].status # "claimed",
           items' = [items EXCEPT ![i] = row], row.token = NoToken,
           row.status # "claimed", row.status = "queued" => row.attempts < MaxAttempts,
           named' \subseteq Items, faults' \in 0..MaxFaults,
           UNCHANGED <<ownCap, runs, owing, liveOrgs, crashes>>
    PROVE  IInv'
<1>1. items' \in [Items -> RowType] /\ items'[i] = row
      /\ \A j \in Items : j # i => items'[j] = items[j]
  BY DEF IInv, TypeOK
<1>2. \A v \in Workers : ~IsHeld(i, runs[v].token)
  BY DEF IsHeld
<1> QED BY <1>1, <1>2, ReleaseStep DEF IInv, TypeOK

\* A new row has no claim on it and its attempts ahead of it; a repeated key is no
\* step at all.
LEMMA EnqueueStep == ASSUME IInv, NEW i \in Items, Enqueue(i) PROVE IInv'
<1> USE SetsAssumption, NumbersAssumption
<1>1. CASE items[i].status = "absent"
  <2>1. PICK d \in StartDelays : items' = [items EXCEPT ![i] = Queued(d, 0)]
    BY <1>1 DEF Enqueue
  <2>2. /\ Queued(d, 0) \in RowType /\ Queued(d, 0).token = NoToken
        /\ Queued(d, 0).status = "queued" /\ Queued(d, 0).attempts < MaxAttempts
    BY RowTypes DEF Queued, Row
  <2> QED BY <1>1, <2>1, <2>2, FreeRowStep DEF Enqueue, IInv, TypeOK
<1>2. CASE items[i].status # "absent"
  <2>1. UNCHANGED vars
    BY <1>2 DEF Enqueue, vars
  <2> QED BY <2>1 DEF vars, IInv, TypeOK, AttemptsAgree, CopyIsCurrent, TokensDiffer,
                      WritesInFlight, LeaseOutlastsFence, IsHeld
<1> QED BY <1>1, <1>2

\* The purge deletes settled rows, which no claim is on.
LEMMA PurgeStep == ASSUME IInv, NEW i \in Items, Purge(i) PROVE IInv'
<1>1. Absent \in RowType /\ Absent.token = NoToken /\ Absent.status = "absent"
  BY RowTypes DEF Absent, Row
<1>2. faults' \in 0..MaxFaults
  BY NumbersAssumption DEF Purge, Fault, IInv, TypeOK
<1> QED BY <1>1, <1>2, FreeRowStep DEF Purge, IInv, TypeOK

\* The operator's requeue gives a dead letter its attempts back.
LEMMA OperatorRequeueStep == ASSUME IInv, NEW i \in Items, OperatorRequeue(i) PROVE IInv'
<1>1. /\ Queued(0, 0) \in RowType /\ Queued(0, 0).token = NoToken
      /\ Queued(0, 0).status = "queued" /\ Queued(0, 0).attempts < MaxAttempts
  BY NumbersAssumption, RowTypes DEF Queued, Row
<1>2. faults' \in 0..MaxFaults
  BY NumbersAssumption DEF OperatorRequeue, Fault, IInv, TypeOK
<1> QED BY <1>1, <1>2, FreeRowStep DEF OperatorRequeue, IInv, TypeOK

\* The steps that touch neither a row nor a slot.
LEMMA OtherStep ==
    ASSUME IInv, UNCHANGED <<items, runs>>, TypeOK' PROVE IInv'
BY DEF IInv, AttemptsAgree, CopyIsCurrent, TokensDiffer, WritesInFlight,
       LeaseOutlastsFence, IsHeld

\* A stall moves no row and takes the slot out of what the deadlines promise.
LEMMA StallStep == ASSUME IInv, NEW w \in Workers, Stall(w) PROVE IInv'
<1> USE SetsAssumption, NumbersAssumption
<1> DEFINE r == [runs[w] EXCEPT !.late = 1]
<1>1. runs[w] \in RunType /\ runs' = [runs EXCEPT ![w] = r]
  BY DEF Stall, IInv, TypeOK
<1>2. /\ r \in RunType /\ r.pc = runs[w].pc /\ r.token = runs[w].token
      /\ r.item = runs[w].item /\ r.attempts = runs[w].attempts /\ r.left = runs[w].left
      /\ r.moved = runs[w].moved /\ r.renewal = runs[w].renewal /\ r.late = 1
  BY <1>1 DEF RunType
<1>3. /\ r.token # NoToken <=> r.pc \notin {"idle", "claiming"}
      /\ r.renewal # Absent => HasRenewal(r)
  BY <1>2 DEF IInv, TokensDiffer, WritesInFlight, HasRenewal
<1>4. /\ items' = items /\ ownCap' = ownCap /\ owing' \subseteq Items
      /\ named' \subseteq Items /\ liveOrgs' = liveOrgs /\ crashes' \in Nat
      /\ faults' \in 0..MaxFaults
  BY DEF Stall, Fault, IInv, TypeOK
<1> HIDE DEF r
<1>5. /\ r.token # NoToken => /\ r.token = runs[w].token
                             /\ r.item = runs[w].item
                             /\ r.attempts = runs[w].attempts
      /\ r.token # NoToken /\ r.late = 0 => runs[w].late = 0
  BY <1>2
<1> QED BY <1>1, <1>2, <1>3, <1>4, <1>5, SlotStep, ZenonT(60)

\* Every step keeps the inductive invariant.
LEMMA NextIInv == IInv /\ [Next]_vars => IInv'
<1> SUFFICES ASSUME IInv, [Next]_vars PROVE IInv'
  OBVIOUS
<1> USE SetsAssumption, NumbersAssumption
<1>1. ASSUME NEW i \in Items, SweepNames(i) PROVE IInv'
  BY <1>1, OtherStep DEF SweepNames, IInv, TypeOK
<1>2. ASSUME NEW o \in Orgs, SetTenantCap(o) \/ ClearTenantCap(o) \/ DeleteOrg(o) PROVE IInv'
  <2>1. CASE SetTenantCap(o)
    BY <2>1, OtherStep DEF SetTenantCap, Fault, IInv, TypeOK
  <2>2. CASE ClearTenantCap(o)
    BY <2>2, OtherStep DEF ClearTenantCap, Fault, IInv, TypeOK
  <2>3. CASE DeleteOrg(o)
    BY <2>3, OtherStep DEF DeleteOrg, Fault, IInv, TypeOK
  <2> QED BY <1>2, <2>1, <2>2, <2>3
<1>3. CASE SweepFails
  <2>1. TypeOK'
    BY <1>3 DEF SweepFails, Fault, IInv, TypeOK
  <2> QED BY <1>3, <2>1, OtherStep DEF SweepFails
<1>4. CASE UNCHANGED vars
  BY <1>4, OtherStep DEF vars, IInv, TypeOK
<1>5. ASSUME NEW w \in Workers, ClaimStart(w) PROVE IInv'
  <2> DEFINE r == Slot("claiming", 0, NoToken, 0, 0, {o \in Orgs : IsAtCap(o)})
  <2>1. /\ r \in RunType /\ r.pc = "claiming" /\ r.token = NoToken
        /\ r.renewal = Absent
    BY RowTypes DEF Slot, RunType
  <2>2. runs' = [runs EXCEPT ![w] = r]
    BY <1>5 DEF ClaimStart
  <2> HIDE DEF r
  <2> QED BY <1>5, <2>1, <2>2, SlotStep DEF ClaimStart, IInv, TypeOK
<1>6. ASSUME NEW w \in Workers, ClaimFails(w) PROVE IInv'
  <2>1. faults' \in 0..MaxFaults
    BY <1>6 DEF ClaimFails, Fault, IInv, TypeOK
  <2> QED BY <1>6, <2>1, EmptySlot DEF ClaimFails, IInv, TypeOK
<1>7. ASSUME NEW w \in Workers, NameDeadLetter(w) PROVE IInv'
  <2>1. runs[w].item \in Items
    BY <1>7 DEF NameDeadLetter, IInv, TokensDiffer
  <2> QED BY <1>7, <2>1, EmptySlot DEF NameDeadLetter, IInv, TypeOK
<1>8. ASSUME NEW w \in Workers, FenceReached(w) \/ StopWhileSettling(w) \/ Crash(w)
      PROVE  IInv'
  <2>1. /\ CancelOwner(w) /\ UNCHANGED <<ownCap, owing, liveOrgs>>
        /\ faults' \in 0..MaxFaults /\ crashes' \in Nat
    BY <1>8 DEF FenceReached, StopWhileSettling, Crash, Fault, IInv, TypeOK
  <2> QED BY <2>1, CancelStep
<1> QED BY <1>1, <1>2, <1>3, <1>4, <1>5, <1>6, <1>7, <1>8, StallStep, EnqueueStep, PurgeStep,
           OperatorRequeueStep, ClaimNextStep, ServiceContextStep, HandlerStep,
           SettleWriteStep, RenewReadStep, RenewWriteStep, SweepStep, TickStep
        DEF Next, WorkerStep

\* IInv, and with it the type invariant, holds in every state.
THEOREM InvariantHolds == Spec => []IInv
<1>1. Init => IInv
  BY InitIInv
<1>2. IInv /\ [Next]_vars => IInv'
  BY NextIInv
<1> QED BY <1>1, <1>2, PTL DEF Spec

\* Two workers never advance the same record: for every lease, fence, claim delay
\* and skew with the margins of TimingAssumption, a running handler's row is
\* claimed under its own token (loop.py, _renew_lease).
THEOREM RunnersHold == Spec => []RunnerHoldsItem
<1>1. IInv => RunnerHoldsItem
  BY DEF IInv, LeaseOutlastsFence, RunnerHoldsItem
<1> QED BY <1>1, InvariantHolds, PTL

\* Claims, hand-backs, failures, sweeps and operators agree on the attempts.
THEOREM AttemptsHold == Spec => [](AttemptsAgree /\ CopyIsCurrent)
<1>1. IInv => AttemptsAgree /\ CopyIsCurrent
  BY DEF IInv
<1> QED BY <1>1, InvariantHolds, PTL
-----------------------------------------------------------------------------
(* What a step makes of one row.                                           *)

Passes(old, new) ==
    /\ old.status = "claimed" /\ new.status = "claimed"
          => new.token = old.token /\ new.attempts = old.attempts
    /\ old.status = "done" => new.status \in {"done", "absent"}

\* One row is written, and it passes; the others stay.
LEMMA OneRowPasses ==
    ASSUME IInv, NEW j \in Items, NEW row, items' = [items EXCEPT ![j] = row],
           Passes(items[j], row), NEW i \in Items
    PROVE  Passes(items[i], items'[i])
BY DEF IInv, TypeOK, Passes

LEMMA NoRowPasses ==
    ASSUME UNCHANGED items, NEW i \in Items
    PROVE  Passes(items[i], items'[i])
BY DEF Passes

\* Who holds a claim's token has its item.
LEMMA HoldersItem ==
    ASSUME IInv, NEW w \in Workers, runs[w].pc \notin {"idle", "claiming"}
    PROVE  runs[w].item \in Items /\ runs[w].token # NoToken
BY DEF IInv, TokensDiffer

LEMMA CancelPasses ==
    ASSUME IInv, NEW w \in Workers, CancelOwner(w), NEW i \in Items
    PROVE  Passes(items[i], items'[i])
<1>1. CASE UNCHANGED items
  BY <1>1, NoRowPasses
<1>2. CASE /\ runs[w].pc = "settling" /\ IsHeld(runs[w].item, runs[w].token)
           /\ items' = [items EXCEPT ![runs[w].item] = runs[w].moved]
  <2>1. runs[w].item \in Items
    BY <1>2, HoldersItem
  <2>2. Passes(items[runs[w].item], runs[w].moved)
    BY <1>2 DEF IInv, WritesInFlight, IsHeld, Passes
  <2> QED BY <1>2, <2>1, <2>2, OneRowPasses
<1> QED BY <1>1, <1>2 DEF CancelOwner

LEMMA WorkerPasses ==
    ASSUME IInv, NEW w \in Workers, WorkerStep(w), NEW i \in Items
    PROVE  Passes(items[i], items'[i])
<1> DEFINE r == runs[w]
<1>1. CASE ClaimNext(w)
  <2>1. CASE UNCHANGED items
    BY <2>1, NoRowPasses
  <2>2. ASSUME NEW j \in Ready(r.atCap), NEW t,
               items' = [items EXCEPT ![j] = Claimed(t, items[j].attempts + 1)]
        PROVE  Passes(items[i], items'[i])
    <3>1. j \in Items /\ Passes(items[j], Claimed(t, items[j].attempts + 1))
      BY DEF Ready, Passes
    <3> QED BY <2>2, <3>1, OneRowPasses
  <2> QED BY <1>1, <2>1, <2>2 DEF ClaimNext
<1>2. CASE ServiceContext(w)
  <2>1. CASE UNCHANGED items
    BY <2>1, NoRowPasses
  <2>2. CASE /\ IsHeld(r.item, r.token)
             /\ items' = [items EXCEPT ![r.item] = Settled("failed", r.attempts)]
    <3>1. r.item \in Items
      BY <1>2, HoldersItem DEF ServiceContext
    <3>2. Passes(items[r.item], Settled("failed", r.attempts))
      BY <2>2 DEF Passes, Settled, Row, IsHeld
    <3> QED BY <2>2, <3>1, <3>2, OneRowPasses
  <2> QED BY <1>2, <2>1, <2>2 DEF ServiceContext
<1>3. CASE SettleWrite(w)
  <2>1. CASE UNCHANGED items
    BY <2>1, NoRowPasses
  <2>2. CASE IsHeld(r.item, r.token) /\ items' = [items EXCEPT ![r.item] = r.moved]
    <3>1. r.item \in Items /\ r.pc = "settling"
      BY <1>3, HoldersItem DEF SettleWrite
    <3>2. Passes(items[r.item], r.moved)
      BY <2>2, <3>1 DEF IInv, WritesInFlight, IsHeld, Passes
    <3> QED BY <2>2, <3>1, <3>2, OneRowPasses
  <2> QED BY <1>3, <2>1, <2>2 DEF SettleWrite
<1>4. CASE RenewWrite(w)
  <2>1. CASE IsHeld(r.item, r.token)
    <3>1. r.item \in Items /\ r.token # NoToken /\ r.renewal # Absent
      BY <1>4, HoldersItem DEF RenewWrite, HasRenewal
    <3>2. r.renewal.token = r.token /\ r.renewal.attempts = r.attempts
      BY <3>1 DEF IInv, WritesInFlight
    <3>3. items[r.item].attempts = r.attempts
      BY <2>1, <3>1 DEF IInv, CopyIsCurrent
    <3>4. Passes(items[r.item], r.renewal)
      BY <2>1, <3>2, <3>3 DEF Passes, IsHeld
    <3>5. items' = [items EXCEPT ![r.item] = r.renewal]
      BY <1>4, <2>1 DEF RenewWrite
    <3> QED BY <3>1, <3>4, <3>5, OneRowPasses
  <2>2. CASE ~IsHeld(r.item, r.token)
    BY <1>4, <2>2, CancelPasses DEF RenewWrite
  <2> QED BY <2>1, <2>2
<1>5. CASE RenewRead(w)
  BY <1>5, CancelPasses, NoRowPasses DEF RenewRead
<1>6. CASE FenceReached(w) \/ StopWhileSettling(w) \/ Crash(w)
  BY <1>6, CancelPasses DEF FenceReached, StopWhileSettling, Crash
<1>7. CASE HandlerEnds(w) \/ Park(w) \/ Stop(w)
  BY <1>7, NoRowPasses DEF HandlerEnds, Complete, Fail, Refuse, Park, Stop, BeginTransition
<1>8. CASE ClaimStart(w) \/ ClaimFails(w) \/ NameDeadLetter(w) \/ Stall(w)
  BY <1>8, NoRowPasses DEF ClaimStart, ClaimFails, NameDeadLetter, Stall
<1> QED BY <1>1, <1>2, <1>3, <1>4, <1>5, <1>6, <1>7, <1>8 DEF WorkerStep

LEMMA RowsPass ==
    ASSUME IInv, Next, NEW i \in Items
    PROVE  Passes(items[i], items'[i])
<1>1. ASSUME NEW j \in Items, Enqueue(j) PROVE Passes(items[i], items'[i])
  <2>1. PICK d \in StartDelays :
           items' = IF items[j].status = "absent" THEN [items EXCEPT ![j] = Queued(d, 0)]
                    ELSE items
    BY <1>1 DEF Enqueue
  <2>2. CASE items[j].status = "absent"
    <3>1. Passes(items[j], Queued(d, 0))
      BY <2>2 DEF Passes
    <3> QED BY <2>1, <2>2, <3>1, OneRowPasses
  <2>3. CASE items[j].status # "absent"
    BY <2>1, <2>3, NoRowPasses
  <2> QED BY <2>2, <2>3
<1>2. ASSUME NEW j \in Items, Purge(j) \/ OperatorRequeue(j) PROVE Passes(items[i], items'[i])
  <2>1. CASE Purge(j)
    <3>1. Passes(items[j], Absent) /\ items' = [items EXCEPT ![j] = Absent]
      BY <2>1 DEF Purge, Passes, Absent, Row
    <3> QED BY <3>1, OneRowPasses
  <2>2. CASE OperatorRequeue(j)
    <3>1. Passes(items[j], Queued(0, 0)) /\ items' = [items EXCEPT ![j] = Queued(0, 0)]
      BY <2>2 DEF OperatorRequeue, Passes
    <3> QED BY <3>1, OneRowPasses
  <2> QED BY <1>2, <2>1, <2>2
<1>3. ASSUME NEW w \in Workers, WorkerStep(w) PROVE Passes(items[i], items'[i])
  BY <1>3, WorkerPasses
<1>4. ASSUME NEW j \in Items, SweepNames(j) PROVE Passes(items[i], items'[i])
  BY <1>4, NoRowPasses DEF SweepNames
<1>5. ASSUME NEW o \in Orgs, SetTenantCap(o) \/ ClearTenantCap(o) \/ DeleteOrg(o)
      PROVE  Passes(items[i], items'[i])
  BY <1>5, NoRowPasses DEF SetTenantCap, ClearTenantCap, DeleteOrg
<1>6. ASSUME SweepFails PROVE Passes(items[i], items'[i])
  BY <1>6, NoRowPasses DEF SweepFails
<1>7. ASSUME Sweep PROVE Passes(items[i], items'[i])
  <2>1. PICK batch \in SUBSET {j \in Items : Stale(j)} :
           items' = [j \in Items |->
              IF j \notin batch THEN items[j]
              ELSE IF IsExhausted(items[j].attempts)
                   THEN Settled("failed", items[j].attempts)
                   ELSE Queued(StaggerDelay(j, batch), items[j].attempts)]
    BY <1>7 DEF Sweep
  <2>2. CASE i \notin batch
    BY <2>1, <2>2 DEF Passes
  <2>3. CASE i \in batch
    <3>1. items[i].status = "claimed"
      BY <2>3 DEF Stale
    <3>2. items'[i].status \in {"failed", "queued"}
      BY <2>1, <2>3 DEF Settled, Queued, Row
    <3> QED BY <3>1, <3>2 DEF Passes
  <2> QED BY <2>2, <2>3
<1>8. ASSUME Tick PROVE Passes(items[i], items'[i])
  <2>1. items[i] \in RowType
    BY DEF IInv, TypeOK
  <2>2. items'[i] = AgedRow(items[i])
    BY <1>8 DEF Tick
  <2>3. /\ AgedRow(items[i]).status = items[i].status
        /\ AgedRow(items[i]).token = items[i].token
        /\ AgedRow(items[i]).attempts = items[i].attempts
    BY <2>1 DEF AgedRow, RowType
  <2> QED BY <2>2, <2>3 DEF Passes
<1> QED BY <1>1, <1>2, <1>3, <1>4, <1>5, <1>6, <1>7, <1>8 DEF Next

\* A claim passes on only through the queue, and what is done stays done until it is
\* purged: no settlement, renewal, sweep or requeue that comes late changes the row of
\* another's claim.
THEOREM TokensPassThroughQueue == Spec => TokenPassesThroughQueue
<1> DEFINE Pass == \A i \in Items :
              /\ items[i].status = "claimed" /\ items'[i].status = "claimed"
                    => /\ items'[i].token = items[i].token
                       /\ items'[i].attempts = items[i].attempts
              /\ items[i].status = "done" => items'[i].status \in {"done", "absent"}
<1>1. ASSUME IInv, [Next]_vars PROVE Pass
  <2>1. CASE UNCHANGED vars
    BY <2>1 DEF vars
  <2>2. CASE Next
    BY <1>1, <2>2, RowsPass DEF Passes
  <2> QED BY <1>1, <2>1, <2>2
<1>2. IInv /\ [Next]_vars => [Pass]_vars
  BY <1>1
<1>3. Spec => [][Pass]_vars
  BY <1>2, InvariantHolds, PTL DEF Spec
<1> QED BY <1>3 DEF TokenPassesThroughQueue

=============================================================================
