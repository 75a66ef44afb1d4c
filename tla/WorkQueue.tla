----------------------------- MODULE WorkQueue -----------------------------
(***************************************************************************)
(* The work queue of one lane and the maintenance workers that serve it:   *)
(* om/work (manager, rules, Postgres storage) and the claiming half of     *)
(* workers/maintenance/loop.py.                                            *)
(*                                                                         *)
(* Time is relative.  A timestamp of the code is kept as its distance from *)
(* the present clock and Tick moves every distance by one, those of writes *)
(* still in flight included, so that no run ends because a clock ran out.  *)
(*                                                                         *)
(* One member of Workers is one slot of one worker: the asyncio task that  *)
(* runs an item together with the renewal task beside it.                  *)
(***************************************************************************)
EXTENDS Integers, FiniteSets

CONSTANTS
    Items,          \* producer keys, ordered as their row ids are
    Orgs,           \* tenants
    OrgOf,          \* the tenant of each item
    Workers,        \* worker slots
    Tokens,         \* claim tokens
    NoToken,        \* the null claim token
    MaxAttempts,    \* WorkItem.max_attempts
    Lease,          \* the worker's lease
    RenewAfter,     \* a renewal is due this long after the last one: lease / 3
    Fence,          \* the run is cancelled this long after it: lease / 2
    ClaimDelay,     \* most time from the claim's clock to the renewal's start
    Skew,           \* most the sweep's clock is ahead of a worker's
    LaneCap,        \* the lane's cap on one tenant's claimed items, 0 for none
    OwnCaps,        \* the caps an operator may set for one tenant
    RetryBase, RetryCap,    \* the retry curve
    Stagger,        \* between one tenant's items in a sweep
    StartDelays,    \* how far ahead a new item's not_before may lie
    ParkDelays,     \* the resume_after values of WorkParked
    Retention,      \* a settled item is purged after this
    AgeBound,       \* the queue's order is kept for items ready up to this long
    MaxFaults       \* bound on crashes, stops, parks and operator calls

ASSUME SetsAssumption ==
    /\ Items \subseteq Nat /\ IsFiniteSet(Items)
    /\ OrgOf \in [Items -> Orgs]
    /\ Tokens \subseteq Nat
    /\ NoToken \notin Tokens
    /\ OwnCaps \subseteq Nat \ {0}
    /\ StartDelays \subseteq Nat
    /\ ParkDelays \subseteq Nat

ASSUME NumbersAssumption ==
    /\ MaxAttempts \in Nat \ {0}
    /\ Lease \in Nat /\ RenewAfter \in Nat /\ Fence \in Nat
    /\ ClaimDelay \in Nat /\ Skew \in Nat
    /\ LaneCap \in Nat
    /\ RetryBase \in Nat /\ RetryCap \in Nat /\ Stagger \in Nat
    /\ Retention \in Nat /\ AgeBound \in Nat /\ MaxFaults \in Nat

\* The retry curve is a number for every attempt count.
ASSUME CurveAssumption ==
    \A n \in 1..MaxAttempts : RetryBase * 2^(n - 1) \in Nat

\* What the ratios lease/3 and lease/2 are for: a renewal is tried before the
\* fence, and both the late start of the renewal task and a renewal that takes
\* all the time it is given leave the fence before the lease's end, by more
\* than the clocks can disagree.
ASSUME TimingAssumption ==
    /\ RenewAfter < Fence
    /\ Skew + ClaimDelay + Fence <= Lease
    /\ Skew + (Fence - RenewAfter) + Fence <= Lease

VARIABLES
    items,      \* the work_items table: one row per producer key
    ownCap,     \* the tenant_caps table, 0 where the tenant has no cap
    runs,       \* what each worker slot holds in memory
    owing,      \* dead letters a sweep has made and not yet named
    named,      \* keys whose dead letter is in the tenant's stream
    liveOrgs,   \* the tenants that are not deleted
    faults,     \* how many of MaxFaults have happened
    crashes     \* how many of those a process's death or a failed call

vars == <<items, ownCap, runs, owing, named, liveOrgs, faults, crashes>>

(***************************************************************************)
(* Rows and rules                                                          *)
(***************************************************************************)

\* available_at is read only while a row is queued, the lease only while it is
\* claimed, and updated_at (as the row's age) only once it is settled; each is
\* kept at 0 otherwise.
Row(status, token, avail, lease, attempts) ==
    [status |-> status, token |-> token, avail |-> avail, lease |-> lease,
     attempts |-> attempts, age |-> 0]

Absent == Row("absent", NoToken, 0, 0, 0)

Queued(delay, attempts) == Row("queued", NoToken, delay, 0, attempts)

Claimed(token, attempts) == Row("claimed", token, 0, Lease, attempts)

Settled(status, attempts) == Row(status, NoToken, 0, 0, attempts)

\* rules.retry_delay: base * 2^(attempts - 1), capped.
RetryDelay(attempts) ==
    LET d == RetryBase * 2^(attempts - 1) IN IF d <= RetryCap THEN d ELSE RetryCap

\* Mutant: the exhaustion test is off by one.
MutExhaustedLate(attempts) == attempts > MaxAttempts

\* rules.is_exhausted
IsExhausted(attempts) == attempts >= MaxAttempts

\* rules.attempts_after_hand_back
AttemptsAfterHandBack(attempts) == IF attempts = 0 THEN 0 ELSE attempts - 1

\* rules.cap_for
CapFor(own) == IF own = 0 THEN LaneCap ELSE own

Held(o) == {i \in Items : /\ OrgOf[i] = o
                          /\ items[i].status = "claimed"
                          /\ items[i].lease > 0}

\* rules.is_at_cap, over the items claimed under a live lease; a tenant with
\* neither cap is never at one.
IsAtCap(o) == /\ CapFor(ownCap[o]) # 0
              /\ Cardinality(Held(o)) >= CapFor(ownCap[o])

\* The condition of write_item_if_held.
IsHeld(i, token) == items[i].status = "claimed" /\ items[i].token = token

\* Mutant: a claim takes an expired row over without the sweep.
MutReadyExpired(atCap) ==
    {i \in Items : \/ items[i].status = "queued" /\ items[i].avail <= 0
                   \/ items[i].status = "claimed" /\ items[i].lease < 0}

Ready(atCap) == {i \in Items : /\ items[i].status = "queued"
                               /\ items[i].avail <= 0
                               /\ OrgOf[i] \notin atCap}

\* rules.stagger_delay of the item's place among its tenant's in the batch.
StaggerDelay(i, batch) ==
    Stagger * Cardinality({j \in batch : OrgOf[j] = OrgOf[i] /\ j < i})

(***************************************************************************)
(* Worker slots.  pc is where the item's task stands: "claiming" between   *)
(* the claim statement's count of held items and its write, "claimed" until*)
(* the tenant's context is minted, "running" in the handler, "settling"    *)
(* between _transition's read and its write of `moved`, "naming" between a *)
(* dead letter's write and its audit event.  `left` is the time to the     *)
(* deadline of the phase: the claim's, then the renewal's fence, and `late`*)
(* is 1 once the slot's process has been stopped past its deadlines.       *)
(* `renewal` is the row a renewal in flight will write.                    *)
(***************************************************************************)

Slot(pc, item, token, attempts, left, atCap) ==
    [pc |-> pc, item |-> item, token |-> token, attempts |-> attempts,
     left |-> left, late |-> 0, atCap |-> atCap, moved |-> Absent, renewal |-> Absent]

Idle == Slot("idle", 0, NoToken, 0, 0, {})

HasRenewal(r) == r.pc \in {"running", "settling", "naming"}

HasDeadline(r) == r.late = 0 /\ (r.pc = "claimed" \/ HasRenewal(r))

UsedTokens == {items[i].token : i \in Items} \cup {runs[w].token : w \in Workers}

Init ==
    /\ items = [i \in Items |-> Absent]
    /\ ownCap = [o \in Orgs |-> 0]
    /\ runs = [w \in Workers |-> Idle]
    /\ owing = {}
    /\ named = {}
    /\ liveOrgs = Orgs
    /\ faults = 0
    /\ crashes = 0

Fault == faults < MaxFaults /\ faults' = faults + 1

\* enqueue, enqueue_relayed and _land: an item under a key already written
\* changes nothing, the claim on its row included.
Enqueue(i) ==
    /\ \E d \in StartDelays :
          items' = IF items[i].status = "absent"
                   THEN [items EXCEPT ![i] = Queued(d, 0)]
                   ELSE items
    /\ named' = IF items[i].status = "absent" THEN named \ {i} ELSE named
    /\ UNCHANGED <<ownCap, runs, owing, liveOrgs, faults, crashes>>

\* claim_next begins: the tenants at their cap, by the statement's snapshot.
ClaimStart(w) ==
    /\ runs[w].pc = "idle"
    /\ runs' = [runs EXCEPT ![w] =
                   Slot("claiming", 0, NoToken, 0, 0, {o \in Orgs : IsAtCap(o)})]
    /\ UNCHANGED <<items, ownCap, owing, named, liveOrgs, faults, crashes>>

\* claim_next ends: the row ready longest of a tenant that was under its cap,
\* or none.  Rows equally old stand in an order the ids alone decide.  new_id()
\* is a token no row and no worker holds; the least such one stands for it.
ClaimNext(w) ==
    LET ready == Ready(runs[w].atCap) IN
    /\ runs[w].pc = "claiming"
    /\ \/ /\ ready = {}
          /\ runs' = [runs EXCEPT ![w] = Idle]
          /\ UNCHANGED items
       \/ \E i \in ready :
             /\ \A j \in ready : items[i].avail <= items[j].avail
             /\ \E t \in Tokens \ UsedTokens :
                   /\ \A u \in Tokens \ UsedTokens : t <= u
                   /\ items' = [items EXCEPT ![i] = Claimed(t, items[i].attempts + 1)]
                   /\ runs' = [runs EXCEPT ![w] =
                          Slot("claimed", i, t, items[i].attempts + 1, ClaimDelay, {})]
    /\ UNCHANGED <<ownCap, owing, named, liveOrgs, faults, crashes>>

\* The rest of claim: the tenant's context, and the run begins; a deleted
\* tenant's item is failed under the claim just written (_fail_orphan).
ServiceContext(w) ==
    LET r == runs[w] IN
    /\ r.pc = "claimed"
    /\ IF OrgOf[r.item] \in liveOrgs
       THEN /\ runs' = [runs EXCEPT ![w].pc = "running", ![w].left = Fence]
            /\ UNCHANGED items
       ELSE /\ runs' = [runs EXCEPT ![w] = Idle]
            /\ items' = IF IsHeld(r.item, r.token)
                        THEN [items EXCEPT ![r.item] = Settled("failed", r.attempts)]
                        ELSE items
    /\ UNCHANGED <<ownCap, owing, named, liveOrgs, faults, crashes>>

\* The context's read fails: claim raises, and the row stays claimed with
\* nobody to settle it.
ClaimFails(w) ==
    /\ runs[w].pc = "claimed"
    /\ Fault
    /\ runs' = [runs EXCEPT ![w] = Idle]
    /\ UNCHANGED <<items, ownCap, owing, named, liveOrgs, crashes>>

(***************************************************************************)
(* Settling an item.  _transition reads the row, refuses with LeaseLost    *)
(* what is no longer held, and writes conditionally on the token.          *)
(***************************************************************************)

BeginTransition(w, moved) ==
    /\ runs[w].pc = "running"
    /\ runs' = [runs EXCEPT ![w] =
                  IF IsHeld(runs[w].item, runs[w].token)
                  THEN [runs[w] EXCEPT !.pc = "settling", !.moved = moved]
                  ELSE Idle]
    /\ UNCHANGED <<items, ownCap, owing, named, liveOrgs, crashes>>

\* The handler returns.
Complete(w) ==
    BeginTransition(w, Settled("done", runs[w].attempts)) /\ UNCHANGED faults

\* The handler raises: back with a growing delay, or a dead letter.
Fail(w) ==
    /\ BeginTransition(w, IF IsExhausted(runs[w].attempts)
                          THEN Settled("failed", runs[w].attempts)
                          ELSE Queued(RetryDelay(runs[w].attempts), runs[w].attempts))
    /\ UNCHANGED faults

\* WorkRefused: fail_for_good.
Refuse(w) ==
    BeginTransition(w, Settled("failed", runs[w].attempts)) /\ UNCHANGED faults

\* WorkParked: defer, with the attempt refunded.
Park(w) ==
    \E d \in ParkDelays :
        /\ BeginTransition(w, Queued(d, AttemptsAfterHandBack(runs[w].attempts)))
        /\ Fault

\* The worker stops while the handler runs: release, with the attempt refunded.
Stop(w) ==
    /\ BeginTransition(w, Queued(0, AttemptsAfterHandBack(runs[w].attempts)))
    /\ Fault

\* write_item_if_held.  A dead letter has its audit event next.
SettleWrite(w) ==
    LET r == runs[w] IN
    /\ r.pc = "settling"
    /\ items' = IF IsHeld(r.item, r.token)
                THEN [items EXCEPT ![r.item] = r.moved] ELSE items
    /\ runs' = [runs EXCEPT ![w] =
                  IF IsHeld(r.item, r.token) /\ r.moved.status = "failed"
                  THEN [r EXCEPT !.pc = "naming", !.moved = Absent]
                  ELSE Idle]
    /\ UNCHANGED <<ownCap, owing, named, liveOrgs, faults, crashes>>

\* _dead_letter: the audit event.
NameDeadLetter(w) ==
    /\ runs[w].pc = "naming"
    /\ named' = named \cup {runs[w].item}
    /\ runs' = [runs EXCEPT ![w] = Idle]
    /\ UNCHANGED <<items, ownCap, owing, liveOrgs, faults, crashes>>

(***************************************************************************)
(* The renewal task, and what cancels the item's task.                     *)
(***************************************************************************)

\* The task is cancelled: a handler stops where it is; a settlement in flight
\* has landed or has not; an audit event in flight the same.
CancelOwner(w) ==
    LET r == runs[w] IN
    /\ runs' = [runs EXCEPT ![w] = Idle]
    /\ \/ UNCHANGED <<items, named>>
       \/ /\ r.pc = "settling" /\ IsHeld(r.item, r.token)
          /\ items' = [items EXCEPT ![r.item] = r.moved]
          /\ UNCHANGED named
       \/ /\ r.pc = "naming"
          /\ named' = named \cup {r.item}
          /\ UNCHANGED items

\* extend_lease's update of the row.
Renewed(row) == [row EXCEPT !.lease = Lease]

\* extend_lease, up to its read.  A row that is gone is NotFound, which is
\* retried until the fence.
RenewRead(w) ==
    LET r == runs[w] IN
    /\ HasRenewal(r) /\ r.renewal = Absent
    /\ r.left > 0 /\ r.left <= Fence - RenewAfter
    /\ items[r.item].status # "absent"
    /\ IF IsHeld(r.item, r.token)
       THEN /\ runs' = [runs EXCEPT ![w].renewal = Renewed(items[r.item])]
            /\ UNCHANGED <<items, named>>
       ELSE CancelOwner(w)
    /\ UNCHANGED <<ownCap, owing, liveOrgs, faults, crashes>>

\* extend_lease's conditional write.
RenewWrite(w) ==
    LET r == runs[w] IN
    /\ HasRenewal(r) /\ r.renewal # Absent
    /\ IF IsHeld(r.item, r.token)
       THEN /\ items' = [items EXCEPT ![r.item] = r.renewal]
            /\ runs' = [runs EXCEPT ![w].renewal = Absent, ![w].left = Fence]
            /\ UNCHANGED named
       ELSE CancelOwner(w)
    /\ UNCHANGED <<ownCap, owing, liveOrgs, faults, crashes>>

\* No renewal has succeeded by the fence.
FenceReached(w) ==
    /\ HasRenewal(runs[w]) /\ runs[w].left = 0
    /\ CancelOwner(w)
    /\ UNCHANGED <<ownCap, owing, liveOrgs, faults, crashes>>

\* The worker stops (_drain) while the item is being settled.
StopWhileSettling(w) ==
    /\ runs[w].pc \in {"settling", "naming"}
    /\ Fault
    /\ CancelOwner(w)
    /\ UNCHANGED <<ownCap, owing, liveOrgs, crashes>>

\* The process is held up (a blocked event loop, a paused machine): from now on
\* the slot takes its steps at any time, its deadlines notwithstanding.
Stall(w) ==
    /\ runs[w].pc \notin {"idle", "claiming"} /\ runs[w].late = 0
    /\ Fault
    /\ runs' = [runs EXCEPT ![w].late = 1]
    /\ UNCHANGED <<items, ownCap, owing, named, liveOrgs, crashes>>

\* The process dies.
Crash(w) ==
    /\ runs[w].pc # "idle"
    /\ Fault
    /\ CancelOwner(w)
    /\ crashes' = crashes + 1
    /\ UNCHANGED <<ownCap, owing, liveOrgs>>

(***************************************************************************)
(* The sweep, the operator, the tenant's deletion, and time.               *)
(***************************************************************************)

\* Mutant: the sweep's filter has lost its lease condition.
MutStaleAnyClaim(i) == items[i].status = "claimed"

\* Mutant: the sweep leaves the items whose attempts are spent.
MutStaleUnspent(i) ==
    items[i].status = "claimed" /\ items[i].lease < Skew /\ ~IsExhausted(items[i].attempts)

Stale(i) == items[i].status = "claimed" /\ items[i].lease < Skew

\* requeue_stale, one statement: the expired rows of the batch, without those
\* another transaction holds, go back staggered or fail.
Sweep ==
    \E batch \in SUBSET {i \in Items : Stale(i)} :
        /\ batch # {}
        /\ items' = [i \in Items |->
              IF i \notin batch THEN items[i]
              ELSE IF IsExhausted(items[i].attempts)
                   THEN Settled("failed", items[i].attempts)
                   ELSE Queued(StaggerDelay(i, batch), items[i].attempts)]
        /\ owing' = owing \cup {i \in batch : IsExhausted(items[i].attempts)}
        /\ UNCHANGED <<ownCap, runs, named, liveOrgs, faults, crashes>>

\* _dead_letter_in for one of them; a deleted tenant's gets no audit event.
SweepNames(i) ==
    /\ i \in owing
    /\ owing' = owing \ {i}
    /\ named' = IF OrgOf[i] \in liveOrgs THEN named \cup {i} ELSE named
    /\ UNCHANGED <<items, ownCap, runs, liveOrgs, faults, crashes>>

\* The sweep dies, or one audit event fails and the rest of its batch with it.
SweepFails ==
    /\ owing # {}
    /\ Fault
    /\ owing' \in SUBSET owing /\ owing' # owing
    /\ crashes' = crashes + 1
    /\ UNCHANGED <<items, ownCap, runs, named, liveOrgs>>

\* purge_items: what was settled longer ago than the retention is deleted.
Purge(i) ==
    /\ items[i].status \in {"done", "failed"}
    /\ items[i].age > Retention
    /\ Fault
    /\ items' = [items EXCEPT ![i] = Absent]
    /\ UNCHANGED <<ownCap, runs, owing, named, liveOrgs, crashes>>

\* WorkOperatorManagerImpl.requeue, conditional on the row being failed still.
OperatorRequeue(i) ==
    /\ OrgOf[i] \in liveOrgs
    /\ items[i].status = "failed"
    /\ Fault
    /\ items' = [items EXCEPT ![i] = Queued(0, 0)]
    /\ named' = named \ {i}
    /\ UNCHANGED <<ownCap, runs, owing, liveOrgs, crashes>>

\* set_tenant_cap, for a live tenant.
SetTenantCap(o) ==
    /\ o \in liveOrgs
    /\ Fault
    /\ \E c \in OwnCaps \ {ownCap[o]} : ownCap' = [ownCap EXCEPT ![o] = c]
    /\ UNCHANGED <<items, runs, owing, named, liveOrgs, crashes>>

\* clear_tenant_cap, and purge_tenant's caps of a deleted tenant.
ClearTenantCap(o) ==
    /\ ownCap[o] # 0
    /\ Fault
    /\ ownCap' = [ownCap EXCEPT ![o] = 0]
    /\ UNCHANGED <<items, runs, owing, named, liveOrgs, crashes>>

\* The tenant is deleted: service_context refuses it from now on.
DeleteOrg(o) ==
    /\ o \in liveOrgs
    /\ Fault
    /\ liveOrgs' = liveOrgs \ {o}
    /\ UNCHANGED <<items, ownCap, runs, owing, named, crashes>>

AgedRow(row) ==
    CASE row.status = "queued" ->
            [row EXCEPT !.avail = IF @ > -AgeBound THEN @ - 1 ELSE @]
      [] row.status = "claimed" -> [row EXCEPT !.lease = IF @ > -1 THEN @ - 1 ELSE @]
      [] row.status \in {"done", "failed"} ->
            [row EXCEPT !.age = IF @ <= Retention THEN @ + 1 ELSE @]
      [] OTHER -> row

AgedRun(r) ==
    [r EXCEPT !.left = IF @ > 0 THEN @ - 1 ELSE @,
              !.moved = AgedRow(@), !.renewal = AgedRow(@)]

\* Time passes.  Unless its process is held up, a slot's renewal task wakes in time
\* for a fence that is due, and a claim's context is minted within the storage's
\* timeouts.
Tick ==
    /\ \A w \in Workers : HasDeadline(runs[w]) => runs[w].left > 0
    /\ items' = [i \in Items |-> AgedRow(items[i])]
    /\ runs' = [w \in Workers |-> AgedRun(runs[w])]
    /\ UNCHANGED <<ownCap, owing, named, liveOrgs, faults, crashes>>

HandlerEnds(w) == Complete(w) \/ Fail(w) \/ Refuse(w)

WorkerStep(w) ==
    \/ ClaimStart(w) \/ ClaimNext(w) \/ ServiceContext(w) \/ ClaimFails(w)
    \/ HandlerEnds(w) \/ Park(w) \/ Stop(w)
    \/ SettleWrite(w) \/ NameDeadLetter(w)
    \/ RenewRead(w) \/ RenewWrite(w) \/ FenceReached(w)
    \/ StopWhileSettling(w) \/ Stall(w) \/ Crash(w)

Next ==
    \/ \E i \in Items : Enqueue(i) \/ SweepNames(i) \/ Purge(i) \/ OperatorRequeue(i)
    \/ \E w \in Workers : WorkerStep(w)
    \/ \E o \in Orgs : SetTenantCap(o) \/ ClearTenantCap(o) \/ DeleteOrg(o)
    \/ Sweep \/ SweepFails
    \/ Tick

Spec == Init /\ [][Next]_vars

\* What the code's scheduling gives: workers poll, calls return, handlers end,
\* the sweep runs every interval and the clock advances.  Nothing is assumed of
\* producers, operators, parks, stops or crashes.
Fairness ==
    /\ WF_vars(Tick) /\ WF_vars(Sweep)
    /\ \A w \in Workers :
          /\ WF_vars(ClaimStart(w)) /\ WF_vars(ClaimNext(w))
          /\ WF_vars(ServiceContext(w)) /\ WF_vars(HandlerEnds(w))
          /\ WF_vars(SettleWrite(w)) /\ WF_vars(NameDeadLetter(w))
          /\ WF_vars(FenceReached(w))

FairSpec == Spec /\ Fairness

(***************************************************************************)
(* Properties                                                              *)
(***************************************************************************)

RowType ==
    [status : {"absent", "queued", "claimed", "done", "failed"},
     token : Tokens \cup {NoToken},
     avail : Int, lease : -1..Lease,
     attempts : 0..MaxAttempts, age : 0..(Retention + 1)]

RunType ==
    [pc : {"idle", "claiming", "claimed", "running", "settling", "naming"},
     item : Items \cup {0}, token : Tokens \cup {NoToken}, attempts : 0..MaxAttempts,
     left : Nat, late : {0, 1}, atCap : SUBSET Orgs, moved : RowType, renewal : RowType]

\* Every row and every slot has its shape; in particular no row's attempts go
\* past max_attempts, whatever claims, sweeps, hand-backs and operators do.
TypeOK ==
    /\ items \in [Items -> RowType]
    /\ ownCap \in [Orgs -> OwnCaps \cup {0}]
    /\ runs \in [Workers -> RunType]
    /\ owing \subseteq Items
    /\ named \subseteq Items
    /\ liveOrgs \subseteq Orgs
    /\ faults \in 0..MaxFaults
    /\ crashes \in Nat

\* Two workers never advance the same record (_renew_lease): while a handler
\* runs, its row is claimed under the token of its own claim, so that no sweep
\* has given the item to another worker, unless the process was held up past the
\* fence.
RunnerHoldsItem ==
    \A w \in Workers : runs[w].pc = "running" /\ runs[w].late = 0
                        => IsHeld(runs[w].item, runs[w].token)

\* An item waiting in the queue has an attempt left, and a claimed one has
\* spent at least one and at most max_attempts: the attempt a claim spends, the
\* one a hand-back refunds and the exhaustion test of fail and of the sweep
\* agree however they interleave.
AttemptsAgree ==
    \A i \in Items :
        /\ items[i].status = "queued" => items[i].attempts < MaxAttempts
        /\ items[i].status = "claimed" => items[i].attempts \in 1..MaxAttempts

\* fail decides exhaustion on the worker's copy; under an unchanged token the
\* copy's attempts are the row's, so the decision is the stored row's too.
CopyIsCurrent ==
    \A w \in Workers :
        runs[w].token # NoToken /\ IsHeld(runs[w].item, runs[w].token)
        => items[runs[w].item].attempts = runs[w].attempts

\* A claim token is minted for one claim: it is on the row of that claim's item
\* only, and in that claim's slot only.
TokensDiffer ==
    /\ \A i \in Items : items[i].token # NoToken <=> items[i].status = "claimed"
    /\ \A w \in Workers : runs[w].token # NoToken
                            <=> runs[w].pc \notin {"idle", "claiming"}
    /\ \A w \in Workers : runs[w].token # NoToken => runs[w].item \in Items
    /\ \A i, j \in Items : items[i].token # NoToken /\ items[i].token = items[j].token
                             => i = j
    /\ \A v, w \in Workers : runs[v].token # NoToken /\ runs[v].token = runs[w].token
                               => v = w
    /\ \A w \in Workers, i \in Items :
          runs[w].token # NoToken /\ items[i].token = runs[w].token
          => i = runs[w].item

\* The rows a worker is about to write: a renewal keeps the claim as it is, and a
\* settlement ends it.
WritesInFlight ==
    \A w \in Workers :
        /\ runs[w].renewal # Absent
           => /\ HasRenewal(runs[w])
              /\ runs[w].renewal.status = "claimed"
              /\ runs[w].renewal.token = runs[w].token
              /\ runs[w].renewal.attempts = runs[w].attempts
              /\ runs[w].late = 0
                 => runs[w].renewal.lease >= Lease - (Fence - RenewAfter) + runs[w].left
        /\ runs[w].pc = "settling"
           => /\ runs[w].moved.status \in {"queued", "done", "failed"}
              /\ runs[w].moved.token = NoToken
              /\ runs[w].moved.status = "queued" => runs[w].moved.attempts < MaxAttempts
        /\ runs[w].token # NoToken => runs[w].attempts \in 1..MaxAttempts

\* How long the row of a claim is safe from the sweep: at least until the
\* renewal's fence, and by the clocks' disagreement longer.
LeaseOutlastsFence ==
    \A w \in Workers :
        /\ runs[w].pc = "claimed" /\ runs[w].late = 0
           => /\ IsHeld(runs[w].item, runs[w].token)
              /\ items[runs[w].item].lease >= Lease - ClaimDelay + runs[w].left
        /\ runs[w].pc = "running" /\ runs[w].late = 0
           => /\ IsHeld(runs[w].item, runs[w].token)
              /\ items[runs[w].item].lease >= runs[w].left + Skew

\* The inductive invariant that RunnerHoldsItem, AttemptsAgree and CopyIsCurrent
\* rest on.
IInv ==
    /\ TypeOK /\ AttemptsAgree /\ CopyIsCurrent
    /\ TokensDiffer /\ WritesInFlight /\ LeaseOutlastsFence

\* A worker that lost its item changes nothing: a row claimed under a token that
\* a step leaves claimed keeps that token, so a row passes from one token to
\* another only through the queue; and what is done stays done until the purge,
\* whatever settlement, renewal, sweep or requeue comes late.
TokenPassesThroughQueue ==
    [][\A i \in Items :
          /\ items[i].status = "claimed" /\ items'[i].status = "claimed"
                => /\ items'[i].token = items[i].token
                   /\ items'[i].attempts = items[i].attempts
          /\ items[i].status = "done" => items'[i].status \in {"done", "absent"}]_vars

\* A dead letter is named: an item that failed for good in a live tenant is in
\* the tenant's stream, or is about to be, unless a process died or a call
\* failed on the way.
DeadLetterNamed ==
    \A i \in Items :
        items[i].status = "failed" /\ OrgOf[i] \in liveOrgs /\ crashes = 0
        => \/ i \in named \/ i \in owing
           \/ \E w \in Workers : runs[w].pc = "naming" /\ runs[w].item = i

\* Every item that waits is settled in the end: done, failed or purged, across
\* lost leases, crashes, caps and hand-backs.
EveryItemSettles ==
    \A i \in Items : items[i].status = "queued"
                        ~> items[i].status \in {"done", "failed", "absent"}
=============================================================================
