------------------------------- MODULE Leases -------------------------------
(***************************************************************************)
(* The leases namespace (om/leases): leasable resources, the wait lines in *)
(* front of them, and leases under a fencing token, with the holders that  *)
(* act while a lease runs on their own, slower clock.                      *)
(*                                                                         *)
(* Every writer of the storage locks the resource's row and re-checks what *)
(* it read before, so a storage call is one step; what the manager reads   *)
(* before it is a step of its own, and another call may come in between.   *)
(* A lease is named by the request it answers: the unique index on         *)
(* leases.request_id leaves one per request.                               *)
(*                                                                         *)
(* Time is relative: an instant is its distance from now, and Tick moves   *)
(* every distance.  Only LeaseFloor bounds how long ago a lease expired.   *)
(***************************************************************************)
EXTENDS Integers, FiniteSets, SequencesExt

CONSTANTS
    Resources,      \* leasable resources of one org and one kind
    Requests,       \* lease requests
    None,           \* no request, no resource
    Names,          \* the resource a request names, None for a selector
    Needs,          \* the labels a selector asks for
    LabelSets,      \* the sets of labels a resource may carry
    Term,           \* term_seconds of a request
    Window,         \* start_seconds of a request, 0 for none
    Wait,           \* wait_seconds of a request
    Named,          \* the lengths a renewal may name
    Bounds,         \* the values of a resource's max_term_seconds
    Waiters,        \* the requests an orchestration waits on
    Callers,        \* requests in progress at an API process or a worker
    Sweepers,       \* those of them that run the sweep
    Margin,         \* LeasesOptions.margin
    Skew,           \* how much longer a holder's clock lets a lease run
    Lag,            \* most time from a call's clock reading to its write
    OfferTries,     \* LeasesOptions.offer_tries
    MaxMoves        \* bound on what people and crashes do beside the line

ASSUME LeasesAssumption ==
    /\ None \notin Requests \cup Resources
    /\ Names \in [Requests -> Resources \cup {None}]
    /\ Term \in [Requests -> Nat \ {0}]
    /\ Window \in [Requests -> Nat]
    /\ Wait \in [Requests -> Nat]
    /\ Bounds \subseteq Nat \ {0} /\ Named \subseteq Nat \ {0}
    /\ Waiters \subseteq Requests
    /\ Sweepers \subseteq Callers
    /\ Margin \in Nat /\ Skew \in Nat /\ Lag \in Nat
    /\ OfferTries \in Nat \ {0} /\ MaxMoves \in Nat

\* How long a renewal of a request's lease may run.
Lengths(q) ==
    {IF n < b THEN n ELSE b : n \in Named \cup {Term[q]}, b \in Bounds}

\* What the margin is for: it outlasts the slowest holder's clock.
ASSUME MarginAssumption == Skew <= Margin

VARIABLES
    anchors,    \* the leasable_resources table
    requests,   \* the lease_requests table
    line,       \* the waiting requests in the org's one rank order
    leases,     \* the leases table, by the request a lease answers
    acting,     \* each holder's deadline on its own clock
    undercut,   \* the requests whose lease fell short of what its holder was told
    calls,      \* what each call in progress holds in memory
    moves       \* how many of MaxMoves are made

vars == <<anchors, requests, line, leases, acting, undercut, calls, moves>>

(***************************************************************************)
(* Rows                                                                    *)
(***************************************************************************)

\* held_until is read only while a lease holds the resource, 0 otherwise.
Anchor(state, token, lease, held, avail, labels, bound) ==
    [state |-> state, token |-> token, lease |-> lease, held |-> held,
     avail |-> avail, labels |-> labels, bound |-> bound]

Unregistered == Anchor("absent", 0, None, 0, 0, {}, 0)

\* `waiter` is the orchestration's side of its request: "none" until it parks.
Request(status, wait, waiter) == [status |-> status, wait |-> wait, waiter |-> waiter]

\* `left` is the time to expires_at, kept at 0 once the lease has ended.
Lease(status, res, token, term, left, started) ==
    [status |-> status, res |-> res, token |-> token, term |-> term,
     left |-> left, started |-> started]

NoLease == Lease("none", None, 0, 0, 0, 0)

LeaseFloor == -(Margin + Lag)

\* A holder stops at its own clock's deadline, which comes up to Skew late.
Stopped == -Skew

Acting(q) == acting[q] > Stopped

Lesser(a, b) == IF a <= b THEN a ELSE b

(***************************************************************************)
(* Calls in progress.  pc: "asking" between an ask's reads and its write,  *)
(* "offering" in _offer's loop, "granting" and "ending" between that loop's*)
(* reads and their write, "parking" before park_waiting, "renewing" and    *)
(* "starting" between the clock reading and the write.  `todo` holds the   *)
(* resources still to be offered, `park` the request to park afterwards.   *)
(***************************************************************************)

Call(pc, res, req, todo, tries, park) ==
    [pc |-> pc, res |-> res, req |-> req, todo |-> todo, tries |-> tries, park |-> park,
     token |-> 0, term |-> 0, left |-> 0, age |-> 0]

Idle == Call("idle", None, None, {}, 0, None)

OnLease(pc, q, left) == [Call(pc, None, q, {}, 0, None) EXCEPT !.left = left]

Offering(r) == Call("offering", r, None, {}, 0, None)

HasClock(k) == k.pc \in {"granting", "renewing", "starting"}

\* Where a call stands after the offer of one resource: at the next one, at
\* the park, or done.
After(todo, park) ==
    IF todo # {} THEN {Call("offering", r, None, todo \ {r}, 0, park) : r \in todo}
    ELSE IF park # None THEN {Call("parking", None, None, {}, 0, park)}
    ELSE {Idle}

Leaves(c) == \E k \in After(calls[c].todo, calls[c].park) : calls' = [calls EXCEPT ![c] = k]

\* _offer's `continue`.
Again(c) ==
    LET k == calls[c]
    IN calls' = [calls EXCEPT ![c] =
                    Call("offering", k.res, None, k.todo, k.tries + 1, k.park)]

Move == moves < MaxMoves /\ moves' = moves + 1

(***************************************************************************)
(* Rules                                                                   *)
(***************************************************************************)

\* Mutant: a request that has left its line is still granted.
MutWaiting(q) == requests[q].status \in {"waiting", "cancelled", "expired"}

Waiting(q) == requests[q].status = "waiting"

\* rules.stands_in, for a request that waits.
StandsIn(q, r) == IF Names[q] # None THEN Names[q] = r ELSE Needs[q] \subseteq anchors[r].labels

\* rules.wait_line_of, as places of the one order.
WaitLine(r) == {i \in 1..Len(line) : StandsIn(line[i], r)}

\* rules.is_grantable
Grantable(r) == /\ anchors[r].state = "live"
                /\ anchors[r].avail = 1
                /\ anchors[r].lease = None

\* Mutant: a lease lapses at its expiry.
MutLapsed(left) == left <= 0

\* rules.is_lapsed and holds_lapsed, with a clock that is not late.
Lapsed(left) == left <= -Margin

\* rules.term_of and window_of, by the bound an offer read.
TermOf(q, bound) == Lesser(Term[q], bound)

WindowOf(q, bound) == IF Window[q] = 0 THEN TermOf(q, bound) ELSE Lesser(Window[q], bound)

\* rules.renewal_of, where the length asked is the lease's term or a named one.
RenewalOf(asked, bound) == Lesser(asked, bound)

\* Mutant: the row under the lock is not compared with what was read.
MutGrantFits(k) == TRUE

\* rules.grant_fits, with the resource as it stands under its lock.
GrantFits(k) ==
    /\ StandsIn(k.req, k.res)
    /\ k.term <= anchors[k.res].bound
    /\ k.left <= anchors[k.res].bound

\* The active leases of a resource, of which a unique index allows one.
ActiveOn(r) == {q \in Requests : leases[q].status = "active" /\ leases[q].res = r}

Init ==
    /\ anchors = [r \in Resources |-> Unregistered]
    /\ requests = [q \in Requests |-> Request("absent", 0, "none")]
    /\ line = <<>>
    /\ leases = [q \in Requests |-> NoLease]
    /\ acting = [q \in Requests |-> Stopped]
    /\ undercut = {}
    /\ calls = [c \in Callers |-> Idle]
    /\ moves = 0

(***************************************************************************)
(* Leasable resources                                                      *)
(***************************************************************************)

\* register, and then an offer: a selector already waiting may match it.
Register(c, r) ==
    /\ calls[c].pc = "idle"
    /\ anchors[r].state = "absent"
    /\ \E labels \in LabelSets, bound \in Bounds :
          anchors' = [anchors EXCEPT ![r] = Anchor("live", 0, None, 0, 1, labels, bound)]
    /\ calls' = [calls EXCEPT ![c] = Offering(r)]
    /\ UNCHANGED <<requests, line, leases, acting, undercut, moves>>

\* update and write_availability: the owner changes labels, bound or
\* availability; the lease and its token stay.  set_available offers only what
\* it has made available, update always.
Update(c, r) ==
    /\ calls[c].pc = "idle"
    /\ anchors[r].state = "live"
    /\ Move
    /\ \E labels \in LabelSets, bound \in Bounds, avail \in {0, 1} :
          anchors' = [anchors EXCEPT ![r] =
                         Anchor(@.state, @.token, @.lease, @.held, avail, labels, bound)]
    /\ calls' = [calls EXCEPT ![c] = Offering(r)]
    /\ UNCHANGED <<requests, line, leases, acting, undercut>>

\* retire_leasable_resource.  The requests that name it are taken out of line
\* one by one afterwards: Strand.
Retire(r) ==
    /\ anchors[r].state = "live"
    /\ Move
    /\ anchors' = [anchors EXCEPT ![r] =
                      Anchor("retired", @.token, @.lease, @.held, 0, @.labels, @.bound)]
    /\ UNCHANGED <<requests, line, leases, acting, undercut, calls>>

(***************************************************************************)
(* The line                                                                *)
(***************************************************************************)

\* ask reads: a named resource must be live.  A waiter that crashed before it
\* parked asks again under its key.
AskReads(c, q) ==
    /\ calls[c].pc = "idle"
    /\ \/ requests[q].status = "absent"
       \/ q \in Waiters /\ requests[q].waiter = "none"
    /\ Names[q] # None => anchors[Names[q]].state = "live"
    /\ calls' = [calls EXCEPT ![c] =
                    Call("asking", None, q, {}, 0, IF q \in Waiters THEN q ELSE None)]
    /\ UNCHANGED <<anchors, requests, line, leases, acting, undercut, moves>>

\* create_request, last in the org's order or as it was stored before, and
\* then _candidates: the free resources whose line it stands in.
AskCreates(c) ==
    LET q == calls[c].req
    IN /\ calls[c].pc = "asking"
       /\ IF requests[q].status = "absent"
          THEN /\ requests' = [requests EXCEPT ![q] = Request("waiting", Wait[q], "none")]
               /\ line' = Append(line, q)
          ELSE UNCHANGED <<requests, line>>
       /\ LET todo == IF requests'[q].status # "waiting" THEN {}
                      ELSE {r \in Resources : Grantable(r) /\ StandsIn(q, r)}
          IN \E k \in After(todo, calls[c].park) : calls' = [calls EXCEPT ![c] = k]
       /\ UNCHANGED <<anchors, leases, acting, undercut, moves>>

\* Mutant: the park is not refused once the request has left its line.
MutMayPark(q) == TRUE

\* The condition of park_waiting, under the request's lock.
MayPark(q) == Waiting(q)

\* park_waiting: the orchestration's step lands while its request still waits;
\* otherwise the ask answers what the request has become.
AskParks(c) ==
    LET q == calls[c].park
    IN /\ calls[c].pc = "parking"
       /\ requests' = [requests EXCEPT ![q].waiter =
                          IF @ # "none" THEN @
                          ELSE IF MayPark(q) THEN "parked" ELSE "told"]
       /\ calls' = [calls EXCEPT ![c] = Idle]
       /\ UNCHANGED <<anchors, line, leases, acting, undercut, moves>>

\* Mutant: a request that ends without a lease wakes no one.
MutTold(waiter) == waiter

\* wake_rows and end_rows: they land with what the request becomes.
Told(waiter) == IF waiter = "parked" THEN "told" ELSE waiter

\* settle_request and, by the rows it is given, the waiter's wake.
Settle(q, status, waiter) ==
    /\ Waiting(q)
    /\ requests' = [requests EXCEPT ![q] = Request(status, 0, waiter)]
    /\ line' = RemoveFirst(line, q)

\* cancel, by the asker or a manager.
Cancel(q) ==
    /\ Move
    /\ Settle(q, "cancelled", Told(requests[q].waiter))
    /\ UNCHANGED <<anchors, leases, acting, undercut, calls>>

\* The orchestration that waits ends; leave follows as a step of its own.
WaiterEnds(q) ==
    /\ requests[q].waiter = "parked"
    /\ Move
    /\ requests' = [requests EXCEPT ![q].waiter = "gone"]
    /\ UNCHANGED <<anchors, line, leases, acting, undercut, calls>>

\* leave: cancel_waiting_of takes what it waits on out of every line.
Leave(q) ==
    /\ requests[q].waiter = "gone"
    /\ Settle(q, "cancelled", "gone")
    /\ UNCHANGED <<anchors, leases, acting, undercut, calls, moves>>

\* reorder: the request goes to another place, and the free resources whose
\* line it stands in are offered.  A rank computed between neighbours that
\* have since moved only gives it another of these places.
Reorder(c, q) ==
    /\ calls[c].pc = "idle"
    /\ Waiting(q)
    /\ Move
    /\ \E i \in 1..Len(line) :
          line' = InsertAt(RemoveFirst(line, q), i, q)
    /\ \E k \in After({r \in Resources : Grantable(r) /\ StandsIn(q, r)}, None) :
          calls' = [calls EXCEPT ![c] = k]
    /\ UNCHANGED <<anchors, requests, leases, acting, undercut>>

(***************************************************************************)
(* _offer and _grant                                                       *)
(***************************************************************************)

InOffer(c) == calls[c].pc = "offering" /\ calls[c].tries < OfferTries

HoldLapsed(r) == anchors[r].lease # None /\ Lapsed(anchors[r].held)

First(r) == line[Min(WaitLine(r))]

MayOffer(c) == InOffer(c) /\ Grantable(calls[c].res) /\ WaitLine(calls[c].res) # {}

\* The lease that holds the resource has lapsed: it is to end first.
OfferFindsLapsed(c) ==
    LET r == calls[c].res
    IN /\ InOffer(c)
       /\ HoldLapsed(r)
       /\ calls' = [calls EXCEPT ![c].pc = "ending", ![c].req = anchors[r].lease]
       /\ UNCHANGED <<anchors, requests, line, leases, acting, undercut, moves>>

\* Nothing to offer, no one to offer it to, or no try left.
OfferStops(c) ==
    LET r == calls[c].res
    IN /\ calls[c].pc = "offering"
       /\ \/ calls[c].tries = OfferTries
          \/ ~HoldLapsed(r) /\ (~Grantable(r) \/ WaitLine(r) = {})
       /\ Leaves(c)
       /\ UNCHANGED <<anchors, requests, line, leases, acting, undercut, moves>>

\* The head's wait is over.
OfferExpires(c) ==
    LET q == First(calls[c].res)
    IN /\ MayOffer(c)
       /\ requests[q].wait <= 0
       /\ Settle(q, "expired", Told(requests[q].waiter))
       /\ Again(c)
       /\ UNCHANGED <<anchors, leases, acting, undercut, moves>>

\* The head's waiter is gone, and is told nothing, or its kind refuses it.
OfferRefuses(c) ==
    LET q == First(calls[c].res)
    IN /\ MayOffer(c)
       /\ requests[q].wait > 0
       /\ \/ requests[q].waiter = "gone" /\ UNCHANGED moves
          \/ requests[q].waiter # "gone" /\ Move
       /\ Settle(q, "cancelled", Told(requests[q].waiter))
       /\ Again(c)
       /\ UNCHANGED <<anchors, leases, acting, undercut>>

\* The grant is decided on the resource as it was read, its token included.
OfferDecides(c) ==
    LET k == calls[c]
        q == First(k.res)
        a == anchors[k.res]
    IN /\ MayOffer(c)
       /\ requests[q].wait > 0
       /\ requests[q].waiter # "gone"
       /\ calls' = [calls EXCEPT ![c] =
                       [k EXCEPT !.pc = "granting", !.req = q, !.token = a.token,
                                 !.term = TermOf(q, a.bound), !.left = WindowOf(q, a.bound)]]
       /\ UNCHANGED <<anchors, requests, line, leases, acting, undercut, moves>>

\* The conditions of the storage's grant: the anchor under its lock, then the
\* request, then the unique indexes of leases.
GrantLands(k) ==
    /\ Grantable(k.res)
    /\ anchors[k.res].token = k.token
    /\ Waiting(k.req)
    /\ GrantFits(k)
    /\ leases[k.req] = NoLease
    /\ ActiveOn(k.res) = {}

\* grant: the lease, the anchor, the request and its waiter's wake, together.
Grant(c) ==
    LET k == calls[c]
        left == k.left - k.age
    IN /\ k.pc = "granting"
       /\ GrantLands(k)
       /\ leases' = [leases EXCEPT ![k.req] =
                        Lease("active", k.res, k.token + 1, k.term, left, 0)]
       /\ anchors' = [anchors EXCEPT ![k.res] =
                         Anchor(@.state, k.token + 1, k.req, left, @.avail, @.labels, @.bound)]
       /\ requests' = [requests EXCEPT ![k.req] =
                          Request("granted", 0, Told(@.waiter))]
       /\ line' = RemoveFirst(line, k.req)
       /\ Leaves(c)
       /\ UNCHANGED <<acting, undercut, moves>>

\* The grant lost to another writer: of the resource, which then offers it, or
\* of the request, and the next in line is asked.
GrantLoses(c) ==
    /\ calls[c].pc = "granting"
    /\ ~GrantLands(calls[c])
    /\ IF Waiting(calls[c].req) THEN Leaves(c) ELSE Again(c)
    /\ UNCHANGED <<anchors, requests, line, leases, acting, undercut, moves>>

(***************************************************************************)
(* Leases                                                                  *)
(***************************************************************************)

\* end_lease frees the anchor the lease still holds.
Freed(a, q) ==
    IF a.lease = q THEN Anchor(a.state, a.token, None, 0, a.avail, a.labels, a.bound) ELSE a

\* end_lease: an active lease ends and its resource is free, in one commit.
End(q, status) ==
    LET l == leases[q]
    IN /\ leases' = [leases EXCEPT ![q] =
                        Lease(status, l.res, l.token, l.term, 0, l.started)]
       /\ anchors' = [anchors EXCEPT ![l.res] = Freed(@, q)]

\* _offer ends the lease it found lapsed: active is all that is asked of it
\* now.  It then reads the resource again.
OfferEnds(c) ==
    LET q == calls[c].req
    IN /\ calls[c].pc = "ending"
       /\ IF leases[q].status = "active"
          THEN /\ End(q, "expired")
               /\ undercut' = IF Lapsed(leases[q].left) THEN undercut ELSE undercut \cup {q}
          ELSE UNCHANGED <<leases, anchors, undercut>>
       /\ Again(c)
       /\ UNCHANGED <<requests, line, acting, moves>>

\* release: the holder has stopped, and offers what it gives back.
Release(c, q) ==
    /\ calls[c].pc = "idle"
    /\ leases[q].status = "active"
    /\ End(q, "released")
    /\ acting' = [acting EXCEPT ![q] = Stopped]
    /\ calls' = [calls EXCEPT ![c] = Offering(leases[q].res)]
    /\ UNCHANGED <<requests, line, undercut, moves>>

\* revoke, by a manager: the holder learns of it at its next renewal.
Revoke(c, q) ==
    /\ calls[c].pc = "idle"
    /\ leases[q].status = "active"
    /\ Move
    /\ End(q, "revoked")
    /\ calls' = [calls EXCEPT ![c] = Offering(leases[q].res)]
    /\ UNCHANGED <<requests, line, acting, undercut>>

\* The holder reads its lease, at the ask's answer or later, and acts on it.
\* A lease with a window is its job's, which acts once it has started.
Holds(q) ==
    /\ leases[q].status = "active"
    /\ Window[q] = 0 \/ leases[q].started = 1
    /\ leases[q].left > 0
    /\ ~Acting(q)
    /\ acting' = [acting EXCEPT ![q] = leases[q].left]
    /\ undercut' = undercut \ {q}
    /\ UNCHANGED <<anchors, requests, line, leases, calls, moves>>

\* A holder is told how long its lease runs, or the answer is lost.
Answered(q, left) ==
    \/ acting' = [acting EXCEPT ![q] = IF left > Stopped THEN left ELSE Stopped]
    \/ UNCHANGED acting

\* renew reads the lease, the resource's bound and the clock.
RenewReads(c, q) ==
    /\ calls[c].pc = "idle"
    /\ Acting(q)
    /\ \E asked \in {leases[q].term} \cup Named :
          calls' = [calls EXCEPT ![c] =
                       OnLease("renewing", q, RenewalOf(asked, anchors[leases[q].res].bound))]
    /\ UNCHANGED <<anchors, requests, line, leases, acting, undercut, moves>>

\* The conditions of renew_lease, by the clock the call read.
Renewable(q, age) ==
    /\ leases[q].status = "active"
    /\ anchors[leases[q].res].lease = q
    /\ anchors[leases[q].res].state = "live"
    /\ leases[q].left + age > 0

\* The conditions of start_lease: a job starts until the margin has passed too.
Startable(q, age) ==
    /\ leases[q].status = "active"
    /\ anchors[leases[q].res].lease = q
    /\ anchors[leases[q].res].state = "live"
    /\ leases[q].started = 0
    /\ ~Lapsed(leases[q].left + age)

\* Mutant: the anchor is left as it was.
MutHeldUntil(a, left) == a

\* held_until follows expires_at.
HeldUntil(a, left) == Anchor(a.state, a.token, a.lease, left, a.avail, a.labels, a.bound)

\* renew_lease and start_lease write the lease and the anchor together, and the
\* holder is answered.  What lands last need not reach as far as what the holder was
\* told before: a length may be shorter, a clock was read earlier.
Extend(q, left, started) ==
    LET l == leases[q]
    IN /\ leases' = [leases EXCEPT ![q] =
                        Lease("active", l.res, l.token, l.term, left, started)]
       /\ anchors' = [anchors EXCEPT ![l.res] = HeldUntil(@, left)]
       /\ Answered(q, left)
       /\ undercut' = IF acting'[q] > Stopped /\ acting'[q] + Skew > left + Margin
                      THEN undercut \cup {q} ELSE undercut \ {q}

\* renew_lease.  A holder that is refused stops.
RenewWrites(c) ==
    LET k == calls[c]
        q == k.req
    IN /\ k.pc = "renewing"
       /\ IF Renewable(q, k.age)
          THEN Extend(q, k.left - k.age, leases[q].started)
          ELSE Answered(q, Stopped) /\ UNCHANGED <<leases, anchors, undercut>>
       /\ calls' = [calls EXCEPT ![c] = Idle]
       /\ UNCHANGED <<requests, line, moves>>

\* start reads the lease its job's worker claims, and the clock.
StartReads(c, q) ==
    /\ calls[c].pc = "idle"
    /\ Window[q] > 0
    /\ leases[q].status = "active"
    /\ leases[q].started = 0
    /\ calls' = [calls EXCEPT ![c] = OnLease("starting", q, leases[q].term)]
    /\ UNCHANGED <<anchors, requests, line, leases, acting, undercut, moves>>

\* start_lease, or LeaseEnded.
StartWrites(c) ==
    LET k == calls[c]
        q == k.req
    IN /\ k.pc = "starting"
       /\ IF Startable(q, k.age)
          THEN Extend(q, k.left - k.age, 1)
          ELSE UNCHANGED <<leases, anchors, acting, undercut>>
       /\ calls' = [calls EXCEPT ![c] = Idle]
       /\ UNCHANGED <<requests, line, moves>>

(***************************************************************************)
(* The sweep                                                               *)
(***************************************************************************)

\* A lapsed lease ends; end_lease asks again, under the lock, that it lapsed.
SweepEnds(c, q) ==
    /\ calls[c].pc = "idle" /\ c \in Sweepers
    /\ leases[q].status = "active"
    /\ Lapsed(leases[q].left)
    /\ End(q, "expired")
    /\ calls' = [calls EXCEPT ![c] = Offering(leases[q].res)]
    /\ UNCHANGED <<requests, line, acting, undercut, moves>>

\* An overdue request expires.
SweepExpires(q) ==
    /\ requests[q].wait <= 0
    /\ Settle(q, "expired", Told(requests[q].waiter))
    /\ UNCHANGED <<anchors, leases, acting, undercut, calls, moves>>

\* _cancel_stranded, by the sweep or by retire: what names a retired resource
\* leaves its line.
Strand(q) ==
    /\ Names[q] # None
    /\ anchors[Names[q]].state = "retired"
    /\ Settle(q, "cancelled", Told(requests[q].waiter))
    /\ UNCHANGED <<anchors, leases, acting, undercut, calls, moves>>

\* Mutant: a resource whose owner is done with an offer is left to the next one.
MutSweepOffers(c, r) == FALSE /\ UNCHANGED vars

\* A free resource with a line is offered to it: what a crash cut short.
SweepOffers(c, r) ==
    /\ calls[c].pc = "idle" /\ c \in Sweepers
    /\ Grantable(r)
    /\ WaitLine(r) # {}
    /\ calls' = [calls EXCEPT ![c] = Offering(r)]
    /\ UNCHANGED <<anchors, requests, line, leases, acting, undercut, moves>>

(***************************************************************************)
(* Crashes and time                                                        *)
(***************************************************************************)

\* A process dies in a call, or the call fails, between two of its commits.
Dies(c) ==
    /\ calls[c].pc # "idle"
    /\ Move
    /\ calls' = [calls EXCEPT ![c] = Idle]
    /\ UNCHANGED <<anchors, requests, line, leases, acting, undercut>>

Down(n, floor) == IF n > floor THEN n - 1 ELSE floor

\* One unit of time.  A call lands within Lag of the clock it read.
Tick ==
    /\ \A c \in Callers : HasClock(calls[c]) => calls[c].age < Lag
    /\ leases' = [q \in Requests |->
                     IF leases[q].status = "active"
                     THEN [leases[q] EXCEPT !.left = Down(@, LeaseFloor)] ELSE leases[q]]
    /\ anchors' = [r \in Resources |->
                      IF anchors[r].lease # None
                      THEN [anchors[r] EXCEPT !.held = Down(@, LeaseFloor)] ELSE anchors[r]]
    /\ requests' = [q \in Requests |-> [requests[q] EXCEPT !.wait = Down(@, 0)]]
    /\ acting' = [q \in Requests |-> Down(acting[q], Stopped)]
    /\ calls' = [c \in Callers |->
                    IF HasClock(calls[c]) THEN [calls[c] EXCEPT !.age = @ + 1] ELSE calls[c]]
    /\ UNCHANGED <<line, undercut, moves>>

CallSteps(c) ==
    \/ AskCreates(c) \/ AskParks(c)
    \/ OfferFindsLapsed(c) \/ OfferEnds(c) \/ OfferStops(c)
    \/ OfferExpires(c) \/ OfferRefuses(c) \/ OfferDecides(c)
    \/ Grant(c) \/ GrantLoses(c)
    \/ RenewWrites(c) \/ StartWrites(c)

Next ==
    \/ \E c \in Callers : CallSteps(c) \/ Dies(c)
    \/ \E c \in Callers, r \in Resources : Register(c, r) \/ Update(c, r) \/ SweepOffers(c, r)
    \/ \E r \in Resources : Retire(r)
    \/ \E c \in Callers, q \in Requests :
          \/ AskReads(c, q) \/ Reorder(c, q) \/ Release(c, q) \/ Revoke(c, q)
          \/ RenewReads(c, q) \/ StartReads(c, q) \/ SweepEnds(c, q)
    \/ \E q \in Requests :
          Cancel(q) \/ WaiterEnds(q) \/ Leave(q) \/ Holds(q) \/ SweepExpires(q) \/ Strand(q)
    \/ Tick

Spec == Init /\ [][Next]_vars

(***************************************************************************)
(* Properties                                                              *)
(***************************************************************************)

Ended == {"released", "expired", "revoked"}

AnchorRow ==
    [state : {"absent", "live", "retired"}, token : Nat, lease : Requests \cup {None},
     held : Int, avail : {0, 1}, labels : LabelSets \cup {{}}, bound : Bounds \cup {0}]

RequestRow ==
    [status : {"absent", "waiting", "granted", "cancelled", "expired"}, wait : Nat,
     waiter : {"none", "parked", "told", "gone"}]

LeaseRow ==
    [status : {"none", "active"} \cup Ended, res : Resources \cup {None}, token : Nat,
     term : Nat, left : Int, started : {0, 1}]

CallRow ==
    [pc : {"idle", "asking", "parking", "offering", "granting", "ending", "renewing", "starting"},
     res : Resources \cup {None}, req : Requests \cup {None}, todo : SUBSET Resources,
     tries : Nat, park : Requests \cup {None}, token : Nat, term : Nat, left : Int,
     age : 0..Lag]

\* Every row and every call in progress has its columns' types.
TypeOK ==
    /\ anchors \in [Resources -> AnchorRow]
    /\ requests \in [Requests -> RequestRow]
    /\ line \in Seq(Requests)
    /\ leases \in [Requests -> LeaseRow]
    /\ acting \in [Requests -> Int]
    /\ undercut \subseteq Requests
    /\ calls \in [Callers -> CallRow]
    /\ moves \in 0..MaxMoves

\* The anchor and the leases of its resource agree, through every order of
\* grants, renewals, starts and ends: the lease it names is active, is the only
\* one, carries the token and the expiry the anchor holds, and every other
\* lease the resource ever had has a smaller token.
AnchorAgrees ==
    \A r \in Resources :
       /\ ActiveOn(r) = {anchors[r].lease} \ {None}
       /\ \A q \in ActiveOn(r) :
             anchors[r].token = leases[q].token /\ anchors[r].held = leases[q].left
       /\ \A p, q \in Requests :
             leases[p].res = r /\ leases[q].res = r /\ p # q =>
                /\ leases[p].token # leases[q].token
                /\ leases[p].token <= anchors[r].token

\* "The margin outlasts a slow clock": whoever acts on a resource, by a clock as
\* slow as Skew, still holds its lease, unless a manager has revoked it.  With
\* AnchorAgrees, no two act on one resource at once.  But for a lease that fell short
\* of what its holder was told by more than the margin leaves a slow clock: a
\* renewal cut it, in landing after a longer one or in being lost to its holder, or
\* an offer that had found it lapsed ended it after its job had started.
ActsUnderLease ==
    \A q \in Requests :
       Acting(q) => leases[q].status \in {"active", "revoked"} \/ q \in undercut

\* Where an orchestration is parked, its request still waits: the wake cannot
\* have come before the park and been lost.
ParkedStillWaits ==
    \A q \in Requests : requests[q].waiter = "parked" => Waiting(q)

\* A settled request never changes and an ended lease stays as it ended,
\* whichever call lands late.
SettledIsFinal ==
    [][\A q \in Requests :
          /\ requests[q].status \in {"granted", "cancelled", "expired"} =>
                requests'[q].status = requests[q].status
          /\ leases[q].status \notin {"none", "active"} => leases'[q] = leases[q]]_vars

\* A grant fits the resource as its row stands when it lands, whatever its
\* owner changed since it was decided: in its line, and within its bound.
GrantsFit ==
    [][\A q \in Requests :
          leases[q] = NoLease /\ leases'[q] # NoLease =>
             LET r == leases'[q].res
             IN /\ StandsIn(q, r)
                /\ leases'[q].term <= anchors[r].bound
                /\ leases'[q].left <= anchors[r].bound]_vars

\* types/lease.py:19, EXPIRED: "past its expiry and the skew margin, ended by
\* the sweep or a grant".  The lease an offer found lapsed may have been
\* started by its job since, and is ended all the same.
ExpiredIsLapsed ==
    [][\A q \in Requests :
          leases[q].status = "active" /\ leases'[q].status = "expired" =>
             Lapsed(leases[q].left)]_vars

(***************************************************************************)
(* What the steps keep, from which the invariants follow.                  *)
(***************************************************************************)

\* The line holds the requests that wait, each once.
LineIsWaiting ==
    /\ \A q \in Requests : Waiting(q) <=> \E i \in 1..Len(line) : line[i] = q
    /\ \A i, j \in 1..Len(line) : i # j => line[i] # line[j]

\* What a call carries is what it read: resources and requests, and a length that
\* some bound of a resource gives the request.
CallIsSound(k) ==
    /\ k.pc \in {"offering", "granting", "ending"} => k.res \in Resources
    /\ k.pc \in {"asking", "granting", "ending", "renewing", "starting"} => k.req \in Requests
    /\ k.pc = "parking" => k.park \in Requests
    /\ k.pc \in {"renewing", "starting"} => k.left \in Lengths(k.req)
    /\ k.pc = "starting" => Window[k.req] > 0
    /\ k.pc = "granting" => /\ k.term \in Lengths(k.req) /\ k.left \in Nat
                            /\ Window[k.req] = 0 => k.left \in Lengths(k.req)

CallsAreSound == \A c \in Callers : CallIsSound(calls[c])

\* A resource that nobody registered has no lease and had none.
AnchorsAreSound ==
    \A r \in Resources :
       IF anchors[r].state = "absent"
       THEN anchors[r].token = 0 /\ anchors[r].lease = None
       ELSE anchors[r].bound \in Bounds

\* A lease is of a registered resource, under a token that was its newest, and
\* runs, once its holder may act, no longer than a bound allows.
LeasesAreSound ==
    \A q \in Requests :
       LET l == leases[q]
       IN IF l.status = "none" THEN l = NoLease /\ ~Acting(q)
          ELSE /\ l.res \in Resources /\ anchors[l.res].state # "absent"
               /\ 0 < l.token /\ l.token <= anchors[l.res].token
               /\ l.term \in Lengths(q)
               /\ l.status = "active" /\ (Window[q] = 0 \/ l.started = 1) =>
                     \E m \in Lengths(q) : l.left <= m

\* AnchorAgrees, from the side of the anchor and from that of the lease.
AnchorNames ==
    /\ \A r \in Resources :
          LET a == anchors[r]
          IN a.lease # None =>
                /\ leases[a.lease].status = "active" /\ leases[a.lease].res = r
                /\ leases[a.lease].token = a.token /\ leases[a.lease].left = a.held
    /\ \A q \in Requests :
          leases[q].status = "active" => anchors[leases[q].res].lease = q

\* No two leases of a resource have one token.
TokensDiffer ==
    \A p, q \in Requests :
       p # q /\ leases[p].res = leases[q].res /\ leases[p].res # None =>
          leases[p].token # leases[q].token

IInv ==
    /\ TypeOK /\ LineIsWaiting /\ CallsAreSound /\ AnchorsAreSound /\ LeasesAreSound
    /\ AnchorNames /\ TokensDiffer /\ ParkedStillWaits

\* A holder's deadline comes before its lease has lapsed.
DeadlineIsInTime ==
    \A q \in Requests :
       Acting(q) /\ leases[q].status = "active" /\ q \notin undercut =>
          acting[q] + Skew <= leases[q].left + Margin

ActingInv == ActsUnderLease /\ DeadlineIsInTime

(***************************************************************************)
(* Liveness.  A call in progress goes on, and the sweep comes back to every*)
(* resource and every request.                                             *)
(***************************************************************************)

\* Nothing is assumed of time, so that a property may ask what comes about while
\* the clock stands still and no request is let go for its age.
FairSpec ==
    /\ Spec
    /\ \A c \in Callers : WF_vars(CallSteps(c))
    /\ \A r \in Resources : SF_vars(\E c \in Callers : SweepOffers(c, r))
    /\ \A q \in Requests :
          /\ WF_vars(SweepExpires(q))
          /\ SF_vars(\E c \in Callers : SweepEnds(c, q))

\* A free resource does not stand idle before its line, a crash between the
\* end of a lease and the offer that follows it notwithstanding.
LineMoves ==
    \A r \in Resources :
       (Grantable(r) /\ WaitLine(r) # {}) ~> ~(Grantable(r) /\ WaitLine(r) # {})

\* While time passes, an orchestration that parked on its request is told how it
\* ended, or is gone itself.
ParkedIsTold ==
    WF_vars(Tick) => \A q \in Requests : requests[q].waiter = "parked" ~> requests[q].waiter # "parked"

=============================================================================
