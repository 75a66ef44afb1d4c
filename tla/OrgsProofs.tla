------------------------------ MODULE OrgsProofs ------------------------------
(***************************************************************************)
(* What an org has, each part for all its constants. Three are kept in     *)
(* step with a service outside: the account with the payment processor, a  *)
(* team's token with Slack, and the rows of files with the object store.   *)
(* Three are of its people: the sockets, the members, and the credentials  *)
(* of a person.                                                            *)
(*                                                                         *)
(* The processor makes one customer for the org because the keys are used  *)
(* in turn: nobody asks under a key before the key below it has failed,    *)
(* and no copy of the row, however old, names one that nobody reached      *)
(* (AnswersHold, RowHolds). The account converges to the subscription      *)
(* because, while no write of the whole row overlapped another, whoever    *)
(* could write has the row as it is (FreshIsRow) and what it fetched       *)
(* covers every event that is marked (FetchedIsNews); so an event that is  *)
(* marked is one the account mirrors, or is behind (MarkedIsMirrored).     *)
(*                                                                         *)
(* The newest pair of a token is in the store or about to be, since only   *)
(* one pair that is newer than the stored one can be about to be kept      *)
(* (RenewedIsNewest). One caller renews at a time, unless a write of the   *)
(* whole row took the claim off a renewal that still goes on (OneRenews).  *)
(*                                                                         *)
(* No object of the store is without a row, and no file that may still be  *)
(* finished loses its upload. A sweep may purge the row by its id,         *)
(* whatever it has become, only because its object cannot come back: the   *)
(* row names one upload for good (NamesOnly), which is over once a sweep   *)
(* has aborted it or a confirm has completed it (UploadIsOver), and the    *)
(* store makes no object of an upload that is over.                        *)
(*                                                                         *)
(* A ticket opens one socket, and a socket whose authority ended is closed *)
(* in time, where a check is over within an interval. The bound is not     *)
(* inductive: it says nothing of when the check that will see the loss     *)
(* begins. LossIsSeen does, and TellingIsSeen where a change of the        *)
(* account was heard; a check that began before the loss and has read that *)
(* part already is followed by another within the interval.                *)
(*                                                                         *)
(* An open org loses its last owner only to a call that what it goes by is *)
(* no longer so for. Of a call for which it is so, who changes another is  *)
(* there and stays, for nobody changes themselves (CallHolds), and who     *)
(* leaves as an owner is counted again at the commit.                      *)
(*                                                                         *)
(* A visit has one live credential at a time, a code verifies once, and a  *)
(* visit that ended stays ended. A code that verified could verify again   *)
(* if it were not behind the last step (CodesAreSpent), and a visit could  *)
(* come back if a credential were of one still to come (MadeIsVisited).    *)
(***************************************************************************)
EXTENDS Billing, FiniteSetTheorems, TLAPS

\* Of the token.
CONSTANTS Callers, MaxPairs, MaxRefusals
VARIABLES claimed, broken, stored, age, issued, callers, lost, bared, refusals

\* Of the store.
CONSTANTS Calls, Sweeps, MaxUploads, MaxFailures
VARIABLES fileRow, aged, uploads, numbered, object, expired, calls, sweeps, failures

\* Of the sockets.
CONSTANTS Openers, Kinds, TicketTtl, Expiry, Interval, Delay, MaxNow
VARIABLES kind, redeemed, live, member, plan, bus, sockets, now

\* Of the members of an org, and of a person's credentials.
CONSTANTS People, Founder, MaxCalls
CONSTANTS Visits, MaxCreds, MaxStep, Window

VARIABLES org, user, membership, moves, asked
VARIABLES creds, made, visited, step, lastStep, presented

SL == INSTANCE Slack WITH
    MaxFaults <- MaxRefusals, faults <- refusals
MD == INSTANCE Media WITH
    MaxFaults <- MaxFailures, row <- fileRow, made <- numbered, faults <- failures
SK == INSTANCE Sockets
MB == INSTANCE Members WITH member <- membership, calls <- moves
SI == INSTANCE SignIns WITH now <- step, calls <- presented

----------------------------------------------------------------------------
(* The account.                                                            *)

----------------------------------------------------------------------------
(* The records, and what they become.                                      *)

LEMMA SubsAreNumbers ==
    ASSUME BillingAssumption
    PROVE  Subs \subseteq Nat \ {0}
<1>1. Cardinality(Starts) \in Nat
  BY FS_CardinalityType DEF BillingAssumption
<1> QED BY <1>1 DEF Subs

LEMMA NoAccountIsRow == ASSUME BillingAssumption PROVE NoAccount \in Row
BY DEF BillingAssumption, NoAccount, Row, Attempts

LEMMA NoSubIsSub == ASSUME BillingAssumption PROVE NoSub \in Sub
BY DEF BillingAssumption, NoSub, Sub

LEMMA NothingIsHeld ==
    ASSUME BillingAssumption
    PROVE  NoStart \in AStart /\ NoWork \in Work /\ NoEdit \in AnEdit
<1>1. NoStart \in AStart
  BY DEF BillingAssumption, NoStart, AStart, Attempts
<1>2. NoAccount \in Row /\ NoSub \in Sub
  BY NoAccountIsRow, NoSubIsSub
<1>3. NoWork \in Work
  BY <1>2 DEF NoWork, Work
<1>4. NoEdit \in AnEdit
  BY <1>2 DEF NoEdit, AnEdit
<1> QED BY <1>1, <1>3, <1>4

\* mirrored()
LEMMA MirroredIsRow ==
    ASSUME NEW row \in Row, NEW s \in Subs, NEW sub \in Sub
    PROVE  /\ Mirrored(row, s, sub) \in Row
           /\ Mirrored(row, s, sub).exists = row.exists
           /\ Mirrored(row, s, sub).customer = row.customer
           /\ Mirrored(row, s, sub).attempt = row.attempt
           /\ Mirrored(row, s, sub).sub = s
           /\ Mirrored(row, s, sub).live = sub.live
           /\ Mirrored(row, s, sub).version = sub.version
<1> DEFINE y == Mirrored(row, s, sub)
           fields == {"exists", "customer", "attempt", "sub", "live", "version", "comped"}
<1>1. row \in [fields -> {row.exists, row.customer, row.attempt, row.sub, row.live,
                          row.version, row.comped}]
  BY DEF Row
<1>2. DOMAIN y = fields /\ y = [f \in DOMAIN y |-> y[f]]
  BY <1>1 DEF Mirrored
<1>3. /\ y.exists = row.exists /\ y.customer = row.customer /\ y.attempt = row.attempt
      /\ y.sub = s /\ y.live = sub.live /\ y.version = sub.version /\ y.comped = row.comped
  BY DEF Row, Mirrored
<1>4. /\ row.exists \in BOOLEAN /\ row.customer \in Nat /\ row.attempt \in Attempts
      /\ sub.live \in BOOLEAN /\ sub.version \in 0..MaxChanges /\ row.comped \in BOOLEAN
  BY DEF Row, Sub
<1> HIDE DEF y
<1>5. y \in Row
  BY <1>2, <1>3, <1>4 DEF Row
<1> QED BY <1>3, <1>5 DEF y

\* A row that takes a customer.
LEMMA RowNames ==
    ASSUME NEW row \in Row, NEW c \in Nat
    PROVE  /\ [row EXCEPT !.exists = TRUE, !.customer = c] \in Row
           /\ [row EXCEPT !.exists = TRUE, !.customer = c].exists = TRUE
           /\ [row EXCEPT !.exists = TRUE, !.customer = c].customer = c
           /\ [row EXCEPT !.exists = TRUE, !.customer = c].attempt = row.attempt
           /\ [row EXCEPT !.exists = TRUE, !.customer = c].sub = row.sub
           /\ [row EXCEPT !.exists = TRUE, !.customer = c].live = row.live
           /\ [row EXCEPT !.exists = TRUE, !.customer = c].version = row.version
<1> DEFINE y == [row EXCEPT !.exists = TRUE, !.customer = c]
           fields == {"exists", "customer", "attempt", "sub", "live", "version", "comped"}
<1>1. row \in [fields -> {row.exists, row.customer, row.attempt, row.sub, row.live,
                          row.version, row.comped}]
  BY DEF Row
<1>2. DOMAIN y = fields /\ y = [f \in DOMAIN y |-> y[f]]
  BY <1>1
<1>3. /\ y.exists = TRUE /\ y.customer = c
      /\ y.attempt = row.attempt /\ y.sub = row.sub /\ y.live = row.live
      /\ y.version = row.version /\ y.comped = row.comped
  BY DEF Row
<1>4. /\ row.customer \in Nat /\ row.attempt \in Attempts /\ row.sub \in {0} \cup Subs
      /\ row.live \in BOOLEAN /\ row.version \in 0..MaxChanges /\ row.comped \in BOOLEAN
  BY DEF Row
<1> HIDE DEF y
<1>5. y \in Row
  BY <1>2, <1>3, <1>4 DEF Row
<1> QED BY <1>3, <1>5 DEF y

\* A row that moves to an attempt.
LEMMA RowTries ==
    ASSUME NEW row \in Row, NEW a \in Attempts
    PROVE  /\ [row EXCEPT !.exists = TRUE, !.attempt = a] \in Row
           /\ [row EXCEPT !.exists = TRUE, !.attempt = a].exists = TRUE
           /\ [row EXCEPT !.exists = TRUE, !.attempt = a].attempt = a
           /\ [row EXCEPT !.exists = TRUE, !.attempt = a].customer = row.customer
           /\ [row EXCEPT !.exists = TRUE, !.attempt = a].sub = row.sub
           /\ [row EXCEPT !.exists = TRUE, !.attempt = a].live = row.live
           /\ [row EXCEPT !.exists = TRUE, !.attempt = a].version = row.version
<1> DEFINE y == [row EXCEPT !.exists = TRUE, !.attempt = a]
           fields == {"exists", "customer", "attempt", "sub", "live", "version", "comped"}
<1>1. row \in [fields -> {row.exists, row.customer, row.attempt, row.sub, row.live,
                          row.version, row.comped}]
  BY DEF Row
<1>2. DOMAIN y = fields /\ y = [f \in DOMAIN y |-> y[f]]
  BY <1>1
<1>3. /\ y.exists = TRUE /\ y.attempt = a
      /\ y.customer = row.customer /\ y.sub = row.sub /\ y.live = row.live
      /\ y.version = row.version /\ y.comped = row.comped
  BY DEF Row
<1>4. /\ row.customer \in Nat /\ row.attempt \in Attempts /\ row.sub \in {0} \cup Subs
      /\ row.live \in BOOLEAN /\ row.version \in 0..MaxChanges /\ row.comped \in BOOLEAN
  BY DEF Row
<1> HIDE DEF y
<1>5. y \in Row
  BY <1>2, <1>3, <1>4 DEF Row
<1> QED BY <1>3, <1>5 DEF y

\* A row that is granted a plan, or has it taken back.
LEMMA RowGrants ==
    ASSUME NEW row \in Row, NEW g \in BOOLEAN
    PROVE  /\ [row EXCEPT !.exists = TRUE, !.comped = g] \in Row
           /\ [row EXCEPT !.exists = TRUE, !.comped = g].exists = TRUE
           /\ [row EXCEPT !.exists = TRUE, !.comped = g].comped = g
           /\ [row EXCEPT !.exists = TRUE, !.comped = g].customer = row.customer
           /\ [row EXCEPT !.exists = TRUE, !.comped = g].attempt = row.attempt
           /\ [row EXCEPT !.exists = TRUE, !.comped = g].sub = row.sub
           /\ [row EXCEPT !.exists = TRUE, !.comped = g].live = row.live
           /\ [row EXCEPT !.exists = TRUE, !.comped = g].version = row.version
<1> DEFINE y == [row EXCEPT !.exists = TRUE, !.comped = g]
           fields == {"exists", "customer", "attempt", "sub", "live", "version", "comped"}
<1>1. row \in [fields -> {row.exists, row.customer, row.attempt, row.sub, row.live,
                          row.version, row.comped}]
  BY DEF Row
<1>2. DOMAIN y = fields /\ y = [f \in DOMAIN y |-> y[f]]
  BY <1>1
<1>3. /\ y.exists = TRUE /\ y.comped = g
      /\ y.customer = row.customer /\ y.attempt = row.attempt /\ y.sub = row.sub
      /\ y.live = row.live /\ y.version = row.version
  BY DEF Row
<1>4. /\ row.customer \in Nat /\ row.attempt \in Attempts /\ row.sub \in {0} \cup Subs
      /\ row.live \in BOOLEAN /\ row.version \in 0..MaxChanges /\ row.comped \in BOOLEAN
  BY DEF Row
<1> HIDE DEF y
<1>5. y \in Row
  BY <1>2, <1>3, <1>4 DEF Row
<1> QED BY <1>3, <1>5 DEF y

\* A subscription that changes.
LEMMA ChangedIsSub ==
    ASSUME NEW sub \in Sub, NEW paid \in BOOLEAN, sub.version < MaxChanges, BillingAssumption
    PROVE  /\ Changed(sub, paid) \in Sub /\ Changed(sub, paid).live = paid
           /\ Changed(sub, paid).version = sub.version + 1
           /\ Changed(sub, paid).customer = sub.customer
<1> DEFINE y == Changed(sub, paid)
<1>1. sub \in [{"customer", "live", "version"} -> {sub.customer, sub.live, sub.version}]
  BY DEF Sub
<1>2. DOMAIN y = {"customer", "live", "version"} /\ y = [f \in DOMAIN y |-> y[f]]
  BY <1>1 DEF Changed
<1>3. y.customer = sub.customer /\ y.live = paid /\ y.version = sub.version + 1
  BY DEF Sub, Changed
<1>4. sub.customer \in Nat /\ sub.version + 1 \in 0..MaxChanges
  BY DEF Sub, BillingAssumption
<1> HIDE DEF y
<1>5. y \in Sub
  BY <1>2, <1>3, <1>4 DEF Sub
<1> QED BY <1>3, <1>5 DEF y

\* What a handling of a delivery becomes.
LEMMA WorkFetches ==
    ASSUME NEW x \in Work, NEW sub \in Sub
    PROVE  \E z \in Work : /\ z = [x EXCEPT !.pc = "fetched", !.sub = sub]
                           /\ z.pc = "fetched" /\ z.sub = sub
                           /\ z.event = x.event /\ z.read = x.read
<1> DEFINE z == [x EXCEPT !.pc = "fetched", !.sub = sub]
<1>1. x \in [{"pc", "event", "read", "sub"} -> {x.pc, x.event, x.read, x.sub}]
  BY DEF Work
<1>2. DOMAIN z = {"pc", "event", "read", "sub"} /\ z = [f \in DOMAIN z |-> z[f]]
  BY <1>1
<1>3. z.pc = "fetched" /\ z.event = x.event /\ z.read = x.read /\ z.sub = sub
  BY DEF Work
<1>4. x.event \in Nat \X Nat /\ x.read \in Row
  BY DEF Work
<1>5. z = [x EXCEPT !.pc = "fetched", !.sub = sub]
  OBVIOUS
<1> HIDE DEF z
<1>6. z \in Work
  BY <1>2, <1>3, <1>4 DEF Work
<1> QED BY <1>3, <1>5, <1>6

LEMMA EditReadsRow ==
    ASSUME BillingAssumption, NEW row \in Row
    PROVE  /\ [NoEdit EXCEPT !.pc = "read", !.read = row] \in AnEdit
           /\ [NoEdit EXCEPT !.pc = "read", !.read = row].pc = "read"
           /\ [NoEdit EXCEPT !.pc = "read", !.read = row].read = row
<1> DEFINE y == [NoEdit EXCEPT !.pc = "read", !.read = row]
<1>1. /\ DOMAIN y = {"pc", "read", "sub"} /\ y = [f \in DOMAIN y |-> y[f]]
      /\ y.pc = "read" /\ y.read = row /\ y.sub = NoSub
  BY DEF NoEdit
<1>2. y \in AnEdit /\ y.pc = "read" /\ y.read = row
  <2> HIDE DEF y
  <2> QED BY <1>1, NoSubIsSub DEF AnEdit
<1> QED BY <1>2

LEMMA EditIsTold ==
    ASSUME NEW x \in AnEdit, NEW sub \in Sub
    PROVE  /\ [x EXCEPT !.pc = "told", !.sub = sub] \in AnEdit
           /\ [x EXCEPT !.pc = "told", !.sub = sub].pc = "told"
           /\ [x EXCEPT !.pc = "told", !.sub = sub].read = x.read
           /\ [x EXCEPT !.pc = "told", !.sub = sub].sub = sub
<1> DEFINE z == [x EXCEPT !.pc = "told", !.sub = sub]
<1>3. x \in [{"pc", "read", "sub"} -> {x.pc, x.read, x.sub}]
  BY DEF AnEdit
<1>4. DOMAIN z = {"pc", "read", "sub"} /\ z = [f \in DOMAIN z |-> z[f]]
  BY <1>3
<1>5. z.pc = "told" /\ z.read = x.read /\ z.sub = sub
  BY DEF AnEdit
<1>6. x.read \in Row
  BY DEF AnEdit
<1> HIDE DEF z
<1>7. z \in AnEdit
  BY <1>4, <1>5, <1>6 DEF AnEdit
<1> QED BY <1>5, <1>7 DEF z

----------------------------------------------------------------------------
(* What only grows, and what therefore stays.                              *)

\* No failure is undone, no customer unmade, and a subscription that changes is
\* of a later version.
Kept ==
    /\ customers <= customers'
    /\ \A a \in Attempts : answers[a] = Failed => answers'[a] = Failed
    /\ \A s \in Subs : subs'[s] = subs[s] \/ subs[s].version < subs'[s].version

LEMMA NothingMoves ==
    ASSUME TypeOK, UNCHANGED <<customers, answers, subs>>
    PROVE  Kept
BY DEF TypeOK, Kept

LEMMA WasSubStays ==
    ASSUME TypeOK, TypeOK', Kept, NEW s, NEW paid, NEW version, WasSub(s, paid, version)
    PROVE  WasSub(s, paid, version)'
<1>1. s \in Subs /\ version \in 1..subs[s].version
      /\ (version = subs[s].version => paid = subs[s].live)
  BY DEF WasSub
<1>2. subs[s].version \in Nat /\ subs'[s].version \in Nat
  BY <1>1 DEF TypeOK, Sub
<1>3. subs'[s] = subs[s] \/ subs[s].version < subs'[s].version
  BY <1>1 DEF Kept
<1> QED BY <1>1, <1>2, <1>3 DEF WasSub

LEMMA RowStays ==
    ASSUME TypeOK, TypeOK', Kept, NEW row \in Row, RowHolds(row)
    PROVE  RowHolds(row)'
<1>1. row.customer <= customers'
  BY DEF RowHolds, Kept, TypeOK, Row
<1>2. InTurn(row.attempt)'
  BY DEF RowHolds, InTurn, Kept
<1>3. row.sub # 0 => WasSub(row.sub, row.live, row.version)'
  BY WasSubStays DEF RowHolds
<1> QED BY <1>1, <1>2, <1>3 DEF RowHolds

LEMMA SentGrows == ASSUME TypeOK, TypeOK', Kept PROVE Sent \subseteq Sent'
<1> SUFFICES ASSUME NEW e \in Sent PROVE e \in Sent'
  OBVIOUS
<1>1. e \in Events /\ e[1] \in Subs /\ e[2] \in Nat /\ e[2] <= subs[e[1]].version
  BY DEF Sent, Events
<1>2. subs[e[1]].version \in Nat /\ subs'[e[1]].version \in Nat
  BY <1>1 DEF TypeOK, Sub
<1>3. subs[e[1]].version <= subs'[e[1]].version
  BY <1>1, <1>2 DEF Kept
<1> QED BY <1>1, <1>2, <1>3 DEF Sent

LEMMA DeliveryStays ==
    ASSUME TypeOK, TypeOK', Kept, NEW w \in Workers, workers'[w] = workers[w], DeliveryHolds(w)
    PROVE  DeliveryHolds(w)'
<1> PICK d : d = workers[w]
  OBVIOUS
<1>1. d.pc # "idle" => d.event \in Sent' /\ d.read.exists
  BY SentGrows DEF DeliveryHolds
<1>2. d.pc = "fetched" => WasSub(d.event[1], d.sub.live, d.sub.version)
  BY DEF DeliveryHolds
<1>3. d.pc = "fetched" => WasSub(d.event[1], d.sub.live, d.sub.version)'
  BY <1>2, WasSubStays
<1>4. d.pc = "fetched" => d.event[2] <= d.sub.version
  BY DEF DeliveryHolds
<1> QED BY <1>1, <1>3, <1>4 DEF DeliveryHolds

LEMMA EditStays ==
    ASSUME TypeOK, TypeOK', Kept, editor' = editor, EditHolds
    PROVE  EditHolds'
<1> PICK d : d = editor
  OBVIOUS
<1>1. d.pc = "told" => WasSub(d.read.sub, d.sub.live, d.sub.version)'
  BY WasSubStays DEF EditHolds
<1> QED BY <1>1 DEF EditHolds

LEMMA CopiesAreRows == ASSUME TypeOK PROVE Copies \subseteq Row
BY DEF TypeOK, Copies, Work, AnEdit, Grant

LEMMA NoAccountHolds ==
    ASSUME BillingAssumption, TypeOK'
    PROVE  RowHolds(NoAccount)'
BY DEF RowHolds, InTurn, NoAccount, Attempts, TypeOK

\* Whatever copy there is was one, or is of the row that was written.
LEMMA CopiesStay ==
    ASSUME BillingAssumption, TypeOK, TypeOK', Kept, CopiesHold,
           RowHolds(account)', Copies' \subseteq Copies \cup {account', NoAccount},
           \A w \in Workers : workers'[w] = workers[w] \/ DeliveryHolds(w)',
           editor' = editor \/ EditHolds'
    PROVE  CopiesHold'
<1>1. ASSUME NEW row \in Copies' PROVE RowHolds(row)'
  <2>1. CASE row \in Copies
    BY <2>1, RowStays, CopiesAreRows DEF CopiesHold
  <2>2. CASE row = account'
    BY <2>2 DEF RowHolds, InTurn, WasSub
  <2>3. CASE row = NoAccount
    BY <2>3, NoAccountHolds
  <2> QED BY <1>1, <2>1, <2>2, <2>3
<1>2. ASSUME NEW w \in Workers PROVE DeliveryHolds(w)'
  BY <1>2, DeliveryStays DEF CopiesHold
<1>3. EditHolds'
  BY EditStays DEF CopiesHold
<1> QED BY <1>1, <1>2, <1>3 DEF CopiesHold

----------------------------------------------------------------------------
(* Init.                                                                   *)

LEMMA InitKeeps == ASSUME BillingAssumption, Init PROVE IInv
<1>1. TypeOK
  <2>1. account \in Row /\ starts \in [Starts -> AStart] /\ workers \in [Workers -> Work]
        /\ editor \in AnEdit
    BY NoAccountIsRow, NothingIsHeld DEF Init
  <2>2. grants \in Grant
    BY NoAccountIsRow DEF Init, Grant, BillingAssumption
  <2>3. answers \in [Attempts -> {Failed, None} \cup 1..customers]
        /\ {customers, sessions} \subseteq Nat /\ faults \in 0..MaxFaults
    BY DEF Init, BillingAssumption
  <2>4. subs \in [Subs -> Sub]
    BY NoSubIsSub DEF Init
  <2>5. marks \subseteq done /\ done \subseteq Sent /\ stale \subseteq Holders
    BY DEF Init
  <2>6. overtaken \in BOOLEAN
    BY DEF Init
  <2> QED BY <2>1, <2>2, <2>3, <2>4, <2>5, <2>6 DEF TypeOK
<1>2. InTurn(0)
  BY DEF InTurn, Attempts
<1>3. AnswersHold
  <2>1. \A c \in Starts : InTurn(starts[c].attempt) /\ starts[c].pc # "asked"
    BY <1>2 DEF Init, NoStart
  <2>2. OneCustomer /\ ~(customers > 0)
    BY DEF Init, OneCustomer
  <2>3. \A a \in Attempts : answers[a] = None /\ answers[a] # Failed
    BY DEF Init, None, Failed
  <2> QED BY <2>1, <2>2, <2>3 DEF AnswersHold
<1>4. \A s \in Subs : subs[s].version = 0 /\ ~subs[s].live
  BY DEF Init, NoSub
<1>5. SubsHold
  BY <1>4 DEF SubsHold
<1>6. CopiesHold
  <2>1. RowHolds(NoAccount)
    BY <1>2 DEF Init, RowHolds, NoAccount
  <2>2. Copies \subseteq {NoAccount}
    BY DEF Init, Copies, NoWork, NoEdit
  <2>3. \A w \in Workers : DeliveryHolds(w)
    BY DEF Init, DeliveryHolds, NoWork
  <2>4. EditHolds
    BY DEF Init, EditHolds, NoEdit
  <2> QED BY <2>1, <2>2, <2>3, <2>4 DEF CopiesHold
<1>7. FreshIsRow
  BY DEF Init, FreshIsRow, NoWork, NoEdit
<1>8. CustomerIsNamed
  BY <1>4 DEF Init, CustomerIsNamed, NoStart, NoWork
<1>9. FetchedIsNews
  BY DEF Init, FetchedIsNews, NoWork, NoEdit
<1>10. MarkedIsMirrored
  BY DEF Init, MarkedIsMirrored
<1> QED BY <1>1, <1>3, <1>5, <1>6, <1>7, <1>8, <1>9, <1>10 DEF IInv

----------------------------------------------------------------------------
(* The checkouts.                                                          *)

\* What does not touch the row, its copies or the subscriptions.
LEMMA BesidesKeeps ==
    ASSUME BillingAssumption, IInv, TypeOK', AnswersHold', Kept,
           UNCHANGED <<account, subs, marks, done, workers, editor, grants, stale, overtaken>>,
           CustomerIsNamed => CustomerIsNamed'
    PROVE  IInv'
<1>1. SubsHold' /\ FreshIsRow'
  BY DEF IInv, SubsHold, FreshIsRow
<1>2. Copies' = Copies
  BY DEF Copies
<1>3. RowHolds(account)'
  <2> PICK row \in Row : row = account
    BY DEF IInv, TypeOK
  <2>1. RowHolds(row)'
    BY RowStays DEF IInv, CopiesHold, Copies
  <2> QED BY <2>1 DEF RowHolds, InTurn, WasSub
<1>4. CopiesHold'
  BY <1>2, <1>3, CopiesStay DEF IInv
<1>5. ~overtaken' => CustomerIsNamed' /\ FetchedIsNews' /\ MarkedIsMirrored'
  <2>1. FetchedIsNews => FetchedIsNews'
    BY DEF FetchedIsNews, Covers
  <2>2. MarkedIsMirrored => MarkedIsMirrored'
    BY DEF MarkedIsMirrored
  <2> QED BY <2>1, <2>2 DEF IInv
<1> QED BY <1>1, <1>4, <1>5 DEF IInv

LEMMA StartReadsKeeps ==
    ASSUME BillingAssumption, IInv, NEW c \in Starts, StartReads(c)
    PROVE  IInv'
<1> DEFINE x == [NoStart EXCEPT !.pc = IF account.customer = 0 THEN "asking" ELSE "named",
                                !.attempt = account.attempt]
<1>1. /\ starts[c].pc = "idle" /\ starts' = [starts EXCEPT ![c] = x]
      /\ UNCHANGED <<account, answers, customers, subs, sessions, marks, done,
                     workers, editor, grants, faults, stale, overtaken>>
  BY DEF StartReads
<1>2. /\ x \in AStart /\ x.attempt = account.attempt
      /\ x.pc = IF account.customer = 0 THEN "asking" ELSE "named"
  BY DEF IInv, TypeOK, Row, AStart, NoStart
<1>3. \A d \in Starts : starts'[d] = IF d = c THEN x ELSE starts[d]
  <2> HIDE DEF x
  <2> QED BY <1>1 DEF IInv, TypeOK
<1>4. TypeOK'
  <2>1. starts' \in [Starts -> AStart]
    <3> HIDE DEF x
    <3> QED BY <1>1, <1>2 DEF IInv, TypeOK
  <2> QED BY <1>1, <2>1 DEF IInv, TypeOK, Sent, Holders
<1>5. AnswersHold'
  <2>1. InTurn(account.attempt)
    BY DEF IInv, CopiesHold, Copies, RowHolds
  <2> HIDE DEF x
  <2> QED BY <1>1, <1>2, <1>3, <2>1 DEF IInv, AnswersHold, InTurn, OneCustomer
<1>6. CustomerIsNamed => CustomerIsNamed'
  <2>1. account.customer \in {0, 1}
    BY DEF IInv, CopiesHold, Copies, RowHolds, AnswersHold, OneCustomer, TypeOK, Row
  <2>2. \A d \in Starts : starts'[d].pc \in {"named", "done"} =>
            starts[d].pc \in {"named", "done"} \/ account.customer = 1
    <3> HIDE DEF x
    <3> QED BY <1>2, <1>3, <2>1
  <2> QED BY <1>1, <2>2 DEF CustomerIsNamed
<1>7. Kept
  BY <1>1, NothingMoves DEF IInv
<1> QED BY <1>1, <1>4, <1>5, <1>6, <1>7, BesidesKeeps

LEMMA StartEndsKeeps ==
    ASSUME BillingAssumption, IInv, NEW c \in Starts, StartEnds(c)
    PROVE  IInv'
<1>1. /\ starts[c].pc = "named" /\ sessions' = sessions + 1
      /\ starts' = [starts EXCEPT ![c].pc = "done"]
      /\ UNCHANGED <<account, answers, customers, subs, marks, done, workers,
                     editor, grants, faults, stale, overtaken>>
  BY DEF StartEnds
<1>2. \A d \in Starts : /\ d # c => starts'[d] = starts[d]
                        /\ starts'[d].attempt = starts[d].attempt
  BY <1>1 DEF IInv, TypeOK, AStart
<1>3. starts'[c].pc = "done"
  BY <1>1 DEF IInv, TypeOK, AStart
<1>4. TypeOK'
  <2>1. starts' \in [Starts -> AStart]
    BY <1>1 DEF IInv, TypeOK, AStart
  <2> QED BY <1>1, <2>1 DEF IInv, TypeOK, Sent, Holders
<1>5. AnswersHold'
  BY <1>1, <1>2, <1>3 DEF IInv, AnswersHold, InTurn, OneCustomer
<1>6. CustomerIsNamed => CustomerIsNamed'
  BY <1>1, <1>2, <1>3 DEF CustomerIsNamed
<1>7. Kept
  BY <1>1, NothingMoves DEF IInv
<1> QED BY <1>1, <1>4, <1>5, <1>6, <1>7, BesidesKeeps

\* The answer of the processor to a key nobody used, or used before.
LEMMA AskKeeps ==
    ASSUME BillingAssumption, IInv, NEW c \in Starts, Ask(c)
    PROVE  IInv'
<1> DEFINE a == starts[c].attempt
<1>1. /\ starts[c].pc = "asking" /\ starts' = [starts EXCEPT ![c].pc = "asked"]
      /\ UNCHANGED <<account, subs, sessions, marks, done, workers, editor,
                     grants, stale, overtaken>>
      /\ \/ /\ answers[a] = None /\ customers' = customers + 1
            /\ answers' = [answers EXCEPT ![a] = customers'] /\ faults' = faults
         \/ /\ answers[a] = None /\ faults < MaxFaults /\ faults' = faults + 1
            /\ answers' = [answers EXCEPT ![a] = Failed] /\ customers' = customers
         \/ answers[a] # None /\ UNCHANGED <<answers, customers, faults>>
  BY DEF Ask
<1>2. a \in Attempts /\ InTurn(a) /\ Attempts \subseteq Nat
  BY DEF IInv, TypeOK, AStart, AnswersHold, Attempts
<1>3. \A d \in Starts : /\ d # c => starts'[d] = starts[d]
                        /\ starts'[d].attempt = starts[d].attempt
  BY <1>1 DEF IInv, TypeOK, AStart
<1>4. starts'[c].pc = "asked"
  BY <1>1 DEF IInv, TypeOK, AStart
<1>5. starts' \in [Starts -> AStart]
  BY <1>1 DEF IInv, TypeOK, AStart
<1>6. Failed # None /\ None \notin 1..1 /\ Failed \notin Nat
  BY DEF Failed, None
<1>7. ASSUME answers[a] = None PROVE customers = 0
  <2>1. customers \in Nat
    BY DEF IInv, TypeOK
  <2>2. SUFFICES ASSUME customers > 0 PROVE FALSE
    BY <2>1
  <2>3. PICK b \in Attempts : answers[b] \notin {None, Failed}
    BY <2>2 DEF IInv, AnswersHold
  <2>4. InTurn(b)
    BY <2>3 DEF IInv, AnswersHold
  <2>5. b < a \/ b = a \/ a < b
    BY <1>2 DEF Attempts
  <2> QED BY <1>2, <1>6, <1>7, <2>3, <2>4, <2>5 DEF InTurn
<1>8. \A b \in Attempts : answers[b] # None => answers'[b] = answers[b]
  BY <1>1, <1>2 DEF IInv, TypeOK
<1>9. \A b \in Attempts : b # a => answers'[b] = answers[b]
  BY <1>1 DEF IInv, TypeOK
<1>10. answers'[a] # None
  <2>1. CASE answers[a] = None
    BY <1>1, <1>2, <1>6, <1>7, <2>1 DEF IInv, TypeOK, None
  <2>2. CASE answers[a] # None
    BY <1>8, <1>2, <2>2
  <2> QED BY <2>1, <2>2
<1>11. customers' \in Nat /\ faults' \in 0..MaxFaults /\ customers <= customers' /\ faults <= faults'
  BY <1>1 DEF IInv, TypeOK, BillingAssumption
<1>12. TypeOK'
  <2>1. answers' \in [Attempts -> {Failed, None} \cup 1..customers']
    <3>1. \A n \in 1..customers : n \in 1..customers'
      BY <1>11 DEF IInv, TypeOK
    <3>2. answers \in [Attempts -> {Failed, None} \cup 1..customers']
      BY <3>1 DEF IInv, TypeOK
    <3>3. customers' = customers + 1 => customers' \in 1..customers'
      BY DEF IInv, TypeOK
    <3> QED BY <1>1, <1>2, <3>2, <3>3
  <2> QED BY <1>1, <1>5, <1>11, <2>1 DEF IInv, TypeOK, Sent, Holders
<1>13. \A b \in Attempts : InTurn(b) => InTurn(b)'
  BY <1>6, <1>8 DEF InTurn
<1>14. AnswersHold'
  <2>1. OneCustomer'
    BY <1>1, <1>7 DEF IInv, AnswersHold, OneCustomer
  <2>2. ASSUME NEW b \in Attempts, answers'[b] # None PROVE InTurn(b)'
    BY <1>2, <1>9, <1>13, <2>2 DEF IInv, AnswersHold
  <2>3. ASSUME NEW b \in Attempts, answers'[b] = Failed PROVE b < faults'
    <3>1. CASE answers[b] = Failed
      BY <1>2, <1>11, <3>1 DEF IInv, AnswersHold, TypeOK
    <3>2. CASE answers[b] # Failed
      <4>1. b = a /\ answers[a] = None /\ faults' = faults + 1
        BY <1>1, <1>6, <1>7, <1>9, <2>3, <3>2 DEF IInv, TypeOK
      <4>2. ASSUME a > 0 PROVE a - 1 \in Attempts /\ a - 1 < a
        BY <1>2, <4>2 DEF Attempts, BillingAssumption
      <4>3. ASSUME a > 0 PROVE a - 1 < faults
        BY <1>2, <4>2, <4>3 DEF InTurn, IInv, AnswersHold
      <4> QED BY <1>2, <4>1, <4>3 DEF IInv, TypeOK
    <3> QED BY <3>1, <3>2
  <2>4. customers' > 0 => \E b \in Attempts : answers'[b] \notin {None, Failed}
    <3>1. CASE customers' = customers
      BY <1>8, <3>1 DEF IInv, AnswersHold
    <3>2. CASE customers' # customers
      <4>1. customers' = 1 /\ answers'[a] = 1
        BY <1>1, <1>2, <1>7, <3>2 DEF IInv, TypeOK
      <4>2. answers'[a] \notin {None, Failed}
        BY <4>1 DEF None, Failed
      <4> HIDE DEF a
      <4> QED BY <1>2, <4>2
    <3> QED BY <3>1, <3>2
  <2>5. ASSUME NEW d \in Starts
        PROVE  InTurn(starts[d].attempt)' /\
               (starts'[d].pc = "asked" => answers'[starts'[d].attempt] # None)
    <3>1. starts[d].attempt \in Attempts
      BY DEF IInv, TypeOK, AStart
    <3> PICK b \in Attempts : b = starts[d].attempt
      BY <3>1
    <3>2. starts'[d].attempt = b /\ InTurn(b)' /\ InTurn(b)
      BY <1>3, <1>13 DEF IInv, AnswersHold
    <3>3. starts'[d].pc = "asked" => answers'[b] # None
      BY <1>3, <1>8, <1>10, <3>2 DEF IInv, AnswersHold
    <3> QED BY <3>2, <3>3 DEF InTurn
  <2> QED BY <2>1, <2>2, <2>3, <2>4, <2>5 DEF AnswersHold
<1>15. CustomerIsNamed => CustomerIsNamed'
  BY <1>1, <1>3, <1>4 DEF CustomerIsNamed
<1>16. Kept
  BY <1>1, <1>6, <1>8, <1>11 DEF Kept
<1> QED BY <1>1, <1>12, <1>14, <1>15, <1>16, BesidesKeeps

\* A write of a column: whoever holds a copy holds an older one, if the row moved,
\* and the subscription the account mirrors stays.
LEMMA ColumnsKeep ==
    ASSUME BillingAssumption, IInv, TypeOK', AnswersHold', Kept,
           NEW row \in Row, WriteColumns(row), row.exists \/ row = account,
           row.customer <= customers, InTurn(row.attempt)',
           row.sub = account.sub, row.live = account.live, row.version = account.version,
           UNCHANGED <<subs, marks, done, workers, editor, grants, overtaken>>,
           CustomerIsNamed => CustomerIsNamed'
    PROVE  IInv'
<1>1. account' = row /\ stale' = IF row = account THEN stale ELSE Holders
  BY DEF WriteColumns
<1>2. SubsHold'
  BY DEF IInv, SubsHold
<1>3. RowHolds(account)'
  <2>1. RowHolds(account)
    BY DEF IInv, CopiesHold, Copies
  <2>2. row.sub # 0 => WasSub(row.sub, row.live, row.version)
    BY <2>1 DEF RowHolds
  <2>3. ~row.exists => row = NoAccount
    BY <2>1 DEF RowHolds
  <2>4. row.sub = 0 => ~row.live
    BY <2>1 DEF RowHolds
  <2>5. WasSub(row.sub, row.live, row.version) => WasSub(row.sub, row.live, row.version)'
    BY WasSubStays DEF IInv
  <2>6. row.customer <= customers'
    BY DEF Kept, Row, IInv, TypeOK
  <2> QED BY <1>1, <2>2, <2>3, <2>4, <2>5, <2>6 DEF RowHolds, InTurn, WasSub
<1>4. Copies' \subseteq Copies \cup {account'}
  BY DEF Copies
<1>5. CopiesHold'
  BY <1>3, <1>4, CopiesStay DEF IInv
<1>6. FreshIsRow' /\ (FetchedIsNews => FetchedIsNews')
  <2>1. CASE row = account
    BY <1>1, <2>1 DEF IInv, FreshIsRow, FetchedIsNews, Covers
  <2>2. CASE row # account
    <3>1. /\ \A w \in Workers \ stale' : workers[w].pc = "idle"
          /\ "editor" \notin stale' => editor.pc = "idle"
          /\ "grants" \notin stale' => grants.pc = "idle"
      BY <1>1, <2>2 DEF Holders
    <3>2. FreshIsRow'
      BY <3>1 DEF FreshIsRow
    <3>3. FetchedIsNews'
      <4>1. \A w \in Workers \ stale' : workers'[w].pc # "fetched"
        BY <3>1
      <4>2. ~(editor'.pc = "told" /\ "editor" \notin stale')
        BY <3>1
      <4> QED BY <4>1, <4>2 DEF FetchedIsNews
    <3> QED BY <3>2, <3>3
  <2> QED BY <2>1, <2>2
<1>7. MarkedIsMirrored => MarkedIsMirrored'
  BY <1>1 DEF MarkedIsMirrored
<1> QED BY <1>2, <1>5, <1>6, <1>7 DEF IInv

\* The holders and the events sent do not turn on the checkouts.
LEMMA ColumnsType ==
    ASSUME BillingAssumption, IInv, NEW row \in Row, WriteColumns(row),
           UNCHANGED <<answers, customers, subs, sessions, marks, done, workers, editor,
                       grants, overtaken>>,
           starts' \in [Starts -> AStart], faults' \in 0..MaxFaults
    PROVE  TypeOK'
<1>1. account' \in Row /\ stale' \subseteq Holders
  BY DEF WriteColumns, IInv, TypeOK
<1>2. Holders' = Holders /\ Sent' = Sent
  BY DEF Holders, Sent
<1> QED BY <1>1, <1>2 DEF IInv, TypeOK

LEMMA StartFailsKeeps ==
    ASSUME BillingAssumption, IInv, NEW c \in Starts, StartFails(c)
    PROVE  IInv'
<1>1. PICK a \in Attempts : a = starts[c].attempt
  BY DEF IInv, TypeOK, AStart
<1>2. PICK failure \in {"answered", "unanswered"} :
        /\ starts[c].pc = "asked" /\ starts' = [starts EXCEPT ![c] = NoStart]
        /\ failure = "answered" <=> answers[a] = Failed
        /\ failure = "unanswered" => faults < MaxFaults
        /\ faults' = IF failure = "unanswered" THEN faults + 1 ELSE faults
        /\ WriteColumns(IF MovesOn(failure) THEN NextAttempt(a) ELSE account)
        /\ UNCHANGED <<answers, customers, subs, sessions, marks, done, workers,
                       editor, grants, overtaken>>
  BY <1>1 DEF StartFails
<1>3. PICK row : row = IF MovesOn(failure) THEN NextAttempt(a) ELSE account
  OBVIOUS
<1>4. RowHolds(account) /\ account \in Row /\ InTurn(a) /\ Attempts \subseteq Nat
  BY <1>1 DEF IInv, CopiesHold, Copies, AnswersHold, TypeOK, Attempts
<1>5. MovesOn(failure) => a + 1 \in Attempts /\ InTurn(a + 1)
  <2> SUFFICES ASSUME answers[a] = Failed PROVE a + 1 \in Attempts /\ InTurn(a + 1)
    BY <1>2 DEF MovesOn
  <2>1. a < faults /\ faults \in 0..MaxFaults
    BY DEF IInv, AnswersHold, TypeOK
  <2>2. a + 1 \in Attempts
    BY <1>4, <2>1 DEF Attempts, BillingAssumption
  <2>3. \A b \in Attempts : b < a + 1 => b < a \/ b = a
    BY <1>4
  <2> QED BY <1>4, <2>2, <2>3 DEF InTurn
<1>6. /\ row \in Row /\ (row.exists \/ row = account)
      /\ row.customer <= customers /\ InTurn(row.attempt)
      /\ row.sub = account.sub /\ row.live = account.live /\ row.version = account.version
      /\ row.customer = account.customer
  <2>1. CASE row = account
    BY <1>4, <2>1 DEF RowHolds
  <2>2. CASE MovesOn(failure) /\ ~account.exists
    <3>1. account = NoAccount /\ a + 1 \in Attempts /\ InTurn(a + 1)
      BY <1>4, <1>5, <2>2 DEF RowHolds
    <3>2. row = [NoAccount EXCEPT !.exists = TRUE, !.attempt = a + 1]
      BY <1>3, <2>2 DEF NextAttempt
    <3>4. NoAccount \in Row /\ 0 \in Nat /\ customers \in Nat
      BY NoAccountIsRow DEF IInv, TypeOK
    <3>5. /\ row \in Row /\ row.exists = TRUE /\ row.customer = NoAccount.customer
          /\ row.attempt = a + 1
          /\ row.sub = NoAccount.sub /\ row.live = NoAccount.live
          /\ row.version = NoAccount.version
      BY <3>1, <3>2, <3>4, RowTries
    <3> QED BY <3>1, <3>4, <3>5 DEF NoAccount
  <2>3. CASE MovesOn(failure) /\ account.exists /\ account.customer = 0 /\ account.attempt = a
    <3>1. a + 1 \in Attempts /\ InTurn(a + 1)
      BY <1>5, <2>3
    <3>2. row = [account EXCEPT !.attempt = a + 1]
      BY <1>3, <2>3 DEF NextAttempt
    <3>3. row \in Row /\ row.attempt = a + 1 /\ row.exists = account.exists
          /\ row.customer = account.customer /\ row.sub = account.sub
          /\ row.live = account.live /\ row.version = account.version
      BY <1>4, <3>1, <3>2 DEF Row
    <3> QED BY <1>4, <2>3, <3>1, <3>3 DEF RowHolds
  <2> QED BY <1>3, <2>1, <2>2, <2>3 DEF NextAttempt
<1>7. starts' \in [Starts -> AStart] /\ faults' \in 0..MaxFaults /\ faults <= faults'
  BY <1>2, NothingIsHeld DEF IInv, TypeOK, BillingAssumption
<1>8. WriteColumns(row)
  BY <1>2, <1>3
<1>9. TypeOK'
  BY <1>2, <1>6, <1>7, <1>8, ColumnsType
<1>10. \A d \in Starts : starts'[d] = IF d = c THEN NoStart ELSE starts[d]
  BY <1>2 DEF IInv, TypeOK
<1>11. AnswersHold'
  <2>1. InTurn(0)
    BY DEF InTurn, Attempts
  <2>2. \A d \in Starts : /\ InTurn(starts'[d].attempt)
                          /\ starts'[d].pc = "asked" => answers[starts'[d].attempt] # None
    BY <1>10, <2>1 DEF IInv, AnswersHold, NoStart
  <2>3. \A b \in Attempts : answers[b] = Failed => b < faults'
    BY <1>4, <1>7 DEF IInv, AnswersHold, TypeOK
  <2> QED BY <1>2, <2>2, <2>3 DEF IInv, AnswersHold, InTurn, OneCustomer
<1>12. CustomerIsNamed => CustomerIsNamed'
  <2>1. \A d \in Starts : starts'[d].pc \in {"named", "done"} => starts[d].pc \in {"named", "done"}
    BY <1>10 DEF NoStart
  <2>2. account'.customer = account.customer
    BY <1>6, <1>8 DEF WriteColumns
  <2> QED BY <1>2, <2>1, <2>2 DEF CustomerIsNamed
<1>13. Kept
  BY <1>2, NothingMoves DEF IInv
<1>14. InTurn(row.attempt)'
  BY <1>2, <1>6 DEF InTurn
<1> QED BY <1>2, <1>6, <1>8, <1>9, <1>11, <1>12, <1>13, <1>14, ColumnsKeep

LEMMA StartNamesKeeps ==
    ASSUME BillingAssumption, IInv, NEW c \in Starts, StartNames(c)
    PROVE  IInv'
<1>1. PICK a \in Attempts : a = starts[c].attempt
  BY DEF IInv, TypeOK, AStart
<1>2. PICK customer : customer = answers[a]
  OBVIOUS
<1>3. PICK row : row = IF account.customer = 0
                       THEN [account EXCEPT !.exists = TRUE, !.customer = customer]
                       ELSE account
  OBVIOUS
<1>4. /\ starts[c].pc = "asked" /\ customer \notin {None, Failed} /\ WriteColumns(row)
      /\ starts' = [starts EXCEPT ![c].pc = "named"]
      /\ UNCHANGED <<answers, customers, subs, sessions, marks, done, workers,
                     editor, grants, faults, overtaken>>
  BY <1>1, <1>2, <1>3 DEF StartNames
<1>5. customer = 1 /\ customers = 1
  BY <1>2, <1>4 DEF IInv, TypeOK, AnswersHold, OneCustomer
<1>6. RowHolds(account) /\ account \in Row
  BY DEF IInv, CopiesHold, Copies, TypeOK
<1>7. /\ row \in Row /\ (row.exists \/ row = account) /\ row.attempt = account.attempt
      /\ row.customer = 1
      /\ row.sub = account.sub /\ row.live = account.live /\ row.version = account.version
  <2>1. CASE account.customer = 0
    <3>1. row = [account EXCEPT !.exists = TRUE, !.customer = 1]
      BY <1>3, <1>5, <2>1
    <3>2. 1 \in Nat
      OBVIOUS
    <3> QED BY <1>6, <3>1, <3>2, RowNames
  <2>2. CASE account.customer # 0
    BY <1>3, <1>5, <1>6, <2>2 DEF Row, RowHolds
  <2> QED BY <2>1, <2>2
<1>8. \A d \in Starts : /\ d # c => starts'[d] = starts[d]
                        /\ starts'[d].attempt = starts[d].attempt
                        /\ starts'[d].pc = "asked" => starts[d].pc = "asked"
  BY <1>4 DEF IInv, TypeOK, AStart
<1>9. starts' \in [Starts -> AStart]
  BY <1>4 DEF IInv, TypeOK, AStart
<1>10. TypeOK'
  BY <1>4, <1>7, <1>9, ColumnsType DEF IInv, TypeOK
<1>11. AnswersHold'
  BY <1>4, <1>8 DEF IInv, AnswersHold, InTurn, OneCustomer
<1>12. CustomerIsNamed => CustomerIsNamed'
  <2>1. account'.customer = 1
    BY <1>4, <1>7 DEF WriteColumns
  <2> QED BY <1>4, <2>1 DEF CustomerIsNamed
<1>13. Kept
  BY <1>4, NothingMoves DEF IInv
<1>14. InTurn(row.attempt)'
  BY <1>4, <1>6, <1>7 DEF InTurn, RowHolds
<1>15. row.customer <= customers
  BY <1>5, <1>7
<1> QED BY <1>4, <1>7, <1>10, <1>11, <1>12, <1>13, <1>14, <1>15, ColumnsKeep

----------------------------------------------------------------------------
(* The subscriptions at the processor.                                     *)

\* A change is news: its event is not marked.
LEMMA ChangesAreNews ==
    ASSUME BillingAssumption, IInv, NEW s \in Subs, NEW v \in 1..MaxChanges,
           <<s, v>> \in marks
    PROVE  v <= subs[s].version /\ subs[s].version \in Nat
BY DEF IInv, TypeOK, Sent, Sub

LEMMA ChangeKeeps ==
    ASSUME BillingAssumption, IInv, TypeOK', NEW s \in Subs, NEW x \in Sub,
           x.version = subs[s].version + 1, subs' = [subs EXCEPT ![s] = x],
           SubsHold', Copies' = Copies, editor' = editor \/ EditHolds', FreshIsRow',
           UNCHANGED <<account, answers, customers, marks, done, starts, workers, faults,
                       stale, overtaken>>,
           CustomerIsNamed => CustomerIsNamed', FetchedIsNews => FetchedIsNews'
    PROVE  IInv'
<1>1. \A t \in Subs : subs'[t] = IF t = s THEN x ELSE subs[t]
  BY DEF IInv, TypeOK
<1>2. subs[s].version \in Nat /\ customers \in Nat
  BY DEF IInv, TypeOK, Sub
<1>3. Kept
  BY <1>1, <1>2 DEF Kept
<1>4. AnswersHold'
  BY DEF IInv, AnswersHold, InTurn, OneCustomer
<1>5. RowHolds(account)'
  <2> PICK row \in Row : row = account
    BY DEF IInv, TypeOK
  <2>1. RowHolds(row)'
    BY <1>3, RowStays DEF IInv, CopiesHold, Copies
  <2> QED BY <2>1 DEF RowHolds, InTurn, WasSub
<1>6. CopiesHold'
  BY <1>3, <1>5, CopiesStay DEF IInv
<1>7. MarkedIsMirrored => MarkedIsMirrored'
  <2> SUFFICES ASSUME MarkedIsMirrored, NEW t \in Subs, <<t, subs'[t].version>> \in marks
               PROVE  /\ account.sub = t => account.version = subs'[t].version
                      /\ subs'[t].live => account.sub = t
    BY DEF MarkedIsMirrored
  <2>1. t # s
    <3> SUFFICES ASSUME t = s PROVE FALSE
      OBVIOUS
    <3>1. x.version \in 1..MaxChanges /\ <<s, x.version>> \in marks
      BY <1>1, <1>2 DEF Sub
    <3> QED BY <1>2, <3>1, ChangesAreNews
  <2> QED BY <1>1, <2>1 DEF MarkedIsMirrored
<1> QED BY <1>4, <1>6, <1>7 DEF IInv

LEMMA SubscribeKeeps ==
    ASSUME BillingAssumption, IInv, NEW s \in Subs, Subscribe(s)
    PROVE  IInv'
<1> DEFINE x == [customer |-> customers, live |-> TRUE, version |-> 1]
<1>1. /\ sessions > 0 /\ sessions' = sessions - 1 /\ subs[s].version = 0
      /\ \A t \in Subs : ~subs[t].live /\ (t < s => subs[t].version > 0)
      /\ subs' = [subs EXCEPT ![s] = x]
      /\ UNCHANGED <<account, answers, customers, marks, done, starts, workers,
                     editor, grants, faults, stale, overtaken>>
  BY DEF Subscribe
<1>2. x \in Sub /\ x.version = 1 /\ x.live = TRUE /\ x.customer = customers
  BY DEF Sub, IInv, TypeOK, BillingAssumption
<1> HIDE DEF x
<1>3. \A t \in Subs : subs'[t] = IF t = s THEN x ELSE subs[t]
  BY <1>1 DEF IInv, TypeOK
<1>4. TypeOK'
  <2>1. Sent \subseteq Sent'
    <3> SUFFICES ASSUME NEW e \in Sent PROVE e \in Sent'
      OBVIOUS
    <3>1. e \in Events /\ e[1] \in Subs /\ e[2] \in 1..MaxChanges /\ e[2] <= subs[e[1]].version
      BY DEF Sent, Events
    <3> QED BY <1>1, <1>2, <1>3, <3>1 DEF Sent
  <2>2. subs' \in [Subs -> Sub]
    BY <1>1, <1>2 DEF IInv, TypeOK
  <2>3. sessions' \in Nat
    BY <1>1 DEF IInv, TypeOK
  <2>4. Holders' = Holders
    BY <1>1 DEF Holders
  <2> QED BY <1>1, <2>1, <2>2, <2>3, <2>4 DEF IInv, TypeOK
<1>5. SubsHold'
  <2> SUFFICES ASSUME NEW t \in Subs
               PROVE  /\ subs'[t].live => subs'[t].version > 0
                      /\ \A u \in Subs : u < t /\ subs'[t].version > 0 =>
                            ~subs'[u].live /\ subs'[u].version > 0
    BY DEF SubsHold
  <2>1. CASE t = s
    <3>1. \A u \in Subs : u < t => u # s
      BY <2>1, SubsAreNumbers
    <3> QED BY <1>1, <1>2, <1>3, <2>1, <3>1
  <2>2. CASE t # s
    <3>1. subs'[t] = subs[t] /\ ~subs[t].live
      BY <1>1, <1>3, <2>2
    <3>2. \A u \in Subs : u < t /\ subs[t].version > 0 => ~subs[u].live /\ subs[u].version > 0
      BY DEF IInv, SubsHold
    <3>3. s < t /\ subs[t].version > 0 => subs[s].version > 0
      BY <3>2
    <3> QED BY <1>1, <1>3, <3>1, <3>2, <3>3
  <2> QED BY <2>1, <2>2
<1>6. Copies' = Copies /\ FreshIsRow'
  BY <1>1 DEF Copies, IInv, FreshIsRow
<1>7. CustomerIsNamed => CustomerIsNamed'
  <2> SUFFICES ASSUME CustomerIsNamed PROVE CustomerIsNamed'
    OBVIOUS
  <2>1. account.customer = 1
    BY <1>1 DEF CustomerIsNamed
  <2>2. RowHolds(account)
    BY DEF IInv, CopiesHold, Copies
  <2>3. customers = 1
    BY <2>1, <2>2 DEF RowHolds, IInv, AnswersHold, OneCustomer, TypeOK
  <2> QED BY <1>1, <1>2, <1>3, <2>1, <2>3 DEF CustomerIsNamed
<1>8. FetchedIsNews => FetchedIsNews'
  BY <1>1 DEF FetchedIsNews, Covers
<1>9. x.version = subs[s].version + 1
  BY <1>1, <1>2
<1> QED BY <1>1, <1>2, <1>4, <1>5, <1>6, <1>7, <1>8, <1>9, ChangeKeeps

\* A change of the one subscription that is paid.
LEMMA LiveChanges ==
    ASSUME BillingAssumption, IInv, NEW s \in Subs, NEW paid \in BOOLEAN,
           subs[s].live, subs[s].version < MaxChanges,
           subs' = [subs EXCEPT ![s] = Changed(subs[s], paid)]
    PROVE  /\ Changed(subs[s], paid) \in Sub
           /\ Changed(subs[s], paid).version = subs[s].version + 1
           /\ subs' \in [Subs -> Sub] /\ Sent \subseteq Sent' /\ SubsHold'
           /\ CustomerIsNamed /\ UNCHANGED <<account, sessions, starts, workers>> =>
                  CustomerIsNamed'
<1>1. PICK x : x = Changed(subs[s], paid)
  OBVIOUS
<1>2. subs[s] \in Sub
  BY DEF IInv, TypeOK
<1>3. /\ x \in Sub /\ x.live = paid /\ x.version = subs[s].version + 1
      /\ x.customer = subs[s].customer
  BY <1>1, <1>2, ChangedIsSub
<1>4. \A t \in Subs : subs'[t] = IF t = s THEN x ELSE subs[t]
  BY <1>1 DEF IInv, TypeOK
<1>5. subs' \in [Subs -> Sub]
  BY <1>1, <1>3 DEF IInv, TypeOK
<1>6. \A t \in Subs : subs[t].version \in Nat
  BY DEF IInv, TypeOK, Sub
<1>7. subs[s].version > 0
  BY DEF IInv, SubsHold
<1>8. Sent \subseteq Sent'
  <2> SUFFICES ASSUME NEW e \in Sent PROVE e \in Sent'
    OBVIOUS
  <2>1. e \in Events /\ e[1] \in Subs /\ e[2] \in 1..MaxChanges /\ e[2] <= subs[e[1]].version
    BY DEF Sent, Events
  <2>2. e[2] <= subs'[e[1]].version
    BY <1>3, <1>4, <1>6, <2>1
  <2> QED BY <2>1, <2>2 DEF Sent
<1>9. SubsHold'
  <2> SUFFICES ASSUME NEW t \in Subs
               PROVE  /\ subs'[t].live => subs'[t].version > 0
                      /\ \A u \in Subs : u < t /\ subs'[t].version > 0 =>
                            ~subs'[u].live /\ subs'[u].version > 0
    BY DEF SubsHold
  <2>1. \A u \in Subs : u < t /\ subs[t].version > 0 => ~subs[u].live /\ subs[u].version > 0
    BY DEF IInv, SubsHold
  <2>2. subs[t].live => subs[t].version > 0
    BY DEF IInv, SubsHold
  <2>3. CASE t = s
    <3>1. \A u \in Subs : u < t => u # s
      BY <2>3, SubsAreNumbers
    <3> QED BY <1>3, <1>4, <1>6, <1>7, <2>1, <2>3, <3>1
  <2>4. CASE t # s
    <3>1. ~(s < t /\ subs[t].version > 0)
      BY <2>1
    <3> QED BY <1>4, <2>1, <2>2, <2>4, <3>1
  <2> QED BY <2>3, <2>4
<1>10. CustomerIsNamed /\ UNCHANGED <<account, sessions, starts, workers>> => CustomerIsNamed'
  BY <1>3, <1>4, <1>7 DEF CustomerIsNamed
<1> QED BY <1>1, <1>3, <1>5, <1>8, <1>9, <1>10

LEMMA ProcessorChangesKeeps ==
    ASSUME BillingAssumption, IInv, NEW s \in Subs, ProcessorChanges(s)
    PROVE  IInv'
<1>1. PICK paid \in BOOLEAN : subs' = [subs EXCEPT ![s] = Changed(subs[s], paid)]
  BY DEF ProcessorChanges
<1>2. /\ subs[s].live /\ subs[s].version < MaxChanges
      /\ UNCHANGED <<account, answers, customers, sessions, marks, done, starts,
                     workers, editor, grants, faults, stale, overtaken>>
  BY DEF ProcessorChanges
<1>3. /\ Changed(subs[s], paid) \in Sub
      /\ Changed(subs[s], paid).version = subs[s].version + 1
      /\ subs' \in [Subs -> Sub] /\ Sent \subseteq Sent' /\ SubsHold'
      /\ CustomerIsNamed => CustomerIsNamed'
  BY <1>1, <1>2, LiveChanges
<1>4. Holders' = Holders /\ Copies' = Copies /\ FreshIsRow'
  BY <1>2 DEF Holders, Copies, IInv, FreshIsRow
<1>5. TypeOK'
  BY <1>2, <1>3, <1>4 DEF IInv, TypeOK
<1>6. FetchedIsNews => FetchedIsNews'
  BY <1>2 DEF FetchedIsNews, Covers
<1> QED BY <1>1, <1>2, <1>3, <1>4, <1>5, <1>6, ChangeKeeps

LEMMA EditTellsKeeps ==
    ASSUME BillingAssumption, IInv, EditTells
    PROVE  IInv'
<1>1. PICK s : s = editor.read.sub
  OBVIOUS
<1>2. /\ editor.pc = "read" /\ subs[s].live /\ subs[s].version < MaxChanges
      /\ subs' = [subs EXCEPT ![s] = Changed(subs[s], TRUE)]
      /\ editor' = [editor EXCEPT !.pc = "told", !.sub = subs'[s]]
      /\ UNCHANGED <<account, answers, customers, sessions, marks, done, starts,
                     workers, grants, faults, stale, overtaken>>
  BY <1>1 DEF EditTells
<1>3. s \in Subs
  <2>1. RowHolds(editor.read) /\ editor.read.live
    BY <1>2 DEF IInv, CopiesHold, Copies, EditHolds
  <2> QED BY <1>1, <2>1 DEF RowHolds, WasSub
<1>4. PICK x : x = Changed(subs[s], TRUE)
  OBVIOUS
<1>5. /\ x \in Sub /\ x.version = subs[s].version + 1
      /\ subs' \in [Subs -> Sub] /\ Sent \subseteq Sent' /\ SubsHold'
      /\ CustomerIsNamed => CustomerIsNamed'
  BY <1>2, <1>3, <1>4, LiveChanges
<1>6. subs'[s] = x
  BY <1>2, <1>3, <1>4 DEF IInv, TypeOK
<1>7. /\ editor' \in AnEdit /\ editor'.pc = "told" /\ editor'.read = editor.read
      /\ editor'.sub = x
  <2> PICK ed \in AnEdit : ed = editor
    BY DEF IInv, TypeOK
  <2> DEFINE told == [ed EXCEPT !.pc = "told", !.sub = x]
  <2>2. told \in AnEdit /\ told.pc = "told" /\ told.read = ed.read /\ told.sub = x
    BY <1>5, EditIsTold
  <2>3. editor' = told
    BY <1>2, <1>6
  <2> HIDE DEF told
  <2> QED BY <2>2, <2>3
<1>8. Holders' = Holders /\ Copies' = Copies /\ FreshIsRow'
  BY <1>2, <1>7 DEF Holders, Copies, IInv, FreshIsRow
<1>9. TypeOK'
  BY <1>2, <1>5, <1>7, <1>8 DEF IInv, TypeOK
<1>10. subs[s].version \in Nat
  BY <1>3 DEF IInv, TypeOK, Sub
<1>11. EditHolds'
  <2>1. editor.read.live
    BY <1>2 DEF IInv, CopiesHold, EditHolds
  <2>2. x.version \in 1..subs'[s].version
    BY <1>5, <1>6, <1>10
  <2> QED BY <1>1, <1>3, <1>6, <1>7, <2>1, <2>2 DEF EditHolds, WasSub
<1>12. FetchedIsNews => FetchedIsNews'
  <2> SUFFICES ASSUME FetchedIsNews PROVE FetchedIsNews'
    OBVIOUS
  <2>1. \A v \in 1..MaxChanges : <<s, v>> \in marks => v <= x.version
    <3> TAKE v \in 1..MaxChanges
    <3>1. <<s, v>> \in marks => v <= subs[s].version
      BY <1>3, ChangesAreNews
    <3> QED BY <1>5, <1>10, <3>1
  <2>2. Covers(editor.read.sub, editor.sub.version)'
    <3>1. editor'.read.sub = s /\ editor'.sub.version = x.version /\ marks' = marks
      BY <1>1, <1>2, <1>7
    <3>2. \A v \in 1..MaxChanges : <<editor'.read.sub, v>> \in marks' => v <= editor'.sub.version
      BY <2>1, <3>1
    <3> QED BY <3>2 DEF Covers
  <2>3. \A w \in Workers \ stale : workers[w].pc = "fetched" =>
           /\ Covers(workers[w].event[1], workers[w].sub.version)'
           /\ account.sub > workers[w].event[1] => ~workers[w].sub.live
    BY <1>2 DEF FetchedIsNews, Covers
  <2> QED BY <1>2, <2>2, <2>3 DEF FetchedIsNews
<1>13. subs' = [subs EXCEPT ![s] = x]
  BY <1>2, <1>4
<1> QED BY <1>2, <1>3, <1>5, <1>8, <1>9, <1>11, <1>12, <1>13, ChangeKeeps

----------------------------------------------------------------------------
(* The holders of the row.                                                 *)

\* A step that asks nothing of the processor.
LEMMA HeldKeeps ==
    ASSUME BillingAssumption, IInv, TypeOK',
           UNCHANGED <<answers, customers, subs, starts, faults>>,
           RowHolds(account'), Copies' \subseteq Copies \cup {account', NoAccount},
           \A w \in Workers : workers'[w] = workers[w] \/ DeliveryHolds(w)',
           editor' = editor \/ EditHolds', FreshIsRow', overtaken => overtaken',
           ~overtaken' /\ CustomerIsNamed /\ FetchedIsNews /\ MarkedIsMirrored =>
               CustomerIsNamed' /\ FetchedIsNews' /\ MarkedIsMirrored'
    PROVE  IInv'
<1>1. AnswersHold' /\ SubsHold'
  BY DEF IInv, AnswersHold, InTurn, OneCustomer, SubsHold
<1>2. Kept
  BY NothingMoves DEF IInv
<1>3. RowHolds(account)'
  BY DEF RowHolds, InTurn, WasSub
<1>4. CopiesHold'
  BY <1>2, <1>3, CopiesStay DEF IInv
<1> QED BY <1>1, <1>4 DEF IInv

\* Who holds nothing afterwards, and what becomes of the others.
PutsItsCopy(holder) ==
    /\ \A w \in Workers : workers'[w] = IF w = holder THEN NoWork ELSE workers[w]
    /\ editor' = IF holder = "editor" THEN NoEdit ELSE editor
    /\ holder # "grants" => grants' = grants
    /\ workers' \in [Workers -> Work] /\ grants' \in Grant

LEMMA CopyIsPut ==
    ASSUME BillingAssumption, IInv, NEW holder, PutsItsCopy(holder),
           holder = "grants" => grants'.read \in {NoAccount, account}
    PROVE  /\ editor' \in AnEdit /\ Holders \ {holder} \subseteq Holders'
           /\ Copies' \subseteq Copies \cup {account', NoAccount}
           /\ \A w \in Workers : workers'[w] = workers[w] \/ DeliveryHolds(w)'
           /\ editor' = editor \/ EditHolds'
<1>1. editor' \in AnEdit
  BY NothingIsHeld DEF IInv, TypeOK, PutsItsCopy
<1>2. Holders \ {holder} \subseteq Holders'
  <2> SUFFICES ASSUME NEW h \in Holders, h # holder PROVE h \in Holders'
    OBVIOUS
  <2>1. CASE h \in Workers /\ workers[h].pc # "idle"
    BY <2>1 DEF Holders, PutsItsCopy
  <2>2. CASE h = "editor" /\ editor.pc # "idle"
    BY <2>2 DEF Holders, PutsItsCopy
  <2>3. CASE h = "grants" /\ grants.pc # "idle"
    BY <2>3 DEF Holders, PutsItsCopy
  <2> QED BY <2>1, <2>2, <2>3 DEF Holders
<1>3. Copies' \subseteq Copies \cup {account', NoAccount}
  <2>1. NoWork.read = NoAccount /\ NoEdit.read = NoAccount
    BY DEF NoWork, NoEdit
  <2>2. editor'.read \in Copies \cup {NoAccount}
    BY <2>1 DEF PutsItsCopy, Copies
  <2>3. grants'.read \in Copies \cup {NoAccount}
    BY DEF PutsItsCopy, Copies
  <2>4. \A w \in Workers : workers'[w].read \in Copies \cup {NoAccount}
    BY <2>1 DEF PutsItsCopy, Copies
  <2> QED BY <2>2, <2>3, <2>4 DEF Copies
<1>4. \A w \in Workers : workers'[w] = workers[w] \/ DeliveryHolds(w)'
  BY DEF PutsItsCopy, DeliveryHolds, NoWork
<1>5. editor' = editor \/ EditHolds'
  BY DEF PutsItsCopy, EditHolds, NoEdit
<1> QED BY <1>1, <1>2, <1>3, <1>4, <1>5

\* A write of the whole row leaves everybody else behind it.
LEMMA WriteKeeps ==
    ASSUME BillingAssumption, IInv, NEW holder, NEW row \in Row,
           WriteRow(holder, row), PutsItsCopy(holder), RowHolds(row),
           holder = "grants" => grants'.pc = "idle" /\ grants'.read = NoAccount,
           marks' \subseteq done', done' \subseteq Sent,
           UNCHANGED <<answers, customers, subs, sessions, starts, faults>>,
           ~overtaken /\ holder \notin stale =>
               /\ row.customer = account.customer
               /\ CustomerIsNamed /\ FetchedIsNews /\ MarkedIsMirrored => MarkedIsMirrored'
    PROVE  IInv'
<1>1. /\ account' = row /\ overtaken' = (overtaken \/ holder \in stale)
      /\ stale' = Holders \ {holder}
  BY DEF WriteRow
<1>2. /\ editor' \in AnEdit /\ Holders \ {holder} \subseteq Holders'
      /\ Copies' \subseteq Copies \cup {account', NoAccount}
      /\ \A w \in Workers : workers'[w] = workers[w] \/ DeliveryHolds(w)'
      /\ editor' = editor \/ EditHolds'
  BY CopyIsPut
<1>3. TypeOK'
  <2>1. Sent' = Sent
    BY DEF Sent
  <2>2. overtaken' \in BOOLEAN
    BY <1>1 DEF IInv, TypeOK
  <2> QED BY <1>1, <1>2, <2>1, <2>2 DEF IInv, TypeOK, PutsItsCopy
<1>4. NoWork.pc = "idle" /\ NoEdit.pc = "idle"
  BY DEF NoWork, NoEdit
<1>5. \A w \in Workers \ stale' : workers'[w].pc = "idle"
  BY <1>1, <1>4 DEF PutsItsCopy, Holders
<1>6. "editor" \notin stale' => editor'.pc = "idle"
  BY <1>1, <1>4 DEF PutsItsCopy, Holders
<1>7. "grants" \notin stale' => grants'.pc = "idle"
  BY <1>1 DEF PutsItsCopy, Holders
<1>8. FreshIsRow'
  BY <1>5, <1>6, <1>7 DEF FreshIsRow
<1>9. FetchedIsNews'
  <2>1. \A w \in Workers \ stale' : workers'[w].pc # "fetched"
    BY <1>5
  <2>2. ~(editor'.pc = "told" /\ "editor" \notin stale')
    BY <1>6
  <2> QED BY <2>1, <2>2 DEF FetchedIsNews
<1>10. ASSUME ~overtaken', CustomerIsNamed PROVE CustomerIsNamed'
  <2>1. account'.customer = account.customer
    BY <1>1, <1>10
  <2>2. \A w \in Workers : workers'[w].pc = "fetched" => workers'[w] = workers[w]
    BY <1>4 DEF PutsItsCopy
  <2> QED BY <1>10, <2>1, <2>2 DEF CustomerIsNamed
<1>11. RowHolds(account')
  BY <1>1
<1> QED BY <1>1, <1>2, <1>3, <1>8, <1>9, <1>10, <1>11, HeldKeeps

\* A copy that is put down unwritten.
LEMMA PutDownKeeps ==
    ASSUME BillingAssumption, IInv, NEW holder, PutDown(holder), PutsItsCopy(holder),
           holder = "grants" => grants' = [grants EXCEPT !.read = account],
           done \subseteq done', done' \subseteq done \cup marks,
           UNCHANGED <<account, answers, customers, subs, sessions, marks, starts,
                       faults, overtaken>>
    PROVE  IInv'
<1>1. stale' = stale \ {holder}
  BY DEF PutDown
<1>2. holder = "grants" => grants'.read = account /\ grants'.pc = grants.pc
  BY DEF IInv, TypeOK, Grant
<1>3. /\ editor' \in AnEdit /\ Holders \ {holder} \subseteq Holders'
      /\ Copies' \subseteq Copies \cup {account', NoAccount}
      /\ \A w \in Workers : workers'[w] = workers[w] \/ DeliveryHolds(w)'
      /\ editor' = editor \/ EditHolds'
  BY <1>2, CopyIsPut
<1>4. TypeOK'
  <2>1. Sent' = Sent
    BY DEF Sent
  <2> QED BY <1>1, <1>3, <2>1 DEF IInv, TypeOK, PutsItsCopy
<1>5. NoWork.pc = "idle" /\ NoEdit.pc = "idle"
  BY DEF NoWork, NoEdit
<1>6. \A w \in Workers \ stale' :
         workers'[w].pc # "idle" => workers'[w] = workers[w] /\ w \notin stale
  BY <1>1, <1>5 DEF PutsItsCopy
<1>7. "editor" \notin stale' /\ editor'.pc # "idle" => editor' = editor /\ "editor" \notin stale
  BY <1>1, <1>5 DEF PutsItsCopy
<1>8. FreshIsRow'
  BY <1>1, <1>2, <1>6, <1>7 DEF IInv, FreshIsRow, PutsItsCopy
<1>9. FetchedIsNews => FetchedIsNews'
  BY <1>6, <1>7 DEF FetchedIsNews, Covers
<1>10. CustomerIsNamed => CustomerIsNamed'
  <2>1. \A w \in Workers : workers'[w].pc = "fetched" => workers'[w] = workers[w]
    BY <1>5 DEF PutsItsCopy
  <2> QED BY <2>1 DEF CustomerIsNamed
<1>11. MarkedIsMirrored => MarkedIsMirrored'
  BY DEF MarkedIsMirrored
<1>12. RowHolds(account')
  BY DEF IInv, CopiesHold, Copies
<1> QED BY <1>3, <1>4, <1>8, <1>9, <1>10, <1>11, <1>12, HeldKeeps

\* A delivery of an event that was sent.
LEMMA EventsAreSent ==
    ASSUME BillingAssumption, TypeOK, NEW e \in Sent
    PROVE  /\ e \in Nat \X Nat /\ e = <<e[1], e[2]>> /\ e[1] \in Subs /\ e[2] \in 1..MaxChanges
           /\ e[2] <= subs[e[1]].version /\ subs[e[1]].version \in 1..MaxChanges
<1>1. e \in Subs \X (1..MaxChanges) /\ e[2] <= subs[e[1]].version
  BY DEF Sent, Events
<1>2. e = <<e[1], e[2]>> /\ e[1] \in Subs /\ e[2] \in 1..MaxChanges
  BY <1>1
<1>3. e[1] \in Nat /\ e[2] \in Nat
  BY <1>2, SubsAreNumbers DEF BillingAssumption
<1>4. subs[e[1]].version \in 0..MaxChanges
  BY <1>2 DEF TypeOK, Sub
<1> QED BY <1>1, <1>2, <1>3, <1>4

LEMMA TakeReads ==
    ASSUME BillingAssumption, TypeOK, NEW e \in Sent
    PROVE  \E y \in Work : /\ y = [NoWork EXCEPT !.pc = "read", !.event = e, !.read = account]
                           /\ y.pc = "read" /\ y.event = e /\ y.read = account
<1>1. e \in Nat \X Nat /\ account \in Row
  BY EventsAreSent DEF TypeOK
<1> DEFINE y == [NoWork EXCEPT !.pc = "read", !.event = e, !.read = account]
<1>2. /\ DOMAIN y = {"pc", "event", "read", "sub"} /\ y = [f \in DOMAIN y |-> y[f]]
      /\ y.pc = "read" /\ y.event = e /\ y.read = account /\ y.sub = NoSub
  BY DEF NoWork
<1>3. y = [NoWork EXCEPT !.pc = "read", !.event = e, !.read = account]
  OBVIOUS
<1> HIDE DEF y
<1>4. y \in Work
  BY <1>1, <1>2, NoSubIsSub DEF Work
<1> QED BY <1>2, <1>3, <1>4

LEMMA FetchReads ==
    ASSUME TypeOK, NEW w \in Workers, NEW s \in Subs
    PROVE  \E z \in Work : /\ z = [workers[w] EXCEPT !.pc = "fetched", !.sub = subs[s]]
                           /\ z.pc = "fetched" /\ z.sub = subs[s]
                           /\ z.event = workers[w].event /\ z.read = workers[w].read
<1>1. workers[w] \in Work /\ subs[s] \in Sub
  BY DEF TypeOK
<1> QED BY <1>1, WorkFetches

LEMMA TakeKeeps ==
    ASSUME BillingAssumption, IInv, NEW w \in Workers, NEW e \in Events, Take(w, e)
    PROVE  IInv'
<1>1. /\ workers[w].pc = "idle" /\ e \in Sent
      /\ UNCHANGED <<account, answers, customers, subs, sessions, marks, starts,
                     editor, grants, faults, stale, overtaken>>
  BY DEF Take
<1>2. e \in Nat \X Nat /\ e[1] \in Subs /\ e[2] \in 1..MaxChanges
      /\ e[2] <= subs[e[1]].version /\ subs[e[1]].version \in 1..MaxChanges
  BY <1>1, EventsAreSent DEF IInv
<1>3. Sent' = Sent
  BY <1>1 DEF Sent
<1>4. RowHolds(account) /\ account \in Row
  BY DEF IInv, CopiesHold, Copies, TypeOK
<1>5. CASE e \in marks \/ account.customer = 0
  <2>1. done' = done \cup {e} /\ workers' = workers
    BY <1>5 DEF Take
  <2>2. TypeOK'
    BY <1>1, <1>3, <2>1 DEF IInv, TypeOK, Holders
  <2>3. Copies' = Copies /\ FreshIsRow'
    BY <1>1, <2>1 DEF Copies, IInv, FreshIsRow
  <2>4. CustomerIsNamed => CustomerIsNamed'
    BY <1>1, <2>1 DEF CustomerIsNamed
  <2>5. FetchedIsNews => FetchedIsNews'
    BY <1>1, <2>1 DEF FetchedIsNews, Covers
  <2>6. CustomerIsNamed /\ MarkedIsMirrored => MarkedIsMirrored'
    <3>1. subs[e[1]].version > 0
      BY <1>2
    <3>2. CustomerIsNamed => e \in marks
      BY <1>2, <1>5, <3>1 DEF CustomerIsNamed
    <3> QED BY <1>1, <2>1, <3>2 DEF MarkedIsMirrored
  <2>7. RowHolds(account')
    BY <1>1, <1>4
  <2> QED BY <1>1, <2>1, <2>2, <2>3, <2>4, <2>5, <2>6, <2>7, HeldKeeps
<1>6. CASE ~(e \in marks \/ account.customer = 0)
  <2> PICK y \in Work : /\ y = [NoWork EXCEPT !.pc = "read", !.event = e, !.read = account]
                        /\ y.pc = "read" /\ y.event = e /\ y.read = account
    BY <1>1, TakeReads DEF IInv
  <2>1. done' = done /\ workers' = [workers EXCEPT ![w] = y]
    BY <1>6 DEF Take
  <2>2. y \in Work /\ y.pc = "read" /\ y.event = e /\ y.read = account
    OBVIOUS
  <2>3. \A v \in Workers : workers'[v] = IF v = w THEN y ELSE workers[v]
    BY <2>1 DEF IInv, TypeOK
  <2>4. TypeOK'
    <3>1. workers' \in [Workers -> Work]
      BY <2>1, <2>2 DEF IInv, TypeOK
    <3>2. Holders \subseteq Holders'
      BY <1>1, <2>2, <2>3 DEF Holders
    <3> QED BY <1>1, <1>3, <2>1, <3>1, <3>2 DEF IInv, TypeOK
  <2>5. account.exists
    BY <1>4, <1>6 DEF RowHolds, NoAccount
  <2>6. DeliveryHolds(w)'
    BY <1>1, <1>3, <2>2, <2>3, <2>5 DEF DeliveryHolds
  <2>7. \A v \in Workers : workers'[v] = workers[v] \/ DeliveryHolds(v)'
    <3> TAKE v \in Workers
    <3>1. v # w => workers'[v] = workers[v]
      BY <2>3
    <3> QED BY <2>6, <3>1
  <2>8. Copies' \subseteq Copies \cup {account'}
    BY <1>1, <2>2, <2>3 DEF Copies
  <2>9. FreshIsRow'
    BY <1>1, <2>2, <2>3 DEF IInv, FreshIsRow
  <2>10. CustomerIsNamed => CustomerIsNamed'
    BY <1>1, <2>2, <2>3 DEF CustomerIsNamed
  <2>11. FetchedIsNews => FetchedIsNews'
    BY <1>1, <2>2, <2>3 DEF FetchedIsNews, Covers
  <2>12. MarkedIsMirrored => MarkedIsMirrored'
    BY <1>1, <2>1 DEF MarkedIsMirrored
  <2>13. RowHolds(account')
    BY <1>1, <1>4
  <2> QED BY <1>1, <2>4, <2>7, <2>8, <2>9, <2>10, <2>11, <2>12, <2>13, HeldKeeps
<1> QED BY <1>5, <1>6

\* What is fetched is the subscription as it is, which every marked event is behind.
LEMMA FetchKeeps ==
    ASSUME BillingAssumption, IInv, NEW w \in Workers, Fetch(w)
    PROVE  IInv'
<1>1. /\ workers[w].pc = "read"
      /\ workers' = [workers EXCEPT ![w].pc = "fetched", ![w].sub = subs[workers[w].event[1]]]
      /\ UNCHANGED <<account, answers, customers, subs, sessions, marks, done,
                     starts, editor, grants, faults, stale, overtaken>>
  BY DEF Fetch
<1>2. workers[w].event \in Sent /\ workers[w].read.exists /\ Sent' = Sent
  BY <1>1 DEF IInv, CopiesHold, DeliveryHolds, Sent
<1> PICK e \in Sent : e = workers[w].event
  BY <1>2
<1>3. e \in Nat \X Nat /\ e[1] \in Subs /\ e[2] \in 1..MaxChanges
      /\ e[2] <= subs[e[1]].version /\ subs[e[1]].version \in 1..MaxChanges
  BY EventsAreSent DEF IInv
<1> PICK s \in Subs : s = e[1]
  BY <1>3
<1> PICK sub \in Sub : sub = subs[s]
  BY DEF IInv, TypeOK
<1>4. PICK z \in Work : /\ workers' = [workers EXCEPT ![w] = z]
                        /\ z.pc = "fetched" /\ z.sub = sub
                        /\ z.event = e /\ z.read = workers[w].read
  <2>1. PICK z \in Work : /\ z = [workers[w] EXCEPT !.pc = "fetched", !.sub = subs[s]]
                          /\ z.pc = "fetched" /\ z.sub = subs[s]
                          /\ z.event = workers[w].event /\ z.read = workers[w].read
    BY FetchReads DEF IInv
  <2>2. workers' = [workers EXCEPT ![w] = z]
    BY <1>1, <2>1 DEF IInv, TypeOK
  <2> QED BY <2>1, <2>2
<1>6. \A v \in Workers : workers'[v] = IF v = w THEN z ELSE workers[v]
  BY <1>4 DEF IInv, TypeOK
<1>7. TypeOK'
  <2>1. workers' \in [Workers -> Work]
    BY <1>4 DEF IInv, TypeOK
  <2>2. Holders' = Holders
    <3>1. \A v \in Workers : workers'[v].pc = "idle" <=> workers[v].pc = "idle"
      BY <1>1, <1>4, <1>6
    <3> QED BY <1>1, <3>1 DEF Holders
  <2> QED BY <1>1, <1>2, <2>1, <2>2 DEF IInv, TypeOK
<1>8. DeliveryHolds(w)'
  <2>1. WasSub(e[1], sub.live, sub.version)'
    BY <1>1, <1>3 DEF WasSub
  <2> QED BY <1>2, <1>3, <1>4, <1>6, <2>1 DEF DeliveryHolds
<1>9. \A v \in Workers : workers'[v] = workers[v] \/ DeliveryHolds(v)'
  <2> TAKE v \in Workers
  <2>1. v # w => workers'[v] = workers[v]
    BY <1>6
  <2> QED BY <1>8, <2>1
<1>10. Copies' \subseteq Copies
  <2>1. \A v \in Workers : workers'[v].read = workers[v].read
    BY <1>4, <1>6
  <2> QED BY <1>1, <2>1 DEF Copies
<1>11. FreshIsRow'
  BY <1>1, <1>4, <1>6 DEF IInv, FreshIsRow
<1>12. CustomerIsNamed => CustomerIsNamed'
  <2>1. CustomerIsNamed => sub.customer = 1
    BY <1>3 DEF CustomerIsNamed
  <2>2. ASSUME CustomerIsNamed, NEW v \in Workers, workers'[v].pc = "fetched"
        PROVE  workers'[v].sub.customer = 1
    <3>1. CASE v = w
      BY <1>4, <1>6, <2>1, <2>2, <3>1
    <3>2. CASE v # w
      BY <1>6, <2>2, <3>2 DEF CustomerIsNamed
    <3> QED BY <3>1, <3>2
  <2> QED BY <1>1, <2>2 DEF CustomerIsNamed
<1>13. FetchedIsNews => FetchedIsNews'
  <2>1. \A v \in 1..MaxChanges : <<e[1], v>> \in marks => v <= sub.version
    BY <1>3, ChangesAreNews
  <2>2. account.sub > e[1] => ~sub.live
    <3> SUFFICES ASSUME account.sub > e[1] PROVE ~sub.live
      OBVIOUS
    <3>1. account.sub \in Subs /\ subs[account.sub].version > 0
      <4>1. RowHolds(account) /\ account \in Row
        BY DEF IInv, CopiesHold, Copies, TypeOK
      <4>2. account.sub # 0
        BY <1>3
      <4>3. WasSub(account.sub, account.live, account.version)
        BY <4>1, <4>2 DEF RowHolds
      <4>4. subs[account.sub].version \in 0..MaxChanges
        BY <4>3 DEF WasSub, IInv, TypeOK, Sub
      <4> QED BY <4>3, <4>4 DEF WasSub
    <3>2. e[1] < account.sub
      BY <1>3, <3>1, SubsAreNumbers
    <3> QED BY <1>3, <3>1, <3>2 DEF IInv, SubsHold
  <2>3. Covers(e[1], sub.version)'
    BY <1>1, <2>1 DEF Covers
  <2> SUFFICES ASSUME FetchedIsNews PROVE FetchedIsNews'
    OBVIOUS
  <2>4. ASSUME NEW v \in Workers \ stale, workers'[v].pc = "fetched"
        PROVE  /\ Covers(workers[v].event[1], workers[v].sub.version)'
               /\ account.sub > workers'[v].event[1] => ~workers'[v].sub.live
    <3>1. CASE v = w
      BY <1>4, <1>6, <2>2, <2>3, <3>1 DEF Covers
    <3>2. CASE v # w
      <4>1. workers'[v] = workers[v] /\ workers[v].pc = "fetched"
        BY <1>6, <2>4, <3>2
      <4>2. /\ Covers(workers[v].event[1], workers[v].sub.version)
            /\ account.sub > workers[v].event[1] => ~workers[v].sub.live
        BY <4>1 DEF FetchedIsNews
      <4> PICK d : d = workers[v]
        OBVIOUS
      <4>3. \A n \in 1..MaxChanges : <<d.event[1], n>> \in marks => n <= d.sub.version
        BY <4>2 DEF Covers
      <4>4. workers'[v] = d /\ marks' = marks
        BY <1>1, <4>1
      <4>5. Covers(workers[v].event[1], workers[v].sub.version)'
        BY <4>3, <4>4 DEF Covers
      <4> QED BY <4>2, <4>4, <4>5
    <3> QED BY <3>1, <3>2
  <2>5. editor'.pc = "told" /\ "editor" \notin stale' =>
           Covers(editor.read.sub, editor.sub.version)'
    BY <1>1 DEF FetchedIsNews, Covers
  <2> QED BY <1>1, <2>4, <2>5 DEF FetchedIsNews
<1>14. MarkedIsMirrored => MarkedIsMirrored'
  BY <1>1 DEF MarkedIsMirrored
<1>15. RowHolds(account')
  BY <1>1 DEF IInv, CopiesHold, Copies
<1> QED BY <1>1, <1>7, <1>9, <1>10, <1>11, <1>12, <1>13, <1>14, <1>15, HeldKeeps

\* A delivery that is applied: its event was not marked, so what was fetched for it
\* is news, and the account takes it unless it follows another subscription.
LEMMA AppliedIsMirrored ==
    ASSUME BillingAssumption, IInv, NEW w \in Workers, NEW row \in Row,
           workers[w].pc = "fetched", w \notin stale,
           workers[w].event \notin marks, account' = row,
           row = IF Follows(account, workers[w].event[1], workers[w].sub)
                 THEN Mirrored(account, workers[w].event[1], workers[w].sub) ELSE account,
           marks' = marks \cup {workers[w].event}, done' = done \cup {workers[w].event},
           subs' = subs, CustomerIsNamed, FetchedIsNews, MarkedIsMirrored
    PROVE  MarkedIsMirrored'
<1>1. workers[w].event \in Sent
  BY DEF IInv, CopiesHold, DeliveryHolds
<1> PICK e \in Sent : e = workers[w].event
  BY <1>1
<1>2. /\ e = <<e[1], e[2]>> /\ e[1] \in Subs /\ e[2] \in 1..MaxChanges
      /\ subs[e[1]].version \in 1..MaxChanges
  BY EventsAreSent DEF IInv
<1> PICK t \in Subs, v \in 1..MaxChanges : t = e[1] /\ v = e[2] /\ e = <<t, v>>
  BY <1>2
<1> PICK sub \in Sub : sub = workers[w].sub
  BY DEF IInv, TypeOK, Work
<1>3. /\ WasSub(t, sub.live, sub.version) /\ v <= sub.version
      /\ Covers(t, sub.version) /\ (account.sub > t => ~sub.live)
  BY DEF IInv, CopiesHold, DeliveryHolds, FetchedIsNews
<1>4. account.customer = 1 /\ sub.customer = 1
  <2>1. subs[t].version > 0
    BY <1>2
  <2>2. account.customer = 1
    BY <2>1 DEF CustomerIsNamed
  <2>3. sub.customer = 1
    BY DEF CustomerIsNamed
  <2> QED BY <2>2, <2>3
<1>5. t \in Nat \ {0} /\ Subs \subseteq Nat /\ account.sub \in {0} \cup Subs
  BY SubsAreNumbers DEF IInv, TypeOK, Row
<1>6. row = IF Follows(account, t, sub) THEN Mirrored(account, t, sub) ELSE account
  OBVIOUS
<1>7. Follows(account, t, sub) => row.sub = t /\ row.version = sub.version /\ row.live = sub.live
  BY <1>6, MirroredIsRow DEF IInv, TypeOK
<1>8. ~Follows(account, t, sub) => account.sub \notin {0, t} /\ ~sub.live /\ row = account
  BY <1>4, <1>6 DEF Follows
<1>9. Follows(account, t, sub) /\ account.sub \notin {0, t} => sub.live
  BY DEF Follows
<1>10. \A s \in Subs : subs[s].version \in Nat
  BY DEF IInv, TypeOK, Sub
<1>11. row.sub # 0
  BY <1>5, <1>7, <1>8
<1>12. ASSUME NEW s \in Subs, <<s, subs[s].version>> \in marks \cup {e}
       PROVE  /\ row.sub = s => row.version = subs[s].version
              /\ subs[s].live => row.sub = s
  <2>1. CASE s = t
    <3>1. subs[t].version <= sub.version
      <4>1. CASE <<t, subs[t].version>> \in marks
        <5>1. subs[t].version \in 1..MaxChanges
          BY <1>2
        <5> QED BY <1>3, <4>1, <5>1 DEF Covers
      <4>2. CASE <<t, subs[t].version>> = e
        BY <1>3, <4>2
      <4> QED BY <1>12, <2>1, <4>1, <4>2
    <3>2. sub.version = subs[t].version /\ sub.live = subs[t].live
      BY <1>3, <1>10, <3>1 DEF WasSub
    <3> QED BY <1>7, <1>8, <2>1, <3>2
  <2>2. CASE s # t
    <3>1. <<s, subs[s].version>> \in marks
      BY <1>12, <2>2
    <3>2. /\ account.sub = s => account.version = subs[s].version
          /\ subs[s].live => account.sub = s
      BY <3>1 DEF MarkedIsMirrored
    <3>3. ASSUME subs[s].live, Follows(account, t, sub) PROVE FALSE
      <4>1. account.sub = s /\ sub.live
        <5>1. account.sub = s
          BY <3>2, <3>3
        <5>2. s # 0
          BY <1>5, SubsAreNumbers
        <5>3. account.sub \notin {0, t}
          BY <2>2, <5>1, <5>2
        <5> QED BY <1>9, <3>3, <5>1, <5>3
      <4>2. s < t
        BY <1>3, <1>5, <2>2, <4>1
      <4>3. subs[t].version > 0
        BY <1>2
      <4> QED BY <3>3, <4>2, <4>3 DEF IInv, SubsHold
    <3> QED BY <1>7, <1>8, <2>2, <3>2, <3>3
  <2> QED BY <2>1, <2>2
<1>13. done' \subseteq marks'
  BY DEF MarkedIsMirrored
<1>14. account' = row /\ marks' = marks \cup {e} /\ subs' = subs
  OBVIOUS
<1> QED BY <1>11, <1>12, <1>13, <1>14 DEF MarkedIsMirrored

LEMMA ApplyKeeps ==
    ASSUME BillingAssumption, IInv, NEW w \in Workers, Apply(w)
    PROVE  IInv'
<1> PICK e : e = workers[w].event
  OBVIOUS
<1> PICK read \in Row : read = workers[w].read
  BY DEF IInv, TypeOK, Work
<1> PICK sub \in Sub : sub = workers[w].sub
  BY DEF IInv, TypeOK, Work
<1>1. /\ workers[w].pc = "fetched" /\ workers' = [workers EXCEPT ![w] = NoWork]
      /\ marks' = marks \cup {e} /\ done' = done \cup {e}
      /\ UNCHANGED <<answers, customers, subs, sessions, starts, editor, grants, faults>>
  BY DEF Apply
<1>2. e \in Sent /\ read.exists /\ WasSub(e[1], sub.live, sub.version)
  BY <1>1 DEF IInv, CopiesHold, DeliveryHolds
<1>3. w # "editor" /\ w # "grants"
  BY DEF BillingAssumption
<1>4. PutsItsCopy(w)
  BY <1>1, <1>3, NothingIsHeld DEF IInv, TypeOK, PutsItsCopy
<1>5. CASE e \notin marks
  <2> PICK row : row = IF Follows(read, e[1], sub) THEN Mirrored(read, e[1], sub) ELSE read
    OBVIOUS
  <2>1. WriteRow(w, row)
    BY <1>5 DEF Apply
  <2>2. RowHolds(read) /\ e[1] \in Subs
    <3>1. read \in Copies
      BY DEF Copies
    <3> QED BY <1>2, <3>1, EventsAreSent DEF IInv, CopiesHold
  <2>3. row \in Row /\ RowHolds(row) /\ row.customer = read.customer
    <3>1. CASE row = read
      BY <2>2, <3>1
    <3>2. CASE row = Mirrored(read, e[1], sub)
      <4>1. /\ row \in Row /\ row.exists = read.exists /\ row.customer = read.customer
            /\ row.attempt = read.attempt /\ row.sub = e[1] /\ row.live = sub.live
            /\ row.version = sub.version
        <5> PICK t \in Subs : t = e[1]
          BY <2>2
        <5> DEFINE y == Mirrored(read, t, sub)
        <5>1. /\ y \in Row /\ y.exists = read.exists /\ y.customer = read.customer
              /\ y.attempt = read.attempt /\ y.sub = t /\ y.live = sub.live
              /\ y.version = sub.version
          BY MirroredIsRow
        <5>2. row = y
          BY <3>2
        <5> HIDE DEF y
        <5> QED BY <5>1, <5>2
      <4>2. e[1] # 0
        BY <2>2, SubsAreNumbers
      <4> QED BY <1>2, <2>2, <4>1, <4>2 DEF RowHolds
    <3> QED BY <3>1, <3>2
  <2>4. w \notin stale => read = account
    BY <1>1 DEF IInv, FreshIsRow
  <2>5. ASSUME w \notin stale, CustomerIsNamed, FetchedIsNews, MarkedIsMirrored
        PROVE  MarkedIsMirrored'
    <3>1. account' = row /\ subs' = subs
      BY <1>1, <2>1 DEF WriteRow
    <3>2. row = IF Follows(account, workers[w].event[1], workers[w].sub)
                THEN Mirrored(account, workers[w].event[1], workers[w].sub) ELSE account
      BY <2>4, <2>5
    <3> QED BY <1>1, <1>5, <2>3, <2>5, <3>1, <3>2, AppliedIsMirrored
  <2>6. marks' \subseteq done' /\ done' \subseteq Sent
    BY <1>1, <1>2 DEF IInv, TypeOK
  <2> QED BY <1>1, <1>3, <1>4, <2>1, <2>3, <2>4, <2>5, <2>6, WriteKeeps
<1>6. CASE e \in marks
  <2>1. PutDown(w) /\ UNCHANGED <<account, overtaken>>
    BY <1>6 DEF Apply
  <2>2. marks' = marks /\ done \subseteq done' /\ done' \subseteq done \cup marks
    BY <1>1, <1>6
  <2> QED BY <1>1, <1>3, <1>4, <2>1, <2>2, PutDownKeeps
<1> QED BY <1>5, <1>6

LEMMA ComesBackKeeps ==
    ASSUME BillingAssumption, IInv, NEW w \in Workers, ComesBack(w)
    PROVE  IInv'
<1>1. /\ workers' = [workers EXCEPT ![w] = NoWork] /\ PutDown(w)
      /\ UNCHANGED <<account, answers, customers, subs, sessions, marks, done,
                     starts, editor, grants, faults, overtaken>>
  BY DEF ComesBack
<1>2. w # "editor" /\ w # "grants"
  BY DEF BillingAssumption
<1>3. PutsItsCopy(w)
  BY <1>1, <1>2, NothingIsHeld DEF IInv, TypeOK, PutsItsCopy
<1> QED BY <1>1, <1>2, <1>3, PutDownKeeps

----------------------------------------------------------------------------
(* The changes of the plan, and the operator's grants.                     *)

\* Whoever reads the row has it as it is.
LEMMA EditReadsKeeps ==
    ASSUME BillingAssumption, IInv, EditReads
    PROVE  IInv'
<1> PICK row \in Row : row = account
  BY DEF IInv, TypeOK
<1> DEFINE z == [NoEdit EXCEPT !.pc = "read", !.read = row]
<1>1. /\ editor.pc = "idle" /\ account.live /\ editor' = z
      /\ UNCHANGED <<account, answers, customers, subs, sessions, marks, done,
                     starts, workers, grants, faults, stale, overtaken>>
  BY DEF EditReads
<1>2. z \in AnEdit /\ z.pc = "read" /\ z.read = row
  BY EditReadsRow
<1> HIDE DEF z
<1>3. TypeOK'
  <2>1. Holders \subseteq Holders'
    BY <1>1, <1>2 DEF Holders
  <2>2. Sent' = Sent
    BY <1>1 DEF Sent
  <2> QED BY <1>1, <1>2, <2>1, <2>2 DEF IInv, TypeOK
<1>4. EditHolds'
  BY <1>1, <1>2 DEF EditHolds
<1>5. Copies' \subseteq Copies \cup {account'}
  BY <1>1, <1>2 DEF Copies
<1>6. FreshIsRow'
  BY <1>1, <1>2 DEF IInv, FreshIsRow
<1>7. FetchedIsNews => FetchedIsNews'
  BY <1>1, <1>2 DEF FetchedIsNews, Covers
<1>8. CustomerIsNamed /\ MarkedIsMirrored => CustomerIsNamed' /\ MarkedIsMirrored'
  BY <1>1 DEF CustomerIsNamed, MarkedIsMirrored
<1>9. RowHolds(account')
  BY <1>1 DEF IInv, CopiesHold, Copies
<1> QED BY <1>1, <1>3, <1>4, <1>5, <1>6, <1>7, <1>8, <1>9, HeldKeeps

LEMMA EditWritesKeeps ==
    ASSUME BillingAssumption, IInv, EditWrites
    PROVE  IInv'
<1> PICK read \in Row : read = editor.read
  BY DEF IInv, TypeOK, AnEdit
<1> PICK sub \in Sub : sub = editor.sub
  BY DEF IInv, TypeOK, AnEdit
<1> PICK row : row = Mirrored(read, read.sub, sub)
  OBVIOUS
<1>1. /\ editor.pc = "told" /\ WriteRow("editor", row) /\ editor' = NoEdit
      /\ UNCHANGED <<answers, customers, subs, sessions, marks, done, starts,
                     workers, grants, faults>>
  BY DEF EditWrites
<1>2. RowHolds(read) /\ read.live /\ WasSub(read.sub, sub.live, sub.version)
  BY <1>1 DEF IInv, CopiesHold, Copies, EditHolds
<1>3. read.sub \in Subs /\ read.sub # 0 /\ read.exists
  <2>1. read.sub \in Subs
    BY <1>2 DEF WasSub
  <2>2. read.sub # 0
    BY <2>1, SubsAreNumbers
  <2>3. read.exists
    <3>1. ~NoAccount.live
      BY DEF NoAccount
    <3>2. read.exists \/ read = NoAccount
      BY <1>2 DEF RowHolds
    <3> QED BY <1>2, <3>1, <3>2
  <2> QED BY <2>1, <2>2, <2>3
<1>4. /\ row \in Row /\ row.exists = read.exists /\ row.customer = read.customer
      /\ row.attempt = read.attempt /\ row.sub = read.sub /\ row.live = sub.live
      /\ row.version = sub.version
  <2> PICK t \in Subs : t = read.sub
    BY <1>3
  <2> DEFINE y == Mirrored(read, t, sub)
  <2>1. /\ y \in Row /\ y.exists = read.exists /\ y.customer = read.customer
        /\ y.attempt = read.attempt /\ y.sub = t /\ y.live = sub.live
        /\ y.version = sub.version
    BY MirroredIsRow
  <2>2. row = y
    OBVIOUS
  <2> HIDE DEF y
  <2> QED BY <2>1, <2>2
<1>5. RowHolds(row)
  BY <1>2, <1>3, <1>4 DEF RowHolds
<1>6. PutsItsCopy("editor")
  BY <1>1 DEF BillingAssumption, IInv, TypeOK, PutsItsCopy
<1>7. "editor" \notin stale => read = account
  BY <1>1 DEF IInv, FreshIsRow
<1>8. ASSUME "editor" \notin stale, FetchedIsNews, MarkedIsMirrored
      PROVE  MarkedIsMirrored'
  <2>1. account' = row /\ marks' = marks /\ done' = done /\ subs' = subs
    BY <1>1 DEF WriteRow
  <2>2. Covers(read.sub, sub.version)
    BY <1>1, <1>8 DEF FetchedIsNews
  <2>3. ASSUME NEW s \in Subs, <<s, subs[s].version>> \in marks
        PROVE  /\ row.sub = s => row.version = subs[s].version
               /\ subs[s].live => row.sub = s
    <3>1. subs[s].live => account.sub = s
      BY <1>8, <2>3 DEF MarkedIsMirrored
    <3>2. ASSUME row.sub = s PROVE row.version = subs[s].version
      <4>1. subs[s].version \in 1..MaxChanges
        <5>1. <<s, subs[s].version>> \in Sent
          BY <2>3 DEF IInv, TypeOK
        <5> QED BY <5>1 DEF Sent, Events
      <4>2. subs[s].version <= sub.version
        BY <1>4, <2>2, <2>3, <3>2, <4>1 DEF Covers
      <4>3. sub.version \in 1..subs[s].version
        BY <1>2, <1>4, <3>2 DEF WasSub
      <4> QED BY <1>4, <4>1, <4>2, <4>3
    <3> QED BY <1>4, <1>7, <1>8, <3>1, <3>2
  <2> QED BY <1>3, <1>4, <1>8, <2>1, <2>3 DEF MarkedIsMirrored
<1>9. marks' \subseteq done' /\ done' \subseteq Sent
  BY <1>1 DEF IInv, TypeOK
<1> QED BY <1>1, <1>4, <1>5, <1>6, <1>7, <1>8, <1>9, WriteKeeps

LEMMA EditFailsKeeps ==
    ASSUME BillingAssumption, IInv, EditFails
    PROVE  IInv'
<1>1. /\ editor' = NoEdit /\ PutDown("editor")
      /\ UNCHANGED <<account, answers, customers, subs, sessions, marks, done,
                     starts, workers, grants, faults, overtaken>>
  BY DEF EditFails
<1>2. PutsItsCopy("editor")
  BY <1>1 DEF BillingAssumption, IInv, TypeOK, PutsItsCopy
<1> QED BY <1>1, <1>2, PutDownKeeps

LEMMA GrantReadsKeeps ==
    ASSUME BillingAssumption, IInv, GrantReads
    PROVE  IInv'
<1>1. /\ grants.pc = "idle" /\ grants.made < MaxGrants
      /\ grants' = [made |-> grants.made + 1, pc |-> "read", read |-> account]
      /\ UNCHANGED <<account, answers, customers, subs, sessions, marks, done,
                     starts, workers, editor, faults, stale, overtaken>>
  BY DEF GrantReads
<1>2. grants' \in Grant /\ grants'.pc = "read" /\ grants'.read = account
  BY <1>1 DEF IInv, TypeOK, Grant, BillingAssumption
<1>3. TypeOK'
  <2>1. Holders \subseteq Holders'
    BY <1>1, <1>2 DEF Holders
  <2>2. Sent' = Sent
    BY <1>1 DEF Sent
  <2> QED BY <1>1, <1>2, <2>1, <2>2 DEF IInv, TypeOK
<1>4. Copies' \subseteq Copies \cup {account'}
  BY <1>1, <1>2 DEF Copies
<1>5. FreshIsRow'
  BY <1>1, <1>2 DEF IInv, FreshIsRow
<1>6. FetchedIsNews => FetchedIsNews'
  BY <1>1 DEF FetchedIsNews, Covers
<1>7. CustomerIsNamed /\ MarkedIsMirrored => CustomerIsNamed' /\ MarkedIsMirrored'
  BY <1>1 DEF CustomerIsNamed, MarkedIsMirrored
<1>8. RowHolds(account')
  BY <1>1 DEF IInv, CopiesHold, Copies
<1> QED BY <1>1, <1>3, <1>4, <1>5, <1>6, <1>7, <1>8, HeldKeeps

LEMMA GrantWritesKeeps ==
    ASSUME BillingAssumption, IInv, GrantWrites
    PROVE  IInv'
<1> PICK read \in Row : read = grants.read
  BY DEF IInv, TypeOK, Grant
<1>1. /\ grants.pc = "read"
      /\ UNCHANGED <<answers, customers, subs, sessions, marks, done, starts,
                     workers, editor, faults>>
  BY DEF GrantWrites
<1>2. RowHolds(read)
  BY DEF IInv, CopiesHold, Copies
<1>3. "grants" \notin stale => read = account
  BY <1>1 DEF IInv, FreshIsRow
<1>4. CASE grants.read.exists \/ ~account.exists
  <2> PICK g \in BOOLEAN : g = ~read.comped
    BY DEF Row
  <2> PICK row : row = [read EXCEPT !.exists = TRUE, !.comped = g]
    OBVIOUS
  <2>1. /\ WriteRow("grants", row)
        /\ grants' = [grants EXCEPT !.pc = "idle", !.read = NoAccount]
    BY <1>4 DEF GrantWrites, Row
  <2>2. /\ row \in Row /\ row.exists = TRUE /\ row.customer = read.customer
        /\ row.attempt = read.attempt /\ row.sub = read.sub /\ row.live = read.live
        /\ row.version = read.version
    BY RowGrants
  <2>3. RowHolds(row)
    BY <1>2, <2>2 DEF RowHolds
  <2>4. grants' \in Grant /\ grants'.pc = "idle" /\ grants'.read = NoAccount
    BY <2>1, NoAccountIsRow DEF IInv, TypeOK, Grant
  <2>5. PutsItsCopy("grants")
    BY <1>1, <2>4 DEF BillingAssumption, IInv, TypeOK, PutsItsCopy
  <2>6. ASSUME "grants" \notin stale, MarkedIsMirrored PROVE MarkedIsMirrored'
    <3>1. account' = row /\ read = account
      BY <1>3, <2>1, <2>6 DEF WriteRow
    <3> QED BY <1>1, <2>2, <2>6, <3>1 DEF MarkedIsMirrored
  <2>7. marks' \subseteq done' /\ done' \subseteq Sent
    BY <1>1 DEF IInv, TypeOK
  <2> QED BY <1>1, <1>3, <2>1, <2>2, <2>3, <2>4, <2>5, <2>6, <2>7, WriteKeeps
<1>5. CASE ~(grants.read.exists \/ ~account.exists)
  <2>1. /\ grants' = [grants EXCEPT !.read = account] /\ PutDown("grants")
        /\ UNCHANGED <<account, overtaken>>
    BY <1>5 DEF GrantWrites
  <2>2. grants' \in Grant
    BY <2>1 DEF IInv, TypeOK, Grant
  <2>3. PutsItsCopy("grants")
    BY <1>1, <2>2 DEF BillingAssumption, IInv, TypeOK, PutsItsCopy
  <2> QED BY <1>1, <2>1, <2>3, PutDownKeeps
<1> QED BY <1>4, <1>5

----------------------------------------------------------------------------
(* The theorems.                                                           *)

LEMMA NextKeeps == ASSUME BillingAssumption, IInv, [Next]_vars PROVE IInv'
<1>1. ASSUME NEW c \in Starts,
             StartReads(c) \/ Ask(c) \/ StartFails(c) \/ StartNames(c) \/ StartEnds(c)
      PROVE  IInv'
  BY <1>1, StartReadsKeeps, AskKeeps, StartFailsKeeps, StartNamesKeeps, StartEndsKeeps
<1>2. ASSUME NEW s \in Subs, Subscribe(s) \/ ProcessorChanges(s)
      PROVE  IInv'
  BY <1>2, SubscribeKeeps, ProcessorChangesKeeps
<1>3. ASSUME NEW w \in Workers, \/ \E e \in Events : Take(w, e)
                                \/ Fetch(w) \/ Apply(w) \/ ComesBack(w)
      PROVE  IInv'
  BY <1>3, TakeKeeps, FetchKeeps, ApplyKeeps, ComesBackKeeps
<1>4. ASSUME EditReads \/ EditTells \/ EditWrites \/ EditFails PROVE IInv'
  BY <1>4, EditReadsKeeps, EditTellsKeeps, EditWritesKeeps, EditFailsKeeps
<1>5. ASSUME GrantReads \/ GrantWrites PROVE IInv'
  BY <1>5, GrantReadsKeeps, GrantWritesKeeps
<1>6. ASSUME UNCHANGED vars PROVE IInv'
  <2>1. UNCHANGED <<account, answers, customers, subs, sessions, marks, done, starts,
                    workers, editor, grants, faults, stale, overtaken>>
    BY <1>6 DEF vars
  <2>2. TypeOK' /\ Copies' = Copies /\ FreshIsRow'
    BY <2>1 DEF IInv, TypeOK, Sent, Holders, Copies, FreshIsRow
  <2>3. FetchedIsNews => FetchedIsNews'
    BY <2>1 DEF FetchedIsNews, Covers
  <2>4. CustomerIsNamed /\ MarkedIsMirrored => CustomerIsNamed' /\ MarkedIsMirrored'
    BY <2>1 DEF CustomerIsNamed, MarkedIsMirrored
  <2>5. RowHolds(account')
    BY <2>1 DEF IInv, CopiesHold, Copies
  <2> QED BY <2>1, <2>2, <2>3, <2>4, <2>5, HeldKeeps
<1> QED BY <1>1, <1>2, <1>3, <1>4, <1>5, <1>6 DEF Next

\* Nobody handles a delivery, every event sent is handled, and nothing was written
\* over: then the account says what the processor does.
LEMMA MirrorsConverge == ASSUME BillingAssumption, IInv PROVE Converges
<1> SUFFICES ASSUME done = Sent, Holders = {}, ~overtaken
             PROVE  LET paid == {s \in Subs : subs[s].live}
                    IN  IF paid = {} THEN ~account.live
                        ELSE /\ account.live /\ account.sub \in paid
                             /\ account.version = subs[account.sub].version
  BY DEF Converges
<1>1. MarkedIsMirrored /\ done \subseteq marks
  BY DEF IInv, MarkedIsMirrored
<1>2. ASSUME NEW s \in Subs, subs[s].version > 0
      PROVE  /\ account.sub = s => account.version = subs[s].version
             /\ subs[s].live => account.sub = s
  <2>1. <<s, subs[s].version>> \in Sent
    <3>1. subs[s].version \in 1..MaxChanges
      BY <1>2 DEF IInv, TypeOK, Sub
    <3> QED BY <3>1 DEF Sent, Events
  <2> QED BY <1>1, <2>1 DEF MarkedIsMirrored
<1>3. RowHolds(account) /\ account \in Row
  BY DEF IInv, CopiesHold, Copies, TypeOK
<1>4. ASSUME account.sub # 0
      PROVE  /\ account.sub \in Subs /\ account.version = subs[account.sub].version
             /\ account.live = subs[account.sub].live
  <2>1. WasSub(account.sub, account.live, account.version)
    BY <1>3, <1>4 DEF RowHolds
  <2>2. account.sub \in Subs /\ subs[account.sub].version > 0
    BY <2>1 DEF WasSub, IInv, TypeOK, Sub
  <2> QED BY <1>2, <2>1, <2>2 DEF WasSub
<1>5. CASE {s \in Subs : subs[s].live} = {}
  <2>1. account.sub = 0 => ~account.live
    BY <1>3 DEF RowHolds
  <2> QED BY <1>4, <1>5, <2>1
<1>6. ASSUME NEW s \in Subs, subs[s].live
      PROVE  /\ account.live /\ account.sub = s
             /\ account.version = subs[account.sub].version
  <2>1. subs[s].version > 0
    BY <1>6 DEF IInv, SubsHold
  <2>2. account.sub = s
    BY <1>2, <1>6, <2>1
  <2>3. s # 0
    BY SubsAreNumbers
  <2> QED BY <1>4, <1>6, <2>2, <2>3
<1> QED BY <1>5, <1>6

\* However starts, deliveries, changes and grants interleave, fail or repeat, the
\* inductive invariant holds.
THEOREM BillingInvariant == ASSUME BillingAssumption PROVE Spec => []IInv
<1>1. Init => IInv
  BY InitKeeps
<1>2. IInv /\ [Next]_vars => IInv'
  BY NextKeeps
<1> QED BY <1>1, <1>2, PTL DEF Spec

\* The processor makes one customer for the org.
THEOREM OneCustomerHolds == ASSUME BillingAssumption PROVE Spec => []OneCustomer
<1>1. IInv => OneCustomer
  BY DEF IInv, AnswersHold
<1> QED BY <1>1, BillingInvariant, PTL

\* The account mirrors the org's subscription once every event is handled, unless a
\* write of the whole row overlapped another.
THEOREM ConvergesHold == ASSUME BillingAssumption PROVE Spec => []Converges
<1>1. IInv => Converges
  BY MirrorsConverge
<1> QED BY <1>1, BillingInvariant, PTL

----------------------------------------------------------------------------
(* The token of a team's Slack.                                            *)

\* What the initial state is.
LEMMA InitInv ==
    ASSUME SL!SlackAssumption, SL!Init
    PROVE  SL!IInv
<1>1. SL!TypeOK
  <2>1. SL!Idle \in SL!Call
    BY DEF SL!SlackAssumption, SL!Idle, SL!Ages, SL!Call
  <2>2. {claimed, broken, lost, bared} \subseteq BOOLEAN
    BY Zenon DEF SL!Init
  <2>3. stored \in 1..MaxPairs /\ issued \in stored..MaxPairs /\ refusals \in 0..MaxRefusals
    BY DEF SL!SlackAssumption, SL!Init
  <2>4. age \in SL!Ages /\ callers \in [Callers -> SL!Call]
    BY <2>1 DEF SL!Init, SL!Ages
  <2> QED BY <2>2, <2>3, <2>4 DEF SL!TypeOK
<1>2. SL!OneRenews /\ SL!RenewedIsNewest /\ SL!NewestPairIsKept
  BY DEF SL!Init, SL!OneRenews, SL!RenewedIsNewest, SL!NewestPairIsKept, SL!Renewing, SL!Idle
<1> QED BY <1>1, <1>2 DEF SL!IInv

\* A step of one caller that leaves the pairs alone.  Where no claim is taken off,
\* it renews under the claim and where nobody else does, with the newest pair; it
\* takes a pair along only if it is lost.
LEMMA CallerMoves ==
    ASSUME SL!IInv, NEW c \in Callers, NEW r \in SL!Call,
           callers' = [callers EXCEPT ![c] = r],
           UNCHANGED <<stored, issued, age>>,
           claimed' \in BOOLEAN, broken' \in BOOLEAN, lost' \in BOOLEAN, bared' \in BOOLEAN,
           refusals' \in 0..MaxRefusals,
           lost => lost',
           callers[c].pc = "renewed" => lost',
           r.pc # "renewed",
           r.pc = "renewing" => r.pair <= stored /\ (lost \/ bared' \/ r.pair = issued),
           bared' \/ \A d \in Callers \ {c} : SL!Renewing(d) =>
               /\ ~bared
               /\ claimed'
               /\ r.pc \notin {"claimed", "renewing", "renewed", "kept", "refused"},
           bared' \/ claimed'
               \/ r.pc \notin {"claimed", "renewing", "renewed", "kept", "refused"}
    PROVE  SL!IInv'
<1>1. SL!TypeOK'
  BY DEF SL!IInv, SL!TypeOK
<1>2. /\ callers'[c] = r
      /\ \A d \in Callers \ {c} : callers'[d] = callers[d]
  BY DEF SL!IInv, SL!TypeOK
<1>3. /\ SL!Renewing(c)' <=> r.pc \in {"claimed", "renewing", "renewed", "kept", "refused"}
      /\ \A d \in Callers \ {c} : SL!Renewing(d)' <=> SL!Renewing(d)
  BY <1>2 DEF SL!Renewing
<1>4. SL!OneRenews'
  BY <1>3 DEF SL!IInv, SL!OneRenews
<1>5. SL!RenewedIsNewest'
  BY <1>2 DEF SL!IInv, SL!RenewedIsNewest
<1>6. ASSUME ~lost', ~bared', NEW d \in Callers, callers'[d].pc = "renewing"
      PROVE  callers'[d].pair = issued'
  <2>1. CASE d = c
    BY <1>2, <1>6, <2>1
  <2>2. CASE d # c
    <3>1. SL!Renewing(d) /\ callers'[d] = callers[d]
      BY <1>2, <1>6, <2>2 DEF SL!Renewing
    <3>2. ~bared /\ ~lost
      BY <1>6, <2>2, <3>1
    <3> QED BY <1>6, <3>1, <3>2 DEF SL!IInv, SL!NewestPairIsKept
  <2> QED BY <2>1, <2>2
<1>7. ASSUME ~lost'
      PROVE  \/ stored' = issued'
             \/ \E d \in Callers : callers'[d].pc = "renewed" /\ callers'[d].pair = issued'
  BY <1>2, <1>7 DEF SL!IInv, SL!NewestPairIsKept
<1>8. SL!NewestPairIsKept'
  BY <1>6, <1>7 DEF SL!NewestPairIsKept
<1> QED BY <1>1, <1>4, <1>5, <1>8 DEF SL!IInv

\* Where no claim was taken off, a renewal has the claim and is the only one.
LEMMA Alone ==
    ASSUME SL!IInv, ~bared, NEW c \in Callers, SL!Renewing(c)
    PROVE  /\ claimed
           /\ \A d \in Callers \ {c} : ~SL!Renewing(d)
BY DEF SL!IInv, SL!OneRenews

\* A step that touches no call and no pair changes the claim where nobody renews.
LEMMA RowChanges ==
    ASSUME SL!IInv,
           UNCHANGED <<stored, issued, callers, lost, bared, refusals>>,
           claimed' \in BOOLEAN, broken' \in BOOLEAN, age' \in SL!Ages,
           claimed' = claimed \/ \A c \in Callers : ~SL!Renewing(c)
    PROVE  SL!IInv'
<1>1. SL!TypeOK'
  BY DEF SL!IInv, SL!TypeOK
<1>2. \A c \in Callers : SL!Renewing(c)' <=> SL!Renewing(c)
  BY DEF SL!Renewing
<1>3. SL!OneRenews' /\ SL!RenewedIsNewest' /\ SL!NewestPairIsKept'
  BY <1>2 DEF SL!IInv, SL!OneRenews, SL!RenewedIsNewest, SL!NewestPairIsKept
<1> QED BY <1>1, <1>3 DEF SL!IInv

LEMMA IdleCall ==
    ASSUME SL!SlackAssumption
    PROVE  SL!Idle \in SL!Call /\ SL!Idle.pc = "idle"
BY DEF SL!SlackAssumption, SL!Idle, SL!Call, SL!Ages

LEMMA ReadTokenStep ==
    ASSUME SL!SlackAssumption, SL!IInv, NEW c \in Callers, SL!ReadToken(c)
    PROVE  SL!IInv'
<1> DEFINE x == [SL!Idle EXCEPT !.pc = "asking"]
           y == [x EXCEPT !.pair = stored]
           r == [y EXCEPT !.age = age]
<1>1. stored \in 0..MaxPairs /\ age \in SL!Ages
  BY DEF SL!IInv, SL!TypeOK
<1>2. x \in SL!Call /\ x.pc = "asking"
  BY IdleCall DEF SL!Call
<1>3. callers' = [callers EXCEPT ![c] = r] /\ callers[c].pc = "idle"
  BY DEF SL!ReadToken
<1> HIDE DEF x
<1>4. y \in SL!Call /\ y.pc = "asking"
  BY <1>1, <1>2 DEF SL!Call
<1> HIDE DEF y
<1>5. r \in SL!Call /\ r.pc = "asking"
  BY <1>1, <1>4 DEF SL!Call
<1> HIDE DEF r
<1>6. /\ UNCHANGED <<claimed, broken, stored, age, issued, lost, bared, refusals>>
      /\ {claimed, broken, lost, bared} \subseteq BOOLEAN /\ refusals \in 0..MaxRefusals
  BY DEF SL!ReadToken, SL!IInv, SL!TypeOK
<1>7. bared \/ \A d \in Callers \ {c} : SL!Renewing(d) => claimed
  BY Alone
<1> QED BY <1>3, <1>5, <1>6, <1>7, CallerMoves

LEMMA ClaimStep == ASSUME SL!SlackAssumption, SL!IInv, NEW c \in Callers, SL!Claim(c) PROVE SL!IInv'
<1>1. callers[c] \in SL!Call /\ callers[c].pc = "asking" /\ claimed' = TRUE
  BY DEF SL!Claim, SL!IInv, SL!TypeOK
<1>2. CASE SL!MayClaim
  <2> DEFINE r == [callers[c] EXCEPT !.pc = "claimed"]
  <2>1. r \in SL!Call /\ r.pc = "claimed" /\ callers' = [callers EXCEPT ![c] = r]
    BY <1>1, <1>2 DEF SL!Claim, SL!Goes, SL!Call
  <2>2. bared \/ \A d \in Callers : ~SL!Renewing(d)
    BY <1>2, Alone DEF SL!MayClaim
  <2> HIDE DEF r
  <2> QED BY <1>1, <2>1, <2>2, CallerMoves DEF SL!Claim, SL!IInv, SL!TypeOK
<1>3. CASE ~SL!MayClaim
  <2>1. callers' = [callers EXCEPT ![c] = SL!Idle]
    BY <1>3 DEF SL!Claim, SL!Ends
  <2> QED BY <1>1, <2>1, IdleCall, CallerMoves DEF SL!Claim, SL!IInv, SL!TypeOK
<1> QED BY <1>2, <1>3

LEMMA RereadStep == ASSUME SL!IInv, NEW c \in Callers, SL!Reread(c) PROVE SL!IInv'
<1> DEFINE pc == IF age = "fresh" THEN "kept" ELSE "renewing"
           x == [callers[c] EXCEPT !.pc = pc]
           y == [x EXCEPT !.pair = stored]
           r == [y EXCEPT !.age = age]
<1>1. /\ stored \in 0..MaxPairs /\ stored \in Nat /\ age \in SL!Ages
      /\ {claimed, broken, lost, bared} \subseteq BOOLEAN /\ refusals \in 0..MaxRefusals
      /\ callers[c] \in SL!Call /\ callers \in [Callers -> SL!Call]
  BY DEF SL!IInv, SL!TypeOK
<1>2. /\ callers[c].pc = "claimed" /\ SL!Renewing(c)
      /\ UNCHANGED <<claimed, broken, stored, age, issued, lost, bared, refusals>>
      /\ callers' = [callers EXCEPT ![c] = r]
  BY <1>1 DEF SL!Reread, SL!ReadAgain, SL!Renewing
<1>3. bared \/ (claimed /\ \A d \in Callers \ {c} : ~SL!Renewing(d))
  BY <1>2, Alone
<1>4. bared \/ \A d \in Callers : callers[d].pc # "renewed"
  BY <1>2, <1>3 DEF SL!Renewing
<1>5. bared \/ lost \/ stored = issued
  BY <1>4 DEF SL!IInv, SL!NewestPairIsKept
<1>6. pc \in {"kept", "renewing"}
  OBVIOUS
<1> HIDE DEF pc
<1>7. x \in SL!Call /\ x.pc = pc
  BY <1>1, <1>6 DEF SL!Call
<1> HIDE DEF x
<1>8. y \in SL!Call /\ y.pc = pc /\ y.pair = stored
  BY <1>1, <1>7 DEF SL!Call
<1> HIDE DEF y
<1>9. r \in SL!Call /\ r.pc = pc /\ r.pair = stored
  BY <1>1, <1>8 DEF SL!Call
<1> HIDE DEF r
<1>10. r.pc # "renewed" /\ r.pair <= stored /\ (lost \/ bared' \/ r.pair = issued)
  BY <1>1, <1>2, <1>5, <1>6, <1>9
<1>11. bared' \/ (claimed' /\ \A d \in Callers \ {c} : ~SL!Renewing(d))
  BY <1>2, <1>3
<1>12. /\ claimed' \in BOOLEAN /\ broken' \in BOOLEAN /\ lost' \in BOOLEAN /\ bared' \in BOOLEAN
       /\ refusals' \in 0..MaxRefusals /\ (lost => lost') /\ callers[c].pc # "renewed"
  BY <1>1, <1>2
<1> QED BY <1>2, <1>9, <1>10, <1>11, <1>12, CallerMoves

\* Slack's answer: the newest pair came from the store, so one it issues is with
\* nobody else; one that was lost says so.
LEMMA RefreshStep ==
    ASSUME SL!SlackAssumption, SL!IInv, NEW c \in Callers, SL!Refresh(c)
    PROVE  SL!IInv'
<1>1. /\ callers[c] \in SL!Call /\ callers[c].pc = "renewing" /\ SL!Renewing(c)
      /\ issued \in Nat /\ stored \in Nat /\ stored <= issued /\ callers[c].pair <= stored
  BY DEF SL!Refresh, SL!Renewing, SL!IInv, SL!TypeOK, SL!RenewedIsNewest
<1>2. bared \/ (claimed /\ \A d \in Callers \ {c} : ~SL!Renewing(d))
  BY <1>1, Alone
<1>3. CASE callers[c].pair # issued
  <2> DEFINE r == [callers[c] EXCEPT !.pc = "refused"]
  <2>1. r \in SL!Call /\ r.pc = "refused" /\ callers' = [callers EXCEPT ![c] = r]
    BY <1>1, <1>3 DEF SL!Refresh, SL!Goes, SL!Call
  <2> HIDE DEF r
  <2> QED BY <1>1, <1>2, <1>3, <2>1, CallerMoves DEF SL!Refresh, SL!IInv, SL!TypeOK
<1>4. CASE /\ callers[c].pair = issued
           /\ issued' = issued + 1
           /\ callers' = [callers EXCEPT ![c].pc = "renewed", ![c].pair = issued + 1]
           /\ UNCHANGED <<lost, refusals>>
  <2>1. issued' \in stored..MaxPairs /\ issued' \in 0..MaxPairs
    BY <1>4 DEF SL!Refresh, SL!IInv, SL!TypeOK, SL!SlackAssumption
  <2>2. callers' \in [Callers -> SL!Call]
    BY <1>1, <1>4, <2>1 DEF SL!IInv, SL!TypeOK, SL!Call
  <2>3. /\ callers'[c].pc = "renewed" /\ callers'[c].pair = issued'
        /\ \A d \in Callers \ {c} : callers'[d] = callers[d]
    BY <1>1, <1>4 DEF SL!IInv, SL!TypeOK, SL!Call
  <2>4. SL!TypeOK'
    BY <1>4, <2>1, <2>2 DEF SL!Refresh, SL!IInv, SL!TypeOK
  <2>5. \A d \in Callers : SL!Renewing(d)' <=> SL!Renewing(d)
    BY <1>1, <2>3 DEF SL!Renewing
  <2>6. \A d \in Callers : callers[d].pc # "renewed"
    BY <1>1, <1>4 DEF SL!IInv, SL!RenewedIsNewest
  <2>7. SL!RenewedIsNewest'
    <3>1. stored' = stored /\ stored < issued'
      BY <1>1, <1>4 DEF SL!Refresh
    <3>2. \A d \in Callers : callers'[d].pc = "renewed" => d = c
      BY <2>3, <2>6
    <3>3. \A d \in Callers : callers'[d].pc = "renewing" => callers'[d].pair <= stored
      BY <2>3 DEF SL!IInv, SL!RenewedIsNewest
    <3> QED BY <2>3, <3>1, <3>2, <3>3 DEF SL!RenewedIsNewest
  <2>8. SL!OneRenews'
    BY <2>5 DEF SL!Refresh, SL!IInv, SL!OneRenews
  <2>9. bared \/ \A d \in Callers : callers'[d].pc # "renewing"
    BY <1>2, <2>3 DEF SL!Renewing
  <2>10. SL!NewestPairIsKept'
    BY <2>3, <2>9 DEF SL!Refresh, SL!NewestPairIsKept
  <2> QED BY <2>4, <2>7, <2>8, <2>10 DEF SL!IInv
<1>5. CASE /\ callers[c].pair = issued
           /\ issued' \in {issued, issued + 1}
           /\ lost' = (lost \/ issued' # issued)
           /\ SL!Goes(c, "kept")
           /\ SL!Fault
  <2> DEFINE r == [callers[c] EXCEPT !.pc = "kept"]
  <2>1. r \in SL!Call /\ r.pc = "kept" /\ callers' = [callers EXCEPT ![c] = r]
    BY <1>1, <1>5 DEF SL!Goes, SL!Call
  <2> HIDE DEF r
  <2>2. refusals' \in 0..MaxRefusals
    BY <1>5 DEF SL!Fault, SL!IInv, SL!TypeOK, SL!SlackAssumption
  <2>3. CASE issued' = issued
    BY <1>1, <1>2, <1>5, <2>1, <2>2, <2>3, CallerMoves DEF SL!Refresh, SL!IInv, SL!TypeOK
  <2>4. CASE issued' = issued + 1
    <3>1. issued' # issued
      BY <1>1, <2>4
    <3>2. lost' = TRUE
      BY <1>5, <3>1
    <3>3. issued' \in stored..MaxPairs /\ issued' \in 0..MaxPairs
      BY <1>1, <1>5, <2>4 DEF SL!Refresh, SL!IInv, SL!TypeOK, SL!SlackAssumption
    <3>4. /\ callers' \in [Callers -> SL!Call] /\ callers'[c].pc = "kept"
          /\ \A d \in Callers \ {c} : callers'[d] = callers[d]
      BY <2>1 DEF SL!IInv, SL!TypeOK
    <3>5. SL!TypeOK'
      BY <1>5, <2>2, <3>2, <3>3, <3>4 DEF SL!Refresh, SL!IInv, SL!TypeOK
    <3>6. \A d \in Callers : SL!Renewing(d)' <=> SL!Renewing(d)
      BY <1>1, <3>4 DEF SL!Renewing
    <3>7. SL!OneRenews'
      BY <3>6 DEF SL!Refresh, SL!IInv, SL!OneRenews
    <3>8. \A d \in Callers : callers[d].pc # "renewed"
      BY <1>1, <1>5 DEF SL!IInv, SL!RenewedIsNewest
    <3>9. SL!RenewedIsNewest'
      BY <3>4, <3>8 DEF SL!Refresh, SL!IInv, SL!RenewedIsNewest
    <3> QED BY <3>2, <3>5, <3>7, <3>9 DEF SL!IInv, SL!NewestPairIsKept
  <2> QED BY <1>5, <2>3, <2>4
<1> QED BY <1>1, <1>3, <1>4, <1>5 DEF SL!Refresh

\* The store takes the newest pair.
LEMMA KeepStep == ASSUME SL!IInv, NEW c \in Callers, SL!Keep(c) PROVE SL!IInv'
<1>1. /\ callers[c] \in SL!Call /\ callers[c].pc = "renewed" /\ SL!Renewing(c)
      /\ callers[c].pair = issued /\ stored' = issued /\ issued' = issued
      /\ stored \in Nat /\ issued \in Nat /\ stored < issued
  BY DEF SL!Keep, SL!Renewing, SL!IInv, SL!TypeOK, SL!RenewedIsNewest
<1>2. /\ callers' \in [Callers -> SL!Call] /\ callers'[c].pc = "kept"
      /\ \A d \in Callers \ {c} : callers'[d] = callers[d]
  BY <1>1 DEF SL!Keep, SL!Goes, SL!IInv, SL!TypeOK, SL!Call
<1>3. SL!TypeOK'
  BY <1>1, <1>2 DEF SL!Keep, SL!IInv, SL!TypeOK, SL!Ages
<1>4. \A d \in Callers : SL!Renewing(d)' <=> SL!Renewing(d)
  BY <1>1, <1>2 DEF SL!Renewing
<1>5. SL!OneRenews'
  BY <1>4 DEF SL!Keep, SL!IInv, SL!OneRenews
<1>6. \A d \in Callers : callers'[d].pc # "renewed"
  BY <1>1, <1>2 DEF SL!IInv, SL!RenewedIsNewest
<1>7. \A d \in Callers : callers'[d].pc = "renewing" =>
          callers[d].pc = "renewing" /\ callers'[d].pair = callers[d].pair /\ callers[d].pair \in Nat
  BY <1>1, <1>2 DEF SL!IInv, SL!TypeOK, SL!Call
<1>8. SL!RenewedIsNewest'
  BY <1>1, <1>6, <1>7 DEF SL!IInv, SL!RenewedIsNewest
<1>9. SL!NewestPairIsKept'
  BY <1>1, <1>7 DEF SL!Keep, SL!IInv, SL!NewestPairIsKept
<1> QED BY <1>3, <1>5, <1>8, <1>9 DEF SL!IInv

\* Who stops renewing leaves a claim off only where another goes on without it.
LEMMA StopStep ==
    ASSUME SL!IInv, NEW c \in Callers, SL!StillBared(c)
    PROVE  /\ bared' \in BOOLEAN
           /\ bared' \/ ~bared \/ \A d \in Callers \ {c} : ~SL!Renewing(d)
BY DEF SL!StillBared, SL!IInv, SL!TypeOK

LEMMA SettleStep ==
    ASSUME SL!SlackAssumption, SL!IInv, NEW c \in Callers, SL!Settle(c)
    PROVE  SL!IInv'
<1>1. callers[c] \in SL!Call /\ callers[c].pc \in {"kept", "refused"} /\ SL!Renewing(c)
  BY DEF SL!Settle, SL!Renewing, SL!IInv, SL!TypeOK
<1>2. claimed' = FALSE /\ UNCHANGED <<broken, stored, age, issued, lost, refusals>>
  BY DEF SL!Settle
<1>3. bared' \in BOOLEAN /\ (bared' \/ \A d \in Callers \ {c} : ~SL!Renewing(d))
  BY <1>1, StopStep, Alone DEF SL!Settle
<1>4. CASE callers[c].pc = "refused"
  <2> DEFINE r == [callers[c] EXCEPT !.pc = "breaking"]
  <2>1. r \in SL!Call /\ r.pc = "breaking" /\ callers' = [callers EXCEPT ![c] = r]
    BY <1>1, <1>4 DEF SL!Settle, SL!Goes, SL!Call
  <2> HIDE DEF r
  <2> QED BY <1>1, <1>2, <1>3, <2>1, CallerMoves DEF SL!IInv, SL!TypeOK
<1>5. CASE callers[c].pc # "refused"
  <2>1. callers' = [callers EXCEPT ![c] = SL!Idle]
    BY <1>5 DEF SL!Settle, SL!Ends
  <2> QED BY <1>1, <1>2, <1>3, <2>1, IdleCall, CallerMoves DEF SL!IInv, SL!TypeOK
<1> QED BY <1>4, <1>5

LEMMA DiesStep ==
    ASSUME SL!SlackAssumption, SL!IInv, NEW c \in Callers, SL!Dies(c)
    PROVE  SL!IInv'
<1>1. callers' = [callers EXCEPT ![c] = SL!Idle] /\ refusals' \in 0..MaxRefusals
  BY DEF SL!Dies, SL!Ends, SL!Fault, SL!IInv, SL!TypeOK, SL!SlackAssumption
<1>2. lost' \in BOOLEAN /\ (lost => lost') /\ (callers[c].pc = "renewed" => lost')
  BY DEF SL!Dies
<1>3. UNCHANGED <<claimed, broken, stored, age, issued>>
  BY DEF SL!Dies
<1>4. bared' \in BOOLEAN /\ (bared' \/ \A d \in Callers \ {c} : SL!Renewing(d) => ~bared /\ claimed)
  BY StopStep, Alone DEF SL!Dies
<1> QED BY <1>1, <1>2, <1>3, <1>4, IdleCall, CallerMoves DEF SL!IInv, SL!TypeOK

LEMMA EditReadsStep ==
    ASSUME SL!SlackAssumption, SL!IInv, NEW c \in Callers, SL!EditReads(c)
    PROVE  SL!IInv'
<1>1. /\ callers[c] \in SL!Call /\ callers[c].pc \in {"idle", "breaking"}
      /\ UNCHANGED <<claimed, broken, stored, age, issued, lost, bared, refusals>>
  BY DEF SL!EditReads, SL!IInv, SL!TypeOK
<1>2. CASE callers' = [callers EXCEPT ![c] = SL!Idle]
  BY <1>1, <1>2, Alone, IdleCall, CallerMoves DEF SL!IInv, SL!TypeOK
<1>3. ASSUME NEW pc \in {"mending", "marking"},
             callers' = [callers EXCEPT ![c].pc = pc, ![c].claimed = claimed]
      PROVE  SL!IInv'
  <2> DEFINE r == [callers[c] EXCEPT !.pc = pc, !.claimed = claimed]
  <2>1. r \in SL!Call /\ r.pc = pc /\ callers' = [callers EXCEPT ![c] = r]
    BY <1>1, <1>3 DEF SL!Call, SL!IInv, SL!TypeOK
  <2> HIDE DEF r
  <2> QED BY <1>1, <2>1, Alone, CallerMoves DEF SL!IInv, SL!TypeOK
<1> QED BY <1>1, <1>2, <1>3 DEF SL!EditReads, SL!Ends

\* A write of the row that takes the claim off says so.
LEMMA EditWritesStep ==
    ASSUME SL!SlackAssumption, SL!IInv, NEW c \in Callers, SL!EditWrites(c)
    PROVE  SL!IInv'
<1>1. /\ callers[c] \in SL!Call /\ callers[c].pc \in {"mending", "marking"}
      /\ UNCHANGED <<stored, age, issued, lost, refusals>>
      /\ callers' = [callers EXCEPT ![c] = SL!Idle]
  BY DEF SL!EditWrites, SL!Ends, SL!IInv, SL!TypeOK
<1>2. claimed' \in BOOLEAN
  BY <1>1 DEF SL!EditWrites, SL!Call
<1>3. broken' \in BOOLEAN /\ bared' \in BOOLEAN
  BY DEF SL!EditWrites
<1>4. bared' \/ \A d \in Callers \ {c} : SL!Renewing(d) => ~bared /\ claimed'
  BY DEF SL!EditWrites
<1> QED BY <1>1, <1>2, <1>3, <1>4, IdleCall, CallerMoves DEF SL!IInv, SL!TypeOK

LEMMA RowStep ==
    ASSUME SL!IInv, SL!ClaimLapses \/ SL!Tick
    PROVE  SL!IInv'
<1>1. CASE SL!ClaimLapses
  BY <1>1, RowChanges DEF SL!ClaimLapses, SL!IInv, SL!TypeOK
<1>2. CASE SL!Tick
  BY <1>2, RowChanges DEF SL!Tick, SL!Ages, SL!IInv, SL!TypeOK
<1> QED BY <1>1, <1>2

LEMMA NextInv ==
    ASSUME SL!SlackAssumption, SL!IInv, [SL!Next]_(SL!vars)
    PROVE  SL!IInv'
<1>1. ASSUME NEW c \in Callers,
             \/ SL!ReadToken(c) \/ SL!Claim(c) \/ SL!Reread(c) \/ SL!Refresh(c)
             \/ SL!Keep(c) \/ SL!Settle(c) \/ SL!Dies(c)
             \/ SL!EditReads(c) \/ SL!EditWrites(c)
      PROVE  SL!IInv'
  BY <1>1, ReadTokenStep, ClaimStep, RereadStep, RefreshStep, KeepStep, SettleStep, DiesStep,
     EditReadsStep, EditWritesStep
<1>2. CASE UNCHANGED SL!vars
  BY <1>2, RowChanges DEF SL!vars, SL!IInv, SL!TypeOK
<1> QED BY <1>1, <1>2, RowStep DEF SL!Next

\* The inductive invariant holds in every reachable state.
THEOREM SlackInvariant ==
    ASSUME SL!SlackAssumption
    PROVE  SL!Spec => []SL!IInv
<1>1. SL!Init => SL!IInv
  BY InitInv
<1>2. SL!IInv /\ [SL!Next]_(SL!vars) => SL!IInv'
  BY NextInv
<1> QED BY <1>1, <1>2, PTL DEF SL!Spec

\* The newest pair of tokens is in the store, or with the caller that is about to
\* keep it, whatever is written to the row meanwhile, unless one was lost on the
\* way; and no refresh token is presented twice, unless a write of the row took
\* the claim from a renewal under way (bot_token).
THEOREM NewestPairHolds ==
    ASSUME SL!SlackAssumption
    PROVE  SL!Spec => []SL!NewestPairIsKept
<1>1. SL!IInv => SL!NewestPairIsKept
  BY DEF SL!IInv
<1> QED BY <1>1, SlackInvariant, PTL

----------------------------------------------------------------------------
(* The objects of the store.                                               *)

CallType == [pc : {"idle", "started", "refused", "confirming", "completed", "deleting"},
             upload : 0..MaxUploads, file : MD!Row]
SweepType == [pc : {"idle", "aborting", "removing", "purging"}, file : MD!Row]

LEMMA Nothings ==
    ASSUME MD!MediaAssumption
    PROVE  /\ MD!NoRow \in MD!Row /\ MD!NoRow.status = "none" /\ ~MD!NoRow.past
           /\ MD!NoCall \in CallType /\ MD!NoCall.pc = "idle" /\ MD!NoCall.file = MD!NoRow
           /\ MD!NoSweep \in SweepType /\ MD!NoSweep.pc = "idle"
BY DEF MD!MediaAssumption, MD!NoRow, MD!NoCall, MD!NoSweep, MD!Row, CallType, SweepType

\* The types one at a time.
LEMMA MediaTypes ==
    ASSUME MD!TypeOK
    PROVE  /\ fileRow \in MD!Row /\ aged \in BOOLEAN /\ object \in BOOLEAN /\ expired \in BOOLEAN
           /\ numbered \in 0..MaxUploads /\ uploads \subseteq 1..numbered
           /\ calls \in [Calls -> CallType] /\ sweeps \in [Sweeps -> SweepType]
           /\ failures \in 0..MaxFailures
<1>1. aged \in BOOLEAN /\ object \in BOOLEAN /\ expired \in BOOLEAN
  BY Zenon DEF MD!TypeOK
<1> QED BY <1>1 DEF MD!TypeOK, CallType, SweepType

LEMMA TypesAgain ==
    ASSUME fileRow' \in MD!Row, aged' \in BOOLEAN, object' \in BOOLEAN, expired' \in BOOLEAN,
           numbered' \in 0..MaxUploads, uploads' \subseteq 1..numbered',
           calls' \in [Calls -> CallType], sweeps' \in [Sweeps -> SweepType],
           failures' \in 0..MaxFailures
    PROVE  MD!TypeOK'
<1>1. {aged', object', expired'} \subseteq BOOLEAN
  BY Zenon
<1> QED BY <1>1 DEF MD!TypeOK, CallType, SweepType

LEMMA FaultCounts ==
    ASSUME MD!TypeOK, MD!MediaAssumption, UNCHANGED failures \/ MD!Fault
    PROVE  failures' \in 0..MaxFailures
BY DEF MD!Fault, MD!TypeOK, MD!MediaAssumption

\* A call moves to what it may hold: nothing new is claimed of an upload but what
\* is said here.
LEMMA CallMoves ==
    ASSUME MD!MediaAssumption, NEW u \in Nat, MD!Kept(u), NEW c \in Calls, NEW r \in CallType,
           calls' = [calls EXCEPT ![c] = r],
           UNCHANGED <<fileRow, aged, uploads, numbered, object, expired, sweeps>>,
           UNCHANGED failures \/ MD!Fault,
           r.pc \in MD!Starting => calls[c].pc \in MD!Starting /\ r.upload = calls[c].upload,
           r.pc \in MD!Holding => r.file.status # "none" /\ r.file.upload = u /\ u # 0,
           MD!HoldsStored(r) => u \notin uploads
    PROVE  MD!Kept(u)'
<1>1. /\ calls' \in [Calls -> CallType] /\ calls'[c] = r
      /\ \A d \in Calls \ {c} : calls'[d] = calls[d]
  BY MediaTypes DEF MD!Kept
<1>2. MD!TypeOK'
  BY <1>1, MediaTypes, FaultCounts, TypesAgain DEF MD!Kept
<1>3. MD!StartsAreOwn'
  BY <1>1 DEF MD!Kept, MD!StartsAreOwn
<1>4. MD!SweepsAreDue' /\ MD!UploadStays' /\ MD!ObjectIsOver(u)'
  BY DEF MD!Kept, MD!SweepsAreDue, MD!UploadStays, MD!ObjectIsOver, MD!IsRow
<1>5. MD!NamesOnly(u)'
  BY <1>1 DEF MD!Kept, MD!NamesOnly, MD!StartsAreOwn, MD!IsRow
<1>6. MD!UploadIsOver(u)'
  BY <1>1 DEF MD!Kept, MD!UploadIsOver, MD!HoldsStored
<1> QED BY <1>2, <1>3, <1>4, <1>5, <1>6 DEF MD!Kept

-----------------------------------------------------------------------------
(* create_file.                                                            *)

LEMMA StartUploadStep ==
    ASSUME MD!MediaAssumption, NEW u \in Nat, MD!Kept(u), NEW c \in Calls, MD!StartUpload(c)
    PROVE  MD!Kept(u)'
<1> DEFINE r == [MD!NoCall EXCEPT !.pc = "started", !.upload = numbered + 1]
<1>1. /\ numbered \in Nat /\ numbered < MaxUploads /\ MaxUploads \in Nat /\ u \in 0..numbered
      /\ uploads \subseteq 1..numbered
      /\ ~aged /\ ~expired
  BY MediaTypes DEF MD!Kept, MD!StartUpload, MD!NamesOnly, MD!MediaAssumption
<1>2. r \in CallType /\ r.pc = "started" /\ r.upload = numbered + 1
  <2>1. PICK m \in 0..MaxUploads : m = numbered + 1
    BY <1>1
  <2> DEFINE begun == [MD!NoCall EXCEPT !.pc = "started"]
  <2>2. begun \in CallType /\ begun.pc = "started" /\ r = [begun EXCEPT !.upload = m]
    BY <2>1, Nothings DEF CallType
  <2> HIDE DEF begun, r
  <2> QED BY <2>1, <2>2 DEF CallType
<1>3. numbered' = numbered + 1 /\ uploads' = uploads \cup {numbered + 1} /\ calls' = [calls EXCEPT ![c] = r]
  BY DEF MD!StartUpload
<1>4. UNCHANGED <<fileRow, aged, object, expired, sweeps, failures>>
  BY DEF MD!StartUpload
<1> HIDE DEF r
<1>5. /\ calls' \in [Calls -> CallType] /\ calls'[c] = r
      /\ \A d \in Calls \ {c} : calls'[d] = calls[d]
  BY <1>2, <1>3, MediaTypes DEF MD!Kept
<1>6. uploads' \subseteq 1..numbered' /\ numbered' \in 0..MaxUploads
  BY <1>1, <1>3
<1>7. MD!TypeOK'
  BY <1>4, <1>5, <1>6, MediaTypes, TypesAgain DEF MD!Kept
<1>8. \A d \in Calls \ {c} : calls[d].pc \in MD!Starting => calls[d].upload # numbered + 1
  BY <1>1 DEF MD!Kept, MD!StartsAreOwn
<1>9. MD!StartsAreOwn'
  BY <1>1, <1>2, <1>3, <1>4, <1>5, <1>8 DEF MD!Kept, MD!StartsAreOwn
<1>10. u # numbered + 1 /\ u \in 0..numbered'
  BY <1>1, <1>3
<1>11. u \in uploads' <=> u \in uploads
  BY <1>3, <1>10
<1>12. MD!SweepsAreDue' /\ MD!UploadStays'
  BY <1>3, <1>4 DEF MD!Kept, MD!SweepsAreDue, MD!UploadStays
<1>13. MD!NamesOnly(u)'
  BY <1>2, <1>4, <1>5, <1>10 DEF MD!Kept, MD!NamesOnly, MD!IsRow, MD!Holding
<1>14. MD!UploadIsOver(u)' /\ MD!ObjectIsOver(u)'
  BY <1>2, <1>4, <1>5, <1>11 DEF MD!Kept, MD!UploadIsOver, MD!ObjectIsOver, MD!HoldsStored, MD!IsRow
<1> QED BY <1>7, <1>9, <1>12, <1>13, <1>14 DEF MD!Kept

\* The row is written for the call's own upload, once: before, there was none.
LEMMA CreateFileStep ==
    ASSUME MD!MediaAssumption, NEW u \in Nat, MD!Kept(u), NEW c \in Calls, MD!CreateFile(c)
    PROVE  MD!IInv'
<1>1. CASE MD!IsRow
  <2> DEFINE r == [calls[c] EXCEPT !.pc = "refused"]
  <2>1. calls[c] \in CallType /\ calls[c].pc = "started"
    BY MediaTypes DEF MD!Kept, MD!CreateFile
  <2>2. r \in CallType /\ r.pc = "refused" /\ r.upload = calls[c].upload
    BY <2>1 DEF CallType
  <2>3. calls' = [calls EXCEPT ![c] = r]
    BY <1>1 DEF MD!CreateFile, MD!Goes
  <2> HIDE DEF r
  <2>4. MD!Kept(u)'
    BY <1>1, <2>1, <2>2, <2>3, CallMoves DEF MD!CreateFile, MD!Starting, MD!Holding, MD!HoldsStored
  <2>5. u \in 0..MaxUploads
    BY MediaTypes DEF MD!Kept, MD!NamesOnly, MD!MediaAssumption
  <2> QED BY <2>4, <2>5 DEF MD!IInv
<1>2. CASE ~MD!IsRow
  <2>0. PICK w : w = calls[c].upload
    OBVIOUS
  <2>1. /\ calls[c] \in CallType /\ calls[c].pc = "started"
        /\ w \in uploads /\ ~aged /\ ~expired /\ u = 0
        /\ \A d \in Calls \ {c} : calls[d].pc \in MD!Starting => calls[d].upload # w
    BY <1>2, <2>0, MediaTypes DEF MD!Kept, MD!CreateFile, MD!StartsAreOwn, MD!NamesOnly, MD!Starting
  <2>2. w \in 1..numbered /\ numbered \in 0..MaxUploads /\ MaxUploads \in Nat
    BY <2>1, MediaTypes DEF MD!Kept, MD!MediaAssumption
  <2>3. /\ fileRow' \in MD!Row /\ fileRow'.status = "pending" /\ fileRow'.upload = w
        /\ ~fileRow'.deleted /\ ~fileRow'.past
    <3>1. fileRow' = [MD!NoRow EXCEPT !.status = "pending", !.upload = w]
      BY <1>2, <2>0 DEF MD!CreateFile
    <3>2. fileRow' = [status |-> "pending", upload |-> w, deleted |-> FALSE, past |-> FALSE]
      BY <3>1 DEF MD!NoRow
    <3>3. w \in 0..MaxUploads
      BY <2>2
    <3> QED BY <3>2, <3>3 DEF MD!Row
  <2>4. calls' = [calls EXCEPT ![c] = MD!NoCall]
    BY <1>2 DEF MD!CreateFile, MD!Ends, MD!Goes
  <2>5. UNCHANGED <<aged, uploads, numbered, object, expired, sweeps, failures>>
    BY DEF MD!CreateFile
  <2>6. /\ calls' \in [Calls -> CallType] /\ calls'[c] = MD!NoCall
        /\ \A d \in Calls \ {c} : calls'[d] = calls[d]
    BY <2>4, MediaTypes, Nothings DEF MD!Kept
  <2>7. /\ \A d \in Calls : calls[d].pc \notin MD!Holding
        /\ \A s \in Sweeps : sweeps[s].pc = "idle"
    BY <2>1 DEF MD!Kept, MD!NamesOnly
  <2>8. MD!TypeOK'
    BY <2>3, <2>5, <2>6, MediaTypes, TypesAgain DEF MD!Kept
  <2>9. MD!StartsAreOwn'
    BY <2>5, <2>6, Nothings DEF MD!Kept, MD!StartsAreOwn, MD!Starting
  <2>10. MD!SweepsAreDue' /\ MD!UploadStays'
    BY <2>1, <2>3, <2>5, <2>7 DEF MD!SweepsAreDue, MD!UploadStays
  <2>11. w # 0 /\ w \in 0..numbered'
    BY <2>2, <2>5
  <2>12. MD!NamesOnly(w)'
    BY <2>1, <2>3, <2>5, <2>6, <2>7, <2>11, Nothings DEF MD!NamesOnly, MD!IsRow, MD!Holding, MD!Starting
  <2>13. MD!UploadIsOver(w)' /\ MD!ObjectIsOver(w)'
    BY <2>3, <2>5, <2>6, <2>7, Nothings
       DEF MD!UploadIsOver, MD!ObjectIsOver, MD!HoldsStored, MD!IsRow, MD!Holding
  <2>14. MD!Kept(w)' /\ w \in 0..MaxUploads
    BY <2>2, <2>8, <2>9, <2>10, <2>12, <2>13 DEF MD!Kept
  <2> QED BY <2>14 DEF MD!IInv
<1> QED BY <1>1, <1>2

\* An upload nobody names goes: the call's own, where the row has another.
LEMMA AbortOwnStep ==
    ASSUME MD!MediaAssumption, NEW u \in Nat, MD!Kept(u), NEW c \in Calls, MD!AbortOwn(c)
    PROVE  MD!Kept(u)'
<1>1. calls[c].pc = "refused" /\ calls[c].upload # u
  BY DEF MD!AbortOwn, MD!Kept, MD!NamesOnly, MD!Starting
<1>2. uploads' = uploads \ {calls[c].upload} /\ calls' = [calls EXCEPT ![c] = MD!NoCall]
  BY DEF MD!AbortOwn, MD!OwnUpload, MD!Ends
<1>3. UNCHANGED <<fileRow, aged, numbered, object, expired, sweeps, failures>>
  BY DEF MD!AbortOwn
<1>4. /\ calls' \in [Calls -> CallType] /\ calls'[c] = MD!NoCall
      /\ \A d \in Calls \ {c} : calls'[d] = calls[d]
  BY <1>2, MediaTypes, Nothings DEF MD!Kept
<1>5. MD!TypeOK'
  BY <1>2, <1>3, <1>4, MediaTypes, TypesAgain DEF MD!Kept
<1>6. \A d \in Calls \ {c} : calls[d].pc \in MD!Starting => calls[d].upload # calls[c].upload
  BY <1>1 DEF MD!Kept, MD!StartsAreOwn, MD!Starting
<1>7. MD!StartsAreOwn'
  BY <1>2, <1>3, <1>4, <1>6, Nothings DEF MD!Kept, MD!StartsAreOwn, MD!Starting
<1>8. u \in uploads' <=> u \in uploads
  BY <1>1, <1>2
<1>9. MD!IsRow => fileRow.upload = u
  BY DEF MD!Kept, MD!NamesOnly
<1>10. MD!SweepsAreDue' /\ MD!UploadStays'
  BY <1>3, <1>8, <1>9 DEF MD!Kept, MD!SweepsAreDue, MD!UploadStays, MD!IsRow
<1>11. MD!NamesOnly(u)'
  BY <1>3, <1>4, Nothings DEF MD!Kept, MD!NamesOnly, MD!IsRow, MD!Starting, MD!Holding
<1>12. MD!UploadIsOver(u)' /\ MD!ObjectIsOver(u)'
  BY <1>3, <1>4, <1>8, Nothings DEF MD!Kept, MD!UploadIsOver, MD!ObjectIsOver, MD!HoldsStored, MD!IsRow
<1> QED BY <1>5, <1>7, <1>10, <1>11, <1>12 DEF MD!Kept

LEMMA LifecycleStep ==
    ASSUME MD!MediaAssumption, NEW u \in Nat, MD!Kept(u), MD!LifecycleAborts
    PROVE  MD!Kept(u)'
<1>1. PICK v \in uploads :
        /\ MD!IsRow => fileRow.upload # v
        /\ \A c \in Calls : calls[c].upload # v /\ calls[c].file.upload # v
        /\ uploads' = uploads \ {v}
  BY DEF MD!LifecycleAborts
<1>2. UNCHANGED <<fileRow, aged, numbered, object, expired, calls, sweeps, failures>>
  BY DEF MD!LifecycleAborts
<1>3. MD!TypeOK'
  BY <1>1, <1>2, MediaTypes, TypesAgain DEF MD!Kept
<1>4. MD!StartsAreOwn'
  BY <1>1, <1>2 DEF MD!Kept, MD!StartsAreOwn
<1>5. MD!SweepsAreDue' /\ MD!UploadStays'
  BY <1>1, <1>2 DEF MD!Kept, MD!SweepsAreDue, MD!UploadStays, MD!IsRow
<1>6. MD!NamesOnly(u)' /\ MD!UploadIsOver(u)' /\ MD!ObjectIsOver(u)'
  BY <1>1, <1>2 DEF MD!Kept, MD!NamesOnly, MD!UploadIsOver, MD!ObjectIsOver, MD!IsRow
<1> QED BY <1>3, <1>4, <1>5, <1>6 DEF MD!Kept

-----------------------------------------------------------------------------
(* confirm_file, delete_file.                                              *)

\* A request reads a row that is there.
LEMMA BeginStep ==
    ASSUME MD!MediaAssumption, NEW u \in Nat, MD!Kept(u), NEW c \in Calls,
           MD!BeginConfirm(c) \/ MD!BeginDelete(c)
    PROVE  MD!Kept(u)'
<1>1. PICK pc \in {"confirming", "deleting"} : MD!Begins(c, pc)
  BY DEF MD!BeginConfirm, MD!BeginDelete
<1>2. MD!IsRow
  BY DEF MD!BeginConfirm, MD!BeginDelete, MD!IsLive
<1> DEFINE r == [calls[c] EXCEPT !.pc = pc, !.file = fileRow]
<1>3. calls[c] \in CallType /\ fileRow \in MD!Row
  BY MediaTypes DEF MD!Kept
<1>4. r \in CallType /\ r.pc = pc /\ r.file = fileRow
  BY <1>3 DEF CallType
<1>5. calls' = [calls EXCEPT ![c] = r]
  BY <1>1 DEF MD!Begins
<1> HIDE DEF r
<1>6. fileRow.status # "none" /\ fileRow.upload = u /\ u # 0
  BY <1>2 DEF MD!Kept, MD!NamesOnly, MD!IsRow
<1>7. MD!HoldsStored(r) => u \notin uploads
  BY <1>4 DEF MD!Kept, MD!HoldsStored, MD!UploadIsOver
<1> QED BY <1>1, <1>4, <1>5, <1>6, <1>7, CallMoves DEF MD!Begins, MD!Starting, MD!Holding

\* A call that ends says nothing of any upload.
LEMMA CallEnds ==
    ASSUME MD!MediaAssumption, NEW u \in Nat, MD!Kept(u), NEW c \in Calls, MD!Ends(c),
           UNCHANGED <<fileRow, aged, uploads, numbered, object, expired, sweeps>>,
           UNCHANGED failures \/ MD!Fault
    PROVE  MD!Kept(u)'
BY Nothings, CallMoves DEF MD!Ends, MD!Starting, MD!Holding, MD!HoldsStored

\* The store makes the object of an upload that was under way, and of it alone.
LEMMA CompleteUploadStep ==
    ASSUME MD!MediaAssumption, NEW u \in Nat, MD!Kept(u), NEW c \in Calls, MD!CompleteUpload(c)
    PROVE  MD!Kept(u)'
<1> DEFINE r == [calls[c] EXCEPT !.pc = "completed"]
<1>1. /\ calls[c] \in CallType /\ calls[c].pc = "confirming"
      /\ calls[c].file.status # "none" /\ calls[c].file.upload = u /\ u # 0
  BY MediaTypes DEF MD!Kept, MD!NamesOnly, MD!CompleteUpload, MD!Holding
<1>2. r \in CallType /\ r.pc = "completed" /\ r.file = calls[c].file
  BY <1>1 DEF CallType
<1>3. UNCHANGED <<fileRow, aged, numbered, expired, sweeps>>
  BY DEF MD!CompleteUpload
<1>4. CASE u \in uploads /\ object' = TRUE /\ uploads' = uploads \ {u}
  <2>1. /\ \/ calls' = [calls EXCEPT ![c] = r]
           \/ calls' = [calls EXCEPT ![c] = MD!NoCall]
        /\ UNCHANGED failures \/ MD!Fault
    BY <1>1, <1>4 DEF MD!CompleteUpload, MD!Goes, MD!Ends
  <2> HIDE DEF r
  <2>2. /\ calls' \in [Calls -> CallType] /\ calls'[c] \in {r, MD!NoCall}
        /\ \A d \in Calls \ {c} : calls'[d] = calls[d]
    BY <1>2, <2>1, MediaTypes, Nothings DEF MD!Kept
  <2>3. calls'[c].pc \notin MD!Starting /\ (calls'[c].pc \in MD!Holding => calls'[c].file = calls[c].file)
    BY <1>2, <2>2, Nothings DEF MD!Starting, MD!Holding
  <2>4. MD!TypeOK'
    BY <1>3, <1>4, <2>1, <2>2, MediaTypes, FaultCounts, TypesAgain DEF MD!Kept
  <2>5. MD!StartsAreOwn'
    BY <1>3, <1>4, <2>2, <2>3 DEF MD!Kept, MD!StartsAreOwn, MD!NamesOnly
  <2>6. MD!SweepsAreDue' /\ MD!UploadStays'
    BY <1>3, <1>4 DEF MD!Kept, MD!SweepsAreDue, MD!UploadStays
  <2>7. MD!NamesOnly(u)'
    BY <1>1, <1>3, <2>2, <2>3 DEF MD!Kept, MD!NamesOnly, MD!IsRow
  <2>8. MD!UploadIsOver(u)'
    BY <1>4 DEF MD!UploadIsOver
  <2>9. MD!ObjectIsOver(u)'
    BY <1>3, <1>4 DEF MD!Kept, MD!ObjectIsOver, MD!UploadIsOver, MD!IsRow
  <2> QED BY <2>4, <2>5, <2>6, <2>7, <2>8, <2>9 DEF MD!Kept
<1>5. CASE MD!Ends(c) /\ UNCHANGED <<object, uploads, failures>>
  BY <1>3, <1>5, CallEnds
<1>6. CASE u \notin uploads /\ calls' = [calls EXCEPT ![c] = r] /\ UNCHANGED <<object, uploads, failures>>
  <2> HIDE DEF r
  <2> QED BY <1>1, <1>2, <1>3, <1>6, CallMoves DEF MD!Starting
<1> QED BY <1>1, <1>4, <1>5, <1>6 DEF MD!CompleteUpload, MD!Goes

\* A write of the row names the same upload, and never makes a file that may
\* still be finished.
LEMMA RowIsWritten ==
    ASSUME MD!MediaAssumption, NEW u \in Nat, MD!Kept(u), NEW c \in Calls, NEW file \in MD!Row,
           MD!Ends(c), MD!Upsert(file),
           UNCHANGED <<aged, uploads, numbered, object, expired, sweeps, failures>>,
           file.status # "none", file.upload = u, u # 0, ~file.past,
           file.status = "stored" \/ file.deleted,
           file.status = "stored" => u \notin uploads
    PROVE  MD!Kept(u)'
<1>1. fileRow' \in {fileRow, file}
  BY DEF MD!Upsert
<1>2. /\ calls' \in [Calls -> CallType] /\ calls'[c] = MD!NoCall
      /\ \A d \in Calls \ {c} : calls'[d] = calls[d]
  BY MediaTypes, Nothings DEF MD!Kept, MD!Ends
<1>3. MD!TypeOK'
  BY <1>1, <1>2, MediaTypes, TypesAgain DEF MD!Kept
<1>4. MD!StartsAreOwn'
  BY <1>2, Nothings DEF MD!Kept, MD!StartsAreOwn, MD!Starting
<1>5. MD!IsRow' \/ fileRow' = fileRow
  BY <1>1 DEF MD!IsRow
<1>6. MD!SweepsAreDue' /\ MD!UploadStays'
  BY <1>1 DEF MD!Kept, MD!SweepsAreDue, MD!UploadStays
<1>7. MD!NamesOnly(u)'
  BY <1>1, <1>2, <1>5, Nothings DEF MD!Kept, MD!NamesOnly, MD!IsRow, MD!Starting, MD!Holding
<1>8. MD!UploadIsOver(u)'
  BY <1>1, <1>2, Nothings DEF MD!Kept, MD!UploadIsOver, MD!HoldsStored
<1>9. MD!ObjectIsOver(u)'
  BY <1>1, <1>5 DEF MD!Kept, MD!ObjectIsOver, MD!IsRow
<1> QED BY <1>3, <1>4, <1>6, <1>7, <1>8, <1>9 DEF MD!Kept

LEMMA WriteStep ==
    ASSUME MD!MediaAssumption, NEW u \in Nat, MD!Kept(u), NEW c \in Calls,
           MD!ConfirmWrite(c) \/ MD!DeleteWrite(c)
    PROVE  MD!Kept(u)'
<1>1. calls[c] \in CallType
  BY MediaTypes DEF MD!Kept
<1>2. /\ calls[c].file \in MD!Row /\ calls[c].file.status # "none"
      /\ calls[c].file.upload = u /\ u # 0
  BY <1>1 DEF MD!Kept, MD!NamesOnly, MD!ConfirmWrite, MD!DeleteWrite, MD!Holding, CallType
<1>3. MD!HoldsStored(calls[c]) => u \notin uploads
  BY DEF MD!Kept, MD!UploadIsOver
<1>4. CASE MD!ConfirmWrite(c)
  <2> DEFINE file == [calls[c].file EXCEPT !.status = "stored", !.past = FALSE]
  <2>1. /\ file \in MD!Row /\ file.status = "stored" /\ file.upload = u /\ ~file.past
    BY <1>2 DEF MD!Row
  <2>2. MD!Upsert(file) /\ u \notin uploads
    BY <1>3, <1>4 DEF MD!ConfirmWrite, MD!HoldsStored
  <2> HIDE DEF file
  <2> QED BY <1>2, <1>4, <2>1, <2>2, RowIsWritten DEF MD!ConfirmWrite
<1>5. CASE MD!DeleteWrite(c)
  <2> DEFINE file == [calls[c].file EXCEPT !.deleted = TRUE, !.past = FALSE]
  <2>1. /\ file \in MD!Row /\ file.status = calls[c].file.status /\ file.upload = u
        /\ file.deleted /\ ~file.past
    BY <1>2 DEF MD!Row
  <2>2. MD!Upsert(file) /\ (file.status = "stored" => u \notin uploads)
    BY <1>3, <1>5, <2>1 DEF MD!DeleteWrite, MD!HoldsStored
  <2> HIDE DEF file
  <2> QED BY <1>2, <1>5, <2>1, <2>2, RowIsWritten DEF MD!DeleteWrite
<1> QED BY <1>4, <1>5

LEMMA CallDiesStep ==
    ASSUME MD!MediaAssumption, NEW u \in Nat, MD!Kept(u), NEW c \in Calls, MD!CallDies(c)
    PROVE  MD!Kept(u)'
BY CallEnds DEF MD!CallDies

-----------------------------------------------------------------------------
(* The sweeps.                                                             *)

\* A sweep moves on to a point where what it has passed is over.
LEMMA SweepMoves ==
    ASSUME MD!MediaAssumption, NEW u \in Nat, MD!Kept(u), NEW s \in Sweeps, NEW r \in SweepType,
           sweeps' = [sweeps EXCEPT ![s] = r],
           UNCHANGED <<fileRow, aged, numbered, expired, calls>>, UNCHANGED failures \/ MD!Fault,
           uploads' \in {uploads, uploads \ {u}}, object' \in {object, FALSE},
           sweeps[s].pc = "idle" => object' = object /\ uploads' = uploads,
           r.pc # "idle" => /\ r.file.upload = u /\ u # 0
                            /\ aged \/ expired
                            /\ expired \/ fileRow.past \/ fileRow.deleted \/ fileRow.status # "pending",
           r.pc \in {"removing", "purging"} => u \notin uploads',
           r.pc = "purging" => ~object'
    PROVE  MD!Kept(u)'
<1>1. /\ sweeps' \in [Sweeps -> SweepType] /\ sweeps'[s] = r
      /\ \A w \in Sweeps \ {s} : sweeps'[w] = sweeps[w]
  BY MediaTypes DEF MD!Kept
<1>2. MD!TypeOK'
  <2>1. object' \in BOOLEAN /\ uploads' \subseteq 1..numbered' /\ failures' \in 0..MaxFailures
    BY MediaTypes, FaultCounts DEF MD!Kept
  <2> QED BY <1>1, <2>1, MediaTypes, TypesAgain DEF MD!Kept
<1>3. MD!StartsAreOwn'
  BY DEF MD!Kept, MD!StartsAreOwn, MD!NamesOnly
<1>4. MD!SweepsAreDue'
  BY <1>1 DEF MD!Kept, MD!SweepsAreDue
<1>5. MD!UploadStays'
  BY DEF MD!Kept, MD!UploadStays, MD!SweepsAreDue
<1>6. MD!NamesOnly(u)'
  BY <1>1 DEF MD!Kept, MD!NamesOnly, MD!IsRow
<1>7. MD!UploadIsOver(u)'
  BY <1>1 DEF MD!Kept, MD!UploadIsOver
<1>8. MD!ObjectIsOver(u)'
  <2>1. object' => object
    BY MediaTypes, Zenon DEF MD!Kept
  <2>2. u \in uploads' => u \in uploads
    OBVIOUS
  <2> QED BY <1>1, <2>1, <2>2 DEF MD!Kept, MD!ObjectIsOver, MD!IsRow
<1> QED BY <1>2, <1>3, <1>4, <1>5, <1>6, <1>7, <1>8 DEF MD!Kept

\* Only a file that will not be finished is read by a sweep.
LEMMA SweepReadsStep ==
    ASSUME MD!MediaAssumption, NEW u \in Nat, MD!Kept(u), NEW s \in Sweeps, MD!SweepReads(s)
    PROVE  MD!Kept(u)'
<1> DEFINE r == [pc |-> MD!AfterRead, file |-> fileRow]
<1>1. fileRow \in MD!Row /\ fileRow.upload = u /\ u # 0 /\ (fileRow.past \/ expired) /\ fileRow.status # "none"
  BY MediaTypes DEF MD!Kept, MD!SweepReads, MD!Purgeable, MD!NamesOnly, MD!IsRow
<1>2. r \in SweepType /\ r.file = fileRow /\ r.pc \in {"aborting", "removing"}
  BY <1>1 DEF MD!AfterRead, SweepType
<1>3. r.pc = "removing" => u \notin uploads
  BY <1>1 DEF MD!AfterRead, MD!Kept, MD!UploadIsOver, MD!Row
<1>4. aged \/ expired
  BY <1>1 DEF MD!Kept, MD!SweepsAreDue
<1>5. sweeps' = [sweeps EXCEPT ![s] = r]
  BY DEF MD!SweepReads
<1> HIDE DEF r
<1> QED BY <1>1, <1>2, <1>3, <1>4, <1>5, SweepMoves DEF MD!SweepReads

\* What is known of a sweep under way.
LEMMA SweepFacts ==
    ASSUME NEW u \in Nat, MD!Kept(u), NEW s \in Sweeps, sweeps[s].pc # "idle"
    PROVE  /\ sweeps[s] \in SweepType /\ sweeps[s].file.upload = u /\ u # 0
           /\ aged \/ expired
           /\ expired \/ fileRow.past \/ fileRow.deleted \/ fileRow.status # "pending"
BY MediaTypes DEF MD!Kept, MD!NamesOnly, MD!SweepsAreDue

LEMMA AbortUploadStep ==
    ASSUME MD!MediaAssumption, NEW u \in Nat, MD!Kept(u), NEW s \in Sweeps, MD!AbortUpload(s)
    PROVE  MD!Kept(u)'
<1> DEFINE r == [sweeps[s] EXCEPT !.pc = "removing"]
<1>1. sweeps[s].pc = "aborting" /\ sweeps[s].pc # "idle"
  BY DEF MD!AbortUpload
<1>2. r \in SweepType /\ r.pc = "removing" /\ r.file = sweeps[s].file
  BY <1>1, SweepFacts DEF SweepType
<1>3. uploads' = uploads \ {u} /\ sweeps' = [sweeps EXCEPT ![s] = r]
  BY <1>1, SweepFacts DEF MD!AbortUpload
<1>4. u \notin uploads' /\ object' = object
  BY <1>3 DEF MD!AbortUpload
<1>5. UNCHANGED <<fileRow, aged, numbered, expired, calls, failures>>
  BY DEF MD!AbortUpload
<1>6. /\ sweeps[s].file.upload = u /\ u # 0 /\ (aged \/ expired)
      /\ expired \/ fileRow.past \/ fileRow.deleted \/ fileRow.status # "pending"
  BY <1>1, SweepFacts
<1> HIDE DEF r
<1> QED BY <1>1, <1>2, <1>3, <1>4, <1>5, <1>6, SweepMoves

LEMMA RemoveObjectStep ==
    ASSUME MD!MediaAssumption, NEW u \in Nat, MD!Kept(u), NEW s \in Sweeps, MD!RemoveObject(s)
    PROVE  MD!Kept(u)'
<1> DEFINE r == [sweeps[s] EXCEPT !.pc = "purging"]
<1>1. sweeps[s].pc = "removing" /\ sweeps[s].pc # "idle"
  BY DEF MD!RemoveObject
<1>2. r \in SweepType /\ r.pc = "purging" /\ r.file = sweeps[s].file
  BY <1>1, SweepFacts DEF SweepType
<1>3. u \notin uploads /\ sweeps' = [sweeps EXCEPT ![s] = r]
  BY <1>1 DEF MD!RemoveObject, MD!Kept, MD!UploadIsOver
<1>4. u \notin uploads' /\ uploads' = uploads /\ object' = FALSE
  BY <1>3 DEF MD!RemoveObject
<1>5. UNCHANGED <<fileRow, aged, numbered, expired, calls, failures>>
  BY DEF MD!RemoveObject
<1>6. /\ sweeps[s].file.upload = u /\ u # 0 /\ (aged \/ expired)
      /\ expired \/ fileRow.past \/ fileRow.deleted \/ fileRow.status # "pending"
  BY <1>1, SweepFacts
<1> HIDE DEF r
<1> QED BY <1>1, <1>2, <1>3, <1>4, <1>5, <1>6, SweepMoves

LEMMA SweepFailsStep ==
    ASSUME MD!MediaAssumption, NEW u \in Nat, MD!Kept(u), NEW s \in Sweeps, MD!SweepFails(s)
    PROVE  MD!Kept(u)'
BY Nothings, SweepMoves DEF MD!SweepFails

\* The row goes, whatever it has become, and its object went before it.
LEMMA PurgeRowStep ==
    ASSUME MD!MediaAssumption, NEW u \in Nat, MD!Kept(u), NEW s \in Sweeps, MD!PurgeRow(s)
    PROVE  MD!Kept(u)'
<1>1. sweeps[s].pc = "purging" /\ sweeps[s].pc # "idle"
  BY DEF MD!PurgeRow
<1>2. u # 0 /\ (aged \/ expired) /\ ~object /\ u \notin uploads
  BY <1>1, SweepFacts DEF MD!Kept, MD!ObjectIsOver, MD!UploadIsOver
<1>3. /\ fileRow' = MD!NoRow /\ fileRow'.status = "none" /\ ~fileRow'.past /\ ~MD!IsRow'
      /\ UNCHANGED <<aged, uploads, numbered, object, expired, calls, failures>>
  BY Nothings DEF MD!PurgeRow, MD!IsRow
<1>4. /\ sweeps' \in [Sweeps -> SweepType] /\ sweeps'[s] = MD!NoSweep
      /\ \A w \in Sweeps \ {s} : sweeps'[w] = sweeps[w]
  BY MediaTypes, Nothings DEF MD!Kept, MD!PurgeRow
<1>5. MD!TypeOK'
  BY <1>3, <1>4, MediaTypes, TypesAgain, Nothings DEF MD!Kept
<1>6. MD!StartsAreOwn' /\ MD!UploadStays'
  BY <1>3 DEF MD!Kept, MD!StartsAreOwn, MD!UploadStays
<1>7. MD!SweepsAreDue'
  BY <1>3, <1>4, Nothings DEF MD!Kept, MD!SweepsAreDue
<1>8. MD!NamesOnly(u)'
  BY <1>2, <1>3, <1>4, Nothings DEF MD!Kept, MD!NamesOnly
<1>9. MD!UploadIsOver(u)' /\ MD!ObjectIsOver(u)'
  BY <1>2, <1>3, <1>4, Nothings DEF MD!UploadIsOver, MD!ObjectIsOver
<1> QED BY <1>5, <1>6, <1>7, <1>8, <1>9 DEF MD!Kept

-----------------------------------------------------------------------------
(* Time.                                                                   *)

LEMMA AgesStep ==
    ASSUME MD!MediaAssumption, NEW u \in Nat, MD!Kept(u), MD!Ages
    PROVE  MD!Kept(u)'
<1>1. fileRow' = [fileRow EXCEPT !.past = TRUE] /\ aged' = TRUE /\ MD!IsRow
      /\ UNCHANGED <<uploads, numbered, object, expired, calls, sweeps, failures>>
      /\ \A c \in Calls : calls[c].pc \notin MD!Starting
  BY DEF MD!Ages, MD!Starting
<1>2. fileRow \in MD!Row
  BY MediaTypes DEF MD!Kept
<1>3. /\ fileRow' \in MD!Row /\ fileRow'.past /\ fileRow'.status = fileRow.status /\ fileRow'.upload = fileRow.upload
      /\ fileRow'.deleted = fileRow.deleted
  BY <1>1, <1>2 DEF MD!Row
<1>4. MD!TypeOK'
  BY <1>1, <1>3, MediaTypes, TypesAgain DEF MD!Kept
<1>5. MD!StartsAreOwn' /\ MD!UploadStays'
  BY <1>1, <1>3 DEF MD!StartsAreOwn, MD!UploadStays
<1>6. MD!SweepsAreDue' /\ MD!NamesOnly(u)'
  BY <1>1, <1>3 DEF MD!Kept, MD!SweepsAreDue, MD!NamesOnly, MD!IsRow
<1>7. MD!UploadIsOver(u)' /\ MD!ObjectIsOver(u)'
  BY <1>1, <1>3 DEF MD!Kept, MD!UploadIsOver, MD!ObjectIsOver, MD!IsRow
<1> QED BY <1>4, <1>5, <1>6, <1>7 DEF MD!Kept

LEMMA ExpireStep ==
    ASSUME MD!MediaAssumption, NEW u \in Nat, MD!Kept(u), MD!Expire
    PROVE  MD!Kept(u)'
<1>1. expired' = TRUE /\ UNCHANGED <<fileRow, aged, uploads, numbered, object, calls, sweeps, failures>>
  BY DEF MD!Expire
<1>2. \A c \in Calls : calls[c].pc \notin MD!Starting
  BY Nothings DEF MD!Expire, MD!Starting
<1>3. MD!TypeOK'
  BY <1>1, MediaTypes, TypesAgain DEF MD!Kept
<1>4. MD!StartsAreOwn' /\ MD!UploadStays'
  BY <1>1, <1>2 DEF MD!StartsAreOwn, MD!UploadStays
<1>5. MD!SweepsAreDue' /\ MD!NamesOnly(u)' /\ MD!UploadIsOver(u)' /\ MD!ObjectIsOver(u)'
  BY <1>1 DEF MD!Kept, MD!SweepsAreDue, MD!NamesOnly, MD!UploadIsOver, MD!ObjectIsOver, MD!IsRow
<1> QED BY <1>3, <1>4, <1>5 DEF MD!Kept

-----------------------------------------------------------------------------
LEMMA InitIsKept ==
    ASSUME MD!MediaAssumption, MD!Init
    PROVE  MD!IInv
<1>1. MD!TypeOK
  <2>1. {aged, object, expired} \subseteq BOOLEAN
    BY Zenon DEF MD!Init
  <2>2. numbered \in 0..MaxUploads /\ failures \in 0..MaxFailures /\ uploads \subseteq 1..numbered
    BY DEF MD!Init, MD!MediaAssumption
  <2> QED BY <2>1, <2>2, Nothings DEF MD!Init, MD!TypeOK, CallType, SweepType
<1>2. MD!StartsAreOwn /\ MD!SweepsAreDue /\ MD!UploadStays
  BY Nothings DEF MD!Init, MD!StartsAreOwn, MD!SweepsAreDue, MD!UploadStays, MD!Starting
<1>3. 0 \in 0..numbered /\ 0 \in 0..MaxUploads
  BY DEF MD!Init, MD!MediaAssumption
<1>4. MD!NamesOnly(0) /\ MD!UploadIsOver(0) /\ MD!ObjectIsOver(0)
  BY <1>3, Nothings
     DEF MD!Init, MD!NamesOnly, MD!UploadIsOver, MD!ObjectIsOver, MD!HoldsStored, MD!IsRow, MD!Starting, MD!Holding
<1> QED BY <1>1, <1>2, <1>3, <1>4 DEF MD!IInv, MD!Kept

LEMMA NextIsKept ==
    ASSUME MD!MediaAssumption, MD!IInv, [MD!Next]_(MD!vars)
    PROVE  MD!IInv'
<1>1. PICK u \in 0..MaxUploads : MD!Kept(u)
  BY DEF MD!IInv
<1>2. u \in Nat
  BY DEF MD!MediaAssumption
<1>3. ASSUME MD!Kept(u)' PROVE MD!IInv'
  BY <1>3 DEF MD!IInv
<1>4. CASE UNCHANGED MD!vars
  BY <1>1, <1>3, <1>4
     DEF MD!vars, MD!Kept, MD!TypeOK, MD!StartsAreOwn, MD!SweepsAreDue, MD!UploadStays, MD!NamesOnly, MD!UploadIsOver,
         MD!ObjectIsOver, MD!HoldsStored, MD!IsRow
<1>5. ASSUME NEW c \in Calls,
             \/ MD!StartUpload(c) \/ MD!CreateFile(c) \/ MD!AbortOwn(c)
             \/ MD!BeginConfirm(c) \/ MD!CompleteUpload(c) \/ MD!ConfirmWrite(c)
             \/ MD!BeginDelete(c) \/ MD!DeleteWrite(c) \/ MD!CallDies(c)
      PROVE  MD!IInv'
  BY <1>1, <1>2, <1>3, <1>5, StartUploadStep, CreateFileStep, AbortOwnStep, BeginStep,
     CompleteUploadStep, WriteStep, CallDiesStep
<1>6. ASSUME NEW s \in Sweeps,
             \/ MD!SweepReads(s) \/ MD!AbortUpload(s) \/ MD!RemoveObject(s) \/ MD!PurgeRow(s) \/ MD!SweepFails(s)
      PROVE  MD!IInv'
  BY <1>1, <1>2, <1>3, <1>6, SweepReadsStep, AbortUploadStep, RemoveObjectStep, PurgeRowStep,
     SweepFailsStep
<1>7. CASE MD!Ages \/ MD!Expire \/ MD!LifecycleAborts
  BY <1>1, <1>2, <1>3, <1>7, AgesStep, ExpireStep, LifecycleStep
<1> QED BY <1>4, <1>5, <1>6, <1>7 DEF MD!Next

\* The requests and the sweeps of media/impl/manager.py keep what IInv says of the
\* one upload a file's row is written for.
THEOREM MediaInvariant ==
    ASSUME MD!MediaAssumption
    PROVE  MD!Spec => []MD!IInv
BY InitIsKept, NextIsKept, PTL DEF MD!Spec

\* An object in the store has a row, and a file that may still be finished has its
\* upload or its object, whatever crosses, fails or dies between the calls to the
\* store and the row's writes (create_file, confirm_file, delete_file,
\* _remove_object, purge).
THEOREM StoreFollows ==
    ASSUME MD!MediaAssumption
    PROVE  MD!Spec => []MD!StoreFollowsRows
<1>1. MD!IInv => MD!StoreFollowsRows
  BY DEF MD!IInv, MD!Kept, MD!ObjectIsOver, MD!StoreFollowsRows, MD!ObjectIsNamed
<1> QED BY <1>1, MediaInvariant, PTL

-----------------------------------------------------------------------------
\* The sockets.

Pcs == {"idle", "closed"} \cup SK!Opening \cup SK!Serving
SocketType ==
    [pc : Pcs, since : SK!Times, role : {"none", "role", "other"}, due : SK!Times, nudged : BOOLEAN,
     lost : [SK!Whats -> SK!Times \cup {SK!Never}], told : SK!Times \cup {SK!Never}]

LEMMA Numbers ==
    ASSUME SK!SocketsAssumption
    PROVE  /\ TicketTtl \in Nat /\ Expiry \in Nat /\ Interval \in Nat /\ Delay \in Nat
           /\ MaxNow \in Nat /\ Delay > 0 /\ Delay <= Interval
           /\ SK!Times \subseteq Nat /\ 0..MaxNow \subseteq SK!Times
<1>1. TicketTtl \in Nat /\ Expiry \in Nat /\ Interval \in Nat /\ Delay \in Nat /\ MaxNow \in Nat
  BY Zenon DEF SK!SocketsAssumption
<1> QED BY <1>1 DEF SK!SocketsAssumption, SK!Times

\* The types one at a time.
LEMMA Types ==
    ASSUME SK!TypeOK, SK!SocketsAssumption
    PROVE  /\ kind \in Kinds /\ redeemed \in BOOLEAN /\ live \in BOOLEAN /\ plan \in BOOLEAN
           /\ member \in {"role", "other", "ended"}
           /\ bus \subseteq {"credential", "membership", "user", "account"}
           /\ sockets \in [Openers -> SocketType]
           /\ now \in 0..MaxNow /\ now \in Nat
<1>1. redeemed \in BOOLEAN /\ live \in BOOLEAN /\ plan \in BOOLEAN
  BY Zenon DEF SK!TypeOK
<1> QED BY <1>1, Numbers DEF SK!TypeOK, SocketType, Pcs

LEMMA SocketTypesAgain ==
    ASSUME kind' \in Kinds, redeemed' \in BOOLEAN, live' \in BOOLEAN, plan' \in BOOLEAN,
           member' \in {"role", "other", "ended"},
           bus' \subseteq {"credential", "membership", "user", "account"},
           sockets' \in [Openers -> SocketType], now' \in 0..MaxNow
    PROVE  SK!TypeOK'
<1>1. {redeemed', live', plan'} \subseteq BOOLEAN
  BY Zenon
<1> QED BY <1>1 DEF SK!TypeOK, SocketType, Pcs

\* The fields of a socket.
LEMMA Fields ==
    ASSUME SK!SocketsAssumption, NEW s \in SocketType
    PROVE  /\ s.pc \in Pcs /\ s.since \in Nat /\ s.due \in Nat
           /\ \A w \in SK!Whats : s.lost[w] # SK!Never => s.lost[w] \in Nat
           /\ s.told # SK!Never => s.told \in Nat
BY Numbers DEF SocketType

\* What each part of the authority is lost to.
LEMMA LossesAre ==
    ASSUME NEW s, NEW l, NEW m, NEW p
    PROVE  /\ "credential" \in SK!Losses(s, l, m, p) <=> s.pc \in SK!Attached \cup {"found"} /\ ~l
           /\ "rights" \in SK!Losses(s, l, m, p) <=> s.pc \in SK!Attached /\ m # s.role
           /\ "plan" \in SK!Losses(s, l, m, p) <=> s.pc \in SK!Attached /\ kind = "key" /\ ~p
BY DEF SK!Losses, SK!Whats

\* The steps of a socket, by where it is.
LEMMA Places ==
    /\ SK!Opening = {"redeemed", "found", "attached"} /\ SK!Checking = {"checking", "known"}
    /\ SK!Serving = {"checking", "known", "waiting"}
    /\ SK!Attached = {"checking", "known", "waiting", "attached"}
BY DEF SK!Opening, SK!Checking, SK!Serving, SK!Attached

\* A socket that is not there, before or after.
LEMMA NoSocketIsRight ==
    ASSUME SK!SocketsAssumption
    PROVE  /\ SK!NoSocket \in SocketType /\ SK!NoSocket.pc = "idle" /\ SK!Right(SK!NoSocket)
           /\ \A s : SK!Closed(s) \in SocketType /\ SK!Closed(s).pc = "closed" /\ SK!Right(SK!Closed(s))
<1>1. 0 \in SK!Times /\ SK!Never \in SK!Times \cup {SK!Never}
  BY Numbers
<1>2. [w \in SK!Whats |-> SK!Never] \in [SK!Whats -> SK!Times \cup {SK!Never}]
  OBVIOUS
<1> DEFINE none == [w \in SK!Whats |-> SK!Never]
<1>3. \A w \in SK!Whats : none[w] = SK!Never
  OBVIOUS
<1>4. SK!NoSocket = [pc |-> "idle", since |-> 0, role |-> "none", due |-> 0, nudged |-> FALSE,
                     lost |-> none, told |-> SK!Never]
  BY DEF SK!NoSocket
<1>5. \A s : SK!Closed(s) = [SK!NoSocket EXCEPT !.pc = "closed"]
  BY DEF SK!Closed
<1> HIDE DEF none
<1>6. SK!NoSocket \in SocketType /\ SK!NoSocket.pc = "idle" /\ SK!NoSocket.lost = none /\ SK!NoSocket.told = SK!Never
  BY <1>1, <1>2, <1>4 DEF SocketType, Pcs, none
<1> DEFINE gone == [SK!NoSocket EXCEPT !.pc = "closed"]
<1>7. gone \in SocketType /\ gone.pc = "closed" /\ gone.lost = none /\ gone.told = SK!Never
  BY <1>6 DEF SocketType, Pcs
<1> HIDE DEF gone
<1>8. ASSUME NEW s, s.pc \in {"idle", "closed"}, s.lost = none, s.told = SK!Never
      PROVE  SK!Right(s)
  <2>1. SK!LostIsLost(s)
    <3> SUFFICES ASSUME NEW w \in SK!Whats PROVE w \notin SK!Losses(s, live, member, plan)
      BY <1>3, <1>8 DEF SK!LostIsLost
    <3>1. w \in {"credential", "rights", "plan"}
      BY DEF SK!Whats
    <3> QED BY <1>8, <3>1, LossesAre, Places
  <2>2. SK!IsOnTime(s) /\ SK!ExpiryIsSeen(s)
    BY <1>8, Places DEF SK!IsOnTime, SK!ExpiryIsSeen
  <2>3. SK!LossIsSeen(s) /\ SK!TellingIsSeen(s)
    BY <1>3, <1>8 DEF SK!LossIsSeen, SK!TellingIsSeen
  <2> QED BY <2>1, <2>2, <2>3 DEF SK!Right
<1>9. SK!Right(SK!NoSocket) /\ SK!Right(gone)
  BY <1>6, <1>7, <1>8
<1> QED BY <1>5, <1>6, <1>7, <1>9 DEF gone

-----------------------------------------------------------------------------
(* One socket moves.                                                       *)

LEMMA SocketMoves ==
    ASSUME SK!SocketsAssumption, SK!IInv, NEW c \in Openers, NEW s \in SocketType, SK!Right(s),
           SK!Moves(c, s), UNCHANGED <<SK!authority, bus, now>>,
           redeemed' \in BOOLEAN, redeemed => redeemed',
           s.pc \in SK!Opening \cup SK!Serving =>
               /\ redeemed'
               /\ sockets[c].pc \in SK!Opening \cup SK!Serving \/ ~redeemed
    PROVE  SK!IInv'
<1>1. UNCHANGED <<kind, live, member, plan, bus, now>>
  BY DEF SK!authority
<1>2. /\ sockets' \in [Openers -> SocketType] /\ sockets'[c] = s
      /\ \A d \in Openers \ {c} : sockets'[d] = sockets[d]
  BY Types DEF SK!IInv, SK!Moves
<1>3. SK!TypeOK'
  BY <1>1, <1>2, Types, SocketTypesAgain DEF SK!IInv
<1>4. SK!OneIsIn'
  BY <1>2 DEF SK!IInv, SK!OneIsIn
<1>5. ASSUME NEW d \in Openers PROVE SK!Right(sockets[d])'
  <2>1. sockets'[d] = IF d = c THEN s ELSE sockets[d]
    BY <1>2
  <2>2. SK!Right(IF d = c THEN s ELSE sockets[d])
    BY DEF SK!IInv
  <2> DEFINE x == IF d = c THEN s ELSE sockets[d]
  <2>3. sockets'[d] = x /\ SK!Right(x)
    BY <2>1, <2>2
  <2> HIDE DEF x
  <2>4. SK!LostIsLost(sockets[d])'
    BY <1>1, <2>3 DEF SK!Right, SK!LostIsLost, SK!Losses
  <2>5. SK!IsOnTime(sockets[d])' /\ SK!LossIsSeen(sockets[d])'
    BY <1>1, <2>3 DEF SK!Right, SK!IsOnTime, SK!LossIsSeen
  <2>6. SK!TellingIsSeen(sockets[d])' /\ SK!ExpiryIsSeen(sockets[d])'
    BY <1>1, <2>3 DEF SK!Right, SK!TellingIsSeen, SK!ExpiryIsSeen
  <2> QED BY <2>4, <2>5, <2>6 DEF SK!Right
<1> QED BY <1>3, <1>4, <1>5 DEF SK!IInv

\* One that closes, or is not let in.
LEMMA Ended ==
    ASSUME SK!SocketsAssumption, SK!IInv, NEW c \in Openers, SK!Ends(c), UNCHANGED <<SK!authority, bus, now>>,
           redeemed' \in BOOLEAN, redeemed => redeemed'
    PROVE  SK!IInv'
<1>1. /\ SK!Closed(sockets[c]) \in SocketType /\ SK!Closed(sockets[c]).pc = "closed"
      /\ SK!Right(SK!Closed(sockets[c]))
  BY NoSocketIsRight
<1>2. PICK s \in SocketType : s = SK!Closed(sockets[c])
  BY <1>1
<1>3. s.pc = "closed" /\ SK!Right(s) /\ SK!Moves(c, s)
  BY <1>1, <1>2 DEF SK!Ends, SK!Moves
<1> QED BY <1>3, SocketMoves, Places

\* Where the storage was asked for the credential.
LEMMA RedeemStep ==
    ASSUME SK!SocketsAssumption, SK!IInv, NEW c \in Openers, SK!Redeem(c)
    PROVE  SK!IInv'
<1>1. redeemed' = TRUE /\ UNCHANGED <<SK!authority, bus, now>> /\ sockets[c].pc = "idle"
  BY DEF SK!Redeem
<1>2. CASE redeemed
  BY <1>1, <1>2, Ended DEF SK!Redeem
<1>3. CASE ~redeemed
  <2>1. sockets[c] \in SocketType /\ now \in SK!Times /\ now \in Nat /\ SK!Right(sockets[c])
    BY Types, Numbers DEF SK!IInv
  <2> DEFINE begun == [sockets[c] EXCEPT !.pc = "redeemed"]
  <2>2. begun \in SocketType /\ begun.pc = "redeemed"
        /\ begun.lost = sockets[c].lost /\ begun.told = sockets[c].told
    BY <2>1, Places DEF SocketType, Pcs
  <2> DEFINE after == [begun EXCEPT !.since = now]
  <2>3. SK!Moves(c, after)
    BY <1>3 DEF SK!Redeem
  <2> HIDE DEF begun
  <2>4. /\ after \in SocketType /\ after.pc = "redeemed" /\ after.since = now
        /\ after.lost = sockets[c].lost /\ after.told = sockets[c].told
    BY <2>1, <2>2 DEF SocketType
  <2> HIDE DEF after
  <2>5. PICK s \in SocketType : s = after
    BY <2>4
  <2>6. \A w \in SK!Whats : s.lost[w] = SK!Never
    <3> SUFFICES ASSUME NEW w \in SK!Whats, s.lost[w] # SK!Never PROVE FALSE
      OBVIOUS
    <3>1. w \in SK!Losses(sockets[c], live, member, plan)
      BY <2>1, <2>4, <2>5 DEF SK!Right, SK!LostIsLost
    <3>2. w \in {"credential", "rights", "plan"}
      BY DEF SK!Whats
    <3> QED BY <1>1, <3>1, <3>2, LossesAre, Places
  <2>7. s.told = SK!Never
    BY <1>1, <2>1, <2>4, <2>5, Places DEF SK!Right, SK!TellingIsSeen
  <2>8. SK!LostIsLost(s)
    <3> SUFFICES ASSUME NEW w \in SK!Whats PROVE w \notin SK!Losses(s, live, member, plan)
      BY <2>6 DEF SK!LostIsLost
    <3>2. w \in {"credential", "rights", "plan"}
      BY DEF SK!Whats
    <3> QED BY <2>4, <2>5, <3>2, LossesAre, Places
  <2>9. SK!IsOnTime(s) /\ SK!ExpiryIsSeen(s)
    BY <2>1, <2>4, <2>5, Numbers, Places DEF SK!IsOnTime, SK!ExpiryIsSeen
  <2>10. SK!LossIsSeen(s) /\ SK!TellingIsSeen(s)
    BY <2>6, <2>7 DEF SK!LossIsSeen, SK!TellingIsSeen
  <2>11. SK!Right(s) /\ SK!Moves(c, s)
    BY <2>3, <2>5, <2>8, <2>9, <2>10 DEF SK!Right
  <2> QED BY <1>1, <1>3, <2>11, SocketMoves
<1> QED BY <1>2, <1>3

\* One that is in and goes on has lost what it had lost.
LEMMA GoesOn ==
    ASSUME SK!SocketsAssumption, SK!IInv, NEW c \in Openers, NEW s \in SocketType,
           s.lost = sockets[c].lost, s.told = sockets[c].told,
           \A w \in SK!Whats : w \in SK!Losses(s, live, member, plan)
                               <=> w \in SK!Losses(sockets[c], live, member, plan),
           SK!IsOnTime(s), SK!LossIsSeen(s), SK!TellingIsSeen(s), SK!ExpiryIsSeen(s),
           SK!Moves(c, s), UNCHANGED <<SK!authority, redeemed, bus, now>>,
           sockets[c].pc \in SK!Opening \cup SK!Serving
    PROVE  SK!IInv'
<1>1. SK!Right(sockets[c]) /\ redeemed \in BOOLEAN /\ redeemed
  BY Types DEF SK!IInv, SK!OneIsIn
<1>2. SK!LostIsLost(s)
  BY <1>1 DEF SK!Right, SK!LostIsLost
<1>3. SK!Right(s)
  BY <1>2 DEF SK!Right
<1>4. redeemed' = redeemed /\ UNCHANGED <<SK!authority, bus, now>>
  OBVIOUS
<1> QED BY <1>1, <1>3, <1>4, SocketMoves

\* What is known of a socket before it moves.
LEMMA Before ==
    ASSUME SK!SocketsAssumption, SK!IInv, NEW c \in Openers
    PROVE  /\ sockets[c] \in SocketType /\ now \in Nat /\ now \in SK!Times /\ now <= MaxNow
           /\ live \in BOOLEAN /\ plan \in BOOLEAN /\ member \in {"role", "other", "ended"}
           /\ SK!LostIsLost(sockets[c]) /\ SK!IsOnTime(sockets[c]) /\ SK!LossIsSeen(sockets[c])
           /\ SK!TellingIsSeen(sockets[c]) /\ SK!ExpiryIsSeen(sockets[c])
BY Types, Numbers DEF SK!IInv, SK!Right

\* It had lost nothing of what it had not read.
LEMMA NothingLost ==
    ASSUME SK!SocketsAssumption, SK!IInv, NEW c \in Openers
    PROVE  \A w \in SK!Whats : w \notin SK!Losses(sockets[c], live, member, plan)
                               => sockets[c].lost[w] = SK!Never
BY Before DEF SK!LostIsLost

LEMMA FindCredentialStep ==
    ASSUME SK!SocketsAssumption, SK!IInv, NEW c \in Openers, SK!FindCredential(c)
    PROVE  SK!IInv'
<1>1. sockets[c].pc = "redeemed" /\ UNCHANGED <<SK!authority, redeemed, bus, now>>
  BY DEF SK!FindCredential
<1>2. CASE ~(sockets[c].since < TicketTtl /\ SK!CredentialHolds)
  <2>1. SK!Ends(c) /\ redeemed' \in BOOLEAN /\ (redeemed => redeemed')
    BY <1>1, <1>2, Types DEF SK!FindCredential, SK!IInv
  <2> QED BY <1>1, <2>1, Ended
<1>3. CASE sockets[c].since < TicketTtl /\ SK!CredentialHolds
  <2> DEFINE after == [sockets[c] EXCEPT !.pc = "found"]
  <2>1. SK!Moves(c, after)
    BY <1>3 DEF SK!FindCredential
  <2>2. after \in SocketType /\ after.pc = "found" /\ after.since = sockets[c].since
        /\ after.lost = sockets[c].lost /\ after.told = sockets[c].told
    BY Before, Places DEF SocketType, Pcs
  <2> HIDE DEF after
  <2>3. PICK s \in SocketType : s = after
    BY <2>2
  <2>4. \A w \in SK!Whats : w \notin SK!Losses(s, live, member, plan)
                            /\ w \notin SK!Losses(sockets[c], live, member, plan)
    <3> SUFFICES ASSUME NEW w \in SK!Whats
                 PROVE  w \notin SK!Losses(s, live, member, plan)
                        /\ w \notin SK!Losses(sockets[c], live, member, plan)
      OBVIOUS
    <3>1. w \in {"credential", "rights", "plan"}
      BY DEF SK!Whats
    <3>2. s.pc = "found"
      BY <2>2, <2>3
    <3>3. w \in SK!Losses(s, live, member, plan) <=> w = "credential" /\ ~live
      BY <3>1, <3>2, LossesAre, Places
    <3>5. live
      BY <1>3 DEF SK!CredentialHolds
    <3>4. w \notin SK!Losses(sockets[c], live, member, plan)
      BY <1>1, <3>1, LossesAre, Places
    <3> QED BY <3>3, <3>4, <3>5
  <2>5. /\ \A w \in SK!Whats : s.lost[w] = SK!Never
        /\ s.told = SK!Never
    BY <1>1, <2>2, <2>3, <2>4, NothingLost, Before, Places DEF SK!TellingIsSeen
  <2>6. SK!IsOnTime(s) /\ SK!ExpiryIsSeen(s)
    <3>1. s.since = sockets[c].since /\ s.pc = "found" /\ s.since \in Nat
      BY <2>2, <2>3, Fields
    <3>2. s.since <= now /\ now <= s.since + Delay /\ now < Expiry
      BY <1>1, <1>3, <3>1, Before, Places DEF SK!IsOnTime, SK!CredentialHolds
    <3> QED BY <3>1, <3>2, Before, Numbers, Places DEF SK!IsOnTime, SK!ExpiryIsSeen
  <2>7. SK!LossIsSeen(s) /\ SK!TellingIsSeen(s)
    BY <2>5 DEF SK!LossIsSeen, SK!TellingIsSeen
  <2>8. SK!Moves(c, s) /\ s.lost = sockets[c].lost /\ s.told = sockets[c].told
        /\ sockets[c].pc \in SK!Opening \cup SK!Serving
    BY <1>1, <2>1, <2>2, <2>3, Places
  <2> QED BY <1>1, <2>4, <2>6, <2>7, <2>8, GoesOn
<1> QED BY <1>2, <1>3

LEMMA FindPrincipalStep ==
    ASSUME SK!SocketsAssumption, SK!IInv, NEW c \in Openers, SK!FindPrincipal(c)
    PROVE  SK!IInv'
<1>1. sockets[c].pc = "found" /\ UNCHANGED <<SK!authority, redeemed, bus, now>>
  BY DEF SK!FindPrincipal
<1>2. CASE ~SK!PrincipalHolds
  <2>1. SK!Ends(c) /\ redeemed' \in BOOLEAN /\ (redeemed => redeemed')
    BY <1>1, <1>2, Types DEF SK!FindPrincipal, SK!IInv
  <2> QED BY <1>1, <2>1, Ended
<1>3. CASE SK!PrincipalHolds
  <2> DEFINE in == [sockets[c] EXCEPT !.pc = "attached"]
  <2>1. in \in SocketType /\ in.pc = "attached" /\ in.since = sockets[c].since
        /\ in.lost = sockets[c].lost /\ in.told = sockets[c].told
    BY Before, Places DEF SocketType, Pcs
  <2> DEFINE after == [in EXCEPT !.role = member]
  <2>2. SK!Moves(c, after)
    BY <1>3 DEF SK!FindPrincipal
  <2>3. member \in {"role", "other"}
    BY <1>3, Before DEF SK!PrincipalHolds
  <2> HIDE DEF in
  <2>4. after \in SocketType /\ after.pc = "attached" /\ after.since = sockets[c].since
        /\ after.lost = sockets[c].lost /\ after.told = sockets[c].told /\ after.role = member
    BY <2>1, <2>3 DEF SocketType
  <2> HIDE DEF after
  <2>5. PICK s \in SocketType : s = after
    BY <2>4
  <2>6. \A w \in SK!Whats : /\ w \in SK!Losses(s, live, member, plan) <=> w = "credential" /\ ~live
                            /\ w \in SK!Losses(sockets[c], live, member, plan)
                               <=> w = "credential" /\ ~live
    <3> SUFFICES ASSUME NEW w \in SK!Whats
                 PROVE  /\ w \in SK!Losses(s, live, member, plan) <=> w = "credential" /\ ~live
                        /\ w \in SK!Losses(sockets[c], live, member, plan)
                           <=> w = "credential" /\ ~live
      OBVIOUS
    <3>1. w \in {"credential", "rights", "plan"}
      BY DEF SK!Whats
    <3>2. s.pc = "attached" /\ s.role = member /\ ~(kind = "key" /\ ~plan)
      BY <1>3, <2>4, <2>5 DEF SK!PrincipalHolds, SK!Allowed
    <3> QED BY <1>1, <3>1, <3>2, LossesAre, Places
  <2>7. s.told = SK!Never
    BY <1>1, <2>4, <2>5, Before, Places DEF SK!TellingIsSeen
  <2>8. s.since = sockets[c].since /\ s.pc = "attached" /\ s.since \in Nat
        /\ s.lost = sockets[c].lost
    BY <2>4, <2>5, Fields
  <2>9. SK!IsOnTime(s) /\ SK!ExpiryIsSeen(s)
    <3>1. s.since <= now /\ now <= s.since + Delay /\ s.since < Expiry
      BY <1>1, <2>8, Before, Places DEF SK!IsOnTime, SK!ExpiryIsSeen
    <3> QED BY <3>1, <2>8, Before, Numbers, Places DEF SK!IsOnTime, SK!ExpiryIsSeen
  <2>10. SK!LossIsSeen(s)
    BY <1>1, <2>8, Before, Places DEF SK!LossIsSeen
  <2>11. SK!TellingIsSeen(s)
    BY <2>7 DEF SK!TellingIsSeen
  <2>12. SK!Moves(c, s) /\ s.lost = sockets[c].lost /\ s.told = sockets[c].told
        /\ sockets[c].pc \in SK!Opening \cup SK!Serving
    BY <1>1, <2>2, <2>4, <2>5, Places
  <2> QED BY <1>1, <2>6, <2>9, <2>10, <2>11, <2>12, GoesOn
<1> QED BY <1>2, <1>3

\* A socket that has read all of its authority loses the same wherever it goes.
LEMMA SameLosses ==
    ASSUME NEW s, NEW r, s.role = r.role, s.pc \in SK!Attached, r.pc \in SK!Attached
    PROVE  \A w \in SK!Whats : w \in SK!Losses(s, live, member, plan)
                               <=> w \in SK!Losses(r, live, member, plan)
<1> SUFFICES ASSUME NEW w \in SK!Whats
             PROVE  w \in SK!Losses(s, live, member, plan) <=> w \in SK!Losses(r, live, member, plan)
  OBVIOUS
<1>1. w \in {"credential", "rights", "plan"}
  BY DEF SK!Whats
<1> QED BY <1>1, LossesAre

LEMMA StartsStep ==
    ASSUME SK!SocketsAssumption, SK!IInv, NEW c \in Openers, SK!Starts(c)
    PROVE  SK!IInv'
<1>1. sockets[c].pc = "attached" /\ UNCHANGED <<SK!authority, redeemed, bus, now>>
  BY DEF SK!Starts
<1>2. PICK due \in now..(now + Interval) :
         SK!Moves(c, [sockets[c] EXCEPT !.pc = "waiting", !.due = due])
  BY DEF SK!Starts
<1> DEFINE ready == [sockets[c] EXCEPT !.pc = "waiting"]
<1>3. ready \in SocketType /\ ready.pc = "waiting" /\ ready.since = sockets[c].since
      /\ ready.lost = sockets[c].lost /\ ready.told = sockets[c].told
      /\ ready.role = sockets[c].role /\ ready.nudged = sockets[c].nudged
  BY Before, Places DEF SocketType, Pcs
<1> DEFINE after == [ready EXCEPT !.due = due]
<1>4. SK!Moves(c, after)
  BY <1>2
<1>5. due \in Nat /\ due \in SK!Times /\ now <= due /\ due <= now + Interval
  BY Before, Numbers DEF SK!Times
<1> HIDE DEF ready
<1>6. /\ after \in SocketType /\ after.pc = "waiting" /\ after.since = sockets[c].since
      /\ after.lost = sockets[c].lost /\ after.told = sockets[c].told
      /\ after.role = sockets[c].role /\ after.nudged = sockets[c].nudged /\ after.due = due
  BY <1>3, <1>5 DEF SocketType
<1> HIDE DEF after
<1>7. PICK s \in SocketType : s = after
  BY <1>6
<1>8. s.pc \in SK!Attached /\ sockets[c].pc \in SK!Attached
      /\ s.pc \notin SK!Opening /\ s.pc \notin SK!Checking
  BY <1>1, <1>6, <1>7, Places
<1>9. \A w \in SK!Whats : w \in SK!Losses(s, live, member, plan)
                          <=> w \in SK!Losses(sockets[c], live, member, plan)
  BY <1>6, <1>7, <1>8, SameLosses
<1>10. /\ sockets[c].since \in Nat /\ sockets[c].since <= now /\ now <= sockets[c].since + Delay
       /\ sockets[c].since < Expiry
  BY <1>1, Before, Fields, Places DEF SK!IsOnTime, SK!ExpiryIsSeen
<1>11. SK!IsOnTime(s) /\ SK!ExpiryIsSeen(s)
  BY <1>5, <1>6, <1>7, <1>8, <1>10, Before, Numbers DEF SK!IsOnTime, SK!ExpiryIsSeen
<1>12. SK!LossIsSeen(s)
  <2> SUFFICES ASSUME NEW w \in SK!Whats, s.lost[w] # SK!Never
               PROVE  s.lost[w] <= now /\ s.due <= s.lost[w] + Interval + Delay
    BY <1>6, <1>7, <1>8 DEF SK!LossIsSeen
  <2>1. s.lost[w] \in Nat /\ s.lost[w] = sockets[c].lost[w]
    BY <1>6, <1>7, Fields
  <2>2. sockets[c].since <= s.lost[w] /\ s.lost[w] <= now
    BY <1>1, <2>1, Before, Places DEF SK!LossIsSeen
  <2>3. s.due \in Nat /\ s.due <= now + Interval
    BY <1>5, <1>6, <1>7
  <2> QED BY <1>10, <2>1, <2>2, <2>3, Before, Numbers
<1>13. SK!TellingIsSeen(s)
  <2> SUFFICES ASSUME s.told # SK!Never PROVE SK!TellingIsSeen(s)
    BY DEF SK!TellingIsSeen
  <2>1. s.told \in Nat /\ s.told = sockets[c].told
    BY <1>6, <1>7, Fields
  <2>2. /\ kind = "key" /\ ~plan /\ s.told <= now /\ sockets[c].nudged
        /\ sockets[c].since <= s.told
    BY <1>1, <2>1, Before DEF SK!TellingIsSeen
  <2>3. now <= s.told + Delay
    BY <1>10, <2>1, <2>2, Before, Numbers
  <2> QED BY <1>6, <1>7, <1>8, <2>2, <2>3 DEF SK!TellingIsSeen
<1>14. SK!Moves(c, s) /\ s.lost = sockets[c].lost /\ s.told = sockets[c].told
       /\ sockets[c].pc \in SK!Opening \cup SK!Serving
  BY <1>1, <1>4, <1>6, <1>7, Places
<1> QED BY <1>1, <1>9, <1>11, <1>12, <1>13, <1>14, GoesOn

LEMMA StartCheckStep ==
    ASSUME SK!SocketsAssumption, SK!IInv, NEW c \in Openers, SK!StartCheck(c)
    PROVE  SK!IInv'
<1>1. /\ sockets[c].pc = "waiting" /\ UNCHANGED <<SK!authority, redeemed, bus, now>>
      /\ SK!Moves(c, [sockets[c] EXCEPT !.pc = "checking", !.since = now, !.due = now,
                                        !.nudged = FALSE])
  BY DEF SK!StartCheck
<1> DEFINE one == [sockets[c] EXCEPT !.pc = "checking"]
           two == [one EXCEPT !.since = now]
           three == [two EXCEPT !.due = now]
           after == [three EXCEPT !.nudged = FALSE]
<1>2. SK!Moves(c, after)
  BY <1>1
<1>3. one \in SocketType /\ one.pc = "checking" /\ one.role = sockets[c].role
      /\ one.lost = sockets[c].lost /\ one.told = sockets[c].told
  BY Before, Places DEF SocketType, Pcs
<1> HIDE DEF one
<1>4. two \in SocketType /\ two.pc = "checking" /\ two.role = sockets[c].role
      /\ two.lost = sockets[c].lost /\ two.told = sockets[c].told /\ two.since = now
  BY <1>3, Before DEF SocketType
<1> HIDE DEF two
<1>5. three \in SocketType /\ three.pc = "checking" /\ three.role = sockets[c].role
      /\ three.lost = sockets[c].lost /\ three.told = sockets[c].told /\ three.since = now
      /\ three.due = now
  BY <1>4, Before DEF SocketType
<1> HIDE DEF three
<1>6. after \in SocketType /\ after.pc = "checking" /\ after.role = sockets[c].role
      /\ after.lost = sockets[c].lost /\ after.told = sockets[c].told /\ after.since = now
      /\ after.due = now
  BY <1>5 DEF SocketType
<1> HIDE DEF after
<1>7. PICK s \in SocketType : s = after
  BY <1>6
<1>8. s.pc \in SK!Attached /\ sockets[c].pc \in SK!Attached
      /\ s.pc \notin SK!Opening /\ s.pc \in SK!Checking /\ sockets[c].pc \in SK!Serving /\ s.pc \in SK!Serving
  BY <1>1, <1>6, <1>7, Places
<1>9. \A w \in SK!Whats : w \in SK!Losses(s, live, member, plan)
                          <=> w \in SK!Losses(sockets[c], live, member, plan)
  BY <1>6, <1>7, <1>8, SameLosses
<1>10. sockets[c].due \in Nat /\ now <= sockets[c].due
  BY <1>1, Before, Fields DEF SK!IsOnTime
<1>11. SK!IsOnTime(s) /\ SK!ExpiryIsSeen(s)
  BY <1>6, <1>7, <1>8, Before, Numbers DEF SK!IsOnTime, SK!ExpiryIsSeen
<1>12. SK!LossIsSeen(s)
  <2> SUFFICES ASSUME NEW w \in SK!Whats, s.lost[w] # SK!Never
               PROVE  s.lost[w] <= now /\ s.since <= s.lost[w] + Interval + Delay
    BY <1>6, <1>7, <1>8 DEF SK!LossIsSeen
  <2>1. s.lost[w] \in Nat /\ s.lost[w] = sockets[c].lost[w]
    BY <1>6, <1>7, Fields
  <2>2. sockets[c].due <= s.lost[w] + Interval + Delay /\ s.lost[w] <= now
    BY <1>1, <2>1, Before DEF SK!LossIsSeen
  <2> QED BY <1>6, <1>7, <1>10, <2>1, <2>2, Before, Numbers
<1>13. SK!TellingIsSeen(s)
  <2> SUFFICES ASSUME s.told # SK!Never PROVE SK!TellingIsSeen(s)
    BY DEF SK!TellingIsSeen
  <2>1. s.told \in Nat /\ s.told = sockets[c].told
    BY <1>6, <1>7, Fields
  <2>2. kind = "key" /\ ~plan /\ s.told <= now /\ now <= s.told + Delay
    BY <1>1, <2>1, Before DEF SK!TellingIsSeen
  <2> QED BY <1>6, <1>7, <1>8, <2>2 DEF SK!TellingIsSeen
<1>14. SK!Moves(c, s) /\ s.lost = sockets[c].lost /\ s.told = sockets[c].told
       /\ sockets[c].pc \in SK!Opening \cup SK!Serving
  BY <1>2, <1>6, <1>7, <1>8
<1> QED BY <1>1, <1>9, <1>11, <1>12, <1>13, <1>14, GoesOn

LEMMA CheckCredentialStep ==
    ASSUME SK!SocketsAssumption, SK!IInv, NEW c \in Openers, SK!CheckCredential(c)
    PROVE  SK!IInv'
<1>1. sockets[c].pc = "checking" /\ UNCHANGED <<SK!authority, redeemed, bus, now>>
  BY DEF SK!CheckCredential
<1>2. CASE ~SK!CredentialHolds
  <2>1. SK!Ends(c) /\ redeemed' \in BOOLEAN /\ (redeemed => redeemed')
    BY <1>1, <1>2, Types DEF SK!CheckCredential, SK!IInv
  <2> QED BY <1>1, <2>1, Ended
<1>3. CASE SK!CredentialHolds
  <2> DEFINE after == [sockets[c] EXCEPT !.pc = "known"]
  <2>1. SK!Moves(c, after)
    BY <1>3 DEF SK!CheckCredential
  <2>2. after \in SocketType /\ after.pc = "known" /\ after.since = sockets[c].since
        /\ after.lost = sockets[c].lost /\ after.told = sockets[c].told
        /\ after.role = sockets[c].role /\ after.due = sockets[c].due
    BY Before, Places DEF SocketType, Pcs
  <2> HIDE DEF after
  <2>3. PICK s \in SocketType : s = after
    BY <2>2
  <2>4. s.pc \in SK!Attached /\ sockets[c].pc \in SK!Attached /\ s.pc \notin SK!Opening
        /\ s.pc \in SK!Checking /\ sockets[c].pc \in SK!Checking
        /\ sockets[c].pc \in SK!Serving /\ s.pc \in SK!Serving
    BY <1>1, <2>2, <2>3, Places
  <2>5. \A w \in SK!Whats : w \in SK!Losses(s, live, member, plan)
                            <=> w \in SK!Losses(sockets[c], live, member, plan)
    BY <2>2, <2>3, <2>4, SameLosses
  <2>6. "credential" \in SK!Whats /\ s.lost["credential"] = SK!Never
    <3>1. "credential" \in SK!Whats
      BY DEF SK!Whats
    <3>2. "credential" \notin SK!Losses(sockets[c], live, member, plan)
      BY <1>3, LossesAre DEF SK!CredentialHolds
    <3>3. sockets[c].lost["credential"] = SK!Never
      BY <3>1, <3>2, NothingLost
    <3> QED BY <2>2, <2>3, <3>1, <3>3
  <2>7. SK!IsOnTime(s) /\ SK!ExpiryIsSeen(s)
    BY <2>2, <2>3, <2>4, Before DEF SK!IsOnTime, SK!ExpiryIsSeen
  <2>8. SK!LossIsSeen(s)
    <3> SUFFICES ASSUME NEW w \in SK!Whats, s.lost[w] # SK!Never
                 PROVE  s.lost[w] <= now /\ s.since <= s.lost[w] + Interval + Delay
      BY <2>2, <2>3, <2>4, <2>6 DEF SK!LossIsSeen
    <3> QED BY <2>2, <2>3, <2>4, Before DEF SK!LossIsSeen
  <2>9. SK!TellingIsSeen(s)
    BY <2>2, <2>3, <2>4, Before DEF SK!TellingIsSeen
  <2>10. SK!Moves(c, s) /\ s.lost = sockets[c].lost /\ s.told = sockets[c].told
         /\ sockets[c].pc \in SK!Opening \cup SK!Serving
    BY <2>1, <2>2, <2>3, <2>4
  <2> QED BY <1>1, <2>5, <2>7, <2>8, <2>9, <2>10, GoesOn
<1> QED BY <1>2, <1>3

LEMMA CheckPrincipalStep ==
    ASSUME SK!SocketsAssumption, SK!IInv, NEW c \in Openers, SK!CheckPrincipal(c)
    PROVE  SK!IInv'
<1>1. sockets[c].pc = "known" /\ UNCHANGED <<SK!authority, redeemed, bus, now>>
  BY DEF SK!CheckPrincipal
<1>2. CASE SK!Refuses(sockets[c])
  <2>1. SK!Ends(c) /\ redeemed' \in BOOLEAN /\ (redeemed => redeemed')
    BY <1>1, <1>2, Types DEF SK!CheckPrincipal, SK!IInv
  <2> QED BY <1>1, <2>1, Ended
<1>3. CASE ~SK!Refuses(sockets[c])
  <2> DEFINE back == [sockets[c] EXCEPT !.pc = "waiting"]
             after == [back EXCEPT !.due = sockets[c].due + Interval]
  <2>1. SK!Moves(c, after)
    BY <1>3 DEF SK!CheckPrincipal
  <2>2. back \in SocketType /\ back.pc = "waiting"
        /\ back.lost = sockets[c].lost /\ back.told = sockets[c].told
        /\ back.role = sockets[c].role
    BY Before, Places DEF SocketType, Pcs
  <2>3. /\ sockets[c].since \in Nat /\ sockets[c].due = sockets[c].since
        /\ sockets[c].since <= now /\ now <= sockets[c].since + Delay
    BY <1>1, Before, Fields, Places DEF SK!IsOnTime
  <2>4. sockets[c].due + Interval \in SK!Times
    BY <2>3, Before, Numbers DEF SK!Times
  <2> HIDE DEF back
  <2>5. /\ after \in SocketType /\ after.pc = "waiting" /\ after.lost = sockets[c].lost
        /\ after.told = sockets[c].told /\ after.role = sockets[c].role
        /\ after.due = sockets[c].due + Interval
    BY <2>2, <2>4 DEF SocketType
  <2> HIDE DEF after
  <2>6. PICK s \in SocketType : s = after
    BY <2>5
  <2>7. s.pc \in SK!Attached /\ sockets[c].pc \in SK!Attached
        /\ s.pc \notin SK!Opening /\ s.pc \notin SK!Checking
        /\ sockets[c].pc \in SK!Serving /\ s.pc \in SK!Serving
    BY <1>1, <2>5, <2>6, Places
  <2>8. \A w \in SK!Whats : w \in SK!Losses(s, live, member, plan)
                            <=> w \in SK!Losses(sockets[c], live, member, plan)
    BY <2>5, <2>6, <2>7, SameLosses
  <2>9. \A w \in SK!Whats : sockets[c].lost[w] # SK!Never => w = "credential"
    <3> SUFFICES ASSUME NEW w \in SK!Whats, w # "credential"
                 PROVE  w \notin SK!Losses(sockets[c], live, member, plan)
      BY NothingLost
    <3>1. w \in {"credential", "rights", "plan"}
      BY DEF SK!Whats
    <3> QED BY <1>3, <3>1, LossesAre DEF SK!Refuses, SK!PrincipalHolds, SK!Allowed
  <2>10. SK!IsOnTime(s) /\ SK!ExpiryIsSeen(s)
    <3>1. s.due \in Nat /\ now <= s.due /\ s.due <= now + Interval
      BY <2>3, <2>5, <2>6, Before, Numbers
    <3> QED BY <3>1, <2>5, <2>6, <2>7, Before DEF SK!IsOnTime, SK!ExpiryIsSeen
  <2>11. SK!LossIsSeen(s)
    <3> SUFFICES ASSUME NEW w \in SK!Whats, s.lost[w] # SK!Never
                 PROVE  s.lost[w] <= now /\ s.due <= s.lost[w] + Interval + Delay
      BY <2>5, <2>6, <2>7 DEF SK!LossIsSeen
    <3>1. s.lost[w] \in Nat /\ s.lost[w] = sockets[c].lost[w] /\ w = "credential"
      BY <2>5, <2>6, <2>9, Fields
    <3>2. sockets[c].since <= s.lost[w] /\ s.lost[w] <= now
      BY <1>1, <3>1, Before DEF SK!LossIsSeen
    <3> QED BY <2>3, <2>5, <2>6, <3>1, <3>2, Numbers
  <2>12. SK!TellingIsSeen(s)
    <3>1. ~(kind = "key" /\ ~plan)
      BY <1>3 DEF SK!Refuses, SK!PrincipalHolds, SK!Allowed
    <3>2. s.told = SK!Never
      BY <2>5, <2>6, <3>1, Before DEF SK!TellingIsSeen
    <3> QED BY <3>2 DEF SK!TellingIsSeen
  <2>13. SK!Moves(c, s) /\ s.lost = sockets[c].lost /\ s.told = sockets[c].told
         /\ sockets[c].pc \in SK!Opening \cup SK!Serving
    BY <2>1, <2>5, <2>6, <2>7
  <2> QED BY <1>1, <2>8, <2>10, <2>11, <2>12, <2>13, GoesOn
<1> QED BY <1>2, <1>3

LEMMA EndStep ==
    ASSUME SK!SocketsAssumption, SK!IInv, NEW c \in Openers, SK!Expire(c) \/ SK!Drop(c)
    PROVE  SK!IInv'
<1>1. SK!Ends(c) /\ UNCHANGED <<SK!authority, redeemed, bus, now>>
  BY DEF SK!Expire, SK!Drop
<1>2. redeemed' \in BOOLEAN /\ (redeemed => redeemed')
  BY <1>1, Types DEF SK!IInv
<1> QED BY <1>1, <1>2, Ended

-----------------------------------------------------------------------------
(* All of them are told, or marked, at once.                               *)

\* What is marked as lost since when, after a change of the authority.
Since(s, l, m, p) ==
    [w \in SK!Whats |-> IF w \notin SK!Losses(s, l, m, p) THEN SK!Never
                        ELSE IF s.lost[w] = SK!Never THEN now ELSE s.lost[w]]

Marked(s, l, m, p) ==
    [s EXCEPT !.lost = Since(s, l, m, p),
              !.told = IF "plan" \in SK!Losses(s, l, m, p) THEN @ ELSE SK!Never]

\* A change that is marked, when what it changes is never given back to a socket
\* that is told: the plan is, and its marks go with it.
LEMMA MarkedIs ==
    ASSUME SK!SocketsAssumption, SK!IInv, NEW c \in Openers, NEW l, NEW m, NEW p
    PROVE  LET s == Marked(sockets[c], l, m, p)
               r == sockets[c]
           IN /\ s \in SocketType /\ s.pc = r.pc /\ s.since = r.since /\ s.role = r.role
              /\ s.due = r.due /\ s.nudged = r.nudged /\ s.lost = Since(r, l, m, p)
              /\ s.told = IF "plan" \in SK!Losses(r, l, m, p) THEN r.told ELSE SK!Never
<1> DEFINE r == sockets[c]
           since == Since(r, l, m, p)
           told == IF "plan" \in SK!Losses(r, l, m, p) THEN r.told ELSE SK!Never
<1>1. r \in SocketType /\ now \in SK!Times
  BY Before
<1>2. since \in [SK!Whats -> SK!Times \cup {SK!Never}]
  BY <1>1 DEF Since, SocketType
<1>3. told \in SK!Times \cup {SK!Never}
  BY <1>1 DEF SocketType
<1>4. Marked(r, l, m, p) = [r EXCEPT !.lost = since, !.told = told]
  BY <1>1 DEF Marked, SocketType
<1> HIDE DEF since, told, r
<1>5. [r EXCEPT !.lost = since, !.told = told] \in SocketType
  BY <1>1, <1>2, <1>3 DEF SocketType
<1> DEFINE after == [r EXCEPT !.lost = since, !.told = told]
<1>6. /\ after.pc = r.pc /\ after.since = r.since /\ after.role = r.role
      /\ after.due = r.due /\ after.nudged = r.nudged /\ after.lost = since
      /\ after.told = told
  BY <1>1 DEF SocketType
<1> QED BY <1>4, <1>5, <1>6 DEF since, told, r

LEMMA MarkKeeps ==
    ASSUME SK!SocketsAssumption, SK!IInv, SK!Mark(live', member', plan'),
           live' \in BOOLEAN, member' \in {"role", "other", "ended"}, plan' \in BOOLEAN,
           bus' \subseteq {"credential", "membership", "user", "account"},
           UNCHANGED <<kind, redeemed, now>>
    PROVE  SK!IInv'
<1> DEFINE after(c) == Marked(sockets[c], live', member', plan')
<1>1. sockets' = [c \in Openers |-> after(c)]
  BY DEF SK!Mark, Marked, Since
<1>2. ASSUME NEW c \in Openers
      PROVE  /\ sockets'[c] \in SocketType /\ sockets'[c].pc = sockets[c].pc
             /\ sockets'[c].since = sockets[c].since /\ sockets'[c].role = sockets[c].role
             /\ sockets'[c].due = sockets[c].due /\ sockets'[c].nudged = sockets[c].nudged
             /\ sockets'[c].lost = Since(sockets[c], live', member', plan')
             /\ sockets'[c].told = IF "plan" \in SK!Losses(sockets[c], live', member', plan')
                                   THEN sockets[c].told ELSE SK!Never
  <2>1. sockets'[c] = after(c)
    BY <1>1
  <2> QED BY <2>1, MarkedIs
<1>3. sockets' \in [Openers -> SocketType]
  BY <1>1, <1>2
<1>4. SK!TypeOK'
  BY <1>3, Types, SocketTypesAgain DEF SK!IInv
<1>5. SK!OneIsIn'
  BY <1>2 DEF SK!IInv, SK!OneIsIn
<1>6. ASSUME NEW c \in Openers PROVE SK!Right(sockets[c])'
  <2>1. PICK s \in SocketType : s = sockets'[c]
    BY <1>2
  <2>2. PICK r \in SocketType : r = sockets[c]
    BY Before
  <2>3. /\ s.pc = r.pc /\ s.since = r.since /\ s.role = r.role /\ s.due = r.due
        /\ s.nudged = r.nudged
    BY <1>2, <2>1, <2>2
  <2>4. now' = now /\ kind' = kind
    OBVIOUS
  <2>5. /\ \A w \in SK!Whats : s.lost[w] = IF w \notin SK!Losses(r, live', member', plan') THEN SK!Never
                                           ELSE IF r.lost[w] = SK!Never THEN now ELSE r.lost[w]
        /\ s.told = IF "plan" \in SK!Losses(r, live', member', plan') THEN r.told ELSE SK!Never
    <3>1. s.lost = Since(r, live', member', plan')
      BY <1>2, <2>1, <2>2
    <3>2. \A w \in SK!Whats : s.lost[w] = IF w \notin SK!Losses(r, live', member', plan') THEN SK!Never
                                           ELSE IF r.lost[w] = SK!Never THEN now ELSE r.lost[w]
      BY <3>1 DEF Since
    <3>3. s.told = IF "plan" \in SK!Losses(r, live', member', plan') THEN r.told ELSE SK!Never
      BY <1>2, <2>1, <2>2
    <3> QED BY <3>2, <3>3
  <2>6. /\ SK!LostIsLost(r) /\ SK!IsOnTime(r) /\ SK!LossIsSeen(r) /\ SK!TellingIsSeen(r) /\ SK!ExpiryIsSeen(r)
        /\ now \in Nat
    BY <2>2, Before
  <2>7. \A w \in SK!Whats : w \in SK!Losses(s, live', member', plan')
                            <=> w \in SK!Losses(r, live', member', plan')
    BY <2>3 DEF SK!Losses
  <2>8. \A w \in SK!Whats : s.lost[w] # SK!Never <=> w \in SK!Losses(s, live', member', plan')
    BY <2>5, <2>6, <2>7 DEF SK!Never
  <2>9. SK!LostIsLost(sockets[c])'
    BY <2>1, <2>4, <2>8 DEF SK!LostIsLost, SK!Losses
  <2>10. SK!IsOnTime(sockets[c])' /\ SK!ExpiryIsSeen(sockets[c])'
    BY <2>1, <2>3, <2>4, <2>6 DEF SK!IsOnTime, SK!ExpiryIsSeen
  <2>11. SK!LossIsSeen(sockets[c])'
    <3> SUFFICES ASSUME NEW w \in SK!Whats, s.lost[w] # SK!Never
                 PROVE  /\ s.lost[w] <= now
                        /\ s.pc \in SK!Opening => s.since <= s.lost[w]
                        /\ s.pc = "waiting" => s.due <= s.lost[w] + Interval + Delay
                        /\ s.pc \in SK!Checking => s.since <= s.lost[w] + Interval + Delay
                        /\ (s.pc = "known" /\ w = "credential") => s.since <= s.lost[w]
      BY <2>1, <2>4 DEF SK!LossIsSeen
    <3>1. CASE r.lost[w] # SK!Never
      <4>1. s.lost[w] = r.lost[w]
        BY <2>5, <3>1
      <4> QED BY <2>3, <2>6, <3>1, <4>1 DEF SK!LossIsSeen
    <3>2. CASE r.lost[w] = SK!Never
      <4>1. s.lost[w] = now
        BY <2>5, <3>2
      <4>2. s.since \in Nat /\ s.due \in Nat
        BY Fields
      <4>3. /\ s.pc \in SK!Opening \cup SK!Checking => s.since <= now
            /\ s.pc = "waiting" => s.due <= now + Interval
            /\ s.pc = "known" => s.pc \in SK!Checking
        BY <2>3, <2>6, Places DEF SK!IsOnTime
      <4> QED BY <2>6, <4>1, <4>2, <4>3, Numbers
    <3> QED BY <3>1, <3>2
  <2>12. SK!TellingIsSeen(sockets[c])'
    <3>1. CASE s.told = SK!Never
      BY <2>1, <3>1 DEF SK!TellingIsSeen
    <3>2. CASE s.told # SK!Never
      <4>1. s.told = r.told /\ "plan" \in SK!Losses(r, live', member', plan')
        BY <2>5, <3>2
      <4>2. ~plan'
        BY <4>1, LossesAre
      <4> QED BY <2>1, <2>3, <2>4, <2>6, <3>2, <4>1, <4>2 DEF SK!TellingIsSeen
    <3> QED BY <3>1, <3>2
  <2> QED BY <2>9, <2>10, <2>11, <2>12 DEF SK!Right
<1> QED BY <1>4, <1>5, <1>6 DEF SK!IInv

LEMMA ChangeStep ==
    ASSUME SK!SocketsAssumption, SK!IInv, SK!Revoke \/ SK!ChangeRole \/ SK!EndMembership \/ SK!ChangePlan
    PROVE  SK!IInv'
<1>1. /\ live \in BOOLEAN /\ plan \in BOOLEAN /\ member \in {"role", "other", "ended"}
      /\ bus \subseteq {"credential", "membership", "user", "account"}
  BY Types DEF SK!IInv
<1>2. UNCHANGED <<kind, redeemed, now>>
  BY DEF SK!Revoke, SK!ChangeRole, SK!EndMembership, SK!ChangePlan
<1>3. bus' \subseteq {"credential", "membership", "user", "account"}
  BY <1>1 DEF SK!Revoke, SK!ChangeRole, SK!EndMembership, SK!ChangePlan
<1>4. live' \in BOOLEAN /\ plan' \in BOOLEAN
  BY <1>1, Zenon DEF SK!Revoke, SK!ChangeRole, SK!EndMembership, SK!ChangePlan
<1>5. member' \in {"role", "other", "ended"}
  BY <1>1 DEF SK!Revoke, SK!ChangeRole, SK!EndMembership, SK!ChangePlan
<1>6. SK!Mark(live', member', plan')
  <2>1. CASE SK!Revoke BY <2>1, Zenon DEF SK!Revoke
  <2>2. CASE SK!ChangeRole BY <2>2, Zenon DEF SK!ChangeRole
  <2>3. CASE SK!EndMembership BY <2>3, Zenon DEF SK!EndMembership
  <2>4. CASE SK!ChangePlan BY <2>4, Zenon DEF SK!ChangePlan
  <2> QED BY <2>1, <2>2, <2>3, <2>4
<1> QED BY <1>2, <1>3, <1>4, <1>5, <1>6, MarkKeeps

LEMMA HearStep ==
    ASSUME SK!SocketsAssumption, SK!IInv, NEW change, SK!Hear(change)
    PROVE  SK!IInv'
<1>1. /\ change \in bus /\ bus' = bus \ {change}
      /\ sockets' = [c \in Openers |-> SK!Hears(sockets[c], change)]
      /\ UNCHANGED <<kind, live, member, plan, redeemed, now>>
  BY DEF SK!Hear, SK!authority
<1>2. ASSUME NEW c \in Openers
      PROVE  /\ sockets'[c] \in SocketType /\ SK!Right(sockets'[c])
             /\ sockets'[c].pc \in {sockets[c].pc, "closed"}
  <2>1. sockets'[c] = SK!Hears(sockets[c], change)
    BY <1>1
  <2>2. sockets[c] \in SocketType /\ SK!Right(sockets[c])
    BY Before DEF SK!IInv
  <2>3. CASE SK!Hears(sockets[c], change) = sockets[c]
    BY <2>1, <2>2, <2>3
  <2>4. CASE SK!Hears(sockets[c], change) = SK!Closed(sockets[c])
    BY <2>1, <2>4, NoSocketIsRight
  <2>5. CASE sockets[c].pc \in SK!Attached /\ kind = "key" /\ change = "account"
    <3> DEFINE nudged == [sockets[c] EXCEPT !.nudged = TRUE]
               told == IF plan \/ sockets[c].told # SK!Never THEN sockets[c].told ELSE now
               after == [nudged EXCEPT !.told = told]
    <3>1. /\ nudged \in SocketType /\ nudged.pc = sockets[c].pc /\ nudged.since = sockets[c].since
          /\ nudged.role = sockets[c].role /\ nudged.due = sockets[c].due
          /\ nudged.lost = sockets[c].lost /\ nudged.told = sockets[c].told /\ nudged.nudged
      BY <2>2 DEF SocketType
    <3>2. told \in SK!Times \cup {SK!Never}
      BY <2>2, Before DEF SocketType
    <3>3. SK!Hears(sockets[c], change) = after
      BY <2>2, <2>5 DEF SK!Hears, SocketType
    <3> HIDE DEF nudged
    <3>4. /\ after \in SocketType /\ after.pc = sockets[c].pc /\ after.since = sockets[c].since
          /\ after.role = sockets[c].role /\ after.due = sockets[c].due
          /\ after.lost = sockets[c].lost /\ after.told = told /\ after.nudged
      BY <3>1, <3>2 DEF SocketType
    <3> HIDE DEF after
    <3>5. PICK s \in SocketType : s = after
      BY <3>4
    <3>6. SK!LostIsLost(s)
      <4>1. s.pc = sockets[c].pc /\ s.role = sockets[c].role /\ s.lost = sockets[c].lost
        BY <3>4, <3>5
      <4>2. SK!Losses(s, live, member, plan) = SK!Losses(sockets[c], live, member, plan)
        BY <4>1 DEF SK!Losses
      <4>3. SK!LostIsLost(sockets[c])
        BY Before
      <4> QED BY <4>1, <4>2, <4>3 DEF SK!LostIsLost
    <3>9. SK!IsOnTime(s) /\ SK!ExpiryIsSeen(s)
      BY <3>4, <3>5, Before DEF SK!IsOnTime, SK!ExpiryIsSeen
    <3>7. SK!LossIsSeen(s)
      BY <3>4, <3>5, Before DEF SK!LossIsSeen
    <3>8. SK!TellingIsSeen(s)
      <4> SUFFICES ASSUME s.told # SK!Never PROVE SK!TellingIsSeen(s)
        BY DEF SK!TellingIsSeen
      <4>1. CASE sockets[c].told # SK!Never
        BY <3>4, <3>5, <4>1, Before DEF SK!TellingIsSeen
      <4>2. CASE sockets[c].told = SK!Never
        <5>1. ~plan /\ s.told = now
          BY <3>4, <3>5, <4>2
        <5>2. s.since \in Nat
          BY Fields
        <5>3. s.pc \in {"attached"} \cup SK!Checking => s.since <= now
          BY <3>4, <3>5, Before, Places DEF SK!IsOnTime
        <5>4. s.pc \in SK!Attached /\ s.nudged
          BY <2>5, <3>4, <3>5
        <5> QED BY <2>5, <5>1, <5>2, <5>3, <5>4, Before, Numbers DEF SK!TellingIsSeen
      <4> QED BY <4>1, <4>2
    <3> QED BY <2>1, <3>3, <3>4, <3>5, <3>6, <3>7, <3>8, <3>9 DEF SK!Right
  <2> QED BY <2>3, <2>4, <2>5 DEF SK!Hears
<1>3. sockets' \in [Openers -> SocketType]
  BY <1>1, <1>2
<1>4. bus' \subseteq {"credential", "membership", "user", "account"}
  BY <1>1, Types DEF SK!IInv
<1>5. SK!TypeOK'
  BY <1>1, <1>3, <1>4, Types, SocketTypesAgain DEF SK!IInv
<1>6. SK!OneIsIn'
  <2>1. \A c \in Openers : sockets'[c].pc \in SK!Opening \cup SK!Serving =>
                               sockets[c].pc \in SK!Opening \cup SK!Serving
    BY <1>2, Places
  <2> QED BY <1>1, <2>1 DEF SK!IInv, SK!OneIsIn
<1>7. ASSUME NEW c \in Openers PROVE SK!Right(sockets[c])'
  <2>1. PICK s \in SocketType : s = sockets'[c]
    BY <1>2
  <2>2. SK!Right(s)
    BY <1>2, <2>1
  <2>3. SK!LostIsLost(sockets[c])'
    BY <1>1, <2>1, <2>2 DEF SK!Right, SK!LostIsLost, SK!Losses
  <2>4. SK!IsOnTime(sockets[c])' /\ SK!LossIsSeen(sockets[c])'
    BY <1>1, <2>1, <2>2 DEF SK!Right, SK!IsOnTime, SK!LossIsSeen
  <2>5. SK!TellingIsSeen(sockets[c])' /\ SK!ExpiryIsSeen(sockets[c])'
    BY <1>1, <2>1, <2>2 DEF SK!Right, SK!TellingIsSeen, SK!ExpiryIsSeen
  <2> QED BY <2>3, <2>4, <2>5 DEF SK!Right
<1> QED BY <1>5, <1>6, <1>7 DEF SK!IInv

\* Nothing that is due is passed.
LEMMA TickStep ==
    ASSUME SK!SocketsAssumption, SK!IInv, SK!Tick
    PROVE  SK!IInv'
<1>1. /\ now' = now + 1 /\ now < MaxNow /\ \A c \in Openers : ~SK!Waits(sockets[c])
      /\ UNCHANGED <<kind, live, member, plan, redeemed, bus, sockets>>
  BY DEF SK!Tick, SK!authority
<1>2. now \in Nat /\ now' \in 0..MaxNow
  BY <1>1, Types, Numbers DEF SK!IInv
<1>3. SK!TypeOK'
  BY <1>1, <1>2, Types, SocketTypesAgain DEF SK!IInv
<1>4. SK!OneIsIn'
  BY <1>1 DEF SK!IInv, SK!OneIsIn
<1>5. ASSUME NEW c \in Openers PROVE SK!Right(sockets[c])'
  <2>1. PICK s \in SocketType : s = sockets[c] /\ s = sockets'[c]
    BY <1>1, Before
  <2>2. SK!LostIsLost(s) /\ SK!IsOnTime(s) /\ SK!LossIsSeen(s) /\ SK!TellingIsSeen(s) /\ SK!ExpiryIsSeen(s)
    BY <2>1, Before
  <2>3. /\ s.since \in Nat /\ s.due \in Nat
        /\ s.told # SK!Never => s.told \in Nat
        /\ \A w \in SK!Whats : s.lost[w] # SK!Never => s.lost[w] \in Nat
    BY Fields
  <2>4. /\ s.pc \in SK!Opening \cup SK!Checking => ~(now - s.since >= Delay)
        /\ s.pc = "waiting" => ~s.nudged /\ ~(now >= s.due)
        /\ s.pc \in SK!Serving => ~(now >= Expiry)
    BY <1>1, <2>1 DEF SK!Waits
  <2>5. SK!LostIsLost(sockets[c])'
    BY <1>1, <2>1, <2>2 DEF SK!LostIsLost, SK!Losses
  <2>6. SK!IsOnTime(sockets[c])'
    BY <1>1, <1>2, <2>1, <2>2, <2>3, <2>4, Numbers DEF SK!IsOnTime
  <2>7. SK!LossIsSeen(sockets[c])'
    <3> SUFFICES ASSUME NEW w \in SK!Whats, s.lost[w] # SK!Never PROVE s.lost[w] <= now + 1
      BY <1>1, <2>1, <2>2 DEF SK!LossIsSeen
    <3>1. s.lost[w] \in Nat /\ s.lost[w] <= now
      BY <2>2, <2>3 DEF SK!LossIsSeen
    <3> QED BY <1>2, <3>1
  <2>8. SK!TellingIsSeen(sockets[c])'
    <3> SUFFICES ASSUME s.told # SK!Never
                 PROVE  s.told <= now + 1 /\ s.pc # "waiting"
      BY <1>1, <2>1, <2>2 DEF SK!TellingIsSeen
    <3>1. s.told \in Nat /\ s.told <= now
      BY <2>2, <2>3 DEF SK!TellingIsSeen
    <3>2. s.pc # "waiting"
      BY <2>2, <2>4 DEF SK!TellingIsSeen
    <3> QED BY <1>2, <3>1, <3>2
  <2>9. SK!ExpiryIsSeen(sockets[c])'
    BY <1>1, <1>2, <2>1, <2>2, <2>4, Numbers DEF SK!ExpiryIsSeen
  <2> QED BY <2>5, <2>6, <2>7, <2>8, <2>9 DEF SK!Right
<1> QED BY <1>3, <1>4, <1>5 DEF SK!IInv

-----------------------------------------------------------------------------
LEMMA SocketsInit ==
    ASSUME SK!SocketsAssumption, SK!Init
    PROVE  SK!IInv
<1>1. /\ kind \in Kinds /\ redeemed = FALSE /\ live = TRUE /\ plan = TRUE /\ member = "role"
      /\ bus = {} /\ now = 0 /\ sockets = [c \in Openers |-> SK!NoSocket]
  BY DEF SK!Init
<1>2. sockets \in [Openers -> SocketType] /\ \A c \in Openers : sockets[c] = SK!NoSocket
  BY <1>1, NoSocketIsRight
<1>3. SK!TypeOK
  <2>1. {redeemed, live, plan} \subseteq BOOLEAN
    BY <1>1, Zenon
  <2>2. now \in 0..MaxNow
    BY <1>1, Numbers
  <2> QED BY <1>1, <1>2, <2>1, <2>2 DEF SK!TypeOK, SocketType, Pcs
<1>4. SK!OneIsIn
  BY <1>2, NoSocketIsRight, Places DEF SK!OneIsIn
<1>5. \A c \in Openers : SK!Right(sockets[c])
  BY <1>2, NoSocketIsRight
<1> QED BY <1>3, <1>4, <1>5 DEF SK!IInv

LEMMA SocketsNext ==
    ASSUME SK!SocketsAssumption, SK!IInv, [SK!Next]_(SK!vars)
    PROVE  SK!IInv'
<1>1. ASSUME NEW c \in Openers,
             \/ SK!Redeem(c) \/ SK!FindCredential(c) \/ SK!FindPrincipal(c) \/ SK!Starts(c)
             \/ SK!StartCheck(c) \/ SK!CheckCredential(c) \/ SK!CheckPrincipal(c)
             \/ SK!Expire(c) \/ SK!Drop(c)
      PROVE  SK!IInv'
  BY <1>1, RedeemStep, FindCredentialStep, FindPrincipalStep, StartsStep, StartCheckStep,
     CheckCredentialStep, CheckPrincipalStep, EndStep
<1>2. CASE SK!Revoke \/ SK!ChangeRole \/ SK!EndMembership \/ SK!ChangePlan
  BY <1>2, ChangeStep
<1>3. ASSUME NEW change \in bus, SK!Hear(change) PROVE SK!IInv'
  BY <1>3, HearStep
<1>4. CASE SK!Tick
  BY <1>4, TickStep
<1>5. CASE UNCHANGED SK!vars
  <2>1. UNCHANGED <<kind, redeemed, live, member, plan, bus, sockets, now>>
    BY <1>5 DEF SK!vars
  <2>2. SK!TypeOK' /\ SK!OneIsIn'
    BY <2>1 DEF SK!IInv, SK!TypeOK, SK!OneIsIn
  <2>3. ASSUME NEW c \in Openers PROVE SK!Right(sockets[c])'
    <3>1. SK!Right(sockets[c])
      BY DEF SK!IInv
    <3>2. SK!LostIsLost(sockets[c])'
      BY <2>1, <3>1 DEF SK!Right, SK!LostIsLost, SK!Losses
    <3>3. SK!IsOnTime(sockets[c])' /\ SK!LossIsSeen(sockets[c])'
      BY <2>1, <3>1 DEF SK!Right, SK!IsOnTime, SK!LossIsSeen
    <3>4. SK!TellingIsSeen(sockets[c])' /\ SK!ExpiryIsSeen(sockets[c])'
      BY <2>1, <3>1 DEF SK!Right, SK!TellingIsSeen, SK!ExpiryIsSeen
    <3> QED BY <3>2, <3>3, <3>4 DEF SK!Right
  <2> QED BY <2>2, <2>3 DEF SK!IInv
<1> QED BY <1>1, <1>2, <1>3, <1>4, <1>5 DEF SK!Next

\* What is lost, told or expired is acted on in time: every bound of ClosesInTime
\* is one of these, one check later (recheck_until_refused).
LEMMA InTime ==
    ASSUME SK!SocketsAssumption, SK!IInv
    PROVE  SK!ClosesInTime
<1> SUFFICES ASSUME NEW c \in Openers, sockets[c].pc \in SK!Attached
             PROVE  /\ \A w \in SK!Whats : sockets[c].lost[w] # SK!Never
                           => now - sockets[c].lost[w] <= Interval + 2 * Delay
                    /\ sockets[c].told # SK!Never => now - sockets[c].told <= 2 * Delay
                    /\ sockets[c].pc \in SK!Serving => now < Expiry + Delay
  BY DEF SK!ClosesInTime
<1>1. PICK s \in SocketType : s = sockets[c]
  BY Before
<1>2. /\ SK!IsOnTime(s) /\ SK!LossIsSeen(s) /\ SK!TellingIsSeen(s) /\ SK!ExpiryIsSeen(s) /\ now \in Nat
  BY <1>1, Before
<1>3. s.since \in Nat /\ s.due \in Nat
  BY Fields
<1>4. /\ s.pc = "attached" \/ s.pc = "waiting" \/ s.pc \in SK!Checking
      /\ s.pc = "attached" => s.pc \in SK!Opening
  BY <1>1, Places
<1>5. /\ s.pc \in SK!Opening \cup SK!Checking => now <= s.since + Delay
      /\ s.pc = "waiting" => now <= s.due
  BY <1>2 DEF SK!IsOnTime
<1>6. ASSUME NEW w \in SK!Whats, s.lost[w] # SK!Never
      PROVE  now - s.lost[w] <= Interval + 2 * Delay
  <2>1. s.lost[w] \in Nat
    BY <1>6, Fields
  <2>2. /\ s.pc \in SK!Opening => s.since <= s.lost[w]
        /\ s.pc = "waiting" => s.due <= s.lost[w] + Interval + Delay
        /\ s.pc \in SK!Checking => s.since <= s.lost[w] + Interval + Delay
    BY <1>2, <1>6 DEF SK!LossIsSeen
  <2> QED BY <1>2, <1>3, <1>4, <1>5, <2>1, <2>2, Numbers
<1>7. ASSUME s.told # SK!Never PROVE now - s.told <= 2 * Delay
  <2>1. s.told \in Nat
    BY <1>7, Fields
  <2>2. /\ s.pc = "attached" => s.since <= s.told
        /\ s.pc = "waiting" => now <= s.told + Delay
        /\ s.pc \in SK!Checking => s.since <= s.told + Delay
    BY <1>2, <1>7 DEF SK!TellingIsSeen
  <2> QED BY <1>2, <1>3, <1>4, <1>5, <2>1, <2>2, Numbers
<1>8. s.pc \in SK!Serving => now < Expiry + Delay
  BY <1>2 DEF SK!ExpiryIsSeen
<1> QED BY <1>1, <1>6, <1>7, <1>8

LEMMA SocketsCardinality == ASSUME NEW S PROVE SK!Cardinality(S) = Cardinality(S)
BY DEF SK!Cardinality, Cardinality, SK!IsFiniteSet, IsFiniteSet

LEMMA OneIn ==
    ASSUME SK!IInv
    PROVE  SK!TicketOpensOne
<1> DEFINE In == {c \in Openers : sockets[c].pc \in SK!Opening \cup SK!Serving}
<1>1. CASE In = {}
  BY <1>1, FS_EmptySet, SocketsCardinality DEF SK!TicketOpensOne
<1>2. ASSUME NEW c \in In PROVE SK!TicketOpensOne
  <2>1. In = {c}
    BY DEF SK!IInv, SK!OneIsIn
  <2>2. Cardinality({c}) = 1
    BY FS_Singleton
  <2>3. Cardinality(In) = Cardinality({c})
    BY <2>1
  <2> QED BY <2>2, <2>3, SocketsCardinality DEF SK!TicketOpensOne
<1> QED BY <1>1, <1>2

\* What the steps keep, in every state.
THEOREM SocketsInvariant ==
    ASSUME SK!SocketsAssumption
    PROVE  SK!Spec => []SK!IInv
<1>1. SK!Init => SK!IInv
  BY SocketsInit
<1>2. SK!IInv /\ [SK!Next]_(SK!vars) => SK!IInv'
  BY SocketsNext
<1> QED BY <1>1, <1>2, PTL DEF SK!Spec

\* A ticket opens one socket (redeem_socket_ticket), and a socket whose authority
\* ended is closed in time (recheck_until_refused, recheck).
THEOREM ClosesHold ==
    ASSUME SK!SocketsAssumption
    PROVE  SK!Spec => [](SK!TicketOpensOne /\ SK!ClosesInTime)
<1>1. SK!IInv => SK!TicketOpensOne /\ SK!ClosesInTime
  BY InTime, OneIn
<1> QED BY <1>1, SocketsInvariant, PTL

-----------------------------------------------------------------------------
\* The members of an org.

MemberCall ==
    [op : {"none", "leave", "close", "shut"} \union MB!Changes \union MB!Joins,
     pc : {"idle", "asked", "read"}, by : People, whom : People, to : MB!Roles,
     held : MB!Roles, read : MB!Roles]

MemberRow == [row : {"none", "live", "ended"}, role : MB!Roles]

\* Of all the roles only an owner outranks every other.
LEMMA RolesAre == /\ MB!Roles = {"member", "admin", "owner"}
                  /\ \A role \in MB!Roles : MB!AtMost("owner", role) => role = "owner"
<1>1. MB!Roles = {"member", "admin", "owner"}
  BY DEF MB!Roles, MB!Rank
<1>2. ~MB!AtMost("owner", "member") /\ ~MB!AtMost("owner", "admin")
  BY DEF MB!AtMost, MB!Rank
<1> QED BY <1>1, <1>2

LEMMA MemberShapes ==
    ASSUME MB!TypeOK
    PROVE  /\ moves \in [Calls -> MemberCall] /\ membership \in [People -> MemberRow]
           /\ user \in [People -> {"none", "live", "ended", "gone"}]
           /\ org \in {"open", "closed", "deleted"}
BY DEF MB!TypeOK, MemberCall, MemberRow

LEMMA NoMemberCall ==
    ASSUME MB!MembersAssumption
    PROVE  MB!NoCall \in MemberCall /\ MB!NoCall.op = "none"
BY RolesAre DEF MB!MembersAssumption, MB!NoCall, MemberCall

\* A call that comes or moves on, and leaves the rows as they are.
LEMMA MemberCallMoves ==
    ASSUME MB!IInv, NEW c \in Calls, NEW r \in MemberCall, moves' = [moves EXCEPT ![c] = r],
           UNCHANGED <<org, user, membership>>, asked' \in 0..MaxCalls, MB!CallHolds(r),
           r.op \in MB!Joins =>
              \A d \in Calls \ {c} : moves[d].op \in MB!Joins => moves[d].whom # r.whom
    PROVE  MB!IInv'
<1>1. /\ moves' \in [Calls -> MemberCall] /\ moves'[c] = r
      /\ \A d \in Calls \ {c} : moves'[d] = moves[d]
  BY MemberShapes DEF MB!IInv
<1>2. MB!TypeOK'
  BY <1>1 DEF MB!IInv, MB!TypeOK, MemberCall
<1>3. MB!UsersAgree'
  BY DEF MB!IInv, MB!UsersAgree
<1>4. MB!CallsHold'
  <2>1. MB!CallHolds(moves[c])'
    BY <1>1 DEF MB!CallHolds
  <2>2. ASSUME NEW d \in Calls \ {c} PROVE MB!CallHolds(moves[d])'
    <3>1. MB!CallHolds(moves[d]) /\ moves'[d] = moves[d]
      BY <1>1 DEF MB!IInv, MB!CallsHold
    <3> QED BY <3>1 DEF MB!CallHolds
  <2> QED BY <2>1, <2>2 DEF MB!CallsHold
<1>5. MB!CallsApart'
  <2>1. ASSUME NEW d \in Calls, NEW e \in Calls, d # e,
               moves'[d].op \in MB!Joins, moves'[e].op \in MB!Joins,
               moves'[d].whom = moves'[e].whom
        PROVE  FALSE
    <3>1. CASE d # c /\ e # c
      <4>1. moves'[d] = moves[d] /\ moves'[e] = moves[e]
        BY <1>1, <3>1
      <4> QED BY <2>1, <4>1 DEF MB!IInv, MB!CallsApart
    <3>2. CASE d = c
      <4>1. moves'[d] = r /\ moves'[e] = moves[e] /\ e \in Calls \ {c}
        BY <1>1, <2>1, <3>2
      <4> QED BY <2>1, <4>1
    <3>3. CASE e = c
      <4>1. moves'[e] = r /\ moves'[d] = moves[d] /\ d \in Calls \ {c}
        BY <1>1, <2>1, <3>3
      <4> QED BY <2>1, <4>1
    <3> QED BY <3>1, <3>2, <3>3
  <2> QED BY <2>1 DEF MB!CallsApart
<1> QED BY <1>2, <1>3, <1>4, <1>5 DEF MB!IInv

\* A call that lands is over.  What it wrote takes nobody back to who never joined,
\* and brings in nobody another call brings in.
LEMMA Landing ==
    ASSUME MB!MembersAssumption, MB!IInv, NEW c \in Calls, moves' = [moves EXCEPT ![c] = MB!NoCall],
           asked' = asked, org' \in {"open", "closed", "deleted"},
           user' \in [People -> {"none", "live", "ended", "gone"}],
           membership' \in [People -> MemberRow],
           \A p \in People : user[p] # "none" => user'[p] # "none",
           \A d \in Calls \ {c} : moves[d].op \in MB!Joins =>
               user'[moves[d].whom] = user[moves[d].whom],
           MB!UsersAgree'
    PROVE  MB!IInv'
<1>1. /\ moves' \in [Calls -> MemberCall] /\ moves'[c] = MB!NoCall
      /\ \A d \in Calls \ {c} : moves'[d] = moves[d]
  BY MemberShapes, NoMemberCall DEF MB!IInv
<1>2. MB!TypeOK'
  BY <1>1 DEF MB!IInv, MB!TypeOK, MemberCall, MemberRow
<1>3. ASSUME NEW d \in Calls \ {c} PROVE MB!CallHolds(moves[d])'
  <2>1. /\ MB!CallHolds(moves[d]) /\ moves'[d] = moves[d]
        /\ moves[d].whom \in People /\ moves[d].by \in People
    BY <1>1, MemberShapes DEF MB!IInv, MB!CallsHold, MemberCall
  <2> QED BY <2>1 DEF MB!CallHolds
<1>4. MB!CallsHold'
  BY <1>1, <1>3, NoMemberCall DEF MB!CallsHold, MB!CallHolds, MB!Changes, MB!Joins
<1>5. MB!CallsApart'
  BY <1>1, NoMemberCall DEF MB!IInv, MB!CallsApart, MB!Joins
<1> QED BY <1>2, <1>4, <1>5 DEF MB!IInv

\* An org starts with the one who made it.
LEMMA MembersInit == ASSUME MB!MembersAssumption, MB!Init PROVE MB!IInv
<1>1. MB!TypeOK
  <2>1. MB!NoRow \in MemberRow /\ [row |-> "live", role |-> "owner"] \in MemberRow
    BY RolesAre DEF MB!NoRow, MemberRow
  <2>2. asked \in 0..MaxCalls
    BY DEF MB!Init, MB!MembersAssumption
  <2> QED BY <2>1, <2>2, NoMemberCall DEF MB!Init, MB!TypeOK, MemberRow, MemberCall
<1>2. MB!UsersAgree
  BY DEF MB!Init, MB!UsersAgree, MB!NoRow
<1>3. \A c \in Calls : moves[c] = MB!NoCall
  BY DEF MB!Init
<1>4. MB!CallsHold /\ MB!CallsApart
  BY <1>3, NoMemberCall DEF MB!CallsHold, MB!CallHolds, MB!CallsApart, MB!Changes, MB!Joins
<1> QED BY <1>1, <1>2, <1>4 DEF MB!IInv

\* The calls that come.
LEMMA AskStep ==
    ASSUME MB!MembersAssumption, MB!IInv, NEW c \in Calls,
           MB!AskChange(c) \/ MB!AskLeave(c) \/ MB!AskClose(c) \/ MB!AskShut(c) \/ MB!AskJoin(c)
    PROVE  MB!IInv'
<1>1. asked \in Nat /\ MaxCalls \in Nat
  BY DEF MB!IInv, MB!TypeOK, MB!MembersAssumption
<1>2. ASSUME NEW r \in MemberCall, MB!Starts(c, r), MB!Free(c), MB!CallHolds(r),
             r.op \in MB!Joins => \A d \in Calls \ {c} : moves[d].op \in MB!Joins => moves[d].whom # r.whom
      PROVE  MB!IInv'
  <2>1. /\ moves' = [moves EXCEPT ![c] = r] /\ UNCHANGED <<org, user, membership>>
        /\ asked' \in 0..MaxCalls
    BY <1>1, <1>2 DEF MB!Starts, MB!Holds, MB!Free, MB!UnchangedRows
  <2> QED BY <1>2, <2>1, MemberCallMoves
<1>3. ASSUME NEW op \in MB!Changes \union {"leave", "close"}, NEW by \in People, NEW whom \in People,
             NEW to \in MB!Roles
      PROVE  MB!Asked(op, by, whom, to) \in MemberCall
  <2>1. membership[by].role \in MB!Roles
    BY MemberShapes DEF MB!IInv, MemberRow
  <2> QED BY <2>1, RolesAre DEF MB!Asked, MemberCall
<1>4. ASSUME NEW op \in MB!Joins \union {"shut"}, NEW whom \in People, NEW to \in MB!Roles
      PROVE  MB!FromOutside(op, whom, to) \in MemberCall
  BY RolesAre DEF MB!MembersAssumption, MB!FromOutside, MemberCall, MB!Joins
<1>5. "member" \in MB!Roles
  BY RolesAre
<1>6. CASE MB!AskChange(c)
  <2>1. PICK by \in People, whom \in People, op \in MB!Changes, to \in MB!Roles :
           whom # by /\ MB!Starts(c, MB!Asked(op, by, whom, to))
    BY <1>6 DEF MB!AskChange
  <2> DEFINE r == MB!Asked(op, by, whom, to)
  <2>2. r \in MemberCall /\ r.op = op /\ r.pc = "asked" /\ r.by = by /\ r.whom = whom
    BY <1>3 DEF MB!Asked
  <2>3. MB!CallHolds(r) /\ r.op \notin MB!Joins
    <3> HIDE DEF r
    <3> QED BY <2>1, <2>2 DEF MB!CallHolds, MB!Changes, MB!Joins
  <2> QED BY <1>2, <1>6, <2>1, <2>2, <2>3 DEF MB!AskChange
<1>7. CASE MB!AskLeave(c) \/ MB!AskClose(c)
  <2>1. PICK by \in People, op \in {"leave", "close"} : MB!Starts(c, MB!Asked(op, by, by, "member"))
    BY <1>7 DEF MB!AskLeave, MB!AskClose, MB!Owners, MB!CountedOwners, MB!Counted
  <2> DEFINE r == MB!Asked(op, by, by, "member")
  <2>2. r \in MemberCall /\ r.op = op /\ r.pc = "asked"
    BY <1>3, <1>5 DEF MB!Asked
  <2>3. MB!CallHolds(r) /\ r.op \notin MB!Joins
    <3> HIDE DEF r
    <3> QED BY <2>2 DEF MB!CallHolds, MB!Changes, MB!Joins
  <2> QED BY <1>2, <1>7, <2>1, <2>2, <2>3 DEF MB!AskLeave, MB!AskClose
<1>8. CASE MB!AskShut(c)
  <2> DEFINE r == MB!FromOutside("shut", Founder, "member")
  <2>1. r \in MemberCall /\ r.op = "shut"
    BY <1>4, <1>5 DEF MB!MembersAssumption, MB!FromOutside
  <2>2. MB!CallHolds(r) /\ r.op \notin MB!Joins
    <3> HIDE DEF r
    <3> QED BY <2>1 DEF MB!CallHolds, MB!Changes, MB!Joins
  <2> QED BY <1>2, <1>8, <2>1, <2>2 DEF MB!AskShut
<1>9. CASE MB!AskJoin(c)
  <2>1. PICK p \in People, op \in MB!Joins, to \in MB!Roles :
           /\ user[p] = "none" /\ MB!Starts(c, MB!FromOutside(op, p, to))
           /\ \A d \in Calls : moves[d].op \in MB!Joins => moves[d].whom # p
    BY <1>9 DEF MB!AskJoin
  <2> DEFINE r == MB!FromOutside(op, p, to)
  <2>2. r \in MemberCall /\ r.op = op /\ r.whom = p
    BY <1>4 DEF MB!FromOutside
  <2>3. MB!CallHolds(r)
    <3> HIDE DEF r
    <3> QED BY <2>1, <2>2 DEF MB!CallHolds, MB!Changes, MB!Joins
  <2> QED BY <1>2, <1>9, <2>1, <2>2, <2>3 DEF MB!AskJoin
<1> QED BY <1>6, <1>7, <1>8, <1>9

\* A call that is refused, or gives up, is over.
LEMMA MoveEnds ==
    ASSUME MB!MembersAssumption, MB!IInv, NEW c \in Calls, moves' = [moves EXCEPT ![c] = MB!NoCall],
           UNCHANGED <<org, user, membership, asked>>
    PROVE  MB!IInv'
<1>1. MB!CallHolds(MB!NoCall) /\ asked' \in 0..MaxCalls
  BY NoMemberCall DEF MB!CallHolds, MB!Changes, MB!Joins, MB!IInv, MB!TypeOK
<1> QED BY <1>1, NoMemberCall, MemberCallMoves DEF MB!Joins

\* The reads: whom a call is about is somebody who joined.
LEMMA ReadsMove ==
    ASSUME MB!MembersAssumption, MB!IInv, NEW c \in Calls, NEW role \in MB!Roles,
           moves[c].op \notin MB!Joins,
           NEW r, r = [moves[c] EXCEPT !.pc = "read", !.read = role],
           moves' = [moves EXCEPT ![c] = r], UNCHANGED <<org, user, membership, asked>>,
           moves[c].op \in MB!Changes => MB!Here(moves[c].whom),
           moves[c].op = "leave" => MB!Here(moves[c].by)
    PROVE  MB!IInv'
<1> DEFINE k == moves[c]
           a == [k EXCEPT !.pc = "read"]
           b == [a EXCEPT !.read = role]
<1>1. k \in MemberCall /\ MB!CallHolds(k)
  BY MemberShapes DEF MB!IInv, MB!CallsHold
<1>2. a \in MemberCall /\ a.op = k.op /\ a.by = k.by /\ a.whom = k.whom /\ a.pc = "read"
  BY <1>1 DEF MemberCall
<1>3. r = b
  OBVIOUS
<1> HIDE DEF a
<1>4. b \in MemberCall /\ b.op = k.op /\ b.by = k.by /\ b.whom = k.whom /\ b.pc = "read"
  BY <1>2 DEF MemberCall
<1> HIDE DEF b
<1>5. MB!CallHolds(b)
  BY <1>1, <1>4 DEF MB!CallHolds, MB!Here
<1>6. asked' \in 0..MaxCalls
  BY DEF MB!IInv, MB!TypeOK
<1> HIDE DEF k
<1> QED BY <1>3, <1>4, <1>5, <1>6, MemberCallMoves DEF k

LEMMA ReadStep ==
    ASSUME MB!MembersAssumption, MB!IInv, NEW c \in Calls, MB!ReadTarget(c) \/ MB!ReadPlaces(c) \/ MB!ReadOrg(c)
    PROVE  MB!IInv'
<1>1. UNCHANGED <<org, user, membership, asked>>
  BY DEF MB!ReadTarget, MB!ReadPlaces, MB!ReadOrg, MB!UnchangedRows
<1>2. /\ moves[c] \in MemberCall
      /\ \A p \in People : membership[p].role \in MB!Roles
  BY MemberShapes DEF MB!IInv, MemberRow
<1>3. CASE moves' = [moves EXCEPT ![c] = MB!NoCall]
  BY <1>1, <1>3, MoveEnds
<1>4. CASE MB!ReadTarget(c) /\ moves' # [moves EXCEPT ![c] = MB!NoCall]
  <2>1. PICK role \in MB!Roles : role = membership[moves[c].whom].role
    BY <1>2 DEF MemberCall
  <2>2. /\ moves[c].op \in MB!Changes
        /\ moves' = [moves EXCEPT ![c] = [moves[c] EXCEPT !.pc = "read", !.read = role]]
        /\ MB!Here(moves[c].whom)
    BY <1>4, <2>1 DEF MB!ReadTarget, MB!Holds, MB!Ends
  <2>3. PICK r : r = [moves[c] EXCEPT !.pc = "read", !.read = role]
    OBVIOUS
  <2> QED BY <1>1, <2>2, <2>3, ReadsMove DEF MB!Changes, MB!Joins
<1>5. CASE MB!ReadPlaces(c) /\ moves' # [moves EXCEPT ![c] = MB!NoCall]
  <2>1. PICK role \in MB!Roles : role = membership[moves[c].by].role
    BY <1>2 DEF MemberCall
  <2>2. /\ moves[c].op = "leave"
        /\ moves' = [moves EXCEPT ![c] = [moves[c] EXCEPT !.pc = "read", !.read = role]]
        /\ MB!Here(moves[c].by)
    BY <1>5, <2>1 DEF MB!ReadPlaces, MB!Holds, MB!Ends
  <2>3. PICK r : r = [moves[c] EXCEPT !.pc = "read", !.read = role]
    OBVIOUS
  <2> QED BY <1>1, <2>2, <2>3, ReadsMove DEF MB!Changes, MB!Joins
<1>6. CASE MB!ReadOrg(c) /\ moves' # [moves EXCEPT ![c] = MB!NoCall]
  <2> DEFINE r == [moves[c] EXCEPT !.pc = "read"]
  <2>1. moves[c].op = "close" /\ moves' = [moves EXCEPT ![c] = r]
    BY <1>6 DEF MB!ReadOrg, MB!Holds, MB!Ends
  <2>2. r \in MemberCall /\ r.op = "close"
    BY <1>2, <2>1 DEF MemberCall
  <2> HIDE DEF r
  <2>3. MB!CallHolds(r) /\ asked' \in 0..MaxCalls
    BY <1>1, <2>2 DEF MB!CallHolds, MB!Changes, MB!Joins, MB!IInv, MB!TypeOK
  <2> QED BY <1>1, <2>1, <2>2, <2>3, MemberCallMoves DEF MB!Joins
<1> QED BY <1>3, <1>4, <1>5, <1>6

\* What a landing finds.
LEMMA CallAtLanding ==
    ASSUME MB!IInv, NEW c \in Calls, moves[c].pc = "read"
    PROVE  /\ moves[c] \in MemberCall /\ MB!CallHolds(moves[c])
           /\ moves[c].whom \in People /\ moves[c].by \in People
           /\ moves[c].op \in MB!Changes => user[moves[c].whom] # "none"
           /\ \A d \in Calls : moves[d].op \in MB!Joins =>
                 moves[d].whom \in People /\ user[moves[d].whom] = "none"
BY MemberShapes DEF MB!IInv, MB!CallsHold, MB!CallHolds, MemberCall

LEMMA WriteMembershipStep ==
    ASSUME MB!MembersAssumption, MB!IInv, NEW c \in Calls, MB!WriteMembership(c) PROVE MB!IInv'
<1> DEFINE k == moves[c]
           row == [row |-> "live", role |-> k.to]
<1>1. /\ k.op = "role" /\ k.pc = "read" /\ moves' = [moves EXCEPT ![c] = MB!NoCall] /\ asked' = asked
      /\ UNCHANGED <<org, user>>
      /\ membership' = IF membership[k.whom].row = "ended" THEN membership
                       ELSE [membership EXCEPT ![k.whom] = row]
  BY DEF MB!WriteMembership, MB!Lands, MB!Ends, MB!Holds
<1>2. k \in MemberCall /\ k.whom \in People /\ user[k.whom] # "none"
  BY <1>1, CallAtLanding DEF MB!Changes
<1>3. row \in MemberRow
  BY <1>2 DEF MemberCall, MemberRow
<1> HIDE DEF k, row
<1>4. /\ membership' \in [People -> MemberRow]
      /\ \A p \in People : p # k.whom => membership'[p] = membership[p]
  BY <1>1, <1>2, <1>3, MemberShapes DEF MB!IInv
<1>5. MB!UsersAgree'
  BY <1>1, <1>2, <1>4 DEF MB!IInv, MB!UsersAgree
<1>6. org' \in {"open", "closed", "deleted"} /\ user' \in [People -> {"none", "live", "ended", "gone"}]
  BY <1>1, MemberShapes DEF MB!IInv
<1> QED BY <1>1, <1>4, <1>5, <1>6, Landing

LEMMA RemoveMemberStep ==
    ASSUME MB!MembersAssumption, MB!IInv, NEW c \in Calls, MB!RemoveMember(c) PROVE MB!IInv'
<1> DEFINE k == moves[c]
           row == [row |-> "ended", role |-> k.read]
<1>1. /\ k.op = "remove" /\ k.pc = "read" /\ moves' = [moves EXCEPT ![c] = MB!NoCall] /\ asked' = asked
      /\ org' = org
      /\ \/ UNCHANGED <<user, membership>>
         \/ /\ user' = [user EXCEPT ![k.whom] = "ended"]
            /\ membership' = [membership EXCEPT ![k.whom] = row]
  BY DEF MB!RemoveMember, MB!Lands, MB!Ends, MB!Holds
<1>2. k \in MemberCall /\ k.whom \in People /\ user[k.whom] # "none"
  BY <1>1, CallAtLanding DEF MB!Changes
<1>3. row \in MemberRow
  BY <1>2 DEF MemberCall, MemberRow
<1>4. \A d \in Calls : moves[d].op \in MB!Joins => moves[d].whom \in People /\ moves[d].whom # k.whom
  BY <1>1, <1>2, CallAtLanding
<1> HIDE DEF k, row
<1>5. /\ membership' \in [People -> MemberRow] /\ user' \in [People -> {"none", "live", "ended", "gone"}]
      /\ \A p \in People : p # k.whom => membership'[p] = membership[p] /\ user'[p] = user[p]
      /\ user'[k.whom] # "none"
  BY <1>1, <1>2, <1>3, MemberShapes DEF MB!IInv
<1>6. MB!UsersAgree'
  BY <1>5 DEF MB!IInv, MB!UsersAgree
<1>7. org' \in {"open", "closed", "deleted"}
  BY <1>1, MemberShapes DEF MB!IInv
<1> QED BY <1>1, <1>2, <1>4, <1>5, <1>6, <1>7, Landing

LEMMA DeletePersonStep ==
    ASSUME MB!MembersAssumption, MB!IInv, NEW c \in Calls, MB!DeletePerson(c) PROVE MB!IInv'
<1> DEFINE k == moves[c]
<1>1. /\ k.op = "leave" /\ k.pc = "read" /\ moves' = [moves EXCEPT ![c] = MB!NoCall]
      /\ asked' = asked /\ org' = org
      /\ \/ UNCHANGED <<user, membership>>
         \/ /\ user' = [user EXCEPT ![k.by] = "gone"]
            /\ membership' = [membership EXCEPT ![k.by] = MB!NoRow]
  BY DEF MB!DeletePerson, MB!Lands, MB!Ends, MB!Holds
<1>2. k.by \in People /\ user[k.by] # "none"
  BY <1>1, CallAtLanding DEF MB!CallHolds
<1>3. MB!NoRow \in MemberRow /\ MB!NoRow.row = "none"
  BY RolesAre DEF MB!NoRow, MemberRow
<1>4. \A d \in Calls : moves[d].op \in MB!Joins => moves[d].whom \in People /\ moves[d].whom # k.by
  BY <1>1, <1>2, CallAtLanding
<1> HIDE DEF k
<1>5. /\ membership' \in [People -> MemberRow] /\ user' \in [People -> {"none", "live", "ended", "gone"}]
      /\ \A p \in People : p # k.by => membership'[p] = membership[p] /\ user'[p] = user[p]
      /\ user'[k.by] # "none"
  BY <1>1, <1>2, <1>3, MemberShapes DEF MB!IInv
<1>6. MB!UsersAgree'
  BY <1>5 DEF MB!IInv, MB!UsersAgree
<1>7. org' \in {"open", "closed", "deleted"}
  BY <1>1, MemberShapes DEF MB!IInv
<1> QED BY <1>1, <1>2, <1>4, <1>5, <1>6, <1>7, Landing

LEMMA CloseStep ==
    ASSUME MB!MembersAssumption, MB!IInv, NEW c \in Calls, MB!WriteClosedOrg(c)
    PROVE  MB!IInv'
<1>1. moves' = [moves EXCEPT ![c] = MB!NoCall] /\ asked' = asked /\ moves[c].pc = "read"
  BY DEF MB!WriteClosedOrg, MB!Lands, MB!Ends, MB!Holds
<1>2. CASE UNCHANGED <<org, user, membership>>
  BY <1>1, <1>2, MoveEnds
<1>3. CASE ~UNCHANGED <<org, user, membership>>
  <2>1. /\ org' = "closed"
        /\ user' = [p \in People |-> IF user[p] = "live" THEN "ended" ELSE user[p]]
        /\ membership' = [p \in People |-> IF p \in MB!Counted THEN [membership[p] EXCEPT !.row = "ended"]
                                           ELSE membership[p]]
    BY <1>3 DEF MB!WriteClosedOrg, MB!UnchangedRows
  <2>2. user' \in [People -> {"none", "live", "ended", "gone"}]
    BY <2>1, MemberShapes DEF MB!IInv
  <2>3. ASSUME NEW p \in People
        PROVE  /\ membership'[p] \in MemberRow
               /\ user'[p] = "none" <=> user[p] = "none"
               /\ user[p] = "none" => user'[p] = user[p]
               /\ membership[p].row = "none" => membership'[p].row = "none"
    <3> DEFINE r == [membership[p] EXCEPT !.row = "ended"]
    <3>1. membership[p] \in MemberRow /\ r \in MemberRow
      BY MemberShapes DEF MB!IInv, MemberRow
    <3>2. membership'[p] = IF p \in MB!Counted THEN r ELSE membership[p]
      BY <2>1
    <3>3. user'[p] = IF user[p] = "live" THEN "ended" ELSE user[p]
      BY <2>1
    <3> HIDE DEF r
    <3> QED BY <3>1, <3>2, <3>3 DEF MB!Counted
  <2>4. membership' \in [People -> MemberRow]
    BY <2>1, <2>3
  <2>5. MB!UsersAgree'
    BY <2>3 DEF MB!IInv, MB!UsersAgree
  <2>6. \A d \in Calls : moves[d].op \in MB!Joins => user'[moves[d].whom] = user[moves[d].whom]
    BY <1>1, <2>3, CallAtLanding
  <2> QED BY <1>1, <2>1, <2>2, <2>3, <2>4, <2>5, <2>6, Landing
<1> QED BY <1>2, <1>3

LEMMA CreateMemberStep ==
    ASSUME MB!MembersAssumption, MB!IInv, NEW c \in Calls, MB!CreateMember(c) PROVE MB!IInv'
<1> DEFINE k == moves[c]
           row == [row |-> "live", role |-> k.to]
<1>1. /\ k.op \in MB!Joins /\ moves' = [moves EXCEPT ![c] = MB!NoCall] /\ asked' = asked /\ org' = org
      /\ k.pc = "read"
      /\ user' = [user EXCEPT ![k.whom] = "live"] /\ membership' = [membership EXCEPT ![k.whom] = row]
  BY DEF MB!CreateMember, MB!Lands, MB!Ends, MB!Holds
<1>2. k \in MemberCall /\ k.whom \in People
  BY <1>1, CallAtLanding
<1>3. row \in MemberRow
  BY <1>2 DEF MemberCall, MemberRow
<1>4. \A d \in Calls \ {c} : moves[d].op \in MB!Joins => moves[d].whom \in People /\ moves[d].whom # k.whom
  BY <1>1, CallAtLanding DEF MB!IInv, MB!CallsApart
<1> HIDE DEF k, row
<1>5. /\ membership' \in [People -> MemberRow] /\ user' \in [People -> {"none", "live", "ended", "gone"}]
      /\ \A p \in People : p # k.whom => membership'[p] = membership[p] /\ user'[p] = user[p]
      /\ user'[k.whom] # "none"
  BY <1>1, <1>2, <1>3, MemberShapes DEF MB!IInv
<1>6. MB!UsersAgree'
  BY <1>5 DEF MB!IInv, MB!UsersAgree
<1>7. org' \in {"open", "closed", "deleted"}
  BY <1>1, MemberShapes DEF MB!IInv
<1> QED BY <1>1, <1>2, <1>4, <1>5, <1>6, <1>7, Landing

LEMMA DeletesStep == ASSUME MB!IInv, MB!DeleteClosedOrg PROVE MB!IInv'
<1>1. org' = "deleted" /\ UNCHANGED <<user, membership, moves, asked>>
  BY DEF MB!DeleteClosedOrg
<1>2. MB!CallsHold'
  BY <1>1 DEF MB!IInv, MB!CallsHold, MB!CallHolds
<1> QED BY <1>1, <1>2 DEF MB!IInv, MB!TypeOK, MB!UsersAgree, MB!CallsApart

\* Every step of the calls, and of the worker, keeps the invariant.
LEMMA MembersNext ==
    ASSUME MB!MembersAssumption, MB!IInv, [MB!Next]_(MB!vars)
    PROVE  MB!IInv'
<1>1. CASE UNCHANGED MB!vars
  BY <1>1 DEF MB!vars, MB!IInv, MB!TypeOK, MB!UsersAgree, MB!CallsHold, MB!CallHolds, MB!CallsApart
<1> QED BY <1>1, DeletesStep, AskStep, ReadStep, WriteMembershipStep, RemoveMemberStep,
           DeletePersonStep, CloseStep, CreateMemberStep DEF MB!Next, MB!Call

\* An owner, spelled out.
LEMMA OwnersAre ==
    /\ \A p : p \in MB!Owners <=>
          p \in People /\ user[p] = "live" /\ membership[p].row = "live" /\ membership[p].role = "owner"
    /\ \A p : p \in MB!Owners' <=>
          p \in People /\ user'[p] = "live" /\ membership'[p].row = "live" /\ membership'[p].role = "owner"
BY DEF MB!Owners, MB!CountedOwners, MB!Counted

\* A role that is written, or a member who goes, leaves the owner who asked for it,
\* or the one there was, as long as what the call goes by is so.
LEMMA ChangeLeavesOwner ==
    ASSUME MB!IInv, NEW c \in Calls, moves[c].op \in MB!Changes, moves[c].pc = "read",
           MB!StillSo(moves[c]), MB!Owners # {},
           \A p \in People : p # moves[c].whom => user'[p] = user[p] /\ membership'[p] = membership[p]
    PROVE  MB!Owners' # {}
<1> DEFINE k == moves[c]
<1>1. k \in MemberCall /\ k.by \in People /\ k.whom \in People /\ k.whom # k.by
  BY CallAtLanding DEF MB!CallHolds
<1>2. /\ MB!Here(k.by) /\ membership[k.by].role = k.held
      /\ MB!AtMost(membership[k.whom].role, k.held)
  BY DEF MB!StillSo
<1> HIDE DEF k
<1>3. PICK o \in People : user[o] = "live" /\ membership[o].row = "live" /\ membership[o].role = "owner"
  BY OwnersAre
<1>4. CASE o # k.whom
  BY <1>3, <1>4, OwnersAre DEF k
<1>5. CASE o = k.whom
  <2>1. k.held \in MB!Roles /\ MB!AtMost("owner", k.held)
    BY <1>1, <1>2, <1>3, <1>5 DEF MemberCall
  <2>2. PICK held \in MB!Roles : held = k.held /\ MB!AtMost("owner", held)
    BY <2>1
  <2>3. held = "owner"
    BY <2>2, RolesAre
  <2>4. membership[k.by].role = "owner"
    BY <1>2, <2>2, <2>3
  <2>5. user[k.by] = "live" /\ membership[k.by].row = "live"
    BY <1>2 DEF MB!Here, MB!Counted
  <2> QED BY <1>1, <2>4, <2>5, OwnersAre DEF k
<1> QED BY <1>4, <1>5

\* A person who leaves leaves another owner, as long as the role they were read to
\* have is theirs: the owners are locked and counted again.
LEMMA LeaverLeavesOwner ==
    ASSUME MB!IInv, NEW c \in Calls, MB!DeletePerson(c), MB!StillSo(moves[c]), MB!Owners # {}
    PROVE  MB!Owners' # {}
<1> DEFINE k == moves[c]
<1>1. /\ k.op = "leave" /\ k.pc = "read"
      /\ \/ UNCHANGED <<user, membership>>
         \/ /\ MB!KeepsAnOwner(k.by, k.read)
            /\ user' = [user EXCEPT ![k.by] = "gone"]
            /\ membership' = [membership EXCEPT ![k.by] = MB!NoRow]
  BY DEF MB!DeletePerson, MB!Lands
<1>2. k.by \in People /\ membership[k.by].role = k.read
  BY <1>1, CallAtLanding DEF MB!StillSo
<1> HIDE DEF k
<1>3. CASE UNCHANGED <<user, membership>>
  BY <1>3, OwnersAre
<1>4. CASE /\ MB!KeepsAnOwner(k.by, k.read)
           /\ user' = [user EXCEPT ![k.by] = "gone"]
           /\ membership' = [membership EXCEPT ![k.by] = MB!NoRow]
  <2>1. PICK o \in MB!Owners : o # k.by
    BY <1>2, <1>4, OwnersAre DEF MB!KeepsAnOwner
  <2>2. user'[o] = user[o] /\ membership'[o] = membership[o] /\ o \in People
    BY <1>4, <2>1, OwnersAre, MemberShapes DEF MB!IInv
  <2> QED BY <2>1, <2>2, OwnersAre
<1> QED BY <1>1, <1>3, <1>4

\* A person who comes leaves the others as they are.
LEMMA JoinLeavesOwner ==
    ASSUME MB!IInv, NEW c \in Calls, MB!CreateMember(c), MB!Owners # {}
    PROVE  MB!Owners' # {}
<1> DEFINE k == moves[c]
           row == [row |-> "live", role |-> k.to]
<1>1. /\ k.op \in MB!Joins /\ k.pc = "read"
      /\ user' = [user EXCEPT ![k.whom] = "live"] /\ membership' = [membership EXCEPT ![k.whom] = row]
  BY DEF MB!CreateMember, MB!Lands
<1>2. user[k.whom] = "none"
  BY <1>1, CallAtLanding
<1>3. PICK o \in MB!Owners : o # k.whom
  BY <1>2, OwnersAre
<1> HIDE DEF k, row
<1>4. user'[o] = user[o] /\ membership'[o] = membership[o] /\ o \in People
  BY <1>1, <1>3, OwnersAre, MemberShapes DEF MB!IInv
<1> QED BY <1>3, <1>4, OwnersAre

LEMMA OwnerStaysStep ==
    ASSUME MB!MembersAssumption, MB!IInv, [MB!Next]_(MB!vars)
    PROVE  MB!OwnerStays
<1> SUFFICES ASSUME org = "open", MB!Owners # {}, org' = "open", MB!Owners' = {}
             PROVE  \E c \in Calls :
                       moves[c].pc = "read" /\ moves'[c] = MB!NoCall /\ ~MB!StillSo(moves[c])
  BY DEF MB!OwnerStays
<1>1. ~UNCHANGED <<user, membership>>
  BY OwnersAre
<1>2. PICK c \in Calls : \/ MB!WriteMembership(c) \/ MB!RemoveMember(c) \/ MB!DeletePerson(c)
                         \/ MB!WriteClosedOrg(c) \/ MB!CreateMember(c)
  BY <1>1 DEF MB!Next, MB!Call, MB!vars, MB!DeleteClosedOrg, MB!AskChange, MB!AskLeave, MB!AskClose,
     MB!AskShut, MB!AskJoin, MB!Starts, MB!ReadTarget, MB!ReadPlaces, MB!ReadOrg, MB!UnchangedRows
<1>3. moves[c].pc = "read" /\ moves' = [moves EXCEPT ![c] = MB!NoCall]
  BY <1>2 DEF MB!WriteMembership, MB!RemoveMember, MB!DeletePerson, MB!WriteClosedOrg, MB!CreateMember,
     MB!Lands, MB!Ends, MB!Holds
<1>4. moves'[c] = MB!NoCall
  BY <1>3, MemberShapes DEF MB!IInv
<1>5. ~MB!WriteClosedOrg(c)
  BY <1>1 DEF MB!WriteClosedOrg, MB!UnchangedRows
<1>6. CASE MB!WriteMembership(c)
  <2>1. /\ moves[c].op \in MB!Changes
        /\ \A p \in People : p # moves[c].whom => user'[p] = user[p] /\ membership'[p] = membership[p]
    BY <1>6, MemberShapes DEF MB!WriteMembership, MB!Lands, MB!Changes, MB!IInv
  <2> QED BY <1>3, <1>4, <2>1, ChangeLeavesOwner
<1>7. CASE MB!RemoveMember(c)
  <2>1. /\ moves[c].op \in MB!Changes
        /\ \A p \in People : p # moves[c].whom => user'[p] = user[p] /\ membership'[p] = membership[p]
    BY <1>7, MemberShapes DEF MB!RemoveMember, MB!Lands, MB!Changes, MB!IInv
  <2> QED BY <1>3, <1>4, <2>1, ChangeLeavesOwner
<1>8. CASE MB!DeletePerson(c)
  BY <1>3, <1>4, <1>8, LeaverLeavesOwner
<1> QED BY <1>2, <1>5, <1>6, <1>7, <1>8, JoinLeavesOwner

\* Type correctness, and what the calls under way hold to.
THEOREM MembersInvariant ==
    ASSUME MB!MembersAssumption
    PROVE  MB!Spec => []MB!IInv
<1>1. MB!Init => MB!IInv
  BY MembersInit
<1>2. MB!IInv /\ [MB!Next]_(MB!vars) => MB!IInv'
  BY MembersNext
<1> QED BY <1>1, <1>2, PTL DEF MB!Spec

\* An org that nobody closed loses its last owner only to a call that what it goes
\* by is no longer so for: never to the accounts of two owners deleted at once
\* (delete_person, _last_owner, left_without_owner).
THEOREM OwnerHolds ==
    ASSUME MB!MembersAssumption
    PROVE  MB!Spec => [][MB!OwnerStays]_(MB!vars)
<1>1. MB!IInv /\ [MB!Next]_(MB!vars) => [MB!OwnerStays]_(MB!vars)
  BY OwnerStaysStep
<1> QED BY <1>1, MembersInvariant, PTL DEF MB!Spec

-----------------------------------------------------------------------------
\* The credentials of a person.

CredType == [kind : SI!Kinds, visit : Visits \union {SI!NoVisit}, live : BOOLEAN, code : 0..MaxStep]
PresentedType ==
    [op : {"none", "verify", "exchange", "mint", "switch", "logout"},
     pc : {"idle", "presented", "coded", "read"}, cred : 0..MaxCreds, code : 0..MaxStep]

\* The bounds are numbers.
LEMMA CredNumbers ==
    ASSUME SI!SignInsAssumption
    PROVE  MaxCreds \in Nat /\ MaxStep \in Nat /\ Window \in Nat /\ MaxStep > 0
BY Zenon DEF SI!SignInsAssumption

\* What the variables hold.
LEMMA CredShapes ==
    ASSUME SI!SignInsAssumption, SI!TypeOK
    PROVE  /\ MaxCreds \in Nat /\ MaxStep \in Nat
           /\ creds \in [SI!Ids -> CredType] /\ presented \in [Calls -> PresentedType]
           /\ made \in 0..MaxCreds /\ made \in Nat /\ lastStep \in 0..MaxStep
           /\ step \in 1..MaxStep /\ visited \subseteq Visits
           /\ SI!Ids \subseteq Nat
<1>1. MaxCreds \in Nat /\ MaxStep \in Nat
  BY CredNumbers
<1>2. made \in 0..MaxCreds
  BY DEF SI!TypeOK
<1> QED BY <1>1, <1>2 DEF SI!TypeOK, CredType, PresentedType, SI!Ids

\* Two live credentials of one visit are one: OneLivePerVisit without a count.
OneLive == \A i, j \in SI!Ids : creds[i].live /\ creds[j].live /\ creds[i].visit = creds[j].visit
                                   /\ creds[i].visit \in Visits => i = j

\* A finite set with at most one member, without counting.
LEMMA AtMostOne ==
    ASSUME NEW S, IsFiniteSet(S)
    PROVE  Cardinality(S) <= 1 <=> \A i, j \in S : i = j
<1>1. CASE S = {}
  BY <1>1, FS_EmptySet
<1>2. ASSUME NEW i \in S PROVE Cardinality(S) <= 1 <=> \A a, b \in S : a = b
  <2>1. /\ IsFiniteSet(S \ {i}) /\ Cardinality(S \ {i}) = Cardinality(S) - 1
        /\ Cardinality(S \ {i}) \in Nat /\ Cardinality(S) \in Nat
    BY <1>2, FS_RemoveElement, FS_CardinalityType
  <2>2. Cardinality(S \ {i}) = 0 <=> S \ {i} = {}
    BY <2>1, FS_EmptySet
  <2>3. Cardinality(S) <= 1 <=> S \ {i} = {}
    BY <2>1, <2>2
  <2> QED BY <1>2, <2>3
<1> QED BY <1>1, <1>2

LEMMA LiveAreFinite ==
    ASSUME SI!SignInsAssumption, NEW S \in SUBSET SI!Ids
    PROVE  IsFiniteSet(S)
<1>1. IsFiniteSet(1..MaxCreds)
  BY CredNumbers, FS_Interval
<1> QED BY <1>1, FS_Subset DEF SI!Ids

LEMMA SignInsCardinality == ASSUME NEW S PROVE SI!Cardinality(S) = Cardinality(S)
BY DEF SI!Cardinality, Cardinality

LEMMA CountIsOne ==
    ASSUME SI!SignInsAssumption
    PROVE  SI!OneLivePerVisit <=> OneLive
<1>1. ASSUME NEW v \in Visits
      PROVE  Cardinality(SI!LiveOf(v)) <= 1 <=> \A i, j \in SI!LiveOf(v) : i = j
  BY LiveAreFinite, AtMostOne DEF SI!LiveOf
<1>2. OneLive <=> \A v \in Visits : \A i, j \in SI!LiveOf(v) : i = j
  BY DEF OneLive, SI!LiveOf
<1> QED BY <1>1, <1>2, SignInsCardinality DEF SI!OneLivePerVisit

LEMMA CountIsOneNext ==
    ASSUME SI!SignInsAssumption
    PROVE  SI!OneLivePerVisit' <=> OneLive'
<1>1. ASSUME NEW v \in Visits
      PROVE  Cardinality(SI!LiveOf(v)') <= 1 <=> \A i, j \in SI!LiveOf(v)' : i = j
  BY LiveAreFinite, AtMostOne DEF SI!LiveOf
<1>2. OneLive' <=> \A v \in Visits : \A i, j \in SI!LiveOf(v)' : i = j
  BY DEF OneLive, SI!LiveOf
<1> QED BY <1>1, <1>2, SignInsCardinality DEF SI!OneLivePerVisit

\* What each step keeps: the invariant with the count spelled out.
SignInsKept == SI!TypeOK /\ SI!MadeIsVisited /\ SI!CodesAreSpent /\ SI!CodeVerifiesOnce /\ OneLive

LEMMA SignInsInit == ASSUME SI!SignInsAssumption, SI!Init PROVE SignInsKept
<1>1. SI!NoCred \in CredType /\ SI!NoCall \in PresentedType /\ SI!NoCall.pc = "idle" /\ SI!NoCall.code = 0
      /\ SI!NoCred.code = 0 /\ ~SI!NoCred.live
  BY CredNumbers DEF SI!NoCred, SI!NoCall, CredType, PresentedType, SI!Kinds, SI!NoVisit
<1>2. SI!TypeOK
  BY <1>1, CredNumbers DEF SI!Init, SI!TypeOK, CredType, PresentedType
<1>3. SI!MadeIsVisited /\ SI!CodesAreSpent /\ SI!CodeVerifiesOnce /\ OneLive
  <2>1. \A i \in SI!Ids : creds[i] = SI!NoCred /\ i > 0
    BY CredNumbers DEF SI!Init, SI!Ids
  <2> QED BY <1>1, <2>1 DEF SI!Init, SI!MadeIsVisited, SI!CodesAreSpent,
                            SI!CodeVerifiesOnce, OneLive
<1> QED BY <1>2, <1>3 DEF SignInsKept

\* A call that moves on with the codes it has, or none.
LEMMA PresentedMoves ==
    ASSUME SI!SignInsAssumption, SignInsKept, NEW c \in Calls, NEW r \in PresentedType,
           presented' = [presented EXCEPT ![c] = r],
           UNCHANGED <<creds, made, visited, step, lastStep>>,
           r.pc # "idle" => r.cred \in 1..made,
           r.code = presented[c].code \/ r.code = 0
    PROVE  SignInsKept'
<1>1. /\ presented'[c] = r /\ \A d \in Calls \ {c} : presented'[d] = presented[d]
      /\ presented' \in [Calls -> PresentedType]
  BY CredShapes DEF SignInsKept
<1>2. SI!TypeOK'
  BY <1>1 DEF SignInsKept, SI!TypeOK, PresentedType
<1>3. SI!MadeIsVisited'
  BY <1>1 DEF SignInsKept, SI!MadeIsVisited
<1>4. SI!CodesAreSpent'
  BY <1>1, CredShapes DEF SignInsKept, SI!CodesAreSpent
<1> QED BY <1>2, <1>3, <1>4 DEF SignInsKept, SI!CodeVerifiesOnce, OneLive

\* A call takes a credential that lives.
LEMMA PresentStep ==
    ASSUME SI!SignInsAssumption, SignInsKept, NEW c \in Calls, SI!Present(c)
    PROVE  SignInsKept'
<1>1. PICK op \in {"verify", "exchange", "mint", "switch", "logout"}, i \in SI!Ids :
         /\ creds[i].live
         /\ presented' = [presented EXCEPT ![c] = [op |-> op, pc |-> "presented", cred |-> i, code |-> 0]]
  BY DEF SI!Present, SI!Holds
<1> DEFINE r == [op |-> op, pc |-> "presented", cred |-> i, code |-> 0]
<1>3. i \in 1..made
  <2>1. ~(i > made)
    BY <1>1 DEF SignInsKept, SI!MadeIsVisited, SI!NoCred
  <2> QED BY <2>1, CredShapes, CredNumbers DEF SignInsKept, SI!Ids
<1>4. r \in PresentedType /\ r.cred = i /\ r.code = 0
  BY <1>3, CredShapes DEF SignInsKept, PresentedType, SI!Ids
<1> HIDE DEF r
<1> QED BY <1>1, <1>3, <1>4, PresentedMoves DEF SI!Present, r

LEMMA ReadCredStep ==
    ASSUME SI!SignInsAssumption, SignInsKept, NEW c \in Calls, SI!Read(c)
    PROVE  SignInsKept'
<1>1. presented[c] \in PresentedType /\ presented[c].pc # "idle" /\ presented[c].cred \in 1..made
  BY CredShapes DEF SignInsKept, SI!Read, SI!MadeIsVisited
<1>2. SI!NoCall \in PresentedType /\ SI!NoCall.pc = "idle" /\ SI!NoCall.code = 0
  BY CredNumbers DEF SI!NoCall, PresentedType
<1> DEFINE r == [presented[c] EXCEPT !.pc = "read"]
<1>3. r \in PresentedType /\ r.cred = presented[c].cred /\ r.code = presented[c].code
  BY <1>1 DEF PresentedType
<1>4. presented' = [presented EXCEPT ![c] = SI!NoCall] \/ presented' = [presented EXCEPT ![c] = r]
  BY DEF SI!Read, SI!Ends, SI!Holds
<1> HIDE DEF r
<1>5. UNCHANGED <<creds, made, visited, step, lastStep>>
  BY DEF SI!Read
<1> QED BY <1>1, <1>2, <1>3, <1>4, <1>5, PresentedMoves

\* The code that passes is later than all that passed before.
LEMMA UseStepStep ==
    ASSUME SI!SignInsAssumption, SignInsKept, NEW c \in Calls, SI!UseStep(c)
    PROVE  SignInsKept'
<1>1. PICK code \in SI!Codes :
         /\ presented[c].pc = "presented"
         /\ IF SI!Fresh(code)
            THEN /\ lastStep' = code
                 /\ SI!Holds(c, [op |-> "verify", pc |-> "coded", cred |-> presented[c].cred,
                                 code |-> code])
            ELSE UNCHANGED lastStep /\ SI!Ends(c)
         /\ UNCHANGED <<creds, made, visited, step>>
  BY DEF SI!UseStep
<1>2. presented[c] \in PresentedType /\ presented[c].cred \in 1..made
  BY <1>1, CredShapes DEF SignInsKept, SI!MadeIsVisited
<1>3. CASE ~SI!Fresh(code)
  <2>1. SI!NoCall \in PresentedType /\ SI!NoCall.pc = "idle" /\ SI!NoCall.code = 0
    BY CredNumbers DEF SI!NoCall, PresentedType
  <2> QED BY <1>1, <1>3, <2>1, PresentedMoves DEF SI!Ends, SI!Holds
<1>4. CASE SI!Fresh(code)
  <2> DEFINE r == [op |-> "verify", pc |-> "coded", cred |-> presented[c].cred, code |-> code]
  <2>1. code \in 1..MaxStep /\ code \in Nat /\ lastStep \in Nat /\ lastStep < code
    BY <1>4, CredShapes DEF SignInsKept, SI!Codes, SI!Fresh
  <2>2. r \in PresentedType /\ r.cred = presented[c].cred /\ r.code = code
    BY <1>2, <2>1, CredNumbers DEF PresentedType
  <2>3. presented' = [presented EXCEPT ![c] = r] /\ lastStep' = code
    BY <1>1, <1>4 DEF SI!Holds
  <2> HIDE DEF r
  <2>4. /\ presented'[c] = r /\ \A d \in Calls \ {c} : presented'[d] = presented[d]
        /\ presented' \in [Calls -> PresentedType]
    BY <2>2, <2>3, CredShapes DEF SignInsKept
  <2>5. SI!TypeOK'
    BY <1>1, <2>1, <2>3, <2>4, CredNumbers DEF SignInsKept, SI!TypeOK, PresentedType
  <2>6. SI!MadeIsVisited'
    BY <1>1, <1>2, <2>2, <2>4 DEF SignInsKept, SI!MadeIsVisited
  <2>7. /\ \A i \in SI!Ids : creds[i].code \in Nat /\ creds[i].code <= lastStep
        /\ \A d \in Calls : presented[d].code \in Nat /\ presented[d].code <= lastStep
    BY CredShapes DEF SignInsKept, SI!CodesAreSpent, CredType, PresentedType
  <2>8. SI!CodesAreSpent'
    <3>1. \A i \in SI!Ids : creds[i].code < code /\ creds[i].code # code
      BY <2>1, <2>7
    <3>2. \A d \in Calls : presented[d].code < code /\ presented[d].code # code
      BY <2>1, <2>7
    <3>3. ASSUME NEW d \in Calls
          PROVE  /\ presented'[d].code <= code
                 /\ presented'[d].code # 0 =>
                       /\ \A i \in SI!Ids : creds[i].code # presented'[d].code
                       /\ \A e \in Calls : presented'[e].code = presented'[d].code => e = d
      <4>1. CASE d = c
        BY <2>1, <2>2, <2>4, <3>1, <3>2, <4>1
      <4>2. CASE d # c
        <5>1. presented'[d] = presented[d] /\ presented'[d].code <= code /\ presented'[d].code # code
          BY <2>1, <2>4, <2>7, <3>2, <4>2
        <5>2. \A e \in Calls : presented'[e].code = presented'[d].code => e # c /\ presented'[e] = presented[e]
          BY <2>2, <2>4, <5>1
        <5> QED BY <5>1, <5>2 DEF SignInsKept, SI!CodesAreSpent
      <4> QED BY <4>1, <4>2
    <3>4. \A i \in SI!Ids : creds[i].code <= code
      BY <2>1, <2>7
    <3> QED BY <1>1, <2>3, <3>3, <3>4 DEF SI!CodesAreSpent
  <2> QED BY <1>1, <2>5, <2>6, <2>8 DEF SignInsKept, SI!CodeVerifiesOnce, OneLive
<1> QED BY <1>3, <1>4

\* What a landing leaves: the new credential after the others, which have their
\* visits and their codes, and are live no more than before.
LEMMA CredLands ==
    ASSUME SI!SignInsAssumption, SignInsKept, NEW new \in CredType, NEW ended \in SUBSET SI!Ids,
           made < MaxCreds, creds' = SI!Landed(new, ended), made' = made + 1
    PROVE  /\ made' \in 0..MaxCreds /\ creds' \in [SI!Ids -> CredType]
           /\ made' \in SI!Ids /\ creds'[made'] = new /\ creds[made'] = SI!NoCred
           /\ \A i \in SI!Ids : i # made' =>
                 /\ creds'[i].visit = creds[i].visit /\ creds'[i].code = creds[i].code
                 /\ creds'[i].live => creds[i].live /\ i \notin ended
                 /\ i \notin ended => creds'[i] = creds[i]
<1>1. made \in Nat /\ MaxCreds \in Nat /\ creds \in [SI!Ids -> CredType]
  BY CredShapes DEF SignInsKept
<1>2. made' \in 0..MaxCreds /\ made' \in SI!Ids /\ made' > made
  BY <1>1 DEF SI!Ids
<1>3. creds[made'] = SI!NoCred
  BY <1>2 DEF SignInsKept, SI!MadeIsVisited
<1>4. ASSUME NEW i \in SI!Ids
      PROVE  /\ creds'[i] = IF i = made' THEN new
                            ELSE IF i \in ended THEN [creds[i] EXCEPT !.live = FALSE] ELSE creds[i]
             /\ creds[i] \in CredType
  BY <1>1 DEF SI!Landed
<1>5. ASSUME NEW i \in SI!Ids, i # made'
      PROVE  /\ creds'[i].visit = creds[i].visit /\ creds'[i].code = creds[i].code
             /\ creds'[i].live => creds[i].live /\ i \notin ended
             /\ i \notin ended => creds'[i] = creds[i]
             /\ creds'[i] \in CredType
  <2> DEFINE r == [creds[i] EXCEPT !.live = FALSE]
  <2>1. r \in CredType /\ r.visit = creds[i].visit /\ r.code = creds[i].code /\ ~r.live
    BY <1>4 DEF CredType
  <2>2. CASE i \in ended
    <3>1. creds'[i] = r
      BY <1>4, <1>5, <2>2
    <3> HIDE DEF r
    <3> QED BY <2>1, <2>2, <3>1
  <2>3. CASE i \notin ended
    BY <1>4, <1>5, <2>3
  <2> QED BY <2>2, <2>3
<1>6. creds'[made'] = new
  BY <1>2, <1>4
<1>7. creds' \in [SI!Ids -> CredType]
  <2>1. creds' = [i \in SI!Ids |-> creds'[i]]
    BY DEF SI!Landed
  <2> QED BY <1>5, <1>6, <2>1
<1> QED BY <1>2, <1>3, <1>5, <1>6, <1>7

\* A landing keeps the invariant: the new credential's visit has no other that
\* is live, and its code is no other's.
LEMMA CredLandsKept ==
    ASSUME SI!SignInsAssumption, SignInsKept, NEW new \in CredType, NEW ended \in SUBSET SI!Ids,
           made < MaxCreds, creds' = SI!Landed(new, ended), made' = made + 1,
           \A i \in ended : ~(i > made), UNCHANGED <<step, lastStep>>,
           visited' \in SUBSET Visits, visited \subseteq visited', new.visit \in visited',
           presented' \in [Calls -> PresentedType],
           \A d \in Calls : /\ presented'[d].pc # "idle" => presented'[d].cred \in 1..made
                            /\ presented'[d].code <= lastStep
                            /\ presented'[d].code # 0 =>
                                  /\ presented'[d].code = presented[d].code /\ new.code # presented[d].code,
           new.code <= lastStep,
           new.code # 0 => \A i \in SI!Ids : creds[i].code # new.code,
           \A i \in SI!Ids : creds[i].live /\ creds[i].visit = new.visit => i \in ended
    PROVE  SignInsKept'
<1>1. /\ made' \in 0..MaxCreds /\ creds' \in [SI!Ids -> CredType]
      /\ made' \in SI!Ids /\ creds'[made'] = new /\ creds[made'] = SI!NoCred
      /\ \A i \in SI!Ids : i # made' =>
            /\ creds'[i].visit = creds[i].visit /\ creds'[i].code = creds[i].code
            /\ creds'[i].live => creds[i].live /\ i \notin ended
            /\ i \notin ended => creds'[i] = creds[i]
  BY CredLands
<1>2. SI!TypeOK'
  BY <1>1 DEF SignInsKept, SI!TypeOK, CredType, PresentedType
<1>3. SI!MadeIsVisited'
  <2>1. made \in Nat /\ made' = made + 1 /\ SI!Ids \subseteq Nat
    BY CredShapes DEF SignInsKept
  <2>2. ASSUME NEW i \in SI!Ids
        PROVE  IF i > made' THEN creds'[i] = SI!NoCred ELSE creds'[i].visit \in visited'
    <3>1. CASE i > made'
      <4>1. i > made /\ i # made'
        BY <2>1, <3>1
      <4>2. creds[i] = SI!NoCred
        BY <4>1 DEF SignInsKept, SI!MadeIsVisited
      <4>3. creds'[i] = creds[i]
        BY <1>1, <4>1
      <4> QED BY <3>1, <4>2, <4>3
    <3>2. CASE i = made'
      BY <1>1, <2>1, <3>2
    <3>3. CASE ~(i > made') /\ i # made'
      <4>1. ~(i > made)
        BY <2>1, <3>3
      <4>2. creds[i].visit \in visited
        BY <4>1 DEF SignInsKept, SI!MadeIsVisited
      <4> QED BY <1>1, <3>3, <4>2
    <3> QED BY <3>1, <3>2, <3>3
  <2>3. \A d \in Calls : presented'[d].pc # "idle" => presented'[d].cred \in 1..made'
    BY <2>1
  <2> QED BY <2>2, <2>3 DEF SI!MadeIsVisited
<1>4. SI!CodesAreSpent'
  <2>1. \A i \in SI!Ids : creds'[i].code <= lastStep
    BY <1>1 DEF SignInsKept, SI!CodesAreSpent
  <2>2. ASSUME NEW d \in Calls, presented'[d].code # 0
        PROVE  /\ \A i \in SI!Ids : creds'[i].code # presented'[d].code
               /\ \A e \in Calls : presented'[e].code = presented'[d].code => e = d
    <3>1. presented'[d].code = presented[d].code /\ new.code # presented[d].code
      BY <2>2
    <3>2. \A i \in SI!Ids : creds[i].code # presented[d].code
      BY <2>2, <3>1 DEF SignInsKept, SI!CodesAreSpent
    <3>3. \A e \in Calls : presented'[e].code = presented'[d].code => presented[e].code = presented[d].code
      BY <2>2, <3>1
    <3> QED BY <1>1, <2>2, <3>1, <3>2, <3>3 DEF SignInsKept, SI!CodesAreSpent
  <2> QED BY <2>1, <2>2 DEF SI!CodesAreSpent
<1>5. SI!CodeVerifiesOnce'
  BY <1>1 DEF SignInsKept, SI!CodeVerifiesOnce
<1>6. OneLive'
  BY <1>1 DEF SignInsKept, OneLive
<1> QED BY <1>2, <1>3, <1>4, <1>5, <1>6 DEF SignInsKept

LEMMA SignInStep ==
    ASSUME SI!SignInsAssumption, SignInsKept, NEW v \in Visits, SI!SignIn(v)
    PROVE  SignInsKept'
<1> DEFINE new == [kind |-> "login", visit |-> v, live |-> TRUE, code |-> 0]
<1>1. new \in CredType /\ new.visit = v /\ new.code = 0
  BY CredNumbers DEF CredType, SI!Kinds
<1>2. /\ v \notin visited /\ made < MaxCreds /\ creds' = SI!Landed(new, {}) /\ made' = made + 1
      /\ visited' = visited \union {v} /\ UNCHANGED <<step, lastStep, presented>>
  BY DEF SI!SignIn
<1> HIDE DEF new
<1>3. \A i \in SI!Ids : creds[i].visit = v => ~creds[i].live
  <2>1. ASSUME NEW i \in SI!Ids, creds[i].visit = v PROVE ~creds[i].live
    <3>1. creds[i] = SI!NoCred
      BY <1>2, <2>1 DEF SignInsKept, SI!MadeIsVisited
    <3> QED BY <3>1 DEF SI!NoCred
  <2> QED BY <2>1
<1>4. /\ presented' \in [Calls -> PresentedType] /\ visited' \in SUBSET Visits /\ 0 <= lastStep
      /\ \A d \in Calls : presented'[d] = presented[d]
  BY <1>2, CredShapes DEF SignInsKept
<1>5. \A d \in Calls : /\ presented[d].pc # "idle" => presented[d].cred \in 1..made
                       /\ presented[d].code <= lastStep
  BY DEF SignInsKept, SI!MadeIsVisited, SI!CodesAreSpent
<1> QED BY <1>1, <1>2, <1>3, <1>4, <1>5, CredLandsKept

\* What an exchange lands is of the visit whose credential it ends.
LEMMA ExchangeStep ==
    ASSUME SI!SignInsAssumption, SignInsKept, NEW c \in Calls, SI!Exchange(c)
    PROVE  SignInsKept'
<1>1. /\ presented[c] \in PresentedType /\ presented[c].pc = "read" /\ presented[c].cred \in 1..made
      /\ presented[c].op # "logout"
      /\ presented' = [presented EXCEPT ![c] = SI!NoCall] /\ UNCHANGED <<visited, step, lastStep>>
  BY CredShapes DEF SignInsKept, SI!MadeIsVisited, SI!Exchange, SI!Ends, SI!Holds
<1>2. SI!NoCall \in PresentedType /\ SI!NoCall.pc = "idle" /\ SI!NoCall.code = 0
  BY CredNumbers DEF SI!NoCall, PresentedType
<1>3. PICK i \in SI!Ids : i = presented[c].cred /\ i \in 1..made
  BY <1>1, CredShapes DEF SignInsKept, SI!Ids
<1>4. CASE ~SI!StillLive(i)
  BY <1>1, <1>2, <1>3, <1>4, PresentedMoves DEF SI!Exchange
<1>5. CASE SI!StillLive(i)
  <2> DEFINE new == [kind |-> SI!Kind(presented[c].op), visit |-> creds[i].visit, live |-> TRUE,
                     code |-> presented[c].code]
  <2>1. made < MaxCreds /\ creds' = SI!Landed(new, {i}) /\ made' = made + 1
    BY <1>3, <1>5 DEF SI!Exchange
  <2>2. creds[i] \in CredType /\ creds[i].live
    BY <1>5, CredShapes DEF SignInsKept, SI!StillLive
  <2>3. new \in CredType /\ new.visit = creds[i].visit /\ new.code = presented[c].code
    BY <1>1, <2>2 DEF CredType, PresentedType, SI!Kind, SI!Kinds
  <2> HIDE DEF new
  <2>4. creds[i].visit \in visited /\ visited \subseteq Visits /\ \A j \in {i} : ~(j > made)
    <3>1. ~(i > made)
      BY <1>3, CredShapes DEF SignInsKept
    <3> QED BY <3>1, CredShapes DEF SignInsKept, SI!MadeIsVisited
  <2>5. \A j \in SI!Ids : creds[j].live /\ creds[j].visit = new.visit => j \in {i}
    BY <2>2, <2>3, <2>4 DEF SignInsKept, OneLive
  <2>6. /\ presented' \in [Calls -> PresentedType] /\ presented'[c] = SI!NoCall
        /\ \A d \in Calls : d # c => presented'[d] = presented[d]
    BY <1>1, <1>2, CredShapes DEF SignInsKept
  <2>7. /\ new.code <= lastStep
        /\ new.code # 0 => \A j \in SI!Ids : creds[j].code # new.code
        /\ new.code # 0 => \A d \in Calls : d # c => presented[d].code # new.code
    BY <2>3 DEF SignInsKept, SI!CodesAreSpent
  <2>8. ASSUME NEW d \in Calls
        PROVE  /\ presented'[d].pc # "idle" => presented'[d].cred \in 1..made
               /\ presented'[d].code <= lastStep
               /\ presented'[d].code # 0 =>
                     /\ presented'[d].code = presented[d].code /\ new.code # presented[d].code
    <3>1. CASE d = c
      <4>1. 0 <= lastStep
        BY CredShapes DEF SignInsKept
      <4> QED BY <1>2, <2>6, <3>1, <4>1
    <3>2. CASE d # c
      <4>1. /\ presented'[d] = presented[d] /\ presented[d].code <= lastStep
            /\ presented[d].pc # "idle" => presented[d].cred \in 1..made
        BY <2>6, <3>2 DEF SignInsKept, SI!MadeIsVisited, SI!CodesAreSpent
      <4> QED BY <2>7, <3>2, <4>1
    <3> QED BY <3>1, <3>2
  <2>9. {i} \in SUBSET SI!Ids /\ visited' \in SUBSET Visits /\ visited' = visited
    BY <1>1, <2>4
  <2> QED BY <1>1, <2>1, <2>3, <2>4, <2>5, <2>6, <2>7, <2>8, <2>9, CredLandsKept
<1> QED BY <1>4, <1>5

LEMMA LogoutStep ==
    ASSUME SI!SignInsAssumption, SignInsKept, NEW c \in Calls, SI!Logout(c)
    PROVE  SignInsKept'
<1>1. PICK i \in SI!Ids : i = presented[c].cred /\ i \in 1..made
  BY CredShapes DEF SignInsKept, SI!MadeIsVisited, SI!Logout, SI!Ids
<1> DEFINE r == [creds[i] EXCEPT !.live = FALSE]
<1>2. r \in CredType /\ r.visit = creds[i].visit /\ r.code = creds[i].code /\ ~r.live
  BY CredShapes DEF SignInsKept, CredType
<1>3. /\ creds' = [creds EXCEPT ![i] = r] /\ presented' = [presented EXCEPT ![c] = SI!NoCall]
      /\ UNCHANGED <<made, visited, step, lastStep>>
  BY <1>1 DEF SI!Logout, SI!Ends, SI!Holds
<1> HIDE DEF r
<1>4. /\ creds' \in [SI!Ids -> CredType] /\ creds'[i] = r
      /\ \A j \in SI!Ids : j # i => creds'[j] = creds[j]
  BY <1>2, <1>3, CredShapes DEF SignInsKept
<1>5. SI!NoCall \in PresentedType /\ SI!NoCall.pc = "idle" /\ SI!NoCall.code = 0
  BY CredNumbers DEF SI!NoCall, PresentedType
<1>6. /\ presented' \in [Calls -> PresentedType] /\ presented'[c] = SI!NoCall
      /\ \A d \in Calls : d # c => presented'[d] = presented[d]
  BY <1>3, <1>5, CredShapes DEF SignInsKept
<1>7. SI!TypeOK'
  BY <1>3, <1>4, <1>6 DEF SignInsKept, SI!TypeOK, CredType, PresentedType
<1>8. \A j \in SI!Ids : /\ creds'[j].visit = creds[j].visit /\ creds'[j].code = creds[j].code
                        /\ creds'[j].live => creds[j].live
  BY <1>2, <1>4
<1>9. SI!MadeIsVisited'
  <2>1. ~(i > made)
    BY <1>1, CredShapes DEF SignInsKept
  <2> QED BY <1>3, <1>4, <1>5, <1>6, <1>8, <2>1 DEF SignInsKept, SI!MadeIsVisited
<1>10. SI!CodesAreSpent'
  <2>1. 0 <= lastStep
    BY CredShapes DEF SignInsKept
  <2> QED BY <1>3, <1>5, <1>6, <1>8, <2>1 DEF SignInsKept, SI!CodesAreSpent
<1>11. SI!CodeVerifiesOnce' /\ OneLive'
  BY <1>8 DEF SignInsKept, SI!CodeVerifiesOnce, OneLive
<1> QED BY <1>7, <1>9, <1>10, <1>11 DEF SignInsKept

\* Every step keeps it.
LEMMA SignInsNext ==
    ASSUME SI!SignInsAssumption, SignInsKept, [SI!Next]_(SI!vars)
    PROVE  SignInsKept'
<1>1. CASE UNCHANGED SI!vars
  BY <1>1 DEF SI!vars, SignInsKept, SI!TypeOK, SI!MadeIsVisited, SI!CodesAreSpent,
              SI!CodeVerifiesOnce, OneLive
<1>2. CASE SI!Tick
  <2>1. step' \in 1..MaxStep
    BY <1>2, CredShapes DEF SignInsKept, SI!Tick
  <2> QED BY <1>2, <2>1 DEF SI!Tick, SignInsKept, SI!TypeOK, SI!MadeIsVisited,
                            SI!CodesAreSpent, SI!CodeVerifiesOnce,
                            OneLive
<1> QED BY <1>1, <1>2, SignInStep, PresentStep, UseStepStep, ReadCredStep, ExchangeStep, LogoutStep
        DEF SI!Next

\* Type correctness, one live credential of a visit, codes that verify once.
THEOREM SignInsInvariant == ASSUME SI!SignInsAssumption PROVE SI!Spec => []SI!IInv
<1>1. SI!Init => SignInsKept
  BY SignInsInit
<1>2. SignInsKept /\ [SI!Next]_(SI!vars) => SignInsKept'
  BY SignInsNext
<1>3. SignInsKept => SI!IInv
  BY CountIsOne DEF SignInsKept, SI!IInv
<1> QED BY <1>1, <1>2, <1>3, PTL DEF SI!Spec

\* A person holds one sign-in at a time, and a code verifies one (exchange_sign_in,
\* replace_auth_session, use_totp_step).
THEOREM UsedOnceHolds ==
    ASSUME SI!SignInsAssumption
    PROVE  SI!Spec => [](SI!OneLivePerVisit /\ SI!CodeVerifiesOnce)
<1>1. SI!IInv => SI!OneLivePerVisit /\ SI!CodeVerifiesOnce
  BY DEF SI!IInv
<1> QED BY <1>1, SignInsInvariant, PTL

\* A visit whose credential ended gives no other, whatever call still holds it
\* (end_auth_session, exchange_sign_in).
THEOREM EndedHolds ==
    ASSUME SI!SignInsAssumption
    PROVE  SI!Spec => [][SI!EndedVisitStays]_(SI!vars)
<1>1. ASSUME SI!IInv, [SI!Next]_(SI!vars) PROVE [SI!EndedVisitStays]_(SI!vars)
  <2>1. SignInsKept
    BY <1>1, CountIsOne DEF SignInsKept, SI!IInv
  <2>2. SUFFICES ASSUME SI!Next, NEW v \in visited, SI!LiveOf(v) = {}, NEW i \in SI!Ids,
                        creds'[i].live, creds'[i].visit = v
                 PROVE  FALSE
    BY <1>1 DEF SI!EndedVisitStays, SI!LiveOf
  <2>3. ~(creds[i].live /\ creds[i].visit = v)
    BY <2>2 DEF SI!LiveOf
  <2>4. ASSUME NEW w \in Visits, SI!SignIn(w) PROVE FALSE
    <3> DEFINE new == [kind |-> "login", visit |-> w, live |-> TRUE, code |-> 0]
    <3>1. new \in CredType /\ new.visit = w
      BY CredNumbers DEF CredType, SI!Kinds
    <3>2. w # v /\ made < MaxCreds /\ creds' = SI!Landed(new, {}) /\ made' = made + 1
      BY <2>2, <2>4 DEF SI!SignIn
    <3> HIDE DEF new
    <3> QED BY <2>1, <2>2, <2>3, <3>1, <3>2, CredLands
  <2>5. ASSUME NEW c \in Calls, SI!Exchange(c) PROVE FALSE
    <3>1. /\ presented[c] \in PresentedType /\ presented[c].pc = "read" /\ presented[c].cred \in 1..made
          /\ presented[c].op # "logout"
      BY <2>1, <2>5, CredShapes DEF SignInsKept, SI!MadeIsVisited, SI!Exchange
    <3>2. PICK j \in SI!Ids : j = presented[c].cred /\ j \in 1..made
      BY <2>1, <3>1, CredShapes DEF SignInsKept, SI!Ids
    <3>3. SI!StillLive(j)
      BY <2>2, <2>3, <2>5, <3>2 DEF SI!Exchange
    <3> DEFINE new == [kind |-> SI!Kind(presented[c].op), visit |-> creds[j].visit, live |-> TRUE,
                       code |-> presented[c].code]
    <3>4. made < MaxCreds /\ creds' = SI!Landed(new, {j}) /\ made' = made + 1
      BY <2>5, <3>2, <3>3 DEF SI!Exchange
    <3>5. creds[j] \in CredType /\ creds[j].live
      BY <2>1, <3>3, CredShapes DEF SignInsKept, SI!StillLive
    <3>6. new \in CredType /\ new.visit = creds[j].visit
      BY <3>1, <3>5 DEF CredType, PresentedType, SI!Kind, SI!Kinds
    <3> HIDE DEF new
    <3>7. new.visit # v
      BY <2>2, <3>5, <3>6 DEF SI!LiveOf
    <3>8. /\ creds'[made'] = new
          /\ \A a \in SI!Ids : a # made' =>
                creds'[a].visit = creds[a].visit /\ (creds'[a].live => creds[a].live)
      <4>1. {j} \in SUBSET SI!Ids
        OBVIOUS
      <4> QED BY <2>1, <3>4, <3>6, <4>1, CredLands
    <3> QED BY <2>2, <2>3, <3>7, <3>8
  <2>6. ASSUME NEW c \in Calls, SI!Logout(c) PROVE FALSE
    <3>1. PICK j \in SI!Ids : j = presented[c].cred
      BY <2>1, <2>6, CredShapes DEF SignInsKept, SI!MadeIsVisited, SI!Logout, SI!Ids
    <3> DEFINE r == [creds[j] EXCEPT !.live = FALSE]
    <3>2. ~r.live
      BY <2>1, CredShapes DEF SignInsKept, CredType
    <3>3. creds' = [creds EXCEPT ![j] = r]
      BY <2>6, <3>1 DEF SI!Logout
    <3> HIDE DEF r
    <3> QED BY <2>1, <2>2, <2>3, <3>2, <3>3, CredShapes DEF SignInsKept
  <2>7. SI!Tick \/ (\E c \in Calls : SI!Present(c) \/ SI!UseStep(c) \/ SI!Read(c)) => UNCHANGED creds
    BY DEF SI!Tick, SI!Present, SI!UseStep, SI!Read
  <2> QED BY <2>2, <2>3, <2>4, <2>5, <2>6, <2>7 DEF SI!Next
<1>2. SI!IInv /\ [SI!Next]_(SI!vars) => [SI!EndedVisitStays]_(SI!vars)
  BY <1>1
<1> QED BY <1>2, SignInsInvariant, PTL DEF SI!Spec
=============================================================================
