------------------------------ MODULE Members ------------------------------
(***************************************************************************)
(* Who is in one team org and what they may do there: the calls that add a *)
(* person, change a role, remove a member, delete one's own account and    *)
(* close the org (tenancy/impl/members.py, org.py, creates.py, operator.py *)
(* and their storage).  A call holds the role its caller was authenticated *)
(* with, reads, and lands its write in a commit of its own, so calls cross *)
(* between any two of these steps.  Each person joins the org once.        *)
(***************************************************************************)
EXTENDS Naturals, FiniteSets

CONSTANTS
    People,
    Founder,        \* who made the org, and so owns it at first
    Calls,          \* the calls that may be under way at once
    MaxCalls        \* bound on the calls ever made

MembersAssumption ==
    /\ Founder \in People
    /\ MaxCalls \in Nat

VARIABLES
    org,        \* open; closed, by an owner or an operator; then deleted
    user,       \* the row of each person's user: none, live, ended or gone
    member,     \* the row of their membership, and the role it gives
    calls,      \* what each call under way holds
    asked       \* how many calls were made

vars == <<org, user, member, calls, asked>>

Rank == [member |-> 1, admin |-> 2, owner |-> 3]
Roles == DOMAIN Rank
AtMost(role, ceiling) == Rank[role] <= Rank[ceiling]
Manages(role) == role # "member"

Changes == {"role", "remove"}
Joins == {"accept", "add"}

NoCall == [op |-> "none", pc |-> "idle", by |-> Founder, whom |-> Founder,
           to |-> "member", held |-> "member", read |-> "member"]
NoRow == [row |-> "none", role |-> "member"]

Init ==
    /\ org = "open"
    /\ user = [p \in People |-> IF p = Founder THEN "live" ELSE "none"]
    /\ member = [p \in People |->
                    IF p = Founder THEN [row |-> "live", role |-> "owner"] ELSE NoRow]
    /\ calls = [c \in Calls |-> NoCall]
    /\ asked = 0

\* A membership counts while its row lives, whatever became of its user.
Counted == {p \in People : member[p].row = "live"}
CountedOwners == {p \in Counted : member[p].role = "owner"}

Here(p) == user[p] = "live" /\ p \in Counted
Owners == {p \in CountedOwners : user[p] = "live"}

Holds(c, call) == calls' = [calls EXCEPT ![c] = call]
Ends(c) == Holds(c, NoCall)
UnchangedRows == UNCHANGED <<org, user, member>>

-----------------------------------------------------------------------------
\* A call starts.  One a member makes is authenticated: the caller is in the
\* org now, and the call goes by the role they hold now.

Free(c) == calls[c] = NoCall /\ asked < MaxCalls

Starts(c, call) ==
    /\ asked' = asked + 1
    /\ Holds(c, call)
    /\ UnchangedRows

Asked(op, by, whom, to) ==
    [op |-> op, pc |-> "asked", by |-> by, whom |-> whom, to |-> to,
     held |-> member[by].role, read |-> "member"]

\* Other calls need nobody in the org.
FromOutside(op, whom, to) ==
    [op |-> op, pc |-> "read", by |-> Founder, whom |-> whom, to |-> to,
     held |-> "member", read |-> "member"]

AskChange(c) == Free(c) /\ \E by, whom \in People, op \in Changes, to \in Roles :
    /\ Here(by) /\ org # "deleted"
    /\ Manages(member[by].role)
    /\ whom # by
    /\ op = "remove" => to = "member"
    /\ Starts(c, Asked(op, by, whom, to))

AskLeave(c) == Free(c) /\ \E by \in People :
    /\ Here(by) /\ org # "deleted"
    /\ Starts(c, Asked("leave", by, by, "member"))

AskClose(c) == Free(c) /\ \E by \in Owners :
    /\ org # "deleted"
    /\ Starts(c, Asked("close", by, by, "member"))

\* The operator's: refused once the org is deleted, or closed and so empty.
AskShut(c) ==
    /\ Free(c)
    /\ org # "deleted" /\ Counted # {}
    /\ Starts(c, FromOutside("shut", Founder, "member"))

\* An operator adds a person, never as an owner, or they accept an invitation,
\* which finds the org by its organization at the provider: a closed org has
\* none.
AskJoin(c) == Free(c) /\ \E p \in People, op \in Joins, to \in Roles :
    /\ user[p] = "none"
    /\ \A d \in Calls : calls[d].op \in Joins => calls[d].whom # p
    /\ IF op = "add" THEN org # "deleted" /\ Counted # {} /\ to # "owner"
                     ELSE org = "open"
    /\ Starts(c, FromOutside(op, p, to))

-----------------------------------------------------------------------------
\* What a call reads, each by a statement of its own.

ReadTarget(c) ==
    /\ calls[c].pc = "asked" /\ calls[c].op \in Changes
    /\ LET call == calls[c]
           role == member[call.whom].role
       IN IF /\ Here(call.whom)
             /\ AtMost(role, call.held)
             /\ call.op = "role" => AtMost(call.to, call.held)
          THEN Holds(c, [call EXCEPT !.pc = "read", !.read = role])
          ELSE Ends(c)
    /\ UnchangedRows /\ UNCHANGED asked

\* left_without_owner: the last owner stays.
ReadPlaces(c) ==
    /\ calls[c].pc = "asked" /\ calls[c].op = "leave"
    /\ LET by == calls[c].by
           lastOwner == member[by].role = "owner" /\ Cardinality(CountedOwners) <= 1
       IN IF Here(by) /\ ~lastOwner
          THEN Holds(c, [calls[c] EXCEPT !.pc = "read", !.read = member[by].role])
          ELSE Ends(c)
    /\ UnchangedRows /\ UNCHANGED asked

ReadOrg(c) ==
    /\ calls[c].pc = "asked" /\ calls[c].op = "close"
    /\ IF org # "deleted" /\ user[calls[c].by] = "live"
       THEN Holds(c, [calls[c] EXCEPT !.pc = "read"])
       ELSE Ends(c)
    /\ UnchangedRows /\ UNCHANGED asked

-----------------------------------------------------------------------------
\* The commit of each.

Lands(c, op) == calls[c].pc = "read" /\ calls[c].op = op /\ Ends(c) /\ UNCHANGED asked

\* The row as it was read, with the new role: a row ended since stays ended,
\* and one that is gone is inserted again.
WriteMembership(c) ==
    /\ Lands(c, "role")
    /\ LET whom == calls[c].whom
       IN member' = IF member[whom].row = "ended" THEN member
                    ELSE [member EXCEPT ![whom] = [row |-> "live", role |-> calls[c].to]]
    /\ UNCHANGED <<org, user>>

RemoveMember(c) ==
    /\ Lands(c, "remove")
    /\ LET whom == calls[c].whom
       IN IF user[whom] = "gone" \/ member[whom].row = "none" THEN UNCHANGED <<user, member>>
          ELSE /\ user' = [user EXCEPT ![whom] = "ended"]
               /\ member' = [member EXCEPT ![whom] = [row |-> "ended", role |-> calls[c].read]]
    /\ UNCHANGED org

\* A plausible slip: the count before the deletion is taken for enough.
MutKeepsAnOwner(by, read) == user[by] # "none"

\* Whether the person's rows may go: the other owners are locked and counted
\* again, when the person was read as one.
KeepsAnOwner(by, read) == read = "owner" => Owners \ {by} # {}

DeletePerson(c) ==
    /\ Lands(c, "leave")
    /\ LET by == calls[c].by
       IN IF user[by] = "gone" \/ ~KeepsAnOwner(by, calls[c].read) THEN UNCHANGED <<user, member>>
          ELSE /\ user' = [user EXCEPT ![by] = "gone"]
               /\ member' = [member EXCEPT ![by] = NoRow]
    /\ UNCHANGED org

WriteClosedOrg(c) ==
    /\ \E op \in {"close", "shut"} : Lands(c, op)
    /\ IF org = "deleted" THEN UnchangedRows
       ELSE /\ org' = "closed"
            /\ user' = [p \in People |-> IF user[p] = "live" THEN "ended" ELSE user[p]]
            /\ member' = [p \in People |->
                             IF p \in Counted THEN [member[p] EXCEPT !.row = "ended"]
                                              ELSE member[p]]

\* Neither the org's row nor a key of it is read again.
CreateMember(c) ==
    /\ \E op \in Joins : Lands(c, op)
    /\ user' = [user EXCEPT ![calls[c].whom] = "live"]
    /\ member' = [member EXCEPT ![calls[c].whom] = [row |-> "live", role |-> calls[c].to]]
    /\ UNCHANGED org

\* The worker ends a closed org.
DeleteClosedOrg ==
    /\ org = "closed"
    /\ org' = "deleted"
    /\ UNCHANGED <<user, member, calls, asked>>

Call(c) ==
    \/ AskChange(c) \/ AskLeave(c) \/ AskClose(c) \/ AskShut(c) \/ AskJoin(c)
    \/ ReadTarget(c) \/ ReadPlaces(c) \/ ReadOrg(c)
    \/ WriteMembership(c) \/ RemoveMember(c) \/ DeletePerson(c)
    \/ WriteClosedOrg(c) \/ CreateMember(c)

Next == DeleteClosedOrg \/ \E c \in Calls : Call(c)

Spec == Init /\ [][Next]_vars

-----------------------------------------------------------------------------

TypeOK ==
    /\ org \in {"open", "closed", "deleted"}
    /\ user \in [People -> {"none", "live", "ended", "gone"}]
    /\ member \in [People -> [row : {"none", "live", "ended"}, role : Roles]]
    /\ calls \in [Calls ->
            [op : {"none", "leave", "close", "shut"} \union Changes \union Joins,
             pc : {"idle", "asked", "read"}, by : People, whom : People, to : Roles,
             held : Roles, read : Roles]]
    /\ asked \in 0..MaxCalls

\* What a call goes by, when it lands, is still so: who changes another has the
\* role they were authenticated with, and the other no higher one; who leaves has
\* the role that was read.
StillSo(k) ==
    /\ k.op \in Changes =>
          /\ Here(k.by) /\ member[k.by].role = k.held
          /\ AtMost(member[k.whom].role, k.held)
    /\ k.op = "leave" => member[k.by].role = k.read

\* An org nobody closed keeps an owner: of two owners who delete their accounts
\* at once the second is refused, whatever joins, changes and closes meanwhile.
\* Role changes and removals do not count the owners, so the last is lost only to
\* a call that what it goes by is no longer so for, as when two owners demote
\* each other (delete_person, _last_owner, left_without_owner).
OwnerStays ==
    /\ org = "open" /\ Owners # {}
    /\ org' = "open" /\ Owners' = {}
    => \E c \in Calls :
          calls[c].pc = "read" /\ calls'[c] = NoCall /\ ~StillSo(calls[c])

\* What the comment of closed_org says: a team org never loses its last owner.
NeverOwnerless == org = "open" => Owners # {}

\* A person who never joined has no membership.
UsersAgree == \A p \in People : user[p] = "none" => member[p].row = "none"

\* Nobody changes themselves, who joins is not there yet, and who is changed or
\* leaves was.
CallHolds(k) ==
    /\ k.op \in Joins => user[k.whom] = "none"
    /\ k.op \in Changes => k.whom # k.by
    /\ k.op \in Changes /\ k.pc = "read" => user[k.whom] # "none"
    /\ k.op = "leave" /\ k.pc = "read" => user[k.by] # "none"

CallsHold == \A c \in Calls : CallHolds(calls[c])

\* No two calls bring in one person.
CallsApart ==
    \A c, d \in Calls :
       calls[c].op \in Joins /\ calls[d].op \in Joins /\ calls[c].whom = calls[d].whom
       => c = d

IInv == TypeOK /\ UsersAgree /\ CallsHold /\ CallsApart
=============================================================================
