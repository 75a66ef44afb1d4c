------------------------------ MODULE SignIns ------------------------------
(***************************************************************************)
(* The credentials of one person, from a visit to the identity provider    *)
(* on: the sign-in it leaves, the second factor verified on it, its        *)
(* exchange for a session or an operator token, the switch of a session,   *)
(* and the sign-out (tenancy/impl/sign_in.py, operator.py, shared.py and   *)
(* their storage).  A call reads the credential it was made with and lands *)
(* its write later, so two calls may present one credential.               *)
(*                                                                         *)
(* Credentials do not expire here; time is the step of the second factor.  *)
(***************************************************************************)
EXTENDS Naturals, FiniteSets

CONSTANTS
    Visits,         \* the person's visits to the provider
    MaxCreds,       \* bound on the credentials made
    MaxStep,        \* bound on the clock, in steps of the second factor
    Window,         \* TOTP_WINDOW: how far a code's step may be from now
    Calls

SignInsAssumption == {MaxCreds, MaxStep, Window} \subseteq Nat /\ MaxStep > 0

VARIABLES
    creds,      \* every credential made, in order, with the visit it is from
    made,
    visited,
    now,        \* the step of the clock
    lastStep,   \* totp_last_step of the identity
    calls       \* what each call under way holds

vars == <<creds, made, visited, now, lastStep, calls>>

Ids == 1..MaxCreds
Kinds == {"login", "session", "operator"}
NoVisit == "none"
NoCred == [kind |-> "login", visit |-> NoVisit, live |-> FALSE, code |-> 0]
NoCall == [op |-> "none", pc |-> "idle", cred |-> 0, code |-> 0]

Init ==
    /\ creds = [i \in Ids |-> NoCred]
    /\ made = 0
    /\ visited = {}
    /\ now = 1
    /\ lastStep = 0
    /\ calls = [c \in Calls |-> NoCall]

\* The credentials once a new one is made, and `ended` is over.
Landed(new, ended) ==
    [i \in Ids |-> IF i = made + 1 THEN new
                   ELSE IF i \in ended THEN [creds[i] EXCEPT !.live = FALSE] ELSE creds[i]]

Holds(c, call) == calls' = [calls EXCEPT ![c] = call]
Ends(c) == Holds(c, NoCall)

-----------------------------------------------------------------------------
\* _issue_login: a visit leaves a sign-in.
SignIn(v) ==
    /\ v \notin visited /\ made < MaxCreds
    /\ creds' = Landed([kind |-> "login", visit |-> v, live |-> TRUE, code |-> 0], {})
    /\ made' = made + 1
    /\ visited' = visited \union {v}
    /\ UNCHANGED <<now, lastStep, calls>>

Tick == now < MaxStep /\ now' = now + 1 /\ UNCHANGED <<creds, made, visited, lastStep, calls>>

\* A call presents a live credential of the kind it takes; a mint takes a
\* sign-in that verified a code.  Afterwards it reads the credential's row
\* again, and lands what it read, ended.
Takes(op, cred) ==
    CASE op = "verify"   -> cred.kind = "login"
      [] op = "exchange" -> cred.kind = "login"
      [] op = "mint"     -> cred.kind = "login" /\ cred.code # 0
      [] op = "switch"   -> cred.kind = "session"
      [] op = "logout"   -> TRUE

Present(c) == \E op \in {"verify", "exchange", "mint", "switch", "logout"}, i \in Ids :
    /\ calls[c] = NoCall
    /\ creds[i].live /\ Takes(op, creds[i])
    /\ Holds(c, [op |-> op, pc |-> "presented", cred |-> i, code |-> 0])
    /\ UNCHANGED <<creds, made, visited, now, lastStep>>

\* The step is taken in one conditional write.
Fresh(code) == lastStep < code

Codes == {code \in 1..MaxStep : now <= code + Window /\ code <= now + Window}

UseStep(c) == \E code \in Codes :
    /\ calls[c].pc = "presented" /\ calls[c].op = "verify"
    /\ IF Fresh(code)
       THEN /\ lastStep' = code
            /\ Holds(c, [op |-> "verify", pc |-> "coded", cred |-> calls[c].cred, code |-> code])
       ELSE UNCHANGED lastStep /\ Ends(c)
    /\ UNCHANGED <<creds, made, visited, now>>

\* check_auth_session, of an exchange and of a switch; the others land the
\* row whatever it says.
Read(c) ==
    /\ \/ calls[c].pc = "presented" /\ calls[c].op # "verify"
       \/ calls[c].pc = "coded"
    /\ IF calls[c].op \in {"exchange", "switch"} /\ ~creds[calls[c].cred].live
       THEN Ends(c)
       ELSE Holds(c, [calls[c] EXCEPT !.pc = "read"])
    /\ UNCHANGED <<creds, made, visited, now, lastStep>>

\* A plausible slip: the row is found, and not asked whether it ended.
MutStillLive(i) == creds[i].visit # NoVisit

\* exchange_sign_in, replace_auth_session: under the row's lock, the one
\* presented is ended with the write that lands the next.
StillLive(i) == creds[i].live

Kind(op) == CASE op = "verify" -> "login" [] op = "mint" -> "operator" [] OTHER -> "session"

Exchange(c) ==
    /\ calls[c].pc = "read" /\ calls[c].op # "logout"
    /\ LET i == calls[c].cred
           new == [kind |-> Kind(calls[c].op), visit |-> creds[i].visit, live |-> TRUE,
                   code |-> calls[c].code]
       IN IF StillLive(i)
          THEN made < MaxCreds /\ creds' = Landed(new, {i}) /\ made' = made + 1
          ELSE UNCHANGED <<creds, made>>
    /\ Ends(c)
    /\ UNCHANGED <<visited, now, lastStep>>

\* logout, and the revocations: the row is written as read, and ended.
Logout(c) ==
    /\ calls[c].pc = "read" /\ calls[c].op = "logout"
    /\ creds' = [creds EXCEPT ![calls[c].cred].live = FALSE]
    /\ Ends(c)
    /\ UNCHANGED <<made, visited, now, lastStep>>

Next ==
    \/ Tick
    \/ \E v \in Visits : SignIn(v)
    \/ \E c \in Calls : Present(c) \/ UseStep(c) \/ Read(c) \/ Exchange(c) \/ Logout(c)

Spec == Init /\ [][Next]_vars

-----------------------------------------------------------------------------

TypeOK ==
    /\ creds \in [Ids -> [kind : Kinds, visit : Visits \union {NoVisit}, live : BOOLEAN,
                          code : 0..MaxStep]]
    /\ made \in 0..MaxCreds
    /\ visited \subseteq Visits
    /\ now \in 1..MaxStep
    /\ lastStep \in 0..MaxStep
    /\ calls \in [Calls ->
            [op : {"none", "verify", "exchange", "mint", "switch", "logout"},
             pc : {"idle", "presented", "coded", "read"}, cred : 0..MaxCreds,
             code : 0..MaxStep]]

LiveOf(v) == {i \in Ids : creds[i].live /\ creds[i].visit = v}

\* Of all the calls that present one sign-in, or what came of it, at most one
\* credential is live at a time: a person holds one sign-in at a time, as a
\* tab holds one session (exchange_sign_in, replace_auth_session).
OneLivePerVisit == \A v \in Visits : Cardinality(LiveOf(v)) <= 1

\* Of two sign-ins that present one code, one passes (use_totp_step).
CodeVerifiesOnce == \A i, j \in Ids : creds[i].code # 0 /\ creds[i].code = creds[j].code => i = j

\* A visit whose credential ended, by a sign-out as by an exchange that made
\* none, gives no other: a call that still holds the credential is refused.
EndedVisitStays == \A v \in visited : LiveOf(v) = {} => LiveOf(v)' = {}

\* A credential that was made is of a visit, and a call holds one that was made.
MadeIsVisited ==
    /\ \A i \in Ids : IF i > made THEN creds[i] = NoCred ELSE creds[i].visit \in visited
    /\ \A c \in Calls : calls[c].pc # "idle" => calls[c].cred \in 1..made

\* A code that a credential or a call has verified is not fresh, and no other has it.
CodesAreSpent ==
    /\ \A i \in Ids : creds[i].code <= lastStep
    /\ \A c \in Calls :
          /\ calls[c].code <= lastStep
          /\ calls[c].code # 0 =>
                /\ \A i \in Ids : creds[i].code # calls[c].code
                /\ \A d \in Calls : calls[d].code = calls[c].code => d = c

IInv == TypeOK /\ MadeIsVisited /\ CodesAreSpent /\ CodeVerifiesOnce /\ OneLivePerVisit
=============================================================================
