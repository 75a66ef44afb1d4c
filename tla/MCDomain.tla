------------------------------ MODULE MCDomain ------------------------------
(***************************************************************************)
(* Values for TLC of the constants of Domain.                              *)
(***************************************************************************)
EXTENDS Domain, TLC

CONSTANTS c1, c2, c3, p1, p2, p3, q1, s1, s2

\* Two sweeps are alike wherever they appear, and so are the first two callers.
Alike == Permutations({s1, s2}) \cup Permutations({c1, c2})

EventsOf == "imports" :> 2 @@ "breaker" :> 3 @@ "channel" :> 1

\* Three versions of a task and a read with no failure, and two versions and one
\* read with one.
FaultsOf ==
    "outbox" :> 1 @@ "reminders" :> 1 @@ "billing" :> 1 @@ "slack" :> 1 @@ "cache" :> 2
        @@ "media" :> 2 @@ "taskCache" :> 0 @@ "failing" :> 1

VersionOf ==
    "reminders" :> 4 @@ "cache" :> 1 @@ "taskCache" :> 3 @@ "failing" :> 2

NowOf == "reminders" :> 3 @@ "sockets" :> 6

\* One request writes the row, and releases or abandons it.
OneRequest == 1 :> q1

\* A file of two steps and one of one, and one row that is refused.
FileRows == 1 :> 2 @@ 2 :> 1

\* The ranks of two tasks in sixteenths, the first one digit longer than it may.
Ranked == 1 :> 6 @@ 2 :> 8

\* One person's morning is the first anywhere, the other's two steps later.
Morning == p1 :> 0 @@ p2 :> 2

\* Three records, each of another entity, on pages of two: all of them are news to
\* the page, or the third is an old one that was relayed late.
Entity == 1 :> "task" @@ 2 :> "user" @@ 3 :> "org"
News == {{1, 2}, {1, 2, 3}}
=============================================================================
