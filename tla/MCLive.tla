------------------------------- MODULE MCLive -------------------------------
(***************************************************************************)
(* What must come about in the end, of three parts that share no state and *)
(* are fair each by its own: the outbox, the breaker and the portal's      *)
(* channel.  A behaviour is one of one of them, `part` says of which, and  *)
(* the others stay as they begin.                                          *)
(***************************************************************************)
EXTENDS MCOutbox

CONSTANTS b1, b2, b3

VARIABLES part, consecutive, opened, since, probing, out, up, events,
          t1, t2, t3, t4, t5, t6, t7, t8, t9, t10, t11, t12, t13, t14

breaker == <<consecutive, opened, since, probing, out, up, events>>
tab == <<t1, t2, t3, t4, t5, t6, t7, t8, t9, t10, t11, t12, t13, t14>>
all == <<part, vars, breaker, tab>>

BR == INSTANCE Breaker WITH
    Calls <- {b1, b2, b3}, Failures <- 2, Cooldown <- 4, Slow <- 2, Lag <- 1, MaxEvents <- 3

Entity == 1 :> "task" @@ 2 :> "user"

CH == INSTANCE Channel WITH
    MaxSeq <- 2, KeyOf <- Entity, Recents <- {{1}, {2}}, Notices <- {}, PageSize <- 1, Lane <- 1,
    MaxInbox <- 1, MaxEvents <- 1,
    head <- t1, floor <- t2, recent <- t3, hints <- t4, server <- t5, lanes <- t6,
    tab <- t7, cursor <- t8, inbox <- t9, replay <- t10, seen <- t11, told <- t12,
    jumped <- t13, events <- t14

ASSUME LiveAssumption == BR!BreakerAssumption /\ CH!ChannelAssumption

NoTab ==
    /\ t1 = 0 /\ t2 = 0 /\ t3 = 0 /\ t4 = 0 /\ t5 = 0 /\ t6 = 0 /\ t7 = 0
    /\ t8 = 0 /\ t9 = 0 /\ t10 = 0 /\ t11 = 0 /\ t12 = 0 /\ t13 = 0 /\ t14 = 0

LiveInit ==
    /\ Init /\ BR!Init
    /\ \/ part \in {"outbox", "breaker"} /\ NoTab
       \/ part = "channel" /\ CH!Init

LiveNext ==
    /\ UNCHANGED part
    /\ \/ part = "outbox" /\ Next /\ UNCHANGED <<breaker, tab>>
       \/ part = "breaker" /\ BR!Next /\ UNCHANGED <<vars, tab>>
       \/ part = "channel" /\ CH!Next /\ UNCHANGED <<vars, breaker>>

\* The outbox, as it begins, has nothing to do; a call may come to the breaker at
\* any time.
BreakerFairness ==
    /\ WF_breaker(BR!Tick)
    /\ WF_breaker(part = "breaker" /\ \E c \in {b1, b2, b3} : BR!Start(c))
    /\ \A c \in {b1, b2, b3} : WF_breaker(BR!Return(c))

\* Channel's fairness, where there is a tab.
TabFairness ==
    /\ WF_tab(part = "channel" /\ CH!ReadHead)
    /\ WF_tab(part = "channel" /\ CH!Pong) /\ WF_tab(part = "channel" /\ CH!KnownAges)
    /\ WF_tab(part = "channel" /\ CH!Opens) /\ WF_tab(part = "channel" /\ CH!Reconnect)
    /\ WF_tab(part = "channel" /\ CH!Drain) /\ WF_tab(part = "channel" /\ CH!RunJob)
    /\ WF_tab(part = "channel" /\ CH!ReplayPage)

LiveSpec == LiveInit /\ [][LiveNext]_all /\ Fairness /\ BreakerFairness /\ TabFairness

\* Once the dependency answers in time for good, the breaker closes and stays
\* closed (Breaker).
Recovers == BR!Recovers

\* Whatever the socket and the bus lost, a tab that stays has the whole stream in
\* the end (Channel).
CatchesUp == <>[](part = "channel" => CH!HasAll)
=============================================================================
