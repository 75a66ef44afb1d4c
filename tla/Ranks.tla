------------------------------- MODULE Ranks -------------------------------
(***************************************************************************)
(* The ranks of the open list (tasks/rules.py): exact decimals, here in    *)
(* units of the last digit a rank may have.  A rank that may be missing is *)
(* a set of at most one.                                                   *)
(***************************************************************************)
EXTENDS Integers

CONSTANTS
    Base,           \* ten, in the code; fewer makes a rank grow sooner
    Digits          \* bound on the digits after the point

RanksAssumption ==
    /\ Base \in Nat \ {0, 1} /\ Digits \in Nat
    /\ \A s \in 0..Digits : Base ^ s \in Nat \ {0}     \* as any power of it is

\* The unit of the digit at `scale`.
Unit(scale) == Base ^ (Digits - scale)
One == Unit(0)

\* rank_scale: the digits after the point, trailing zeros aside.
RankScale(rank) ==
    CHOOSE s \in 0..Digits :
        rank % Unit(s) = 0 /\ \A t \in 0..(s - 1) : rank % Unit(t) # 0

\* The whole units strictly between two ranks.
FirstUnit(low, unit) == low \div unit + 1
LastUnit(high, unit) == -((-high) \div unit) - 1
Room(low, high, unit) == LastUnit(high, unit) - FirstUnit(low, unit) + 1

\* Evenly spaced among them, ascending.
Spaced(low, high, count, unit) ==
    [i \in 1..count |->
        (FirstUnit(low, unit) + (i * (Room(low, high, unit) + 1)) \div (count + 1) - 1) * unit]

HasRoom(low, high, count) == Room(low, high, Unit(Digits)) >= count

\* spread: `count` ranks strictly between two, as short as they can be.
Spread(low, high, count) ==
    CASE low = {} /\ high = {} -> [i \in 1..count |-> (i - 1) * One]
      [] low = {} /\ high # {} ->
            LET top == (CHOOSE h \in high : TRUE) \div One
            IN [i \in 1..count |-> (top - count + i - 1) * One]
      [] low # {} /\ high = {} ->
            LET bottom == (CHOOSE l \in low : TRUE) \div One
            IN [i \in 1..count |-> (bottom + i) * One]
      [] low # {} /\ high # {} ->
            LET l == CHOOSE x \in low : TRUE
                h == CHOOSE x \in high : TRUE
                scale == CHOOSE s \in 0..Digits :
                            /\ Room(l, h, Unit(s)) >= count
                            /\ \A t \in 0..(s - 1) : Room(l, h, Unit(t)) < count
            IN Spaced(l, h, count, Unit(scale))

\* Whether the bound on the digits leaves room for them.
Fits(low, high, count) ==
    \A l \in low, h \in high : l < h /\ HasRoom(l, h, count)

RankBetween(low, high) == Spread(low, high, 1)[1]
=============================================================================
