------------------------------- MODULE MCHoldings -------------------------------
EXTENDS Holdings, TLC

CONSTANTS a, b, p1, p2, i1, i2

\* Calls may name either first, or one of them twice.
AnyTwo == {a, b} \X {a, b}
OneOrMinusOne == {-1, 1}

\* No character and no row of stashed_items differs from another.
Alike == Permutations({a, b}) \cup Permutations({i1, i2})
================================================================================
