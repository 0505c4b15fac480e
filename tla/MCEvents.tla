------------------------------ MODULE MCEvents ------------------------------
EXTENDS Events
CONSTANTS a, b, x, r1, r2, k1, k2

\* Two watched usages, one of them twice; only one that is not watched.
MCSnapshots == {<<a, b, a>>, <<x>>}

MCModeOf == [c \in Receivers |-> IF c = r1 THEN {"recv"} ELSE {"timeout"}]
=============================================================================
