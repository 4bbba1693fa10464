----------------------------- MODULE MCLiteRun -----------------------------
\* A small instance of LiteRun: three runs, two demo headlines and two live
\* articles; three rows are evaluated and four compared.
EXTENDS LiteRun, TLC

CONSTANTS r1, r2, r3

ThreeRuns == {r1, r2, r3}
Symmetry == Permutations(ThreeRuns)

Dates == <<0, 1>>

Kinds == [i \in 1 .. 2 |->
            [bin |-> IF i = 1 THEN 9 ELSE 4, label |-> IF i = 2 THEN "neutral" ELSE "positive"]]
=============================================================================
