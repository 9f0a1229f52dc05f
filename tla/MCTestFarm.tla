----------------------------- MODULE MCTestFarm -----------------------------
(* Values for model-checking TestFarm. *)
EXTENDS TestFarm, TLC

CONSTANTS w1, w2, p1, p2, p3

\* One target per compiler; the second is unoptimised.
TwoTargets   == {1, 2}
TwoSpecs     == [t \in TwoTargets |-> IF t = 1 THEN "gcc" ELSE "clang"]
UbsanSecond  == [t \in TwoTargets |-> IF t = 1 THEN "gcc" ELSE "ubsan_clang"]
OneTarget    == {1}
OneSpec      == [t \in OneTarget |-> "gcc"]
NoOptSecond  == {2}
ThreeTargets == {1, 2, 3}
ThreeSpecs   == [t \in ThreeTargets |-> IF t = 1 THEN "gcc" ELSE "ubsan_clang"]

\* Distinct programs have distinct directory names.
OwnName(s)  == s
\* seed.split('/')[-1][:-2] of the seeds "0" .. "99" of grammarinator.
EmptyName(s) == "empty"

FarmSymmetry == Permutations(Jobs) \cup Permutations(Programs)
=============================================================================
