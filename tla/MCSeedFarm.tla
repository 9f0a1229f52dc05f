----------------------------- MODULE MCSeedFarm -----------------------------
(* Values for model-checking SeedFarm. *)
EXTENDS SeedFarm, TLC

CONSTANTS s1, s2

TwoTargets == {1, 2}
TwoSpecs   == [t \in TwoTargets |-> IF t = 1 THEN "gcc" ELSE "ubsan_clang"]

Usual == [lines |-> <<s1>>, std |-> "c", creduce |-> FALSE, logOnly |-> TRUE,
          cleaner |-> "works", compilers |-> "found", disk |-> "writable",
          outcomes |-> {"sum1", "sum2"}]

\* One program with any outcome; and, with two seeds and two workers, a file that
\* names a seed twice, and one thing at a time that goes wrong.
Agreeing == [Usual EXCEPT !.lines = <<s1, s2>>, !.outcomes = {"sum1"}]

AllSetups ==
    {[Usual EXCEPT !.outcomes = Outcomes, !.logOnly = b] : b \in BOOLEAN}
    \cup {[Usual EXCEPT !.outcomes = Outcomes, !.creduce = TRUE]}
    \cup {[Usual EXCEPT !.lines = <<s1, s2, s1>>, !.outcomes = {"compfail", "sum1"}],
          [Agreeing EXCEPT !.disk = "full"],
          [Agreeing EXCEPT !.cleaner = "missing"],
          [Agreeing EXCEPT !.std = "c++"],
          [Agreeing EXCEPT !.lines = <<s1, "#">>],
          [Agreeing EXCEPT !.compilers = "missing"],
          [Agreeing EXCEPT !.lines = <<>>, !.cleaner = "off"]}

\* Three compilers: one takes too long, one rejects the program, one is content.
ThreeTargets == {1, 2, 3}
ThreeSpecs   == [t \in ThreeTargets |-> IF t = 1 THEN "gcc"
                                        ELSE IF t = 2 THEN "clang" ELSE "icx"]

BuildSetups  == {[Usual EXCEPT !.outcomes = {"compfail", "compfail_timeout", "sum1"}]}
=============================================================================
