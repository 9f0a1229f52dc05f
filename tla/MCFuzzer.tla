----------------------------- MODULE MCFuzzer -----------------------------
(* Values for DiversityFuzzer: two seeds, three mutators, a day of five    *)
(* units, campaigns shorter than a day and as long as one.                 *)
EXTENDS DiversityFuzzer

MCOpts == <<"insert-for", "prune-if", "replace-assignment">>
MCSeeds == <<"csmith-a-1.c", "csmith-a-2.c">>
===========================================================================
