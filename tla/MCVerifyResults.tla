-------------------------- MODULE MCVerifyResults --------------------------
(* Values for model-checking VerifyResults: two compilers with two optsets  *)
(* each and a third compiler with one, and three different outputs.         *)
EXTENDS VerifyResults

MCTargets   == 1..5
MCSpecOf    == [t \in MCTargets |-> CASE t \in {1, 2} -> "gcc"
                                      [] t \in {3, 4} -> "clang"
                                      [] OTHER        -> "ubsan_clang"]
MCNoOptSets == {1, 5}
MCChecksums == {"sum1", "sum2", "ERROR"}
MCErrorSums == {"ERROR"}
=============================================================================
