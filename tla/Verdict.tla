------------------------------ MODULE Verdict ------------------------------
(***************************************************************************)
(* The differential oracle of the test driver: how the outcomes of one     *)
(* test program on all compiler targets become a verdict.  Translated from *)
(* Test.verify_results in scripts/run_onebyone.py.                         *)
(*                                                                         *)
(* A target ("optset") is a position in CompilerTarget.all_targets, so the *)
(* order of the numbers is the order in which the driver runs the targets  *)
(* and in which the dictionary of results gets its keys.  A run's outcome  *)
(* is the checksum (its standard output) when it was built and run         *)
(* successfully, and a failure tag otherwise.                              *)
(***************************************************************************)
EXTENDS Naturals, FiniteSets, FiniteSetsExt

CONSTANTS Targets,     \* the targets to run, in the order of their numbers
          SpecOf,      \* target -> name of its compiler specification
          NoOptSets,   \* the targets whose optset name contains "no_opt"
          Checksums,   \* what a successful run may print
          ErrorSums    \* the checksums that contain the text "ERROR"

ASSUME TargetsAssumption ==
    /\ Targets \subseteq Nat
    /\ IsFiniteSet(Targets)
    /\ Targets # {}
    /\ NoOptSets \subseteq Targets
    /\ ErrorSums \subseteq Checksums

\* test.successful_test_runs: add_success_run is called for these targets only.
Succeeded(runs) == {t \in Targets : runs[t] \in Checksums}

\* One entry of the dictionary "results": the successful runs with a checksum.
Group(runs, sum) == {t \in Targets : runs[t] = sum}

Sums(runs) == {runs[t] : t \in Succeeded(runs)}

Compilers(group) == {SpecOf[t] : t \in group}
NoOpts(group)    == group \cap NoOptSets

-----------------------------------------------------------------------------
(* The three rules that settle which of two groups is the bad one. *)

Swap(b) == [good |-> b.bad, bad |-> b.good]

Majority(b) ==
    IF Cardinality(b.bad) > Cardinality(b.good) THEN Swap(b) ELSE b

PreferNoOpt(b) ==
    IF NoOpts(b.good) = {} /\ NoOpts(b.bad) # {} THEN Swap(b) ELSE b

\* Seeded fault: the comparison is not strict.
PreferMoreCompilers_Fault(b) ==
    IF Cardinality(Compilers(b.good)) <= Cardinality(Compilers(b.bad))
    THEN Swap(b) ELSE b

\* Seeded fault: the rule prefers fewer compilers.
PreferMoreCompilers_Fault2(b) ==
    IF Cardinality(Compilers(b.good)) > Cardinality(Compilers(b.bad))
    THEN Swap(b) ELSE b

PreferMoreCompilers(b) ==
    IF Cardinality(Compilers(b.good)) < Cardinality(Compilers(b.bad))
    THEN Swap(b) ELSE b

\* Seeded fault: the rules are applied in the opposite order.
Vote_Fault(b) == Majority(PreferNoOpt(PreferMoreCompilers(b)))

Vote(b) == PreferMoreCompilers(PreferNoOpt(Majority(b)))

\* The ballot before the vote: the group of the earliest run is "good".
Ballot(runs) ==
    LET first == Group(runs, runs[Min(Succeeded(runs))])
    IN  [good |-> first, bad |-> Succeeded(runs) \ first]

Agreed(runs) == Cardinality(Sums(runs)) = 1 /\ Sums(runs) \cap ErrorSums = {}

\* Seeded fault: a status that status_string does not know.
TestVerdict_Fault(runs) ==
    LET voted == Vote(Ballot(runs))
    IN  IF Agreed(runs) THEN [status |-> "ok", good |-> {}, bad |-> {}]
        ELSE IF Cardinality(Sums(runs)) = 2
        THEN [status |-> "miscompare", good |-> voted.good, bad |-> voted.bad]
        ELSE [status |-> "bad_runs", good |-> {}, bad |-> Succeeded(runs)]

\* What verify_results decides: the status, and the runs it calls good and bad.
TestVerdict(runs) ==
    LET n     == Cardinality(Sums(runs))
        voted == Vote(Ballot(runs))
    IN  IF Agreed(runs) THEN [status |-> "ok", good |-> {}, bad |-> {}]
        ELSE IF n = 2 THEN [status |-> "miscompare",
                            good |-> voted.good, bad |-> voted.bad]
        ELSE [status |-> IF n = 0 THEN "no_good_runs" ELSE "multiple_miscompare",
              good |-> {}, bad |-> Succeeded(runs)]

=============================================================================
