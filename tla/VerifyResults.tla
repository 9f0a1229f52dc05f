--------------------------- MODULE VerifyResults ---------------------------
(***************************************************************************)
(* verify_results step by step: the loop that groups the successful runs   *)
(* by checksum in a dictionary, and the vote between two groups, one       *)
(* "swap" statement after the other.  TestFarm uses the verdict as one     *)
(* operator (Verdict!TestVerdict); this module shows that the statements   *)
(* compute it, and what the order of the statements amounts to.            *)
(***************************************************************************)
EXTENDS Verdict, Sequences

CONSTANT FailTag            \* the outcome of a run that has no checksum

ASSUME FailTagAssumption == FailTag \notin Checksums

VARIABLES runs,             \* target -> outcome, fixed
          todo,             \* successful runs the loop has still to group
          results,          \* the dictionary, its values in insertion order
          ballot,           \* good_runs and bad_runs
          status,           \* Test.status
          pc

vars == <<runs, todo, results, ballot, status, pc>>

NoBallot == [good |-> {}, bad |-> {}]

Init ==
    /\ runs \in [Targets -> Checksums \cup {FailTag}]
    /\ todo = Succeeded(runs)
    /\ results = <<>>
    /\ ballot = NoBallot
    /\ status = "ok"
    /\ pc = "group"

-----------------------------------------------------------------------------
SumOf(group) == runs[Min(group)]

\* for t in self.successful_test_runs: ...
Collect ==
    /\ pc = "group" /\ todo # {}
    /\ LET t == Min(todo) IN
         /\ todo' = todo \ {t}
         /\ \/ \E i \in DOMAIN results :
                 /\ SumOf(results[i]) = runs[t]
                 /\ results' = [results EXCEPT ![i] = @ \cup {t}]
            \/ /\ \A i \in DOMAIN results : SumOf(results[i]) # runs[t]
               /\ results' = Append(results, {t})
    /\ UNCHANGED <<runs, ballot, status, pc>>

\* Seeded fault: the text "ERROR" is not looked for.
OneGoodResult_Fault == Len(results) = 1

OneGoodResult == Len(results) = 1 /\ SumOf(results[1]) \notin ErrorSums

AllPassed ==
    /\ pc = "group" /\ todo = {}
    /\ OneGoodResult
    /\ pc' = "done"
    /\ UNCHANGED <<runs, todo, results, ballot, status>>

TwoResults ==
    /\ pc = "group" /\ todo = {}
    /\ Len(results) = 2
    /\ status' = "miscompare"
    /\ ballot' = [good |-> results[1], bad |-> results[2]]
    /\ pc' = "majority"
    /\ UNCHANGED <<runs, todo, results>>

OtherResults ==
    /\ pc = "group" /\ todo = {}
    /\ ~OneGoodResult /\ Len(results) # 2
    /\ status' = IF results = <<>> THEN "no_good_runs" ELSE "multiple_miscompare"
    /\ ballot' = [good |-> {}, bad |-> UNION {results[i] : i \in DOMAIN results}]
    /\ pc' = "done"
    /\ UNCHANGED <<runs, todo, results>>

MajorityVote ==
    /\ pc = "majority"
    /\ ballot' = Majority(ballot)
    /\ pc' = "no_opt"
    /\ UNCHANGED <<runs, todo, results, status>>

NoOptVote ==
    /\ pc = "no_opt"
    /\ ballot' = PreferNoOpt(ballot)
    /\ pc' = "compilers"
    /\ UNCHANGED <<runs, todo, results, status>>

CompilersVote ==
    /\ pc = "compilers"
    /\ ballot' = PreferMoreCompilers(ballot)
    /\ pc' = "done"
    /\ UNCHANGED <<runs, todo, results, status>>

Done == pc = "done" /\ UNCHANGED vars

Next ==
    \/ Collect \/ AllPassed \/ TwoResults \/ OtherResults
    \/ MajorityVote \/ NoOptVote \/ CompilersVote
    \/ Done

Spec == Init /\ [][Next]_vars

-----------------------------------------------------------------------------
\* The statements of verify_results end in the verdict that TestFarm uses in
\* one step.
ComputesVerdict ==
    pc = "done" =>
        [status |-> status, good |-> ballot.good, bad |-> ballot.bad]
            = TestVerdict(runs)

\* Reference: the preference the three swaps amount to, the LAST rule of the
\* code being the strongest.  x is preferred to y when it covers more compilers,
\* then when it alone contains a no_opt run, then when it has more runs, and at
\* last when its first target was run earlier.
Preferred(x, y) ==
    LET cx == Cardinality(Compilers(x))  cy == Cardinality(Compilers(y))
        nx == NoOpts(x) # {}             ny == NoOpts(y) # {}
        kx == Cardinality(x)             ky == Cardinality(y)
    IN  \/ cx > cy
        \/ cx = cy /\ nx /\ ~ny
        \/ cx = cy /\ (nx <=> ny) /\ kx > ky
        \/ cx = cy /\ (nx <=> ny) /\ kx = ky /\ Min(x) < Min(y)

\* Of two results the one blamed is the one the reference does not prefer: no
\* earlier rule can overturn a later one, and the rules never cancel out.
BlamesTheLessPreferred ==
    pc = "done" /\ status = "miscompare" => Preferred(ballot.good, ballot.bad)

\* A single target that disagrees with all others, which agree among themselves
\* and cover at least two compilers, is the one that is blamed, whatever its
\* position and even when it is the only unoptimised one.
LoneDeviatorBlamed ==
    pc = "done" =>
        \A t \in Succeeded(runs) :
            LET others == Succeeded(runs) \ {t} IN
            /\ Cardinality(Compilers(others)) >= 2
            /\ \A a, b \in others : runs[a] = runs[b] /\ runs[a] # runs[t]
            => status = "miscompare" /\ ballot.bad = {t}

\* A test is silently accepted only when all successful runs printed one and
\* the same text, and that text reports no error.
AcceptedMeansSame ==
    pc = "done" /\ status = "ok" =>
        \E sum \in Checksums \ ErrorSums :
            Succeeded(runs) # {} /\ \A t \in Succeeded(runs) : runs[t] = sum

=============================================================================
