---------------------------- MODULE BlameBisect ----------------------------
(***************************************************************************)
(* Triage of an optimisation bug (scripts/blame_opt.py): the compiler is   *)
(* rebuilt with a limit on the number of optimisation steps, and a binary  *)
(* search looks for the limit at which the test starts to fail.  Some      *)
(* compilers are searched in several phases, each one inside the step that *)
(* the phase before has found.                                             *)
(***************************************************************************)
EXTENDS Integers, Sequences

CONSTANTS NumPhases,    \* how many blame options the compiler has
          MinOpt,       \* the smallest max_opt_num the compiler prints
          MaxOpt        \* bound: the largest one

ASSUME BlameAssumption ==
    /\ NumPhases \in Nat \ {0}
    /\ MinOpt \in Nat /\ MaxOpt \in Nat

VARIABLES flaky,        \* a probe may also time out or fail by accident; fixed
          pc,           \* "phase": before a phase; "search": in its loop
          phase,        \* phase_num
          limits,       \* the results of the finished phases (blame_str)
          max,          \* max_opt_num of the phase
          fails,        \* the limits at which the test fails
          start, end, cur, failed,      \* start_opt, end_opt, cur_opt, failed_flag
          probes        \* how many limits the phase has tried (ProbeCap at most)

vars == <<flaky, pc, phase, limits, max, fails, start, end, cur, failed, probes>>
search == <<flaky, max, fails, start, end, cur, failed, probes>>

Init ==
    /\ flaky \in BOOLEAN
    /\ pc = "phase" /\ phase = 0 /\ limits = <<>>
    /\ max = 0 /\ fails = {}
    /\ start = 0 /\ end = 0 /\ cur = 0 /\ failed = TRUE
    /\ probes = 0

-----------------------------------------------------------------------------
(* get_next_step *)

\* Seeded fault: the lower end moves when the test fails.
NextStart_Fault(s, e, c, f) == IF f THEN c ELSE s

NextStart(s, e, c, f) == IF f THEN s ELSE c
NextEnd(s, e, c, f)   == IF f THEN c ELSE e
\* Seeded fault: a step down one by one.
NextCur_Fault(s, e, c, f)  == IF f THEN c - 1 ELSE c + 1

NextCur(s, e, c, f)   == IF f THEN (c - s) \div 2 + s ELSE (e - c) \div 2 + c

-----------------------------------------------------------------------------
(* execute_blame_phase *)

\* The unlimited build prints the number of optimisation steps.  The test fails
\* with all of them (it would not be triaged otherwise), and at any subset of
\* the smaller limits: one optimisation may hide what another one broke.  When
\* the test is flaky the answers of the probes do not depend on the limit.
StartPhase ==
    /\ pc = "phase" /\ phase < NumPhases
    /\ max' \in MinOpt .. MaxOpt
    /\ fails' \in {f \in SUBSET (0 .. max') : /\ max' \in f
                                              /\ flaky => f = {max'}}
    /\ start' = 0 /\ end' = max' /\ cur' = max' /\ failed' = TRUE
    /\ probes' = 0
    /\ pc' = "search"
    /\ UNCHANGED <<flaky, phase, limits>>

FinishPhase(result) ==
    /\ limits' = Append(limits, result)
    /\ phase' = phase + 1
    /\ pc' = "phase"

\* No step number in the compiler's output: the third phase is skipped, an
\* earlier one raises IndexError and the triage returns False.
NoStepNumber ==
    /\ pc = "phase" /\ phase < NumPhases
    /\ IF phase = 2 THEN FinishPhase(-1)
       ELSE pc' = "failed" /\ UNCHANGED <<phase, limits>>
    /\ UNCHANGED search

\* Bound: the count stops above the number of limits there are.
ProbeCap   == MaxOpt + 1

\* Powers of two, as the proof needs them.
ASSUME PowerAssumption ==
    2^0 = 1 /\ \A n \in 0 .. ProbeCap : 2^n \in Nat \ {0} /\ 2^(n + 1) = 2 * 2^n

CountProbe == probes' = IF probes < ProbeCap THEN probes + 1 ELSE probes

\* Seeded fault: cur_opt is not replaced by end_opt at the end.
Probe_Fault ==
    LET s    == NextStart(start, end, cur, failed)
        e    == NextEnd(start, end, cur, failed)
        c    == NextCur(start, end, cur, failed)
        eff  == s + 1 >= c
        last == c = e - 1
    IN  /\ pc = "search"
        /\ \E f \in (IF flaky THEN BOOLEAN ELSE {c \in fails}) :
             /\ start' = s /\ end' = e /\ cur' = c /\ failed' = f
             /\ IF eff /\ (f \/ last)
                THEN FinishPhase(c)
                ELSE UNCHANGED <<pc, phase, limits>>
        /\ CountProbe
        /\ UNCHANGED <<flaky, max, fails>>

\* Seeded fault: the end of the search is missed by one.
Probe_Fault2 ==
    LET s    == NextStart(start, end, cur, failed)
        e    == NextEnd(start, end, cur, failed)
        c    == NextCur(start, end, cur, failed)
        eff  == s + 1 >= c
        last == c = e
    IN  /\ pc = "search"
        /\ \E f \in (IF flaky THEN BOOLEAN ELSE {c \in fails}) :
             /\ start' = s /\ end' = e /\ cur' = c /\ failed' = f
             /\ IF eff /\ (f \/ last)
                THEN FinishPhase(IF f THEN c ELSE e)
                ELSE UNCHANGED <<pc, phase, limits>>
        /\ CountProbe
        /\ UNCHANGED <<flaky, max, fails>>

\* One turn of the loop: choose a limit, build and run with it, and go on,
\* break, or finish.
Probe ==
    LET s    == NextStart(start, end, cur, failed)
        e    == NextEnd(start, end, cur, failed)
        c    == NextCur(start, end, cur, failed)
        eff  == s + 1 >= c
        last == c = e - 1
    IN  /\ pc = "search"
        /\ \E f \in (IF flaky THEN BOOLEAN ELSE {c \in fails}) :
             /\ start' = s /\ end' = e /\ cur' = c /\ failed' = f
             /\ IF eff /\ (f \/ last)
                THEN FinishPhase(IF f THEN c ELSE e)
                ELSE UNCHANGED <<pc, phase, limits>>
        /\ CountProbe
        /\ UNCHANGED <<flaky, max, fails>>

\* The output of the test is not UTF-8: blame catches the exception and gives up.
ProbeRaises ==
    /\ pc = "search" /\ flaky
    /\ pc' = "failed"
    /\ UNCHANGED <<phase, limits, search>>

\* A target with -O0 is blamed at once, a compiler without blame options never.
NotSearched ==
    /\ pc = "phase" /\ phase = 0
    /\ pc' \in {"done", "failed"}
    /\ UNCHANGED <<phase, limits, search>>

\* All options are known: the name of the blamed optimisation is looked up in the
\* output of a last build, which may not contain one (IndexError).
WrapUp ==
    /\ pc = "phase" /\ phase = NumPhases
    /\ pc' \in {"done", "failed"}
    /\ UNCHANGED <<phase, limits, search>>

Ended == pc \in {"done", "failed"} /\ UNCHANGED vars

Next ==
    \/ StartPhase \/ NoStepNumber \/ Probe \/ ProbeRaises
    \/ NotSearched \/ WrapUp \/ Ended

Spec == Init /\ [][Next]_vars

\* Builds and runs have timeouts, so every turn of the loop comes to its end.
FairSpec == Spec /\ WF_vars(Next)

-----------------------------------------------------------------------------
TypeOK ==
    /\ flaky \in BOOLEAN
    /\ pc \in {"phase", "search", "done", "failed"}
    /\ phase \in 0 .. NumPhases
    /\ limits \in Seq(Int)
    /\ max \in Nat
    /\ fails \subseteq 0 .. max
    /\ start \in Nat /\ end \in Nat /\ cur \in Nat
    /\ failed \in BOOLEAN
    /\ probes \in Nat

\* The search stays inside the interval it has left, and, as long as the probes
\* tell what the test does, never loses the change it is looking for: the test
\* fails at the upper end, and does not fail at the lower end unless that is
\* still the limit 0, which the search assumes to be good.
Bracket ==
    pc = "search" =>
        /\ start <= cur /\ cur <= end /\ end <= max
        /\ ~flaky => /\ end \in fails
                     /\ start = 0 \/ start \notin fails
                     /\ failed <=> cur \in fails

LastLimit == limits[Len(limits)]
PhaseOver == pc = "phase" /\ limits # <<>> /\ LastLimit # -1

\* The limit that is reported is one at which the behaviour changes: the test
\* fails with it and does not fail with one step less (if it is good without
\* any step at all), even when the failures are not monotone.
FoundSwitchPoint ==
    PhaseOver /\ ~flaky =>
        /\ LastLimit \in fails
        /\ 0 \notin fails => LastLimit - 1 \notin fails

\* A search needs a logarithmic number of builds: it only goes on after as many
\* as the steps can be halved, and one more ends it.
FewProbes == pc = "search" /\ max > 0 => 2^probes <= max

\* The triage ends, whatever the probes answer.
TriageEnds == <>(pc \in {"done", "failed"})

=============================================================================
