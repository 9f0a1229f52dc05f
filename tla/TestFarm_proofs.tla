-------------------------- MODULE TestFarm_proofs --------------------------
(***************************************************************************)
(* Theorems about TestFarm for every number of workers, programs and       *)
(* targets, and every setting of its options.                              *)
(***************************************************************************)
EXTENDS TestFarm, FiniteSetTheorems, TLAPS

-----------------------------------------------------------------------------
(* The vote. *)

\* A nonempty set of targets has a smallest one, so the target that is picked
\* next, and the one a report is named after, exists.
LEMMA MinExists ==
    ASSUME NEW S, S \subseteq Nat, S # {}
    PROVE  Min(S) \in S /\ \A x \in S : Min(S) <= x
  <1> DEFINE Less == OpToRel(<, Nat)
  <1>1. IsWellFoundedOn(Less, Nat)
    BY NatLessThanWellFounded
  <1>2. \E x \in S : \A y \in S : ~ (<<y, x>> \in Less)
    <2> HIDE DEF Less
    <2> QED BY <1>1, WFMin
  <1>3. Less = {ss \in Nat \X Nat : ss[1] < ss[2]}
    BY Zenon DEF OpToRel
  <1>4. \A x, y \in Nat : <<y, x>> \in Less <=> y < x
    <2> HIDE DEF Less
    <2> QED BY <1>3
  <1>5. \E x \in S : \A y \in S : x <= y
    <2> HIDE DEF Less
    <2>1. PICK x \in S : \A y \in S : ~ (<<y, x>> \in Less)
      BY <1>2
    <2>2. \A y \in S : ~(y < x)
      BY <2>1, <1>4
    <2> QED BY <2>2
  <1> QED BY <1>5 DEF Min

\* What the vote returns are runs of the ballot it was given.
LEMMA VoteBounds ==
    ASSUME NEW b, b \in [good : SUBSET Targets, bad : SUBSET Targets]
    PROVE  Vote(b) \in [good : SUBSET Targets, bad : SUBSET Targets]
  BY DEF Vote, Majority, PreferNoOpt, PreferMoreCompilers, Swap

VerdictStatuses == {"ok", "miscompare", "multiple_miscompare", "no_good_runs"}

\* The verdict never invents a run.
LEMMA VerdictBounds ==
    ASSUME NEW runs
    PROVE  /\ TestVerdict(runs).status \in VerdictStatuses
           /\ TestVerdict(runs).good \subseteq Targets
           /\ TestVerdict(runs).bad \subseteq Targets
  <1>1. Ballot(runs) \in [good : SUBSET Targets, bad : SUBSET Targets]
    BY DEF Ballot, Group, Succeeded
  <1>2. Vote(Ballot(runs)) \in [good : SUBSET Targets, bad : SUBSET Targets]
    BY <1>1, VoteBounds
  <1> DEFINE v == Vote(Ballot(runs))
  <1>3. v.good \subseteq Targets /\ v.bad \subseteq Targets
    BY <1>2
  <1>4. Succeeded(runs) \subseteq Targets
    BY DEF Succeeded
  <1>5. CASE Agreed(runs)
    BY <1>5 DEF TestVerdict, VerdictStatuses
  <1>6. CASE ~Agreed(runs) /\ Cardinality(Sums(runs)) = 2
    <2>1. TestVerdict(runs) = [status |-> "miscompare", good |-> v.good, bad |-> v.bad]
      BY <1>6 DEF TestVerdict
    <2> QED BY <2>1, <1>3 DEF VerdictStatuses
  <1>7. CASE ~Agreed(runs) /\ Cardinality(Sums(runs)) # 2
    BY <1>7, <1>4 DEF TestVerdict, VerdictStatuses
  <1> QED BY <1>5, <1>6, <1>7

\* The verdict is "ok" only on results that agree.
LEMMA VerdictOnDifference ==
    ASSUME NEW runs, ~Agreed(runs)
    PROVE  TestVerdict(runs).status # "ok"
  BY DEF TestVerdict

\* Only finitely many texts are printed.
LEMMA SumsFinite ==
    ASSUME NEW runs
    PROVE  IsFiniteSet(Sums(runs))
  <1> DEFINE S == Succeeded(runs)
             f == [t \in S |-> runs[t]]
  <1>1. IsFiniteSet(S)
    BY TargetsAssumption, FS_Subset DEF Succeeded
  <1>2. f \in Surjection(S, Sums(runs))
    BY DEF Surjection, Sums
  <1> HIDE DEF S, f
  <1> QED BY <1>1, <1>2, FS_Surjection

-----------------------------------------------------------------------------
(* Type correctness. *)

\* A Test object stays one when a field gets a value of its type.
LEMMA NoTestType == NoTest \in Tests
  BY DEF NoTest, Tests, Seeds, Outcomes, NotDone, Statuses, BlameResults

LEMMA TestUpdates ==
    ASSUME NEW t \in Tests
    PROVE  /\ \A s \in Seeds : [t EXCEPT !.seed = s] \in Tests
           /\ \A g \in {"ok", "timeout", "fail"} : [t EXCEPT !.gen = g] \in Tests
           /\ \A st \in Statuses : [t EXCEPT !.status = st] \in Tests
           /\ [t EXCEPT !.ice = @ + 1] \in Tests
           /\ \A k \in Targets, o \in Outcomes : [t EXCEPT !.runs[k] = o] \in Tests
           /\ \A b \in BlameResults : [t EXCEPT !.blameRun = b] \in Tests
           /\ \A b \in BlameResults, st \in Statuses :
                 [t EXCEPT !.status = st, !.blameTest = b] \in Tests
  <1>1. \A s \in Seeds : [t EXCEPT !.seed = s] \in Tests
    BY DEF Tests
  <1>2. \A g \in {"ok", "timeout", "fail"} : [t EXCEPT !.gen = g] \in Tests
    BY DEF Tests
  <1>3. \A st \in Statuses : [t EXCEPT !.status = st] \in Tests
    BY DEF Tests
  <1>4. [t EXCEPT !.ice = @ + 1] \in Tests
    BY DEF Tests
  <1>5. \A k \in Targets, o \in Outcomes : [t EXCEPT !.runs[k] = o] \in Tests
    BY DEF Tests
  <1>6. \A b \in BlameResults : [t EXCEPT !.blameRun = b] \in Tests
    BY DEF Tests
  <1>7. \A b \in BlameResults, st \in Statuses :
            [t EXCEPT !.status = st, !.blameTest = b] \in Tests
    BY DEF Tests
  <1> QED BY <1>1, <1>2, <1>3, <1>4, <1>5, <1>6, <1>7

LEMMA TypeInit == Init => TypeOK
  BY NoTestType
  DEF Init, TypeOK, NoSave, Labels, RunTags, GenTags

\* Every kind of step keeps the types: first those of gen_and_test up to the
\* targets.
LEMMA TypeGenerating ==
    ASSUME TypeOK, NEW w \in Jobs, Generating(w)
    PROVE  TypeOK'
  <1> USE DEF Goto, Crash, stats
  <1>t. test[w] \in Tests /\ NoTest \in Tests
    BY NoTestType DEF TypeOK
  <1>1. CASE GetSeed(w)
    <2>1. PICK s \in queue : queue' = queue \ {s} /\ StartTest(w, s)
      BY <1>1 DEF GetSeed
    <2>2. s \in Seeds
      BY DEF TypeOK, Seeds
    <2>3. [NoTest EXCEPT !.seed = s] \in Tests
      BY <2>2, <1>t, TestUpdates
    <2> QED BY <1>1, <2>1, <2>3 DEF GetSeed, StartTest, TypeOK, Labels
  <1>2. CASE QueueDone(w)
    BY <1>2 DEF QueueDone, TypeOK, Labels
  <1>3. CASE NewSeed(w)
    <2>1. <<w, clock>> \in Seeds
      BY DEF TypeOK, Seeds
    <2>2. [NoTest EXCEPT !.seed = <<w, clock>>] \in Tests
      BY <2>1, <1>t, TestUpdates
    <2> QED BY <1>3, <2>2 DEF NewSeed, StartTest, TypeOK, Labels
  <1>4. CASE DeadlineReached(w)
    BY <1>4 DEF DeadlineReached, TypeOK, Labels
  <1>5. CASE CopySeed(w)
    BY <1>5 DEF CopySeed, TypeOK, Labels
  <1>6. CASE SeedMissing(w)
    BY <1>6 DEF SeedMissing, TypeOK, Labels
  <1>7. CASE RunGrammarinator(w)
    <2>1. PICK g \in {"ok", "timeout", "fail"} :
                 test' = [test EXCEPT ![w] = [test[w] EXCEPT !.gen = g]]
      BY <1>7 DEF RunGrammarinator
    <2>2. [test[w] EXCEPT !.gen = g] \in Tests
      BY <1>t, TestUpdates
    <2> QED BY <1>7, <2>1, <2>2 DEF RunGrammarinator, TypeOK, Labels
  <1>8. CASE SaveIce(w)
    <2>1. test' = [test EXCEPT ![w] = [test[w] EXCEPT !.ice = @ + 1]]
      BY <1>8 DEF SaveIce
    <2>2. [test[w] EXCEPT !.ice = @ + 1] \in Tests
      BY <1>t, TestUpdates
    <2>3. test' \in [Jobs -> Tests]
      BY <2>1, <2>2 DEF TypeOK
    <2> QED BY <1>8, <2>3 DEF SaveIce, EnterSave, TypeOK, Labels
  <1>9. CASE SetStatus(w)
    <2>1. PICK free \in BOOLEAN :
             LET st == GenStatus(test[w].gen, free) IN
             /\ test' = [test EXCEPT ![w] = [test[w] EXCEPT !.status = st]]
             /\ yarpgenRuns' = [yarpgenRuns EXCEPT ![GenTag(st)] = @ + 1]
             /\ IF st = "ok"
                THEN Goto(w, "targets") /\ UNCHANGED seedsFail
                ELSE Goto(w, "genfail") /\ seedsFail' = Record(seedsFail, test[w].seed)
      BY <1>9 DEF SetStatus
    <2> DEFINE st == GenStatus(test[w].gen, free)
    <2>2. st \in Statuses /\ GenTag(st) \in GenTags
      BY DEF GenStatus, GenTag, Statuses, GenFailStatus, GenTags
    <2>3. [test[w] EXCEPT !.status = st] \in Tests
      BY <2>2, <1>t, TestUpdates
    <2>4. Record(seedsFail, test[w].seed) \in [Programs -> Nat]
      BY DEF Record, TypeOK
    <2>5. test' \in [Jobs -> Tests]
      BY <2>1, <2>3 DEF TypeOK
    <2>6. yarpgenRuns' \in [GenTags -> Nat]
      BY <2>1, <2>2 DEF TypeOK
    <2>7. seedsFail' \in [Programs -> Nat] /\ pc' \in [Jobs -> Labels]
      BY <2>1, <2>4 DEF TypeOK, Labels
    <2> QED BY <1>9, <2>5, <2>6, <2>7 DEF SetStatus, TypeOK
  <1>10. CASE SaveMutateFail(w)
    BY <1>10 DEF SaveMutateFail, EnterSave, TypeOK, Labels
  <1>11. CASE SaveGenFail(w)
    BY <1>11 DEF SaveGenFail, TypeOK, Labels
  <1> QED BY <1>1, <1>2, <1>3, <1>4, <1>5, <1>6, <1>7, <1>8, <1>9, <1>10, <1>11
          DEF Generating

-----------------------------------------------------------------------------
LEMMA CurrentType ==
    ASSUME NEW w \in Jobs, Pending(w) # {}
    PROVE  Current(w) \in Targets
  BY TargetsAssumption, MinExists DEF Current, Pending


\* The record of one run is replaced, and one column of one target goes up.
LEMMA RunUpdates ==
    ASSUME TypeOK, NEW w \in Jobs, NEW k \in Targets
    PROVE  /\ \A o \in Outcomes : SetRun(w, k, o) => test' \in [Jobs -> Tests]
           /\ \A tag \in RunTags :
                 Count(k, tag) => targetRuns' \in [Targets -> [RunTags -> Nat]]
  <1>1. ASSUME NEW o \in Outcomes, SetRun(w, k, o)
        PROVE  test' \in [Jobs -> Tests]
    <2>1. test[w] \in Tests
      BY DEF TypeOK
    <2>2. [test[w] EXCEPT !.runs[k] = o] \in Tests
      BY <2>1, TestUpdates
    <2>3. test' = [test EXCEPT ![w] = [test[w] EXCEPT !.runs[k] = o]]
      BY <1>1 DEF SetRun
    <2> QED BY <2>2, <2>3 DEF TypeOK
  <1>2. ASSUME NEW tag \in RunTags, Count(k, tag)
        PROVE  targetRuns' \in [Targets -> [RunTags -> Nat]]
    <2> DEFINE row == [targetRuns[k] EXCEPT ![tag] = @ + 1]
    <2>1. row \in [RunTags -> Nat]
      BY DEF TypeOK
    <2>2. targetRuns' = [targetRuns EXCEPT ![k] = row]
      BY <1>2 DEF Count
    <2> QED BY <2>1, <2>2 DEF TypeOK
  <1> QED BY <1>1, <1>2

LEMMA FailuresOfBuild == BuildFailures \subseteq BuildFailTags
  BY DEF BuildFailures, BuildFailTags

LEMMA TypeTesting ==
    ASSUME TypeOK, NEW w \in Jobs, Testing(w)
    PROVE  TypeOK'
  <1> DEFINE k == Current(w)
  <1>t. k \in Targets
    BY CurrentType DEF Testing, Build, Run, RunGarbled
  <1>o. /\ BuildFailTags \cup RunFailTags \cup Checksums \cup {"not_run", "garbled"}
              \subseteq Outcomes
        /\ BuildFailTags \cup RunFailTags \cup {"ok"} \subseteq RunTags
    BY DEF Outcomes, NotDone, RunTags
  <1>1. test' \in [Jobs -> Tests]
    BY <1>t, <1>o, RunUpdates, FailuresOfBuild DEF Testing, Build, Run, RunGarbled
  <1>2. targetRuns' \in [Targets -> [RunTags -> Nat]]
    <2>1. targetRuns \in [Targets -> [RunTags -> Nat]]
      BY DEF TypeOK
    <2> QED BY <1>t, <1>o, <2>1, RunUpdates, FailuresOfBuild DEF Testing, Build, Run, RunGarbled
  <1>3. pc' \in [Jobs -> Labels]
    BY DEF TypeOK, Labels, Testing, Build, Run, RunGarbled, Crash, Goto
  <1>4. UNCHANGED <<saving, queue, lock, reports, yarpgenRuns, seedsPass,
                    seedsFail, clock, mainPc, standard>>
    BY DEF Testing, Build, Run, RunGarbled
  <1> QED BY <1>1, <1>2, <1>3, <1>4 DEF TypeOK

\* TypeOK, as far as the workers' steps in handle_results and save_test may
\* change it.
LEMMA TypeHandling ==
    ASSUME TypeOK, NEW w \in Jobs, Handling(w)
    PROVE  TypeOK'
  <1> USE DEF Goto, Crash, stats
  <1>t. test[w] \in Tests /\ NoTest \in Tests
    BY NoTestType DEF TypeOK
  <1>b. BlameResult(w) \in BlameResults
    BY DEF BlameResult, BlameResults
  <1>1. CASE SaveBuildFail(w)
    <2>1. /\ pc' \in [Jobs -> Labels] /\ UNCHANGED test
          /\ \/ UNCHANGED saving
             \/ \E d : saving' = [saving EXCEPT ![w] = [dest |-> d, bad |-> {}, next |-> "saverun"]]
      BY <1>1 DEF SaveBuildFail, EnterSave, TypeOK, Labels
    <2>2. UNCHANGED <<queue, lock, reports, yarpgenRuns, targetRuns, seedsPass, seedsFail,
                      clock, mainPc, standard>>
      BY <1>1 DEF SaveBuildFail
    <2> QED BY <2>1, <2>2 DEF TypeOK
  <1>2. CASE NoRunFail(w)
    BY <1>2 DEF NoRunFail, TypeOK, Labels
  <1>3. CASE SaveRunFail(w)
    <2>1. test' = test \/ test' = [test EXCEPT ![w] = [test[w] EXCEPT !.blameRun = BlameResult(w)]]
      BY <1>3 DEF SaveRunFail
    <2>2. [test[w] EXCEPT !.blameRun = BlameResult(w)] \in Tests
      BY <1>t, <1>b, TestUpdates
    <2>3. test' \in [Jobs -> Tests]
      BY <2>1, <2>2 DEF TypeOK
    <2>4. /\ pc' \in [Jobs -> Labels]
          /\ \/ UNCHANGED saving
             \/ \E d : saving' = [saving EXCEPT ![w] = [dest |-> d, bad |-> {}, next |-> "verify"]]
      BY <1>3 DEF SaveRunFail, EnterSave, TypeOK, Labels
    <2>5. UNCHANGED <<queue, lock, reports, yarpgenRuns, targetRuns, seedsPass, seedsFail,
                      clock, mainPc, standard>>
      BY <1>3 DEF SaveRunFail
    <2> QED BY <2>3, <2>4, <2>5 DEF TypeOK
  <1>4. CASE VerifyOk(w)
    BY <1>4 DEF VerifyOk, TypeOK, Labels
  <1>5. CASE VerifyBad(w)
    <2> DEFINE v == TestVerdict(test[w].runs)
               b == IF Blame /\ v.good # {} THEN BlameResult(w) ELSE test[w].blameTest
    <2>1. v.status \in Statuses /\ v.bad \subseteq Targets
      BY VerdictBounds DEF Statuses, VerdictStatuses
    <2>2. b \in BlameResults
      BY <1>t, <1>b DEF Tests
    <2>3. [test[w] EXCEPT !.status = v.status, !.blameTest = b] \in Tests
      <3> HIDE DEF v, b
      <3> QED BY <2>1, <2>2, <1>t, TestUpdates
    <2>4. test' = [test EXCEPT ![w] = [test[w] EXCEPT !.status = v.status, !.blameTest = b]]
      BY <1>5 DEF VerifyBad
    <2>5. test' \in [Jobs -> Tests]
      <3> HIDE DEF v, b
      <3> QED BY <2>3, <2>4 DEF TypeOK
    <2>6. targetRuns' \in [Targets -> [RunTags -> Nat]]
      <3> DEFINE row(t) == IF t \in v.bad
                           THEN [targetRuns[t] EXCEPT !["out_dif"] = targetRuns[t]["out_dif"] + 1]
                           ELSE targetRuns[t]
      <3>1. UNCHANGED targetRuns \/ targetRuns' = [t \in Targets |-> row(t)]
        BY <1>5 DEF VerifyBad
      <3>2. targetRuns \in [Targets -> [RunTags -> Nat]]
        BY DEF TypeOK
      <3>3. ASSUME NEW t \in Targets
            PROVE  row(t) \in [RunTags -> Nat]
        <4> HIDE DEF v
        <4>1. targetRuns[t] \in [RunTags -> Nat] /\ "out_dif" \in RunTags
          BY <3>2 DEF RunTags
        <4>2. targetRuns[t]["out_dif"] + 1 \in Nat
          BY <4>1
        <4>3. [targetRuns[t] EXCEPT !["out_dif"] = targetRuns[t]["out_dif"] + 1]
                \in [RunTags -> Nat]
          BY <4>1, <4>2
        <4> QED BY <4>1, <4>3
      <3> HIDE DEF row
      <3> QED BY <3>1, <3>2, <3>3
    <2>7. \/ pc' = [pc EXCEPT ![w] = "crashed"] /\ UNCHANGED saving
          \/ /\ pc' = [pc EXCEPT ![w] = "lock"]
             /\ \E d : saving' = [saving EXCEPT ![w] = [dest |-> d, bad |-> v.bad,
                                                        next |-> "finish"]]
      BY <1>5 DEF VerifyBad, EnterSave
    <2>8. UNCHANGED <<queue, lock, reports, yarpgenRuns, seedsPass, seedsFail,
                      clock, mainPc, standard>>
      BY <1>5 DEF VerifyBad
    <2> HIDE DEF v, b
    <2>9. pc' \in [Jobs -> Labels]
      BY <2>7 DEF TypeOK, Labels
    <2>10. /\ DOMAIN saving' = Jobs
           /\ \A x \in Jobs : /\ saving'[x].bad \subseteq Targets
                              /\ saving'[x].next \in {"loop", "sanitize", "saverun",
                                                      "verify", "finish"}
      BY <2>1, <2>7 DEF TypeOK
    <2> QED BY <2>5, <2>6, <2>8, <2>9, <2>10 DEF TypeOK
  <1>6. CASE Finish(w)
    <2>1. \A list \in [Programs -> Nat] : Record(list, test[w].seed) \in [Programs -> Nat]
      BY DEF Record
    <2>2. seedsPass' \in [Programs -> Nat] /\ seedsFail' \in [Programs -> Nat]
      BY <1>6, <2>1 DEF Finish, TypeOK
    <2> QED BY <1>6, <1>t, <2>2 DEF Finish, TypeOK, Labels
  <1> QED BY <1>1, <1>2, <1>3, <1>4, <1>5, <1>6 DEF Handling

\* A worker that finds no manager, or a file missing inside the critical section,
\* changes nothing but its own place, and the lock if it held it.
LEMMA WorkerDies ==
    ASSUME NEW w \in Jobs, NoAnswer(w) \/ CopyExits(w)
    PROVE  /\ pc' = [pc EXCEPT ![w] = "crashed"] /\ pc[w] \notin {"crashed", "exited"}
           /\ UNCHANGED <<test, saving, queue, reports, yarpgenRuns, targetRuns,
                          seedsPass, seedsFail, clock, mainPc, standard>>
           /\ lock' = lock \/ lock' = Nobody
           /\ NoAnswer(w) => UNCHANGED lock /\ pc[w] # "copy"
           /\ CopyExits(w) => lock' = Nobody /\ pc[w] = "copy"
  BY DEF NoAnswer, CopyExits, CallsStatistics, Crash, Goto, stats

LEMMA TypeDying ==
    ASSUME TypeOK, NEW w \in Jobs, NoAnswer(w) \/ CopyExits(w)
    PROVE  TypeOK'
  BY WorkerDies DEF TypeOK, Labels

LEMMA TypeSaving ==
    ASSUME TypeOK, NEW w \in Jobs, Saving(w)
    PROVE  TypeOK'
  <1> USE DEF Goto, stats
  <1>t. test[w] \in Tests /\ NoTest \in Tests
    BY NoTestType DEF TypeOK
  <1>1. CASE AcquireLock(w)
    BY <1>1 DEF AcquireLock, TypeOK, Labels
  <1>2. ASSUME Release(w)
        PROVE  /\ test' \in [Jobs -> Tests] /\ pc' \in [Jobs -> Labels]
               /\ DOMAIN saving' = Jobs /\ lock' = Nobody
               /\ \A v \in Jobs : /\ saving'[v].bad \subseteq Targets
                                  /\ saving'[v].next \in {"loop", "sanitize", "saverun",
                                                          "verify", "finish"}
    <2>1. test' \in [Jobs -> Tests]
      BY <1>2, <1>t DEF Release, TypeOK
    <2>2. pc' \in [Jobs -> Labels]
      BY <1>2 DEF Release, TypeOK, Labels
    <2> QED BY <1>2, <2>1, <2>2 DEF Release, TypeOK, NoSave
  <1>3. CASE CopyReport(w)
    <2>1. \A r \in reports' : r.seed \in Seeds /\ r.bad \subseteq Targets
      <3>1. test[w].seed \in Seeds /\ saving[w].bad \subseteq Targets
        BY <1>t DEF Tests, TypeOK
      <3> QED BY <1>3, <3>1 DEF CopyReport, TypeOK
    <2>2. Release(w) /\ UNCHANGED <<queue, yarpgenRuns, targetRuns, seedsPass,
                                    seedsFail, clock, mainPc, standard>>
      BY <1>3 DEF CopyReport
    <2> QED BY <1>2, <2>1, <2>2 DEF TypeOK
  <1>4. CASE CopyFails(w)
    <2>1. Release(w) /\ UNCHANGED <<queue, reports, yarpgenRuns, targetRuns, seedsPass,
                                    seedsFail, clock, mainPc, standard>>
      BY <1>4 DEF CopyFails
    <2> QED BY <1>2, <2>1 DEF TypeOK
  <1> QED BY <1>1, <1>3, <1>4, TypeDying DEF Saving


LEMMA TypeMain ==
    ASSUME TypeOK, MainProcess \/ Tick \/ UNCHANGED vars
    PROVE  TypeOK'
  <1> USE DEF stats
  <1>1. CASE MainProcess
    BY <1>1 DEF MainProcess, MainAcquire, MainPrint, CleanTmp, MainCheckAlive, MainCleanup,
                MainStep, TypeOK
  <1>2. CASE Tick
    BY <1>2 DEF Tick, TypeOK
  <1>3. CASE UNCHANGED vars
    BY <1>3 DEF vars, TypeOK
  <1> QED BY <1>1, <1>2, <1>3

\* In every state each worker, test, report, counter and list has the shape the
\* driver's code gives it.
THEOREM TypeCorrect == Spec => []TypeOK
  <1>1. TypeOK /\ [Next]_vars => TypeOK'
    <2> SUFFICES ASSUME TypeOK, [Next]_vars PROVE TypeOK'
      OBVIOUS
    <2>1. CASE \E w \in Jobs : Worker(w)
      BY <2>1, TypeGenerating, TypeTesting, TypeHandling, TypeSaving, TypeDying
         DEF Worker
    <2>2. CASE MainProcess \/ Tick \/ Finished \/ UNCHANGED vars
      BY <2>2, TypeMain DEF Finished
    <2> QED BY <2>1, <2>2 DEF Next
  <1> QED BY <1>1, TypeInit, PTL DEF Spec

-----------------------------------------------------------------------------
(* Mutual exclusion. *)

LEMMA LockStep ==
    ASSUME TypeOK, LockInv, [Next]_vars
    PROVE  LockInv'
  <1> USE FarmAssumption DEF Goto, Crash
  <1>1. ASSUME NEW w \in Jobs, Worker(w), ~Saving(w)
        PROVE  /\ UNCHANGED <<lock, mainPc>>
               /\ pc[w] # "copy"
               /\ \E l \in Labels \ {"copy"} : pc' = [pc EXCEPT ![w] = l]
    <2>1. CASE Generating(w)
      BY <2>1 DEF Generating, GetSeed, QueueDone, NewSeed, DeadlineReached, CopySeed,
         SeedMissing, RunGrammarinator, SaveIce, SetStatus, SaveMutateFail, SaveGenFail,
         StartTest, EnterSave, Labels
    <2>2. CASE Testing(w)
      <3>1. pc[w] = "targets" /\ UNCHANGED <<lock, mainPc>>
        BY <2>2 DEF Testing, Build, Run, RunGarbled
      <3>2. UNCHANGED pc \/ pc' = [pc EXCEPT ![w] = "crashed"]
        BY <2>2 DEF Testing, Build, Run, RunGarbled
      <3>3. pc = [pc EXCEPT ![w] = pc[w]]
        BY DEF TypeOK
      <3> QED BY <3>1, <3>2, <3>3 DEF Labels
    <2>3. CASE Handling(w)
      BY <2>3 DEF Handling, SaveBuildFail, NoRunFail, SaveRunFail, VerifyOk, VerifyBad,
         Finish, EnterSave, Labels
    <2>4. CASE NoAnswer(w)
      BY <2>4, WorkerDies DEF Labels
    <2> QED BY <1>1, <2>1, <2>2, <2>3, <2>4 DEF Worker
  <1>2. ASSUME NEW w \in Jobs, Worker(w), ~Saving(w)
        PROVE  LockInv'
    BY <1>1, <1>2 DEF LockInv, TypeOK
  <1>3. ASSUME NEW w \in Jobs, Saving(w)
        PROVE  LockInv'
    <2>1. CASE AcquireLock(w)
      BY <2>1 DEF AcquireLock, LockInv, TypeOK
    <2>2. CASE CopyReport(w) \/ CopyFails(w)
      <3>1. pc[w] = "copy" /\ lock' = Nobody /\ UNCHANGED mainPc
        BY <2>2 DEF CopyReport, CopyFails, Release
      <3>2. pc' = [pc EXCEPT ![w] = saving[w].next] /\ saving[w].next # "copy"
        BY <2>2 DEF CopyReport, CopyFails, Release, TypeOK
      <3> QED BY <3>1, <3>2 DEF LockInv, TypeOK
    <2>3. CASE CopyExits(w)
      BY <2>3, WorkerDies DEF LockInv, TypeOK
    <2> QED BY <1>3, <2>1, <2>2, <2>3 DEF Saving
  <1>4. CASE MainProcess
    BY <1>4 DEF MainProcess, MainAcquire, MainPrint, CleanTmp, MainCheckAlive, MainCleanup,
                MainStep, LockInv, TypeOK
  <1>5. CASE Tick \/ Finished \/ UNCHANGED vars
    BY <1>5 DEF Tick, Finished, vars, LockInv
  <1> QED BY <1>2, <1>3, <1>4, <1>5 DEF Next, Worker

\* Whatever the number of workers: no two processes are ever in save_test's
\* critical section or in the printing of the statistics together, and nobody
\* keeps the lock who is not in one of them.
THEOREM LockSafe == Spec => []LockInv
  <1>1. Init => LockInv
    BY FarmAssumption DEF Init, LockInv
  <1>2. LockInv /\ TypeOK /\ [Next]_vars => LockInv'
    BY LockStep
  <1> QED BY <1>1, <1>2, TypeCorrect, PTL DEF Spec


-----------------------------------------------------------------------------
(* The status of a test and the place of its worker. *)

\* A step of one worker leaves the others where they are.
LEMMA OthersStay ==
    ASSUME TypeOK, NEW w \in Jobs, Worker(w), NEW v \in Jobs \ {w}
    PROVE  pc'[v] = pc[v] /\ test'[v] = test[v] /\ saving'[v] = saving[v]
  <1> USE DEF Goto, Crash, TypeOK
  <1>1. CASE Generating(w)
    BY <1>1 DEF Generating, GetSeed, QueueDone, NewSeed, DeadlineReached, CopySeed,
       SeedMissing, RunGrammarinator, SaveIce, SetStatus, SaveMutateFail, SaveGenFail,
       StartTest, EnterSave
  <1>2. CASE Testing(w)
    BY <1>2 DEF Testing, Build, Run, RunGarbled, SetRun
  <1>3. CASE Handling(w)
    BY <1>3 DEF Handling, SaveBuildFail, NoRunFail, SaveRunFail, VerifyOk, VerifyBad,
       Finish, EnterSave
  <1>4. CASE Saving(w)
    BY <1>4, WorkerDies DEF Saving, AcquireLock, CopyReport, CopyFails, Release
  <1> QED BY <1>1, <1>2, <1>3, <1>4, WorkerDies DEF Worker

LEMMA FitsGenerating ==
    ASSUME TypeOK, NEW w \in Jobs, FitsPlace(w), Generating(w)
    PROVE  FitsPlace(w)'
  <1> USE DEF Goto, Crash, TypeOK, FitsPlace, Place
  <1>1. CASE GetSeed(w) \/ NewSeed(w)
    BY <1>1 DEF GetSeed, NewSeed, StartTest, NoTest
  <1>2. CASE QueueDone(w) \/ DeadlineReached(w)
    BY <1>2 DEF QueueDone, DeadlineReached
  <1>3. CASE CopySeed(w) \/ SeedMissing(w) \/ SaveGenFail(w)
    BY <1>3 DEF CopySeed, SeedMissing, SaveGenFail
  <1>4. CASE RunGrammarinator(w)
    BY <1>4 DEF RunGrammarinator, Tests
  <1>5. CASE SaveIce(w)
    BY <1>5 DEF SaveIce, EnterSave, Tests
  <1>6. CASE SetStatus(w)
    <2>1. PICK st \in GenFailStatus \cup {"ok"} :
             /\ test' = [test EXCEPT ![w].status = st]
             /\ pc' = [pc EXCEPT ![w] = IF st = "ok" THEN "targets" ELSE "genfail"]
      BY <1>6 DEF SetStatus, GenStatus, GenFailStatus
    <2> QED BY <2>1 DEF Tests, GenFailStatus
  <1>7. CASE SaveMutateFail(w)
    BY <1>7 DEF SaveMutateFail, EnterSave, GenFailStatus
  <1> QED BY <1>1, <1>2, <1>3, <1>4, <1>5, <1>6, <1>7 DEF Generating

LEMMA FitsHandling ==
    ASSUME TypeOK, NEW w \in Jobs, FitsPlace(w), Testing(w) \/ Handling(w)
    PROVE  FitsPlace(w)'
  <1> USE DEF Goto, Crash, TypeOK, FitsPlace, Place
  <1>1. CASE Testing(w)
    <2>1. pc[w] = "targets" /\ pc'[w] \in {"targets", "crashed"}
      BY <1>1 DEF Testing, Build, Run, RunGarbled
    <2>2. PICK o : SetRun(w, Current(w), o)
      BY <1>1 DEF Testing, Build, Run, RunGarbled
    <2>3. test'[w].status = test[w].status
      BY <2>2 DEF SetRun, Tests
    <2> QED BY <2>1, <2>3
  <1>2. CASE SaveBuildFail(w) \/ NoRunFail(w) \/ VerifyOk(w)
    BY <1>2 DEF SaveBuildFail, NoRunFail, VerifyOk, EnterSave
  <1>3. CASE SaveRunFail(w)
    BY <1>3 DEF SaveRunFail, EnterSave, Tests
  <1>4. CASE VerifyBad(w)
    <2> DEFINE st == TestVerdict(test[w].runs).status
    <2>1. st \notin GenFailStatus
      BY VerdictBounds DEF VerdictStatuses, GenFailStatus
    <2>2. PICK b : test' = [test EXCEPT ![w] = [test[w] EXCEPT !.status = st, !.blameTest = b]]
      BY <1>4 DEF VerifyBad
    <2>3. test'[w].status = st
      <3> HIDE DEF st
      <3> QED BY <2>2 DEF Tests
    <2>4. \/ pc'[w] = "crashed"
          \/ pc'[w] = "lock" /\ saving'[w].next = "finish"
      BY <1>4 DEF VerifyBad, EnterSave
    <2> HIDE DEF st
    <2> QED BY <2>1, <2>3, <2>4
  <1>5. CASE Finish(w)
    BY <1>5 DEF Finish, NoTest
  <1> QED BY <1>1, <1>2, <1>3, <1>4, <1>5 DEF Handling

LEMMA FitsDying ==
    ASSUME TypeOK, NEW w \in Jobs, NoAnswer(w) \/ CopyExits(w)
    PROVE  FitsPlace(w)'
  BY WorkerDies DEF TypeOK, FitsPlace, Place

LEMMA FitsSaving ==
    ASSUME TypeOK, NEW w \in Jobs, FitsPlace(w), Saving(w)
    PROVE  FitsPlace(w)'
  <1> USE DEF Goto, TypeOK, FitsPlace, Place
  <1>1. CASE AcquireLock(w)
    BY <1>1 DEF AcquireLock
  <1>2. CASE CopyReport(w) \/ CopyFails(w)
    <2> DEFINE next == saving[w].next
    <2>1. next \in {"loop", "sanitize", "saverun", "verify", "finish"}
      OBVIOUS
    <2>2. pc[w] = "copy" /\ pc'[w] = next
      BY <1>2 DEF CopyReport, CopyFails, Release
    <2>3. test'[w] = IF next = "loop" THEN NoTest ELSE test[w]
      BY <1>2 DEF CopyReport, CopyFails, Release
    <2>4. NoTest.seed = NoSeed
      BY DEF NoTest
    <2> HIDE DEF next
    <2>5. Place(w)' = next /\ Place(w) = next
      BY <2>1, <2>2 DEF next
    <2> QED BY <2>1, <2>2, <2>3, <2>4, <2>5
  <1> QED BY <1>1, <1>2, FitsDying DEF Saving

LEMMA FitsStep ==
    ASSUME TypeOK, StatusFitsPlace, [Next]_vars
    PROVE  StatusFitsPlace'
  <1>1. ASSUME NEW w \in Jobs, Worker(w)
        PROVE  StatusFitsPlace'
    <2>1. FitsPlace(w)'
      BY <1>1, FitsGenerating, FitsHandling, FitsSaving, FitsDying DEF Worker, StatusFitsPlace
    <2>2. ASSUME NEW v \in Jobs \ {w} PROVE FitsPlace(v)'
      BY <1>1, OthersStay DEF StatusFitsPlace, FitsPlace, Place
    <2> QED BY <2>1, <2>2 DEF StatusFitsPlace
  <1>2. CASE MainProcess \/ Tick \/ Finished \/ UNCHANGED vars
    BY <1>2 DEF MainProcess, MainAcquire, MainPrint, CleanTmp, MainCheckAlive, MainCleanup,
                Tick, Finished, vars, StatusFitsPlace, FitsPlace, Place
  <1> QED BY <1>1, <1>2 DEF Next

\* A refused or failed test never reaches the targets or the verdict, and a
\* worker is in the loop only without a test.
THEOREM StatusFits == Spec => []StatusFitsPlace
  <1>1. Init => StatusFitsPlace
    <2>1. NoTest.seed = NoSeed
      BY DEF NoTest
    <2> QED BY <2>1 DEF Init, StatusFitsPlace, FitsPlace, Place
  <1>2. StatusFitsPlace /\ TypeOK /\ [Next]_vars => StatusFitsPlace'
    BY FitsStep
  <1> QED BY <1>1, <1>2, TypeCorrect, PTL DEF Spec


-----------------------------------------------------------------------------
(* No seed is lost or counted twice. *)

\* A step that registers nothing and moves no seed from one hand to another.
LEMMA AccountsKept ==
    ASSUME SeedAccounting, UNCHANGED <<queue, seedsPass, seedsFail>>,
           \A v \in Jobs, p \in Programs : Holds(v, p)' <=> Holds(v, p)
    PROVE  SeedAccounting'
  BY DEF SeedAccounting, Registered, Holds

\* A worker that lets its test go, and enters its seed in one of the lists.
LEMMA AccountClosed ==
    ASSUME TypeOK, SeedAccounting, NEW w \in Jobs,
           UNCHANGED queue,
           \A v \in Jobs \ {w} : test'[v] = test[v],
           test[w].status \notin GenFailStatus,
           \A p \in Programs : ~Holds(w, p)',
           \/ seedsPass' = Record(seedsPass, test[w].seed) /\ UNCHANGED seedsFail
           \/ seedsFail' = Record(seedsFail, test[w].seed) /\ UNCHANGED seedsPass
    PROVE  SeedAccounting'
  <1> DEFINE s == test[w].seed
  <1>1. \A v \in Jobs \ {w}, p \in Programs : Holds(v, p)' <=> Holds(v, p)
    BY DEF Holds
  <1>2. \A p \in Programs : Holds(w, p) <=> p = s
    BY DEF Holds
  <1>3. \A p \in Programs : Registered(p) \in Nat
    BY DEF Registered, TypeOK
  <1>4. \A p \in Programs : Registered(p)' = IF p = s THEN Registered(p) + 1 ELSE Registered(p)
    <2>1. \A list \in [Programs -> Nat], p \in Programs :
             Record(list, s)[p] = IF p = s THEN list[p] + 1 ELSE list[p]
      BY DEF Record
    <2>2. seedsPass \in [Programs -> Nat] /\ seedsFail \in [Programs -> Nat]
      BY DEF TypeOK
    <2>3. ASSUME NEW p \in Programs
          PROVE  Registered(p)' = IF p = s THEN Registered(p) + 1 ELSE Registered(p)
      <3>1. CASE seedsPass' = Record(seedsPass, s) /\ UNCHANGED seedsFail
        BY <3>1, <2>1, <2>2 DEF Registered
      <3>2. CASE seedsFail' = Record(seedsFail, s) /\ UNCHANGED seedsPass
        BY <3>2, <2>1, <2>2 DEF Registered
      <3> QED BY <3>1, <3>2
    <2> QED BY <2>3
  <1>5. ASSUME NEW p \in Programs, p # s
        PROVE  \A v \in Jobs : Holds(v, p)' <=> Holds(v, p)
    BY <1>1, <1>2, <1>5
  <1>6. s \in Programs => Registered(s) = 0 /\ s \notin queue
                          /\ \A v \in Jobs \ {w} : ~Holds(v, s)
    BY <1>2 DEF SeedAccounting
  <1> HIDE DEF s
  <1> QED BY <1>1, <1>2, <1>3, <1>4, <1>5, <1>6 DEF SeedAccounting

\* The steps on a test that neither take it, nor register it, nor drop it.
LEMMA HandKept ==
    ASSUME TypeOK, NEW w \in Jobs, FitsPlace(w), Worker(w),
           ~GetSeed(w), ~NewSeed(w), ~SetStatus(w), ~Finish(w)
    PROVE  /\ UNCHANGED <<queue, seedsPass, seedsFail>>
           /\ \A p \in Programs : Holds(w, p)' <=> Holds(w, p)
  <1>n. NoTest.seed = NoSeed
    BY DEF NoTest
  <1> USE DEF Goto, Crash, TypeOK
  <1>1. CASE QueueDone(w) \/ DeadlineReached(w) \/ CopySeed(w) \/ SeedMissing(w)
             \/ SaveMutateFail(w) \/ SaveGenFail(w)
    BY <1>1 DEF QueueDone, DeadlineReached, CopySeed, SeedMissing, SaveMutateFail,
                SaveGenFail, EnterSave, stats, Holds
  <1>2. CASE RunGrammarinator(w) \/ SaveIce(w)
    <2>1. UNCHANGED <<queue, seedsPass, seedsFail>>
      BY <1>2 DEF RunGrammarinator, SaveIce, stats
    <2>2. test'[w].seed = test[w].seed /\ test'[w].status = test[w].status
      BY <1>2 DEF RunGrammarinator, SaveIce, Tests
    <2> QED BY <2>1, <2>2 DEF Holds
  <1>3. CASE Testing(w)
    <2>1. UNCHANGED <<queue, seedsPass, seedsFail>>
      BY <1>3 DEF Testing, Build, Run, RunGarbled
    <2>2. test'[w].seed = test[w].seed /\ test'[w].status = test[w].status
      BY <1>3 DEF Testing, Build, Run, RunGarbled, SetRun, Tests
    <2> QED BY <2>1, <2>2 DEF Holds
  <1>4. CASE SaveBuildFail(w) \/ NoRunFail(w) \/ SaveRunFail(w) \/ VerifyOk(w)
    <2>1. UNCHANGED <<queue, seedsPass, seedsFail>>
      BY <1>4 DEF SaveBuildFail, NoRunFail, SaveRunFail, VerifyOk, stats
    <2>2. UNCHANGED test \/ \E b : test' = [test EXCEPT ![w] = [test[w] EXCEPT !.blameRun = b]]
      BY <1>4 DEF SaveBuildFail, NoRunFail, SaveRunFail, VerifyOk
    <2>3. test'[w].seed = test[w].seed /\ test'[w].status = test[w].status
      BY <2>2 DEF Tests
    <2> QED BY <2>1, <2>3 DEF Holds
  <1>5. CASE VerifyBad(w)
    <2> DEFINE st == TestVerdict(test[w].runs).status
    <2>1. st \notin GenFailStatus
      BY VerdictBounds DEF VerdictStatuses, GenFailStatus
    <2>2. PICK b : test' = [test EXCEPT ![w] = [test[w] EXCEPT !.status = st, !.blameTest = b]]
      BY <1>5 DEF VerifyBad
    <2>3. test[w].status \notin GenFailStatus
      BY <1>5 DEF VerifyBad, FitsPlace, Place
    <2>4. UNCHANGED <<queue, seedsPass, seedsFail>>
      BY <1>5 DEF VerifyBad
    <2>5. test'[w].status = st /\ test'[w].seed = test[w].seed
      <3> HIDE DEF st
      <3> QED BY <2>2 DEF Tests
    <2> HIDE DEF st
    <2> QED BY <2>1, <2>3, <2>4, <2>5 DEF Holds
  <1>6. CASE AcquireLock(w)
    BY <1>6 DEF AcquireLock, stats, Holds
  <1>7. CASE CopyReport(w) \/ CopyFails(w)
    <2>1. UNCHANGED <<queue, seedsPass, seedsFail>>
      BY <1>7 DEF CopyReport, CopyFails, stats
    <2>2. CASE saving[w].next = "loop"
      <3>1. test[w].status \in GenFailStatus
        BY <1>7, <2>2 DEF CopyReport, CopyFails, FitsPlace
      <3>2. test'[w] = NoTest
        BY <1>7, <2>2 DEF CopyReport, CopyFails, Release
      <3>3. test'[w].seed = NoSeed
        BY <3>2, <1>n
      <3> QED BY <2>1, <3>1, <3>3, FarmAssumption DEF Holds
    <2>3. CASE saving[w].next # "loop"
      BY <1>7, <2>1, <2>3 DEF CopyReport, CopyFails, Release, Holds
    <2> QED BY <2>2, <2>3
  <1>8. CASE NoAnswer(w) \/ CopyExits(w)
    BY <1>8, WorkerDies DEF Holds
  <1> QED BY <1>1, <1>2, <1>3, <1>4, <1>5, <1>6, <1>7, <1>8
          DEF Worker, Generating, Handling, Saving

LEMMA AccountingStep ==
    ASSUME TypeOK, StatusFitsPlace, SeedAccounting, [Next]_vars
    PROVE  SeedAccounting'
  <1>1. ASSUME NEW w \in Jobs, Worker(w)
        PROVE  SeedAccounting'
    <2>f. FitsPlace(w) /\ test[w] \in Tests
      BY DEF StatusFitsPlace, TypeOK
    <2>o. \A v \in Jobs \ {w} : test'[v] = test[v]
      BY <1>1, OthersStay
    <2>1. CASE GetSeed(w)
      <3>1. PICK s \in queue : queue' = queue \ {s} /\ StartTest(w, s)
        BY <2>1 DEF GetSeed
      <3>2. test'[w] = [NoTest EXCEPT !.seed = s]
        BY <3>1 DEF StartTest, TypeOK
      <3>3. test'[w].seed = s /\ test'[w].status = "new"
        BY <3>2 DEF NoTest
      <3>4. \A p \in Programs : ~Holds(w, p) /\ (Holds(w, p)' <=> p = s)
        BY <2>1, <2>f, <3>3, FarmAssumption DEF GetSeed, FitsPlace, Holds, GenFailStatus
      <3>5. \A v \in Jobs \ {w}, p \in Programs : Holds(v, p)' <=> Holds(v, p)
        BY <2>o DEF Holds
      <3>6. \A p \in Programs : Registered(p)' = Registered(p)
        BY <2>1 DEF GetSeed, stats, Registered
      <3> QED BY <3>1, <3>4, <3>5, <3>6 DEF SeedAccounting
    <2>2. CASE NewSeed(w)
      BY <2>2 DEF NewSeed, UseQueue, SeedAccounting
    <2>3. CASE SetStatus(w)
      <3>1. test[w].status = "new"
        BY <2>3, <2>f DEF SetStatus, FitsPlace, Place
      <3>0. \A gen, free : GenStatus(gen, free) \in GenFailStatus \cup {"ok"}
        BY DEF GenStatus, GenFailStatus
      <3>2. PICK st \in GenFailStatus \cup {"ok"} :
               /\ test' = [test EXCEPT ![w].status = st]
               /\ IF st = "ok" THEN UNCHANGED seedsFail
                  ELSE seedsFail' = Record(seedsFail, test[w].seed)
        BY <2>3, <3>0 DEF SetStatus
      <3>3. UNCHANGED <<queue, seedsPass>>
        BY <2>3 DEF SetStatus
      <3>4. test'[w].seed = test[w].seed /\ test'[w].status = st
        BY <3>2, <2>f DEF Tests, TypeOK
      <3>5. CASE st = "ok"
        <4>1. \A p \in Programs : Holds(w, p)' <=> Holds(w, p)
          BY <3>1, <3>4, <3>5 DEF Holds, GenFailStatus
        <4>2. \A v \in Jobs, p \in Programs : Holds(v, p)' <=> Holds(v, p)
          BY <4>1, <2>o DEF Holds
        <4> QED BY <4>2, <3>2, <3>3, <3>5, AccountsKept
      <3>6. CASE st \in GenFailStatus
        <4>1. \A p \in Programs : ~Holds(w, p)'
          BY <3>4, <3>6 DEF Holds
        <4>2. test[w].status \notin GenFailStatus /\ st # "ok"
          BY <3>1, <3>6 DEF GenFailStatus
        <4> QED BY <4>1, <4>2, <2>o, <3>2, <3>3, AccountClosed
      <3> QED BY <3>2, <3>5, <3>6
    <2>4. CASE Finish(w)
      <3>1. test[w].status \notin GenFailStatus
        BY <2>4, <2>f DEF Finish, FitsPlace, Place
      <3>2. test'[w].seed = NoSeed
        BY <2>4 DEF Finish, NoTest, TypeOK
      <3>3. \A p \in Programs : ~Holds(w, p)'
        BY <3>2, FarmAssumption DEF Holds
      <3>4. /\ UNCHANGED queue
            /\ \/ seedsPass' = Record(seedsPass, test[w].seed) /\ UNCHANGED seedsFail
               \/ seedsFail' = Record(seedsFail, test[w].seed) /\ UNCHANGED seedsPass
        BY <2>4 DEF Finish
      <3> QED BY <3>1, <3>3, <3>4, <2>o, AccountClosed
    <2>5. CASE ~GetSeed(w) /\ ~NewSeed(w) /\ ~SetStatus(w) /\ ~Finish(w)
      <3>1. UNCHANGED <<queue, seedsPass, seedsFail>>
        BY <1>1, <2>5, <2>f, HandKept
      <3>2. \A p \in Programs : Holds(w, p)' <=> Holds(w, p)
        BY <1>1, <2>5, <2>f, HandKept
      <3>3. \A v \in Jobs, p \in Programs : Holds(v, p)' <=> Holds(v, p)
        BY <3>2, <2>o DEF Holds
      <3> QED BY <3>1, <3>3, AccountsKept
    <2> QED BY <2>1, <2>2, <2>3, <2>4, <2>5
  <1>2. CASE MainProcess \/ Tick \/ Finished \/ UNCHANGED vars
    <2>1. UNCHANGED <<test, queue, seedsPass, seedsFail>>
      BY <1>2 DEF MainProcess, MainAcquire, MainPrint, CleanTmp, MainCheckAlive, MainCleanup,
                  Tick, Finished, vars, stats
    <2> QED BY <2>1, AccountsKept DEF Holds
  <1> QED BY <1>1, <1>2 DEF Next

\* Whatever the number of workers and programs, the options, and the workers
\* that die on the way: a seed taken from the queue is tested by one worker only
\* and reported at most once, and it goes unreported only in the hands of a
\* worker.
THEOREM SeedsAccounted == Spec => []SeedAccounting
  <1>1. Init => SeedAccounting
    <2>1. NoTest.seed = NoSeed
      BY DEF NoTest
    <2> QED BY <2>1, FarmAssumption DEF Init, SeedAccounting, Holds, Registered
  <1>2. SeedAccounting /\ StatusFitsPlace /\ TypeOK /\ [Next]_vars => SeedAccounting'
    BY AccountingStep
  <1> QED BY <1>1, <1>2, TypeCorrect, StatusFits, PTL DEF Spec

-----------------------------------------------------------------------------
(* The clean-up. *)

\* A worker that ended takes no further step.
LEMMA OnlyTheLiving ==
    ASSUME NEW w \in Jobs, Worker(w)
    PROVE  Alive(w)
  <1> USE DEF Alive
  <1>1. CASE Generating(w)
    BY <1>1 DEF Generating, GetSeed, QueueDone, NewSeed, DeadlineReached, CopySeed,
       SeedMissing, RunGrammarinator, SaveIce, SetStatus, SaveMutateFail, SaveGenFail
  <1>2. CASE Testing(w)
    BY <1>2 DEF Testing, Build, Run, RunGarbled
  <1>3. CASE Handling(w)
    BY <1>3 DEF Handling, SaveBuildFail, NoRunFail, SaveRunFail, VerifyOk, VerifyBad,
       Finish
  <1>4. CASE Saving(w)
    BY <1>4, WorkerDies DEF Saving, AcquireLock, CopyReport, CopyFails
  <1> QED BY <1>1, <1>2, <1>3, <1>4, WorkerDies DEF Worker

\* The process directories are removed only when no worker can be using one, no
\* matter how many workers died and where the others are.
THEOREM CleanupSafe == Spec => []CleanupAfterWorkers
  <1>1. Init => CleanupAfterWorkers
    BY DEF Init, CleanupAfterWorkers
  <1>2. CleanupAfterWorkers /\ [Next]_vars => CleanupAfterWorkers'
    <2> SUFFICES ASSUME CleanupAfterWorkers, [Next]_vars
                 PROVE  CleanupAfterWorkers'
      OBVIOUS
    <2>1. ASSUME NEW w \in Jobs, Worker(w)
          PROVE  CleanupAfterWorkers'
      <3>1. AnyAlive
        BY <2>1, OnlyTheLiving DEF AnyAlive
      <3>2. UNCHANGED mainPc
        BY <2>1, WorkerDies DEF Worker, Generating, GetSeed, QueueDone, NewSeed, DeadlineReached,
           CopySeed, SeedMissing, RunGrammarinator, SaveIce, SetStatus, SaveMutateFail,
           SaveGenFail, Testing, Build, Run, RunGarbled, Handling, SaveBuildFail,
           NoRunFail, SaveRunFail, VerifyOk, VerifyBad, Finish, Saving, AcquireLock,
           CopyReport, CopyFails
      <3> QED BY <3>1, <3>2 DEF CleanupAfterWorkers, AnyAlive, Alive
    <2>2. CASE MainProcess
      BY <2>2 DEF MainProcess, MainAcquire, MainPrint, CleanTmp, MainCheckAlive, MainCleanup,
                  MainStep, CleanupAfterWorkers, AnyAlive, Alive
    <2>3. CASE Tick \/ Finished \/ UNCHANGED vars
      BY <2>3 DEF Tick, Finished, vars, CleanupAfterWorkers, AnyAlive, Alive
    <2> QED BY <2>1, <2>2, <2>3 DEF Next
  <1> QED BY <1>1, <1>2, PTL DEF Spec

-----------------------------------------------------------------------------
(* The driver implements the ledger. *)

Placing == [p \in Programs |-> PlaceOf(p)]

Forward == {<<"waiting", "held">>} \cup {"held"} \X Book!Settled

\* A step that takes one program a place further is a step of the ledger.
LEMMA LedgerStep ==
    ASSUME NEW s \in Programs,
           \A p \in Programs \ {s} : PlaceOf(p)' = PlaceOf(p),
           \/ PlaceOf(s)' = PlaceOf(s)
           \/ <<PlaceOf(s), PlaceOf(s)'>> \in Forward
    PROVE  [Book!Next]_Placing
  <1>1. CASE PlaceOf(s)' = PlaceOf(s)
    BY <1>1 DEF Placing
  <1>2. CASE <<PlaceOf(s), PlaceOf(s)'>> \in Forward
    <2>1. Placing' = [Placing EXCEPT ![s] = PlaceOf(s)']
      BY DEF Placing
    <2>2. Placing[s] = PlaceOf(s)
      BY DEF Placing
    <2>3. Book!Take(s) \/ Book!Settle(s)
      BY <1>2, <2>1, <2>2 DEF Forward, Placing, Book!Take, Book!Settle, Book!Move, Book!Settled
    <2> QED BY <2>3 DEF Book!Next
  <1> QED BY <1>1, <1>2

\* So is one that changes no place.
LEMMA LedgerStutter ==
    ASSUME \A p \in Programs : PlaceOf(p)' = PlaceOf(p)
    PROVE  [Book!Next]_Placing
  BY DEF Placing

\* What the accounts say about the place of a program.
PlaceTold(p) ==
    /\ \A w \in Jobs : Holds(w, p) =>
          PlaceOf(p) = IF pc[w] = "crashed" THEN "lost" ELSE "held"
    /\ p \in queue => PlaceOf(p) = "waiting"

LEMMA PlaceByAccount ==
    TypeOK /\ SeedAccounting => \A p \in Programs : PlaceTold(p)
  <1> SUFFICES ASSUME TypeOK, SeedAccounting, NEW p \in Programs
               PROVE  PlaceTold(p)
    OBVIOUS
  <1>1. seedsPass[p] \in Nat /\ seedsFail[p] \in Nat
    BY DEF TypeOK
  <1>2. Registered(p) = 0 => seedsPass[p] = 0 /\ seedsFail[p] = 0
    BY <1>1 DEF Registered
  <1>3. p \in queue => Registered(p) = 0 /\ \A w \in Jobs : ~Holds(w, p)
    BY DEF SeedAccounting
  <1>4. \A w \in Jobs : Holds(w, p) =>
            Registered(p) = 0 /\ \A v \in Jobs : Holds(v, p) => v = w
    BY DEF SeedAccounting
  <1> QED BY <1>1, <1>2, <1>3, <1>4 DEF PlaceTold, PlaceOf

LEMMA PlaceByNextAccount ==
    TypeOK' /\ SeedAccounting' => (\A p \in Programs : PlaceTold(p))'
  BY PlaceByAccount, PTL

\* A worker whose test stays in its hands moves no program, unless it dies.
LEMMA PlaceKept ==
    ASSUME TypeOK, SeedAccounting, TypeOK', SeedAccounting', NEW w \in Jobs,
           pc[w] # "crashed",
           UNCHANGED <<seedsPass, seedsFail>>,
           \A v \in Jobs \ {w} : test'[v] = test[v] /\ pc'[v] = pc[v],
           \A p \in Programs : Holds(w, p)' <=> Holds(w, p)
    PROVE  [Book!Next]_Placing
  <1>1. \A v \in Jobs, p \in Programs : Holds(v, p)' <=> Holds(v, p)
    BY DEF Holds
  <1>2. ASSUME NEW p \in Programs, ~Holds(w, p)
        PROVE  PlaceOf(p)' = PlaceOf(p)
    BY <1>1, <1>2 DEF PlaceOf
  <1>3. ASSUME NEW p \in Programs, Holds(w, p)
        PROVE  PlaceOf(p) = "held" /\ PlaceOf(p)' \in {"held", "lost"}
    <2>1. Holds(w, p)'
      BY <1>1, <1>3
    <2>2. PlaceOf(p)' = IF pc'[w] = "crashed" THEN "lost" ELSE "held"
      BY <2>1, PlaceByNextAccount DEF PlaceTold
    <2>3. PlaceOf(p) = "held"
      BY <1>3, PlaceByAccount DEF PlaceTold
    <2> QED BY <2>2, <2>3
  <1>4. CASE \E s \in Programs : Holds(w, s)
    <2>1. PICK s \in Programs : Holds(w, s)
      BY <1>4
    <2>2. \A p \in Programs \ {s} : ~Holds(w, p)
      BY <2>1 DEF Holds
    <2>3. PlaceOf(s)' = PlaceOf(s) \/ <<PlaceOf(s), PlaceOf(s)'>> \in Forward
      BY <1>3, <2>1 DEF Forward, Book!Settled
    <2> QED BY <1>2, <2>2, <2>3, LedgerStep
  <1>5. CASE \A s \in Programs : ~Holds(w, s)
    BY <1>2, <1>5, LedgerStutter
  <1> QED BY <1>4, <1>5

\* A worker that enters the seed of its test in one of the lists settles it.
LEMMA PlaceSettled ==
    ASSUME TypeOK, SeedAccounting, TypeOK', SeedAccounting', NEW w \in Jobs,
           NEW s, s = test[w].seed,
           pc[w] # "crashed",
           test[w].status \notin GenFailStatus,
           \A v \in Jobs \ {w} : test'[v] = test[v] /\ pc'[v] = pc[v],
           \A p \in Programs : ~Holds(w, p)',
           \/ seedsPass' = Record(seedsPass, s) /\ UNCHANGED seedsFail
           \/ seedsFail' = Record(seedsFail, s) /\ UNCHANGED seedsPass
    PROVE  [Book!Next]_Placing
  <1>0. seedsPass \in [Programs -> Nat] /\ seedsFail \in [Programs -> Nat]
    BY DEF TypeOK
  <1>1. \A list \in [Programs -> Nat], p \in Programs :
            Record(list, s)[p] = IF p = s THEN list[p] + 1 ELSE list[p]
    BY DEF Record
  <1>2. ASSUME NEW p \in Programs, p # s
        PROVE  PlaceOf(p)' = PlaceOf(p)
    <2>1. ~Holds(w, p) /\ ~Holds(w, p)'
      BY <1>2 DEF Holds
    <2>2. \A v \in Jobs : /\ Holds(v, p)' <=> Holds(v, p)
                          /\ Holds(v, p) => pc'[v] = pc[v]
      BY <2>1 DEF Holds
    <2>3. seedsPass'[p] = seedsPass[p] /\ seedsFail'[p] = seedsFail[p]
      BY <1>0, <1>1, <1>2
    <2> QED BY <2>2, <2>3 DEF PlaceOf
  <1>3. CASE s \in Programs
    <2>1. Holds(w, s)
      BY DEF Holds
    <2>2. PlaceOf(s) = "held"
      BY <1>3, <2>1, PlaceByAccount DEF PlaceTold
    <2>3. \A v \in Jobs : ~Holds(v, s)'
      <3>1. \A v \in Jobs \ {w} : ~Holds(v, s)
        BY <1>3, <2>1 DEF SeedAccounting
      <3>2. \A v \in Jobs \ {w} : ~Holds(v, s)'
        BY <3>1 DEF Holds
      <3> QED BY <1>3, <3>2
    <2>4. seedsPass'[s] > 0 \/ seedsFail'[s] > 0
      <3>1. \A list \in [Programs -> Nat] : Record(list, s)[s] > 0
        BY <1>1, <1>3
      <3> QED BY <1>0, <3>1
    <2>5. PlaceOf(s)' \in {"passed", "failed"}
      BY <2>3, <2>4 DEF PlaceOf
    <2>6. <<PlaceOf(s), PlaceOf(s)'>> \in Forward
      BY <2>2, <2>5 DEF Forward, Book!Settled
    <2> QED BY <1>2, <1>3, <2>6, LedgerStep
  <1>4. CASE s \notin Programs
    BY <1>2, <1>4, LedgerStutter
  <1> QED BY <1>3, <1>4

\* A worker's step.
LEMMA WorkerTracked ==
    ASSUME TypeOK, StatusFitsPlace, SeedAccounting, TypeOK', SeedAccounting',
           NEW w \in Jobs, Worker(w)
    PROVE  [Book!Next]_Placing
  <1>a. pc[w] # "crashed"
    BY OnlyTheLiving DEF Alive
  <1>o. \A v \in Jobs \ {w} : test'[v] = test[v] /\ pc'[v] = pc[v]
    BY OthersStay
  <1>f. FitsPlace(w) /\ test[w] \in Tests
    BY DEF StatusFitsPlace, TypeOK
  <1>1. CASE GetSeed(w)
    <2>1. PICK s \in queue : queue' = queue \ {s} /\ StartTest(w, s)
      BY <1>1 DEF GetSeed
    <2>2. s \in Programs /\ UNCHANGED <<seedsPass, seedsFail>>
      BY <1>1 DEF GetSeed, stats, TypeOK
    <2>3. test'[w] = [NoTest EXCEPT !.seed = s] /\ pc'[w] = "generate"
      BY <2>1 DEF StartTest, Goto, TypeOK
    <2>4. test'[w].seed = s /\ test'[w].status = "new"
      BY <2>3 DEF NoTest
    <2>5. Holds(w, s)' /\ \A p \in Programs \ {s} : ~Holds(w, p)'
      BY <2>4 DEF Holds, GenFailStatus
    <2>6. \A p \in Programs : ~Holds(w, p)
      BY <1>1, <1>f, FarmAssumption DEF GetSeed, FitsPlace, Holds
    <2>7. \A v \in Jobs \ {w}, p \in Programs : Holds(v, p)' <=> Holds(v, p)
      BY <1>o DEF Holds
    <2>8. \A p \in Programs \ {s} : PlaceOf(p)' = PlaceOf(p)
      BY <2>2, <2>5, <2>6, <2>7, <1>o DEF PlaceOf
    <2>9. PlaceOf(s) = "waiting"
      BY <2>1, <2>2, PlaceByAccount DEF PlaceTold
    <2>10. PlaceOf(s)' = "held"
      BY <2>2, <2>3, <2>5, PlaceByNextAccount DEF PlaceTold
    <2> QED BY <2>2, <2>8, <2>9, <2>10, LedgerStep DEF Forward
  <1>2. CASE NewSeed(w)
    <2>1. Programs = {}
      BY <1>2 DEF NewSeed, UseQueue
    <2> QED BY <2>1, LedgerStutter
  <1>3. CASE SetStatus(w)
    <2>1. test[w].status = "new"
      BY <1>3, <1>f DEF SetStatus, FitsPlace, Place
    <2>2. \A gen, free : GenStatus(gen, free) \in GenFailStatus \cup {"ok"}
      BY DEF GenStatus, GenFailStatus
    <2>3. PICK st \in GenFailStatus \cup {"ok"} :
             /\ test' = [test EXCEPT ![w].status = st]
             /\ IF st = "ok" THEN UNCHANGED seedsFail
                ELSE seedsFail' = Record(seedsFail, test[w].seed)
      BY <1>3, <2>2 DEF SetStatus
    <2>4. UNCHANGED seedsPass
      BY <1>3 DEF SetStatus
    <2>5. test'[w].seed = test[w].seed /\ test'[w].status = st
      BY <2>3, <1>f DEF Tests, TypeOK
    <2>6. CASE st = "ok"
      <3>1. \A p \in Programs : Holds(w, p)' <=> Holds(w, p)
        BY <2>1, <2>5, <2>6 DEF Holds, GenFailStatus
      <3> QED BY <1>a, <1>o, <2>3, <2>4, <2>6, <3>1, PlaceKept
    <2>7. CASE st \in GenFailStatus
      <3>1. \A p \in Programs : ~Holds(w, p)'
        BY <2>5, <2>7 DEF Holds
      <3>2. test[w].status \notin GenFailStatus /\ st # "ok"
        BY <2>1, <2>7 DEF GenFailStatus
      <3> QED BY <1>a, <1>o, <2>3, <2>4, <3>1, <3>2, PlaceSettled
    <2> QED BY <2>3, <2>6, <2>7
  <1>4. CASE Finish(w)
    <2>1. test[w].status \notin GenFailStatus
      BY <1>4, <1>f DEF Finish, FitsPlace, Place
    <2>2. test'[w].seed = NoSeed
      BY <1>4 DEF Finish, NoTest, TypeOK
    <2>3. \A p \in Programs : ~Holds(w, p)'
      BY <2>2, FarmAssumption DEF Holds
    <2>4. \/ seedsPass' = Record(seedsPass, test[w].seed) /\ UNCHANGED seedsFail
          \/ seedsFail' = Record(seedsFail, test[w].seed) /\ UNCHANGED seedsPass
      BY <1>4 DEF Finish
    <2> QED BY <1>a, <1>o, <2>1, <2>3, <2>4, PlaceSettled
  <1>5. CASE ~GetSeed(w) /\ ~NewSeed(w) /\ ~SetStatus(w) /\ ~Finish(w)
    <2>1. UNCHANGED <<seedsPass, seedsFail>>
      BY <1>5, <1>f, HandKept
    <2>2. \A p \in Programs : Holds(w, p)' <=> Holds(w, p)
      BY <1>5, <1>f, HandKept
    <2> QED BY <1>a, <1>o, <2>1, <2>2, PlaceKept
  <1> QED BY <1>1, <1>2, <1>3, <1>4, <1>5

\* Whatever the number of workers and programs and whoever dies, the driver
\* implements the ledger: every program is taken once, and settled once and for
\* all, in one of the two lists or with the worker that died.
THEOREM FarmImplementsLedger == Spec => SeedsTracked
  <1>1. Init => Book!Init
    <2>1. NoTest.seed = NoSeed
      BY DEF NoTest
    <2> QED BY <2>1, FarmAssumption DEF Init, Book!Init, PlaceOf, Holds
  <1>2. TypeOK /\ StatusFitsPlace /\ SeedAccounting /\ TypeOK' /\ SeedAccounting'
        /\ [Next]_vars => [Book!Next]_Placing
    <2> SUFFICES ASSUME TypeOK, StatusFitsPlace, SeedAccounting, TypeOK',
                        SeedAccounting', [Next]_vars
                 PROVE  [Book!Next]_Placing
      OBVIOUS
    <2>1. ASSUME NEW w \in Jobs, Worker(w)
          PROVE  [Book!Next]_Placing
      BY <2>1, WorkerTracked
    <2>2. CASE MainProcess \/ Tick \/ Finished \/ UNCHANGED vars
      <3>1. UNCHANGED <<pc, test, seedsPass, seedsFail>>
        BY <2>2 DEF MainProcess, MainAcquire, MainPrint, CleanTmp, MainCheckAlive, MainCleanup,
                    Tick, Finished, vars, stats
      <3>2. \A p \in Programs : PlaceOf(p)' = PlaceOf(p)
        BY <3>1 DEF PlaceOf, Holds
      <3> QED BY <3>2, LedgerStutter
    <2> QED BY <2>1, <2>2 DEF Next
  <1> QED BY <1>1, <1>2, TypeCorrect, StatusFits, SeedsAccounted, PTL
          DEF Spec, SeedsTracked, Book!Spec, Placing

-----------------------------------------------------------------------------
(* TestFarm lists a program as passed only when all targets agree on it:     *)
(* what the comparison decided is still true of the runs when the seed is    *)
(* entered in a list, and every run is over by then.                         *)

Over(runs)  == \A t \in Targets : runs[t] \notin NotDone
Clean(runs) == \A t \in Targets : runs[t] # "garbled"

\* What is known of the test of a worker in each place.
Settled(w) ==
    /\ pc[w] # "crashed" => Clean(test[w].runs)
    /\ Place(w) \in {"saverun", "verify", "finish"} => Over(test[w].runs)
    /\ Place(w) \in {"targets", "saverun", "verify"} => test[w].status = "ok"
    /\ Place(w) = "finish" => (test[w].status = "ok" <=> Agreed(test[w].runs))

\* At the end of a test every run is over and was read, and the status is "ok"
\* exactly when the results agreed.
VerdictFitsRuns == \A w \in Jobs : Settled(w)

-----------------------------------------------------------------------------
(* What it means that the results agree. *)

\* If no run failed and the dictionary of results has one entry without an error,
\* all targets printed it.
LEMMA AgreedMeansAll ==
    ASSUME NEW runs, Agreed(runs), \A t \in Targets : runs[t] \in Checksums
    PROVE  AllAgree(runs)
  <1>1. PICK sum : Sums(runs) = {sum}
    BY SumsFinite, FS_Singleton DEF Agreed
  <1>2. \A t \in Targets : runs[t] = sum
    BY <1>1 DEF Sums, Succeeded
  <1>3. sum \in Checksums \ ErrorSums
    BY <1>1, <1>2, TargetsAssumption DEF Agreed
  <1> QED BY <1>2, <1>3 DEF AllAgree

LEMMA AllMeansAgreed ==
    ASSUME NEW runs, AllAgree(runs)
    PROVE  Agreed(runs) /\ \A t \in Targets : runs[t] \in Checksums
  <1>1. PICK sum \in Checksums \ ErrorSums : \A t \in Targets : runs[t] = sum
    BY DEF AllAgree
  <1>2. Sums(runs) = {sum}
    BY <1>1, TargetsAssumption DEF Sums, Succeeded
  <1>3. Cardinality(Sums(runs)) = 1
    BY <1>2, FS_Singleton
  <1> QED BY <1>1, <1>2, <1>3 DEF Agreed

-----------------------------------------------------------------------------
(* The invariant. *)

LEMMA SettledGenerating ==
    ASSUME TypeOK, NEW w \in Jobs, FitsPlace(w), Settled(w), Generating(w)
    PROVE  Settled(w)'
  <1> USE DEF Goto, Crash, TypeOK, Settled, Place
  <1>1. CASE GetSeed(w) \/ NewSeed(w)
    <2>1. PICK s : StartTest(w, s)
      BY <1>1 DEF GetSeed, NewSeed
    <2>2. test'[w].runs = NoTest.runs /\ pc'[w] = "generate"
      BY <2>1 DEF StartTest, NoTest
    <2> QED BY <2>2 DEF NoTest, Clean
  <1>2. CASE QueueDone(w) \/ DeadlineReached(w)
    BY <1>2 DEF QueueDone, DeadlineReached
  <1>3. CASE CopySeed(w) \/ SeedMissing(w) \/ SaveGenFail(w)
    BY <1>3 DEF CopySeed, SeedMissing, SaveGenFail
  <1>4. CASE RunGrammarinator(w)
    <2>1. test'[w].runs = test[w].runs /\ pc[w] = "generate" /\ pc'[w] = "sanitize"
      BY <1>4 DEF RunGrammarinator, Tests
    <2> QED BY <2>1
  <1>5. CASE SaveIce(w)
    <2>1. /\ test'[w].runs = test[w].runs /\ pc[w] = "sanitize"
          /\ pc'[w] = "lock" /\ saving'[w].next = "sanitize"
      BY <1>5 DEF SaveIce, EnterSave, Tests
    <2> QED BY <2>1
  <1>6. CASE SetStatus(w)
    <2>1. PICK st \in GenFailStatus \cup {"ok"} :
             /\ test' = [test EXCEPT ![w].status = st]
             /\ pc' = [pc EXCEPT ![w] = IF st = "ok" THEN "targets" ELSE "genfail"]
      BY <1>6 DEF SetStatus, GenStatus, GenFailStatus
    <2>2. /\ test'[w].runs = test[w].runs /\ test'[w].status = st
          /\ pc'[w] = IF st = "ok" THEN "targets" ELSE "genfail"
      BY <2>1 DEF Tests
    <2>3. pc[w] = "sanitize"
      BY <1>6 DEF SetStatus
    <2> QED BY <2>2, <2>3
  <1>7. CASE SaveMutateFail(w)
    BY <1>7 DEF SaveMutateFail, EnterSave
  <1> QED BY <1>1, <1>2, <1>3, <1>4, <1>5, <1>6, <1>7 DEF Generating

LEMMA SettledTesting ==
    ASSUME TypeOK, NEW w \in Jobs, Settled(w), Testing(w)
    PROVE  Settled(w)'
  <1> DEFINE t == Current(w)
  <1>1. PICK o \in Outcomes :
           /\ SetRun(w, t, o)
           /\ o = "garbled" => pc' = [pc EXCEPT ![w] = "crashed"]
    BY OutcomesAssumption, FailuresOfBuild
       DEF Testing, Build, Run, RunGarbled, Outcomes, NotDone, BuildFailTags, RunFailTags, Crash, Goto
  <1>2. pc[w] = "targets" /\ pc'[w] \in {"targets", "crashed"}
    BY DEF Testing, Build, Run, RunGarbled, Crash, Goto, TypeOK
  <1>3. test'[w].status = test[w].status
    BY <1>1 DEF SetRun, TypeOK, Tests
  <1>4. \A k \in Targets : test'[w].runs[k] = IF k = t THEN o ELSE test[w].runs[k]
    BY <1>1 DEF SetRun, TypeOK, Tests
  <1>5. pc'[w] = "crashed" \/ o # "garbled"
    BY <1>1 DEF TypeOK
  <1> HIDE DEF t
  <1>6. pc'[w] # "crashed" => Clean(test'[w].runs)
    BY <1>2, <1>4, <1>5 DEF Clean, Settled
  <1>7. test[w].status = "ok"
    BY <1>2 DEF Settled, Place
  <1> QED BY <1>2, <1>3, <1>6, <1>7 DEF Settled, Place

LEMMA SettledHandling ==
    ASSUME TypeOK, NEW w \in Jobs, Settled(w), Handling(w)
    PROVE  Settled(w)'
  <1> USE DEF Goto, Crash, TypeOK, Settled, Place
  <1>1. CASE SaveBuildFail(w)
    <2>1. Over(test[w].runs)
      BY <1>1 DEF SaveBuildFail, Pending, Over
    <2>2. /\ UNCHANGED test /\ pc[w] = "targets"
          /\ \/ pc'[w] \in {"saverun", "crashed"}
             \/ pc'[w] = "lock" /\ saving'[w].next = "saverun"
      BY <1>1 DEF SaveBuildFail, EnterSave
    <2> QED BY <2>1, <2>2
  <1>2. CASE NoRunFail(w)
    BY <1>2 DEF NoRunFail
  <1>3. CASE SaveRunFail(w)
    <2>1. test'[w].runs = test[w].runs /\ test'[w].status = test[w].status
      BY <1>3 DEF SaveRunFail, Tests
    <2>2. /\ pc[w] = "saverun"
          /\ \/ pc'[w] = "crashed"
             \/ pc'[w] = "lock" /\ saving'[w].next = "verify"
      BY <1>3 DEF SaveRunFail, EnterSave
    <2> QED BY <2>1, <2>2
  <1>4. CASE VerifyOk(w)
    BY <1>4 DEF VerifyOk
  <1>5. CASE VerifyBad(w)
    <2> DEFINE st == TestVerdict(test[w].runs).status
    <2>1. PICK b : test' = [test EXCEPT ![w] = [test[w] EXCEPT !.status = st, !.blameTest = b]]
      BY <1>5 DEF VerifyBad
    <2>2. ~Agreed(test[w].runs) /\ pc[w] = "verify"
      BY <1>5 DEF VerifyBad
    <2>3. st # "ok"
      BY <2>2, VerdictOnDifference
    <2>4. test'[w].status = st /\ test'[w].runs = test[w].runs
      <3> HIDE DEF st
      <3> QED BY <2>1 DEF Tests
    <2>5. \/ pc'[w] = "crashed"
          \/ pc'[w] = "lock" /\ saving'[w].next = "finish"
      BY <1>5 DEF VerifyBad, EnterSave
    <2> HIDE DEF st
    <2> QED BY <2>2, <2>3, <2>4, <2>5
  <1>6. CASE Finish(w)
    <2>1. test'[w] = NoTest /\ pc'[w] = "loop"
      BY <1>6 DEF Finish
    <2>2. Clean(NoTest.runs)
      BY DEF NoTest, Clean
    <2> QED BY <2>1, <2>2
  <1> QED BY <1>1, <1>2, <1>3, <1>4, <1>5, <1>6 DEF Handling

LEMMA SettledDying ==
    ASSUME TypeOK, NEW w \in Jobs, NoAnswer(w) \/ CopyExits(w)
    PROVE  Settled(w)'
  BY WorkerDies DEF TypeOK, Settled, Place

LEMMA SettledSaving ==
    ASSUME TypeOK, NEW w \in Jobs, Settled(w), Saving(w)
    PROVE  Settled(w)'
  <1> USE DEF Goto, TypeOK, Settled, Place
  <1>1. CASE AcquireLock(w)
    BY <1>1 DEF AcquireLock
  <1>2. CASE CopyReport(w) \/ CopyFails(w)
    <2> DEFINE next == saving[w].next
    <2>1. next \in {"loop", "sanitize", "saverun", "verify", "finish"}
      OBVIOUS
    <2>2. pc[w] = "copy" /\ pc'[w] = next
      BY <1>2 DEF CopyReport, CopyFails, Release
    <2>3. test'[w] = IF next = "loop" THEN NoTest ELSE test[w]
      BY <1>2 DEF CopyReport, CopyFails, Release
    <2>4. Place(w)' = next /\ Place(w) = next
      BY <2>1, <2>2
    <2>5. Clean(NoTest.runs)
      BY DEF NoTest, Clean
    <2> HIDE DEF next
    <2> QED BY <2>1, <2>2, <2>3, <2>4, <2>5
  <1> QED BY <1>1, <1>2, SettledDying DEF Saving

LEMMA SettledStep ==
    ASSUME TypeOK, StatusFitsPlace, VerdictFitsRuns, [Next]_vars
    PROVE  VerdictFitsRuns'
  <1>1. ASSUME NEW w \in Jobs, Worker(w)
        PROVE  VerdictFitsRuns'
    <2>1. Settled(w)'
      BY <1>1, SettledGenerating, SettledTesting, SettledHandling, SettledSaving,
             SettledDying
         DEF Worker, StatusFitsPlace, VerdictFitsRuns
    <2>2. ASSUME NEW v \in Jobs \ {w} PROVE Settled(v)'
      <3>1. pc'[v] = pc[v] /\ test'[v] = test[v] /\ saving'[v] = saving[v]
        BY <1>1, OthersStay
      <3> QED BY <3>1 DEF VerdictFitsRuns, Settled, Place
    <2> QED BY <2>1, <2>2 DEF VerdictFitsRuns
  <1>2. CASE MainProcess \/ Tick \/ Finished \/ UNCHANGED vars
    BY <1>2 DEF MainProcess, MainAcquire, MainPrint, CleanTmp, MainCheckAlive, MainCleanup,
                Tick, Finished, vars, VerdictFitsRuns, Settled, Place
  <1> QED BY <1>1, <1>2 DEF Next

\* Nothing that comes between the comparison and the entry in the lists - the
\* reports, the waits for the lock - separates the status from the runs it is for.
THEOREM VerdictsFit == Spec => []VerdictFitsRuns
  <1>1. Init => VerdictFitsRuns
    <2>1. Clean(NoTest.runs)
      BY DEF NoTest, Clean
    <2>2. ASSUME Init, NEW w \in Jobs PROVE pc[w] = "loop" /\ test[w] = NoTest
      BY <2>2 DEF Init
    <2> QED BY <2>1, <2>2 DEF VerdictFitsRuns, Settled, Place
  <1>2. TypeOK /\ StatusFitsPlace /\ VerdictFitsRuns /\ [Next]_vars => VerdictFitsRuns'
    BY SettledStep
  <1> QED BY <1>1, <1>2, TypeCorrect, StatusFits, PTL DEF Spec

-----------------------------------------------------------------------------
(* The lists. *)

LEMMA RecordsOne ==
    ASSUME NEW list \in [Programs -> Nat], NEW s, NEW p \in Programs,
           Record(list, s)[p] # list[p]
    PROVE  p = s
  BY DEF Record

\* A test that ends without a failed build or run has a result of every target.
LEMMA AllHaveRun ==
    ASSUME TypeOK, NEW w \in Jobs, Settled(w), pc[w] = "finish",
           Failed(w, BuildFailTags \cup RunFailTags) = {}
    PROVE  \A t \in Targets : test[w].runs[t] \in Checksums
  <1>1. ASSUME NEW t \in Targets PROVE test[w].runs[t] \in Outcomes
    BY DEF TypeOK, Tests
  <1>2. Over(test[w].runs) /\ Clean(test[w].runs)
    BY DEF Settled, Place
  <1> QED BY <1>1, <1>2 DEF Over, Clean, Failed, Outcomes

LEMMA FinishSound ==
    ASSUME TypeOK, NEW w \in Jobs, Settled(w), Finish(w), NEW p \in Programs
    PROVE  /\ seedsPass'[p] # seedsPass[p] => test[w].seed = p /\ AllAgree(test[w].runs)
           /\ seedsFail'[p] # seedsFail[p] => test[w].seed = p /\ ~AllAgree(test[w].runs)
  <1> DEFINE passed == test[w].status = "ok" /\ Failed(w, BuildFailTags \cup RunFailTags) = {}
  <1>1. /\ seedsPass'[p] # seedsPass[p] => passed /\ seedsPass' = Record(seedsPass, test[w].seed)
        /\ seedsFail'[p] # seedsFail[p] => ~passed /\ seedsFail' = Record(seedsFail, test[w].seed)
    BY DEF Finish
  <1>2. /\ seedsPass'[p] # seedsPass[p] => test[w].seed = p
        /\ seedsFail'[p] # seedsFail[p] => test[w].seed = p
    BY <1>1, RecordsOne DEF TypeOK
  <1>3. pc[w] = "finish" /\ (test[w].status = "ok" <=> Agreed(test[w].runs))
    BY DEF Finish, Settled, Place
  <1>4. passed => AllAgree(test[w].runs)
    BY <1>3, AllHaveRun, AgreedMeansAll
  <1>5. AllAgree(test[w].runs) => passed
    BY <1>3, AllMeansAgreed, OutcomesAssumption DEF Failed
  <1> QED BY <1>1, <1>2, <1>4, <1>5

LEMMA StatusSound ==
    ASSUME TypeOK, NEW w \in Jobs, SetStatus(w), NEW p \in Programs
    PROVE  /\ seedsPass'[p] = seedsPass[p]
           /\ seedsFail'[p] # seedsFail[p] =>
                 test[w].seed = p /\ test'[w].status \in GenFailStatus
  <1>0. \A gen, free : GenStatus(gen, free) \in GenFailStatus \cup {"ok"}
    BY DEF GenStatus, GenFailStatus
  <1>1. PICK st \in GenFailStatus \cup {"ok"} :
           /\ test' = [test EXCEPT ![w].status = st]
           /\ IF st = "ok" THEN UNCHANGED seedsFail
              ELSE seedsFail' = Record(seedsFail, test[w].seed)
    BY <1>0 DEF SetStatus
  <1>2. test'[w].status = st
    BY <1>1 DEF TypeOK, Tests
  <1>3. seedsFail'[p] # seedsFail[p] => test[w].seed = p
    BY <1>1, RecordsOne DEF TypeOK
  <1> QED BY <1>1, <1>2, <1>3 DEF SetStatus

\* For any number of workers and targets and whatever the programs print: a seed
\* is listed as passed only when every target built it, ran it and printed the
\* same text without an error, and as failed only when that is not so or it could
\* not be generated.
THEOREM VerdictsSound == Spec => VerdictSound
  <1>1. TypeOK /\ StatusFitsPlace /\ VerdictFitsRuns /\ [Next]_vars =>
          [\A p \in Programs :
             /\ seedsPass'[p] # seedsPass[p] =>
                  \E w \in Jobs : test[w].seed = p /\ AllAgree(test[w].runs)
             /\ seedsFail'[p] # seedsFail[p] =>
                  \E w \in Jobs : /\ test[w].seed = p
                                  /\ \/ test'[w].status \in GenFailStatus
                                     \/ ~AllAgree(test[w].runs)]_vars
    <2> SUFFICES ASSUME TypeOK, StatusFitsPlace, VerdictFitsRuns, [Next]_vars,
                        NEW p \in Programs
                 PROVE  /\ seedsPass'[p] # seedsPass[p] =>
                             \E w \in Jobs : test[w].seed = p /\ AllAgree(test[w].runs)
                        /\ seedsFail'[p] # seedsFail[p] =>
                             \E w \in Jobs : /\ test[w].seed = p
                                             /\ \/ test'[w].status \in GenFailStatus
                                                \/ ~AllAgree(test[w].runs)
      OBVIOUS
    <2>1. CASE \E w \in Jobs : Finish(w)
      BY <2>1, FinishSound DEF VerdictFitsRuns
    <2>2. CASE \E w \in Jobs : SetStatus(w)
      BY <2>2, StatusSound
    <2>3. CASE \E w \in Jobs : Worker(w) /\ ~Finish(w) /\ ~SetStatus(w)
      <3>1. PICK w \in Jobs : Worker(w) /\ ~Finish(w) /\ ~SetStatus(w)
        BY <2>3
      <3>2. CASE GetSeed(w) \/ NewSeed(w)
        BY <3>2 DEF GetSeed, NewSeed, stats
      <3>3. CASE ~GetSeed(w) /\ ~NewSeed(w)
        BY <3>1, <3>3, HandKept DEF StatusFitsPlace
      <3> QED BY <3>2, <3>3
    <2>4. CASE MainProcess \/ Tick \/ Finished \/ UNCHANGED vars
      BY <2>4 DEF MainProcess, MainAcquire, MainPrint, CleanTmp, MainCheckAlive, MainCleanup,
                  Tick, Finished, vars, stats
    <2> QED BY <2>1, <2>2, <2>3, <2>4 DEF Next
  <1> QED BY <1>1, TypeCorrect, StatusFits, VerdictsFit, PTL DEF Spec, VerdictSound

-----------------------------------------------------------------------------
(* The reports: what a worker is about to save, what is saved, and what is   *)
(* not.  They are told apart by the names of the programs.                   *)

\* Each program has a directory name of its own, and none is one of the names
\* FAIL_... that are made of the time.
NamesFit ==
    /\ \A p, q \in Programs : TestName(p) = TestName(q) => p = q
    /\ \A p \in Programs, n \in Nat : TestName(p) # <<"FAIL", n>>

Stamped(dest) == \E n \in Nat : dest[3] = <<"FAIL", n>>

VerdictKinds == {"miscompare", "multiple_miscompare", "no_good_runs"}

ReportOf(r, p) == r.seed = p /\ r.dest[3] = TestName(p)

Saved(p, kind) == \E r \in reports : ReportOf(r, p) /\ r.dest[2] = kind

Unsaved(w, kinds) == \A kind \in kinds : ~Saved(test[w].seed, kind)

SomeSaved(w, tags) == Failed(w, tags) # {} => \E tag \in tags : Saved(test[w].seed, tag)

Writing(w) == pc[w] \in {"lock", "copy"}

\* What a worker is about to save, by the place where it goes on; only a report
\* of a comparison blames targets.
WritingFits(w) ==
    /\ Writing(w) =>
          LET s == saving[w] IN
          \/ s.next \in {"loop", "sanitize"} /\ Stamped(s.dest) /\ s.bad = {}
          \/ /\ s.dest[3] = Name(w)
             /\ \/ s.next = "saverun" /\ s.dest[2] \in BuildFailTags /\ s.bad = {}
                \/ s.next = "verify" /\ s.dest[2] \in RunFailTags /\ s.bad = {}
                \/ s.next = "finish" /\ s.dest[2] = test[w].status /\ s.dest[2] \in VerdictKinds
    /\ ~Writing(w) /\ pc[w] # "crashed" => saving[w].bad = {}

\* On a disk that can be written, what is behind the worker is saved ...
Progress(w) ==
    ~DiskCanFail =>
        /\ pc[w] = "saverun" \/ Place(w) \in {"verify", "finish"} => SomeSaved(w, BuildFailTags)
        /\ pc[w] = "verify" \/ Place(w) = "finish" => SomeSaved(w, RunFailTags)
        /\ pc[w] = "finish" /\ test[w].status # "ok" => Saved(test[w].seed, test[w].status)

EarlyPlaces == {"generate", "sanitize", "targets"}

\* ... and of what is ahead of it its program has no report.
Fresh(w) ==
    /\ Place(w) \in EarlyPlaces \/ (Writing(w) /\ Place(w) = "saverun")
          => Unsaved(w, BuildFailTags)
    /\ Place(w) \in EarlyPlaces \cup {"saverun"} \/ (Writing(w) /\ Place(w) = "verify")
          => Unsaved(w, RunFailTags)
    /\ Place(w) \in EarlyPlaces \cup {"saverun", "verify"} \/ (Writing(w) /\ Place(w) = "finish")
          => Unsaved(w, VerdictKinds)

SeedKnown(w) == pc[w] \notin {"loop", "exited", "crashed"} => test[w].seed \in Programs

Work(w) == WritingFits(w) /\ Progress(w) /\ Fresh(w) /\ SeedKnown(w)

\* A directory is named after the time, or after the program that is in it.
ReportShape ==
    \A r \in reports : \/ Stamped(r.dest) /\ r.bad = {}
                       \/ r.seed \in Programs /\ ReportOf(r, r.seed)

\* A program that waits in the queue has no report.
QueueFresh == \A p \in queue : \A r \in reports : ~ReportOf(r, p)

ReportInv == ReportShape /\ QueueFresh /\ IsFiniteSet(reports) /\ \A w \in Jobs : Work(w)

-----------------------------------------------------------------------------
(* Steps that write no report. *)

LEMMA Kinds ==
    /\ BuildFailTags \cap VerdictKinds = {} /\ RunFailTags \cap VerdictKinds = {}
    /\ BuildFailTags \cap RunFailTags = {} /\ "ok" \notin VerdictKinds
  BY DEF BuildFailTags, RunFailTags, VerdictKinds

\* Without a report of its own, what a worker does not touch still fits.
LEMMA WorkStays ==
    ASSUME NEW v \in Jobs, Work(v), UNCHANGED reports,
           pc'[v] = pc[v], test'[v] = test[v], saving'[v] = saving[v]
    PROVE  Work(v)'
  BY DEF Work, WritingFits, Progress, Fresh, SeedKnown, Writing, Place, Unsaved,
         SomeSaved, Saved, Failed, Name, ReportOf, EarlyPlaces, Stamped

\* A worker without a test has nothing to save.
LEMMA WorkIdle ==
    ASSUME NEW w \in Jobs, pc'[w] \in {"loop", "exited", "crashed"},
           saving'[w].bad = {} \/ pc'[w] = "crashed"
    PROVE  Work(w)'
  BY DEF Work, WritingFits, Progress, Fresh, SeedKnown, Writing, Place, EarlyPlaces

\* A worker outside save_test has nothing in hand.
LEMMA NothingInHand ==
    ASSUME NEW w \in Jobs, Work(w), ~Writing(w), pc[w] # "crashed"
    PROVE  saving[w].bad = {}
  BY DEF Work, WritingFits

\* The same test in the same place, or in a later one of the early ones.
LEMMA WorkEarly ==
    ASSUME NEW w \in Jobs, Work(w), UNCHANGED reports,
           test'[w].seed = test[w].seed,
           Place(w) \in EarlyPlaces, Place(w)' \in EarlyPlaces, ~Writing(w)',
           saving'[w].bad = {}
    PROVE  Work(w)'
  <1>1. pc'[w] = Place(w)'
    BY DEF Writing, Place
  <1>2. test[w].seed \in Programs
    BY DEF Work, SeedKnown, Place, EarlyPlaces
  <1>3. /\ Unsaved(w, BuildFailTags)' /\ Unsaved(w, RunFailTags)' /\ Unsaved(w, VerdictKinds)'
    BY DEF Work, Fresh, Unsaved, Saved, ReportOf
  <1> QED BY <1>1, <1>2, <1>3 DEF Work, WritingFits, Progress, Fresh, SeedKnown, EarlyPlaces

LEMMA WorkGenerating ==
    ASSUME TypeOK, ReportInv, UseQueue, NEW w \in Jobs, FitsPlace(w), Generating(w)
    PROVE  Work(w)'
  <1>w. Work(w) /\ saving[w] \in {saving[w]}
    BY DEF ReportInv
  <1> USE DEF TypeOK, Goto, Crash
  <1>1. CASE GetSeed(w)
    <2>1. PICK p \in queue : StartTest(w, p)
      BY <1>1 DEF GetSeed
    <2>2. /\ pc'[w] = "generate" /\ test'[w].seed = p /\ UNCHANGED <<reports, saving>>
          /\ p \in Programs /\ pc[w] = "loop"
      BY <1>1, <2>1 DEF GetSeed, StartTest, NoTest
    <2>3. \A kind : ~Saved(p, kind)'
      BY <2>1, <2>2 DEF ReportInv, QueueFresh, Saved, ReportOf
    <2>4. saving[w].bad = {}
      BY <1>w, <2>2, NothingInHand DEF Writing
    <2> QED BY <2>2, <2>3, <2>4 DEF Work, WritingFits, Progress, Fresh, SeedKnown,
               Writing, Place, Unsaved
  <1>2. CASE NewSeed(w)
    BY <1>2 DEF NewSeed
  <1>3. CASE QueueDone(w) \/ DeadlineReached(w) \/ SeedMissing(w) \/ SaveGenFail(w)
    <2>1. /\ pc'[w] \in {"exited", "crashed"} /\ UNCHANGED saving
          /\ ~Writing(w) /\ pc[w] # "crashed"
      BY <1>3 DEF QueueDone, DeadlineReached, SeedMissing, SaveGenFail, Writing
    <2> QED BY <1>w, <2>1, WorkIdle, NothingInHand
  <1>4. CASE CopySeed(w) \/ RunGrammarinator(w)
    <2>1. /\ pc[w] = "generate" /\ pc'[w] = "sanitize" /\ UNCHANGED <<reports, saving>>
          /\ test'[w].seed = test[w].seed
      BY <1>4 DEF CopySeed, RunGrammarinator, Tests
    <2>2. saving[w].bad = {}
      BY <1>w, <2>1, NothingInHand DEF Writing
    <2> QED BY <1>w, <2>1, <2>2, WorkEarly DEF Place, EarlyPlaces, Writing
  <1>5. CASE SaveIce(w)
    <2>1. /\ pc[w] = "sanitize" /\ pc'[w] = "lock" /\ UNCHANGED reports
          /\ saving'[w].next = "sanitize" /\ saving'[w].bad = {}
          /\ saving'[w].dest[3] = <<"FAIL", clock>>
          /\ test'[w].seed = test[w].seed
      BY <1>5 DEF SaveIce, EnterSave, Stamp, Tests
    <2>2. Stamped(saving'[w].dest)
      BY <2>1 DEF Stamped
    <2>3. test[w].seed \in Programs
      BY <1>w, <2>1 DEF Work, SeedKnown
    <2>4. /\ Unsaved(w, BuildFailTags)' /\ Unsaved(w, RunFailTags)' /\ Unsaved(w, VerdictKinds)'
      BY <1>w, <2>1 DEF Work, Fresh, Place, EarlyPlaces, Unsaved, Saved, ReportOf
    <2> QED BY <2>1, <2>2, <2>3, <2>4 DEF Work, WritingFits, Progress, Fresh, SeedKnown,
               Writing, Place
  <1>6. CASE SetStatus(w)
    <2>1. PICK st \in GenFailStatus \cup {"ok"} :
             /\ test' = [test EXCEPT ![w] = [test[w] EXCEPT !.status = st]]
             /\ pc' = [pc EXCEPT ![w] = IF st = "ok" THEN "targets" ELSE "genfail"]
      BY <1>6 DEF SetStatus, GenStatus, GenFailStatus
    <2>2. /\ test'[w].seed = test[w].seed /\ pc[w] = "sanitize"
          /\ pc'[w] \in {"targets", "genfail"} /\ UNCHANGED <<saving, reports>>
      BY <1>6, <2>1 DEF SetStatus, Tests
    <2>3. saving[w].bad = {} /\ test[w].seed \in Programs
      BY <1>w, <2>2, NothingInHand DEF Writing, Work, SeedKnown
    <2>4. CASE pc'[w] = "targets"
      BY <1>w, <2>2, <2>3, <2>4, WorkEarly DEF Place, EarlyPlaces, Writing
    <2>5. CASE pc'[w] = "genfail"
      BY <2>2, <2>3, <2>5 DEF Work, WritingFits, Progress, Fresh, SeedKnown, Writing, Place,
                              EarlyPlaces
    <2> QED BY <2>2, <2>4, <2>5
  <1>7. CASE SaveMutateFail(w)
    <2>1. /\ pc[w] = "genfail" /\ pc'[w] = "lock" /\ UNCHANGED <<reports, test>>
          /\ saving'[w].next = "loop" /\ saving'[w].bad = {}
          /\ saving'[w].dest[3] = <<"FAIL", clock>>
      BY <1>7 DEF SaveMutateFail, EnterSave, Stamp
    <2>2. Stamped(saving'[w].dest)
      BY <2>1 DEF Stamped
    <2>3. test[w].seed \in Programs
      BY <1>w, <2>1 DEF Work, SeedKnown
    <2> QED BY <2>1, <2>2, <2>3 DEF Work, WritingFits, Progress, Fresh, SeedKnown,
               Writing, Place, EarlyPlaces
  <1> QED BY <1>1, <1>2, <1>3, <1>4, <1>5, <1>6, <1>7 DEF Generating

LEMMA WorkTesting ==
    ASSUME TypeOK, ReportInv, NEW w \in Jobs, Testing(w)
    PROVE  Work(w)'
  <1>w. Work(w)
    BY DEF ReportInv
  <1>1. /\ pc[w] = "targets" /\ pc'[w] \in {"targets", "crashed"} /\ UNCHANGED <<reports, saving>>
        /\ test'[w].seed = test[w].seed
    BY DEF Testing, Build, Run, RunGarbled, SetRun, TypeOK, Tests, Goto, Crash
  <1>2. saving[w].bad = {}
    BY <1>w, <1>1, NothingInHand DEF Writing
  <1>3. CASE pc'[w] = "targets"
    BY <1>w, <1>1, <1>2, <1>3, WorkEarly DEF Place, EarlyPlaces, Writing
  <1>4. CASE pc'[w] = "crashed"
    BY <1>1, <1>2, <1>4, WorkIdle
  <1> QED BY <1>1, <1>3, <1>4

-----------------------------------------------------------------------------
(* The results are handled: what a worker takes in hand. *)

\* The first of the failed targets is one of them.
LEMMA FirstFailed ==
    ASSUME NEW w, NEW tags, Failed(w, tags) # {}
    PROVE  test[w].runs[Min(Failed(w, tags))] \in tags
  <1>1. Failed(w, tags) \subseteq Nat
    BY TargetsAssumption DEF Failed
  <1>2. Min(Failed(w, tags)) \in Failed(w, tags)
    BY <1>1, MinExists
  <1> QED BY <1>2 DEF Failed

LEMMA WorkBuildFail ==
    ASSUME TypeOK, ReportInv, NEW w \in Jobs, SaveBuildFail(w)
    PROVE  Work(w)'
  <1>w. Work(w)
    BY DEF ReportInv
  <1> USE DEF TypeOK, Goto, Crash
  <1>1. pc[w] = "targets" /\ UNCHANGED <<test, reports>> /\ ~Writing(w)
    BY DEF SaveBuildFail, Writing
  <1>2. test[w].seed \in Programs /\ saving[w].bad = {}
    BY <1>w, <1>1, NothingInHand DEF Work, SeedKnown
  <1>3. Unsaved(w, BuildFailTags)' /\ Unsaved(w, RunFailTags)' /\ Unsaved(w, VerdictKinds)'
    BY <1>w, <1>1 DEF Work, Fresh, Place, EarlyPlaces, Unsaved, Saved, ReportOf
  <1>4. CASE Failed(w, BuildFailTags) = {}
    <2>1. pc'[w] = "saverun" /\ UNCHANGED saving
      BY <1>4 DEF SaveBuildFail
    <2>2. SomeSaved(w, BuildFailTags)'
      BY <1>1, <1>4 DEF SomeSaved, Failed
    <2> QED BY <1>1, <1>2, <1>3, <2>1, <2>2 DEF Work, WritingFits, Progress, Fresh, SeedKnown,
               Writing, Place, EarlyPlaces
  <1>5. CASE Failed(w, BuildFailTags) # {} /\ ~ReduceBuildFail(w)
    <2> DEFINE t == Min(Failed(w, BuildFailTags))
    <2>1. test[w].runs[t] \in BuildFailTags
      BY <1>5, FirstFailed
    <2>2. /\ pc'[w] = "lock" /\ saving'[w].next = "saverun" /\ saving'[w].bad = {}
          /\ saving'[w].dest[2] = test[w].runs[t] /\ saving'[w].dest[3] = Name(w)
      BY <1>5 DEF SaveBuildFail, EnterSave, RunDest
    <2>3. Name(w)' = Name(w)
      BY <1>1 DEF Name
    <2> HIDE DEF t
    <2> QED BY <1>1, <1>2, <1>3, <2>1, <2>2, <2>3 DEF Work, WritingFits, Progress, Fresh,
               SeedKnown, Writing, Place, EarlyPlaces
  <1>6. CASE Failed(w, BuildFailTags) # {} /\ ReduceBuildFail(w)
    <2>1. pc'[w] = "crashed" /\ UNCHANGED saving
      BY <1>6 DEF SaveBuildFail
    <2> QED BY <1>2, <2>1, WorkIdle
  <1> QED BY <1>4, <1>5, <1>6

LEMMA WorkRunFail ==
    ASSUME TypeOK, ReportInv, NEW w \in Jobs, NoRunFail(w) \/ SaveRunFail(w)
    PROVE  Work(w)'
  <1>w. Work(w)
    BY DEF ReportInv
  <1> USE DEF TypeOK, Goto, Crash
  <1>1. pc[w] = "saverun" /\ UNCHANGED reports /\ ~Writing(w)
    BY DEF NoRunFail, SaveRunFail, Writing
  <1>t. test'[w].seed = test[w].seed /\ test'[w].runs = test[w].runs
    <2>1. UNCHANGED test \/ \E b : test' = [test EXCEPT ![w] = [test[w] EXCEPT !.blameRun = b]]
      BY DEF NoRunFail, SaveRunFail
    <2> QED BY <2>1 DEF Tests
  <1>2. test[w].seed \in Programs /\ saving[w].bad = {}
    BY <1>w, <1>1, NothingInHand DEF Work, SeedKnown
  <1>3. Unsaved(w, RunFailTags)' /\ Unsaved(w, VerdictKinds)'
    BY <1>w, <1>1, <1>t DEF Work, Fresh, Place, EarlyPlaces, Unsaved, Saved, ReportOf
  <1>4. ~DiskCanFail => SomeSaved(w, BuildFailTags)'
    BY <1>w, <1>1, <1>t DEF Work, Progress, SomeSaved, Failed, Saved, ReportOf
  <1>5. CASE NoRunFail(w)
    <2>1. pc'[w] = "verify" /\ UNCHANGED saving /\ Failed(w, RunFailTags) = {}
      BY <1>5 DEF NoRunFail
    <2>2. SomeSaved(w, RunFailTags)'
      BY <1>t, <2>1 DEF SomeSaved, Failed
    <2> QED BY <1>1, <1>t, <1>2, <1>3, <1>4, <2>1, <2>2 DEF Work, WritingFits, Progress, Fresh,
               SeedKnown, Writing, Place, EarlyPlaces
  <1>6. CASE SaveRunFail(w) /\ pc'[w] # "crashed"
    <2> DEFINE t == Min(Failed(w, RunFailTags))
    <2>1. test[w].runs[t] \in RunFailTags
      BY <1>6, FirstFailed DEF SaveRunFail
    <2>2. /\ pc'[w] = "lock" /\ saving'[w].next = "verify" /\ saving'[w].bad = {}
          /\ saving'[w].dest[2] = test[w].runs[t] /\ saving'[w].dest[3] = Name(w)
      BY <1>6 DEF SaveRunFail, EnterSave, RunDest
    <2>3. Name(w)' = Name(w)
      BY <1>t DEF Name
    <2> HIDE DEF t
    <2> QED BY <1>1, <1>t, <1>2, <1>3, <1>4, <2>1, <2>2, <2>3 DEF Work, WritingFits, Progress,
               Fresh, SeedKnown, Writing, Place, EarlyPlaces
  <1>7. CASE SaveRunFail(w) /\ pc'[w] = "crashed"
    <2>1. UNCHANGED saving
      BY <1>7 DEF SaveRunFail, EnterSave
    <2> QED BY <1>2, <1>7, <2>1, WorkIdle
  <1> QED BY <1>5, <1>6, <1>7

LEMMA WorkVerify ==
    ASSUME TypeOK, ReportInv, NEW w \in Jobs, Settled(w), VerifyOk(w) \/ VerifyBad(w)
    PROVE  Work(w)'
  <1>w. Work(w)
    BY DEF ReportInv
  <1> USE DEF TypeOK, Goto, Crash
  <1>1. pc[w] = "verify" /\ UNCHANGED reports /\ ~Writing(w)
    BY DEF VerifyOk, VerifyBad, Writing
  <1> DEFINE v == TestVerdict(test[w].runs)
             st == v.status
  <1>t. /\ test'[w].seed = test[w].seed /\ test'[w].runs = test[w].runs
        /\ VerifyBad(w) => test'[w].status = st
        /\ VerifyOk(w) => test'[w].status = test[w].status
    <2>1. \/ VerifyOk(w) /\ UNCHANGED test
          \/ \E b : test' = [test EXCEPT ![w] = [test[w] EXCEPT !.status = st, !.blameTest = b]]
      BY DEF VerifyOk, VerifyBad
    <2>2. ~(VerifyOk(w) /\ VerifyBad(w))
      BY DEF VerifyOk, VerifyBad
    <2> HIDE DEF st
    <2>3. CASE UNCHANGED test /\ VerifyOk(w)
      BY <2>2, <2>3
    <2>4. ASSUME NEW b, test' = [test EXCEPT ![w] = [test[w] EXCEPT !.status = st, !.blameTest = b]]
          PROVE  test'[w].seed = test[w].seed /\ test'[w].runs = test[w].runs
                 /\ test'[w].status = st
      BY <2>4 DEF Tests
    <2>5. VerifyOk(w) => UNCHANGED test
      BY DEF VerifyOk
    <2> QED BY <2>1, <2>2, <2>4, <2>5
  <1>2. test[w].seed \in Programs /\ saving[w].bad = {}
    BY <1>w, <1>1, NothingInHand DEF Work, SeedKnown
  <1>3. Unsaved(w, VerdictKinds)'
    BY <1>w, <1>1, <1>t DEF Work, Fresh, Place, EarlyPlaces, Unsaved, Saved, ReportOf
  <1>4. ~DiskCanFail => SomeSaved(w, BuildFailTags)' /\ SomeSaved(w, RunFailTags)'
    BY <1>w, <1>1, <1>t DEF Work, Progress, Place, SomeSaved, Failed, Saved, ReportOf
  <1>5. CASE VerifyOk(w)
    <2>1. pc'[w] = "finish" /\ UNCHANGED saving /\ test'[w].status = "ok"
      BY <1>1, <1>5, <1>t DEF VerifyOk, Settled, Place
    <2> QED BY <1>1, <1>t, <1>2, <1>4, <2>1 DEF Work, WritingFits, Progress, Fresh,
               SeedKnown, Writing, Place, EarlyPlaces
  <1>6. CASE VerifyBad(w) /\ pc'[w] # "crashed"
    <2>1. st \in VerdictKinds
      <3>1. st # "ok"
        BY <1>6, VerdictOnDifference DEF VerifyBad
      <3>2. st \in VerdictStatuses
        BY VerdictBounds
      <3> HIDE DEF st
      <3> QED BY <3>1, <3>2 DEF VerdictKinds, VerdictStatuses
    <2>2. /\ pc'[w] = "lock" /\ saving'[w].next = "finish"
          /\ saving'[w].dest[2] = st /\ saving'[w].dest[3] = Name(w)
      BY <1>6 DEF VerifyBad, EnterSave
    <2>3. Name(w)' = Name(w) /\ test'[w].status = st
      BY <1>t, <1>6 DEF Name
    <2> HIDE DEF st
    <2> QED BY <1>1, <1>t, <1>2, <1>3, <1>4, <2>1, <2>2, <2>3 DEF Work, WritingFits, Progress,
               Fresh, SeedKnown, Writing, Place, EarlyPlaces
  <1>7. CASE VerifyBad(w) /\ pc'[w] = "crashed"
    <2>1. UNCHANGED saving
      BY <1>7 DEF VerifyBad, EnterSave
    <2> QED BY <1>2, <1>7, <2>1, WorkIdle
  <1> QED BY <1>5, <1>6, <1>7

LEMMA WorkFinish ==
    ASSUME TypeOK, ReportInv, NEW w \in Jobs, Finish(w)
    PROVE  Work(w)'
  <1>1. pc[w] = "finish" /\ pc'[w] = "loop" /\ UNCHANGED saving
    BY DEF Finish, Goto, TypeOK
  <1>2. saving[w].bad = {}
    BY <1>1, NothingInHand DEF ReportInv, Writing
  <1> QED BY <1>1, <1>2, WorkIdle

\* A worker that dies, inside save_test or at a call of the statistics.
LEMMA WorkDying ==
    ASSUME TypeOK, NEW w \in Jobs, NoAnswer(w) \/ CopyExits(w)
    PROVE  Work(w)'
  BY WorkerDies, WorkIdle DEF TypeOK

\* A worker that enters save_test, or leaves it without a report.
LEMMA WorkSaving ==
    ASSUME TypeOK, ReportInv, NEW w \in Jobs, AcquireLock(w) \/ CopyFails(w)
    PROVE  Work(w)'
  <1>w. Work(w)
    BY DEF ReportInv
  <1> USE DEF TypeOK, Goto
  <1>1. CASE AcquireLock(w)
    <2>1. /\ UNCHANGED <<reports, test, saving>> /\ pc[w] = "lock" /\ pc'[w] = "copy"
      BY <1>1 DEF AcquireLock
    <2> QED BY <1>w, <2>1 DEF Work, WritingFits, Progress, Fresh, SeedKnown, Writing, Place,
               EarlyPlaces, Unsaved, SomeSaved, Saved, Failed, Name, ReportOf, Stamped
  <1>2. CASE CopyFails(w)
    <2>1. /\ pc[w] = "copy" /\ DiskCanFail /\ UNCHANGED reports
          /\ pc'[w] = saving[w].next
          /\ saving[w].next \in {"loop", "sanitize", "saverun", "verify", "finish"}
          /\ saving'[w] = NoSave
      BY <1>2 DEF CopyFails, Release
    <2>s. saving'[w].bad = {}
      BY <2>1 DEF NoSave
    <2>2. CASE saving[w].next = "loop"
      BY <2>1, <2>s, <2>2, WorkIdle
    <2>3. CASE saving[w].next # "loop"
      <3>1. UNCHANGED test
        BY <1>2, <2>3 DEF CopyFails, Release
      <3> QED BY <1>w, <2>1, <2>s, <2>3, <3>1 DEF Work, WritingFits, Progress, Fresh, SeedKnown,
                 Writing, Place, EarlyPlaces, Unsaved, Saved, ReportOf
    <2> QED BY <2>2, <2>3
  <1> QED BY <1>1, <1>2

-----------------------------------------------------------------------------
(* A report is written. *)

\* A report takes the place of another of its own program and kind only, so that
\* what was saved stays saved, and only what the worker held is added.
LEMMA ReportsByCopy ==
    ASSUME NamesFit, ReportShape, NEW w \in Jobs, CopyReport(w), WritingFits(w), SeedKnown(w),
           NEW p \in Programs
    PROVE  /\ \A r \in reports : ReportOf(r, p) =>
                 \E n \in reports' : ReportOf(n, p) /\ n.dest = r.dest
           /\ \A n \in reports' : ReportOf(n, p) =>
                 \/ n \in reports
                 \/ p = test[w].seed /\ n.dest = saving[w].dest
           /\ saving[w].dest[3] = Name(w) =>
                 \E n \in reports' : ReportOf(n, test[w].seed) /\ n.dest = saving[w].dest
  <1> DEFINE d == saving[w].dest
             new == [dest |-> d, seed |-> test[w].seed, bad |-> saving[w].bad]
  <1>1. reports' = {r \in reports : r.dest # d} \cup {new}
    BY DEF CopyReport
  <1>2. new.dest = d /\ new.seed = test[w].seed
    OBVIOUS
  <1>3. /\ test[w].seed \in Programs
        /\ Stamped(d) \/ d[3] = TestName(test[w].seed)
    BY DEF CopyReport, WritingFits, SeedKnown, Writing, Name
  <1>4. ASSUME NEW r \in reports, ReportOf(r, p), r.dest = d
        PROVE  p = test[w].seed /\ ReportOf(new, p)
    <2>1. d[3] = TestName(p)
      BY <1>4 DEF ReportOf
    <2>2. ~Stamped(d)
      BY <2>1 DEF Stamped, NamesFit
    <2>3. p = test[w].seed
      BY <1>3, <2>1, <2>2 DEF NamesFit
    <2> QED BY <1>2, <2>1, <2>3 DEF ReportOf
  <1>5. d[3] = Name(w) => ReportOf(new, test[w].seed)
    BY <1>2 DEF ReportOf, Name
  <1>6. ReportOf(new, p) => p = test[w].seed
    BY <1>2 DEF ReportOf
  <1> HIDE DEF new
  <1>7. ASSUME NEW r \in reports, ReportOf(r, p)
        PROVE  \E n \in reports' : ReportOf(n, p) /\ n.dest = r.dest
    BY <1>1, <1>2, <1>4, <1>7
  <1> QED BY <1>1, <1>2, <1>5, <1>6, <1>7

\* The same, of what is known to be saved.
LEMMA SavedByCopy ==
    ASSUME NamesFit, ReportShape, NEW w \in Jobs, CopyReport(w), WritingFits(w), SeedKnown(w),
           NEW p \in Programs, NEW kind
    PROVE  /\ Saved(p, kind) => Saved(p, kind)'
           /\ Saved(p, kind)' => Saved(p, kind) \/ (p = test[w].seed /\ kind = saving[w].dest[2])
           /\ saving[w].dest[3] = Name(w) /\ p = test[w].seed /\ kind = saving[w].dest[2] =>
                 Saved(p, kind)'
  <1>1. Saved(p, kind) => Saved(p, kind)'
    <2> SUFFICES ASSUME NEW r \in reports, ReportOf(r, p), r.dest[2] = kind
                 PROVE  Saved(p, kind)'
      BY DEF Saved
    <2>1. PICK n \in reports' : ReportOf(n, p) /\ n.dest = r.dest
      BY ReportsByCopy
    <2> QED BY <2>1 DEF Saved, ReportOf
  <1>2. Saved(p, kind)' => Saved(p, kind) \/ (p = test[w].seed /\ kind = saving[w].dest[2])
    <2> SUFFICES ASSUME NEW n \in reports', ReportOf(n, p), n.dest[2] = kind
                 PROVE  Saved(p, kind) \/ (p = test[w].seed /\ kind = saving[w].dest[2])
      BY DEF Saved, ReportOf
    <2>1. n \in reports \/ (p = test[w].seed /\ n.dest = saving[w].dest)
      BY ReportsByCopy
    <2> QED BY <2>1 DEF Saved
  <1>3. ASSUME saving[w].dest[3] = Name(w), p = test[w].seed, kind = saving[w].dest[2]
        PROVE  Saved(p, kind)'
    <2>1. PICK n \in reports' : ReportOf(n, p) /\ n.dest = saving[w].dest
      BY <1>3, ReportsByCopy
    <2> QED BY <1>3, <2>1 DEF Saved, ReportOf
  <1> QED BY <1>1, <1>2, <1>3

\* What the worker itself goes on with.
LEMMA WorkCopying ==
    ASSUME NamesFit, TypeOK, ReportInv, NEW w \in Jobs, CopyReport(w)
    PROVE  Work(w)'
  <1>w. Work(w) /\ ReportShape /\ WritingFits(w) /\ SeedKnown(w)
    BY DEF ReportInv, Work
  <1> DEFINE next == saving[w].next
             kind == saving[w].dest[2]
             p    == test[w].seed
  <1>1. /\ pc[w] = "copy" /\ pc'[w] = next
        /\ next \in {"loop", "sanitize", "saverun", "verify", "finish"}
        /\ saving'[w].bad = {}
    BY DEF CopyReport, Release, Goto, TypeOK, NoSave
  <1>2. CASE next = "loop"
    BY <1>1, <1>2, WorkIdle
  <1>3. CASE next # "loop"
    <2>1. UNCHANGED test /\ p \in Programs
      BY <1>w, <1>1, <1>3 DEF CopyReport, Release, SeedKnown
    <2>2. WritingFits(w)' /\ SeedKnown(w)'
      BY <1>1, <1>3, <2>1 DEF WritingFits, SeedKnown, Writing
    <2>3. \A k : /\ Saved(p, k) => Saved(p, k)'
                 /\ Saved(p, k)' => Saved(p, k) \/ k = kind
                 /\ saving[w].dest[3] = Name(w) /\ k = kind => Saved(p, k)'
      BY <1>w, <2>1, SavedByCopy
    <2>4. /\ SomeSaved(w, BuildFailTags) => SomeSaved(w, BuildFailTags)'
          /\ SomeSaved(w, RunFailTags) => SomeSaved(w, RunFailTags)'
      BY <2>1, <2>3 DEF SomeSaved, Failed
    <2>5. \A kinds : Unsaved(w, kinds) /\ kind \notin kinds => Unsaved(w, kinds)'
      BY <2>1, <2>3 DEF Unsaved
    <2>6. CASE next = "sanitize"
      <3>1. \A kinds : Unsaved(w, kinds) => Unsaved(w, kinds)'
        <4>1. Stamped(saving[w].dest)
          BY <1>w, <1>1, <2>6 DEF WritingFits, Writing
        <4>2. \A r \in reports' : ReportOf(r, p) => r \in reports
          <5>1. \A r \in reports' : ReportOf(r, p) => r.dest # saving[w].dest
            BY <2>1, <4>1 DEF ReportOf, Stamped, NamesFit
          <5> QED BY <1>w, <2>1, <5>1, ReportsByCopy
        <4> QED BY <2>1, <4>2 DEF Unsaved, Saved, ReportOf
      <3> QED BY <1>w, <1>1, <2>2, <2>6, <3>1 DEF Work, Progress, Fresh, Writing, Place, EarlyPlaces
    <2>7. CASE next = "saverun"
      <3>1. kind \in BuildFailTags /\ saving[w].dest[3] = Name(w)
        BY <1>w, <1>1, <2>7 DEF WritingFits, Writing
      <3>2. SomeSaved(w, BuildFailTags)'
        BY <2>1, <2>3, <3>1 DEF SomeSaved
      <3>3. Unsaved(w, RunFailTags)' /\ Unsaved(w, VerdictKinds)'
        BY <1>w, <1>1, <2>5, <2>7, <3>1, Kinds DEF Work, Fresh, Writing, Place
      <3> QED BY <1>1, <2>2, <2>7, <3>2, <3>3 DEF Work, Progress, Fresh, Writing, Place, EarlyPlaces
    <2>8. CASE next = "verify"
      <3>1. kind \in RunFailTags /\ saving[w].dest[3] = Name(w)
        BY <1>w, <1>1, <2>8 DEF WritingFits, Writing
      <3>2. SomeSaved(w, RunFailTags)'
        BY <2>1, <2>3, <3>1 DEF SomeSaved
      <3>3. Unsaved(w, VerdictKinds)'
        BY <1>w, <1>1, <2>5, <2>8, <3>1, Kinds DEF Work, Fresh, Writing, Place
      <3>4. ~DiskCanFail => SomeSaved(w, BuildFailTags)'
        BY <1>w, <1>1, <2>4, <2>8 DEF Work, Progress, Place
      <3> QED BY <1>1, <2>2, <2>8, <3>2, <3>3, <3>4 DEF Work, Progress, Fresh, Writing, Place,
                 EarlyPlaces
    <2>9. CASE next = "finish"
      <3>1. kind = test[w].status /\ saving[w].dest[3] = Name(w)
        BY <1>w, <1>1, <2>9 DEF WritingFits, Writing
      <3>2. Saved(test[w].seed, test[w].status)'
        BY <2>1, <2>3, <3>1
      <3>3. ~DiskCanFail => SomeSaved(w, BuildFailTags)' /\ SomeSaved(w, RunFailTags)'
        BY <1>w, <1>1, <2>4, <2>9 DEF Work, Progress, Place
      <3> QED BY <1>1, <2>2, <2>9, <3>2, <3>3 DEF Work, Progress, Fresh, Writing, Place, EarlyPlaces
    <2> QED BY <1>1, <1>3, <2>6, <2>7, <2>8, <2>9
  <1> QED BY <1>2, <1>3

\* The program of a test that was not refused is in the worker's hands.
LEMMA HeldByPlace ==
    ASSUME NEW w \in Jobs, FitsPlace(w), SeedKnown(w),
           Place(w) \in EarlyPlaces \cup {"saverun", "verify", "finish"}
    PROVE  test[w].seed \in Programs /\ Holds(w, test[w].seed)
  <1>1. pc[w] \notin {"loop", "exited", "crashed"}
    BY DEF Place, EarlyPlaces
  <1>2. test[w].status \notin GenFailStatus
    BY DEF FitsPlace, GenFailStatus, EarlyPlaces
  <1> QED BY <1>1, <1>2 DEF SeedKnown, Holds

\* Its report is about a program that no other worker has.
LEMMA OthersByCopy ==
    ASSUME NamesFit, TypeOK, StatusFitsPlace, SeedAccounting, ReportInv,
           NEW w \in Jobs, CopyReport(w), NEW v \in Jobs \ {w}
    PROVE  Work(v)'
  <1>w. /\ Work(v) /\ ReportShape /\ FitsPlace(w) /\ FitsPlace(v)
        /\ WritingFits(w) /\ SeedKnown(w) /\ SeedKnown(v)
    BY DEF ReportInv, Work, StatusFitsPlace
  <1>1. pc[w] = "copy"
    BY DEF CopyReport
  <1>2. pc'[v] = pc[v] /\ test'[v] = test[v] /\ saving'[v] = saving[v]
    BY OthersStay DEF Worker, Saving
  <1>3. ASSUME Place(v) \in EarlyPlaces \cup {"saverun", "verify", "finish"}, NEW kind
        PROVE  Saved(test[v].seed, kind)' <=> Saved(test[v].seed, kind)
    <2>0. PICK q : q = test[v].seed
      OBVIOUS
    <2>1. q \in Programs /\ Holds(v, q)
      BY <1>w, <1>3, <2>0, HeldByPlace
    <2>2. \A r \in reports' : ReportOf(r, q) => r \in reports
      <3> SUFFICES ASSUME NEW r \in reports', ReportOf(r, q), r \notin reports PROVE FALSE
        OBVIOUS
      <3>1. q = test[w].seed /\ r.dest = saving[w].dest
        BY <1>w, <2>1, ReportsByCopy
      <3>2. ~Stamped(saving[w].dest)
        BY <2>1, <3>1 DEF ReportOf, Stamped, NamesFit
      <3>3. Place(w) \in {"saverun", "verify", "finish"}
        BY <1>w, <1>1, <3>2 DEF WritingFits, Writing, Place
      <3>4. Holds(w, q)
        BY <1>w, <3>1, <3>3, HeldByPlace
      <3> QED BY <2>1, <3>4 DEF SeedAccounting
    <2>3. \A k : Saved(q, k) => Saved(q, k)'
      BY <1>w, <2>1, SavedByCopy
    <2>4. \A k : Saved(q, k)' => Saved(q, k)
      BY <1>2, <2>2 DEF Saved, ReportOf
    <2> QED BY <1>2, <2>0, <2>3, <2>4
  <1>4. WritingFits(v)' /\ SeedKnown(v)'
    BY <1>w, <1>2 DEF Work, WritingFits, SeedKnown, Writing, Name, Stamped
  <1>5. Progress(v)'
    <2>1. ASSUME Place(v) \in {"saverun", "verify", "finish"}, NEW tags, SomeSaved(v, tags)
          PROVE  SomeSaved(v, tags)'
      BY <1>2, <1>3, <2>1 DEF SomeSaved, Failed
    <2>2. pc[v] = "finish" /\ Saved(test[v].seed, test[v].status) =>
              Saved(test[v].seed, test[v].status)'
      BY <1>2, <1>3 DEF Place
    <2> QED BY <1>w, <1>2, <2>1, <2>2 DEF Work, Progress, Place
  <1>6. Fresh(v)'
    <2>1. ASSUME Place(v) \in EarlyPlaces \cup {"saverun", "verify", "finish"},
                 NEW kinds, Unsaved(v, kinds)
          PROVE  Unsaved(v, kinds)'
      BY <1>2, <1>3, <2>1 DEF Unsaved
    <2>2. (Place(v)' = Place(v)) /\ (Writing(v)' <=> Writing(v))
      BY <1>2 DEF Place, Writing
    <2> QED BY <1>w, <2>1, <2>2 DEF Work, Fresh
  <1> QED BY <1>4, <1>5, <1>6 DEF Work

\* The directory after a step that writes a report.
LEMMA ShapeByCopy ==
    ASSUME NamesFit, TypeOK, StatusFitsPlace, SeedAccounting, ReportInv,
           NEW w \in Jobs, CopyReport(w)
    PROVE  ReportShape' /\ QueueFresh' /\ IsFiniteSet(reports')
  <1>w. ReportShape /\ FitsPlace(w) /\ WritingFits(w) /\ SeedKnown(w)
    BY DEF ReportInv, Work, StatusFitsPlace
  <1> DEFINE d == saving[w].dest
             new == [dest |-> d, seed |-> test[w].seed, bad |-> saving[w].bad]
             kept == {r \in reports : r.dest # d}
  <1>1. pc[w] = "copy" /\ UNCHANGED queue /\ reports' = kept \cup {new}
    BY DEF CopyReport
  <1>2. new.dest = d /\ new.seed = test[w].seed /\ new.bad = saving[w].bad
    OBVIOUS
  <1>3. IsFiniteSet(reports')
    <2>1. IsFiniteSet(kept)
      BY FS_Subset DEF ReportInv
    <2> HIDE DEF new, kept
    <2> QED BY <1>1, <2>1, FS_AddElement
  <1>4. ReportShape'
    <2>1. test[w].seed \in Programs
      BY <1>w, <1>1 DEF SeedKnown
    <2>2. (Stamped(d) /\ saving[w].bad = {}) \/ d[3] = TestName(test[w].seed)
      BY <1>w, <1>1 DEF WritingFits, Writing, Name
    <2> HIDE DEF new
    <2> QED BY <1>w, <1>1, <1>2, <2>1, <2>2 DEF ReportShape, ReportOf, Stamped
  <1>5. QueueFresh'
    <2> SUFFICES ASSUME NEW p \in queue, NEW r \in reports', ReportOf(r, p) PROVE FALSE
      BY <1>1 DEF QueueFresh, ReportOf
    <2>1. p \in Programs /\ r \notin reports
      BY DEF ReportInv, QueueFresh, TypeOK
    <2>2. p = test[w].seed /\ r.dest = d
      BY <1>w, <2>1, ReportsByCopy
    <2>3. ~Stamped(d)
      BY <2>1, <2>2 DEF ReportOf, Stamped, NamesFit
    <2>4. Place(w) \in {"saverun", "verify", "finish"}
      BY <1>w, <1>1, <2>3 DEF WritingFits, Writing, Place
    <2>5. Holds(w, p)
      BY <1>w, <2>2, <2>4, HeldByPlace
    <2> QED BY <2>1, <2>5 DEF SeedAccounting
  <1> QED BY <1>3, <1>4, <1>5

-----------------------------------------------------------------------------
(* Every step. *)

\* Only a report that is copied changes the directory of the reports, and a
\* program that is taken leaves the queue for good.
LEMMA NothingCopied ==
    ASSUME TypeOK, [Next]_vars, \A w \in Jobs : ~CopyReport(w)
    PROVE  UNCHANGED reports /\ queue' \subseteq queue
  <1>1. ASSUME NEW w \in Jobs, Generating(w) \/ Testing(w) \/ Handling(w)
        PROVE  UNCHANGED reports /\ queue' \subseteq queue
    BY <1>1 DEF Generating, GetSeed, QueueDone, NewSeed, DeadlineReached, CopySeed,
       SeedMissing, RunGrammarinator, SaveIce, SetStatus, SaveMutateFail, SaveGenFail,
       Testing, Build, Run, RunGarbled,
       Handling, SaveBuildFail, NoRunFail, SaveRunFail, VerifyOk, VerifyBad, Finish
  <1>2. ASSUME NEW w \in Jobs, Saving(w)
        PROVE  UNCHANGED reports /\ queue' \subseteq queue
    BY <1>2, WorkerDies DEF Saving, AcquireLock, CopyFails
  <1>3. CASE MainProcess \/ Tick \/ Finished \/ UNCHANGED vars
    BY <1>3 DEF MainProcess, MainAcquire, MainPrint, CleanTmp, MainCheckAlive, MainCleanup, Tick,
                Finished, vars
  <1> QED BY <1>1, <1>2, <1>3, WorkerDies DEF Next, Worker

LEMMA ReportStep ==
    ASSUME NamesFit, UseQueue, TypeOK, StatusFitsPlace, SeedAccounting, VerdictFitsRuns,
           ReportInv, [Next]_vars
    PROVE  ReportInv'
  <1>1. ASSUME NEW w \in Jobs, CopyReport(w)
        PROVE  ReportInv'
    <2>1. ReportShape' /\ QueueFresh' /\ IsFiniteSet(reports')
      BY <1>1, ShapeByCopy
    <2>2. Work(w)'
      BY <1>1, WorkCopying
    <2>3. ASSUME NEW v \in Jobs \ {w} PROVE Work(v)'
      BY <1>1, OthersByCopy
    <2> QED BY <2>1, <2>2, <2>3 DEF ReportInv
  <1>2. CASE \A w \in Jobs : ~CopyReport(w)
    <2>r. UNCHANGED reports /\ queue' \subseteq queue
      BY <1>2, NothingCopied
    <2>1. ReportShape' /\ QueueFresh' /\ IsFiniteSet(reports')
      BY <2>r DEF ReportInv, ReportShape, QueueFresh, ReportOf, Stamped
    <2>2. ASSUME NEW w \in Jobs, Worker(w)
          PROVE  \A v \in Jobs : Work(v)'
      <3>1. Work(w)'
        <4>1. FitsPlace(w) /\ Settled(w)
          BY DEF StatusFitsPlace, VerdictFitsRuns
        <4> QED BY <1>2, <2>2, <4>1, WorkGenerating, WorkTesting, WorkBuildFail, WorkRunFail,
                   WorkVerify, WorkFinish, WorkSaving, WorkDying
             DEF Worker, Handling, Saving
      <3>2. ASSUME NEW v \in Jobs \ {w} PROVE Work(v)'
        BY <2>r, <2>2, OthersStay, WorkStays DEF ReportInv
      <3> QED BY <3>1, <3>2
    <2>3. CASE MainProcess \/ Tick \/ Finished \/ UNCHANGED vars
      <3>1. UNCHANGED <<pc, test, saving>>
        BY <2>3 DEF MainProcess, MainAcquire, MainPrint, CleanTmp, MainCheckAlive, MainCleanup, Tick,
                    Finished, vars
      <3>2. ASSUME NEW v \in Jobs PROVE Work(v)'
        <4>1. Work(v)
          BY DEF ReportInv
        <4> QED BY <2>r, <3>1, <4>1, WorkStays
      <3> QED BY <2>1, <3>2 DEF ReportInv
    <2> QED BY <2>1, <2>2, <2>3 DEF Next, ReportInv
  <1> QED BY <1>1, <1>2

\* For every worker: what it is about to save, what it has saved and what it has
\* not are those of its place in the test.
THEOREM ReportsAccounted ==
    ASSUME NamesFit, UseQueue
    PROVE  Spec => []ReportInv
  <1>1. Init => ReportInv
    <2>1. ASSUME Init, NEW w \in Jobs PROVE Work(w)
      BY <2>1 DEF Init, NoSave, Work, WritingFits, Progress, Fresh, SeedKnown, Writing, Place,
                  EarlyPlaces
    <2> QED BY <2>1, FS_EmptySet DEF Init, ReportInv, ReportShape, QueueFresh
  <1>2. TypeOK /\ StatusFitsPlace /\ SeedAccounting /\ VerdictFitsRuns /\ ReportInv /\ [Next]_vars
            => ReportInv'
    BY ReportStep
  <1> QED BY <1>1, <1>2, TypeCorrect, StatusFits, SeedsAccounted, VerdictsFit, PTL DEF Spec

-----------------------------------------------------------------------------
(* No report is lost. *)

\* A directory named after a program is written once.
LEMMA NothingReplaced ==
    ASSUME NamesFit, ReportInv, NEW w \in Jobs, CopyReport(w), ~Stamped(saving[w].dest),
           NEW r \in reports
    PROVE  r.dest # saving[w].dest
  <1> SUFFICES ASSUME r.dest = saving[w].dest PROVE FALSE
    OBVIOUS
  <1>1. pc[w] = "copy" /\ WritingFits(w) /\ Fresh(w) /\ test[w].seed \in Programs
    BY DEF ReportInv, Work, SeedKnown, CopyReport
  <1>2. r.dest[3] = TestName(test[w].seed)
    BY <1>1 DEF WritingFits, Writing, Name
  <1>3. r.seed \in Programs /\ r.dest[3] = TestName(r.seed)
    BY DEF ReportInv, ReportShape, ReportOf
  <1>4. r.seed = test[w].seed
    BY <1>1, <1>2, <1>3 DEF NamesFit
  <1>5. Saved(test[w].seed, r.dest[2])
    BY <1>2, <1>4 DEF Saved, ReportOf
  <1> QED BY <1>1, <1>5 DEF WritingFits, Writing, Fresh, Place, Unsaved

\* Without the sanitizer stage no program is refused, and nothing is saved under
\* the name of a time.
NeverRefused ==
    ~NeedSanitizer =>
        \A w \in Jobs : /\ test[w].status # "mutate_fail"
                        /\ Writing(w) => saving[w].next \notin {"loop", "sanitize"}

LEMMA RefusedStep ==
    ASSUME TypeOK, NeverRefused, ~NeedSanitizer, [Next]_vars
    PROVE  NeverRefused'
  <1> DEFINE Fine(v) == /\ test[v].status # "mutate_fail"
                        /\ Writing(v) => saving[v].next \notin {"loop", "sanitize"}
  <1>f. \A v \in Jobs : Fine(v)
    BY DEF NeverRefused
  <1>1. ASSUME NEW w \in Jobs, Worker(w)
        PROVE  \A v \in Jobs : Fine(v)'
    <2> DEFINE Well == /\ test'[w].status # "mutate_fail"
                       /\ pc'[w] \in {"lock", "copy"} => saving'[w].next \notin {"loop", "sanitize"}
    <2> USE DEF TypeOK, Goto, Crash, Writing
    <2>w. /\ test[w].status # "mutate_fail"
          /\ pc[w] \in {"lock", "copy"} => saving[w].next \notin {"loop", "sanitize"}
      BY <1>f
    <2>1. ASSUME Generating(w) /\ ~SetStatus(w) PROVE Well
      <3>1. test'[w].status \in {"new", test[w].status} /\ pc'[w] \notin {"lock", "copy"}
        <4>1. CASE GetSeed(w) \/ NewSeed(w)
          BY <4>1 DEF GetSeed, NewSeed, StartTest, NoTest
        <4>2. CASE QueueDone(w) \/ DeadlineReached(w) \/ CopySeed(w) \/ SeedMissing(w)
                   \/ SaveGenFail(w)
          BY <4>2 DEF QueueDone, DeadlineReached, CopySeed, SeedMissing, SaveGenFail
        <4>3. CASE RunGrammarinator(w)
          BY <4>3 DEF RunGrammarinator, Tests
        <4>4. ~SaveIce(w) /\ ~SaveMutateFail(w)
          BY <1>f DEF SaveIce, SaveMutateFail
        <4> QED BY <2>1, <4>1, <4>2, <4>3, <4>4 DEF Generating
      <3> QED BY <2>w, <3>1
    <2>2. ASSUME SetStatus(w) PROVE Well
      <3>1. PICK st \in {"ok", "gen_fail", "gen_fail_timeout"} :
               test' = [test EXCEPT ![w] = [test[w] EXCEPT !.status = st]]
        BY <2>2 DEF SetStatus, GenStatus
      <3>2. test'[w].status = st
        BY <3>1 DEF Tests
      <3>3. pc'[w] \in {"targets", "genfail"}
        BY <2>2 DEF SetStatus
      <3> QED BY <3>2, <3>3
    <2>3. ASSUME Testing(w) PROVE Well
      <3>1. test'[w].status = test[w].status /\ pc'[w] \in {"targets", "crashed"}
        BY <2>3 DEF Testing, Build, Run, RunGarbled, SetRun, Tests
      <3> QED BY <2>w, <3>1
    <2>4. ASSUME Handling(w) /\ ~VerifyBad(w) /\ ~Finish(w) PROVE Well
      <3>1. UNCHANGED test \/ \E b : test' = [test EXCEPT ![w] = [test[w] EXCEPT !.blameRun = b]]
        BY <2>4 DEF Handling, SaveBuildFail, NoRunFail, SaveRunFail, VerifyOk
      <3>2. test'[w].status = test[w].status
        BY <3>1 DEF Tests
      <3>3. \/ pc'[w] \notin {"lock", "copy"}
            \/ saving'[w].next \in {"saverun", "verify"}
        BY <2>4 DEF Handling, SaveBuildFail, NoRunFail, SaveRunFail, VerifyOk, EnterSave
      <3> QED BY <2>w, <3>2, <3>3
    <2>5. ASSUME VerifyBad(w) PROVE Well
      <3> DEFINE st == TestVerdict(test[w].runs).status
      <3>1. st # "mutate_fail"
        BY VerdictBounds DEF VerdictStatuses
      <3>2. PICK b : test' = [test EXCEPT ![w] = [test[w] EXCEPT !.status = st, !.blameTest = b]]
        BY <2>5 DEF VerifyBad
      <3>3. test'[w].status = st
        <4> HIDE DEF st
        <4> QED BY <3>2 DEF Tests
      <3>4. pc'[w] = "crashed" \/ saving'[w].next = "finish"
        BY <2>5 DEF VerifyBad, EnterSave
      <3> HIDE DEF st
      <3> QED BY <2>w, <3>1, <3>3, <3>4
    <2>6. ASSUME Finish(w) PROVE Well
      <3>0. NoTest.status = "new"
        BY DEF NoTest
      <3>1. test'[w].status = "new" /\ pc'[w] = "loop"
        BY <2>6, <3>0 DEF Finish
      <3> QED BY <2>w, <3>1
    <2>7. ASSUME Saving(w) PROVE Well
      <3>0. NoTest.status = "new"
        BY DEF NoTest
      <3>1. test'[w].status \in {"new", test[w].status}
        <4>1. UNCHANGED test \/ test' = [test EXCEPT ![w] = NoTest]
          BY <2>7, WorkerDies DEF Saving, AcquireLock, CopyReport, CopyFails, Release
        <4> QED BY <3>0, <4>1
      <3>2. pc[w] \in {"lock", "copy"}
            /\ (pc'[w] \notin {"lock", "copy"} \/ saving'[w].next = saving[w].next)
        BY <2>7, WorkerDies DEF Saving, AcquireLock, CopyReport, CopyFails, Release
      <3> QED BY <2>w, <3>1, <3>2
    <2>n. ASSUME NoAnswer(w) PROVE Well
      BY <2>w, <2>n, WorkerDies
    <2>8. Well
      BY <1>1, <2>1, <2>2, <2>3, <2>4, <2>5, <2>6, <2>7, <2>n DEF Worker
    <2>9. Fine(w)'
      BY <2>8
    <2>10. ASSUME NEW v \in Jobs \ {w} PROVE Fine(v)'
      <3>1. pc'[v] = pc[v] /\ test'[v] = test[v] /\ saving'[v] = saving[v]
        BY <1>1, OthersStay
      <3> QED BY <1>f, <3>1
    <2> QED BY <2>9, <2>10
  <1>2. CASE MainProcess \/ Tick \/ Finished \/ UNCHANGED vars
    <2>1. UNCHANGED <<pc, test, saving>>
      BY <1>2 DEF MainProcess, MainAcquire, MainPrint, CleanTmp, MainCheckAlive, MainCleanup, Tick,
                  Finished, vars
    <2> QED BY <1>f, <2>1 DEF NeverRefused, Writing
  <1> QED BY <1>1, <1>2 DEF Next, NeverRefused

LEMMA RefusedNever == Spec => []NeverRefused
  <1>1. Init => NeverRefused
    <2>1. NoTest.status = "new"
      BY DEF NoTest
    <2> QED BY <2>1 DEF Init, NeverRefused, Writing
  <1>2. TypeOK /\ NeverRefused /\ [Next]_vars => NeverRefused'
    <2>1. CASE NeedSanitizer
      BY <2>1 DEF NeverRefused
    <2> QED BY <2>1, RefusedStep
  <1> QED BY <1>1, <1>2, TypeCorrect, PTL DEF Spec

\* However many workers save at once and however many failures they find: with a
\* queue of programs of different names, and no directories named after the
\* time, no report overwrites another.
THEOREM NoReportLost ==
    ASSUME NamesFit, UseQueue, ~NeedSanitizer
    PROVE  Spec => ReportsKept
  <1>1. TypeOK /\ ReportInv /\ NeverRefused /\ [Next]_vars => [reports \subseteq reports']_vars
    <2> SUFFICES ASSUME TypeOK, ReportInv, NeverRefused, [Next]_vars
                 PROVE  reports \subseteq reports'
      OBVIOUS
    <2>1. ASSUME NEW w \in Jobs, CopyReport(w)
          PROVE  reports \subseteq reports'
      <3>1. pc[w] = "copy" /\ WritingFits(w) /\ test[w].seed \in Programs
        BY <2>1 DEF ReportInv, Work, SeedKnown, CopyReport
      <3>2. saving[w].dest[3] = TestName(test[w].seed)
        BY <3>1 DEF NeverRefused, WritingFits, Writing, Name
      <3>3. ~Stamped(saving[w].dest)
        BY <3>1, <3>2 DEF Stamped, NamesFit
      <3>4. \A r \in reports : r.dest # saving[w].dest
        BY <2>1, <3>3, NothingReplaced
      <3> QED BY <2>1, <3>4 DEF CopyReport
    <2>2. CASE \A w \in Jobs : ~CopyReport(w)
      BY <2>2, NothingCopied
    <2> QED BY <2>1, <2>2
  <1> QED BY <1>1, TypeCorrect, ReportsAccounted, RefusedNever, PTL DEF Spec, ReportsKept

-----------------------------------------------------------------------------
(* Every program listed as failed has a report. *)

\* A corpus file is copied, not generated.
NeverGenerated == Fuzzer = "file" => \A w \in Jobs : test[w].gen = "ok"

LEMMA GeneratedStep ==
    ASSUME TypeOK, NeverGenerated, Fuzzer = "file", [Next]_vars
    PROVE  NeverGenerated'
  <1>f. \A v \in Jobs : test[v].gen = "ok"
    BY DEF NeverGenerated
  <1>n. NoTest.gen = "ok" /\ \A s : [NoTest EXCEPT !.seed = s].gen = "ok"
    BY DEF NoTest
  <1>1. ASSUME NEW w \in Jobs, Worker(w)
        PROVE  test'[w].gen = "ok"
    <2> USE DEF TypeOK
    <2>1. CASE Generating(w) /\ ~SetStatus(w) /\ ~SaveIce(w)
      <3>1. UNCHANGED test \/ \E s : test' = [test EXCEPT ![w] = [NoTest EXCEPT !.seed = s]]
        BY <2>1 DEF Generating, GetSeed, NewSeed, StartTest, QueueDone, DeadlineReached, CopySeed,
           SeedMissing, RunGrammarinator, SaveMutateFail, SaveGenFail
      <3> QED BY <1>f, <1>n, <3>1
    <2>2. CASE SetStatus(w) \/ SaveIce(w)
      <3>1. \/ \E st : test' = [test EXCEPT ![w] = [test[w] EXCEPT !.status = st]]
            \/ \E n : test' = [test EXCEPT ![w] = [test[w] EXCEPT !.ice = n]]
        BY <2>2 DEF SetStatus, SaveIce
      <3> QED BY <1>f, <3>1 DEF Tests
    <2>3. CASE Testing(w)
      BY <1>f, <2>3 DEF Testing, Build, Run, RunGarbled, SetRun, Tests
    <2>4. CASE Handling(w)
      <3>1. CASE VerifyBad(w)
        <4>1. PICK st, b : test' = [test EXCEPT ![w] = [test[w] EXCEPT !.status = st, !.blameTest = b]]
          BY <3>1 DEF VerifyBad
        <4> QED BY <1>f, <4>1 DEF Tests
      <3>2. CASE Handling(w) /\ ~VerifyBad(w)
        <4>1. \/ UNCHANGED test
              \/ test' = [test EXCEPT ![w] = NoTest]
              \/ \E b : test' = [test EXCEPT ![w] = [test[w] EXCEPT !.blameRun = b]]
          BY <3>2 DEF Handling, SaveBuildFail, NoRunFail, SaveRunFail, VerifyOk, Finish
        <4> QED BY <1>f, <1>n, <4>1 DEF Tests
      <3> QED BY <2>4, <3>1, <3>2
    <2>5. CASE Saving(w)
      <3>1. UNCHANGED test \/ test' = [test EXCEPT ![w] = NoTest]
        BY <2>5, WorkerDies DEF Saving, AcquireLock, CopyReport, CopyFails, Release
      <3> QED BY <1>f, <1>n, <3>1
    <2>6. CASE NoAnswer(w)
      BY <1>f, <2>6, WorkerDies
    <2> QED BY <1>1, <2>1, <2>2, <2>3, <2>4, <2>5, <2>6 DEF Worker
  <1>2. ASSUME NEW w \in Jobs, Worker(w), NEW v \in Jobs \ {w}
        PROVE  test'[v].gen = "ok"
    BY <1>f, <1>2, OthersStay
  <1>3. CASE MainProcess \/ Tick \/ Finished \/ UNCHANGED vars
    <2>1. UNCHANGED test
      BY <1>3 DEF MainProcess, MainAcquire, MainPrint, CleanTmp, MainCheckAlive, MainCleanup, Tick,
                  Finished, vars
    <2> QED BY <1>f, <2>1 DEF NeverGenerated
  <1> QED BY <1>1, <1>2, <1>3 DEF Next, NeverGenerated

LEMMA GeneratedNever == Spec => []NeverGenerated
  <1>1. Init => NeverGenerated
    <2>1. NoTest.gen = "ok"
      BY DEF NoTest
    <2> QED BY <2>1 DEF Init, NeverGenerated
  <1>2. TypeOK /\ NeverGenerated /\ [Next]_vars => NeverGenerated'
    <2>1. CASE Fuzzer # "file"
      BY <2>1 DEF NeverGenerated
    <2> QED BY <2>1, GeneratedStep
  <1> QED BY <1>1, <1>2, TypeCorrect, PTL DEF Spec

\* A program listed as failed has a report of its own.
FailSaved ==
    \A p \in Programs : seedsFail[p] > 0 => \E r \in reports : ReportOf(r, p)

\* A test that ends as failed has left a report.
LEMMA FailLeaves ==
    ASSUME TypeOK, ReportInv, ~DiskCanFail, NEW w \in Jobs, Finish(w),
           NEW p \in Programs, seedsFail'[p] # seedsFail[p]
    PROVE  \E r \in reports : ReportOf(r, p)
  <1>1. /\ pc[w] = "finish" /\ seedsFail' = Record(seedsFail, test[w].seed)
        /\ \/ test[w].status # "ok"
           \/ Failed(w, BuildFailTags \cup RunFailTags) # {}
    BY DEF Finish
  <1>2. p = test[w].seed
    BY <1>1, RecordsOne DEF TypeOK
  <1>3. /\ SomeSaved(w, BuildFailTags) /\ SomeSaved(w, RunFailTags)
        /\ test[w].status # "ok" => Saved(test[w].seed, test[w].status)
    BY <1>1 DEF ReportInv, Work, Progress, Place
  <1>4. Failed(w, BuildFailTags \cup RunFailTags) # {} =>
            Failed(w, BuildFailTags) # {} \/ Failed(w, RunFailTags) # {}
    BY DEF Failed
  <1> QED BY <1>1, <1>2, <1>3, <1>4 DEF SomeSaved, Saved

LEMMA FailSavedStep ==
    ASSUME NamesFit, UseQueue, ~NeedSanitizer, ~DiskCanFail, Fuzzer = "file",
           TypeOK, StatusFitsPlace, ReportInv, NeverGenerated, FailSaved, [Next]_vars
    PROVE  FailSaved'
  <1>1. ASSUME NEW w \in Jobs, CopyReport(w)
        PROVE  FailSaved'
    <2>1. UNCHANGED seedsFail
      BY <1>1 DEF CopyReport, stats
    <2>2. ReportShape /\ WritingFits(w) /\ SeedKnown(w)
      BY DEF ReportInv, Work
    <2>3. ASSUME NEW p \in Programs, NEW r \in reports, ReportOf(r, p)
          PROVE  \E n \in reports' : ReportOf(n, p)
      BY <1>1, <2>2, <2>3, ReportsByCopy
    <2> QED BY <2>1, <2>3 DEF FailSaved, ReportOf
  <1>2. ASSUME NEW w \in Jobs, Finish(w)
        PROVE  FailSaved'
    <2>1. UNCHANGED reports
      BY <1>2 DEF Finish
    <2>2. ASSUME NEW p \in Programs, seedsFail'[p] > 0
          PROVE  \E r \in reports : ReportOf(r, p)
      <3>1. CASE seedsFail'[p] # seedsFail[p]
        BY <1>2, <3>1, FailLeaves
      <3>2. CASE seedsFail'[p] = seedsFail[p]
        BY <2>2, <3>2 DEF FailSaved
      <3> QED BY <3>1, <3>2
    <2> QED BY <2>1, <2>2 DEF FailSaved, ReportOf
  <1>3. ASSUME UNCHANGED <<reports, seedsFail>>
        PROVE  FailSaved'
    BY <1>3 DEF FailSaved, ReportOf
  <1>4. ASSUME NEW w \in Jobs, Worker(w), ~CopyReport(w), ~Finish(w)
        PROVE  UNCHANGED seedsFail
    <2>1. CASE SetStatus(w)
      <3>1. test[w].gen = "ok"
        BY DEF NeverGenerated
      <3> QED BY <2>1, <3>1 DEF SetStatus, GenStatus
    <2>2. CASE GetSeed(w) \/ NewSeed(w)
      BY <2>2 DEF GetSeed, NewSeed, stats
    <2>3. CASE ~SetStatus(w) /\ ~GetSeed(w) /\ ~NewSeed(w)
      BY <1>4, <2>3, HandKept DEF StatusFitsPlace
    <2> QED BY <2>1, <2>2, <2>3
  <1>5. CASE MainProcess \/ Tick \/ Finished \/ UNCHANGED vars
    BY <1>3, <1>5 DEF MainProcess, MainAcquire, MainPrint, CleanTmp, MainCheckAlive, MainCleanup, Tick,
                      Finished, vars, stats
  <1>6. CASE \A w \in Jobs : ~CopyReport(w)
    <2>1. UNCHANGED reports
      BY <1>6, NothingCopied
    <2> QED BY <1>2, <1>3, <1>4, <1>5, <1>6, <2>1 DEF Next
  <1> QED BY <1>1, <1>6

\* Nothing overwrites the last report of a program that is listed as failed,
\* however the workers interleave and whatever fails: with programs of different
\* names from a corpus, and a disk that can be written.
THEOREM FailuresReported ==
    ASSUME NamesFit, UseQueue, ~NeedSanitizer, ~DiskCanFail, Fuzzer = "file"
    PROVE  Spec => []FailReported
  <1>1. Init => FailSaved
    BY DEF Init, FailSaved
  <1>2. TypeOK /\ StatusFitsPlace /\ ReportInv /\ NeverGenerated /\ FailSaved /\ [Next]_vars
            => FailSaved'
    BY FailSavedStep
  <1>3. FailSaved => FailReported
    BY DEF FailSaved, FailReported, ReportOf
  <1> QED BY <1>1, <1>2, <1>3, TypeCorrect, StatusFits, ReportsAccounted, GeneratedNever, PTL DEF Spec

-----------------------------------------------------------------------------
(* The out_dif column. *)

Blaming(t)  == {r \in reports : t \in r.bad}
Accusing(t) == {w \in Jobs : t \in saving[w].bad}

CountIs(t) == targetRuns[t]["out_dif"] = Cardinality(Blaming(t)) + Cardinality(Accusing(t))

\* The two sets are finite, and their sizes change with their elements.
LEMMA Countable ==
    ASSUME ReportInv, NEW t
    PROVE  /\ IsFiniteSet(Blaming(t)) /\ Cardinality(Blaming(t)) \in Nat
           /\ IsFiniteSet(Accusing(t)) /\ Cardinality(Accusing(t)) \in Nat
  <1>1. IsFiniteSet(Blaming(t))
    BY FS_Subset DEF ReportInv, Blaming
  <1>2. IsFiniteSet(Accusing(t))
    BY FS_Subset, FarmAssumption DEF Accusing
  <1> QED BY <1>1, <1>2, FS_CardinalityType

\* A step that blames nobody: every worker that is not at the comparison or at
\* the end of a report keeps what it accuses.
LEMMA AccusesAsBefore ==
    ASSUME TypeOK, ReportInv, NEW w \in Jobs, Worker(w),
           ~VerifyBad(w), ~CopyReport(w), ~CopyFails(w)
    PROVE  /\ saving'[w].bad = saving[w].bad
           /\ \A t \in Targets : targetRuns'[t]["out_dif"] = targetRuns[t]["out_dif"]
  <1>w. ~Writing(w) => saving[w].bad = {}
    BY OnlyTheLiving DEF ReportInv, Work, WritingFits, Alive
  <1> USE DEF TypeOK, stats
  <1>1. CASE AcquireLock(w)
    BY <1>1 DEF AcquireLock
  <1>2. CASE Generating(w)
    <2>1. ~Writing(w) /\ UNCHANGED targetRuns
      BY <1>2 DEF Generating, GetSeed, QueueDone, NewSeed, DeadlineReached, CopySeed,
         SeedMissing, RunGrammarinator, SaveIce, SetStatus, SaveMutateFail, SaveGenFail, Writing
    <2>2. CASE SaveIce(w) \/ SaveMutateFail(w)
      <3>1. saving'[w].bad = {}
        BY <2>2 DEF SaveIce, SaveMutateFail, EnterSave
      <3> QED BY <1>w, <2>1, <3>1
    <2>3. CASE ~SaveIce(w) /\ ~SaveMutateFail(w)
      <3>1. UNCHANGED saving
        BY <1>2, <2>3 DEF Generating, GetSeed, QueueDone, NewSeed, DeadlineReached, CopySeed,
           SeedMissing, RunGrammarinator, SetStatus, SaveGenFail
      <3> QED BY <1>w, <2>1, <3>1
    <2> QED BY <2>2, <2>3
  <1>3. CASE Testing(w)
    <2>1. UNCHANGED saving
      BY <1>3 DEF Testing, Build, Run, RunGarbled
    <2>2. \/ UNCHANGED targetRuns
          \/ \E tag \in RunTags \ {"out_dif"} : Count(Current(w), tag)
      BY <1>3, FailuresOfBuild DEF Testing, Build, Run, RunGarbled, BuildFailTags, RunFailTags, RunTags
    <2>3. ASSUME NEW c, NEW tag \in RunTags \ {"out_dif"}, Count(c, tag)
          PROVE  \A t \in Targets : targetRuns'[t]["out_dif"] = targetRuns[t]["out_dif"]
      <3> TAKE t \in Targets
      <3>1. targetRuns \in [Targets -> [RunTags -> Nat]]
        OBVIOUS
      <3>2. targetRuns' = [targetRuns EXCEPT ![c] = [targetRuns[c] EXCEPT ![tag] = targetRuns[c][tag] + 1]]
        BY <2>3 DEF Count
      <3>3. CASE t = c
        BY <2>3, <3>1, <3>2, <3>3
      <3>4. CASE t # c
        BY <3>1, <3>2, <3>4
      <3> QED BY <3>3, <3>4
    <2> QED BY <2>1, <2>2, <2>3
  <1>4. CASE Handling(w) /\ ~VerifyBad(w)
    <2>1. ~Writing(w) /\ UNCHANGED targetRuns
      BY <1>4 DEF Handling, SaveBuildFail, NoRunFail, SaveRunFail, VerifyOk, Finish, Writing
    <2>2. UNCHANGED saving \/ saving'[w].bad = {}
      BY <1>4 DEF Handling, SaveBuildFail, NoRunFail, SaveRunFail, VerifyOk, Finish, EnterSave
    <2> QED BY <1>w, <2>1, <2>2
  <1>5. CASE NoAnswer(w) \/ CopyExits(w)
    BY <1>5, WorkerDies
  <1> QED BY <1>1, <1>2, <1>3, <1>4, <1>5 DEF Worker, Saving

\* The comparison accuses its bad targets, and counts them.
LEMMA ComparisonCounts ==
    ASSUME TypeOK, ReportInv, NEW w \in Jobs, VerifyBad(w), NEW t \in Targets, CountIs(t)
    PROVE  CountIs(t)'
  <1> DEFINE v == TestVerdict(test[w].runs)
  <1>1. UNCHANGED reports /\ saving[w].bad = {}
    <2>1. ~Writing(w) /\ pc[w] # "crashed"
      BY DEF VerifyBad, Writing
    <2> QED BY <2>1 DEF VerifyBad, ReportInv, Work, WritingFits
  <1>2. Blaming(t)' = Blaming(t)
    BY <1>1 DEF Blaming
  <1>3. \A u \in Jobs \ {w} : saving'[u] = saving[u]
    BY OthersStay DEF Worker, Handling
  <1>4. CASE ReduceMiscompare(v.good)
    <2>1. UNCHANGED <<saving, targetRuns>>
      BY <1>4 DEF VerifyBad
    <2> QED BY <1>2, <2>1 DEF CountIs, Accusing
  <1>5. CASE ~ReduceMiscompare(v.good)
    <2>1. saving'[w].bad = v.bad
      BY <1>5 DEF VerifyBad, EnterSave, TypeOK
    <2>2. targetRuns'[t] = IF t \in v.bad THEN [targetRuns[t] EXCEPT !["out_dif"] = @ + 1]
                           ELSE targetRuns[t]
      BY <1>5 DEF VerifyBad
    <2>3. targetRuns[t] \in [RunTags -> Nat] /\ "out_dif" \in RunTags
      BY DEF TypeOK, RunTags
    <2> HIDE DEF v
    <2>4. CASE t \in v.bad
      <3>1. Accusing(t)' = Accusing(t) \cup {w} /\ w \notin Accusing(t)
        BY <1>1, <1>3, <2>1, <2>4 DEF Accusing
      <3>2. Cardinality(Accusing(t)') = Cardinality(Accusing(t)) + 1
        BY <3>1, Countable, FS_AddElement
      <3>3. targetRuns'[t]["out_dif"] = targetRuns[t]["out_dif"] + 1
        BY <2>2, <2>3, <2>4
      <3> QED BY <1>2, <3>2, <3>3, Countable DEF CountIs
    <2>5. CASE t \notin v.bad
      <3>1. Accusing(t)' = Accusing(t)
        BY <1>1, <1>3, <2>1, <2>5 DEF Accusing
      <3> QED BY <1>2, <2>2, <2>5, <3>1 DEF CountIs
    <2> QED BY <2>4, <2>5
  <1> QED BY <1>4, <1>5

\* A report that is written takes the accusation over, and replaces none.
LEMMA ReportCounts ==
    ASSUME NamesFit, TypeOK, ReportInv, NEW w \in Jobs, CopyReport(w), NEW t \in Targets, CountIs(t)
    PROVE  CountIs(t)'
  <1> DEFINE d == saving[w].dest
             new == [dest |-> d, seed |-> test[w].seed, bad |-> saving[w].bad]
  <1>1. /\ pc[w] = "copy" /\ UNCHANGED targetRuns /\ saving' = [saving EXCEPT ![w] = NoSave]
        /\ reports' = {r \in reports : r.dest # d} \cup {new}
    BY DEF CopyReport, Release, stats
  <1>2. new.dest = d /\ new.bad = saving[w].bad
    OBVIOUS
  <1> HIDE DEF new
  <1>3. Accusing(t)' = Accusing(t) \ {w}
    <2>1. NoSave.bad = {}
      BY DEF NoSave
    <2> QED BY <1>1, <2>1 DEF Accusing, TypeOK
  <1>4. ASSUME NEW r \in reports, t \in r.bad PROVE r.dest # d
    <2>1. CASE Stamped(d)
      <3>1. ~Stamped(r.dest)
        BY <1>4 DEF ReportInv, ReportShape, ReportOf, Stamped, NamesFit
      <3> QED BY <2>1, <3>1
    <2>2. CASE ~Stamped(d)
      BY <2>2, NothingReplaced
    <2> QED BY <2>1, <2>2
  <1>5. CASE t \in saving[w].bad
    <2>1. new \notin reports
      <3>1. WritingFits(w) /\ test[w].seed \in Programs /\ Writing(w)
        BY <1>1 DEF ReportInv, Work, SeedKnown, Writing
      <3>2. d[3] = TestName(test[w].seed)
        BY <1>5, <3>1 DEF WritingFits, Name
      <3>3. ~Stamped(d)
        BY <3>1, <3>2 DEF NamesFit, Stamped
      <3> QED BY <1>2, <3>3, NothingReplaced
    <2>2. Blaming(t)' = Blaming(t) \cup {new} /\ new \notin Blaming(t)
      BY <1>1, <1>2, <1>4, <1>5, <2>1 DEF Blaming
    <2>3. Cardinality(Blaming(t)') = Cardinality(Blaming(t)) + 1
      BY <2>2, Countable, FS_AddElement
    <2>4. w \in Accusing(t)
      BY <1>5 DEF Accusing
    <2>5. Cardinality(Accusing(t)') = Cardinality(Accusing(t)) - 1
      BY <1>3, <2>4, Countable, FS_RemoveElement
    <2> QED BY <1>1, <2>3, <2>5, Countable DEF CountIs
  <1>6. CASE t \notin saving[w].bad
    <2>1. Blaming(t)' = Blaming(t)
      BY <1>1, <1>2, <1>4, <1>6 DEF Blaming
    <2>2. Accusing(t)' = Accusing(t)
      BY <1>3, <1>6 DEF Accusing
    <2> QED BY <1>1, <2>1, <2>2 DEF CountIs
  <1> QED BY <1>5, <1>6

LEMMA CountStep ==
    ASSUME NamesFit, ~DiskCanFail, TypeOK, ReportInv, NEW t \in Targets, CountIs(t), [Next]_vars
    PROVE  CountIs(t)'
  <1>1. ASSUME NEW w \in Jobs, Worker(w), ~VerifyBad(w), ~CopyReport(w)
        PROVE  CountIs(t)'
    <2>1. ~CopyFails(w)
      BY DEF CopyFails
    <2>2. saving'[w].bad = saving[w].bad /\ targetRuns'[t]["out_dif"] = targetRuns[t]["out_dif"]
      BY <1>1, <2>1, AccusesAsBefore
    <2>3. \A u \in Jobs \ {w} : saving'[u] = saving[u]
      BY <1>1, OthersStay
    <2>4. UNCHANGED reports
      BY <1>1, <2>1, WorkerDies
         DEF Worker, Generating, GetSeed, QueueDone, NewSeed, DeadlineReached, CopySeed,
         SeedMissing, RunGrammarinator, SaveIce, SetStatus, SaveMutateFail, SaveGenFail,
         Testing, Build, Run, RunGarbled,
         Handling, SaveBuildFail, NoRunFail, SaveRunFail, VerifyOk, Finish, Saving, AcquireLock
    <2>5. Accusing(t)' = Accusing(t) /\ Blaming(t)' = Blaming(t)
      BY <2>2, <2>3, <2>4 DEF Accusing, Blaming
    <2> QED BY <2>2, <2>5 DEF CountIs
  <1>2. CASE MainProcess \/ Tick \/ Finished \/ UNCHANGED vars
    <2>1. UNCHANGED <<saving, reports, targetRuns>>
      BY <1>2 DEF MainProcess, MainAcquire, MainPrint, CleanTmp, MainCheckAlive, MainCleanup, Tick,
                  Finished, vars, stats
    <2> QED BY <2>1 DEF CountIs, Accusing, Blaming
  <1> QED BY <1>1, <1>2, ComparisonCounts, ReportCounts DEF Next

\* The out_dif column of every target counts the reports that blame it, those
\* in a worker's hands included, for any number of workers and targets: on a
\* disk that can be written, and with programs of different names.
THEOREM DifferencesCounted ==
    ASSUME NamesFit, UseQueue, ~DiskCanFail
    PROVE  Spec => []DifCounted
  <1> DEFINE Counted == \A t \in Targets : CountIs(t)
  <1>1. Init => Counted
    <2> SUFFICES ASSUME Init, NEW t \in Targets PROVE CountIs(t)
      OBVIOUS
    <2>1. Blaming(t) = {} /\ Accusing(t) = {}
      BY DEF Init, NoSave, Blaming, Accusing
    <2>2. targetRuns[t]["out_dif"] = 0
      BY DEF Init, RunTags
    <2> QED BY <2>1, <2>2, FS_EmptySet DEF CountIs
  <1>2. TypeOK /\ ReportInv /\ Counted /\ [Next]_vars => Counted'
    <2> SUFFICES ASSUME TypeOK, ReportInv, Counted, [Next]_vars, NEW t \in Targets
                 PROVE  CountIs(t)'
      OBVIOUS
    <2> QED BY CountStep
  <1>3. Counted => DifCounted
    BY DEF CountIs, Blaming, Accusing, DifCounted
  <1> HIDE DEF Counted
  <1> QED BY <1>1, <1>2, <1>3, TypeCorrect, ReportsAccounted, PTL DEF Spec

=============================================================================
