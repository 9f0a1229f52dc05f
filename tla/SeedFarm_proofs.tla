--------------------------- MODULE SeedFarm_proofs ---------------------------
(***************************************************************************)
(* Theorems about SeedFarm for every command line and environment, and     *)
(* every number of workers, seeds and targets.                             *)
(***************************************************************************)
EXTENDS SeedFarm, FiniteSetTheorems, TLAPS

-----------------------------------------------------------------------------
(* The vote. *)

\* A nonempty set of targets has a smallest one, so the target that is picked
\* next, and the one a report is named after, exists.
LEMMA MinExists ==
    ASSUME NEW S, S \subseteq Nat, S # {}
    PROVE  Min(S) \in S /\ \A x \in S : Min(S) <= x
  <1> DEFINE Less == OpToRel(<, Nat)
  <1>1. IsWellFoundedOn(Less, Nat)
    BY NatLessThanWellFounded
  <1>2. \E x \in S : \A y \in S : ~ (<<y, x>> \in Less)
    <2> HIDE DEF Less
    <2> QED BY <1>1, WFMin
  <1>3. Less = {ss \in Nat \X Nat : ss[1] < ss[2]}
    BY Zenon DEF OpToRel
  <1>4. \A x, y \in Nat : <<y, x>> \in Less <=> y < x
    <2> HIDE DEF Less
    <2> QED BY <1>3
  <1>5. \E x \in S : \A y \in S : x <= y
    <2> HIDE DEF Less
    <2>1. PICK x \in S : \A y \in S : ~ (<<y, x>> \in Less)
      BY <1>2
    <2>2. \A y \in S : ~(y < x)
      BY <2>1, <1>4
    <2> QED BY <2>2
  <1> QED BY <1>5 DEF Min

\* What the vote returns are runs of the ballot it was given.
LEMMA VoteBounds ==
    ASSUME NEW b, b \in [good : SUBSET Targets, bad : SUBSET Targets]
    PROVE  Vote(b) \in [good : SUBSET Targets, bad : SUBSET Targets]
  BY DEF Vote, Majority, PreferNoOpt, PreferMoreCompilers, Swap

VerdictStatuses == {"ok", "miscompare", "multiple_miscompare", "no_good_runs"}

\* The verdict never invents a run.
LEMMA VerdictBounds ==
    ASSUME NEW runs
    PROVE  /\ TestVerdict(runs).status \in VerdictStatuses
           /\ TestVerdict(runs).good \subseteq Targets
           /\ TestVerdict(runs).bad \subseteq Targets
  <1>1. Ballot(runs) \in [good : SUBSET Targets, bad : SUBSET Targets]
    BY DEF Ballot, Group, Succeeded
  <1>2. Vote(Ballot(runs)) \in [good : SUBSET Targets, bad : SUBSET Targets]
    BY <1>1, VoteBounds
  <1> DEFINE v == Vote(Ballot(runs))
  <1>3. v.good \subseteq Targets /\ v.bad \subseteq Targets
    BY <1>2
  <1>4. Succeeded(runs) \subseteq Targets
    BY DEF Succeeded
  <1>5. CASE Agreed(runs)
    BY <1>5 DEF TestVerdict, VerdictStatuses
  <1>6. CASE ~Agreed(runs) /\ Cardinality(Sums(runs)) = 2
    <2>1. TestVerdict(runs) = [status |-> "miscompare", good |-> v.good, bad |-> v.bad]
      BY <1>6 DEF TestVerdict
    <2> QED BY <2>1, <1>3 DEF VerdictStatuses
  <1>7. CASE ~Agreed(runs) /\ Cardinality(Sums(runs)) # 2
    BY <1>7, <1>4 DEF TestVerdict, VerdictStatuses
  <1> QED BY <1>5, <1>6, <1>7

\* A verdict is none of the failures of the generator.
LEMMA VerdictStatus ==
    ASSUME NEW runs
    PROVE  TestVerdict(runs).status \in Statuses \ {"gen_fail", "gen_fail_timeout"}
  BY VerdictBounds DEF VerdictStatuses, Statuses

-----------------------------------------------------------------------------
(* Type correctness. *)

StatType == [gen : [GenTags -> Nat], runs : [RunTags -> Nat],
             pass : [SeedIds -> Nat], fail : [SeedIds -> Nat]]

LEMMA NoTestType == NoTest \in Tests
  BY DEF NoTest, Tests, Seeds, Statuses

\* A Test object stays one when a field gets a value of its type.
LEMMA TestUpdates ==
    ASSUME NEW t \in Tests
    PROVE  /\ \A s \in Seeds : [t EXCEPT !.seed = s] \in Tests
           /\ \A st \in Statuses : [t EXCEPT !.status = st] \in Tests
           /\ \A r \in [Targets -> Outcomes \cup {"not_built"}] : [t EXCEPT !.runs = r] \in Tests
  BY DEF Tests

LEMMA RecordType ==
    ASSUME NEW list \in [SeedIds -> Nat], NEW s
    PROVE  Record(list, s) \in [SeedIds -> Nat]
  BY DEF Record

\* The runs of the targets of one test raise each column by their number.
LEMMA AddRunsType ==
    ASSUME TypeOK, NEW runs, NEW group \in SUBSET Targets
    PROVE  AddRuns(runs, group) \in [RunTags -> Nat]
  <1>1. ASSUME NEW tag \in RunTags
        PROVE  Cardinality({t \in group : TagOf(runs[t]) = tag}) \in Nat
    <2>1. {t \in group : TagOf(runs[t]) = tag} \subseteq Targets
      OBVIOUS
    <2> QED BY <2>1, TargetsAssumption, FS_Subset, FS_CardinalityType
  <1>2. \A tag \in RunTags : stat.runs[tag] \in Nat
    BY DEF TypeOK
  <1> QED BY <1>1, <1>2 DEF AddRuns

LEMMA TypeInit == Init => TypeOK
  <1> SUFFICES ASSUME Init PROVE TypeOK
    OBVIOUS
  <1>1. NoStat \in StatType
    BY DEF NoStat, StatType
  <1>2. NoSave.bad \subseteq Targets /\ NoSave.program \in BOOLEAN /\ NoSave.next = "loop"
    BY DEF NoSave
  <1> QED BY <1>1, <1>2, NoTestType DEF Init, TypeOK, StatType, Labels, MainLabels

\* The parts of the state that one worker's step may touch.
WorkerTypes(w) ==
    /\ pc' \in [Jobs -> Labels]
    /\ test' \in [Jobs -> Tests]
    /\ DOMAIN saving' = Jobs
    /\ \A v \in Jobs : /\ saving'[v].bad \subseteq Targets /\ saving'[v].program \in BOOLEAN
                       /\ saving'[v].next \in {"loop", "saverun", "verify", "finish"}

LEMMA EnterSaveType ==
    ASSUME TypeOK, NEW w \in Jobs, NEW dest, NEW bad \in SUBSET Targets,
           NEW program \in BOOLEAN, NEW next \in {"loop", "saverun", "verify", "finish"},
           EnterSave(w, dest, bad, program, next), test' \in [Jobs -> Tests]
    PROVE  WorkerTypes(w)
  BY DEF EnterSave, Goto, TypeOK, WorkerTypes, Labels

LEMMA TypeGenerating ==
    ASSUME TypeOK, NEW w \in Jobs, Generating(w)
    PROVE  TypeOK'
  <1> USE DEF Goto, Crash
  <1>t. test[w] \in Tests /\ NoTest \in Tests
    BY NoTestType DEF TypeOK
  <1>1. CASE GetSeed(w)
    <2>1. PICK s \in SeedIds : queue[s] > 0 /\ queue' = [queue EXCEPT ![s] = @ - 1]
                               /\ StartTest(w, s)
      BY <1>1 DEF GetSeed
    <2>2. [NoTest EXCEPT !.seed = s] \in Tests
      BY <1>t, TestUpdates DEF Seeds
    <2>3. queue' \in [SeedIds -> Nat]
      BY <2>1 DEF TypeOK
    <2> QED BY <1>1, <2>1, <2>2, <2>3 DEF GetSeed, StartTest, TypeOK, Labels
  <1>2. CASE QueueDone(w) \/ DeadlineReached(w)
    BY <1>2 DEF QueueDone, DeadlineReached, TypeOK, Labels
  <1>3. CASE NewSeed(w)
    <2>1. <<w, clock>> \in Seeds
      BY DEF TypeOK, Seeds
    <2>2. [NoTest EXCEPT !.seed = <<w, clock>>] \in Tests
      BY <2>1, <1>t, TestUpdates
    <2> QED BY <1>3, <2>2 DEF NewSeed, StartTest, TypeOK, Labels
  <1>4. CASE Generate(w)
    <2>1. CASE Unserved(w) /\ UNCHANGED <<test, stat>>
      BY <1>4, <2>1 DEF Generate, Unserved, TypeOK, Labels
    <2>2. ASSUME NEW status \in {"ok"} \cup GenFailStatus,
                 test' = [test EXCEPT ![w].status = status],
                 IF status = "ok"
                 THEN stat' = [stat EXCEPT !.gen["ok"] = @ + 1] /\ Goto(w, "targets")
                 ELSE /\ stat' = [stat EXCEPT !.gen["runfail"] = @ + 1,
                                              !.fail = Record(@, test[w].seed)]
                      /\ Goto(w, "genfail")
          PROVE  TypeOK'
      <3>1. [test[w] EXCEPT !.status = status] \in Tests
        BY <1>t, TestUpdates DEF Statuses
      <3>2. test' \in [Jobs -> Tests]
        BY <2>2, <3>1 DEF TypeOK
      <3>3. stat \in StatType /\ Record(stat.fail, test[w].seed) \in [SeedIds -> Nat]
        BY RecordType DEF TypeOK, StatType
      <3>4. stat' \in StatType
        <4>1. CASE status = "ok"
          BY <4>1, <2>2, <3>3 DEF StatType, GenTags
        <4>2. CASE status # "ok"
          <5> DEFINE gen  == [stat.gen EXCEPT !["runfail"] = @ + 1]
                     fail == Record(stat.fail, test[w].seed)
          <5>1. gen \in [GenTags -> Nat] /\ fail \in [SeedIds -> Nat]
            BY <3>3 DEF StatType, GenTags
          <5>2. stat' = [stat EXCEPT !.gen = gen, !.fail = fail]
            BY <4>2, <2>2
          <5> HIDE DEF gen, fail
          <5> QED BY <5>1, <5>2, <3>3 DEF StatType
        <4> QED BY <4>1, <4>2
      <3>5. pc' \in [Jobs -> Labels]
        BY <2>2 DEF TypeOK, Labels
      <3> QED BY <1>4, <3>2, <3>4, <3>5 DEF Generate, TypeOK, StatType
    <2> QED BY <1>4, <2>1, <2>2 DEF Generate
  <1>5. CASE SaveGenFail(w)
    <2>1. WorkerTypes(w)
      <3>1. test' \in [Jobs -> Tests]
        BY <1>5 DEF SaveGenFail, TypeOK
      <3> QED BY <1>5, <3>1, EnterSaveType DEF SaveGenFail
    <2> QED BY <1>5, <2>1 DEF SaveGenFail, WorkerTypes, TypeOK
  <1> QED BY <1>1, <1>2, <1>3, <1>4, <1>5 DEF Generating

\* A column of the statistics changes, the others stay.
LEMMA StatUpdates ==
    ASSUME NEW st \in StatType
    PROVE  /\ \A r \in [RunTags -> Nat] : [st EXCEPT !.runs = r] \in StatType
           /\ \A l \in [SeedIds -> Nat] : /\ [st EXCEPT !.pass = l] \in StatType
                                          /\ [st EXCEPT !.fail = l] \in StatType
  BY DEF StatType

LEMMA TypeHandling ==
    ASSUME TypeOK, NEW w \in Jobs, Handling(w)
    PROVE  TypeOK'
  <1> USE DEF Goto, Crash
  <1>t. test[w] \in Tests /\ NoTest \in Tests /\ stat \in StatType
    BY NoTestType DEF TypeOK, StatType
  <1>s. test \in [Jobs -> Tests]
    BY DEF TypeOK
  <1>1. CASE RunTargets(w)
    <2>1. CASE Unserved(w) /\ UNCHANGED <<test, stat>>
      BY <1>1, <2>1 DEF RunTargets, Unserved, TypeOK, Labels
    <2>2. ASSUME NEW runs \in Vectors, NEW reached \in SUBSET Targets,
                 test' = [test EXCEPT ![w].runs =
                      [t \in Targets |-> IF t \in reached THEN runs[t] ELSE "not_built"]],
                 stat' = [stat EXCEPT !.runs = AddRuns(runs, reached)],
                 pc' = [pc EXCEPT ![w] = IF "garbled" \in Range(runs)
                                         THEN "crashed" ELSE "savebuild"]
          PROVE  TypeOK'
      <3> DEFINE made == [t \in Targets |-> IF t \in reached THEN runs[t] ELSE "not_built"]
      <3>1. setup.outcomes \subseteq Outcomes /\ "compfail" \in Outcomes
        BY FarmAssumption DEF TypeOK, SetupsOver, Outcomes, BuildFailTags
      <3>2. runs \in [Targets -> Outcomes]
        BY <3>1 DEF Vectors
      <3>3. made \in [Targets -> Outcomes \cup {"not_built"}]
        BY <3>2
      <3>4. test' \in [Jobs -> Tests]
        <4> HIDE DEF made
        <4>1. [test[w] EXCEPT !.runs = made] \in Tests
          BY <1>t, <3>3, TestUpdates
        <4>2. test' = [test EXCEPT ![w] = [test[w] EXCEPT !.runs = made]]
          BY <2>2 DEF made
        <4> QED BY <1>s, <4>1, <4>2
      <3>5. stat' \in StatType
        BY <1>t, <2>2, AddRunsType, StatUpdates
      <3>6. pc' \in [Jobs -> Labels]
        BY <2>2 DEF TypeOK, Labels
      <3> QED BY <1>1, <3>4, <3>5, <3>6 DEF RunTargets, TypeOK, StatType
    <2>3. CASE Served /\ ~(Unserved(w) /\ UNCHANGED <<test, stat>>)
      <3> DEFINE before(runs) == {t \in Targets : \A u \in Targets : u < t => runs[u] # "garbled"}
      <3>1. PICK runs \in Vectors :
              /\ test' = [test EXCEPT ![w].runs =
                     [t \in Targets |-> IF t \in before(runs) THEN runs[t] ELSE "not_built"]]
              /\ stat' = [stat EXCEPT !.runs = AddRuns(runs, before(runs))]
              /\ pc' = [pc EXCEPT ![w] = IF "garbled" \in Range(runs)
                                        THEN "crashed" ELSE "savebuild"]
        BY <1>1, <2>3 DEF RunTargets
      <3>2. before(runs) \in SUBSET Targets
        OBVIOUS
      <3> HIDE DEF before
      <3> QED BY <2>2, <3>1, <3>2
    <2> QED BY <1>1, <2>1, <2>3 DEF RunTargets
  <1>2. CASE SaveBuildFail(w)
    <2>1. UNCHANGED test
      BY <1>2 DEF SaveBuildFail
    <2>2. WithProgram(w, Min(Failed(w, BuildFailTags))) \in BOOLEAN
      BY DEF WithProgram
    <2>3. WorkerTypes(w)
      <3>1. CASE UNCHANGED saving /\ \E l \in Labels : pc' = [pc EXCEPT ![w] = l]
        BY <1>s, <2>1, <3>1 DEF WorkerTypes, TypeOK
      <3>2. CASE EnterSave(w, RunDest(w, Min(Failed(w, BuildFailTags))), {},
                           WithProgram(w, Min(Failed(w, BuildFailTags))), "saverun")
        BY <1>s, <2>1, <2>2, <3>2, EnterSaveType
      <3> QED BY <1>2, <3>1, <3>2 DEF SaveBuildFail, Labels
    <2> QED BY <1>2, <2>3 DEF SaveBuildFail, WorkerTypes, TypeOK
  <1>3. CASE SaveRunFail(w)
    <2>1. UNCHANGED test
      BY <1>3 DEF SaveRunFail
    <2>2. WorkerTypes(w)
      <3>1. CASE UNCHANGED saving /\ \E l \in Labels : pc' = [pc EXCEPT ![w] = l]
        BY <1>s, <2>1, <3>1 DEF WorkerTypes, TypeOK
      <3>2. CASE EnterSave(w, RunDest(w, Min(Failed(w, RunFailTags))), {}, TRUE, "verify")
        BY <1>s, <2>1, <3>2, EnterSaveType
      <3> QED BY <1>3, <3>1, <3>2 DEF SaveRunFail, Labels
    <2> QED BY <1>3, <2>2 DEF SaveRunFail, WorkerTypes, TypeOK
  <1>4. CASE VerifyOk(w)
    BY <1>4 DEF VerifyOk, TypeOK, Labels
  <1>5. CASE VerifyBad(w)
    <2> DEFINE v == TestVerdict(test[w].runs)
    <2>1. v.status \in Statuses /\ v.bad \subseteq Targets
      BY VerdictBounds, VerdictStatus
    <2>2. test' = [test EXCEPT ![w].status = v.status]
      BY <1>5 DEF VerifyBad
    <2>3. test' \in [Jobs -> Tests]
      <3> HIDE DEF v
      <3>1. [test[w] EXCEPT !.status = v.status] \in Tests
        BY <1>t, <2>1, TestUpdates
      <3> QED BY <1>s, <2>2, <3>1
    <2>4. CASE UNCHANGED <<saving, stat>> /\ Crash(w)
      BY <1>5, <2>3, <2>4 DEF VerifyBad, TypeOK, Labels
    <2>5. CASE /\ stat' = [stat EXCEPT !.runs["out_dif"] = @ + Cardinality(v.bad)]
               /\ EnterSave(w, <<Compilers(v.bad), v.status, test[w].seed>>, v.bad, TRUE, "finish")
      <3> DEFINE runs == [stat.runs EXCEPT !["out_dif"] = @ + Cardinality(v.bad)]
      <3>1. Cardinality(v.bad) \in Nat
        BY <2>1, TargetsAssumption, FS_Subset, FS_CardinalityType
      <3>2. runs \in [RunTags -> Nat]
        <4> HIDE DEF v
        <4> QED BY <1>t, <3>1 DEF StatType, RunTags
      <3>3. stat' = [stat EXCEPT !.runs = runs]
        BY <2>5
      <3>4. stat' \in StatType
        <4> HIDE DEF runs
        <4> QED BY <1>t, <3>2, <3>3, StatUpdates
      <3>5. WorkerTypes(w)
        <4> HIDE DEF v
        <4> QED BY <2>1, <2>3, <2>5, EnterSaveType
      <3> QED BY <1>5, <3>4, <3>5 DEF VerifyBad, WorkerTypes, TypeOK, StatType
    <2> QED BY <1>5, <2>4, <2>5 DEF VerifyBad
  <1>6. CASE Finish(w)
    <2>1. CASE Unserved(w) /\ UNCHANGED <<test, stat>>
      BY <1>6, <2>1 DEF Finish, Unserved, TypeOK, Labels
    <2>2. CASE /\ stat' = IF Passed(w) THEN [stat EXCEPT !.pass = Record(@, test[w].seed)]
                                       ELSE [stat EXCEPT !.fail = Record(@, test[w].seed)]
               /\ test' = [test EXCEPT ![w] = NoTest]
               /\ Goto(w, "loop")
      <3>1. stat' \in StatType
        <4>1. \A list \in [SeedIds -> Nat] : Record(list, test[w].seed) \in [SeedIds -> Nat]
          BY RecordType
        <4>2. stat.pass \in [SeedIds -> Nat] /\ stat.fail \in [SeedIds -> Nat]
          BY <1>t DEF StatType
        <4> QED BY <1>t, <2>2, <4>1, <4>2, StatUpdates
      <3> QED BY <1>6, <1>t, <2>2, <3>1 DEF Finish, TypeOK, Labels, StatType
    <2> QED BY <1>6, <2>1, <2>2 DEF Finish
  <1> QED BY <1>1, <1>2, <1>3, <1>4, <1>5, <1>6 DEF Handling

LEMMA ReleaseType ==
    ASSUME TypeOK, NEW w \in Jobs, NEW label \in Labels, Release(w, label)
    PROVE  WorkerTypes(w) /\ lock' = Nobody
  <1>1. test' \in [Jobs -> Tests]
    BY NoTestType DEF Release, TypeOK
  <1>2. NoSave.bad \subseteq Targets /\ NoSave.program \in BOOLEAN /\ NoSave.next = "loop"
    BY DEF NoSave
  <1> QED BY <1>1, <1>2 DEF Release, Goto, TypeOK, WorkerTypes

LEMMA TypeSaving ==
    ASSUME TypeOK, NEW w \in Jobs, Saving(w)
    PROVE  TypeOK'
  <1>n. saving[w].next \in Labels /\ "crashed" \in Labels
    BY DEF TypeOK, Labels
  <1>1. CASE AcquireLock(w)
    BY <1>1 DEF AcquireLock, Goto, TypeOK, Labels
  <1>2. CASE CopyReport(w)
    <2>1. WorkerTypes(w) /\ lock' = Nobody
      BY <1>2, <1>n, ReleaseType DEF CopyReport
    <2>2. test[w].seed \in Seeds /\ saving[w].bad \subseteq Targets
      BY DEF TypeOK, Tests
    <2>3. \A r \in reports' : r.seed \in Seeds /\ r.bad \subseteq Targets
      BY <1>2, <2>2 DEF CopyReport, TypeOK
    <2> QED BY <1>2, <2>1, <2>3 DEF CopyReport, WorkerTypes, TypeOK
  <1>3. CASE CopyFails(w)
    <2>1. WorkerTypes(w) /\ lock' = Nobody
      BY <1>3, <1>n, ReleaseType DEF CopyFails
    <2> QED BY <1>3, <2>1 DEF CopyFails, WorkerTypes, TypeOK
  <1>4. CASE CopyExits(w)
    <2>1. WorkerTypes(w) /\ lock' = Nobody
      BY <1>4, <1>n, ReleaseType DEF CopyExits
    <2> QED BY <1>4, <2>1 DEF CopyExits, WorkerTypes, TypeOK
  <1> QED BY <1>1, <1>2, <1>3, <1>4 DEF Saving

LEMMA TypeMain ==
    ASSUME TypeOK, MainProcess \/ Tick \/ Ended \/ UNCHANGED vars
    PROVE  TypeOK'
  <1>1. CASE ReadSeeds
    <2>1. \A lines : UniqueSeeds(lines) \in [SeedIds -> Nat]
      BY DEF UniqueSeeds
    <2> QED BY <1>1, <2>1 DEF ReadSeeds, MainStep, TypeOK, MainLabels
  <1>2. CASE StartWorkers
    BY <1>2 DEF StartWorkers, MainStep, TypeOK, MainLabels, Labels
  <1>3. CASE \/ CheckCompilers \/ MainAcquire \/ MainPrint \/ CleanTmp \/ MainCheckAlive
             \/ MainCleanup \/ JoinChildren \/ JoinFeeder
    BY <1>3 DEF CheckCompilers, MainAcquire, MainPrint, CleanTmp, MainCheckAlive,
                MainCleanup, JoinChildren, JoinFeeder, MainStep, TypeOK, MainLabels
  <1>4. CASE Tick
    BY <1>4 DEF Tick, TypeOK
  <1>5. CASE Ended \/ UNCHANGED vars
    BY <1>5 DEF Ended, vars, TypeOK
  <1> QED BY <1>1, <1>2, <1>3, <1>4, <1>5 DEF MainProcess

LEMMA TypeStep == TypeOK /\ [Next]_vars => TypeOK'
  <1> SUFFICES ASSUME TypeOK, [Next]_vars PROVE TypeOK'
    OBVIOUS
  <1>1. CASE \E w \in Jobs : Worker(w)
    BY <1>1, TypeGenerating, TypeHandling, TypeSaving DEF Worker
  <1>2. CASE MainProcess \/ Tick \/ Ended \/ UNCHANGED vars
    BY <1>2, TypeMain
  <1> QED BY <1>1, <1>2 DEF Next

\* In every state each worker, test, report, counter and list has the shape the
\* driver's code gives it.
THEOREM TypeCorrect == Spec => []TypeOK
  BY TypeInit, TypeStep, PTL DEF Spec

-----------------------------------------------------------------------------
(* Mutual exclusion. *)

\* No worker is there before the main process has started them.
NotStarted ==
    mainPc \in {"seeds", "compilers", "start"} => \A w \in Jobs : pc[w] = "off"

\* A worker's step begins at a label of the loop, never at "off".
LEMMA StartedOnly ==
    ASSUME NEW w \in Jobs, Worker(w)
    PROVE  pc[w] \notin {"off", "exited", "crashed"} /\ UNCHANGED mainPc
  <1>1. CASE Generating(w)
    BY <1>1 DEF Generating, GetSeed, QueueDone, NewSeed, DeadlineReached, Generate, SaveGenFail
  <1>2. CASE Handling(w)
    BY <1>2 DEF Handling, RunTargets, SaveBuildFail, SaveRunFail, VerifyOk, VerifyBad, Finish
  <1>3. CASE Saving(w)
    BY <1>3 DEF Saving, AcquireLock, CopyReport, CopyFails, CopyExits
  <1> QED BY <1>1, <1>2, <1>3 DEF Worker

LEMMA NotStartedStep ==
    ASSUME NotStarted, [Next]_vars
    PROVE  NotStarted'
  <1>1. CASE \E w \in Jobs : Worker(w)
    BY <1>1, StartedOnly DEF NotStarted
  <1>2. CASE MainProcess \/ Tick \/ Ended \/ UNCHANGED vars
    BY <1>2 DEF MainProcess, ReadSeeds, CheckCompilers, StartWorkers, MainAcquire, MainPrint,
                CleanTmp, MainCheckAlive, MainCleanup, JoinChildren, JoinFeeder, MainStep,
                Tick, Ended, vars, NotStarted
  <1> QED BY <1>1, <1>2 DEF Next

\* Outside save_test a worker neither touches the lock nor enters the section.
LEMMA OutsideSection ==
    ASSUME TypeOK, NEW w \in Jobs, Generating(w) \/ Handling(w)
    PROVE  /\ UNCHANGED <<lock, mainPc>>
           /\ pc[w] # "copy"
           /\ \E l \in Labels \ {"copy"} : pc' = [pc EXCEPT ![w] = l]
  <1> USE DEF Goto, Crash, EnterSave, StartTest, Unserved, Labels
  <1>1. CASE Generating(w)
    BY <1>1 DEF Generating, GetSeed, QueueDone, NewSeed, DeadlineReached, Generate, SaveGenFail
  <1>2. CASE Handling(w)
    BY <1>2 DEF Handling, RunTargets, SaveBuildFail, SaveRunFail, VerifyOk, VerifyBad, Finish
  <1> QED BY <1>1, <1>2

LEMMA LockStep ==
    ASSUME TypeOK, NotStarted, LockInv, [Next]_vars
    PROVE  LockInv'
  <1> USE FarmAssumption DEF Goto
  <1>1. ASSUME NEW w \in Jobs, Generating(w) \/ Handling(w)
        PROVE  LockInv'
    BY <1>1, OutsideSection DEF LockInv, TypeOK
  <1>2. ASSUME NEW w \in Jobs, Saving(w)
        PROVE  LockInv'
    <2>1. CASE AcquireLock(w)
      BY <2>1 DEF AcquireLock, LockInv, TypeOK
    <2>2. CASE CopyReport(w) \/ CopyFails(w) \/ CopyExits(w)
      <3>1. pc[w] = "copy" /\ lock' = Nobody /\ UNCHANGED mainPc
        BY <2>2 DEF CopyReport, CopyFails, CopyExits, Release
      <3>2. \E l : l # "copy" /\ pc' = [pc EXCEPT ![w] = l]
        BY <2>2 DEF CopyReport, CopyFails, CopyExits, Release, TypeOK
      <3> QED BY <3>1, <3>2 DEF LockInv, TypeOK
    <2> QED BY <1>2, <2>1, <2>2 DEF Saving
  <1>3. CASE StartWorkers
    BY <1>3 DEF StartWorkers, MainStep, NotStarted, LockInv, TypeOK
  <1>4. CASE MainProcess /\ ~StartWorkers
    BY <1>4 DEF MainProcess, ReadSeeds, CheckCompilers, MainAcquire, MainPrint, CleanTmp,
                MainCheckAlive, MainCleanup, JoinChildren, JoinFeeder, MainStep, LockInv, TypeOK
  <1>5. CASE Tick \/ Ended \/ UNCHANGED vars
    BY <1>5 DEF Tick, Ended, vars, LockInv
  <1> QED BY <1>1, <1>2, <1>3, <1>4, <1>5 DEF Next, Worker

\* Whatever the number of workers, and however they leave save_test - with the
\* report copied, refused by the disk, or by exit() - no two processes are in a
\* critical section together and nobody keeps the lock outside of one.
THEOREM LockSafe == Spec => []LockInv
  <1>1. Init => NotStarted /\ LockInv
    BY FarmAssumption DEF Init, NotStarted, LockInv
  <1>2. NotStarted /\ [Next]_vars => NotStarted'
    BY NotStartedStep
  <1>3. TypeOK /\ NotStarted /\ LockInv /\ [Next]_vars => LockInv'
    BY LockStep
  <1> QED BY <1>1, <1>2, <1>3, TypeCorrect, PTL DEF Spec

-----------------------------------------------------------------------------
(* The status of a test and the place of its worker. *)

\* Where the worker is, or where it goes on when save_test returns.
Place(w) == IF pc[w] \in {"lock", "copy"} THEN saving[w].next ELSE pc[w]

FitsPlace(w) ==
    /\ pc[w] \in {"off", "loop", "exited"} => test[w].seed = NoSeed
    /\ Place(w) = "generate" => test[w].status = "new"
    /\ pc[w] = "genfail" => test[w].status \in GenFailStatus
    /\ pc[w] \in {"lock", "copy"} /\ saving[w].next = "loop" =>
           test[w].status \in GenFailStatus
    /\ Place(w) \in {"targets", "savebuild", "saverun", "verify", "finish"} =>
           test[w].status \notin GenFailStatus

StatusFitsPlace == \A w \in Jobs : FitsPlace(w)

\* A step of one worker leaves the others where they are.
LEMMA OthersStay ==
    ASSUME TypeOK, NEW w \in Jobs, Worker(w), NEW v \in Jobs \ {w}
    PROVE  pc'[v] = pc[v] /\ test'[v] = test[v] /\ saving'[v] = saving[v]
  <1> USE DEF Goto, Crash, EnterSave, TypeOK
  <1>1. CASE Generating(w)
    BY <1>1 DEF Generating, GetSeed, QueueDone, NewSeed, DeadlineReached, Generate,
       SaveGenFail, StartTest, Unserved
  <1>2. CASE RunTargets(w) \/ Finish(w)
    BY <1>2 DEF RunTargets, Finish, Unserved
  <1>3. CASE SaveBuildFail(w) \/ SaveRunFail(w) \/ VerifyOk(w) \/ VerifyBad(w)
    BY <1>3 DEF SaveBuildFail, SaveRunFail, VerifyOk, VerifyBad
  <1>4. CASE Saving(w)
    BY <1>4 DEF Saving, AcquireLock, CopyReport, CopyFails, CopyExits, Release
  <1> QED BY <1>1, <1>2, <1>3, <1>4 DEF Worker, Handling

LEMMA FitsGenerating ==
    ASSUME TypeOK, NEW w \in Jobs, FitsPlace(w), Generating(w)
    PROVE  FitsPlace(w)'
  <1> USE DEF Goto, Crash, TypeOK, FitsPlace, Place
  <1>1. CASE GetSeed(w) \/ NewSeed(w)
    BY <1>1 DEF GetSeed, NewSeed, StartTest, NoTest
  <1>2. CASE QueueDone(w) \/ DeadlineReached(w)
    BY <1>2 DEF QueueDone, DeadlineReached
  <1>3. CASE SaveGenFail(w)
    BY <1>3 DEF SaveGenFail, EnterSave
  <1>4. CASE Generate(w)
    <2>1. CASE Unserved(w)
      BY <1>4, <2>1 DEF Generate, Unserved
    <2>2. CASE ~Unserved(w)
      <3>1. PICK st \in {"ok"} \cup GenFailStatus :
               /\ test' = [test EXCEPT ![w].status = st]
               /\ pc' = [pc EXCEPT ![w] = IF st = "ok" THEN "targets" ELSE "genfail"]
        BY <1>4, <2>2 DEF Generate
      <3> QED BY <3>1 DEF Tests, GenFailStatus
    <2> QED BY <2>1, <2>2
  <1> QED BY <1>1, <1>2, <1>3, <1>4 DEF Generating

\* Building, running and comparing changes neither the seed of the test nor
\* makes its status one of a generator failure, and ends in the next place.
LEMMA HandlingKeeps ==
    ASSUME TypeOK, NEW w \in Jobs, FitsPlace(w), Handling(w), ~Finish(w)
    PROVE  /\ UNCHANGED <<queue, stat.pass, stat.fail>>
           /\ test'[w].seed = test[w].seed
           /\ test[w].status \notin GenFailStatus /\ test'[w].status \notin GenFailStatus
           /\ \/ pc'[w] \in {"savebuild", "saverun", "verify", "finish", "crashed"}
              \/ pc'[w] = "lock" /\ saving'[w].next \in {"saverun", "verify", "finish"}
  <1> USE DEF Goto, Crash, EnterSave, TypeOK
  <1>0. test[w].status \notin GenFailStatus
    BY DEF Handling, RunTargets, SaveBuildFail, SaveRunFail, VerifyOk, VerifyBad,
           FitsPlace, Place
  <1>1. CASE RunTargets(w)
    <2>1. \/ UNCHANGED <<test, stat>>
          \/ \E r, c : /\ test' = [test EXCEPT ![w] = [test[w] EXCEPT !.runs = r]]
                       /\ stat' = [stat EXCEPT !.runs = c]
      BY <1>1 DEF RunTargets
    <2>2. /\ test'[w].seed = test[w].seed /\ test'[w].status = test[w].status
          /\ UNCHANGED <<stat.pass, stat.fail>>
      BY <2>1 DEF Tests
    <2>3. pc'[w] \in {"savebuild", "crashed"} /\ UNCHANGED queue
      BY <1>1 DEF RunTargets, Unserved
    <2> QED BY <1>0, <2>2, <2>3
  <1>2. CASE SaveBuildFail(w) \/ SaveRunFail(w) \/ VerifyOk(w)
    BY <1>0, <1>2 DEF SaveBuildFail, SaveRunFail, VerifyOk
  <1>3. CASE VerifyBad(w)
    <2> DEFINE st == TestVerdict(test[w].runs).status
    <2>1. st \notin GenFailStatus
      BY VerdictStatus DEF GenFailStatus
    <2>2. test' = [test EXCEPT ![w] = [test[w] EXCEPT !.status = st]]
      BY <1>3 DEF VerifyBad
    <2>3. test'[w].seed = test[w].seed /\ test'[w].status = st
      <3> HIDE DEF st
      <3> QED BY <2>2 DEF Tests
    <2>4. \/ UNCHANGED stat
          \/ \E c : stat' = [stat EXCEPT !.runs = c]
      BY <1>3 DEF VerifyBad
    <2>5. UNCHANGED <<queue, stat.pass, stat.fail>>
      BY <1>3, <2>4 DEF VerifyBad
    <2>6. pc'[w] = "crashed" \/ (pc'[w] = "lock" /\ saving'[w].next = "finish")
      BY <1>3 DEF VerifyBad
    <2> HIDE DEF st
    <2> QED BY <1>0, <2>1, <2>3, <2>5, <2>6
  <1> QED BY <1>1, <1>2, <1>3 DEF Handling

\* Leaving save_test, or waiting to enter it.
LEMMA SavingKeeps ==
    ASSUME TypeOK, NEW w \in Jobs, FitsPlace(w), Saving(w)
    PROVE  /\ UNCHANGED <<queue, stat>>
           /\ FitsPlace(w)'
           /\ \A s \in SeedIds : Holds(w, s)' <=> Holds(w, s)
  <1> USE DEF Goto, TypeOK
  <1>n. NoTest.seed = NoSeed
    BY DEF NoTest
  <1>1. CASE AcquireLock(w)
    BY <1>1 DEF AcquireLock, FitsPlace, Place, Holds
  <1>2. CASE CopyReport(w) \/ CopyFails(w)
    <2>1. pc[w] = "copy" /\ Release(w, saving[w].next) /\ UNCHANGED <<queue, stat>>
      BY <1>2 DEF CopyReport, CopyFails
    <2>2. pc'[w] = saving[w].next /\ saving[w].next \in {"loop", "saverun", "verify", "finish"}
      BY <2>1 DEF Release
    <2>3. CASE saving[w].next = "loop"
      <3>1. test[w].status \in GenFailStatus
        BY <2>1, <2>3 DEF FitsPlace
      <3>2. test'[w].seed = NoSeed
        BY <1>n, <2>1, <2>3 DEF Release
      <3> QED BY <2>1, <2>2, <2>3, <3>1, <3>2, FarmAssumption DEF FitsPlace, Place, Holds
    <2>4. CASE saving[w].next # "loop"
      BY <2>1, <2>2, <2>4 DEF Release, FitsPlace, Place, Holds
    <2> QED BY <2>3, <2>4
  <1>3. CASE CopyExits(w)
    BY <1>3 DEF CopyExits, Release, FitsPlace, Place, Holds
  <1> QED BY <1>1, <1>2, <1>3 DEF Saving

LEMMA FitsStep ==
    ASSUME TypeOK, NotStarted, StatusFitsPlace, [Next]_vars
    PROVE  StatusFitsPlace'
  <1>1. ASSUME NEW w \in Jobs, Worker(w)
        PROVE  StatusFitsPlace'
    <2>1. FitsPlace(w)'
      <3>1. CASE Generating(w)
        BY <3>1, FitsGenerating DEF StatusFitsPlace
      <3>2. CASE Handling(w) /\ ~Finish(w)
        BY <3>2, HandlingKeeps DEF StatusFitsPlace, FitsPlace, Place
      <3>3. CASE Finish(w)
        BY <3>3 DEF Finish, Unserved, Goto, Crash, NoTest, StatusFitsPlace, FitsPlace, Place, TypeOK
      <3>4. CASE Saving(w)
        BY <3>4, SavingKeeps DEF StatusFitsPlace
      <3> QED BY <1>1, <3>1, <3>2, <3>3, <3>4 DEF Worker
    <2>2. ASSUME NEW v \in Jobs \ {w} PROVE FitsPlace(v)'
      BY <1>1, OthersStay DEF StatusFitsPlace, FitsPlace, Place
    <2> QED BY <2>1, <2>2 DEF StatusFitsPlace
  <1>2. CASE StartWorkers
    BY <1>2 DEF StartWorkers, MainStep, NotStarted, StatusFitsPlace, FitsPlace, Place, TypeOK
  <1>3. CASE (MainProcess /\ ~StartWorkers) \/ Tick \/ Ended \/ UNCHANGED vars
    BY <1>3 DEF MainProcess, ReadSeeds, CheckCompilers, MainAcquire, MainPrint, CleanTmp,
                MainCheckAlive, MainCleanup, JoinChildren, JoinFeeder, Tick, Ended, vars,
                StatusFitsPlace, FitsPlace, Place
  <1> QED BY <1>1, <1>2, <1>3 DEF Next

\* A worker is in the loop only without a test, and a test whose generator
\* failed never reaches the targets, the vote or the lists again.
THEOREM StatusFits == Spec => [](NotStarted /\ StatusFitsPlace)
  <1>1. Init => NotStarted /\ StatusFitsPlace
    <2>1. NoTest.seed = NoSeed
      BY DEF NoTest
    <2> QED BY <2>1 DEF Init, NotStarted, StatusFitsPlace, FitsPlace, Place
  <1>2. NotStarted /\ [Next]_vars => NotStarted'
    BY NotStartedStep
  <1>3. TypeOK /\ NotStarted /\ StatusFitsPlace /\ [Next]_vars => StatusFitsPlace'
    BY FitsStep
  <1> QED BY <1>1, <1>2, <1>3, TypeCorrect, PTL DEF Spec

-----------------------------------------------------------------------------
(* No seed of the file is lost or registered twice. *)

Registered(s) == stat.pass[s] + stat.fail[s]

Free(s) == Registered(s) = 0 /\ \A w \in Jobs : ~Holds(w, s)

HeldOnce(w, s) == Registered(s) = 0 /\ \A v \in Jobs : Holds(v, s) => v = w

\* A seed is in the queue once and nowhere else, in the hands of one worker and
\* in no list, or in one list; and it is nowhere before the file is read.
Accounting ==
    \A s \in SeedIds :
        /\ Registered(s) <= 1
        /\ queue[s] > 0 => queue[s] = 1 /\ Free(s)
        /\ \A w \in Jobs : Holds(w, s) => HeldOnce(w, s)
        /\ mainPc = "seeds" => Free(s)

\* A step that registers nothing and moves no seed from one hand to another.
LEMMA AccountsKept ==
    ASSUME Accounting, UNCHANGED <<queue, stat.pass, stat.fail>>,
           mainPc' = mainPc \/ mainPc' # "seeds",
           \A v \in Jobs, s \in SeedIds : Holds(v, s)' <=> Holds(v, s)
    PROVE  Accounting'
  BY DEF Accounting, Registered, Free, HeldOnce

\* Entering a seed in a list changes no other seed's entry.
LEMMA RecordAt ==
    ASSUME NEW list \in [SeedIds -> Nat], NEW s, NEW p \in SeedIds
    PROVE  Record(list, s)[p] = IF p = s THEN list[p] + 1 ELSE list[p]
  BY DEF Record

\* A worker that lets its test go, and enters its seed in one of the lists.
LEMMA AccountClosed ==
    ASSUME TypeOK, Accounting, NEW w \in Jobs, NEW s, s = test[w].seed,
           UNCHANGED queue, mainPc # "seeds", UNCHANGED mainPc,
           \A v \in Jobs \ {w} : test'[v] = test[v],
           test[w].status \notin GenFailStatus,
           \A p \in SeedIds : ~Holds(w, p)',
           \/ stat'.pass = Record(stat.pass, s) /\ stat'.fail = stat.fail
           \/ stat'.fail = Record(stat.fail, s) /\ stat'.pass = stat.pass
    PROVE  Accounting'
  <1>1. \A v \in Jobs \ {w}, p \in SeedIds : Holds(v, p)' <=> Holds(v, p)
    BY DEF Holds
  <1>2. \A p \in SeedIds : Holds(w, p) <=> p = s
    BY DEF Holds
  <1>3. stat.pass \in [SeedIds -> Nat] /\ stat.fail \in [SeedIds -> Nat]
    BY DEF TypeOK
  <1>4. \A p \in SeedIds : Registered(p) \in Nat
    BY <1>3 DEF Registered
  <1>5. \A p \in SeedIds : Registered(p)' = IF p = s THEN Registered(p) + 1 ELSE Registered(p)
    <2>1. CASE stat'.pass = Record(stat.pass, s) /\ stat'.fail = stat.fail
      BY <1>3, <2>1, RecordAt DEF Registered
    <2>2. CASE stat'.fail = Record(stat.fail, s) /\ stat'.pass = stat.pass
      BY <1>3, <2>2, RecordAt DEF Registered
    <2> QED BY <2>1, <2>2
  <1>6. s \in SeedIds => /\ Registered(s) = 0 /\ ~(queue[s] > 0)
                         /\ \A v \in Jobs \ {w} : ~Holds(v, s)
    BY <1>2 DEF Accounting, Free, HeldOnce
  <1> SUFFICES ASSUME NEW p \in SeedIds
               PROVE  /\ Registered(p)' <= 1
                      /\ queue'[p] > 0 => queue'[p] = 1 /\ Free(p)'
                      /\ \A v \in Jobs : Holds(v, p)' => HeldOnce(v, p)'
    BY DEF Accounting
  <1>7. CASE p = s
    BY <1>1, <1>4, <1>5, <1>6, <1>7
  <1>8. CASE p # s
    <2>1. \A v \in Jobs : Holds(v, p)' <=> Holds(v, p)
      BY <1>1, <1>2, <1>8
    <2>2. Registered(p)' = Registered(p)
      BY <1>5, <1>8
    <2>3. Free(p)' <=> Free(p)
      BY <2>1, <2>2 DEF Free
    <2>4. \A v \in Jobs : HeldOnce(v, p)' <=> HeldOnce(v, p)
      BY <2>1, <2>2 DEF HeldOnce
    <2> QED BY <2>1, <2>2, <2>3, <2>4 DEF Accounting
  <1> QED BY <1>7, <1>8

\* The steps on a test that neither take it, nor register it, nor drop it.
LEMMA HandKept ==
    ASSUME TypeOK, NEW w \in Jobs, FitsPlace(w), Worker(w),
           ~GetSeed(w), ~NewSeed(w), ~Served \/ (~Generate(w) /\ ~Finish(w))
    PROVE  /\ UNCHANGED <<queue, stat.pass, stat.fail>>
           /\ \A s \in SeedIds : Holds(w, s)' <=> Holds(w, s)
  <1>1. CASE QueueDone(w) \/ DeadlineReached(w) \/ SaveGenFail(w)
    BY <1>1 DEF QueueDone, DeadlineReached, SaveGenFail, Holds
  <1>2. CASE ~Served /\ (Generate(w) \/ Finish(w))
    BY <1>2 DEF Served, Generate, Finish, Holds
  <1>3. CASE Handling(w) /\ ~Finish(w)
    BY <1>3, HandlingKeeps DEF Holds
  <1>4. CASE Saving(w)
    BY <1>4, SavingKeeps
  <1> QED BY <1>1, <1>2, <1>3, <1>4 DEF Worker, Generating, Handling

\* Registering a generator failure, or a test that is done.
Settling(w) ==
    /\ test[w].status \notin GenFailStatus
    /\ UNCHANGED queue
    /\ \A s \in SeedIds : ~Holds(w, s)'
    /\ \/ stat'.pass = Record(stat.pass, test[w].seed) /\ stat'.fail = stat.fail
       \/ stat'.fail = Record(stat.fail, test[w].seed) /\ stat'.pass = stat.pass

LEMMA FinishSettles ==
    ASSUME TypeOK, NEW w \in Jobs, FitsPlace(w), Served, Finish(w)
    PROVE  Settling(w)
  <1>1. ~Unserved(w)
    BY DEF Served, Unserved
  <1>2. test[w].status \notin GenFailStatus
    BY DEF Finish, FitsPlace, Place
  <1>3. test'[w].seed = NoSeed
    BY <1>1 DEF Finish, NoTest, TypeOK
  <1>4. \A s \in SeedIds : ~Holds(w, s)'
    BY <1>3, FarmAssumption DEF Holds
  <1>5. \/ stat' = [stat EXCEPT !.pass = Record(stat.pass, test[w].seed)]
        \/ stat' = [stat EXCEPT !.fail = Record(stat.fail, test[w].seed)]
    BY <1>1 DEF Finish
  <1>6. \/ stat'.pass = Record(stat.pass, test[w].seed) /\ stat'.fail = stat.fail
        \/ stat'.fail = Record(stat.fail, test[w].seed) /\ stat'.pass = stat.pass
    BY <1>5 DEF TypeOK
  <1> QED BY <1>2, <1>4, <1>6 DEF Finish, Settling

LEMMA GenerateSettles ==
    ASSUME TypeOK, NEW w \in Jobs, FitsPlace(w), Served, Generate(w)
    PROVE  \/ Settling(w)
           \/ /\ UNCHANGED <<queue, stat.pass, stat.fail>>
              /\ \A s \in SeedIds : Holds(w, s)' <=> Holds(w, s)
  <1>1. ~Unserved(w)
    BY DEF Served, Unserved
  <1>2. test[w].status = "new"
    BY DEF Generate, FitsPlace, Place
  <1>3. PICK st \in {"ok"} \cup GenFailStatus :
           /\ test' = [test EXCEPT ![w].status = st]
           /\ IF st = "ok" THEN stat' = [stat EXCEPT !.gen["ok"] = @ + 1]
              ELSE stat' = [stat EXCEPT !.gen["runfail"] = @ + 1,
                                        !.fail = Record(@, test[w].seed)]
    BY <1>1 DEF Generate
  <1>4. test'[w].seed = test[w].seed /\ test'[w].status = st
    BY <1>3 DEF TypeOK, Tests
  <1>5. CASE st = "ok"
    <2>1. UNCHANGED <<stat.pass, stat.fail>>
      BY <1>3, <1>5 DEF TypeOK
    <2>2. \A s \in SeedIds : Holds(w, s)' <=> Holds(w, s)
      BY <1>2, <1>4, <1>5 DEF Holds, GenFailStatus
    <2> QED BY <2>1, <2>2 DEF Generate
  <1>6. CASE st \in GenFailStatus
    <2>1. st # "ok" /\ "new" \notin GenFailStatus
      BY <1>6 DEF GenFailStatus
    <2>2. stat'.fail = Record(stat.fail, test[w].seed) /\ stat'.pass = stat.pass
      BY <1>3, <2>1 DEF TypeOK
    <2>3. \A s \in SeedIds : ~Holds(w, s)'
      BY <1>4, <1>6 DEF Holds
    <2> QED BY <1>2, <2>1, <2>2, <2>3 DEF Generate, Settling
  <1> QED BY <1>3, <1>5, <1>6

\* Taking a seed from the queue, by its effect.
LEMMA TakesSeed ==
    ASSUME TypeOK, NEW w \in Jobs, FitsPlace(w), GetSeed(w)
    PROVE  \E s \in SeedIds :
              /\ queue[s] > 0 /\ queue' = [queue EXCEPT ![s] = @ - 1]
              /\ \A p \in SeedIds : ~Holds(w, p) /\ (Holds(w, p)' <=> p = s)
              /\ pc'[w] = "generate" /\ UNCHANGED stat
  <1>1. PICK s \in SeedIds : queue[s] > 0 /\ queue' = [queue EXCEPT ![s] = @ - 1]
                             /\ StartTest(w, s)
    BY DEF GetSeed
  <1>2. test'[w] = [NoTest EXCEPT !.seed = s] /\ pc'[w] = "generate"
    BY <1>1 DEF StartTest, Goto, TypeOK
  <1>3. test'[w].seed = s /\ test'[w].status = "new"
    BY <1>2 DEF NoTest
  <1>4. \A p \in SeedIds : ~Holds(w, p) /\ (Holds(w, p)' <=> p = s)
    BY <1>3, FarmAssumption DEF GetSeed, FitsPlace, Holds, GenFailStatus
  <1> QED BY <1>1, <1>2, <1>4 DEF GetSeed

\* Without a queue a worker invents a seed, which is none of the file's.
LEMMA InventsSeed ==
    ASSUME TypeOK, NEW w \in Jobs, FitsPlace(w), NewSeed(w)
    PROVE  /\ UNCHANGED <<queue, stat.pass, stat.fail>>
           /\ \A s \in SeedIds : Holds(w, s)' <=> Holds(w, s)
  <1>1. <<w, clock>> \notin SeedIds
    BY FarmAssumption DEF TypeOK
  <1>2. test'[w] = [NoTest EXCEPT !.seed = <<w, clock>>]
    BY DEF NewSeed, StartTest, TypeOK
  <1>3. test'[w].seed = <<w, clock>>
    BY <1>2 DEF NoTest
  <1>4. test[w].seed = NoSeed
    BY DEF NewSeed, FitsPlace
  <1> QED BY <1>1, <1>3, <1>4, FarmAssumption DEF NewSeed, Holds

LEMMA AccountingWorker ==
    ASSUME TypeOK, NotStarted, StatusFitsPlace, Accounting, NEW w \in Jobs, Worker(w)
    PROVE  Accounting'
  <1>f. FitsPlace(w)
    BY DEF StatusFitsPlace
  <1>m. UNCHANGED mainPc /\ mainPc # "seeds"
    BY StartedOnly DEF NotStarted
  <1>o. /\ \A v \in Jobs \ {w} : test'[v] = test[v]
        /\ \A v \in Jobs \ {w}, p \in SeedIds : Holds(v, p)' <=> Holds(v, p)
    BY OthersStay DEF Holds
  <1>1. CASE GetSeed(w)
    <2>1. PICK s \in SeedIds :
              /\ queue[s] > 0 /\ queue' = [queue EXCEPT ![s] = @ - 1]
              /\ \A p \in SeedIds : ~Holds(w, p) /\ (Holds(w, p)' <=> p = s)
              /\ pc'[w] = "generate" /\ UNCHANGED stat
      BY <1>1, <1>f, TakesSeed
    <2>2. \A p \in SeedIds : Registered(p)' = Registered(p)
      BY <2>1 DEF Registered
    <2>3. queue[s] = 1 /\ Free(s)
      BY <2>1 DEF Accounting
    <2>4. \A p \in SeedIds : queue'[p] = IF p = s THEN 0 ELSE queue[p]
      BY <2>1, <2>3 DEF TypeOK
    <2> SUFFICES ASSUME NEW p \in SeedIds
                 PROVE  /\ Registered(p)' <= 1
                        /\ queue'[p] > 0 => queue'[p] = 1 /\ Free(p)'
                        /\ \A v \in Jobs : Holds(v, p)' => HeldOnce(v, p)'
      BY <1>m DEF Accounting
    <2>5. CASE p = s
      <3>1. \A v \in Jobs : Holds(v, p)' <=> v = w
        BY <1>o, <2>1, <2>3, <2>5 DEF Free
      <3>2. Registered(p)' = 0
        BY <2>2, <2>3, <2>5 DEF Free
      <3> QED BY <2>4, <2>5, <3>1, <3>2 DEF HeldOnce
    <2>6. CASE p # s
      <3>1. \A v \in Jobs : Holds(v, p)' <=> Holds(v, p)
        BY <1>o, <2>1, <2>6
      <3>2. (Free(p)' <=> Free(p)) /\ \A v \in Jobs : HeldOnce(v, p)' <=> HeldOnce(v, p)
        BY <2>2, <3>1 DEF Free, HeldOnce
      <3> QED BY <2>2, <2>4, <2>6, <3>1, <3>2 DEF Accounting
    <2> QED BY <2>5, <2>6
  <1>2. CASE Settling(w)
    BY <1>2, <1>m, <1>o, AccountClosed DEF Settling
  <1>3. CASE /\ UNCHANGED <<queue, stat.pass, stat.fail>>
             /\ \A s \in SeedIds : Holds(w, s)' <=> Holds(w, s)
    <2>1. \A v \in Jobs, s \in SeedIds : Holds(v, s)' <=> Holds(v, s)
      BY <1>3, <1>o
    <2> QED BY <1>3, <1>m, <2>1, AccountsKept
  <1>4. CASE NewSeed(w)
    BY <1>3, <1>4, <1>f, InventsSeed
  <1>5. CASE Served /\ (Generate(w) \/ Finish(w))
    BY <1>2, <1>3, <1>5, <1>f, GenerateSettles, FinishSettles
  <1>6. CASE ~GetSeed(w) /\ ~NewSeed(w) /\ (~Served \/ (~Generate(w) /\ ~Finish(w)))
    BY <1>3, <1>6, <1>f, HandKept
  <1> QED BY <1>1, <1>4, <1>5, <1>6

LEMMA AccountingStep ==
    ASSUME TypeOK, NotStarted, StatusFitsPlace, Accounting, [Next]_vars
    PROVE  Accounting'
  <1>1. CASE \E w \in Jobs : Worker(w)
    BY <1>1, AccountingWorker
  <1>2. CASE ReadSeeds
    <2>1. UNCHANGED <<test, stat>> /\ mainPc = "seeds" /\ mainPc' # "seeds"
      BY <1>2 DEF ReadSeeds, MainStep
    <2>2. \A s \in SeedIds : Free(s)
      BY <2>1 DEF Accounting
    <2>3. \A s \in SeedIds : Free(s)' /\ Registered(s)' <= 1
      BY <2>1, <2>2 DEF Free, Registered, Holds
    <2>4. \A w \in Jobs, s \in SeedIds : ~Holds(w, s)'
      BY <2>3 DEF Free
    <2>5. \A s \in SeedIds : queue'[s] > 0 => queue'[s] = 1
      <3>1. CASE UNCHANGED queue
        BY <3>1 DEF Accounting
      <3>2. CASE queue' = UniqueSeeds(setup.lines)
        BY <3>2 DEF UniqueSeeds
      <3> QED BY <1>2, <3>1, <3>2 DEF ReadSeeds
    <2> QED BY <2>1, <2>3, <2>4, <2>5 DEF Accounting
  <1>3. CASE (MainProcess /\ ~ReadSeeds) \/ Tick \/ Ended \/ UNCHANGED vars
    <2>1. /\ UNCHANGED <<test, queue, stat>>
          /\ mainPc' = mainPc \/ mainPc' # "seeds"
      BY <1>3 DEF MainProcess, CheckCompilers, StartWorkers, MainAcquire, MainPrint, CleanTmp,
                  MainCheckAlive, MainCleanup, JoinChildren, JoinFeeder, MainStep, Tick, Ended, vars
    <2>2. \A v \in Jobs, s \in SeedIds : Holds(v, s)' <=> Holds(v, s)
      BY <2>1 DEF Holds
    <2> QED BY <2>1, <2>2, AccountsKept
  <1> QED BY <1>1, <1>2, <1>3 DEF Next

\* However often a seed is listed and whoever dies, it is tested by one worker
\* and registered at most once.
THEOREM SeedsAccounted == Spec => []Accounting
  <1>1. Init => Accounting
    <2>1. NoTest.seed = NoSeed
      BY DEF NoTest
    <2> QED BY <2>1, FarmAssumption DEF Init, NoStat, Accounting, Free, Holds, Registered
  <1>2. TypeOK /\ NotStarted /\ StatusFitsPlace /\ Accounting /\ [Next]_vars => Accounting'
    BY AccountingStep
  <1> QED BY <1>1, <1>2, TypeCorrect, StatusFits, PTL DEF Spec

-----------------------------------------------------------------------------
(* The driver implements the ledger. *)

Placing == [s \in SeedIds |-> PlaceOf(s)]

Forward == {<<"waiting", "held">>} \cup {"held"} \X Book!Settled

\* A step that takes one seed a place further is a step of the ledger.
LEMMA LedgerStep ==
    ASSUME NEW s \in SeedIds,
           \A p \in SeedIds \ {s} : PlaceOf(p)' = PlaceOf(p),
           \/ PlaceOf(s)' = PlaceOf(s)
           \/ <<PlaceOf(s), PlaceOf(s)'>> \in Forward
    PROVE  [Book!Next]_Placing
  <1>1. CASE PlaceOf(s)' = PlaceOf(s)
    BY <1>1 DEF Placing
  <1>2. CASE <<PlaceOf(s), PlaceOf(s)'>> \in Forward
    <2>1. Placing' = [Placing EXCEPT ![s] = PlaceOf(s)']
      BY DEF Placing
    <2>2. Placing[s] = PlaceOf(s)
      BY DEF Placing
    <2>3. Book!Take(s) \/ Book!Settle(s)
      BY <1>2, <2>1, <2>2 DEF Forward, Placing, Book!Take, Book!Settle, Book!Move, Book!Settled
    <2> QED BY <2>3 DEF Book!Next
  <1> QED BY <1>1, <1>2

\* So is one that changes no place.
LEMMA LedgerStutter ==
    ASSUME \A p \in SeedIds : PlaceOf(p)' = PlaceOf(p)
    PROVE  [Book!Next]_Placing
  BY DEF Placing

\* What the accounts say about the place of a seed.
PlaceTold(s) ==
    /\ \A w \in Jobs : Holds(w, s) =>
          PlaceOf(s) = IF pc[w] = "crashed" THEN "lost" ELSE "held"
    /\ queue[s] > 0 => PlaceOf(s) = "waiting"

LEMMA PlaceByAccount ==
    TypeOK /\ Accounting => \A s \in SeedIds : PlaceTold(s)
  <1> SUFFICES ASSUME TypeOK, Accounting, NEW s \in SeedIds
               PROVE  PlaceTold(s)
    OBVIOUS
  <1>1. stat.pass[s] \in Nat /\ stat.fail[s] \in Nat
    BY DEF TypeOK
  <1>2. Registered(s) = 0 => ~(stat.pass[s] > 0) /\ ~(stat.fail[s] > 0)
    BY <1>1 DEF Registered
  <1>3. queue[s] > 0 => Registered(s) = 0 /\ \A w \in Jobs : ~Holds(w, s)
    BY DEF Accounting, Free
  <1>4. \A w \in Jobs : Holds(w, s) =>
            Registered(s) = 0 /\ \A v \in Jobs : Holds(v, s) => v = w
    BY DEF Accounting, HeldOnce
  <1> QED BY <1>2, <1>3, <1>4 DEF PlaceTold, PlaceOf

LEMMA PlaceByNextAccount ==
    TypeOK' /\ Accounting' => (\A s \in SeedIds : PlaceTold(s))'
  BY PlaceByAccount, PTL

\* A worker whose test stays in its hands moves no seed, unless it dies.
LEMMA PlaceKept ==
    ASSUME TypeOK, Accounting, TypeOK', Accounting', NEW w \in Jobs,
           pc[w] # "crashed",
           UNCHANGED <<stat.pass, stat.fail>>,
           \A v \in Jobs \ {w} : test'[v] = test[v] /\ pc'[v] = pc[v],
           \A s \in SeedIds : Holds(w, s)' <=> Holds(w, s)
    PROVE  [Book!Next]_Placing
  <1>1. \A v \in Jobs, s \in SeedIds : Holds(v, s)' <=> Holds(v, s)
    BY DEF Holds
  <1>2. ASSUME NEW s \in SeedIds, ~Holds(w, s)
        PROVE  PlaceOf(s)' = PlaceOf(s)
    BY <1>1, <1>2 DEF PlaceOf
  <1>3. ASSUME NEW s \in SeedIds, Holds(w, s)
        PROVE  PlaceOf(s) = "held" /\ PlaceOf(s)' \in {"held", "lost"}
    <2>1. Holds(w, s)'
      BY <1>1, <1>3
    <2>2. PlaceOf(s)' = IF pc'[w] = "crashed" THEN "lost" ELSE "held"
      BY <2>1, PlaceByNextAccount DEF PlaceTold
    <2>3. PlaceOf(s) = "held"
      BY <1>3, PlaceByAccount DEF PlaceTold
    <2> QED BY <2>2, <2>3
  <1>4. CASE \E s \in SeedIds : Holds(w, s)
    <2>1. PICK s \in SeedIds : Holds(w, s)
      BY <1>4
    <2>2. \A p \in SeedIds \ {s} : ~Holds(w, p)
      BY <2>1 DEF Holds
    <2>3. PlaceOf(s)' = PlaceOf(s) \/ <<PlaceOf(s), PlaceOf(s)'>> \in Forward
      BY <1>3, <2>1 DEF Forward, Book!Settled
    <2> QED BY <1>2, <2>2, <2>3, LedgerStep
  <1>5. CASE \A s \in SeedIds : ~Holds(w, s)
    BY <1>2, <1>5, LedgerStutter
  <1> QED BY <1>4, <1>5

\* A worker that enters the seed of its test in one of the lists settles it.
LEMMA PlaceSettled ==
    ASSUME TypeOK, Accounting, TypeOK', Accounting', NEW w \in Jobs,
           NEW s, s = test[w].seed,
           pc[w] # "crashed", Settling(w),
           \A v \in Jobs \ {w} : test'[v] = test[v] /\ pc'[v] = pc[v]
    PROVE  [Book!Next]_Placing
  <1>0. stat.pass \in [SeedIds -> Nat] /\ stat.fail \in [SeedIds -> Nat]
    BY DEF TypeOK
  <1>1. \/ stat'.pass = Record(stat.pass, s) /\ stat'.fail = stat.fail
        \/ stat'.fail = Record(stat.fail, s) /\ stat'.pass = stat.pass
    BY DEF Settling
  <1>2. ASSUME NEW p \in SeedIds, p # s
        PROVE  PlaceOf(p)' = PlaceOf(p)
    <2>1. ~Holds(w, p) /\ ~Holds(w, p)'
      BY <1>2 DEF Holds, Settling
    <2>2. \A v \in Jobs : /\ Holds(v, p)' <=> Holds(v, p)
                          /\ Holds(v, p) => pc'[v] = pc[v]
      BY <2>1 DEF Holds
    <2>3. stat'.pass[p] = stat.pass[p] /\ stat'.fail[p] = stat.fail[p]
      BY <1>0, <1>1, <1>2, RecordAt
    <2> QED BY <2>2, <2>3 DEF PlaceOf
  <1>3. CASE s \in SeedIds
    <2>1. Holds(w, s)
      BY DEF Holds, Settling
    <2>2. PlaceOf(s) = "held"
      BY <1>3, <2>1, PlaceByAccount DEF PlaceTold
    <2>3. \A v \in Jobs : ~Holds(v, s)'
      <3>1. \A v \in Jobs \ {w} : ~Holds(v, s)
        BY <1>3, <2>1 DEF Accounting, HeldOnce
      <3>2. \A v \in Jobs \ {w} : ~Holds(v, s)'
        BY <3>1 DEF Holds
      <3> QED BY <1>3, <3>2 DEF Settling
    <2>4. stat'.pass[s] > 0 \/ stat'.fail[s] > 0
      <3>1. \A list \in [SeedIds -> Nat] : Record(list, s)[s] > 0
        BY <1>3, RecordAt
      <3> QED BY <1>0, <1>1, <3>1
    <2>5. PlaceOf(s)' \in {"passed", "failed"}
      BY <2>3, <2>4 DEF PlaceOf
    <2>6. <<PlaceOf(s), PlaceOf(s)'>> \in Forward
      BY <2>2, <2>5 DEF Forward, Book!Settled
    <2> QED BY <1>2, <1>3, <2>6, LedgerStep
  <1>4. CASE s \notin SeedIds
    BY <1>2, <1>4, LedgerStutter
  <1> QED BY <1>3, <1>4

LEMMA WorkerTracked ==
    ASSUME TypeOK, StatusFitsPlace, Accounting, TypeOK', Accounting',
           NEW w \in Jobs, Worker(w)
    PROVE  [Book!Next]_Placing
  <1>a. pc[w] # "crashed"
    BY StartedOnly
  <1>o. \A v \in Jobs \ {w} : test'[v] = test[v] /\ pc'[v] = pc[v]
    BY OthersStay
  <1>f. FitsPlace(w)
    BY DEF StatusFitsPlace
  <1>1. CASE GetSeed(w)
    <2>1. PICK s \in SeedIds :
              /\ queue[s] > 0 /\ queue' = [queue EXCEPT ![s] = @ - 1]
              /\ \A p \in SeedIds : ~Holds(w, p) /\ (Holds(w, p)' <=> p = s)
              /\ pc'[w] = "generate" /\ UNCHANGED stat
      BY <1>1, <1>f, TakesSeed
    <2>2. \A v \in Jobs \ {w}, p \in SeedIds : Holds(v, p)' <=> Holds(v, p)
      BY <1>o DEF Holds
    <2>3. \A p \in SeedIds \ {s} : PlaceOf(p)' = PlaceOf(p)
      BY <2>1, <2>2, <1>o DEF PlaceOf
    <2>4. PlaceOf(s) = "waiting"
      BY <2>1, PlaceByAccount DEF PlaceTold
    <2>5. PlaceOf(s)' = "held"
      BY <2>1, PlaceByNextAccount DEF PlaceTold
    <2> QED BY <2>3, <2>4, <2>5, LedgerStep DEF Forward
  <1>2. CASE Settling(w)
    BY <1>2, <1>a, <1>o, PlaceSettled
  <1>3. CASE /\ UNCHANGED <<queue, stat.pass, stat.fail>>
             /\ \A s \in SeedIds : Holds(w, s)' <=> Holds(w, s)
    BY <1>3, <1>a, <1>o, PlaceKept
  <1>4. CASE NewSeed(w)
    BY <1>3, <1>4, <1>f, InventsSeed
  <1>5. CASE Served /\ (Generate(w) \/ Finish(w))
    BY <1>2, <1>3, <1>5, <1>f, GenerateSettles, FinishSettles
  <1>6. CASE ~GetSeed(w) /\ ~NewSeed(w) /\ (~Served \/ (~Generate(w) /\ ~Finish(w)))
    BY <1>3, <1>6, <1>f, HandKept
  <1> QED BY <1>1, <1>4, <1>5, <1>6

\* The main process takes no seed and settles none: what it does with the
\* workers that hold none of them is not seen in the ledger.
LEMMA MainTracked ==
    ASSUME NotStarted, StatusFitsPlace, MainProcess \/ Tick \/ Ended \/ UNCHANGED vars
    PROVE  [Book!Next]_Placing
  <1>1. CASE StartWorkers
    <2>1. /\ UNCHANGED <<test, stat>>
          /\ \A w \in Jobs : pc[w] = "off" /\ pc'[w] \in {"off", "loop"}
      BY <1>1 DEF StartWorkers, MainStep, NotStarted
    <2>2. \A w \in Jobs, s \in SeedIds : ~Holds(w, s) /\ ~Holds(w, s)'
      BY <2>1, FarmAssumption DEF StatusFitsPlace, FitsPlace, Holds
    <2>3. \A s \in SeedIds : PlaceOf(s)' = PlaceOf(s)
      BY <2>1, <2>2 DEF PlaceOf
    <2> QED BY <2>3, LedgerStutter
  <1>2. CASE ~StartWorkers
    <2>1. UNCHANGED <<pc, test, stat>>
      BY <1>2 DEF MainProcess, ReadSeeds, CheckCompilers, MainAcquire, MainPrint, CleanTmp,
                  MainCheckAlive, MainCleanup, JoinChildren, JoinFeeder, Tick, Ended, vars
    <2>2. \A s \in SeedIds : PlaceOf(s)' = PlaceOf(s)
      BY <2>1 DEF PlaceOf, Holds
    <2> QED BY <2>2, LedgerStutter
  <1> QED BY <1>1, <1>2

\* Whatever the file, the command line, the number of workers and targets, and
\* whoever dies, the driver implements the ledger: every seed of the file is
\* taken once, and settled once and for all, in one of the two lists or with the
\* worker that died.
THEOREM SeedFarmImplementsLedger == Spec => Book!Spec
  <1>1. Init => Book!Init
    <2>1. NoTest.seed = NoSeed
      BY DEF NoTest
    <2> QED BY <2>1, FarmAssumption DEF Init, NoStat, Book!Init, PlaceOf, Holds
  <1>2. TypeOK /\ NotStarted /\ StatusFitsPlace /\ Accounting /\ TypeOK' /\ Accounting'
        /\ [Next]_vars => [Book!Next]_Placing
    BY WorkerTracked, MainTracked DEF Next
  <1> QED BY <1>1, <1>2, TypeCorrect, StatusFits, SeedsAccounted, PTL
          DEF Spec, Book!Spec, Placing

-----------------------------------------------------------------------------
(* The reports of SeedFarm: every failure gets one, and none is overwritten. *)

\* The first of the targets is one of them.
LEMMA FirstTarget ==
    ASSUME NEW S \in SUBSET Targets, S # {}
    PROVE  Min(S) \in S
  BY TargetsAssumption, MinExists

-----------------------------------------------------------------------------
(* What the reports tell about the tests in progress. *)

VerdictKinds == Statuses \ GenFailStatus

Saved(s, kind) == \E r \in reports : r.seed = s /\ r.dest[2] = kind

Unsaved(w, kinds) == \A kind \in kinds : ~Saved(test[w].seed, kind)

SomeSaved(w, tags) == Failed(w, tags) # {} => \E tag \in tags : Saved(test[w].seed, tag)

Pending(w) == pc[w] \in {"lock", "copy"}

\* What a worker is about to save, by the place where it goes on.
PendingFits(w) ==
    Pending(w) =>
        LET s == saving[w] IN
        \/ s.next = "loop" /\ s.dest[2] \in GenFailStatus
        \/ /\ s.dest[3] = test[w].seed
           /\ \/ s.next = "saverun" /\ s.dest[2] \in BuildFailTags
              \/ s.next = "verify" /\ s.dest[2] \in RunFailTags
              \/ s.next = "finish" /\ s.dest[2] = test[w].status /\ s.dest[2] \in VerdictKinds

\* On a disk that can be written, what is behind the worker is saved ...
Progress(w) ==
    setup.disk = "writable" =>
        /\ Place(w) \in {"verify", "finish"} \/ pc[w] = "saverun" => SomeSaved(w, BuildFailTags)
        /\ Place(w) = "finish" \/ pc[w] = "verify" => SomeSaved(w, RunFailTags)
        /\ pc[w] = "finish" /\ ~Agreed(test[w].runs) => Saved(test[w].seed, test[w].status)

\* ... and of what is ahead of it no report of its seed exists.
Ahead(w, place, before) == pc[w] \in before \/ (Pending(w) /\ saving[w].next = place)

BeforeBuild == {"generate", "targets", "savebuild"}
BeforeRun   == BeforeBuild \cup {"saverun"}

Fresh(w) ==
    UseQueue =>
        /\ Ahead(w, "saverun", BeforeBuild) => Unsaved(w, BuildFailTags)
        /\ Ahead(w, "saverun", BeforeRun) => Unsaved(w, RunFailTags \cup VerdictKinds)
        /\ Ahead(w, "verify", {}) => Unsaved(w, RunFailTags)
        /\ Ahead(w, "verify", {"verify"}) => Unsaved(w, VerdictKinds)
        /\ Ahead(w, "finish", {}) => Unsaved(w, VerdictKinds)

SeedKnown(w) ==
    UseQueue /\ pc[w] \notin {"off", "loop", "exited", "crashed"} => test[w].seed \in SeedIds

Work(w) == PendingFits(w) /\ Progress(w) /\ Fresh(w) /\ SeedKnown(w)

\* A directory is named after the seed whose test is in it, but for the failures
\* of the generator.
ReportShape == \A r \in reports : r.dest[2] \notin GenFailStatus => r.seed = r.dest[3]

\* A seed that waits in the queue has no report.
QueueFresh ==
    UseQueue => \A s \in SeedIds : queue[s] > 0 =>
        \A r \in reports : r.seed = s => r.dest[2] \in GenFailStatus

NoneYet == mainPc = "seeds" => reports = {}

ReportInv == ReportShape /\ QueueFresh /\ NoneYet /\ \A w \in Jobs : Work(w)

-----------------------------------------------------------------------------
(* Steps that write no report. *)

LEMMA Kinds ==
    /\ BuildFailTags \cap GenFailStatus = {} /\ RunFailTags \cap GenFailStatus = {}
    /\ VerdictKinds \cap GenFailStatus = {} /\ BuildFailTags \cap RunFailTags = {}
    /\ VerdictKinds \cap (BuildFailTags \cup RunFailTags) = {}
  BY DEF BuildFailTags, RunFailTags, VerdictKinds, Statuses, GenFailStatus

\* Without a report of its own, what a worker does not touch still fits.
LEMMA WorkStays ==
    ASSUME NEW v \in Jobs, Work(v), UNCHANGED <<setup, reports>>,
           pc'[v] = pc[v], test'[v] = test[v], saving'[v] = saving[v]
    PROVE  Work(v)'
  BY DEF Work, PendingFits, Progress, Fresh, SeedKnown, Pending, Place, Ahead, Unsaved,
         SomeSaved, Saved, Failed, UseQueue

\* A worker without a test has nothing to save.
LEMMA WorkIdle ==
    ASSUME NEW w \in Jobs, pc'[w] \in {"off", "loop", "exited", "crashed"}
    PROVE  Work(w)'
  BY DEF Work, PendingFits, Progress, Fresh, SeedKnown, Pending, Place, Ahead,
         BeforeBuild, BeforeRun

LEMMA WorkGenerating ==
    ASSUME TypeOK, ReportInv, NEW w \in Jobs, FitsPlace(w), Generating(w)
    PROVE  Work(w)'
  <1>w. Work(w)
    BY DEF ReportInv
  <1> USE DEF TypeOK, Goto, Crash
  <1>1. CASE GetSeed(w)
    <2>1. PICK s \in SeedIds : queue[s] > 0 /\ StartTest(w, s)
      BY <1>1 DEF GetSeed
    <2>2. pc'[w] = "generate" /\ test'[w].seed = s /\ UNCHANGED <<setup, reports>>
      BY <1>1, <2>1 DEF GetSeed, StartTest, NoTest
    <2>3. UseQueue => \A r \in reports : r.seed = s => r.dest[2] \in GenFailStatus
      BY <2>1 DEF ReportInv, QueueFresh
    <2>4. UseQueue => Unsaved(w, BuildFailTags \cup RunFailTags \cup VerdictKinds)'
      BY <2>2, <2>3, Kinds DEF Unsaved, Saved, UseQueue
    <2>5. UseQueue' <=> UseQueue
      BY <2>2 DEF UseQueue
    <2> QED BY <2>1, <2>2, <2>4, <2>5 DEF Work, PendingFits, Progress, Fresh, SeedKnown,
               Pending, Place, Ahead, Unsaved
  <1>2. CASE NewSeed(w)
    <2>1. pc'[w] = "generate" /\ ~UseQueue'
      BY <1>2 DEF NewSeed, StartTest, UseQueue
    <2> QED BY <2>1 DEF Work, PendingFits, Progress, Fresh, SeedKnown, Pending, Place
  <1>3. CASE QueueDone(w) \/ DeadlineReached(w)
    BY <1>3, WorkIdle DEF QueueDone, DeadlineReached
  <1>4. CASE Generate(w)
    <2>1. /\ pc[w] = "generate" /\ UNCHANGED <<setup, reports>>
          /\ pc'[w] \in {"crashed", "targets", "genfail"}
          /\ test'[w].seed = test[w].seed
      <3>1. \/ UNCHANGED test
            \/ \E st : test' = [test EXCEPT ![w] = [test[w] EXCEPT !.status = st]]
        BY <1>4 DEF Generate
      <3> QED BY <1>4, <3>1 DEF Generate, Unserved, Tests
    <2>2. UseQueue => test[w].seed \in SeedIds
      BY <1>w, <2>1 DEF Work, SeedKnown
    <2>3. UseQueue => /\ Unsaved(w, BuildFailTags) /\ Unsaved(w, RunFailTags \cup VerdictKinds)
      BY <1>w, <2>1 DEF Work, Fresh, Ahead, BeforeRun, BeforeBuild
    <2> QED BY <2>1, <2>2, <2>3 DEF Work, PendingFits, Progress, Fresh, SeedKnown,
               Pending, Place, Ahead, Unsaved, Saved, UseQueue
  <1>5. CASE SaveGenFail(w)
    <2>1. /\ pc[w] = "genfail" /\ UNCHANGED <<setup, reports, test>> /\ pc'[w] = "lock"
          /\ saving'[w].next = "loop" /\ saving'[w].dest[2] = test[w].status
      BY <1>5 DEF SaveGenFail, EnterSave
    <2>2. test[w].status \in GenFailStatus
      BY <2>1 DEF FitsPlace
    <2>3. UseQueue => test[w].seed \in SeedIds
      BY <1>w, <2>1 DEF Work, SeedKnown
    <2> QED BY <2>1, <2>2, <2>3 DEF Work, PendingFits, Progress, Fresh, SeedKnown,
               Pending, Place, Ahead, BeforeBuild, BeforeRun, UseQueue
  <1> QED BY <1>1, <1>2, <1>3, <1>4, <1>5 DEF Generating

LEMMA WorkHandling ==
    ASSUME TypeOK, ReportInv, NEW w \in Jobs, FitsPlace(w), Handling(w)
    PROVE  Work(w)'
  <1>w. Work(w)
    BY DEF ReportInv
  <1>k. UseQueue => test[w].seed \in SeedIds
    BY <1>w DEF Work, SeedKnown, Handling, RunTargets, SaveBuildFail, SaveRunFail, VerifyOk,
                VerifyBad, Finish
  <1>r. UNCHANGED <<setup, reports>>
    BY DEF Handling, RunTargets, SaveBuildFail, SaveRunFail, VerifyOk, VerifyBad, Finish
  <1>u. UseQueue' <=> UseQueue
    BY <1>r DEF UseQueue
  <1> USE DEF TypeOK, Goto, Crash
  <1>1. CASE RunTargets(w)
    <2>1. pc[w] = "targets" /\ pc'[w] \in {"crashed", "savebuild"}
      BY <1>1 DEF RunTargets, Unserved
    <2>2. test'[w].seed = test[w].seed
      <3>1. \/ UNCHANGED test
            \/ \E r : test' = [test EXCEPT ![w] = [test[w] EXCEPT !.runs = r]]
        BY <1>1 DEF RunTargets
      <3> QED BY <3>1 DEF Tests
    <2>3. UseQueue => Unsaved(w, BuildFailTags) /\ Unsaved(w, RunFailTags \cup VerdictKinds)
      BY <1>w, <2>1 DEF Work, Fresh, Ahead, BeforeRun, BeforeBuild
    <2> QED BY <1>k, <1>r, <1>u, <2>1, <2>2, <2>3 DEF Work, PendingFits, Progress, Fresh, SeedKnown,
               Pending, Place, Ahead, Unsaved, Saved
  <1>2. CASE SaveBuildFail(w)
    <2>1. pc[w] = "savebuild" /\ UNCHANGED test
      BY <1>2 DEF SaveBuildFail
    <2>2. UseQueue => Unsaved(w, BuildFailTags) /\ Unsaved(w, RunFailTags \cup VerdictKinds)
      BY <1>w, <2>1 DEF Work, Fresh, Ahead, BeforeRun, BeforeBuild
    <2>3. CASE Failed(w, BuildFailTags) = {}
      <3>1. pc'[w] = "saverun"
        BY <1>2, <2>3 DEF SaveBuildFail
      <3>2. SomeSaved(w, BuildFailTags)'
        BY <2>1, <2>3 DEF SomeSaved, Failed
      <3> QED BY <1>k, <1>r, <1>u, <2>1, <2>2, <3>1, <3>2 DEF Work, PendingFits, Progress, Fresh,
                 SeedKnown, Pending, Place, Ahead, BeforeBuild, Unsaved, Saved
    <2>4. CASE Failed(w, BuildFailTags) # {} /\ ~ReduceBuildFail(w)
      <3> DEFINE t == Min(Failed(w, BuildFailTags))
      <3>1. t \in Failed(w, BuildFailTags)
        BY <2>4, FirstTarget DEF Failed
      <3>2. test[w].runs[t] \in BuildFailTags
        BY <3>1 DEF Failed
      <3>3. /\ pc'[w] = "lock" /\ saving'[w].next = "saverun"
            /\ saving'[w].dest[2] = test[w].runs[t] /\ saving'[w].dest[3] = test[w].seed
        BY <1>2, <2>4 DEF SaveBuildFail, EnterSave, RunDest
      <3> HIDE DEF t
      <3> QED BY <1>k, <1>r, <1>u, <2>1, <2>2, <3>2, <3>3 DEF Work, PendingFits, Progress, Fresh,
                 SeedKnown, Pending, Place, Ahead, BeforeBuild, BeforeRun, Unsaved, Saved
    <2>5. CASE Failed(w, BuildFailTags) # {} /\ ReduceBuildFail(w)
      BY <1>2, <2>5, WorkIdle DEF SaveBuildFail
    <2> QED BY <2>3, <2>4, <2>5
  <1>3. CASE SaveRunFail(w)
    <2>1. pc[w] = "saverun" /\ UNCHANGED test
      BY <1>3 DEF SaveRunFail
    <2>2. UseQueue => Unsaved(w, RunFailTags \cup VerdictKinds)
      BY <1>w, <2>1 DEF Work, Fresh, Ahead, BeforeRun
    <2>3. setup.disk = "writable" => SomeSaved(w, BuildFailTags)'
      <3>1. setup.disk = "writable" => SomeSaved(w, BuildFailTags)
        BY <1>w, <2>1 DEF Work, Progress
      <3> QED BY <3>1, <1>r, <2>1 DEF SomeSaved, Failed, Saved
    <2>4. CASE pc'[w] = "verify"
      <3>1. Failed(w, RunFailTags) = {}
        BY <1>3, <2>4 DEF SaveRunFail, EnterSave
      <3>2. SomeSaved(w, RunFailTags)'
        BY <2>1, <3>1 DEF SomeSaved, Failed
      <3> QED BY <1>k, <1>r, <1>u, <2>1, <2>2, <2>3, <2>4, <3>2 DEF Work, PendingFits, Progress,
                 Fresh, SeedKnown, Pending, Place, Ahead, BeforeBuild, BeforeRun, Unsaved, Saved
    <2>5. CASE EnterSave(w, RunDest(w, Min(Failed(w, RunFailTags))), {}, TRUE, "verify")
               /\ Failed(w, RunFailTags) # {}
      <3> DEFINE t == Min(Failed(w, RunFailTags))
      <3>1. t \in Failed(w, RunFailTags)
        BY <2>5, FirstTarget DEF Failed
      <3>2. test[w].runs[t] \in RunFailTags
        BY <3>1 DEF Failed
      <3>3. /\ pc'[w] = "lock" /\ saving'[w].next = "verify"
            /\ saving'[w].dest[2] = test[w].runs[t] /\ saving'[w].dest[3] = test[w].seed
        BY <2>5 DEF EnterSave, RunDest
      <3> HIDE DEF t
      <3> QED BY <1>k, <1>r, <1>u, <2>1, <2>2, <2>3, <3>2, <3>3 DEF Work, PendingFits, Progress,
                 Fresh, SeedKnown, Pending, Place, Ahead, BeforeBuild, BeforeRun, Unsaved, Saved
    <2>6. CASE pc'[w] = "crashed"
      BY <2>6, WorkIdle
    <2> QED BY <1>3, <2>4, <2>5, <2>6 DEF SaveRunFail
  <1>4. CASE VerifyOk(w) \/ VerifyBad(w)
    <2>1. pc[w] = "verify"
      BY <1>4 DEF VerifyOk, VerifyBad
    <2>2. UseQueue => Unsaved(w, VerdictKinds)
      BY <1>w, <2>1 DEF Work, Fresh, Ahead
    <2>3. test'[w].runs = test[w].runs /\ test'[w].seed = test[w].seed
      <3>1. \/ UNCHANGED test
            \/ \E st : test' = [test EXCEPT ![w] = [test[w] EXCEPT !.status = st]]
        BY <1>4 DEF VerifyOk, VerifyBad
      <3> QED BY <3>1 DEF Tests
    <2>4. setup.disk = "writable" => SomeSaved(w, BuildFailTags)' /\ SomeSaved(w, RunFailTags)'
      <3>1. setup.disk = "writable" => SomeSaved(w, BuildFailTags) /\ SomeSaved(w, RunFailTags)
        BY <1>w, <2>1 DEF Work, Progress, Place
      <3> QED BY <3>1, <1>r, <2>3 DEF SomeSaved, Failed, Saved
    <2>5. CASE VerifyOk(w)
      <3>1. pc'[w] = "finish" /\ Agreed(test'[w].runs)
        BY <2>3, <2>5 DEF VerifyOk
      <3> QED BY <1>k, <1>r, <1>u, <2>3, <2>4, <3>1 DEF Work, PendingFits, Progress, Fresh,
                 SeedKnown, Pending, Place, Ahead, BeforeBuild, BeforeRun
    <2>6. CASE VerifyBad(w)
      <3> DEFINE st == TestVerdict(test[w].runs).status
      <3>1. st \in VerdictKinds
        BY VerdictStatus DEF VerdictKinds, GenFailStatus
      <3>2. test' = [test EXCEPT ![w] = [test[w] EXCEPT !.status = st]]
        BY <2>6 DEF VerifyBad
      <3>3. test'[w].status = st
        <4> HIDE DEF st
        <4> QED BY <3>2 DEF Tests
      <3>4. \/ pc'[w] = "crashed"
            \/ /\ pc'[w] = "lock" /\ saving'[w].next = "finish"
               /\ saving'[w].dest[2] = st /\ saving'[w].dest[3] = test[w].seed
        BY <2>6 DEF VerifyBad, EnterSave
      <3> HIDE DEF st
      <3>5. CASE pc'[w] = "crashed"
        BY <3>5, WorkIdle
      <3>6. CASE pc'[w] = "lock"
        BY <1>k, <1>r, <1>u, <2>2, <2>3, <2>4, <3>1, <3>3, <3>4, <3>6 DEF Work, PendingFits,
           Progress, Fresh, SeedKnown, Pending, Place, Ahead, BeforeBuild, BeforeRun, Unsaved, Saved
      <3> QED BY <3>4, <3>5, <3>6
    <2> QED BY <1>4, <2>5, <2>6
  <1>5. CASE Finish(w)
    BY <1>5, WorkIdle DEF Finish, Unserved
  <1> QED BY <1>1, <1>2, <1>3, <1>4, <1>5 DEF Handling

\* A worker that enters save_test, or leaves it without a report.
LEMMA WorkSaving ==
    ASSUME TypeOK, ReportInv, NEW w \in Jobs, AcquireLock(w) \/ CopyFails(w) \/ CopyExits(w)
    PROVE  Work(w)'
  <1>w. Work(w)
    BY DEF ReportInv
  <1> USE DEF TypeOK, Goto
  <1>1. CASE AcquireLock(w)
    <2>1. /\ UNCHANGED <<setup, reports, test, saving>> /\ pc[w] = "lock" /\ pc'[w] = "copy"
      BY <1>1 DEF AcquireLock
    <2> QED BY <1>w, <2>1 DEF Work, PendingFits, Progress, Fresh, SeedKnown, Pending, Place, Ahead,
               BeforeBuild, BeforeRun, Unsaved, SomeSaved, Saved, Failed, UseQueue
  <1>2. CASE CopyFails(w)
    <2>1. /\ pc[w] = "copy" /\ setup'.disk = "full" /\ UNCHANGED <<setup, reports>>
          /\ pc'[w] = saving[w].next /\ saving[w].next \in {"loop", "saverun", "verify", "finish"}
      BY <1>2 DEF CopyFails, Release
    <2>2. CASE saving[w].next = "loop"
      BY <2>1, <2>2, WorkIdle
    <2>3. CASE saving[w].next # "loop"
      <3>1. UNCHANGED test
        BY <1>2, <2>3 DEF CopyFails, Release
      <3> QED BY <1>w, <2>1, <2>3, <3>1 DEF Work, PendingFits, Progress, Fresh, SeedKnown, Pending,
                 Place, Ahead, BeforeBuild, BeforeRun, Unsaved, Saved, UseQueue
    <2> QED BY <2>2, <2>3
  <1>3. CASE CopyExits(w)
    BY <1>3, WorkIdle DEF CopyExits, Release
  <1> QED BY <1>1, <1>2, <1>3

-----------------------------------------------------------------------------
(* A report is written. *)

\* A report takes the place of another of its own seed and kind only, so that
\* what was saved stays saved, and only what the worker held is added.
LEMMA SavedByCopy ==
    ASSUME ReportShape, NEW w \in Jobs, PendingFits(w), CopyReport(w),
           NEW s, NEW kind, kind \notin GenFailStatus
    PROVE  Saved(s, kind)' <=> \/ Saved(s, kind)
                               \/ s = test[w].seed /\ kind = saving[w].dest[2]
  <1> DEFINE d == saving[w].dest
             new == [dest |-> d, seed |-> test[w].seed, bad |-> saving[w].bad,
                     program |-> saving[w].program]
  <1>1. reports' = {r \in reports : r.dest # d} \cup {new}
    BY DEF CopyReport
  <1>2. new.dest = d /\ new.seed = test[w].seed
    OBVIOUS
  <1>3. d[2] \notin GenFailStatus => d[3] = test[w].seed
    BY DEF CopyReport, PendingFits, Pending
  <1>4. ASSUME NEW r \in reports, r.seed = s, r.dest[2] = kind
        PROVE  Saved(s, kind)'
    <2>1. CASE r.dest # d
      BY <1>1, <1>4, <2>1 DEF Saved
    <2>2. CASE r.dest = d
      <3>1. r.seed = test[w].seed
        BY <1>3, <1>4, <2>2 DEF ReportShape
      <3> QED BY <1>1, <1>2, <1>4, <2>2, <3>1 DEF Saved
    <2> QED BY <2>1, <2>2
  <1>5. s = test[w].seed /\ kind = d[2] => Saved(s, kind)'
    BY <1>1, <1>2 DEF Saved
  <1>6. Saved(s, kind)' => Saved(s, kind) \/ (s = test[w].seed /\ kind = d[2])
    <2> HIDE DEF new
    <2> QED BY <1>1, <1>2 DEF Saved
  <1> QED BY <1>4, <1>5, <1>6 DEF Saved

\* The seed of a test that is no generator failure is in the worker's hands.
LEMMA HeldByPlace ==
    ASSUME NEW w \in Jobs, FitsPlace(w), SeedKnown(w), UseQueue,
           Place(w) \in {"generate", "targets", "savebuild", "saverun", "verify", "finish"}
    PROVE  test[w].seed \in SeedIds /\ Holds(w, test[w].seed)
  <1>1. pc[w] \notin {"off", "loop", "exited", "crashed"}
    BY DEF Place
  <1>2. test[w].status \notin GenFailStatus
    BY DEF FitsPlace, GenFailStatus
  <1> QED BY <1>1, <1>2 DEF SeedKnown, Holds

\* What the worker itself goes on with.
LEMMA WorkCopying ==
    ASSUME TypeOK, ReportInv, NEW w \in Jobs, CopyReport(w)
    PROVE  Work(w)'
  <1>w. Work(w) /\ ReportShape
    BY DEF ReportInv
  <1>1. /\ pc[w] = "copy" /\ UNCHANGED setup
        /\ pc'[w] = saving[w].next /\ saving[w].next \in {"loop", "saverun", "verify", "finish"}
    BY DEF CopyReport, Release, Goto, TypeOK
  <1>2. CASE saving[w].next = "loop"
    BY <1>1, <1>2, WorkIdle
  <1>3. CASE saving[w].next # "loop"
    <2>1. UNCHANGED test
      BY <1>3 DEF CopyReport, Release
    <2>2. ASSUME NEW s, NEW kind \in BuildFailTags \cup RunFailTags \cup VerdictKinds
          PROVE  Saved(s, kind)' <=> \/ Saved(s, kind)
                                     \/ s = test[w].seed /\ kind = saving[w].dest[2]
      BY <1>w, Kinds, SavedByCopy DEF Work
    <2>3. CASE saving[w].next = "saverun"
      <3>1. saving[w].dest[2] \in BuildFailTags
        BY <1>w, <1>1, <2>3 DEF Work, PendingFits, Pending
      <3>2. SomeSaved(w, BuildFailTags)'
        BY <2>1, <2>2, <3>1 DEF SomeSaved
      <3>3. UseQueue => Unsaved(w, RunFailTags \cup VerdictKinds)'
        <4>1. UseQueue => Unsaved(w, RunFailTags \cup VerdictKinds)
          BY <1>w, <1>1, <2>3 DEF Work, Fresh, Ahead, Pending
        <4> QED BY <2>1, <2>2, <3>1, <4>1, Kinds DEF Unsaved
      <3> QED BY <1>w, <1>1, <2>1, <2>3, <3>2, <3>3 DEF Work, PendingFits, Progress, Fresh,
                 SeedKnown, Pending, Place, Ahead, BeforeBuild, BeforeRun, UseQueue
    <2>4. CASE saving[w].next = "verify"
      <3>1. saving[w].dest[2] \in RunFailTags
        BY <1>w, <1>1, <2>4 DEF Work, PendingFits, Pending
      <3>2. SomeSaved(w, RunFailTags)'
        BY <2>1, <2>2, <3>1 DEF SomeSaved
      <3>3. setup.disk = "writable" => SomeSaved(w, BuildFailTags)'
        <4>1. setup.disk = "writable" => SomeSaved(w, BuildFailTags)
          BY <1>w, <1>1, <2>4 DEF Work, Progress, Place
        <4> QED BY <2>1, <2>2, <4>1 DEF SomeSaved, Failed
      <3>4. UseQueue => Unsaved(w, VerdictKinds)'
        <4>1. UseQueue => Unsaved(w, VerdictKinds)
          BY <1>w, <1>1, <2>4 DEF Work, Fresh, Ahead, Pending
        <4> QED BY <2>1, <2>2, <3>1, <4>1, Kinds DEF Unsaved
      <3> QED BY <1>w, <1>1, <2>1, <2>4, <3>2, <3>3, <3>4 DEF Work, PendingFits, Progress, Fresh,
                 SeedKnown, Pending, Place, Ahead, BeforeBuild, BeforeRun, UseQueue
    <2>5. CASE saving[w].next = "finish"
      <3>1. saving[w].dest[2] = test[w].status /\ saving[w].dest[2] \in VerdictKinds
        BY <1>w, <1>1, <2>5 DEF Work, PendingFits, Pending
      <3>2. Saved(test[w].seed, test[w].status)'
        BY <2>1, <2>2, <3>1
      <3>3. setup.disk = "writable" => SomeSaved(w, BuildFailTags)' /\ SomeSaved(w, RunFailTags)'
        <4>1. setup.disk = "writable" => SomeSaved(w, BuildFailTags) /\ SomeSaved(w, RunFailTags)
          BY <1>w, <1>1, <2>5 DEF Work, Progress, Place
        <4> QED BY <2>1, <2>2, <4>1 DEF SomeSaved, Failed
      <3> QED BY <1>w, <1>1, <2>1, <2>5, <3>2, <3>3 DEF Work, PendingFits, Progress, Fresh,
                 SeedKnown, Pending, Place, Ahead, BeforeBuild, BeforeRun, UseQueue
    <2> QED BY <1>1, <1>3, <2>3, <2>4, <2>5
  <1> QED BY <1>2, <1>3

\* Its report is about a seed that no other worker has, and that does not wait.
LEMMA OthersByCopy ==
    ASSUME TypeOK, StatusFitsPlace, Accounting, ReportInv,
           NEW w \in Jobs, CopyReport(w), NEW v \in Jobs \ {w}
    PROVE  Work(v)'
  <1>w. Work(w) /\ Work(v) /\ ReportShape /\ FitsPlace(w) /\ FitsPlace(v)
    BY DEF ReportInv, StatusFitsPlace
  <1>1. UNCHANGED setup /\ pc[w] = "copy"
    BY DEF CopyReport
  <1>2. pc'[v] = pc[v] /\ test'[v] = test[v] /\ saving'[v] = saving[v]
    BY OthersStay DEF Worker, Saving
  <1>3. ASSUME NEW s, NEW kind \in BuildFailTags \cup RunFailTags \cup VerdictKinds
        PROVE  Saved(s, kind)' <=> \/ Saved(s, kind)
                                   \/ s = test[w].seed /\ kind = saving[w].dest[2]
    BY <1>w, Kinds, SavedByCopy DEF Work
  <1>4. ASSUME UseQueue, Place(v) \in {"generate", "targets", "savebuild", "saverun", "verify", "finish"},
               NEW kind \in BuildFailTags \cup RunFailTags \cup VerdictKinds
        PROVE  Saved(test[v].seed, kind)' <=> Saved(test[v].seed, kind)
    <2>1. CASE saving[w].dest[2] \in GenFailStatus
      BY <1>2, <1>3, <1>4, <2>1, Kinds
    <2>2. CASE saving[w].dest[2] \notin GenFailStatus
      <3>1. Place(w) \in {"saverun", "verify", "finish"}
        BY <1>w, <1>1, <2>2 DEF Work, PendingFits, Pending, Place
      <3>2. test[w].seed \in SeedIds /\ Holds(w, test[w].seed)
        BY <1>w, <1>4, <3>1, HeldByPlace DEF Work
      <3>3. test[v].seed \in SeedIds /\ Holds(v, test[v].seed)
        BY <1>w, <1>4, HeldByPlace DEF Work
      <3>4. test[v].seed # test[w].seed
        BY <3>2, <3>3 DEF Accounting, HeldOnce
      <3> QED BY <1>2, <1>3, <1>4, <3>4
    <2> QED BY <2>1, <2>2
  <1>5. PendingFits(v)' /\ SeedKnown(v)'
    BY <1>w, <1>1, <1>2 DEF Work, PendingFits, SeedKnown, Pending, UseQueue
  <1>6. Progress(v)'
    <2>1. \A tags \in {BuildFailTags, RunFailTags} : SomeSaved(v, tags) => SomeSaved(v, tags)'
      BY <1>2, <1>3 DEF SomeSaved, Failed
    <2>2. test[v].status \in VerdictKinds /\ Saved(test[v].seed, test[v].status) =>
              Saved(test[v].seed, test[v].status)'
      BY <1>2, <1>3
    <2>3. pc[v] = "finish" => test[v].status \in VerdictKinds
      BY <1>w DEF FitsPlace, Place, VerdictKinds, TypeOK, Tests
    <2> QED BY <1>w, <1>1, <1>2, <2>1, <2>2, <2>3 DEF Work, Progress, Place
  <1>7. Fresh(v)'
    <2> SUFFICES ASSUME UseQueue PROVE Fresh(v)'
      BY <1>1 DEF Fresh, UseQueue
    <2>1. ASSUME Place(v) \in {"generate", "targets", "savebuild", "saverun", "verify", "finish"},
                 NEW kinds \in SUBSET (BuildFailTags \cup RunFailTags \cup VerdictKinds),
                 Unsaved(v, kinds)
          PROVE  Unsaved(v, kinds)'
      BY <1>2, <1>4, <2>1 DEF Unsaved
    <2>2. \A place \in {"saverun", "verify", "finish"}, before \in {BeforeBuild, BeforeRun, {"verify"}, {}} :
             /\ Ahead(v, place, before)' <=> Ahead(v, place, before)
             /\ Ahead(v, place, before) => Place(v) \in
                   {"generate", "targets", "savebuild", "saverun", "verify", "finish"}
      BY <1>2 DEF Ahead, Pending, Place, BeforeBuild, BeforeRun
    <2> QED BY <1>w, <2>1, <2>2 DEF Work, Fresh
  <1> QED BY <1>5, <1>6, <1>7 DEF Work

-----------------------------------------------------------------------------
(* Every step. *)

\* Only a report that is copied changes the directory of the reports.
LEMMA NothingCopied ==
    ASSUME [Next]_vars, \A w \in Jobs : ~CopyReport(w)
    PROVE  UNCHANGED <<setup, reports>>
  <1>1. ASSUME NEW w \in Jobs, Generating(w) \/ Handling(w)
        PROVE  UNCHANGED <<setup, reports>>
    BY <1>1 DEF Generating, GetSeed, QueueDone, NewSeed, DeadlineReached, Generate, SaveGenFail,
       Handling, RunTargets, SaveBuildFail, SaveRunFail, VerifyOk, VerifyBad, Finish
  <1>2. ASSUME NEW w \in Jobs, Saving(w)
        PROVE  UNCHANGED <<setup, reports>>
    BY <1>2 DEF Saving, AcquireLock, CopyFails, CopyExits
  <1>3. CASE MainProcess \/ Tick \/ Ended \/ UNCHANGED vars
    BY <1>3 DEF MainProcess, ReadSeeds, CheckCompilers, StartWorkers, MainAcquire, MainPrint,
                CleanTmp, MainCheckAlive, MainCleanup, JoinChildren, JoinFeeder, Tick, Ended, vars
  <1> QED BY <1>1, <1>2, <1>3 DEF Next, Worker

\* Once the seeds are read, the queue only shrinks.
LEMMA QueueShrinks ==
    ASSUME TypeOK, [Next]_vars, ~ReadSeeds
    PROVE  \A s \in SeedIds : queue'[s] > 0 => queue[s] > 0
  <1>1. ASSUME NEW w \in Jobs, GetSeed(w)
        PROVE  \A s \in SeedIds : queue'[s] > 0 => queue[s] > 0
    BY <1>1 DEF GetSeed, TypeOK
  <1>2. ASSUME NEW w \in Jobs, Worker(w), ~GetSeed(w)
        PROVE  UNCHANGED queue
    BY <1>2 DEF Worker, Generating, QueueDone, NewSeed, DeadlineReached, Generate, SaveGenFail,
       Handling, RunTargets, SaveBuildFail, SaveRunFail, VerifyOk, VerifyBad, Finish, Saving,
       AcquireLock, CopyReport, CopyFails, CopyExits
  <1>3. CASE MainProcess \/ Tick \/ Ended \/ UNCHANGED vars
    BY <1>3 DEF MainProcess, CheckCompilers, StartWorkers, MainAcquire, MainPrint,
                CleanTmp, MainCheckAlive, MainCleanup, JoinChildren, JoinFeeder, Tick, Ended, vars
  <1> QED BY <1>1, <1>2, <1>3 DEF Next

\* The directory after a step that writes a report.
LEMMA ShapeByCopy ==
    ASSUME TypeOK, StatusFitsPlace, NotStarted, Accounting, ReportInv, NEW w \in Jobs, CopyReport(w)
    PROVE  ReportShape' /\ QueueFresh' /\ NoneYet'
  <1>w. Work(w) /\ ReportShape /\ FitsPlace(w)
    BY DEF ReportInv, StatusFitsPlace
  <1>1. /\ pc[w] = "copy" /\ UNCHANGED <<setup, queue, mainPc>>
        /\ \A r \in reports' : \/ r \in reports
                               \/ r.dest = saving[w].dest /\ r.seed = test[w].seed
    BY DEF CopyReport
  <1>2. saving[w].dest[2] \notin GenFailStatus =>
            /\ saving[w].dest[3] = test[w].seed
            /\ Place(w) \in {"saverun", "verify", "finish"}
    BY <1>w, <1>1 DEF Work, PendingFits, Pending, Place
  <1>3. ReportShape'
    BY <1>w, <1>1, <1>2 DEF ReportShape
  <1>4. QueueFresh'
    <2> SUFFICES ASSUME UseQueue, NEW s \in SeedIds, queue[s] > 0, NEW r \in reports',
                        r.seed = s, r.dest[2] \notin GenFailStatus
                 PROVE  FALSE
      BY <1>1 DEF QueueFresh, UseQueue
    <2>1. r \notin reports
      BY DEF ReportInv, QueueFresh
    <2>2. r.dest = saving[w].dest /\ r.seed = test[w].seed
      BY <1>1, <2>1
    <2>3. Holds(w, s)
      BY <1>w, <1>2, <2>2, HeldByPlace DEF Work
    <2> QED BY <2>3 DEF Accounting, Free
  <1>5. mainPc # "seeds"
    BY <1>1 DEF NotStarted
  <1> QED BY <1>1, <1>3, <1>4, <1>5 DEF NoneYet

LEMMA ReportStep ==
    ASSUME TypeOK, NotStarted, StatusFitsPlace, Accounting, ReportInv, [Next]_vars
    PROVE  ReportInv'
  <1>1. ASSUME NEW w \in Jobs, CopyReport(w)
        PROVE  ReportInv'
    <2>1. ReportShape' /\ QueueFresh' /\ NoneYet'
      BY <1>1, ShapeByCopy
    <2>2. Work(w)'
      BY <1>1, WorkCopying
    <2>3. ASSUME NEW v \in Jobs \ {w} PROVE Work(v)'
      BY <1>1, OthersByCopy
    <2> QED BY <2>1, <2>2, <2>3 DEF ReportInv
  <1>2. CASE \A w \in Jobs : ~CopyReport(w)
    <2>r. UNCHANGED <<setup, reports>>
      BY <1>2, NothingCopied
    <2>1. ReportShape'
      BY <2>r DEF ReportInv, ReportShape
    <2>2. NoneYet'
      <3>1. mainPc' = "seeds" => mainPc = "seeds"
        <4>1. CASE \E w \in Jobs : Worker(w)
          BY <4>1, StartedOnly
        <4>2. CASE MainProcess \/ Tick \/ Ended \/ UNCHANGED vars
          BY <4>2 DEF MainProcess, ReadSeeds, CheckCompilers, StartWorkers, MainAcquire, MainPrint,
             CleanTmp, MainCheckAlive, MainCleanup, JoinChildren, JoinFeeder, MainStep, Tick, Ended, vars
        <4> QED BY <4>1, <4>2 DEF Next
      <3> QED BY <2>r, <3>1 DEF ReportInv, NoneYet
    <2>3. QueueFresh'
      <3>1. CASE ReadSeeds
        <4>1. reports' = {}
          BY <2>r, <3>1 DEF ReadSeeds, MainStep, ReportInv, NoneYet
        <4> QED BY <4>1 DEF QueueFresh
      <3>2. CASE ~ReadSeeds
        BY <2>r, <3>2, QueueShrinks DEF ReportInv, QueueFresh, UseQueue
      <3> QED BY <3>1, <3>2
    <2>4. \A v \in Jobs : Work(v)'
      <3>1. ASSUME NEW w \in Jobs, Worker(w)
            PROVE  \A v \in Jobs : Work(v)'
        <4>1. Work(w)'
          <5>1. FitsPlace(w)
            BY DEF StatusFitsPlace
          <5> QED BY <1>2, <3>1, <5>1, WorkGenerating, WorkHandling, WorkSaving DEF Worker, Saving
        <4>2. ASSUME NEW v \in Jobs \ {w} PROVE Work(v)'
          BY <2>r, <3>1, OthersStay, WorkStays DEF ReportInv
        <4> QED BY <4>1, <4>2
      <3>2. CASE StartWorkers
        <4>1. \A v \in Jobs : pc'[v] \in {"off", "loop"}
          BY <3>2 DEF StartWorkers
        <4> QED BY <4>1, WorkIdle
      <3>3. CASE (MainProcess /\ ~StartWorkers) \/ Tick \/ Ended \/ UNCHANGED vars
        <4>1. UNCHANGED <<pc, test, saving>>
          BY <3>3 DEF MainProcess, ReadSeeds, CheckCompilers, MainAcquire, MainPrint,
             CleanTmp, MainCheckAlive, MainCleanup, JoinChildren, JoinFeeder, Tick, Ended, vars
        <4> QED BY <2>r, <4>1, WorkStays DEF ReportInv
      <3> QED BY <3>1, <3>2, <3>3 DEF Next
    <2> QED BY <2>1, <2>2, <2>3, <2>4 DEF ReportInv
  <1> QED BY <1>1, <1>2

\* For every worker: what it is about to save, what it has saved and what it has
\* not are those of its place in the test.
THEOREM ReportsAccounted == Spec => []ReportInv
  <1>1. Init => ReportInv
    <2>1. ASSUME Init, NEW w \in Jobs PROVE Work(w)
      BY <2>1 DEF Init, Work, PendingFits, Progress, Fresh, SeedKnown, Pending, Place, Ahead,
                  BeforeBuild, BeforeRun
    <2> QED BY <2>1 DEF Init, ReportInv, ReportShape, QueueFresh, NoneYet
  <1>2. TypeOK /\ NotStarted /\ StatusFitsPlace /\ Accounting /\ ReportInv /\ [Next]_vars => ReportInv'
    BY ReportStep
  <1> QED BY <1>1, <1>2, TypeCorrect, StatusFits, SeedsAccounted, PTL DEF Spec

\* Whatever the number of workers and targets and whatever their outcomes: when a
\* test is about to be registered, each kind of failure it showed has a report of
\* its seed, unless the disk could not be written; no other worker's report, and
\* no later one of its own, has overwritten it.
THEOREM FailuresSaved == Spec => []EveryFailureSaved
  <1>1. ReportInv => EveryFailureSaved
    <2> SUFFICES ASSUME ReportInv, NEW w \in Jobs, pc[w] = "finish", setup.disk = "writable",
                        NEW kinds, kinds = {r.dest[2] : r \in {x \in reports : x.seed = test[w].seed}}
                 PROVE  /\ Failed(w, BuildFailTags) # {} => kinds \cap BuildFailTags # {}
                        /\ Failed(w, RunFailTags) # {}   => kinds \cap RunFailTags # {}
                        /\ ~Agreed(test[w].runs)         => test[w].status \in kinds
      BY DEF EveryFailureSaved
    <2>1. \A k : Saved(test[w].seed, k) => k \in kinds
      BY DEF Saved
    <2>2. /\ SomeSaved(w, BuildFailTags) /\ SomeSaved(w, RunFailTags)
          /\ ~Agreed(test[w].runs) => Saved(test[w].seed, test[w].status)
      BY DEF ReportInv, Work, Progress, Place
    <2> QED BY <2>1, <2>2 DEF SomeSaved
  <1> QED BY <1>1, ReportsAccounted, PTL

\* However often a seed is listed, and however many workers there are, the report
\* of a program is never overwritten.
THEOREM NoReportLost == Spec => ReportsKept
  <1>1. TypeOK /\ StatusFitsPlace /\ ReportInv /\ [Next]_vars =>
            [UseQueue => \A r \in reports \ reports' : r.dest[2] \in GenFailStatus]_vars
    <2> SUFFICES ASSUME ReportInv, [Next]_vars, UseQueue, NEW r \in reports \ reports',
                        r.dest[2] \notin GenFailStatus
                 PROVE  FALSE
      OBVIOUS
    <2>1. PICK w \in Jobs : CopyReport(w)
      BY NothingCopied
    <2>2. pc[w] = "copy" /\ r.dest = saving[w].dest
      BY <2>1 DEF CopyReport
    <2>3. Work(w) /\ ReportShape
      BY DEF ReportInv
    <2>4. r.seed = test[w].seed
      BY <2>2, <2>3 DEF Work, PendingFits, Pending, ReportShape
    <2>5. Saved(test[w].seed, r.dest[2])
      BY <2>4 DEF Saved
    <2>6. CASE saving[w].next = "saverun"
      <3>1. Unsaved(w, BuildFailTags) /\ r.dest[2] \in BuildFailTags
        BY <2>2, <2>3, <2>6 DEF Work, PendingFits, Fresh, Ahead, Pending
      <3> QED BY <2>5, <3>1 DEF Unsaved
    <2>7. CASE saving[w].next = "verify"
      <3>1. Unsaved(w, RunFailTags) /\ r.dest[2] \in RunFailTags
        BY <2>2, <2>3, <2>7 DEF Work, PendingFits, Fresh, Ahead, Pending
      <3> QED BY <2>5, <3>1 DEF Unsaved
    <2>8. CASE saving[w].next = "finish"
      <3>1. Unsaved(w, VerdictKinds) /\ r.dest[2] \in VerdictKinds
        BY <2>2, <2>3, <2>8 DEF Work, PendingFits, Fresh, Ahead, Pending
      <3> QED BY <2>5, <3>1 DEF Unsaved
    <2> QED BY <2>2, <2>3, <2>6, <2>7, <2>8 DEF Work, PendingFits, Pending
  <1> QED BY <1>1, TypeCorrect, StatusFits, ReportsAccounted, PTL DEF Spec, ReportsKept

=============================================================================
