------------------------------ MODULE SeedFarm ------------------------------
(***************************************************************************)
(* The test driver scripts/run_gen.py: csmith generates one program per    *)
(* seed of a file (or any number of programs until a deadline, when the    *)
(* file is empty), and each is built and run with every compiler target.   *)
(*                                                                         *)
(* Beside the workers the module follows the processes around them: the    *)
(* main process from reading the seeds to its exit, the manager process    *)
(* that owns the Statistics object and ends with the main process, and the *)
(* queue, whose feeder thread keeps the main process from ending while it  *)
(* holds seeds that do not fit into the pipe.  What a worker does alone    *)
(* (building and running all targets) is one step.                         *)
(***************************************************************************)
EXTENDS Verdict, Integers, Functions

CONSTANTS
    NumJobs,        \* -j: how many workers at most
    Main,           \* the main process
    Nobody,         \* holder of the lock when it is free
    NoSeed,         \* seed of a worker that holds no test
    SeedIds,        \* the seeds that the lines of the file may name
    Setups,         \* the command lines and environments to consider
    UbsanSpecs,     \* compiler specifications whose name starts with "ubsan"
    Timeout,        \* --timeout, in ticks of the clock; -1 is forever
    PipeSize,       \* how many seeds the pipe of the queue takes
    MaxClock,       \* bound: ticks of the clock
    MaxTests        \* bound: programs generated when there is no queue

BuildFailTags == {"compfail", "compfail_timeout"}
RunFailTags   == {"runfail", "runfail_timeout"}
RunTags       == {"ok", "out_dif"} \cup BuildFailTags \cup RunFailTags
GenTags       == {"ok", "runfail"}
GenFailStatus == {"gen_fail", "gen_fail_timeout"}
Outcomes      == BuildFailTags \cup RunFailTags \cup {"garbled"} \cup Checksums

\* A command line and what it meets: the lines of the seeds file ("#" is one
\* that is no seed), the language, --creduce, --ignore-comp-time-exp, whether
\* tmp_cleaner.sh is used and there, whether the compilers are, whether reports
\* can be written, and (a bound) the outcomes a target may have.
SetupsOver(lines) ==
    [lines : lines, std : {"c", "c++"}, creduce : BOOLEAN, logOnly : BOOLEAN,
     cleaner : {"off", "works", "missing"}, compilers : {"found", "missing"},
     disk : {"writable", "full"}, outcomes : SUBSET Outcomes]

Jobs == 0 .. NumJobs - 1

ASSUME FarmAssumption ==
    /\ NumJobs \in Nat \ {0} /\ PipeSize \in Nat
    /\ Main \notin Jobs /\ Nobody \notin Jobs /\ Main # Nobody
    /\ IsFiniteSet(SeedIds) /\ NoSeed \notin SeedIds /\ "#" \notin SeedIds
    /\ SeedIds \cap (Jobs \X Nat) = {}
    /\ Setups \subseteq SetupsOver({s.lines : s \in Setups})
    /\ \A s \in Setups : Range(s.lines) \subseteq SeedIds \cup {"#"}
    /\ Timeout \in Nat \cup {-1} /\ MaxClock \in Nat /\ MaxTests \in Nat

ASSUME OutcomesAssumption ==
    Checksums \cap (BuildFailTags \cup RunFailTags \cup {"garbled", "not_built"}) = {}

VARIABLES
    setup,          \* the command line and its environment, fixed
    pc,             \* worker -> where it is in gen_and_test
    test,           \* worker -> its Test object
    saving,         \* worker -> arguments of its call of save_test
    queue,          \* task_queue: seed -> how many times it is in
    lock,           \* who holds the shared lock
    reports,        \* the test directories under result/
    stat,           \* the Statistics object
    manager,        \* the process that serves it: "up" or "down"
    clock,
    mainPc          \* where the main process is

vars == <<setup, pc, test, saving, queue, lock, reports, stat, manager, clock, mainPc>>

NoTest == [seed |-> NoSeed, status |-> "new",
           runs |-> [t \in Targets |-> "not_built"]]

NoSave == [dest |-> <<{}, "none", NoSeed>>, bad |-> {}, program |-> FALSE,
           next |-> "loop"]

NoStat == [gen  |-> [tag \in GenTags |-> 0], runs |-> [tag \in RunTags |-> 0],
           pass |-> [s \in SeedIds |-> 0],   fail |-> [s \in SeedIds |-> 0]]

Init ==
    /\ setup \in Setups
    /\ pc = [w \in Jobs |-> "off"]
    /\ test = [w \in Jobs |-> NoTest]
    /\ saving = [w \in Jobs |-> NoSave]
    /\ queue = [s \in SeedIds |-> 0]
    /\ lock = Nobody
    /\ reports = {}
    /\ stat = NoStat
    /\ manager = "down"
    /\ clock = 0
    /\ mainPc = "seeds"

Goto(w, label) == pc' = [pc EXCEPT ![w] = label]
Crash(w)       == Goto(w, "crashed")
Gone(w)        == pc[w] \in {"off", "exited", "crashed"}
Total(count)   == MapThenSumSet(LAMBDA x : count[x], DOMAIN count)

-----------------------------------------------------------------------------
(* prepare_env_and_start_testing *)

UseQueue == setup.lines # <<>>

\* Seeded fault: the list is used as it was read, without set().
UniqueSeeds_Fault(lines) ==
    [s \in SeedIds |-> Cardinality({i \in DOMAIN lines : lines[i] = s})]

UniqueSeeds(lines) == [s \in SeedIds |-> IF s \in Range(lines) THEN 1 ELSE 0]

MainStep(from, to) == mainPc = from /\ mainPc' = to

\* Comment lines and empty lines get the prefix S_ as well and are refused:
\* print_and_exit.
ReadSeeds ==
    /\ IF "#" \in Range(setup.lines)
       THEN MainStep("seeds", "leave") /\ UNCHANGED queue
       ELSE MainStep("seeds", "compilers") /\ queue' = UniqueSeeds(setup.lines)
    /\ UNCHANGED <<setup, pc, test, saving, lock, reports, stat, manager, clock>>

\* print_compilers_version exits when the queue has been filled already.
CheckCompilers ==
    /\ MainStep("compilers", IF setup.compilers = "found" THEN "start" ELSE "leave")
    /\ UNCHANGED <<setup, pc, test, saving, queue, lock, reports, stat, manager, clock>>

StartedJobs == IF UseQueue THEN Min({NumJobs, Total(queue)}) ELSE NumJobs

StartWorkers ==
    /\ MainStep("start", "acquire")
    /\ pc' = [w \in Jobs |-> IF w < StartedJobs THEN "loop" ELSE "off"]
    /\ manager' = "up"
    /\ UNCHANGED <<setup, test, saving, queue, lock, reports, stat, clock>>

MainAcquire ==
    /\ MainStep("acquire", "print")
    /\ lock = Nobody /\ lock' = Main
    /\ UNCHANGED <<setup, pc, test, saving, queue, reports, stat, manager, clock>>

MainPrint ==
    /\ MainStep("print", "clean")
    /\ lock' = Nobody
    /\ UNCHANGED <<setup, pc, test, saving, queue, reports, stat, manager, clock>>

\* Popen raises when there is no tmp_cleaner.sh: the main process ends, and the
\* manager with it, while the workers are running.
CleanTmp ==
    /\ MainStep("clean", IF setup.cleaner = "missing" THEN "leave" ELSE "sleep")
    /\ manager' = IF setup.cleaner = "missing" THEN "down" ELSE manager
    /\ UNCHANGED <<setup, pc, test, saving, queue, lock, reports, stat, clock>>

\* Seeded fault: a process that died is taken for a running one.
AnyAlive_Fault == \E w \in Jobs : pc[w] \notin {"off", "exited"}

AnyAlive == \E w \in Jobs : ~Gone(w)

MainCheckAlive ==
    /\ MainStep("sleep", IF AnyAlive THEN "acquire" ELSE "cleanup")
    /\ UNCHANGED <<setup, pc, test, saving, queue, lock, reports, stat, manager, clock>>

\* rmtree of the process directories, the final statistics, and the return.
MainCleanup ==
    /\ MainStep("cleanup", "leave")
    /\ manager' = "down"
    /\ UNCHANGED <<setup, pc, test, saving, queue, lock, reports, stat, clock>>

\* At its exit a process joins its children, then the feeder of its queue,
\* which must first write the seeds nobody took into the pipe.
JoinChildren ==
    /\ MainStep("leave", "join") /\ \A w \in Jobs : Gone(w)
    /\ UNCHANGED <<setup, pc, test, saving, queue, lock, reports, stat, manager, clock>>

JoinFeeder ==
    /\ MainStep("join", "done") /\ Total(queue) <= PipeSize
    /\ UNCHANGED <<setup, pc, test, saving, queue, lock, reports, stat, manager, clock>>

-----------------------------------------------------------------------------
(* gen_and_test: the next seed, and the program csmith makes of it. *)

StartTest(w, s) ==
    /\ test' = [test EXCEPT ![w] = [NoTest EXCEPT !.seed = s]]
    /\ Goto(w, "generate")

GetSeed(w) ==
    /\ pc[w] = "loop" /\ UseQueue
    /\ \E s \in SeedIds :
         /\ queue[s] > 0
         /\ queue' = [queue EXCEPT ![s] = @ - 1]
         /\ StartTest(w, s)
    /\ UNCHANGED <<setup, saving, lock, reports, stat, manager, clock, mainPc>>

\* queue.Empty three times; that may happen although the queue is not empty.
QueueDone(w) ==
    /\ pc[w] = "loop" /\ UseQueue
    /\ Goto(w, "exited")
    /\ UNCHANGED <<setup, test, saving, queue, lock, reports, stat, manager, clock, mainPc>>

\* Without a queue the seed is the process number and the time.
NewSeed(w) ==
    /\ pc[w] = "loop" /\ ~UseQueue
    /\ Timeout = -1 \/ clock < Timeout
    /\ Total(stat.gen) < MaxTests
    /\ StartTest(w, <<w, clock>>)
    /\ UNCHANGED <<setup, saving, queue, lock, reports, stat, manager, clock, mainPc>>

DeadlineReached(w) ==
    /\ pc[w] = "loop" /\ ~UseQueue /\ Timeout # -1 /\ clock >= Timeout
    /\ Goto(w, "exited")
    /\ UNCHANGED <<setup, test, saving, queue, lock, reports, stat, manager, clock, mainPc>>

\* A call of the Statistics object raises when its server is gone, and nothing
\* catches that.
Unserved(w) == manager = "down" /\ Crash(w)
Served      == manager = "up"

Record(list, s) == IF s \in SeedIds THEN [list EXCEPT ![s] = @ + 1] ELSE list

\* Test.__init__.  A generator that timed out is counted as runfail, too.
Generate(w) ==
    /\ pc[w] = "generate"
    /\ \/ Unserved(w) /\ UNCHANGED <<test, stat>>
       \/ /\ Served
          /\ \E status \in {"ok"} \cup GenFailStatus :
               /\ test' = [test EXCEPT ![w].status = status]
               /\ IF status = "ok"
                  THEN stat' = [stat EXCEPT !.gen["ok"] = @ + 1] /\ Goto(w, "targets")
                  ELSE /\ stat' = [stat EXCEPT !.gen["runfail"] = @ + 1,
                                               !.fail = Record(@, test[w].seed)]
                       /\ Goto(w, "genfail")
    /\ UNCHANGED <<setup, saving, queue, lock, reports, manager, clock, mainPc>>

EnterSave(w, dest, bad, program, next) ==
    /\ saving' = [saving EXCEPT ![w] =
           [dest |-> dest, bad |-> bad, program |-> program, next |-> next]]
    /\ Goto(w, "lock")

\* Test.save: the log, in a directory named after the current second.
SaveGenFail(w) ==
    /\ pc[w] = "genfail"
    /\ EnterSave(w, <<{}, test[w].status, <<"FAIL", clock>>>>, {}, FALSE, "loop")
    /\ UNCHANGED <<setup, test, queue, lock, reports, stat, manager, clock, mainPc>>

-----------------------------------------------------------------------------
(* TestRun.build and TestRun.run, for all targets. *)

\* csmith writes test.c; the Makefile of any other language has no rule for it.
ProgramExists == setup.std = "c"

Vectors == IF ProgramExists THEN [Targets -> setup.outcomes]
           ELSE {[t \in Targets |-> "compfail"]}

TagOf(outcome) == IF outcome \in Checksums \cup {"garbled"} THEN "ok" ELSE outcome

AddRuns(runs, group) ==
    [tag \in RunTags |-> stat.runs[tag] + Cardinality({t \in group : TagOf(runs[t]) = tag})]

\* Output that is not UTF-8 ends the worker, after the run was counted as ok.
RunTargets(w) ==
    /\ pc[w] = "targets"
    /\ \/ Unserved(w) /\ UNCHANGED <<test, stat>>
       \/ /\ Served
          /\ \E runs \in Vectors :
               LET reached == {t \in Targets : \A u \in Targets : u < t => runs[u] # "garbled"} IN
               /\ test' = [test EXCEPT ![w].runs =
                      [t \in Targets |-> IF t \in reached THEN runs[t] ELSE "not_built"]]
               /\ stat' = [stat EXCEPT !.runs = AddRuns(runs, reached)]
               /\ Goto(w, IF "garbled" \in Range(runs) THEN "crashed" ELSE "savebuild")
    /\ UNCHANGED <<setup, saving, queue, lock, reports, manager, clock, mainPc>>

-----------------------------------------------------------------------------
(* Test.handle_results *)

Failed(w, tags) == {t \in Targets : test[w].runs[t] \in tags}

\* The fastest one is the reference of the reduction; any may be the fastest.
GoodUbsan(w) == {t \in Succeeded(test[w].runs) : SpecOf[t] \in UbsanSpecs}

\* do_creduce_buildfail and do_creduce_runfail return at once without a good
\* ubsan run.  With one, creduce is run on a copy of the test in a directory of
\* its own, and at the end the reduced func.c is to be copied; csmith's programs
\* are called test.c, so check_and_copy calls exit() - if no step before it has
\* raised.
ReduceBuildFail(w) == setup.creduce /\ GoodUbsan(w) # {}
ReduceRunFail(w)   == setup.creduce /\ GoodUbsan(w) # {}

\* do_creduce_miscompare ends the worker, too: in the same way, or by "raise"
\* when no good run is one of ubsan.
ReduceMiscompare(good) == setup.creduce /\ good # {}

\* Seeded fault: the directory is named after the compiler and the failure only.
RunDest_Fault(w, t) == <<{SpecOf[t]}, test[w].runs[t], "test">>

RunDest(w, t) == <<{SpecOf[t]}, test[w].runs[t], test[w].seed>>

\* Only the log is saved when the build timed out, unless told otherwise.
WithProgram(w, t) == test[w].runs[t] # "compfail_timeout" \/ ~setup.logOnly

\* Seeded fault: build timeouts are not among the failures that are saved.
SaveBuildFail_Fault(w) ==
    /\ pc[w] = "savebuild"
    /\ LET fails == Failed(w, {"compfail"}) IN
         IF fails = {} THEN Goto(w, "saverun") /\ UNCHANGED saving
         ELSE IF ReduceBuildFail(w) THEN Crash(w) /\ UNCHANGED saving
         ELSE EnterSave(w, RunDest(w, Min(fails)), {}, WithProgram(w, Min(fails)), "saverun")
    /\ UNCHANGED <<setup, test, queue, lock, reports, stat, manager, clock, mainPc>>

\* save_failed: all build failures in one report, that of the first.
SaveBuildFail(w) ==
    /\ pc[w] = "savebuild"
    /\ LET fails == Failed(w, BuildFailTags) IN
         IF fails = {} THEN Goto(w, "saverun") /\ UNCHANGED saving
         ELSE IF ReduceBuildFail(w) THEN Crash(w) /\ UNCHANGED saving
         ELSE EnterSave(w, RunDest(w, Min(fails)), {}, WithProgram(w, Min(fails)), "saverun")
    /\ UNCHANGED <<setup, test, queue, lock, reports, stat, manager, clock, mainPc>>

\* The same for the run failures, whose output the log decodes.
SaveRunFail(w) ==
    LET fails == Failed(w, RunFailTags) IN
    /\ pc[w] = "saverun"
    /\ \/ fails = {} /\ Goto(w, "verify") /\ UNCHANGED saving
       \/ /\ fails # {} /\ ~ReduceRunFail(w)
          /\ EnterSave(w, RunDest(w, Min(fails)), {}, TRUE, "verify")
       \/ /\ fails # {} /\ (ReduceRunFail(w) \/ "garbled" \in setup.outcomes)
          /\ Crash(w) /\ UNCHANGED saving
    /\ UNCHANGED <<setup, test, queue, lock, reports, stat, manager, clock, mainPc>>

VerifyOk(w) ==
    /\ pc[w] = "verify" /\ Agreed(test[w].runs)
    /\ Goto(w, "finish")
    /\ UNCHANGED <<setup, test, saving, queue, lock, reports, stat, manager, clock, mainPc>>

VerifyBad(w) ==
    LET v == TestVerdict(test[w].runs) IN
    /\ pc[w] = "verify" /\ ~Agreed(test[w].runs)
    /\ test' = [test EXCEPT ![w].status = v.status]
    /\ IF ReduceMiscompare(v.good) \/ (~Served /\ v.bad # {})
       THEN Crash(w) /\ UNCHANGED <<saving, stat>>
       ELSE /\ stat' = [stat EXCEPT !.runs["out_dif"] = @ + Cardinality(v.bad)]
            /\ EnterSave(w, <<Compilers(v.bad), v.status, test[w].seed>>, v.bad, TRUE, "finish")
    /\ UNCHANGED <<setup, queue, lock, reports, manager, clock, mainPc>>

Passed(w) == test[w].status = "ok" /\ Failed(w, BuildFailTags \cup RunFailTags) = {}

Finish(w) ==
    /\ pc[w] = "finish"
    /\ \/ Unserved(w) /\ UNCHANGED <<test, stat>>
       \/ /\ Served
          /\ stat' = IF Passed(w) THEN [stat EXCEPT !.pass = Record(@, test[w].seed)]
                                  ELSE [stat EXCEPT !.fail = Record(@, test[w].seed)]
          /\ test' = [test EXCEPT ![w] = NoTest]
          /\ Goto(w, "loop")
    /\ UNCHANGED <<setup, saving, queue, lock, reports, manager, clock, mainPc>>

-----------------------------------------------------------------------------
(* save_test *)

AcquireLock(w) ==
    /\ pc[w] = "lock" /\ lock = Nobody
    /\ lock' = w
    /\ Goto(w, "copy")
    /\ UNCHANGED <<setup, test, saving, queue, reports, stat, manager, clock, mainPc>>

\* The "finally" clause, and the way on: back to the caller, or out.
Release(w, label) ==
    /\ lock' = Nobody
    /\ Goto(w, label)
    /\ saving' = [saving EXCEPT ![w] = NoSave]
    /\ test' = IF label = "loop" THEN [test EXCEPT ![w] = NoTest] ELSE test

CopyReport(w) ==
    /\ pc[w] = "copy" /\ setup.disk = "writable"
    /\ ProgramExists \/ ~saving[w].program
    /\ LET s == saving[w] IN
         reports' = {r \in reports : r.dest # s.dest}
                    \cup {[dest |-> s.dest, seed |-> test[w].seed, bad |-> s.bad,
                           program |-> s.program]}
    /\ Release(w, saving[w].next)
    /\ UNCHANGED <<setup, queue, stat, manager, clock, mainPc>>

\* "except Exception": the failure is logged and forgotten.
CopyFails(w) ==
    /\ pc[w] = "copy" /\ setup.disk = "full"
    /\ Release(w, saving[w].next)
    /\ UNCHANGED <<setup, queue, reports, stat, manager, clock, mainPc>>

\* Seeded fault: the lock is given back by the "except" clause, not by "finally".
CopyExits_Fault(w) ==
    /\ pc[w] = "copy" /\ setup.disk = "writable"
    /\ ~ProgramExists /\ saving[w].program
    /\ Crash(w)
    /\ UNCHANGED <<setup, test, saving, queue, lock, reports, stat, manager, clock, mainPc>>

\* A file to be saved is not there: check_and_copy calls exit(), which is not an
\* Exception, and ends the worker inside the critical section.
CopyExits(w) ==
    /\ pc[w] = "copy" /\ setup.disk = "writable"
    /\ ~ProgramExists /\ saving[w].program
    /\ Release(w, "crashed")
    /\ UNCHANGED <<setup, queue, reports, stat, manager, clock, mainPc>>

-----------------------------------------------------------------------------
Tick ==
    /\ clock < MaxClock
    /\ clock' = clock + 1
    /\ UNCHANGED <<setup, pc, test, saving, queue, lock, reports, stat, manager, mainPc>>

\* The main process waits for its feeder and nobody reads the pipe.
Blocked == mainPc = "join" /\ Total(queue) > PipeSize

Ended == (mainPc = "done" \/ Blocked) /\ UNCHANGED vars

Generating(w) ==
    \/ GetSeed(w) \/ QueueDone(w) \/ NewSeed(w) \/ DeadlineReached(w)
    \/ Generate(w) \/ SaveGenFail(w)

Handling(w) ==
    \/ RunTargets(w) \/ SaveBuildFail(w) \/ SaveRunFail(w)
    \/ VerifyOk(w) \/ VerifyBad(w) \/ Finish(w)

Saving(w) == AcquireLock(w) \/ CopyReport(w) \/ CopyFails(w) \/ CopyExits(w)

Worker(w) == Generating(w) \/ Handling(w) \/ Saving(w)

MainProcess ==
    \/ ReadSeeds \/ CheckCompilers \/ StartWorkers
    \/ MainAcquire \/ MainPrint \/ CleanTmp \/ MainCheckAlive
    \/ MainCleanup \/ JoinChildren \/ JoinFeeder

Next == (\E w \in Jobs : Worker(w)) \/ MainProcess \/ Tick \/ Ended

Spec == Init /\ [][Next]_vars

\* As in TestFarm: commands end (RunCmd says when), time passes, and a process
\* that waits for the lock gets it if it is given back again and again.
Fairness ==
    /\ \A w \in Jobs : WF_vars(Worker(w)) /\ SF_vars(AcquireLock(w))
    /\ WF_vars(MainProcess) /\ SF_vars(MainAcquire)
    /\ WF_vars(Tick)

FairSpec == Spec /\ Fairness

-----------------------------------------------------------------------------
(* Types *)

Seeds    == SeedIds \cup {NoSeed} \cup (Jobs \X Nat)
Labels   == {"off", "loop", "generate", "genfail", "targets", "savebuild", "saverun",
             "verify", "finish", "lock", "copy", "exited", "crashed"}
Statuses == {"new", "ok", "miscompare", "multiple_miscompare", "no_good_runs"}
            \cup GenFailStatus
MainLabels == {"seeds", "compilers", "start", "acquire", "print", "clean", "sleep",
               "cleanup", "leave", "join", "done"}

Tests == [seed : Seeds, status : Statuses, runs : [Targets -> Outcomes \cup {"not_built"}]]

TypeOK ==
    /\ setup \in Setups
    /\ pc \in [Jobs -> Labels]
    /\ test \in [Jobs -> Tests]
    /\ DOMAIN saving = Jobs
    /\ \A w \in Jobs : /\ saving[w].bad \subseteq Targets /\ saving[w].program \in BOOLEAN
                       /\ saving[w].next \in {"loop", "saverun", "verify", "finish"}
    /\ queue \in [SeedIds -> Nat]
    /\ lock \in Jobs \cup {Main, Nobody}
    /\ \A r \in reports : r.seed \in Seeds /\ r.bad \subseteq Targets
    /\ stat \in [gen : [GenTags -> Nat], runs : [RunTags -> Nat],
                 pass : [SeedIds -> Nat], fail : [SeedIds -> Nat]]
    /\ manager \in {"up", "down"}
    /\ clock \in Nat
    /\ mainPc \in MainLabels

-----------------------------------------------------------------------------
(* Properties *)

\* The lock belongs to the process inside its critical section and to nobody
\* else: a worker that leaves the section by exit() gives it back as well.
LockInv ==
    /\ \A w \in Jobs : lock = w <=> pc[w] = "copy"
    /\ lock = Main <=> mainPc = "print"

\* When a test is about to be registered, every kind of failure it showed - a
\* build that failed or timed out, a run, a difference - has its own report on a
\* disk that can be written.
EveryFailureSaved ==
    \A w \in Jobs : pc[w] = "finish" /\ setup.disk = "writable" =>
        LET kinds == {r.dest[2] : r \in {x \in reports : x.seed = test[w].seed}} IN
        /\ Failed(w, BuildFailTags) # {} => kinds \cap BuildFailTags # {}
        /\ Failed(w, RunFailTags) # {}   => kinds \cap RunFailTags # {}
        /\ ~Agreed(test[w].runs)         => test[w].status \in kinds

\* The report of a program is never overwritten by that of another seed; only
\* the generator failures of one second share a directory.
ReportsKept ==
    [][UseQueue => \A r \in reports \ reports' : r.dest[2] \in GenFailStatus]_vars

\* A program that a compiler rejected or crashed on is saved with a report: the
\* log alone is kept of programs that took too long only.
RejectedProgramSaved ==
    \A w \in Jobs : pc[w] = "finish" /\ setup.disk = "writable" =>
        (Failed(w, {"compfail"}) # {} => \E r \in reports : r.seed = test[w].seed /\ r.program)

\* Where a seed is.
Holds(w, s) == test[w].seed = s /\ test[w].status \notin GenFailStatus

PlaceOf(s) ==
    IF \E w \in Jobs : Holds(w, s) /\ pc[w] # "crashed" THEN "held"
    ELSE IF stat.pass[s] > 0 THEN "passed"
    ELSE IF stat.fail[s] > 0 THEN "failed"
    ELSE IF \E w \in Jobs : Holds(w, s) THEN "lost" ELSE "waiting"

Book == INSTANCE Ledger WITH Items <- SeedIds, place <- [s \in SeedIds |-> PlaceOf(s)]

\* The driver implements the ledger: each seed of the file is taken once however
\* often it is listed, is held by one worker, and is settled once, whatever
\* fails: the generator, a build, the disk, a worker or the main process.
SeedsSettled == Book!FairSpec

\* Whatever fails on the way, the main process ends, provided that no more seeds
\* are left over in the queue than its pipe takes.
MainEnds == (<>[](Total(queue) <= PipeSize)) => <>(mainPc = "done")
=============================================================================
