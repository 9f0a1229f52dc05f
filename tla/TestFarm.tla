------------------------------ MODULE TestFarm ------------------------------
(***************************************************************************)
(* The test driver scripts/run_onebyone.py: a pool of worker processes     *)
(* that take test programs from one queue (or generate them until a        *)
(* deadline), build and run each program with every compiler target,       *)
(* compare the results, save what failed under a lock shared by all        *)
(* processes, and count everything in one Statistics object; and the main  *)
(* process, which prints that object under the same lock until no worker   *)
(* is alive.                                                               *)
(*                                                                         *)
(* A worker is a process: an exception or exit() that nothing catches ends *)
(* it (pc = "crashed") and leaves the others running.                      *)
(***************************************************************************)
EXTENDS Verdict, Integers

CONSTANTS
    Jobs,           \* the worker processes that are started
    Main,           \* the main process
    Nobody,         \* holder of the lock when it is free
    NoSeed,         \* seed of a worker that holds no test
    Programs,       \* the test programs put in the queue; {}: no queue
    TestName(_),    \* the directory name save_test gets for a seed
    UbsanSpecs,     \* compiler specifications whose name starts with "ubsan"
    Fuzzer,         \* --fuzzer-name: "file" or "grammarinator"
    Standards,      \* what --std may be, of "c" and "c++"
    NeedSanitizer,  \* --is-need-sanitizer
    Blame,          \* --blame
    Creduce,        \* --creduce
    Timeout,        \* --timeout, in ticks of the clock; -1 is forever
    Missing,        \* programs may vanish between the listing and the test
    Garbled,        \* programs may print bytes that are not UTF-8
    DiskCanFail,    \* copying into the result directory may raise OSError
    CleanerMissing, \* tmp_cleaner.sh is to be used and may not be there
    MaxClock,       \* bound: ticks of the clock
    MaxTests,       \* bound: tests started when there is no queue
    MaxIce          \* bound: compiler crashes saved per test by the sanitizer stage

ASSUME FarmAssumption ==
    /\ IsFiniteSet(Jobs) /\ IsFiniteSet(Programs)
    /\ Main \notin Jobs /\ Nobody \notin Jobs /\ Main # Nobody
    /\ NoSeed \notin Programs
    /\ Fuzzer \in {"file", "grammarinator"} /\ Standards \subseteq {"c", "c++"}
    /\ Fuzzer = "file" => Programs # {}
    /\ Programs # {} => Cardinality(Jobs) <= Cardinality(Programs)
    /\ {NeedSanitizer, Blame, Creduce} \subseteq BOOLEAN
    /\ {Missing, Garbled, DiskCanFail, CleanerMissing} \subseteq BOOLEAN
    /\ Timeout \in Nat \cup {-1}
    /\ {MaxClock, MaxTests, MaxIce} \subseteq Nat

BuildFailTags == {"compfail", "compfail_timeout"}
RunFailTags   == {"runfail", "runfail_timeout"}
RunTags       == {"ok", "out_dif"} \cup BuildFailTags \cup RunFailTags
GenTags       == {"ok", "runfail", "runfail_timeout", "mutate_fail"}
GenFailStatus == {"mutate_fail", "gen_fail", "gen_fail_timeout"}
NotDone       == {"not_built", "not_run"}

ASSUME OutcomesAssumption ==
    Checksums \cap (NotDone \cup BuildFailTags \cup RunFailTags \cup {"garbled"}) = {}

VARIABLES
    pc,             \* worker -> where it is in gen_and_test
    test,           \* worker -> its Test object
    saving,         \* worker -> arguments of its call of save_test
    queue,          \* task_queue
    lock,           \* who holds the shared lock
    reports,        \* the test directories under result/, by their log.txt
    yarpgenRuns,    \* Statistics.yarpgen_runs
    targetRuns,     \* Statistics.target_runs
    seedsPass,      \* Statistics.seeds_pass, as seed -> number of entries
    seedsFail,      \* Statistics.seeds_fail, likewise
    clock,
    mainPc,         \* where the main process is
    standard        \* common.selected_standard, fixed

vars == <<pc, test, saving, queue, lock, reports, yarpgenRuns, targetRuns,
          seedsPass, seedsFail, clock, mainPc, standard>>

stats == <<yarpgenRuns, targetRuns, seedsPass, seedsFail>>

NoTest == [seed |-> NoSeed, gen |-> "ok", status |-> "new", ice |-> 0,
           runs |-> [t \in Targets |-> "not_built"],
           blameRun |-> "was not run", blameTest |-> "was not run"]

NoSave == [dest |-> <<{}, "none", NoSeed>>, bad |-> {}, next |-> "loop"]

Init ==
    /\ pc = [w \in Jobs |-> "loop"]
    /\ test = [w \in Jobs |-> NoTest]
    /\ saving = [w \in Jobs |-> NoSave]
    /\ queue = Programs
    /\ lock = Nobody
    /\ reports = {}
    /\ yarpgenRuns = [tag \in GenTags |-> 0]
    /\ targetRuns = [t \in Targets |-> [tag \in RunTags |-> 0]]
    /\ seedsPass = [p \in Programs |-> 0]
    /\ seedsFail = [p \in Programs |-> 0]
    /\ clock = 0
    /\ mainPc = "acquire"
    /\ standard \in Standards

Goto(w, label) == pc' = [pc EXCEPT ![w] = label]
Crash(w)       == Goto(w, "crashed")
\* Seeded fault: a process that died is taken for a running one.
Alive_Fault(w) == pc[w] # "exited"
Alive(w)       == pc[w] \notin {"exited", "crashed"}

\* The manager process that owns the Statistics object ends with the main process.
Served == mainPc \notin {"done", "died"}

-----------------------------------------------------------------------------
(* gen_and_test: taking the next test. *)

UseQueue == Programs # {}
Inf == Timeout = -1 \/ UseQueue

StartTest(w, s) ==
    /\ test' = [test EXCEPT ![w] = [NoTest EXCEPT !.seed = s]]
    /\ Goto(w, "generate")

\* Seeded fault: the program stays in the queue.
GetSeed_Fault(w) ==
    /\ pc[w] = "loop" /\ UseQueue
    /\ \E s \in queue : queue' = queue /\ StartTest(w, s)
    /\ UNCHANGED <<saving, lock, reports, stats, clock, mainPc, standard>>

\* get_nowait succeeds.  The order of the queue is the order of os.walk, which
\* is arbitrary, so any program may come first.
GetSeed(w) ==
    /\ pc[w] = "loop" /\ UseQueue
    /\ \E s \in queue : queue' = queue \ {s} /\ StartTest(w, s)
    /\ UNCHANGED <<saving, lock, reports, stats, clock, mainPc, standard>>

\* get_nowait raises queue.Empty three times; it may do so although the queue
\* is not empty.
QueueDone(w) ==
    /\ pc[w] = "loop" /\ UseQueue
    /\ Goto(w, "exited")
    /\ UNCHANGED <<test, saving, queue, lock, reports, stats, clock, mainPc, standard>>

Total(count) == MapThenSumSet(LAMBDA tag : count[tag], DOMAIN count)

\* The tests counted already, and those that still will be.
Started ==
    Total(yarpgenRuns)
    + Cardinality({w \in Jobs : test[w].seed # NoSeed /\ test[w].status = "new"})

\* No queue: a test is generated until the deadline.  Its name is made of the
\* process number and the time.
NewSeed(w) ==
    /\ pc[w] = "loop" /\ ~UseQueue
    /\ Inf \/ clock < Timeout
    /\ Started < MaxTests
    /\ StartTest(w, <<w, clock>>)
    /\ UNCHANGED <<saving, queue, lock, reports, stats, clock, mainPc, standard>>

DeadlineReached(w) ==
    /\ pc[w] = "loop" /\ ~Inf /\ clock >= Timeout
    /\ Goto(w, "exited")
    /\ UNCHANGED <<test, saving, queue, lock, reports, stats, clock, mainPc, standard>>

-----------------------------------------------------------------------------
(* Test.__init__ *)

CopySeed(w) ==
    /\ pc[w] = "generate" /\ Fuzzer = "file"
    /\ Goto(w, "sanitize")
    /\ UNCHANGED <<test, saving, queue, lock, reports, stats, clock, mainPc, standard>>

\* "raise" with no exception to re-raise: nothing catches the RuntimeError.
SeedMissing(w) ==
    /\ pc[w] = "generate" /\ Fuzzer = "file" /\ Missing
    /\ Crash(w)
    /\ UNCHANGED <<test, saving, queue, lock, reports, stats, clock, mainPc, standard>>

RunGrammarinator(w) ==
    /\ pc[w] = "generate" /\ Fuzzer = "grammarinator"
    /\ \E g \in {"ok", "timeout", "fail"} :
          test' = [test EXCEPT ![w].gen = g]
    /\ Goto(w, "sanitize")
    /\ UNCHANGED <<saving, queue, lock, reports, stats, clock, mainPc, standard>>

EnterSave(w, dest, bad, next) ==
    /\ saving' = [saving EXCEPT ![w] = [dest |-> dest, bad |-> bad, next |-> next]]
    /\ Goto(w, "lock")

Stamp == <<"FAIL", clock>>

\* check_compiler_ICE: a compiler crashed or hung on the program; the finding is
\* saved at once, before it is known whether the program is well defined.
SaveIce(w) ==
    /\ pc[w] = "sanitize" /\ NeedSanitizer
    /\ test[w].ice < MaxIce
    /\ test' = [test EXCEPT ![w].ice = @ + 1]
    /\ EnterSave(w, <<{"ice"}, test[w].seed, Stamp>>, {}, "sanitize")
    /\ UNCHANGED <<queue, lock, reports, stats, clock, mainPc, standard>>

GenStatus(gen, free) ==
    IF ~free THEN "mutate_fail"
    ELSE IF gen = "timeout" THEN "gen_fail_timeout"
    ELSE IF gen = "fail" THEN "gen_fail" ELSE "ok"

\* The tag the statistics get; a generator that timed out counts as runfail.
GenTag(status) == IF status \in {"ok", "mutate_fail"} THEN status ELSE "runfail"

\* seed_passed and seed_failed record nothing unless enable_seeds was called,
\* which happens when there is a queue.
Record(list, s) == IF s \in Programs THEN [list EXCEPT ![s] = @ + 1] ELSE list

SetStatus(w) ==
    /\ pc[w] = "sanitize" /\ Served
    /\ \E free \in (IF NeedSanitizer THEN BOOLEAN ELSE {TRUE}) :
         LET status == GenStatus(test[w].gen, free) IN
         /\ test' = [test EXCEPT ![w].status = status]
         /\ yarpgenRuns' = [yarpgenRuns EXCEPT ![GenTag(status)] = @ + 1]
         /\ IF status = "ok"
            THEN Goto(w, "targets") /\ UNCHANGED seedsFail
            ELSE Goto(w, "genfail") /\ seedsFail' = Record(seedsFail, test[w].seed)
    /\ UNCHANGED <<saving, queue, lock, reports, targetRuns, seedsPass, clock, mainPc, standard>>

\* Seeded fault: no "continue" after the refused program was saved.
SaveMutateFail_Fault(w) ==
    /\ pc[w] = "genfail" /\ test[w].status = "mutate_fail"
    /\ EnterSave(w, <<{}, "mutate_fail", Stamp>>, {}, "finish")
    /\ UNCHANGED <<test, queue, lock, reports, stats, clock, mainPc, standard>>

\* Test.save of a program with undefined behaviour: only a log, under a name
\* made of the current second.
SaveMutateFail(w) ==
    /\ pc[w] = "genfail" /\ test[w].status = "mutate_fail"
    /\ EnterSave(w, <<{}, "mutate_fail", Stamp>>, {}, "loop")
    /\ UNCHANGED <<test, queue, lock, reports, stats, clock, mainPc, standard>>

\* Test.save of a generator failure: build_log reads self.yarpgen_cmd, which no
\* live statement assigns, and the AttributeError ends the worker.
SaveGenFail(w) ==
    /\ pc[w] = "genfail" /\ test[w].status # "mutate_fail"
    /\ Crash(w)
    /\ UNCHANGED <<test, saving, queue, lock, reports, stats, clock, mainPc, standard>>

-----------------------------------------------------------------------------
(* TestRun.build and TestRun.run, for one target after the other. *)

Pending(w) == {t \in Targets : test[w].runs[t] \in NotDone}
Current(w) == Min(Pending(w))

SetRun(w, t, outcome) == test' = [test EXCEPT ![w].runs[t] = outcome]
Count(t, tag)         == targetRuns' = [targetRuns EXCEPT ![t][tag] = @ + 1]

\* The program is always written to test.c; with --std c++ the makefile and the
\* list of files to save look for test.cpp, and make ends at once.
ProgramExists == standard = "c"
BuildFailures == IF ProgramExists THEN BuildFailTags ELSE {"compfail"}

Build(w) ==
    /\ pc[w] = "targets" /\ Pending(w) # {}
    /\ LET t == Current(w) IN
         /\ test[w].runs[t] = "not_built"
         /\ \/ ProgramExists /\ SetRun(w, t, "not_run") /\ UNCHANGED targetRuns
            \/ /\ Served
               /\ \E tag \in BuildFailures : SetRun(w, t, tag) /\ Count(t, tag)
    /\ UNCHANGED <<pc, saving, queue, lock, reports, yarpgenRuns, seedsPass,
                   seedsFail, clock, mainPc, standard>>

Run(w) ==
    /\ pc[w] = "targets" /\ Pending(w) # {} /\ Served
    /\ LET t == Current(w) IN
         /\ test[w].runs[t] = "not_run"
         /\ \/ \E tag \in RunFailTags : SetRun(w, t, tag) /\ Count(t, tag)
            \/ \E sum \in Checksums : SetRun(w, t, sum) /\ Count(t, "ok")
    /\ UNCHANGED <<pc, saving, queue, lock, reports, yarpgenRuns, seedsPass,
                   seedsFail, clock, mainPc, standard>>

\* The run is counted as ok, and then its output cannot be decoded.
RunGarbled(w) ==
    /\ pc[w] = "targets" /\ Pending(w) # {} /\ Served /\ Garbled
    /\ LET t == Current(w) IN
         /\ test[w].runs[t] = "not_run"
         /\ SetRun(w, t, "garbled") /\ Count(t, "ok")
    /\ Crash(w)
    /\ UNCHANGED <<saving, queue, lock, reports, yarpgenRuns, seedsPass,
                   seedsFail, clock, mainPc, standard>>

-----------------------------------------------------------------------------
(* Test.handle_results *)

Failed(w, tags) == {t \in Targets : test[w].runs[t] \in tags}
GoodUbsan(w)    == {t \in Succeeded(test[w].runs) : SpecOf[t] \in UbsanSpecs}
Name(w)         == TestName(test[w].seed)

\* Seeded fault: the directory is named after the compiler and the failure only.
RunDest_Fault(w, t) == <<{SpecOf[t]}, test[w].runs[t], "test">>

RunDest(w, t) == <<{SpecOf[t]}, test[w].runs[t], Name(w)>>

\* do_creduce_buildfail and do_creduce_runfail return at once without a good
\* ubsan run.  With one, creduce is run on a copy of the test in a directory of
\* its own, and at the end the reduced func.c is to be copied; the programs of
\* this driver are called test.c, so check_and_copy calls exit() - if no step
\* before it has raised.
ReduceBuildFail(w) == Creduce /\ GoodUbsan(w) # {}
ReduceRunFail(w)   == Creduce /\ GoodUbsan(w) # {}

\* do_creduce_miscompare ends the worker, too: in the same way, or by "raise"
\* when no good run is one of ubsan.
ReduceMiscompare(good) == Creduce /\ good # {}

\* Seeded fault: build timeouts are not among the failures that are saved.
SaveBuildFail_Fault(w) ==
    /\ pc[w] = "targets" /\ Pending(w) = {}
    /\ LET fails == Failed(w, {"compfail"}) IN
         IF fails = {} THEN Goto(w, "saverun") /\ UNCHANGED saving
         ELSE IF ReduceBuildFail(w) THEN Crash(w) /\ UNCHANGED saving
         ELSE EnterSave(w, RunDest(w, Min(fails)), {}, "saverun")
    /\ UNCHANGED <<test, queue, lock, reports, stats, clock, mainPc, standard>>

\* save_failed, first part: the build failures, all under the first one.
SaveBuildFail(w) ==
    /\ pc[w] = "targets" /\ Pending(w) = {}
    /\ LET fails == Failed(w, BuildFailTags) IN
         IF fails = {} THEN Goto(w, "saverun") /\ UNCHANGED saving
         ELSE IF ReduceBuildFail(w) THEN Crash(w) /\ UNCHANGED saving
         ELSE EnterSave(w, RunDest(w, Min(fails)), {}, "saverun")
    /\ UNCHANGED <<test, queue, lock, reports, stats, clock, mainPc, standard>>

NoRunFail(w) ==
    /\ pc[w] = "saverun" /\ Failed(w, RunFailTags) = {}
    /\ Goto(w, "verify")
    /\ UNCHANGED <<test, saving, queue, lock, reports, stats, clock, mainPc, standard>>

\* do_blame starts with os.mkdir("blame"), in a work directory that is only
\* cleaned between tests; the FileExistsError of a second call is caught.
BlameResult(w) ==
    IF {test[w].blameRun, test[w].blameTest} = {"was not run"}
    THEN "ran" ELSE "raised an exception"

\* save_failed, second part: the run failures.  The log decodes their output.
SaveRunFail(w) ==
    LET fails  == Failed(w, RunFailTags)
        first  == Min(fails)
        blames == /\ Blame /\ Succeeded(test[w].runs) # {}
                  /\ test[w].runs[first] = "runfail"
    IN  /\ pc[w] = "saverun" /\ fails # {}
        /\ test' = IF blames THEN [test EXCEPT ![w].blameRun = BlameResult(w)]
                             ELSE test
        /\ \/ ~ReduceRunFail(w) /\ EnterSave(w, RunDest(w, first), {}, "verify")
           \/ (ReduceRunFail(w) \/ Garbled) /\ Crash(w) /\ UNCHANGED saving
        /\ UNCHANGED <<queue, lock, reports, stats, clock, mainPc, standard>>

VerifyOk(w) ==
    /\ pc[w] = "verify" /\ Agreed(test[w].runs)
    /\ Goto(w, "finish")
    /\ UNCHANGED <<test, saving, queue, lock, reports, stats, clock, mainPc, standard>>

\* Seeded fault: the difference is counted for the good runs.
VerifyBad_Fault(w) ==
    LET v == TestVerdict(test[w].runs) IN
    /\ pc[w] = "verify" /\ ~Agreed(test[w].runs)
    /\ test' = [test EXCEPT ![w].status = v.status]
    /\ targetRuns' = [t \in Targets |->
           IF t \in v.good THEN [targetRuns[t] EXCEPT !["out_dif"] = @ + 1]
           ELSE targetRuns[t]]
    /\ EnterSave(w, <<Compilers(v.bad), v.status, Name(w)>>, v.bad, "finish")
    /\ UNCHANGED <<queue, lock, reports, yarpgenRuns, seedsPass, seedsFail,
                   clock, mainPc, standard>>

\* verify_results when the results differ.
VerifyBad(w) ==
    LET v == TestVerdict(test[w].runs) IN
    /\ pc[w] = "verify" /\ ~Agreed(test[w].runs)
    /\ Served \/ v.bad = {}
    /\ test' = [test EXCEPT ![w].status = v.status,
                            ![w].blameTest = IF Blame /\ v.good # {}
                                             THEN BlameResult(w) ELSE @]
    /\ IF ReduceMiscompare(v.good)
       THEN Crash(w) /\ UNCHANGED <<saving, targetRuns>>
       ELSE /\ targetRuns' = [t \in Targets |->
                  IF t \in v.bad THEN [targetRuns[t] EXCEPT !["out_dif"] = @ + 1]
                  ELSE targetRuns[t]]
            /\ EnterSave(w, <<Compilers(v.bad), v.status, Name(w)>>, v.bad, "finish")
    /\ UNCHANGED <<queue, lock, reports, yarpgenRuns, seedsPass, seedsFail,
                   clock, mainPc, standard>>

\* Seeded fault: only the comparison decides, build and run failures do not.
Finish_Fault(w) ==
    /\ pc[w] = "finish"
    /\ IF test[w].status = "ok"
       THEN seedsPass' = Record(seedsPass, test[w].seed) /\ UNCHANGED seedsFail
       ELSE seedsFail' = Record(seedsFail, test[w].seed) /\ UNCHANGED seedsPass
    /\ test' = [test EXCEPT ![w] = NoTest]
    /\ Goto(w, "loop")
    /\ UNCHANGED <<saving, queue, lock, reports, yarpgenRuns, targetRuns, clock, mainPc, standard>>

Finish(w) ==
    /\ pc[w] = "finish" /\ Served
    /\ IF test[w].status = "ok" /\ Failed(w, BuildFailTags \cup RunFailTags) = {}
       THEN seedsPass' = Record(seedsPass, test[w].seed) /\ UNCHANGED seedsFail
       ELSE seedsFail' = Record(seedsFail, test[w].seed) /\ UNCHANGED seedsPass
    /\ test' = [test EXCEPT ![w] = NoTest]
    /\ Goto(w, "loop")
    /\ UNCHANGED <<saving, queue, lock, reports, yarpgenRuns, targetRuns, clock, mainPc, standard>>

\* Where the worker is about to call the Statistics object.
CallsStatistics(w) ==
    \/ pc[w] \in {"sanitize", "finish"}
    \/ pc[w] = "targets" /\ Pending(w) # {}
    \/ /\ pc[w] = "verify" /\ ~Agreed(test[w].runs)
       /\ TestVerdict(test[w].runs).bad # {}

\* The manager is gone, and the call raises: nothing catches it.
NoAnswer(w) ==
    /\ ~Served /\ CallsStatistics(w)
    /\ Crash(w)
    /\ UNCHANGED <<test, saving, queue, lock, reports, stats, clock, mainPc, standard>>

-----------------------------------------------------------------------------
(* save_test *)

AcquireLock(w) ==
    /\ pc[w] = "lock" /\ lock = Nobody
    /\ lock' = w
    /\ Goto(w, "copy")
    /\ UNCHANGED <<test, saving, queue, reports, stats, clock, mainPc, standard>>

\* The reports of failed runs and of comparisons hold the program; that of a
\* refused program is a log, and check_compiler_ICE has its own list of files.
SavesProgram(w) == saving[w].next \in {"saverun", "verify", "finish"}

\* The "finally" clause, and the return to the caller.
Release(w) ==
    /\ lock' = Nobody
    /\ Goto(w, saving[w].next)
    /\ saving' = [saving EXCEPT ![w] = NoSave]
    /\ test' = IF saving[w].next = "loop" THEN [test EXCEPT ![w] = NoTest] ELSE test

\* The files of an earlier test in the same directory are overwritten.
CopyReport(w) ==
    /\ pc[w] = "copy"
    /\ ProgramExists \/ ~SavesProgram(w)
    /\ LET d == saving[w].dest IN
         reports' = {r \in reports : r.dest # d}
                    \cup {[dest |-> d, seed |-> test[w].seed, bad |-> saving[w].bad]}
    /\ Release(w)
    /\ UNCHANGED <<queue, stats, clock, mainPc, standard>>

\* "except Exception": the failure is logged and forgotten.
CopyFails(w) ==
    /\ pc[w] = "copy" /\ DiskCanFail
    /\ Release(w)
    /\ UNCHANGED <<queue, reports, stats, clock, mainPc, standard>>

\* Seeded fault: the lock is given back by the "except" clause, not by "finally".
CopyExits_Fault(w) ==
    /\ pc[w] = "copy" /\ ~ProgramExists /\ SavesProgram(w)
    /\ Crash(w)
    /\ UNCHANGED <<test, saving, queue, lock, reports, stats, clock, mainPc, standard>>

\* A file to be saved is not there: check_and_copy calls exit(), which is not an
\* Exception, and ends the worker inside the critical section; only "finally"
\* is still run.
CopyExits(w) ==
    /\ pc[w] = "copy" /\ ~ProgramExists /\ SavesProgram(w)
    /\ lock' = Nobody
    /\ Crash(w)
    /\ UNCHANGED <<test, saving, queue, reports, stats, clock, mainPc, standard>>

-----------------------------------------------------------------------------
(* print_online_statistics_and_cleanup and the end of the main process *)

MainStep(from, to) == mainPc = from /\ mainPc' = to

MainAcquire ==
    /\ MainStep("acquire", "print")
    /\ lock = Nobody /\ lock' = Main
    /\ UNCHANGED <<pc, test, saving, queue, reports, stats, clock, standard>>

MainPrint ==
    /\ MainStep("print", "clean")
    /\ lock' = Nobody
    /\ UNCHANGED <<pc, test, saving, queue, reports, stats, clock, standard>>

\* run_cmd of tmp_cleaner.sh, or none when it is switched off or not yet due.
\* Popen raises when the script is not there, and the main process ends.
CleanTmp ==
    /\ \/ MainStep("clean", "sleep")
       \/ CleanerMissing /\ MainStep("clean", "died")
    /\ UNCHANGED <<pc, test, saving, queue, lock, reports, stats, clock, standard>>

\* Seeded fault: "any_alive &= ..." instead of "|=".
AnyAlive_Fault == \A w \in Jobs : Alive(w)

AnyAlive == \E w \in Jobs : Alive(w)

MainCheckAlive ==
    /\ MainStep("sleep", IF AnyAlive THEN "acquire" ELSE "cleanup")
    /\ UNCHANGED <<pc, test, saving, queue, lock, reports, stats, clock, standard>>

\* rmtree of the process directories, then the final statistics.
MainCleanup ==
    /\ MainStep("cleanup", "done")
    /\ UNCHANGED <<pc, test, saving, queue, lock, reports, stats, clock, standard>>

Tick ==
    /\ clock < MaxClock
    /\ clock' = clock + 1
    /\ UNCHANGED <<pc, test, saving, queue, lock, reports, stats, mainPc, standard>>

Finished == mainPc \in {"done", "died"} /\ UNCHANGED vars

Generating(w) ==
    \/ GetSeed(w) \/ QueueDone(w) \/ NewSeed(w) \/ DeadlineReached(w)
    \/ CopySeed(w) \/ SeedMissing(w) \/ RunGrammarinator(w)
    \/ SaveIce(w) \/ SetStatus(w) \/ SaveMutateFail(w) \/ SaveGenFail(w)

Testing(w) == Build(w) \/ Run(w) \/ RunGarbled(w)

Handling(w) ==
    \/ SaveBuildFail(w) \/ NoRunFail(w) \/ SaveRunFail(w)
    \/ VerifyOk(w) \/ VerifyBad(w) \/ Finish(w)

Saving(w) == AcquireLock(w) \/ CopyReport(w) \/ CopyFails(w) \/ CopyExits(w)

Worker(w) ==
    Generating(w) \/ Testing(w) \/ Handling(w) \/ Saving(w) \/ NoAnswer(w)

MainProcess ==
    MainAcquire \/ MainPrint \/ CleanTmp \/ MainCheckAlive \/ MainCleanup

Next == (\E w \in Jobs : Worker(w)) \/ MainProcess \/ Tick \/ Finished

Spec == Init /\ [][Next]_vars

\* Processes and commands make progress (every command has a timeout), time
\* passes, and a process that waits for the semaphore gets it if it is released
\* again and again: the main process sleeps between two acquisitions.
Fairness ==
    /\ \A w \in Jobs : WF_vars(Worker(w)) /\ SF_vars(AcquireLock(w))
    /\ WF_vars(MainProcess) /\ SF_vars(MainAcquire)
    /\ WF_vars(Tick)

FairSpec == Spec /\ Fairness

-----------------------------------------------------------------------------
(* Types *)

Outcomes == NotDone \cup BuildFailTags \cup RunFailTags \cup {"garbled"} \cup Checksums
Seeds    == Programs \cup {NoSeed} \cup (Jobs \X Nat)
Labels   == {"loop", "generate", "sanitize", "genfail", "targets", "saverun",
             "verify", "finish", "lock", "copy", "exited", "crashed"}
BlameResults == {"was not run", "ran", "raised an exception"}
Statuses == {"new", "ok", "miscompare", "multiple_miscompare", "no_good_runs"}
            \cup GenFailStatus

Tests == [seed : Seeds, gen : {"ok", "timeout", "fail"}, status : Statuses,
          ice : Nat, runs : [Targets -> Outcomes],
          blameRun : BlameResults, blameTest : BlameResults]

TypeOK ==
    /\ pc \in [Jobs -> Labels]
    /\ test \in [Jobs -> Tests]
    /\ DOMAIN saving = Jobs
    /\ \A w \in Jobs : /\ saving[w].bad \subseteq Targets
                       /\ saving[w].next \in {"loop", "sanitize", "saverun", "verify", "finish"}
    /\ queue \subseteq Programs
    /\ lock \in Jobs \cup {Main, Nobody}
    /\ \A r \in reports : r.seed \in Seeds /\ r.bad \subseteq Targets
    /\ yarpgenRuns \in [GenTags -> Nat]
    /\ targetRuns \in [Targets -> [RunTags -> Nat]]
    /\ seedsPass \in [Programs -> Nat] /\ seedsFail \in [Programs -> Nat]
    /\ clock \in Nat
    /\ mainPc \in {"acquire", "print", "clean", "sleep", "cleanup", "done", "died"}
    /\ standard \in Standards

-----------------------------------------------------------------------------
(* Invariants *)

\* The shared lock is held by exactly the process that is inside its critical
\* section (copying a report, or printing the statistics): two processes never
\* write into the result directory at once, and no process that left keeps the
\* lock - by returning, by an exception, or by an exit() inside the section.
LockInv ==
    /\ \A w \in Jobs : lock = w <=> pc[w] = "copy"
    /\ lock = Main <=> mainPc = "print"

\* The worker has the seed in hand and has not reported it yet.
Holds(w, p) == test[w].seed = p /\ test[w].status \notin GenFailStatus

Registered(p) == seedsPass[p] + seedsFail[p]

\* Every program put in the queue is at any moment in exactly one place: still
\* in the queue, in the hands of exactly one worker, or entered once in exactly
\* one of the two lists of Statistics.  No seed is tested or counted twice, and
\* only the one a dead worker was holding can go unreported.
SeedAccounting ==
    \A p \in Programs :
        /\ Registered(p) <= 1
        /\ p \in queue => Registered(p) = 0 /\ \A w \in Jobs : ~Holds(w, p)
        /\ \A v, w \in Jobs : Holds(v, p) /\ Holds(w, p) => v = w
        /\ (\E w \in Jobs : Holds(w, p)) => Registered(p) = 0
        /\ p \notin queue /\ (\A w \in Jobs : ~Holds(w, p)) => Registered(p) = 1

\* Where a program is.
PlaceOf(p) ==
    IF \E w \in Jobs : Holds(w, p) /\ pc[w] # "crashed" THEN "held"
    ELSE IF seedsPass[p] > 0 THEN "passed"
    ELSE IF seedsFail[p] > 0 THEN "failed"
    ELSE IF \E w \in Jobs : Holds(w, p) THEN "lost" ELSE "waiting"

Book == INSTANCE Ledger WITH
    Items <- Programs, place <- [p \in Programs |-> PlaceOf(p)]

\* The driver implements the ledger: each program is taken once, by one worker,
\* and is then settled once and for all - in the list of passed or of failed
\* seeds, or lost with the worker that died - in every interleaving.
SeedsTracked == Book!Spec

\* Where the worker is, or where it goes on when save_test returns.
Place(w) == IF pc[w] \in {"lock", "copy"} THEN saving[w].next ELSE pc[w]

FitsPlace(w) ==
    /\ pc[w] \in {"loop", "exited"} => test[w].seed = NoSeed
    /\ Place(w) \in {"generate", "sanitize"} => test[w].status = "new"
    /\ pc[w] = "genfail" => test[w].status \in GenFailStatus
    /\ pc[w] \in {"lock", "copy"} /\ saving[w].next = "loop" =>
           test[w].status \in GenFailStatus
    /\ Place(w) \in {"targets", "saverun", "verify", "finish"} =>
           test[w].status \notin GenFailStatus

\* The status of a test fits the place of its worker: a test that was refused or
\* could not be generated never reaches the targets or the verdict, and a worker
\* comes back to the loop only without a test.
StatusFitsPlace == \A w \in Jobs : FitsPlace(w)

\* A program listed as failed can be found under result/: some report that is
\* still there was written for it (nothing overwrote the last one).
FailReported ==
    \A p \in Programs : seedsFail[p] > 0 => \E r \in reports : r.seed = p

\* The out_dif column of a target is the number of comparisons that blame the
\* target and are saved, or in the hands of a worker that is to save them.
DifCounted ==
    \A t \in Targets :
        targetRuns[t]["out_dif"] = Cardinality({r \in reports : t \in r.bad})
                                   + Cardinality({w \in Jobs : t \in saving[w].bad})

\* The process directories are removed only when no worker can still be using one.
CleanupAfterWorkers ==
    mainPc \in {"cleanup", "done"} => \A w \in Jobs : pc[w] \in {"exited", "crashed"}

\* A worker that dies never takes a failure with it that it had already found.
NoFailureDropped ==
    \A w \in Jobs : pc[w] = "crashed" =>
        /\ test[w].status \notin {"gen_fail", "gen_fail_timeout"}
        /\ Failed(w, BuildFailTags \cup RunFailTags) = {}
        /\ Pending(w) = {} => Agreed(test[w].runs)

-----------------------------------------------------------------------------
(* Action properties *)

AllAgree(runs) == \E sum \in Checksums \ ErrorSums : \A t \in Targets : runs[t] = sum

\* A seed is listed as passed only when every target built it, ran it and printed
\* the same text without an error, and as failed only when that is not so (or it
\* could not be generated).
VerdictSound ==
    [][\A p \in Programs :
         /\ seedsPass'[p] # seedsPass[p] =>
              \E w \in Jobs : test[w].seed = p /\ AllAgree(test[w].runs)
         /\ seedsFail'[p] # seedsFail[p] =>
              \E w \in Jobs : /\ test[w].seed = p
                              /\ \/ test'[w].status \in GenFailStatus
                                 \/ ~AllAgree(test[w].runs)]_vars

\* The report of one failure is never overwritten by that of another.
ReportsKept == [][reports \subseteq reports']_vars

-----------------------------------------------------------------------------
(* Liveness *)

\* Whatever happens to the workers, the driver comes to its end: every worker
\* leaves, and the main process cleans up and prints the final statistics, or
\* has died because it could not start tmp_cleaner.sh.
Termination ==
    <>(mainPc \in {"done", "died"} /\ \A w \in Jobs : pc[w] \in {"exited", "crashed"})

=============================================================================
