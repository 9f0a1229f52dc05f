# A TLA+ verification of CTDip

CTDip tests C compilers: it takes test programs (from a directory, a grammar
fuzzer, csmith or YARPGen), builds each of them with many compilers and
optimisation levels ("targets"), runs the binaries and compares what they print.
This directory holds TLA+ models of its parts, the TLC configurations that
check them, and proofs of the theorems that TLC cannot reach. `PROJECT.json`
lists every component, run, theorem and hazard and maps every definition to the
source lines it models.

## The system

| component | source | state it keeps | operations | how it interacts |
|---|---|---|---|---|
| Test driver | `scripts/run_onebyone.py` | queue of programs, one `Statistics` object shared by all processes, the result directory, one lock, a work directory per process | `gen_and_test` (a worker), `Test`/`TestRun` (one program, one target), `save_test`, `print_online_statistics_and_cleanup` (main process) | workers are processes; they share the queue, the lock and the statistics, and call the screening, the oracle and the triage |
| Differential oracle | `run_onebyone.py`, `Test.verify_results` | the successful runs of one test | group by checksum, three-stage vote | called by a worker for each test; its verdict is counted and saved |
| Screening | `scripts/util/check_program.py` | - | build with sanitizers, look for compiler crashes | called while a `Test` is made; saves crash reports through `save_test` |
| Optimisation triage | `scripts/blame_opt.py` | the interval of a binary search | `execute_blame_phase`, `blame` | called by a worker for a failed target; rebuilds the test with a limit on optimisation steps |
| Driver with csmith | `scripts/run_gen.py` | as the test driver, with seeds in the place of programs | as the test driver; the program is made by csmith, nothing is screened | near copy of the test driver |
| Command runner | `scripts/common.py`, `run_cmd` | the process group of one command | start, read, time out, kill | every command of the drivers goes through it |
| Re-checker | `scripts/rechecker.py` | four queues, a list of failed tests | walk the result directory, rebuild each saved test | processes joined by queues |
| Makefile generator | `scripts/gen_test_makefile.py` | the table of targets | `parse_config`, `gen_makefile` | the drivers ask it for targets and run `make` |
| Mutation campaign | `scripts/util/mutate_util.py` | the syntax tree of the current seed, the temporary program, the clock, the directory of saved programs | `random_fuzzer`, `diversity_guidance_fuzzer` | a program of its own; calls a mutator, the sanitizers of `check_program.py` and the scheduler in every round |
| Mutator scheduler | `scripts/util/mutator_scheduler.py` | counts and rewards per mutator, the graph of the current seed | UCB-1 choice, reward | called by the guided campaign |
| Mutators | `scripts/util/mutate/*` | the syntax tree of one program, the table of its declarations | insert, replace, prune, and the preparation `trans_stmt_to_compound` | called by the campaign; the drivers have the call commented out |
| YARPGen values | `src/ir_value.cpp`, `src/type.cpp` | - | C integer arithmetic with a code for undefined behaviour | used to evaluate every generated expression |
| YARPGen expressions | `src/expr.cpp` | an expression tree | `evaluate`, `propagateType`, `rebuild` (repair undefined behaviour) | built by the statement generator |
| YARPGen statements, programs | `src/stmt.cpp`, `src/program.cpp`, `src/data.cpp`, `src/context.cpp` | symbol tables, loop nest | generate, populate, emit | |
| YARPGen options, policies | `src/options.cpp`, `src/gen_policy.cpp`, `src/utils.cpp`, `src/hash.cpp` | probability tables | choose | every choice is nondeterministic in the models |

What is hard here: processes that die while they share a lock and a queue; a main
process that takes the statistics of all others with it when it dies, and cannot
end while its queue holds seeds; a timeout that reaches only those processes that
let themselves be reached; a program that passes through a dozen steps and must be counted exactly once on
each of its paths; votes applied in an order that decides which compiler is
accused; a binary search whose probes may lie; a campaign that piles mutations on
one tree, without an undo, under a clock that wraps around; and integer arithmetic
that has to detect, at the boundary, the undefined behaviour it is not allowed to
execute.

## What makes each component correct

- **Test drivers.** Every program (or seed) is taken once, by one worker, and is
  settled once: passed, failed, or lost with its worker (`Ledger`). A failure that
  was found is saved and its report stays; no program is listed as passed that some
  target failed on, and none that was refused reaches a compiler; the shared lock is
  held by exactly the process inside the section it protects; the driver ends, and
  cleans up only after the workers.
- **Command runner.** What it returns in time is complete; after a timeout it is
  complete or empty, and no process is left behind that the signal could have
  reached; and it returns, for all commands that neither ignore the signal nor hide
  from it.
- **Differential oracle.** Runs are compared by what they print; the accused side
  is the one with fewer witnesses, then the unoptimised one is believed, then the
  one more compilers agree on; a test is accepted only if every successful run
  printed the same and none printed an error.
- **Optimisation triage.** The limit reported is one at which the test starts to
  fail, found in a logarithmic number of builds, and the search ends even when the
  probes contradict each other.
- **YARPGen values.** An operator reports undefined behaviour whenever there is
  some, and otherwise computes what C and C++ compute.
- **YARPGen expressions.** `rebuild` ends, with a tree that has no undefined
  behaviour in any node and whose recorded value is the value of the emitted
  text; it changes no node's type; no internal error is reached.
- **Re-checker** (not modelled). Every saved test is rebuilt once, the ones that
  pass are moved, the processes end when the walk is over.
- **Mutation campaign and scheduler.** A saved program was accepted by every
  sanitizer in the version that is saved, and grew only from versions that were
  accepted too; every mutator gets its turn before one is preferred; what the
  mutators were rewarded for agrees with what was saved; the campaign ends in time.
- **Mutators.** After any number of mutations every use still has its declaration
  before it (but for the calls between two new functions, which the code puts in the
  wrong order), and a local variable has at most one hash, that of a scalar behind its
  declaration, so that what it holds reaches the output that is compared; every
  jump has its label, and no mutation meets a label it cannot find, until a snippet
  with a loose jump is inserted.
- **YARPGen statements** (not modelled). Every array access is in bounds; the
  data that a test reads is initialised before it is read.

`PROJECT.json` lists the hazards behind these, each at its source line, with the
properties that would catch it.

## Modules

| module | models | checked by | proofs |
|---|---|---|---|
| `Verdict` | the vote of `verify_results` as operators on a vector of outcomes | through `VerifyResults`, `TestFarm` and `SeedFarm` | in the proof modules of those three |
| `Ledger` | what both drivers promise about their programs, abstractly | as a property of the runs `farm_file` and `seed_farm` | - |
| `VerifyResults` | `verify_results` statement by statement, refined against `Verdict` | run `verify_results` | `VerifyResults_proofs` |
| `TestFarm` | `run_onebyone.py`: workers, queue, lock, statistics, reports, main process; implements `Ledger` | runs `farm_*` | `TestFarm_proofs` |
| `SeedFarm` | `run_gen.py`: the same, with the seeds file, the manager process, the queue's feeder and the exit; implements `Ledger` | runs `seed_*` | `SeedFarm_proofs` |
| `RunCmd` | `run_cmd` of `common.py` and the processes of a command | run `run_cmd` | `RunCmd_proofs` |
| `BlameBisect` | `blame_opt.py` | run `blame` | `BlameBisect_proofs` |
| `IRValue` | `ir_value.cpp`, `type.cpp` | through `Expr` | in `Expr_proofs` |
| `Expr` | `expr.cpp`: evaluation, conversions, repair | run `expr` | `Expr_proofs` |
| `MutatorScheduler` | `mutator_scheduler.py` | through `DiversityFuzzer` | through `DiversityFuzzer_proofs` |
| `DiversityFuzzer` | `mutate_util.py`: both campaigns, composed with the scheduler | run `fuzzer` | `DiversityFuzzer_proofs` |
| `Mutators` | the preparation `trans_stmt_to_compound` and the three mutators, on syntax trees that are edited in place | run `mutations` | `Mutators_proofs` |
| `MCTestFarm`, `MCSeedFarm`, `MCRunCmd`, `MCVerifyResults`, `MCExpr`, `MCFuzzer`, `MCMutators` | values of the constants | | |

A definition named `..._Fault` is not part of a model. It is the definition that
follows it with a seeded fault (a dropped guard, an off-by-one, a missing reset).
`PROJECT.json` ("mutants") pairs every property of a passing run with the fault
that it detects when the faulty definition takes the place of the right one.

### TestFarm: state and actions

A worker is a process that runs `gen_and_test`. Its variable `pc` names the place
in that function, `test` is its `Test` object, `saving` holds the arguments of the
call of `save_test` it is in. The actions follow the code in order:

| actions | code |
|---|---|
| `GetSeed`, `QueueDone`, `NewSeed`, `DeadlineReached` | the head of the loop in `gen_and_test` |
| `CopySeed`, `SeedMissing`, `RunGrammarinator`, `SaveIce`, `SetStatus` | `Test.__init__` with the sanitizer stage |
| `SaveMutateFail`, `SaveGenFail` | the program was refused or not generated |
| `Build`, `Run`, `RunGarbled` | one target after the other |
| `SaveBuildFail`, `NoRunFail`, `SaveRunFail`, `VerifyOk`, `VerifyBad`, `Finish` | `handle_results`: `save_failed` twice, `verify_results`, the entry in a list of seeds |
| `AcquireLock`, `CopyReport`, `CopyFails`, `CopyExits` | `save_test` |
| `NoAnswer` | a call on the statistics after their manager has gone with the main process |
| `MainAcquire`, `MainPrint`, `CleanTmp`, `MainCheckAlive`, `MainCleanup` | the main process |
| `Tick` | the clock |

A step is as large as the code between two points at which processes can
influence each other: the queue, the lock, the result directory, the statistics.
One call on the managed `Statistics` object is one step. The manager serves every
client in a thread of its own and takes no lock, so an increment (`self.total += 1`)
is atomic only where the interpreter makes it so, from CPython 3.10 on; under an
older one, which the version check of the script also accepts, two workers may
lose an update. That interleaving is listed as a hazard and is not modelled.

An exception nobody catches, and `exit()`, end the process: `pc = "crashed"`. The
state it had is kept, so that properties can ask what was lost with it. Python's
multiprocessing lock is not released by the death of its holder, and `save_test`
catches every `Exception` inside the section (`CopyFails`); but when a file of the
report is missing, `check_and_copy` calls `exit()`, and `SystemExit` is none. It ends
the worker inside the section, and only the `finally` clause gives the lock back
(`CopyExits`). With `--std c++` (`standard`, fixed at the beginning), the default, that is
what happens to every failed test: the program is in `test.c`, every build fails for want of
`test.cpp`, and `test.cpp` is among the files to save. The reports of the sanitizer stage
and of refused programs have files of their own and are saved.

The main process starts `tmp_cleaner.sh` in its first turn. The script is not in the
repository; without it `Popen` raises, and the main process ends (`CleanTmp`, if
`CleanerMissing`; `mainPc = "died"`). The manager of the statistics ends with it, and
a worker dies at its next call of them (`Served`, `NoAnswer`); those that have none
left finish in peace.

Nondeterministic: the outcome of every external command (build, run, generator,
sanitizer), the order of the queue, `queue.Empty` from a queue that is not empty,
the vanishing of a program file, output that is not UTF-8, a full disk. A test
name is the operator `TestName`, so that a configuration can choose names that
are distinct (`OwnName`) or the ones the code makes of grammarinator's seeds
(`EmptyName`).

### Ledger, and what implements it

`Ledger` knows items and their places: *waiting*, *held*, and the three final ones,
*passed*, *failed*, *lost*. An item is taken, then settled, and that is all. Both
drivers map their state to it (`PlaceOf`): a program is held while a worker that
lives has it in hand, passed or failed when a list of `Statistics` has it, and lost
when the worker that had it is dead. `Book == INSTANCE Ledger WITH ...`, and
`Book!Spec` is a property of `TestFarm` (`SeedsTracked`), `Book!FairSpec` one of
`SeedFarm` (`SeedsSettled`): every step of the drivers is a step of the ledger or
leaves it alone, so that no seed is tested twice, none moves back, and none changes
from one list to the other. With fairness no worker keeps one for ever.

### SeedFarm: state and actions

The worker is that of `TestFarm` with csmith in the place of the copied file and
without screening. Since the steps of one worker between two uses of something
shared are one step, all its targets are built and run in `RunTargets`. What the
module adds is what surrounds the workers:

| actions | code |
|---|---|
| `ReadSeeds`, `CheckCompilers`, `StartWorkers` | `proccess_seeds`, `print_compilers_version`, and the start of manager and workers |
| `MainAcquire`, `MainPrint`, `CleanTmp`, `MainCheckAlive` | the loop that prints the statistics and starts `tmp_cleaner.sh` |
| `MainCleanup`, `JoinChildren`, `JoinFeeder` | the end of the main process: clean-up, and what multiprocessing does at exit |
| `GetSeed`, `QueueDone`, `NewSeed`, `DeadlineReached`, `Generate`, `SaveGenFail` | the head of `gen_and_test` and `Test.__init__` |
| `RunTargets`, `SaveBuildFail`, `SaveRunFail`, `VerifyOk`, `VerifyBad`, `Finish` | the targets and `handle_results` |
| `AcquireLock`, `CopyReport`, `CopyFails`, `CopyExits` | `save_test` |

`setup` is the command line and the surroundings of one start of the driver, chosen
at the beginning: the lines of the seeds file, the language, `--creduce`,
`--ignore-comp-time-exp`, whether `tmp_cleaner.sh` and the compilers are there,
whether the disk can be written, and which outcomes builds and runs may have.

The `Statistics` object lives in a manager process, which ends with the main
process; from then on each of its calls raises and ends the worker that made it
(`Unserved`). The queue is a pipe that a thread of the main process feeds: at its
exit the main process waits until all seeds are in the pipe (`PipeSize`), and if
nobody reads them any more it waits for ever (`Blocked`). That is a behaviour of the
code, so `MainEnds` promises the end only if few enough seeds are left over.

csmith writes `test.c`, whatever language was chosen; with C++, the default, every
build fails for want of `test.cpp`, and the report cannot be saved, because
`check_and_copy` calls `exit()` when a file is missing. `SystemExit` is no
`Exception`: it ends the worker inside the critical section, and only the `finally`
clause gives the lock back (`CopyExits`). `--creduce` ends a worker in the same
way, looking for `func.c`.

### RunCmd

The command is a set of processes that fork, end and die; run_cmd waits for the end
of its two pipes and for the first of them. `manner` says how the processes behave:
which ignore SIGTERM, which start a session of their own, which close the pipes. The
timeout and an interrupt may come at any moment between two steps of the processes.
A fork copies what its parent did (group, pipes), and processes forked after the
signal was sent are remembered (`heir`), because no signal reached them. The second
`communicate` may raise a `ValueError`, which the code catches: the output is then empty,
and only the leader is waited for, by the `with` statement (`PipesGone`,
`LeaderReaped`). An interrupt while that goes on is not modelled; nothing there
handles it.

### Verdict and VerifyResults

`Verdict` states the verdict as a function of the outcomes: what is grouped, which
rule is asked, what it answers. `VerifyResults` keeps the dictionary, the two
lists and the three conditional swaps of the code as a state machine. The
property `ComputesVerdict` says that the second ends with the value of the first;
`TestFarm` uses the first. That makes the vote one action of the driver, and
keeps its statements checked.

### BlameBisect

`fails` is the set of limits at which the test fails, any set that contains the
largest limit: one optimisation may hide what another one broke, so failure is not
assumed to be monotone. With `flaky` the probes answer arbitrarily. One `Probe` is
one turn of the loop of `execute_blame_phase`, one phase follows the other through
`limits`. `MinOpt` is 1: if a compiler prints 0 as the number of its steps and the
probe with limit 0 does not fail, the loop of the code never ends (`next` of the
interval 0..0 is 0, and the loop is left below the upper end only at `end - 1`).
The limit 0 itself is never probed unless it is the only one; the search assumes
that the program is good without any optimisation step. `FoundSwitchPoint` says so.

### IRValue and Expr

`IRValue` translates every operator with the check the code makes: overflow of a
sum from the sign bits, of a product from the halves of its absolute values, of a
left shift from the most significant bit. The widths are constants, and TLC uses a
machine with integers of 2, 3, 4 and 6 bits, which keeps what matters: three
widths below, at and above that of `int`, signed and unsigned, promotion from each,
and halves of a product that can overflow by themselves.

A tree of `Expr` stores, like a C++ node after `evaluate`, its value. `Node` builds
one as constructor and `propagateType` do, with the conversions of its operands.
`rebuild` is recursive: children first, then itself, and again after every repair.
It is a stack of calls here, with one action for a call of a child, one for a
return and one for a repair. The random shift amounts are nondeterministic.
`Meaning`, in the second half of the module, says what C and C++ give as the value
of a node whose children have values, over exact integers and apart from the checks
of the code; `{}` is undefined behaviour. (A comparison, a logical or a bitwise
operator, which cannot overflow, means what the operator of the code makes of defined
operands.) Every node of a tree records its value, so
a tree is right when each of its nodes is: `RebuiltIsDefined` asks that of all
`Nodes` of what `rebuild` hands back. `Nodes` looks `MaxHeight` levels down; in the
run no tree has a node below level 7, so that 8 leaves none out, and the proof holds
for every `MaxHeight`.

### MutatorScheduler and DiversityFuzzer

`MutatorScheduler` keeps the counts and rewards of the mutators and the one graph
the diversity of a mutant is measured against. A score is a real number,
`reward / count + sqrt(2 ln(t - 1) / count)`; the model compares two of them only
where one is at least as good in both terms (`Beats`), and lets either mutator win
otherwise. An infinite score, the strict comparison that lets the first of several
highest win, and the half reward of a mutant whose graph is not obtained are exact.

`DiversityFuzzer` extends it with the loop of a campaign; `mode` says which of the
two fuzzers runs.

| actions | code |
|---|---|
| `ReadSeed`, `SeedUnreadable` | the head of the walk over the seeds; the guided fuzzer also writes the seed and takes its graph |
| `Mutate`, `MutationFails` | one mutation, chosen at random or by the scheduler, and the writing of `test.c` |
| `Check` | one sanitizer |
| `GiveReward`, `RewardFails` | `calc_reward_2` |
| `Decide` | read the clock, then stop, save and go on, or leave the seed |

What a mutator does to the tree is one bit here: edited or not. Whether it can edit
at all depends on `program_file_path`, the list of file names whose functions are
considered, and that is modelled as the code fills it. A version of the program is
its visit, its round and the number of real edits; `accepted` remembers which
sanitizer accepted which version, for the properties only. The clock is the time
since the start; the program reads it modulo `Day`, as `timedelta.seconds` does.

### Mutators

What a mutator does is one bit in `DiversityFuzzer` and the whole state here. The
nodes of pycparser are objects that are edited in place, so the trees are a heap
here, too: `nodes` is a function from addresses to nodes `[k, n, e, s, up]`, the kind,
the name it declares, assigns, labels or jumps to, the names its expressions use,
the addresses of the statements below it in their order, and the addresses of all
nodes around it. `up` is not in the code; it says at once what the code finds by
walking down (`get_specify_nodes_by_recursion`), and `Forest` says that it agrees
with the lists of statements. A program is a sequence of functions whose bodies are
addresses.

Names and addresses are numbers. Generated names, and the nodes made for them, are
numbers that were never used before, and the parameters `arg_0`, `arg_1`, ... of a new
function are -1, -2, ... The wrapping, which makes many nodes in one step, puts the new
block around the node `x` at `SeedTop + x`. What is inserted is a list of statements,
`[items, nodes]`: the addresses of the statements and all nodes they consist of.

| actions | code |
|---|---|
| `TransStmtToCompound` | the four visitors of `trans_stmt_to_compound` (`mutate_util.py`), as far as they wrap. They touch different nodes, so that one step does what they do |
| `AppendHash` | `append_hash_4_local_variable` for one block. A scalar is hashed by a call, an array by a loop around a block with the call, as the code builds it: both are statements like any others, which later mutations prune or empty |
| `InsertSnippet`, `InsertReturn` | the two cases of `insert_code_snippet_node`; the order of its insertions is `InsertOrder` |
| `PruneSimple`, `PruneControl`, `PruneCompound` | `prune_code_snippet_node` for a return or an assignment, for a branch or a `for`, and for a block whose content goes |
| `ReplaceAssignmentWithFunc` | `replace_assignment_with_func` |

Every draw of the code (the mutator, the place, the snippet, what a new pointer
points to) is an existential choice. Left out are types, values and operators,
assignments inside expressions, arrays of more than one dimension, pointers to
pointers, and array variables of a snippet, for which the code has no result and
raises a `TypeError`. The fields of a structure are one call. Where several hashes are
put next to each other into an emptied body the code turns their order around;
the model does not. The `KeyError` of a label that no block holds is the place
`raised`.

What comes in from outside is described by two operators, and both are assumed, so
that TLC evaluates them on the values of the run. `IsSeed` is a program of csmith as
pycparser reads it: its trees are a forest, every jump has its label and every use its
declaration, each initialised variable has a name of its own, a jump or a label is a
statement of a block, a branch or a loop, a label stands before a statement that is no
jump, label or declaration, a return ends its block, and nothing is hashed yet.
`IsSnippet` is any statement of such a program, as the extractor takes it
(`extract_ingredient.py`): it may declare variables, and uses them, global ones, and its
undeclared ones (`vars` of them), which become new variables. It may hold jumps and
labels anywhere, with or without their partners, since nothing filters or wraps them.

What holds in spite of that is said with `tame`, a history variable: true until a snippet
is inserted in which a jump or a label is no statement of a block, or a jump has no
label (`IsTame`). After such a snippet the code does break programs: with two loose
jumps to one label, pruning the branch of the first takes the label from the second,
and a label below a case raises the `KeyError`. Snippets whose jumps are in order stay
within the claim. Not claimed at all: that labels are unique (a snippet that is inserted
twice brings its labels twice, since only variables are renamed), that an array keeps
its hash, and the order of new functions.

## Runs

| run | question | bounds | states |
|---|---|---|---|
| `verify_results` | whom does the vote accuse, when is a test accepted? | five targets of three compilers, one of them twice, two unoptimised | every vector of outcomes (7 508) |
| `farm_file` | does the driver implement the ledger, are counters, reports and verdicts right under all interleavings, with workers that die? | two workers, two programs, two targets, both standards, a main process that may die | 566 171 |
| `farm_generator` | the same for generated and screened programs, without a queue: is the lock given back on every way out of the section, where may a refused program get to, does the driver stop at the deadline, clean up and end? (liveness) | two workers, one target, one started test, deadline 1, one crash report per test, a disk that may be full, both standards, a main process that may die | 17 004 |
| `seed_farm` | does `run_gen.py` implement the ledger, with fairness, is every kind of failure reported, does the main process end? (liveness) | two workers, two seeds, two targets, a pipe for one seed, one thing at a time that goes wrong | 85 910 |
| `run_cmd` | is the output complete, what stays behind, does it return? (liveness) | three processes with every behaviour | 123 520 |
| `blame` | is the switch point found, in how many builds, does triage end? | three phases, at most six steps | 44 100 |
| `expr` | does `rebuild` end with a defined expression of the recorded value? | one level over all boundary values, two levels over a selection | 515 397 |
| `fuzzer` | is everything saved checked, is the reward right, does the campaign end in time? | two seeds, three mutators, two mutations per visit, a day of 5 units, campaigns of 2 and 5, rounds of 1 or 2 | 180 166 |
| `mutations` | does a program keep its labels, declarations and hashes, and does no mutation raise? | two programs, two snippets (one with two variables, a declaration, a label and its jump, one with a loose jump), one global variable, two mutations in a row | 186 548 |
| `farm_gen_fail`, `farm_names`, `seed_reports` | three disagreements of the code with its docs, see below | as above; three targets in the last | |

Two workers are enough for the lock, the queue and the lists: every property
relates one worker to the others as a whole or two workers to each other. The
proofs of the safety properties of the farm do not depend on the number. Two
targets are enough to have one that fails and one that does not; the vote, which
needs more, has its own run. In `farm_file` the first test may fail while the
second is being taken, saved, or lost with its worker. `MaxTests`, `MaxClock` and
`MaxIce` cap what the code leaves open (tests until a deadline, seconds, crash
reports per test); one crash report is enough to have the lock taken once more
before the verdict on the same test. In `farm_generator` a second test per
worker would only repeat the first: work directories are cleaned and no state of a
worker outlives its test. The lock of `TestFarm` is checked there, where every
way out of the critical section can be taken (saved, refused by the disk, left by
`exit`), between a worker and the main process; `seed_farm` has two workers that
compete for it, and `LockSafe` is proved for any number. `SeedFarm` is checked over the set `AllSetups`: one program with every outcome
of its targets, and with two workers a file that names a seed twice, a full disk, a
missing `tmp_cleaner.sh`, the wrong language, a line that is no seed, a missing
compiler, an empty file. A pipe that takes one of two seeds is the least with
which the queue can keep the main process from ending. Three processes are a
command, its child and its grandchild, so that a process outside the group can
have one of its own, and a process can be forked by one that is about to die.
`DeepOps` and `DeepConstants` cap the second
level of the expressions: a repaired operator as an operand of another one, on
either side, and in the branch of a choice that is not taken. The symmetric run
(`farm_file`) checks no liveness.

In `fuzzer` three mutators, one of each kind, are the least for which the head of
the list, tried twice, differs from the others and the last may be starved; a
campaign of 5 units in a day of 5 is the experiment of the code (86 400 seconds in
`random_fuzzer_for_experiment`), whose time never expires by comparison with its
length. `MaxRound` is less than `Day`: a round of a day or more would not be seen
to wrap around, and no round lasts that long, since every command in it has a
timeout.

In `mutations` the two programs have what csmith writes and the mutators tell apart:
jumps forwards, backwards and into a branch, a loose jump as a branch, a label on a
loop, an array, nested blocks with locals, a function with an empty body. `SeedTop`, `SnippetTop`
and `FirstFresh` only keep the addresses of seeds, snippets and new nodes apart. Two mutations are
enough for the hazards that were found: each needs one that prepares (a body that was
emptied, a label that went, a function that was made) and one that then meets it.

`CHECK_DEADLOCK FALSE` appears in three configurations: in `Expr.cfg` and `RunCmd.cfg`,
because `rebuild` and `run_cmd` are functions and return, and in `Mutators.cfg`, because a seed gets `MaxMutations`
mutations and no more. In `TestFarm`, `SeedFarm`, `BlameBisect` and `DiversityFuzzer` the end is a self-loop of
its own (`Finished`, `Ended`), so that any other standstill is reported.

### Fairness

- Workers and main process: weak fairness each. They are processes of the
  operating system, every command they run has a timeout, and none of their steps
  waits for another process except for the lock. That a command with a timeout comes
  back is what `RunCmd` is for: `Returns` holds for commands that neither ignore
  SIGTERM nor take the pipes into another session, and fails for the others, because
  the second `communicate` has no timeout. The liveness of the drivers holds for
  programs and compilers of the first kind.
- `RunCmd`: weak fairness of the steps of run_cmd (not of the `ValueError`, which need
  not come) and of the death of a process that
  has a deadly signal. That a command ends by itself is not assumed.
- The lock: strong fairness of taking it. A waiting process is woken by a release;
  the main process sleeps for a second between two uses, and the workers run
  commands.
- The clock: weak fairness.
- `BlameBisect`, `Expr` and `DiversityFuzzer` are single loops; weak fairness of
  `Next`. The random fuzzer draws a mutator again when a prune found nothing to
  prune; the draw is part of `Mutate`, so that it ends is assumed (an insertion,
  which always ends it, comes up with probability one).

### Disagreements found

1. `farm_gen_fail`: a failure of the generator is found and then lost.
   `build_log` needs the attribute `yarpgen_cmd`, which no live statement assigns;
   the exception ends the worker.
2. `farm_names`: seeds of grammarinator are numbers, but the test name is made by
   cutting off two characters, meant for `.c`. All names of one- and two-digit
   seeds are empty and the reports overwrite each other.
3. `seed_reports`: all build failures of a test share one report, that of the first.
   If the first is a build timeout, of which by default only the log is saved, then a
   program that another compiler rejected or crashed on is not saved anywhere.

Shown by a theorem instead of a run: the guided fuzzer never mutates anything
(`GuidedFuzzerEditsNothing`). It tells the mutators to look at the functions of
`test.c` (`mutate_util.py:799`), while those of the tree carry the name of the seed; no function is found, nothing is
edited, and the seed is saved again and again under the labels of mutations.

Seen while reading, without a run, in the drivers: after the triage of a run failure, triage of the
miscompare of the same test always raises `FileExistsError`, because the directory
`blame` is still there (`run_onebyone.py:1112`; modelled so); `--seeds` of
`run_gen.py` is overwritten by the seeds file (1613), `--timeout` has no effect with
one, its comment lines are refused, and the file itself,
`seeds4exp_10t_new.txt`, and `tmp_cleaner.sh` are not in the repository; the default
language is C++ although csmith writes C. The Makefile generator adds
`BLAMEOPTS` and `STATFLAGS` to the rule of a source called `func` only
(`gen_test_makefile.py:390`), while the sources list says `test`: as it is set up,
the limits of the triage reach no compiler (but dpcpp, which takes them from the
environment), and what remains of `BlameBisect` is its path `NoStepNumber`. In the
other parts: `canRepresentType(a, b)` (`type.cpp:104`) answers
whether `b` represents `a`, the reverse of its comment (`type.h:122`) and of its use
in `arithConv`, so that `long long` with `unsigned int` becomes `unsigned long long`
(modelled so; the casts are emitted with the program, which stays valid); `--creduce` ends the worker (`check_and_copy`
looks for `func.c`, line 625); a run with a queue ignores `--timeout` (1750);
`--fuzzer-nums 0` means "until the timeout" (1675); a generator timeout is counted
as `runfail` (301); the README calls `--is-need-sanitizer` enabled by default, the
code has `False`; `MinCall` and `MaxCall` pass each other's kind to
`emitCDefinition` (`expr.h:407`); the assertion in `SubscriptExpr::rebuild`
is inverted (`expr.cpp:1579`); `divModImpl` refuses `MIN % -1`, which is what the
standards ask for, although the result is representable in practice; the repair of
a shift takes `std::abs` of the amount, which overflows for the smallest
`long long` (modelled as the mathematical absolute value); the replace mutator puts
the new function before the one it calls when it replaces an assignment a second
time (`UsesDeclared` leaves calls between new functions out for that reason); the
labels of snippets are not renamed; the loop that hashes an array can be pruned; the
snippets are not wrapped in blocks as the seeds are, so that a loose jump in one
outlives its label; `construct_variable_init_stmt_node` overwrites the variable it chose to reuse
(`if` for `elif`, `mutate_common.py:342`) and has no result for arrays; the last
accepted program of a campaign is not saved, because the clock is read first;
`rechecker.py` cannot start (line 155 uses a name that does not exist, and line 59
would call `print_compilers_version` without its second argument).

## Proofs

TLAPS proves, for any number of workers, programs, targets, phases, steps and
mutations, for all seeds and snippets, and for every width:

| theorem | says | argument |
|---|---|---|
| `TestFarm_proofs!TypeCorrect` | the types | inductive as it stands |
| `LockSafe` | mutual exclusion, also with workers that die | inductive on top of the types: an action that enters the critical section finds the lock free, the three that leave it give it back, the worker that dies inside in the same step |
| `StatusFits` | a refused or failed test never reaches the targets or the verdict | inductive: the status of a test is tied to the place of its worker, or to the place it will go on at while it is in `save_test` |
| `SeedsAccounted` | every program is in exactly one place (`SeedAccounting`) | not inductive alone: that `GetSeed` starts from a worker without a test, and that `Finish` registers a test that was not registered, follow from `StatusFitsPlace` |
| `FarmImplementsLedger` | `TestFarm` refines `Ledger` | each action settles, takes or leaves alone each program (`LedgerStep`); that a worker's step is about its own program only follows from the accounting and the places |
| `CleanupSafe` | clean-up after the last worker | a dead or ended worker takes no step |
| `VerdictsFit`, `VerdictsSound` | a seed is listed as passed only when all targets printed the same text without an error, as failed only otherwise (`VerdictSound`) | inductive (`VerdictFitsRuns`): when a test is compared all its runs are over and readable, and from the comparison to the entry in a list the status stays "ok" exactly if the results agreed; that one entry in the dictionary of results means one text from all targets is a fact about finite sets |
| `TestFarm_proofs!ReportsAccounted`, `FailuresReported`, `NoReportLost` | every program listed as failed has a report of its own (`FailReported`), and no report is ever overwritten (`ReportsKept`) | inductive (`ReportInv`): what a worker is about to save fits the place where it goes on, what is behind that place is saved, and of what lies ahead no report of its program exists. Under the hypotheses below |
| `DifferencesCounted` | `out_dif` of a target counts the reports that blame it, those waiting for the lock included | by cardinality: each comparison adds the target blamed and the pending report that blames it in one step, and saving turns the pending report into one that did not exist before, which is where `ReportInv` is needed |
| `VerifyResults_proofs!StatementsComputeVerdict` | the statements of `verify_results` end with the verdict `TestVerdict` that the drivers use (`ComputesVerdict`) | inductive: what the statements left behind so far, place by place |
| `AcceptedTestsAgree`, `LessPreferredBlamed`, `DeviatorBlamed` | what the verdict is worth: an accepted test printed one text without an error; of two results the less trustworthy one is blamed; a single target that disagrees with all others is blamed | from `ComputesVerdict` and lemmas on the vote (the least element of a set of targets exists; a swap keeps ballots fair; each of the three statements settles what the earlier ones left open) |
| `SeedFarm_proofs!TypeCorrect`, `LockSafe` | types and mutual exclusion of `run_gen.py` | as in `TestFarm`; a worker that exits inside the section gives the lock back in the same step |
| `StatusFits`, `SeedsAccounted` | a seed of the file is queued once, in one worker's hands, or in one list (`Accounting`) | before the file is read every seed is `Free`, and no worker runs (`NotStarted`), so filling the queue duplicates nothing; a test is registered either by the constructor (generator failure) or by `Finish`, never by both, because its status is tied to the worker's place (`StatusFitsPlace`) |
| `SeedFarmImplementsLedger` | `SeedFarm` refines `Ledger`, without the fairness | every worker step takes a seed, settles one, or keeps its hands as they are (`TakesSeed`, `Settling`, `HandKept`); calls to a manager that is gone are the steps that lose a seed |
| `SeedFarm_proofs!ReportsAccounted`, `FailuresSaved`, `NoReportLost` | before a test is registered each kind of failure it showed has its report (`EveryFailureSaved`), and no report of a program is overwritten (`ReportsKept`) | inductive (`ReportInv`): what a worker is about to save fits the place where it goes on, what is behind that place is saved, and of what lies ahead no report of its seed exists; a waiting seed has no report at all, and by the accounting no two workers have one seed |
| `RunCmd_proofs!SurvivorsKnown` | `NothingLeftBehind`, for any number of processes | inductive with what has been signalled, and what is known of the leader, the pipes and the output, in each place of `run_cmd` |
| `BlameBisect_proofs!TypeCorrect`, `BracketKept`, `SwitchPointFound` | the search keeps its bracket and reports a switch point | the invariant `Inv` is types, bracket, switch point and "a phase is open" together; the arithmetic of the halved interval is a step of its own |
| `SearchIsShort` | at most 1 + log2 builds in a search (`FewProbes`) | two to the number of builds, times what is left of the interval less one, stays below its length at the start (`Halved`) |
| `DiversityFuzzer_proofs!TypeCorrect` | the types, with what holds in the middle of a round (`InRound`) | inductive together |
| `EveryMutatorTriedEarly` | after more rewards than mutators, all were tried | mutator `n` of the list has been tried after `n + 1` rewards (`InOrder`): if it is the next to be due, it or one before it is the first without a score, and that is the one chosen |
| `CampaignStopsInTime` | the campaign is over in the first round past its time, or past a day | the last time read is the true one as long as the campaign runs, so a reading below it means a new day |
| `SavedProgramsWereChecked` | what is saved was accepted by all sanitizers | the ones before the next have accepted the current version (`AllAgreed`) |
| `GuidedFuzzerEditsNothing` | no version of the guided fuzzer has an edit | `program_file_path` only ever holds the name of the temporary program |
| `RewardsTellWhatIsSaved` | every program the guided fuzzer saved earned its mutator at least one, no mutator earns more than two a turn, and the turns add up to the rounds | a mutator whose mutant is about to be saved has one reward that no saved program accounts for yet (`Earned`); the sum over the table is a recursive function of the library, so that it exists and grows by one with one entry is proved first, by induction on the size of the set (`SetBySet`, `SumCountsOne`) |
| `SavedProgramsGrowFromSaved` | whatever is saved, all versions it grew from in that visit were saved before (`SavedChain`) | in the middle of a visit all earlier versions are saved (`ChainSoFar`), because a refused one ends the visit |
| `Expr_proofs!AddCheckExact`, `SubCheckExact` | the sign-bit test is exact for every width | the wrapped result differs from the exact one by the size of the type, in the direction of the operands' sign |
| `MulCheckExact` | the test on the halves of a product is exact for every even width, MIN times -1 included | a product of two high halves does not fit; with one of them zero, the middle part and the low product are bounded by powers of two, and the sum wraps only if the test sees it |
| `DivCheckSound`, `ShiftCheckExact` | a quotient is out of range only for zero and MIN by -1; the most significant bit decides whether a left shift leaves the type, in C and in C++ | division by truncation in terms of quotient and rest; a number with its most significant bit at `m` lies between two powers of two |
| `OneRepairIsEnough` | the operator put in the place of an overflowing one cannot overflow | case by case over the causes |
| `TreesAreWellMade`, and from it `RebuiltDefined`, `EvaluationSound`, `NothingAborts`, `TypesAreKept` | `RebuiltIsDefined`, `EvaluationIsSound`, `NeverAborts`, `RepairKeepsType`: for every width, every constant in the leaves and every height | see below |
| `Mutators_proofs!LabelsAreKept`, `NothingRaises`, `DeclarationsAreKept`, `HashesAreKept` | `JumpsHaveLabels`, `NoKeyError`, `UsesDeclared`, `LocalsAreHashed`: for all seeds that compile, all snippets and any number of mutations (the first two as long as the snippets are `tame`) | see below |

The invariant of `Expr` (`Inv`) says that two sets of trees exist: `W`, closed under
children, in which every node is a constant, a cast of its child, or an operator
whose children have the types it is defined for (`Fits`), with the value that
evaluation gives it (`Local`); and `G`, closed too, in which every node is sound
(`Sound`: no undefined behaviour, and the recorded value is the meaning). The nodes
on the stack are in `W`, the children they got back are in `G`, each call is for a
child of the type its caller has there, and what is handed back at the end is in `G`.
`RebuiltIsDefined` is not inductive: it says nothing before the end. The pieces are

- `NodeComputes`: an operator whose children fit yields a value of its type, the
  right one unless it reports undefined behaviour, and only `Arithmetic`, the shifts
  and the unary minus may report any when their operands have none. One lemma per
  group of operators (`ArithmeticDenotes`, `ShiftDenotes`, `BitsDenote`, ...) rests
  on the exactness of the checks above; for the bitwise operators a number is the
  sum of the powers of two at its ones (`OnesAddUp`), by induction on the width.
- `PropagateFits`: the conversions of `propagateType` give the children the types
  of the operator, and leave children alone that have them. That is why the child of
  a node may be replaced by one of the same type (`WithKidFacts`), although
  `TypeCastExpr` does not look at it again.
- `RepairsMade`: a repair keeps the type and is never the error. For a shift that is
  `MaxShiftFacts` and `CorrectionFacts`: whatever amount is drawn, it is less than
  one that was too large, and what is added to a negative one fits a `size_t`, so
  the correction is not zero; if the repaired shift has no undefined behaviour, the
  corrected amount has none either.
- `StackCut`, `ReturnStays`: what a call, a return and a repair do to the stack.

The invariant of `Mutators` (`IInv`) is, before the preparation, that the program is
one of the seeds, and after it `Kept` (the tree and its declarations), `HashesKept`,
while all snippets are tame `JumpsKept`, while hashes are being appended `Awaiting`, and
until the first mutation `HashSeen`. None of the four properties is inductive.

- `JumpsHaveLabels` needs to know where jumps and labels are: pruning looks them up
  among the statements of blocks only, and one that stood elsewhere would stay
  behind (`JumpsPlaced`, which is also what rules out the `KeyError`). A snippet that is
  tame brings only such jumps and labels. A label gives
  way to its statement, so it must have exactly one, and that one must be no jump,
  label, declaration or hash, or it would get out of its place (`Shaped`).
- All of them need the heap to be a `Forest` with the bodies of the functions on top
  (`Rooted`): that two nodes with a common descendant are one around the other makes
  what is pruned in one function leave the others alone.
- `UsesDeclared` needs, besides, that nothing uses what a pruned statement declared.
  A cut takes either everything inside a block, or one branch, loop, return or
  assignment, which declares nothing for the statements behind it (`CutFrom`,
  `CutKeeps`).
- `LocalsAreHashed` is weaker than what a step keeps: hashes of one variable are one
  (`HashedOnce`), the declaration of a scalar is followed by it (`HashFollows`), and a
  new variable has a name above all that are hashed (`CallsBelow`). While blocks
  wait for their hashes their variables have none, and are declared once each
  (`Awaiting`); the hashes are put before a return at the end of the block, the only
  place of one in a seed, so that none comes first (`HashSeen`).

Each edit has a lemma on the heap it leaves (`InsertedForest`, `CutForest`,
`UnlabelledForest`, `WrappedForest`), and one on what it keeps. Insertions, and the
hashes of the preparation, are `Extends`: every node keeps its kind, its place
and the order of the statements around it (`ExtendsKeeps`, `ExtendsHashes`), so that
what was declared before a use still is (`ExtendsDeclared`, `UsesKept`). Since a node
knows all nodes around it, no proof needs induction over trees.

The theorems assume only the named assumptions of the modules. `PowerAssumption` in
`IRValue` and in `BlameBisect` is the definition of powers of two by doubling, which
the prover does not know (what else is needed of them, and of division, is proved);
TLC evaluates it, as it does all others. `BoundsAssumption` of `Expr` says that the
operators chosen for two-level expressions are binary ones, and `ConstantsAssumption`
that the leaves are values of their types.

The theorems on the reports of `TestFarm` have hypotheses, all of which the values
of the run `farm_file` satisfy. Programs have names of their own, and none is named
like a report of a generator failure (`NamesFit`): the run `farm_names` shows a
report overwritten without it. The programs come from a queue (`UseQueue`): a timed
run names its tests after process and time, and is only model-checked. There is no
sanitizer stage (`~NeedSanitizer`, for `NoReportLost` and `FailuresReported`): its
reports are named after the second, and two in one second share a directory. Nothing
is generated (`Fuzzer = "file"`, for `FailuresReported`): a generator failure is
listed before it is saved, under a name of that kind, too. The disk can be written
(`~DiskCanFail`, for `FailuresReported` and `DifferencesCounted`): a report that
cannot be copied is counted and lost. In `SeedFarm` the theorems need no such
hypotheses; its properties name the exceptions.

The theorems on `Mutators` assume that the seeds and the snippets are such as `IsSeed`
and `IsSnippet` say, which of a snippet is little more than that it declares what it uses
(`ProgramsAssumption`, `SnippetsAssumption`) and that the ranges of
addresses are apart (`BoundsAssumption`).

Only model-checked: liveness (`Termination`, `MainEnds`, `Returns`, the fair half of
`SeedsSettled`, `TriageEnds`, the two `Terminates`), which the prover does not treat.

## Plan

In this order, the most important first; the first nine and the last two are done.

1. `Verdict`, `VerifyResults`: the vote and its statement-by-statement refinement.
2. `TestFarm`: the driver, composed with `Verdict`; runs for files, generated
   programs, timed runs.
3. `TestFarm_proofs`: types, lock, places, accounting, clean-up, verdicts, reports,
   counts; `VerifyResults_proofs`: the vote.
4. `BlameBisect` and its proofs.
5. `IRValue`, `Expr`, and the overflow theorems.
6. `MutatorScheduler`, `DiversityFuzzer` and their proofs.
7. Mutators: the syntax tree under `trans_stmt_to_compound`, insert, prune and
   replace.
8. `Ledger`, the abstract specification of both drivers, and its refinement by
   `TestFarm`, checked and proved; `SeedFarm`: `run_gen.py`, the driver with csmith,
   which implements it, too, checked and proved.
9. `RunCmd`: the commands of the drivers and their timeouts.
10. YARPGen statements: loop nest, context, iterator ranges and subscripts (every
   access in bounds), data and its initialisation.
11. Options: the passes over the arguments and the probability tables after
    `shuffle`, `uniform` and removal.
12. `Expr_proofs`: the checks of every operator against exact integers, and that
    repair ends in sound trees only, keeps types and never aborts.
13. Proofs about `Mutators`: labels, declarations and hashes.

Not planned: emission of text and Makefiles, the collection of coverage, the
hardware probe, which are input and output without a state of their own; the
re-checker, which cannot start at this commit.
