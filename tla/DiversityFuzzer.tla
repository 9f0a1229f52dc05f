-------------------------- MODULE DiversityFuzzer -------------------------
(* The mutation campaign of scripts/util/mutate_util.py: random_fuzzer and *)
(* diversity_guidance_fuzzer.  Both walk the seeds again and again; a seed *)
(* is mutated up to MutateNum times, one mutation on top of the other, and *)
(* after each the program is accepted by three sanitizers.  A program that  *)
(* passes is saved; one that does not ends the visit of its seed.          *)
(*                                                                         *)
(* What a mutation does to the text is module Mutators; here a program is  *)
(* its seed and the number of edits that were really made to it.           *)
(***************************************************************************)
EXTENDS MutatorScheduler, FiniteSets, Functions

CONSTANTS
    Modes,          \* the fuzzers to run: a set of "random", "guided"
    Seeds,          \* the file names of the seeds, in the order of the walk
    TestC,          \* the name of the temporary program, test.c
    Inserts,        \* the mutators insert-...
    Prunes,         \* the mutators prune-...
    MutateNum,      \* mutations in one visit of a seed
    LastingTimes,   \* values of lasting_time
    Day,            \* where timedelta.seconds wraps around (86400)
    MaxRound        \* bound: the longest round; the unit is the shortest one

ASSUME FuzzerAssumption ==
    /\ Modes \subseteq {"random", "guided"}
    /\ Seeds \in Seq(STRING) /\ Len(Seeds) > 0
    \* The walk sorts by the third field between dashes of the file name.
    /\ TestC \in STRING /\ \A n \in DOMAIN Seeds : Seeds[n] # TestC
    /\ Inserts \subseteq Mutators /\ Prunes \subseteq Mutators
    /\ MutateNum \in Nat \ {0}
    /\ Day \in Nat \ {0} /\ LastingTimes \subseteq Nat
    /\ MaxRound \in 1..(Day - 1)

VARIABLES
    mode,                \* which of the two fuzzers runs
    lasting_time,
    program_file_path,   \* the file names in the global list of that name
    pc,
    seed,                \* position in Seeds
    visit,               \* how many seeds were read
    i,                   \* mutations made or under way in this visit
    edits,               \* edits really made to ast in this visit
    labels,              \* mutation_operator_labels, as a set
    mutator,             \* the mutator chosen in this round, or "none"
    test_c,              \* what test.c holds: the version saved last, or <<>>
    accepted,            \* who accepted what in this visit (history)
    is_free,
    sanitizer,           \* the number of the next one of MSAN, ASAN, UBSAN
    clock,               \* time since the start
    last_running_time,
    target_dir           \* the programs saved

vars == <<schedulerVars, mode, lasting_time, program_file_path, pc, seed, visit, i,
          edits, labels, mutator, test_c, accepted, is_free, sanitizer, clock,
          last_running_time, target_dir>>

\* The part that a step between two readings of the clock leaves alone.
campaignVars == <<mode, lasting_time, clock, last_running_time, target_dir>>

Sanitizers == 3   \* MSAN, ASAN, UBSAN
Version == [visit : Nat, i : Nat, edits : Nat]

TypeOK ==
    /\ SchedulerTypeOK
    /\ mode \in Modes /\ lasting_time \in LastingTimes
    /\ program_file_path \subseteq {Seeds[n] : n \in DOMAIN Seeds} \cup {TestC}
    /\ pc \in {"seed", "mutate", "check", "reward", "decide", "done", "crashed"}
    /\ seed \in DOMAIN Seeds
    /\ visit \in Nat /\ i \in 0..MutateNum /\ edits \in 0..i
    /\ labels \subseteq Mutators /\ mutator \in Mutators \cup {"none"}
    /\ test_c \in Version \cup {<<>>} /\ accepted \subseteq (1..Sanitizers) \X Version
    /\ is_free \in BOOLEAN /\ sanitizer \in 1..(Sanitizers + 1)
    /\ clock \in Nat /\ last_running_time \in 0..(Day - 1)

Init ==
    /\ SchedulerInit
    /\ mode \in Modes /\ lasting_time \in LastingTimes
    /\ program_file_path = IF mode = "guided" THEN {TestC} ELSE {}
    /\ pc = "seed" /\ seed = 1 /\ visit = 0 /\ i = 0 /\ edits = 0
    /\ labels = {} /\ mutator = "none" /\ test_c = <<>> /\ accepted = {}
    /\ is_free = TRUE /\ sanitizer = 1
    /\ clock = 0 /\ last_running_time = 0 /\ target_dir = {}

---------------------------------------------------------------------------
(* The head of a visit: read and parse the seed.  The random fuzzer adds   *)
(* the name of the seed to program_file_path; the guided one writes the    *)
(* seed to test.c, the only name it ever put there, and takes its graph.   *)
ReadSeed ==
    /\ pc = "seed"
    /\ visit' = visit + 1 /\ i' = 0 /\ edits' = 0 /\ labels' = {}
    /\ accepted' = {}
    /\ IF mode = "guided"
       THEN /\ test_c' = [visit |-> visit + 1, i |-> 0, edits |-> 0]
            /\ \E compiled \in BOOLEAN : SeedCfg(compiled)
            /\ UNCHANGED program_file_path
       ELSE /\ program_file_path' = program_file_path \cup {Seeds[seed]}
            /\ UNCHANGED <<test_c, schedulerVars>>
    /\ pc' = "mutate"
    /\ UNCHANGED <<seed, mutator, is_free, sanitizer, campaignVars>>

(* A seed that the parser does not understand, or without its seventh line *)
(* or its name in dashes, is an exception that nothing catches.            *)
SeedUnreadable ==
    /\ pc = "seed"
    /\ pc' = "crashed"
    /\ UNCHANGED <<schedulerVars, program_file_path, seed, visit, i, edits, labels, mutator,
                   test_c, accepted, is_free, sanitizer, campaignVars>>

(* get_func_def_nodes: only functions that were read from a file named in  *)
(* program_file_path.  The functions of a seed carry the name of the seed. *)
FunctionsFound == Seeds[seed] \in program_file_path

\* One mutation edits the program or finds nothing to edit.  The random
\* fuzzer draws again when a prune found nothing.
MayEdit(m, edited) ==
    /\ edited => FunctionsFound
    /\ mode = "random" /\ m \in Prunes => edited

Mutate ==
    /\ pc = "mutate" /\ i < MutateNum
    /\ \E m \in (IF mode = "guided" THEN GetMutator ELSE Mutators), edited \in BOOLEAN :
        /\ MayEdit(m, edited)
        /\ mutator' = m
        /\ edits' = IF edited THEN edits + 1 ELSE edits
        /\ labels' = labels \cup {m}
    /\ i' = i + 1
    /\ test_c' = [visit |-> visit, i |-> i + 1, edits |-> edits']
    /\ is_free' = TRUE /\ sanitizer' = 1
    /\ pc' = "check"
    /\ UNCHANGED <<schedulerVars, program_file_path, seed, visit, accepted, campaignVars>>

(* A mutation of a program that it cannot handle (an array to initialise,  *)
(* a label in an odd place) raises an exception that nothing catches; with *)
(* no function found there is nothing to raise it.                         *)
MutationFails ==
    /\ pc = "mutate" /\ i < MutateNum /\ FunctionsFound
    /\ pc' = "crashed"
    /\ UNCHANGED <<schedulerVars, program_file_path, seed, visit, i, edits, labels, mutator,
                   test_c, accepted, is_free, sanitizer, campaignVars>>

(* One sanitizer builds and runs test.c; the first that objects is the last. *)
AfterCheck_Fault(ok) ==
    /\ is_free' = ok /\ sanitizer' = sanitizer + 1
    /\ pc' = IF sanitizer < Sanitizers THEN "check" ELSE IF mode = "guided" THEN "reward" ELSE "decide"
AfterCheck_Again_Fault(ok) ==   \* a refused program is checked all over again
    /\ is_free' = ok /\ sanitizer' = IF ok THEN sanitizer + 1 ELSE 1
    /\ pc' = IF ~ok \/ sanitizer < Sanitizers THEN "check"
             ELSE IF mode = "guided" THEN "reward" ELSE "decide"
AfterCheck(ok) ==
    /\ is_free' = (is_free /\ ok) /\ sanitizer' = sanitizer + 1
    /\ pc' = IF ok /\ sanitizer < Sanitizers THEN "check"
             ELSE IF mode = "guided" THEN "reward" ELSE "decide"

Check ==
    /\ pc = "check"
    /\ \E ok \in BOOLEAN :
        /\ AfterCheck(ok)
        /\ accepted' = IF ok THEN accepted \cup {<<sanitizer, test_c>>} ELSE accepted
    /\ UNCHANGED <<schedulerVars, program_file_path, seed, visit, i, edits, labels, mutator,
                   test_c, campaignVars>>

GiveReward ==
    /\ pc = "reward"
    /\ \E compiled, diverse \in BOOLEAN : CalcReward(mutator, is_free, compiled, diverse)
    /\ pc' = "decide"
    /\ UNCHANGED <<program_file_path, seed, visit, i, edits, labels, mutator, test_c, accepted,
                   is_free, sanitizer, campaignVars>>

RewardFails ==
    /\ pc = "reward" /\ DividesByZero(TRUE)
    /\ pc' = "crashed"
    /\ UNCHANGED <<schedulerVars, program_file_path, seed, visit, i, edits, labels, mutator,
                   test_c, accepted, is_free, sanitizer, campaignVars>>
---------------------------------------------------------------------------
(* The end of a round: read the clock, stop, save or give up the visit.    *)
(* The time of a round is any number up to MaxRound.                       *)
Expired_Fault(running_time) == running_time > lasting_time
Expired(running_time) == running_time > lasting_time \/ last_running_time > running_time

\* The labels stand in the head of the file, that of this round's mutator last.
Saved == [version |-> test_c, labels |-> labels, mutator |-> mutator,
          accepted |-> {n \in 1..Sanitizers : <<n, test_c>> \in accepted}]

\* for i in range(mutate_num), with a break after a program that is refused
VisitOver_Fault(free) == i = MutateNum
VisitOver(free) == ~free \/ i = MutateNum

\* while True: for test_program in seed_program_paths
NextSeed == (seed % Len(Seeds)) + 1

TimeExpired(now) ==
    /\ Expired(now % Day)
    /\ pc' = "done"
    /\ UNCHANGED <<seed, test_c, target_dir, last_running_time>>

GoOn(now) ==
    /\ ~Expired(now % Day)
    /\ last_running_time' = now % Day
    /\ IF is_free
       THEN target_dir' = target_dir \cup {Saved} /\ test_c' = <<>>
       ELSE UNCHANGED <<target_dir, test_c>>
    /\ IF VisitOver(is_free)
       THEN pc' = "seed" /\ seed' = NextSeed
       ELSE pc' = "mutate" /\ UNCHANGED seed

Decide ==
    /\ pc = "decide"
    /\ \E d \in 1..MaxRound :
        /\ clock' = clock + d
        /\ TimeExpired(clock + d) \/ GoOn(clock + d)
    /\ UNCHANGED <<schedulerVars, mode, lasting_time, program_file_path, visit, i, edits, labels,
                   mutator, accepted, is_free, sanitizer>>

Ended == pc \in {"done", "crashed"} /\ UNCHANGED vars

Next ==
    \/ ReadSeed \/ SeedUnreadable \/ Mutate \/ MutationFails \/ Check
    \/ GiveReward \/ RewardFails \/ Decide \/ Ended

Spec == Init /\ [][Next]_vars /\ WF_vars(Next)
---------------------------------------------------------------------------
Over == pc \in {"done", "crashed"}
Rounds == {"check", "reward", "decide"}   \* a mutation is made, not yet judged

(* Every mutator gets its turn before any is preferred: the head of the    *)
(* list is tried twice (there is no score before the second reward), every *)
(* other one once, and from then on all of them have a score.              *)
AllTriedEarly ==
    total_cnt > Len(Opts) => \A m \in Mutators : count[m] > 0

(* The rewards tell what the campaign achieved: each program that the      *)
(* guided fuzzer saved earned the mutator that made it at least one, a     *)
(* mutator never earns more than two a turn, and the turns add up to the   *)
(* rounds that the scores weigh them by, lost graphs or not.               *)
SavedBy(m) == {s \in target_dir : s.mutator = m}
RewardsTellSaves ==
    /\ SumFunction(count) = total_cnt
    /\ \A m \in Mutators : /\ mode = "guided" => Cardinality(SavedBy(m)) <= reward[m]
                           /\ reward[m] <= 2 * count[m]

(* A saved program was accepted, in exactly the version that is saved, by  *)
(* all three sanitizers.                                                   *)
SavedWasChecked ==
    \A s \in target_dir : s.accepted = 1..Sanitizers

(* No mutation is built on a refused program: whatever was saved in a      *)
(* visit, all the versions it grew from in that visit were saved before.   *)
SavedChain ==
    \A s \in target_dir : \A n \in 1..(s.version.i - 1) :
        \E t \in target_dir : t.version.visit = s.version.visit /\ t.version.i = n

(* The campaign stops in the first round that ends after the time it was   *)
(* given, and after a day at the latest, although the clock that it reads  *)
(* has no days: nothing is saved later.                                    *)
Limit == IF lasting_time < Day THEN lasting_time ELSE Day - 1
StopsInTime ==
    /\ pc # "done" => clock <= Limit
    /\ pc = "done" => clock \in (Limit + 1)..(Limit + MaxRound)

(* The campaign ends.                                                      *)
Terminates == <>Over

===========================================================================
