------------------------- MODULE MutatorScheduler -------------------------
(* The scheduler of mutators, scripts/util/mutator_scheduler.py: a bandit  *)
(* (UCB-1) that picks the mutator to apply next and learns from the reward *)
(* of the mutant.  Two mutators with a finite score are compared only      *)
(* where the rewards and counts alone decide; otherwise either may win.    *)
(***************************************************************************)
EXTENDS Integers, Sequences

CONSTANT
    \* @type: the mutators, in the order of MutatorScheduler.opts
    Opts

ASSUME OptsAssumption ==
    /\ Opts \in Seq(STRING) /\ Len(Opts) > 0
    /\ \A a, b \in DOMAIN Opts : Opts[a] = Opts[b] => a = b

Mutators == {Opts[n] : n \in DOMAIN Opts}

VARIABLES
    total_cnt,    \* rewards given so far
    count,        \* mutator2cnt_and_reward[m][0]
    reward,       \* mutator2cnt_and_reward[m][1]
    total_cfg     \* number of graphs in the list of the current seed, 0 or 1

schedulerVars == <<total_cnt, count, reward, total_cfg>>

SchedulerTypeOK ==
    /\ total_cnt \in Nat
    /\ count \in [Mutators -> Nat]
    /\ reward \in [Mutators -> Nat]
    /\ total_cfg \in {0, 1}

SchedulerInit ==
    /\ total_cnt = 0
    /\ count = [m \in Mutators |-> 0]
    /\ reward = [m \in Mutators |-> 0]
    /\ total_cfg = 0

(* clear_code_and_cfg, then add_code_and_cfg of the seed: nothing is added *)
(* when the compiler that writes the graph fails or takes too long.        *)
SeedCfg(compiled) ==
    /\ total_cfg' = IF compiled THEN 1 ELSE 0
    /\ UNCHANGED <<total_cnt, count, reward>>

---------------------------------------------------------------------------
(* get_mutator: the score of a mutator without a finite one is sys.maxsize *)
(* and the first of the highest wins, because the comparison is strict.    *)
Unscored_Fault(n) == count[Opts[n]] = 0 \/ total_cnt <= 2
Unscored(n) == count[Opts[n]] = 0 \/ total_cnt <= 1

\* Mean and exploration term of a are at least those of b, and a comes
\* first unless one of them is larger.
Beats(a, b) ==
    LET ma == reward[Opts[a]] * count[Opts[b]]
        mb == reward[Opts[b]] * count[Opts[a]]
        ca == count[Opts[a]]
        cb == count[Opts[b]]
    IN  ma >= mb /\ ca <= cb /\ (a < b \/ ma > mb \/ ca < cb)

Choosable(n) ==
    IF \E a \in DOMAIN Opts : Unscored(a)
    THEN Unscored(n) /\ \A a \in 1..(n - 1) : ~Unscored(a)
    ELSE \A a \in DOMAIN Opts \ {n} : ~Beats(a, n)

GetMutator == {Opts[n] : n \in {a \in DOMAIN Opts : Choosable(a)}}

---------------------------------------------------------------------------
(* calc_reward_2.  A mutant whose graph is not obtained keeps the part of  *)
(* its reward that does not need the graph.  The mean distance to an empty *)
(* list of graphs is a division by zero.                                   *)
DividesByZero(compiled) == compiled /\ total_cfg = 0

Reward_Fault(is_free, compiled, diverse) ==
    IF compiled THEN (IF is_free THEN 1 ELSE 0) + (IF diverse THEN 1 ELSE 0) ELSE 0
Reward(is_free, compiled, diverse) ==
    (IF is_free THEN 1 ELSE 0) + (IF compiled /\ diverse THEN 1 ELSE 0)

CalcReward(m, is_free, compiled, diverse) ==
    /\ ~DividesByZero(compiled)
    /\ count' = [count EXCEPT ![m] = @ + 1]
    /\ reward' = [reward EXCEPT ![m] = @ + Reward(is_free, compiled, diverse)]
    /\ total_cnt' = total_cnt + 1
    /\ UNCHANGED total_cfg

===========================================================================
