----------------------- MODULE DiversityFuzzer_proofs ----------------------
(* Theorems of DiversityFuzzer, for any list of mutators and seeds and any *)
(* times: the types, the order in which mutators are first tried, the end  *)
(* in time, the three sanitizers behind every saved program, what it grew  *)
(* from and what it earned, and that the guided fuzzer edits nothing.      *)
(***************************************************************************)
EXTENDS DiversityFuzzer, FiniteSetTheorems, WellFoundedInduction, TLAPS

---------------------------------------------------------------------------
(* The mutator of a round was chosen by get_mutator, and the table has not *)
(* changed since.                                                          *)
Chosen == (mode = "guided" /\ pc \in {"check", "reward"}) => mutator \in GetMutator

RewardIsGuided == pc = "reward" => mode = "guided"

(* After t rewards the first t - 1 mutators of the list have been tried.   *)
InOrder == \A n \in DOMAIN Opts : total_cnt >= n + 1 => count[Opts[n]] > 0

(* Between a mutation and its verdict test.c holds a program, and there is *)
(* a sanitizer left to ask while they are asked.                           *)
InRound ==
    /\ pc \in Rounds => test_c \in Version /\ mutator \in Mutators
    /\ pc = "check" => sanitizer <= Sanitizers

(* Until the campaign is over the clock that wraps around shows the time.  *)
ClockTrue == pc # "done" => clock <= Limit /\ last_running_time = clock

(* Where a program is not refused, all sanitizers asked so far agreed.     *)
AllAgreed ==
    /\ pc \in Rounds /\ is_free =>
           \A n \in 1..(sanitizer - 1) : <<n, test_c>> \in accepted
    /\ pc = "check" => is_free
    /\ pc \in {"reward", "decide"} /\ is_free => sanitizer = Sanitizers + 1

Untouched == mode = "guided" => program_file_path = {TestC} /\ edits = 0

---------------------------------------------------------------------------
LEMMA OptsFacts ==
    /\ Len(Opts) \in Nat \ {0} /\ DOMAIN Opts = 1..Len(Opts)
    /\ \A n \in DOMAIN Opts : Opts[n] \in Mutators
    /\ \A m \in Mutators : \E n \in DOMAIN Opts : m = Opts[n]
    /\ \A a, b \in DOMAIN Opts : Opts[a] = Opts[b] => a = b
BY OptsAssumption DEF Mutators

LEMMA SeedsFacts ==
    Len(Seeds) \in Nat \ {0} /\ DOMAIN Seeds = 1..Len(Seeds) /\ \A n \in DOMAIN Seeds : Seeds[n] # TestC
BY FuzzerAssumption

LEMMA TimeFacts == Day \in Nat \ {0} /\ MaxRound \in 1..(Day - 1) /\ MutateNum \in Nat \ {0}
BY FuzzerAssumption

LEMMA NextSeedIsSeed ==
    ASSUME seed \in DOMAIN Seeds
    PROVE  (seed % Len(Seeds)) + 1 \in DOMAIN Seeds
<1>1. seed \in Nat /\ Len(Seeds) \in Nat \ {0} BY SeedsFacts
<1>2. seed % Len(Seeds) \in 0..(Len(Seeds) - 1) BY ONLY <1>1, SMT
<1> QED BY <1>1, <1>2, SeedsFacts

LEMMA RunningTimeInDay ==
    ASSUME NEW now \in Nat
    PROVE  now % Day \in 0..(Day - 1)
<1>1. Day \in Nat \ {0} BY TimeFacts
<1> QED BY ONLY <1>1, now \in Nat, SMT

LEMMA ChosenIsMutator == GetMutator \subseteq Mutators
BY OptsFacts DEF GetMutator

---------------------------------------------------------------------------
LEMMA TypeInit == Init => TypeOK /\ InRound
  <2> SUFFICES ASSUME Init PROVE TypeOK /\ InRound OBVIOUS
  <2>1. SchedulerTypeOK BY DEF Init, SchedulerInit, SchedulerTypeOK
  <2>2. seed \in DOMAIN Seeds BY SeedsFacts DEF Init
  <2>3. program_file_path \subseteq {Seeds[n] : n \in DOMAIN Seeds} \cup {TestC} BY DEF Init
  <2>4. last_running_time \in 0..(Day - 1) /\ i \in 0..MutateNum /\ edits \in 0..i BY TimeFacts DEF Init
  <2> QED BY <2>1, <2>2, <2>3, <2>4 DEF Init, TypeOK, InRound, Rounds, Sanitizers

LEMMA TypeStep == TypeOK /\ InRound /\ [Next]_vars => TypeOK' /\ InRound'
<1> SUFFICES ASSUME TypeOK, InRound, [Next]_vars PROVE TypeOK' /\ InRound' OBVIOUS
<1> USE DEF TypeOK, InRound, Rounds
<1>1. CASE ReadSeed
  <2>1. SchedulerTypeOK' BY <1>1 DEF ReadSeed, SchedulerTypeOK, SeedCfg, schedulerVars
  <2>2. program_file_path' \subseteq {Seeds[n] : n \in DOMAIN Seeds} \cup {TestC} BY <1>1 DEF ReadSeed
  <2>3. i' \in 0..MutateNum /\ edits' \in 0..i' BY <1>1, TimeFacts DEF ReadSeed
  <2>4. test_c' \in Version \cup {<<>>} BY <1>1 DEF ReadSeed, Version
  <2> QED BY <1>1, <2>1, <2>2, <2>3, <2>4 DEF ReadSeed, campaignVars
<1>2. CASE SeedUnreadable \/ MutationFails
  BY <1>2 DEF SeedUnreadable, MutationFails, SchedulerTypeOK, schedulerVars, campaignVars
<1>3. CASE Mutate
  <2>1. PICK m \in Mutators, edited \in BOOLEAN :
           /\ mutator' = m
           /\ edits' = IF edited THEN edits + 1 ELSE edits
           /\ labels' = labels \cup {m}
    BY <1>3, ChosenIsMutator DEF Mutate
  <2>2. i' \in 0..MutateNum /\ edits' \in 0..i' BY <1>3, <2>1, TimeFacts DEF Mutate
  <2>3. test_c' \in Version BY <1>3, <2>2, TimeFacts DEF Mutate, Version
  <2>4. SchedulerTypeOK' BY <1>3 DEF Mutate, SchedulerTypeOK, schedulerVars
  <2>5. sanitizer' = 1 /\ is_free' \in BOOLEAN BY <1>3 DEF Mutate
  <2> QED BY <1>3, <2>1, <2>2, <2>3, <2>4, <2>5 DEF Mutate, campaignVars, Sanitizers
<1>4. CASE Check
  <2>1. PICK ok \in BOOLEAN :
           /\ AfterCheck(ok)
           /\ accepted' = IF ok THEN accepted \cup {<<sanitizer, test_c>>} ELSE accepted
    BY <1>4 DEF Check
  <2>2. SchedulerTypeOK' BY <1>4 DEF Check, SchedulerTypeOK, schedulerVars
  <2>3. sanitizer \in 1..Sanitizers /\ test_c \in Version BY <1>4 DEF Check, Sanitizers
  <2>4. accepted' \subseteq (1..Sanitizers) \X Version BY <2>1, <2>3
  <2>5. sanitizer' \in 1..(Sanitizers + 1) BY <2>1, <2>3 DEF AfterCheck, Sanitizers
  <2>6. pc' \in {"check", "reward", "decide"} BY <2>1 DEF AfterCheck
  <2>8. is_free' \in BOOLEAN BY <2>1, Zenon DEF AfterCheck
  <2>7. pc' = "check" => sanitizer' <= Sanitizers BY <1>4, <2>1, <2>3 DEF Check, AfterCheck, Sanitizers
  <2> QED BY <1>4, <2>2, <2>3, <2>4, <2>5, <2>6, <2>7, <2>8 DEF Check, campaignVars
<1>5. CASE GiveReward
  <2>1. PICK compiled, diverse \in BOOLEAN : CalcReward(mutator, is_free, compiled, diverse)
    BY <1>5 DEF GiveReward
  <2>2. Reward(is_free, compiled, diverse) \in Nat BY DEF Reward
  <2>4. mutator \in Mutators /\ total_cnt \in Nat /\ total_cfg \in {0, 1} BY <1>5 DEF GiveReward, SchedulerTypeOK
  <2>5. count \in [Mutators -> Nat] /\ reward \in [Mutators -> Nat] BY DEF SchedulerTypeOK
  <2>6. count' \in [Mutators -> Nat] BY <2>1, <2>4, <2>5 DEF CalcReward
  <2>7. reward' = [reward EXCEPT ![mutator] = @ + Reward(is_free, compiled, diverse)] BY <2>1 DEF CalcReward
  <2>8. reward' \in [Mutators -> Nat] BY <2>2, <2>4, <2>5, <2>7
  <2>3. SchedulerTypeOK' BY <2>1, <2>4, <2>6, <2>8 DEF CalcReward, SchedulerTypeOK
  <2> QED BY <1>5, <2>3 DEF GiveReward, campaignVars
<1>6. CASE RewardFails
  BY <1>6 DEF RewardFails, SchedulerTypeOK, schedulerVars, campaignVars
<1>7. CASE Decide
  <2>1. PICK d \in 1..MaxRound : clock' = clock + d /\ (TimeExpired(clock + d) \/ GoOn(clock + d))
    BY <1>7 DEF Decide
  <2>2. clock + d \in Nat BY TimeFacts
  <2>3. (clock + d) % Day \in 0..(Day - 1) BY <2>2, RunningTimeInDay
  <2>4. SchedulerTypeOK' BY <1>7 DEF Decide, SchedulerTypeOK, schedulerVars
  <2>5. CASE TimeExpired(clock + d)
    BY <1>7, <2>1, <2>2, <2>4, <2>5 DEF TimeExpired, Decide
  <2>6. CASE GoOn(clock + d)
    <3>1. last_running_time' \in 0..(Day - 1) BY <2>3, <2>6 DEF GoOn
    <3>2. test_c' \in Version \cup {<<>>} BY <2>6 DEF GoOn
    <3>3. seed' \in DOMAIN Seeds BY <2>6, NextSeedIsSeed DEF GoOn, NextSeed
    <3>4. pc' \in {"seed", "mutate"} BY <2>6 DEF GoOn
    <3> QED BY <1>7, <2>1, <2>2, <2>4, <3>1, <3>2, <3>3, <3>4 DEF Decide
  <2> QED BY <2>1, <2>5, <2>6
<1>8. CASE Ended \/ UNCHANGED vars
  BY <1>8 DEF Ended, vars, SchedulerTypeOK, schedulerVars
<1> QED BY <1>1, <1>2, <1>3, <1>4, <1>5, <1>6, <1>7, <1>8 DEF Next

(* Every state is well typed.                                              *)
THEOREM TypeCorrect == Spec => []TypeOK
BY TypeInit, TypeStep, PTL DEF Spec

LEMMA RoundCorrect == Spec => [](TypeOK /\ InRound)
BY TypeInit, TypeStep, PTL DEF Spec
---------------------------------------------------------------------------
LEMMA ChoosableUnscored ==
    ASSUME NEW n \in DOMAIN Opts, Choosable(n), NEW a \in DOMAIN Opts, Unscored(a)
    PROVE  n <= a
<1>1. \A b \in 1..(n - 1) : ~Unscored(b) BY DEF Choosable
<1>2. n \in 1..Len(Opts) /\ a \in 1..Len(Opts) /\ Len(Opts) \in Nat BY OptsFacts
<1> QED BY <1>1, <1>2

(* Whatever get_mutator returns after t rewards, the t-th mutator of the   *)
(* list has been tried once this one is rewarded: where it is untried it   *)
(* is the first that is, and the head is returned both times at first.     *)
LEMMA RewardKeepsOrder ==
    ASSUME TypeOK, InOrder, mutator \in GetMutator,
           count' = [count EXCEPT ![mutator] = @ + 1], total_cnt' = total_cnt + 1
    PROVE  InOrder'
<1>1. PICK c \in DOMAIN Opts : Choosable(c) /\ mutator = Opts[c] BY DEF GetMutator
<1>2. count \in [Mutators -> Nat] /\ total_cnt \in Nat BY DEF TypeOK, SchedulerTypeOK
<1> SUFFICES ASSUME NEW n \in DOMAIN Opts, total_cnt' >= n + 1 PROVE count'[Opts[n]] > 0
  BY DEF InOrder
<1>3. n \in Nat /\ n >= 1 /\ Opts[n] \in Mutators BY OptsFacts
<1>4. CASE total_cnt >= n + 1
  <2>1. count[Opts[n]] > 0 BY <1>4 DEF InOrder
  <2> QED BY <2>1, <1>2, <1>3
<1>5. CASE total_cnt = n
  <2>1. CASE count[Opts[n]] > 0 BY <2>1, <1>2, <1>3
  <2>2. CASE count[Opts[n]] = 0
    <3>1. c <= n BY <2>2, <1>1, ChoosableUnscored DEF Unscored
    <3>2. CASE c = n BY <3>2, <1>1, <1>2, <1>3
    <3>3. CASE c < n
      <4>1. c \in Nat /\ total_cnt >= c + 1 BY <3>3, <1>3, <1>5, OptsFacts
      <4>2. count[Opts[c]] > 0 BY <4>1 DEF InOrder
      <4>3. Opts[c] \in Mutators /\ count[Opts[c]] # 0 BY <4>2, <1>2, OptsFacts
      <4>4. ~Unscored(c) BY <4>1, <4>3, <3>3, <1>3, <1>5, OptsFacts DEF Unscored
      <4>5. Unscored(n) BY <2>2 DEF Unscored
      <4>6. Unscored(c) BY <4>5, <1>1 DEF Choosable
      <4> QED BY <4>4, <4>6
    <3> QED BY <3>1, <3>2, <3>3, <1>3, OptsFacts
  <2> QED BY <2>1, <2>2, <1>2, <1>3
<1> QED BY <1>2, <1>3, <1>4, <1>5

(* The choice and the order are kept by every step.                        *)
LEMMA OrderStep == TypeOK /\ Chosen /\ InOrder /\ RewardIsGuided /\ [Next]_vars
                       => Chosen' /\ InOrder' /\ RewardIsGuided'
<1> SUFFICES ASSUME TypeOK, Chosen, InOrder, RewardIsGuided, [Next]_vars
             PROVE  Chosen' /\ InOrder' /\ RewardIsGuided'
  OBVIOUS
<1>1. ASSUME UNCHANGED <<total_cnt, count, reward>> PROVE InOrder' /\ GetMutator' = GetMutator
  BY <1>1 DEF InOrder, GetMutator, Choosable, Unscored, Beats
<1>2. CASE ReadSeed
  <2>1. UNCHANGED <<total_cnt, count, reward>> /\ pc' = "mutate" BY <1>2 DEF ReadSeed, SeedCfg, schedulerVars
  <2> QED BY <2>1, <1>1 DEF Chosen, RewardIsGuided
<1>3. CASE SeedUnreadable \/ MutationFails \/ RewardFails
  <2>1. UNCHANGED <<total_cnt, count, reward>> /\ pc' = "crashed"
    BY <1>3 DEF SeedUnreadable, MutationFails, RewardFails, schedulerVars
  <2> QED BY <2>1, <1>1 DEF Chosen, RewardIsGuided
<1>4. CASE Mutate
  <2>1. UNCHANGED <<total_cnt, count, reward, mode>> /\ pc' = "check" BY <1>4 DEF Mutate, schedulerVars, campaignVars
  <2>2. mode = "guided" => mutator' \in GetMutator BY <1>4 DEF Mutate
  <2> QED BY <2>1, <2>2, <1>1 DEF Chosen, RewardIsGuided
<1>5. CASE Check
  <2>1. UNCHANGED <<total_cnt, count, reward, mode, mutator>> /\ pc = "check"
    BY <1>5 DEF Check, schedulerVars, campaignVars
  <2>2. pc' = "reward" => mode = "guided" BY <1>5 DEF Check, AfterCheck
  <2> QED BY <2>1, <2>2, <1>1 DEF Chosen, RewardIsGuided
<1>6. CASE GiveReward
  <2>1. mutator \in GetMutator BY <1>6 DEF GiveReward, Chosen, RewardIsGuided
  <2>2. count' = [count EXCEPT ![mutator] = @ + 1] /\ total_cnt' = total_cnt + 1
    BY <1>6 DEF GiveReward, CalcReward
  <2>3. InOrder' BY <2>1, <2>2, RewardKeepsOrder
  <2> QED BY <1>6, <2>3 DEF GiveReward, Chosen, RewardIsGuided
<1>7. CASE Decide
  <2>1. UNCHANGED <<total_cnt, count, reward>> /\ pc' \in {"done", "seed", "mutate"}
    BY <1>7 DEF Decide, TimeExpired, GoOn, schedulerVars
  <2> QED BY <2>1, <1>1 DEF Chosen, RewardIsGuided
<1>8. CASE Ended \/ UNCHANGED vars
  <2>1. UNCHANGED <<total_cnt, count, reward, mode, mutator, pc>> BY <1>8 DEF Ended, vars, schedulerVars
  <2> QED BY <2>1, <1>1 DEF Chosen, RewardIsGuided
<1> QED BY <1>2, <1>3, <1>4, <1>5, <1>6, <1>7, <1>8 DEF Next

(* Every mutator has its turn in the first Len(Opts) + 1 rounds.           *)
THEOREM EveryMutatorTriedEarly == Spec => []AllTriedEarly
<1>1. Init => Chosen /\ InOrder /\ RewardIsGuided
  <2> SUFFICES ASSUME Init PROVE Chosen /\ InOrder /\ RewardIsGuided OBVIOUS
  <2>1. pc = "seed" /\ total_cnt = 0 BY DEF Init, SchedulerInit
  <2> QED BY <2>1, OptsFacts DEF Chosen, InOrder, RewardIsGuided
<1>2. TypeOK /\ InOrder => AllTriedEarly
  <2> SUFFICES ASSUME TypeOK, InOrder, total_cnt > Len(Opts), NEW m \in Mutators PROVE count[m] > 0
    BY DEF AllTriedEarly
  <2>1. PICK n \in DOMAIN Opts : m = Opts[n] BY OptsFacts
  <2>2. total_cnt >= n + 1 BY OptsFacts DEF TypeOK, SchedulerTypeOK
  <2> QED BY <2>1, <2>2 DEF InOrder
<1> QED BY <1>1, <1>2, TypeCorrect, OrderStep, PTL DEF Spec

---------------------------------------------------------------------------
(* The campaign ends in time.  Until it does, the clock that wraps around  *)
(* shows the true time, so a round that passes midnight is seen to go      *)
(* backwards.                                                              *)
LEMMA LimitFacts == lasting_time \in Nat => Limit \in Nat /\ Limit < Day /\ Limit <= lasting_time
BY TimeFacts DEF Limit

THEOREM CampaignStopsInTime == Spec => []StopsInTime
<1> DEFINE StopTime == pc = "done" => clock \in (Limit + 1)..(Limit + MaxRound)
<1>1. Init => ClockTrue /\ StopTime
  BY LimitFacts, FuzzerAssumption DEF Init, ClockTrue
<1>2. TypeOK /\ InRound /\ ClockTrue /\ StopTime /\ [Next]_vars => ClockTrue' /\ StopTime'
  <2> SUFFICES ASSUME TypeOK, ClockTrue, StopTime, [Next]_vars PROVE ClockTrue' /\ StopTime' OBVIOUS
  <2>1. CASE ReadSeed \/ SeedUnreadable \/ Mutate \/ MutationFails \/ Check \/ GiveReward \/ RewardFails
    <3>1. UNCHANGED <<clock, last_running_time, lasting_time>>
      BY <2>1 DEF ReadSeed, SeedUnreadable, MutationFails, Mutate, Check, GiveReward, RewardFails, campaignVars
    <3>2. pc # "done" /\ pc' # "done"
      BY <2>1 DEF ReadSeed, SeedUnreadable, MutationFails, Mutate, Check, AfterCheck, GiveReward, RewardFails
    <3> QED BY <3>1, <3>2 DEF ClockTrue, Limit
  <2>2. CASE Decide
    <3>1. PICK d \in 1..MaxRound : clock' = clock + d /\ (TimeExpired(clock + d) \/ GoOn(clock + d))
      BY <2>2 DEF Decide
    <3> DEFINE now == clock + d
    <3>2. pc = "decide" /\ UNCHANGED lasting_time BY <2>2 DEF Decide
    <3>3. Limit' = Limit BY <3>2 DEF Limit
    <3>4. /\ clock \in Nat /\ clock <= Limit /\ last_running_time = clock
          /\ lasting_time \in Nat /\ Limit \in Nat /\ Limit < Day
          /\ Day \in Nat /\ MaxRound \in Nat /\ MaxRound < Day /\ d \in 1..MaxRound
      BY <3>2, LimitFacts, TimeFacts, FuzzerAssumption DEF TypeOK, ClockTrue
    <3>5. CASE now < Day
      <4>1. now % Day = now BY ONLY <3>4, <3>5, SMT
      <4>2. Expired(now % Day) <=> now > Limit BY ONLY <3>4, <3>5, <4>1 DEF Expired, Limit
      <4>3. CASE TimeExpired(now)
        BY <4>2, <4>3, <3>1, <3>3, <3>4 DEF TimeExpired, ClockTrue
      <4>4. CASE GoOn(now)
        BY <4>1, <4>2, <4>4, <3>1, <3>3, <3>4 DEF GoOn, ClockTrue
      <4> QED BY <4>3, <4>4, <3>1
    <3>6. CASE now >= Day
      <4>1. now % Day = now - Day BY ONLY <3>4, <3>6, SMT
      <4>2. Expired(now % Day) BY ONLY <3>4, <3>6, <4>1 DEF Expired
      <4>3. TimeExpired(now) BY <4>2, <3>1 DEF GoOn
      <4> QED BY <4>3, <3>1, <3>3, <3>4, <3>6 DEF TimeExpired, ClockTrue
    <3> QED BY <3>4, <3>5, <3>6
  <2>3. CASE Ended \/ UNCHANGED vars
    <3>1. UNCHANGED <<clock, last_running_time, lasting_time, pc>> BY <2>3 DEF Ended, vars
    <3> QED BY <3>1 DEF ClockTrue, Limit
  <2> QED BY <2>1, <2>2, <2>3 DEF Next
<1>3. ClockTrue /\ StopTime => StopsInTime BY DEF ClockTrue, StopsInTime
<1> QED BY <1>1, <1>2, <1>3, RoundCorrect, PTL DEF Spec

---------------------------------------------------------------------------
(* Every saved program was accepted by all three sanitizers, in the very   *)
(* version that was saved.                                                 *)
LEMMA AgreedStep == TypeOK /\ InRound /\ AllAgreed /\ SavedWasChecked /\ [Next]_vars
                        => AllAgreed' /\ SavedWasChecked'
<1> SUFFICES ASSUME TypeOK, InRound, AllAgreed, SavedWasChecked, [Next]_vars
             PROVE  AllAgreed' /\ SavedWasChecked'
  OBVIOUS
<1> USE DEF AllAgreed, Rounds
<1>1. CASE ReadSeed \/ SeedUnreadable \/ MutationFails \/ RewardFails
  BY <1>1 DEF ReadSeed, SeedUnreadable, MutationFails, RewardFails, campaignVars, SavedWasChecked
<1>2. CASE Mutate
  BY <1>2 DEF Mutate, campaignVars, SavedWasChecked
<1>3. CASE Check
  <2>1. PICK ok \in BOOLEAN :
           /\ AfterCheck(ok)
           /\ accepted' = IF ok THEN accepted \cup {<<sanitizer, test_c>>} ELSE accepted
    BY <1>3 DEF Check
  <2>2. /\ pc = "check" /\ is_free /\ sanitizer' = sanitizer + 1
        /\ UNCHANGED <<test_c, target_dir>> /\ sanitizer \in 1..Sanitizers
    BY <1>3, <2>1 DEF Check, AfterCheck, campaignVars, TypeOK, InRound, Sanitizers
  <2>3. is_free' <=> ok BY <2>1, <2>2, Zenon DEF AfterCheck
  <2>4. CASE ok
    <3>1. accepted' = accepted \cup {<<sanitizer, test_c>>} BY <2>1, <2>4
    <3>2. \A n \in 1..(sanitizer - 1) : <<n, test_c>> \in accepted BY <2>2
    <3>3. \A n \in 1..(sanitizer' - 1) : <<n, test_c'>> \in accepted'
      <4> SUFFICES ASSUME NEW n \in 1..(sanitizer' - 1) PROVE <<n, test_c>> \in accepted'
        BY <2>2
      <4>1. n = sanitizer \/ n \in 1..(sanitizer - 1) BY <2>2 DEF Sanitizers
      <4> QED BY <4>1, <3>1, <3>2
    <3>4. pc' = "check" \/ sanitizer' = Sanitizers + 1 BY <2>1, <2>2, <2>4 DEF AfterCheck, Sanitizers
    <3>5. pc' = "check" => is_free' BY <2>3, <2>4
    <3>6. AllAgreed' BY <3>3, <3>4, <3>5
    <3> QED BY <3>6, <2>2 DEF SavedWasChecked
  <2>5. CASE ~ok
    <3>1. ~is_free' BY <2>3, <2>5
    <3>2. pc' # "check" BY <2>1, <2>5 DEF AfterCheck
    <3> QED BY <3>1, <3>2, <2>2 DEF SavedWasChecked
  <2> QED BY <2>4, <2>5
<1>4. CASE GiveReward
  BY <1>4 DEF GiveReward, campaignVars, SavedWasChecked
<1>5. CASE Decide
  <2>1. pc = "decide" /\ pc' \in {"done", "seed", "mutate"} /\ UNCHANGED accepted
    BY <1>5 DEF Decide, TimeExpired, GoOn
  <2>2. AllAgreed' BY <2>1
  <2>3. target_dir' = target_dir \/ (is_free /\ target_dir' = target_dir \cup {Saved})
    BY <1>5 DEF Decide, TimeExpired, GoOn
  <2>4. is_free => Saved.accepted = 1..Sanitizers
    BY <2>1 DEF Saved, Sanitizers
  <2> QED BY <2>2, <2>3, <2>4 DEF SavedWasChecked
<1>6. CASE Ended \/ UNCHANGED vars
  BY <1>6 DEF Ended, vars, SavedWasChecked
<1> QED BY <1>1, <1>2, <1>3, <1>4, <1>5, <1>6 DEF Next

THEOREM SavedProgramsWereChecked == Spec => []SavedWasChecked
<1>1. Init => AllAgreed /\ SavedWasChecked BY DEF Init, AllAgreed, SavedWasChecked, Rounds
<1> QED BY <1>1, AgreedStep, RoundCorrect, PTL DEF Spec

---------------------------------------------------------------------------
(* The guided fuzzer never edits a program: program_file_path holds only   *)
(* test.c, no function of a seed was read from a file of that name, and    *)
(* so none is found to insert into, prune or rewrite.                      *)
GuidedNeverEdits == mode = "guided" => edits = 0

THEOREM GuidedFuzzerEditsNothing == Spec => []GuidedNeverEdits
<1>1. Init => Untouched BY DEF Init, Untouched
<1>2. TypeOK /\ Untouched /\ [Next]_vars => Untouched'
  <2> SUFFICES ASSUME TypeOK, Untouched, [Next]_vars PROVE Untouched' OBVIOUS
  <2>1. CASE ReadSeed
    BY <2>1 DEF ReadSeed, Untouched, campaignVars
  <2>2. CASE Mutate
    <3>1. UNCHANGED <<mode, program_file_path>> BY <2>2 DEF Mutate, campaignVars
    <3>2. mode = "guided" => ~FunctionsFound BY SeedsFacts DEF Untouched, FunctionsFound, TypeOK
    <3>3. mode = "guided" => edits' = edits BY <2>2, <3>2 DEF Mutate, MayEdit
    <3> QED BY <3>1, <3>3 DEF Untouched
  <2>3. CASE SeedUnreadable \/ MutationFails \/ Check \/ GiveReward \/ RewardFails \/ Decide
    BY <2>3 DEF SeedUnreadable, MutationFails, Check, GiveReward, RewardFails, Decide, Untouched, campaignVars
  <2>4. CASE Ended \/ UNCHANGED vars
    BY <2>4 DEF Ended, vars, Untouched
  <2> QED BY <2>1, <2>2, <2>3, <2>4 DEF Next
<1>3. Untouched => GuidedNeverEdits BY DEF Untouched, GuidedNeverEdits
<1> QED BY <1>1, <1>2, <1>3, TypeCorrect, PTL DEF Spec

---------------------------------------------------------------------------
(* The sum over a function, which the library defines by a recursive       *)
(* function on the subsets of its domain: that there is such a function,   *)
(* and what it yields, by induction on the size of the subset.             *)

\* The element a fold over a set takes next, and what it leaves.
First(s) == CHOOSE x \in s : TRUE
Rest(s) == s \ {First(s)}

\* A table g of the sums of v over the sets of a family closed under Rest.
Sums(v, family, g) ==
    g = [s \in family |-> IF s = {} THEN 0 ELSE v[First(s)] + g[Rest(s)]]

LEMMA FirstInSet == ASSUME NEW s, s # {} PROVE First(s) \in s
BY DEF First

LEMMA CountingUp ==
    ASSUME NEW P, P \subseteq Nat, 0 \in P, \A n \in P : n + 1 \in P
    PROVE  P = Nat
<1> DEFINE Less == OpToRel(<, Nat)
<1> DEFINE Left == Nat \ P
<1> SUFFICES ASSUME Left # {} PROVE FALSE OBVIOUS
<1>1. PICK x \in Left : \A y \in Left : ~ (<<y, x>> \in Less)
  <2>1. IsWellFoundedOn(Less, Nat) BY NatLessThanWellFounded
  <2>2. Left \subseteq Nat OBVIOUS
  <2> HIDE DEF Less, Left
  <2> QED BY <2>1, <2>2, WFMin
<1>2. Less = {ss \in Nat \X Nat : ss[1] < ss[2]}
  BY Zenon DEF OpToRel
<1>3. \A a, b \in Nat : <<a, b>> \in Less <=> a < b
  <2> HIDE DEF Less
  <2> QED BY <1>2
<1>4. x \in Nat /\ x # 0 /\ x \notin P OBVIOUS
<1>5. x - 1 \in Nat /\ x - 1 < x /\ (x - 1) + 1 = x BY <1>4
<1>6. x - 1 \notin Left BY <1>1, <1>3, <1>4, <1>5
<1> QED BY <1>4, <1>5, <1>6

LEMMA SetBySet ==
    ASSUME NEW S, IsFiniteSet(S), NEW P, {} \in P,
           \A s \in SUBSET S : s # {} /\ Rest(s) \in P => s \in P
    PROVE  \A s \in SUBSET S : s \in P
<1> DEFINE Q == {n \in Nat : \A s \in SUBSET S : Cardinality(s) = n => s \in P}
<1>1. \A s \in SUBSET S : IsFiniteSet(s) /\ Cardinality(s) \in Nat
  BY FS_Subset, FS_CardinalityType
<1>2. 0 \in Q BY <1>1, FS_EmptySet
<1>3. ASSUME NEW n \in Q PROVE n + 1 \in Q
  <2> SUFFICES ASSUME NEW s \in SUBSET S, Cardinality(s) = n + 1 PROVE s \in P OBVIOUS
  <2>1. s # {} BY FS_EmptySet
  <2>2. First(s) \in s BY <2>1, FirstInSet
  <2>3. Cardinality(Rest(s)) = Cardinality(s) - 1 BY <1>1, <2>2, FS_RemoveElement DEF Rest
  <2>4. Rest(s) \in SUBSET S BY DEF Rest
  <2>5. n \in Nat /\ Cardinality(Rest(s)) = n BY <2>3
  <2> QED BY <2>1, <2>4, <2>5
<1>4. Q = Nat
  <2> HIDE DEF Q
  <2>1. Q \subseteq Nat BY DEF Q
  <2> QED BY <1>2, <1>3, <2>1, CountingUp
<1> QED BY <1>1, <1>4

LEMMA SumsExist ==
    ASSUME NEW S, IsFiniteSet(S), NEW v
    PROVE  \E g : Sums(v, SUBSET S, g)
<1> DEFINE Small(n) == {s \in SUBSET S : Cardinality(s) <= n}
<1> DEFINE P == {n \in Nat : \E g : Sums(v, Small(n), g)}
<1>1. \A s \in SUBSET S : IsFiniteSet(s) /\ Cardinality(s) \in Nat
  BY FS_Subset, FS_CardinalityType
<1>2. 0 \in P
  <2>1. \A s \in Small(0) : s = {} BY <1>1, FS_EmptySet
  <2> DEFINE g == [s \in Small(0) |-> 0]
  <2>2. Sums(v, Small(0), g) BY <2>1 DEF Sums
  <2> QED BY <2>2
<1>3. ASSUME NEW n \in P PROVE n + 1 \in P
  <2>1. PICK g : Sums(v, Small(n), g) OBVIOUS
  <2> DEFINE h == [s \in Small(n + 1) |-> IF s = {} THEN 0 ELSE v[First(s)] + g[Rest(s)]]
  <2>2. \A s \in Small(n) : s \in Small(n + 1) BY <1>1
  <2>3. \A s \in Small(n) : h[s] = g[s] BY <2>1, <2>2 DEF Sums
  <2>4. \A s \in Small(n + 1) : s # {} => Rest(s) \in Small(n)
    <3> SUFFICES ASSUME NEW s \in Small(n + 1), s # {} PROVE Rest(s) \in Small(n) OBVIOUS
    <3>1. First(s) \in s BY FirstInSet
    <3>2. Cardinality(Rest(s)) = Cardinality(s) - 1 BY <1>1, <3>1, FS_RemoveElement DEF Rest
    <3> QED BY <1>1, <3>2 DEF Rest
  <2>5. Sums(v, Small(n + 1), h)
    <3>1. h = [s \in Small(n + 1) |-> IF s = {} THEN 0 ELSE v[First(s)] + h[Rest(s)]]
      BY <2>3, <2>4
    <3> QED BY <3>1 DEF Sums
  <2> QED BY <2>5
<1>4. P = Nat
  <2>1. P \subseteq Nat OBVIOUS
  <2> HIDE DEF P
  <2> QED BY <1>2, <1>3, <2>1, CountingUp
<1>5. Cardinality(S) \in P BY <1>1, <1>4
<1>6. Small(Cardinality(S)) = SUBSET S
  BY <1>1, FS_Subset
<1> QED BY <1>5, <1>6

LEMMA SumUnfolds ==
    ASSUME NEW S, IsFiniteSet(S), NEW v
    PROVE  \E g : Sums(v, SUBSET S, g) /\ SumFunctionOnSet(v, S) = g[S]
<1> DEFINE iter == CHOOSE g : Sums(v, SUBSET S, g)
<1>1. Sums(v, SUBSET S, iter) BY SumsExist
<1>2. SumFunctionOnSet(v, S) = iter[S]
  BY Zenon DEF SumFunctionOnSet, FoldFunctionOnSet, MapThenFoldSet, Sums, First, Rest
<1> QED BY <1>1, <1>2

LEMMA SumOfZeros ==
    ASSUME NEW S, IsFiniteSet(S)
    PROVE  SumFunction([s \in S |-> 0]) = 0
<1> DEFINE v == [s \in S |-> 0]
<1>1. PICK g : Sums(v, SUBSET S, g) /\ SumFunctionOnSet(v, S) = g[S] BY SumUnfolds
<1> DEFINE P == {s \in SUBSET S : g[s] = 0}
<1>2. {} \in P BY <1>1 DEF Sums
<1>3. ASSUME NEW s \in SUBSET S, s # {}, Rest(s) \in P PROVE s \in P
  <2>1. First(s) \in s BY <1>3, FirstInSet
  <2>2. g[s] = v[First(s)] + g[Rest(s)] BY <1>1, <1>3 DEF Sums
  <2> QED BY <1>3, <2>1, <2>2
<1>4. S \in P
  <2> HIDE DEF P
  <2> QED BY <1>2, <1>3, SetBySet
<1> QED BY <1>1, <1>4 DEF SumFunction

LEMMA SumCountsOne ==
    ASSUME NEW S, IsFiniteSet(S), NEW v \in [S -> Nat], NEW m \in S
    PROVE  /\ SumFunction(v) \in Nat
           /\ SumFunction([v EXCEPT ![m] = @ + 1]) = SumFunction(v) + 1
<1> DEFINE w == [v EXCEPT ![m] = @ + 1]
<1>1. PICK g : Sums(v, SUBSET S, g) /\ SumFunctionOnSet(v, S) = g[S] BY SumUnfolds
<1>2. PICK h : Sums(w, SUBSET S, h) /\ SumFunctionOnSet(w, S) = h[S] BY SumUnfolds
<1> DEFINE P == {s \in SUBSET S : g[s] \in Nat /\ h[s] = g[s] + (IF m \in s THEN 1 ELSE 0)}
<1>3. {} \in P BY <1>1, <1>2 DEF Sums
<1>4. ASSUME NEW s \in SUBSET S, s # {}, Rest(s) \in P PROVE s \in P
  <2>1. First(s) \in s /\ First(s) \in S BY <1>4, FirstInSet
  <2>2. g[s] = v[First(s)] + g[Rest(s)] BY <1>1, <1>4 DEF Sums
  <2>3. h[s] = w[First(s)] + h[Rest(s)] BY <1>2, <1>4 DEF Sums
  <2>4. g[Rest(s)] \in Nat /\ v[First(s)] \in Nat BY <1>4, <2>1
  <2>5. CASE First(s) = m
    <3>1. m \notin Rest(s) /\ m \in s BY <2>1, <2>5 DEF Rest
    <3>2. w[First(s)] = v[First(s)] + 1 BY <2>5
    <3>3. h[Rest(s)] = g[Rest(s)] BY <1>4, <2>4, <3>1
    <3> QED BY <2>2, <2>3, <2>4, <3>1, <3>2, <3>3
  <2>6. CASE First(s) # m
    <3>1. m \in Rest(s) <=> m \in s BY <2>6 DEF Rest
    <3>2. w[First(s)] = v[First(s)] BY <2>1, <2>6
    <3> QED BY <1>4, <2>2, <2>3, <2>4, <3>1, <3>2
  <2> QED BY <2>5, <2>6
<1>5. S \in P
  <2> HIDE DEF P
  <2> QED BY <1>3, <1>4, SetBySet
<1>6. DOMAIN v = S /\ DOMAIN w = S OBVIOUS
<1> QED BY <1>1, <1>2, <1>5, <1>6 DEF SumFunction

---------------------------------------------------------------------------
(* What the mutators earned.  Between the reward and the end of a round    *)
(* the program that is about to be saved is paid for already.              *)
Pays(m) == pc = "decide" /\ is_free /\ mutator = m

Earned(m) ==
    /\ mode = "guided" => Cardinality(SavedBy(m)) + (IF Pays(m) THEN 1 ELSE 0) <= reward[m]
    /\ reward[m] <= 2 * count[m]

LEMMA RewardFacts ==
    ASSUME NEW free \in BOOLEAN, NEW compiled \in BOOLEAN, NEW diverse \in BOOLEAN
    PROVE  /\ Reward(free, compiled, diverse) \in 0..2
           /\ free => Reward(free, compiled, diverse) >= 1
BY DEF Reward

LEMMA SavedFinite ==
    ASSUME IsFiniteSet(target_dir), NEW m
    PROVE  IsFiniteSet(SavedBy(m)) /\ Cardinality(SavedBy(m)) \in Nat
<1>1. IsFiniteSet(SavedBy(m)) BY FS_Subset DEF SavedBy
<1> QED BY <1>1, FS_CardinalityType

(* A step that neither rewards nor saves, and is not followed by a save.   *)
LEMMA EarnsNothing ==
    ASSUME NEW m, IsFiniteSet(target_dir), Earned(m), reward[m] \in Nat,
           UNCHANGED <<mode, target_dir, count, reward>>,
           pc' # "decide" \/ UNCHANGED <<pc, is_free, mutator>> \/ mode # "guided"
    PROVE  Earned(m)'
<1>1. SavedBy(m)' = SavedBy(m) BY DEF SavedBy
<1>2. Cardinality(SavedBy(m)) \in Nat BY SavedFinite
<1> QED BY <1>1, <1>2 DEF Earned, Pays

LEMMA EarnedByReward ==
    ASSUME TypeOK, InRound, IsFiniteSet(target_dir), GiveReward, RewardIsGuided,
           NEW m \in Mutators, Earned(m)
    PROVE  Earned(m)'
<1>1. PICK compiled, diverse \in BOOLEAN : CalcReward(mutator, is_free, compiled, diverse)
  BY DEF GiveReward
<1> DEFINE r == Reward(is_free, compiled, diverse)
<1>2. /\ pc = "reward" /\ pc' = "decide" /\ UNCHANGED <<mode, target_dir, is_free, mutator>>
      /\ is_free \in BOOLEAN /\ mutator \in Mutators
  BY DEF GiveReward, campaignVars, TypeOK, InRound, Rounds
<1>3. r \in 0..2 /\ (is_free => r >= 1) BY <1>2, RewardFacts
<1>4. /\ count' = [count EXCEPT ![mutator] = @ + 1]
      /\ reward' = [reward EXCEPT ![mutator] = @ + r]
  BY <1>1 DEF CalcReward
<1>5. count \in [Mutators -> Nat] /\ reward \in [Mutators -> Nat] BY DEF TypeOK, SchedulerTypeOK
<1>6. SavedBy(m)' = SavedBy(m) /\ Cardinality(SavedBy(m)) \in Nat
  BY <1>2, SavedFinite DEF SavedBy
<1>7. mode = "guided" => Cardinality(SavedBy(m)) <= reward[m]
  <2>1. ~Pays(m) BY <1>2 DEF Pays
  <2> QED BY <1>5, <1>6, <2>1 DEF Earned
<1>8. reward[m] <= 2 * count[m] BY DEF Earned
<1> HIDE DEF r
<1>9. CASE m = mutator
  <2>1. count'[m] = count[m] + 1 /\ reward'[m] = reward[m] + r BY <1>4, <1>5, <1>9
  <2>2. reward'[m] <= 2 * count'[m] BY <1>3, <1>5, <1>8, <2>1
  <2>3. mode = "guided" => Cardinality(SavedBy(m)) + (IF Pays(m)' THEN 1 ELSE 0) <= reward'[m]
    <3>1. Pays(m)' => is_free BY <1>2 DEF Pays
    <3> QED BY <1>3, <1>5, <1>6, <1>7, <2>1, <3>1
  <2> QED BY <1>2, <1>6, <2>2, <2>3 DEF Earned
<1>10. CASE m # mutator
  <2>1. count'[m] = count[m] /\ reward'[m] = reward[m] BY <1>4, <1>5, <1>10
  <2>2. ~Pays(m)' BY <1>2, <1>10 DEF Pays
  <2> QED BY <1>2, <1>5, <1>6, <1>7, <1>8, <2>1, <2>2 DEF Earned
<1> QED BY <1>9, <1>10

LEMMA EarnedByDecide ==
    ASSUME TypeOK, IsFiniteSet(target_dir), Decide, NEW m \in Mutators, Earned(m)
    PROVE  Earned(m)' /\ IsFiniteSet(target_dir)'
<1>1. /\ pc = "decide" /\ pc' # "decide" /\ UNCHANGED <<mode, count, reward>>
      /\ target_dir' = target_dir \/ (is_free /\ target_dir' = target_dir \cup {Saved})
  BY DEF Decide, TimeExpired, GoOn, schedulerVars
<1>2. reward[m] \in Nat BY DEF TypeOK, SchedulerTypeOK
<1>3. CASE target_dir' = target_dir
  BY <1>1, <1>2, <1>3, EarnsNothing
<1>4. CASE is_free /\ target_dir' = target_dir \cup {Saved}
  <2>1. IsFiniteSet(target_dir)' BY <1>4, FS_AddElement
  <2>2. Saved.mutator = mutator BY DEF Saved
  <2>3. ~Pays(m)' BY <1>1 DEF Pays
  <2>4. CASE m = mutator
    <3>1. SavedBy(m)' = SavedBy(m) \cup {Saved} BY <1>4, <2>2, <2>4 DEF SavedBy
    <3>2. IsFiniteSet(SavedBy(m)) /\ Cardinality(SavedBy(m)) \in Nat BY SavedFinite
    <3>3. Cardinality(SavedBy(m)') <= Cardinality(SavedBy(m)) + 1
          /\ Cardinality(SavedBy(m)') \in Nat
      <4> DEFINE more == Cardinality(SavedBy(m) \cup {Saved})
      <4>1. more = Cardinality(SavedBy(m)) \/ more = Cardinality(SavedBy(m)) + 1
        BY <3>2, FS_AddElement
      <4>2. Cardinality(SavedBy(m)') = more BY <3>1
      <4> HIDE DEF more
      <4> QED BY <3>2, <4>1, <4>2
    <3>4. Pays(m) BY <1>1, <1>4, <2>4 DEF Pays
    <3> QED BY <1>1, <1>2, <2>1, <2>3, <3>2, <3>3, <3>4 DEF Earned
  <2>5. CASE m # mutator
    <3>1. SavedBy(m)' = SavedBy(m) BY <1>4, <2>2, <2>5 DEF SavedBy
    <3>2. Cardinality(SavedBy(m)) \in Nat BY SavedFinite
    <3> QED BY <1>1, <1>2, <2>1, <2>3, <3>1, <3>2 DEF Earned
  <2> QED BY <2>4, <2>5
<1> QED BY <1>1, <1>3, <1>4

LEMMA EarnedStep ==
    ASSUME TypeOK, InRound, RewardIsGuided, IsFiniteSet(target_dir), [Next]_vars,
           NEW m \in Mutators, Earned(m)
    PROVE  Earned(m)' /\ IsFiniteSet(target_dir)'
<1>1. reward[m] \in Nat BY DEF TypeOK, SchedulerTypeOK
<1>2. CASE ReadSeed \/ SeedUnreadable \/ Mutate \/ MutationFails \/ RewardFails
  <2>1. UNCHANGED <<mode, target_dir, count, reward>> /\ pc' # "decide"
    BY <1>2 DEF ReadSeed, SeedCfg, SeedUnreadable, Mutate, MutationFails, RewardFails,
       schedulerVars, campaignVars
  <2> QED BY <1>1, <2>1, EarnsNothing
<1>3. CASE Check
  <2>1. UNCHANGED <<mode, target_dir, count, reward>> /\ (pc' # "decide" \/ mode # "guided")
    BY <1>3 DEF Check, AfterCheck, schedulerVars, campaignVars
  <2> QED BY <1>1, <2>1, EarnsNothing
<1>4. CASE GiveReward
  <2>1. UNCHANGED target_dir BY <1>4 DEF GiveReward, campaignVars
  <2> QED BY <1>4, <2>1, EarnedByReward
<1>5. CASE Decide BY <1>5, EarnedByDecide
<1>6. CASE Ended \/ UNCHANGED vars
  <2>1. UNCHANGED <<mode, target_dir, count, reward, pc, is_free, mutator>>
    BY <1>6 DEF Ended, vars, schedulerVars
  <2> QED BY <1>1, <2>1, EarnsNothing
<1> QED BY <1>2, <1>3, <1>4, <1>5, <1>6 DEF Next

(* The table counts one turn a round: only calc_reward changes it.         *)
AddsUp == SumFunction(count) = total_cnt

LEMMA MutatorsFinite == IsFiniteSet(Mutators)
<1> DEFINE places == 1..Len(Opts)
<1> DEFINE turn == [n \in places |-> Opts[n]]
<1>1. IsFiniteSet(places) BY FS_Interval, OptsFacts
<1>2. turn \in Surjection(places, Mutators) BY OptsFacts DEF Surjection
<1> HIDE DEF places, turn
<1> QED BY <1>1, <1>2, FS_Surjection

LEMMA AddsUpStep == TypeOK /\ InRound /\ AddsUp /\ [Next]_vars => AddsUp'
<1> SUFFICES ASSUME TypeOK, InRound, AddsUp, [Next]_vars PROVE AddsUp' OBVIOUS
<1>1. CASE GiveReward
  <2>1. /\ count' = [count EXCEPT ![mutator] = @ + 1] /\ total_cnt' = total_cnt + 1
        /\ mutator \in Mutators
    BY <1>1 DEF GiveReward, CalcReward, InRound, Rounds
  <2>2. count \in [Mutators -> Nat] BY DEF TypeOK, SchedulerTypeOK
  <2>3. SumFunction(count') = SumFunction(count) + 1 BY <2>1, <2>2, MutatorsFinite, SumCountsOne
  <2> QED BY <2>1, <2>3 DEF AddsUp
<1>2. CASE ~GiveReward
  <2>1. UNCHANGED <<count, total_cnt>>
    BY <1>2 DEF Next, ReadSeed, SeedCfg, SeedUnreadable, Mutate, MutationFails, Check, RewardFails,
       Decide, Ended, vars, schedulerVars, campaignVars
  <2> QED BY <2>1 DEF AddsUp
<1> QED BY <1>1, <1>2

(* Each program the guided fuzzer saved earned its mutator at least one,   *)
(* no mutator earns more than two a turn, and the turns add up to the      *)
(* rounds, for any number of mutators and rounds.                          *)
THEOREM RewardsTellWhatIsSaved == Spec => []RewardsTellSaves
<1> DEFINE Paid == IsFiniteSet(target_dir) /\ \A m \in Mutators : Earned(m)
<1>0. Init => AddsUp
  <2> SUFFICES ASSUME Init PROVE AddsUp OBVIOUS
  <2>1. count = [m \in Mutators |-> 0] /\ total_cnt = 0 BY DEF Init, SchedulerInit
  <2> QED BY <2>1, MutatorsFinite, SumOfZeros DEF AddsUp
<1>1. Init => Paid /\ RewardIsGuided
  <2> SUFFICES ASSUME Init PROVE Paid BY DEF Init, RewardIsGuided
  <2>1. target_dir = {} /\ pc = "seed" BY DEF Init
  <2>2. \A m \in Mutators : SavedBy(m) = {} /\ reward[m] = 0 /\ count[m] = 0
    BY <2>1 DEF Init, SchedulerInit, SavedBy
  <2> QED BY <2>1, <2>2, FS_EmptySet DEF Earned, Pays
<1>2. TypeOK /\ InRound /\ RewardIsGuided /\ Paid /\ [Next]_vars => Paid'
  <2> SUFFICES ASSUME TypeOK, InRound, RewardIsGuided, Paid, [Next]_vars PROVE Paid' OBVIOUS
  <2>1. Mutators # {} BY OptsFacts
  <2> QED BY <2>1, EarnedStep
<1>3. RewardIsGuided /\ [Next]_vars => RewardIsGuided'
  BY DEF RewardIsGuided, Next, ReadSeed, SeedUnreadable, Mutate, MutationFails, Check, AfterCheck,
     GiveReward, RewardFails, Decide, TimeExpired, GoOn, Ended, vars, campaignVars
<1>4. TypeOK /\ AddsUp /\ Paid => RewardsTellSaves
  <2> SUFFICES ASSUME TypeOK, AddsUp, Paid, NEW m \in Mutators
               PROVE  /\ mode = "guided" => Cardinality(SavedBy(m)) <= reward[m]
                      /\ reward[m] <= 2 * count[m]
    BY DEF RewardsTellSaves, AddsUp
  <2>1. Earned(m) /\ reward[m] \in Nat /\ Cardinality(SavedBy(m)) \in Nat
    BY SavedFinite DEF TypeOK, SchedulerTypeOK
  <2> QED BY <2>1 DEF Earned
<1> HIDE DEF Paid
<1> HIDE DEF AddsUp
<1> QED BY <1>0, <1>1, <1>2, <1>3, <1>4, AddsUpStep, RoundCorrect, PTL DEF Spec

---------------------------------------------------------------------------
(* What a program grew from.  Within a visit every earlier version was     *)
(* saved, because a refused one ends the visit.                            *)
SavedInVisit(n) == \E t \in target_dir : t.version.visit = visit /\ t.version.i = n

ChainSoFar ==
    /\ pc = "mutate" => \A n \in 1..i : SavedInVisit(n)
    /\ pc \in Rounds => /\ \A n \in 1..(i - 1) : SavedInVisit(n)
                       /\ test_c.visit = visit /\ test_c.i = i

LEMMA ChainStep == TypeOK /\ ChainSoFar /\ SavedChain /\ [Next]_vars => ChainSoFar' /\ SavedChain'
<1> SUFFICES ASSUME TypeOK, ChainSoFar, SavedChain, [Next]_vars PROVE ChainSoFar' /\ SavedChain'
  OBVIOUS
<1>t. i \in Nat /\ visit \in Nat /\ edits \in Nat BY TimeFacts DEF TypeOK
<1>1. ASSUME UNCHANGED target_dir PROVE SavedChain' BY <1>1 DEF SavedChain
<1>2. CASE ReadSeed
  <2>1. pc' = "mutate" /\ i' = 0 /\ UNCHANGED target_dir BY <1>2 DEF ReadSeed, campaignVars
  <2> QED BY <2>1, <1>1 DEF ChainSoFar, Rounds
<1>3. CASE SeedUnreadable \/ MutationFails \/ RewardFails
  <2>1. pc' = "crashed" /\ UNCHANGED target_dir
    BY <1>3 DEF SeedUnreadable, MutationFails, RewardFails, campaignVars
  <2> QED BY <2>1, <1>1 DEF ChainSoFar, Rounds
<1>4. CASE Mutate
  <2>1. /\ pc = "mutate" /\ pc' = "check" /\ i' = i + 1 /\ UNCHANGED <<target_dir, visit>>
        /\ test_c'.visit = visit /\ test_c'.i = i + 1
    BY <1>4 DEF Mutate, campaignVars
  <2>2. \A n \in 1..(i' - 1) : SavedInVisit(n)' BY <1>t, <2>1 DEF ChainSoFar, SavedInVisit
  <2> QED BY <2>1, <2>2, <1>1 DEF ChainSoFar
<1>5. CASE Check \/ GiveReward
  <2>1. pc \in Rounds /\ pc' \in Rounds /\ UNCHANGED <<i, visit, test_c, target_dir>>
    BY <1>5 DEF Check, AfterCheck, GiveReward, Rounds, campaignVars
  <2> QED BY <2>1, <1>1 DEF ChainSoFar, SavedInVisit, Rounds
<1>6. CASE Decide
  <2>1. /\ pc = "decide" /\ UNCHANGED <<i, visit>>
        /\ \A n \in 1..(i - 1) : SavedInVisit(n)
        /\ test_c.visit = visit /\ test_c.i = i
    BY <1>6 DEF Decide, ChainSoFar, Rounds
  <2>2. PICK now : TimeExpired(now) \/ GoOn(now) BY <1>6 DEF Decide
  <2>3. CASE ~is_free \/ TimeExpired(now)
    <3>1. UNCHANGED target_dir /\ pc' \in {"seed", "done"}
      BY <2>2, <2>3 DEF TimeExpired, GoOn, VisitOver
    <3> QED BY <3>1, <1>1 DEF ChainSoFar, Rounds
  <2>4. CASE is_free /\ GoOn(now)
    <3>1. target_dir' = target_dir \cup {Saved} /\ pc' \in {"seed", "mutate"} BY <2>4 DEF GoOn
    <3>2. Saved.version = test_c BY DEF Saved
    <3>3. \A n \in 1..i : SavedInVisit(n)'
      <4> SUFFICES ASSUME NEW n \in 1..i PROVE SavedInVisit(n)' OBVIOUS
      <4>1. CASE n = i BY <4>1, <2>1, <3>1, <3>2 DEF SavedInVisit
      <4>2. CASE n # i
        <5>1. SavedInVisit(n) BY <4>2, <1>t, <2>1
        <5> QED BY <5>1, <2>1, <3>1 DEF SavedInVisit
      <4> QED BY <4>1, <4>2
    <3>4. SavedChain'
      <4> SUFFICES ASSUME NEW s \in target_dir', NEW n \in 1..(s.version.i - 1)
                   PROVE  \E t \in target_dir' : t.version.visit = s.version.visit /\ t.version.i = n
        BY DEF SavedChain
      <4>1. CASE s \in target_dir BY <4>1, <3>1 DEF SavedChain
      <4>2. CASE s = Saved
        <5>1. n \in 1..(i - 1) /\ s.version.visit = visit BY <4>2, <2>1, <3>2
        <5>2. SavedInVisit(n) BY <5>1, <2>1
        <5> QED BY <5>1, <5>2, <3>1 DEF SavedInVisit
      <4> QED BY <4>1, <4>2, <3>1
    <3> QED BY <2>1, <3>1, <3>3, <3>4 DEF ChainSoFar, Rounds
  <2> QED BY <2>2, <2>3, <2>4
<1>7. CASE Ended \/ UNCHANGED vars
  BY <1>7, <1>1 DEF Ended, vars, ChainSoFar, SavedInVisit, Rounds
<1> QED BY <1>2, <1>3, <1>4, <1>5, <1>6, <1>7 DEF Next

(* No mutation is built on a refused program: what is saved grew, within   *)
(* its visit, from versions that were all saved before.                    *)
THEOREM SavedProgramsGrowFromSaved == Spec => []SavedChain
<1>1. Init => ChainSoFar /\ SavedChain BY DEF Init, ChainSoFar, SavedChain, Rounds
<1> QED BY <1>1, ChainStep, TypeCorrect, PTL DEF Spec
===========================================================================
