------------------------ MODULE VerifyResults_proofs ------------------------
(***************************************************************************)
(* The statements of verify_results compute the verdict, and the verdict   *)
(* blames whom it should, for any number of targets, any compilers behind  *)
(* them and any texts the programs print.                                  *)
(***************************************************************************)
EXTENDS VerifyResults, FiniteSetTheorems, TLAPS

-----------------------------------------------------------------------------
(* The vote. *)

\* A nonempty set of targets has a smallest one, so the target that is picked
\* next, and the one a report is named after, exists.
LEMMA MinExists ==
    ASSUME NEW S, S \subseteq Nat, S # {}
    PROVE  Min(S) \in S /\ \A x \in S : Min(S) <= x
  <1> DEFINE Less == OpToRel(<, Nat)
  <1>1. IsWellFoundedOn(Less, Nat)
    BY NatLessThanWellFounded
  <1>2. \E x \in S : \A y \in S : ~ (<<y, x>> \in Less)
    <2> HIDE DEF Less
    <2> QED BY <1>1, WFMin
  <1>3. Less = {ss \in Nat \X Nat : ss[1] < ss[2]}
    BY Zenon DEF OpToRel
  <1>4. \A x, y \in Nat : <<y, x>> \in Less <=> y < x
    <2> HIDE DEF Less
    <2> QED BY <1>3
  <1>5. \E x \in S : \A y \in S : x <= y
    <2> HIDE DEF Less
    <2>1. PICK x \in S : \A y \in S : ~ (<<y, x>> \in Less)
      BY <1>2
    <2>2. \A y \in S : ~(y < x)
      BY <2>1, <1>4
    <2> QED BY <2>2
  <1> QED BY <1>5 DEF Min

\* The verdict is "ok" only on results that agree.
LEMMA VerdictOnDifference ==
    ASSUME NEW outs, ~Agreed(outs)
    PROVE  TestVerdict(outs).status # "ok"
  BY DEF TestVerdict

\* Only finitely many texts are printed.
LEMMA SumsFinite ==
    ASSUME NEW outs
    PROVE  IsFiniteSet(Sums(outs))
  <1> DEFINE S == Succeeded(outs)
             f == [t \in S |-> outs[t]]
  <1>1. IsFiniteSet(S)
    BY TargetsAssumption, FS_Subset DEF Succeeded
  <1>2. f \in Surjection(S, Sums(outs))
    BY DEF Surjection, Sums
  <1> HIDE DEF S, f
  <1> QED BY <1>1, <1>2, FS_Surjection

\* The runs that are in the dictionary already.
Grouped == Succeeded(runs) \ todo

\* The dictionary holds the runs taken so far, one entry for each text, in the
\* order in which the texts came up; and the runs are taken in their order.
GroupsFit ==
    /\ todo \subseteq Succeeded(runs)
    /\ results \in Seq(SUBSET Targets)
    /\ \A t \in Grouped, u \in todo : t < u
    /\ \A i \in DOMAIN results : /\ results[i] # {} /\ results[i] \subseteq Grouped
                                 /\ \A t \in Grouped : t \in results[i] <=> runs[t] = SumOf(results[i])
    /\ \A t \in Grouped : \E i \in DOMAIN results : t \in results[i]
    /\ \A i, j \in DOMAIN results : i < j => Min(results[i]) < Min(results[j])

Labels == {"group", "majority", "no_opt", "compilers", "done"}

\* The ballot is the one of the reference, as far as the vote has come.
BallotFits ==
    /\ pc \in Labels
    /\ pc = "group" => status = "ok" /\ ballot = NoBallot
    /\ pc \in {"majority", "no_opt", "compilers"} =>
          status = "miscompare" /\ ~Agreed(runs) /\ Cardinality(Sums(runs)) = 2
    /\ pc = "majority"  => ballot = Ballot(runs)
    /\ pc = "no_opt"    => ballot = Majority(Ballot(runs))
    /\ pc = "compilers" => ballot = PreferNoOpt(Majority(Ballot(runs)))

Inv == GroupsFit /\ BallotFits /\ ComputesVerdict

-----------------------------------------------------------------------------
(* The loop. *)

LEMMA RunsAreNumbers == Targets \subseteq Nat /\ Succeeded(runs) \subseteq Targets
  BY TargetsAssumption DEF Succeeded

\* A set that gets a larger number keeps its smallest one.
LEMMA MinStays ==
    ASSUME NEW S, S \subseteq Nat, S # {}, NEW t \in Nat, \A x \in S : x < t
    PROVE  Min(S \cup {t}) = Min(S)
  <1>1. Min(S) \in S /\ \A x \in S : Min(S) <= x
    BY MinExists
  <1>2. /\ Min(S \cup {t}) \in S \cup {t}
        /\ \A x \in S \cup {t} : Min(S \cup {t}) <= x
    <2>1. S \cup {t} \subseteq Nat /\ S \cup {t} # {}
      OBVIOUS
    <2> QED BY <2>1, MinExists
  <1> DEFINE a == Min(S)
             b == Min(S \cup {t})
  <1>3. /\ a \in Nat /\ b \in Nat /\ a \in S /\ a < t
        /\ b \in S => a <= b
        /\ b \in S \/ b = t
        /\ b <= a
    BY <1>1, <1>2
  <1> HIDE DEF a, b
  <1>4. a = b
    BY <1>3
  <1> QED BY <1>4 DEF a, b

LEMMA MinOfOne ==
    ASSUME NEW t \in Nat
    PROVE  Min({t}) = t
  <1>1. {t} \subseteq Nat /\ {t} # {}
    OBVIOUS
  <1> QED BY <1>1, MinExists

LEMMA CollectKeeps ==
    ASSUME GroupsFit, Collect
    PROVE  GroupsFit'
  <1> DEFINE t == Min(todo)
  <1>1. t \in todo /\ \A u \in todo : t <= u
    <2>1. todo \subseteq Nat /\ todo # {}
      BY RunsAreNumbers DEF GroupsFit, Collect
    <2> QED BY <2>1, MinExists
  <1>2. t \in Targets /\ t \in Nat /\ t \in Succeeded(runs) /\ t \notin Grouped
    BY <1>1, RunsAreNumbers DEF GroupsFit, Grouped
  <1>3. todo' = todo \ {t} /\ UNCHANGED runs
    BY DEF Collect
  <1>4. Grouped' = Grouped \cup {t}
    BY <1>2, <1>3, <1>1 DEF Grouped
  <1>5. Grouped \subseteq Nat /\ \A s \in Grouped : s < t
    BY <1>1, RunsAreNumbers DEF Grouped, GroupsFit
  <1>6. \A s \in Grouped', u \in todo' : s < u
    <2>1. ASSUME NEW u \in todo' PROVE t < u
      <3>1. u \in todo /\ u # t /\ u \in Nat
        BY <1>3, RunsAreNumbers DEF GroupsFit
      <3>2. t <= u
        BY <1>1, <3>1
      <3> HIDE DEF t
      <3> QED BY <3>1, <3>2, <1>2
    <2> QED BY <2>1, <1>3, <1>4 DEF GroupsFit
  <1> HIDE DEF t
  <1>7. \A i \in DOMAIN results : /\ results[i] # {} /\ results[i] \subseteq Grouped
                                  /\ results[i] \subseteq Nat
                                  /\ Min(results[i]) \in results[i]
                                  /\ Min(results[i]) \in Nat /\ Min(results[i]) < t
    <2>1. ASSUME NEW i \in DOMAIN results
          PROVE  results[i] # {} /\ results[i] \subseteq Grouped
      BY DEF GroupsFit
    <2> QED BY <2>1, <1>5, MinExists
  <1>8. ASSUME NEW i \in DOMAIN results, SumOf(results[i]) = runs[t],
               results' = [results EXCEPT ![i] = @ \cup {t}]
        PROVE  GroupsFit'
    <2>1. results \in Seq(SUBSET Targets)
      BY DEF GroupsFit
    <2>2. results' \in Seq(SUBSET Targets) /\ DOMAIN results' = DOMAIN results
      BY <2>1, <1>8, <1>2
    <2>3. \A j \in DOMAIN results : results'[j] = IF j = i THEN results[i] \cup {t} ELSE results[j]
      BY <1>8, <2>1
    <2>4. \A j \in DOMAIN results : Min(results'[j]) = Min(results[j])
      BY <2>3, <1>7, <1>5, <1>2, MinStays
    <2>5. \A j \in DOMAIN results : SumOf(results[j])' = SumOf(results[j])
      BY <2>4, <1>3 DEF SumOf
    <2>6. ASSUME NEW j \in DOMAIN results, j # i PROVE SumOf(results[j]) # runs[t]
      <3>1. Min(results[j]) \in Grouped /\ Min(results[i]) \in Grouped
        BY <1>7
      <3>2. SumOf(results[j]) = SumOf(results[i]) => Min(results[j]) \in results[i] /\ Min(results[i]) \in results[j]
        BY <3>1 DEF GroupsFit, SumOf
      <3>3. Min(results[j]) \in results[i] /\ Min(results[i]) \in results[j] => Min(results[i]) = Min(results[j])
        BY <1>7, MinExists
      <3>4. Min(results[i]) # Min(results[j])
        <4>1. i < j \/ j < i
          BY <2>1, <2>6
        <4>2. Min(results[i]) < Min(results[j]) \/ Min(results[j]) < Min(results[i])
          BY <4>1 DEF GroupsFit
        <4>3. Min(results[i]) \in Nat /\ Min(results[j]) \in Nat
          BY <1>7
        <4> QED BY <4>2, <4>3
      <3> QED BY <3>2, <3>3, <3>4, <1>8
    <2>7. \A j \in DOMAIN results :
             /\ results'[j] # {} /\ results'[j] \subseteq Grouped'
             /\ \A s \in Grouped' : s \in results'[j] <=> runs[s] = SumOf(results[j])
      <3>1. \A j \in DOMAIN results : \A s \in Grouped : s \in results[j] <=> runs[s] = SumOf(results[j])
        BY DEF GroupsFit
      <3> QED BY <3>1, <2>3, <2>6, <1>4, <1>7, <1>2, <1>8
    <2>8. \A s \in Grouped' : \E j \in DOMAIN results : s \in results'[j]
      BY <1>4, <2>3 DEF GroupsFit
    <2>9. \A j, k \in DOMAIN results : j < k => Min(results'[j]) < Min(results'[k])
      BY <2>4 DEF GroupsFit
    <2> QED BY <2>2, <2>5, <2>7, <2>8, <2>9, <1>3, <1>6 DEF GroupsFit
  <1>9. ASSUME \A i \in DOMAIN results : SumOf(results[i]) # runs[t],
               results' = Append(results, {t})
        PROVE  GroupsFit'
    <2> DEFINE n == Len(results) + 1
    <2>1. results \in Seq(SUBSET Targets)
      BY DEF GroupsFit
    <2>2. /\ results' \in Seq(SUBSET Targets) /\ DOMAIN results' = DOMAIN results \cup {n}
          /\ n \notin DOMAIN results /\ \A i \in DOMAIN results : i < n /\ ~(n < i)
          /\ ~(n < n)
      BY <2>1, <1>9, <1>2
    <2>3. results'[n] = {t} /\ \A j \in DOMAIN results : results'[j] = results[j]
      BY <1>9, <2>1
    <2> HIDE DEF n
    <2>4. Min({t}) = t
      BY <1>2, MinOfOne
    <2>5. \A j \in DOMAIN results : runs'[Min(results'[j])] = SumOf(results[j])
      BY <2>3, <1>3 DEF SumOf
    <2>6. runs'[Min(results'[n])] = runs[t]
      BY <2>3, <2>4, <1>3
    <2>7. \A j \in DOMAIN results :
             /\ results'[j] # {} /\ results'[j] \subseteq Grouped'
             /\ \A s \in Grouped' : s \in results'[j] <=> runs'[s] = runs'[Min(results'[j])]
      <3>1. \A j \in DOMAIN results : \A s \in Grouped : s \in results[j] <=> runs[s] = SumOf(results[j])
        BY DEF GroupsFit
      <3> QED BY <3>1, <2>3, <2>5, <1>9, <1>2, <1>3, <1>4, <1>7
    <2>8. \A s \in Grouped : runs[s] # runs[t]
      BY <1>9 DEF GroupsFit
    <2>9. \A s \in Grouped' : s \in results'[n] <=> runs'[s] = runs'[Min(results'[n])]
      BY <2>3, <2>6, <2>8, <1>2, <1>3, <1>4
    <2>10. \A s \in Grouped' : \E j \in DOMAIN results' : s \in results'[j]
      BY <1>4, <2>2, <2>3 DEF GroupsFit
    <2>11. \A j, k \in DOMAIN results' : j < k => Min(results'[j]) < Min(results'[k])
      <3>1. ASSUME NEW j \in DOMAIN results', NEW k \in DOMAIN results', j < k
            PROVE  Min(results'[j]) < Min(results'[k])
        <4>1. j \in DOMAIN results
          BY <3>1, <2>2
        <4>2. CASE k = n
          BY <4>1, <4>2, <2>3, <2>4, <1>7
        <4>3. CASE k # n
          BY <4>1, <4>3, <3>1, <2>2, <2>3 DEF GroupsFit
        <4> QED BY <4>2, <4>3
      <3> QED BY <3>1
    <2>12. todo' \subseteq Succeeded(runs')
      BY <1>3 DEF GroupsFit
    <2>13. results'[n] # {} /\ results'[n] \subseteq Grouped'
      BY <2>3, <1>4
    <2> QED BY <2>2, <2>7, <2>9, <2>10, <2>11, <2>12, <2>13, <1>6 DEF GroupsFit, SumOf
  <1> QED BY <1>8, <1>9 DEF Collect, t


-----------------------------------------------------------------------------
(* After the loop the dictionary tells how many texts there are. *)

LEMMA GroupsAtEnd ==
    ASSUME GroupsFit, todo = {}
    PROVE  /\ results \in Seq(SUBSET Targets) /\ Len(results) \in Nat
           /\ DOMAIN results = 1 .. Len(results)
           /\ \A i \in DOMAIN results : /\ results[i] \subseteq Succeeded(runs)
                                        /\ Min(results[i]) \in results[i]
                                        /\ Min(results[i]) \in Nat
                                        /\ \A t \in results[i] : Min(results[i]) <= t
           /\ \A i \in DOMAIN results, t \in Succeeded(runs) :
                 t \in results[i] <=> runs[t] = SumOf(results[i])
           /\ \A t \in Succeeded(runs) : \E i \in DOMAIN results : t \in results[i]
           /\ \A i, j \in DOMAIN results : SumOf(results[i]) = SumOf(results[j]) => i = j
  <1>1. Grouped = Succeeded(runs)
    BY DEF Grouped
  <1>2. ASSUME NEW i \in DOMAIN results
        PROVE  /\ results[i] \subseteq Succeeded(runs) /\ results[i] \subseteq Nat
               /\ Min(results[i]) \in results[i]
               /\ Min(results[i]) \in Nat
               /\ \A t \in results[i] : Min(results[i]) <= t
    <2>1. results[i] # {} /\ results[i] \subseteq Succeeded(runs) /\ results[i] \subseteq Nat
      BY <1>1, RunsAreNumbers DEF GroupsFit
    <2> QED BY <2>1, MinExists
  <1>3. results \in Seq(SUBSET Targets) /\ Len(results) \in Nat /\ DOMAIN results = 1 .. Len(results)
    BY DEF GroupsFit
  <1>4. \A i \in DOMAIN results, t \in Succeeded(runs) :
                 t \in results[i] <=> runs[t] = SumOf(results[i])
    BY <1>1 DEF GroupsFit
  <1>5. \A i, j \in DOMAIN results : SumOf(results[i]) = SumOf(results[j]) => i = j
    <2>1. ASSUME NEW i \in DOMAIN results, NEW j \in DOMAIN results,
                 SumOf(results[i]) = SumOf(results[j])
          PROVE  ~(i < j)
      <3>1. Min(results[j]) \in results[i] /\ Min(results[j]) \in Succeeded(runs)
        BY <1>2, <1>4, <2>1 DEF SumOf
      <3>2. Min(results[i]) <= Min(results[j]) /\ Min(results[i]) \in Nat /\ Min(results[j]) \in Nat
        BY <1>2, <3>1
      <3>3. Min(results[j]) \in results[j] /\ Min(results[i]) \in results[j]
        BY <1>2, <1>4, <2>1 DEF SumOf
      <3>4. Min(results[j]) <= Min(results[i])
        BY <1>2, <3>3
      <3>5. ~(Min(results[i]) < Min(results[j]))
        BY <3>2, <3>4
      <3> QED BY <3>5 DEF GroupsFit
    <2> QED BY <2>1, <1>3
  <1> QED BY <1>1, <1>2, <1>3, <1>4, <1>5 DEF GroupsFit

LEMMA LengthCounts ==
    ASSUME GroupsFit, todo = {}
    PROVE  /\ Len(results) = Cardinality(Sums(runs))
           /\ Sums(runs) = {SumOf(results[i]) : i \in DOMAIN results}
  <1> DEFINE f == [i \in 1 .. Len(results) |-> SumOf(results[i])]
  <1>1. ASSUME NEW i \in DOMAIN results PROVE SumOf(results[i]) \in Sums(runs)
    BY GroupsAtEnd DEF SumOf, Sums
  <1>2. ASSUME NEW sum \in Sums(runs) PROVE \E i \in DOMAIN results : sum = SumOf(results[i])
    <2>1. PICK t \in Succeeded(runs) : sum = runs[t]
      BY DEF Sums
    <2> QED BY <2>1, GroupsAtEnd
  <1>3. f \in Bijection(1 .. Len(results), Sums(runs))
    <2>1. DOMAIN results = 1 .. Len(results)
      BY GroupsAtEnd
    <2>2. f \in [1 .. Len(results) -> Sums(runs)]
      BY <1>1, <2>1
    <2>3. \A i, j \in 1 .. Len(results) : f[i] = f[j] => i = j
      BY <2>1, GroupsAtEnd
    <2>4. \A sum \in Sums(runs) : \E i \in 1 .. Len(results) : f[i] = sum
      BY <1>2, <2>1
    <2> HIDE DEF f
    <2> QED BY <2>2, <2>3, <2>4 DEF Bijection, Injection, Surjection, IsInjective
  <1> HIDE DEF f
  <1>4. ExistsBijection(1 .. Len(results), Sums(runs))
    BY <1>3 DEF ExistsBijection
  <1>5. Len(results) = Cardinality(Sums(runs))
    BY <1>4, GroupsAtEnd, FS_CountingElements
  <1> QED BY <1>1, <1>2, <1>5

\* One entry that reports no error is agreement, and nothing else is.
LEMMA OneEntry ==
    ASSUME GroupsFit, todo = {}
    PROVE  OneGoodResult <=> Agreed(runs)
  <1>1. Len(results) = Cardinality(Sums(runs))
    BY LengthCounts
  <1>2. CASE Len(results) = 1
    <2>1. DOMAIN results = {1}
      BY <1>2, GroupsAtEnd
    <2>2. Sums(runs) = {SumOf(results[1])}
      BY <2>1, LengthCounts
    <2> QED BY <1>1, <1>2, <2>2 DEF OneGoodResult, Agreed
  <1>3. CASE Len(results) # 1
    BY <1>1, <1>3 DEF OneGoodResult, Agreed
  <1> QED BY <1>2, <1>3

\* With two entries the first is that of the run that came first.
LEMMA TwoEntries ==
    ASSUME GroupsFit, todo = {}, Len(results) = 2
    PROVE  Ballot(runs) = [good |-> results[1], bad |-> results[2]]
  <1> DEFINE S == Succeeded(runs)
             t == Min(S)
  <1>1. DOMAIN results = {1, 2}
    BY GroupsAtEnd
  <1>2. /\ results[1] \subseteq S /\ results[2] \subseteq S
        /\ Min(results[1]) \in results[1]
        /\ Min(results[1]) \in Nat /\ Min(results[2]) \in Nat
        /\ \A u \in results[2] : Min(results[2]) <= u
    BY <1>1, GroupsAtEnd
  <1>3. t \in S /\ \A u \in S : t <= u
    <2>1. S \subseteq Nat /\ S # {}
      BY <1>2, RunsAreNumbers
    <2> QED BY <2>1, MinExists
  <1>4. Min(results[1]) < Min(results[2])
    BY <1>1 DEF GroupsFit
  <1>5. t \in Nat /\ t <= Min(results[1])
    BY <1>2, <1>3, RunsAreNumbers
  <1> HIDE DEF t
  <1>6. t \notin results[2]
    <2>1. SUFFICES ASSUME t \in results[2] PROVE FALSE
      OBVIOUS
    <2>2. Min(results[2]) <= t
      BY <2>1, <1>2
    <2> QED BY <2>2, <1>2, <1>4, <1>5
  <1>7. \A u \in S : u \in results[1] \/ u \in results[2]
    BY <1>1, GroupsAtEnd
  <1>8. t \in results[1]
    BY <1>3, <1>6, <1>7
  <1>9. \A u \in S : (u \in results[1] <=> runs[u] = SumOf(results[1]))
                     /\ (u \in results[2] <=> runs[u] = SumOf(results[2]))
    BY <1>1, GroupsAtEnd
  <1>10. SumOf(results[1]) # SumOf(results[2])
    BY <1>1, GroupsAtEnd
  <1>11. Group(runs, runs[t]) = results[1]
    <2>1. runs[t] = SumOf(results[1]) /\ runs[t] \in Checksums
      BY <1>3, <1>8, <1>9 DEF Succeeded
    <2>2. Group(runs, runs[t]) = {u \in S : runs[u] = SumOf(results[1])}
      BY <2>1 DEF Group, Succeeded
    <2> QED BY <2>2, <1>2, <1>9
  <1>12. S \ results[1] = results[2]
    BY <1>2, <1>7, <1>9, <1>10
  <1> QED BY <1>11, <1>12 DEF Ballot, t

LEMMA AllEntries ==
    ASSUME GroupsFit, todo = {}
    PROVE  UNION {results[i] : i \in DOMAIN results} = Succeeded(runs)
  BY GroupsAtEnd

-----------------------------------------------------------------------------
(* The invariant. *)

LEMMA InvInit == Init => Inv
  BY DEF Init, Inv, GroupsFit, BallotFits, ComputesVerdict, Grouped, Labels

LEMMA InvStep ==
    ASSUME Inv, [Next]_vars
    PROVE  Inv'
  <1> USE DEF Inv
  <1>1. CASE Collect
    <2>1. UNCHANGED <<runs, ballot, status, pc>> /\ pc = "group"
      BY <1>1 DEF Collect
    <2>2. GroupsFit'
      BY <1>1, CollectKeeps
    <2> QED BY <2>1, <2>2 DEF BallotFits, ComputesVerdict
  <1>2. CASE AllPassed
    <2>1. UNCHANGED <<runs, todo, results, ballot, status>> /\ pc = "group" /\ todo = {} /\ pc' = "done"
          /\ OneGoodResult
      BY <1>2 DEF AllPassed
    <2>2. GroupsFit'
      BY <2>1 DEF GroupsFit, Grouped, SumOf
    <2>3. Agreed(runs)
      BY <2>1, OneEntry
    <2>4. status = "ok" /\ ballot = NoBallot
      BY <2>1 DEF BallotFits
    <2>5. [status |-> status, good |-> ballot.good, bad |-> ballot.bad] = TestVerdict(runs)
      BY <2>3, <2>4 DEF TestVerdict, NoBallot
    <2> QED BY <2>1, <2>2, <2>5 DEF BallotFits, ComputesVerdict, Labels
  <1>3. CASE TwoResults
    <2>1. /\ UNCHANGED <<runs, todo, results>> /\ todo = {} /\ Len(results) = 2
          /\ pc' = "majority" /\ status' = "miscompare"
          /\ ballot' = [good |-> results[1], bad |-> results[2]]
      BY <1>3 DEF TwoResults
    <2>2. GroupsFit'
      BY <2>1 DEF GroupsFit, Grouped, SumOf
    <2>3. ballot' = Ballot(runs) /\ Cardinality(Sums(runs)) = 2
      BY <2>1, TwoEntries, LengthCounts
    <2>4. ~Agreed(runs)
      BY <2>3 DEF Agreed
    <2> QED BY <2>1, <2>2, <2>3, <2>4 DEF BallotFits, ComputesVerdict, Labels
  <1>4. CASE OtherResults
    <2>1. /\ UNCHANGED <<runs, todo, results>> /\ todo = {} /\ Len(results) # 2
          /\ pc' = "done" /\ ~OneGoodResult
          /\ status' = IF results = <<>> THEN "no_good_runs" ELSE "multiple_miscompare"
          /\ ballot' = [good |-> {}, bad |-> UNION {results[i] : i \in DOMAIN results}]
      BY <1>4 DEF OtherResults
    <2>2. GroupsFit'
      BY <2>1 DEF GroupsFit, Grouped, SumOf
    <2>3. ~Agreed(runs) /\ Cardinality(Sums(runs)) # 2 /\ ballot'.bad = Succeeded(runs)
      BY <2>1, OneEntry, LengthCounts, AllEntries
    <2>4. results = <<>> <=> Cardinality(Sums(runs)) = 0
      BY <2>1, LengthCounts, GroupsAtEnd
    <2>5. [status |-> status', good |-> ballot'.good, bad |-> ballot'.bad] = TestVerdict(runs)
      BY <2>1, <2>3, <2>4 DEF TestVerdict
    <2> QED BY <2>1, <2>2, <2>5 DEF BallotFits, ComputesVerdict, Labels
  <1>5. CASE MajorityVote \/ NoOptVote
    <2>1. /\ UNCHANGED <<runs, todo, results, status>>
          /\ \/ pc = "majority" /\ pc' = "no_opt" /\ ballot' = Majority(ballot)
             \/ pc = "no_opt" /\ pc' = "compilers" /\ ballot' = PreferNoOpt(ballot)
      BY <1>5 DEF MajorityVote, NoOptVote
    <2>2. GroupsFit'
      BY <2>1 DEF GroupsFit, Grouped, SumOf
    <2> QED BY <2>1, <2>2 DEF BallotFits, ComputesVerdict, Labels
  <1>6. CASE CompilersVote
    <2>1. /\ UNCHANGED <<runs, todo, results, status>>
          /\ pc = "compilers" /\ pc' = "done" /\ ballot' = PreferMoreCompilers(ballot)
      BY <1>6 DEF CompilersVote
    <2>2. GroupsFit'
      BY <2>1 DEF GroupsFit, Grouped, SumOf
    <2>3. ~Agreed(runs) /\ Cardinality(Sums(runs)) = 2 /\ status = "miscompare"
          /\ ballot' = Vote(Ballot(runs))
      BY <2>1 DEF BallotFits, Vote
    <2>4. [status |-> status', good |-> ballot'.good, bad |-> ballot'.bad] = TestVerdict(runs)
      BY <2>1, <2>3 DEF TestVerdict
    <2> QED BY <2>1, <2>2, <2>4 DEF BallotFits, ComputesVerdict, Labels
  <1>7. CASE Done \/ UNCHANGED vars
    <2>1. UNCHANGED vars
      BY <1>7 DEF Done
    <2> QED BY <2>1 DEF vars, GroupsFit, Grouped, SumOf, BallotFits, ComputesVerdict
  <1> QED BY <1>1, <1>2, <1>3, <1>4, <1>5, <1>6, <1>7 DEF Next

\* The loop and the swaps, one statement after the other, end in the verdict
\* that the model of the driver takes in one step, for any targets and any texts.
THEOREM StatementsComputeVerdict == Spec => []ComputesVerdict
  <1>1. Inv => ComputesVerdict
    BY DEF Inv
  <1>2. Inv /\ [Next]_vars => Inv'
    BY InvStep
  <1> QED BY <1>1, <1>2, InvInit, PTL DEF Spec

-----------------------------------------------------------------------------
(* What the verdict is worth. *)

\* A test is accepted only when all successful runs printed one and the same
\* text, and that text reports no error.
THEOREM AcceptedTestsAgree == Spec => []AcceptedMeansSame
  <1>1. ComputesVerdict => AcceptedMeansSame
    <2> SUFFICES ASSUME ComputesVerdict, pc = "done", status = "ok"
                 PROVE  \E sum \in Checksums \ ErrorSums :
                           Succeeded(runs) # {} /\ \A t \in Succeeded(runs) : runs[t] = sum
      BY DEF AcceptedMeansSame
    <2>1. Agreed(runs)
      <3>1. TestVerdict(runs).status = "ok"
        BY DEF ComputesVerdict
      <3> QED BY <3>1, VerdictOnDifference
    <2>2. PICK sum : Sums(runs) = {sum}
      BY <2>1, SumsFinite, FS_Singleton DEF Agreed
    <2>3. Succeeded(runs) # {} /\ \A t \in Succeeded(runs) : runs[t] = sum
      BY <2>2 DEF Sums
    <2>4. sum \in Checksums \ ErrorSums
      BY <2>1, <2>2, <2>3 DEF Agreed, Succeeded
    <2> QED BY <2>3, <2>4
  <1> QED BY <1>1, StatementsComputeVerdict, PTL

\* A ballot between two groups, the one whose first run came first being "good".
Fair(b) ==
    /\ b = [good |-> b.good, bad |-> b.bad]
    /\ b.good \subseteq Targets /\ b.bad \subseteq Targets
    /\ b.good \cap b.bad = {} /\ b.good # {} /\ b.bad # {}

LEMMA Sizes ==
    ASSUME NEW x \in SUBSET Targets
    PROVE  /\ Cardinality(x) \in Nat
           /\ Cardinality(Compilers(x)) \in Nat
           /\ x # {} => Min(x) \in x /\ Min(x) \in Nat /\ Cardinality(Compilers(x)) >= 1
  <1>1. IsFiniteSet(x)
    BY TargetsAssumption, FS_Subset
  <1> DEFINE f == [t \in x |-> SpecOf[t]]
  <1>2. f \in Surjection(x, Compilers(x))
    BY DEF Surjection, Compilers
  <1> HIDE DEF f
  <1>3. IsFiniteSet(Compilers(x))
    BY <1>1, <1>2, FS_Surjection
  <1>4. x # {} => Compilers(x) # {}
    BY DEF Compilers
  <1>5. x # {} => Cardinality(Compilers(x)) >= 1
    BY <1>3, <1>4, FS_EmptySet, FS_CardinalityType
  <1>6. x # {} => Min(x) \in x
    BY MinExists, TargetsAssumption
  <1>7. x \subseteq Nat
    BY TargetsAssumption
  <1> QED BY <1>1, <1>3, <1>5, <1>6, <1>7, FS_CardinalityType

\* The three swaps amount to the preference: the last one is the strongest.
LEMMA VotePrefers ==
    ASSUME NEW b, Fair(b), Min(b.good) < Min(b.bad)
    PROVE  Fair(Vote(b)) /\ Preferred(Vote(b).good, Vote(b).bad)
  <1> DEFINE m == Majority(b)
             n == PreferNoOpt(m)
             v == PreferMoreCompilers(n)
             Size(x)   == Cardinality(x)
             Width(x)  == Cardinality(Compilers(x))
             Plain(x)  == NoOpts(x) # {}
  <1>1. /\ Cardinality(b.good) \in Nat /\ Cardinality(b.bad) \in Nat
        /\ Width(b.good) \in Nat /\ Width(b.bad) \in Nat
        /\ Min(b.good) \in Nat /\ Min(b.bad) \in Nat
    BY Sizes DEF Fair
  <1>2. m \in {b, Swap(b)} /\ n \in {m, Swap(m)} /\ v \in {n, Swap(n)}
    BY DEF Majority, PreferNoOpt, PreferMoreCompilers
  <1>3. Fair(Swap(b)) /\ Swap(b).good = b.bad /\ Swap(b).bad = b.good /\ Swap(Swap(b)) = b
    BY DEF Swap, Fair
  <1>4. Size(m.good) > Size(m.bad) \/ (Size(m.good) = Size(m.bad) /\ m = b)
    BY <1>1, <1>3 DEF Majority
  <1>5. \/ Plain(n.good) /\ ~Plain(n.bad)
        \/ (Plain(n.good) <=> Plain(n.bad)) /\ n = m
    <2>1. m = b \/ (m.good = b.bad /\ m.bad = b.good)
      BY <1>2, <1>3
    <2>2. Swap(m).good = m.bad /\ Swap(m).bad = m.good
      BY DEF Swap
    <2> HIDE DEF m
    <2> QED BY <2>2 DEF PreferNoOpt
  <1>6. Width(v.good) > Width(v.bad) \/ (Width(v.good) = Width(v.bad) /\ v = n)
    BY <1>1, <1>2, <1>3 DEF PreferMoreCompilers
  <1>7. v \in {b, Swap(b)}
    BY <1>2, <1>3
  <1>8. Preferred(v.good, v.bad)
    <2> HIDE DEF m, n, v
    <2> QED BY <1>4, <1>5, <1>6, <1>7, <1>1, <1>3 DEF Preferred
  <1> QED BY <1>3, <1>7, <1>8 DEF Vote

\* The ballot between two texts is fair.
LEMMA BallotFair ==
    ASSUME Cardinality(Sums(runs)) = 2
    PROVE  /\ Fair(Ballot(runs)) /\ Min(Ballot(runs).good) < Min(Ballot(runs).bad)
           /\ Ballot(runs).good \cup Ballot(runs).bad = Succeeded(runs)
           /\ \A t \in Succeeded(runs) : \A u \in Ballot(runs).good :
                 t \in Ballot(runs).good <=> runs[t] = runs[u]
  <1> DEFINE S == Succeeded(runs)
             t == Min(S)
             b == Ballot(runs)
  <1>1. S # {}
    BY FS_EmptySet DEF Sums
  <1>2. t \in S /\ \A u \in S : t <= u
    BY <1>1, RunsAreNumbers, MinExists
  <1>3. b = [good |-> Group(runs, runs[t]), bad |-> S \ Group(runs, runs[t])]
    BY DEF Ballot
  <1>n. S \subseteq Nat /\ S \subseteq Targets
    BY RunsAreNumbers
  <1> HIDE DEF t
  <1>4. Group(runs, runs[t]) = {u \in S : runs[u] = runs[t]}
    BY <1>2 DEF Group, Succeeded
  <1>5. S \ Group(runs, runs[t]) # {}
    <2>1. SUFFICES ASSUME \A u \in S : runs[u] = runs[t] PROVE FALSE
      BY <1>4
    <2>2. Sums(runs) = {runs[t]}
      BY <2>1, <1>2 DEF Sums
    <2>3. Cardinality({runs[t]}) = 1
      BY FS_Singleton
    <2> QED BY <2>2, <2>3
  <1>6. t \in b.good /\ t \notin b.bad /\ b.good \subseteq S /\ b.bad \subseteq S
    BY <1>2, <1>3, <1>4
  <1>7. Fair(b)
    BY <1>3, <1>4, <1>5, <1>6, <1>n DEF Fair
  <1>8. Min(b.good) \in b.good /\ \A u \in b.good : Min(b.good) <= u
    BY <1>6, <1>n, MinExists
  <1>9. Min(b.bad) \in b.bad
    BY <1>3, <1>5, <1>6, <1>n, MinExists
  <1> HIDE DEF b
  <1>10. Min(b.good) < Min(b.bad)
    <2>1. Min(b.good) <= t /\ Min(b.bad) \in S /\ Min(b.bad) # t
      BY <1>6, <1>8, <1>9
    <2>2. t <= Min(b.bad) /\ t \in Nat /\ Min(b.bad) \in Nat /\ Min(b.good) \in Nat
      BY <1>2, <1>6, <1>8, <1>n, <2>1
    <2> QED BY <2>1, <2>2
  <1> QED BY <1>3, <1>4, <1>7, <1>10, <1>2 DEF b

\* A miscompare is a vote.
LEMMA MiscompareVoted ==
    ASSUME ComputesVerdict, pc = "done", status = "miscompare"
    PROVE  /\ Cardinality(Sums(runs)) = 2
           /\ ballot.good = Vote(Ballot(runs)).good /\ ballot.bad = Vote(Ballot(runs)).bad
  <1>1. TestVerdict(runs) = [status |-> status, good |-> ballot.good, bad |-> ballot.bad]
    BY DEF ComputesVerdict
  <1>2. TestVerdict(runs).status = "miscompare"
    BY <1>1
  <1>3. ~Agreed(runs) /\ Cardinality(Sums(runs)) = 2
    BY <1>2 DEF TestVerdict
  <1>4. TestVerdict(runs) = [status |-> "miscompare", good |-> Vote(Ballot(runs)).good,
                             bad |-> Vote(Ballot(runs)).bad]
    BY <1>3 DEF TestVerdict
  <1> QED BY <1>1, <1>3, <1>4

\* Of two results the one blamed is the one the reference does not prefer: no
\* earlier rule overturns a later one, and two swaps never cancel out wrongly.
THEOREM LessPreferredBlamed == Spec => []BlamesTheLessPreferred
  <1>1. ComputesVerdict => BlamesTheLessPreferred
    BY MiscompareVoted, BallotFair, VotePrefers DEF BlamesTheLessPreferred
  <1> QED BY <1>1, StatementsComputeVerdict, PTL

\* A single target that disagrees with all others, which agree and cover at
\* least two compilers, is the one that is blamed.
THEOREM DeviatorBlamed == Spec => []LoneDeviatorBlamed
  <1>1. ASSUME ComputesVerdict, pc = "done", NEW t \in Succeeded(runs),
               NEW others, others = Succeeded(runs) \ {t},
               Cardinality(Compilers(others)) >= 2,
               \A a, b \in others : runs[a] = runs[b] /\ runs[a] # runs[t]
        PROVE  status = "miscompare" /\ ballot.bad = {t}
    <2>1. others # {} /\ others \subseteq Targets
      <3>1. Cardinality(Compilers({})) = 0
        BY FS_EmptySet DEF Compilers
      <3> QED BY <1>1, <3>1, RunsAreNumbers
    <2>2. PICK a \in others : TRUE
      BY <2>1
    <2>3. runs[a] # runs[t] /\ \A u \in others : runs[u] = runs[a]
      BY <1>1, <2>2
    <2>4. Sums(runs) = {runs[t]} \cup {runs[a]}
      BY <1>1, <2>2, <2>3 DEF Sums
    <2>5. Cardinality(Sums(runs)) = 2
      <3>1. IsFiniteSet({runs[t]}) /\ Cardinality({runs[t]}) = 1
        BY FS_Singleton
      <3>2. Cardinality({runs[t]} \cup {runs[a]}) = 2
        BY <3>1, <2>3, FS_AddElement
      <3> QED BY <3>2, <2>4
    <2>6. status = "miscompare"
      <3>1. ~Agreed(runs)
        BY <2>5 DEF Agreed
      <3>2. TestVerdict(runs).status = "miscompare"
        BY <3>1, <2>5 DEF TestVerdict
      <3> QED BY <3>2, <1>1 DEF ComputesVerdict
    <2> DEFINE b == Ballot(runs)
               v == Vote(b)
    <2>7. Fair(v) /\ Preferred(v.good, v.bad) /\ ballot.bad = v.bad
      BY <1>1, <2>5, <2>6, MiscompareVoted, BallotFair, VotePrefers
    <2>8. {b.good, b.bad} = {{t}, others}
      <3>1. /\ b.good \cup b.bad = Succeeded(runs) /\ b.good \cap b.bad = {} /\ b.good # {}
            /\ \A x \in Succeeded(runs) : \A y \in b.good : x \in b.good <=> runs[x] = runs[y]
        BY <2>5, BallotFair DEF Fair
      <3> HIDE DEF b
      <3>2. CASE t \in b.good
        <4>1. b.good = {t}
          BY <1>1, <2>3, <3>1, <3>2
        <4>2. b.bad = others
          BY <1>1, <3>1, <4>1
        <4> QED BY <4>1, <4>2
      <3>3. CASE t \notin b.good
        <4>1. b.good = others
          BY <1>1, <2>3, <3>1, <3>3
        <4>2. b.bad = {t}
          BY <1>1, <3>1, <4>1
        <4> QED BY <4>1, <4>2
      <3> QED BY <3>2, <3>3
    <2>9. {v.good, v.bad} = {b.good, b.bad}
      BY DEF Vote, Majority, PreferNoOpt, PreferMoreCompilers, Swap
    <2>10. v.bad # others
      <3>1. SUFFICES ASSUME v.bad = others PROVE FALSE
        OBVIOUS
      <3>2. v.good = {t}
        BY <3>1, <2>7, <2>8, <2>9, <2>1 DEF Fair
      <3>3. Preferred({t}, others)
        BY <3>1, <3>2, <2>7
      <3>4. Cardinality(Compilers({t})) = 1
        BY FS_Singleton DEF Compilers
      <3>5. Cardinality(Compilers(others)) \in Nat
        BY <2>1, Sizes
      <3> QED BY <3>3, <3>4, <3>5, <1>1 DEF Preferred
    <2> QED BY <2>6, <2>7, <2>8, <2>9, <2>10
  <1>2. ComputesVerdict => LoneDeviatorBlamed
    BY <1>1 DEF LoneDeviatorBlamed
  <1> QED BY <1>2, StatementsComputeVerdict, PTL

=============================================================================
