------------------------- MODULE BlameBisect_proofs -------------------------
(***************************************************************************)
(* The search of blame_opt.py finds a limit at which the behaviour of the  *)
(* test changes, for every number of phases and of optimisation steps, as  *)
(* long as every probe answers what the test does.                         *)
(***************************************************************************)
EXTENDS BlameBisect, TLAPS

\* The next limit lies inside the interval that is left.
LEMMA NextInside ==
    ASSUME NEW s \in Nat, NEW e \in Nat, NEW c \in Nat, s <= c, c <= e,
           NEW f \in BOOLEAN
    PROVE  /\ NextStart(s, e, c, f) \in Nat
           /\ NextEnd(s, e, c, f) \in Nat
           /\ NextCur(s, e, c, f) \in Nat
           /\ s <= NextStart(s, e, c, f)
           /\ NextStart(s, e, c, f) <= NextCur(s, e, c, f)
           /\ NextCur(s, e, c, f) <= NextEnd(s, e, c, f)
           /\ NextEnd(s, e, c, f) <= e
  <1>1. CASE f
    BY <1>1 DEF NextStart, NextEnd, NextCur
  <1>2. CASE ~f
    BY <1>2 DEF NextStart, NextEnd, NextCur
  <1> QED BY <1>1, <1>2

-----------------------------------------------------------------------------
(* The invariant: the types of the search, the bracket, and the result. *)

PhaseOpen == pc = "search" => phase < NumPhases

Inv == TypeOK /\ PhaseOpen /\ Bracket /\ FoundSwitchPoint

LEMMA InvInit == Init => Inv
  BY BlameAssumption DEF Init, Inv, TypeOK, PhaseOpen, Bracket, FoundSwitchPoint, PhaseOver

LEMMA StartPhaseKeeps ==
    ASSUME Inv, StartPhase
    PROVE  Inv'
  <1>1. TypeOK'
    BY BlameAssumption DEF Inv, TypeOK, StartPhase
  <1>2. Bracket'
    BY BlameAssumption DEF StartPhase, Bracket
  <1>3. FoundSwitchPoint' /\ PhaseOpen'
    BY DEF StartPhase, FoundSwitchPoint, PhaseOver, PhaseOpen
  <1> QED BY <1>1, <1>2, <1>3 DEF Inv

LEMMA NoStepNumberKeeps ==
    ASSUME Inv, NoStepNumber
    PROVE  Inv'
  <1>1. UNCHANGED <<flaky, max, fails, start, end, cur, failed, probes>>
    BY DEF NoStepNumber, search
  <1>2. CASE phase = 2
    <2>1. /\ limits' = Append(limits, -1) /\ phase' = phase + 1
          /\ pc' = "phase" /\ phase < NumPhases
      BY <1>2 DEF NoStepNumber, FinishPhase
    <2>2. limits' \in Seq(Int) /\ limits'[Len(limits')] = -1
      BY <2>1 DEF Inv, TypeOK
    <2> QED BY <1>1, <2>1, <2>2, BlameAssumption
            DEF Inv, TypeOK, PhaseOpen, Bracket, FoundSwitchPoint, PhaseOver, LastLimit
  <1>3. CASE phase # 2
    BY <1>1, <1>3 DEF NoStepNumber, Inv, TypeOK, PhaseOpen, Bracket, FoundSwitchPoint, PhaseOver
  <1> QED BY <1>2, <1>3

LEMMA ProbeKeeps ==
    ASSUME Inv, Probe
    PROVE  Inv'
  <1> DEFINE s == NextStart(start, end, cur, failed)
             e == NextEnd(start, end, cur, failed)
             c == NextCur(start, end, cur, failed)
  <1>1. PICK f \in BOOLEAN :
            /\ ~flaky => (f <=> c \in fails)
            /\ start' = s /\ end' = e /\ cur' = c /\ failed' = f
            /\ IF s + 1 >= c /\ (f \/ c = e - 1)
               THEN FinishPhase(IF f THEN c ELSE e)
               ELSE UNCHANGED <<pc, phase, limits>>
    <2>1. flaky \in BOOLEAN
      BY DEF Inv, TypeOK
    <2> QED BY <2>1 DEF Probe
  <1>2. /\ pc = "search"
        /\ probes' \in {probes, probes + 1}
        /\ UNCHANGED <<flaky, max, fails>>
    BY DEF Probe, CountProbe
  <1>3. /\ start <= cur /\ cur <= end /\ end <= max
        /\ ~flaky => /\ end \in fails
                     /\ start = 0 \/ start \notin fails
                     /\ failed <=> cur \in fails
    BY <1>2 DEF Inv, Bracket
  <1>4. /\ s \in Nat /\ e \in Nat /\ c \in Nat
        /\ s <= c /\ c <= e /\ e <= max
    <2>1. start \in Nat /\ end \in Nat /\ cur \in Nat /\ max \in Nat /\ failed \in BOOLEAN
      BY DEF Inv, TypeOK
    <2>2. s \in Nat /\ e \in Nat /\ c \in Nat /\ s <= c /\ c <= e /\ e <= end
      BY <1>3, <2>1, NextInside
    <2> HIDE DEF s, e, c
    <2> QED BY <1>3, <2>1, <2>2
  <1>5. ~flaky => e \in fails /\ (s = 0 \/ s \notin fails)
    BY <1>3 DEF NextStart, NextEnd
  <1> HIDE DEF s, e, c
  <1>6. Bracket'
    BY <1>1, <1>2, <1>4, <1>5 DEF Bracket
  <1>7. CASE s + 1 >= c /\ (f \/ c = e - 1)
    <2> DEFINE r == IF f THEN c ELSE e
    <2>1. /\ limits' = Append(limits, r) /\ phase' = phase + 1 /\ pc' = "phase"
      BY <1>1, <1>7 DEF FinishPhase
    <2>2. r \in Nat /\ (~flaky => r \in fails /\ (0 \notin fails => r - 1 \notin fails))
      BY <1>1, <1>4, <1>5, <1>7
    <2> HIDE DEF r
    <2>3. limits' \in Seq(Int) /\ limits'[Len(limits')] = r
      BY <2>1, <2>2 DEF Inv, TypeOK
    <2>4. FoundSwitchPoint'
      BY <1>2, <2>2, <2>3 DEF FoundSwitchPoint, LastLimit
    <2>5. phase < NumPhases
      BY <1>2 DEF Inv, PhaseOpen
    <2> QED BY <1>1, <1>2, <1>4, <1>6, <2>1, <2>3, <2>4, <2>5, BlameAssumption
            DEF Inv, TypeOK, PhaseOpen
  <1>8. CASE ~(s + 1 >= c /\ (f \/ c = e - 1))
    <2>1. UNCHANGED <<pc, phase, limits>>
      BY <1>1, <1>8
    <2> QED BY <1>1, <1>2, <1>4, <1>6, <2>1 DEF Inv, TypeOK, PhaseOpen, FoundSwitchPoint, PhaseOver
  <1> QED BY <1>7, <1>8

LEMMA InvStep ==
    ASSUME Inv, [Next]_vars
    PROVE  Inv'
  <1>1. CASE StartPhase
    BY <1>1, StartPhaseKeeps
  <1>2. CASE NoStepNumber
    BY <1>2, NoStepNumberKeeps
  <1>3. CASE Probe
    BY <1>3, ProbeKeeps
  <1>4. CASE WrapUp \/ NotSearched \/ ProbeRaises
    <2>1. UNCHANGED <<flaky, phase, limits, max, fails, start, end, cur, failed, probes>>
          /\ pc' \in {"done", "failed"}
      BY <1>4 DEF WrapUp, NotSearched, ProbeRaises, search
    <2> QED BY <2>1 DEF Inv, TypeOK, PhaseOpen, Bracket, FoundSwitchPoint, PhaseOver
  <1>5. CASE Ended \/ UNCHANGED vars
    <2>1. UNCHANGED <<flaky, pc, phase, limits, max, fails, start, end, cur, failed, probes>>
      BY <1>5 DEF Ended, vars
    <2>2. TypeOK' /\ PhaseOpen' /\ Bracket'
      BY <2>1 DEF Inv, TypeOK, PhaseOpen, Bracket
    <2>3. FoundSwitchPoint'
      BY <2>1 DEF Inv, FoundSwitchPoint, PhaseOver, LastLimit
    <2> QED BY <2>2, <2>3 DEF Inv
  <1> QED BY <1>1, <1>2, <1>3, <1>4, <1>5 DEF Next

-----------------------------------------------------------------------------
\* The values of the search stay what they should be, for any number of steps.
THEOREM TypeCorrect ==
    Spec => []TypeOK
  <1>1. Inv => TypeOK
    BY DEF Inv
  <1>2. Inv /\ [Next]_vars => Inv'
    BY InvStep
  <1> QED BY <1>1, <1>2, InvInit, PTL DEF Spec

\* The interval always contains a change from good to bad.
THEOREM BracketKept ==
    Spec => []Bracket
  <1>1. Inv => Bracket
    BY DEF Inv
  <1>2. Inv /\ [Next]_vars => Inv'
    BY InvStep
  <1> QED BY <1>1, <1>2, InvInit, PTL DEF Spec

\* The optimisation step that is blamed is one at which the test goes from good
\* to bad, even when the failures are not monotone in the limit.
THEOREM SwitchPointFound ==
    Spec => []FoundSwitchPoint
  <1>1. Inv => FoundSwitchPoint
    BY DEF Inv
  <1>2. Inv /\ [Next]_vars => Inv'
    BY InvStep
  <1> QED BY <1>1, <1>2, InvInit, PTL DEF Spec

-----------------------------------------------------------------------------
(* The number of builds. *)

\* The limits that are left, once the answer of the last probe is used.
Left == IF failed THEN cur - start ELSE end - cur

Power(n) == 2^n

LEMMA Powers ==
    /\ Power(0) = 1
    /\ \A n \in 0 .. ProbeCap : Power(n) \in Nat \ {0} /\ Power(n + 1) = 2 * Power(n)
  BY PowerAssumption DEF Power

\* Every probe halves what is left, up to rounding; a search that goes on after
\* its first one has two limits left at least.
Halved ==
    pc = "search" /\ max > 0 =>
        /\ probes \in 0 .. ProbeCap
        /\ Left >= 1
        /\ probes > 0 => Left >= 2
        /\ Power(probes) * (Left - 1) <= max - 1

\* One halving: what is left is split in the middle, and the search goes on in
\* one of the halves.
LEMMA ProbeHalves ==
    ASSUME NEW s \in Nat, NEW e \in Nat, NEW c \in Nat, s <= c, c <= e, NEW f \in BOOLEAN,
           NEW g \in BOOLEAN,
           NEW ns, ns = NextStart(s, e, c, f), NEW ne, ne = NextEnd(s, e, c, f),
           NEW nc, nc = NextCur(s, e, c, f),
           NEW l, l = (IF f THEN c - s ELSE e - c), l >= 1,
           NEW n, n = (IF g THEN nc - ns ELSE ne - nc),
           ~(ns + 1 >= nc /\ (g \/ nc = ne - 1))
    PROVE  n \in Nat /\ n >= 2 /\ 2 * (n - 1) <= l - 1
  <1>1. l \in Nat /\ ns \in Nat /\ ne = ns + l /\ nc = ns + (l \div 2)
    BY DEF NextStart, NextEnd, NextCur
  <1>2. PICK h \in Nat : h = l \div 2 /\ (l = 2 * h \/ l = 2 * h + 1)
    BY <1>1
  <1>3. nc = ns + h /\ ne = ns + l
    BY <1>1, <1>2
  <1>4. CASE g
    <2>1. n = h
      BY <1>1, <1>3, <1>4
    <2>2. h >= 2
      BY <1>1, <1>2, <1>3, <1>4
    <2> QED BY <1>1, <1>2, <2>1, <2>2
  <1>5. CASE ~g
    <2>1. n = l - h
      BY <1>1, <1>2, <1>3, <1>5
    <2>2. l >= 3
      BY <1>1, <1>2, <1>3, <1>5
    <2> QED BY <1>1, <1>2, <2>1, <2>2
  <1> QED BY <1>4, <1>5

\* Less of what is left, for twice the probes.
LEMMA Twice ==
    ASSUME NEW p \in Nat, NEW l \in Nat, NEW n \in Nat, NEW m \in Nat,
           p * l <= m, 2 * n <= l
    PROVE  (2 * p) * n <= m /\ p * n <= m
  <1>1. p * (2 * n) <= p * l
    BY Z3
  <1>2. (2 * p) * n = p * (2 * n) /\ p * n <= p * (2 * n) /\ p * n \in Nat
    BY Z3
  <1>3. p * l \in Nat /\ (2 * p) * n \in Nat
    BY Z3
  <1> QED BY <1>1, <1>2, <1>3

LEMMA StartHalved ==
    ASSUME Inv, StartPhase
    PROVE  Halved'
  <1>1. max' \in Nat /\ probes' = 0 /\ start' = 0 /\ cur' = max' /\ failed'
    BY BlameAssumption DEF StartPhase
  <1>2. Left' = max'
    <2>1. Left' = cur' - start'
      BY <1>1 DEF Left
    <2>2. \A k \in Nat : k - 0 = k
      OBVIOUS
    <2> QED BY <1>1, <2>1, <2>2, Zenon
  <1>3. Power(probes)' = 1
    BY <1>1, Powers DEF Power
  <1>4. ProbeCap \in Nat
    BY BlameAssumption DEF ProbeCap
  <1> QED BY <1>1, <1>2, <1>3, <1>4 DEF Halved

LEMMA ProbeHalved ==
    ASSUME Inv, Halved, Probe
    PROVE  Halved'
  <1>1. /\ pc = "search" /\ max' = max /\ max \in Nat
        /\ start \in Nat /\ end \in Nat /\ cur \in Nat /\ start <= cur /\ cur <= end
        /\ failed \in BOOLEAN
    BY DEF Probe, Inv, TypeOK, Bracket
  <1> SUFFICES ASSUME pc' = "search", max > 0
               PROVE  /\ probes' \in 0 .. ProbeCap
                      /\ Left' >= 2
                      /\ Power(probes') * (Left' - 1) <= max - 1
    <2>1. Left' >= 2 /\ Left' \in Int => Left' >= 1
      OBVIOUS
    <2>2. Left' \in Int
      <3>1. TypeOK'
        BY ProbeKeeps DEF Inv
      <3>2. start' \in Nat /\ end' \in Nat /\ cur' \in Nat
        BY <3>1 DEF TypeOK
      <3> QED BY <3>2 DEF Left
    <2> QED BY <1>1, <2>1, <2>2 DEF Halved, Power
  <1>2. /\ probes \in 0 .. ProbeCap /\ Left >= 1 /\ Left \in Nat
        /\ Power(probes) * (Left - 1) <= max - 1
    BY <1>1 DEF Halved, Left
  <1>3. /\ start' = NextStart(start, end, cur, failed)
        /\ end' = NextEnd(start, end, cur, failed)
        /\ cur' = NextCur(start, end, cur, failed)
        /\ failed' \in BOOLEAN
        /\ ~(start' + 1 >= cur' /\ (failed' \/ cur' = end' - 1))
    BY DEF Probe, FinishPhase, Inv, TypeOK
  <1>4. PICK l, n : l = Left /\ n = Left'
    OBVIOUS
  <1>5. n \in Nat /\ n >= 2 /\ 2 * (n - 1) <= l - 1
    <2>1. l = (IF failed THEN cur - start ELSE end - cur)
          /\ n = (IF failed' THEN cur' - start' ELSE end' - cur')
      BY <1>4 DEF Left
    <2>2. l >= 1
      BY <1>2, <1>4
    <2> QED BY ONLY <1>1, <1>3, <2>1, <2>2, ProbeHalves
  <1>6. PICK p : p = Power(probes)
    OBVIOUS
  <1>7. p \in Nat /\ l \in Nat /\ l >= 1 /\ p * (l - 1) <= max - 1
    BY <1>2, <1>4, <1>6, Powers
  <1>8. (2 * p) * (n - 1) <= max - 1 /\ p * (n - 1) <= max - 1
    <2>1. l - 1 \in Nat /\ n - 1 \in Nat /\ max - 1 \in Nat
      BY <1>1, <1>5, <1>7
    <2> QED BY <1>5, <1>7, <2>1, Twice
  <1>9. probes' = IF probes < ProbeCap THEN probes + 1 ELSE probes
    BY DEF Probe, CountProbe
  <1>10. probes' \in 0 .. ProbeCap
    BY <1>2, <1>9, BlameAssumption DEF ProbeCap
  <1>11. Power(probes') = 2 * p \/ Power(probes') = p
    BY <1>2, <1>6, <1>9, Powers
  <1> QED BY <1>4, <1>5, <1>8, <1>10, <1>11

LEMMA HalvedStep ==
    ASSUME Inv, Halved, [Next]_vars
    PROVE  Halved'
  <1>1. CASE NoStepNumber \/ WrapUp \/ NotSearched \/ ProbeRaises
    <2>1. pc' # "search"
      BY <1>1 DEF NoStepNumber, FinishPhase, WrapUp, NotSearched, ProbeRaises
    <2> QED BY <2>1 DEF Halved
  <1>2. CASE Ended \/ UNCHANGED vars
    BY <1>2 DEF Ended, vars, Halved, Left, Power
  <1> QED BY <1>1, <1>2, StartHalved, ProbeHalved DEF Next

\* The search halves its interval with every build, whatever the probes answer:
\* it goes on only as long as two to the number of builds is within the number
\* of optimisation steps.
THEOREM SearchIsShort ==
    Spec => []FewProbes
  <1>1. Init => Halved
    BY DEF Init, Halved
  <1>2. Inv /\ Halved => FewProbes
    <2> SUFFICES ASSUME Inv, Halved, pc = "search", max > 0 PROVE Power(probes) <= max
      BY DEF FewProbes, Power
    <2>1. PICK p, l : p = Power(probes) /\ l = Left
      OBVIOUS
    <2>2. /\ p \in Nat \ {0} /\ l \in Int /\ max \in Nat
          /\ p * (l - 1) <= max - 1
          /\ probes \in Nat /\ (probes > 0 => l >= 2) /\ (probes = 0 => p = 1)
      <3>1. /\ probes \in 0 .. ProbeCap /\ (probes > 0 => Left >= 2)
            /\ Power(probes) * (Left - 1) <= max - 1
        BY DEF Halved
      <3>2. max \in Nat /\ Left \in Int
        BY DEF Inv, TypeOK, Left
      <3>3. p \in Nat \ {0} /\ (probes = 0 => p = 1)
        BY <2>1, <3>1, Powers
      <3> QED BY <2>1, <3>1, <3>2, <3>3
    <2>3. CASE probes = 0
      BY <2>1, <2>2, <2>3
    <2>4. CASE probes > 0
      <3>1. PICK k \in Nat : k = l - 1 /\ k >= 1
        BY <2>2, <2>4
      <3>2. p <= p * k
        BY ONLY <2>2, <3>1, Z3
      <3> QED BY <2>1, <2>2, <3>1, <3>2
    <2> QED BY <2>2, <2>3, <2>4
  <1>3. Inv /\ [Next]_vars => Inv'
    BY InvStep
  <1>4. Inv /\ Halved /\ [Next]_vars => Halved'
    BY HalvedStep
  <1> QED BY <1>1, <1>2, <1>3, <1>4, InvInit, PTL DEF Spec

=============================================================================
