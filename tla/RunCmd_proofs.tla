---------------------------- MODULE RunCmd_proofs ----------------------------
(* Proofs about RunCmd, for any set of processes that behave in any manner. *)
EXTENDS RunCmd, TLAPS

TypeOK ==
    /\ manner \in MannersOver(Procs)
    /\ proc \in [Procs -> {"none", "running", "signalled", "dead"}]
    /\ heir \subseteq Procs
    /\ pc \in {"start", "reading", "draining", "leaving", "reaping", "returned", "raised"}
    /\ expired \in BOOLEAN
    /\ output \in {"none", "whole", "lost"}

\* The time is up only while run_cmd drains the pipes and afterwards, so that
\* every later fork is recorded.
ExpiredLate == expired => pc \in {"draining", "leaving", "returned"}

\* From the signal on, all that is left of the group has the signal, ignores it,
\* or was forked later.
SignalReached ==
    expired => \A p \in Group : proc[p] = "signalled" \/ p \in manner.ignores \cup heir

\* What is handed back: the output is lost only after a timeout; otherwise the
\* pipes were at their end, and stay there, because a process without them has no
\* child with them.
HandedBack ==
    /\ pc \in {"start", "reading", "draining"} => output = "none"
    /\ pc = "draining" => expired
    /\ pc = "leaving" => output = "lost"
    /\ output = "lost" => expired
    /\ output = "whole" => Holders = {}
    /\ pc = "returned" => output # "none" /\ proc[Leader] = "dead"

Inv == TypeOK /\ ExpiredLate /\ SignalReached /\ HandedBack

USE DEF Alive, Group, Holders, MannersOver

LEMMA InitInv == Init => Inv
  BY ProcsAssumption DEF Init, Inv, TypeOK, ExpiredLate, SignalReached, HandedBack

\* A process of the command forks, ends, or dies of the signal.
LEMMA CommandInv == Inv /\ Command => Inv'
  <1> SUFFICES ASSUME Inv, NEW p \in Procs,
                      \/ Exit(p) \/ Die(p)
                      \/ \E q \in Procs : Fork(p, q)
               PROVE  Inv'
    BY DEF Command
  <1> USE DEF Inv, TypeOK, Become
  <1>1. CASE Exit(p)
    BY <1>1 DEF Exit, ExpiredLate, SignalReached, HandedBack
  <1>2. CASE Die(p)
    BY <1>2 DEF Die, ExpiredLate, SignalReached, HandedBack
  <1>3. ASSUME NEW q \in Procs, Fork(p, q)
        PROVE  Inv'
    <2>1. TypeOK' /\ ExpiredLate'
      BY <1>3 DEF Fork, ExpiredLate
    <2>2. SignalReached'
      BY <1>3 DEF Fork, Signalled, ExpiredLate, SignalReached
    <2>3. HandedBack'
      BY <1>3 DEF Fork, HandedBack
    <2> QED BY <2>1, <2>2, <2>3
  <1> QED BY <1>1, <1>2, <1>3

\* A step of run_cmd itself.
LEMMA RunStepInv == Inv /\ RunStep => Inv'
  <1> SUFFICES ASSUME Inv, RunStep PROVE Inv'
    OBVIOUS
  <1> USE ProcsAssumption DEF Inv, TypeOK, Become
  <1>1. CASE Start
    BY <1>1 DEF Start, ExpiredLate, SignalReached, HandedBack
  <1>2. CASE InTime
    BY <1>2 DEF InTime, OutputEnded, ExpiredLate, SignalReached, HandedBack
  <1>3. CASE TimeoutExpired
    BY <1>3 DEF TimeoutExpired, Send, ExpiredLate, SignalReached, HandedBack
  <1>4. CASE Drained
    BY <1>4 DEF Drained, OutputEnded, ExpiredLate, SignalReached, HandedBack
  <1>7. CASE PipesGone
    BY <1>7 DEF PipesGone, ExpiredLate, SignalReached, HandedBack
  <1>8. CASE LeaderReaped
    BY <1>8 DEF LeaderReaped, ExpiredLate, SignalReached, HandedBack
  <1>5. CASE Interrupted
    BY <1>5 DEF Interrupted, Send, ExpiredLate, SignalReached, HandedBack
  <1>6. CASE Reaped
    BY <1>6 DEF Reaped, ExpiredLate, SignalReached, HandedBack
  <1> QED BY <1>1, <1>2, <1>3, <1>4, <1>7, <1>8, <1>5, <1>6 DEF RunStep

\* Whatever the processes of a command do, and however many there are: in time the
\* output that run_cmd returns is complete; after a timeout it is complete or
\* empty, the leader is gone, and no process of the group goes on that the signal
\* could have stopped.
THEOREM SurvivorsKnown == FairSpec => []NothingLeftBehind
  <1>1. Inv /\ [Next]_vars => Inv'
    <2>1. Inv /\ UNCHANGED vars => Inv'
      BY DEF vars, Inv, TypeOK, ExpiredLate, SignalReached, HandedBack
    <2> QED BY <2>1, CommandInv, RunStepInv DEF Next
  <1>2. Inv => NothingLeftBehind
    BY DEF Inv, TypeOK, SignalReached, HandedBack, NothingLeftBehind
  <1> QED BY InitInv, <1>1, <1>2, PTL DEF FairSpec
=============================================================================
