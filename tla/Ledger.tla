------------------------------- MODULE Ledger -------------------------------
(***************************************************************************)
(* What the test drivers promise about the programs (or generator seeds)   *)
(* they are given, without queues, processes, locks and files: an item     *)
(* waits, is taken by somebody, and is settled once and for all - entered  *)
(* in the list of passed or of failed seeds, or lost because its worker    *)
(* died.  run_onebyone.py (TestFarm) and run_gen.py (SeedFarm) implement   *)
(* it.                                                                     *)
(***************************************************************************)
CONSTANT Items

VARIABLE place      \* item -> where it is

Settled == {"passed", "failed", "lost"}
Places  == {"waiting", "held"} \cup Settled

Init == place = [i \in Items |-> "waiting"]

Move(i, from, to) ==
    /\ place[i] = from
    /\ place' = [place EXCEPT ![i] = to]

Take(i)   == Move(i, "waiting", "held")
Settle(i) == \E end \in Settled : Move(i, "held", end)

Next == \E i \in Items : Take(i) \/ Settle(i)

Spec == Init /\ [][Next]_place

\* Nobody keeps an item for ever.
FairSpec == Spec /\ \A i \in Items : WF_place(Settle(i))
=============================================================================
