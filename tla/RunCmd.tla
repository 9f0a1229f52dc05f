------------------------------- MODULE RunCmd -------------------------------
(***************************************************************************)
(* run_cmd of scripts/common.py: every command of the drivers (generator,  *)
(* make, compiler, test program) goes through it.  It starts the command   *)
(* as the leader of a process group, reads its two pipes to their end and  *)
(* waits for the leader; when the time is up it sends SIGTERM to the group *)
(* and then reads and waits again, this time for as long as it takes,      *)
(* unless the pipes turn out to be closed: then there is no output, and    *)
(* only the leader is waited for.                                          *)
(*                                                                         *)
(* The processes of the command are the environment: they fork, end when   *)
(* they like, may ignore the signal, leave the group, or let go the pipes. *)
(***************************************************************************)
EXTENDS FiniteSets

CONSTANTS
    Procs,          \* the processes the command may become
    Leader,         \* the one that Popen starts
    Manners         \* the ways the processes may behave

MannersOver(P) ==
    [found : BOOLEAN,           \* the executable exists
     shell : BOOLEAN,           \* memory_limit is given: the leader is a shell
     timed : BOOLEAN,           \* time_out is given
     ignores : SUBSET P,        \* processes that survive SIGTERM
     leaves  : SUBSET (P \ {Leader}),  \* processes that start another session
     quiet   : SUBSET P]        \* processes that close the inherited pipes

ASSUME ProcsAssumption ==
    /\ IsFiniteSet(Procs) /\ Leader \in Procs
    /\ Manners \subseteq MannersOver(Procs)

VARIABLES
    manner,         \* how this command behaves, fixed
    proc,           \* process -> "none", "running", "signalled" or "dead"
    heir,           \* processes forked after the signal was sent
    pc,             \* where run_cmd is
    expired,        \* is_time_expired
    output          \* what is handed back: "none" yet, "whole", or "lost"

vars == <<manner, proc, heir, pc, expired, output>>

Init ==
    /\ manner \in Manners
    /\ proc = [p \in Procs |-> "none"]
    /\ heir = {}
    /\ pc = "start"
    /\ expired = FALSE
    /\ output = "none"

Alive(p) == proc[p] \in {"running", "signalled"}
Group    == {p \in Procs : Alive(p)} \ manner.leaves
Holders  == {p \in Procs : Alive(p)} \ manner.quiet

-----------------------------------------------------------------------------
(* The processes of the command. *)

Become(p, state) == proc' = [proc EXCEPT ![p] = state]
Signalled        == pc \in {"draining", "leaving", "reaping", "returned", "raised"}

\* Outside the group, or without the pipes, the children are so, too.
Fork(p, q) ==
    /\ proc[p] = "running" /\ proc[q] = "none"
    /\ p \in manner.leaves => q \in manner.leaves
    /\ p \in manner.quiet => q \in manner.quiet
    /\ Become(q, "running")
    /\ heir' = IF Signalled THEN heir \cup {q} ELSE heir
    /\ UNCHANGED <<manner, pc, expired, output>>

Exit(p) ==
    /\ proc[p] = "running" /\ Become(p, "dead")
    /\ UNCHANGED <<manner, heir, pc, expired, output>>

Die(p) ==
    /\ proc[p] = "signalled" /\ Become(p, "dead")
    /\ UNCHANGED <<manner, heir, pc, expired, output>>

-----------------------------------------------------------------------------
(* run_cmd *)

\* Without a shell Popen itself raises when there is no such file.
Start ==
    /\ pc = "start"
    /\ IF manner.found \/ manner.shell
       THEN pc' = "reading" /\ Become(Leader, "running")
       ELSE pc' = "raised" /\ UNCHANGED proc
    /\ UNCHANGED <<manner, heir, expired, output>>

\* communicate returns: both pipes are at their end and the leader is reaped.
OutputEnded == Holders = {} /\ proc[Leader] = "dead"

InTime ==
    /\ pc = "reading" /\ OutputEnded
    /\ pc' = "returned" /\ output' = "whole"
    /\ UNCHANGED <<manner, proc, heir, expired>>

\* Seeded fault: only the leader gets the signal.
Send_Fault(reached) ==
    proc' = [p \in Procs |-> IF p \in reached \cap {Leader} THEN "signalled" ELSE proc[p]]

Send(reached) ==
    proc' = [p \in Procs |-> IF p \in reached THEN "signalled" ELSE proc[p]]

\* TimeoutExpired, and killpg with SIGTERM.
TimeoutExpired ==
    /\ pc = "reading" /\ manner.timed
    /\ pc' = "draining" /\ expired' = TRUE
    /\ Send(Group \ manner.ignores)
    /\ UNCHANGED <<manner, heir, output>>

\* Seeded fault: the output that has arrived by then is taken, without waiting.
Drained_Fault ==
    /\ pc = "draining"
    /\ pc' = "returned" /\ output' = "whole"
    /\ UNCHANGED <<manner, proc, heir, expired>>

\* The second communicate, which has no timeout.
Drained ==
    /\ pc = "draining" /\ OutputEnded
    /\ pc' = "returned" /\ output' = "whole"
    /\ UNCHANGED <<manner, proc, heir, expired>>

\* It raises ValueError when a pipe is closed already: the output is b''.  When
\* that happens is up to the library.
PipesGone ==
    /\ pc = "draining"
    /\ pc' = "leaving" /\ output' = "lost"
    /\ UNCHANGED <<manner, proc, heir, expired>>

\* The end of the "with" statement: the leader is waited for, and nobody else.
LeaderReaped ==
    /\ pc = "leaving" /\ proc[Leader] = "dead"
    /\ pc' = "returned"
    /\ UNCHANGED <<manner, proc, heir, expired, output>>

\* Any other exception (an interrupt): killpg with SIGKILL.
Interrupted ==
    /\ pc = "reading"
    /\ pc' = "reaping"
    /\ Send(Group)
    /\ UNCHANGED <<manner, heir, expired, output>>

\* process.wait: only the leader is waited for.
Reaped ==
    /\ pc = "reaping" /\ proc[Leader] = "dead"
    /\ pc' = "raised"
    /\ UNCHANGED <<manner, proc, heir, expired, output>>

Command == \E p \in Procs : Exit(p) \/ Die(p) \/ \E q \in Procs : Fork(p, q)

RunStep ==
    \/ Start \/ InTime \/ TimeoutExpired \/ Drained \/ PipesGone \/ LeaderReaped
    \/ Interrupted \/ Reaped

Next == Command \/ RunStep

\* run_cmd and the clock go on, and a process with a deadly signal dies.  That a
\* command ends by itself is not assumed.
Fairness ==
    /\ WF_vars(Start) /\ WF_vars(InTime) /\ WF_vars(TimeoutExpired)
    /\ WF_vars(Drained) /\ WF_vars(LeaderReaped) /\ WF_vars(Reaped)
    /\ \A p \in Procs : WF_vars(Die(p))

FairSpec == Init /\ [][Next]_vars /\ Fairness

-----------------------------------------------------------------------------
(* Properties *)

\* When run_cmd hands back a result the leader is gone, and in time the result is
\* complete: no process is left that could still write to the pipes.  After a
\* timeout the output is complete or empty, and all that goes on in the work
\* directory of the next test are processes that ignore the signal or were
\* forked by such a one.
NothingLeftBehind ==
    pc = "returned" =>
        /\ proc[Leader] = "dead"
        /\ ~expired => output = "whole"
        /\ output = "whole" => Holders = {}
        /\ expired => \A p \in Group : proc[p] = "signalled" \/ p \in manner.ignores \cup heir

\* Nobody ignores SIGTERM or takes the pipes out of the group.
Mannerly == manner.ignores = {} /\ manner.leaves \subseteq manner.quiet

\* A mannerly command with a timeout never keeps its driver for ever, even if it
\* never ends by itself: this is what the drivers rest on.
Returns == manner.timed /\ Mannerly ~> pc \in {"returned", "raised"}
=============================================================================
