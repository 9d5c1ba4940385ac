--------------------------- MODULE MCPersonalSync ---------------------------
(***************************************************************************)
(* Small instances of PersonalSync: a personal item and one that lies in a *)
(* collection.  The run covers two scenarios, one of them chosen in the    *)
(* initial state: a client that saves, and one that only reads while the   *)
(* other devices write more.                                               *)
(***************************************************************************)
EXTENDS PersonalSync

CONSTANTS a, g, p1, p2, Scenarios

VARIABLE scenario

Saving == [writes |-> 2, saves |-> 1]
Reading == [writes |-> 3, saves |-> 0]

BothClients == {Saving, Reading}

\* PersonalSync with the scenario's bounds.
Bounded(s) == INSTANCE PersonalSync WITH MaxWrites <- s.writes, MaxSaves <- s.saves

ScenarioInit == scenario \in Scenarios /\ Init

ScenarioNext ==
    \E s \in Scenarios : scenario = s /\ Bounded(s)!Next /\ UNCHANGED scenario

ScenarioSpec == ScenarioInit /\ [][ScenarioNext]_<<vars, scenario>>
FairScenarioSpec == ScenarioSpec /\ Fairness
=============================================================================
