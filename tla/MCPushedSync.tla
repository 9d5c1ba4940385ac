---------------------------- MODULE MCPushedSync ----------------------------
(***************************************************************************)
(* Small instances of SharedSync and of PushedSync: one tab, one or two    *)
(* collections, two pulls in flight.                                       *)
(***************************************************************************)
EXTENDS PushedSync

CONSTANTS c1, c2, p1, p2, s1, s2, Scenarios

VARIABLE scenario

\* What others do and how often; the collections in play; whether an item is
\* shared directly at the start; pulls at a time, sockets, unlocks and failures.
\* With sockets the tab stays unlocked.
Scenario(kinds, steps, colls, shared, pulls, sockets, unlocks, failures) ==
    [kinds |-> kinds, steps |-> steps, colls |-> colls, shared |-> shared, pulls |-> pulls,
     sockets |-> sockets, unlocks |-> unlocks, failures |-> failures]

Overlap  == Scenario({"edit", "revoke"}, 1, {c1}, FALSE, {p1, p2}, {}, 1, 0)
Several  == Scenario({"edit"}, 1, {c1, c2}, TRUE, {p1}, {}, 1, 1)
Rekeys   == Scenario({"cascade", "edit", "rekey"}, 2, {c1}, FALSE, {p1}, {}, 1, 0)
Failing  == Scenario({"rekey", "revoke"}, 1, {c1}, FALSE, {p1}, {}, 1, 1)
Directs  == Scenario({"status", "owner"}, 2, {}, TRUE, {p1}, {}, 1, 0)
Unopened == Scenario({"direct", "level"}, 1, {}, TRUE, {p1}, {}, 1, 1)
Deletion == Scenario({"cascade", "dissolve"}, 2, {c1}, TRUE, {p1}, {}, 1, 0)
Removal  == Scenario({"leave", "join"}, 2, {c1}, TRUE, {p1}, {}, 1, 0)
Sessions == Scenario({}, 0, {c1}, TRUE, {p1, p2}, {}, 2, 0)
Frames   == Scenario({"grant", "leave"}, 1, {c1}, FALSE, {p1, p2}, {s1}, 1, 0)
Lagging  == Scenario({"direct", "level"}, 2, {}, FALSE, {p1}, {s1}, 1, 0)
Dropped  == Scenario({"edit"}, 1, {c1}, FALSE, {p1}, {s1}, 1, 1)
Reopened == Scenario({"direct"}, 1, {}, FALSE, {p1}, {s1, s2}, 1, 1)

AllScenarios == {Overlap, Several, Rekeys, Failing, Directs, Unopened, Deletion, Removal, Sessions,
                 Frames, Lagging, Dropped, Reopened}
SessionScenarios == {Sessions}

-----------------------------------------------------------------------------
ScenarioInit ==
    /\ scenario \in Scenarios
    /\ PushInit
    /\ direct = scenario.shared
    /\ holds \in IF "grant" \in scenario.kinds THEN SUBSET scenario.colls ELSE {scenario.colls}

\* PushedSync with the scenario's bounds.
Bounded(s) == INSTANCE PushedSync WITH
    Pulls <- s.pulls, Moves <- s.kinds, MaxMoves <- s.steps,
    MaxSessions <- s.unlocks, MaxFaults <- s.failures

Polled(s) == s.sockets = {}

ScenarioNext ==
    \E s \in Scenarios :
        /\ scenario = s
        /\ IF Polled(s) THEN Bounded(s)!Next /\ UNCHANGED pushVars
           ELSE Bounded(s)!PushNext /\ ws' \in s.sockets \cup {NoSocket} /\ (session' = 0 => session = 0)
        /\ holds' \subseteq s.colls
        /\ \A c \in Collections \ s.colls : rev'[c] = rev[c] /\ past'[c] = past[c]
        /\ UNCHANGED scenario

\* The fairness of SharedSync where the timer runs.
Polling(A) == A /\ Polled(scenario) /\ UNCHANGED <<pushVars, scenario>>

ScenarioVars == <<vars, pushVars, scenario>>

ScenarioSpec ==
    /\ ScenarioInit /\ [][ScenarioNext]_ScenarioVars
    /\ WF_ScenarioVars(Polling(Refresher)) /\ WF_ScenarioVars(Polling(Pass))
    /\ \A p \in Pulls : /\ WF_ScenarioVars(Polling(AskRevisions(p) /\ p \in scenario.pulls))
                        /\ WF_ScenarioVars(Polling(Pull(p)))

\* StoreCatchesUp, where the timer runs.
PolledStoreCatchesUp == Polled(scenario) => StoreCatchesUp
=============================================================================
