-------------------------- MODULE MCCollectionKeys --------------------------
(***************************************************************************)
(* Small instances of CollectionKeys: an owner and two members, one item by*)
(* one of the members.  A run covers several scenarios, one of them chosen *)
(* in the initial state.                                                   *)
(***************************************************************************)
EXTENDS CollectionKeys

CONSTANTS o, m, n, i1, Scenarios

VARIABLE scenario

MCAuthor == [i \in Items |-> m]

\* ops: the operations in play; members: the family and the first holders;
\* epochs, revisions, inFlight: the bounds.
Scenario(ops, members, epochs, revisions, inFlight) ==
    [ops |-> ops, members |-> members, epochs |-> epochs, revisions |-> revisions,
     inFlight |-> inFlight]

Client == {"refresh", "pull"}

Wide == Scenario(Client \cup {"write", "move", "delete", "share", "remove"},
                 {o, m}, 2, 3, 2)
Membership == Scenario({"grant", "revoke", "remove"}, {o, m, n}, 3, 1, 1)
Invitations == Scenario({"invite", "revoke", "remove"}, {o, m, n}, 2, 1, 0)
Saves == Scenario(Client \cup {"lock", "write", "remove"}, {o, m, n}, 3, 2, 1)
MoveAndShare == Scenario(Client \cup {"move", "write", "share"}, {o, m}, 1, 3, 1)

AllRaces == {Wide, Membership, Invitations, Saves}
ShareRaces == {MoveAndShare}

Everything == UNION {s.ops : s \in AllRaces}

-----------------------------------------------------------------------------
\* Init in a family of the scenario's members only.
ScenarioInit ==
    /\ scenario \in Scenarios
    /\ family = scenario.members
    /\ sealed = [u \in Users |-> IF u \in scenario.members THEN 1 ELSE NoKey]
    /\ row = [i \in Items |-> [scope |-> "shared", author |-> Author[i],
                               rev |-> 1, key |-> 1, under |-> 1]]
    /\ given = [i \in Items |-> [u \in Users |-> 0]]
    /\ minted = 1
    /\ invite = NoKey
    /\ held = [u \in Users |-> NoKey]
    /\ copy = [u \in Users |-> [i \in Items |-> 0]]
    /\ sent = {}
    /\ job = [u \in Users |-> NoJob]

\* CollectionKeys with the scenario's operations and bounds.
Bounded(s) == INSTANCE CollectionKeys WITH
    Enabled <- s.ops, MaxEpoch <- s.epochs, MaxRevision <- s.revisions,
    MaxInFlight <- s.inFlight

\* Those who are not among the scenario's members stay outside.
ScenarioNext ==
    \E s \in Scenarios :
        /\ scenario = s
        /\ Bounded(s)!Next
        /\ family' \subseteq s.members
        /\ UNCHANGED scenario

ScenarioSpec == ScenarioInit /\ [][ScenarioNext]_<<vars, scenario>>
=============================================================================
