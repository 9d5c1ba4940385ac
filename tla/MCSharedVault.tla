---------------------------- MODULE MCSharedVault ----------------------------
(***************************************************************************)
(* Small instances of SharedVault.  A run covers several scenarios, one of *)
(* them chosen in the initial state: a set of operations that race, the    *)
(* store they start from, and the bounds of the requests.                  *)
(***************************************************************************)
EXTENDS SharedVault

CONSTANTS o, m, n,        \* the family owner and two members
          c1, c2,         \* an ordinary collection and an item bucket
          i1, i2,
          Scenarios       \* the scenarios of the run

VARIABLE scenario

MCKind == [c \in Collections |-> IF c = c2 THEN "item_bucket" ELSE "ordinary"]
MCDeclared == [c \in Collections |-> "read"]

Everything == {"create_item", "update_item", "delete_item", "move_item",
               "create_share", "update_share", "revoke_share",
               "create_collection", "add_key", "update_access", "revoke_access",
               "create_family", "add_member", "set_status", "remove_member",
               "delete_account"}

\* ops: the operations requested; levels, writes, inFlight: the bounds of the
\* requests; users, items, colls: those in play; holders: who holds c1 at the
\* start.
Scenario(ops, levels, writes, inFlight, users, items, colls, holders) ==
    [ops |-> ops \cup {"bump_direct"}, levels |-> levels, writes |-> writes,
     inFlight |-> inFlight, users |-> users, items |-> items, colls |-> colls,
     holders |-> holders]

ItemRaces == Scenario(
    {"update_item", "delete_item", "move_item", "create_share", "update_share", "revoke_share"},
    {"read", "edit"}, 3, 2, {o, m, n}, {i1}, {c1}, {o, m})
AccessRaces == Scenario(
    {"add_key", "update_access", "revoke_access", "create_collection", "move_item"},
    {"read", "edit"}, 2, 2, {o, m, n}, {i2}, {c1}, {o, m})
BucketRaces == Scenario(
    {"add_key", "update_access", "revoke_access", "create_collection", "move_item"},
    {"read", "hidden_password", "edit"}, 2, 2, {o, m, n}, {i1}, {c2}, {m})
FamilyRaces == Scenario(
    {"add_member", "set_status", "remove_member", "delete_account", "create_share", "revoke_access"},
    {"edit"}, 1, 2, {o, m, n}, {i1, i2}, {c1}, {o, m})
FromEmpty == Scenario(Everything, {"read", "edit"}, 2, 1, {o, m}, {i1}, {c1}, {})
RevokeAndLeave == Scenario(
    {"revoke_access", "delete_account", "remove_member"}, {"edit"}, 1, 2, {o, m, n}, {i2}, {c1}, {o, m})

StoreScenarios == {ItemRaces, BucketRaces, FromEmpty, AccessRaces, FamilyRaces}
LeaveScenarios == {RevokeAndLeave}

-----------------------------------------------------------------------------
Row(u, s) == [owner |-> u, coll |-> s, rev |-> 1]
NoShares == [u \in Users |-> NoAccess]

\* The owner creates the family and c1 and adds both members, who get edit on
\* c1; m creates the items, moves i2 into c1 and shares i1 with n.  Those who
\* are not among the scenario's holders are revoked.
Populated(s) ==
    /\ account = Users
    /\ owner = o
    /\ member = [u \in Users |-> "active"]
    /\ coll = [c \in Collections |-> IF c = c1 /\ c \in s.colls THEN "live" ELSE "unused"]
    /\ key = [c \in Collections |-> [u \in Users |->
                 IF c = c1 /\ c \in s.colls /\ u \in s.holders THEN "edit" ELSE NoAccess]]
    /\ item = [i \in Items |-> IF i \notin s.items THEN None
                               ELSE IF i = i1 THEN Row(m, Personal) ELSE Row(m, c1)]
    /\ share = [i \in Items |-> [NoShares EXCEPT ![n] =
                   IF i = i1 /\ i \in s.items THEN "read" ELSE NoAccess]]
    /\ bumped = NoBump
    /\ pend = {}

\* A scenario with no holder of c1 starts from an empty store.
ScenarioInit ==
    /\ scenario \in Scenarios
    /\ IF scenario.holders = {} THEN Init ELSE Populated(scenario)

\* SharedVault with the scenario's operations and bounds.
Bounded(s) == INSTANCE SharedVault WITH
    Enabled <- s.ops, AskLevels <- s.levels, MaxRevision <- s.writes, MaxInFlight <- s.inFlight

\* The users, items and collections the scenario leaves out take no part.
InScenario ==
    /\ \A r \in pend' \ pend :
          /\ "by" \in DOMAIN r => r.by \in scenario.users
          /\ "to" \in DOMAIN r => r.to \in scenario.users
          /\ r.op = "create_collection" => r.coll \in scenario.colls
    /\ \A i \in Items : item[i] = None /\ item'[i] # None =>
          i \in scenario.items /\ item'[i].owner \in scenario.users
    /\ owner = None /\ owner' # None => owner' \in scenario.users

ScenarioNext ==
    \E s \in Scenarios :
        scenario = s /\ Bounded(s)!Next /\ InScenario /\ UNCHANGED scenario

ScenarioSpec == ScenarioInit /\ [][ScenarioNext]_<<vars, scenario>>
=============================================================================
