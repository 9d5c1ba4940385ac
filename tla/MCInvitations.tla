--------------------------- MODULE MCInvitations ---------------------------
(***************************************************************************)
(* Small instances of Invitations: an ordinary collection, a family-wide   *)
(* folder and an item bucket, the owner and two people with the link.      *)
(***************************************************************************)
EXTENDS Invitations

CONSTANTS o, a, b,       \* the owner, two others
          c1, f1, k1,    \* an ordinary collection, a family folder, an item bucket
          i1, i2,        \* invitations
          Scenarios

VARIABLE scenario

MCWideKind == [d \in Collections |-> IF d = f1 THEN "folder"
                                     ELSE IF d = k1 THEN "item_bucket" ELSE "ordinary"]
MCDeclared == [d \in Collections |-> IF d = k1 THEN "read" ELSE "edit"]

\* made: the collections that exist; scopes: what invitations are for; invites:
\* those in play; readers: who has the link; the rest are the bounds of the module.
Scenario(made, scopes, invites, readers, routes, steps, guesses, levels) ==
    [made |-> made, scopes |-> scopes, invites |-> invites, readers |-> readers,
     routes |-> routes, steps |-> steps, guesses |-> guesses, levels |-> levels]

\* Two people and two links.
Racing == Scenario({f1}, {NoCollection}, {i1, i2}, {a, b}, {"remove"}, 1, 0, {"edit"})
\* Proofs right and wrong.
Counting == Scenario({c1}, {c1}, {i1}, {a, b}, {"dissolve"}, 1, 2, {"read"})
\* The rights of the inviter and the invitee move while the link is out.
Moving == Scenario({c1, f1}, {NoCollection, c1}, {i1}, {a},
                   {"grant", "level", "revoke", "add"}, 3, 0, {"read", "edit"})
Leaving == Scenario({f1, k1}, {NoCollection, f1}, {i1}, {a, b}, {"add", "status", "remove", "grant"}, 2, 0,
                    {"edit"})
Buckets == Scenario({f1, k1}, {NoCollection}, {i1}, {a, b}, {"grant", "add", "dissolve"}, 2, 0,
                    {"read", "edit"})

AllScenarios == {Racing, Counting, Moving, Leaving, Buckets}
FolderScenario == {Leaving}

-----------------------------------------------------------------------------
ScenarioInit ==
    /\ scenario \in Scenarios
    /\ Init
    /\ \A d \in Collections : key[d][Owner] # NoAccess <=> d \in scenario.made

\* Invitations with the scenario's bounds.
Bounded(s) == INSTANCE Invitations WITH
    Moves <- s.routes, MaxMoves <- s.steps, MaxGuesses <- s.guesses, AskLevels <- s.levels

ScenarioNext ==
    \E s \in Scenarios :
        /\ scenario = s
        /\ Bounded(s)!Next
        /\ draft' # NoDraft => draft'.invite \in s.invites /\ draft'.coll \in s.scopes
        /\ \A u \in Users : page'[u] # NoPage => u \in s.readers
        /\ UNCHANGED scenario

ScenarioSpec == ScenarioInit /\ [][ScenarioNext]_<<vars, scenario>>
=============================================================================
