------------------------------ MODULE MCAccounts ------------------------------
(***************************************************************************)
(* Small instances of Accounts, each with the flows its scenario starts.   *)
(***************************************************************************)
EXTENDS Accounts, TLC

CONSTANTS a, b, p, q, t1, t2, j1, j2, Scenarios

VARIABLE scenario

JobSymmetry == Permutations(Jobs)

\* The flows, how many of them, in which tabs, by which accounts; a's passkeys;
\* whether the browser has a session of a at first.
Scenario(does, times, tabs, people, passkeys, session) ==
    [does |-> does, times |-> times, tabs |-> tabs, people |-> people,
     passkeys |-> passkeys, session |-> session]

\* Assertions of one passkey overlap: p has a copy, q has none.
Asserting == Scenario({"passkeyLogin", "unlock"}, 3, {t1, t2}, {a}, {p}, FALSE)
Unlocking == Scenario({"unlock", "unlockPassword", "delete"}, 3, {t1, t2}, {a}, {q}, TRUE)
\* The account's keypair is published by several flows.
Publishing == Scenario({"unlockPassword", "ensure", "lock", "expire"}, 4, {t1, t2}, {a}, {}, TRUE)
\* Two accounts in one tab, and in two.
Joining == Scenario({"register", "signIn", "ensure", "join"}, 4, {t1}, {a, b}, {}, FALSE)
Enrolling == Scenario({"register", "unlock", "enroll", "signOut", "lock"}, 4, {t1}, {a, b}, {}, FALSE)
Switching == Scenario({"signIn", "ensure", "signOut"}, 3, {t1, t2}, {a, b}, {}, FALSE)

AllScenarios == {Asserting, Unlocking, Publishing, Joining, Enrolling, Switching}

-----------------------------------------------------------------------------
Bounded(s) == INSTANCE Accounts WITH
    Does <- s.does, MaxStarts <- s.times, Tabs <- s.tabs, Accounts <- s.people

\* All accounts have registered but a, in the scenarios that register accounts.
ScenarioInit ==
    \E s \in Scenarios :
        /\ scenario = s
        /\ InitWith(IF "register" \in s.does THEN s.people \ {a} ELSE s.people, s.passkeys, a, s.session)

ScenarioNext == \E s \in Scenarios : scenario = s /\ Bounded(s)!Next /\ UNCHANGED scenario
ScenarioSpec == ScenarioInit /\ [][ScenarioNext]_<<vars, scenario>>
=============================================================================
