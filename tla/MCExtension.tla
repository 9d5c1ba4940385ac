----------------------------- MODULE MCExtension -----------------------------
(***************************************************************************)
(* Small instances of WorkerSession and of ProviderCeremony.               *)
(***************************************************************************)
EXTENDS ProviderCeremony

CONSTANTS a, b, n1, n2, r1, r2, r3, Scenarios

VARIABLE scenario

\* What happens and how often; the accounts in play; whether the extension is
\* signed in, and locked, at first; the pages' requests.
Scenario(does, times, users, session, pages) ==
    [does |-> does, times |-> times, users |-> users, session |-> session, pages |-> pages]

Resting  == Scenario({"unlock", "touch", "minutes", "status"}, 4, {a}, a, {})
Crashing == Scenario({"unlock", "status", "crash"}, 4, {a}, a, {})
Leaving  == Scenario({"unlock", "signOut", "minutes", "status"}, 4, {a}, a, {})
Changing == Scenario({"start", "signOut"}, 2, {a, b}, a, {})
Broken   == Scenario({"start", "crash"}, 2, {a, b}, None, {})
Waiting  == Scenario({"start"}, 2, {a}, None, {})
Passkey  == Scenario({"start", "unlock"}, 2, {a}, a, {})
Asking   == Scenario({"unlock"}, 1, {a}, a, {r1, r2})
Creating == Scenario({"unlock"}, 1, {a}, a, {r1, r3})
Rehydrated == Scenario({"unlock", "status"}, 2, {a}, a, {r1})

AllScenarios == {Resting, Crashing, Leaving, Changing, Broken, Waiting, Passkey, Asking, Creating, Rehydrated}
RestingScenarios == {Resting}

-----------------------------------------------------------------------------
Bounded(s) == INSTANCE ProviderCeremony WITH
    Events <- s.does, MaxEvents <- s.times, Accounts <- s.users

ScenarioInit ==
    /\ scenario \in Scenarios
    /\ InitWith(scenario.session) /\ ProviderInit

ScenarioNext ==
    \E s \in Scenarios :
        /\ scenario = s
        /\ IF s.pages = {} THEN Bounded(s)!Next /\ UNCHANGED providerVars
           ELSE /\ Bounded(s)!ProviderNext
                /\ \A r \in Requests \ s.pages : At(r)' = "none"
        /\ UNCHANGED scenario

ScenarioVars == <<sessionVars, providerVars, scenario>>

\* The fairness of WorkerSession, and of ProviderCeremony for the pages in play.
Working(A) == A /\ scenario.pages = {} /\ UNCHANGED <<providerVars, scenario>>

ScenarioSpec ==
    /\ ScenarioInit /\ [][ScenarioNext]_ScenarioVars
    /\ WF_ScenarioVars(Working(AutoLock)) /\ WF_ScenarioVars(Working(Expire))
    /\ WF_ScenarioVars(Working(Resume))
    /\ \A r \in Requests : WF_ScenarioVars(Proceed(r) /\ UNCHANGED scenario)

\* EveryUnlockEnds and PopupIsTold, where no page asks.
SessionEnds == scenario.pages = {} => EveryUnlockEnds
CeremonyEnds == scenario.pages = {} => PopupIsTold
=============================================================================
