--------------------------- MODULE InviteLifecycle ---------------------------
(***************************************************************************)
(* What an invitation promises, with no request, proof, counter or clock:  *)
(* it is offered once, and either one user takes it, whole, or it closes   *)
(* and nobody does.  Invitations implements it.                            *)
(***************************************************************************)
CONSTANTS Users, Invites, Grants, NoOffer

VARIABLES
    offer,     \* per invitation: what it must give and what it may give
    state,     \* "unused", "open", "taken" or "closed"
    received   \* <<invitation, user, grant>> handed out so far

vars == <<offer, state, received>>

Init ==
    /\ offer = [i \in Invites |-> NoOffer]
    /\ state = [i \in Invites |-> "unused"]
    /\ received = {}

Open(i) ==
    /\ state[i] = "unused"
    /\ state' = [state EXCEPT ![i] = "open"]
    /\ offer' = [offer EXCEPT ![i] = offer'[i]]
    /\ offer'[i] \in [must : SUBSET Grants, may : SUBSET Grants]
    /\ UNCHANGED received

\* One user, in one step: everything promised, and nothing that was not offered.
Take(i, u) ==
    /\ state[i] = "open"
    /\ state' = [state EXCEPT ![i] = "taken"]
    /\ \E extra \in SUBSET offer[i].may :
          received' = received \cup {<<i, u, g>> : g \in offer[i].must \cup extra}
    /\ UNCHANGED offer

\* Withdrawn or expired while open; taken or not, gone with the family.
Close(some) ==
    /\ some # {} /\ \A i \in some : state[i] \in {"open", "taken"}
    /\ state' = [i \in Invites |-> IF i \in some THEN "closed" ELSE state[i]]
    /\ UNCHANGED <<offer, received>>

Next == \/ \E i \in Invites : Open(i)
        \/ \E i \in Invites, u \in Users : Take(i, u)
        \/ \E some \in SUBSET Invites : Close(some)

Spec == Init /\ [][Next]_vars
=============================================================================
