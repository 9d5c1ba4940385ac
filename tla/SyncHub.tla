------------------------------- MODULE SyncHub -------------------------------
(***************************************************************************)
(* The push channel of one user: SyncHub and handle_socket of sync.rs.     *)
(* The hub maps a user to a broadcast channel, made by the first           *)
(* subscription; a socket forwards what its receiver holds, and the        *)
(* channel keeps the last Capacity events for a receiver that lags.        *)
(***************************************************************************)
EXTENDS Naturals, Sequences, SequencesExt

CONSTANTS
    Sockets,
    Capacity     \* broadcast::channel(32)

ASSUME HubAssumption == Capacity \in Nat \ {0}

VARIABLES
    channel,     \* the map has an entry for the user
    socket,      \* per socket: "closed", "upgrading", "open" or "leaving"
    backlog,     \* per socket: the events its receiver still holds
    published,   \* number of the last event published
    forwarded    \* per socket: number of the last event it knows the client has

hubVars == <<channel, socket, backlog, published, forwarded>>

HubInit ==
    /\ channel = FALSE
    /\ socket = [s \in Sockets |-> "closed"]
    /\ backlog = [s \in Sockets |-> <<>>]
    /\ published = 0
    /\ forwarded = [s \in Sockets |-> 0]

\* A receiver is alive from subscribe until handle_socket returns.
Receivers == {s \in Sockets : socket[s] \in {"open", "leaving"}}

\* ws_handler has checked the token and answered; the client may already see
\* the socket as open.
Upgrade(s) ==
    /\ socket[s] = "closed"
    /\ socket' = [socket EXCEPT ![s] = "upgrading"]
    /\ UNCHANGED <<channel, backlog, published, forwarded>>

\* A receiver sees what is sent after it subscribed.
Subscribe(s) ==
    /\ socket[s] = "upgrading"
    /\ channel' = TRUE
    /\ socket' = [socket EXCEPT ![s] = "open"]
    /\ backlog' = [backlog EXCEPT ![s] = <<>>]
    /\ forwarded' = [forwarded EXCEPT ![s] = published]
    /\ UNCHANGED published

\* send on the channel: nothing without one; a full backlog loses its oldest.
Publish ==
    /\ published' = published + 1
    /\ backlog' = IF ~channel THEN backlog
                  ELSE [s \in Sockets |->
                          IF s \notin Receivers THEN backlog[s]
                          ELSE LET all == Append(backlog[s], published + 1)
                               IN  IF Len(all) > Capacity THEN Tail(all) ELSE all]
    /\ UNCHANGED <<channel, socket, forwarded>>

\* A lag is skipped without a frame; the next recv returns the oldest kept.
Forward(s) ==
    /\ socket[s] = "open" /\ backlog[s] # <<>>
    /\ forwarded' = [forwarded EXCEPT ![s] = Head(backlog[s])]
    /\ backlog' = [backlog EXCEPT ![s] = Tail(backlog[s])]
    /\ UNCHANGED <<channel, socket, published>>

\* A variant that prunes whoever else is connected.
PruneWhoeverIsLeft(s) ==
    /\ socket[s] = "open"
    /\ socket' = [socket EXCEPT ![s] = "leaving"]
    /\ channel' = FALSE
    /\ UNCHANGED <<backlog, published, forwarded>>

\* The loop ends and prunes the channel if it has no receiver left.
Prune(s) ==
    /\ socket[s] = "open"
    /\ socket' = [socket EXCEPT ![s] = "leaving"]
    /\ channel' = (channel /\ Receivers # {})
    /\ UNCHANGED <<backlog, published, forwarded>>

\* handle_socket returns: its receiver is dropped.
Return(s) ==
    /\ socket[s] = "leaving"
    /\ socket' = [socket EXCEPT ![s] = "closed"]
    /\ backlog' = [backlog EXCEPT ![s] = <<>>]
    /\ UNCHANGED <<channel, published, forwarded>>

HubNext == \E s \in Sockets :
    Upgrade(s) \/ Subscribe(s) \/ Forward(s) \/ Prune(s) \/ Return(s)

-----------------------------------------------------------------------------
(* Properties.                                                             *)

\* However sockets come, lag and go, an open socket that has not forwarded the
\* last event still holds it: what is dropped for a lagging receiver is never
\* the newest event, and a prune never cuts off a socket that is still there.
NewestIsNeverLost ==
    \A s \in Sockets : socket[s] = "open" /\ forwarded[s] < published =>
        backlog[s] # <<>> /\ Last(backlog[s]) = published
=============================================================================
