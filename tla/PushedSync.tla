------------------------------ MODULE PushedSync ------------------------------
(***************************************************************************)
(* The shared pull driven by the push channel alone: every commit of       *)
(* SharedSync that publishes reaches the sockets of SyncHub, and a tab     *)
(* pulls when its socket opens and on every frame (sync.ts connectWs).     *)
(* The 30 s timer is left out: what holds here holds between two ticks.    *)
(***************************************************************************)
EXTENDS SharedSync, SyncHub

CONSTANT NoSocket

VARIABLES
    ws,        \* the socket the tab regards as its own
    greeted,   \* its onopen has run
    due,       \* events of committed requests not yet published
    unseen,    \* a change came without a frame since the last pull was started
    order,     \* history: pulls read, but for 404s, and not yet delivered, until one overtakes
    overtaken  \* history: an answer was delivered before one read earlier

answers == <<order, overtaken>>
tabVars == <<ws, greeted>>
pushVars == <<hubVars, tabVars, due, unseen, answers>>

PushInit ==
    /\ Init /\ HubInit
    /\ ws = NoSocket /\ greeted = FALSE
    /\ due = 0 /\ unseen = FALSE
    /\ order = <<>> /\ overtaken = FALSE

-----------------------------------------------------------------------------
(* Commits, and what is published afterwards.                              *)

\* Recipients are the active holders of the collection after the change, or
\* those that the item of a share names.
CommitTold ==
    /\ \/ \E c \in Collections : (EditItem(c) \/ Rekey(c) \/ Grant(c)) /\ c \in Readable'
       \/ ShareDirect
    /\ due' = due + 1
    /\ UNCHANGED <<hubVars, tabVars, unseen, answers>>

\* Whoever loses access or gets another level, and whoever's status changes, gets
\* no frame; nor does anybody of a change that moves no cursor.
CommitUntold ==
    /\ \/ \E c \in Collections : \/ Revoke(c) \/ Cascade(c)
                                 \/ (EditItem(c) \/ Rekey(c)) /\ c \notin Readable
                                 \/ Grant(c) /\ c \notin Readable'
       \/ ChangeShare \/ OwnerMoves \/ Leave \/ Dissolve \/ Join
       \/ SetStatus("active") \/ SetStatus("suspended") \/ CountStatus
    /\ unseen' = TRUE
    /\ UNCHANGED <<hubVars, tabVars, due, answers>>

\* A frame is missed by a tab whose socket opened before the server subscribed.
Tell ==
    /\ due > 0
    /\ Publish
    /\ due' = due - 1
    /\ unseen' = (unseen \/ (ws # NoSocket /\ greeted /\ ws \notin Receivers))
    /\ UNCHANGED <<server, client, bounds, tabVars, answers>>

\* The request is dropped between its commit and its events.
LoseEvent ==
    /\ due > 0 /\ faults < MaxFaults
    /\ faults' = faults + 1
    /\ due' = due - 1 /\ unseen' = TRUE
    /\ UNCHANGED <<server, client, moves, hubVars, tabVars, answers>>

-----------------------------------------------------------------------------
(* The tab and its socket.                                                 *)

Connect(s) ==
    /\ session # 0 /\ ws = NoSocket
    /\ Upgrade(s)
    /\ ws' = s /\ greeted' = FALSE
    /\ UNCHANGED <<server, client, bounds, due, unseen, answers>>

PullStarts == (\E p \in Pulls : AskRevisions(p)) /\ unseen' = FALSE

\* onopen: a catch-up pull.
Greet ==
    /\ ws # NoSocket /\ ~greeted
    /\ greeted' = TRUE
    /\ IF disabled THEN UNCHANGED <<server, client, bounds, unseen>> ELSE PullStarts
    /\ UNCHANGED <<hubVars, ws, due, answers>>

\* A variant that takes a frame without pulling.
FrameIgnored(s) ==
    /\ Forward(s)
    /\ UNCHANGED <<server, client, bounds, tabVars, due, unseen, answers>>

\* onmessage: any frame means go and pull; a closed tab ignores it.
Frame(s) ==
    /\ Forward(s)
    /\ IF ws = s /\ ~disabled THEN greeted /\ PullStarts
       ELSE UNCHANGED <<server, client, bounds, unseen>>
    /\ UNCHANGED <<tabVars, due, answers>>

\* The connection breaks: the server's loop ends, or the tab sees onclose.
Break(s) ==
    /\ ws = s /\ Prune(s)
    /\ faults < MaxFaults /\ faults' = faults + 1
    /\ UNCHANGED <<server, client, moves, tabVars, due, unseen, answers>>

HangUp ==
    /\ ws # NoSocket
    /\ \/ socket[ws] \in {"leaving", "closed"} /\ UNCHANGED faults
       \/ faults < MaxFaults /\ faults' = faults + 1
    /\ ws' = NoSocket /\ greeted' = FALSE
    /\ UNCHANGED <<server, client, moves, hubVars, due, unseen, answers>>

ServerSide(s) ==
    /\ Subscribe(s) \/ (ws # s /\ Prune(s)) \/ Return(s)
    /\ UNCHANGED <<server, client, bounds, tabVars, due, unseen, answers>>

\* stopSync closes the socket, startSync opens another.
LockOrUnlock ==
    /\ Lock \/ Unlock
    /\ ws' = NoSocket /\ greeted' = FALSE
    /\ UNCHANGED <<hubVars, due, unseen, answers>>

ServerReads(p) ==
    /\ ReadCollections(p)
    /\ order' = IF pull'[p].answer = Gone THEN order ELSE Append(order, p)
    /\ UNCHANGED <<hubVars, tabVars, due, unseen, overtaken>>

ServerAnswers(p) ==
    /\ AnswerRevisions(p)
    /\ UNCHANGED pushVars

Delivered(p) ==
    /\ \/ DeliverGone(p) /\ UNCHANGED answers
       \/ /\ DeliverRevisions(p)
          /\ order' = Tail(order)
          /\ overtaken' = (overtaken \/ Head(order) # p)
    /\ UNCHANGED <<hubVars, tabVars, due, unseen>>

Step ==
    /\ Refresher \/ Pass \/ Faults
    /\ UNCHANGED pushVars

PushNext ==
    \/ CommitTold \/ CommitUntold \/ Tell \/ LoseEvent
    \/ \E s \in Sockets : Connect(s) \/ Frame(s) \/ Break(s) \/ ServerSide(s)
    \/ \E p \in Pulls : ServerReads(p) \/ ServerAnswers(p) \/ Delivered(p)
    \/ Greet \/ HangUp \/ LockOrUnlock \/ Step

PushSpec == PushInit /\ [][PushNext]_<<vars, pushVars>>

-----------------------------------------------------------------------------
(* Properties.                                                             *)

\* A tab with an open socket that has had every frame, and has nothing under
\* way, shows what the server holds, but for what no cursor counts: only a change
\* nobody publishes (of a level, a status or the caller's own access), an event
\* lost with its request, a frame sent between the opening of the socket and its
\* subscription, an answer that a newer one has overtaken or a failed step needs
\* the timer.
PushKeepsCurrent ==
    /\ session # 0 /\ Quiet /\ refresher = NoPull /\ ~disabled
    /\ ws # NoSocket /\ greeted /\ socket[ws] = "open" /\ forwarded[ws] = published
    /\ due = 0 /\ ~unseen
    => CaughtUp \/ overtaken \/ outerFails > 0 \/ RetriesRanOut \/ carried
=============================================================================
