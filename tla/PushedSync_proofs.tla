--------------------------- MODULE PushedSync_proofs ---------------------------
(***************************************************************************)
(* Proofs about PushedSync, for any number of sockets, of pulls in flight  *)
(* and of collections and any capacity of the channel: the last event      *)
(* published is never lost to an open socket, and a tab that has had every *)
(* frame shows what the server holds.                                      *)
(***************************************************************************)
EXTENDS PushedSync, SharedSync_proofs

USE DEF Handles, Listings, NoAnswer

-----------------------------------------------------------------------------
(* Sequences.                                                              *)

\* A backlog with room taken is not empty.
LEMMA LongIsNotEmpty ==
    ASSUME NEW S, NEW q \in Seq(S), Len(q) > 0
    PROVE  q # <<>>
OBVIOUS

\* A backlog that an event joins.
Kept(q, n) == IF Len(Append(q, n)) > Capacity THEN Tail(Append(q, n)) ELSE Append(q, n)

\* A queue that an event joins, and that loses its oldest when it is too long,
\* still ends with that event.
LEMMA JoiningEndsTheQueue ==
    ASSUME NEW q \in Seq(Nat), NEW n \in Nat
    PROVE  /\ Kept(q, n) \in Seq(Nat) /\ Kept(q, n) # <<>> /\ Last(Kept(q, n)) = n
           /\ \A i \in 1..Len(Kept(q, n)) : Kept(q, n)[i] = n \/ \E k \in 1..Len(q) : Kept(q, n)[i] = q[k]
<1> DEFINE all == Append(q, n)
<1>1. all \in Seq(Nat) /\ Len(all) = Len(q) + 1 /\ all[Len(all)] = n /\ Len(all) \in Nat
    OBVIOUS
<1>2. \A i \in 1..Len(all) : all[i] = n \/ \E k \in 1..Len(q) : all[i] = q[k]
    <2>1. \A i \in 1..Len(q) : all[i] = q[i]
        OBVIOUS
    <2>2. \A i \in 1..Len(all) : i \in 1..Len(q) \/ i = Len(all)
        BY <1>1
    <2> QED BY <1>1, <2>1, <2>2
<1> HIDE DEF all
<1> DEFINE Good(kept) ==
        /\ kept \in Seq(Nat) /\ kept # <<>> /\ Last(kept) = n
        /\ \A i \in 1..Len(kept) : kept[i] = n \/ \E k \in 1..Len(q) : kept[i] = q[k]
<1>3. ASSUME Len(all) > Capacity PROVE Good(Tail(all))
    <2>1. Len(all) > 1
        BY <1>1, <1>3, HubAssumption
    <2>2. Tail(all) \in Seq(Nat) /\ Len(Tail(all)) = Len(all) - 1 /\ all # <<>>
        BY <1>1, <2>1
    <2>3. Tail(all)[Len(all) - 1] = all[Len(all)]
        BY <1>1, <2>1
    <2>4. Tail(all) # <<>>
        <3>1. Len(Tail(all)) \in Nat /\ Len(Tail(all)) > 0
            BY <1>1, <2>1, <2>2
        <3> QED BY <3>1, <2>2, LongIsNotEmpty
    <2>5. \A i \in 1..Len(Tail(all)) : Tail(all)[i] = all[i + 1] /\ i + 1 \in 1..Len(all)
        BY <1>1, <2>1, <2>2
    <2> QED BY <1>1, <1>2, <1>3, <2>2, <2>3, <2>4, <2>5 DEF Last
<1>4. ASSUME ~(Len(all) > Capacity) PROVE Good(all)
    BY <1>1, <1>2, <1>4 DEF Last
<1>5. Kept(q, n) = IF Len(all) > Capacity THEN Tail(all) ELSE all
    BY DEF Kept, all
<1> QED BY <1>3, <1>4, <1>5

\* Taking the oldest leaves the last one last, unless it was the only one.
LEMMA TakingKeepsTheLast ==
    ASSUME NEW S, NEW q \in Seq(S), q # <<>>
    PROVE  /\ Head(q) \in S /\ Tail(q) \in Seq(S)
           /\ \E k \in 1..Len(q) : Head(q) = q[k]
           /\ \A i \in 1..Len(Tail(q)) : \E k \in 1..Len(q) : Tail(q)[i] = q[k]
           /\ Tail(q) # <<>> => Last(Tail(q)) = Last(q)
           /\ Tail(q) = <<>> => Head(q) = Last(q)
<1>1. Len(q) \in Nat /\ Len(q) >= 1 /\ Tail(q) \in Seq(S) /\ Len(Tail(q)) = Len(q) - 1
    OBVIOUS
<1>2. Head(q) = q[1] /\ Head(q) \in S /\ 1 \in 1..Len(q)
    BY <1>1
<1>3. \A i \in 1..Len(Tail(q)) : Tail(q)[i] = q[i + 1] /\ i + 1 \in 1..Len(q)
    BY <1>1
<1>4. ASSUME Tail(q) # <<>> PROVE Last(Tail(q)) = Last(q)
    <2>1. Len(q) > 1
        BY <1>1, <1>4
    <2>2. Tail(q)[Len(q) - 1] = q[Len(q)]
        BY <1>1, <2>1
    <2> QED BY <1>1, <2>2 DEF Last
<1>5. ASSUME Tail(q) = <<>> PROVE Head(q) = Last(q)
    <2>1. ASSUME Len(q) > 1 PROVE Tail(q) # <<>>
        <3>1. Len(Tail(q)) \in Nat /\ Len(Tail(q)) > 0
            BY <1>1, <2>1
        <3> QED BY <3>1, <1>1
    <2>2. Len(q) = 1
        BY <1>1, <1>5, <2>1
    <2> QED BY <1>2, <2>2 DEF Last
<1> QED BY <1>1, <1>2, <1>4, <1>5, <1>3

-----------------------------------------------------------------------------
(* The hub.                                                                *)

HubTypeOK ==
    /\ channel \in BOOLEAN
    /\ socket \in [Sockets -> {"closed", "upgrading", "open", "leaving"}]
    /\ backlog \in [Sockets -> Seq(Nat)]
    /\ published \in Nat
    /\ forwarded \in [Sockets -> Nat]

\* An open socket has the channel it subscribed to.  Its backlog ends with the
\* last event published, or is empty and the client has that event.
BacklogsAreCurrent ==
    \A s \in Sockets : socket[s] = "open" =>
        /\ channel
        /\ backlog[s] # <<>> => Last(backlog[s]) = published
        /\ backlog[s] = <<>> => forwarded[s] = published

\* No event is numbered beyond the last one.
NumbersArePublished ==
    \A s \in Sockets : /\ forwarded[s] <= published
                       /\ \A i \in 1..Len(backlog[s]) : backlog[s][i] <= published

HubInv == HubTypeOK /\ BacklogsAreCurrent /\ NumbersArePublished

\* The steps of the hub that a step of PushedSync may contain.
HubStep == Publish \/ HubNext \/ UNCHANGED hubVars

\* A socket that is accepted has no backlog yet.
LEMMA UpgradeKeepsHub ==
    ASSUME HubInv, NEW s \in Sockets, Upgrade(s)
    PROVE  HubInv'
<1>1. HubTypeOK'
    BY DEF HubInv, HubTypeOK, Upgrade
<1>2. BacklogsAreCurrent'
    BY DEF HubInv, HubTypeOK, BacklogsAreCurrent, Upgrade
<1>3. NumbersArePublished'
    BY DEF HubInv, HubTypeOK, NumbersArePublished, Upgrade
<1> QED BY <1>1, <1>2, <1>3 DEF HubInv

\* A subscription starts with an empty backlog at the newest event.
LEMMA SubscribeKeepsHub ==
    ASSUME HubInv, NEW s \in Sockets, Subscribe(s)
    PROVE  HubInv'
<1>1. HubTypeOK'
    BY DEF HubInv, HubTypeOK, Subscribe
<1>2. BacklogsAreCurrent'
    BY DEF HubInv, HubTypeOK, BacklogsAreCurrent, Subscribe
<1>3. NumbersArePublished'
    BY DEF HubInv, HubTypeOK, NumbersArePublished, Subscribe
<1> QED BY <1>1, <1>2, <1>3 DEF HubInv

\* Pruning closes sockets whose channel has no receivers, never an open one.
LEMMA PruneKeepsHub ==
    ASSUME HubInv, NEW s \in Sockets, Prune(s)
    PROVE  HubInv'
<1>1. channel' = channel
    BY DEF HubInv, HubTypeOK, Prune, Receivers
<1>2. HubTypeOK'
    BY <1>1 DEF HubInv, HubTypeOK, Prune
<1>3. BacklogsAreCurrent'
    BY <1>1 DEF HubInv, HubTypeOK, BacklogsAreCurrent, Prune
<1>4. NumbersArePublished'
    BY DEF HubInv, HubTypeOK, NumbersArePublished, Prune
<1> QED BY <1>2, <1>3, <1>4 DEF HubInv

\* A returning client gets a socket that was closed.
LEMMA ReturnKeepsHub ==
    ASSUME HubInv, NEW s \in Sockets, Return(s)
    PROVE  HubInv'
<1>1. HubTypeOK'
    BY DEF HubInv, HubTypeOK, Return
<1>2. BacklogsAreCurrent'
    BY DEF HubInv, HubTypeOK, BacklogsAreCurrent, Return
<1>3. NumbersArePublished'
    BY DEF HubInv, HubTypeOK, NumbersArePublished, Return
<1> QED BY <1>1, <1>2, <1>3 DEF HubInv

\* Forwarding takes the oldest event of a backlog; what is left still ends
\* in the newest.
LEMMA ForwardKeepsHub ==
    ASSUME HubInv, NEW s \in Sockets, Forward(s)
    PROVE  HubInv'
<1>1. backlog[s] \in Seq(Nat) /\ backlog[s] # <<>> /\ socket[s] = "open"
    BY DEF HubInv, HubTypeOK, Forward
<1>2. /\ Head(backlog[s]) \in Nat /\ Tail(backlog[s]) \in Seq(Nat)
      /\ Tail(backlog[s]) # <<>> => Last(Tail(backlog[s])) = Last(backlog[s])
      /\ Tail(backlog[s]) = <<>> => Head(backlog[s]) = Last(backlog[s])
    BY <1>1, TakingKeepsTheLast
<1>3. HubTypeOK'
    BY <1>2 DEF HubInv, HubTypeOK, Forward
<1>4. BacklogsAreCurrent'
    <2> SUFFICES ASSUME NEW r \in Sockets, socket'[r] = "open"
                 PROVE  /\ channel'
                        /\ backlog'[r] # <<>> => Last(backlog'[r]) = published'
                        /\ backlog'[r] = <<>> => forwarded'[r] = published'
        BY DEF BacklogsAreCurrent
    <2>1. CASE r = s
        BY <1>1, <1>2, <2>1 DEF HubInv, HubTypeOK, BacklogsAreCurrent, Forward
    <2>2. CASE r # s
        BY <2>2 DEF HubInv, HubTypeOK, BacklogsAreCurrent, Forward
    <2> QED BY <2>1, <2>2
<1>5. NumbersArePublished'
    <2> SUFFICES ASSUME NEW r \in Sockets
                 PROVE  /\ forwarded'[r] <= published'
                        /\ \A i \in 1..Len(backlog'[r]) : backlog'[r][i] <= published'
        BY DEF NumbersArePublished
    <2>1. /\ \E k \in 1..Len(backlog[s]) : Head(backlog[s]) = backlog[s][k]
          /\ \A i \in 1..Len(Tail(backlog[s])) : \E k \in 1..Len(backlog[s]) : Tail(backlog[s])[i] = backlog[s][k]
        BY <1>1, TakingKeepsTheLast
    <2>2. published' = published
        BY DEF Forward
    <2>3. CASE r = s
        <3>1. forwarded'[r] = Head(backlog[s]) /\ backlog'[r] = Tail(backlog[s])
            BY <2>3 DEF HubInv, HubTypeOK, Forward
        <3> QED BY <2>1, <2>2, <3>1 DEF HubInv, NumbersArePublished
    <2>4. CASE r # s
        BY <2>2, <2>4 DEF HubInv, HubTypeOK, NumbersArePublished, Forward
    <2> QED BY <2>3, <2>4
<1> QED BY <1>3, <1>4, <1>5 DEF HubInv

\* Publishing appends the newest event to every backlog and drops the oldest
\* from a full one.
LEMMA PublishKeepsHub ==
    ASSUME HubInv, Publish
    PROVE  HubInv'
<1> DEFINE kept(s) == Kept(backlog[s], published + 1)
<1>1. \A s \in Sockets :
        /\ kept(s) \in Seq(Nat) /\ kept(s) # <<>> /\ Last(kept(s)) = published + 1
        /\ \A i \in 1..Len(kept(s)) :
              kept(s)[i] = published + 1 \/ \E k \in 1..Len(backlog[s]) : kept(s)[i] = backlog[s][k]
    <2> TAKE s \in Sockets
    <2>1. backlog[s] \in Seq(Nat) /\ published + 1 \in Nat
        BY DEF HubInv, HubTypeOK
    <2> QED BY <2>1, JoiningEndsTheQueue
<1>2. backlog' = IF ~channel THEN backlog
                 ELSE [s \in Sockets |-> IF s \notin Receivers THEN backlog[s] ELSE kept(s)]
    BY DEF Publish, Kept
<1> HIDE DEF kept
<1>3. backlog' \in [Sockets -> Seq(Nat)]
    BY <1>1, <1>2 DEF HubInv, HubTypeOK
<1>4. HubTypeOK'
    <2>1. published' = published + 1 /\ UNCHANGED <<channel, socket, forwarded>>
        BY DEF Publish
    <2> QED BY <1>3, <2>1 DEF HubInv, HubTypeOK
<1>5. BacklogsAreCurrent'
    <2> SUFFICES ASSUME NEW s \in Sockets, socket'[s] = "open"
                 PROVE  /\ channel'
                        /\ backlog'[s] # <<>> => Last(backlog'[s]) = published'
                        /\ backlog'[s] = <<>> => forwarded'[s] = published'
        BY DEF BacklogsAreCurrent
    <2>1. channel /\ channel' /\ s \in Receivers
        BY DEF HubInv, HubTypeOK, BacklogsAreCurrent, Publish, Receivers
    <2>2. backlog'[s] = kept(s)
        BY <2>1, <1>2
    <2> QED BY <1>1, <2>1, <2>2 DEF Publish
<1>6. NumbersArePublished'
    <2> SUFFICES ASSUME NEW s \in Sockets
                 PROVE  /\ forwarded'[s] <= published'
                        /\ \A i \in 1..Len(backlog'[s]) : backlog'[s][i] <= published'
        BY DEF NumbersArePublished
    <2>1. published' = published + 1 /\ forwarded' = forwarded
        BY DEF Publish
    <2>2. published \in Nat /\ forwarded[s] \in Nat /\ backlog[s] \in Seq(Nat)
        BY DEF HubInv, HubTypeOK
    <2>3. backlog'[s] = backlog[s] \/ backlog'[s] = kept(s)
        BY <1>2
    <2>4. \A k \in 1..Len(backlog[s]) : backlog[s][k] <= published /\ backlog[s][k] \in Nat
        BY <2>2 DEF HubInv, NumbersArePublished
    <2>5. ASSUME NEW i \in 1..Len(backlog'[s]) PROVE backlog'[s][i] <= published + 1
        <3>1. backlog'[s][i] = published + 1 \/ \E k \in 1..Len(backlog[s]) : backlog'[s][i] = backlog[s][k]
            BY <1>1, <2>3
        <3> QED BY <2>2, <2>4, <3>1
    <2> QED BY <2>1, <2>2, <2>5 DEF HubInv, NumbersArePublished
<1> QED BY <1>4, <1>5, <1>6 DEF HubInv

\* Whatever the hub does, it keeps its invariant.
LEMMA HubStepKeepsHub ==
    ASSUME HubInv, HubStep
    PROVE  HubInv'
<1>1. CASE UNCHANGED hubVars
    BY <1>1 DEF hubVars, HubInv, HubTypeOK, BacklogsAreCurrent, NumbersArePublished
<1>2. CASE Publish
    BY <1>2, PublishKeepsHub
<1>3. CASE HubNext
    BY <1>3, UpgradeKeepsHub, SubscribeKeepsHub, ForwardKeepsHub, PruneKeepsHub, ReturnKeepsHub
       DEF HubNext
<1> QED BY <1>1, <1>2, <1>3 DEF HubStep

\* Every step of PushedSync is a step of the hub or leaves it alone.
LEMMA StepsOfTheHub == [PushNext]_<<vars, pushVars>> => HubStep
<1> SUFFICES ASSUME [PushNext]_<<vars, pushVars>> PROVE HubStep
    OBVIOUS
<1>1. CASE CommitTold \/ CommitUntold \/ LoseEvent \/ Greet \/ HangUp \/ LockOrUnlock
    BY <1>1 DEF CommitTold, CommitUntold, LoseEvent, Greet, HangUp, LockOrUnlock, HubStep
<1>2. CASE Step
    BY <1>2 DEF Step, pushVars, HubStep
<1>3. CASE Tell
    BY <1>3 DEF Tell, HubStep
<1>4. ASSUME NEW s \in Sockets, Connect(s) \/ Frame(s) \/ Break(s) \/ ServerSide(s) PROVE HubStep
    BY <1>4 DEF Connect, Frame, Break, ServerSide, HubStep, HubNext
<1>5. ASSUME NEW p \in Pulls, ServerReads(p) \/ ServerAnswers(p) \/ Delivered(p) PROVE HubStep
    BY <1>5 DEF ServerReads, ServerAnswers, Delivered, pushVars, HubStep
<1>6. CASE UNCHANGED <<vars, pushVars>>
    BY <1>6 DEF pushVars, HubStep
<1> QED BY <1>1, <1>2, <1>3, <1>4, <1>5, <1>6 DEF PushNext

\* The channel starts empty.
LEMMA HubStarts == PushInit => HubInv
<1>1. <<>> \in Seq(Nat)
    OBVIOUS
<1>2. HubInit => HubTypeOK
    <2>1. [s \in Sockets |-> <<>>] \in [Sockets -> Seq(Nat)]
        BY <1>1
    <2>2. HubInit => backlog \in [Sockets -> Seq(Nat)]
        BY <2>1, Zenon DEF HubInit
    <2>3. HubInit => channel \in BOOLEAN /\ published \in Nat
        <3>1. FALSE \in BOOLEAN /\ 0 \in Nat
            OBVIOUS
        <3> QED BY <3>1, Zenon DEF HubInit
    <2>4. HubInit => forwarded \in [Sockets -> Nat]
        <3>1. [s \in Sockets |-> 0] \in [Sockets -> Nat]
            OBVIOUS
        <3> QED BY <3>1, Zenon DEF HubInit
    <2>5. HubInit => socket \in [Sockets -> {"closed", "upgrading", "open", "leaving"}]
        BY Zenon DEF HubInit
    <2> QED BY <2>2, <2>3, <2>4, <2>5 DEF HubTypeOK
<1>3. HubInit => BacklogsAreCurrent
    <2> SUFFICES ASSUME HubInit, NEW s \in Sockets PROVE socket[s] = "closed"
        BY DEF BacklogsAreCurrent
    <2> QED BY DEF HubInit
<1>4. HubInit => NumbersArePublished
    <2> SUFFICES ASSUME HubInit, NEW s \in Sockets
                 PROVE  forwarded[s] <= published /\ \A i \in 1..Len(backlog[s]) : backlog[s][i] <= published
        BY DEF NumbersArePublished
    <2>1. published = 0 /\ forwarded[s] = 0 /\ backlog[s] = <<>>
        BY DEF HubInit
    <2> QED BY <2>1
<1> QED BY <1>2, <1>3, <1>4 DEF PushInit, HubInv

\* However sockets come, lag and go, an open socket that has not forwarded the
\* last event still holds it.
THEOREM TheNewestEventIsKept == PushSpec => []NewestIsNeverLost
<1>1. PushInit => HubInv
    BY HubStarts
<1>2. HubInv /\ [PushNext]_<<vars, pushVars>> => HubInv'
    BY StepsOfTheHub, HubStepKeepsHub
<1>3. HubInv => NewestIsNeverLost
    BY DEF HubInv, HubTypeOK, BacklogsAreCurrent, NewestIsNeverLost
<1> QED BY <1>1, <1>2, <1>3, PTL DEF PushSpec
-----------------------------------------------------------------------------
(* The client, as SharedSync has it.                                       *)

\* A step that at most uses up a fault.
FaultOnly ==
    /\ UNCHANGED server /\ UNCHANGED client /\ moves' = moves
    /\ faults' = faults \/ (faults < MaxFaults /\ faults' = faults + 1)

\* Every step of PushedSync is one of SharedSync or at most uses up a fault.
LEMMA StepsOfTheClient ==
    ASSUME [PushNext]_<<vars, pushVars>>
    PROVE  Next \/ FaultOnly
<1>1. CASE CommitTold \/ CommitUntold
    BY <1>1 DEF CommitTold, CommitUntold, Next, Others
<1>2. CASE Tell
    BY <1>2 DEF Tell, FaultOnly, bounds
<1>3. CASE LoseEvent
    BY <1>3 DEF LoseEvent, FaultOnly
<1>4. CASE HangUp
    BY <1>4 DEF HangUp, FaultOnly
<1>5. ASSUME PullStarts PROVE Next
    BY <1>5 DEF PullStarts, Next
<1>6. ASSUME UNCHANGED <<server, client, bounds>> PROVE FaultOnly
    BY <1>6 DEF FaultOnly, bounds
<1>7. CASE Greet
    BY <1>5, <1>6, <1>7 DEF Greet
<1>8. CASE LockOrUnlock \/ Step
    BY <1>8 DEF LockOrUnlock, Step, Next
<1>9. ASSUME NEW s \in Sockets, Connect(s) \/ Frame(s) \/ Break(s) \/ ServerSide(s)
      PROVE  Next \/ FaultOnly
    <2>1. CASE Connect(s)
        BY <1>6, <2>1 DEF Connect
    <2>2. CASE Frame(s)
        BY <1>5, <1>6, <2>2 DEF Frame
    <2>3. CASE Break(s)
        BY <2>3 DEF Break, FaultOnly
    <2>4. CASE ServerSide(s)
        BY <1>6, <2>4 DEF ServerSide
    <2> QED BY <1>9, <2>1, <2>2, <2>3, <2>4
<1>10. ASSUME NEW p \in Pulls, ServerReads(p) \/ ServerAnswers(p) \/ Delivered(p) PROVE Next
    BY <1>10 DEF ServerReads, ServerAnswers, Delivered, Next, Pull
<1>11. CASE UNCHANGED <<vars, pushVars>>
    BY <1>6, <1>11 DEF vars
<1> QED BY <1>1, <1>2, <1>3, <1>4, <1>7, <1>8, <1>9, <1>10, <1>11 DEF PushNext

\* What SharedSync keeps, PushedSync keeps.
LEMMA ClientKeeps ==
    ASSUME TypeOK, SyncInv, [PushNext]_<<vars, pushVars>>
    PROVE  TypeOK' /\ SyncInv'
<1>1. CASE Next
    BY <1>1, NextTypes, NextKeeps
<1>2. CASE FaultOnly
    <2>1. BoundTypes'
        BY <1>2, TypesInParts, SyncAssumption DEF BoundTypes, FaultOnly
    <2>2. Parts'
        BY <1>2, <2>1, UnchangedTypes DEF client, Parts, FaultOnly
    <2>3. TypeOK'
        BY <2>2 DEF Parts, TypeOK, RowTypes, BoundTypes, LockTypes, CallTypes, JobTypes, KeyTypes, StoreTypes, MarkTypes
    <2>4. SyncInv'
        BY <1>2, UnchangedParts DEF FaultOnly, client, marks, history, SyncInv
    <2> QED BY <2>3, <2>4
<1> QED BY <1>1, <1>2, StepsOfTheClient

-----------------------------------------------------------------------------
(* Why a tab that heard everything is current.                             *)

\* The tab's socket is of the session it was opened in.
SocketIsOfTheSession == ws # NoSocket => ws \in Sockets /\ session # 0

\* A call whose collections have been read.
BeenRead(p) == pull[p] # NoPull /\ pull[p].colls # NoSnap

\* Every answer but a 404 begins with what was read of the collections.
AnswersAreWhole ==
    \A p \in Pulls : Answered(p) => (pull[p].answer = Gone <=> pull[p].colls = NoSnap)

\* The reads whose answers are on their way, the oldest first.
OrderIsOfTheReads ==
    ~overtaken =>
        /\ order \in Seq(Pulls)
        /\ \A p \in Pulls : BeenRead(p) <=> \E i \in 1..Len(order) : order[i] = p
        /\ \A i, j \in 1..Len(order) : order[i] = order[j] => i = j

\* The tab's socket is open and the pull that follows its opening was started.
Listening == ws # NoSocket /\ greeted /\ ~disabled

\* Nothing was published, or will be, that the tab has not pulled after.
HeardAll == /\ ~unseen /\ due = 0
            /\ socket[ws] \in {"upgrading", "open"}
            /\ socket[ws] = "open" => forwarded[ws] = published

\* A cycle's call is under way.
Cycling(p) == pull[p] # NoPull /\ pull[p].kind = "cycle"

\* A pass of an earlier session is followed by another: the pull that the opening
\* of the socket started, or what came of it.
OldPassIsFollowed ==
    Listening /\ job # NoJob /\ job.since # session => queue # <<>> \/ \E p \in Pulls : Cycling(p)

\* A cycle's call was told that the caller is gone: the pull will be switched off.
PurgeIsUnderway ==
    \/ \E p \in Pulls : Cycling(p) /\ pull[p].answer = Gone
    \/ \E i \in 1..Len(queue) : queue[i] = Purge

\* How far what the server would answer now has come: it is yet to be read, it
\* is the last one read and under way, the last pass in the queue, the pass that
\* runs, or what the last pass was about.
Unread == \E p \in Pulls : Cycling(p) /\ Asked(p) /\ pull[p].colls = NoSnap
InAnswers == /\ order # <<>> /\ pull[Last(order)].colls = CollectionRevisions
             /\ pull[Last(order)].answer \in {NoSnap, Revisions}
InQueue == order = <<>> /\ queue # <<>> /\ Last(queue) = Revisions
InPass == order = <<>> /\ queue = <<>> /\ job # NoJob /\ job.payload = Revisions
InMark == order = <<>> /\ queue = <<>> /\ job = NoJob /\ (outer = Revisions \/ outerFails > 0)

LatestIsUnderway == PurgeIsUnderway \/ Unread \/ InAnswers \/ InQueue \/ InPass \/ InMark

LatestIsCurrent == Listening /\ HeardAll /\ ~overtaken => LatestIsUnderway

PushInv ==
    /\ due \in Nat
    /\ SocketIsOfTheSession /\ AnswersAreWhole /\ OrderIsOfTheReads
    /\ OldPassIsFollowed /\ LatestIsCurrent

\* What the server would answer, when it changes nothing.
LEMMA SameRevisions ==
    ASSUME UNCHANGED server
    PROVE  CollectionRevisions' = CollectionRevisions /\ Revisions' = Revisions
BY DEF server, Revisions, CollectionRevisions, Readable

\* What the server would answer has the shape of a payload.
LEMMA RevisionsShape ==
    ASSUME TypeOK
    PROVE  CollectionRevisions \in Listings /\ Revisions \in Payload
<1>1. CollectionRevisions \in Listings /\ directRev \in Nat
    BY ServerShapes, TypesInParts DEF RowTypes
<1> QED BY <1>1 DEF Revisions, Payload

\* Steps that leave the tab alone: what it has heard can only become less.
LEMMA SilenceKeeps ==
    ASSUME PushInv, UNCHANGED <<client, tabVars, answers>>, due' \in Nat,
           Listening /\ HeardAll' => HeardAll /\ UNCHANGED server
    PROVE  PushInv'
<1>1. UNCHANGED <<session, disabled, pull, queue, job, outer, outerFails, ws, greeted, order, overtaken>>
    BY DEF client, lock, flags, marks, tabVars, answers
<1>2. SocketIsOfTheSession'
    BY <1>1 DEF PushInv, SocketIsOfTheSession
<1>3. AnswersAreWhole' /\ OrderIsOfTheReads'
    BY <1>1 DEF PushInv, AnswersAreWhole, OrderIsOfTheReads, Answered, BeenRead
<1>4. OldPassIsFollowed'
    BY <1>1 DEF PushInv, OldPassIsFollowed, Listening, Cycling
<1>5. LatestIsCurrent'
    <2> SUFFICES ASSUME Listening', HeardAll', ~overtaken' PROVE LatestIsUnderway'
        BY DEF LatestIsCurrent
    <2>1. LatestIsUnderway /\ UNCHANGED server
        BY <1>1 DEF PushInv, LatestIsCurrent, Listening
    <2>2. CollectionRevisions' = CollectionRevisions /\ Revisions' = Revisions
        BY <2>1, SameRevisions
    <2> QED BY <1>1, <2>1, <2>2 DEF LatestIsUnderway, PurgeIsUnderway, Unread, Cycling, Asked,
                                    InAnswers, InQueue, InPass, InMark
<1> QED BY <1>2, <1>3, <1>4, <1>5 DEF PushInv

\* Steps after which the tab does not listen.
LEMMA DeafnessKeeps ==
    ASSUME ~Listening', due' \in Nat, SocketIsOfTheSession', AnswersAreWhole', OrderIsOfTheReads'
    PROVE  PushInv'
BY DEF PushInv, OldPassIsFollowed, LatestIsCurrent

\* The rows of the calls under way.
LEMMA AskedRow ==
    ASSUME TypeOK, NEW p \in Pulls, AskRevisions(p)
    PROVE  /\ pull'[p] # NoPull /\ pull'[p].kind = "cycle"
           /\ pull'[p].colls = NoSnap /\ pull'[p].answer = NoSnap
           /\ \A q \in Pulls \ {p} : pull'[q] = pull[q]
           /\ pull[p] = NoPull
<1>1. CallTypes
    BY TypesInParts
<1>2. NewPull("cycle") \in PullRow
    BY DEF NewPull, PullRow
<1>3. pull'[p] = NewPull("cycle")
    BY <1>1 DEF AskRevisions, CallTypes
<1>4. NewPull("cycle") # NoPull
    BY <1>2, AbsenceAssumption
<1> QED BY <1>1, <1>3, <1>4 DEF AskRevisions, CallTypes, NewPull

\* A row that is answered in part or whole stays the row of its call.
LEMMA ReadRowIs ==
    ASSUME TypeOK, NEW p \in Pulls, pull[p] # NoPull,
           NEW colls \in Listings, pull' = [pull EXCEPT ![p].colls = colls]
    PROVE  /\ pull'[p] # NoPull /\ pull'[p].kind = pull[p].kind
           /\ pull'[p].colls = colls /\ pull'[p].answer = pull[p].answer
           /\ \A q \in Pulls \ {p} : pull'[q] = pull[q]
<1>1. pull[p] \in PullRow /\ pull \in [Pulls -> PullRow \cup {NoPull}]
    BY TypesInParts DEF CallTypes
<1>2. /\ pull'[p].kind = pull[p].kind /\ pull'[p].colls = colls /\ pull'[p].answer = pull[p].answer
      /\ pull'[p] \in PullRow /\ \A q \in Pulls \ {p} : pull'[q] = pull[q]
    BY <1>1 DEF PullRow
<1> QED BY <1>2, AbsenceAssumption

\* The same for its answer.
LEMMA AnswerRowIs ==
    ASSUME TypeOK, NEW p \in Pulls, pull[p] # NoPull,
           NEW answer \in Payload \cup {Gone}, pull' = [pull EXCEPT ![p].answer = answer]
    PROVE  /\ pull'[p] # NoPull /\ pull'[p].kind = pull[p].kind
           /\ pull'[p].colls = pull[p].colls /\ pull'[p].answer = answer
           /\ \A q \in Pulls \ {p} : pull'[q] = pull[q]
<1>1. pull[p] \in PullRow /\ pull \in [Pulls -> PullRow \cup {NoPull}]
    BY TypesInParts DEF CallTypes
<1>2. /\ pull'[p].kind = pull[p].kind /\ pull'[p].colls = pull[p].colls /\ pull'[p].answer = answer
      /\ pull'[p] \in PullRow /\ \A q \in Pulls \ {p} : pull'[q] = pull[q]
    BY <1>1 DEF PullRow
<1> QED BY <1>2, AbsenceAssumption

\* A read reaches the pull that asked: it finds the caller gone or the collections
\* as they are.
LEMMA ReadRow ==
    ASSUME TypeOK, NEW p \in Pulls, ReadCollections(p)
    PROVE  /\ pull'[p] # NoPull /\ pull'[p].kind = pull[p].kind
           /\ \/ pull'[p].answer = Gone /\ pull'[p].colls = NoSnap
              \/ pull'[p].answer = NoSnap /\ pull'[p].colls = CollectionRevisions
           /\ \A q \in Pulls \ {p} : pull'[q] = pull[q]
           /\ pull[p] # NoPull /\ pull[p].colls = NoSnap /\ pull[p].answer = NoSnap
<1>1. /\ pull[p] # NoPull /\ pull[p].colls = NoSnap /\ pull[p].answer = NoSnap
      /\ \/ pull' = [pull EXCEPT ![p].answer = Gone]
         \/ pull' = [pull EXCEPT ![p].colls = CollectionRevisions]
    BY DEF ReadCollections, Asked
<1>2. CollectionRevisions \in Listings
    BY RevisionsShape
<1>3. CASE pull' = [pull EXCEPT ![p].answer = Gone]
    BY <1>1, <1>3, AnswerRowIs
<1>4. CASE pull' = [pull EXCEPT ![p].colls = CollectionRevisions]
    BY <1>1, <1>2, <1>4, ReadRowIs
<1> QED BY <1>1, <1>3, <1>4

\* The answer of a call that was read says what was read and the direct cursor.
LEMMA AnsweredRow ==
    ASSUME TypeOK, NEW p \in Pulls, AnswerRevisions(p)
    PROVE  /\ pull'[p] # NoPull /\ pull'[p].kind = pull[p].kind /\ pull'[p].colls = pull[p].colls
           /\ pull'[p].answer = [colls |-> pull[p].colls, direct |-> directRev]
           /\ pull'[p].answer \in Payload
           /\ \A q \in Pulls \ {p} : pull'[q] = pull[q]
           /\ pull[p] # NoPull /\ pull[p].colls # NoSnap /\ pull[p].answer = NoSnap
<1> DEFINE answer == [colls |-> pull[p].colls, direct |-> directRev]
<1>1. /\ pull[p] # NoPull /\ pull[p].colls # NoSnap /\ pull[p].answer = NoSnap
      /\ pull' = [pull EXCEPT ![p].answer = answer]
    BY DEF AnswerRevisions, Asked
<1>2. CallTypes /\ RowTypes
    BY TypesInParts
<1>3. pull[p] \in PullRow
    BY <1>1, <1>2 DEF CallTypes
<1>4. pull[p].colls \in Listings
    BY <1>1, <1>3 DEF PullRow
<1>5. answer \in Payload
    BY <1>2, <1>4 DEF Payload, RowTypes
<1> HIDE DEF answer
<1>6. /\ pull'[p] # NoPull /\ pull'[p].kind = pull[p].kind
      /\ pull'[p].colls = pull[p].colls /\ pull'[p].answer = answer
      /\ \A q \in Pulls \ {p} : pull'[q] = pull[q]
    BY <1>1, <1>5, AnswerRowIs
<1> QED BY <1>1, <1>5, <1>6 DEF answer

\* A delivered pull is over, had been answered, and no other pull changes.
LEMMA DeliveredRow ==
    ASSUME TypeOK, NEW p \in Pulls, DeliverRevisions(p) \/ DeliverGone(p)
    PROVE  /\ pull'[p] = NoPull /\ \A q \in Pulls \ {p} : pull'[q] = pull[q]
           /\ Answered(p)
<1>1. CallTypes
    BY TypesInParts
<1> QED BY <1>1 DEF DeliverRevisions, DeliverGone, CallTypes

\* A pull that starts brings the tab up to what is there now.
LEMMA PullingKeeps ==
    ASSUME TypeOK, PushInv, PullStarts, due' \in Nat,
           UNCHANGED <<ws, session>>, UNCHANGED answers
    PROVE  PushInv'
<1>1. PICK p \in Pulls : AskRevisions(p)
    BY DEF PullStarts
<1>2. /\ pull'[p] # NoPull /\ pull'[p].kind = "cycle"
      /\ pull'[p].colls = NoSnap /\ pull'[p].answer = NoSnap
      /\ \A q \in Pulls \ {p} : pull'[q] = pull[q]
      /\ pull[p] = NoPull
    BY <1>1, AskedRow
<1>3. SocketIsOfTheSession'
    BY DEF PushInv, SocketIsOfTheSession
<1>4. AnswersAreWhole' /\ OrderIsOfTheReads'
    <2>1. \A q \in Pulls : (BeenRead(q)' <=> BeenRead(q)) /\ (Answered(q)' => Answered(q) /\ q # p)
        BY <1>2 DEF BeenRead, Answered
    <2>2. AnswersAreWhole'
        BY <1>2, <2>1 DEF PushInv, AnswersAreWhole
    <2> QED BY <2>1, <2>2 DEF PushInv, OrderIsOfTheReads, answers
<1>5. OldPassIsFollowed'
    BY <1>2 DEF OldPassIsFollowed, Cycling
<1>6. LatestIsCurrent'
    BY <1>2 DEF LatestIsCurrent, LatestIsUnderway, Unread, Cycling, Asked
<1> QED BY <1>3, <1>4, <1>5, <1>6 DEF PushInv

\* Joining and leaving a sequence without repetitions.
LEMMA JoiningTheEnd ==
    ASSUME NEW S, NEW q \in Seq(S), NEW x \in S
    PROVE  /\ Append(q, x) \in Seq(S) /\ Append(q, x) # <<>> /\ Last(Append(q, x)) = x
           /\ Len(Append(q, x)) = Len(q) + 1 /\ Append(q, x)[Len(q) + 1] = x
           /\ \A i \in 1..Len(q) : Append(q, x)[i] = q[i]
<1>1. /\ Append(q, x) \in Seq(S) /\ Len(Append(q, x)) = Len(q) + 1 /\ Append(q, x)[Len(q) + 1] = x
      /\ \A i \in 1..Len(q) : Append(q, x)[i] = q[i]
      /\ Len(q) \in Nat
    OBVIOUS
<1>2. Append(q, x) # <<>>
    BY <1>1, LongIsNotEmpty
<1> QED BY <1>1, <1>2 DEF Last

\* The server reads for a call: what it finds is as late as can be.
LEMMA ServerReadsKeeps ==
    ASSUME TypeOK, PushInv, NEW p \in Pulls, ServerReads(p)
    PROVE  PushInv'
<1>1. /\ UNCHANGED server /\ UNCHANGED <<session, disabled, queue, job, outer, outerFails>>
      /\ UNCHANGED <<ws, greeted, due, unseen, overtaken>> /\ UNCHANGED hubVars
      /\ order' = IF pull'[p].answer = Gone THEN order ELSE Append(order, p)
      /\ ReadCollections(p)
    BY DEF ServerReads, ReadCollections, lock, flags, marks, tabVars
<1>2. /\ pull'[p] # NoPull /\ pull'[p].kind = pull[p].kind
      /\ \/ pull'[p].answer = Gone /\ pull'[p].colls = NoSnap
         \/ pull'[p].answer = NoSnap /\ pull'[p].colls = CollectionRevisions
      /\ \A q \in Pulls \ {p} : pull'[q] = pull[q]
      /\ pull[p] # NoPull /\ pull[p].colls = NoSnap /\ pull[p].answer = NoSnap
    BY <1>1, ReadRow
<1>3. /\ CollectionRevisions' = CollectionRevisions /\ Revisions' = Revisions
      /\ CollectionRevisions # NoSnap /\ NoSnap # Gone
    BY <1>1, SameRevisions, RevisionsShape, AbsenceAssumption
<1>4. SocketIsOfTheSession'
    BY <1>1 DEF PushInv, SocketIsOfTheSession
<1>5. AnswersAreWhole'
    <2> SUFFICES ASSUME NEW q \in Pulls, Answered(q)'
                 PROVE  pull'[q].answer = Gone <=> pull'[q].colls = NoSnap
        BY DEF AnswersAreWhole
    <2>1. CASE q = p
        BY <1>2, <2>1 DEF Answered
    <2>2. CASE q # p
        BY <1>2, <2>2 DEF PushInv, AnswersAreWhole, Answered
    <2> QED BY <2>1, <2>2
<1>6. \A q \in Pulls \ {p} : BeenRead(q)' <=> BeenRead(q)
    BY <1>2 DEF BeenRead
<1>7. ~BeenRead(p)
    BY <1>2 DEF BeenRead
<1>8. OrderIsOfTheReads'
    <2> SUFFICES ASSUME ~overtaken
                 PROVE  /\ order' \in Seq(Pulls)
                        /\ \A q \in Pulls : BeenRead(q)' <=> \E i \in 1..Len(order') : order'[i] = q
                        /\ \A i, j \in 1..Len(order') : order'[i] = order'[j] => i = j
        BY <1>1 DEF OrderIsOfTheReads
    <2>1. /\ order \in Seq(Pulls)
          /\ \A q \in Pulls : BeenRead(q) <=> \E i \in 1..Len(order) : order[i] = q
          /\ \A i, j \in 1..Len(order) : order[i] = order[j] => i = j
        BY DEF PushInv, OrderIsOfTheReads
    <2>2. CASE pull'[p].answer = Gone
        <3>1. order' = order /\ ~BeenRead(p)'
            BY <1>1, <1>2, <1>3, <2>2 DEF BeenRead
        <3> QED BY <1>6, <1>7, <2>1, <3>1
    <2>3. CASE pull'[p].answer # Gone
        <3>1. order' = Append(order, p) /\ BeenRead(p)'
            BY <1>1, <1>2, <1>3, <2>3 DEF BeenRead
        <3>2. /\ order' \in Seq(Pulls) /\ Len(order') = Len(order) + 1 /\ order'[Len(order) + 1] = p
              /\ \A i \in 1..Len(order) : order'[i] = order[i]
              /\ Len(order) \in Nat
            BY <2>1, <3>1, JoiningTheEnd
        <3>3. \A i \in 1..Len(order) : order[i] # p
            BY <1>7, <2>1
        <3>4. \A i \in 1..Len(order') : i \in 1..Len(order) \/ i = Len(order) + 1
            BY <3>2
        <3>5. \A i, j \in 1..Len(order') : order'[i] = order'[j] => i = j
            BY <2>1, <3>2, <3>3, <3>4
        <3>6. ASSUME NEW q \in Pulls PROVE BeenRead(q)' <=> \E i \in 1..Len(order') : order'[i] = q
            <4>1. CASE q = p
                BY <3>1, <3>2, <4>1
            <4>2. CASE q # p
                <5>1. (\E i \in 1..Len(order') : order'[i] = q) <=> \E i \in 1..Len(order) : order[i] = q
                    BY <3>2, <3>4, <4>2
                <5> QED BY <1>6, <2>1, <4>2, <5>1
            <4> QED BY <4>1, <4>2
        <3> QED BY <3>2, <3>5, <3>6
    <2> QED BY <2>2, <2>3
<1>9. \A q \in Pulls : Cycling(q) => Cycling(q)'
    BY <1>2 DEF Cycling
<1>10. OldPassIsFollowed'
    BY <1>1, <1>9 DEF PushInv, OldPassIsFollowed, Listening
<1>11. LatestIsCurrent'
    <2> SUFFICES ASSUME Listening', HeardAll', ~overtaken' PROVE LatestIsUnderway'
        BY DEF LatestIsCurrent
    <2>1. CASE pull'[p].answer # Gone
        <3>1. order' # <<>> /\ Last(order') = p
            BY <1>1, <2>1, JoiningTheEnd DEF PushInv, OrderIsOfTheReads
        <3> QED BY <1>2, <1>3, <2>1, <3>1 DEF InAnswers, LatestIsUnderway
    <2>2. CASE pull'[p].answer = Gone
        <3>1. LatestIsUnderway /\ order' = order
            BY <1>1, <2>2 DEF PushInv, LatestIsCurrent, Listening, HeardAll, hubVars
        <3>2. CASE Cycling(p)
            BY <1>9, <2>2, <3>2 DEF PurgeIsUnderway, LatestIsUnderway
        <3>3. CASE ~Cycling(p)
            <4>1. PurgeIsUnderway => PurgeIsUnderway'
                BY <1>1, <1>2, <3>3 DEF PurgeIsUnderway, Cycling
            <4>2. Unread => Unread'
                BY <1>2, <3>3 DEF Unread, Cycling, Asked
            <4>3. ASSUME InAnswers PROVE InAnswers'
                <5>1. Last(order) # p
                    BY <1>2, <1>3, <4>3 DEF InAnswers
                <5>2. order \in Seq(Pulls) /\ order # <<>>
                    BY <1>1, <4>3 DEF PushInv, OrderIsOfTheReads, InAnswers
                <5>3. Len(order) \in 1..Len(order)
                    BY <5>2
                <5>4. Last(order) \in Pulls
                    BY <5>2, <5>3 DEF Last
                <5> QED BY <1>2, <1>3, <3>1, <4>3, <5>1, <5>4 DEF InAnswers
            <4> QED BY <1>1, <1>3, <3>1, <4>1, <4>2, <4>3 DEF LatestIsUnderway, InQueue, InPass, InMark
        <3> QED BY <3>2, <3>3
    <2> QED BY <2>1, <2>2
<1> QED BY <1>1, <1>4, <1>5, <1>8, <1>10, <1>11 DEF PushInv

\* The server completes the answer of a call: the order of the reads stays.
LEMMA ServerAnswersKeeps ==
    ASSUME TypeOK, PushInv, NEW p \in Pulls, ServerAnswers(p)
    PROVE  PushInv'
<1>1. /\ UNCHANGED server /\ UNCHANGED <<session, disabled, queue, job, outer, outerFails>>
      /\ UNCHANGED <<ws, greeted, due, unseen, order, overtaken>> /\ UNCHANGED hubVars
      /\ AnswerRevisions(p)
    BY DEF ServerAnswers, AnswerRevisions, lock, flags, marks, tabVars, answers, pushVars
<1>2. /\ pull'[p] # NoPull /\ pull'[p].kind = pull[p].kind /\ pull'[p].colls = pull[p].colls
      /\ pull'[p].answer = [colls |-> pull[p].colls, direct |-> directRev]
      /\ pull'[p].answer \in Payload
      /\ \A q \in Pulls \ {p} : pull'[q] = pull[q]
      /\ pull[p] # NoPull /\ pull[p].colls # NoSnap /\ pull[p].answer = NoSnap
    BY <1>1, AnsweredRow
<1>3. CollectionRevisions' = CollectionRevisions /\ Revisions' = Revisions
    BY <1>1, SameRevisions
<1>4. pull'[p].answer \notin {Gone, NoSnap} /\ NoSnap # Gone
    BY <1>2, AbsenceAssumption
<1>5. SocketIsOfTheSession'
    BY <1>1 DEF PushInv, SocketIsOfTheSession
<1>6. AnswersAreWhole'
    <2> SUFFICES ASSUME NEW q \in Pulls, Answered(q)'
                 PROVE  pull'[q].answer = Gone <=> pull'[q].colls = NoSnap
        BY DEF AnswersAreWhole
    <2>1. CASE q = p
        BY <1>2, <1>4, <2>1
    <2>2. CASE q # p
        BY <1>2, <2>2 DEF PushInv, AnswersAreWhole, Answered
    <2> QED BY <2>1, <2>2
<1>7. \A q \in Pulls : (BeenRead(q)' <=> BeenRead(q)) /\ (Cycling(q)' <=> Cycling(q))
    BY <1>2 DEF BeenRead, Cycling
<1>8. OrderIsOfTheReads'
    BY <1>1, <1>7 DEF PushInv, OrderIsOfTheReads
<1>9. OldPassIsFollowed'
    BY <1>1, <1>7 DEF PushInv, OldPassIsFollowed, Listening
<1>10. LatestIsCurrent'
    <2> SUFFICES ASSUME Listening', HeardAll', ~overtaken' PROVE LatestIsUnderway'
        BY DEF LatestIsCurrent
    <2>1. LatestIsUnderway
        BY <1>1 DEF PushInv, LatestIsCurrent, Listening, HeardAll, hubVars
    <2>2. PurgeIsUnderway => PurgeIsUnderway'
        BY <1>1, <1>2, <1>4, <1>7 DEF PurgeIsUnderway
    <2>3. Unread => Unread'
        BY <1>2, <1>7 DEF Unread, Asked
    <2>4. ASSUME InAnswers PROVE InAnswers'
        <3>1. order \in Seq(Pulls) /\ order # <<>>
            BY <1>1, <2>4 DEF PushInv, OrderIsOfTheReads, InAnswers
        <3>2. Len(order) \in 1..Len(order)
            BY <3>1
        <3>3. Last(order) \in Pulls
            BY <3>1, <3>2 DEF Last
        <3>4. CASE Last(order) = p
            BY <1>1, <1>2, <1>3, <2>4, <3>4 DEF InAnswers, Revisions
        <3>5. CASE Last(order) # p
            BY <1>1, <1>2, <1>3, <2>4, <3>3, <3>5 DEF InAnswers
        <3> QED BY <3>4, <3>5
    <2> QED BY <1>1, <1>3, <2>1, <2>2, <2>3, <2>4 DEF LatestIsUnderway, InQueue, InPass, InMark
<1> QED BY <1>1, <1>5, <1>6, <1>8, <1>9, <1>10 DEF PushInv

\* Without its first answer, the order holds the others, once each.
LEMMA LeavingTheFront ==
    ASSUME NEW S, NEW q \in Seq(S), q # <<>>, \A i, j \in 1..Len(q) : q[i] = q[j] => i = j
    PROVE  /\ Tail(q) \in Seq(S)
           /\ \A i, j \in 1..Len(Tail(q)) : Tail(q)[i] = Tail(q)[j] => i = j
           /\ \A x \in S : (\E i \in 1..Len(Tail(q)) : Tail(q)[i] = x)
                            <=> x # Head(q) /\ \E i \in 1..Len(q) : q[i] = x
           /\ Tail(q) # <<>> => Last(Tail(q)) = Last(q) /\ Last(q) # Head(q) /\ Last(q) \in S
<1>1. Len(q) \in Nat /\ Len(q) >= 1 /\ Tail(q) \in Seq(S) /\ Len(Tail(q)) = Len(q) - 1 /\ Head(q) = q[1]
    OBVIOUS
<1>2. \A i \in 1..Len(Tail(q)) : Tail(q)[i] = q[i + 1] /\ i + 1 \in 1..Len(q)
    BY <1>1
<1>3. \A i \in 1..Len(q) : i = 1 \/ (i - 1 \in 1..Len(Tail(q)) /\ Tail(q)[i - 1] = q[i])
    <2> TAKE i \in 1..Len(q)
    <2>1. ASSUME i # 1 PROVE i - 1 \in 1..Len(Tail(q)) /\ (i - 1) + 1 = i
        BY <1>1, <2>1
    <2> QED BY <1>2, <2>1
<1>4. ASSUME NEW i \in 1..Len(Tail(q)), NEW j \in 1..Len(Tail(q)), Tail(q)[i] = Tail(q)[j] PROVE i = j
    <2>1. i + 1 = j + 1
        BY <1>2, <1>4
    <2> QED BY <1>1, <2>1
<1>5. \A i \in 1..Len(Tail(q)) : Tail(q)[i] # Head(q)
    <2> SUFFICES ASSUME NEW i \in 1..Len(Tail(q)), q[i + 1] = q[1] PROVE FALSE
        BY <1>1, <1>2
    <2>1. i + 1 = 1
        BY <1>1, <1>2
    <2> QED BY <1>1, <2>1
<1>6. ASSUME NEW x \in S
      PROVE  (\E i \in 1..Len(Tail(q)) : Tail(q)[i] = x) <=> x # Head(q) /\ \E i \in 1..Len(q) : q[i] = x
    BY <1>1, <1>2, <1>3, <1>5
<1>7. ASSUME Tail(q) # <<>> PROVE Last(Tail(q)) = Last(q) /\ Last(q) # Head(q) /\ Last(q) \in S
    <2>1. Last(Tail(q)) = Last(q)
        BY <1>7, TakingKeepsTheLast
    <2>2. Len(q) > 1
        BY <1>1, <1>7
    <2>3. Last(q) = q[Len(q)] /\ Len(q) \in 1..Len(q) /\ 1 \in 1..Len(q)
        BY <1>1 DEF Last
    <2>4. Last(q) # q[1]
        BY <2>2, <2>3
    <2> QED BY <1>1, <2>1, <2>3, <2>4
<1> QED BY <1>1, <1>4, <1>6, <1>7

\* A 404 reaches the tab: unless it is the eager call's, the pull is switched off
\* or will be.
LEMMA GoneKeeps ==
    ASSUME TypeOK, PushInv, NEW p \in Pulls, Delivered(p), DeliverGone(p), UNCHANGED answers
    PROVE  PushInv'
<1>1. /\ UNCHANGED server /\ UNCHANGED <<session, job, outer, outerFails>>
      /\ UNCHANGED <<ws, greeted, due, unseen, order, overtaken>> /\ UNCHANGED hubVars
      /\ pull[p].answer = Gone
      /\ \/ pull[p].kind = "eager" /\ UNCHANGED <<queue, disabled>>
         \/ queue' = Append(queue, Purge) /\ UNCHANGED disabled
         \/ disabled'
    BY DEF Delivered, DeliverGone, lock, marks, tabVars, answers
<1>2. /\ pull'[p] = NoPull /\ \A q \in Pulls \ {p} : pull'[q] = pull[q]
      /\ Answered(p) /\ CallTypes
    BY DeliveredRow, TypesInParts
<1>3. SocketIsOfTheSession'
    BY <1>1 DEF PushInv, SocketIsOfTheSession
<1>4. \A q \in Pulls : (BeenRead(q)' <=> BeenRead(q)) /\ (Answered(q)' => Answered(q) /\ q # p)
    BY <1>1, <1>2 DEF PushInv, AnswersAreWhole, BeenRead, Answered
<1>5. AnswersAreWhole'
    BY <1>2, <1>4 DEF PushInv, AnswersAreWhole
<1>6. OrderIsOfTheReads'
    BY <1>1, <1>4 DEF PushInv, OrderIsOfTheReads
<1>7. CASE disabled'
    <2>1. ~Listening' /\ due' \in Nat
        BY <1>1, <1>7 DEF PushInv, Listening
    <2> QED BY <1>3, <1>5, <1>6, <2>1, DeafnessKeeps
<1>8. CASE queue' = Append(queue, Purge)
    <2>1. /\ queue' # <<>> /\ queue'[Len(queue) + 1] = Purge /\ Len(queue') = Len(queue) + 1
          /\ Len(queue) \in Nat
        BY <1>2, <1>8, JoiningTheEnd DEF CallTypes
    <2>2. Len(queue) + 1 \in 1..Len(queue')
        BY <2>1
    <2>3. PurgeIsUnderway'
        BY <2>1, <2>2 DEF PurgeIsUnderway
    <2>4. OldPassIsFollowed' /\ LatestIsCurrent'
        BY <2>1, <2>3 DEF OldPassIsFollowed, LatestIsCurrent, LatestIsUnderway
    <2> QED BY <1>1, <1>3, <1>5, <1>6, <2>4 DEF PushInv
<1>9. CASE pull[p].kind = "eager" /\ UNCHANGED <<queue, disabled>>
    <2>1. \A q \in Pulls : Cycling(q)' <=> Cycling(q)
        BY <1>2, <1>9 DEF Cycling
    <2>2. OldPassIsFollowed'
        BY <1>1, <1>9, <2>1 DEF PushInv, OldPassIsFollowed, Listening
    <2>3. LatestIsCurrent'
        <3> SUFFICES ASSUME Listening', HeardAll', ~overtaken' PROVE LatestIsUnderway'
            BY DEF LatestIsCurrent
        <3>1. LatestIsUnderway
            BY <1>1, <1>9 DEF PushInv, LatestIsCurrent, Listening, HeardAll, hubVars
        <3>2. CollectionRevisions' = CollectionRevisions /\ Revisions' = Revisions
            BY <1>1, SameRevisions
        <3>3. PurgeIsUnderway => PurgeIsUnderway'
            BY <1>2, <1>9, <2>1 DEF PurgeIsUnderway, Cycling
        <3>4. Unread => Unread'
            BY <1>2, <1>9, <2>1 DEF Unread, Asked, Cycling
        <3>5. ASSUME InAnswers PROVE InAnswers'
            <4>1. /\ order \in Seq(Pulls) /\ order # <<>>
                  /\ \A q \in Pulls : BeenRead(q) <=> \E i \in 1..Len(order) : order[i] = q
                BY <1>1, <3>5 DEF PushInv, OrderIsOfTheReads, InAnswers
            <4>2. Len(order) \in 1..Len(order)
                BY <4>1
            <4>3. Last(order) \in Pulls /\ BeenRead(Last(order))
                BY <4>1, <4>2 DEF Last
            <4>4. Last(order) # p
                BY <1>1, <1>2, <4>3 DEF PushInv, AnswersAreWhole, BeenRead
            <4> QED BY <1>1, <1>2, <3>2, <3>5, <4>3, <4>4 DEF InAnswers
        <3> QED BY <1>1, <1>9, <3>1, <3>2, <3>3, <3>4, <3>5 DEF LatestIsUnderway, InQueue, InPass, InMark
    <2> QED BY <1>1, <1>3, <1>5, <1>6, <2>2, <2>3 DEF PushInv
<1> QED BY <1>1, <1>7, <1>8, <1>9

\* An answer reaches the tab: it is the last pass in the queue now.
LEMMA PayloadKeeps ==
    ASSUME TypeOK, PushInv, NEW p \in Pulls, Delivered(p), DeliverRevisions(p),
           order' = Tail(order), overtaken' = (overtaken \/ Head(order) # p)
    PROVE  PushInv'
<1>1. /\ UNCHANGED server /\ UNCHANGED <<session, disabled, job, outer, outerFails>>
      /\ UNCHANGED <<ws, greeted, due, unseen>> /\ UNCHANGED hubVars
      /\ pull[p].answer # Gone
      /\ queue' = IF session = 0 THEN queue ELSE Append(queue, pull[p].answer)
    BY DEF Delivered, DeliverRevisions, lock, marks, tabVars
<1>2. /\ pull'[p] = NoPull /\ \A q \in Pulls \ {p} : pull'[q] = pull[q]
      /\ Answered(p) /\ CallTypes
    BY DeliveredRow, TypesInParts
<1>3. pull[p].answer \in Payload /\ BeenRead(p)
    BY <1>1, <1>2 DEF CallTypes, PullRow, PushInv, AnswersAreWhole, Answered, BeenRead
<1>4. SocketIsOfTheSession'
    BY <1>1 DEF PushInv, SocketIsOfTheSession
<1>5. AnswersAreWhole'
    BY <1>2 DEF PushInv, AnswersAreWhole, Answered
<1>6. ASSUME ~overtaken'
      PROVE  /\ ~overtaken /\ order \in Seq(Pulls) /\ order # <<>> /\ Head(order) = p
             /\ \A q \in Pulls : BeenRead(q) <=> \E i \in 1..Len(order) : order[i] = q
             /\ \A i, j \in 1..Len(order) : order[i] = order[j] => i = j
    <2>1. ~overtaken /\ Head(order) = p
        BY <1>6
    <2>2. /\ order \in Seq(Pulls)
          /\ \A q \in Pulls : BeenRead(q) <=> \E i \in 1..Len(order) : order[i] = q
          /\ \A i, j \in 1..Len(order) : order[i] = order[j] => i = j
        BY <2>1 DEF PushInv, OrderIsOfTheReads
    <2>3. order # <<>>
        BY <1>3, <2>2
    <2> QED BY <2>1, <2>2, <2>3
<1>7. ASSUME ~overtaken'
      PROVE  /\ order' \in Seq(Pulls)
             /\ \A i, j \in 1..Len(order') : order'[i] = order'[j] => i = j
             /\ \A q \in Pulls : (\E i \in 1..Len(order') : order'[i] = q)
                                  <=> q # p /\ \E i \in 1..Len(order) : order[i] = q
             /\ order' # <<>> => Last(order') = Last(order) /\ Last(order) # p /\ Last(order) \in Pulls
    BY <1>6, <1>7, LeavingTheFront
<1>8. OrderIsOfTheReads'
    <2>1. \A q \in Pulls : BeenRead(q)' <=> q # p /\ BeenRead(q)
        BY <1>2 DEF BeenRead
    <2> QED BY <1>6, <1>7, <2>1 DEF OrderIsOfTheReads
<1>9. \A x \in Payload \cup {Purge} :
         /\ Append(queue, x) # <<>> /\ Last(Append(queue, x)) = x
         /\ Len(Append(queue, x)) = Len(queue) + 1
         /\ \A i \in 1..Len(queue) : Append(queue, x)[i] = queue[i]
    BY <1>2, JoiningTheEnd DEF CallTypes
<1>10. ASSUME Listening' PROVE session # 0 /\ Listening /\ queue' = Append(queue, pull[p].answer)
    BY <1>1, <1>10 DEF PushInv, SocketIsOfTheSession, Listening
<1>11. OldPassIsFollowed'
    BY <1>3, <1>9, <1>10 DEF OldPassIsFollowed
<1>12. LatestIsCurrent'
    <2> SUFFICES ASSUME Listening', HeardAll', ~overtaken' PROVE LatestIsUnderway'
        BY DEF LatestIsCurrent
    <2>1. LatestIsUnderway
        BY <1>1, <1>6, <1>10 DEF PushInv, LatestIsCurrent, HeardAll, hubVars
    <2>2. CollectionRevisions' = CollectionRevisions /\ Revisions' = Revisions
        BY <1>1, SameRevisions
    <2>3. ASSUME PurgeIsUnderway PROVE PurgeIsUnderway'
        <3>1. CASE \E i \in 1..Len(queue) : queue[i] = Purge
            <4>1. PICK i \in 1..Len(queue) : queue[i] = Purge
                BY <3>1
            <4>2. Len(queue) \in Nat
                BY <1>2 DEF CallTypes
            <4>3. i \in 1..Len(queue') /\ queue'[i] = Purge
                BY <1>3, <1>9, <1>10, <4>1, <4>2
            <4> QED BY <4>3 DEF PurgeIsUnderway
        <3>2. CASE \E q \in Pulls : Cycling(q) /\ pull[q].answer = Gone
            BY <1>1, <1>2, <3>2 DEF PurgeIsUnderway, Cycling
        <3> QED BY <2>3, <3>1, <3>2 DEF PurgeIsUnderway
    <2>4. ASSUME Unread PROVE Unread'
        <3>1. PICK q \in Pulls : Cycling(q) /\ Asked(q) /\ pull[q].colls = NoSnap
            BY <2>4 DEF Unread
        <3>2. q # p
            BY <1>3, <3>1 DEF BeenRead
        <3> QED BY <1>2, <3>1, <3>2 DEF Unread, Asked, Cycling
    <2>5. ASSUME InAnswers PROVE InAnswers' \/ InQueue'
        <3>1. CASE order' # <<>>
            BY <1>2, <1>7, <2>2, <2>5, <3>1 DEF InAnswers
        <3>2. CASE order' = <<>>
            <4>1. Last(order) = p
                BY <1>6, <3>2, TakingKeepsTheLast
            <4>2. pull[p].answer = Revisions
                BY <1>2, <2>5, <4>1 DEF InAnswers, Answered
            <4> QED BY <1>3, <1>9, <1>10, <2>2, <3>2, <4>2 DEF InQueue
        <3> QED BY <3>1, <3>2
    <2>6. ~InQueue /\ ~InPass /\ ~InMark
        BY <1>6 DEF InQueue, InPass, InMark
    <2> QED BY <2>1, <2>3, <2>4, <2>5, <2>6 DEF LatestIsUnderway
<1> QED BY <1>1, <1>4, <1>5, <1>8, <1>11, <1>12 DEF PushInv

\* A pass that runs goes on with its payload, is dropped because the vault was
\* locked meanwhile, or ends with its payload marked or a failure counted.
PassMoves ==
    \/ /\ job' # NoJob /\ job'.payload = job.payload /\ job'.since = job.since
       /\ UNCHANGED marks
    \/ job' = NoJob /\ UNCHANGED marks /\ (session = 0 \/ session # job.uk)
    \/ job' = NoJob /\ (outer' = job.payload \/ outerFails' > 0)

\* A pass that finishes leaves its payload as the outer mark or counts a
\* failure.
LEMMA FinishMoves ==
    ASSUME TypeOK, NEW payload, NEW failed \in BOOLEAN, Finish(payload, failed)
    PROVE  job' = NoJob /\ (outer' = payload \/ outerFails' > 0)
<1>1. outerFails \in Nat
    BY TypesInParts DEF MarkTypes
<1> QED BY <1>1 DEF Finish

\* A pass that goes on stays of its payload and session, or is dropped, or
\* finishes.
LEMMA ProceedMoves ==
    ASSUME TypeOK, job # NoJob, NEW failed \in BOOLEAN, Proceed(failed), JobTypes'
    PROVE  PassMoves
<1>1. job \in JobRow
    BY TypesInParts DEF JobTypes
<1>2. job.payload \in Payload /\ job.since \in Handles
    BY <1>1, JobFields
<1>3. CASE session = 0 /\ Drop
    BY <1>3 DEF Drop, PassMoves
<1>4. ASSUME NEW stage \in {"collection", "direct"}, NEW todo \in SUBSET Collections, NEW coll \in Collections \cup {NoSnap},
             session # 0, UNCHANGED marks, job' = Asking(stage, todo, coll, failed)
      PROVE  PassMoves
    <2>1. session \in Handles
        BY <1>4, TypesInParts DEF LockTypes
    <2>2. job' \in JobRow /\ job'.payload = job.payload /\ job'.since = job.since
        BY <1>2, <1>4, <2>1 DEF Asking, JobRow
    <2>3. job' # NoJob
        BY <2>2, AbsenceAssumption
    <2> QED BY <1>4, <2>2, <2>3 DEF PassMoves
<1>5. CASE Finish(job.payload, failed)
    BY <1>5, FinishMoves DEF PassMoves
<1>6. \A c \in Left : c \in Collections /\ Left \ {c} \in SUBSET Collections
    BY <1>1, JobFields DEF Left
<1> QED BY <1>1, <1>3, <1>4, <1>5, <1>6, ProceedOutcomes

\* A pass that is answered stays of its payload and session.
LEMMA AnswerMoves ==
    ASSUME TypeOK, NEW stage \in {"listing", "collection", "direct"}, NEW answer,
           Waiting(stage), job' = [job EXCEPT !.answer = answer], job' \in JobRow, UNCHANGED marks
    PROVE  PassMoves
<1>1. job \in JobRow
    BY TypesInParts DEF JobTypes, Waiting
<1>2. job' # NoJob /\ job'.payload = job.payload /\ job'.since = job.since
    BY <1>1, AbsenceAssumption DEF JobRow
<1> QED BY <1>2 DEF PassMoves

\* Every step of the pass that runs is one of these.
LEMMA PassStepsMove ==
    ASSUME TypeOK, TypeOK', job # NoJob, Pass \/ Faults
    PROVE  PassMoves /\ UNCHANGED <<server, lock, flags, pull, queue>>
<1>1. JobTypes /\ JobTypes'
    BY TypesInParts DEF TypeOK, JobTypes
<1>2. job \in JobRow /\ (job' # NoJob => job' \in JobRow)
    BY <1>1 DEF JobTypes
<1>3. job.failed \in BOOLEAN
    BY <1>2, JobFields
<1>4. ~StartPurge /\ ~StartPass
    BY DEF StartPurge, StartPass
<1>5. ASSUME NEW stage \in {"listing", "collection", "direct"}, NEW answer \in Listings \cup CollectionAnswer \cup DirectAnswer \cup NoAnswer,
             Waiting(stage), job' = [job EXCEPT !.answer = answer], UNCHANGED marks
      PROVE  PassMoves
    <2>1. job' \in JobRow
        BY <1>2, <1>5 DEF JobRow
    <2> QED BY <1>5, <2>1, AnswerMoves
<1>6. ASSUME AnswerListing \/ RefuseCollection PROVE PassMoves /\ UNCHANGED <<server, lock, flags, pull, queue>>
    <2>1. Listed \subseteq Listings \cup NoAnswer
        BY ServerShapes, TypesInParts
    <2> QED BY <1>5, <1>6, <2>1 DEF AnswerListing, RefuseCollection, Answer
<1>7. ASSUME AnswerCollection PROVE PassMoves /\ UNCHANGED <<server, lock, flags, pull, queue>>
    <2> DEFINE answer == [rev |-> job.read, rows |-> Rows(job.coll), epoch |-> epoch[job.coll]]
    <2>1. job.coll \in Collections /\ job.read \in Nat
        BY <1>1, <1>2, <1>7 DEF AnswerCollection, Answer, Waiting, JobTypes, JobRow
    <2>2. RowTypes /\ Rows(job.coll) \in Content
        BY <2>1, ServerShapes, TypesInParts
    <2>3. answer \in CollectionAnswer
        BY <2>1, <2>2 DEF RowTypes, CollectionAnswer
    <2>4. Answer("collection", answer)
        BY <1>7 DEF AnswerCollection
    <2> HIDE DEF answer
    <2> QED BY <1>5, <2>3, <2>4 DEF Answer
<1>8. ASSUME AnswerDirect PROVE PassMoves /\ UNCHANGED <<server, lock, flags, pull, queue>>
    <2> DEFINE answer == [rev |-> job.read, rows |-> DirectRows]
    <2>1. DirectRows \in Content /\ job.read \in Nat
        BY <1>2, <1>8, ServerShapes, TypesInParts DEF AnswerDirect, JobRow
    <2>2. answer \in DirectAnswer
        BY <2>1 DEF DirectAnswer
    <2>3. Answer("direct", answer)
        BY <1>8 DEF AnswerDirect
    <2> HIDE DEF answer
    <2> QED BY <1>5, <2>2, <2>3 DEF Answer
<1>14. ASSUME ReadCollection \/ ReadDirect PROVE PassMoves /\ UNCHANGED <<server, lock, flags, pull, queue>>
    <2>1. PICK cursor \in Nat : job' = [job EXCEPT !.read = cursor]
        <3>1. RowTypes
            BY TypesInParts
        <3>2. CASE ReadDirect
            BY <3>1, <3>2 DEF ReadDirect, Read, RowTypes
        <3>3. CASE ReadCollection
            <4>1. job.coll \in Collections
                BY <3>1, <3>3 DEF ReadCollection, Readable, RowTypes
            <4>2. rev[job.coll] \in Nat
                BY <3>1, <4>1 DEF RowTypes
            <4> QED BY <3>3, <4>2 DEF ReadCollection, Read
        <3> QED BY <1>14, <3>2, <3>3
    <2>2. UNCHANGED marks /\ UNCHANGED <<server, lock, flags, pull, queue>>
        BY <1>14 DEF ReadCollection, ReadDirect, Read
    <2>3. job' \in JobRow /\ job'.payload = job.payload /\ job'.since = job.since
        BY <1>2, <2>1 DEF JobRow
    <2> QED BY <2>2, <2>3, AbsenceAssumption DEF PassMoves
<1>9. ASSUME NEW stage \in {"listing", "collection", "direct"}, Fail(stage)
      PROVE  PassMoves /\ UNCHANGED <<server, lock, flags, pull, queue>>
    BY <1>5, <1>9 DEF Fail
<1>10. ASSUME DeliverListing PROVE PassMoves /\ UNCHANGED <<server, lock, flags, pull, queue>>
    <2>1. UNCHANGED <<server, lock, flags, pull, queue>>
        BY <1>10 DEF DeliverListing
    <2>2. CASE session = 0
        BY <1>10, <2>2 DEF DeliverListing, Drop, PassMoves
    <2>3. CASE session # 0
        BY <1>1, <1>10, <2>3, ProceedMoves DEF DeliverListing
    <2> QED BY <2>1, <2>2, <2>3
<1>11. ASSUME DeliverCollection PROVE PassMoves /\ UNCHANGED <<server, lock, flags, pull, queue>>
    <2>1. UNCHANGED <<server, lock, flags, pull, queue>>
        BY <1>11 DEF DeliverCollection
    <2>2. CASE job.answer = Failed
        BY <1>1, <1>11, <2>2, ProceedMoves DEF DeliverCollection
    <2>3. CASE job.answer # Failed /\ session # job.uk
        BY <1>11, <2>3 DEF DeliverCollection, Drop, PassMoves
    <2>4. CASE job.answer # Failed /\ session = job.uk
        <3>1. (job.failed \/ keys[job.coll] # job.answer.epoch) \in BOOLEAN
            BY <1>3
        <3>2. \E failed \in BOOLEAN : Proceed(failed)
            BY <1>11, <2>4, <3>1 DEF DeliverCollection
        <3> QED BY <1>1, <2>1, <3>2, ProceedMoves
    <2> QED BY <2>1, <2>2, <2>3, <2>4
<1>12. ASSUME DeliverDirect PROVE PassMoves /\ UNCHANGED <<server, lock, flags, pull, queue>>
    <2>1. UNCHANGED <<server, lock, flags, pull, queue>>
        BY <1>12 DEF DeliverDirect
    <2>2. CASE job.answer = Failed \/ session = 0
        <3>1. (job.failed \/ job.answer = Failed) \in BOOLEAN
            BY <1>3
        <3>2. \E failed \in BOOLEAN : Finish(job.payload, failed)
            BY <1>12, <2>2, <3>1 DEF DeliverDirect
        <3> QED BY <2>1, <3>2, FinishMoves DEF PassMoves
    <2>3. CASE job.answer # Failed /\ session # 0
        <3>1. job' = [job EXCEPT !.stage = "identity", !.uk = session] /\ UNCHANGED marks
            BY <1>12, <2>3 DEF DeliverDirect
        <3>2. session \in Handles
            BY <2>3, TypesInParts DEF LockTypes
        <3>3. job' \in JobRow /\ job'.payload = job.payload /\ job'.since = job.since
            BY <1>2, <3>1, <3>2 DEF JobRow
        <3>4. job' # NoJob
            BY <3>3, AbsenceAssumption
        <3> QED BY <2>1, <3>1, <3>3, <3>4 DEF PassMoves
    <2> QED BY <2>1, <2>2, <2>3
<1>13. ASSUME NEW ok \in BOOLEAN, MergeDirect(ok) PROVE PassMoves /\ UNCHANGED <<server, lock, flags, pull, queue>>
    <2>1. UNCHANGED <<server, lock, flags, pull, queue>>
        BY <1>13 DEF MergeDirect
    <2>2. \E failed \in BOOLEAN : Finish(job.payload, failed)
        <3>1. CASE session # job.uk
            BY <1>13, <3>1 DEF MergeDirect
        <3>2. CASE session = job.uk
            <4>1. Finish(job.payload, job.failed \/ ~ok) /\ (job.failed \/ ~ok) \in BOOLEAN
                BY <1>3, <1>13, <3>2 DEF MergeDirect
            <4> QED BY <4>1
        <3> QED BY <3>1, <3>2
    <2> QED BY <2>1, <2>2, FinishMoves DEF PassMoves
<1> QED BY <1>4, <1>6, <1>7, <1>8, <1>9, <1>10, <1>11, <1>12, <1>13, <1>14 DEF Pass, Faults

\* The refresher, the passes and their failures.
LEMMA StepKeeps ==
    ASSUME TypeOK, TypeOK', SyncInv, PushInv, Step
    PROVE  PushInv'
<1>1. UNCHANGED <<ws, greeted, due, unseen, order, overtaken>> /\ UNCHANGED hubVars
    BY DEF Step, pushVars, tabVars, answers
<1>2. CallTypes /\ JobTypes
    BY TypesInParts
<1>3. UNCHANGED <<server, session, pull>>
    BY DEF Step, Refresher, RefresherLists, RefresherCaches, Pass, StartPurge, StartPass, AnswerListing,
           ReadCollection, RefuseCollection, ReadDirect, Read, AnswerCollection, AnswerDirect, Answer,
           DeliverListing, DeliverCollection, DeliverDirect, MergeDirect, Faults, Fail, lock
<1>4. SocketIsOfTheSession' /\ AnswersAreWhole' /\ OrderIsOfTheReads'
    BY <1>1, <1>3 DEF PushInv, SocketIsOfTheSession, AnswersAreWhole, OrderIsOfTheReads, Answered, BeenRead
<1>5. CollectionRevisions' = CollectionRevisions /\ Revisions' = Revisions
    BY <1>3, SameRevisions
<1>6. /\ Unread => Unread'
      /\ InAnswers => InAnswers'
      /\ \A p \in Pulls : Cycling(p) => Cycling(p)'
    BY <1>1, <1>3, <1>5 DEF Unread, Asked, InAnswers, Cycling
<1>7. \/ disabled'
      \/ UNCHANGED <<disabled, queue, job, outer, outerFails>>
      \/ UNCHANGED disabled /\ StartPass
      \/ job # NoJob /\ PassMoves /\ UNCHANGED <<disabled, queue>>
    <2>1. CASE Refresher
        BY <2>1 DEF Refresher, RefresherLists, RefresherCaches, flags, marks
    <2>2. CASE StartPurge
        BY <2>2 DEF StartPurge
    <2>3. CASE StartPass
        BY <2>3 DEF StartPass, flags
    <2>4. CASE (Pass \/ Faults) /\ job # NoJob
        BY <2>4, PassStepsMove DEF flags
    <2>5. (Pass \/ Faults) /\ job = NoJob => StartPurge \/ StartPass
        BY DEF Pass, Faults, AnswerListing, ReadCollection, RefuseCollection, ReadDirect, Read, AnswerCollection,
               AnswerDirect, Answer, Fail, DeliverListing, DeliverCollection, DeliverDirect, MergeDirect,
               Waiting, Arrived
    <2> QED BY <2>1, <2>2, <2>3, <2>4, <2>5 DEF Step
<1>8. ASSUME StartPass
      PROVE  /\ job = NoJob /\ queue # <<>> /\ Head(queue) # Purge /\ queue' = Tail(queue)
             /\ UNCHANGED <<outer, outerFails>>
             /\ \/ outer = Head(queue) /\ job' = NoJob
                \/ session = 0
                \/ job' # NoJob /\ job'.payload = Head(queue) /\ job'.since = session
    <2>1. /\ job = NoJob /\ queue # <<>> /\ Head(queue) # Purge /\ queue' = Tail(queue)
          /\ UNCHANGED <<outer, outerFails>>
        BY <1>8 DEF StartPass
    <2>2. CASE outer = Head(queue)
        BY <1>8, <2>1, <2>2 DEF StartPass
    <2>3. CASE outer # Head(queue) /\ session # 0
        <3>1. job' = [stage |-> "listing", uk |-> session, since |-> session, payload |-> Head(queue),
                            todo |-> {c \in Collections : Head(queue).colls[c] # 0},
                            coll |-> NoSnap, read |-> NoSnap, answer |-> NoSnap, failed |-> FALSE]
            BY <1>8, <2>3 DEF StartPass
        <3>2. Head(queue) \in Payload
            BY <1>2, <2>1, QueueShapes
        <3>3. session \in Handles
            BY <2>3, TypesInParts DEF LockTypes
        <3>4. job' \in JobRow
            BY <3>1, <3>2, <3>3 DEF JobRow
        <3>5. job' # NoJob
            BY <3>4, AbsenceAssumption
        <3> QED BY <2>1, <3>1, <3>5
    <2> QED BY <2>1, <2>2, <2>3
<1>9. OldPassIsFollowed'
    <2> SUFFICES ASSUME Listening', job' # NoJob, job'.since # session
                 PROVE  queue' # <<>> \/ \E p \in Pulls : Cycling(p)'
        BY <1>3 DEF OldPassIsFollowed
    <2>1. ~disabled' /\ session # 0
        BY <1>1, <1>3 DEF PushInv, SocketIsOfTheSession, Listening
    <2>2. /\ job # NoJob /\ job.since # session /\ UNCHANGED <<disabled, queue>>
        <3>1. ~StartPass
            BY <1>8, <2>1
        <3> QED BY <1>7, <2>1, <3>1 DEF PassMoves
    <2>3. queue # <<>> \/ \E p \in Pulls : Cycling(p)
        BY <1>1, <2>2 DEF PushInv, OldPassIsFollowed, Listening
    <2> QED BY <1>6, <2>2, <2>3
<1>10. ASSUME PurgeIsUnderway, ~disabled' PROVE PurgeIsUnderway'
    <2>1. CASE \E p \in Pulls : Cycling(p) /\ pull[p].answer = Gone
        BY <1>3, <1>6, <2>1 DEF PurgeIsUnderway
    <2>2. CASE UNCHANGED queue
        BY <1>3, <1>6, <1>10, <2>2 DEF PurgeIsUnderway
    <2>3. CASE StartPass /\ \E i \in 1..Len(queue) : queue[i] = Purge
        <3>1. PICK i \in 1..Len(queue) : queue[i] = Purge
            BY <2>3
        <3>2. queue \in Seq(Payload \cup {Purge}) /\ queue # <<>> /\ Head(queue) # Purge /\ queue' = Tail(queue)
            BY <1>2, <1>8, <2>3 DEF CallTypes
        <3>3. Len(queue) \in Nat /\ Len(Tail(queue)) = Len(queue) - 1 /\ Head(queue) = queue[1]
            BY <3>2
        <3>4. i # 1
            BY <3>1, <3>2, <3>3
        <3>5. i - 1 \in 1..Len(Tail(queue))
            BY <3>3, <3>4
        <3>6. Tail(queue)[i - 1] = queue[i]
            BY <3>2, <3>3, <3>5
        <3> QED BY <3>1, <3>2, <3>5, <3>6 DEF PurgeIsUnderway
    <2> QED BY <1>7, <1>10, <2>1, <2>2, <2>3 DEF PurgeIsUnderway
<1>11. LatestIsCurrent'
    <2> SUFFICES ASSUME Listening', HeardAll', ~overtaken PROVE LatestIsUnderway'
        BY <1>1 DEF LatestIsCurrent
    <2>1. UNCHANGED disabled /\ ~disabled' /\ session # 0
        BY <1>1, <1>3, <1>7 DEF PushInv, SocketIsOfTheSession, Listening
    <2>2. LatestIsUnderway
        BY <1>1, <2>1 DEF PushInv, LatestIsCurrent, Listening, HeardAll, hubVars
    <2>3. CASE PurgeIsUnderway \/ Unread \/ InAnswers
        BY <1>6, <1>10, <2>1, <2>3 DEF LatestIsUnderway
    <2>4. CASE UNCHANGED <<queue, job, outer, outerFails>>
        BY <1>1, <1>5, <2>2, <2>3, <2>4 DEF LatestIsUnderway, InQueue, InPass, InMark
    <2>5. CASE StartPass /\ (InQueue \/ InPass \/ InMark)
        <3>1. InQueue /\ order = <<>> /\ queue # <<>> /\ Last(queue) = Revisions
            BY <1>8, <2>5 DEF InQueue, InPass, InMark
        <3>2. queue \in Seq(Payload \cup {Purge})
            BY <1>2 DEF CallTypes
        <3>3. CASE Tail(queue) # <<>>
            <4>1. Last(Tail(queue)) = Last(queue)
                BY <3>1, <3>2, <3>3, TakingKeepsTheLast
            <4>2. InQueue'
                BY <1>1, <1>5, <1>8, <2>5, <3>1, <3>3, <4>1 DEF InQueue
            <4> QED BY <4>2 DEF LatestIsUnderway
        <3>4. CASE Tail(queue) = <<>>
            <4>1. Head(queue) = Revisions
                BY <3>1, <3>2, <3>4, TakingKeepsTheLast
            <4>2. order' = <<>> /\ queue' = <<>>
                BY <1>1, <1>8, <2>5, <3>1, <3>4
            <4>3. InPass' \/ InMark'
                BY <1>5, <1>8, <2>1, <2>5, <4>1, <4>2 DEF InPass, InMark
            <4> QED BY <4>3 DEF LatestIsUnderway
        <3> QED BY <3>3, <3>4
    <2>6. CASE job # NoJob /\ PassMoves /\ UNCHANGED queue /\ (InQueue \/ InPass \/ InMark)
        <3>1. CASE InQueue
            BY <1>1, <1>5, <2>6, <3>1 DEF InQueue, LatestIsUnderway
        <3>2. CASE InPass
            <4>1. order' = <<>> /\ queue' = <<>> /\ job.payload = Revisions
                BY <1>1, <2>6, <3>2 DEF InPass
            <4>2. CASE job' # NoJob /\ job'.payload = job.payload
                BY <1>5, <4>1, <4>2 DEF InPass, LatestIsUnderway
            <4>3. CASE job' = NoJob /\ (outer' = job.payload \/ outerFails' > 0)
                BY <1>5, <4>1, <4>3 DEF InMark, LatestIsUnderway
            <4>4. ASSUME session # job.uk PROVE PurgeIsUnderway \/ Unread
                <5>1. job.since # session
                    <6>1. job \in JobRow
                        BY <1>2, <2>6 DEF JobTypes
                    <6>2. job.since \in Nat /\ job.uk \in Nat
                        BY <6>1, JobFields
                    <6>3. session = sessions /\ sessions \in Nat
                        BY <2>1, TypesInParts, SyncAssumption DEF LockTypes
                    <6>4. job.since <= job.uk /\ job.uk <= sessions
                        BY <2>6 DEF SyncInv, SessionsAreCounted
                    <6> QED BY <4>4, <6>2, <6>3, <6>4
                <5>2. PICK p \in Pulls : Cycling(p)
                    BY <1>1, <2>1, <2>6, <3>2, <5>1 DEF PushInv, OldPassIsFollowed, Listening, InPass
                <5>3. ~BeenRead(p)
                    <6>1. \A i \in 1..Len(order) : FALSE
                        BY <3>2 DEF InPass
                    <6> QED BY <6>1 DEF PushInv, OrderIsOfTheReads
                <5>4. pull[p].colls = NoSnap /\ (pull[p].answer # NoSnap => pull[p].answer = Gone)
                    BY <5>2, <5>3 DEF PushInv, AnswersAreWhole, Answered, BeenRead, Cycling
                <5> QED BY <5>2, <5>4 DEF PurgeIsUnderway, Unread, Asked, Cycling
            <4> QED BY <2>1, <2>3, <2>6, <4>2, <4>3, <4>4 DEF PassMoves
        <3>3. ~InMark
            BY <2>6 DEF InMark
        <3> QED BY <2>6, <3>1, <3>2, <3>3
    <2> QED BY <1>7, <2>1, <2>2, <2>3, <2>4, <2>5, <2>6 DEF LatestIsUnderway
<1> QED BY <1>1, <1>4, <1>9, <1>11 DEF PushInv

\* A change, its frames and the server's end of the sockets.
LEMMA CommitsKeep ==
    ASSUME PushInv, CommitTold \/ CommitUntold \/ LoseEvent
    PROVE  PushInv'
<1>1. UNCHANGED client /\ UNCHANGED tabVars /\ UNCHANGED answers
    BY DEF CommitTold, CommitUntold, LoseEvent, EditItem, Rekey, Cascade, Grant, Revoke, ShareDirect,
           ChangeShare, OwnerMoves, Leave, Dissolve, Join, SetStatus, CountStatus, Moved
<1>2. due \in Nat
    BY DEF PushInv
<1>3. CASE CommitTold
    <2>1. due' = due + 1 /\ due' # 0 /\ due' \in Nat
        BY <1>2, <1>3 DEF CommitTold
    <2>2. ~HeardAll'
        BY <2>1 DEF HeardAll
    <2> QED BY <1>1, <2>1, <2>2, SilenceKeeps
<1>4. CASE CommitUntold \/ LoseEvent
    <2>1. unseen' = TRUE
        BY <1>4 DEF CommitUntold, LoseEvent
    <2>2. due' \in Nat
        BY <1>2, <1>4 DEF CommitUntold, LoseEvent
    <2>3. ~HeardAll'
        BY <2>1 DEF HeardAll
    <2> QED BY <1>1, <2>1, <2>2, <2>3, SilenceKeeps
<1> QED BY <1>3, <1>4

\* Publishing after the commit only makes the tab hear less.
LEMMA TellKeeps ==
    ASSUME HubInv, PushInv, Tell
    PROVE  PushInv'
<1>1. /\ UNCHANGED server /\ UNCHANGED client /\ UNCHANGED tabVars /\ UNCHANGED answers
      /\ due' = due - 1 /\ due > 0 /\ Publish
      /\ unseen' = (unseen \/ (ws # NoSocket /\ greeted /\ ws \notin Receivers))
    BY DEF Tell
<1>2. due' \in Nat
    BY <1>1 DEF PushInv
<1>3. ~(Listening /\ HeardAll')
    <2> SUFFICES ASSUME Listening, HeardAll' PROVE FALSE
        OBVIOUS
    <2>1. ws \in Sockets /\ ws' = ws /\ socket' = socket /\ forwarded' = forwarded /\ published' = published + 1
        BY <1>1 DEF PushInv, SocketIsOfTheSession, Listening, tabVars, Publish
    <2>2. ws \in Receivers
        BY <1>1 DEF HeardAll, Listening
    <2>3. socket[ws] = "open"
        BY <2>1, <2>2 DEF HeardAll, Receivers
    <2>4. forwarded[ws] = published + 1
        BY <2>1, <2>3 DEF HeardAll
    <2>5. forwarded[ws] <= published /\ published \in Nat
        BY <2>1 DEF HubInv, HubTypeOK, NumbersArePublished
    <2> QED BY <2>4, <2>5
<1> QED BY <1>1, <1>2, <1>3, SilenceKeeps

\* So does what the server does with a socket, and a socket that breaks.
LEMMA ServerSideKeeps ==
    ASSUME HubInv, PushInv, NEW s \in Sockets, ServerSide(s) \/ Break(s)
    PROVE  PushInv'
<1>1. /\ UNCHANGED server /\ UNCHANGED client /\ UNCHANGED tabVars /\ UNCHANGED answers
      /\ UNCHANGED <<due, unseen>>
    BY DEF ServerSide, Break
<1>2. ASSUME Listening, HeardAll' PROVE HeardAll
    <2>1. ws' = ws /\ ws \in Sockets
        BY <1>1, <1>2 DEF PushInv, SocketIsOfTheSession, Listening, tabVars
    <2>2. CASE Break(s)
        BY <1>2, <2>1, <2>2 DEF Break, Prune, HubInv, HubTypeOK, HeardAll
    <2>3. CASE Subscribe(s)
        BY <1>1, <1>2, <2>1, <2>3 DEF Subscribe, HubInv, HubTypeOK, HeardAll
    <2>4. CASE ws # s /\ Prune(s)
        BY <1>1, <1>2, <2>1, <2>4 DEF Prune, HubInv, HubTypeOK, HeardAll
    <2>5. CASE Return(s)
        BY <1>1, <1>2, <2>1, <2>5 DEF Return, HubInv, HubTypeOK, HeardAll
    <2> QED BY <2>2, <2>3, <2>4, <2>5 DEF ServerSide
<1>3. due' \in Nat
    BY <1>1 DEF PushInv
<1> QED BY <1>1, <1>2, <1>3, SilenceKeeps

\* The tab opens or loses its socket, or the vault is locked or unlocked.
LEMMA SocketsKeep ==
    ASSUME TypeOK, PushInv, HangUp \/ LockOrUnlock \/ \E s \in Sockets : Connect(s)
    PROVE  PushInv'
<1>1. ~greeted' /\ due' = due /\ UNCHANGED answers
    BY DEF HangUp, LockOrUnlock, Connect
<1>2. ~Listening'
    BY <1>1 DEF Listening
<1>3. SocketIsOfTheSession'
    <2>1. CASE HangUp \/ LockOrUnlock
        BY <2>1 DEF HangUp, LockOrUnlock, SocketIsOfTheSession
    <2>2. ASSUME NEW s \in Sockets, Connect(s) PROVE SocketIsOfTheSession'
        BY <2>2 DEF Connect, SocketIsOfTheSession, client, lock
    <2> QED BY <2>1, <2>2
<1>4. AnswersAreWhole' /\ OrderIsOfTheReads'
    <2>1. \A p \in Pulls : (BeenRead(p)' <=> BeenRead(p)) /\ (Answered(p)' => Answered(p) /\ pull'[p] = pull[p])
        <3>1. CASE UNCHANGED pull
            BY <3>1 DEF BeenRead, Answered
        <3>2. CASE Unlock
            <4>1. CallTypes
                BY TypesInParts
            <4>2. PICK q \in Pulls : pull[q] = NoPull /\ pull' = [pull EXCEPT ![q] = NewPull("eager")]
                BY <3>2 DEF Unlock
            <4>3. /\ pull'[q].colls = NoSnap /\ pull'[q].answer = NoSnap
                  /\ \A p \in Pulls \ {q} : pull'[p] = pull[p]
                BY <4>1, <4>2 DEF CallTypes, NewPull
            <4> QED BY <4>2, <4>3 DEF BeenRead, Answered
        <3> QED BY <3>1, <3>2 DEF HangUp, LockOrUnlock, Connect, Lock, client
    <2>2. AnswersAreWhole'
        BY <2>1 DEF PushInv, AnswersAreWhole
    <2> QED BY <1>1, <2>1, <2>2 DEF PushInv, OrderIsOfTheReads, answers
<1>5. due' \in Nat
    BY <1>1 DEF PushInv
<1> QED BY <1>2, <1>3, <1>4, <1>5, DeafnessKeeps

\* The socket opens, or a frame arrives.
LEMMA FramesKeep ==
    ASSUME TypeOK, HubInv, PushInv, Greet \/ \E s \in Sockets : Frame(s)
    PROVE  PushInv'
<1>1. due' = due /\ due' \in Nat /\ UNCHANGED answers /\ ws' = ws
    BY DEF Greet, Frame, PushInv, tabVars
<1>2. CASE PullStarts
    <2>1. session' = session
        BY <1>2 DEF PullStarts, AskRevisions, lock
    <2> QED BY <1>1, <1>2, <2>1, PullingKeeps
<1>3. CASE Greet /\ disabled
    <2>1. UNCHANGED client
        BY <1>3 DEF Greet
    <2>2. UNCHANGED <<session, disabled, pull>>
        BY <2>1 DEF client, lock, flags
    <2>3. ~Listening'
        BY <1>3, <2>2 DEF Listening
    <2>4. SocketIsOfTheSession' /\ AnswersAreWhole' /\ OrderIsOfTheReads'
        BY <1>1, <2>2 DEF PushInv, SocketIsOfTheSession, AnswersAreWhole, OrderIsOfTheReads, Answered, BeenRead, answers
    <2> QED BY <1>1, <2>3, <2>4, DeafnessKeeps
<1>4. ASSUME NEW s \in Sockets, Frame(s), ~(ws = s /\ ~disabled) PROVE PushInv'
    <2>1. /\ UNCHANGED server /\ UNCHANGED client /\ UNCHANGED tabVars /\ unseen' = unseen /\ Forward(s)
        BY <1>4 DEF Frame
    <2>2. ASSUME Listening, HeardAll' PROVE HeardAll
        <3>1. ws \in Sockets /\ ws # s
            BY <1>4, <2>2 DEF PushInv, SocketIsOfTheSession, Listening
        <3> QED BY <1>1, <2>1, <2>2, <3>1 DEF Forward, HubInv, HubTypeOK, HeardAll
    <2> QED BY <1>1, <2>1, <2>2, SilenceKeeps
<1> QED BY <1>2, <1>3, <1>4 DEF Greet, Frame

\* Every step of the composition keeps what the tab knows of the channel.
LEMMA PushKeeps ==
    ASSUME TypeOK, TypeOK', SyncInv, HubInv, PushInv, [PushNext]_<<vars, pushVars>>
    PROVE  PushInv'
<1>1. CASE UNCHANGED <<vars, pushVars>>
    <2>1. UNCHANGED server /\ UNCHANGED client /\ UNCHANGED tabVars /\ UNCHANGED answers
          /\ UNCHANGED <<due, unseen>> /\ UNCHANGED hubVars
        BY <1>1 DEF vars, pushVars
    <2>2. HeardAll' => HeardAll
        BY <2>1 DEF HeardAll, hubVars, tabVars
    <2>3. due' \in Nat
        BY <2>1 DEF PushInv
    <2> QED BY <2>1, <2>2, <2>3, SilenceKeeps
<1>2. CASE CommitTold \/ CommitUntold \/ LoseEvent
    BY <1>2, CommitsKeep
<1>3. CASE Tell
    BY <1>3, TellKeeps
<1>4. CASE Greet \/ \E s \in Sockets : Frame(s)
    BY <1>4, FramesKeep
<1>5. CASE HangUp \/ LockOrUnlock \/ \E s \in Sockets : Connect(s)
    BY <1>5, SocketsKeep
<1>6. CASE Step
    BY <1>6, StepKeeps
<1>7. ASSUME NEW s \in Sockets, ServerSide(s) \/ Break(s) PROVE PushInv'
    BY <1>7, ServerSideKeeps
<1>8. ASSUME NEW p \in Pulls, ServerReads(p) \/ ServerAnswers(p) \/ Delivered(p) PROVE PushInv'
    BY <1>8, ServerReadsKeeps, ServerAnswersKeeps, GoneKeeps, PayloadKeeps DEF Delivered
<1> QED BY <1>1, <1>2, <1>3, <1>4, <1>5, <1>6, <1>7, <1>8 DEF PushNext

\* It holds, with the types and the invariant of the pulls, when the tab
\* opens.
LEMMA PushStarts == PushInit => TypeOK /\ SyncInv /\ PushInv
<1> SUFFICES ASSUME PushInit PROVE TypeOK /\ SyncInv /\ PushInv
    OBVIOUS
<1>1. TypeOK /\ SyncInv
    BY InitTypes, InitKeeps DEF PushInit
<1>2. ws = NoSocket /\ due = 0 /\ order = <<>> /\ \A p \in Pulls : pull[p] = NoPull
    BY DEF PushInit, Init
<1>3. SocketIsOfTheSession
    BY <1>2 DEF SocketIsOfTheSession
<1>4. AnswersAreWhole /\ OrderIsOfTheReads
    BY <1>2 DEF AnswersAreWhole, OrderIsOfTheReads, Answered, BeenRead
<1>5. OldPassIsFollowed /\ LatestIsCurrent
    BY <1>2 DEF OldPassIsFollowed, LatestIsCurrent, Listening
<1> QED BY <1>1, <1>2, <1>3, <1>4, <1>5 DEF PushInv

\* A tab with an open socket that has had every frame, and has nothing under
\* way, shows what the server holds.
THEOREM FramesKeepTheTabCurrent == PushSpec => []PushKeepsCurrent
<1>1. PushInit => TypeOK /\ SyncInv /\ HubInv /\ PushInv
    BY PushStarts, HubStarts
<1>2. TypeOK /\ SyncInv /\ HubInv /\ PushInv /\ [PushNext]_<<vars, pushVars>>
        => (TypeOK /\ SyncInv /\ HubInv /\ PushInv)'
    BY ClientKeeps, StepsOfTheHub, HubStepKeepsHub, PushKeeps
<1>3. TypeOK /\ SyncInv /\ PushInv => PushKeepsCurrent
    <2> SUFFICES ASSUME TypeOK, SyncInv, PushInv, session # 0, Quiet, ~disabled, ws # NoSocket, greeted,
                        socket[ws] = "open", forwarded[ws] = published, due = 0, ~unseen,
                        ~overtaken, ~(outerFails > 0), ~RetriesRanOut, ~carried
                 PROVE  CaughtUp
        BY DEF PushKeepsCurrent
    <2>1. Listening /\ HeardAll
        BY DEF Listening, HeardAll
    <2>2. queue = <<>> /\ job = NoJob /\ \A p \in Pulls : pull[p] = NoPull
        BY DEF Quiet
    <2>3. ~PurgeIsUnderway /\ ~Unread
        BY <2>2 DEF PurgeIsUnderway, Unread, Cycling
    <2>4. order = <<>>
        <3>1. /\ order \in Seq(Pulls)
              /\ \A p \in Pulls : BeenRead(p) <=> \E i \in 1..Len(order) : order[i] = p
            BY DEF PushInv, OrderIsOfTheReads
        <3>2. \A i \in 1..Len(order) : order[i] \in Pulls /\ BeenRead(order[i])
            BY <3>1
        <3>3. \A i \in 1..Len(order) : FALSE
            BY <2>2, <3>2 DEF BeenRead
        <3> QED BY <3>1, <3>3
    <2>5. InMark
        BY <2>1, <2>2, <2>3, <2>4 DEF PushInv, LatestIsCurrent, LatestIsUnderway, InAnswers, InQueue, InPass
    <2> QED BY <2>5, CoveredIsCaughtUp DEF InMark
<1> QED BY <1>1, <1>2, <1>3, PTL DEF PushSpec
=============================================================================
