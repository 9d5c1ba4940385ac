--------------------------- MODULE SharedSync_proofs ---------------------------
(***************************************************************************)
(* Proofs about SharedSync, for any number of collections and of pulls in  *)
(* flight and every value of the bounds.                                   *)
(***************************************************************************)
EXTENDS SharedSync, TLAPS

USE DEF Handles, Listings, NoAnswer

-----------------------------------------------------------------------------
(* Types.                                                                  *)

\* TypeOK in the parts that a step changes together.
RowTypes ==
    /\ status \in {"none", "active", "suspended"}
    /\ holds \subseteq Collections
    /\ rev \in [Collections -> Nat] /\ past \in [Collections -> Nat] /\ epoch \in [Collections -> Nat]
    /\ direct \in BOOLEAN /\ directRev \in Nat /\ directPast \in Nat /\ owed \in Nat

BoundTypes == moves \in 0..MaxMoves /\ faults \in 0..MaxFaults

LockTypes ==
    /\ session \in {0, sessions} /\ sessions \in 0..MaxSessions
    /\ disabled \in BOOLEAN /\ confirmed \in BOOLEAN

CallTypes ==
    /\ pull \in [Pulls -> PullRow \cup {NoPull}]
    /\ queue \in Seq(Payload \cup {Purge}) /\ Len(queue) <= MaxQueue
    /\ refresher # NoPull => refresher \in RefresherRow

JobTypes ==
    job # NoJob =>
        /\ job \in JobRow
        /\ job.stage = "listing" => job.answer \in Listings \cup NoAnswer
        /\ job.stage = "collection" => job.coll \in Collections /\ job.answer \in CollectionAnswer \cup NoAnswer
        /\ job.stage = "direct" => job.answer \in DirectAnswer \cup NoAnswer
        /\ job.stage = "identity" => job.answer \in DirectAnswer

KeyTypes == keys \in [Collections -> Nat]

StoreTypes ==
    /\ cache \in [Collections -> Content]
    /\ mark \in [Collections -> Nat] /\ fails \in [Collections -> Nat]
    /\ directCache \in Content /\ directMark \in Nat /\ directFails \in Nat

MarkTypes ==
    /\ outer \in Payload /\ outerFails \in Nat /\ known \in BOOLEAN
    /\ carried \in BOOLEAN /\ gaveUp \in BOOLEAN

\* TypeOK is the parts a step changes together.
LEMMA TypesInParts ==
    TypeOK <=> /\ RowTypes /\ BoundTypes /\ LockTypes /\ CallTypes /\ JobTypes
               /\ KeyTypes /\ StoreTypes /\ MarkTypes
BY DEF TypeOK, RowTypes, BoundTypes, LockTypes, CallTypes, JobTypes, KeyTypes, StoreTypes, MarkTypes

\* Empty caches and the outer mark of a fresh tab have their types.
LEMMA EmptyShapes ==
    /\ None(Collections) \in [Collections -> Nat]
    /\ NoOuter \in Payload
    /\ NoRows \in Content /\ Empty \in [Collections -> Content]
BY DEF None, NoOuter, Payload, NoRows, Empty, Content

\* What the server reads has the shape of a payload's parts, of a listing and of
\* rows.
LEMMA ServerShapes ==
    ASSUME RowTypes
    PROVE  /\ CollectionRevisions \in Listings
           /\ Listed \subseteq Listings \cup NoAnswer
           /\ \A c \in Collections : Rows(c) \in Content
           /\ DirectRows \in Content
<1>1. CollectionRevisions \in Listings
    BY DEF RowTypes, CollectionRevisions
<1>2. Listing \in Listings
    BY DEF RowTypes, Listing
<1>3. Listed \subseteq Listings \cup NoAnswer
    BY <1>2 DEF Listed
<1> QED BY <1>1, <1>3 DEF Rows, DirectRows, Content, RowTypes

\* The queue's ends.
LEMMA QueueShapes ==
    ASSUME CallTypes
    PROVE  /\ \A x \in Payload \cup {Purge} : Append(queue, x) \in Seq(Payload \cup {Purge})
                                              /\ Len(Append(queue, x)) = Len(queue) + 1
           /\ queue # <<>> => /\ Head(queue) \in Payload \cup {Purge}
                              /\ Tail(queue) \in Seq(Payload \cup {Purge})
                              /\ Len(Tail(queue)) = Len(queue) - 1
           /\ Len(queue) \in Nat
BY DEF CallTypes

\* Changing the stage of a pass.
LEMMA JobFields ==
    ASSUME job \in JobRow
    PROVE  /\ job.stage \in {"listing", "collection", "direct", "identity"}
           /\ job.uk \in Handles /\ job.since \in Handles /\ job.payload \in Payload
           /\ job.todo \subseteq Collections /\ job.failed \in BOOLEAN
           /\ job.payload.colls \in [Collections -> Nat] /\ job.payload.direct \in Nat
BY DEF JobRow, Payload

-----------------------------------------------------------------------------
(* What a pass does next.                                                  *)

\* The row of a pass that goes on with another request.
Asking(stage, todo, coll, failed) ==
    [stage |-> stage, uk |-> session, since |-> job.since, payload |-> job.payload,
     todo |-> todo, coll |-> coll, read |-> NoSnap, answer |-> NoSnap, failed |-> failed]

\* Going on with another collection replaces these fields of the pass.
LEMMA AskingFields ==
    ASSUME job \in JobRow, NEW todo, NEW coll, NEW failed,
           job' = [job EXCEPT !.stage = "collection", !.coll = coll, !.todo = todo, !.uk = session,
                              !.read = NoSnap, !.answer = NoSnap, !.failed = failed]
    PROVE  job' = Asking("collection", todo, coll, failed)
BY DEF JobRow, Asking

\* Going on with the direct items replaces these.
LEMMA AskingDirectFields ==
    ASSUME job \in JobRow, NEW failed,
           job' = [job EXCEPT !.stage = "direct", !.todo = {}, !.coll = NoSnap,
                              !.uk = session, !.read = NoSnap, !.answer = NoSnap, !.failed = failed]
    PROVE  job' = Asking("direct", {}, NoSnap, failed)
BY DEF JobRow, Asking

\* A pass that has come back is dropped, fetches a collection, fetches the
\* directly shared items, or is done.
Left == {c \in job.todo : mark'[c] # job.payload.colls[c]}

\* The four ways a pass may go on.
LEMMA ProceedOutcomes ==
    ASSUME job \in JobRow, NEW failed, Proceed(failed)
    PROVE  \/ session = 0 /\ Drop
           \/ /\ session # 0 /\ UNCHANGED <<marks, history>>
              /\ \E c \in Left : job' = Asking("collection", Left \ {c}, c, failed)
           \/ /\ session # 0 /\ UNCHANGED <<marks, history>> /\ Left = {}
              /\ job' = Asking("direct", {}, NoSnap, failed)
           \/ /\ Left = {} /\ (session = 0 \/ directMark = job.payload.direct)
              /\ Finish(job.payload, failed)
<1>1. CASE Left # {} /\ session = 0
    BY <1>1 DEF Proceed, Left
<1>2. CASE Left # {} /\ session # 0
    <2>1. UNCHANGED <<marks, history>>
        BY <1>2 DEF Proceed, Left
    <2>2. PICK c \in Left : job' = [job EXCEPT
                !.stage = "collection", !.coll = c, !.todo = Left \ {c}, !.uk = session,
                !.read = NoSnap, !.answer = NoSnap, !.failed = failed]
        BY <1>2 DEF Proceed, Left
    <2>3. job' = Asking("collection", Left \ {c}, c, failed)
        BY <2>2, AskingFields
    <2> QED BY <1>2, <2>1, <2>3
<1>3. CASE Left = {} /\ directMark # job.payload.direct /\ session # 0
    <2>1. /\ UNCHANGED <<marks, history>>
          /\ job' = [job EXCEPT !.stage = "direct", !.todo = {}, !.coll = NoSnap,
                              !.uk = session, !.read = NoSnap, !.answer = NoSnap, !.failed = failed]
        BY <1>3 DEF Proceed, Left
    <2>2. job' = Asking("direct", {}, NoSnap, failed)
        BY <2>1, AskingDirectFields
    <2> QED BY <1>3, <2>1, <2>2
<1>4. CASE Left = {} /\ (directMark = job.payload.direct \/ session = 0)
    BY <1>4 DEF Proceed, Left
<1> QED BY <1>1, <1>2, <1>3, <1>4

\* The outer marks after a pass.
LEMMA FinishTypes ==
    ASSUME MarkTypes, NEW payload \in Payload, NEW failed \in BOOLEAN, Finish(payload, failed)
    PROVE  MarkTypes' /\ JobTypes'
<1>1. job' = NoJob
    BY DEF Finish
<1>2. outerFails' \in Nat
    BY DEF Finish, MarkTypes
<1>3. outer' \in Payload
    BY DEF Finish, MarkTypes
<1>4. known' \in BOOLEAN /\ carried' \in BOOLEAN /\ gaveUp' \in BOOLEAN
    BY DEF Finish, MarkTypes
<1> QED BY <1>1, <1>2, <1>3, <1>4 DEF MarkTypes, JobTypes

\* Whichever it is, the pass and the marks keep their types.
LEMMA ProceedTypes ==
    ASSUME TypeOK, job # NoJob, NEW failed \in BOOLEAN, Proceed(failed)
    PROVE  MarkTypes' /\ JobTypes'
<1>1. job \in JobRow /\ MarkTypes /\ LockTypes
    BY TypesInParts DEF JobTypes
<1>2. /\ job.since \in Handles /\ job.payload \in Payload /\ job.todo \subseteq Collections
    BY <1>1, JobFields
<1>3. CASE session = 0 /\ Drop
    BY <1>1, <1>3 DEF Drop, MarkTypes, JobTypes, marks, history
<1>4. CASE session # 0 /\ UNCHANGED <<marks, history>>
           /\ \E c \in Left : job' = Asking("collection", Left \ {c}, c, failed)
    <2>1. PICK c \in Left : job' = Asking("collection", Left \ {c}, c, failed)
        BY <1>4
    <2>2. session \in Handles /\ c \in Collections /\ Left \ {c} \subseteq Collections
        BY <1>1, <1>2, <1>4 DEF LockTypes, Left
    <2>3. job' \in JobRow /\ job'.stage = "collection" /\ job'.coll = c /\ job'.answer = NoSnap
        BY <1>2, <2>1, <2>2 DEF Asking, JobRow
    <2>4. JobTypes'
        BY <2>2, <2>3 DEF JobTypes
    <2> QED BY <1>1, <1>4, <2>4 DEF MarkTypes, marks, history
<1>5. CASE session # 0 /\ UNCHANGED <<marks, history>> /\ job' = Asking("direct", {}, NoSnap, failed)
    <2>1. session \in Handles
        BY <1>1, <1>5 DEF LockTypes
    <2>2. job' \in JobRow /\ job'.stage = "direct" /\ job'.answer = NoSnap
        BY <1>2, <1>5, <2>1 DEF Asking, JobRow
    <2>3. JobTypes'
        BY <2>2 DEF JobTypes
    <2> QED BY <1>1, <1>5, <2>3 DEF MarkTypes, marks, history
<1>6. CASE Finish(job.payload, failed)
    BY <1>1, <1>2, <1>6, FinishTypes
<1> QED BY <1>1, <1>3, <1>4, <1>5, <1>6, ProceedOutcomes

-----------------------------------------------------------------------------
(* Every step keeps the types.                                             *)

\* What a step leaves alone keeps its type.
LEMMA UnchangedTypes ==
    ASSUME TypeOK
    PROVE  /\ UNCHANGED server => RowTypes'
           /\ UNCHANGED bounds => BoundTypes'
           /\ UNCHANGED <<lock, flags>> => LockTypes'
           /\ UNCHANGED <<pull, queue, refresher>> => CallTypes'
           /\ UNCHANGED job => JobTypes'
           /\ UNCHANGED keys => KeyTypes'
           /\ UNCHANGED merged => StoreTypes'
           /\ UNCHANGED <<marks, history>> => MarkTypes'
<1>1. UNCHANGED server => RowTypes'
    BY TypesInParts DEF RowTypes, server
<1>2. UNCHANGED bounds => BoundTypes'
    BY TypesInParts DEF BoundTypes, bounds
<1>3. UNCHANGED <<lock, flags>> => LockTypes'
    BY TypesInParts DEF LockTypes, lock, flags
<1>4. UNCHANGED <<pull, queue, refresher>> => CallTypes'
    BY TypesInParts DEF CallTypes
<1>5. UNCHANGED job => JobTypes'
    BY TypesInParts DEF JobTypes
<1>6. UNCHANGED keys => KeyTypes'
    BY TypesInParts DEF KeyTypes
<1>7. UNCHANGED merged => StoreTypes'
    BY TypesInParts DEF StoreTypes, merged
<1>8. UNCHANGED <<marks, history>> => MarkTypes'
    BY TypesInParts DEF MarkTypes, marks, history
<1> QED BY <1>1, <1>2, <1>3, <1>4, <1>5, <1>6, <1>7, <1>8

Parts == RowTypes /\ BoundTypes /\ LockTypes /\ CallTypes /\ JobTypes
         /\ KeyTypes /\ StoreTypes /\ MarkTypes

\* A step that moves the direct cursor, or changes what is shared without it.
LEMMA ServerCounts ==
    ASSUME RowTypes, BoundTypes, direct' \in BOOLEAN,
           DirectCounted \/ (directPast' = directPast + 1 /\ directRev' = directRev),
           moves < MaxMoves, moves' = moves + 1, UNCHANGED <<faults, rev, past, epoch, owed>>,
           UNCHANGED <<status, holds>> \/ (status' = "none" /\ holds' = {})
    PROVE  RowTypes' /\ BoundTypes'
<1>1. directRev' \in Nat /\ directPast' \in Nat
    BY DEF DirectCounted, RowTypes
<1>2. /\ status' \in {"none", "active", "suspended"} /\ holds' \subseteq Collections
      /\ rev' \in [Collections -> Nat] /\ past' \in [Collections -> Nat] /\ epoch' \in [Collections -> Nat]
      /\ owed' \in Nat
    BY DEF RowTypes
<1>3. BoundTypes'
    BY SyncAssumption DEF BoundTypes
<1> QED BY <1>1, <1>2, <1>3 DEF RowTypes

\* Committed requests of others keep the types.
LEMMA OthersType ==
    ASSUME TypeOK, Others
    PROVE  Parts'
<1>1. RowTypes /\ BoundTypes
    BY TypesInParts
<1> DEFINE kept == UNCHANGED client
<1>2. ASSUME NEW c \in Collections, EditItem(c) PROVE RowTypes' /\ BoundTypes' /\ kept
    BY <1>1, <1>2, SyncAssumption DEF EditItem, Counted, Moved, RowTypes, BoundTypes
<1>3. ASSUME NEW c \in Collections, Rekey(c) PROVE RowTypes' /\ BoundTypes' /\ kept
    BY <1>1, <1>3, SyncAssumption DEF Rekey, Counted, Moved, RowTypes, BoundTypes
<1>4. ASSUME NEW c \in Collections, Grant(c) \/ Revoke(c) \/ Cascade(c) PROVE RowTypes' /\ BoundTypes' /\ kept
    BY <1>1, <1>4, SyncAssumption DEF Grant, Revoke, Cascade, Moved, RowTypes, BoundTypes
<1>5. ASSUME ShareDirect \/ ChangeShare \/ OwnerMoves PROVE RowTypes' /\ BoundTypes' /\ kept
    <2>1. direct' \in BOOLEAN
        BY <1>1, <1>5 DEF ShareDirect, ChangeShare, OwnerMoves, RowTypes
    <2>2. /\ DirectCounted \/ (directPast' = directPast + 1 /\ directRev' = directRev)
          /\ moves < MaxMoves /\ moves' = moves + 1 /\ UNCHANGED faults /\ kept
          /\ UNCHANGED <<status, holds, rev, past, epoch, owed>>
        BY <1>5 DEF ShareDirect, ChangeShare, OwnerMoves, Moved
    <2> QED BY <1>1, <2>1, <2>2, ServerCounts
<1>6. ASSUME Leave \/ Dissolve PROVE RowTypes' /\ BoundTypes' /\ kept
    <2>1. direct' \in BOOLEAN
        BY <1>1, <1>6 DEF Leave, Dissolve, RowTypes
    <2>2. /\ DirectCounted \/ (directPast' = directPast + 1 /\ directRev' = directRev)
          /\ moves < MaxMoves /\ moves' = moves + 1 /\ UNCHANGED faults /\ kept
          /\ status' = "none" /\ holds' = {} /\ UNCHANGED <<rev, past, epoch, owed>>
        BY <1>6 DEF Leave, Dissolve, Moved
    <2> QED BY <1>1, <2>1, <2>2, ServerCounts
<1>7. ASSUME Join PROVE RowTypes' /\ BoundTypes' /\ kept
    BY <1>1, <1>7, SyncAssumption DEF Join, Moved, RowTypes, BoundTypes
<1>8. ASSUME NEW to \in {"active", "suspended"}, SetStatus(to) PROVE RowTypes' /\ BoundTypes' /\ kept
    BY <1>1, <1>8, SyncAssumption DEF SetStatus, Moved, RowTypes, BoundTypes
<1>9. ASSUME CountStatus PROVE RowTypes' /\ BoundTypes' /\ kept
    BY <1>1, <1>9 DEF CountStatus, DirectCounted, bounds, RowTypes, BoundTypes
<1> HIDE DEF kept
<1>10. RowTypes' /\ BoundTypes' /\ kept
    BY <1>2, <1>3, <1>4, <1>5, <1>6, <1>7, <1>8, <1>9 DEF Others
<1> QED BY <1>10, UnchangedTypes DEF kept, client, Parts

\* Unlocking keeps the types.
LEMMA UnlockTypes ==
    ASSUME TypeOK, Unlock
    PROVE  Parts'
<1>1. LockTypes /\ CallTypes /\ StoreTypes /\ MarkTypes
    BY TypesInParts
<1>2. LockTypes' /\ Handle \in Handles
    <2>1. /\ sessions < MaxSessions /\ sessions' = sessions + 1 /\ session' = sessions + 1
          /\ disabled' = FALSE /\ confirmed' = FALSE
        BY DEF Unlock, Handle
    <2>2. sessions \in Nat /\ MaxSessions \in Nat
        BY <1>1, SyncAssumption DEF LockTypes
    <2>3. sessions' \in 0..MaxSessions /\ session' \in {0, sessions'} /\ Handle \in Handles
        BY <2>1, <2>2 DEF Handle
    <2>4. disabled' \in BOOLEAN /\ confirmed' \in BOOLEAN
        BY <2>1
    <2> QED BY <2>3, <2>4 DEF LockTypes
<1>3. pull' \in [Pulls -> PullRow \cup {NoPull}]
    BY <1>1 DEF Unlock, CallTypes, PullRow, NewPull
<1>4. refresher' \in RefresherRow
    BY <1>2 DEF Unlock, RefresherRow
<1>5. CallTypes'
    BY <1>1, <1>3, <1>4 DEF CallTypes, Unlock
<1>6. StoreTypes'
    BY <1>1, EmptyShapes DEF Unlock, StoreTypes
<1>7. MarkTypes'
    BY <1>1, EmptyShapes DEF Unlock, MarkTypes, history
<1> QED BY <1>2, <1>5, <1>6, <1>7, UnchangedTypes DEF Unlock, Parts

\* Locking keeps the types.
LEMMA LockTypesHold ==
    ASSUME TypeOK, Lock
    PROVE  Parts'
<1>1. LockTypes /\ StoreTypes /\ MarkTypes
    BY TypesInParts
<1>2. LockTypes'
    BY <1>1, SyncAssumption DEF Lock, LockTypes, flags
<1>3. KeyTypes' /\ StoreTypes'
    BY EmptyShapes DEF Lock, KeyTypes, StoreTypes
<1>4. MarkTypes'
    BY <1>1 DEF Lock, MarkTypes, history
<1> QED BY <1>2, <1>3, <1>4, UnchangedTypes DEF Lock, Parts

\* Every step of a pull keeps the types.
LEMMA PullTypes ==
    ASSUME TypeOK, NEW p \in Pulls, AskRevisions(p) \/ Pull(p)
    PROVE  Parts'
<1>1. LockTypes /\ CallTypes /\ MarkTypes /\ RowTypes
    BY TypesInParts
<1>2. CASE AskRevisions(p)
    <2>1. pull' \in [Pulls -> PullRow \cup {NoPull}]
        BY <1>1, <1>2 DEF AskRevisions, CallTypes, PullRow, NewPull
    <2>2. CallTypes'
        BY <1>1, <1>2, <2>1 DEF AskRevisions, CallTypes
    <2> QED BY <1>2, <2>2, UnchangedTypes DEF AskRevisions, Parts
<1>3. CASE ReadCollections(p) \/ AnswerRevisions(p)
    <2>1. pull[p] \in PullRow
        BY <1>1, <1>3 DEF ReadCollections, AnswerRevisions, Asked, CallTypes
    <2>2. \E row \in PullRow : pull' = [pull EXCEPT ![p] = row]
        <3>1. CASE AnswerRevisions(p)
            <4> DEFINE answer == [colls |-> pull[p].colls, direct |-> directRev]
            <4>1. answer \in Payload
                BY <1>1, <2>1, <3>1 DEF AnswerRevisions, PullRow, Payload, RowTypes
            <4>2. pull' = [pull EXCEPT ![p].answer = answer]
                BY <3>1 DEF AnswerRevisions
            <4> HIDE DEF answer
            <4>3. [pull[p] EXCEPT !.answer = answer] \in PullRow
                BY <2>1, <4>1 DEF PullRow
            <4> QED BY <4>2, <4>3
        <3>2. CASE ReadCollections(p)
            <4>1. /\ [pull[p] EXCEPT !.answer = Gone] \in PullRow
                  /\ [pull[p] EXCEPT !.colls = CollectionRevisions] \in PullRow
                BY <1>1, <2>1, ServerShapes DEF PullRow
            <4> QED BY <3>2, <4>1 DEF ReadCollections
        <3> QED BY <1>3, <3>1, <3>2
    <2>3. pull' \in [Pulls -> PullRow \cup {NoPull}]
        BY <1>1, <2>2 DEF CallTypes
    <2>4. CallTypes'
        BY <1>1, <1>3, <2>3 DEF ReadCollections, AnswerRevisions, CallTypes
    <2> QED BY <1>3, <2>4, UnchangedTypes DEF ReadCollections, AnswerRevisions, Parts
<1>4. CASE DeliverRevisions(p)
    <2>1. pull[p] \in PullRow /\ pull[p].answer \in Payload
        BY <1>1, <1>4 DEF DeliverRevisions, Answered, CallTypes, PullRow
    <2>2. pull' \in [Pulls -> PullRow \cup {NoPull}]
        BY <1>1, <1>4 DEF DeliverRevisions, CallTypes
    <2>3. queue' \in Seq(Payload \cup {Purge}) /\ Len(queue') <= MaxQueue
        <3>1. CASE session = 0
            BY <1>1, <1>4, <3>1 DEF DeliverRevisions, CallTypes
        <3>2. CASE session # 0
            <4>1. queue' = Append(queue, pull[p].answer) /\ Len(queue) < MaxQueue
                BY <1>4, <3>2 DEF DeliverRevisions
            <4> QED BY <1>1, <2>1, <4>1, QueueShapes, SyncAssumption
        <3> QED BY <3>1, <3>2
    <2>4. CallTypes'
        BY <1>1, <1>4, <2>2, <2>3 DEF DeliverRevisions, CallTypes
    <2>5. LockTypes'
        BY <1>1, <1>4 DEF DeliverRevisions, LockTypes, lock
    <2> QED BY <1>4, <2>4, <2>5, UnchangedTypes DEF DeliverRevisions, Parts
<1>5. CASE DeliverGone(p)
    <2>1. pull' \in [Pulls -> PullRow \cup {NoPull}]
        BY <1>1, <1>5 DEF DeliverGone, CallTypes
    <2>2. queue' \in Seq(Payload \cup {Purge}) /\ Len(queue') <= MaxQueue
        <3>1. queue' = queue \/ (queue' = Append(queue, Purge) /\ Len(queue) < MaxQueue)
            BY <1>5 DEF DeliverGone
        <3> QED BY <1>1, <3>1, QueueShapes, SyncAssumption DEF CallTypes
    <2>3. CallTypes'
        BY <1>1, <1>5, <2>1, <2>2 DEF DeliverGone, CallTypes
    <2>4. LockTypes'
        BY <1>1, <1>5 DEF DeliverGone, LockTypes, lock
    <2>5. MarkTypes'
        BY <1>1, <1>5 DEF DeliverGone, MarkTypes, history
    <2> QED BY <1>5, <2>3, <2>4, <2>5, UnchangedTypes DEF DeliverGone, Parts
<1> QED BY <1>2, <1>3, <1>4, <1>5 DEF Pull

\* The refresher of the key cache keeps the types.
LEMMA RefresherTypes ==
    ASSUME TypeOK, Refresher
    PROVE  Parts'
<1>1. CallTypes /\ RowTypes /\ KeyTypes
    BY TypesInParts
<1>2. CASE RefresherLists
    <2>1. refresher \in RefresherRow /\ \E listed \in Listed : refresher' = [refresher EXCEPT !.listed = listed]
        BY <1>1, <1>2 DEF RefresherLists, CallTypes
    <2>2. refresher' \in RefresherRow
        BY <1>1, <2>1, ServerShapes DEF RefresherRow
    <2>3. CallTypes'
        BY <1>1, <1>2, <2>2 DEF RefresherLists, CallTypes
    <2> QED BY <1>2, <2>3, UnchangedTypes DEF RefresherLists, Parts
<1>3. CASE RefresherCaches
    <2>1. refresher.listed \in Listings \cup NoAnswer
        BY <1>1, <1>3 DEF RefresherCaches, CallTypes, RefresherRow
    <2>2. KeyTypes'
        BY <1>1, <1>3, <2>1 DEF RefresherCaches, KeyTypes
    <2>3. CallTypes'
        BY <1>1, <1>3 DEF RefresherCaches, CallTypes
    <2> QED BY <1>3, <2>2, <2>3, UnchangedTypes DEF RefresherCaches, Parts
<1> QED BY <1>2, <1>3 DEF Refresher

\* A request of a pass is answered, or fails.
LEMMA AnswerTypes ==
    ASSUME TypeOK, NEW stage \in {"listing", "collection", "direct"}, NEW answer,
           Waiting(stage), job' = [job EXCEPT !.answer = answer],
           stage = "listing" => answer \in Listings \cup NoAnswer,
           stage = "collection" => answer \in CollectionAnswer \cup NoAnswer,
           stage = "direct" => answer \in DirectAnswer \cup NoAnswer
    PROVE  JobTypes' /\ job' \in JobRow
<1>1. job \in JobRow /\ job.stage = stage /\ (stage = "collection" => job.coll \in Collections)
    BY TypesInParts DEF JobTypes, Waiting
<1>2. answer \in Listings \cup CollectionAnswer \cup DirectAnswer \cup NoAnswer
    OBVIOUS
<1>3. /\ job' \in JobRow /\ job'.stage = stage /\ job'.answer = answer /\ job'.coll = job.coll
    BY <1>1, <1>2 DEF JobRow
<1> QED BY <1>1, <1>3 DEF JobTypes

\* A pass's cursors and answers keep the types.
LEMMA AnswersType ==
    ASSUME TypeOK,
           \/ AnswerListing \/ ReadCollection \/ RefuseCollection \/ AnswerCollection
           \/ ReadDirect \/ AnswerDirect
    PROVE  Parts'
<1>1. RowTypes /\ JobTypes
    BY TypesInParts
<1>2. CASE AnswerListing
    <2>1. PICK listed \in Listed : Answer("listing", listed)
        BY <1>2 DEF AnswerListing
    <2>2. JobTypes'
        BY <1>1, <2>1, ServerShapes, AnswerTypes DEF Answer
    <2> QED BY <2>1, <2>2, UnchangedTypes DEF Answer, Parts
<1>3. ASSUME NEW stage \in {"collection", "direct"}, NEW cursor \in Nat, Read(stage, cursor)
      PROVE  Parts'
    <2>1. job # NoJob /\ job \in JobRow /\ job.stage = stage /\ job' = [job EXCEPT !.read = cursor]
        BY <1>1, <1>3 DEF Read, Waiting, JobTypes
    <2>2. /\ job' \in JobRow /\ job'.stage = job.stage /\ job'.coll = job.coll /\ job'.answer = job.answer
        BY <2>1 DEF JobRow
    <2>3. JobTypes'
        BY <1>1, <2>1, <2>2 DEF JobTypes
    <2> QED BY <1>3, <2>3, UnchangedTypes DEF Read, Parts
<1>4. CASE ReadCollection
    <2>1. job.coll \in Collections
        BY <1>1, <1>4 DEF ReadCollection, Read, Waiting, JobTypes
    <2>2. rev[job.coll] \in Nat
        BY <1>1, <2>1 DEF RowTypes
    <2> QED BY <1>3, <1>4, <2>2 DEF ReadCollection
<1>5. CASE RefuseCollection
    <2>1. Answer("collection", Failed)
        BY <1>5 DEF RefuseCollection
    <2>2. JobTypes'
        BY <2>1, AnswerTypes DEF Answer
    <2> QED BY <2>1, <2>2, UnchangedTypes DEF Answer, Parts
<1>6. CASE AnswerCollection
    <2> DEFINE answer == [rev |-> job.read, rows |-> Rows(job.coll), epoch |-> epoch[job.coll]]
    <2>1. job.coll \in Collections /\ job \in JobRow
        BY <1>1, <1>6 DEF AnswerCollection, Answer, Waiting, JobTypes
    <2>2. job.read \in Nat
        BY <1>6, <2>1 DEF AnswerCollection, JobRow
    <2>3. answer \in CollectionAnswer
        BY <1>1, <2>1, <2>2, ServerShapes DEF RowTypes, CollectionAnswer
    <2>4. Answer("collection", answer)
        BY <1>6 DEF AnswerCollection
    <2> HIDE DEF answer
    <2>5. JobTypes'
        BY <2>3, <2>4, AnswerTypes DEF Answer
    <2> QED BY <2>4, <2>5, UnchangedTypes DEF Answer, Parts
<1>7. CASE ReadDirect
    BY <1>1, <1>3, <1>7 DEF ReadDirect, RowTypes
<1>8. CASE AnswerDirect
    <2> DEFINE answer == [rev |-> job.read, rows |-> DirectRows]
    <2>1. job \in JobRow
        BY <1>1, <1>8 DEF AnswerDirect, JobTypes
    <2>2. job.read \in Nat
        BY <1>8, <2>1 DEF AnswerDirect, JobRow
    <2>3. answer \in DirectAnswer
        BY <1>1, <2>2, ServerShapes DEF DirectAnswer
    <2>4. Answer("direct", answer)
        BY <1>8 DEF AnswerDirect
    <2> HIDE DEF answer
    <2>5. JobTypes'
        BY <2>3, <2>4, AnswerTypes DEF Answer
    <2> QED BY <2>4, <2>5, UnchangedTypes DEF Answer, Parts
<1> QED BY <1>2, <1>4, <1>5, <1>6, <1>7, <1>8

\* A failed request of a pass keeps the types.
LEMMA FailuresType ==
    ASSUME TypeOK, NEW stage \in {"listing", "collection", "direct"}, Fail(stage)
    PROVE  Parts'
<1>1. JobTypes'
    BY AnswerTypes DEF Fail
<1>2. BoundTypes'
    BY TypesInParts, SyncAssumption DEF Fail, BoundTypes
<1> QED BY <1>1, <1>2, UnchangedTypes DEF Fail, Parts

\* Taking the next purge or pass from the queue keeps the types.
LEMMA StartTypes ==
    ASSUME TypeOK, StartPurge \/ StartPass
    PROVE  Parts'
<1>1. LockTypes /\ CallTypes /\ MarkTypes
    BY TypesInParts
<1>2. CASE StartPurge
    <2>1. CallTypes'
        BY <1>1, <1>2, QueueShapes, SyncAssumption DEF StartPurge, CallTypes
    <2>2. KeyTypes' /\ StoreTypes' /\ MarkTypes'
        BY <1>1, <1>2, EmptyShapes DEF StartPurge, KeyTypes, StoreTypes, MarkTypes, history
    <2>3. LockTypes'
        BY <1>1, <1>2 DEF StartPurge, LockTypes, lock
    <2> QED BY <1>2, <2>1, <2>2, <2>3, UnchangedTypes DEF StartPurge, Parts
<1>3. CASE StartPass
    <2>1. CallTypes'
        BY <1>1, <1>3, QueueShapes, SyncAssumption DEF StartPass, CallTypes
    <2>2. MarkTypes'
        BY <1>1, <1>3 DEF StartPass, MarkTypes, history
    <2>3. JobTypes'
        <3>1. Head(queue) \in Payload
            BY <1>1, <1>3, QueueShapes DEF StartPass
        <3>2. CASE UNCHANGED job \/ job' = NoJob
            BY <3>2, UnchangedTypes DEF JobTypes
        <3>3. CASE session # 0 /\ job' =
                [stage |-> "listing", uk |-> session, since |-> session, payload |-> Head(queue),
                 todo |-> {c \in Collections : Head(queue).colls[c] # 0},
                 coll |-> NoSnap, read |-> NoSnap, answer |-> NoSnap, failed |-> FALSE]
            <4>1. session \in Handles
                BY <1>1, <3>3 DEF LockTypes
            <4>2. job' \in JobRow /\ job'.stage = "listing" /\ job'.answer = NoSnap
                BY <3>1, <3>3, <4>1 DEF JobRow
            <4> QED BY <4>2 DEF JobTypes
        <3> QED BY <1>3, <3>2, <3>3 DEF StartPass
    <2> QED BY <1>3, <2>1, <2>2, <2>3, UnchangedTypes DEF StartPass, Parts
<1> QED BY <1>2, <1>3

\* So does the list of collections reaching the pass.
LEMMA DeliverListingTypes ==
    ASSUME TypeOK, DeliverListing
    PROVE  Parts'
<1>1. JobTypes /\ KeyTypes /\ StoreTypes
    BY TypesInParts
<1>2. job # NoJob /\ job \in JobRow /\ job.answer \in Listings \cup {Failed}
    BY <1>1 DEF DeliverListing, Arrived, JobTypes
<1>3. KeyTypes'
    BY <1>1, <1>2 DEF DeliverListing, KeyTypes
<1>4. CASE session = 0
    <2>1. Drop /\ UNCHANGED merged
        BY <1>4 DEF DeliverListing
    <2> QED BY <1>3, <2>1, UnchangedTypes DEF DeliverListing, Drop, JobTypes, Parts, marks, history
<1>5. CASE session # 0
    <2> DEFINE revoked == {c \in Collections : mark[c] # 0 /\ job.payload.colls[c] = 0}
    <2>1. /\ mark' = [c \in Collections |-> IF c \in revoked THEN 0 ELSE mark[c]]
          /\ cache' = [c \in Collections |-> IF c \in revoked THEN NoRows ELSE cache[c]]
          /\ UNCHANGED <<fails, directCache, directMark, directFails>>
          /\ Proceed(job.answer = Failed)
        BY <1>5 DEF DeliverListing
    <2> HIDE DEF revoked
    <2>2. StoreTypes'
        BY <1>1, <2>1, EmptyShapes DEF StoreTypes
    <2>3. MarkTypes' /\ JobTypes'
        BY <1>2, <2>1, ProceedTypes
    <2> QED BY <1>3, <2>2, <2>3, UnchangedTypes DEF DeliverListing, Parts
<1> QED BY <1>4, <1>5

\* So does merging one collection, in the store's rows, marks and counters.
LEMMA MergeTypes ==
    ASSUME StoreTypes, NEW c \in Collections, NEW snap \in CollectionAnswer, MergeCollection(c, snap),
           UNCHANGED <<directCache, directMark, directFails>>
    PROVE  StoreTypes'
<1>1. snap.rev \in Nat /\ snap.rows \in Content
    BY DEF CollectionAnswer
<1>2. cache' \in [Collections -> Content]
    BY <1>1 DEF MergeCollection, StoreTypes
<1>3. fails' \in [Collections -> Nat]
    BY DEF MergeCollection, StoreTypes
<1>4. mark' \in [Collections -> Nat]
    BY <1>1 DEF MergeCollection, StoreTypes
<1> QED BY <1>2, <1>3, <1>4 DEF StoreTypes

\* So do a collection's rows reaching the pass.
LEMMA DeliverCollectionTypes ==
    ASSUME TypeOK, DeliverCollection
    PROVE  Parts'
<1>1. JobTypes /\ StoreTypes
    BY TypesInParts
<1>2. job # NoJob /\ job \in JobRow /\ job.coll \in Collections
      /\ job.answer \in CollectionAnswer \cup {Failed} /\ job.failed \in BOOLEAN
    BY <1>1, JobFields DEF DeliverCollection, Arrived, JobTypes
<1>3. CASE job.answer = Failed
    <2>1. UNCHANGED merged /\ Proceed(TRUE)
        BY <1>3 DEF DeliverCollection
    <2>2. MarkTypes' /\ JobTypes'
        BY <1>2, <2>1, ProceedTypes
    <2> QED BY <2>1, <2>2, UnchangedTypes DEF DeliverCollection, Parts
<1>4. CASE job.answer # Failed /\ session # job.uk
    <2>1. UNCHANGED merged /\ Drop
        BY <1>4 DEF DeliverCollection
    <2> QED BY <2>1, UnchangedTypes DEF DeliverCollection, Drop, JobTypes, Parts, marks, history
<1>5. CASE job.answer # Failed /\ session = job.uk
    <2>1. /\ MergeCollection(job.coll, job.answer)
          /\ UNCHANGED <<directCache, directMark, directFails>>
          /\ Proceed(job.failed \/ keys[job.coll] # job.answer.epoch)
        BY <1>5 DEF DeliverCollection
    <2>2. StoreTypes'
        BY <1>1, <1>2, <1>5, <2>1, MergeTypes
    <2>3. (job.failed \/ keys[job.coll] # job.answer.epoch) \in BOOLEAN
        BY <1>2
    <2>4. MarkTypes' /\ JobTypes'
        BY <1>2, <2>1, <2>3, ProceedTypes
    <2> QED BY <2>2, <2>4, UnchangedTypes DEF DeliverCollection, Parts
<1> QED BY <1>3, <1>4, <1>5

\* So do the directly shared rows reaching it.
LEMMA DeliverDirectTypes ==
    ASSUME TypeOK, DeliverDirect
    PROVE  Parts'
<1>1. JobTypes /\ LockTypes /\ MarkTypes
    BY TypesInParts
<1>2. job # NoJob /\ job \in JobRow /\ job.answer \in DirectAnswer \cup {Failed}
      /\ job.failed \in BOOLEAN /\ job.payload \in Payload
    BY <1>1, JobFields DEF DeliverDirect, Arrived, JobTypes
<1>3. CASE job.answer = Failed \/ session = 0
    <2>1. Finish(job.payload, job.failed \/ job.answer = Failed)
        BY <1>3 DEF DeliverDirect
    <2>2. (job.failed \/ job.answer = Failed) \in BOOLEAN
        BY <1>2
    <2>3. MarkTypes' /\ JobTypes'
        BY <1>1, <1>2, <2>1, <2>2, FinishTypes
    <2> QED BY <2>3, UnchangedTypes DEF DeliverDirect, Parts
<1>4. CASE job.answer # Failed /\ session # 0
    <2>1. job' = [job EXCEPT !.stage = "identity", !.uk = session] /\ UNCHANGED <<marks, history>>
        BY <1>4 DEF DeliverDirect
    <2>2. session \in Handles
        BY <1>1, <1>4 DEF LockTypes
    <2>3. job' \in JobRow /\ job'.stage = "identity" /\ job'.answer = job.answer
        BY <1>2, <2>1, <2>2 DEF JobRow
    <2>4. JobTypes'
        BY <1>2, <1>4, <2>3 DEF JobTypes
    <2> QED BY <2>1, <2>4, UnchangedTypes DEF DeliverDirect, Parts
<1> QED BY <1>3, <1>4

\* So does merging them once their senders' keys are known.
LEMMA MergeDirectTypes ==
    ASSUME TypeOK, NEW ok \in BOOLEAN, MergeDirect(ok)
    PROVE  Parts'
<1>1. JobTypes /\ StoreTypes /\ MarkTypes /\ BoundTypes
    BY TypesInParts
<1>2. job \in JobRow /\ job.answer \in DirectAnswer /\ job.failed \in BOOLEAN /\ job.payload \in Payload
    BY <1>1, JobFields DEF MergeDirect, Arrived, JobTypes
<1>3. job.answer.rev \in Nat /\ job.answer.rows \in Content
    BY <1>2 DEF DirectAnswer
<1>4. BoundTypes'
    BY <1>1, SyncAssumption DEF MergeDirect, BoundTypes
<1>5. StoreTypes' /\ \E failed \in BOOLEAN : Finish(job.payload, failed)
    <2>1. CASE session # job.uk
        BY <1>1, <2>1, UnchangedTypes DEF MergeDirect
    <2>2. CASE session = job.uk
        <3>1. /\ directCache' = IF ok THEN job.answer.rows ELSE directCache
              /\ directFails' = IF ok THEN 0 ELSE directFails + 1
              /\ directMark' = IF ok \/ directFails' >= MaxRetries THEN job.answer.rev ELSE directMark
              /\ UNCHANGED <<cache, mark, fails>>
              /\ Finish(job.payload, job.failed \/ ~ok)
            BY <2>2 DEF MergeDirect
        <3>2. StoreTypes'
            BY <1>1, <1>3, <3>1 DEF StoreTypes
        <3> QED BY <1>2, <3>1, <3>2
    <2> QED BY <2>1, <2>2
<1>6. MarkTypes' /\ JobTypes'
    BY <1>1, <1>2, <1>5, FinishTypes
<1> QED BY <1>4, <1>5, <1>6, UnchangedTypes DEF MergeDirect, Parts

\* Every step keeps the types.
LEMMA NextTypes == TypeOK /\ [Next]_vars => TypeOK'
<1> SUFFICES ASSUME TypeOK, [Next]_vars PROVE Parts'
    BY DEF Parts, TypeOK, RowTypes, BoundTypes, LockTypes, CallTypes, JobTypes, KeyTypes, StoreTypes, MarkTypes
<1>1. CASE UNCHANGED vars
    BY <1>1, UnchangedTypes DEF vars, client, Parts
<1>2. CASE Others
    BY <1>2, OthersType
<1>3. CASE Unlock
    BY <1>3, UnlockTypes
<1>4. CASE Lock
    BY <1>4, LockTypesHold
<1>5. CASE Refresher
    BY <1>5, RefresherTypes
<1>6. CASE Pass
    BY <1>6, StartTypes, AnswersType, DeliverListingTypes, DeliverCollectionTypes, DeliverDirectTypes,
       MergeDirectTypes DEF Pass
<1>7. CASE Faults
    BY <1>7, FailuresType, MergeDirectTypes DEF Faults
<1>8. ASSUME NEW p \in Pulls, AskRevisions(p) \/ Pull(p) PROVE Parts'
    BY <1>8, PullTypes
<1> QED BY <1>1, <1>2, <1>3, <1>4, <1>5, <1>6, <1>7, <1>8 DEF Next

\* A fresh tab has them.
LEMMA InitTypes == Init => TypeOK
<1> SUFFICES ASSUME Init PROVE TypeOK
    OBVIOUS
<1>1. RowTypes /\ BoundTypes /\ LockTypes
    <2>1. RowTypes
        <3>1. direct \in BOOLEAN
            BY DEF Init
        <3>2. /\ status \in {"none", "active", "suspended"} /\ holds \subseteq Collections
              /\ rev \in [Collections -> Nat] /\ past \in [Collections -> Nat] /\ epoch \in [Collections -> Nat]
            BY DEF Init, None
        <3>3. directRev \in {0, 1} /\ directPast = 0 /\ owed = 0
            BY DEF Init
        <3> QED BY <3>1, <3>2, <3>3 DEF RowTypes
    <2>2. BoundTypes
        BY SyncAssumption DEF Init, BoundTypes
    <2>3. LockTypes
        <3>1. session = 0 /\ sessions = 0 /\ disabled = FALSE /\ confirmed = FALSE
            BY DEF Init
        <3>2. disabled \in BOOLEAN /\ confirmed \in BOOLEAN
            BY <3>1
        <3>3. session \in {0, sessions} /\ sessions \in 0..MaxSessions
            BY <3>1, SyncAssumption
        <3> QED BY <3>2, <3>3 DEF LockTypes
    <2> QED BY <2>1, <2>2, <2>3
<1>2. <<>> \in Seq(Payload \cup {Purge}) /\ Len(<<>>) = 0
    OBVIOUS
<1>3. CallTypes
    <2>1. queue \in Seq(Payload \cup {Purge}) /\ Len(queue) <= MaxQueue
        BY <1>2, SyncAssumption DEF Init
    <2> QED BY <2>1 DEF Init, CallTypes
<1>4. JobTypes /\ KeyTypes /\ StoreTypes /\ MarkTypes
    BY EmptyShapes DEF Init, JobTypes, KeyTypes, StoreTypes, MarkTypes
<1> QED BY <1>1, <1>3, <1>4, TypesInParts

\* The rows, the calls in flight and the caches have their types, and the answer
\* a pass holds is that of the request it sent last.
THEOREM TypeCorrect == Spec => []TypeOK
<1>1. Init /\ [][Next]_vars => []TypeOK
    BY InitTypes, NextTypes, PTL
<1> QED BY <1>1 DEF Spec

-----------------------------------------------------------------------------
(* The inductive invariant.                                                *)

\* Content seen is not newer than content now.
Within(seen, now) == seen.at < now.at \/ (seen.at = now.at /\ seen.past <= now.past)

\* It is not newer than what is not newer than it.
LEMMA WithinOrder ==
    ASSUME NEW x \in Content, NEW y \in Content, NEW z \in Content
    PROVE  /\ Within(x, x) /\ Within(NoRows, x)
           /\ Within(x, y) /\ Within(y, z) => Within(x, z)
BY DEF Within, Content, NoRows

\* A collection's revision starts at 1.
RowsAreCounted == \A c \in Collections : rev[c] # 0

\* A payload never runs ahead of the rows it was read from.
Behind(payload) ==
    /\ \A c \in Collections : payload.colls[c] <= rev[c]
    /\ payload.direct <= directRev

ListingIsBehind(listing) == \A c \in Collections : listing[c] <= rev[c]

PullsAreBehind ==
    \A p \in Pulls : pull[p] # NoPull =>
        /\ pull[p].answer \notin {NoSnap, Gone} => Behind(pull[p].answer)
        /\ pull[p].colls # NoSnap => ListingIsBehind(pull[p].colls)
QueueIsBehind == \A i \in 1..Len(queue) : queue[i] # Purge => Behind(queue[i])
PassIsBehind == job # NoJob => Behind(job.payload)

\* A pass takes the keys in the order of the sessions.
SessionsAreCounted == job # NoJob => job.since <= job.uk /\ job.uk <= sessions

\* Nothing is marked as merged.
Cleared ==
    /\ cache = Empty /\ mark = None(Collections)
    /\ directCache = NoRows /\ directMark = 0

\* A locked store is empty, and so is one that was unlocked while a pass of an
\* earlier session had not come back.
LockedIsCleared == session = 0 => Cleared /\ keys = None(Collections)
OvertakenIsCleared == job # NoJob /\ session \notin {0, job.uk} => Cleared /\ outer = NoOuter

\* Marks and rows are no newer than the server's.
MarksAreBehind ==
    /\ \A c \in Collections : /\ mark[c] <= rev[c] /\ (mark[c] = 0 => cache[c] = NoRows)
                              /\ Within(cache[c], Rows(c))
    /\ directMark <= directRev /\ Within(directCache, DirectRows)

\* A cursor that is read before its rows is neither older than the payload of
\* the pass nor newer than the server's.
ReadsAreBetween ==
    job # NoJob /\ job.read # NoSnap =>
        /\ job.stage = "collection" =>
              job.payload.colls[job.coll] <= job.read /\ job.read <= rev[job.coll] /\ job.read # 0
        /\ job.stage = "direct" => job.payload.direct <= job.read /\ job.read <= directRev

\* Nor is the cursor of an answer older than the payload; and its rows are no
\* older than its cursor.
AnswersAreNewer ==
    job # NoJob /\ job.answer \notin NoAnswer =>
        /\ job.stage = "collection" =>
              /\ job.payload.colls[job.coll] <= job.answer.rev /\ job.answer.rev # 0
              /\ job.answer.rev <= job.answer.rows.at /\ Within(job.answer.rows, Rows(job.coll))
        /\ job.stage \in {"direct", "identity"} =>
              /\ job.payload.direct <= job.answer.rev
              /\ job.answer.rev <= job.answer.rows.at /\ Within(job.answer.rows, DirectRows)

\* The collections a pass still has to fetch, and the rows it decrypts.
PassInOrder ==
    job # NoJob =>
        /\ \A c \in job.todo : job.payload.colls[c] # 0
        /\ job.stage = "listing" => \A c \in Collections : job.payload.colls[c] # 0 => c \in job.todo
        /\ job.stage = "collection" => job.payload.colls[job.coll] # 0
        /\ job.stage \in {"direct", "identity"} => job.todo = {}
        /\ job.stage = "identity" => job.answer \notin NoAnswer

\* The mark m of collection c is as far as payload asks, or 0 if c is not in it.
MergedFor(m, payload, c) ==
    /\ payload.colls[c] = 0 => m = 0
    /\ payload.colls[c] <= m

\* What a pass of this session without a failure so far has been through.
PassCovers ==
    job # NoJob /\ session = job.since /\ ~job.failed /\ job.stage # "listing" =>
        \A c \in Collections :
            c \notin job.todo /\ ~(job.stage = "collection" /\ c = job.coll)
                => MergedFor(mark[c], job.payload, c)

\* Between two passes the outer mark is covered, unless the last one failed or
\* one outlived its session.
OuterIsCovered ==
    session # 0 /\ job = NoJob /\ ~carried /\ outerFails = 0 =>
        /\ \A c \in Collections : MergedFor(mark[c], outer, c)
        /\ outer.direct <= directMark

SyncInv ==
    /\ RowsAreCounted /\ PullsAreBehind /\ QueueIsBehind /\ PassIsBehind /\ SessionsAreCounted
    /\ LockedIsCleared /\ OvertakenIsCleared
    /\ MarksAreHonest /\ MarksAreBehind /\ ReadsAreBetween /\ AnswersAreNewer
    /\ PassInOrder /\ PassCovers /\ OuterIsCovered

\* What a step leaves alone stays true.
LEMMA UnchangedParts ==
    ASSUME SyncInv
    PROVE  /\ UNCHANGED server => RowsAreCounted'
           /\ UNCHANGED <<server, pull>> => PullsAreBehind'
           /\ UNCHANGED <<server, queue>> => QueueIsBehind'
           /\ UNCHANGED <<server, job>> => PassIsBehind'
           /\ UNCHANGED <<lock, job>> => SessionsAreCounted'
           /\ UNCHANGED <<lock, merged, keys>> => LockedIsCleared'
           /\ UNCHANGED <<lock, merged, job, outer>> => OvertakenIsCleared'
           /\ UNCHANGED merged => MarksAreHonest'
           /\ UNCHANGED <<server, merged>> => MarksAreBehind'
           /\ UNCHANGED <<server, job>> => ReadsAreBetween' /\ AnswersAreNewer'
           /\ UNCHANGED job => PassInOrder'
           /\ UNCHANGED <<lock, merged, job>> => PassCovers'
           /\ UNCHANGED <<lock, merged, job, outer, outerFails, carried>> => OuterIsCovered'
<1> USE DEF SyncInv
<1>1. UNCHANGED server => RowsAreCounted'
    BY DEF server, RowsAreCounted
<1>2. UNCHANGED <<server, pull>> => PullsAreBehind'
    BY DEF server, PullsAreBehind, ListingIsBehind, Behind
<1>3. UNCHANGED <<server, queue>> => QueueIsBehind'
    BY DEF server, QueueIsBehind, Behind
<1>4. UNCHANGED <<server, job>> => PassIsBehind'
    BY DEF server, PassIsBehind, Behind
<1>5. UNCHANGED <<lock, job>> => SessionsAreCounted'
    BY DEF lock, SessionsAreCounted
<1>6. UNCHANGED <<lock, merged, keys>> => LockedIsCleared'
    BY DEF lock, merged, LockedIsCleared, Cleared
<1>7. UNCHANGED <<lock, merged, job, outer>> => OvertakenIsCleared'
    BY DEF lock, merged, OvertakenIsCleared, Cleared
<1>8. UNCHANGED merged => MarksAreHonest'
    BY DEF merged, MarksAreHonest
<1>9. UNCHANGED <<server, merged>> => MarksAreBehind'
    BY DEF server, merged, MarksAreBehind, Rows, DirectRows
<1>10. UNCHANGED <<server, job>> => ReadsAreBetween' /\ AnswersAreNewer'
    BY DEF server, ReadsAreBetween, AnswersAreNewer, Rows, DirectRows
<1>11. UNCHANGED job => PassInOrder'
    BY DEF PassInOrder
<1>12. UNCHANGED <<lock, merged, job>> => PassCovers'
    BY DEF lock, merged, PassCovers
<1>13. UNCHANGED <<lock, merged, job, outer, outerFails, carried>> => OuterIsCovered'
    BY DEF lock, merged, OuterIsCovered
<1> QED BY <1>1, <1>2, <1>3, <1>4, <1>5, <1>6, <1>7, <1>8, <1>9, <1>10, <1>11, <1>12, <1>13

-----------------------------------------------------------------------------
(* The server moves on.                                                    *)

\* Revisions and contents only grow.
Grown ==
    /\ \A c \in Collections : rev[c] <= rev'[c] /\ Within(Rows(c), Rows(c)')
    /\ directRev <= directRev' /\ Within(DirectRows, DirectRows')

\* What others commit only raises them and leaves the tab alone.
LEMMA OthersGrow ==
    ASSUME TypeOK, RowsAreCounted, Others
    PROVE  Grown /\ RowsAreCounted' /\ UNCHANGED client
<1> USE DEF Grown, RowsAreCounted, Rows, DirectRows, Within, RowTypes, Moved
<1>1. RowTypes
    BY TypesInParts
<1>2. ASSUME NEW c \in Collections, EditItem(c) \/ Rekey(c) PROVE Grown /\ RowsAreCounted' /\ UNCHANGED client
    BY <1>1, <1>2 DEF EditItem, Rekey, Counted
<1>3. ASSUME NEW c \in Collections, Cascade(c) PROVE Grown /\ RowsAreCounted' /\ UNCHANGED client
    BY <1>1, <1>3 DEF Cascade
<1>4. ASSUME NEW c \in Collections, Grant(c) \/ Revoke(c) PROVE Grown /\ RowsAreCounted' /\ UNCHANGED client
    BY <1>1, <1>4 DEF Grant, Revoke
<1>5. ASSUME ShareDirect \/ ChangeShare \/ Leave PROVE Grown /\ RowsAreCounted' /\ UNCHANGED client
    <2>1. DirectCounted /\ UNCHANGED <<rev, past, client>>
        BY <1>5 DEF ShareDirect, ChangeShare, Leave
    <2> QED BY <1>1, <2>1 DEF DirectCounted
<1>6. ASSUME OwnerMoves \/ Dissolve PROVE Grown /\ RowsAreCounted' /\ UNCHANGED client
    <2>1. directPast' = directPast + 1 /\ UNCHANGED <<rev, past, directRev, client>>
        BY <1>6 DEF OwnerMoves, Dissolve
    <2> QED BY <1>1, <2>1
<1>7. ASSUME Join PROVE Grown /\ RowsAreCounted' /\ UNCHANGED client
    BY <1>1, <1>7 DEF Join
<1>8. ASSUME NEW to \in {"active", "suspended"}, SetStatus(to) PROVE Grown /\ RowsAreCounted' /\ UNCHANGED client
    BY <1>1, <1>8 DEF SetStatus
<1>9. ASSUME CountStatus PROVE Grown /\ RowsAreCounted' /\ UNCHANGED client
    BY <1>1, <1>9 DEF CountStatus, DirectCounted
<1> QED BY <1>2, <1>3, <1>4, <1>5, <1>6, <1>7, <1>8, <1>9 DEF Others

\* What was behind the rows stays behind.
LEMMA BehindStays ==
    ASSUME RowTypes, RowTypes', Grown, NEW payload \in Payload, Behind(payload)
    PROVE  /\ \A c \in Collections : payload.colls[c] <= rev'[c]
           /\ payload.direct <= directRev'
BY DEF RowTypes, Grown, Payload, Behind

\* What others commit keeps the invariant: marks and answers stay behind the
\* revisions.
LEMMA OthersKeep ==
    ASSUME TypeOK, TypeOK', SyncInv, Others
    PROVE  SyncInv'
<1>1. /\ RowTypes /\ RowTypes' /\ CallTypes /\ JobTypes /\ StoreTypes
    BY TypesInParts DEF TypeOK, RowTypes
<1>2. Grown /\ RowsAreCounted' /\ UNCHANGED client
    BY OthersGrow DEF SyncInv
<1>3. UNCHANGED <<lock, pull, queue, job, keys, merged, outer, outerFails, carried>>
    BY <1>2 DEF client, marks, history
<1>4. PullsAreBehind'
    <2> SUFFICES ASSUME NEW p \in Pulls, pull[p] # NoPull
                 PROVE  /\ pull[p].answer \notin {NoSnap, Gone} =>
                              /\ \A c \in Collections : pull[p].answer.colls[c] <= rev'[c]
                              /\ pull[p].answer.direct <= directRev'
                        /\ pull[p].colls # NoSnap => \A c \in Collections : pull[p].colls[c] <= rev'[c]
        BY <1>3 DEF PullsAreBehind, ListingIsBehind, Behind
    <2>1. /\ pull[p].answer \notin {NoSnap, Gone} => pull[p].answer \in Payload
          /\ pull[p].colls # NoSnap => pull[p].colls \in [Collections -> Nat]
        BY <1>1 DEF CallTypes, PullRow
    <2>2. /\ pull[p].answer \notin {NoSnap, Gone} => Behind(pull[p].answer)
          /\ pull[p].colls # NoSnap => ListingIsBehind(pull[p].colls)
        BY DEF SyncInv, PullsAreBehind
    <2>3. ASSUME pull[p].colls # NoSnap, NEW c \in Collections PROVE pull[p].colls[c] <= rev'[c]
        BY <1>1, <1>2, <2>1, <2>2, <2>3 DEF ListingIsBehind, Grown, RowTypes
    <2> QED BY <1>1, <1>2, <2>1, <2>2, <2>3, BehindStays
<1>5. QueueIsBehind'
    <2> SUFFICES ASSUME NEW i \in 1..Len(queue), queue[i] # Purge
                 PROVE  /\ \A c \in Collections : queue[i].colls[c] <= rev'[c]
                        /\ queue[i].direct <= directRev'
        BY <1>3 DEF QueueIsBehind, Behind
    <2>1. queue[i] \in Payload
        BY <1>1 DEF CallTypes
    <2>2. Behind(queue[i])
        BY DEF SyncInv, QueueIsBehind
    <2> QED BY <1>1, <1>2, <2>1, <2>2, BehindStays
<1>6. PassIsBehind'
    <2> SUFFICES ASSUME job # NoJob
                 PROVE  /\ \A c \in Collections : job.payload.colls[c] <= rev'[c]
                        /\ job.payload.direct <= directRev'
        BY <1>3 DEF PassIsBehind, Behind
    <2>1. job.payload \in Payload
        BY <1>1, JobFields DEF JobTypes
    <2>2. Behind(job.payload)
        BY DEF SyncInv, PassIsBehind
    <2> QED BY <1>1, <1>2, <2>1, <2>2, BehindStays
<1>7. (\A c \in Collections : Rows(c) \in Content /\ Rows(c)' \in Content)
      /\ DirectRows \in Content /\ DirectRows' \in Content
    BY <1>1 DEF RowTypes, Rows, DirectRows, Content
<1>8. MarksAreBehind'
    <2>1. ASSUME NEW c \in Collections
          PROVE  mark'[c] <= rev'[c] /\ (mark'[c] = 0 => cache'[c] = NoRows) /\ Within(cache'[c], Rows(c)')
        <3>1. cache' = cache /\ mark' = mark /\ cache[c] \in Content /\ mark[c] \in Nat
            BY <1>1, <1>3 DEF merged, StoreTypes
        <3>2. mark[c] <= rev[c] /\ (mark[c] = 0 => cache[c] = NoRows) /\ Within(cache[c], Rows(c))
            BY DEF SyncInv, MarksAreBehind
        <3>3. rev[c] <= rev'[c] /\ Within(Rows(c), Rows(c)') /\ rev[c] \in Nat /\ rev'[c] \in Nat
            BY <1>1, <1>2 DEF Grown, RowTypes
        <3>4. Within(cache[c], Rows(c)')
            BY <1>7, <3>1, <3>2, <3>3, WithinOrder
        <3> QED BY <3>1, <3>2, <3>3, <3>4
    <2>2. directMark' <= directRev' /\ Within(directCache', DirectRows')
        <3>1. directCache' = directCache /\ directMark' = directMark /\ directCache \in Content /\ directMark \in Nat
            BY <1>1, <1>3 DEF merged, StoreTypes
        <3>2. directMark <= directRev /\ Within(directCache, DirectRows)
            BY DEF SyncInv, MarksAreBehind
        <3>3. directRev <= directRev' /\ Within(DirectRows, DirectRows') /\ directRev \in Nat /\ directRev' \in Nat
            BY <1>1, <1>2 DEF Grown, RowTypes
        <3>4. Within(directCache, DirectRows')
            BY <1>7, <3>1, <3>2, <3>3, WithinOrder
        <3> QED BY <3>1, <3>2, <3>3, <3>4
    <2> QED BY <2>1, <2>2 DEF MarksAreBehind
<1>9. ReadsAreBetween'
    <2> SUFFICES ASSUME job # NoJob, job.read # NoSnap
                 PROVE  /\ job.stage = "collection" =>
                              /\ job.payload.colls[job.coll] <= job.read
                              /\ job.read <= rev'[job.coll] /\ job.read # 0
                        /\ job.stage = "direct" => job.payload.direct <= job.read /\ job.read <= directRev'
        BY <1>3 DEF ReadsAreBetween
    <2>1. job.read \in Nat /\ (job.stage = "collection" => job.coll \in Collections)
        BY <1>1 DEF JobTypes, JobRow
    <2> QED BY <1>1, <1>2, <2>1 DEF SyncInv, ReadsAreBetween, Grown, RowTypes
<1>10. AnswersAreNewer'
    <2> SUFFICES ASSUME job # NoJob, job.answer \notin NoAnswer
                 PROVE  /\ job.stage = "collection" =>
                              /\ job.payload.colls[job.coll] <= job.answer.rev /\ job.answer.rev # 0
                              /\ job.answer.rev <= job.answer.rows.at /\ Within(job.answer.rows, Rows(job.coll)')
                        /\ job.stage \in {"direct", "identity"} =>
                              /\ job.payload.direct <= job.answer.rev
                              /\ job.answer.rev <= job.answer.rows.at /\ Within(job.answer.rows, DirectRows')
        <3>1. job' = job
            BY <1>3
        <3> QED BY <3>1 DEF AnswersAreNewer, Rows
    <2>1. CASE job.stage = "collection"
        <3>1. job.answer.rows \in Content /\ job.coll \in Collections
            BY <1>1, <2>1 DEF JobTypes, CollectionAnswer
        <3>2. Within(job.answer.rows, Rows(job.coll)) /\ Within(Rows(job.coll), Rows(job.coll)')
            BY <1>2, <1>3, <2>1, <3>1 DEF SyncInv, AnswersAreNewer, Grown, Rows
        <3>3. Rows(job.coll) \in Content /\ Rows(job.coll)' \in Content
            BY <1>1, <1>3, <3>1 DEF RowTypes, Rows, Content
        <3>4. Within(job.answer.rows, Rows(job.coll)')
            BY <3>1, <3>2, <3>3, WithinOrder
        <3> QED BY <2>1, <3>4 DEF SyncInv, AnswersAreNewer
    <2>2. CASE job.stage \in {"direct", "identity"}
        <3>1. job.answer.rows \in Content
            BY <1>1, <2>2 DEF JobTypes, DirectAnswer
        <3>2. Within(job.answer.rows, DirectRows) /\ Within(DirectRows, DirectRows')
            BY <1>2, <2>2 DEF SyncInv, AnswersAreNewer, Grown
        <3>3. Within(job.answer.rows, DirectRows')
            BY <1>7, <3>1, <3>2, WithinOrder
        <3> QED BY <2>2, <3>3 DEF SyncInv, AnswersAreNewer
    <2> QED BY <2>1, <2>2
<1> QED BY <1>2, <1>3, <1>4, <1>5, <1>6, <1>8, <1>9, <1>10, UnchangedParts DEF SyncInv

-----------------------------------------------------------------------------
(* Calls, keys, locking and unlocking.                                     *)

\* Pulls keep it: what they queue is what the server has answered.
LEMMA PullsKeep ==
    ASSUME TypeOK, SyncInv, NEW p \in Pulls, AskRevisions(p) \/ Pull(p)
    PROVE  SyncInv'
<1>1. RowTypes /\ CallTypes
    BY TypesInParts
<1>2. UNCHANGED <<server, lock, job, keys, merged, outer, outerFails, carried>>
    BY DEF AskRevisions, Pull, ReadCollections, AnswerRevisions, DeliverRevisions, DeliverGone, marks, history
<1>3. PullsAreBehind'
    <2> SUFFICES ASSUME NEW q \in Pulls, pull'[q] # NoPull
                 PROVE  /\ pull'[q].answer \notin {NoSnap, Gone} => Behind(pull'[q].answer)
                        /\ pull'[q].colls # NoSnap => ListingIsBehind(pull'[q].colls)
        BY <1>2 DEF PullsAreBehind, ListingIsBehind, Behind, server
    <2>1. CASE pull'[q] = pull[q]
        BY <2>1 DEF SyncInv, PullsAreBehind
    <2>2. CASE q = p /\ pull'[q] # pull[q]
        <3>1. CASE AskRevisions(p)
            BY <1>1, <2>2, <3>1 DEF AskRevisions, NewPull, CallTypes
        <3>2. CASE ReadCollections(p)
            <4>1. pull[p] \in PullRow /\ pull[p].answer = NoSnap /\ pull[p].colls = NoSnap
                BY <1>1, <3>2 DEF ReadCollections, Asked, CallTypes
            <4>2. \/ pull'[p].answer = Gone /\ pull'[p].colls = NoSnap
                  \/ pull'[p].answer = NoSnap /\ pull'[p].colls = CollectionRevisions
                BY <1>1, <3>2, <4>1 DEF ReadCollections, CallTypes, PullRow
            <4>3. ListingIsBehind(CollectionRevisions)
                BY <1>1 DEF ListingIsBehind, CollectionRevisions, RowTypes
            <4> QED BY <2>2, <4>2, <4>3
        <3>3. CASE AnswerRevisions(p)
            <4>1. pull[p] \in PullRow /\ pull[p].colls # NoSnap /\ pull[p] # NoPull
                BY <1>1, <3>3 DEF AnswerRevisions, Asked, CallTypes
            <4>2. /\ pull'[p].answer = [colls |-> pull[p].colls, direct |-> directRev]
                  /\ pull'[p].colls = pull[p].colls
                BY <1>1, <3>3, <4>1 DEF AnswerRevisions, CallTypes, PullRow
            <4>3. ListingIsBehind(pull[p].colls)
                BY <4>1 DEF SyncInv, PullsAreBehind
            <4> QED BY <1>1, <2>2, <4>2, <4>3 DEF ListingIsBehind, Behind, RowTypes
        <3>4. CASE DeliverRevisions(p) \/ DeliverGone(p)
            BY <1>1, <2>2, <3>4 DEF DeliverRevisions, DeliverGone, CallTypes
        <3> QED BY <3>1, <3>2, <3>3, <3>4 DEF Pull
    <2>3. q # p => pull'[q] = pull[q]
        BY <1>1 DEF AskRevisions, Pull, ReadCollections, AnswerRevisions, DeliverRevisions, DeliverGone, CallTypes
    <2> QED BY <2>1, <2>2, <2>3
<1>4. QueueIsBehind'
    <2>1. \/ UNCHANGED queue
          \/ queue' = Append(queue, Purge)
          \/ pull[p] # NoPull /\ pull[p].answer \notin {NoSnap, Gone} /\ queue' = Append(queue, pull[p].answer)
        BY DEF AskRevisions, Pull, ReadCollections, AnswerRevisions, DeliverRevisions, DeliverGone, Answered
    <2>2. ASSUME NEW x \in Payload \cup {Purge}, x # Purge => Behind(x), queue' = Append(queue, x)
          PROVE  \A i \in 1..Len(queue') : queue'[i] # Purge => Behind(queue'[i])
        <3>1. /\ Len(queue') = Len(queue) + 1 /\ queue'[Len(queue) + 1] = x /\ Len(queue) \in Nat
              /\ \A i \in 1..Len(queue) : queue'[i] = queue[i]
            BY <1>1, <2>2 DEF CallTypes
        <3>2. \A i \in 1..Len(queue') : i \in 1..Len(queue) \/ i = Len(queue) + 1
            BY <3>1
        <3> QED BY <2>2, <3>1, <3>2 DEF SyncInv, QueueIsBehind
    <2>3. \A i \in 1..Len(queue') : queue'[i] # Purge => Behind(queue'[i])
        <3>1. CASE UNCHANGED queue
            BY <3>1 DEF SyncInv, QueueIsBehind
        <3>2. CASE queue' = Append(queue, Purge)
            BY <2>2, <3>2
        <3>3. CASE pull[p] # NoPull /\ pull[p].answer \notin {NoSnap, Gone} /\ queue' = Append(queue, pull[p].answer)
            <4>1. pull[p].answer \in Payload
                BY <1>1, <3>3 DEF CallTypes, PullRow
            <4>2. Behind(pull[p].answer)
                BY <3>3 DEF SyncInv, PullsAreBehind
            <4> QED BY <2>2, <3>3, <4>1, <4>2
        <3> QED BY <2>1, <3>1, <3>2, <3>3
    <2> QED BY <1>2, <2>3 DEF QueueIsBehind, Behind, server
<1> QED BY <1>2, <1>3, <1>4, UnchangedParts DEF SyncInv

\* The refresher keeps it: it fills the key cache of its own session only.
LEMMA RefresherKeeps ==
    ASSUME TypeOK, SyncInv, Refresher
    PROVE  SyncInv'
<1>1. CallTypes
    BY TypesInParts
<1>2. UNCHANGED <<server, lock, pull, queue, job, merged, outer, outerFails, carried>>
    BY DEF Refresher, RefresherLists, RefresherCaches, marks, history
<1>3. session = 0 => UNCHANGED keys
    <2>1. CASE RefresherLists
        BY <2>1 DEF RefresherLists
    <2>2. CASE RefresherCaches
        <3>1. refresher.uk # 0
            BY <1>1, <2>2 DEF RefresherCaches, CallTypes, RefresherRow
        <3> QED BY <2>2, <3>1 DEF RefresherCaches
    <2> QED BY <2>1, <2>2 DEF Refresher
<1>4. LockedIsCleared'
    BY <1>2, <1>3 DEF SyncInv, LockedIsCleared, Cleared, lock, merged
<1> QED BY <1>2, <1>4, UnchangedParts DEF SyncInv

\* A store that is cleared is behind the rows and honest about it.
LEMMA ClearedIsHonest ==
    ASSUME TypeOK, SyncInv, Cleared', UNCHANGED server
    PROVE  /\ MarksAreHonest' /\ MarksAreBehind'
           /\ \A c \in Collections : mark'[c] = 0
<1>1. \A c \in Collections : mark'[c] = 0 /\ cache'[c] = NoRows
    BY DEF Cleared, None, Empty
<1>2. directMark' = 0 /\ directCache' = NoRows
    BY DEF Cleared
<1>3. RowTypes /\ UNCHANGED <<rev, past, directRev, directPast>>
    BY TypesInParts DEF server
<1>4. /\ \A c \in Collections : Within(NoRows, Rows(c))
      /\ Within(NoRows, DirectRows)
    BY <1>3, ServerShapes, WithinOrder
<1>5. /\ \A c \in Collections : Within(cache'[c], Rows(c)')
      /\ Within(directCache', DirectRows')
    BY <1>1, <1>2, <1>3, <1>4 DEF Rows, DirectRows
<1>6. directCache'.at = 0
    BY <1>2 DEF NoRows
<1>7. MarksAreHonest'
    BY <1>1, <1>2, <1>6 DEF MarksAreHonest
<1>8. MarksAreBehind'
    BY <1>1, <1>2, <1>3, <1>5 DEF MarksAreBehind, RowTypes
<1> QED BY <1>1, <1>7, <1>8

\* Nor does it hide anything behind an outer mark that is not set.
LEMMA ClearedIsCovered ==
    ASSUME \A c \in Collections : mark'[c] = 0, directMark' = 0, outer' = NoOuter
    PROVE  OuterIsCovered'
BY DEF OuterIsCovered, MergedFor, NoOuter, None

\* Unlocking keeps it: a pass of an earlier session finds the store cleared.
LEMMA UnlockKeeps ==
    ASSUME TypeOK, SyncInv, Unlock
    PROVE  SyncInv'
<1>1. RowTypes /\ LockTypes /\ CallTypes /\ JobTypes
    BY TypesInParts
<1>2. /\ session = 0 /\ sessions' = sessions + 1 /\ session' = sessions + 1
      /\ UNCHANGED <<server, queue, job, keys, cache, directCache>>
      /\ mark' = None(Collections) /\ directMark' = 0 /\ outer' = NoOuter
    BY DEF Unlock, Handle
<1>3. Cleared'
    BY <1>2 DEF SyncInv, LockedIsCleared, Cleared
<1>4. sessions \in Nat
    BY <1>1, SyncAssumption DEF LockTypes
<1>5. PullsAreBehind'
    <2>1. PICK p \in Pulls : pull' = [pull EXCEPT ![p] = NewPull("eager")]
        BY DEF Unlock
    <2>2. \A q \in Pulls : pull'[q] = pull[q] \/ pull'[q].answer = NoSnap
        BY <1>1, <2>1 DEF CallTypes, NewPull
    <2>3. \A q \in Pulls : pull'[q] = pull[q] \/ pull'[q].colls = NoSnap
        BY <1>1, <2>1 DEF CallTypes, NewPull
    <2>4. \A q \in Pulls : pull'[q] = pull[q] \/ (pull'[q].answer = NoSnap /\ pull'[q].colls = NoSnap)
        BY <2>2, <2>3
    <2> QED BY <1>2, <2>4 DEF SyncInv, PullsAreBehind, ListingIsBehind, Behind, server
<1>6. job # NoJob => job.uk \in Handles /\ job.since \in Handles
    BY <1>1, JobFields DEF JobTypes
<1>7. SessionsAreCounted'
    BY <1>2, <1>4, <1>6 DEF SyncInv, SessionsAreCounted
<1>8. LockedIsCleared' /\ OvertakenIsCleared'
    BY <1>2, <1>3, <1>4 DEF LockedIsCleared, OvertakenIsCleared
<1>9. MarksAreHonest' /\ MarksAreBehind' /\ OuterIsCovered'
    BY <1>2, <1>3, ClearedIsHonest, ClearedIsCovered
<1>10. PassCovers'
    BY <1>2, <1>4, <1>6 DEF SyncInv, SessionsAreCounted, PassCovers
<1> QED BY <1>2, <1>5, <1>7, <1>8, <1>9, <1>10, UnchangedParts DEF SyncInv

\* Locking keeps it: it clears rows, marks, keys and outer mark together.
LEMMA LockKeeps ==
    ASSUME TypeOK, SyncInv, Lock
    PROVE  SyncInv'
<1>1. JobTypes
    BY TypesInParts
<1>2. /\ session' = 0 /\ UNCHANGED <<server, pull, queue, job, sessions>> /\ directMark' = 0
      /\ keys' = None(Collections)
    BY DEF Lock
<1>3. Cleared'
    BY DEF Lock, Cleared
<1>4. MarksAreHonest' /\ MarksAreBehind'
    BY <1>2, <1>3, ClearedIsHonest
<1>5. LockedIsCleared' /\ OvertakenIsCleared' /\ OuterIsCovered'
    BY <1>2, <1>3 DEF LockedIsCleared, OvertakenIsCleared, OuterIsCovered
<1>6. PassCovers'
    <2>1. job # NoJob => job.since # 0
        BY <1>1, JobFields DEF JobTypes
    <2> QED BY <1>2, <2>1 DEF PassCovers
<1>7. SessionsAreCounted'
    BY <1>2 DEF SyncInv, SessionsAreCounted
<1> QED BY <1>2, <1>4, <1>5, <1>6, <1>7, UnchangedParts DEF SyncInv

-----------------------------------------------------------------------------
(* A pass starts, and its requests are answered.                           *)

\* The queue without its head.
LEMMA TailIsBehind ==
    ASSUME CallTypes, SyncInv, queue # <<>>, UNCHANGED server, queue' = Tail(queue)
    PROVE  QueueIsBehind' /\ (Head(queue) # Purge => Behind(Head(queue)))
<1>1. Len(queue) \in Nat /\ Len(queue) >= 1
    BY DEF CallTypes
<1>2. /\ Head(queue) = queue[1] /\ Len(queue') = Len(queue) - 1
      /\ \A i \in 1..(Len(queue) - 1) : queue'[i] = queue[i + 1]
    BY <1>1 DEF CallTypes
<1>3. \A i \in 1..(Len(queue) - 1) : i + 1 \in 1..Len(queue)
    BY <1>1
<1>4. 1 \in 1..Len(queue)
    BY <1>1
<1>5. \A i \in 1..Len(queue') : queue'[i] # Purge => Behind(queue'[i])
    BY <1>2, <1>3 DEF SyncInv, QueueIsBehind
<1>6. QueueIsBehind'
    BY <1>5 DEF QueueIsBehind, Behind, server
<1> QED BY <1>2, <1>4, <1>6 DEF SyncInv, QueueIsBehind

\* A purge keeps it: rows and marks go together.
LEMMA StartPurgeKeeps ==
    ASSUME TypeOK, SyncInv, StartPurge
    PROVE  SyncInv'
<1>1. CallTypes
    BY TypesInParts
<1>2. /\ job = NoJob /\ queue # <<>> /\ UNCHANGED <<server, lock, pull, job>> /\ queue' = Tail(queue)
      /\ keys' = None(Collections) /\ directMark' = 0 /\ outer' = NoOuter
    BY DEF StartPurge
<1>3. Cleared'
    BY DEF StartPurge, Cleared
<1>4. QueueIsBehind'
    BY <1>1, <1>2, TailIsBehind
<1>5. MarksAreHonest' /\ MarksAreBehind' /\ OuterIsCovered'
    BY <1>2, <1>3, ClearedIsHonest, ClearedIsCovered
<1>6. LockedIsCleared' /\ OvertakenIsCleared' /\ AnswersAreNewer' /\ PassCovers'
    BY <1>2, <1>3 DEF LockedIsCleared, OvertakenIsCleared, AnswersAreNewer, PassCovers
<1> QED BY <1>2, <1>4, <1>5, <1>6, UnchangedParts DEF SyncInv

\* Starting a pass keeps it: its payload is what the server has answered.
LEMMA StartPassKeeps ==
    ASSUME TypeOK, SyncInv, StartPass
    PROVE  SyncInv'
<1>1. CallTypes /\ LockTypes
    BY TypesInParts
<1>2. /\ job = NoJob /\ queue # <<>> /\ Head(queue) # Purge
      /\ UNCHANGED <<server, lock, pull, keys, merged, outer, outerFails, carried>> /\ queue' = Tail(queue)
    BY DEF StartPass, history
<1>3. QueueIsBehind' /\ Behind(Head(queue))
    BY <1>1, <1>2, TailIsBehind
<1>4. CASE job' = NoJob
    BY <1>2, <1>3, <1>4, UnchangedParts DEF SyncInv
<1>5. CASE session # 0 /\ job' =
        [stage |-> "listing", uk |-> session, since |-> session, payload |-> Head(queue),
         todo |-> {c \in Collections : Head(queue).colls[c] # 0},
         coll |-> NoSnap, read |-> NoSnap, answer |-> NoSnap, failed |-> FALSE]
    <2>1. /\ job'.stage = "listing" /\ job'.uk = session /\ job'.since = session /\ job'.answer = NoSnap
          /\ job'.read = NoSnap /\ job'.payload = Head(queue) /\ job'.todo = {c \in Collections : job'.payload.colls[c] # 0}
        BY <1>5
    <2>2. job' # NoJob
        <3>1. job' \in JobRow
            BY <1>1, <1>2, <1>5, <2>1, QueueShapes DEF LockTypes, JobRow
        <3> QED BY <3>1, AbsenceAssumption
    <2>3. PassIsBehind'
        BY <1>2, <1>3, <2>1 DEF PassIsBehind, Behind, server
    <2>4. SessionsAreCounted'
        BY <1>1, <1>2, <1>5, <2>1, SyncAssumption DEF SessionsAreCounted, LockTypes, lock
    <2>5. /\ OvertakenIsCleared' /\ ReadsAreBetween' /\ AnswersAreNewer'
          /\ PassInOrder' /\ PassCovers' /\ OuterIsCovered'
        BY <1>2, <2>1, <2>2 DEF OvertakenIsCleared, ReadsAreBetween, AnswersAreNewer, PassInOrder, PassCovers, OuterIsCovered, lock
    <2> QED BY <1>2, <1>3, <2>3, <2>4, <2>5, UnchangedParts DEF SyncInv
<1> QED BY <1>2, <1>4, <1>5 DEF StartPass

\* What is asked of a pass's row apart from the cursor and the answer.
LEMMA RequestKeeps ==
    ASSUME TypeOK, SyncInv, job # NoJob, NEW read, NEW answer,
           job' = [job EXCEPT !.read = read, !.answer = answer], job' \in JobRow,
           job.stage \in {"listing", "collection", "direct"},
           UNCHANGED <<server, lock, pull, queue, keys, merged, outer, outerFails, carried>>,
           ReadsAreBetween', AnswersAreNewer'
    PROVE  SyncInv'
<1>1. job \in JobRow
    BY TypesInParts DEF JobTypes
<1>2. /\ job'.stage = job.stage /\ job'.coll = job.coll /\ job'.payload = job.payload
      /\ job'.uk = job.uk /\ job'.since = job.since /\ job'.todo = job.todo /\ job'.failed = job.failed
    BY <1>1 DEF JobRow
<1>3. UNCHANGED <<session, sessions, cache, mark, directCache, directMark>>
    BY DEF lock, merged
<1>4. PassIsBehind'
    BY <1>1, <1>2 DEF SyncInv, PassIsBehind, Behind, server
<1>5. SessionsAreCounted' /\ OvertakenIsCleared'
    BY <1>1, <1>2, <1>3 DEF SyncInv, SessionsAreCounted, OvertakenIsCleared, Cleared
<1>6. PassInOrder' /\ PassCovers'
    BY <1>1, <1>2, <1>3 DEF SyncInv, PassInOrder, PassCovers
<1>7. OuterIsCovered'
    BY AbsenceAssumption DEF OuterIsCovered
<1> QED BY <1>4, <1>5, <1>6, <1>7, UnchangedParts DEF SyncInv

\* A cursor that is read is the server's now.
LEMMA ReadKeeps ==
    ASSUME TypeOK, SyncInv, NEW stage \in {"collection", "direct"}, NEW cursor \in Nat, Read(stage, cursor),
           stage = "collection" => cursor = rev[job.coll],
           stage = "direct" => cursor = directRev
    PROVE  SyncInv'
<1>1. RowTypes /\ job # NoJob /\ job \in JobRow /\ job.stage = stage /\ job.answer = NoSnap
      /\ (stage = "collection" => job.coll \in Collections) /\ job.payload \in Payload
    BY TypesInParts, JobFields DEF Read, Waiting, JobTypes
<1>2. job' = [job EXCEPT !.read = cursor]
    BY DEF Read
<1>3. job' = [job EXCEPT !.read = cursor, !.answer = NoSnap]
    BY <1>1, <1>2 DEF JobRow
<1>4. /\ job'.read = cursor /\ job'.answer = NoSnap /\ job'.stage = stage /\ job'.coll = job.coll
      /\ job'.payload = job.payload /\ job' \in JobRow
    BY <1>1, <1>2 DEF JobRow
<1>5. UNCHANGED <<server, lock, pull, queue, keys, merged, outer, outerFails, carried>>
    BY DEF Read, marks, history
<1>6. Behind(job.payload)
    BY <1>1 DEF SyncInv, PassIsBehind
<1>7. stage = "collection" => /\ job.payload.colls[job.coll] <= cursor
                              /\ cursor <= rev'[job.coll] /\ cursor # 0
    BY <1>1, <1>5, <1>6 DEF Behind, RowTypes, server, SyncInv, RowsAreCounted
<1>8. stage = "direct" => job.payload.direct <= cursor /\ cursor <= directRev'
    BY <1>1, <1>5, <1>6 DEF Behind, RowTypes, server
<1>9. ReadsAreBetween' /\ AnswersAreNewer'
    BY <1>4, <1>7, <1>8 DEF ReadsAreBetween, AnswersAreNewer
<1> QED BY <1>1, <1>3, <1>4, <1>5, <1>9, RequestKeeps

\* So are the rows of an answer, and they are not older than its cursor.
LEMMA AnswerKeeps ==
    ASSUME TypeOK, SyncInv, NEW stage \in {"listing", "collection", "direct"}, NEW answer,
           Waiting(stage), job' = [job EXCEPT !.answer = answer], job' \in JobRow,
           UNCHANGED <<server, lock, pull, queue, keys, merged, outer, outerFails, carried>>,
           answer \notin NoAnswer =>
               /\ stage = "collection" => job.read # NoSnap /\ answer.rev = job.read /\ answer.rows = Rows(job.coll)
               /\ stage = "direct" => job.read # NoSnap /\ answer.rev = job.read /\ answer.rows = DirectRows
    PROVE  SyncInv'
<1>1. RowTypes /\ job # NoJob /\ job \in JobRow /\ job.stage = stage
      /\ (stage = "collection" => job.coll \in Collections) /\ job.payload \in Payload
    BY TypesInParts, JobFields DEF Waiting, JobTypes
<1>2. job' = [job EXCEPT !.read = job.read, !.answer = answer]
    BY <1>1 DEF JobRow
<1>3. /\ job'.read = job.read /\ job'.answer = answer /\ job'.stage = stage /\ job'.coll = job.coll
      /\ job'.payload = job.payload
    BY <1>1 DEF JobRow
<1>4. UNCHANGED <<rev, past, directRev, directPast>>
    BY DEF server
<1>5. ReadsAreBetween'
    BY <1>1, <1>3, <1>4 DEF SyncInv, ReadsAreBetween
<1>6. answer \notin NoAnswer /\ stage = "collection" =>
        /\ job.payload.colls[job.coll] <= answer.rev /\ answer.rev # 0
        /\ answer.rev <= answer.rows.at /\ Within(answer.rows, Rows(job.coll))
    <2> SUFFICES ASSUME answer \notin NoAnswer, stage = "collection"
                 PROVE  /\ job.payload.colls[job.coll] <= answer.rev /\ answer.rev # 0
                        /\ answer.rev <= answer.rows.at /\ Within(answer.rows, Rows(job.coll))
        OBVIOUS
    <2>1. job.payload.colls[job.coll] <= job.read /\ job.read <= rev[job.coll] /\ job.read # 0
        BY <1>1 DEF SyncInv, ReadsAreBetween
    <2>2. Rows(job.coll).at = rev[job.coll]
        BY DEF Rows
    <2>3. Within(Rows(job.coll), Rows(job.coll))
        BY <1>1, ServerShapes, WithinOrder
    <2> QED BY <2>1, <2>2, <2>3
<1>7. answer \notin NoAnswer /\ stage = "direct" =>
        /\ job.payload.direct <= answer.rev
        /\ answer.rev <= answer.rows.at /\ Within(answer.rows, DirectRows)
    <2> SUFFICES ASSUME answer \notin NoAnswer, stage = "direct"
                 PROVE  /\ job.payload.direct <= answer.rev
                        /\ answer.rev <= answer.rows.at /\ Within(answer.rows, DirectRows)
        OBVIOUS
    <2>1. job.payload.direct <= job.read /\ job.read <= directRev
        BY <1>1 DEF SyncInv, ReadsAreBetween
    <2>2. DirectRows.at = directRev
        BY DEF DirectRows
    <2>3. Within(DirectRows, DirectRows)
        BY <1>1, ServerShapes, WithinOrder
    <2> QED BY <2>1, <2>2, <2>3
<1>8. AnswersAreNewer'
    BY <1>1, <1>3, <1>4, <1>6, <1>7 DEF AnswersAreNewer, Rows, DirectRows
<1> QED BY <1>1, <1>2, <1>5, <1>8, RequestKeeps

\* The server's side of a pass keeps it.
LEMMA AnswersKeep ==
    ASSUME TypeOK, SyncInv,
           \/ AnswerListing \/ ReadCollection \/ RefuseCollection \/ AnswerCollection
           \/ ReadDirect \/ AnswerDirect
    PROVE  SyncInv'
<1>1. RowTypes /\ JobTypes
    BY TypesInParts
<1>2. ASSUME NEW stage \in {"listing", "collection", "direct"}, NEW answer, Answer(stage, answer),
             stage = "listing" => answer \in Listings \cup NoAnswer,
             stage = "collection" => answer \in CollectionAnswer \cup NoAnswer,
             stage = "direct" => answer \in DirectAnswer \cup NoAnswer,
             answer \notin NoAnswer =>
               /\ stage = "collection" => job.read # NoSnap /\ answer.rev = job.read /\ answer.rows = Rows(job.coll)
               /\ stage = "direct" => job.read # NoSnap /\ answer.rev = job.read /\ answer.rows = DirectRows
      PROVE  SyncInv'
    <2>1. Waiting(stage) /\ job' = [job EXCEPT !.answer = answer]
        BY <1>2 DEF Answer
    <2>2. job' \in JobRow
        BY <1>2, <2>1, AnswerTypes
    <2>3. UNCHANGED <<server, lock, pull, queue, keys, merged, outer, outerFails, carried>>
        BY <1>2 DEF Answer, marks, history
    <2> QED BY <1>2, <2>1, <2>2, <2>3, AnswerKeeps
<1>3. CASE AnswerListing
    BY <1>1, <1>2, <1>3, ServerShapes DEF AnswerListing
<1>4. CASE ReadCollection
    <2>1. job.coll \in Collections /\ Read("collection", rev[job.coll])
        BY <1>1, <1>4 DEF ReadCollection, Read, Waiting, JobTypes
    <2>2. rev[job.coll] \in Nat
        BY <1>1, <2>1 DEF RowTypes
    <2> QED BY <2>1, <2>2, ReadKeeps
<1>5. CASE RefuseCollection
    BY <1>2, <1>5 DEF RefuseCollection
<1>6. CASE AnswerCollection
    <2> DEFINE answer == [rev |-> job.read, rows |-> Rows(job.coll), epoch |-> epoch[job.coll]]
    <2>1. Answer("collection", answer) /\ job.read # NoSnap
        BY <1>6 DEF AnswerCollection
    <2>2. job \in JobRow /\ job.coll \in Collections
        BY <1>1, <2>1 DEF Answer, Waiting, JobTypes
    <2>3. answer \in CollectionAnswer
        BY <1>1, <2>1, <2>2, ServerShapes DEF RowTypes, CollectionAnswer, JobRow
    <2>4. answer.rev = job.read /\ answer.rows = Rows(job.coll)
        OBVIOUS
    <2> HIDE DEF answer
    <2> QED BY <1>2, <2>1, <2>3, <2>4
<1>7. CASE ReadDirect
    BY <1>1, <1>7, ReadKeeps DEF ReadDirect, RowTypes
<1>8. CASE AnswerDirect
    <2> DEFINE answer == [rev |-> job.read, rows |-> DirectRows]
    <2>1. Answer("direct", answer) /\ job.read # NoSnap /\ job \in JobRow
        BY <1>1, <1>8 DEF AnswerDirect, JobTypes
    <2>2. answer \in DirectAnswer
        BY <1>1, <2>1, ServerShapes DEF DirectAnswer, JobRow
    <2>3. answer.rev = job.read /\ answer.rows = DirectRows
        OBVIOUS
    <2> HIDE DEF answer
    <2> QED BY <1>2, <2>1, <2>2, <2>3
<1> QED BY <1>3, <1>4, <1>5, <1>6, <1>7, <1>8

\* A failed request keeps it: what was to be fetched counts as failed.
LEMMA FailuresKeep ==
    ASSUME TypeOK, SyncInv, NEW stage \in {"listing", "collection", "direct"}, Fail(stage)
    PROVE  SyncInv'
<1>1. /\ UNCHANGED <<server, lock, pull, queue, keys, merged, outer, outerFails, carried>>
      /\ Waiting(stage) /\ job' = [job EXCEPT !.answer = Failed]
    BY DEF Fail, marks, history
<1>2. job' \in JobRow
    BY <1>1, AnswerTypes
<1> QED BY <1>1, <1>2, AnswerKeeps

-----------------------------------------------------------------------------
(* A pass comes back.                                                      *)

\* What the steps that end or go on with a pass establish about it.
PassInv ==
    /\ PassIsBehind /\ SessionsAreCounted /\ OvertakenIsCleared /\ ReadsAreBetween /\ AnswersAreNewer
    /\ PassInOrder /\ PassCovers /\ OuterIsCovered

\* A pass that ends leaves an outer mark that is covered.
LEMMA FinishKeeps ==
    ASSUME TypeOK, job # NoJob, UNCHANGED lock, NEW payload \in Payload, NEW failed \in BOOLEAN,
           Finish(payload, failed),
           session # 0 /\ session = job.since /\ ~failed =>
               /\ \A c \in Collections : MergedFor(mark'[c], payload, c)
               /\ payload.direct <= directMark'
    PROVE  PassInv'
<1>1. job' = NoJob
    BY DEF Finish
<1>2. OuterIsCovered'
    <2> SUFFICES ASSUME session' # 0, ~carried', outerFails' = 0
                 PROVE  /\ \A c \in Collections : MergedFor(mark'[c], outer', c)
                        /\ outer'.direct <= directMark'
        BY DEF OuterIsCovered, MergedFor
    <2>1. session = session'
        BY DEF lock
    <2>2. session = job.since
        BY DEF Finish
    <2>3. outerFails \in Nat
        BY DEF TypeOK
    <2>4. ~failed
        BY <2>3 DEF Finish
    <2>5. outer' = payload
        BY <2>4 DEF Finish
    <2> QED BY <2>1, <2>2, <2>4, <2>5
<1> QED BY <1>1, <1>2 DEF PassInv, PassIsBehind, SessionsAreCounted, OvertakenIsCleared, ReadsAreBetween,
                          AnswersAreNewer, PassInOrder, PassCovers

\* So does a pass that goes on, or it has what its next request needs.
LEMMA ProceedKeeps ==
    ASSUME TypeOK, SyncInv, job # NoJob, UNCHANGED <<server, lock, directMark>>,
           NEW failed \in BOOLEAN, Proceed(failed), mark' \in [Collections -> Nat],
           session # 0 /\ session = job.since /\ ~failed =>
               \A c \in Collections \ job.todo : MergedFor(mark'[c], job.payload, c)
    PROVE  PassInv'
<1>1. job \in JobRow /\ LockTypes /\ StoreTypes
    BY TypesInParts DEF JobTypes
<1>2. /\ job.since \in Handles /\ job.payload \in Payload /\ job.todo \subseteq Collections
      /\ job.payload.colls \in [Collections -> Nat] /\ job.payload.direct \in Nat
    BY <1>1, JobFields
<1>3. \A c \in job.todo : job.payload.colls[c] # 0
    BY DEF SyncInv, PassInOrder
<1>4. session # 0 /\ session = job.since /\ ~failed =>
          \A c \in Collections \ Left : MergedFor(mark'[c], job.payload, c)
    BY <1>2, <1>3 DEF Left, MergedFor
<1>5. Behind(job.payload)
    BY DEF SyncInv, PassIsBehind
<1>6. session' = session /\ sessions' = sessions
    BY DEF lock
<1>7. CASE session = 0 /\ Drop
    <2>1. job' = NoJob
        BY <1>7 DEF Drop
    <2> QED BY <1>6, <1>7, <2>1 DEF PassInv, PassIsBehind, SessionsAreCounted, OvertakenIsCleared,
                                    ReadsAreBetween, AnswersAreNewer, PassInOrder, PassCovers, OuterIsCovered
<1>8. ASSUME NEW stage \in {"collection", "direct"}, NEW todo \in SUBSET Collections,
             NEW coll \in Collections \cup {NoSnap},
             session # 0, job' = Asking(stage, todo, coll, failed), todo \subseteq Left,
             stage = "collection" => coll \in Left /\ Left \subseteq todo \cup {coll},
             stage = "direct" => Left = {}
      PROVE  PassInv'
    <2>1. /\ job'.stage = stage /\ job'.uk = session /\ job'.since = job.since /\ job'.payload = job.payload
          /\ job'.todo = todo /\ job'.coll = coll /\ job'.read = NoSnap /\ job'.answer = NoSnap /\ job'.failed = failed
        BY <1>8 DEF Asking
    <2>2. session \in Handles /\ session = sessions /\ sessions \in Nat
        BY <1>1, <1>8, SyncAssumption DEF LockTypes
    <2>3. job' # NoJob
        <3>1. job' \in JobRow
            BY <1>2, <1>8, <2>2 DEF Asking, JobRow
        <3> QED BY <3>1, AbsenceAssumption
    <2>4. PassIsBehind'
        BY <1>5, <2>1 DEF PassIsBehind, Behind, server
    <2>5. SessionsAreCounted'
        <3>1. job.since <= job.uk /\ job.uk <= sessions /\ job.uk \in Nat
            BY <1>1, JobFields DEF SyncInv, SessionsAreCounted
        <3> QED BY <1>2, <1>6, <2>1, <2>2, <3>1 DEF SessionsAreCounted
    <2>6. OvertakenIsCleared' /\ ReadsAreBetween' /\ AnswersAreNewer' /\ OuterIsCovered'
        BY <1>6, <2>1, <2>3 DEF OvertakenIsCleared, ReadsAreBetween, AnswersAreNewer, OuterIsCovered
    <2>7. PassInOrder'
        BY <1>3, <1>8, <2>1 DEF PassInOrder, Left
    <2>8. PassCovers'
        <3> SUFFICES ASSUME session = job.since, ~failed, NEW c \in Collections,
                            c \notin todo, ~(stage = "collection" /\ c = coll)
                     PROVE  MergedFor(mark'[c], job.payload, c)
            BY <1>6, <2>1 DEF PassCovers, MergedFor
        <3>1. c \notin Left
            BY <1>8
        <3> QED BY <1>2, <1>4, <1>8, <3>1
    <2> QED BY <2>4, <2>5, <2>6, <2>7, <2>8 DEF PassInv
<1>9. CASE session # 0 /\ \E c \in Left : job' = Asking("collection", Left \ {c}, c, failed)
    <2>1. PICK c \in Left : job' = Asking("collection", Left \ {c}, c, failed)
        BY <1>9
    <2>2. Left \ {c} \in SUBSET Collections /\ c \in Collections /\ Left \subseteq (Left \ {c}) \cup {c}
        BY <1>2 DEF Left
    <2> QED BY <1>8, <1>9, <2>1, <2>2
<1>10. CASE session # 0 /\ Left = {} /\ job' = Asking("direct", {}, NoSnap, failed)
    BY <1>8, <1>10
<1>11. CASE Left = {} /\ (session = 0 \/ directMark = job.payload.direct) /\ Finish(job.payload, failed)
    <2>1. session # 0 /\ session = job.since /\ ~failed =>
            /\ \A c \in Collections : MergedFor(mark'[c], job.payload, c)
            /\ job.payload.direct <= directMark'
        BY <1>2, <1>4, <1>11
    <2> QED BY <1>2, <1>11, <2>1, FinishKeeps
<1> QED BY <1>1, <1>7, <1>9, <1>10, <1>11, ProceedOutcomes

\* The listing keeps it: what the caller lost is purged with its mark, the
\* rest is still to fetch.
LEMMA DeliverListingKeeps ==
    ASSUME TypeOK, SyncInv, DeliverListing
    PROVE  SyncInv'
<1>1. JobTypes /\ LockTypes /\ StoreTypes /\ RowTypes
    BY TypesInParts
<1>2. /\ job # NoJob /\ job \in JobRow /\ job.stage = "listing"
      /\ UNCHANGED <<server, lock, pull, queue>>
    BY <1>1 DEF DeliverListing, Arrived, JobTypes
<1>3. job.uk # 0
    BY <1>2, JobFields
<1>4. CASE session = 0
    <2>1. Drop /\ UNCHANGED <<merged, keys>>
        BY <1>3, <1>4 DEF DeliverListing
    <2>2. job' = NoJob /\ session' = 0
        BY <1>2, <1>4, <2>1 DEF Drop, lock
    <2>3. /\ PassIsBehind' /\ SessionsAreCounted' /\ OvertakenIsCleared' /\ ReadsAreBetween'
          /\ AnswersAreNewer' /\ PassInOrder' /\ PassCovers' /\ OuterIsCovered'
        BY <2>2 DEF PassIsBehind, SessionsAreCounted, OvertakenIsCleared, ReadsAreBetween, AnswersAreNewer,
                    PassInOrder, PassCovers, OuterIsCovered
    <2> QED BY <1>2, <2>1, <2>3, UnchangedParts DEF SyncInv
<1>5. CASE session # 0
    <2> DEFINE revoked == {c \in Collections : mark[c] # 0 /\ job.payload.colls[c] = 0}
    <2>1. /\ mark' = [c \in Collections |-> IF c \in revoked THEN 0 ELSE mark[c]]
          /\ cache' = [c \in Collections |-> IF c \in revoked THEN NoRows ELSE cache[c]]
          /\ UNCHANGED <<fails, directCache, directMark, directFails>>
          /\ Proceed(job.answer = Failed)
        BY <1>5 DEF DeliverListing
    <2>2. \A c \in Collections : /\ mark'[c] = IF c \in revoked THEN 0 ELSE mark[c]
                                 /\ cache'[c] = IF c \in revoked THEN NoRows ELSE cache[c]
        BY <2>1
    <2>3. mark' \in [Collections -> Nat]
        BY <1>1, <2>1 DEF StoreTypes
    <2>4. \A c \in Collections \ job.todo : MergedFor(mark'[c], job.payload, c)
        <3>1. \A c \in Collections \ job.todo : job.payload.colls[c] = 0
            BY <1>2 DEF SyncInv, PassInOrder
        <3> QED BY <2>2, <2>3, <3>1 DEF MergedFor
    <2> HIDE DEF revoked
    <2>5. PassInv'
        BY <1>2, <2>1, <2>3, <2>4, ProceedKeeps
    <2>6. MarksAreHonest'
        BY <1>1, <2>1, <2>2 DEF SyncInv, MarksAreHonest
    <2>7. MarksAreBehind'
        <3>1. UNCHANGED <<rev, past, directRev, directPast>>
            BY <1>2 DEF server
        <3>2. \A c \in Collections : Within(NoRows, Rows(c))
            BY <1>1, ServerShapes, WithinOrder
        <3>3. \A c \in Collections : /\ mark'[c] <= rev'[c] /\ (mark'[c] = 0 => cache'[c] = NoRows)
                                     /\ Within(cache'[c], Rows(c))
            BY <1>1, <2>2, <3>1, <3>2 DEF SyncInv, MarksAreBehind, RowTypes, StoreTypes
        <3> QED BY <2>1, <3>1, <3>3 DEF SyncInv, MarksAreBehind, Rows, DirectRows
    <2>8. LockedIsCleared'
        BY <1>2, <1>5 DEF LockedIsCleared, lock
    <2> QED BY <1>2, <2>5, <2>6, <2>7, <2>8, UnchangedParts DEF SyncInv, PassInv
<1> QED BY <1>4, <1>5

\* Merging an answer of a collection leaves the marks honest and behind.
LEMMA MergingIsHonest ==
    ASSUME StoreTypes, RowTypes, MarksAreHonest, MarksAreBehind,
           NEW c \in Collections, NEW snap \in CollectionAnswer, MergeCollection(c, snap),
           snap.rev # 0, snap.rev <= snap.rows.at, Within(snap.rows, Rows(c)), UNCHANGED server,
           UNCHANGED <<directCache, directMark, directFails>>
    PROVE  /\ MarksAreHonest' /\ MarksAreBehind'
           /\ \A d \in Collections \ {c} : mark'[d] = mark[d]
           /\ keys[c] = snap.epoch => mark'[c] = snap.rev
<1>1. snap.rev \in Nat /\ snap.rows \in Content /\ snap.rows.at \in Nat
    BY DEF CollectionAnswer, Content
<1>2. UNCHANGED <<rev, past, directRev, directPast>>
    BY DEF server
<1>3. \A d \in Collections \ {c} : mark'[d] = mark[d] /\ cache'[d] = cache[d] /\ fails'[d] = fails[d]
    BY DEF MergeCollection, StoreTypes
<1>4. keys[c] = snap.epoch => mark'[c] = snap.rev /\ cache'[c] = snap.rows
    BY DEF MergeCollection, StoreTypes
<1>5. keys[c] # snap.epoch =>
        /\ cache'[c] = cache[c] /\ fails'[c] = fails[c] + 1
        /\ \/ fails'[c] >= MaxRetries /\ mark'[c] = snap.rev
           \/ mark'[c] = mark[c]
    BY DEF MergeCollection, StoreTypes
<1>6. fails[c] \in Nat /\ mark[c] \in Nat /\ rev[c] \in Nat
    BY DEF StoreTypes, RowTypes
<1>7. snap.rev <= rev[c]
    BY <1>1, <1>6 DEF Within, Rows
<1>8. MarksAreHonest'
    <2>1. ASSUME NEW d \in Collections, mark'[d] # 0 PROVE mark'[d] <= cache'[d].at \/ fails'[d] >= MaxRetries
        <3>1. CASE d # c
            BY <1>3, <2>1, <3>1 DEF MarksAreHonest
        <3>2. CASE d = c
            BY <1>4, <1>5, <1>6, <2>1, <3>2, SyncAssumption DEF MarksAreHonest
        <3> QED BY <3>1, <3>2
    <2> QED BY <2>1 DEF MarksAreHonest
<1>9. MarksAreBehind'
    <2>1. ASSUME NEW d \in Collections
          PROVE  mark'[d] <= rev'[d] /\ (mark'[d] = 0 => cache'[d] = NoRows) /\ Within(cache'[d], Rows(d))
        <3>1. CASE d # c
            BY <1>2, <1>3, <3>1 DEF MarksAreBehind
        <3>2. CASE d = c
            BY <1>1, <1>2, <1>4, <1>5, <1>6, <1>7, <3>2 DEF MarksAreBehind
        <3> QED BY <3>1, <3>2
    <2> QED BY <1>2, <2>1 DEF MarksAreBehind, Rows, DirectRows
<1> QED BY <1>3, <1>4, <1>8, <1>9

\* Merging a collection keeps it: rows and mark move together, or the
\* failure is counted.
LEMMA DeliverCollectionKeeps ==
    ASSUME TypeOK, SyncInv, DeliverCollection
    PROVE  SyncInv'
<1>1. JobTypes /\ LockTypes /\ StoreTypes /\ RowTypes
    BY TypesInParts
<1>2. /\ job # NoJob /\ job \in JobRow /\ job.stage = "collection" /\ job.coll \in Collections
      /\ job.answer \in CollectionAnswer \cup {Failed} /\ job.answer # NoSnap
      /\ UNCHANGED <<server, lock, pull, queue, keys>>
    BY <1>1 DEF DeliverCollection, Arrived, JobTypes
<1>3. /\ job.uk # 0 /\ job.failed \in BOOLEAN /\ job.payload.colls \in [Collections -> Nat]
    BY <1>2, JobFields
<1>4. CASE job.answer = Failed
    <2>1. UNCHANGED merged /\ Proceed(TRUE)
        BY <1>4 DEF DeliverCollection
    <2>2. mark' \in [Collections -> Nat] /\ UNCHANGED directMark
        BY <1>1, <2>1 DEF merged, StoreTypes
    <2>3. PassInv'
        BY <1>2, <2>1, <2>2, ProceedKeeps
    <2> QED BY <1>2, <2>1, <2>3, UnchangedParts DEF SyncInv, PassInv
<1>5. CASE job.answer # Failed /\ session # job.uk
    <2>1. UNCHANGED merged /\ Drop
        BY <1>5 DEF DeliverCollection
    <2>2. job' = NoJob /\ UNCHANGED <<session, mark, directMark, outer>>
        BY <1>2, <2>1 DEF Drop, lock, marks, merged
    <2>3. session # 0 => /\ \A c \in Collections : mark[c] = 0
                         /\ directMark = 0 /\ outer = NoOuter
        BY <1>2, <1>5 DEF SyncInv, OvertakenIsCleared, Cleared, None
    <2>4. OuterIsCovered'
        BY <2>2, <2>3 DEF OuterIsCovered, MergedFor, NoOuter, None
    <2>5. /\ PassIsBehind' /\ SessionsAreCounted' /\ OvertakenIsCleared' /\ ReadsAreBetween'
          /\ AnswersAreNewer' /\ PassInOrder' /\ PassCovers'
        BY <2>2 DEF PassIsBehind, SessionsAreCounted, OvertakenIsCleared, ReadsAreBetween, AnswersAreNewer,
                    PassInOrder, PassCovers
    <2> QED BY <1>2, <2>1, <2>4, <2>5, UnchangedParts DEF SyncInv
<1>6. CASE job.answer # Failed /\ session = job.uk
    <2> DEFINE failed == job.failed \/ keys[job.coll] # job.answer.epoch
    <2>1. /\ MergeCollection(job.coll, job.answer)
          /\ UNCHANGED <<directCache, directMark, directFails>>
          /\ Proceed(failed)
        BY <1>6 DEF DeliverCollection
    <2>2. job.answer \in CollectionAnswer /\ job.answer.rev \in Nat
        BY <1>2, <1>6 DEF CollectionAnswer
    <2>3. /\ job.payload.colls[job.coll] <= job.answer.rev /\ job.answer.rev # 0
          /\ job.answer.rev <= job.answer.rows.at /\ Within(job.answer.rows, Rows(job.coll))
        BY <1>2, <1>6 DEF SyncInv, AnswersAreNewer
    <2>4. /\ MarksAreHonest' /\ MarksAreBehind'
          /\ \A d \in Collections \ {job.coll} : mark'[d] = mark[d]
          /\ keys[job.coll] = job.answer.epoch => mark'[job.coll] = job.answer.rev
        BY <1>1, <1>2, <2>1, <2>2, <2>3, MergingIsHonest DEF SyncInv
    <2>5. mark' \in [Collections -> Nat]
        BY <1>1, <1>2, <2>1, <2>2, MergeTypes DEF StoreTypes
    <2>6. session = job.since /\ ~failed => \A c \in Collections \ job.todo : MergedFor(mark'[c], job.payload, c)
        <3> SUFFICES ASSUME session = job.since, ~failed, NEW c \in Collections \ job.todo
                     PROVE  MergedFor(mark'[c], job.payload, c)
            OBVIOUS
        <3>1. CASE c = job.coll
            <4>1. job.payload.colls[c] # 0
                BY <1>2, <3>1 DEF SyncInv, PassInOrder
            <4> QED BY <2>3, <2>4, <3>1, <4>1 DEF MergedFor
        <3>2. CASE c # job.coll
            <4>1. MergedFor(mark[c], job.payload, c)
                BY <1>2, <3>2 DEF SyncInv, PassCovers
            <4> QED BY <2>4, <3>2, <4>1
        <3> QED BY <3>1, <3>2
    <2>7. failed \in BOOLEAN
        BY <1>3
    <2> HIDE DEF failed
    <2>8. PassInv'
        BY <1>2, <2>1, <2>5, <2>6, <2>7, ProceedKeeps
    <2>9. LockedIsCleared'
        BY <1>2, <1>3, <1>6 DEF LockedIsCleared, lock
    <2> QED BY <1>2, <2>4, <2>8, <2>9, UnchangedParts DEF SyncInv, PassInv
<1> QED BY <1>4, <1>5, <1>6

\* The direct rows keep it: they wait for the keys of those who sent them,
\* or fail.
LEMMA DeliverDirectKeeps ==
    ASSUME TypeOK, SyncInv, DeliverDirect
    PROVE  SyncInv'
<1>1. JobTypes /\ LockTypes
    BY TypesInParts
<1>2. /\ job # NoJob /\ job \in JobRow /\ job.stage = "direct" /\ job.answer # NoSnap
      /\ UNCHANGED <<server, lock, pull, queue, keys, merged>>
    BY <1>1 DEF DeliverDirect, Arrived, JobTypes
<1>3. /\ job.payload \in Payload /\ job.failed \in BOOLEAN /\ job.since \in Handles /\ job.uk \in Handles
    BY <1>2, JobFields
<1>4. PassInv'
    <2>1. CASE job.answer = Failed \/ session = 0
        <3> DEFINE failed == job.failed \/ job.answer = Failed
        <3>1. Finish(job.payload, failed)
            BY <2>1 DEF DeliverDirect
        <3>2. failed \in BOOLEAN /\ (session # 0 => failed)
            BY <1>3, <2>1
        <3> HIDE DEF failed
        <3> QED BY <1>2, <1>3, <3>1, <3>2, FinishKeeps
    <2>2. CASE job.answer # Failed /\ session # 0
        <3>1. job' = [job EXCEPT !.stage = "identity", !.uk = session] /\ UNCHANGED <<marks, history>>
            BY <2>2 DEF DeliverDirect
        <3>2. session \in Handles /\ session = sessions /\ sessions \in Nat
            BY <1>1, <2>2, SyncAssumption DEF LockTypes
        <3>3. /\ job'.stage = "identity" /\ job'.uk = session /\ job'.since = job.since /\ job'.payload = job.payload
              /\ job'.todo = job.todo /\ job'.coll = job.coll /\ job'.answer = job.answer
              /\ job'.failed = job.failed /\ job' \in JobRow
            BY <1>2, <3>1, <3>2 DEF JobRow
        <3>4. UNCHANGED <<session, sessions, rev, past, directRev, directPast, mark, directMark>>
            BY <1>2 DEF lock, server, merged
        <3>5. PassIsBehind'
            BY <1>2, <3>3, <3>4 DEF SyncInv, PassIsBehind, Behind
        <3>6. SessionsAreCounted'
            BY <1>2, <1>3, <3>2, <3>3, <3>4 DEF SyncInv, SessionsAreCounted
        <3>7. OvertakenIsCleared' /\ OuterIsCovered'
            BY <3>3, <3>4, AbsenceAssumption DEF OvertakenIsCleared, OuterIsCovered
        <3>8. ReadsAreBetween' /\ AnswersAreNewer'
            BY <1>2, <3>3, <3>4 DEF SyncInv, ReadsAreBetween, AnswersAreNewer, DirectRows
        <3>9. PassInOrder' /\ PassCovers'
            BY <1>2, <2>2, <3>3, <3>4 DEF SyncInv, PassInOrder, PassCovers
        <3> QED BY <3>5, <3>6, <3>7, <3>8, <3>9 DEF PassInv
    <2> QED BY <2>1, <2>2
<1> QED BY <1>2, <1>4, UnchangedParts DEF SyncInv, PassInv

\* Merging them keeps it, as for a collection.
LEMMA MergeDirectKeeps ==
    ASSUME TypeOK, SyncInv, NEW ok \in BOOLEAN, MergeDirect(ok)
    PROVE  SyncInv'
<1>1. JobTypes /\ LockTypes /\ StoreTypes /\ RowTypes
    BY TypesInParts
<1>2. /\ job # NoJob /\ job \in JobRow /\ job.stage = "identity" /\ job.answer \in DirectAnswer
      /\ job.answer # NoSnap
      /\ UNCHANGED <<server, lock, pull, queue, keys>>
    BY <1>1 DEF MergeDirect, Arrived, JobTypes
<1>3. /\ job.payload \in Payload /\ job.failed \in BOOLEAN /\ job.since \in Handles /\ job.uk \in Handles
      /\ job.payload.direct \in Nat
    BY <1>2, JobFields
<1>4. CASE session # job.uk
    <2>1. UNCHANGED merged /\ Finish(job.payload, TRUE)
        BY <1>4 DEF MergeDirect
    <2>2. PassInv'
        BY <1>2, <1>3, <2>1, FinishKeeps
    <2> QED BY <1>2, <2>1, <2>2, UnchangedParts DEF SyncInv, PassInv
<1>5. CASE session = job.uk
    <2> DEFINE failed == job.failed \/ ~ok
    <2>1. /\ directCache' = IF ok THEN job.answer.rows ELSE directCache
          /\ directFails' = IF ok THEN 0 ELSE directFails + 1
          /\ directMark' = IF ok \/ directFails' >= MaxRetries THEN job.answer.rev ELSE directMark
          /\ UNCHANGED <<cache, mark, fails>>
          /\ Finish(job.payload, failed)
        BY <1>5 DEF MergeDirect
    <2>2. failed \in BOOLEAN /\ (~failed => ok /\ ~job.failed)
        BY <1>3
    <2> HIDE DEF failed
    <2>3. job.answer \notin NoAnswer
        BY <1>2 DEF SyncInv, PassInOrder
    <2>4. job.answer.rev \in Nat /\ job.answer.rows.at \in Nat
        BY <1>2 DEF DirectAnswer, Content
    <2>5. /\ job.payload.direct <= job.answer.rev
          /\ job.answer.rev <= job.answer.rows.at /\ Within(job.answer.rows, DirectRows)
        BY <1>2, <2>3 DEF SyncInv, AnswersAreNewer
    <2>6. UNCHANGED <<rev, past, directRev, directPast>>
        BY <1>2 DEF server
    <2>7. MarksAreHonest'
        BY <1>1, <2>1, <2>4, <2>5, SyncAssumption DEF SyncInv, MarksAreHonest, StoreTypes
    <2>8. MarksAreBehind'
        <3>1. job.answer.rev <= directRev
            BY <1>1, <2>4, <2>5 DEF Within, DirectRows, RowTypes
        <3>2. directMark' <= directRev'
            BY <1>1, <2>1, <2>4, <2>6, <3>1 DEF SyncInv, MarksAreBehind, RowTypes, StoreTypes
        <3>3. Within(directCache', DirectRows)
            BY <2>1, <2>5 DEF SyncInv, MarksAreBehind
        <3> QED BY <2>1, <2>6, <3>2, <3>3 DEF SyncInv, MarksAreBehind, Rows, DirectRows
    <2>9. session # 0 /\ session = job.since /\ ~failed =>
            /\ \A c \in Collections : MergedFor(mark'[c], job.payload, c)
            /\ job.payload.direct <= directMark'
        <3>1. job.todo = {}
            BY <1>2 DEF SyncInv, PassInOrder
        <3> QED BY <1>2, <2>1, <2>2, <2>5, <3>1 DEF SyncInv, PassCovers
    <2>10. PassInv'
        BY <1>2, <1>3, <2>1, <2>2, <2>9, FinishKeeps
    <2>11. LockedIsCleared'
        BY <1>2, <1>3, <1>5 DEF LockedIsCleared, lock
    <2> QED BY <1>2, <2>7, <2>8, <2>10, <2>11, UnchangedParts DEF SyncInv, PassInv
<1> QED BY <1>4, <1>5

-----------------------------------------------------------------------------
(* The theorems.                                                           *)

\* A fresh tab has it.
LEMMA InitKeeps == Init => SyncInv
<1> SUFFICES ASSUME Init PROVE SyncInv
    OBVIOUS
<1>1. RowsAreCounted
    BY DEF Init, RowsAreCounted
<1>2. /\ job = NoJob /\ session = 0 /\ keys = None(Collections) /\ Cleared
      /\ directRev \in {0, 1} /\ rev = [c \in Collections |-> 1]
    BY DEF Init, Cleared
<1>3. PullsAreBehind
    BY DEF Init, PullsAreBehind
<1>4. QueueIsBehind
    <2>1. queue = <<>>
        BY DEF Init
    <2> QED BY <2>1 DEF QueueIsBehind
<1>5. /\ PassIsBehind /\ SessionsAreCounted /\ LockedIsCleared /\ OvertakenIsCleared
      /\ ReadsAreBetween /\ AnswersAreNewer /\ PassInOrder /\ PassCovers /\ OuterIsCovered
    BY <1>2 DEF PassIsBehind, SessionsAreCounted, LockedIsCleared, OvertakenIsCleared,
                ReadsAreBetween, AnswersAreNewer, PassInOrder, PassCovers, OuterIsCovered
<1>6. \A c \in Collections : mark[c] = 0 /\ cache[c] = NoRows /\ rev[c] = 1
    BY <1>2 DEF Cleared, None, Empty
<1>7. directCache = NoRows /\ directMark = 0 /\ directCache.at = 0
    BY <1>2 DEF Cleared, NoRows
<1>8. RowTypes
    BY InitTypes, TypesInParts
<1>9. (\A c \in Collections : Within(NoRows, Rows(c))) /\ Within(NoRows, DirectRows)
    BY <1>8, ServerShapes, WithinOrder
<1>10. MarksAreHonest /\ MarksAreBehind
    BY <1>2, <1>6, <1>7, <1>9 DEF MarksAreHonest, MarksAreBehind
<1> QED BY <1>1, <1>3, <1>4, <1>5, <1>10 DEF SyncInv

\* Every step keeps it.
LEMMA NextKeeps == TypeOK /\ TypeOK' /\ SyncInv /\ [Next]_vars => SyncInv'
<1> SUFFICES ASSUME TypeOK, TypeOK', SyncInv, [Next]_vars PROVE SyncInv'
    OBVIOUS
<1>1. CASE UNCHANGED vars
    BY <1>1, UnchangedParts DEF vars, client, marks, history, SyncInv
<1>2. CASE Others
    BY <1>2, OthersKeep
<1>3. CASE Unlock
    BY <1>3, UnlockKeeps
<1>4. CASE Lock
    BY <1>4, LockKeeps
<1>5. CASE Refresher
    BY <1>5, RefresherKeeps
<1>6. CASE Pass
    BY <1>6, StartPurgeKeeps, StartPassKeeps, AnswersKeep, DeliverListingKeeps, DeliverCollectionKeeps,
       DeliverDirectKeeps, MergeDirectKeeps DEF Pass
<1>7. CASE Faults
    BY <1>7, FailuresKeep, MergeDirectKeeps DEF Faults
<1>8. ASSUME NEW p \in Pulls, AskRevisions(p) \/ Pull(p) PROVE SyncInv'
    BY <1>8, PullsKeep
<1> QED BY <1>1, <1>2, <1>3, <1>4, <1>5, <1>6, <1>7, <1>8 DEF Next

\* Types and invariant hold in every reachable state.
LEMMA InvariantHolds == Spec => [](TypeOK /\ SyncInv)
<1>1. Init => TypeOK /\ SyncInv
    BY InitTypes, InitKeeps
<1>2. TypeOK /\ SyncInv /\ [Next]_vars => (TypeOK /\ SyncInv)'
    BY NextTypes, NextKeeps
<1> QED BY <1>1, <1>2, PTL DEF Spec

\* Whatever changes between the two reads of an answer and whatever passes, purges
\* and sessions overlap, a mark never runs ahead of the rows it stands for.
THEOREM MarksStayHonest == Spec => []MarksAreHonest
<1>1. SyncInv => MarksAreHonest
    BY DEF SyncInv
<1> QED BY <1>1, InvariantHolds, PTL

\* Nothing of a shared collection or item stays in the store when it is locked,
\* whatever was in flight when it was locked.
THEOREM LockingEmptiesTheStore == Spec => []LockedCacheIsEmpty
<1>1. SyncInv => LockedCacheIsEmpty
    BY DEF SyncInv, LockedIsCleared, Cleared, LockedCacheIsEmpty
<1> QED BY <1>1, InvariantHolds, PTL

\* Whoever's outer mark equals what the server would send now, between two
\* passes and with nothing gone wrong, has it all.
LEMMA CoveredIsCaughtUp ==
    ASSUME TypeOK, SyncInv, session # 0, Quiet, outer = Revisions, ~RetriesRanOut,
           ~(outerFails > 0), ~carried
    PROVE  CaughtUp
<1>1. RowTypes /\ StoreTypes /\ MarkTypes
    BY TypesInParts
<1>2. outerFails = 0 /\ job = NoJob
    BY <1>1 DEF MarkTypes, Quiet
<1>3. (\A c \in Collections : MergedFor(mark[c], outer, c)) /\ outer.direct <= directMark
    BY <1>2 DEF SyncInv, OuterIsCovered
<1>4. /\ \A c \in Collections : ~(fails[c] >= MaxRetries)
      /\ ~(directFails >= MaxRetries)
    BY DEF RetriesRanOut
<1>5. ASSUME NEW c \in Collections
      PROVE  IF c \in Readable THEN Shows(cache[c], Rows(c)) ELSE cache[c] = NoRows
    <2>1. Revisions.colls[c] = IF c \in Readable THEN rev[c] ELSE 0
        BY DEF Revisions, CollectionRevisions
    <2>2. MergedFor(mark[c], Revisions, c)
        BY <1>3
    <2>3. /\ rev[c] \in Nat /\ past[c] \in Nat /\ mark[c] \in Nat /\ cache[c] \in Content
          /\ rev[c] # 0 /\ mark[c] <= rev[c] /\ (mark[c] = 0 => cache[c] = NoRows)
          /\ Within(cache[c], Rows(c))
        BY <1>1 DEF SyncInv, RowsAreCounted, MarksAreBehind, RowTypes, StoreTypes
    <2>4. mark[c] # 0 => mark[c] <= cache[c].at
        BY <1>4 DEF SyncInv, MarksAreHonest
    <2>5. CASE c \in Readable
        BY <2>1, <2>2, <2>3, <2>4, <2>5 DEF MergedFor, Shows, Within, Rows, Content
    <2>6. CASE c \notin Readable
        BY <2>1, <2>2, <2>3, <2>6 DEF MergedFor
    <2> QED BY <2>5, <2>6
<1>6. Shows(directCache, DirectRows)
    <2>1. Revisions.direct = directRev
        BY DEF Revisions
    <2>2. /\ directRev \in Nat /\ directPast \in Nat /\ directMark \in Nat /\ directCache \in Content
          /\ directRev <= directMark /\ Within(directCache, DirectRows)
        BY <1>1, <1>3, <2>1 DEF SyncInv, MarksAreBehind, RowTypes, StoreTypes
    <2>3. directMark <= directCache.at
        BY <1>4 DEF SyncInv, MarksAreHonest
    <2> QED BY <2>2, <2>3 DEF Shows, Within, DirectRows, Content
<1> QED BY <1>5, <1>6 DEF CaughtUp

\* An outer mark that equals what the server would send now never hides a change
\* that a cursor counts.
THEOREM SuppressionHidesNothing == Spec => []SuppressionIsSafe
<1>1. TypeOK /\ SyncInv => SuppressionIsSafe
    BY CoveredIsCaughtUp DEF SuppressionIsSafe
<1> QED BY <1>1, InvariantHolds, PTL
=============================================================================
