------------------------------ MODULE SharedSync ------------------------------
(***************************************************************************)
(* The shared half of the pull loop, one unlocked tab against the server:  *)
(* sync.ts asks which collections the caller may read and at which         *)
(* revision, store.ts fetches those that moved and the directly shared     *)
(* items, collections.ts keeps the Collection Keys.  Calls overlap, but    *)
(* store.ts runs its passes one after the other.  Every await is a step:   *)
(* in between the vault may lock and unlock and the server moves on.  An   *)
(* answer is read by several statements without a transaction: each is a   *)
(* step as well.                                                           *)
(*                                                                         *)
(* What a collection holds, and what is shared directly, is named by the   *)
(* cursor at its last counted change and the number of changes since then  *)
(* that moved no cursor.  (The times of last use and the addresses of last *)
(* editors are no content.)  A mark of 0 is none.  A key is named by the   *)
(* number of re-keys it has seen.                                          *)
(***************************************************************************)
EXTENDS Naturals, Sequences, FiniteSets

CONSTANTS
    Collections, Pulls, NoPull, NoJob, NoSnap,
    Gone, Failed, Purge,   \* a 404, a failed request, a purge in the queue
    MaxRetries,     \* MAX_FAILED_MERGE_RETRIES
    MaxMoves,       \* bound: steps of other users
    Moves,          \* bound: which kinds
    MaxSessions,    \* bound: unlocks
    MaxFaults,      \* bound: failed requests, undecryptable direct rows (broken sockets, lost events)
    MaxQueue        \* bound: passes waiting

ASSUME SyncAssumption ==
    /\ MaxRetries \in Nat \ {0}
    /\ MaxMoves \in Nat /\ MaxSessions \in Nat /\ MaxFaults \in Nat /\ MaxQueue \in Nat

VARIABLES
    status,       \* the caller's family_members.status, "none" without a row
    holds,        \* the collections it holds a key row of
    rev,          \* collections.revision
    past,         \* changes of a collection since then that its cursor does not count
    epoch,        \* the key the collection is under
    direct,       \* some item_shares row names the caller
    directRev,    \* users.shared_direct_revision
    directPast,   \* changes of what is shared directly since then, not counted
    owed,         \* changes of status whose increment of the cursor is to come
    session,      \* the User Key handle of this unlock, 0 when locked
    sessions,     \* unlocks so far
    disabled,     \* sharedPullDisabled
    confirmed,    \* hasEverConfirmedFamilyMembership
    pull,         \* calls of pullOnce and refreshSharedItemsNow in flight
    queue,        \* passes chained on sharedRefreshInFlight
    job,          \* the pass that runs
    refresher,    \* the refreshCollections of the unlock
    keys,         \* collectionKeys: the epoch of the cached key, 0 without
    cache,        \* collectionSharedItems, by the name of the content
    mark,         \* collectionRevisionWatermark
    fails,        \* collectionFailedMergeAttempts
    directCache, directMark, directFails,
    outer,        \* sharedRevisionsWatermark
    outerFails,   \* failedSharedRefreshAttempts
    known,        \* sharedConfirmed
    moves, faults,  \* bounds
    carried, gaveUp \* history: a pass outlived its session; the retries ran out

server == <<status, holds, rev, past, epoch, direct, directRev, directPast, owed>>
merged == <<cache, mark, fails, directCache, directMark, directFails>>
marks == <<outer, outerFails, known>>
bounds == <<moves, faults>>
history == <<carried, gaveUp>>
lock == <<session, sessions>>
flags == <<disabled, confirmed>>
client == <<lock, flags, pull, queue, job, refresher, keys, merged, marks, history>>
vars == <<server, client, bounds>>

\* The shapes of what is in flight.
Payload == [colls : [Collections -> Nat], direct : Nat]
Handles == Nat \ {0}
Listings == [Collections -> Nat]
Content == [at : Nat, past : Nat]
CollectionAnswer == [rev : Nat, rows : Content, epoch : Nat]
DirectAnswer == [rev : Nat, rows : Content]
NoAnswer == {NoSnap, Failed}

PullRow == [kind : {"eager", "cycle"}, colls : Listings \cup {NoSnap}, answer : Payload \cup {NoSnap, Gone}]
RefresherRow == [uk : Handles, listed : Listings \cup NoAnswer]
JobRow == [stage : {"listing", "collection", "direct", "identity"},
           uk : Handles, since : Handles, payload : Payload,
           todo : SUBSET Collections, coll : Collections \cup {NoSnap}, read : Nat \cup {NoSnap},
           answer : Listings \cup CollectionAnswer \cup DirectAnswer \cup NoAnswer, failed : BOOLEAN]

\* What says that nothing is there is none of these.
ASSUME AbsenceAssumption ==
    /\ NoJob \notin JobRow /\ NoPull \notin PullRow
    /\ NoSnap \notin Payload \cup Listings \cup Nat /\ Gone \notin Payload /\ Purge \notin Payload /\ NoSnap # Gone

None(S) == [x \in S |-> 0]
NoOuter == [colls |-> None(Collections), direct |-> 0]

NoRows == [at |-> 0, past |-> 0]
Empty == [c \in Collections |-> NoRows]

Readable == IF status = "active" THEN holds ELSE {}
Rows(c) == [at |-> rev[c], past |-> past[c]]
DirectRows == [at |-> directRev, past |-> directPast]
NothingDirect == status # "active" \/ ~direct

\* What pull_shared_revisions would answer if nothing changed while it reads.
CollectionRevisions == [c \in Collections |-> IF c \in Readable THEN rev[c] ELSE 0]
Revisions == [colls |-> CollectionRevisions, direct |-> directRev]

Init ==
    /\ status = "active"
    /\ holds \in SUBSET Collections
    /\ rev = [c \in Collections |-> 1] /\ epoch = [c \in Collections |-> 1]
    /\ past = None(Collections)
    /\ direct \in BOOLEAN /\ directRev = (IF direct THEN 1 ELSE 0) /\ directPast = 0
    /\ owed = 0
    /\ session = 0 /\ sessions = 0
    /\ disabled = FALSE /\ confirmed = FALSE
    /\ pull = [p \in Pulls |-> NoPull]
    /\ queue = <<>> /\ job = NoJob /\ refresher = NoPull
    /\ keys = None(Collections)
    /\ cache = Empty /\ mark = None(Collections) /\ fails = None(Collections)
    /\ directCache = NoRows /\ directMark = 0 /\ directFails = 0
    /\ outer = NoOuter /\ outerFails = 0 /\ known = FALSE
    /\ moves = 0 /\ faults = 0
    /\ carried = FALSE /\ gaveUp = FALSE

-----------------------------------------------------------------------------
(* The server, by what other users' requests commit (SharedVault).         *)

Moved(kind) ==
    /\ kind \in Moves /\ moves < MaxMoves
    /\ moves' = moves + 1
    /\ UNCHANGED <<faults, client>>

\* A change that the collection's cursor, or the caller's direct one, counts.
Counted(c) == rev' = [rev EXCEPT ![c] = @ + 1] /\ past' = [past EXCEPT ![c] = 0]
DirectCounted == directRev' = directRev + 1 /\ directPast' = 0

EditItem(c) ==
    /\ Moved("edit")
    /\ Counted(c)
    /\ UNCHANGED <<status, holds, epoch, direct, directRev, directPast, owed>>

\* A removal of somebody else re-keys the collection.
Rekey(c) ==
    /\ Moved("rekey") /\ c \in holds
    /\ Counted(c)
    /\ epoch' = [epoch EXCEPT ![c] = @ + 1]
    /\ UNCHANGED <<status, holds, direct, directRev, directPast, owed>>

\* Items of the collection go with the account of their author, who holds no key
\* of it any more: no cursor moves.
Cascade(c) ==
    /\ Moved("cascade")
    /\ past' = [past EXCEPT ![c] = @ + 1]
    /\ UNCHANGED <<status, holds, rev, epoch, direct, directRev, directPast, owed>>

Grant(c) ==
    /\ Moved("grant") /\ status # "none" /\ c \notin holds
    /\ holds' = holds \cup {c}
    /\ UNCHANGED <<status, rev, past, epoch, direct, directRev, directPast, owed>>

Revoke(c) ==
    /\ Moved("revoke") /\ c \in holds
    /\ holds' = holds \ {c}
    /\ UNCHANGED <<status, rev, past, epoch, direct, directRev, directPast, owed>>

\* A new share; or a shared item is saved, moved or deleted.
ShareDirect ==
    /\ Moved("direct") /\ (status # "none" \/ direct)
    /\ direct' \in (IF status = "none" THEN {direct} ELSE {direct, TRUE})
    /\ DirectCounted
    /\ UNCHANGED <<status, holds, rev, past, epoch, owed>>

\* update_share and revoke_share: another level, or a share less.
ChangeShare ==
    /\ Moved("level") /\ direct
    /\ direct' \in BOOLEAN
    /\ DirectCounted
    /\ UNCHANGED <<status, holds, rev, past, epoch, owed>>

\* Who shares something with the caller leaves the family, comes back to it, or
\* deletes the account: what the caller is shown changes, its cursor does not.
OwnerMoves ==
    /\ Moved("owner") /\ direct
    /\ direct' \in BOOLEAN
    /\ directPast' = directPast + 1
    /\ UNCHANGED <<status, holds, rev, past, epoch, directRev, owed>>

\* remove_member, as the removed one sees it.
Leave ==
    /\ Moved("leave") /\ status # "none"
    /\ status' = "none" /\ holds' = {} /\ direct' = FALSE
    /\ DirectCounted
    /\ UNCHANGED <<rev, past, epoch, owed>>

\* The family goes with its owner's account; its shares stay.
Dissolve ==
    /\ Moved("dissolve") /\ status # "none"
    /\ status' = "none" /\ holds' = {} /\ direct' \in {direct, FALSE}
    /\ directPast' = directPast + 1
    /\ UNCHANGED <<rev, past, epoch, directRev, owed>>

\* What others of that family still share with the caller is shown again.
Join ==
    /\ Moved("join") /\ status = "none"
    /\ status' = "active"
    /\ directPast' = IF direct THEN directPast + 1 ELSE directPast
    /\ UNCHANGED <<holds, rev, past, epoch, direct, directRev, owed>>

\* suspend_member and reinstate_member: the status first ...
SetStatus(to) ==
    /\ Moved("status") /\ status # "none"
    /\ status' = to
    /\ directPast' = IF status = to THEN directPast ELSE directPast + 1
    /\ owed' = owed + 1
    /\ UNCHANGED <<holds, rev, past, epoch, direct, directRev>>

\* ... and the cursor by a statement of its own; or never, when the request is
\* dropped in between.
CountStatus ==
    /\ owed > 0 /\ owed' = owed - 1
    /\ DirectCounted
    /\ UNCHANGED <<status, holds, rev, past, epoch, direct, client, bounds>>

-----------------------------------------------------------------------------
(* Locking and unlocking: the listeners of store.ts and collections.ts.    *)

NewPull(kind) == [kind |-> kind, colls |-> NoSnap, answer |-> NoSnap]

\* A variant that installs the same handle again.
SameHandle == 1

\* Every unlock installs a new User Key handle.
Handle == sessions + 1

Unlock ==
    /\ session = 0 /\ sessions < MaxSessions
    /\ sessions' = sessions + 1 /\ session' = Handle
    /\ outer' = NoOuter /\ outerFails' = 0 /\ known' = FALSE
    /\ mark' = None(Collections) /\ fails' = None(Collections)
    /\ directMark' = 0 /\ directFails' = 0
    /\ disabled' = FALSE /\ confirmed' = FALSE
    /\ \E p \in Pulls : pull[p] = NoPull /\ pull' = [pull EXCEPT ![p] = NewPull("eager")]
    /\ refresher' = [uk |-> Handle, listed |-> NoSnap]
    /\ UNCHANGED <<server, queue, job, keys, cache, directCache, history, bounds>>

Lock ==
    /\ session # 0
    /\ session' = 0
    /\ keys' = None(Collections)
    /\ cache' = Empty /\ mark' = None(Collections) /\ fails' = None(Collections)
    /\ directCache' = NoRows /\ directMark' = 0 /\ directFails' = 0
    /\ outerFails' = 0 /\ known' = FALSE
    /\ UNCHANGED <<server, sessions, flags, pull, queue, job, refresher, outer, history, bounds>>

-----------------------------------------------------------------------------
(* One call of pullOnce, from the timer, a frame or a socket that opened,  *)
(* or the eager call of an unlock.                                         *)

\* The personal half of the call comes first (PersonalSync); a call whose
\* personal half outlasts a lock asks what one begun afterwards asks.  A call
\* that fails changes nothing.
AskRevisions(p) ==
    /\ session # 0 /\ ~disabled
    /\ pull[p] = NoPull
    /\ pull' = [pull EXCEPT ![p] = NewPull("cycle")]
    /\ UNCHANGED <<server, lock, flags, queue, job, refresher, keys, merged, marks, history, bounds>>

Asked(p) == pull[p] # NoPull /\ pull[p].answer = NoSnap

\* pull_shared_revisions: the membership and the collections first (a membership
\* that goes after its check makes an empty list of the 404) ...
ReadCollections(p) ==
    /\ Asked(p) /\ pull[p].colls = NoSnap
    /\ \/ status = "none" /\ pull' = [pull EXCEPT ![p].answer = Gone]
       \/ pull' = [pull EXCEPT ![p].colls = CollectionRevisions]
    /\ UNCHANGED <<server, lock, flags, queue, job, refresher, keys, merged, marks, history, bounds>>

\* ... then the direct cursor.
AnswerRevisions(p) ==
    /\ Asked(p) /\ pull[p].colls # NoSnap
    /\ pull' = [pull EXCEPT ![p].answer = [colls |-> pull[p].colls, direct |-> directRev]]
    /\ UNCHANGED <<server, lock, flags, queue, job, refresher, keys, merged, marks, history, bounds>>

Answered(p) == pull[p] # NoPull /\ pull[p].answer # NoSnap

DeliverRevisions(p) ==
    /\ Answered(p) /\ pull[p].answer # Gone
    /\ Len(queue) < MaxQueue
    /\ confirmed' = TRUE
    /\ queue' = IF session = 0 THEN queue ELSE Append(queue, pull[p].answer)
    /\ pull' = [pull EXCEPT ![p] = NoPull]
    /\ UNCHANGED <<server, lock, disabled, job, refresher, keys, merged, marks, history, bounds>>

\* A 404: removed, or never in a family.  Only pullOnce purges.
DeliverGone(p) ==
    /\ Answered(p) /\ pull[p].answer = Gone
    /\ Len(queue) < MaxQueue
    /\ IF pull[p].kind = "eager" THEN known' = TRUE /\ UNCHANGED <<queue, disabled>>
       ELSE IF confirmed THEN queue' = Append(queue, Purge) /\ UNCHANGED <<known, disabled>>
       ELSE disabled' = TRUE /\ UNCHANGED <<known, queue>>
    /\ pull' = [pull EXCEPT ![p] = NoPull]
    /\ UNCHANGED <<server, lock, confirmed, job, refresher, keys, merged, outer, outerFails, history, bounds>>

-----------------------------------------------------------------------------
(* refreshCollections: the listing, then the keys it seals.                *)

Listing == [c \in Collections |-> IF c \in Readable THEN epoch[c] ELSE 0]

\* collections::list: the key rows of an active member; 404 without a row, or
\* nothing when it goes after its check.
Listed == IF status = "none" THEN {Failed, Listing} ELSE {Listing}

RefresherLists ==
    /\ refresher # NoPull /\ refresher.listed = NoSnap
    /\ \E listed \in Listed : refresher' = [refresher EXCEPT !.listed = listed]
    /\ UNCHANGED <<server, lock, flags, pull, queue, job, keys, merged, marks, history, bounds>>

\* A variant that only checks that some key is there.
CachesWithoutAsking ==
    /\ refresher # NoPull /\ refresher.listed # NoSnap
    /\ keys' = IF refresher.listed = Failed THEN keys ELSE refresher.listed
    /\ refresher' = NoPull
    /\ UNCHANGED <<server, lock, flags, pull, queue, job, merged, marks, history, bounds>>

RefresherCaches ==
    /\ refresher # NoPull /\ refresher.listed # NoSnap
    /\ keys' = IF session = refresher.uk /\ refresher.listed # Failed THEN refresher.listed ELSE keys
    /\ refresher' = NoPull
    /\ UNCHANGED <<server, lock, flags, pull, queue, job, merged, marks, history, bounds>>

-----------------------------------------------------------------------------
(* One pass of doHandleSharedRevisions.                                    *)

StartPurge ==
    /\ job = NoJob /\ queue # <<>> /\ Head(queue) = Purge
    /\ queue' = Tail(queue)
    /\ keys' = None(Collections)
    /\ cache' = Empty /\ mark' = None(Collections) /\ fails' = None(Collections)
    /\ directCache' = NoRows /\ directMark' = 0 /\ directFails' = 0
    /\ outer' = NoOuter
    /\ disabled' = TRUE
    /\ UNCHANGED <<server, lock, confirmed, pull, job, refresher, outerFails, known, history, bounds>>

\* A variant that compares the collections alone.
ComparesCollections ==
    /\ job = NoJob /\ queue # <<>> /\ Head(queue) # Purge
    /\ queue' = Tail(queue)
    /\ IF outer.colls = Head(queue).colls
       THEN known' = TRUE /\ UNCHANGED job
       ELSE /\ UNCHANGED known
            /\ job' = IF session = 0 THEN NoJob
                      ELSE [stage |-> "listing", uk |-> session, since |-> session, payload |-> Head(queue),
                            todo |-> {c \in Collections : Head(queue).colls[c] # 0},
                            coll |-> NoSnap, read |-> NoSnap, answer |-> NoSnap, failed |-> FALSE]
    /\ UNCHANGED <<server, lock, flags, pull, refresher, keys, merged, outer, outerFails, history, bounds>>

StartPass ==
    /\ job = NoJob /\ queue # <<>> /\ Head(queue) # Purge
    /\ queue' = Tail(queue)
    /\ IF outer = Head(queue)
       THEN known' = TRUE /\ UNCHANGED job
       ELSE /\ UNCHANGED known
            /\ job' = IF session = 0 THEN NoJob
                      ELSE [stage |-> "listing", uk |-> session, since |-> session, payload |-> Head(queue),
                            todo |-> {c \in Collections : Head(queue).colls[c] # 0},
                            coll |-> NoSnap, read |-> NoSnap, answer |-> NoSnap, failed |-> FALSE]
    /\ UNCHANGED <<server, lock, flags, pull, refresher, keys, merged, outer, outerFails, history, bounds>>

Waiting(stage) == job # NoJob /\ job.stage = stage /\ job.answer = NoSnap
Arrived(stage) == job # NoJob /\ job.stage = stage /\ job.answer # NoSnap

\* Requests of a pass are answered by what the rows are then, or fail.
Answer(stage, answer) ==
    /\ Waiting(stage)
    /\ job' = [job EXCEPT !.answer = answer]
    /\ UNCHANGED <<server, lock, flags, pull, queue, refresher, keys, merged, marks, history, bounds>>

Fail(stage) ==
    /\ Waiting(stage) /\ faults < MaxFaults
    /\ faults' = faults + 1
    /\ job' = [job EXCEPT !.answer = Failed]
    /\ UNCHANGED <<server, lock, flags, pull, queue, refresher, keys, merged, marks, history, moves>>

\* The cursor is read first, the rows by a later statement.
Read(stage, cursor) ==
    /\ Waiting(stage) /\ job.read = NoSnap
    /\ job' = [job EXCEPT !.read = cursor]
    /\ UNCHANGED <<server, lock, flags, pull, queue, refresher, keys, merged, marks, history, bounds>>

AnswerListing == \E listed \in Listed : Answer("listing", listed)

\* The membership is checked before the rows are read, and not again.
ReadCollection == job # NoJob /\ job.coll \in Readable /\ Read("collection", rev[job.coll])
RefuseCollection ==
    job # NoJob /\ job.coll \notin Readable /\ job.read = NoSnap /\ Answer("collection", Failed)
AnswerCollection ==
    /\ job # NoJob /\ job.read # NoSnap
    /\ Answer("collection", [rev |-> job.read, rows |-> Rows(job.coll), epoch |-> epoch[job.coll]])

ReadDirect == Read("direct", directRev)
AnswerDirect ==
    job # NoJob /\ job.read # NoSnap /\ Answer("direct", [rev |-> job.read, rows |-> DirectRows])

\* A variant that moves the outer mark whatever the steps came to.
FinishWhateverFailed(payload, failed) ==
    /\ job' = NoJob
    /\ outer' = payload /\ outerFails' = 0 /\ known' = TRUE
    /\ gaveUp' = gaveUp
    /\ carried' = (carried \/ session # job.since)

\* The end of a pass: the outer mark follows a clean one, and the last of too
\* many that were not.
Finish(payload, failed) ==
    /\ job' = NoJob
    /\ outerFails' = IF failed THEN outerFails + 1 ELSE 0
    /\ outer' = IF ~failed \/ outerFails' >= MaxRetries THEN payload ELSE outer
    /\ known' = (known \/ ~failed)
    /\ gaveUp' = (gaveUp \/ (failed /\ outerFails' >= MaxRetries))
    /\ carried' = (carried \/ session # job.since)

Drop == job' = NoJob /\ UNCHANGED <<marks, history>>

\* What the pass does up to its next await, the marks being those just set.
Proceed(failed) ==
    LET left == {c \in job.todo : mark'[c] # job.payload.colls[c]} IN
    IF left # {} THEN
        IF session = 0 THEN Drop
        ELSE /\ \E c \in left : job' = [job EXCEPT
                   !.stage = "collection", !.coll = c, !.todo = left \ {c}, !.uk = session,
                   !.read = NoSnap, !.answer = NoSnap, !.failed = failed]
             /\ UNCHANGED <<marks, history>>
    ELSE IF directMark # job.payload.direct /\ session # 0 THEN
        /\ job' = [job EXCEPT !.stage = "direct", !.todo = {}, !.coll = NoSnap,
                      !.uk = session, !.read = NoSnap, !.answer = NoSnap, !.failed = failed]
        /\ UNCHANGED <<marks, history>>
    ELSE Finish(job.payload, failed)

\* The keys of the listing, unless the vault was locked meanwhile; then the
\* collections that are no longer listed in the payload go.
DeliverListing ==
    /\ Arrived("listing")
    /\ keys' = IF job.answer # Failed /\ session = job.uk THEN job.answer ELSE keys
    /\ IF session = 0 THEN Drop /\ UNCHANGED merged
       ELSE LET revoked == {c \in Collections : mark[c] # 0 /\ job.payload.colls[c] = 0} IN
            /\ mark' = [c \in Collections |-> IF c \in revoked THEN 0 ELSE mark[c]]
            /\ cache' = [c \in Collections |-> IF c \in revoked THEN NoRows ELSE cache[c]]
            /\ UNCHANGED <<fails, directCache, directMark, directFails>>
            /\ Proceed(job.answer = Failed)
    /\ UNCHANGED <<server, lock, flags, pull, queue, refresher, bounds>>

\* A variant of mergeCollectionSnapshot that marks the collection as merged
\* although its rows did not decrypt.
MergeCollectionAnyway(c, snap) ==
    /\ cache' = IF keys[c] = snap.epoch THEN [cache EXCEPT ![c] = snap.rows] ELSE cache
    /\ fails' = [fails EXCEPT ![c] = 0]
    /\ mark' = [mark EXCEPT ![c] = snap.rev]

\* mergeCollectionSnapshot: rows that do not decrypt keep the copy there was.
MergeCollection(c, snap) ==
    LET ok == keys[c] = snap.epoch IN
    /\ cache' = IF ok THEN [cache EXCEPT ![c] = snap.rows] ELSE cache
    /\ fails' = [fails EXCEPT ![c] = IF ok THEN 0 ELSE @ + 1]
    /\ mark' = IF ok \/ fails'[c] >= MaxRetries THEN [mark EXCEPT ![c] = snap.rev] ELSE mark

DeliverCollection ==
    /\ Arrived("collection")
    /\ IF job.answer = Failed THEN UNCHANGED merged /\ Proceed(TRUE)
       ELSE IF session # job.uk THEN UNCHANGED merged /\ Drop
       ELSE /\ MergeCollection(job.coll, job.answer)
            /\ UNCHANGED <<directCache, directMark, directFails>>
            /\ Proceed(job.failed \/ keys[job.coll] # job.answer.epoch)
    /\ UNCHANGED <<server, lock, flags, pull, queue, refresher, keys, bounds>>

\* mergeDirectSnapshot starts with whatever key is there when the answer
\* comes, and first waits for the identity key.
DeliverDirect ==
    /\ Arrived("direct")
    /\ IF job.answer = Failed \/ session = 0
       THEN Finish(job.payload, job.failed \/ job.answer = Failed)
       ELSE /\ job' = [job EXCEPT !.stage = "identity", !.uk = session]
            /\ UNCHANGED <<marks, history>>
    /\ UNCHANGED <<server, lock, flags, pull, queue, refresher, keys, merged, bounds>>

\* ok: every row decrypts.
MergeDirect(ok) ==
    /\ Arrived("identity")
    /\ ok \/ faults < MaxFaults
    /\ faults' = IF ok THEN faults ELSE faults + 1
    /\ IF session # job.uk THEN UNCHANGED merged /\ Finish(job.payload, TRUE)
       ELSE /\ directCache' = IF ok THEN job.answer.rows ELSE directCache
            /\ directFails' = IF ok THEN 0 ELSE directFails + 1
            /\ directMark' = IF ok \/ directFails' >= MaxRetries THEN job.answer.rev ELSE directMark
            /\ UNCHANGED <<cache, mark, fails>>
            /\ Finish(job.payload, job.failed \/ ~ok)
    /\ UNCHANGED <<server, lock, flags, pull, queue, refresher, keys, moves>>

-----------------------------------------------------------------------------
Others ==
    \/ \E c \in Collections : EditItem(c) \/ Rekey(c) \/ Cascade(c) \/ Grant(c) \/ Revoke(c)
    \/ ShareDirect \/ ChangeShare \/ OwnerMoves
    \/ Leave \/ Dissolve \/ Join
    \/ SetStatus("active") \/ SetStatus("suspended") \/ CountStatus

Pull(p) == ReadCollections(p) \/ AnswerRevisions(p) \/ DeliverRevisions(p) \/ DeliverGone(p)

Refresher == RefresherLists \/ RefresherCaches

Pass == \/ StartPurge \/ StartPass
        \/ AnswerListing \/ ReadCollection \/ RefuseCollection \/ AnswerCollection
        \/ ReadDirect \/ AnswerDirect
        \/ DeliverListing \/ DeliverCollection \/ DeliverDirect \/ MergeDirect(TRUE)

Faults == \/ Fail("listing") \/ Fail("collection") \/ Fail("direct") \/ MergeDirect(FALSE)

Next == \/ Others \/ Unlock \/ Lock \/ Refresher \/ Pass \/ Faults
        \/ \E p \in Pulls : AskRevisions(p) \/ Pull(p)

\* The 30 s timer starts pulls, and requests that do not fail are answered.
Fairness == /\ WF_vars(Refresher) /\ WF_vars(Pass)
            /\ \A p \in Pulls : WF_vars(AskRevisions(p)) /\ WF_vars(Pull(p))

Spec == Init /\ [][Next]_vars /\ Fairness

-----------------------------------------------------------------------------
(* Properties.                                                             *)

\* The types of the rows, the calls in flight and the caches; the answer a pass
\* holds is that of the request it sent last.
TypeOK ==
    /\ status \in {"none", "active", "suspended"}
    /\ holds \subseteq Collections
    /\ rev \in [Collections -> Nat] /\ past \in [Collections -> Nat] /\ epoch \in [Collections -> Nat]
    /\ direct \in BOOLEAN /\ directRev \in Nat /\ directPast \in Nat /\ owed \in Nat
    /\ session \in {0, sessions} /\ sessions \in 0..MaxSessions
    /\ disabled \in BOOLEAN /\ confirmed \in BOOLEAN
    /\ pull \in [Pulls -> PullRow \cup {NoPull}]
    /\ queue \in Seq(Payload \cup {Purge}) /\ Len(queue) <= MaxQueue
    /\ refresher # NoPull => refresher \in RefresherRow
    /\ job # NoJob =>
          /\ job \in JobRow
          /\ job.stage = "listing" => job.answer \in Listings \cup NoAnswer
          /\ job.stage = "collection" => job.coll \in Collections /\ job.answer \in CollectionAnswer \cup NoAnswer
          /\ job.stage = "direct" => job.answer \in DirectAnswer \cup NoAnswer
          /\ job.stage = "identity" => job.answer \in DirectAnswer
    /\ keys \in [Collections -> Nat] /\ cache \in [Collections -> Content]
    /\ mark \in [Collections -> Nat] /\ fails \in [Collections -> Nat]
    /\ directCache \in Content /\ directMark \in Nat /\ directFails \in Nat
    /\ outer \in Payload /\ outerFails \in Nat /\ known \in BOOLEAN
    /\ carried \in BOOLEAN /\ gaveUp \in BOOLEAN
    /\ moves \in 0..MaxMoves /\ faults \in 0..MaxFaults

\* A mark never runs ahead of the rows it stands for, whatever changes between
\* the two reads of an answer and whatever passes, purges and sessions overlap:
\* the rows that are shown have every change that the mark counts, unless rows
\* failed to decrypt too often in a row.
MarksAreHonest ==
    /\ \A c \in Collections :
          mark[c] # 0 => mark[c] <= cache[c].at \/ fails[c] >= MaxRetries
    /\ directMark <= directCache.at \/ directFails >= MaxRetries

\* Nothing of a shared collection or item stays in the store when it is locked.
LockedCacheIsEmpty ==
    session = 0 => cache = Empty /\ keys = None(Collections) /\ directCache = NoRows

\* Every change that a cursor counts is shown; and all, if since the last of them
\* nothing has changed that moved no cursor (Cascade, OwnerMoves, Dissolve, Join,
\* a status whose increment is pending or was lost).
Shows(seen, now) == seen.at = now.at /\ (seen = now \/ now.past > 0)

CaughtUp ==
    /\ \A c \in Collections : IF c \in Readable THEN Shows(cache[c], Rows(c)) ELSE cache[c] = NoRows
    /\ Shows(directCache, DirectRows) \/ (directCache = NoRows /\ NothingDirect)

\* Nothing of the client is on its way.
Quiet == queue = <<>> /\ job = NoJob /\ \A p \in Pulls : pull[p] = NoPull

\* The retries of a pass, a collection or the direct set ran out.
RetriesRanOut == gaveUp \/ directFails >= MaxRetries \/ \E c \in Collections : fails[c] >= MaxRetries

\* The outer mark alone decides whether a payload is looked at.  Whatever the
\* answers overtake or find gone, a mark that equals what the server would send
\* now never hides a change that a cursor counts: the store shows it, unless the
\* retries ran out, the last pass failed or a pass went on into the next session.
\* A change that moves no cursor is hidden until the next one that does.
SuppressionIsSafe ==
    session # 0 /\ Quiet /\ outer = Revisions
        => CaughtUp \/ RetriesRanOut \/ outerFails > 0 \/ carried

\* When the others and the user come to rest the store ends up showing exactly
\* what the caller may read, and nothing once it is removed; but for what has
\* changed without a cursor since the last change that was counted.  Four things
\* may keep it from that: the retries ran out, a pass went on into the next
\* session, the shared pull was switched off before the caller came back, or what
\* a failed pass had merged was revoked before the next one.
StoreCatchesUp ==
    <>[](session = 0 \/ RetriesRanOut \/ carried \/ (disabled /\ status # "none")
         \/ (outerFails > 0 /\ outer = Revisions) \/ CaughtUp)

\* store.ts:1629: the outer mark is reset on unlock "so a stale watermark from a
\* PREVIOUS session never suppresses the first post-unlock pull".
FirstPullIsNotSuppressed ==
    session # 0 /\ known /\ outer # NoOuter /\ outerFails = 0 =>
        \A c \in Collections : outer.colls[c] # 0 => mark[c] # 0
=============================================================================
