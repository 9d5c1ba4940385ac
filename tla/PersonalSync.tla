----------------------------- MODULE PersonalSync -----------------------------
(***************************************************************************)
(* One web client following its user's personal vault: GET /api/sync on the*)
(* server (routes/sync.rs), the pull loop (lib/vault/sync.ts) and the store*)
(* it fills (lib/vault/store.ts), while other devices of the user write.   *)
(*                                                                         *)
(* vault_revision counts the writes to the user's items, so the server's   *)
(* rows are given by the log of written items: the revision is its length  *)
(* and an item's own revision is the number of its entries, the last of    *)
(* which may be its deletion.  The contents of a row are identified by its *)
(* revision (updates compare and swap).                                    *)
(*                                                                         *)
(* Nothing orders the client's requests: the poll timer, the socket's open *)
(* and message events, the load on unlock and the reload after a conflict  *)
(* each start a pull, and the answers are merged as they arrive.           *)
(***************************************************************************)
EXTENDS Naturals, Sequences, FiniteSets

CONSTANTS
    Items,
    Grouped,            \* items of the user that lie in a collection
    Pulls,              \* bound: pulls in flight, by slot
    Idle,               \* a slot without a pull
    MaxFailedMerges,    \* MAX_FAILED_MERGE_RETRIES
    MaxWrites,          \* bound: writes to the vault
    MaxSaves            \* bound: saves of this client in flight

ASSUME ConstantsAssumption ==
    /\ Grouped \subseteq Items
    /\ MaxFailedMerges \in Nat \ {0}
    /\ MaxWrites \in Nat \ {0}
    /\ MaxSaves \in Nat

VARIABLES
    log,       \* the writes of the user's items, in order of vault_revision
    gone,      \* deleted items
    sealed,    \* items whose stored row opens under no key the user has
    locked,    \* no User Key in this tab
    keyed,     \* the Collection Keys are cached
    copy,      \* personalItems: revision per item, 0 if absent
    flagged,   \* personalItems' undecryptable copies
    label,     \* lastKnownRevision
    failures,  \* failedMergeAttempts
    pulls,     \* pulls in flight
    saves      \* creates, updates and deletes in flight

server == <<log, gone, sealed>>
store == <<copy, flagged, label, failures>>
vars == <<log, gone, sealed, locked, keyed, copy, flagged, label, failures, pulls, saves>>

Revisions == 0..MaxWrites
Snapshot == [rows : [Items -> Revisions], shut : SUBSET Items]
Pull == [stage : {"sent"}, since : Revisions]
        \cup [stage : {"counted", "current"}, rev : Revisions]
        \cup [stage : {"stale"}, rev : Revisions, snapshot : Snapshot]
Save == [op : {"create", "update", "delete"}, item : Items, to : Revisions,
         stage : {"sent", "served", "conflict"}]

\* What says that a slot is free is no pull.
ASSUME AbsenceAssumption == Idle \notin Pull

TypeOK ==
    /\ log \in Seq(Items) /\ Len(log) <= MaxWrites
    /\ gone \subseteq Items /\ sealed \subseteq Grouped
    /\ locked \in BOOLEAN /\ keyed \in BOOLEAN
    /\ copy \in [Items -> Revisions]
    /\ flagged \subseteq Items
    /\ label \in 0..Len(log)
    /\ failures \in Nat
    /\ pulls \in [Pulls -> Pull \cup {Idle}]
    /\ saves \subseteq Save

\* The revision of item i when vault_revision was r.
RevisionAt(i, r) == Cardinality({k \in 1..r : log[k] = i})

VaultRevision == Len(log)
Current(i) == RevisionAt(i, VaultRevision)
Exists(i) == Current(i) # 0 /\ i \notin gone

Init ==
    /\ log = <<>> /\ gone = {} /\ sealed = {}
    /\ locked = TRUE /\ keyed = FALSE
    /\ copy = [i \in Items |-> 0]
    /\ flagged = {}
    /\ label = 0 /\ failures = 0
    /\ pulls = [s \in Pulls |-> Idle]
    /\ saves = {}

-----------------------------------------------------------------------------
(* The server.                                                             *)

\* A write of an item and the increment of vault_revision, in one transaction.
\* A row written under a replaced Collection Key opens for nobody.
Write(i, opens) ==
    /\ Len(log) < MaxWrites
    /\ log' = Append(log, i)
    /\ opens \/ i \in Grouped
    /\ sealed' = IF opens THEN sealed \ {i} ELSE sealed \cup {i}

\* (An id that another device creates is none of this client's.)
OtherDeviceWrites(i, opens) ==
    /\ i \notin gone
    /\ \A r \in saves : ~(r.op = "create" /\ r.item = i /\ Current(i) = 0)
    /\ Write(i, opens)
    /\ UNCHANGED <<gone, locked, keyed, store, pulls, saves>>

OtherDeviceDeletes(i) ==
    /\ Exists(i)
    /\ Write(i, TRUE)
    /\ gone' = gone \cup {i}
    /\ UNCHANGED <<locked, keyed, store, pulls, saves>>

Rows == [rows |-> [i \in Items |-> IF i \in gone THEN 0 ELSE Current(i)],
         shut |-> sealed]

\* pull reads vault_revision first, and answers at once if it is the client's.
CountRevision(s) ==
    LET p == pulls[s] IN
    /\ p # Idle /\ p.stage = "sent"
    /\ pulls' = [pulls EXCEPT ![s] =
                    [stage |-> IF p.since = VaultRevision THEN "current" ELSE "counted",
                     rev |-> VaultRevision]]
    /\ UNCHANGED <<server, locked, keyed, store, saves>>

\* The rows are read by a later query, outside any transaction.
ReadRows(s) ==
    LET p == pulls[s] IN
    /\ p # Idle /\ p.stage = "counted"
    /\ pulls' = [pulls EXCEPT ![s] =
                    [stage |-> "stale", rev |-> p.rev, snapshot |-> Rows]]
    /\ UNCHANGED <<server, locked, keyed, store, saves>>

\* Create: the id is new.  Update: compare and swap.  Delete: the row exists.
Accepted(r) ==
    CASE r.op = "create" -> Current(r.item) = 0
      [] r.op = "update" -> Exists(r.item) /\ Current(r.item) = r.to - 1
      [] r.op = "delete" -> Exists(r.item)

ServeSave(r) ==
    /\ r.stage = "sent"
    /\ Accepted(r)
    /\ Write(r.item, TRUE)
    /\ gone' = IF r.op = "delete" THEN gone \cup {r.item} ELSE gone
    /\ saves' = (saves \ {r}) \cup {[r EXCEPT !.stage = "served"]}
    /\ UNCHANGED <<locked, keyed, store, pulls>>

\* 409: the row is there at another revision.
RefuseSave(r) ==
    /\ r.stage = "sent" /\ r.op = "update"
    /\ Exists(r.item) /\ ~Accepted(r)
    /\ saves' = (saves \ {r}) \cup {[r EXCEPT !.stage = "conflict"]}
    /\ UNCHANGED <<server, locked, keyed, store, pulls>>

-----------------------------------------------------------------------------
(* Pulling.                                                                *)

Start(s, since) ==
    /\ pulls[s] = Idle
    /\ pulls' = [pulls EXCEPT ![s] = [stage |-> "sent", since |-> since]]

\* pullOnce, from the poll timer, the socket's open, or any frame.
Poll(s) ==
    /\ ~locked
    /\ Start(s, label)
    /\ UNCHANGED <<server, locked, keyed, store, saves>>

Opened(shot) == {i \in Items : /\ shot.rows[i] # 0 /\ i \notin shot.shut
                               /\ i \in Grouped => keyed}
Failed(shot) == {i \in Items : shot.rows[i] # 0} \ Opened(shot)

\* A variant: the watermark moves whatever failed.
AlwaysRelabel(failed, rev) == rev

\* The watermark moves if every row opened, or for the last retry.
LabelAfter(failed, rev) ==
    IF failed = {} \/ failures + 1 >= MaxFailedMerges THEN rev ELSE label

\* A variant that does not count the failed attempts.
MergeUncounted(shot, rev) ==
    LET failed == Failed(shot) IN
    /\ copy' = [i \in Items |-> IF i \in failed THEN copy[i] ELSE shot.rows[i]]
    /\ flagged' = {i \in failed : copy[i] # 0}
    /\ label' = LabelAfter(failed, rev)
    /\ failures' = 0

\* applySyncSnapshot: rows replace the array wholesale; one that does not open
\* keeps its previous copy, flagged.  An answer without rows only relabels.
MergeSnapshot(shot, rev) ==
    LET failed == Failed(shot) IN
    /\ copy' = [i \in Items |-> IF i \in failed THEN copy[i] ELSE shot.rows[i]]
    /\ flagged' = {i \in failed : copy[i] # 0}
    /\ label' = LabelAfter(failed, rev)
    /\ failures' = IF failed = {} THEN 0 ELSE failures + 1

\* A variant that takes the answered revision for the one to ask for next.
RelabelNext(rev) ==
    /\ label' = rev + 1 /\ failures' = 0
    /\ UNCHANGED <<copy, flagged>>

Relabel(rev) ==
    /\ label' = rev /\ failures' = 0
    /\ UNCHANGED <<copy, flagged>>

\* A variant that trusts the checks made when the pull was sent.
NoLockCheck == TRUE

\* getUnlockedUserKey() # null, re-read when the answer arrives.  (pullOnce's
\* own re-check compares callbacks, and the store passes the same object on
\* every unlock: it says no more than this one.)
Unlocked == ~locked

Deliver(s) ==
    LET p == pulls[s] IN
    /\ p # Idle /\ p.stage \in {"current", "stale"}
    /\ pulls' = [pulls EXCEPT ![s] = Idle]
    /\ IF ~Unlocked THEN UNCHANGED store
       ELSE IF p.stage = "stale" THEN MergeSnapshot(p.snapshot, p.rev)
       ELSE Relabel(p.rev)
    /\ UNCHANGED <<server, locked, keyed, saves>>

\* A request or its answer is lost; pullOnce swallows the error.
LosePull(s) ==
    /\ pulls[s] # Idle
    /\ pulls' = [pulls EXCEPT ![s] = Idle]
    /\ UNCHANGED <<server, locked, keyed, store, saves>>

-----------------------------------------------------------------------------
(* Saving.                                                                 *)

Send(op, i, to) ==
    /\ ~locked
    /\ Cardinality(saves) < MaxSaves
    /\ saves' = saves \cup {[op |-> op, item |-> i, to |-> to, stage |-> "sent"]}
    /\ UNCHANGED <<server, locked, keyed, store, pulls>>

\* A fresh UUID: no device has written it and no other create of it is open.
\* Items are created personal.
Create(i) ==
    /\ Current(i) = 0 /\ i \notin Grouped
    /\ \A r \in saves : r.item # i
    /\ Send("create", i, 1)

\* An undecryptable copy cannot be saved; a collection's item needs its key.
Update(i) ==
    /\ copy[i] \in 1..MaxWrites - 1 /\ i \notin flagged
    /\ i \in Grouped => keyed
    /\ Send("update", i, copy[i] + 1)

Delete(i) ==
    /\ copy[i] # 0
    /\ Send("delete", i, 0)

\* The client's own write enters the store when its response arrives, whatever
\* the store holds by then, locked or not.
Acknowledge(r) ==
    /\ r.stage = "served"
    /\ copy' = [copy EXCEPT ![r.item] = r.to]
    /\ flagged' = flagged \ {r.item}
    /\ saves' = saves \ {r}
    /\ UNCHANGED <<server, locked, keyed, label, failures, pulls>>

\* After a conflict the vault is loaded again, from revision 0.
ReloadAfterConflict(r, s) ==
    /\ r.stage = "conflict"
    /\ Start(s, 0)
    /\ saves' = saves \ {r}
    /\ UNCHANGED <<server, locked, keyed, store>>

\* Refused with a 404, lost, or its response lost: the caller sees an error.
LoseSave(r) ==
    /\ saves' = saves \ {r}
    /\ UNCHANGED <<server, locked, keyed, store, pulls>>

-----------------------------------------------------------------------------
(* The session.                                                            *)

\* Unlocking loads the vault and starts the poll timer and the socket.
Unlock(s) ==
    /\ locked
    /\ locked' = FALSE
    /\ Start(s, 0)
    /\ UNCHANGED <<server, keyed, store, saves>>

\* refreshCollections, some time after the unlock.
CacheKeys ==
    /\ ~locked /\ ~keyed
    /\ keyed' = TRUE
    /\ UNCHANGED <<server, locked, store, pulls, saves>>

\* Locking clears the store.  Requests in flight are not cancelled.
Lock ==
    /\ ~locked
    /\ locked' = TRUE /\ keyed' = FALSE
    /\ copy' = [i \in Items |-> 0]
    /\ flagged' = {}
    /\ label' = 0 /\ failures' = 0
    /\ UNCHANGED <<server, pulls, saves>>

Next ==
    \/ \E i \in Items : \/ \E opens \in BOOLEAN : OtherDeviceWrites(i, opens)
                        \/ OtherDeviceDeletes(i)
                        \/ Create(i) \/ Update(i) \/ Delete(i)
    \/ \E s \in Pulls : \/ CountRevision(s) \/ ReadRows(s)
                        \/ Poll(s) \/ Deliver(s) \/ LosePull(s)
                        \/ Unlock(s)
    \/ \E r \in saves : \/ ServeSave(r) \/ RefuseSave(r)
                        \/ Acknowledge(r) \/ LoseSave(r)
                        \/ \E s \in Pulls : ReloadAfterConflict(r, s)
    \/ CacheKeys \/ Lock

\* The poll timer fires again and again while the vault is unlocked, the server
\* gets to answer, and not every answer is lost: nothing is assumed of any one
\* pull.
Fairness ==
    /\ SF_vars(\E s \in Pulls : Poll(s))
    /\ SF_vars(\E s \in Pulls : CountRevision(s))
    /\ SF_vars(\E s \in Pulls : ReadRows(s))
    /\ SF_vars(\E s \in Pulls : Deliver(s))

Spec == Init /\ [][Next]_vars
FairSpec == Spec /\ Fairness

-----------------------------------------------------------------------------
(* Properties.                                                             *)

\* The revision of item i the client knows: an absent item is known gone once
\* it is gone.
Known(i) == IF copy[i] = 0 /\ i \in gone THEN Current(i) ELSE copy[i]

\* The watermark is honest: everything up to lastKnownRevision is in the store.
Honest == \A i \in Items : Known(i) >= RevisionAt(i, label)

\* Pulls overlap and the server's two reads are not a transaction, and still
\* the watermark gets ahead of the store in four ways only: an "up to date" that
\* answers a question asked at another watermark (also one of an earlier
\* session); the response to an own save that a pull has overtaken; an overtaken
\* snapshot, which replaces newer rows and leaves the newer watermark where it is
\* if one of its own rows fails; and giving up on rows that keep failing.
OvertakenAnswer(p) == p.stage = "current" /\ p.rev # label
Fails(p) == p.stage = "stale" /\ Failed(p.snapshot) # {}
OvertakenSnapshot(p) == Fails(p) /\ p.rev < label
GivesUp(p) == Fails(p) /\ failures + 1 >= MaxFailedMerges
OnlyOvertakenAnswersMislead ==
    [][Honest /\ ~Honest' =>
          \/ \E s \in Pulls : /\ pulls[s] # Idle /\ pulls'[s] = Idle
                              /\ \/ OvertakenAnswer(pulls[s])
                                 \/ OvertakenSnapshot(pulls[s])
                                 \/ GivesUp(pulls[s])
          \/ \E r \in saves \ saves' : r.to < Known(r.item)]_vars

\* store.ts:3-5: locking clears the store.  No pull fills the store of a locked
\* vault, whenever it was sent; the response to an own save does.
PullsSpareLockedStore ==
    [][locked /\ locked' /\ copy' # copy => \E r \in saves \ saves' : r.stage = "served"]_vars

\* A client that stays unlocked stops downloading the vault once nobody writes
\* any more, even if some rows never open.
DownloadsEnd == <>[]~locked => <>[](label = VaultRevision)
=============================================================================
