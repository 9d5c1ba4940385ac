----------------------------- MODULE Invitations -----------------------------
(***************************************************************************)
(* Invitation links: invitations.rs of the server and lib/invite of the    *)
(* web client.  A link carries a secret; whoever proves to know it joins   *)
(* the family, gets the key of at most one collection the inviter chose    *)
(* and the keys of the family-wide collections of the day the link was     *)
(* made.  Only the family owner creates invitations.                       *)
(*                                                                         *)
(* Reading an invitation needs no session and no transaction: the row, the *)
(* update of the counter and the family-wide keys are three statements.    *)
(* Accepting one is a single transaction.  The rows an invitation depends  *)
(* on move meanwhile; those steps are the committed effects of the         *)
(* handlers SharedVault models request by request.                         *)
(***************************************************************************)
EXTENDS AccessLevels

CONSTANTS
    Users, Owner, Collections, Invites,
    NoCollection,        \* collection_id IS NULL: an invitation to the family
    NoInvite, NoDraft, NoPage,
    WideKind,            \* collections.family_wide_kind
    Declared,            \* collections.family_wide_access_level
    MaxFailedAttempts,   \* MAX_FAILED_ATTEMPTS
    MaxGuesses,          \* bound: wrong proofs being counted at the same time
    MaxMoves,            \* bound: steps of the other routes
    Moves,               \* bound: which of the other routes are in play
    AskLevels            \* bound: levels the requests ask for

ASSUME ConstantsAssumption ==
    /\ Owner \in Users
    /\ NoCollection \notin Collections
    /\ WideKind \in [Collections -> {"ordinary", "folder", "item_bucket"}]
    /\ Declared \in [Collections -> Levels]
    /\ AskLevels \subseteq Levels
    /\ MaxFailedAttempts \in Nat \ {0}
    /\ MaxGuesses \in Nat
    /\ MaxMoves \in Nat

VARIABLES
    family,    \* the family and its collections exist
    member,    \* family_members.status, "none" without a row
    key,       \* collection_keys.access_level
    draft,     \* the inviter's request, composed and perhaps admitted
    invite,    \* rows of invitations with their invitation_family_wide_keys
    adding,    \* requests of add_member past their checks on the pool
    guessing,  \* wrong proofs past the SELECT of fetch_metadata, not yet counted
    page,      \* per user with the link: where its redemption stands
    moves,     \* steps of the other routes taken so far
    received,  \* history: <<invitation, user, <<collection, level>>>> granted
    guessed,   \* history: wrong proofs compared since the last one verified
    strays     \* history: <<collection, user>> inserted by an overtaken grant

rows == <<family, member, key, adding, strays>>
vars == <<rows, draft, invite, guessing, page, moves, received, guessed>>

Scopes == Collections \cup {NoCollection}
Bundle == [Collections -> Access]
Draft == [invite : Invites, coll : Scopes, level : Levels, wide : Bundle, admitted : BOOLEAN]
InviteRow == [status : {"pending", "accepted", "revoked", "deleted"}, failed : Nat, open : BOOLEAN,
              coll : Scopes, level : Levels, wide : Bundle]
\* overtaken: the recipient was removed since the checks of the request.
Adding == [coll : Collections, user : Users, level : Levels, overtaken : BOOLEAN]
Page == [stage : {"proved", "counted", "ready"}, invite : Invites, entries : SUBSET Collections]

ASSUME AbsenceAssumption == NoDraft \notin Draft /\ NoInvite \notin InviteRow /\ NoPage \notin Page

Wide(c) == WideKind[c] # "ordinary"
IsItemBucket(c) == WideKind[c] = "item_bucket"
CollectionAccess(u, c) == IF member[u] = "active" THEN key[c][u] ELSE NoAccess
Pending(i) == invite[i] # NoInvite /\ invite[i].status = "pending"

\* A variant whose WHERE clause forgets the status.
LiveRowWhateverStatus(i) ==
    invite[i] # NoInvite /\ invite[i].open /\ invite[i].failed < MaxFailedAttempts

LiveRow(i) == Pending(i) /\ invite[i].open /\ invite[i].failed < MaxFailedAttempts
Carried(i) == {c \in Collections : /\ invite[i].status # "deleted"
                                   /\ invite[i].wide[c] # NoAccess}

Init ==
    /\ family = TRUE
    /\ member = [u \in Users |-> IF u = Owner THEN "active" ELSE "none"]
    /\ \E made \in SUBSET Collections :
          key = [c \in Collections |-> [u \in Users |->
                    IF u = Owner /\ c \in made THEN "edit" ELSE NoAccess]]
    /\ adding = {}
    /\ draft = NoDraft
    /\ invite = [i \in Invites |-> NoInvite]
    /\ guessing = [i \in Invites |-> 0]
    /\ page = [u \in Users |-> NoPage]
    /\ moves = 0
    /\ received = {}
    /\ guessed = [i \in Invites |-> 0]
    /\ strays = {}

-----------------------------------------------------------------------------
(* Creating one.  The client lists its collections, wraps every            *)
(* family-wide key at the level the share declares, and posts; the server  *)
(* checks the request on the pool and inserts the rows in a transaction.   *)

Foldable == {c \in Collections : Wide(c) /\ CollectionAccess(Owner, c) # NoAccess}

Compose(i, c, l) ==
    /\ family
    /\ draft = NoDraft
    /\ invite[i] = NoInvite
    /\ c # NoCollection => ~IsItemBucket(c) /\ CollectionAccess(Owner, c) # NoAccess
    /\ draft' = [invite |-> i, coll |-> c, level |-> l, admitted |-> FALSE,
                 wide |-> [d \in Collections |-> IF d \in Foldable THEN Declared[d] ELSE NoAccess]]
    /\ UNCHANGED <<rows, invite, guessing, page, moves, received, guessed>>

WithinDeclaredLevel(c, l) == IsItemBucket(c) => l = Declared[c]

AdmitCreate ==
    /\ draft # NoDraft /\ ~draft.admitted
    /\ member[Owner] = "active"
    /\ draft.coll # NoCollection =>
          /\ CollectionAccess(Owner, draft.coll) = "edit"
          /\ WithinDeclaredLevel(draft.coll, draft.level)
    /\ \A c \in Collections : draft.wide[c] # NoAccess =>
          /\ IF Wide(c) THEN MayGrant(CollectionAccess(Owner, c), draft.wide[c])
             ELSE CollectionAccess(Owner, c) = "edit"
          /\ WithinDeclaredLevel(c, draft.wide[c])
    /\ draft' = [draft EXCEPT !.admitted = TRUE]
    /\ UNCHANGED <<rows, invite, guessing, page, moves, received, guessed>>

\* The foreign keys refuse an invitation to a family that is gone.
Create ==
    /\ draft # NoDraft /\ draft.admitted
    /\ family
    /\ invite' = [invite EXCEPT ![draft.invite] =
          [status |-> "pending", failed |-> 0, open |-> TRUE,
           coll |-> draft.coll, level |-> draft.level, wide |-> draft.wide]]
    /\ draft' = NoDraft
    /\ UNCHANGED <<rows, guessing, page, moves, received, guessed>>

\* A refused request, a failed one, a closed dialog.
DropDraft ==
    /\ draft # NoDraft
    /\ draft' = NoDraft
    /\ UNCHANGED <<rows, invite, guessing, page, moves, received, guessed>>

-----------------------------------------------------------------------------
(* Reading one: three statements, no transaction.                          *)

SetFailed(i, n) == [invite EXCEPT ![i] = [@ EXCEPT !.failed = n]]

\* A wrong proof reaches the comparison only on a live row.
ReadWithWrongProof(i) ==
    /\ LiveRow(i)
    /\ guessing[i] < MaxGuesses
    /\ guessing' = [guessing EXCEPT ![i] = @ + 1]
    /\ guessed' = [guessed EXCEPT ![i] = @ + 1]
    /\ UNCHANGED <<rows, draft, invite, page, moves, received>>

CountWrongProof(i) ==
    /\ guessing[i] > 0
    /\ guessing' = [guessing EXCEPT ![i] = @ - 1]
    /\ invite' = IF Pending(i) THEN SetFailed(i, invite[i].failed + 1) ELSE invite
    /\ UNCHANGED <<rows, draft, page, moves, received, guessed>>

ReadWithProof(u, i) ==
    /\ page[u] = NoPage
    /\ LiveRow(i)
    /\ page' = [page EXCEPT ![u] = [stage |-> "proved", invite |-> i, entries |-> {}]]
    /\ UNCHANGED <<rows, draft, invite, guessing, moves, received, guessed>>

\* A variant that takes one failure back instead of all.
ResetCounterByOne(u) ==
    LET i == page[u].invite IN
    /\ page[u] # NoPage /\ page[u].stage = "proved"
    /\ invite' = IF Pending(i) THEN SetFailed(i, invite[i].failed - 1) ELSE invite
    /\ guessed' = IF Pending(i) THEN [guessed EXCEPT ![i] = 0] ELSE guessed
    /\ page' = [page EXCEPT ![u] = [@ EXCEPT !.stage = "counted"]]
    /\ UNCHANGED <<rows, draft, guessing, moves, received>>

ResetCounter(u) ==
    LET i == page[u].invite IN
    /\ page[u] # NoPage /\ page[u].stage = "proved"
    /\ invite' = IF Pending(i) THEN SetFailed(i, 0) ELSE invite
    /\ guessed' = IF Pending(i) THEN [guessed EXCEPT ![i] = 0] ELSE guessed
    /\ page' = [page EXCEPT ![u] = [@ EXCEPT !.stage = "counted"]]
    /\ UNCHANGED <<rows, draft, guessing, moves, received>>

\* The second SELECT; the page then seals what it got to its own identity.
ReadFamilyWideKeys(u) ==
    LET i == page[u].invite IN
    /\ page[u] # NoPage /\ page[u].stage = "counted"
    /\ page' = [page EXCEPT ![u] = [@ EXCEPT
          !.stage = "ready", !.entries = Carried(i)]]
    /\ UNCHANGED <<rows, draft, invite, guessing, moves, received, guessed>>

LeavePage(u) ==
    /\ page[u] # NoPage
    /\ page' = [page EXCEPT ![u] = NoPage]
    /\ UNCHANGED <<rows, draft, invite, guessing, moves, received, guessed>>

-----------------------------------------------------------------------------
(* Accepting one: BEGIN IMMEDIATE, everything in one transaction.          *)

\* A variant that only asks whether the inviter is still in the family.
AuthorisedByMembership(i) == member[Owner] # "none"

Authorised(i) ==
    /\ member[Owner] # "none"
    /\ invite[i].coll # NoCollection => CollectionAccess(Owner, invite[i].coll) = "edit"

\* The entries the handler acts on: those this invitation carries, whose
\* inviter still has some access.
Honoured(i, entries) ==
    {c \in entries \cap Carried(i) : CollectionAccess(Owner, c) # NoAccess}

\* insert_collection_key finds a row: the user's own, or the one this very
\* transaction has inserted for the invitation's own collection.
Conflicting(i, u, entries) ==
    LET explicit == {invite[i].coll} \ {NoCollection}
    IN  \/ \E c \in explicit \cup Honoured(i, entries) : key[c][u] # NoAccess
        \/ explicit \cap Honoured(i, entries) # {}

Granted(i, entries) ==
    {<<c, invite[i].wide[c]>> : c \in Honoured(i, entries)}
    \cup {<<c, invite[i].level>> : c \in {invite[i].coll} \ {NoCollection}}

Presents(u, i) == page[u] # NoPage /\ page[u].stage = "ready" /\ page[u].invite = i

Accept(u, i) ==
    LET granted == Granted(i, page[u].entries) IN
    /\ Presents(u, i) /\ LiveRow(i)
    /\ Authorised(i)
    /\ ~Conflicting(i, u, page[u].entries)
    /\ invite' = [invite EXCEPT ![i] = [@ EXCEPT !.failed = 0, !.status = "accepted"]]
    /\ member' = [member EXCEPT ![u] = IF @ = "none" THEN "active" ELSE @]
    /\ key' = [c \in Collections |-> [key[c] EXCEPT
                  ![u] = IF \E l \in Levels : <<c, l>> \in granted
                         THEN CHOOSE l \in Levels : <<c, l>> \in granted ELSE @]]
    /\ page' = [page EXCEPT ![u] = NoPage]
    /\ received' = received \cup {<<i, u, g>> : g \in granted}
    /\ guessed' = [guessed EXCEPT ![i] = 0]
    /\ UNCHANGED <<family, adding, draft, guessing, moves, strays>>

\* A later check fails: the transaction is dropped, the reset counter with it.
RollBack(u, i) ==
    /\ Presents(u, i) /\ LiveRow(i)
    /\ ~Authorised(i) \/ Conflicting(i, u, page[u].entries)
    /\ page' = [page EXCEPT ![u] = NoPage]
    /\ UNCHANGED <<rows, draft, invite, guessing, moves, received, guessed>>

\* No live row: counted if it is pending, whatever the proof.  Past FailedBound
\* a larger counter means nothing new.
FailedBound == MaxFailedAttempts + MaxGuesses

AcceptDead(u, i) ==
    /\ Presents(u, i) /\ ~LiveRow(i)
    /\ invite' = IF Pending(i) /\ invite[i].failed < FailedBound
                  THEN SetFailed(i, invite[i].failed + 1) ELSE invite
    /\ page' = [page EXCEPT ![u] = NoPage]
    /\ UNCHANGED <<rows, draft, guessing, moves, received, guessed>>

\* A variant that counts the failures of fetch_metadata only.
AcceptWithWrongProofUncounted(i) ==
    /\ LiveRow(i)
    /\ guessed' = [guessed EXCEPT ![i] = @ + 1]
    /\ UNCHANGED <<rows, draft, invite, guessing, page, moves, received>>

AcceptWithWrongProof(i) ==
    /\ LiveRow(i)
    /\ invite' = SetFailed(i, invite[i].failed + 1)
    /\ guessed' = [guessed EXCEPT ![i] = @ + 1]
    /\ UNCHANGED <<rows, draft, guessing, page, moves, received>>

Revoke(i) ==
    /\ Pending(i)
    /\ member[Owner] = "active"
    /\ invite' = [invite EXCEPT ![i] = [@ EXCEPT !.status = "revoked"]]
    /\ UNCHANGED <<rows, draft, guessing, page, moves, received, guessed>>

Expire(i) ==
    /\ Pending(i) /\ invite[i].open
    /\ invite' = [invite EXCEPT ![i] = [@ EXCEPT !.open = FALSE]]
    /\ UNCHANGED <<rows, draft, guessing, page, moves, received, guessed>>

-----------------------------------------------------------------------------
(* The other routes, by what they commit.                                  *)

Moved(kind) ==
    /\ kind \in Moves
    /\ moves < MaxMoves
    /\ moves' = moves + 1
    /\ UNCHANGED <<draft, guessing, page, received, guessed>>

\* add_member of collections.rs, the deliberate share and the reshare alike:
\* the checks read the pool one after the other.
AdmitGrant(v, c, u, l) ==
    /\ Moved("grant")
    /\ member[u] # "none"
    /\ IF Wide(c) THEN MayGrant(CollectionAccess(v, c), l)
       ELSE CollectionAccess(v, c) = "edit"
    /\ WithinDeclaredLevel(c, l)
    /\ adding' = adding \cup {[coll |-> c, user |-> u, level |-> l, overtaken |-> FALSE]}
    /\ UNCHANGED <<family, member, key, invite, strays>>

\* Its transaction: an INSERT that a row already there conflicts with, and that
\* checks nothing else again.
GrantKey(g) ==
    LET inserted == key[g.coll][g.user] = NoAccess IN
    /\ g \in adding /\ family
    /\ adding' = adding \ {g}
    /\ key' = IF inserted THEN [key EXCEPT ![g.coll] = [@ EXCEPT ![g.user] = g.level]] ELSE key
    /\ strays' = IF inserted /\ g.overtaken THEN strays \cup {<<g.coll, g.user>>} ELSE strays
    /\ UNCHANGED <<family, member, draft, invite, guessing, page, moves, received, guessed>>

\* update_access by an editor of the collection or the family owner: never on an
\* item bucket, never on the last editor.
ChangeLevel(v, c, u, l) ==
    /\ Moved("level")
    /\ ~IsItemBucket(c)
    /\ CollectionAccess(v, c) = "edit" \/ (v = Owner /\ CollectionAccess(v, c) # NoAccess)
    /\ key[c][u] \notin {NoAccess, l}
    /\ key[c][u] = "edit" => \E w \in Users \ {u} : key[c][w] = "edit"
    /\ key' = [key EXCEPT ![c] = [@ EXCEPT ![u] = l]]
    /\ UNCHANGED <<family, member, adding, invite, strays>>

\* revoke_access by an editor: ordinary collections only, never the last holder.
RevokeKey(v, c, u) ==
    /\ Moved("revoke")
    /\ CollectionAccess(v, c) = "edit" /\ ~Wide(c)
    /\ key[c][u] # NoAccess
    /\ \E w \in Users \ {u} : key[c][w] # NoAccess
    /\ key' = [key EXCEPT ![c] = [@ EXCEPT ![u] = NoAccess]]
    /\ UNCHANGED <<family, member, adding, invite, strays>>

AddMember(u) ==
    /\ Moved("add")
    /\ family /\ member[u] = "none"
    /\ member' = [member EXCEPT ![u] = "active"]
    /\ UNCHANGED <<family, key, adding, invite, strays>>

SetStatus(u, status) ==
    /\ Moved("status")
    /\ u # Owner /\ member[u] \notin {"none", status}
    /\ member' = [member EXCEPT ![u] = status]
    /\ UNCHANGED <<family, key, adding, invite, strays>>

Overtaken(u) == {IF g.user = u THEN [g EXCEPT !.overtaken = TRUE] ELSE g : g \in adding}

\* A variant that only clears the collections somebody shared deliberately.
RemoveMemberKeepingWideKeys(u) ==
    /\ Moved("remove")
    /\ u # Owner /\ member[u] # "none"
    /\ member' = [member EXCEPT ![u] = "none"]
    /\ key' = [c \in Collections |-> IF Wide(c) THEN key[c] ELSE [key[c] EXCEPT ![u] = NoAccess]]
    /\ adding' = Overtaken(u)
    /\ strays' = {p \in strays : p[2] # u}
    /\ UNCHANGED <<family, invite>>

RemoveMember(u) ==
    /\ Moved("remove")
    /\ u # Owner /\ member[u] # "none"
    /\ member' = [member EXCEPT ![u] = "none"]
    /\ key' = [c \in Collections |-> [key[c] EXCEPT ![u] = NoAccess]]
    /\ adding' = Overtaken(u)
    /\ strays' = {p \in strays : p[2] # u}
    /\ UNCHANGED <<family, invite>>

\* The owner deletes the account: the family goes, its invitations with it.
Dissolve ==
    /\ Moved("dissolve")
    /\ family
    /\ family' = FALSE
    /\ member' = [u \in Users |-> "none"]
    /\ key' = [c \in Collections |-> [u \in Users |-> NoAccess]]
    /\ invite' = [i \in Invites |-> IF invite[i] = NoInvite THEN NoInvite
                                     ELSE [invite[i] EXCEPT !.status = "deleted"]]
    /\ UNCHANGED <<adding, strays>>

-----------------------------------------------------------------------------
Inviting == \/ \E i \in Invites, c \in Scopes, l \in AskLevels : Compose(i, c, l)
            \/ AdmitCreate \/ Create \/ DropDraft
            \/ \E i \in Invites : Revoke(i) \/ Expire(i)

Guessing == \E i \in Invites :
    ReadWithWrongProof(i) \/ CountWrongProof(i) \/ AcceptWithWrongProof(i)

Redeeming ==
    \/ \E u \in Users : ResetCounter(u) \/ ReadFamilyWideKeys(u) \/ LeavePage(u)
    \/ \E u \in Users, i \in Invites :
          ReadWithProof(u, i) \/ Accept(u, i) \/ RollBack(u, i) \/ AcceptDead(u, i)

OtherRoutes ==
    \/ \E v, u \in Users, c \in Collections, l \in AskLevels :
          AdmitGrant(v, c, u, l) \/ ChangeLevel(v, c, u, l)
    \/ \E g \in adding : GrantKey(g)
    \/ \E v, u \in Users, c \in Collections : RevokeKey(v, c, u)
    \/ \E u \in Users : AddMember(u) \/ RemoveMember(u)
    \/ \E u \in Users, s \in {"active", "suspended"} : SetStatus(u, s)
    \/ Dissolve

Next == Inviting \/ Guessing \/ Redeeming \/ OtherRoutes

Spec == Init /\ [][Next]_vars

-----------------------------------------------------------------------------
(* Properties.                                                             *)

\* The types of the rows, the pages and the histories.
TypeOK ==
    /\ family \in BOOLEAN
    /\ member \in [Users -> {"none", "active", "suspended"}]
    /\ key \in [Collections -> [Users -> Access]]
    /\ adding \subseteq Adding
    /\ draft \in Draft \cup {NoDraft}
    /\ invite \in [Invites -> InviteRow \cup {NoInvite}]
    /\ guessing \in [Invites -> 0..MaxGuesses]
    /\ page \in [Users -> Page \cup {NoPage}]
    /\ moves \in 0..MaxMoves
    /\ received \subseteq Invites \X Users \X (Collections \X Levels)
    /\ guessed \in [Invites -> Nat]
    /\ strays \subseteq Collections \X Users

\* Whoever holds a key is in the family, in every order of redemptions, grants,
\* removals and the end of the family, with one exception: a grant whose
\* recipient was removed between the checks of add_member (collections.rs:601)
\* and its INSERT (:629) leaves a key row behind.  Redemption inserts the
\* membership and the keys in one transaction, and a removal deletes both.
HoldersAreMembers ==
    \A c \in Collections, u \in Users :
        key[c][u] # NoAccess => member[u] # "none" \/ <<c, u>> \in strays

\* The counter of failed attempts bounds guessing even though fetch_metadata
\* compares first and counts later: between two verified proofs no more wrong
\* proofs are compared than the limit and what was under way at once.
GuessesAreBounded ==
    \A i \in Invites : guessed[i] <= MaxFailedAttempts + MaxGuesses

\* A newcomer enters an item bucket at its declared level, any collection only
\* while the inviter holds a key of it, and the invitation's own collection at a
\* level the inviter may still grant, whatever happened since the link was made.
GrantsFollowTheInviter ==
    [][\A g \in received' \ received :
          LET c == g[3][1] IN
          /\ CollectionAccess(Owner, c) # NoAccess
          /\ IsItemBucket(c) => g[3][2] = Declared[c]
          /\ c = invite[g[1]].coll => MayGrant(CollectionAccess(Owner, c), g[3][2])]_vars

\* An invitation is taken at most once, by one user, with its whole promise, and
\* never after it was revoked, had expired or went with the family.
Promise(i) ==
    [must |-> {<<c, invite[i].level>> : c \in {invite[i].coll} \ {NoCollection}},
     may |-> {g \in Collections \X Levels : invite[i].wide[g[1]] = g[2]}]

State(i) ==
    IF invite[i] = NoInvite THEN "unused"
    ELSE IF invite[i].status = "accepted" THEN "taken"
    ELSE IF Pending(i) /\ invite[i].open THEN "open" ELSE "closed"

Lifecycle == INSTANCE InviteLifecycle WITH
    Grants <- Collections \X Levels,
    NoOffer <- NoInvite,
    offer <- [i \in Invites |-> IF invite[i] = NoInvite THEN NoInvite ELSE Promise(i)],
    state <- [i \in Invites |-> State(i)],
    received <- received

RedeemedOnceAndWhole == Lifecycle!Spec

\* invitations.rs:111 calls the family-wide keys independent of the invitation's
\* own collection: a newcomer with the right proof, whose inviter has lost
\* nothing, gets in.
NewcomersGetIn ==
    \A i \in Invites, u \in Users :
        /\ Presents(u, i) /\ LiveRow(i) /\ Authorised(i)
        /\ member[u] = "none"
        => ~Conflicting(i, u, page[u].entries)
=============================================================================
