--------------------------- MODULE CollectionKeys ---------------------------
(***************************************************************************)
(* Which key opens what, for one shared collection of a family.            *)
(*                                                                         *)
(* Keys are identified, not computed.  A Collection Key is an epoch: the   *)
(* n-th key ever generated for the collection.  Every encryption of an item*)
(* draws a fresh Item Key (pv-core items.rs), and a revision is accepted   *)
(* once, so an Item Key is the revision whose payload it opens.  A stored  *)
(* item can be read with a Collection Key iff its enc_key is wrapped under *)
(* that epoch and wraps the Item Key of the revision stored in enc_data.   *)
(*                                                                         *)
(* The server never sees a key.  Clients read rows, compute new wrappings, *)
(* and write them back in a later request; between the two any other       *)
(* client may run.  Rights are those of SharedVault: here every holder of  *)
(* the collection's key may edit.                                          *)
(***************************************************************************)
EXTENDS Naturals, FiniteSets

CONSTANTS
    Users,
    Items,
    Owner,            \* of the family, and creator of the collection
    Author,           \* who created each item
    NoJob,
    MaxEpoch,         \* bound: Collection Keys generated
    MaxRevision,      \* bound: revisions of an item
    MaxInFlight,      \* bound: requests on their way to the server
    Enabled           \* bound: the operations this instance exercises

ASSUME ConstantsAssumption ==
    /\ Owner \in Users
    /\ Author \in [Items -> Users]
    /\ MaxEpoch \in Nat \ {0}
    /\ MaxRevision \in Nat \ {0}
    /\ MaxInFlight \in Nat

Epochs == 1..MaxEpoch
Revisions == 1..MaxRevision
UserKey == 0          \* "under" of a personal item: its author's User Key
NoKey == 0            \* no collection_keys row, or no cached handle

VARIABLES
    family,    \* family_members
    sealed,    \* collection_keys.sealed_key: the epoch each user's row seals
    row,       \* vault_items: scope, author, revision, and what enc_key wraps
    given,     \* item_shares.sealed_key: the Item Key sealed to a recipient
    minted,    \* how many Collection Keys were generated
    invite,    \* wrapped_collection_key of the pending invitation, or NoKey
    held,      \* per client: the cached Collection Key
    copy,      \* per client: the item revision it has decrypted, 0 if none
    sent,      \* requests computed by a client and not yet served
    job        \* per client: the removal batch it is building

vars == <<family, sealed, row, given, minted, invite, held, copy, sent, job>>

\* An enc_key is always made for the scope it is stored in.
Row == [scope : {"personal"}, author : Users, rev : Revisions, key : Revisions,
        under : {UserKey}]
       \cup [scope : {"shared"}, author : Users, rev : Revisions, key : Revisions,
             under : Epochs]
       \cup [scope : {"gone"}, author : Users, rev : Revisions, key : Revisions,
             under : Epochs \cup {UserKey}]
WriteReq == [op : {"write"}, by : Users, item : Items, base : 1..MaxRevision - 1,
             into : {"personal"}, under : {UserKey}]
            \cup [op : {"write"}, by : Users, item : Items, base : 1..MaxRevision - 1,
                  into : {"shared"}, under : Epochs]
ShareReq == [op : {"share"}, item : Items, to : Users, seals : Revisions]
GrantReq == [op : {"grant"}, by : Users, to : Users, seals : Epochs]
Job == [stage : {"begun", "listed", "built"}, target : Users, roster : SUBSET Users,
        old : Epochs \cup {NoKey}, to : SUBSET Users, fresh : Epochs \cup {NoKey},
        wraps : [Items -> Revisions \cup {0}]]

TypeOK ==
    /\ family \subseteq Users
    /\ sealed \in [Users -> Epochs \cup {NoKey}]
    /\ row \in [Items -> Row]
    /\ given \in [Items -> [Users -> Revisions \cup {0}]]
    /\ minted \in Epochs
    /\ invite \in Epochs \cup {NoKey}
    /\ held \in [Users -> Epochs \cup {NoKey}]
    /\ copy \in [Users -> [Items -> Revisions \cup {0}]]
    /\ sent \subseteq WriteReq \cup ShareReq \cup GrantReq
    /\ job \in [Users -> Job \cup {NoJob}]

Holders == {u \in Users : sealed[u] # NoKey}
InCollection == {i \in Items : row[i].scope = "shared"}

\* decrypt_item_for_collection, decrypt_item and decryptItemWithSharedKey.
Opens(e, i) == row[i].under = e /\ row[i].key = row[i].rev
OpensForHolder(u, i) == sealed[u] # NoKey /\ i \in InCollection /\ Opens(sealed[u], i)
OpensForAuthor(i) == Opens(UserKey, i)
OpensForRecipient(u, i) == given[i][u] = row[i].rev

-----------------------------------------------------------------------------
\* The owner has set the family and the collection up, granted every member, and
\* moved the items in.
Init ==
    /\ family = Users
    /\ sealed = [u \in Users |-> 1]
    /\ row = [i \in Items |-> [scope |-> "shared", author |-> Author[i],
                               rev |-> 1, key |-> 1, under |-> 1]]
    /\ given = [i \in Items |-> [u \in Users |-> 0]]
    /\ minted = 1
    /\ invite = NoKey
    /\ held = [u \in Users |-> NoKey]
    /\ copy = [u \in Users |-> [i \in Items |-> 0]]
    /\ sent = {}
    /\ job = [u \in Users |-> NoJob]

-----------------------------------------------------------------------------
(* The client's caches.                                                    *)

\* A row of the collections list is unsealed into the key cache; a collection
\* no longer listed is evicted.
RefreshCollections(u) ==
    /\ "refresh" \in Enabled
    /\ held' = [held EXCEPT ![u] = sealed[u]]
    /\ UNCHANGED <<family, sealed, row, given, minted, invite, copy, sent, job>>

\* A pulled row is decrypted with the User Key or the cached Collection Key.
\* A row that does not open keeps its old fields and is marked undecryptable,
\* which bars it from being saved: the copy counts for nothing.
MergeRow(u, i) ==
    LET visible == \/ i \in InCollection /\ sealed[u] # NoKey
                   \/ row[i].scope = "personal" /\ row[i].author = u
        key == IF row[i].scope = "personal" THEN UserKey ELSE held[u]
    IN  /\ "pull" \in Enabled
        /\ copy' = [copy EXCEPT ![u][i] =
                       IF visible /\ Opens(key, i) THEN row[i].rev ELSE 0]
        /\ UNCHANGED <<family, sealed, row, given, minted, invite, held, sent, job>>

\* Locking frees every key and copy.  Requests on their way are not recalled.
Lock(u) ==
    /\ "lock" \in Enabled
    /\ held' = [held EXCEPT ![u] = NoKey]
    /\ copy' = [copy EXCEPT ![u] = [i \in Items |-> 0]]
    /\ UNCHANGED <<family, sealed, row, given, minted, invite, sent, job>>

-----------------------------------------------------------------------------
(* Saving and moving an item: updateVaultItem, moveVaultItem.              *)

Send(r) ==
    /\ Cardinality(sent) < MaxInFlight
    /\ sent' = sent \cup {r}

\* A variant that keeps the key of the scope the item comes from.
EncryptForSource(u, i, into) == IF row[i].scope = "personal" THEN UserKey ELSE held[u]

\* The payload is encrypted for the destination, under the cached key.
EncryptionKey(u, i, into) == IF into = "personal" THEN UserKey ELSE held[u]

\* A client whose copy is not the stored revision is refused by the revision
\* check and only re-pulls; such requests are left out.
SendWrite(u, i, into) ==
    LET under == EncryptionKey(u, i, into)
    IN  /\ (IF into = row[i].scope THEN "write" ELSE "move") \in Enabled
        /\ row[i].scope # "gone"
        /\ copy[u][i] = row[i].rev
        /\ row[i].rev < MaxRevision
        /\ into # row[i].scope \/ into = "personal" => u = row[i].author
        /\ into = "shared" => held[u] # NoKey      \* CollectionKeyUnavailableError
        /\ Send([op |-> "write", by |-> u, item |-> i, base |-> row[i].rev,
                 into |-> into, under |-> under])
        /\ UNCHANGED <<family, sealed, row, given, minted, invite, held, copy, job>>

RevisionMatches(r) == row[r.item].rev = r.base

\* A variant that leaves the Item Key of the previous payload behind.
DataWithoutKey(r) == [scope |-> r.into, author |-> row[r.item].author, rev |-> r.base + 1,
                      key |-> row[r.item].key, under |-> r.under]

\* enc_key, enc_data, collection_id and revision, in one statement.
Written(r) == [scope |-> r.into, author |-> row[r.item].author, rev |-> r.base + 1,
               key |-> r.base + 1, under |-> r.under]

\* A save is accepted on its revision and the caller's rights; the server
\* cannot tell under which key the bytes were made.  A move into the collection
\* severs the direct shares.  The client applies its own write.
ServeWrite(r) ==
    LET i == r.item
    IN  /\ row[i].scope # "gone"
        /\ RevisionMatches(r)
        /\ r.into = "shared" \/ i \in InCollection => sealed[r.by] # NoKey
        /\ r.into # row[i].scope \/ r.into = "personal" => row[i].author = r.by
        /\ row' = [row EXCEPT ![i] = Written(r)]
        /\ given' = IF r.into = "shared"
                    THEN [given EXCEPT ![i] = [u \in Users |-> 0]] ELSE given
        /\ copy' = [copy EXCEPT ![r.by][i] = r.base + 1]
        /\ sent' = sent \ {r}
        /\ UNCHANGED <<family, sealed, minted, invite, held, job>>

DeleteItem(i) ==
    /\ "delete" \in Enabled
    /\ row[i].scope # "gone"
    /\ row' = [row EXCEPT ![i].scope = "gone"]
    /\ given' = [given EXCEPT ![i] = [u \in Users |-> 0]]
    /\ UNCHANGED <<family, sealed, minted, invite, held, copy, sent, job>>

-----------------------------------------------------------------------------
(* Sharing one personal item with one recipient: ShareDialog.              *)

\* The Item Key in the listed row is unwrapped and sealed to the recipient.
SendShare(i, v) ==
    /\ "share" \in Enabled
    /\ row[i].scope = "personal"
    /\ {row[i].author, v} \subseteq family /\ v # row[i].author
    /\ Send([op |-> "share", item |-> i, to |-> v, seals |-> row[i].key])
    /\ UNCHANGED <<family, sealed, row, given, minted, invite, held, copy, job>>

ServeShare(r) ==
    /\ row[r.item].scope = "personal"
    /\ {row[r.item].author, r.to} \subseteq family
    /\ given[r.item][r.to] = 0
    /\ given' = [given EXCEPT ![r.item][r.to] = r.seals]
    /\ sent' = sent \ {r}
    /\ UNCHANGED <<family, sealed, row, minted, invite, held, copy, job>>

RevokeShare(i, v) ==
    /\ "share" \in Enabled
    /\ given[i][v] # 0
    /\ given' = [given EXCEPT ![i][v] = 0]
    /\ UNCHANGED <<family, sealed, row, minted, invite, held, copy, sent, job>>

-----------------------------------------------------------------------------
(* New readers: reshareCollectionToNewMember and invitations.              *)

\* The caller's own key row is fetched, unsealed and sealed to the newcomer.
KeyToReseal(u) == sealed[u]

SendGrant(u, v) ==
    /\ "grant" \in Enabled
    /\ {u, v} \subseteq family
    /\ sealed[u] # NoKey
    /\ sealed[v] = NoKey
    /\ Send([op |-> "grant", by |-> u, to |-> v, seals |-> KeyToReseal(u)])
    /\ UNCHANGED <<family, sealed, row, given, minted, invite, held, copy, job>>

\* (The membership check and the insert are one step here; SharedVault parts
\* them.)
ServeGrant(r) ==
    /\ r.to \in family
    /\ sealed[r.by] # NoKey
    /\ sealed[r.to] = NoKey
    /\ sealed' = [sealed EXCEPT ![r.to] = r.seals]
    /\ sent' = sent \ {r}
    /\ UNCHANGED <<family, row, given, minted, invite, held, copy, job>>

\* generateInviteLink: the key of the moment is wrapped into the invitation and
\* never recomputed.  (Fetching the key row and storing the invitation are one
\* step here: the invitation outlives any delay between them.)
CreateInvite ==
    /\ "invite" \in Enabled
    /\ invite = NoKey
    /\ sealed[Owner] # NoKey
    /\ invite' = sealed[Owner]
    /\ UNCHANGED <<family, sealed, row, given, minted, held, copy, sent, job>>

RevokeInvite ==
    /\ "invite" \in Enabled
    /\ invite # NoKey
    /\ invite' = NoKey
    /\ UNCHANGED <<family, sealed, row, given, minted, held, copy, sent, job>>

\* The invitee seals the wrapped key to itself; the server re-checks the
\* inviter's rights and that the invitee holds no row.
AcceptInvite(v) ==
    /\ "invite" \in Enabled
    /\ invite # NoKey
    /\ sealed[Owner] # NoKey
    /\ sealed[v] = NoKey
    /\ family' = family \cup {v}
    /\ sealed' = [sealed EXCEPT ![v] = invite]
    /\ invite' = NoKey
    /\ UNCHANGED <<row, given, minted, held, copy, sent, job>>

\* Taking a member off the collection rotates nothing; one holder must remain.
RevokeAccess(v) ==
    /\ "revoke" \in Enabled
    /\ sealed[v] # NoKey
    /\ Holders # {v}
    /\ sealed' = [sealed EXCEPT ![v] = NoKey]
    /\ UNCHANGED <<family, row, given, minted, invite, held, copy, sent, job>>

-----------------------------------------------------------------------------
(* Removing a member: buildMemberRemovalBatch, then the removal request.   *)
(* The owner removes another member, or a member deletes its own account.  *)

MayRemove(b, t) == (b = Owner /\ t # Owner) \/ (b = t /\ b # Owner)

\* The target's collections, the roster, and the builder's own key row.
BeginRemoval(b, t) ==
    /\ "remove" \in Enabled
    /\ MayRemove(b, t)
    /\ {b, t} \subseteq family
    /\ job[b] = NoJob
    /\ sealed[t] # NoKey => sealed[b] # NoKey
    /\ job' = [job EXCEPT ![b] =
                 [stage |-> "begun", target |-> t, roster |-> family,
                  old |-> IF sealed[t] = NoKey THEN NoKey ELSE sealed[b],
                  to |-> {}, fresh |-> NoKey, wraps |-> [i \in Items |-> 0]]]
    /\ UNCHANGED <<family, sealed, row, given, minted, invite, held, copy, sent>>

\* The access list; a fresh key is generated and sealed to those who remain.
ListRecipients(b) ==
    LET j == job[b]
        remaining == Holders \ {j.target}
    IN  /\ j # NoJob /\ j.stage = "begun" /\ j.old # NoKey
        /\ remaining \subseteq j.roster
        /\ minted < MaxEpoch
        /\ minted' = minted + 1
        /\ job' = [job EXCEPT ![b] = [j EXCEPT !.stage = "listed", !.to = remaining,
                                               !.fresh = minted + 1]]
        /\ UNCHANGED <<family, sealed, row, given, invite, held, copy, sent>>

\* Every item of the collection is rewrapped from the old key to the fresh one;
\* one that is not under the old key makes the whole build throw.
RewrapItems(b) ==
    LET j == job[b]
    IN  /\ j # NoJob /\ j.stage = "listed"
        /\ \A i \in InCollection : row[i].under = j.old
        /\ job' = [job EXCEPT ![b] =
                     [j EXCEPT !.stage = "built",
                               !.wraps = [i \in Items |-> IF i \in InCollection
                                                          THEN row[i].key ELSE 0]]]
        /\ UNCHANGED <<family, sealed, row, given, minted, invite, held, copy, sent>>

AbandonRemoval(b) ==
    /\ job[b] # NoJob
    /\ job' = [job EXCEPT ![b] = NoJob]
    /\ UNCHANGED <<family, sealed, row, given, minted, invite, held, copy, sent>>

Rewrapped(j) == {i \in Items : j.wraps[i] # 0}

\* A variant that does not ask for every recipient.
SubmittedRecipientsHold(j) == j.to \subseteq Holders

\* The comparisons of apply_member_removal_rekey: sets of ids, nothing else.
SameItems(j) == Rewrapped(j) = InCollection
SameRecipients(j) == j.to = Holders \ {j.target}
BatchMatches(j) ==
    IF sealed[j.target] = NoKey THEN j.old = NoKey
    ELSE j.stage = "built" /\ SameItems(j) /\ SameRecipients(j)

\* A variant that skips the owner's row.
BuilderKeepsKey(j) ==
    [u \in Users |-> IF u = j.target THEN NoKey
                     ELSE IF u \in j.to \ {Owner} THEN j.fresh ELSE sealed[u]]

\* New sealed_key for every remaining recipient; new enc_key for every item of
\* the batch still in the collection, whatever revision it has by now.
SealedAfter(j) ==
    [u \in Users |-> IF u = j.target THEN NoKey
                     ELSE IF u \in j.to /\ sealed[u] # NoKey THEN j.fresh ELSE sealed[u]]
WithEncKey(w, key, under) == [w EXCEPT !.key = key, !.under = under]
RowsAfter(j) ==
    [i \in Items |-> IF i \in Rewrapped(j) \cap InCollection
                     THEN WithEncKey(row[i], j.wraps[i], j.fresh) ELSE row[i]]

\* Deleting an account also hands its items in a collection with survivors to
\* the family owner and deletes the rest.
Inherited(rows, j) ==
    [i \in Items |->
        IF rows[i].author # j.target THEN rows[i]
        ELSE IF rows[i].scope = "shared" /\ sealed[j.target] # NoKey
                /\ Holders # {j.target}
             THEN [rows[i] EXCEPT !.author = Owner]
             ELSE [rows[i] EXCEPT !.scope = "gone"]]

SubmitRemoval(b) ==
    LET j == job[b]
        leaves == j.target = b
    IN  /\ j # NoJob
        /\ {b, j.target} \subseteq family
        /\ BatchMatches(j)
        /\ sealed' = SealedAfter(j)
        /\ row' = IF leaves THEN Inherited(RowsAfter(j), j) ELSE RowsAfter(j)
        /\ given' = [i \in Items |-> [u \in Users |->
                        IF u = j.target \/ row'[i].scope = "gone" THEN 0 ELSE given[i][u]]]
        /\ family' = family \ {j.target}
        /\ job' = [job EXCEPT ![b] = NoJob]
        /\ held' = IF leaves THEN [held EXCEPT ![b] = NoKey] ELSE held
        /\ copy' = IF leaves THEN [copy EXCEPT ![b] = [i \in Items |-> 0]] ELSE copy
        /\ UNCHANGED <<minted, invite, sent>>

-----------------------------------------------------------------------------
Serve(r) ==
    CASE r.op = "write" -> ServeWrite(r)
      [] r.op = "share" -> ServeShare(r)
      [] r.op = "grant" -> ServeGrant(r)

\* Refused by the server, or never arrived.
Lose(r) ==
    /\ sent' = sent \ {r}
    /\ UNCHANGED <<family, sealed, row, given, minted, invite, held, copy, job>>

Next ==
    \/ \E u \in Users : RefreshCollections(u) \/ Lock(u)
    \/ \E u \in Users, i \in Items : MergeRow(u, i)
    \/ \E u \in Users, i \in Items, into \in {"personal", "shared"} : SendWrite(u, i, into)
    \/ \E i \in Items : DeleteItem(i)
    \/ \E i \in Items, v \in Users : SendShare(i, v) \/ RevokeShare(i, v)
    \/ \E u, v \in Users : SendGrant(u, v)
    \/ CreateInvite \/ RevokeInvite
    \/ \E v \in Users : AcceptInvite(v) \/ RevokeAccess(v)
    \/ \E b, t \in Users : BeginRemoval(b, t)
    \/ \E b \in Users : \/ ListRecipients(b) \/ RewrapItems(b)
                        \/ AbandonRemoval(b) \/ SubmitRemoval(b)
    \/ \E r \in sent : Serve(r) \/ Lose(r)

Spec == Init /\ [][Next]_vars

-----------------------------------------------------------------------------
(* What holds.                                                             *)

\* A removal that re-keys leaves the collection on one fresh key: every holder
\* who remains has it, every item is under it, and nobody is left holding the
\* key the removed member had.  Whatever was granted, moved, saved or deleted
\* while the batch was being built (apply_member_removal_rekey).
RekeyIsUniform ==
    [][\A t \in family \ family' :
          sealed[t] # NoKey /\ sealed'[t] = NoKey =>
             \E e \in Epochs :
                /\ \A u \in Holders' : sealed'[u] = e /\ sealed[u] # e
                /\ \A i \in InCollection' : row'[i].under = e]_vars

\* A holder who keeps its key row loses sight of an item that stays in the
\* collection only in two ways: someone saved it under another key than the
\* holder's, or a re-key put back the wrapping of an earlier revision.  No
\* grant, invitation, revocation, removal, move or share of others does it.
StaleWrite(i, u) ==
    /\ row'[i].rev # row[i].rev
    /\ row'[i].under # sealed[u]
StaleRewrap(i) ==
    \E b \in Users : /\ job[b] # NoJob /\ job'[b] = NoJob
                     /\ job[b].wraps[i] \notin {0, row[i].key}
OnlyRacesStrand ==
    [][\A u \in Users, i \in Items :
          /\ OpensForHolder(u, i) /\ ~OpensForHolder(u, i)'
          /\ sealed'[u] # NoKey /\ i \in InCollection'
          => StaleWrite(i, u) \/ StaleRewrap(i)]_vars

\* An item out of every collection opens with its author's User Key: no re-key,
\* move or save in flight leaves a collection's wrapping on it.
PersonalItemsOpen ==
    \A i \in Items : row[i].scope = "personal" => OpensForAuthor(i)

-----------------------------------------------------------------------------
(* What the comments say, and the code does not do.                        *)

\* "that key is stable across revisions" (sync.rs:394): a recipient of a direct
\* share opens the item.  Every save draws a fresh Item Key and seals it to
\* nobody.
RecipientsOpenSharedItems ==
    \A i \in Items, u \in Users : given[i][u] # 0 => OpensForRecipient(u, i)
=============================================================================
