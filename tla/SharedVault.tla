----------------------------- MODULE SharedVault -----------------------------
(***************************************************************************)
(* The shared store of the pv-server: accounts, the one family, collections*)
(* and their key rows, vault items and direct item shares, and the three   *)
(* revision cursors clients poll (vault, collection, direct).              *)
(*                                                                         *)
(* Every handler first runs its extractor and checks on the pool, outside  *)
(* any transaction, and only then its transaction.  A request is therefore *)
(* two steps: it is admitted (Admit...), which reads the store, and it     *)
(* takes effect (an action named after the handler), which re-reads only   *)
(* what the transaction re-reads.  Any other request may run in between.   *)
(* Every early return after admission, every rollback and every crash      *)
(* before COMMIT is Abandon.                                               *)
(*                                                                         *)
(* The cursors are represented by what the properties need of them: the    *)
(* set of counters the last step incremented.                              *)
(***************************************************************************)
EXTENDS AccessLevels, FiniteSets

CONSTANTS
    Users,
    Items,
    Collections,
    Personal,         \* collection_id IS NULL
    None,             \* SQL NULL: no family, no row yet
    Gone,             \* deleted for good: item ids are fresh UUIDs, and bound:
                      \* the store sees one family in its life
    WideKind,         \* collections.family_wide_kind, fixed at creation
    Declared,         \* collections.family_wide_access_level
    MaxRevision,      \* bound: an item is written at most this many times
    MaxInFlight,      \* bound: requests between admission and effect
    AskLevels,        \* bound: the levels requests ask for
    Enabled           \* bound: the operations this instance exercises

Kinds == {"ordinary", "folder", "item_bucket"}

ASSUME ConstantsAssumption ==
    /\ Personal \notin Collections
    /\ {None, Gone} \cap Users = {}
    /\ {None, Gone} \cap [owner : Users, coll : Collections \cup {Personal}, rev : Nat] = {}
    /\ None \notin [items : SUBSET Items, to : SUBSET Users]
    /\ None # Gone
    /\ WideKind \in [Collections -> Kinds]
    /\ Declared \in [Collections -> Levels]
    /\ AskLevels \subseteq Levels
    /\ MaxRevision \in Nat \ {0}
    /\ MaxInFlight \in Nat \ {0}

VARIABLES
    account,   \* rows of users
    owner,     \* families.owner_user_id, None while there is no family
    member,    \* family_members.status per user, "none" without a row
    coll,      \* per id: never used, live, or deleted
    key,       \* collection_keys.access_level per collection and recipient
    item,      \* vault_items
    share,     \* item_shares.access_level per item and recipient
    bumped,    \* cursors the last step incremented
    pend       \* admitted requests that have not taken effect

store == <<account, owner, member, coll, key, item, share>>
vars == <<account, owner, member, coll, key, item, share, bumped, pend>>

Scopes == Collections \cup {Personal}
ItemRow == [owner : Users, coll : Scopes, rev : 1..MaxRevision]
Batch == [Collections -> [items : SUBSET Items, to : SUBSET Users] \cup {None}]

-----------------------------------------------------------------------------
(* Requests in flight, one record shape per handler.                       *)

UpdateItemReq   == [op : {"update_item"}, by : Users, item : Items, seen : 1..MaxRevision]
DeleteItemReq   == [op : {"delete_item"}, by : Users, item : Items]
MoveItemReq     == [op : {"move_item"}, by : Users, item : Items, dest : Scopes,
                    seen : 1..MaxRevision]
CreateShareReq  == [op : {"create_share"}, by : Users, item : Items, to : Users, level : Levels]
UpdateShareReq  == [op : {"update_share"}, by : Users, item : Items, to : Users, level : Levels]
RevokeShareReq  == [op : {"revoke_share"}, by : Users, item : Items, to : Users]
CreateCollReq   == [op : {"create_collection"}, by : Users, coll : Collections]
AddKeyReq       == [op : {"add_key"}, by : Users, coll : Collections, to : Users, level : Levels]
UpdateAccessReq == [op : {"update_access"}, by : Users, coll : Collections, to : Users,
                    level : Levels, editor : BOOLEAN]
RevokeAccessReq == [op : {"revoke_access"}, by : Users, coll : Collections, to : Users]
AddMemberReq    == [op : {"add_member"}, by : Users, to : Users]
RemoveMemberReq == [op : {"remove_member"}, by : Users, to : Users, batch : Batch]
SetStatusReq    == [op : {"set_status"}, by : Users, to : Users, status : {"active", "suspended"}]
BumpDirectReq   == [op : {"bump_direct"}, to : Users]
DeleteAccountReq == [op : {"delete_account"}, by : Users, role : {"none", "owner", "member"},
                     batch : Batch]

Requests == UpdateItemReq \cup DeleteItemReq \cup MoveItemReq \cup CreateShareReq
            \cup UpdateShareReq \cup RevokeShareReq \cup CreateCollReq \cup AddKeyReq
            \cup UpdateAccessReq \cup RevokeAccessReq \cup AddMemberReq
            \cup RemoveMemberReq \cup SetStatusReq \cup BumpDirectReq \cup DeleteAccountReq

-----------------------------------------------------------------------------
(* What the queries of membership.rs, vault.rs and sync.rs return.         *)

Live(i) == item[i] \notin {None, Gone}
IsOwner(u) == owner = u /\ member[u] # "none"
IsItemBucket(c) == WideKind[c] = "item_bucket"
IsFamilyWide(c) == WideKind[c] # "ordinary"

Holders(c) == {u \in Users : key[c][u] # NoAccess}
Editors(c) == {u \in Users : key[c][u] = "edit"}
ActiveHolders(c) == {u \in Holders(c) : member[u] = "active"}
ItemsIn(c) == {i \in Items : Live(i) /\ item[i].coll = c}
SharedTo(i) == {u \in Users : share[i][u] # NoAccess}

CollectionAccess(u, c) ==
    IF coll[c] = "live" /\ member[u] = "active" THEN key[c][u] ELSE NoAccess

\* The join through family_members of the item's owner and of the recipient.
ShareAccess(u, i) ==
    IF member[item[i].owner] # "none" /\ member[u] = "active"
    THEN share[i][u] ELSE NoAccess

ItemAccess(u, i) ==
    IF ~Live(i) THEN NoAccess
    ELSE Combine(ShareAccess(u, i),
                 IF item[i].coll # Personal THEN CollectionAccess(u, item[i].coll)
                 ELSE IF item[i].owner = u THEN "edit" ELSE NoAccess)

\* resolve_recipients: who must learn of a write to item i of scope s.
RecipientsWithoutAuthor(i, s, author) ==
    (IF s = Personal THEN {} ELSE Holders(s)) \cup SharedTo(i)

Recipients(i, s, author) ==
    (IF s = Personal THEN {author} ELSE Holders(s)) \cup SharedTo(i)

\* bump_direct_share_revision, which update and delete call on personal items.
DirectRecipientsAfterDelete(i, s) == {u \in SharedTo(i) : ~Live(i)}

DirectRecipients(i, s) == IF s = Personal THEN SharedTo(i) ELSE {}

\* What GET /api/sync, /api/sync/shared/{id} and /api/sync/direct answer.
PersonalView(u) ==
    {<<i, item[i].coll, item[i].rev>> : i \in {j \in Items :
        /\ Live(j)
        /\ item[j].owner = u
        /\ item[j].coll = Personal \/ CollectionAccess(u, item[j].coll) # NoAccess}}

CollectionView(c) == {<<i, item[i].rev>> : i \in ItemsIn(c)}

DirectView(u) ==
    {<<i, item[i].rev, share[i][u]>> : i \in {j \in Items :
        Live(j) /\ item[j].coll = Personal /\ ShareAccess(u, j) # NoAccess}}

-----------------------------------------------------------------------------
(* The cursors: the sets of counters a step increments.                    *)

Bump(vault, colls, direct) == [vault |-> vault, colls |-> colls, direct |-> direct]
NoBump == Bump({}, {}, {})

\* bump_collection_revision runs for a collection's item only.
InScopeOfNone(s) == {}

InScope(s) == {s} \ {Personal}

-----------------------------------------------------------------------------
Init ==
    /\ account = Users
    /\ owner = None
    /\ member = [u \in Users |-> "none"]
    /\ coll = [c \in Collections |-> "unused"]
    /\ key = [c \in Collections |-> [u \in Users |-> NoAccess]]
    /\ item = [i \in Items |-> None]
    /\ share = [i \in Items |-> [u \in Users |-> NoAccess]]
    /\ bumped = NoBump
    /\ pend = {}

\* A request passes its extractor and its checks outside the transaction.
Admit(r) ==
    /\ r.op \in Enabled
    /\ pend' = pend \cup {r}
    /\ bumped' = NoBump
    /\ UNCHANGED store

\* A request leaves the queue as it takes effect.
Done(r) == pend' = pend \ {r}

\* An error return, a rollback, or a crash before the commit.
Abandon ==
    \E r \in pend : Done(r) /\ bumped' = NoBump /\ UNCHANGED store

-----------------------------------------------------------------------------
(* Vault items: vault.rs.                                                  *)

CreateItem(u, i) ==
    /\ "create_item" \in Enabled
    /\ u \in account
    /\ item[i] = None
    /\ item' = [item EXCEPT ![i] = [owner |-> u, coll |-> Personal, rev |-> 1]]
    /\ bumped' = Bump({u}, {}, {})
    /\ UNCHANGED <<account, owner, member, coll, key, share, pend>>

AdmitUpdateItem(u, i) ==
    /\ SatisfiesEdit(ItemAccess(u, i))
    /\ Admit([op |-> "update_item", by |-> u, item |-> i, seen |-> item[i].rev])

\* Compare-and-swap on the revision; last_editor_user_id needs the account.
UpdateItem ==
    \E r \in pend \cap UpdateItemReq :
        LET i == r.item
            s == item[i].coll
        IN  /\ Live(i) /\ item[i].rev = r.seen /\ r.seen < MaxRevision
            /\ r.by \in account
            /\ item' = [item EXCEPT ![i] = [item[i] EXCEPT !.rev = r.seen + 1]]
            /\ bumped' = Bump(Recipients(i, s, item[i].owner), InScope(s),
                              DirectRecipients(i, s))
            /\ Done(r)
            /\ UNCHANGED <<account, owner, member, coll, key, share>>

AdmitDeleteItem(u, i) ==
    /\ SatisfiesEdit(ItemAccess(u, i))
    /\ Admit([op |-> "delete_item", by |-> u, item |-> i])

\* The item_shares rows cascade with the item.
DeleteItem ==
    \E r \in pend \cap DeleteItemReq :
        LET i == r.item
            s == item[i].coll
        IN  /\ Live(i)
            /\ r.by \in account
            /\ item' = [item EXCEPT ![i] = Gone]
            /\ share' = [share EXCEPT ![i] = [v \in Users |-> NoAccess]]
            /\ bumped' = Bump(Recipients(i, s, item[i].owner), InScope(s),
                              DirectRecipients(i, s))
            /\ Done(r)
            /\ UNCHANGED <<account, owner, member, coll, key>>

\* Only the author may move an item, whatever their level on its scope; an
\* item bucket may be entered at any level, another collection needs edit.
AdmitMoveItem(u, i, dest) ==
    /\ SatisfiesEdit(ItemAccess(u, i))
    /\ item[i].owner = u
    /\ \/ dest = Personal
       \/ dest # Personal /\ IsItemBucket(dest) /\ SatisfiesRead(CollectionAccess(u, dest))
       \/ dest # Personal /\ SatisfiesEdit(CollectionAccess(u, dest))
    /\ Admit([op |-> "move_item", by |-> u, item |-> i, dest |-> dest, seen |-> item[i].rev])

\* claim_item_bucket_edit_in_tx: the mover becomes an editor of the bucket.
ClaimBucketEdit(u, dest) ==
    IF dest # Personal /\ IsItemBucket(dest) /\ key[dest][u] # NoAccess
    THEN [key EXCEPT ![dest][u] = "edit"]
    ELSE key

\* item_shares of a moved item: dropped when a collection receives it.
SharesAfterMove(i, dest) ==
    IF dest = Personal THEN share ELSE [share EXCEPT ![i] = [v \in Users |-> NoAccess]]

\* Ownership is re-read inside the transaction, access to dest is not.
MoveItem ==
    \E r \in pend \cap MoveItemReq :
        LET i == r.item
            source == item[i].coll
            author == item[i].owner
        IN  /\ Live(i) /\ item[i].rev = r.seen /\ r.seen < MaxRevision
            /\ author = r.by /\ r.by \in account
            /\ r.dest # Personal => coll[r.dest] = "live"
            /\ item' = [item EXCEPT ![i] = [owner |-> author, coll |-> r.dest, rev |-> r.seen + 1]]
            /\ key' = ClaimBucketEdit(r.by, r.dest)
            /\ share' = SharesAfterMove(i, r.dest)
            /\ bumped' = Bump(Recipients(i, source, author) \cup Recipients(i, r.dest, author),
                              InScope(source) \cup InScope(r.dest), SharedTo(i))
            /\ Done(r)
            /\ UNCHANGED <<account, owner, member, coll>>

-----------------------------------------------------------------------------
(* Direct shares of one item: vault.rs.                                    *)

AdmitCreateShare(u, i, v, level) ==
    /\ SatisfiesEdit(ItemAccess(u, i))
    /\ Admit([op |-> "create_share", by |-> u, item |-> i, to |-> v, level |-> level])

\* A variant that trusts the checks made before the transaction.
CreateShareUnchecked ==
    \E r \in pend \cap CreateShareReq :
        /\ Live(r.item)
        /\ r.to \in account
        /\ share' = [share EXCEPT ![r.item][r.to] = r.level]
        /\ bumped' = Bump({}, {}, {r.to})
        /\ Done(r)
        /\ UNCHANGED <<account, owner, member, coll, key, item>>

\* The scope is read in the transaction: a collection's item cannot be shared.
CreateShare ==
    \E r \in pend \cap CreateShareReq :
        /\ Live(r.item) /\ item[r.item].coll = Personal
        /\ member[r.to] # "none"
        /\ share[r.item][r.to] = NoAccess
        /\ share' = [share EXCEPT ![r.item][r.to] = r.level]
        /\ bumped' = Bump({}, {}, {r.to})
        /\ Done(r)
        /\ UNCHANGED <<account, owner, member, coll, key, item>>

AdmitUpdateShare(u, i, v, level) ==
    /\ SatisfiesEdit(ItemAccess(u, i))
    /\ Admit([op |-> "update_share", by |-> u, item |-> i, to |-> v, level |-> level])

UpdateShare ==
    \E r \in pend \cap UpdateShareReq :
        /\ share[r.item][r.to] # NoAccess
        /\ share' = [share EXCEPT ![r.item][r.to] = r.level]
        /\ bumped' = Bump({}, {}, {r.to})
        /\ Done(r)
        /\ UNCHANGED <<account, owner, member, coll, key, item>>

AdmitRevokeShare(u, i, v) ==
    /\ SatisfiesEdit(ItemAccess(u, i))
    /\ Admit([op |-> "revoke_share", by |-> u, item |-> i, to |-> v])

RevokeShare ==
    \E r \in pend \cap RevokeShareReq :
        /\ share[r.item][r.to] # NoAccess
        /\ share' = [share EXCEPT ![r.item][r.to] = NoAccess]
        /\ bumped' = Bump({}, {}, {r.to})
        /\ Done(r)
        /\ UNCHANGED <<account, owner, member, coll, key, item>>

-----------------------------------------------------------------------------
(* Collections and their key rows: collections.rs.                         *)

AdmitCreateCollection(u, c) ==
    /\ member[u] = "active"
    /\ Admit([op |-> "create_collection", by |-> u, coll |-> c])

\* The unique index allows one item bucket per declared level.
CreateCollection ==
    \E r \in pend \cap CreateCollReq :
        /\ owner \in Users /\ r.by \in account
        /\ coll[r.coll] = "unused"
        /\ IsItemBucket(r.coll) =>
             \A d \in Collections :
                coll[d] = "live" /\ IsItemBucket(d) => Declared[d] # Declared[r.coll]
        /\ coll' = [coll EXCEPT ![r.coll] = "live"]
        /\ key' = [key EXCEPT ![r.coll][r.by] = "edit"]
        /\ bumped' = NoBump
        /\ Done(r)
        /\ UNCHANGED <<account, owner, member, item, share>>

\* enforce_item_bucket_declared_level_bound
WithinDeclaredOrAbove(c, level) == IsItemBucket(c) => Rank(level) >= Rank(Declared[c])

WithinDeclared(c, level) == IsItemBucket(c) => level = Declared[c]

\* A family-wide collection lets every holder pass on what they may grant; a
\* bucket's grants carry its declared level; the recipient is a family member.
AdmitAddKey(u, c, v, level) ==
    /\ IF IsFamilyWide(c) THEN MayGrant(CollectionAccess(u, c), level)
                          ELSE SatisfiesEdit(CollectionAccess(u, c))
    /\ WithinDeclared(c, level)
    /\ member[v] # "none"
    /\ Admit([op |-> "add_key", by |-> u, coll |-> c, to |-> v, level |-> level])

\* add_member: the transaction re-reads nothing but the key row's absence.
AddKey ==
    \E r \in pend \cap AddKeyReq :
        /\ coll[r.coll] = "live" /\ r.to \in account
        /\ key[r.coll][r.to] = NoAccess
        /\ key' = [key EXCEPT ![r.coll][r.to] = r.level]
        /\ bumped' = NoBump
        /\ Done(r)
        /\ UNCHANGED <<account, owner, member, coll, item, share>>

AdmitUpdateAccess(u, c, v, level) ==
    LET held == CollectionAccess(u, c) IN
    /\ SatisfiesRead(held)
    /\ ~IsItemBucket(c)
    /\ \/ IsOwner(u)
       \/ IF IsFamilyWide(c) THEN MayGrant(held, level) ELSE SatisfiesEdit(held)
    /\ Admit([op |-> "update_access", by |-> u, coll |-> c, to |-> v, level |-> level,
              editor |-> SatisfiesEdit(held) \/ IsOwner(u)])

\* The condition of update_access's UPDATE: another editor remains.
AnotherHolderRemains(c, u) == Holders(c) # {u}

AnotherEditorRemains(c, u) == Editors(c) # {u}

\* The UPDATE itself refuses to demote the last editor.
UpdateAccess ==
    \E r \in pend \cap UpdateAccessReq :
        LET now == key[r.coll][r.to] IN
        /\ now # NoAccess
        /\ now # r.level => r.editor
        /\ r.level = "edit" \/ now # "edit" \/ AnotherEditorRemains(r.coll, r.to)
        /\ key' = [key EXCEPT ![r.coll][r.to] = r.level]
        /\ bumped' = Bump({r.to}, {r.coll}, {})
        /\ Done(r)
        /\ UNCHANGED <<account, owner, member, coll, item, share>>

AdmitRevokeAccess(u, c, v) ==
    /\ SatisfiesEdit(CollectionAccess(u, c))
    /\ ~IsFamilyWide(c)
    /\ Admit([op |-> "revoke_access", by |-> u, coll |-> c, to |-> v])

\* A variant with the guard outside the DELETE, where a race makes it stale.
RevokeAccessUnguarded ==
    \E r \in pend \cap RevokeAccessReq :
        /\ r.to \in Holders(r.coll)
        /\ key' = [key EXCEPT ![r.coll][r.to] = NoAccess]
        /\ bumped' = Bump({r.to}, {}, {})
        /\ Done(r)
        /\ UNCHANGED <<account, owner, member, coll, item, share>>

\* The DELETE itself refuses to remove the last holder.
RevokeAccess ==
    \E r \in pend \cap RevokeAccessReq :
        /\ r.to \in Holders(r.coll)
        /\ Holders(r.coll) # {r.to}
        /\ key' = [key EXCEPT ![r.coll][r.to] = NoAccess]
        /\ bumped' = Bump({r.to}, {}, {})
        /\ Done(r)
        /\ UNCHANGED <<account, owner, member, coll, item, share>>

-----------------------------------------------------------------------------
(* The family: families.rs.                                                *)

\* idx_families_singleton: one family per server.
CreateFamily(u) ==
    /\ "create_family" \in Enabled
    /\ u \in account /\ owner = None /\ member[u] = "none"
    /\ owner' = u
    /\ member' = [member EXCEPT ![u] = "active"]
    /\ bumped' = NoBump
    /\ UNCHANGED <<account, coll, key, item, share, pend>>

AdmitAddMember(u, v) ==
    /\ IsOwner(u)
    /\ v \in account
    /\ Admit([op |-> "add_member", by |-> u, to |-> v])

AddMember ==
    \E r \in pend \cap AddMemberReq :
        /\ owner = r.by /\ r.to \in account
        /\ member[r.to] = "none"
        /\ member' = [member EXCEPT ![r.to] = "active"]
        /\ bumped' = NoBump
        /\ Done(r)
        /\ UNCHANGED <<account, owner, coll, key, item, share>>

\* Suspending and reinstating are two statements with no transaction: the
\* status first, the direct cursor in a second step that a crash may lose.
AdmitSetStatus(u, v, status) ==
    /\ IsOwner(u) /\ u # v
    /\ Admit([op |-> "set_status", by |-> u, to |-> v, status |-> status])

SetStatus ==
    \E r \in pend \cap SetStatusReq :
        /\ owner = r.by
        /\ member[r.to] # "none"
        /\ member' = [member EXCEPT ![r.to] = r.status]
        /\ bumped' = NoBump
        /\ pend' = (pend \ {r}) \cup {[op |-> "bump_direct", to |-> r.to]}
        /\ UNCHANGED <<account, owner, coll, key, item, share>>

BumpDirect ==
    \E r \in pend \cap BumpDirectReq :
        /\ bumped' = Bump({}, {}, {r.to})
        /\ Done(r)
        /\ UNCHANGED store

(***************************************************************************)
(* Member removal.  The client lists the collections the target reaches,   *)
(* unseals each one's key (so it must itself be an active holder) and      *)
(* submits, per collection, the items it rewrapped and the recipients it   *)
(* sealed the new key to: those of the access list, which joins the family.*)
(***************************************************************************)
FetchBatch(target, listed) ==
    [c \in Collections |->
        IF c \in listed
        THEN [items |-> ItemsIn(c), to |-> {v \in Holders(c) \ {target} : member[v] # "none"}]
        ELSE None]

HeldBy(u) == {c \in Collections : key[c][u] # NoAccess}
ListedFor(u) == {c \in Collections : CollectionAccess(u, c) # NoAccess}

AdmitRemoveMember(u, v) ==
    /\ IsOwner(u) /\ u # v
    /\ HeldBy(v) \subseteq ListedFor(u)
    /\ Admit([op |-> "remove_member", by |-> u, to |-> v, batch |-> FetchBatch(v, HeldBy(v))])

\* apply_member_removal_rekey's checks: the batch is exactly today's state.
BatchIsCurrent(target, batch) ==
    \A c \in Collections :
        IF key[c][target] # NoAccess
        THEN /\ batch[c] # None
             /\ batch[c].items = ItemsIn(c)
             /\ batch[c].to = Holders(c) \ {target}
        ELSE batch[c] = None

RemoveMember ==
    \E r \in pend \cap RemoveMemberReq :
        LET u == r.to IN
        /\ owner = r.by
        /\ member[u] # "none"
        /\ BatchIsCurrent(u, r.batch)
        /\ key' = [c \in Collections |-> [key[c] EXCEPT ![u] = NoAccess]]
        /\ share' = [i \in Items |-> [share[i] EXCEPT ![u] = NoAccess]]
        /\ member' = [member EXCEPT ![u] = "none"]
        /\ bumped' = Bump({u}, HeldBy(u), {u})
        /\ Done(r)
        /\ UNCHANGED <<account, owner, coll, item>>

-----------------------------------------------------------------------------
(* Account deletion: account.rs.  The branch is chosen by the role read    *)
(* before the transaction.                                                 *)

AdmitDeleteAccount(u) ==
    /\ u \in account
    /\ LET role == IF member[u] = "none" THEN "none"
                   ELSE IF owner = u THEN "owner" ELSE "member"
       IN  Admit([op |-> "delete_account", by |-> u, role |-> role,
                  batch |-> FetchBatch(u, IF role = "member" THEN ListedFor(u) ELSE {})])

\* DELETE FROM users, with items as they stand after the branch's own writes:
\* every row that references the user cascades.
CascadeUser(u, rows) ==
    LET dead == {i \in Items : rows[i] \notin {None, Gone} /\ rows[i].owner = u} IN
    /\ account' = account \ {u}
    /\ item' = [i \in Items |-> IF i \in dead THEN Gone ELSE rows[i]]
    /\ share' = [i \in Items |-> [v \in Users |->
                    IF i \in dead \/ rows[i] = Gone \/ v = u THEN NoAccess ELSE share[i][v]]]

\* A variant without families.owner_user_id's foreign key.
DeleteAccountUnreferenced ==
    \E r \in pend \cap DeleteAccountReq :
        /\ r.role = "none" /\ r.by \in account
        /\ CascadeUser(r.by, item)
        /\ key' = [c \in Collections |-> [key[c] EXCEPT ![r.by] = NoAccess]]
        /\ member' = [member EXCEPT ![r.by] = "none"]
        /\ bumped' = NoBump
        /\ Done(r)
        /\ UNCHANGED <<owner, coll>>

DeleteAccountAlone ==
    \E r \in pend \cap DeleteAccountReq :
        /\ r.role = "none" /\ r.by \in account
        /\ owner # r.by
        /\ CascadeUser(r.by, item)
        /\ key' = [c \in Collections |-> [key[c] EXCEPT ![r.by] = NoAccess]]
        /\ member' = [member EXCEPT ![r.by] = "none"]
        /\ bumped' = NoBump
        /\ Done(r)
        /\ UNCHANGED <<owner, coll>>

\* The family goes with its owner, and every item of its collections.
DeleteAccountAsOwner ==
    \E r \in pend \cap DeleteAccountReq :
        LET others == {u \in Users \ {r.by} : member[u] # "none"}
            rows == [i \in Items |->
                        IF Live(i) /\ item[i].coll # Personal THEN Gone ELSE item[i]]
        IN  /\ r.role = "owner" /\ r.by \in account /\ owner = r.by
            /\ CascadeUser(r.by, rows)
            /\ owner' = Gone
            /\ member' = [u \in Users |-> "none"]
            /\ coll' = [c \in Collections |-> IF coll[c] = "live" THEN "gone" ELSE coll[c]]
            /\ key' = [c \in Collections |-> [u \in Users |-> NoAccess]]
            /\ bumped' = Bump(others, {}, {})
            /\ Done(r)

\* What the member authored in a collection others still hold goes to the
\* family owner before the cascade.
ReassignAuthorship(u) ==
    [i \in Items |->
        IF /\ Live(i) /\ item[i].owner = u
           /\ item[i].coll \in HeldBy(u)
           /\ Holders(item[i].coll) # {u}
        THEN [item[i] EXCEPT !.owner = owner] ELSE item[i]]

DeleteAccountAsMember ==
    \E r \in pend \cap DeleteAccountReq :
        LET u == r.by IN
        /\ r.role = "member" /\ u \in account
        /\ member[u] # "none" /\ owner \in Users \ {u}
        /\ BatchIsCurrent(u, r.batch)
        /\ CascadeUser(u, ReassignAuthorship(u))
        /\ key' = [c \in Collections |-> [key[c] EXCEPT ![u] = NoAccess]]
        /\ member' = [member EXCEPT ![u] = "none"]
        /\ bumped' = Bump({u}, HeldBy(u), {u})
        /\ Done(r)
        /\ UNCHANGED <<owner, coll>>

-----------------------------------------------------------------------------
HasRoom == Cardinality(pend) < MaxInFlight

AdmitItemRequest ==
    HasRoom /\ \E u \in Users, i \in Items :
        \/ AdmitUpdateItem(u, i)
        \/ AdmitDeleteItem(u, i)
        \/ \E dest \in Scopes : AdmitMoveItem(u, i, dest)
        \/ \E v \in Users, level \in AskLevels : AdmitCreateShare(u, i, v, level)
        \/ \E v \in Users, level \in AskLevels : AdmitUpdateShare(u, i, v, level)
        \/ \E v \in Users : AdmitRevokeShare(u, i, v)

AdmitCollectionRequest ==
    HasRoom /\ \E u \in Users, c \in Collections :
        \/ AdmitCreateCollection(u, c)
        \/ \E v \in Users, level \in AskLevels : AdmitAddKey(u, c, v, level)
        \/ \E v \in Users, level \in AskLevels : AdmitUpdateAccess(u, c, v, level)
        \/ \E v \in Users : AdmitRevokeAccess(u, c, v)

AdmitFamilyRequest ==
    HasRoom /\ \E u, v \in Users :
        \/ AdmitAddMember(u, v)
        \/ \E status \in {"active", "suspended"} : AdmitSetStatus(u, v, status)
        \/ AdmitRemoveMember(u, v)
        \/ u = v /\ AdmitDeleteAccount(u)

Next ==
    \/ AdmitItemRequest
    \/ AdmitCollectionRequest
    \/ AdmitFamilyRequest
    \/ \E u \in Users, i \in Items : CreateItem(u, i)
    \/ UpdateItem \/ DeleteItem \/ MoveItem
    \/ CreateShare \/ UpdateShare \/ RevokeShare
    \/ CreateCollection \/ AddKey \/ UpdateAccess \/ RevokeAccess
    \/ \E u \in Users : CreateFamily(u)
    \/ AddMember \/ SetStatus \/ BumpDirect \/ RemoveMember
    \/ DeleteAccountAlone \/ DeleteAccountAsOwner \/ DeleteAccountAsMember
    \/ Abandon

Spec == Init /\ [][Next]_vars

-----------------------------------------------------------------------------
(***************************************************************************)
(* Properties.                                                             *)
(***************************************************************************)

\* The shape of the store and of the requests in flight.
TypeOK ==
    /\ account \subseteq Users
    /\ owner \in account \cup {None, Gone}
    /\ member \in [Users -> {"none", "active", "suspended"}]
    /\ coll \in [Collections -> {"unused", "live", "gone"}]
    /\ key \in [Collections -> [Users -> Access]]
    /\ item \in [Items -> ItemRow \cup {None, Gone}]
    /\ share \in [Items -> [Users -> Access]]
    /\ bumped \in [vault : SUBSET Users, colls : SUBSET Collections, direct : SUBSET Users]
    /\ pend \subseteq Requests

\* A direct share exists only on a live personal item: a share being created
\* and a move into a collection race, and whichever commits second must see
\* the other (create_share's re-read, move_item's DELETE FROM item_shares).
NoShareOnCollectionItem ==
    \A i \in Items : SharedTo(i) # {} => Live(i) /\ item[i].coll = Personal

\* Nobody outside the family holds a direct share while the family lives: a
\* share being created races the removal of its recipient, which severs every
\* share they hold (create_share's re-read, the removal's DELETE).
OutsidersHoldNoShare ==
    owner # Gone =>
        \A i \in Items, u \in Users : member[u] = "none" => share[i][u] = NoAccess

\* Two editors demoting each other at once cannot leave a collection without
\* an editor: a collection loses its last editor only by losing a key row.
LastEditorIsNotDemoted ==
    [][\A c \in Collections :
          Editors(c) # {} /\ Editors(c)' = {} => Holders(c)' # Holders(c)]_store

\* Two revocations at once, or a removal racing a revocation, cannot empty a
\* collection: only deleting an account can take the last key row.
OnlyAccountDeletionOrphans ==
    [][\A c \in Collections :
          Holders(c) # {} /\ Holders(c)' = {} => account' # account]_store

\* In an item bucket every row has the level the bucket declares, or edit,
\* whichever holder, invitation or claim wrote it.
BucketLevels ==
    \A c \in Collections, u \in Users :
        IsItemBucket(c) => key[c][u] \in {NoAccess, Declared[c], "edit"}

Granted(u) == \E c \in Collections : key[c][u] = NoAccess /\ key'[c][u] # NoAccess

\* The personal cursor is a sound cheap check: whenever what GET /api/sync
\* answers u changes, u's vault_revision moved in the same transaction, but
\* for the changes of u's own standing (status, a new grant) and the deletion
\* of an account, which move it for nobody.
VaultCursorCovers ==
    [][\A u \in account \cap account' :
          \/ PersonalView(u)' = PersonalView(u)
          \/ u \in bumped'.vault
          \/ member'[u] # member[u] \/ Granted(u) \/ account' # account]_store

\* The collection cursor is a sound cheap check for every step but the
\* deletion of an account.
CollectionCursorCovers ==
    [][\A c \in Collections :
          \/ CollectionView(c)' = CollectionView(c)
          \/ c \in bumped'.colls
          \/ account' # account]_store

StatusBumpPending(u) == [op |-> "bump_direct", to |-> u] \in pend'

\* The direct cursor is a sound cheap check as long as nobody joins or leaves
\* the family: a change of status moves it one statement later.
DirectCursorCovers ==
    [][\A u \in account \cap account' :
          \/ DirectView(u)' = DirectView(u)
          \/ u \in bumped'.direct \/ StatusBumpPending(u)
          \/ \E v \in Users : (member[v] = "none") # (member'[v] = "none")]_store

-----------------------------------------------------------------------------
(* What the repository's comments say and the code does not keep.          *)

\* account.rs:218: a collection's item implies its author held a key row.
AuthorHoldsKey ==
    \A i \in Items :
        Live(i) /\ item[i].coll # Personal => item[i].owner \in Holders(item[i].coll)
=============================================================================
