------------------------- MODULE SharedVault_proofs -------------------------
(***************************************************************************)
(* Proofs about SharedVault, for any number of users, items and            *)
(* collections and any bound on the requests in flight.                    *)
(***************************************************************************)
EXTENDS SharedVault, TLAPS

\* combine_access yields a level or no access, as its arguments do.
LEMMA CombineIsAccess ==
    ASSUME NEW a \in Access, NEW b \in Access
    PROVE  Combine(a, b) \in Access
BY DEF Combine

\* The map from a scope and its keys used by a move keeps the shape of key.
LEMMA ClaimKeepsShape ==
    ASSUME key \in [Collections -> [Users -> Access]], NEW u \in Users, NEW dest \in Scopes
    PROVE  ClaimBucketEdit(u, dest) \in [Collections -> [Users -> Access]]
BY DEF ClaimBucketEdit, Access, Levels, NoAccess

\* Admission leaves the store alone and adds one well-shaped request.
LEMMA AdmitKeepsType ==
    ASSUME TypeOK, NEW r \in Requests, Admit(r)
    PROVE  TypeOK'
BY DEF TypeOK, Admit, store, NoBump, Bump

\* What a client submits with a removal has the shape the server parses.
LEMMA FetchBatchShape ==
    ASSUME NEW u \in Users, NEW listed
    PROVE  FetchBatch(u, listed) \in Batch
BY DEF FetchBatch, Batch, ItemsIn, Holders

\* A user with some level on an item implies the item is a row.
LEMMA AccessMeansLive ==
    ASSUME TypeOK, NEW u \in Users, NEW i \in Items, ItemAccess(u, i) # NoAccess
    PROVE  item[i] \in ItemRow
BY DEF TypeOK, ItemAccess, Live

-----------------------------------------------------------------------------
(* Admission.                                                              *)

\* The admission of an item or share request keeps every part of its type.
LEMMA AdmitItemKeepsType == TypeOK /\ AdmitItemRequest => TypeOK'
<1> SUFFICES ASSUME TypeOK, AdmitItemRequest PROVE TypeOK'
    OBVIOUS
<1>0. PICK u \in Users, i \in Items :
        \/ AdmitUpdateItem(u, i)
        \/ AdmitDeleteItem(u, i)
        \/ \E dest \in Scopes : AdmitMoveItem(u, i, dest)
        \/ \E v \in Users, level \in AskLevels : AdmitCreateShare(u, i, v, level)
        \/ \E v \in Users, level \in AskLevels : AdmitUpdateShare(u, i, v, level)
        \/ \E v \in Users : AdmitRevokeShare(u, i, v)
    BY DEF AdmitItemRequest
<1>ask. AskLevels \subseteq Levels
    BY ConstantsAssumption
<1>1. CASE AdmitUpdateItem(u, i)
    <2>1. item[i] \in ItemRow
        BY <1>1, AccessMeansLive DEF AdmitUpdateItem, SatisfiesEdit, NoAccess
    <2>2. [op |-> "update_item", by |-> u, item |-> i, seen |-> item[i].rev] \in Requests
        BY <2>1 DEF ItemRow, Requests, UpdateItemReq
    <2> QED BY <1>1, <2>2, AdmitKeepsType DEF AdmitUpdateItem
<1>2. CASE AdmitDeleteItem(u, i)
    <2>1. [op |-> "delete_item", by |-> u, item |-> i] \in Requests
        BY DEF Requests, DeleteItemReq
    <2> QED BY <1>2, <2>1, AdmitKeepsType DEF AdmitDeleteItem
<1>3. CASE \E dest \in Scopes : AdmitMoveItem(u, i, dest)
    <2>0. PICK dest \in Scopes : AdmitMoveItem(u, i, dest)
        BY <1>3
    <2>1. item[i] \in ItemRow
        BY <2>0, AccessMeansLive DEF AdmitMoveItem, SatisfiesEdit, NoAccess
    <2>2. [op |-> "move_item", by |-> u, item |-> i, dest |-> dest, seen |-> item[i].rev]
            \in Requests
        BY <2>1 DEF ItemRow, Requests, MoveItemReq
    <2> QED BY <2>0, <2>2, AdmitKeepsType DEF AdmitMoveItem
<1>4. CASE \E v \in Users, level \in AskLevels : AdmitCreateShare(u, i, v, level)
    <2>0. PICK v \in Users, level \in AskLevels : AdmitCreateShare(u, i, v, level)
        BY <1>4
    <2>1. [op |-> "create_share", by |-> u, item |-> i, to |-> v, level |-> level] \in Requests
        BY <1>ask DEF Requests, CreateShareReq
    <2> QED BY <2>0, <2>1, AdmitKeepsType DEF AdmitCreateShare
<1>5. CASE \E v \in Users, level \in AskLevels : AdmitUpdateShare(u, i, v, level)
    <2>0. PICK v \in Users, level \in AskLevels : AdmitUpdateShare(u, i, v, level)
        BY <1>5
    <2>1. [op |-> "update_share", by |-> u, item |-> i, to |-> v, level |-> level] \in Requests
        BY <1>ask DEF Requests, UpdateShareReq
    <2> QED BY <2>0, <2>1, AdmitKeepsType DEF AdmitUpdateShare
<1>6. CASE \E v \in Users : AdmitRevokeShare(u, i, v)
    <2>0. PICK v \in Users : AdmitRevokeShare(u, i, v)
        BY <1>6
    <2>1. [op |-> "revoke_share", by |-> u, item |-> i, to |-> v] \in Requests
        BY DEF Requests, RevokeShareReq
    <2> QED BY <2>0, <2>1, AdmitKeepsType DEF AdmitRevokeShare
<1> QED BY <1>0, <1>1, <1>2, <1>3, <1>4, <1>5, <1>6

\* So does the admission of a collection request.
LEMMA AdmitCollectionKeepsType == TypeOK /\ AdmitCollectionRequest => TypeOK'
<1> SUFFICES ASSUME TypeOK, AdmitCollectionRequest PROVE TypeOK'
    OBVIOUS
<1>0. PICK u \in Users, c \in Collections :
        \/ AdmitCreateCollection(u, c)
        \/ \E v \in Users, level \in AskLevels : AdmitAddKey(u, c, v, level)
        \/ \E v \in Users, level \in AskLevels : AdmitUpdateAccess(u, c, v, level)
        \/ \E v \in Users : AdmitRevokeAccess(u, c, v)
    BY DEF AdmitCollectionRequest
<1>ask. AskLevels \subseteq Levels
    BY ConstantsAssumption
<1>1. CASE AdmitCreateCollection(u, c)
    <2>1. [op |-> "create_collection", by |-> u, coll |-> c] \in Requests
        BY DEF Requests, CreateCollReq
    <2> QED BY <1>1, <2>1, AdmitKeepsType DEF AdmitCreateCollection
<1>2. CASE \E v \in Users, level \in AskLevels : AdmitAddKey(u, c, v, level)
    <2>0. PICK v \in Users, level \in AskLevels : AdmitAddKey(u, c, v, level)
        BY <1>2
    <2>1. [op |-> "add_key", by |-> u, coll |-> c, to |-> v, level |-> level] \in Requests
        BY <1>ask DEF Requests, AddKeyReq
    <2> QED BY <2>0, <2>1, AdmitKeepsType DEF AdmitAddKey
<1>3. CASE \E v \in Users, level \in AskLevels : AdmitUpdateAccess(u, c, v, level)
    <2>0. PICK v \in Users, level \in AskLevels : AdmitUpdateAccess(u, c, v, level)
        BY <1>3
    <2> DEFINE editor == SatisfiesEdit(CollectionAccess(u, c)) \/ IsOwner(u)
    <2>1. editor \in BOOLEAN
        BY DEF SatisfiesEdit, IsOwner
    <2> HIDE DEF editor
    <2>2. [op |-> "update_access", by |-> u, coll |-> c, to |-> v, level |-> level,
           editor |-> editor] \in Requests
        BY <2>1, <1>ask DEF Requests, UpdateAccessReq
    <2>3. Admit([op |-> "update_access", by |-> u, coll |-> c, to |-> v, level |-> level,
                 editor |-> editor])
        BY <2>0 DEF AdmitUpdateAccess, editor
    <2> QED BY <2>2, <2>3, AdmitKeepsType
<1>4. CASE \E v \in Users : AdmitRevokeAccess(u, c, v)
    <2>0. PICK v \in Users : AdmitRevokeAccess(u, c, v)
        BY <1>4
    <2>1. [op |-> "revoke_access", by |-> u, coll |-> c, to |-> v] \in Requests
        BY DEF Requests, RevokeAccessReq
    <2> QED BY <2>0, <2>1, AdmitKeepsType DEF AdmitRevokeAccess
<1> QED BY <1>0, <1>1, <1>2, <1>3, <1>4

\* So does the admission of a family or account request.
LEMMA AdmitFamilyKeepsType == TypeOK /\ AdmitFamilyRequest => TypeOK'
<1> SUFFICES ASSUME TypeOK, AdmitFamilyRequest PROVE TypeOK'
    OBVIOUS
<1>0. PICK u \in Users, v \in Users :
        \/ AdmitAddMember(u, v)
        \/ \E status \in {"active", "suspended"} : AdmitSetStatus(u, v, status)
        \/ AdmitRemoveMember(u, v)
        \/ u = v /\ AdmitDeleteAccount(u)
    BY DEF AdmitFamilyRequest
<1>1. CASE AdmitAddMember(u, v)
    <2>1. [op |-> "add_member", by |-> u, to |-> v] \in Requests
        BY DEF Requests, AddMemberReq
    <2> QED BY <1>1, <2>1, AdmitKeepsType DEF AdmitAddMember
<1>2. CASE \E status \in {"active", "suspended"} : AdmitSetStatus(u, v, status)
    <2>0. PICK status \in {"active", "suspended"} : AdmitSetStatus(u, v, status)
        BY <1>2
    <2>1. [op |-> "set_status", by |-> u, to |-> v, status |-> status] \in Requests
        BY DEF Requests, SetStatusReq
    <2> QED BY <2>0, <2>1, AdmitKeepsType DEF AdmitSetStatus
<1>3. CASE AdmitRemoveMember(u, v)
    <2>1. FetchBatch(v, HeldBy(v)) \in Batch
        BY FetchBatchShape
    <2>2. [op |-> "remove_member", by |-> u, to |-> v, batch |-> FetchBatch(v, HeldBy(v))]
            \in Requests
        BY <2>1 DEF Requests, RemoveMemberReq
    <2> QED BY <1>3, <2>2, AdmitKeepsType DEF AdmitRemoveMember
<1>4. CASE AdmitDeleteAccount(u)
    <2> DEFINE role == IF member[u] = "none" THEN "none"
                       ELSE IF owner = u THEN "owner" ELSE "member"
               batch == FetchBatch(u, IF role = "member" THEN ListedFor(u) ELSE {})
    <2>1. role \in {"none", "owner", "member"} /\ batch \in Batch
        BY FetchBatchShape
    <2> HIDE DEF role, batch
    <2>2. [op |-> "delete_account", by |-> u, role |-> role, batch |-> batch] \in Requests
        BY <2>1 DEF Requests, DeleteAccountReq
    <2>3. Admit([op |-> "delete_account", by |-> u, role |-> role, batch |-> batch])
        BY <1>4 DEF AdmitDeleteAccount, role, batch
    <2> QED BY <2>2, <2>3, AdmitKeepsType
<1> QED BY <1>0, <1>1, <1>2, <1>3, <1>4

-----------------------------------------------------------------------------
(* Effects.                                                                *)

\* The cursors a step increments belong to users and collections.
LEMMA BumpShape ==
    ASSUME NEW v \in SUBSET Users, NEW c \in SUBSET Collections, NEW d \in SUBSET Users
    PROVE  /\ Bump(v, c, d) \in [vault : SUBSET Users, colls : SUBSET Collections,
                                 direct : SUBSET Users]
           /\ NoBump \in [vault : SUBSET Users, colls : SUBSET Collections,
                          direct : SUBSET Users]
BY DEF Bump, NoBump

\* Whoever a write notifies is a user, if its author is one.
LEMMA NotifiedAreUsers ==
    ASSUME TypeOK, NEW i \in Items, NEW s \in Scopes, NEW u \in Users
    PROVE  /\ Recipients(i, s, u) \subseteq Users
           /\ DirectRecipients(i, s) \subseteq Users
           /\ SharedTo(i) \subseteq Users
           /\ InScope(s) \subseteq Collections
BY DEF Recipients, DirectRecipients, SharedTo, InScope, Scopes, Holders

\* A live item has an owner, a scope and a revision.
LEMMA LiveIsRow ==
    ASSUME TypeOK, NEW i \in Items, Live(i)
    PROVE  /\ item[i] \in ItemRow
           /\ item[i].owner \in Users
           /\ item[i].coll \in Scopes
           /\ item[i].rev \in Nat
BY DEF TypeOK, Live, ItemRow

\* The effects of create, update, delete and move keep every part of its type.
LEMMA ItemEffectsKeepType ==
    ASSUME TypeOK,
           \/ \E u \in Users, i \in Items : CreateItem(u, i)
           \/ UpdateItem \/ DeleteItem \/ MoveItem
    PROVE  TypeOK'
<1>max. MaxRevision \in Nat \ {0}
    BY ConstantsAssumption
<1>1. ASSUME NEW u \in Users, NEW i \in Items, CreateItem(u, i) PROVE TypeOK'
    <2>1. [owner |-> u, coll |-> Personal, rev |-> 1] \in ItemRow
        BY <1>max DEF ItemRow, Scopes
    <2>2. bumped' \in [vault : SUBSET Users, colls : SUBSET Collections, direct : SUBSET Users]
        BY <1>1, BumpShape DEF CreateItem
    <2> QED BY <1>1, <2>1, <2>2 DEF TypeOK, CreateItem
<1>2. CASE UpdateItem
    <2>0. PICK r \in pend \cap UpdateItemReq :
            /\ Live(r.item) /\ item[r.item].rev = r.seen /\ r.seen < MaxRevision
            /\ item' = [item EXCEPT ![r.item] = [item[r.item] EXCEPT !.rev = r.seen + 1]]
            /\ bumped' = Bump(Recipients(r.item, item[r.item].coll, item[r.item].owner),
                              InScope(item[r.item].coll),
                              DirectRecipients(r.item, item[r.item].coll))
            /\ Done(r)
            /\ UNCHANGED <<account, owner, member, coll, key, share>>
        BY <1>2 DEF UpdateItem
    <2>1. r.item \in Items /\ r.seen \in 1..MaxRevision
        BY DEF UpdateItemReq
    <2>2. item[r.item] \in ItemRow
        BY <2>0, <2>1, LiveIsRow
    <2>3. item' \in [Items -> ItemRow \cup {None, Gone}]
        <3> DEFINE row == [item[r.item] EXCEPT !.rev = r.seen + 1]
        <3>1. row \in ItemRow
            BY <2>0, <2>1, <2>2, <1>max DEF ItemRow
        <3>2. item' = [item EXCEPT ![r.item] = row]
            BY <2>0
        <3> HIDE DEF row
        <3> QED BY <3>1, <3>2, <2>1 DEF TypeOK
    <2>4. bumped' \in [vault : SUBSET Users, colls : SUBSET Collections, direct : SUBSET Users]
        <3> DEFINE s == item[r.item].coll
                   u == item[r.item].owner
        <3>1. s \in Scopes /\ u \in Users
            BY <2>2 DEF ItemRow
        <3> HIDE DEF s, u
        <3>2. bumped' = Bump(Recipients(r.item, s, u), InScope(s), DirectRecipients(r.item, s))
            BY <2>0 DEF s, u
        <3> QED BY <3>1, <3>2, <2>1, NotifiedAreUsers, BumpShape
    <2> QED BY <2>0, <2>3, <2>4 DEF TypeOK, Done
<1>3. CASE DeleteItem
    <2>0. PICK r \in pend \cap DeleteItemReq :
            /\ Live(r.item)
            /\ item' = [item EXCEPT ![r.item] = Gone]
            /\ share' = [share EXCEPT ![r.item] = [v \in Users |-> NoAccess]]
            /\ bumped' = Bump(Recipients(r.item, item[r.item].coll, item[r.item].owner),
                              InScope(item[r.item].coll),
                              DirectRecipients(r.item, item[r.item].coll))
            /\ Done(r)
            /\ UNCHANGED <<account, owner, member, coll, key>>
        BY <1>3 DEF DeleteItem
    <2>1. r.item \in Items
        BY DEF DeleteItemReq
    <2>2. bumped' \in [vault : SUBSET Users, colls : SUBSET Collections, direct : SUBSET Users]
        <3> DEFINE s == item[r.item].coll
                   u == item[r.item].owner
        <3>1. s \in Scopes /\ u \in Users
            BY <2>0, <2>1, LiveIsRow
        <3> HIDE DEF s, u
        <3>2. bumped' = Bump(Recipients(r.item, s, u), InScope(s), DirectRecipients(r.item, s))
            BY <2>0 DEF s, u
        <3> QED BY <3>1, <3>2, <2>1, NotifiedAreUsers, BumpShape
    <2> QED BY <2>0, <2>1, <2>2 DEF TypeOK, Done, Access
<1>4. CASE MoveItem
    <2>0. PICK r \in pend \cap MoveItemReq :
            /\ Live(r.item) /\ item[r.item].rev = r.seen /\ r.seen < MaxRevision
            /\ item' = [item EXCEPT ![r.item] =
                        [owner |-> item[r.item].owner, coll |-> r.dest, rev |-> r.seen + 1]]
            /\ key' = ClaimBucketEdit(r.by, r.dest)
            /\ share' = SharesAfterMove(r.item, r.dest)
            /\ bumped' = Bump(Recipients(r.item, item[r.item].coll, item[r.item].owner)
                                \cup Recipients(r.item, r.dest, item[r.item].owner),
                              InScope(item[r.item].coll) \cup InScope(r.dest),
                              SharedTo(r.item))
            /\ Done(r)
            /\ UNCHANGED <<account, owner, member, coll>>
        BY <1>4 DEF MoveItem
    <2>1. r.item \in Items /\ r.dest \in Scopes /\ r.by \in Users /\ r.seen \in 1..MaxRevision
        BY DEF MoveItemReq
    <2>2. item[r.item] \in ItemRow
        BY <2>0, <2>1, LiveIsRow
    <2>3. item' \in [Items -> ItemRow \cup {None, Gone}]
        <3> DEFINE row == [owner |-> item[r.item].owner, coll |-> r.dest, rev |-> r.seen + 1]
        <3>1. row \in ItemRow
            BY <2>0, <2>1, <2>2, <1>max DEF ItemRow
        <3>2. item' = [item EXCEPT ![r.item] = row]
            BY <2>0
        <3> HIDE DEF row
        <3> QED BY <3>1, <3>2, <2>1 DEF TypeOK
    <2>4. bumped' \in [vault : SUBSET Users, colls : SUBSET Collections, direct : SUBSET Users]
        <3> DEFINE s == item[r.item].coll
                   u == item[r.item].owner
        <3>1. s \in Scopes /\ u \in Users
            BY <2>2 DEF ItemRow
        <3> HIDE DEF s, u
        <3>2. bumped' = Bump(Recipients(r.item, s, u) \cup Recipients(r.item, r.dest, u),
                             InScope(s) \cup InScope(r.dest), SharedTo(r.item))
            BY <2>0 DEF s, u
        <3> QED BY <3>1, <3>2, <2>1, NotifiedAreUsers, BumpShape
    <2>5. key' \in [Collections -> [Users -> Access]]
        BY <2>0, <2>1, ClaimKeepsShape DEF TypeOK
    <2>6. share' \in [Items -> [Users -> Access]]
        BY <2>0, <2>1 DEF TypeOK, SharesAfterMove, Access
    <2> QED BY <2>0, <2>3, <2>4, <2>5, <2>6 DEF TypeOK, Done
<1> QED BY <1>1, <1>2, <1>3, <1>4

\* So do the effects of creating, changing and revoking a direct share.
LEMMA ShareEffectsKeepType ==
    ASSUME TypeOK, CreateShare \/ UpdateShare \/ RevokeShare
    PROVE  TypeOK'
<1>1. CASE CreateShare
    BY <1>1 DEF TypeOK, CreateShare, CreateShareReq, Done, Bump, Access
<1>2. CASE UpdateShare
    BY <1>2 DEF TypeOK, UpdateShare, UpdateShareReq, Done, Bump, Access
<1>3. CASE RevokeShare
    BY <1>3 DEF TypeOK, RevokeShare, RevokeShareReq, Done, Bump, Access
<1> QED BY <1>1, <1>2, <1>3

\* So do those of creating a collection and of granting, changing and revoking
\* access to it.
LEMMA CollectionEffectsKeepType ==
    ASSUME TypeOK, CreateCollection \/ AddKey \/ UpdateAccess \/ RevokeAccess
    PROVE  TypeOK'
<1>1. CASE CreateCollection
    BY <1>1 DEF TypeOK, CreateCollection, CreateCollReq, Done, Bump, NoBump, Access, Levels
<1>2. CASE AddKey
    BY <1>2 DEF TypeOK, AddKey, AddKeyReq, Done, Bump, NoBump, Access
<1>3. CASE UpdateAccess
    BY <1>3 DEF TypeOK, UpdateAccess, UpdateAccessReq, Done, Bump, Access
<1>4. CASE RevokeAccess
    BY <1>4 DEF TypeOK, RevokeAccess, RevokeAccessReq, Done, Bump, Access
<1> QED BY <1>1, <1>2, <1>3, <1>4

\* So do those on the family: creation, joining, status and removal.
LEMMA FamilyEffectsKeepType ==
    ASSUME TypeOK,
           \/ \E u \in Users : CreateFamily(u)
           \/ AddMember \/ SetStatus \/ BumpDirect \/ RemoveMember
    PROVE  TypeOK'
<1>1. ASSUME NEW u \in Users, CreateFamily(u) PROVE TypeOK'
    BY <1>1 DEF TypeOK, CreateFamily, Bump, NoBump
<1>2. CASE AddMember
    BY <1>2 DEF TypeOK, AddMember, AddMemberReq, Done, Bump, NoBump
<1>3. CASE SetStatus
    <2>0. PICK r \in pend \cap SetStatusReq :
            /\ member' = [member EXCEPT ![r.to] = r.status]
            /\ bumped' = NoBump
            /\ pend' = (pend \ {r}) \cup {[op |-> "bump_direct", to |-> r.to]}
            /\ UNCHANGED <<account, owner, coll, key, item, share>>
        BY <1>3 DEF SetStatus
    <2>1. r.to \in Users /\ r.status \in {"active", "suspended"}
        BY DEF SetStatusReq
    <2>2. [op |-> "bump_direct", to |-> r.to] \in Requests
        BY <2>1 DEF Requests, BumpDirectReq
    <2> QED BY <2>0, <2>1, <2>2 DEF TypeOK, Bump, NoBump
<1>4. CASE BumpDirect
    BY <1>4 DEF TypeOK, BumpDirect, BumpDirectReq, Done, Bump, store
<1>5. CASE RemoveMember
    BY <1>5 DEF TypeOK, RemoveMember, RemoveMemberReq, Done, Bump, Access, HeldBy
<1> QED BY <1>1, <1>2, <1>3, <1>4, <1>5

\* The cascade leaves the rest of the rows as they were.
LEMMA CascadeKeepsShape ==
    ASSUME TypeOK, NEW u \in Users,
           NEW rows \in [Items -> ItemRow \cup {None, Gone}], CascadeUser(u, rows)
    PROVE  /\ account' = account \ {u}
           /\ item' \in [Items -> ItemRow \cup {None, Gone}]
           /\ share' \in [Items -> [Users -> Access]]
BY DEF TypeOK, CascadeUser, Access

\* So do the three branches of delete_account, whose cascades clear other tables.
LEMMA AccountEffectsKeepType ==
    ASSUME TypeOK, DeleteAccountAlone \/ DeleteAccountAsOwner \/ DeleteAccountAsMember
    PROVE  TypeOK'
<1>1. CASE DeleteAccountAlone
    <2>0. PICK r \in pend \cap DeleteAccountReq :
            /\ owner # r.by
            /\ CascadeUser(r.by, item)
            /\ key' = [c \in Collections |-> [key[c] EXCEPT ![r.by] = NoAccess]]
            /\ member' = [member EXCEPT ![r.by] = "none"]
            /\ bumped' = NoBump
            /\ Done(r)
            /\ UNCHANGED <<owner, coll>>
        BY <1>1 DEF DeleteAccountAlone
    <2>1. r.by \in Users
        BY DEF DeleteAccountReq
    <2>2. item \in [Items -> ItemRow \cup {None, Gone}]
        BY DEF TypeOK
    <2>3. /\ account' = account \ {r.by}
          /\ item' \in [Items -> ItemRow \cup {None, Gone}]
          /\ share' \in [Items -> [Users -> Access]]
        BY <2>0, <2>1, <2>2, CascadeKeepsShape
    <2> QED BY <2>0, <2>1, <2>3 DEF TypeOK, Done, Bump, NoBump, Access
<1>2. CASE DeleteAccountAsOwner
    <2> DEFINE rows == [i \in Items |->
                          IF Live(i) /\ item[i].coll # Personal THEN Gone ELSE item[i]]
    <2>0. PICK r \in pend \cap DeleteAccountReq :
            /\ CascadeUser(r.by, rows)
            /\ owner' = Gone
            /\ member' = [u \in Users |-> "none"]
            /\ coll' = [c \in Collections |-> IF coll[c] = "live" THEN "gone" ELSE coll[c]]
            /\ key' = [c \in Collections |-> [u \in Users |-> NoAccess]]
            /\ bumped' = Bump({u \in Users \ {r.by} : member[u] # "none"}, {}, {})
            /\ Done(r)
        BY <1>2 DEF DeleteAccountAsOwner
    <2>1. r.by \in Users
        BY DEF DeleteAccountReq
    <2>2. rows \in [Items -> ItemRow \cup {None, Gone}]
        BY DEF TypeOK
    <2>3. /\ account' = account \ {r.by}
          /\ item' \in [Items -> ItemRow \cup {None, Gone}]
          /\ share' \in [Items -> [Users -> Access]]
        <3> HIDE DEF rows
        <3> QED BY <2>0, <2>1, <2>2, CascadeKeepsShape
    <2> QED BY <2>0, <2>1, <2>3 DEF TypeOK, Done, Bump, Access
<1>3. CASE DeleteAccountAsMember
    <2>0. PICK r \in pend \cap DeleteAccountReq :
            /\ owner \in Users \ {r.by}
            /\ CascadeUser(r.by, ReassignAuthorship(r.by))
            /\ key' = [c \in Collections |-> [key[c] EXCEPT ![r.by] = NoAccess]]
            /\ member' = [member EXCEPT ![r.by] = "none"]
            /\ bumped' = Bump({r.by}, HeldBy(r.by), {r.by})
            /\ Done(r)
            /\ UNCHANGED <<owner, coll>>
        BY <1>3 DEF DeleteAccountAsMember
    <2>1. r.by \in Users
        BY DEF DeleteAccountReq
    <2>2. ReassignAuthorship(r.by) \in [Items -> ItemRow \cup {None, Gone}]
        BY <2>0, <2>1 DEF TypeOK, ReassignAuthorship, Live, ItemRow
    <2>3. /\ account' = account \ {r.by}
          /\ item' \in [Items -> ItemRow \cup {None, Gone}]
          /\ share' \in [Items -> [Users -> Access]]
        BY <2>0, <2>1, <2>2, CascadeKeepsShape
    <2> QED BY <2>0, <2>1, <2>3 DEF TypeOK, Done, Bump, Access, HeldBy
<1> QED BY <1>1, <1>2, <1>3

\* Every reachable store and every request in flight has its shape; the family
\* owner always has an account.
THEOREM TypeCorrect == Spec => []TypeOK
<1>1. Init => TypeOK
    BY DEF Init, TypeOK, NoBump, Bump, Access
<1>2. TypeOK /\ [Next]_vars => TypeOK'
    <2> SUFFICES ASSUME TypeOK, [Next]_vars PROVE TypeOK'
        OBVIOUS
    <2>1. CASE Next
        <3>1. CASE Abandon
            BY <3>1 DEF Abandon, TypeOK, Done, NoBump, Bump, store
        <3> QED BY <2>1, <3>1, AdmitItemKeepsType, AdmitCollectionKeepsType,
                   AdmitFamilyKeepsType, ItemEffectsKeepType, ShareEffectsKeepType,
                   CollectionEffectsKeepType, FamilyEffectsKeepType,
                   AccountEffectsKeepType DEF Next
    <2>2. CASE UNCHANGED vars
        BY <2>2 DEF vars, TypeOK
    <2> QED BY <2>1, <2>2
<1> QED BY <1>1, <1>2, PTL DEF Spec

\* Steps that touch neither items nor shares: admission, grants, family.
Inert == UNCHANGED <<item, share>>

\* No admission, grant, family change or abandoned request touches an item or a
\* share, but for the removal of a member.
LEMMA OtherStepsAreInert ==
    ASSUME Next
    PROVE  \/ Inert
           \/ \E u \in Users, i \in Items : CreateItem(u, i)
           \/ UpdateItem \/ DeleteItem \/ MoveItem
           \/ CreateShare \/ UpdateShare \/ RevokeShare
           \/ RemoveMember
           \/ DeleteAccountAlone \/ DeleteAccountAsOwner \/ DeleteAccountAsMember
<1>1. ASSUME NEW r, Admit(r) PROVE Inert
    BY <1>1 DEF Admit, store, Inert
<1>2. AdmitItemRequest => Inert
    BY <1>1 DEF AdmitItemRequest, AdmitUpdateItem, AdmitDeleteItem, AdmitMoveItem,
                AdmitCreateShare, AdmitUpdateShare, AdmitRevokeShare
<1>3. AdmitCollectionRequest => Inert
    BY <1>1 DEF AdmitCollectionRequest, AdmitCreateCollection, AdmitAddKey,
                AdmitUpdateAccess, AdmitRevokeAccess
<1>4. AdmitFamilyRequest => Inert
    BY <1>1 DEF AdmitFamilyRequest, AdmitAddMember, AdmitSetStatus, AdmitRemoveMember,
                AdmitDeleteAccount
<1>5. CreateCollection \/ AddKey \/ UpdateAccess \/ RevokeAccess => Inert
    BY DEF CreateCollection, AddKey, UpdateAccess, RevokeAccess, Inert
<1>6. (\E u \in Users : CreateFamily(u)) \/ AddMember \/ SetStatus \/ BumpDirect \/ Abandon
        => Inert
    BY DEF CreateFamily, AddMember, SetStatus, BumpDirect, Abandon, store, Inert
<1> QED BY <1>2, <1>3, <1>4, <1>5, <1>6 DEF Next

\* What a live personal item is, in the terms the proofs below use.
SharedIsPersonal(i) ==
    \A u \in Users :
        share[i][u] # NoAccess => item[i] \notin {None, Gone} /\ item[i].coll = Personal

\* The property the run checks, and the form of it the proof carries.
LEMMA NoShareIsSharedIsPersonal ==
    NoShareOnCollectionItem <=> \A i \in Items : SharedIsPersonal(i)
BY DEF NoShareOnCollectionItem, SharedIsPersonal, SharedTo, Live

\* The cascade of a deleted account keeps a share only beside the row it was on.
LEMMA CascadeKeepsSharesPersonal ==
    ASSUME TypeOK, NoShareOnCollectionItem, NEW u \in Users,
           NEW rows \in [Items -> ItemRow \cup {None, Gone}],
           \A i \in Items : \/ rows[i] = Gone
                            \/ item[i] = rows[i]
                            \/ /\ item[i] \notin {None, Gone}
                               /\ item[i].coll # Personal,
           CascadeUser(u, rows)
    PROVE  NoShareOnCollectionItem'
<1> SUFFICES ASSUME NEW i \in Items PROVE SharedIsPersonal(i)'
    BY DEF NoShareOnCollectionItem, SharedIsPersonal, SharedTo, Live
<1>1. SharedIsPersonal(i)
    BY NoShareIsSharedIsPersonal
<1> QED BY <1>1 DEF SharedIsPersonal, CascadeUser, TypeOK

\* Direct shares stay on live personal items in every reachable store.
THEOREM SharesArePersonal == Spec => []NoShareOnCollectionItem
<1>1. Init => NoShareOnCollectionItem
    BY DEF Init, NoShareOnCollectionItem, SharedTo
<1>2. TypeOK /\ NoShareOnCollectionItem /\ [Next]_vars => NoShareOnCollectionItem'
    <2> SUFFICES ASSUME TypeOK, NoShareOnCollectionItem, [Next]_vars
                 PROVE  NoShareOnCollectionItem'
        OBVIOUS
    <2>0. \A i \in Items : SharedIsPersonal(i)
        BY NoShareIsSharedIsPersonal
    <2>g. SUFFICES ASSUME Next PROVE NoShareOnCollectionItem'
        BY DEF vars, NoShareOnCollectionItem, SharedTo, Live
    <2>1. CASE Inert
        BY <2>1 DEF Inert, NoShareOnCollectionItem, SharedTo, Live
    <2>2. ASSUME NEW u \in Users, NEW i \in Items, CreateItem(u, i)
          PROVE  \A j \in Items : SharedIsPersonal(j)'
        BY <2>0, <2>2 DEF CreateItem, SharedIsPersonal, TypeOK
    <2>3. CASE UpdateItem
        <3>1. PICK r \in pend \cap UpdateItemReq :
                /\ Live(r.item)
                /\ item' = [item EXCEPT ![r.item] = [item[r.item] EXCEPT !.rev = r.seen + 1]]
                /\ share' = share
            BY <2>3 DEF UpdateItem
        <3>2. r.item \in Items /\ item[r.item] \in ItemRow
            BY <3>1, LiveIsRow DEF UpdateItemReq
        <3> DEFINE row == [item[r.item] EXCEPT !.rev = r.seen + 1]
        <3>3. row.coll = item[r.item].coll /\ row \notin {None, Gone}
            <4>1. row \in [owner : Users, coll : Collections \cup {Personal}, rev : Nat]
                BY <3>2 DEF ItemRow, Scopes, UpdateItemReq
            <4> QED BY <4>1, <3>2, ConstantsAssumption DEF ItemRow
        <3>4. item' = [item EXCEPT ![r.item] = row]
            BY <3>1
        <3> HIDE DEF row
        <3>5. \A i \in Items : SharedIsPersonal(i)'
            BY <2>0, <3>1, <3>2, <3>3, <3>4 DEF SharedIsPersonal, TypeOK
        <3> QED BY <3>5 DEF NoShareOnCollectionItem, SharedIsPersonal, SharedTo, Live
    <2>4. CASE DeleteItem
        <3>1. \A i \in Items : SharedIsPersonal(i)'
            BY <2>0, <2>4 DEF DeleteItem, DeleteItemReq, SharedIsPersonal, TypeOK
        <3> QED BY <3>1 DEF NoShareOnCollectionItem, SharedIsPersonal, SharedTo, Live
    <2>5. CASE MoveItem
        <3>1. PICK r \in pend \cap MoveItemReq :
                /\ Live(r.item)
                /\ item' = [item EXCEPT ![r.item] =
                        [owner |-> item[r.item].owner, coll |-> r.dest, rev |-> r.seen + 1]]
                /\ share' = SharesAfterMove(r.item, r.dest)
            BY <2>5 DEF MoveItem
        <3>2. r.item \in Items /\ item[r.item] \in ItemRow
            BY <3>1, LiveIsRow DEF MoveItemReq
        <3> DEFINE row == [owner |-> item[r.item].owner, coll |-> r.dest, rev |-> r.seen + 1]
        <3>3. row.coll = r.dest /\ row \notin {None, Gone}
            <4>1. row \in [owner : Users, coll : Collections \cup {Personal}, rev : Nat]
                BY <3>2 DEF ItemRow, Scopes, MoveItemReq
            <4> QED BY <4>1, <3>2, ConstantsAssumption DEF ItemRow
        <3>4. item' = [item EXCEPT ![r.item] = row]
            BY <3>1
        <3> HIDE DEF row
        <3>5. \A i \in Items : SharedIsPersonal(i)'
            BY <2>0, <3>1, <3>2, <3>3, <3>4 DEF SharedIsPersonal, SharesAfterMove, TypeOK
        <3> QED BY <3>5 DEF NoShareOnCollectionItem, SharedIsPersonal, SharedTo, Live
    <2>6. CASE CreateShare
        <3>1. \A i \in Items : SharedIsPersonal(i)'
            BY <2>0, <2>6 DEF CreateShare, CreateShareReq, SharedIsPersonal, TypeOK, Live
        <3> QED BY <3>1 DEF NoShareOnCollectionItem, SharedIsPersonal, SharedTo, Live
    <2>7. CASE UpdateShare \/ RevokeShare
        <3>1. \A i \in Items : SharedIsPersonal(i)'
            BY <2>0, <2>7 DEF UpdateShare, UpdateShareReq, RevokeShare, RevokeShareReq,
                              SharedIsPersonal, TypeOK
        <3> QED BY <3>1 DEF NoShareOnCollectionItem, SharedIsPersonal, SharedTo, Live
    <2>8. CASE RemoveMember
        <3>1. \A i \in Items : SharedIsPersonal(i)'
            BY <2>0, <2>8 DEF RemoveMember, RemoveMemberReq, SharedIsPersonal, TypeOK
        <3> QED BY <3>1 DEF NoShareOnCollectionItem, SharedIsPersonal, SharedTo, Live
    <2>9. CASE DeleteAccountAlone
        <3>1. PICK r \in DeleteAccountReq : CascadeUser(r.by, item)
            BY <2>9 DEF DeleteAccountAlone
        <3>2. r.by \in Users /\ item \in [Items -> ItemRow \cup {None, Gone}]
            BY DEF DeleteAccountReq, TypeOK
        <3> QED BY <3>1, <3>2, CascadeKeepsSharesPersonal
    <2>10. CASE DeleteAccountAsOwner
        <3> DEFINE rows == [i \in Items |->
                          IF Live(i) /\ item[i].coll # Personal THEN Gone ELSE item[i]]
        <3>1. PICK r \in DeleteAccountReq : CascadeUser(r.by, rows)
            BY <2>10 DEF DeleteAccountAsOwner
        <3>2. r.by \in Users /\ rows \in [Items -> ItemRow \cup {None, Gone}]
            BY DEF DeleteAccountReq, TypeOK
        <3>3. \A i \in Items : rows[i] = Gone \/ item[i] = rows[i]
            OBVIOUS
        <3> HIDE DEF rows
        <3> QED BY <3>1, <3>2, <3>3, CascadeKeepsSharesPersonal
    <2>11. CASE DeleteAccountAsMember
        <3>1. PICK r \in DeleteAccountReq :
                CascadeUser(r.by, ReassignAuthorship(r.by)) /\ owner \in Users
            BY <2>11 DEF DeleteAccountAsMember
        <3>2. r.by \in Users
            BY DEF DeleteAccountReq
        <3>3. ReassignAuthorship(r.by) \in [Items -> ItemRow \cup {None, Gone}]
            BY <3>1 DEF TypeOK, ReassignAuthorship, Live, ItemRow
        <3>4. \A i \in Items :
                 \/ item[i] = ReassignAuthorship(r.by)[i]
                 \/ item[i] \notin {None, Gone} /\ item[i].coll # Personal
            BY ConstantsAssumption DEF ReassignAuthorship, Live, HeldBy
        <3> QED BY <3>1, <3>2, <3>3, <3>4, CascadeKeepsSharesPersonal
    <2>12. ASSUME NEW u \in Users, NEW i \in Items, CreateItem(u, i)
           PROVE  NoShareOnCollectionItem'
        BY <2>2, <2>12 DEF NoShareOnCollectionItem, SharedIsPersonal, SharedTo, Live
    <2> QED BY <2>g, <2>1, <2>12, <2>3, <2>4, <2>5, <2>6, <2>7, <2>8, <2>9, <2>10, <2>11,
               OtherStepsAreInert
<1> QED BY <1>1, <1>2, TypeCorrect, PTL DEF Spec
-----------------------------------------------------------------------------
(* What a step may do to the key rows.                                     *)

\* The steps that write collection_keys.
LEMMA OtherStepsKeepKeys ==
    ASSUME Next
    PROVE  \/ key' = key
           \/ MoveItem \/ CreateCollection \/ AddKey \/ UpdateAccess \/ RevokeAccess
           \/ RemoveMember
           \/ DeleteAccountAlone \/ DeleteAccountAsOwner \/ DeleteAccountAsMember
<1>1. ASSUME NEW r, Admit(r) PROVE key' = key
    BY <1>1 DEF Admit, store
<1>2. AdmitItemRequest => key' = key
    BY <1>1 DEF AdmitItemRequest, AdmitUpdateItem, AdmitDeleteItem, AdmitMoveItem,
                AdmitCreateShare, AdmitUpdateShare, AdmitRevokeShare
<1>3. AdmitCollectionRequest => key' = key
    BY <1>1 DEF AdmitCollectionRequest, AdmitCreateCollection, AdmitAddKey,
                AdmitUpdateAccess, AdmitRevokeAccess
<1>4. AdmitFamilyRequest => key' = key
    BY <1>1 DEF AdmitFamilyRequest, AdmitAddMember, AdmitSetStatus, AdmitRemoveMember,
                AdmitDeleteAccount
<1>5. (\E u \in Users, i \in Items : CreateItem(u, i)) \/ UpdateItem \/ DeleteItem
      \/ CreateShare \/ UpdateShare \/ RevokeShare => key' = key
    BY DEF CreateItem, UpdateItem, DeleteItem, CreateShare, UpdateShare, RevokeShare
<1>6. (\E u \in Users : CreateFamily(u)) \/ AddMember \/ SetStatus \/ BumpDirect \/ Abandon
        => key' = key
    BY DEF CreateFamily, AddMember, SetStatus, BumpDirect, Abandon, store
<1> QED BY <1>2, <1>3, <1>4, <1>5, <1>6 DEF Next

\* Deleting an account is the only step that changes the accounts.
LEMMA DeletionLeavesAccounts ==
    DeleteAccountAlone \/ DeleteAccountAsOwner \/ DeleteAccountAsMember => account' # account
BY DEF DeleteAccountAlone, DeleteAccountAsOwner, DeleteAccountAsMember, CascadeUser

\* update_access never takes the last editor: in one step, from any state of the
\* store and whatever else is in flight, a collection that had an editor and has
\* none has lost a key row.
LEMMA EditorOutlivesStep ==
    ASSUME TypeOK, Next, NEW c \in Collections,
           Editors(c) # {}, Editors(c)' = {}
    PROVE  Holders(c)' # Holders(c)
<1> SUFFICES ASSUME Holders(c)' = Holders(c) PROVE FALSE
    OBVIOUS
<1>1. PICK e \in Users : key[c][e] = "edit"
    BY DEF Editors
<1>2. \A u \in Users : key'[c][u] # "edit"
    BY DEF Editors
<1>3. \A u \in Users : key'[c][u] # NoAccess <=> key[c][u] # NoAccess
    BY DEF Holders
<1>4. CASE key' = key
    BY <1>1, <1>2, <1>4
<1>5. CASE MoveItem
    <2>1. PICK r \in MoveItemReq : key' = ClaimBucketEdit(r.by, r.dest)
        BY <1>5 DEF MoveItem
    <2>2. key'[c][e] = "edit"
        BY <1>1, <2>1 DEF ClaimBucketEdit, TypeOK, MoveItemReq
    <2> QED BY <1>2, <2>2
<1>6. CASE CreateCollection
    <2>1. PICK r \in CreateCollReq : key' = [key EXCEPT ![r.coll][r.by] = "edit"]
        BY <1>6 DEF CreateCollection
    <2>2. key'[c][e] = "edit"
        BY <1>1, <2>1 DEF TypeOK, CreateCollReq
    <2> QED BY <1>2, <2>2
<1>7. CASE AddKey
    <2>1. PICK r \in AddKeyReq : /\ key[r.coll][r.to] = NoAccess
                                 /\ key' = [key EXCEPT ![r.coll][r.to] = r.level]
        BY <1>7 DEF AddKey
    <2>2. key'[c][e] = "edit"
        BY <1>1, <2>1 DEF TypeOK, AddKeyReq, NoAccess
    <2> QED BY <1>2, <2>2
<1>8. CASE UpdateAccess
    <2>1. PICK r \in UpdateAccessReq :
            /\ \/ r.level = "edit" \/ key[r.coll][r.to] # "edit"
               \/ AnotherEditorRemains(r.coll, r.to)
            /\ key' = [key EXCEPT ![r.coll][r.to] = r.level]
        BY <1>8 DEF UpdateAccess
    <2>2. r.coll \in Collections /\ r.to \in Users
        BY DEF UpdateAccessReq
    <2>3. CASE r.coll # c \/ r.to # e \/ r.level = "edit"
        <3>1. key'[c][e] = "edit"
            BY <1>1, <2>1, <2>2, <2>3 DEF TypeOK
        <3> QED BY <1>2, <3>1
    <2>4. CASE r.coll = c /\ r.to = e /\ r.level # "edit"
        <3>1. PICK f \in Users : f # e /\ key[c][f] = "edit"
            BY <1>1, <2>1, <2>4 DEF AnotherEditorRemains, Editors
        <3>2. key'[c][f] = "edit"
            BY <2>1, <2>2, <2>4, <3>1 DEF TypeOK
        <3> QED BY <1>2, <3>2
    <2> QED BY <2>3, <2>4
<1>9. CASE RevokeAccess
    <2>1. PICK r \in RevokeAccessReq : /\ r.to \in Holders(r.coll)
                                       /\ key' = [key EXCEPT ![r.coll][r.to] = NoAccess]
        BY <1>9 DEF RevokeAccess
    <2>2. CASE r.coll = c
        BY <1>3, <2>1, <2>2 DEF TypeOK, RevokeAccessReq, Holders
    <2>3. CASE r.coll # c
        BY <1>1, <1>2, <2>1, <2>3 DEF TypeOK, RevokeAccessReq
    <2> QED BY <2>2, <2>3
<1>10. CASE RemoveMember \/ DeleteAccountAlone \/ DeleteAccountAsMember
    <2>1. PICK u \in Users : key' = [d \in Collections |-> [key[d] EXCEPT ![u] = NoAccess]]
        BY <1>10 DEF RemoveMember, RemoveMemberReq, DeleteAccountAlone,
                     DeleteAccountAsMember, DeleteAccountReq
    <2>2. CASE u = e
        BY <1>1, <1>3, <2>1, <2>2 DEF TypeOK, NoAccess
    <2>3. CASE u # e
        BY <1>1, <1>2, <2>1, <2>3 DEF TypeOK
    <2> QED BY <2>2, <2>3
<1>11. CASE DeleteAccountAsOwner
    BY <1>1, <1>3, <1>11 DEF DeleteAccountAsOwner, NoAccess
<1> QED BY <1>4, <1>5, <1>6, <1>7, <1>8, <1>9, <1>10, <1>11, OtherStepsKeepKeys

\* Two editors demoting each other at once cannot leave a collection without an
\* editor (the condition inside update_access's UPDATE).
THEOREM LastEditorStays == Spec => LastEditorIsNotDemoted
<1>1. TypeOK /\ [Next]_vars =>
        [\A c \in Collections :
            Editors(c) # {} /\ Editors(c)' = {} => Holders(c)' # Holders(c)]_store
    <2> SUFFICES ASSUME TypeOK, [Next]_vars,
                        ~ UNCHANGED store,
                        NEW c \in Collections, Editors(c) # {}, Editors(c)' = {}
                 PROVE  Holders(c)' # Holders(c)
        OBVIOUS
    <2>1. Next
        BY DEF vars, store
    <2> QED BY <2>1, EditorOutlivesStep
<1> QED BY <1>1, TypeCorrect, PTL DEF Spec, LastEditorIsNotDemoted
-----------------------------------------------------------------------------
(* Shares and the family.                                                  *)

\* Everything but the steps named below leaves the family and the shares alone.
LEMMA OtherStepsKeepFamilyAndShares ==
    ASSUME Next
    PROVE  \/ UNCHANGED <<owner, member, share>>
           \/ DeleteItem \/ MoveItem
           \/ CreateShare \/ UpdateShare \/ RevokeShare
           \/ \E u \in Users : CreateFamily(u)
           \/ AddMember \/ SetStatus \/ RemoveMember
           \/ DeleteAccountAlone \/ DeleteAccountAsOwner \/ DeleteAccountAsMember
<1> DEFINE Kept == UNCHANGED <<owner, member, share>>
<1>1. ASSUME NEW r, Admit(r) PROVE Kept
    BY <1>1 DEF Admit, store
<1>2. AdmitItemRequest => Kept
    BY <1>1 DEF AdmitItemRequest, AdmitUpdateItem, AdmitDeleteItem, AdmitMoveItem,
                AdmitCreateShare, AdmitUpdateShare, AdmitRevokeShare
<1>3. AdmitCollectionRequest => Kept
    BY <1>1 DEF AdmitCollectionRequest, AdmitCreateCollection, AdmitAddKey,
                AdmitUpdateAccess, AdmitRevokeAccess
<1>4. AdmitFamilyRequest => Kept
    BY <1>1 DEF AdmitFamilyRequest, AdmitAddMember, AdmitSetStatus, AdmitRemoveMember,
                AdmitDeleteAccount
<1>5. (\E u \in Users, i \in Items : CreateItem(u, i)) \/ UpdateItem => Kept
    BY DEF CreateItem, UpdateItem
<1>6. CreateCollection \/ AddKey \/ UpdateAccess \/ RevokeAccess => Kept
    BY DEF CreateCollection, AddKey, UpdateAccess, RevokeAccess
<1>7. BumpDirect \/ Abandon => Kept
    BY DEF BumpDirect, Abandon, store
<1> QED BY <1>2, <1>3, <1>4, <1>5, <1>6, <1>7 DEF Next

\* A share being created races the removal of its recipient: the re-read inside
\* create_share and the DELETE inside the removal leave no share outside the
\* family.
THEOREM SharesStayInFamily == Spec => []OutsidersHoldNoShare
<1>1. Init => OutsidersHoldNoShare
    BY DEF Init, OutsidersHoldNoShare
<1>2. TypeOK /\ OutsidersHoldNoShare /\ [Next]_vars => OutsidersHoldNoShare'
    <2> SUFFICES ASSUME TypeOK, OutsidersHoldNoShare, [Next]_vars, owner' # Gone,
                        NEW i \in Items, NEW u \in Users, member'[u] = "none"
                 PROVE  share'[i][u] = NoAccess
        BY DEF OutsidersHoldNoShare
    <2>1. owner # Gone => (member[u] = "none" => share[i][u] = NoAccess)
        BY DEF OutsidersHoldNoShare
    <2>2. CASE UNCHANGED <<owner, member, share>>
        BY <2>1, <2>2
    <2>3. CASE DeleteItem \/ RevokeShare
        <3>1. owner' = owner /\ member' = member
            BY <2>3 DEF DeleteItem, RevokeShare
        <3>2. CASE DeleteItem
            <4>1. PICK j \in Items : share' = [share EXCEPT ![j] = [v \in Users |-> NoAccess]]
                BY <3>2 DEF DeleteItem, DeleteItemReq
            <4> QED BY <2>1, <3>1, <4>1 DEF TypeOK
        <3>3. CASE RevokeShare
            <4>1. PICK j \in Items, v \in Users : share' = [share EXCEPT ![j][v] = NoAccess]
                BY <3>3 DEF RevokeShare, RevokeShareReq
            <4> QED BY <2>1, <3>1, <4>1 DEF TypeOK
        <3> QED BY <2>3, <3>2, <3>3
    <2>4. CASE MoveItem
        BY <2>1, <2>4 DEF MoveItem, MoveItemReq, SharesAfterMove, TypeOK
    <2>5. CASE CreateShare \/ UpdateShare
        <3>1. \/ \E r \in CreateShareReq : /\ member[r.to] # "none"
                                           /\ share' = [share EXCEPT ![r.item][r.to] = r.level]
              \/ \E r \in UpdateShareReq : /\ share[r.item][r.to] # NoAccess
                                           /\ share' = [share EXCEPT ![r.item][r.to] = r.level]
            BY <2>5 DEF CreateShare, UpdateShare
        <3>2. owner' = owner /\ member' = member
            BY <2>5 DEF CreateShare, UpdateShare
        <3>3. PICK j \in Items, v \in Users :
                /\ member[v] # "none" \/ share[j][v] # NoAccess
                /\ \/ share'[i][u] = share[i][u]
                   \/ i = j /\ u = v
            <4>1. ASSUME NEW r \in CreateShareReq \cup UpdateShareReq,
                         share' = [share EXCEPT ![r.item][r.to] = r.level]
                  PROVE  /\ r.item \in Items /\ r.to \in Users
                         /\ share'[i][u] = share[i][u] \/ (i = r.item /\ u = r.to)
                BY <4>1 DEF TypeOK, CreateShareReq, UpdateShareReq
            <4> QED BY <3>1, <4>1
        <3> QED BY <2>1, <3>2, <3>3
    <2>6. CASE \E v \in Users : CreateFamily(v)
        <3>1. owner # Gone
            BY <2>6, ConstantsAssumption DEF CreateFamily
        <3>2. member[u] = "none" /\ share' = share
            BY <2>6 DEF CreateFamily, TypeOK
        <3> QED BY <2>1, <3>1, <3>2
    <2>7. CASE AddMember
        BY <2>1, <2>7 DEF AddMember, AddMemberReq, TypeOK
    <2>8. CASE SetStatus
        BY <2>1, <2>8 DEF SetStatus, SetStatusReq, TypeOK
    <2>9. CASE RemoveMember
        BY <2>1, <2>9 DEF RemoveMember, RemoveMemberReq, TypeOK
    <2>10. CASE DeleteAccountAlone
        BY <2>1, <2>10 DEF DeleteAccountAlone, DeleteAccountReq, CascadeUser, TypeOK
    <2>11. CASE DeleteAccountAsOwner
        BY <2>11 DEF DeleteAccountAsOwner
    <2>12. CASE DeleteAccountAsMember
        BY <2>1, <2>12 DEF DeleteAccountAsMember, DeleteAccountReq, CascadeUser, TypeOK
    <2> QED BY <2>2, <2>3, <2>4, <2>5, <2>6, <2>7, <2>8, <2>9, <2>10, <2>11, <2>12,
               OtherStepsKeepFamilyAndShares DEF vars
<1> QED BY <1>1, <1>2, TypeCorrect, PTL DEF Spec
-----------------------------------------------------------------------------
(* A collection keeps a holder until an account is deleted.  RemoveMember's *)
(* own checks compare the batch with the store; that the batch leaves       *)
(* somebody a key is a fact about how the client built it, so it is carried *)
(* as an invariant of the requests in flight.                               *)

LeavesAHolder(r) == \A c \in Collections : r.batch[c] # None => r.batch[c].to # {}

RemovalsLeaveAHolder == \A r \in pend \cap RemoveMemberReq : LeavesAHolder(r)

\* The remover must hold a key it can unseal in every collection of the target,
\* so it is itself among the recipients it lists.
LEMMA RemoverIsRecipient ==
    ASSUME TypeOK, NEW u \in Users, NEW v \in Users, AdmitRemoveMember(u, v)
    PROVE  \A r \in pend' \ pend : LeavesAHolder(r)
<1> DEFINE batch == FetchBatch(v, HeldBy(v))
<1>1. ASSUME NEW c \in Collections, batch[c] # None PROVE batch[c].to # {}
    <2>1. c \in HeldBy(v) /\ batch[c].to = {w \in Holders(c) \ {v} : member[w] # "none"}
        BY <1>1 DEF FetchBatch
    <2>2. u # v /\ CollectionAccess(u, c) # NoAccess
        BY <2>1 DEF AdmitRemoveMember, ListedFor
    <2>3. member[u] = "active" /\ u \in Holders(c)
        BY <2>2 DEF CollectionAccess, Holders
    <2> QED BY <2>1, <2>2, <2>3
<1>2. pend' = pend \cup {[op |-> "remove_member", by |-> u, to |-> v, batch |-> batch]}
    BY DEF AdmitRemoveMember, Admit
<1> HIDE DEF batch
<1> QED BY <1>1, <1>2 DEF LeavesAHolder

\* Only AdmitRemoveMember adds a removal to the requests in flight.
LEMMA RemovalsAreAdmitted ==
    ASSUME Next, NEW r \in pend' \ pend, r \in RemoveMemberReq
    PROVE  \E u, v \in Users : AdmitRemoveMember(u, v)
<1> DEFINE Other == pend' \subseteq pend
<1>0. r.op = "remove_member"
    BY DEF RemoveMemberReq
<1>1. ASSUME NEW q, Admit(q), q.op # "remove_member" PROVE FALSE
    BY <1>0, <1>1 DEF Admit
<1>2. ~AdmitItemRequest
    <2> SUFFICES ASSUME AdmitItemRequest PROVE FALSE
        OBVIOUS
    <2> QED BY <1>1 DEF AdmitItemRequest, AdmitUpdateItem, AdmitDeleteItem, AdmitMoveItem,
                        AdmitCreateShare, AdmitUpdateShare, AdmitRevokeShare
<1>3. ~AdmitCollectionRequest
    <2> SUFFICES ASSUME AdmitCollectionRequest PROVE FALSE
        OBVIOUS
    <2> QED BY <1>1 DEF AdmitCollectionRequest, AdmitCreateCollection, AdmitAddKey,
                        AdmitUpdateAccess, AdmitRevokeAccess
<1>4. AdmitFamilyRequest => \E u, v \in Users : AdmitRemoveMember(u, v)
    <2> SUFFICES ASSUME AdmitFamilyRequest PROVE \E u, v \in Users : AdmitRemoveMember(u, v)
        OBVIOUS
    <2> QED BY <1>1 DEF AdmitFamilyRequest, AdmitAddMember, AdmitSetStatus, AdmitDeleteAccount
<1>5. ~SetStatus
    BY <1>0 DEF SetStatus
<1>6. (\E u \in Users, i \in Items : CreateItem(u, i)) \/ UpdateItem \/ DeleteItem \/ MoveItem
        => Other
    BY DEF CreateItem, UpdateItem, DeleteItem, MoveItem, Done
<1>7. CreateShare \/ UpdateShare \/ RevokeShare => Other
    BY DEF CreateShare, UpdateShare, RevokeShare, Done
<1>8. CreateCollection \/ AddKey \/ UpdateAccess \/ RevokeAccess => Other
    BY DEF CreateCollection, AddKey, UpdateAccess, RevokeAccess, Done
<1>9. (\E u \in Users : CreateFamily(u)) \/ AddMember \/ BumpDirect \/ RemoveMember \/ Abandon
        => Other
    BY DEF CreateFamily, AddMember, BumpDirect, RemoveMember, Abandon, Done
<1>10. DeleteAccountAlone \/ DeleteAccountAsOwner \/ DeleteAccountAsMember => Other
    BY DEF DeleteAccountAlone, DeleteAccountAsOwner, DeleteAccountAsMember, Done
<1> QED BY <1>2, <1>3, <1>4, <1>5, <1>6, <1>7, <1>8, <1>9, <1>10 DEF Next

\* The strengthening is an invariant.
LEMMA RemovalsAlwaysLeaveAHolder == Spec => []RemovalsLeaveAHolder
<1>1. Init => RemovalsLeaveAHolder
    BY DEF Init, RemovalsLeaveAHolder
<1>2. TypeOK /\ RemovalsLeaveAHolder /\ [Next]_vars => RemovalsLeaveAHolder'
    <2> SUFFICES ASSUME TypeOK, RemovalsLeaveAHolder, [Next]_vars,
                        NEW r \in pend' \cap RemoveMemberReq
                 PROVE  LeavesAHolder(r)
        BY DEF RemovalsLeaveAHolder, LeavesAHolder
    <2>1. CASE r \in pend
        BY <2>1 DEF RemovalsLeaveAHolder
    <2>2. CASE r \notin pend
        <3>1. Next
            BY <2>2 DEF vars
        <3> QED BY <2>2, <3>1, RemovalsAreAdmitted, RemoverIsRecipient
    <2> QED BY <2>1, <2>2
<1> QED BY <1>1, <1>2, TypeCorrect, PTL DEF Spec

\* A step that empties a collection deletes an account.
LEMMA HolderOutlivesStep ==
    ASSUME TypeOK, RemovalsLeaveAHolder, Next, account' = account,
           NEW c \in Collections, Holders(c) # {}
    PROVE  Holders(c)' # {}
<1>1. PICK h \in Users : key[c][h] # NoAccess
    BY DEF Holders
<1> SUFFICES \E u \in Users : key'[c][u] # NoAccess
    BY DEF Holders
<1>2. CASE key' = key
    BY <1>1, <1>2
<1>3. CASE MoveItem
    <2>1. PICK r \in MoveItemReq : key' = ClaimBucketEdit(r.by, r.dest)
        BY <1>3 DEF MoveItem
    <2>2. key'[c][h] # NoAccess
        BY <1>1, <2>1 DEF ClaimBucketEdit, TypeOK, MoveItemReq, NoAccess
    <2> QED BY <2>2
<1>4. CASE CreateCollection
    <2>1. PICK r \in CreateCollReq : key' = [key EXCEPT ![r.coll][r.by] = "edit"]
        BY <1>4 DEF CreateCollection
    <2>2. key'[c][h] # NoAccess
        BY <1>1, <2>1 DEF TypeOK, CreateCollReq, NoAccess
    <2> QED BY <2>2
<1>5. CASE AddKey \/ UpdateAccess
    <2>1. PICK d \in Collections, u \in Users, level \in Levels :
            key' = [key EXCEPT ![d][u] = level]
        BY <1>5 DEF AddKey, AddKeyReq, UpdateAccess, UpdateAccessReq
    <2>2. key'[c][h] # NoAccess
        BY <1>1, <2>1 DEF TypeOK, Levels, NoAccess
    <2> QED BY <2>2
<1>6. CASE RevokeAccess
    <2>1. PICK d \in Collections, u \in Users :
            /\ Holders(d) # {u}
            /\ key' = [key EXCEPT ![d][u] = NoAccess]
        BY <1>6 DEF RevokeAccess, RevokeAccessReq
    <2>2. PICK w \in Users : key[c][w] # NoAccess /\ (d = c => w # u)
        BY <1>1, <2>1 DEF Holders
    <2>3. key'[c][w] # NoAccess
        BY <2>1, <2>2 DEF TypeOK
    <2> QED BY <2>3
<1>7. CASE RemoveMember
    <2>1. PICK r \in pend \cap RemoveMemberReq :
            /\ BatchIsCurrent(r.to, r.batch)
            /\ key' = [d \in Collections |-> [key[d] EXCEPT ![r.to] = NoAccess]]
        BY <1>7 DEF RemoveMember
    <2>2. r.to \in Users /\ LeavesAHolder(r)
        BY DEF RemovalsLeaveAHolder, RemoveMemberReq
    <2>3. PICK w \in Users : key[c][w] # NoAccess /\ w # r.to
        <3>1. CASE key[c][r.to] = NoAccess
            BY <1>1, <3>1
        <3>2. CASE key[c][r.to] # NoAccess
            <4>1. Holders(c) \ {r.to} # {}
                BY <2>1, <2>2, <3>2 DEF BatchIsCurrent, LeavesAHolder
            <4> QED BY <4>1 DEF Holders
        <3> QED BY <3>1, <3>2
    <2>4. key'[c][w] # NoAccess
        BY <2>1, <2>2, <2>3 DEF TypeOK
    <2> QED BY <2>4
<1> QED BY <1>2, <1>3, <1>4, <1>5, <1>6, <1>7, OtherStepsKeepKeys, DeletionLeavesAccounts

\* Two revocations at once, or a removal racing a revocation, cannot empty a
\* collection (the guard inside revoke_access's DELETE, and the exact match
\* apply_member_removal_rekey demands): only deleting an account can.
THEOREM HoldersStay == Spec => OnlyAccountDeletionOrphans
<1>1. TypeOK /\ RemovalsLeaveAHolder /\ [Next]_vars =>
        [\A c \in Collections :
            Holders(c) # {} /\ Holders(c)' = {} => account' # account]_store
    <2> SUFFICES ASSUME TypeOK, RemovalsLeaveAHolder, [Next]_vars,
                        ~ UNCHANGED store,
                        NEW c \in Collections, Holders(c) # {}, Holders(c)' = {}
                 PROVE  account' # account
        OBVIOUS
    <2>1. Next
        BY DEF vars, store
    <2> QED BY <2>1, HolderOutlivesStep
<1> QED BY <1>1, TypeCorrect, RemovalsAlwaysLeaveAHolder, PTL
        DEF Spec, OnlyAccountDeletionOrphans
-----------------------------------------------------------------------------
(* Levels in item buckets.  AddKey and UpdateAccess write the level their   *)
(* request carries, so what admission checked of it is carried as an        *)
(* invariant of the requests in flight.                                     *)

GrantFits(r) ==
    IsItemBucket(r.coll) => r.op = "add_key" /\ r.level = Declared[r.coll]

GrantsFit == \A r \in pend \cap (AddKeyReq \cup UpdateAccessReq) : GrantFits(r)

\* A grant or a change of level enters the queue through its admission, which
\* bounds a bucket's grants by its declared level and refuses to change one.
LEMMA GrantsAreChecked ==
    ASSUME Next, NEW r \in pend' \ pend, r \in AddKeyReq \cup UpdateAccessReq
    PROVE  GrantFits(r)
<1> DEFINE Other == pend' \subseteq pend
<1>0. r.op \in {"add_key", "update_access"}
    BY DEF AddKeyReq, UpdateAccessReq
<1>1. ASSUME NEW q, Admit(q), q.op \notin {"add_key", "update_access"} PROVE FALSE
    BY <1>0, <1>1 DEF Admit
<1>2. ~AdmitItemRequest
    <2> SUFFICES ASSUME AdmitItemRequest PROVE FALSE
        OBVIOUS
    <2> QED BY <1>1 DEF AdmitItemRequest, AdmitUpdateItem, AdmitDeleteItem, AdmitMoveItem,
                        AdmitCreateShare, AdmitUpdateShare, AdmitRevokeShare
<1>3. ASSUME AdmitCollectionRequest PROVE GrantFits(r)
    <2>0. PICK u \in Users, c \in Collections :
            \/ AdmitCreateCollection(u, c)
            \/ \E v \in Users, level \in AskLevels : AdmitAddKey(u, c, v, level)
            \/ \E v \in Users, level \in AskLevels : AdmitUpdateAccess(u, c, v, level)
            \/ \E v \in Users : AdmitRevokeAccess(u, c, v)
        BY <1>3 DEF AdmitCollectionRequest
    <2>1. CASE AdmitCreateCollection(u, c)
        BY <1>1, <2>1 DEF AdmitCreateCollection
    <2>2. CASE \E v \in Users, level \in AskLevels : AdmitAddKey(u, c, v, level)
        <3>0. PICK v \in Users, level \in AskLevels : AdmitAddKey(u, c, v, level)
            BY <2>2
        <3>1. r = [op |-> "add_key", by |-> u, coll |-> c, to |-> v, level |-> level]
            BY <3>0 DEF AdmitAddKey, Admit
        <3> QED BY <3>0, <3>1 DEF AdmitAddKey, WithinDeclared, GrantFits
    <2>3. CASE \E v \in Users, level \in AskLevels : AdmitUpdateAccess(u, c, v, level)
        <3>0. PICK v \in Users, level \in AskLevels : AdmitUpdateAccess(u, c, v, level)
            BY <2>3
        <3>1. r.coll = c
            BY <3>0 DEF AdmitUpdateAccess, Admit
        <3> QED BY <3>0, <3>1 DEF AdmitUpdateAccess, GrantFits
    <2>4. CASE \E v \in Users : AdmitRevokeAccess(u, c, v)
        BY <1>1, <2>4 DEF AdmitRevokeAccess
    <2> QED BY <2>0, <2>1, <2>2, <2>3, <2>4
<1>4. ~AdmitFamilyRequest
    <2> SUFFICES ASSUME AdmitFamilyRequest PROVE FALSE
        OBVIOUS
    <2> QED BY <1>1 DEF AdmitFamilyRequest, AdmitAddMember, AdmitSetStatus, AdmitRemoveMember,
                        AdmitDeleteAccount
<1>5. ~SetStatus
    BY <1>0 DEF SetStatus
<1>6. (\E u \in Users, i \in Items : CreateItem(u, i)) \/ UpdateItem \/ DeleteItem \/ MoveItem
        => Other
    BY DEF CreateItem, UpdateItem, DeleteItem, MoveItem, Done
<1>7. CreateShare \/ UpdateShare \/ RevokeShare => Other
    BY DEF CreateShare, UpdateShare, RevokeShare, Done
<1>8. CreateCollection \/ AddKey \/ UpdateAccess \/ RevokeAccess => Other
    BY DEF CreateCollection, AddKey, UpdateAccess, RevokeAccess, Done
<1>9. (\E u \in Users : CreateFamily(u)) \/ AddMember \/ BumpDirect \/ RemoveMember \/ Abandon
        => Other
    BY DEF CreateFamily, AddMember, BumpDirect, RemoveMember, Abandon, Done
<1>10. DeleteAccountAlone \/ DeleteAccountAsOwner \/ DeleteAccountAsMember => Other
    BY DEF DeleteAccountAlone, DeleteAccountAsOwner, DeleteAccountAsMember, Done
<1> QED BY <1>2, <1>3, <1>4, <1>5, <1>6, <1>7, <1>8, <1>9, <1>10 DEF Next

\* The strengthening is an invariant.
LEMMA GrantsAlwaysFit == Spec => []GrantsFit
<1>1. Init => GrantsFit
    BY DEF Init, GrantsFit
<1>2. GrantsFit /\ [Next]_vars => GrantsFit'
    <2> SUFFICES ASSUME GrantsFit, [Next]_vars,
                        NEW r \in pend' \cap (AddKeyReq \cup UpdateAccessReq)
                 PROVE  GrantFits(r)
        BY DEF GrantsFit, GrantFits, IsItemBucket
    <2>1. CASE r \in pend
        BY <2>1 DEF GrantsFit
    <2>2. CASE r \notin pend
        <3>1. Next
            BY <2>2 DEF vars
        <3> QED BY <2>2, <3>1, GrantsAreChecked
    <2> QED BY <2>1, <2>2
<1> QED BY <1>1, <1>2, PTL DEF Spec

\* No step writes another level into a bucket than its declared one or edit.
LEMMA LevelsOutliveStep ==
    ASSUME TypeOK, GrantsFit, BucketLevels, Next,
           NEW c \in Collections, IsItemBucket(c), NEW u \in Users
    PROVE  key'[c][u] \in {NoAccess, Declared[c], "edit"}
<1>0. key[c][u] \in {NoAccess, Declared[c], "edit"}
    BY DEF BucketLevels
<1>1. CASE key' = key
    BY <1>0, <1>1
<1>2. CASE MoveItem
    <2>1. PICK r \in MoveItemReq : key' = ClaimBucketEdit(r.by, r.dest)
        BY <1>2 DEF MoveItem
    <2> QED BY <1>0, <2>1 DEF ClaimBucketEdit, TypeOK, MoveItemReq
<1>3. CASE CreateCollection
    <2>1. PICK r \in CreateCollReq : key' = [key EXCEPT ![r.coll][r.by] = "edit"]
        BY <1>3 DEF CreateCollection
    <2> QED BY <1>0, <2>1 DEF TypeOK, CreateCollReq
<1>4. CASE AddKey \/ UpdateAccess
    <2>1. PICK r \in pend \cap (AddKeyReq \cup UpdateAccessReq) :
            key' = [key EXCEPT ![r.coll][r.to] = r.level]
        BY <1>4 DEF AddKey, UpdateAccess
    <2>2. r.coll = c => r.level = Declared[c]
        BY DEF GrantsFit, GrantFits
    <2>3. r.coll \in Collections /\ r.to \in Users
        BY DEF AddKeyReq, UpdateAccessReq
    <2> QED BY <1>0, <2>1, <2>2, <2>3 DEF TypeOK
<1>5. CASE RevokeAccess
    <2>1. PICK r \in RevokeAccessReq : key' = [key EXCEPT ![r.coll][r.to] = NoAccess]
        BY <1>5 DEF RevokeAccess
    <2> QED BY <1>0, <2>1 DEF TypeOK, RevokeAccessReq
<1>6. CASE RemoveMember \/ DeleteAccountAlone \/ DeleteAccountAsMember
    <2>1. PICK v \in Users : key' = [d \in Collections |-> [key[d] EXCEPT ![v] = NoAccess]]
        BY <1>6 DEF RemoveMember, RemoveMemberReq, DeleteAccountAlone,
                    DeleteAccountAsMember, DeleteAccountReq
    <2> QED BY <1>0, <2>1 DEF TypeOK
<1>7. CASE DeleteAccountAsOwner
    BY <1>7 DEF DeleteAccountAsOwner
<1> QED BY <1>1, <1>2, <1>3, <1>4, <1>5, <1>6, <1>7, OtherStepsKeepKeys

\* Every key row of an item bucket carries the declared level or edit, whoever
\* wrote it and whatever ran between a grant's checks and its INSERT.
THEOREM BucketsKeepTheirLevel == Spec => []BucketLevels
<1>1. Init => BucketLevels
    BY DEF Init, BucketLevels
<1>2. TypeOK /\ GrantsFit /\ BucketLevels /\ [Next]_vars => BucketLevels'
    <2> SUFFICES ASSUME TypeOK, GrantsFit, BucketLevels, [Next]_vars,
                        NEW c \in Collections, NEW u \in Users, IsItemBucket(c)
                 PROVE  key'[c][u] \in {NoAccess, Declared[c], "edit"}
        BY DEF BucketLevels, IsItemBucket
    <2>1. CASE Next
        BY <2>1, LevelsOutliveStep
    <2>2. CASE UNCHANGED vars
        BY <2>2 DEF vars, BucketLevels
    <2> QED BY <2>1, <2>2
<1> QED BY <1>1, <1>2, TypeCorrect, GrantsAlwaysFit, PTL DEF Spec
-----------------------------------------------------------------------------
(* The cursors.  Each theorem compares what a poll would answer before and  *)
(* after a step row by row: a row that enters, leaves or changes belongs to *)
(* somebody whose counter the same step increments.                         *)

\* What one write reports, in the rows and counters it touches.
Written(i, s) ==
    /\ Live(i) /\ s = item[i].coll
    /\ \A j \in Items \ {i} : item'[j] = item[j]
    /\ \A j \in Items, u \in Users :
          share'[j][u] = share[j][u] \/ (j = i /\ share'[j][u] = NoAccess)

\* Updating, deleting and moving report the scopes the item leaves and enters:
\* everybody who holds them, the author of a personal item, and the recipients
\* of its shares.
LEMMA WritesReport ==
    ASSUME TypeOK, UpdateItem \/ DeleteItem \/ MoveItem
    PROVE  \E i \in Items, s \in Scopes, t \in Scopes :
              /\ Written(i, s)
              /\ \/ item'[i] = Gone
                 \/ /\ item'[i] \in ItemRow
                    /\ item'[i].coll = t /\ item'[i].owner = item[i].owner
              /\ Recipients(i, s, item[i].owner) \subseteq bumped'.vault
              /\ item'[i] # Gone => Recipients(i, t, item[i].owner) \subseteq bumped'.vault
              /\ InScope(s) \cup (IF item'[i] = Gone THEN {} ELSE InScope(t))
                    \subseteq bumped'.colls
              /\ s = Personal => SharedTo(i) \subseteq bumped'.direct
<1>max. MaxRevision \in Nat \ {0}
    BY ConstantsAssumption
<1>1. CASE UpdateItem
    <2>0. PICK r \in pend \cap UpdateItemReq :
            /\ Live(r.item) /\ item[r.item].rev = r.seen /\ r.seen < MaxRevision
            /\ item' = [item EXCEPT ![r.item] = [item[r.item] EXCEPT !.rev = r.seen + 1]]
            /\ bumped' = Bump(Recipients(r.item, item[r.item].coll, item[r.item].owner),
                              InScope(item[r.item].coll),
                              DirectRecipients(r.item, item[r.item].coll))
            /\ share' = share
        BY <1>1 DEF UpdateItem
    <2>1. r.item \in Items /\ item[r.item] \in ItemRow /\ r.seen \in 1..MaxRevision
        BY <2>0, LiveIsRow DEF UpdateItemReq
    <2> DEFINE i == r.item
               s == item[r.item].coll
               row == [item[r.item] EXCEPT !.rev = r.seen + 1]
    <2>2. row \in ItemRow /\ row.coll = s /\ row.owner = item[i].owner
        BY <2>0, <2>1, <1>max DEF ItemRow
    <2>3. item' = [item EXCEPT ![i] = row]
        BY <2>0
    <2>4. s \in Scopes
        BY <2>1 DEF ItemRow
    <2> HIDE DEF row
    <2>5. item'[i] = row /\ \A j \in Items \ {i} : item'[j] = item[j]
        BY <2>1, <2>3 DEF TypeOK
    <2>6. row # Gone
        BY <2>2, ConstantsAssumption DEF ItemRow, Scopes
    <2>7. Written(i, s)
        BY <1>1, <2>0, <2>5 DEF Written
    <2>8. /\ Recipients(i, s, item[i].owner) \subseteq bumped'.vault
          /\ InScope(s) \subseteq bumped'.colls
          /\ s = Personal => SharedTo(i) \subseteq bumped'.direct
        BY <2>0 DEF Bump, DirectRecipients
    <2> QED BY <2>1, <2>2, <2>4, <2>5, <2>6, <2>7, <2>8
<1>2. CASE DeleteItem
    <2>0. PICK r \in pend \cap DeleteItemReq :
            /\ Live(r.item)
            /\ item' = [item EXCEPT ![r.item] = Gone]
            /\ share' = [share EXCEPT ![r.item] = [v \in Users |-> NoAccess]]
            /\ bumped' = Bump(Recipients(r.item, item[r.item].coll, item[r.item].owner),
                              InScope(item[r.item].coll),
                              DirectRecipients(r.item, item[r.item].coll))
        BY <1>2 DEF DeleteItem
    <2> DEFINE i == r.item
               s == item[r.item].coll
    <2>1. i \in Items /\ s \in Scopes
        BY <2>0, LiveIsRow DEF DeleteItemReq
    <2>5. item'[i] = Gone /\ \A j \in Items \ {i} : item'[j] = item[j]
        BY <2>0, <2>1 DEF TypeOK
    <2>6. \A j \in Items, u \in Users :
             share'[j][u] = share[j][u] \/ (j = i /\ share'[j][u] = NoAccess)
        BY <2>0, <2>1 DEF TypeOK
    <2>7. Written(i, s)
        BY <2>0, <2>5, <2>6 DEF Written
    <2>8. /\ Recipients(i, s, item[i].owner) \subseteq bumped'.vault
          /\ InScope(s) \subseteq bumped'.colls
          /\ s = Personal => SharedTo(i) \subseteq bumped'.direct
        BY <2>0 DEF Bump, DirectRecipients
    <2> QED BY <2>1, <2>5, <2>7, <2>8
<1>3. CASE MoveItem
    <2>0. PICK r \in pend \cap MoveItemReq :
            /\ Live(r.item) /\ item[r.item].rev = r.seen /\ r.seen < MaxRevision
            /\ item' = [item EXCEPT ![r.item] =
                        [owner |-> item[r.item].owner, coll |-> r.dest, rev |-> r.seen + 1]]
            /\ share' = SharesAfterMove(r.item, r.dest)
            /\ bumped' = Bump(Recipients(r.item, item[r.item].coll, item[r.item].owner)
                                \cup Recipients(r.item, r.dest, item[r.item].owner),
                              InScope(item[r.item].coll) \cup InScope(r.dest),
                              SharedTo(r.item))
        BY <1>3 DEF MoveItem
    <2>1. /\ r.item \in Items /\ item[r.item] \in ItemRow /\ r.seen \in 1..MaxRevision
          /\ r.dest \in Scopes
        BY <2>0, LiveIsRow DEF MoveItemReq
    <2> DEFINE i == r.item
               s == item[r.item].coll
               t == r.dest
               row == [owner |-> item[r.item].owner, coll |-> r.dest, rev |-> r.seen + 1]
    <2>2. row \in ItemRow /\ row.coll = t /\ row.owner = item[i].owner
        BY <2>0, <2>1, <1>max DEF ItemRow
    <2>3. item' = [item EXCEPT ![i] = row]
        BY <2>0
    <2>4. s \in Scopes
        BY <2>1 DEF ItemRow
    <2> HIDE DEF row
    <2>5. item'[i] = row /\ \A j \in Items \ {i} : item'[j] = item[j]
        BY <2>1, <2>3 DEF TypeOK
    <2>6. row # Gone
        BY <2>2, ConstantsAssumption DEF ItemRow, Scopes
    <2>9. \A j \in Items, u \in Users :
             share'[j][u] = share[j][u] \/ (j = i /\ share'[j][u] = NoAccess)
        BY <2>0, <2>1 DEF TypeOK, SharesAfterMove
    <2>7. Written(i, s)
        BY <2>0, <2>5, <2>9 DEF Written
    <2>8. /\ Recipients(i, s, item[i].owner) \subseteq bumped'.vault
          /\ Recipients(i, t, item[i].owner) \subseteq bumped'.vault
          /\ InScope(s) \cup InScope(t) \subseteq bumped'.colls
          /\ SharedTo(i) \subseteq bumped'.direct
        BY <2>0 DEF Bump
    <2> QED BY <2>1, <2>2, <2>4, <2>5, <2>6, <2>7, <2>8
<1> QED BY <1>1, <1>2, <1>3

\* A step that leaves the accounts alone changes an item only by creating one
\* or by one of those three writes.
LEMMA OtherStepsKeepItems ==
    ASSUME Next, account' = account
    PROVE  \/ item' = item
           \/ \E u \in Users, i \in Items : CreateItem(u, i)
           \/ UpdateItem \/ DeleteItem \/ MoveItem
<1>1. CreateShare \/ UpdateShare \/ RevokeShare \/ RemoveMember => item' = item
    BY DEF CreateShare, UpdateShare, RevokeShare, RemoveMember
<1> QED BY <1>1, OtherStepsAreInert, DeletionLeavesAccounts DEF Inert

\* A created item was no row before, is personal, and its author is told.
LEMMA CreationReports ==
    ASSUME TypeOK, NEW u \in Users, NEW i \in Items, CreateItem(u, i)
    PROVE  /\ item[i] = None
           /\ item'[i] \in ItemRow /\ item'[i].owner = u /\ item'[i].coll = Personal
           /\ \A j \in Items \ {i} : item'[j] = item[j]
           /\ u \in bumped'.vault
           /\ UNCHANGED <<member, coll, key, share>>
<1>1. [owner |-> u, coll |-> Personal, rev |-> 1] \in ItemRow
    BY ConstantsAssumption DEF ItemRow, Scopes
<1> QED BY <1>1 DEF TypeOK, CreateItem, Bump

-----------------------------------------------------------------------------
(* The collection cursor.                                                   *)

InCollection(i, c) == Live(i) /\ item[i].coll = c

\* What a collection's poll answers changes only with a row in it.
LEMMA CollectionViewStays ==
    ASSUME NEW c \in Collections,
           \A j \in Items : \/ item'[j] = item[j]
                            \/ ~InCollection(j, c) /\ ~InCollection(j, c)'
    PROVE  CollectionView(c)' = CollectionView(c)
BY DEF CollectionView, ItemsIn, InCollection, Live

\* A write to a row of a collection increments its counter.
LEMMA CollectionOutlivesStep ==
    ASSUME TypeOK, Next, account' = account, NEW c \in Collections, c \notin bumped'.colls
    PROVE  CollectionView(c)' = CollectionView(c)
<1>0. c # Personal
    BY ConstantsAssumption
<1>1. CASE item' = item
    BY <1>1, CollectionViewStays
<1>2. ASSUME NEW u \in Users, NEW i \in Items, CreateItem(u, i)
      PROVE  CollectionView(c)' = CollectionView(c)
    <2>1. ~InCollection(i, c) /\ ~InCollection(i, c)'
        BY <1>0, <1>2, CreationReports DEF InCollection, Live
    <2> QED BY <1>2, <2>1, CreationReports, CollectionViewStays
<1>3. CASE UpdateItem \/ DeleteItem \/ MoveItem
    <2>0. PICK i \in Items, s \in Scopes, t \in Scopes :
            /\ Written(i, s)
            /\ item'[i] = Gone \/ item'[i].coll = t
            /\ InScope(s) \cup (IF item'[i] = Gone THEN {} ELSE InScope(t)) \subseteq bumped'.colls
        BY <1>3, WritesReport
    <2>1. ~InCollection(i, c) /\ ~InCollection(i, c)'
        BY <1>0, <2>0 DEF InCollection, Live, Written, InScope
    <2> QED BY <2>0, <2>1, CollectionViewStays DEF Written
<1> QED BY <1>1, <1>2, <1>3, OtherStepsKeepItems

\* The collection cursor is a sound cheap check: a client that skips a pull
\* because the counter stands still misses nothing but a deleted account's items.
THEOREM CollectionCursorIsSound == Spec => CollectionCursorCovers
<1>1. TypeOK /\ [Next]_vars =>
        [\A c \in Collections :
            \/ CollectionView(c)' = CollectionView(c)
            \/ c \in bumped'.colls
            \/ account' # account]_store
    <2> SUFFICES ASSUME TypeOK, [Next]_vars, ~ UNCHANGED store, account' = account,
                        NEW c \in Collections, c \notin bumped'.colls
                 PROVE  CollectionView(c)' = CollectionView(c)
        OBVIOUS
    <2>1. Next
        BY DEF vars, store
    <2> QED BY <2>1, CollectionOutlivesStep
<1> QED BY <1>1, TypeCorrect, PTL DEF Spec, CollectionCursorCovers
-----------------------------------------------------------------------------
(* The personal cursor.                                                     *)

\* A collection that was never created has no key rows: creating it can show
\* nobody but its creator anything.
UnusedIsEmpty ==
    \A c \in Collections, u \in Users : coll[c] = "unused" => key[c][u] = NoAccess

\* Creation and the deletion of the family are what changes a collection's row.
LEMMA OtherStepsKeepCollections ==
    ASSUME Next
    PROVE  coll' = coll \/ CreateCollection \/ DeleteAccountAsOwner
<1>1. ASSUME NEW r, Admit(r) PROVE coll' = coll
    BY <1>1 DEF Admit, store
<1>2. AdmitItemRequest => coll' = coll
    BY <1>1 DEF AdmitItemRequest, AdmitUpdateItem, AdmitDeleteItem, AdmitMoveItem,
                AdmitCreateShare, AdmitUpdateShare, AdmitRevokeShare
<1>3. AdmitCollectionRequest => coll' = coll
    BY <1>1 DEF AdmitCollectionRequest, AdmitCreateCollection, AdmitAddKey,
                AdmitUpdateAccess, AdmitRevokeAccess
<1>4. AdmitFamilyRequest => coll' = coll
    BY <1>1 DEF AdmitFamilyRequest, AdmitAddMember, AdmitSetStatus, AdmitRemoveMember,
                AdmitDeleteAccount
<1>5. (\E u \in Users, i \in Items : CreateItem(u, i)) \/ UpdateItem \/ DeleteItem \/ MoveItem
      \/ CreateShare \/ UpdateShare \/ RevokeShare => coll' = coll
    BY DEF CreateItem, UpdateItem, DeleteItem, MoveItem, CreateShare, UpdateShare, RevokeShare
<1>6. AddKey \/ UpdateAccess \/ RevokeAccess => coll' = coll
    BY DEF AddKey, UpdateAccess, RevokeAccess
<1>7. (\E u \in Users : CreateFamily(u)) \/ AddMember \/ SetStatus \/ BumpDirect \/ RemoveMember
        => coll' = coll
    BY DEF CreateFamily, AddMember, SetStatus, BumpDirect, RemoveMember, store
<1>8. DeleteAccountAlone \/ DeleteAccountAsMember \/ Abandon => coll' = coll
    BY DEF DeleteAccountAlone, DeleteAccountAsMember, Abandon, store
<1> QED BY <1>2, <1>3, <1>4, <1>5, <1>6, <1>7, <1>8 DEF Next

\* The strengthening is an invariant: every INSERT into collection_keys finds
\* its collection, or creates it.
LEMMA UnusedStaysEmpty == Spec => []UnusedIsEmpty
<1>1. Init => UnusedIsEmpty
    BY DEF Init, UnusedIsEmpty
<1>2. TypeOK /\ UnusedIsEmpty /\ [Next]_vars => UnusedIsEmpty'
    <2> SUFFICES ASSUME TypeOK, UnusedIsEmpty, [Next]_vars,
                        NEW c \in Collections, NEW u \in Users, coll'[c] = "unused"
                 PROVE  key'[c][u] = NoAccess
        BY DEF UnusedIsEmpty
    <2>g. SUFFICES ASSUME Next PROVE key'[c][u] = NoAccess
        BY DEF vars, UnusedIsEmpty
    <2>0. coll[c] = "unused"
        <3>1. CreateCollection \/ DeleteAccountAsOwner => coll[c] = "unused"
            BY DEF CreateCollection, CreateCollReq, DeleteAccountAsOwner, TypeOK
        <3> QED BY <2>g, <3>1, OtherStepsKeepCollections
    <2>1. \A v \in Users : key[c][v] = NoAccess
        BY <2>0 DEF UnusedIsEmpty
    <2>2. CASE key' = key
        BY <2>1, <2>2
    <2>3. CASE MoveItem
        <3>1. PICK r \in MoveItemReq : key' = ClaimBucketEdit(r.by, r.dest)
            BY <2>3 DEF MoveItem
        <3> QED BY <2>1, <3>1 DEF ClaimBucketEdit, TypeOK, MoveItemReq
    <2>4. CASE CreateCollection
        <3>1. PICK r \in CreateCollReq :
                /\ coll' = [coll EXCEPT ![r.coll] = "live"]
                /\ key' = [key EXCEPT ![r.coll][r.by] = "edit"]
            BY <2>4 DEF CreateCollection
        <3>2. r.coll # c
            BY <3>1 DEF CreateCollReq, TypeOK
        <3> QED BY <2>1, <3>1, <3>2 DEF TypeOK, CreateCollReq
    <2>5. CASE AddKey
        <3>1. PICK r \in AddKeyReq : /\ coll[r.coll] = "live"
                                     /\ key' = [key EXCEPT ![r.coll][r.to] = r.level]
            BY <2>5 DEF AddKey
        <3> QED BY <2>0, <2>1, <3>1 DEF TypeOK, AddKeyReq
    <2>6. CASE UpdateAccess
        <3>1. PICK r \in UpdateAccessReq : /\ key[r.coll][r.to] # NoAccess
                                           /\ key' = [key EXCEPT ![r.coll][r.to] = r.level]
            BY <2>6 DEF UpdateAccess
        <3> QED BY <2>1, <3>1 DEF TypeOK, UpdateAccessReq
    <2>7. CASE RevokeAccess
        <3>1. PICK r \in RevokeAccessReq : key' = [key EXCEPT ![r.coll][r.to] = NoAccess]
            BY <2>7 DEF RevokeAccess
        <3> QED BY <2>1, <3>1 DEF TypeOK, RevokeAccessReq
    <2>8. CASE RemoveMember \/ DeleteAccountAlone \/ DeleteAccountAsMember
        <3>1. PICK v \in Users : key' = [d \in Collections |-> [key[d] EXCEPT ![v] = NoAccess]]
            BY <2>8 DEF RemoveMember, RemoveMemberReq, DeleteAccountAlone,
                        DeleteAccountAsMember, DeleteAccountReq
        <3> QED BY <2>1, <3>1 DEF TypeOK
    <2>9. CASE DeleteAccountAsOwner
        BY <2>9 DEF DeleteAccountAsOwner
    <2> QED BY <2>g, <2>2, <2>3, <2>4, <2>5, <2>6, <2>7, <2>8, <2>9, OtherStepsKeepKeys
<1> QED BY <1>1, <1>2, TypeCorrect, PTL DEF Spec

Reaches(u, c) == CollectionAccess(u, c) # NoAccess

\* Which rows GET /api/sync shows u.
Sees(u, i) ==
    /\ Live(i) /\ item[i].owner = u
    /\ item[i].coll = Personal \/ Reaches(u, item[i].coll)

\* A step that neither reports to u, nor changes u's standing, nor grants u a
\* key leaves the collections u reaches as they were.
LEMMA ReachStays ==
    ASSUME TypeOK, UnusedIsEmpty, Next, account' = account, NEW u \in Users,
           u \notin bumped'.vault, member'[u] = member[u], ~Granted(u),
           NEW c \in Collections
    PROVE  Reaches(u, c)' <=> Reaches(u, c)
<1>0. key[c][u] = NoAccess => key'[c][u] = NoAccess
    BY DEF Granted
<1>1. CASE key' = key /\ coll' = coll
    BY <1>1 DEF Reaches, CollectionAccess
<1>2. CASE MoveItem
    <2>1. PICK r \in MoveItemReq : key' = ClaimBucketEdit(r.by, r.dest) /\ coll' = coll
        BY <1>2 DEF MoveItem
    <2>2. key[c][u] # NoAccess => key'[c][u] # NoAccess
        BY <2>1 DEF ClaimBucketEdit, TypeOK, MoveItemReq, NoAccess
    <2> QED BY <1>0, <2>1, <2>2 DEF Reaches, CollectionAccess
<1>3. CASE CreateCollection
    <2>1. PICK r \in CreateCollReq :
            /\ coll[r.coll] = "unused"
            /\ coll' = [coll EXCEPT ![r.coll] = "live"]
            /\ key' = [key EXCEPT ![r.coll][r.by] = "edit"]
        BY <1>3 DEF CreateCollection
    <2>2. CASE r.coll = c
        <3>1. key[c][u] = NoAccess
            BY <2>1, <2>2 DEF UnusedIsEmpty
        <3> QED BY <1>0, <3>1 DEF Reaches, CollectionAccess
    <2>3. CASE r.coll # c
        <3>1. coll'[c] = coll[c] /\ key'[c][u] = key[c][u]
            BY <2>1, <2>3 DEF TypeOK, CreateCollReq
        <3> QED BY <3>1 DEF Reaches, CollectionAccess
    <2> QED BY <2>2, <2>3
<1>4. CASE AddKey
    <2>1. PICK r \in AddKeyReq : /\ key' = [key EXCEPT ![r.coll][r.to] = r.level]
                                 /\ coll' = coll
        BY <1>4 DEF AddKey
    <2>2. key[c][u] # NoAccess => key'[c][u] # NoAccess
        BY <2>1 DEF TypeOK, AddKeyReq, Levels, NoAccess
    <2> QED BY <1>0, <2>1, <2>2 DEF Reaches, CollectionAccess
<1>5. CASE UpdateAccess \/ RevokeAccess
    <2>1. CASE UpdateAccess
        <3>1. PICK r \in UpdateAccessReq :
                /\ key' = [key EXCEPT ![r.coll][r.to] = r.level]
                /\ bumped' = Bump({r.to}, {r.coll}, {})
                /\ coll' = coll
            BY <2>1 DEF UpdateAccess
        <3>2. u # r.to
            BY <3>1 DEF Bump
        <3>3. key'[c][u] = key[c][u]
            BY <3>1, <3>2 DEF TypeOK, UpdateAccessReq
        <3> QED BY <3>1, <3>3 DEF Reaches, CollectionAccess
    <2>2. CASE RevokeAccess
        <3>1. PICK r \in RevokeAccessReq :
                /\ key' = [key EXCEPT ![r.coll][r.to] = NoAccess]
                /\ bumped' = Bump({r.to}, {}, {})
                /\ coll' = coll
            BY <2>2 DEF RevokeAccess
        <3>2. u # r.to
            BY <3>1 DEF Bump
        <3>3. key'[c][u] = key[c][u]
            BY <3>1, <3>2 DEF TypeOK, RevokeAccessReq
        <3> QED BY <3>1, <3>3 DEF Reaches, CollectionAccess
    <2> QED BY <1>5, <2>1, <2>2
<1>6. CASE RemoveMember
    <2>1. PICK r \in RemoveMemberReq :
            /\ key' = [d \in Collections |-> [key[d] EXCEPT ![r.to] = NoAccess]]
            /\ bumped' = Bump({r.to}, HeldBy(r.to), {r.to})
            /\ coll' = coll
        BY <1>6 DEF RemoveMember
    <2>2. u # r.to
        BY <2>1 DEF Bump
    <2>3. key'[c][u] = key[c][u]
        BY <2>1, <2>2 DEF TypeOK
    <2> QED BY <2>1, <2>3 DEF Reaches, CollectionAccess
<1> QED BY <1>1, <1>2, <1>3, <1>4, <1>5, <1>6, OtherStepsKeepKeys, OtherStepsKeepCollections,
           DeletionLeavesAccounts

\* What a user's own poll answers changes only with a row they see.
LEMMA PersonalViewStays ==
    ASSUME NEW u \in Users,
           \A j \in Items : \/ item'[j] = item[j] /\ (Sees(u, j) <=> Sees(u, j)')
                            \/ ~Sees(u, j) /\ ~Sees(u, j)'
    PROVE  PersonalView(u)' = PersonalView(u)
<1>1. PersonalView(u) = {<<i, item[i].coll, item[i].rev>> : i \in {j \in Items : Sees(u, j)}}
    BY DEF PersonalView, Sees, Reaches
<1>2. PersonalView(u)'
        = {<<i, item'[i].coll, item'[i].rev>> : i \in {j \in Items : Sees(u, j)'}}
    BY DEF PersonalView, Sees, Reaches
<1> HIDE DEF Sees
<1> QED BY <1>1, <1>2

\* A step that changes what u's own poll answers reports to u.
LEMMA PersonalOutlivesStep ==
    ASSUME TypeOK, UnusedIsEmpty, Next, account' = account, NEW u \in Users,
           u \notin bumped'.vault, member'[u] = member[u], ~Granted(u)
    PROVE  PersonalView(u)' = PersonalView(u)
<1>0. \A c \in Collections : Reaches(u, c)' <=> Reaches(u, c)
    BY ReachStays
<1>1. ASSUME NEW j \in Items, item'[j] = item[j] PROVE Sees(u, j)' <=> Sees(u, j)
    BY <1>0, <1>1 DEF Sees, Live, TypeOK, ItemRow, Scopes
<1>2. CASE item' = item
    BY <1>1, <1>2, PersonalViewStays
<1>3. ASSUME NEW v \in Users, NEW i \in Items, CreateItem(v, i)
      PROVE  PersonalView(u)' = PersonalView(u)
    <2>1. ~Sees(u, i) /\ ~Sees(u, i)'
        BY <1>3, CreationReports DEF Sees, Live
    <2>2. \A j \in Items : \/ item'[j] = item[j] /\ (Sees(u, j) <=> Sees(u, j)')
                           \/ ~Sees(u, j) /\ ~Sees(u, j)'
        BY <1>1, <1>3, <2>1, CreationReports
    <2> QED BY <2>2, PersonalViewStays
<1>4. CASE UpdateItem \/ DeleteItem \/ MoveItem
    <2>0. PICK i \in Items, s \in Scopes, t \in Scopes :
            /\ Written(i, s)
            /\ \/ item'[i] = Gone
               \/ item'[i].coll = t /\ item'[i].owner = item[i].owner
            /\ Recipients(i, s, item[i].owner) \subseteq bumped'.vault
            /\ item'[i] # Gone => Recipients(i, t, item[i].owner) \subseteq bumped'.vault
        BY <1>4, WritesReport
    <2>1. ~Sees(u, i)
        BY <2>0 DEF Sees, Written, Recipients, Holders, Reaches, CollectionAccess
    <2>2. ~Sees(u, i)'
        <3>1. item'[i] # Gone /\ t # Personal /\ item[i].owner = u => ~Reaches(u, t)
            BY <2>0 DEF Recipients, Holders, Reaches, CollectionAccess
        <3>2. item'[i] # Gone /\ t = Personal => item[i].owner # u
            BY <2>0 DEF Recipients
        <3>3. t # Personal => (Reaches(u, t)' <=> Reaches(u, t))
            BY <1>0 DEF Scopes
        <3> QED BY <2>0, <3>1, <3>2, <3>3 DEF Sees, Live
    <2>3. \A j \in Items : \/ item'[j] = item[j] /\ (Sees(u, j) <=> Sees(u, j)')
                           \/ ~Sees(u, j) /\ ~Sees(u, j)'
        BY <1>1, <2>0, <2>1, <2>2 DEF Written
    <2> QED BY <2>3, PersonalViewStays
<1> QED BY <1>2, <1>3, <1>4, OtherStepsKeepItems

\* The personal cursor is a sound cheap check, but for the changes of the
\* user's own standing and the deletion of an account.
THEOREM VaultCursorIsSound == Spec => VaultCursorCovers
<1>1. TypeOK /\ UnusedIsEmpty /\ [Next]_vars =>
        [\A u \in account \cap account' :
            \/ PersonalView(u)' = PersonalView(u)
            \/ u \in bumped'.vault
            \/ member'[u] # member[u] \/ Granted(u) \/ account' # account]_store
    <2> SUFFICES ASSUME TypeOK, UnusedIsEmpty, [Next]_vars, ~ UNCHANGED store,
                        NEW u \in account \cap account', u \notin bumped'.vault,
                        member'[u] = member[u], ~Granted(u), account' = account
                 PROVE  PersonalView(u)' = PersonalView(u)
        OBVIOUS
    <2>1. Next /\ u \in Users
        BY DEF vars, store, TypeOK
    <2> QED BY <2>1, PersonalOutlivesStep
<1> QED BY <1>1, TypeCorrect, UnusedStaysEmpty, PTL DEF Spec, VaultCursorCovers
-----------------------------------------------------------------------------
(* The direct cursor.                                                       *)

\* Nobody joined the family or left it in this step.
SameFamily == \A v \in Users : (member[v] = "none") <=> (member'[v] = "none")

\* Which rows GET /api/sync/direct shows u.
Shown(u, i) == Live(i) /\ item[i].coll = Personal /\ ShareAccess(u, i) # NoAccess

\* What a recipient's poll answers changes only with a row they are shown.
LEMMA DirectViewStays ==
    ASSUME NEW u \in Users,
           \A j \in Items :
              \/ /\ item'[j] = item[j] /\ share'[j][u] = share[j][u]
                 /\ Shown(u, j) <=> Shown(u, j)'
              \/ ~Shown(u, j) /\ ~Shown(u, j)'
    PROVE  DirectView(u)' = DirectView(u)
<1>1. DirectView(u) = {<<i, item[i].rev, share[i][u]>> : i \in {j \in Items : Shown(u, j)}}
    BY DEF DirectView, Shown
<1>2. DirectView(u)'
        = {<<i, item'[i].rev, share'[i][u]>> : i \in {j \in Items : Shown(u, j)'}}
    BY DEF DirectView, Shown
<1> HIDE DEF Shown
<1> QED BY <1>1, <1>2

\* Whoever keeps an account and is not about to be told of a change of status
\* is active after a step within the same family exactly when they were before.
LEMMA StandingStays ==
    ASSUME TypeOK, Next, SameFamily, NEW u \in account', ~StatusBumpPending(u), u \in Users
    PROVE  member'[u] = "active" <=> member[u] = "active"
<1>1. CASE member' = member
    BY <1>1
<1>2. CASE DeleteItem \/ MoveItem \/ CreateShare \/ UpdateShare \/ RevokeShare
    BY <1>2 DEF DeleteItem, MoveItem, CreateShare, UpdateShare, RevokeShare
<1>3. ASSUME NEW v \in Users, CreateFamily(v) PROVE FALSE
    BY <1>3 DEF CreateFamily, SameFamily, TypeOK
<1>4. CASE AddMember
    BY <1>4 DEF AddMember, AddMemberReq, SameFamily, TypeOK
<1>5. CASE SetStatus
    <2>1. PICK r \in SetStatusReq :
            /\ member' = [member EXCEPT ![r.to] = r.status]
            /\ [op |-> "bump_direct", to |-> r.to] \in pend'
        BY <1>5 DEF SetStatus
    <2>2. r.to # u
        BY <2>1 DEF StatusBumpPending
    <2> QED BY <2>1, <2>2 DEF TypeOK
<1>6. CASE RemoveMember
    BY <1>6 DEF RemoveMember, RemoveMemberReq, SameFamily, TypeOK
<1>7. CASE DeleteAccountAlone \/ DeleteAccountAsMember
    <2>1. PICK r \in DeleteAccountReq :
            /\ member' = [member EXCEPT ![r.by] = "none"]
            /\ account' = account \ {r.by}
        BY <1>7 DEF DeleteAccountAlone, DeleteAccountAsMember, CascadeUser
    <2> QED BY <2>1 DEF TypeOK
<1>8. CASE DeleteAccountAsOwner
    <2>1. \A v \in Users : member'[v] = "none"
        BY <1>8 DEF DeleteAccountAsOwner
    <2> QED BY <2>1 DEF SameFamily
<1> QED BY <1>1, <1>2, <1>3, <1>4, <1>5, <1>6, <1>7, <1>8, OtherStepsKeepFamilyAndShares

\* A step that changes what u's poll of direct shares answers, within the same
\* family, reports to u or leaves the report pending.
LEMMA DirectOutlivesStep ==
    ASSUME TypeOK, NoShareOnCollectionItem, Next, SameFamily,
           NEW u \in Users, u \in account', u \notin bumped'.direct, ~StatusBumpPending(u)
    PROVE  DirectView(u)' = DirectView(u)
<1>0. member'[u] = "active" <=> member[u] = "active"
    BY StandingStays
<1>1. ASSUME NEW j \in Items, item'[j] = item[j], share'[j][u] = share[j][u]
      PROVE  Shown(u, j)' <=> Shown(u, j)
    <2>1. Live(j) => item[j].owner \in Users
        BY LiveIsRow
    <2>2. Live(j) => ((member'[item[j].owner] = "none") <=> (member[item[j].owner] = "none"))
        BY <2>1 DEF SameFamily
    <2> QED BY <1>0, <1>1, <2>2 DEF Shown, Live, ShareAccess
<1>2. ASSUME item' = item, share' = share PROVE DirectView(u)' = DirectView(u)
    BY <1>1, <1>2, DirectViewStays
<1>3. CASE Inert
    BY <1>2, <1>3 DEF Inert
<1>4. ASSUME NEW v \in Users, NEW i \in Items, CreateItem(v, i)
      PROVE  DirectView(u)' = DirectView(u)
    <2>1. share[i][u] = NoAccess
        BY <1>4, CreationReports DEF NoShareOnCollectionItem, SharedTo, Live
    <2>2. ~Shown(u, i) /\ ~Shown(u, i)'
        BY <1>4, <2>1, CreationReports DEF Shown, ShareAccess
    <2>3. \A j \in Items :
              \/ /\ item'[j] = item[j] /\ share'[j][u] = share[j][u]
                 /\ Shown(u, j) <=> Shown(u, j)'
              \/ ~Shown(u, j) /\ ~Shown(u, j)'
        BY <1>1, <1>4, <2>2, CreationReports
    <2> QED BY <2>3, DirectViewStays
<1>5. CASE UpdateItem \/ DeleteItem \/ MoveItem
    <2>0. PICK i \in Items, s \in Scopes :
            Written(i, s) /\ (s = Personal => SharedTo(i) \subseteq bumped'.direct)
        BY <1>5, WritesReport
    <2>1. share[i][u] = NoAccess
        BY <2>0 DEF Written, NoShareOnCollectionItem, SharedTo
    <2>2. ~Shown(u, i) /\ ~Shown(u, i)'
        BY <2>0, <2>1 DEF Written, Shown, ShareAccess
    <2>3. \A j \in Items :
              \/ /\ item'[j] = item[j] /\ share'[j][u] = share[j][u]
                 /\ Shown(u, j) <=> Shown(u, j)'
              \/ ~Shown(u, j) /\ ~Shown(u, j)'
        BY <1>1, <2>0, <2>2 DEF Written
    <2> QED BY <2>3, DirectViewStays
<1>6. CASE CreateShare \/ UpdateShare \/ RevokeShare
    <2>1. item' = item /\ \A j \in Items : share'[j][u] = share[j][u]
        <3>1. CASE CreateShare
            BY <3>1 DEF CreateShare, CreateShareReq, Bump, TypeOK
        <3>2. CASE UpdateShare
            BY <3>2 DEF UpdateShare, UpdateShareReq, Bump, TypeOK
        <3>3. CASE RevokeShare
            BY <3>3 DEF RevokeShare, RevokeShareReq, Bump, TypeOK
        <3> QED BY <1>6, <3>1, <3>2, <3>3
    <2> QED BY <1>1, <2>1, DirectViewStays
<1>7. CASE RemoveMember \/ DeleteAccountAsMember
    <2>1. PICK v \in Users : member[v] # "none" /\ member' = [member EXCEPT ![v] = "none"]
        BY <1>7 DEF RemoveMember, RemoveMemberReq, DeleteAccountAsMember, DeleteAccountReq
    <2> QED BY <2>1 DEF SameFamily, TypeOK
<1>8. CASE DeleteAccountAlone
    <2>1. PICK r \in DeleteAccountReq :
            /\ CascadeUser(r.by, item)
            /\ member' = [member EXCEPT ![r.by] = "none"]
        BY <1>8 DEF DeleteAccountAlone
    <2>2. /\ u # r.by
          /\ member[r.by] = "none"
        BY <2>1 DEF CascadeUser, SameFamily, TypeOK, DeleteAccountReq
    <2>3. ASSUME NEW j \in Items
          PROVE  \/ /\ item'[j] = item[j] /\ share'[j][u] = share[j][u]
                    /\ Shown(u, j) <=> Shown(u, j)'
                 \/ ~Shown(u, j) /\ ~Shown(u, j)'
        <3>1. CASE Live(j) /\ item[j].owner = r.by
            <4>1. item'[j] = Gone
                BY <2>1, <3>1 DEF CascadeUser, Live
            <4> QED BY <2>2, <3>1, <4>1 DEF Shown, ShareAccess, Live
        <3>2. CASE item[j] = Gone
            <4>1. item'[j] = Gone
                BY <2>1, <3>2 DEF CascadeUser
            <4> QED BY <3>2, <4>1 DEF Shown, Live
        <3>3. CASE item[j] # Gone /\ ~(Live(j) /\ item[j].owner = r.by)
            <4>1. item'[j] = item[j] /\ share'[j][u] = share[j][u]
                BY <2>1, <2>2, <3>3 DEF CascadeUser, Live
            <4> QED BY <1>1, <4>1
        <3> QED BY <3>1, <3>2, <3>3
    <2> QED BY <2>3, DirectViewStays
<1>9. CASE DeleteAccountAsOwner
    <2>1. \A v \in Users : member'[v] = "none" /\ member[v] = "none"
        BY <1>9 DEF DeleteAccountAsOwner, SameFamily
    <2>2. \A j \in Items : ~Shown(u, j) /\ ~Shown(u, j)'
        BY <2>1 DEF Shown, ShareAccess
    <2> QED BY <2>2, DirectViewStays
<1> QED BY <1>3, <1>4, <1>5, <1>6, <1>7, <1>8, <1>9, OtherStepsAreInert

\* The direct cursor is a sound cheap check as long as nobody joins or leaves
\* the family; a change of status leaves its increment pending.
THEOREM DirectCursorIsSound == Spec => DirectCursorCovers
<1>1. TypeOK /\ NoShareOnCollectionItem /\ [Next]_vars =>
        [\A u \in account \cap account' :
            \/ DirectView(u)' = DirectView(u)
            \/ u \in bumped'.direct \/ StatusBumpPending(u)
            \/ \E v \in Users : (member[v] = "none") # (member'[v] = "none")]_store
    <2> SUFFICES ASSUME TypeOK, NoShareOnCollectionItem, [Next]_vars, ~ UNCHANGED store,
                        NEW u \in account \cap account', u \notin bumped'.direct,
                        ~StatusBumpPending(u),
                        \A v \in Users : (member[v] = "none") = (member'[v] = "none")
                 PROVE  DirectView(u)' = DirectView(u)
        OBVIOUS
    <2>1. Next /\ u \in Users /\ SameFamily
        BY DEF vars, store, TypeOK, SameFamily
    <2> QED BY <2>1, DirectOutlivesStep
<1> QED BY <1>1, TypeCorrect, SharesArePersonal, PTL DEF Spec, DirectCursorCovers
=============================================================================
