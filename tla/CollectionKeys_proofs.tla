------------------------ MODULE CollectionKeys_proofs ------------------------
(***************************************************************************)
(* What CollectionKeys guarantees for every family, every set of items and *)
(* any number of keys, revisions and requests in flight.                   *)
(***************************************************************************)
EXTENDS CollectionKeys, TLAPS

-----------------------------------------------------------------------------
(* Types.                                                                  *)

\* A request adds to those in flight; nothing else changes.
LEMMA SendKeepsType ==
    ASSUME TypeOK, NEW r \in WriteReq \cup ShareReq \cup GrantReq, Send(r),
           UNCHANGED <<family, sealed, row, given, minted, invite, held, copy, job>>
    PROVE  TypeOK'
BY DEF TypeOK, Send

\* The client's caches hold what is stored.
LEMMA CachesKeepType ==
    ASSUME TypeOK, NEW u \in Users,
           \/ RefreshCollections(u) \/ Lock(u) \/ \E i \in Items : MergeRow(u, i)
    PROVE  TypeOK'
<1>1. CASE RefreshCollections(u)
    BY <1>1 DEF RefreshCollections, TypeOK
<1>2. CASE Lock(u)
    BY <1>2 DEF Lock, TypeOK
<1>3. ASSUME NEW i \in Items, MergeRow(u, i) PROVE TypeOK'
    <2>1. row[i].rev \in Revisions
        BY DEF TypeOK, Row
    <2>2. PICK rev \in Revisions \cup {0} : copy' = [copy EXCEPT ![u][i] = rev]
        BY <1>3, <2>1 DEF MergeRow
    <2> QED BY <1>3, <2>2 DEF MergeRow, TypeOK
<1> QED BY <1>1, <1>2, <1>3

\* What a client sends is a request of the right shape.
LEMMA SendsKeepType ==
    ASSUME TypeOK,
           \/ \E u \in Users, i \in Items, into \in {"personal", "shared"} : SendWrite(u, i, into)
           \/ \E i \in Items, v \in Users : SendShare(i, v)
           \/ \E u, v \in Users : SendGrant(u, v)
    PROVE  TypeOK'
<1>1. ASSUME NEW u \in Users, NEW i \in Items, NEW into \in {"personal", "shared"},
             SendWrite(u, i, into)
      PROVE  TypeOK'
    <2> DEFINE r == [op |-> "write", by |-> u, item |-> i, base |-> row[i].rev,
                     into |-> into, under |-> EncryptionKey(u, i, into)]
    <2>1. row[i].rev \in 1..MaxRevision - 1
        BY <1>1, ConstantsAssumption DEF SendWrite, TypeOK, Row, Revisions
    <2>2. \/ into = "personal" /\ EncryptionKey(u, i, into) = UserKey
          \/ into = "shared" /\ EncryptionKey(u, i, into) \in Epochs
        BY <1>1 DEF SendWrite, EncryptionKey, TypeOK
    <2>3. r \in WriteReq
        BY <2>1, <2>2 DEF WriteReq
    <2>4. Send(r)
        BY <1>1 DEF SendWrite
    <2>5. UNCHANGED <<family, sealed, row, given, minted, invite, held, copy, job>>
        BY <1>1 DEF SendWrite
    <2> HIDE DEF r
    <2> QED BY <2>3, <2>4, <2>5, SendKeepsType
<1>2. ASSUME NEW i \in Items, NEW v \in Users, SendShare(i, v) PROVE TypeOK'
    <2> DEFINE r == [op |-> "share", item |-> i, to |-> v, seals |-> row[i].key]
    <2>1. r \in ShareReq
        BY DEF ShareReq, TypeOK, Row
    <2>2. Send(r) /\ UNCHANGED <<family, sealed, row, given, minted, invite, held, copy, job>>
        BY <1>2 DEF SendShare
    <2> HIDE DEF r
    <2> QED BY <2>1, <2>2, SendKeepsType
<1>3. ASSUME NEW u \in Users, NEW v \in Users, SendGrant(u, v) PROVE TypeOK'
    <2> DEFINE r == [op |-> "grant", by |-> u, to |-> v, seals |-> KeyToReseal(u)]
    <2>1. r \in GrantReq
        BY <1>3 DEF GrantReq, TypeOK, SendGrant, KeyToReseal
    <2>2. Send(r) /\ UNCHANGED <<family, sealed, row, given, minted, invite, held, copy, job>>
        BY <1>3 DEF SendGrant
    <2> HIDE DEF r
    <2> QED BY <2>1, <2>2, SendKeepsType
<1> QED BY <1>1, <1>2, <1>3

\* An accepted write stores a row of its destination's scope.
LEMMA WrittenIsRow ==
    ASSUME TypeOK, NEW r \in WriteReq
    PROVE  /\ r.item \in Items /\ r.by \in Users
           /\ Written(r) \in Row
           /\ Written(r).scope = r.into
           /\ Written(r).key = Written(r).rev
           /\ Written(r).under = r.under
<1>1. /\ r.item \in Items /\ r.by \in Users /\ r.base + 1 \in Revisions
      /\ row[r.item].author \in Users
    BY ConstantsAssumption DEF WriteReq, Revisions, TypeOK, Row
<1>2. \/ r.into = "personal" /\ r.under = UserKey
      \/ r.into = "shared" /\ r.under \in Epochs
    BY DEF WriteReq
<1>3. Written(r) \in Row
    BY <1>1, <1>2 DEF Written, Row
<1> QED BY <1>1, <1>3 DEF Written

\* What the server does with a request.
LEMMA ServingKeepsType ==
    ASSUME TypeOK, NEW r \in sent, Serve(r) \/ Lose(r)
    PROVE  TypeOK'
<1>1. CASE Lose(r)
    BY <1>1 DEF Lose, TypeOK
<1>2. CASE r.op = "write" /\ ServeWrite(r)
    <2>1. r \in WriteReq
        BY <1>2 DEF TypeOK, ShareReq, GrantReq
    <2>2. row' \in [Items -> Row]
        BY <1>2, <2>1, WrittenIsRow DEF ServeWrite, TypeOK
    <2>3. given' \in [Items -> [Users -> Revisions \cup {0}]]
        BY <1>2, <2>1, WrittenIsRow DEF ServeWrite, TypeOK
    <2>4. r.base + 1 \in Revisions
        BY <2>1, ConstantsAssumption DEF WriteReq, Revisions
    <2>5. copy' \in [Users -> [Items -> Revisions \cup {0}]]
        BY <1>2, <2>1, <2>4, WrittenIsRow DEF ServeWrite, TypeOK
    <2> QED BY <1>2, <2>2, <2>3, <2>5 DEF ServeWrite, TypeOK
<1>3. CASE r.op = "share" /\ ServeShare(r)
    <2>1. r \in ShareReq
        BY <1>3 DEF TypeOK, WriteReq, GrantReq
    <2> QED BY <1>3, <2>1 DEF ServeShare, ShareReq, TypeOK
<1>4. CASE r.op = "grant" /\ ServeGrant(r)
    <2>1. r \in GrantReq
        BY <1>4 DEF TypeOK, WriteReq, ShareReq
    <2> QED BY <1>4, <2>1 DEF ServeGrant, GrantReq, TypeOK
<1>5. r.op \in {"write", "share", "grant"}
    BY DEF TypeOK, WriteReq, ShareReq, GrantReq
<1> QED BY <1>1, <1>2, <1>3, <1>4, <1>5 DEF Serve

\* Rows of all three scopes have the same fields; a deleted one may hold any key.
AnyRow == [scope : {"personal", "shared", "gone"}, author : Users, rev : Revisions,
           key : Revisions, under : Epochs \cup {UserKey}]

\* The rows of the model are among the rows the lemmas speak of.
LEMMA AnyRowCovers == Row \subseteq AnyRow
BY DEF Row, AnyRow

\* A deleted row keeps no scope of its own, so it is a row of the model.
LEMMA GoneRows == \A w \in AnyRow : w.scope = "gone" => w \in Row
BY DEF Row, AnyRow

\* Deletions, revocations and invitations.
LEMMA SingleStepsKeepType ==
    ASSUME TypeOK,
           \/ \E i \in Items : DeleteItem(i)
           \/ \E i \in Items, v \in Users : RevokeShare(i, v)
           \/ CreateInvite \/ RevokeInvite
           \/ \E v \in Users : AcceptInvite(v) \/ RevokeAccess(v)
    PROVE  TypeOK'
<1>1. ASSUME NEW i \in Items, DeleteItem(i) PROVE TypeOK'
    <2> DEFINE dead == [row[i] EXCEPT !.scope = "gone"]
    <2>1. row[i] \in AnyRow
        BY AnyRowCovers DEF TypeOK
    <2>2. dead \in AnyRow /\ dead.scope = "gone"
        BY <2>1 DEF AnyRow
    <2>3. row' = [row EXCEPT ![i] = dead]
        BY <1>1 DEF DeleteItem
    <2> HIDE DEF dead
    <2>4. dead \in Row
        BY <2>2, GoneRows
    <2> QED BY <1>1, <2>3, <2>4 DEF DeleteItem, TypeOK
<1>2. ASSUME NEW i \in Items, NEW v \in Users, RevokeShare(i, v) PROVE TypeOK'
    BY <1>2 DEF RevokeShare, TypeOK
<1>3. CASE CreateInvite \/ RevokeInvite
    BY <1>3, ConstantsAssumption DEF CreateInvite, RevokeInvite, TypeOK
<1>4. ASSUME NEW v \in Users, AcceptInvite(v) \/ RevokeAccess(v) PROVE TypeOK'
    BY <1>4 DEF AcceptInvite, RevokeAccess, TypeOK
<1> QED BY <1>1, <1>2, <1>3, <1>4

\* A job that has listed its recipients has an old and a fresh key, and only a
\* built one has rewrapped anything.
WellFormed(j) ==
    /\ j.stage = "begun" => j.to = {}
    /\ j.stage # "begun" => j.old # NoKey /\ j.fresh \in Epochs
    /\ j.stage # "built" => \A i \in Items : j.wraps[i] = 0
JobShape == \A b \in Users : job[b] # NoJob => WellFormed(job[b])

\* A step that leaves the jobs alone leaves them well formed.
LEMMA JobsKeepShape == JobShape /\ UNCHANGED job => JobShape'
BY DEF JobShape

\* One job changes, to a well-formed one.
LEMMA OneJobKeepsShape ==
    ASSUME TypeOK, JobShape, NEW b \in Users, NEW j \in Job, WellFormed(j),
           job' = [job EXCEPT ![b] = j]
    PROVE  JobShape' /\ job' \in [Users -> Job \cup {NoJob}]
BY DEF TypeOK, JobShape

\* Building a batch.
LEMMA BuildingKeepsType ==
    ASSUME TypeOK, JobShape, NEW b \in Users,
           \/ \E t \in Users : BeginRemoval(b, t)
           \/ ListRecipients(b) \/ RewrapItems(b) \/ AbandonRemoval(b)
    PROVE  TypeOK' /\ JobShape'
<1>1. ASSUME NEW t \in Users, BeginRemoval(b, t) PROVE TypeOK' /\ JobShape'
    <2> DEFINE j == [stage |-> "begun", target |-> t, roster |-> family,
                     old |-> IF sealed[t] = NoKey THEN NoKey ELSE sealed[b],
                     to |-> {}, fresh |-> NoKey, wraps |-> [i \in Items |-> 0]]
    <2>1. j \in Job
        BY DEF Job, TypeOK
    <2>2. WellFormed(j)
        BY DEF WellFormed
    <2>3. job' = [job EXCEPT ![b] = j]
        BY <1>1 DEF BeginRemoval
    <2> HIDE DEF j
    <2>4. JobShape' /\ job' \in [Users -> Job \cup {NoJob}]
        BY <2>1, <2>2, <2>3, OneJobKeepsShape
    <2> QED BY <1>1, <2>4 DEF BeginRemoval, TypeOK
<1>2. CASE ListRecipients(b)
    <2> DEFINE old == job[b]
               j == [old EXCEPT !.stage = "listed", !.to = Holders \ {old.target},
                                !.fresh = minted + 1]
    <2>1. old \in Job /\ old.stage = "begun"
        BY <1>2 DEF ListRecipients, TypeOK
    <2>2. minted + 1 \in Epochs /\ minted' = minted + 1
        BY <1>2, ConstantsAssumption DEF ListRecipients, TypeOK, Epochs
    <2>3. /\ j \in Job /\ j.stage = "listed" /\ j.fresh = minted + 1
          /\ j.wraps = old.wraps /\ j.old = old.old
        BY <2>1, <2>2 DEF Job, Holders
    <2>4. WellFormed(j)
        BY <1>2, <2>1, <2>2, <2>3 DEF JobShape, WellFormed, ListRecipients
    <2>5. job' = [job EXCEPT ![b] = j]
        BY <1>2 DEF ListRecipients
    <2> HIDE DEF j
    <2>6. JobShape' /\ job' \in [Users -> Job \cup {NoJob}]
        BY <2>2, <2>3, <2>4, <2>5, OneJobKeepsShape
    <2> QED BY <1>2, <2>2, <2>6 DEF ListRecipients, TypeOK
<1>3. CASE RewrapItems(b)
    <2> DEFINE old == job[b]
               wraps == [i \in Items |-> IF i \in InCollection THEN row[i].key ELSE 0]
               j == [old EXCEPT !.stage = "built", !.wraps = wraps]
    <2>1. old \in Job /\ old.stage = "listed"
        BY <1>3 DEF RewrapItems, TypeOK
    <2>2. wraps \in [Items -> Revisions \cup {0}]
        BY DEF TypeOK, Row
    <2> HIDE DEF wraps
    <2>3. j \in Job /\ j.stage = "built" /\ j.fresh = old.fresh /\ j.old = old.old
        BY <2>1, <2>2 DEF Job
    <2>4. WellFormed(j)
        BY <1>3, <2>1, <2>3 DEF JobShape, WellFormed, RewrapItems
    <2>5. job' = [job EXCEPT ![b] = j]
        BY <1>3 DEF RewrapItems, wraps
    <2> HIDE DEF j
    <2>6. JobShape' /\ job' \in [Users -> Job \cup {NoJob}]
        BY <2>3, <2>4, <2>5, OneJobKeepsShape
    <2> QED BY <1>3, <2>6 DEF RewrapItems, TypeOK
<1>4. CASE AbandonRemoval(b)
    BY <1>4 DEF AbandonRemoval, TypeOK, JobShape
<1> QED BY <1>1, <1>2, <1>3, <1>4

\* A shared row that is rewrapped keeps its scope, author and revision.
LEMMA RewrapsRow ==
    ASSUME NEW w \in Row, w.scope = "shared", NEW k \in Revisions, NEW e \in Epochs
    PROVE  LET new == WithEncKey(w, k, e)
           IN  /\ new \in Row
               /\ new.scope = w.scope /\ new.author = w.author /\ new.rev = w.rev
               /\ new.under = e /\ new.key = k
<1> DEFINE half == [w EXCEPT !.key = k]
           new == [half EXCEPT !.under = e]
           SharedRow == [scope : {"shared"}, author : Users, rev : Revisions,
                         key : Revisions, under : Epochs]
<1>1. w \in SharedRow
    BY DEF Row
<1>2. half \in SharedRow /\ half.author = w.author /\ half.rev = w.rev /\ half.key = k
    BY <1>1
<1>3. WithEncKey(w, k, e) = new
    BY <1>1 DEF WithEncKey
<1> HIDE DEF half
<1>4. /\ new \in SharedRow /\ new.author = half.author /\ new.rev = half.rev
      /\ new.key = half.key /\ new.under = e
    BY <1>2
<1>5. new \in Row /\ new.scope = w.scope
    BY <1>1, <1>4 DEF Row
<1> QED BY <1>2, <1>3, <1>4, <1>5

\* The rows after a re-key, and after the hand-over of a leaving member's items.
LEMMA RekeyedRows ==
    ASSUME TypeOK, JobShape, NEW b \in Users, job[b] # NoJob, NEW i \in Items
    PROVE  LET j == job[b] IN
           /\ RowsAfter(j)[i] \in Row
           /\ RowsAfter(j)[i].scope = row[i].scope
           /\ RowsAfter(j)[i].author = row[i].author
           /\ RowsAfter(j)[i].rev = row[i].rev
           /\ i \in Rewrapped(j) \cap InCollection =>
                /\ RowsAfter(j)[i].under = j.fresh
                /\ RowsAfter(j)[i].key = j.wraps[i]
           /\ i \notin Rewrapped(j) \cap InCollection => RowsAfter(j)[i] = row[i]
<1> DEFINE j == job[b]
<1>1. j \in Job /\ row[i] \in Row
    BY DEF TypeOK
<1>2. CASE i \in Rewrapped(j) \cap InCollection
    <2>1. j.fresh \in Epochs /\ j.wraps[i] \in Revisions
        BY <1>1, <1>2 DEF Rewrapped, JobShape, WellFormed, Job
    <2>2. row[i].scope = "shared"
        BY <1>2 DEF InCollection
    <2>3. RowsAfter(j)[i] = WithEncKey(row[i], j.wraps[i], j.fresh)
        BY <1>2 DEF RowsAfter
    <2> QED BY <1>1, <1>2, <2>1, <2>2, <2>3, RewrapsRow
<1>3. CASE i \notin Rewrapped(j) \cap InCollection
    BY <1>1, <1>3 DEF RowsAfter
<1> QED BY <1>2, <1>3

\* An inherited row changes its author or dies.
LEMMA InheritedRows ==
    ASSUME TypeOK, NEW rows, NEW j, NEW i \in Items, rows[i] \in Row
    PROVE  /\ Inherited(rows, j)[i] \in Row
           /\ \/ Inherited(rows, j)[i].scope = "gone"
              \/ /\ Inherited(rows, j)[i].scope = rows[i].scope
                 /\ Inherited(rows, j)[i].under = rows[i].under
                 /\ Inherited(rows, j)[i].key = rows[i].key
                 /\ Inherited(rows, j)[i].rev = rows[i].rev
<1> DEFINE heir == [rows[i] EXCEPT !.author = Owner]
           dead == [rows[i] EXCEPT !.scope = "gone"]
<1>1. /\ heir \in Row /\ heir.scope = rows[i].scope /\ heir.under = rows[i].under
      /\ heir.key = rows[i].key /\ heir.rev = rows[i].rev
    BY ConstantsAssumption DEF Row
<1>2. dead \in AnyRow /\ dead.scope = "gone"
    BY AnyRowCovers DEF AnyRow
<1>3. Inherited(rows, j)[i] \in {rows[i], heir, dead}
    BY DEF Inherited
<1> HIDE DEF heir, dead
<1> QED BY <1>1, <1>2, <1>3, GoneRows

\* What the removal leaves of every row.
LEMMA RowsAfterRemoval ==
    ASSUME TypeOK, JobShape, NEW b \in Users, SubmitRemoval(b), NEW i \in Items
    PROVE  LET j == job[b] IN
           /\ row'[i] \in Row
           /\ \/ row'[i].scope = "gone"
              \/ /\ row'[i].scope = row[i].scope
                 /\ row'[i].rev = row[i].rev
                 /\ i \in Rewrapped(j) \cap InCollection =>
                      row'[i].under = j.fresh /\ row'[i].key = j.wraps[i]
                 /\ i \notin Rewrapped(j) \cap InCollection =>
                      row'[i].under = row[i].under /\ row'[i].key = row[i].key
<1> DEFINE j == job[b]
<1>1. job[b] # NoJob
    BY DEF SubmitRemoval
<1>2. row' = IF j.target = b THEN Inherited(RowsAfter(j), j) ELSE RowsAfter(j)
    BY DEF SubmitRemoval
<1>3. /\ RowsAfter(j)[i] \in Row
      /\ RowsAfter(j)[i].scope = row[i].scope /\ RowsAfter(j)[i].rev = row[i].rev
      /\ i \in Rewrapped(j) \cap InCollection =>
           RowsAfter(j)[i].under = j.fresh /\ RowsAfter(j)[i].key = j.wraps[i]
      /\ i \notin Rewrapped(j) \cap InCollection => RowsAfter(j)[i] = row[i]
    BY <1>1, RekeyedRows
<1> HIDE DEF j
<1>4. CASE j.target = b
    BY <1>2, <1>3, <1>4, InheritedRows DEF j
<1>5. CASE j.target # b
    BY <1>2, <1>3, <1>5 DEF j
<1> QED BY <1>4, <1>5

\* A removal leaves well-formed rows.
LEMMA RemovalKeepsType ==
    ASSUME TypeOK, JobShape, NEW b \in Users, SubmitRemoval(b)
    PROVE  TypeOK' /\ JobShape'
<1> DEFINE j == job[b]
<1>1. j \in Job /\ job[b] # NoJob
    BY DEF SubmitRemoval, TypeOK
<1>2. DOMAIN row' = Items /\ row' = [i \in Items |-> row'[i]]
    BY DEF SubmitRemoval, Inherited, RowsAfter
<1>3. row' \in [Items -> Row]
    BY <1>2, RowsAfterRemoval
<1>4. sealed' \in [Users -> Epochs \cup {NoKey}]
    BY <1>1 DEF SubmitRemoval, SealedAfter, TypeOK, Job
<1>5. given' \in [Items -> [Users -> Revisions \cup {0}]]
    BY DEF SubmitRemoval, TypeOK
<1>6. job' \in [Users -> Job \cup {NoJob}] /\ JobShape'
    BY DEF SubmitRemoval, TypeOK, JobShape
<1>7. held' \in [Users -> Epochs \cup {NoKey}] /\ copy' \in [Users -> [Items -> Revisions \cup {0}]]
    BY DEF SubmitRemoval, TypeOK
<1>8. family' \subseteq Users /\ UNCHANGED <<minted, invite, sent>>
    BY DEF SubmitRemoval, TypeOK
<1> QED BY <1>3, <1>4, <1>5, <1>6, <1>7, <1>8 DEF TypeOK

\* The types, with the shape of the batches being built, are inductive.
LEMMA TypesHold == Spec => [](TypeOK /\ JobShape)
<1>1. Init => TypeOK /\ JobShape
    BY ConstantsAssumption DEF Init, TypeOK, JobShape, Row, Epochs, Revisions
<1>2. TypeOK /\ JobShape /\ [Next]_vars => TypeOK' /\ JobShape'
    <2> SUFFICES ASSUME TypeOK, JobShape, [Next]_vars PROVE TypeOK' /\ JobShape'
        OBVIOUS
    <2>1. CASE UNCHANGED vars
        BY <2>1 DEF vars, TypeOK, JobShape
    <2>2. ASSUME NEW u \in Users, RefreshCollections(u) \/ Lock(u)
          PROVE  TypeOK' /\ JobShape'
        BY <2>2, CachesKeepType, JobsKeepShape DEF RefreshCollections, Lock
    <2>3. ASSUME NEW u \in Users, NEW i \in Items, MergeRow(u, i)
          PROVE  TypeOK' /\ JobShape'
        BY <2>3, CachesKeepType, JobsKeepShape DEF MergeRow
    <2>4. ASSUME NEW u \in Users, NEW i \in Items, NEW into \in {"personal", "shared"},
                 SendWrite(u, i, into)
          PROVE  TypeOK' /\ JobShape'
        BY <2>4, SendsKeepType, JobsKeepShape DEF SendWrite
    <2>5. ASSUME NEW i \in Items, NEW v \in Users, SendShare(i, v)
          PROVE  TypeOK' /\ JobShape'
        BY <2>5, SendsKeepType, JobsKeepShape DEF SendShare
    <2>6. ASSUME NEW u \in Users, NEW v \in Users, SendGrant(u, v)
          PROVE  TypeOK' /\ JobShape'
        BY <2>6, SendsKeepType, JobsKeepShape DEF SendGrant
    <2>7. ASSUME \/ \E i \in Items : DeleteItem(i)
                 \/ \E i \in Items, v \in Users : RevokeShare(i, v)
                 \/ CreateInvite \/ RevokeInvite
                 \/ \E v \in Users : AcceptInvite(v) \/ RevokeAccess(v)
          PROVE  TypeOK' /\ JobShape'
        <3>1. UNCHANGED job
            BY <2>7 DEF DeleteItem, RevokeShare, CreateInvite, RevokeInvite,
                        AcceptInvite, RevokeAccess
        <3> QED BY <2>7, <3>1, SingleStepsKeepType, JobsKeepShape
    <2>8. ASSUME NEW b \in Users, NEW t \in Users, BeginRemoval(b, t)
          PROVE  TypeOK' /\ JobShape'
        BY <2>8, BuildingKeepsType
    <2>9. ASSUME NEW b \in Users, ListRecipients(b) \/ RewrapItems(b) \/ AbandonRemoval(b)
          PROVE  TypeOK' /\ JobShape'
        BY <2>9, BuildingKeepsType
    <2>10. ASSUME NEW b \in Users, SubmitRemoval(b) PROVE TypeOK' /\ JobShape'
        BY <2>10, RemovalKeepsType
    <2>11. ASSUME NEW r \in sent, Serve(r) \/ Lose(r) PROVE TypeOK' /\ JobShape'
        <3>1. r.op \in {"write", "share", "grant"}
            BY DEF TypeOK, WriteReq, ShareReq, GrantReq
        <3>2. UNCHANGED job
            BY <2>11, <3>1 DEF Serve, ServeWrite, ServeShare, ServeGrant, Lose
        <3> QED BY <2>11, <3>2, ServingKeepsType, JobsKeepShape
    <2> QED BY <2>1, <2>2, <2>3, <2>4, <2>5, <2>6, <2>7, <2>8, <2>9, <2>10, <2>11 DEF Next
<1> QED BY <1>1, <1>2, PTL DEF Spec

\* Every reachable state of keys, rows, caches, requests and batches has its type.
THEOREM TypeCorrect == Spec => []TypeOK
BY TypesHold, PTL

-----------------------------------------------------------------------------
(* Personal items.                                                         *)

\* An action that stores no rows closes no personal item.
LEMMA PersonalStaysOpen == PersonalItemsOpen /\ UNCHANGED row => PersonalItemsOpen'
BY DEF PersonalItemsOpen, OpensForAuthor, Opens

\* An item outside every collection always opens with its author's User Key:
\* whichever requests and re-keys race, no Collection Key's wrapping is left on it.
THEOREM PersonalItemsStayOpen == Spec => []PersonalItemsOpen
<1>1. Init => PersonalItemsOpen
    BY DEF Init, PersonalItemsOpen
<1>2. TypeOK /\ JobShape /\ PersonalItemsOpen /\ [Next]_vars => PersonalItemsOpen'
    <2> SUFFICES ASSUME TypeOK, JobShape, PersonalItemsOpen, [Next]_vars
                 PROVE  PersonalItemsOpen'
        OBVIOUS
    <2>1. ASSUME NEW r \in sent, r.op = "write", ServeWrite(r) PROVE PersonalItemsOpen'
        <3>1. r \in WriteReq
            BY <2>1 DEF TypeOK, ShareReq, GrantReq
        <3>2. Written(r).scope = "personal" => Written(r).under = UserKey
            BY <3>1, WrittenIsRow DEF WriteReq, UserKey, Epochs
        <3>3. row' = [row EXCEPT ![r.item] = Written(r)]
            BY <2>1 DEF ServeWrite
        <3> QED BY <3>1, <3>2, <3>3, WrittenIsRow
                DEF PersonalItemsOpen, OpensForAuthor, Opens, TypeOK
    <2>2. ASSUME NEW i \in Items, DeleteItem(i) PROVE PersonalItemsOpen'
        <3> DEFINE dead == [row[i] EXCEPT !.scope = "gone"]
        <3>1. dead.scope = "gone"
            BY AnyRowCovers DEF TypeOK, AnyRow
        <3>2. row' = [row EXCEPT ![i] = dead]
            BY <2>2 DEF DeleteItem
        <3> HIDE DEF dead
        <3> QED BY <3>1, <3>2 DEF PersonalItemsOpen, OpensForAuthor, Opens, TypeOK
    <2>3. ASSUME NEW b \in Users, SubmitRemoval(b) PROVE PersonalItemsOpen'
        <3> SUFFICES ASSUME NEW i \in Items, row'[i].scope = "personal"
                     PROVE  row'[i].under = UserKey /\ row'[i].key = row'[i].rev
            BY DEF PersonalItemsOpen, OpensForAuthor, Opens
        <3>1. row[i].scope = "personal" /\ i \notin InCollection
            BY <2>3, RowsAfterRemoval DEF InCollection
        <3>2. /\ row'[i].under = row[i].under /\ row'[i].key = row[i].key
              /\ row'[i].rev = row[i].rev
            BY <2>3, <3>1, RowsAfterRemoval
        <3> QED BY <3>1, <3>2 DEF PersonalItemsOpen, OpensForAuthor, Opens
    <2>4. \/ UNCHANGED row
          \/ \E i \in Items : DeleteItem(i)
          \/ \E b \in Users : SubmitRemoval(b)
          \/ \E r \in sent : r.op = "write" /\ ServeWrite(r)
        <3>1. \A r \in sent : r.op \in {"write", "share", "grant"}
            BY DEF TypeOK, WriteReq, ShareReq, GrantReq
        <3>2. \A r \in sent : Serve(r) =>
                 UNCHANGED row \/ (r.op = "write" /\ ServeWrite(r))
            BY <3>1 DEF Serve, ServeShare, ServeGrant
        <3> QED BY <3>2 DEF Next, vars, RefreshCollections, Lock, MergeRow, SendWrite,
                    SendShare, RevokeShare, SendGrant, CreateInvite, RevokeInvite,
                    AcceptInvite, RevokeAccess, BeginRemoval, ListRecipients,
                    RewrapItems, AbandonRemoval, Lose
    <2> QED BY <2>1, <2>2, <2>3, <2>4, PersonalStaysOpen
<1> QED BY <1>1, <1>2, TypesHold, PTL DEF Spec

-----------------------------------------------------------------------------
(* Re-keys.                                                                *)

Grants == {r \in sent : r.op = "grant"}

\* The keys somebody holds on the server, was promised, or is being sent.
Circulating == {sealed[u] : u \in Users} \cup {invite} \cup {r.seals : r \in Grants}

\* The key a removal batch has generated.
Secret(b) == IF job[b] = NoJob THEN NoKey ELSE job[b].fresh

\* The key of a batch is known to nobody else, and to no other batch.
FreshKeys ==
    /\ \A k \in Circulating : k <= minted
    /\ \A b \in Users : Secret(b) <= minted
    /\ \A b \in Users : Secret(b) # NoKey =>
          /\ Secret(b) \notin Circulating
          /\ \A c \in Users \ {b} : Secret(c) # Secret(b)

\* Passing known keys on, and giving batches up, keeps the others fresh.
LEMMA PassingKeysOn ==
    ASSUME TypeOK, FreshKeys, minted' = minted,
           Circulating' \subseteq Circulating \cup {NoKey},
           \A b \in Users : Secret(b)' \in {Secret(b), NoKey}
    PROVE  FreshKeys'
<1>1. NoKey <= minted
    BY DEF TypeOK, NoKey, Epochs
<1>2. \A k \in Circulating' : k <= minted'
    BY <1>1 DEF FreshKeys
<1>3. \A b \in Users : Secret(b)' <= minted'
    BY <1>1 DEF FreshKeys
<1>4. ASSUME NEW b \in Users, Secret(b)' # NoKey
      PROVE  /\ Secret(b)' \notin Circulating'
             /\ \A c \in Users \ {b} : Secret(c)' # Secret(b)'
    BY <1>4 DEF FreshKeys
<1> QED BY <1>2, <1>3, <1>4 DEF FreshKeys

\* A new key is larger than every key there was.
LEMMA MintingKeepsFresh ==
    ASSUME TypeOK, JobShape, FreshKeys, NEW b \in Users, ListRecipients(b)
    PROVE  FreshKeys'
<1> DEFINE j == job[b]
           listed == [j EXCEPT !.stage = "listed", !.to = Holders \ {j.target},
                               !.fresh = minted + 1]
<1>1. minted \in Nat /\ minted' = minted + 1 /\ minted' # NoKey
    BY DEF TypeOK, Epochs, ListRecipients, NoKey
<1>2. \A k \in Circulating : k \in Nat
    BY DEF TypeOK, Circulating, Grants, GrantReq, WriteReq, ShareReq, Epochs, NoKey
<1>3. \A c \in Users : Secret(c) \in Nat
    BY DEF TypeOK, Secret, Job, Epochs, NoKey
<1>4. Circulating' = Circulating
    BY DEF Circulating, Grants, ListRecipients
<1>5. j \in Job /\ j # NoJob
    BY DEF TypeOK, ListRecipients
<1>6. listed.fresh = minted + 1
    BY <1>5 DEF Job
<1>7. job' = [job EXCEPT ![b] = listed]
    BY DEF ListRecipients
<1> HIDE DEF listed
<1>8. Secret(b)' \in {minted + 1, NoKey}
    BY <1>6, <1>7 DEF Secret, TypeOK
<1>9. \A c \in Users \ {b} : Secret(c)' = Secret(c)
    BY <1>7 DEF Secret, TypeOK
<1>10. \A k \in Circulating' : k <= minted'
    BY <1>1, <1>2, <1>4 DEF FreshKeys
<1>11. \A c \in Users : Secret(c)' <= minted'
    BY <1>1, <1>3, <1>8, <1>9 DEF FreshKeys, NoKey
<1>12. ASSUME NEW c \in Users, Secret(c)' # NoKey
       PROVE  /\ Secret(c)' \notin Circulating'
              /\ \A d \in Users \ {c} : Secret(d)' # Secret(c)'
    <2>1. \A k \in Circulating : k # minted + 1
        BY <1>1, <1>2 DEF FreshKeys
    <2>2. \A d \in Users : Secret(d) # minted + 1
        BY <1>1, <1>3 DEF FreshKeys
    <2> QED BY <1>4, <1>8, <1>9, <1>12, <2>1, <2>2 DEF FreshKeys
<1> QED BY <1>10, <1>11, <1>12 DEF FreshKeys

\* A committed batch puts its own key into circulation and no other.
LEMMA CommittingKeepsFresh ==
    ASSUME TypeOK, JobShape, FreshKeys, NEW b \in Users, SubmitRemoval(b)
    PROVE  FreshKeys'
<1>1. job[b] # NoJob /\ job[b] \in Job
    BY DEF SubmitRemoval, TypeOK
<1>2. \A u \in Users : sealed'[u] \in {sealed[u], NoKey, Secret(b)}
    BY <1>1 DEF SubmitRemoval, SealedAfter, Secret
<1>3. Circulating' \subseteq Circulating \cup {NoKey, Secret(b)}
    BY <1>2 DEF Circulating, Grants, SubmitRemoval
<1>4. \A c \in Users \ {b} : Secret(c)' = Secret(c)
    BY DEF Secret, SubmitRemoval, TypeOK
<1>5. Secret(b)' = NoKey
    BY DEF Secret, SubmitRemoval, TypeOK
<1>6. minted' = minted /\ NoKey <= minted
    BY DEF SubmitRemoval, TypeOK, NoKey, Epochs
<1>7. \A k \in Circulating' : k <= minted'
    BY <1>3, <1>6 DEF FreshKeys
<1>8. \A c \in Users : Secret(c)' <= minted'
    BY <1>4, <1>5, <1>6 DEF FreshKeys
<1>9. ASSUME NEW c \in Users, Secret(c)' # NoKey
      PROVE  /\ Secret(c)' \notin Circulating'
             /\ \A d \in Users \ {c} : Secret(d)' # Secret(c)'
    <2>1. c # b /\ Secret(c)' = Secret(c)
        BY <1>4, <1>5, <1>9
    <2>2. Secret(c) \notin Circulating
          /\ \A d \in Users \ {c} : Secret(d) # Secret(c)
        BY <1>9, <2>1 DEF FreshKeys
    <2> QED BY <1>3, <1>4, <1>5, <1>9, <2>1, <2>2
<1> QED BY <1>7, <1>8, <1>9 DEF FreshKeys

\* Every other step passes known keys on or nothing at all.
LEMMA OtherStepsKeepFresh ==
    ASSUME TypeOK, JobShape, FreshKeys,
           \/ \E u \in Users : RefreshCollections(u) \/ Lock(u)
           \/ \E u \in Users, i \in Items : MergeRow(u, i)
           \/ \E u \in Users, i \in Items, into \in {"personal", "shared"} :
                 SendWrite(u, i, into)
           \/ \E i \in Items : DeleteItem(i)
           \/ \E i \in Items, v \in Users : SendShare(i, v) \/ RevokeShare(i, v)
           \/ \E u, v \in Users : SendGrant(u, v)
           \/ CreateInvite \/ RevokeInvite
           \/ \E v \in Users : AcceptInvite(v) \/ RevokeAccess(v)
           \/ \E b, t \in Users : BeginRemoval(b, t)
           \/ \E b \in Users : RewrapItems(b) \/ AbandonRemoval(b)
           \/ \E r \in sent : Serve(r) \/ Lose(r)
    PROVE  FreshKeys'
<1>1. UNCHANGED <<sealed, invite, sent, minted, job>> => FreshKeys'
    BY PassingKeysOn DEF Circulating, Grants, Secret
<1>2. ASSUME UNCHANGED <<minted, job>>, Circulating' \subseteq Circulating \cup {NoKey}
      PROVE  FreshKeys'
    BY <1>2, PassingKeysOn DEF Secret
<1>3. ASSUME NEW u \in Users, RefreshCollections(u) \/ Lock(u) PROVE FreshKeys'
    BY <1>1, <1>3 DEF RefreshCollections, Lock
<1>4. ASSUME NEW u \in Users, NEW i \in Items, MergeRow(u, i) PROVE FreshKeys'
    BY <1>1, <1>4 DEF MergeRow
<1>5. ASSUME \/ \E u \in Users, i \in Items, into \in {"personal", "shared"} :
                  SendWrite(u, i, into)
             \/ \E i \in Items, v \in Users : SendShare(i, v)
      PROVE  FreshKeys'
    <2>1. ASSUME NEW r, r.op # "grant", Send(r),
                 UNCHANGED <<sealed, invite, minted, job>>
          PROVE  FreshKeys'
        BY <1>2, <2>1 DEF Circulating, Grants, Send
    <2>2. ASSUME NEW u \in Users, NEW i \in Items, NEW into \in {"personal", "shared"},
                 SendWrite(u, i, into)
          PROVE  FreshKeys'
        <3> DEFINE r == [op |-> "write", by |-> u, item |-> i, base |-> row[i].rev,
                         into |-> into, under |-> EncryptionKey(u, i, into)]
        <3>1. r.op # "grant" /\ Send(r) /\ UNCHANGED <<sealed, invite, minted, job>>
            BY <2>2 DEF SendWrite
        <3> HIDE DEF r
        <3> QED BY <2>1, <3>1
    <2>3. ASSUME NEW i \in Items, NEW v \in Users, SendShare(i, v) PROVE FreshKeys'
        <3> DEFINE r == [op |-> "share", item |-> i, to |-> v, seals |-> row[i].key]
        <3>1. r.op # "grant" /\ Send(r) /\ UNCHANGED <<sealed, invite, minted, job>>
            BY <2>3 DEF SendShare
        <3> HIDE DEF r
        <3> QED BY <2>1, <3>1
    <2> QED BY <1>5, <2>2, <2>3
<1>6. ASSUME \/ \E i \in Items : DeleteItem(i)
             \/ \E i \in Items, v \in Users : RevokeShare(i, v)
      PROVE  FreshKeys'
    BY <1>1, <1>6 DEF DeleteItem, RevokeShare
<1>7. ASSUME NEW u \in Users, NEW v \in Users, SendGrant(u, v) PROVE FreshKeys'
    <2> DEFINE r == [op |-> "grant", by |-> u, to |-> v, seals |-> KeyToReseal(u)]
    <2>1. r.seals \in Circulating
        BY DEF KeyToReseal, Circulating
    <2>2. sent' = sent \cup {r} /\ UNCHANGED <<sealed, invite, minted, job>>
        BY <1>7 DEF SendGrant, Send
    <2> HIDE DEF r
    <2> QED BY <1>2, <2>1, <2>2 DEF Circulating, Grants
<1>8. CASE CreateInvite \/ RevokeInvite
    BY <1>2, <1>8, ConstantsAssumption DEF CreateInvite, RevokeInvite, Circulating, Grants
<1>9. ASSUME NEW v \in Users, AcceptInvite(v) \/ RevokeAccess(v) PROVE FreshKeys'
    <2>1. \A u \in Users : sealed'[u] \in {sealed[u], invite, NoKey}
        BY <1>9 DEF AcceptInvite, RevokeAccess, TypeOK
    <2>2. invite' \in {invite, NoKey} /\ UNCHANGED <<minted, job, sent>>
        BY <1>9 DEF AcceptInvite, RevokeAccess
    <2> QED BY <1>2, <2>1, <2>2 DEF Circulating, Grants
<1>10. ASSUME NEW b \in Users, NEW t \in Users, BeginRemoval(b, t) PROVE FreshKeys'
    <2>1. \A c \in Users : Secret(c)' \in {Secret(c), NoKey}
        BY <1>10 DEF BeginRemoval, Secret, TypeOK
    <2>2. Circulating' = Circulating /\ minted' = minted
        BY <1>10 DEF BeginRemoval, Circulating, Grants
    <2> QED BY <2>1, <2>2, PassingKeysOn
<1>11. ASSUME NEW b \in Users, RewrapItems(b) PROVE FreshKeys'
    <2> DEFINE wraps == [i \in Items |-> IF i \in InCollection THEN row[i].key ELSE 0]
               built == [job[b] EXCEPT !.stage = "built", !.wraps = wraps]
    <2>1. built.fresh = job[b].fresh /\ job[b] # NoJob
        BY <1>11 DEF RewrapItems, TypeOK, Job
    <2>2. job' = [job EXCEPT ![b] = built]
        BY <1>11 DEF RewrapItems
    <2> HIDE DEF built
    <2>3. \A c \in Users : Secret(c)' \in {Secret(c), NoKey}
        BY <2>1, <2>2 DEF Secret, TypeOK
    <2>4. Circulating' = Circulating /\ minted' = minted
        BY <1>11 DEF RewrapItems, Circulating, Grants
    <2> QED BY <2>3, <2>4, PassingKeysOn
<1>12. ASSUME NEW b \in Users, AbandonRemoval(b) PROVE FreshKeys'
    <2>1. \A c \in Users : Secret(c)' \in {Secret(c), NoKey}
        BY <1>12 DEF AbandonRemoval, Secret, TypeOK
    <2>2. Circulating' = Circulating /\ minted' = minted
        BY <1>12 DEF AbandonRemoval, Circulating, Grants
    <2> QED BY <2>1, <2>2, PassingKeysOn
<1>13. ASSUME NEW r \in sent, Serve(r) \/ Lose(r) PROVE FreshKeys'
    <2>1. r.op \in {"write", "share", "grant"}
        BY DEF TypeOK, WriteReq, ShareReq, GrantReq
    <2>2. sent' = sent \ {r} /\ UNCHANGED <<invite, minted, job>>
        BY <1>13, <2>1 DEF Serve, ServeWrite, ServeShare, ServeGrant, Lose
    <2>3. CASE UNCHANGED sealed
        BY <1>2, <2>2, <2>3 DEF Circulating, Grants
    <2>4. CASE r.op = "grant" /\ ServeGrant(r)
        <3>1. \A u \in Users : sealed'[u] \in {sealed[u], r.seals}
            BY <2>4 DEF ServeGrant, TypeOK
        <3>2. r.seals \in Circulating
            BY <2>4 DEF Circulating, Grants
        <3> QED BY <1>2, <2>2, <3>1, <3>2 DEF Circulating, Grants
    <2> QED BY <1>13, <2>1, <2>3, <2>4 DEF Serve, ServeWrite, ServeShare, Lose
<1> QED BY <1>3, <1>4, <1>5, <1>6, <1>7, <1>8, <1>9, <1>10, <1>11, <1>12, <1>13

\* Keys stay fresh throughout.
LEMMA KeysStayFresh == Spec => []FreshKeys
<1>1. Init => FreshKeys
    BY ConstantsAssumption
       DEF Init, FreshKeys, Circulating, Grants, Secret, NoKey
<1>2. TypeOK /\ JobShape /\ FreshKeys /\ [Next]_vars => FreshKeys'
    <2>1. TypeOK /\ FreshKeys /\ UNCHANGED vars => FreshKeys'
        BY DEF vars, FreshKeys, Circulating, Grants, Secret
    <2> QED BY <2>1, MintingKeepsFresh, CommittingKeepsFresh, OtherStepsKeepFresh DEF Next
<1> QED BY <1>1, <1>2, TypesHold, PTL DEF Spec

\* The only step that takes somebody out of the family commits a batch.
LEMMA OnlyRemovalsRemove ==
    ASSUME TypeOK, [Next]_vars, NEW t \in family \ family'
    PROVE  \E b \in Users : SubmitRemoval(b) /\ job[b].target = t
<1>1. \A r \in sent : r.op \in {"write", "share", "grant"}
    BY DEF TypeOK, WriteReq, ShareReq, GrantReq
<1>2. \A r \in sent : Serve(r) \/ Lose(r) => UNCHANGED family
    BY <1>1 DEF Serve, ServeWrite, ServeShare, ServeGrant, Lose
<1>3. PICK b \in Users : SubmitRemoval(b)
    BY <1>2 DEF Next, vars, RefreshCollections, Lock, MergeRow, SendWrite, DeleteItem,
                SendShare, RevokeShare, SendGrant, CreateInvite, RevokeInvite,
                AcceptInvite, RevokeAccess, BeginRemoval, ListRecipients, RewrapItems,
                AbandonRemoval
<1> QED BY <1>3 DEF SubmitRemoval

\* A removal that re-keys leaves the whole collection on one key that nobody had
\* before, however many batches, grants, invitations, saves and moves race with
\* it.
THEOREM RekeysAreUniform == Spec => RekeyIsUniform
<1> DEFINE Uniform ==
        \A t \in family \ family' :
           sealed[t] # NoKey /\ sealed'[t] = NoKey =>
              \E e \in Epochs :
                 /\ \A u \in Holders' : sealed'[u] = e /\ sealed[u] # e
                 /\ \A i \in InCollection' : row'[i].under = e
<1>1. TypeOK /\ JobShape /\ FreshKeys /\ [Next]_vars => Uniform
    <2> SUFFICES ASSUME TypeOK, JobShape, FreshKeys, [Next]_vars,
                        NEW t \in family \ family', sealed[t] # NoKey
                 PROVE  \E e \in Epochs :
                           /\ \A u \in Holders' : sealed'[u] = e /\ sealed[u] # e
                           /\ \A i \in InCollection' : row'[i].under = e
        OBVIOUS
    <2>1. PICK b \in Users : SubmitRemoval(b) /\ job[b].target = t
        BY OnlyRemovalsRemove
    <2> DEFINE j == job[b]
    <2>2. j \in Job /\ j # NoJob
        BY <2>1 DEF SubmitRemoval, TypeOK
    <2>3. j.stage = "built" /\ SameItems(j) /\ SameRecipients(j)
        BY <2>1 DEF SubmitRemoval, BatchMatches
    <2>4. j.fresh \in Epochs /\ j.fresh = Secret(b) /\ j.fresh # NoKey
        BY <2>2, <2>3 DEF JobShape, WellFormed, Secret, Epochs, NoKey
    <2>5. ASSUME NEW u \in Holders' PROVE sealed'[u] = j.fresh /\ sealed[u] # j.fresh
        <3>1. u \in Users /\ sealed'[u] = SealedAfter(j)[u] /\ sealed'[u] # NoKey
            BY <2>1 DEF SubmitRemoval, Holders
        <3>2. u # j.target /\ sealed[u] # NoKey
            BY <3>1 DEF SealedAfter
        <3>3. u \in j.to
            BY <2>3, <3>1, <3>2 DEF SameRecipients, Holders
        <3>4. sealed'[u] = j.fresh
            BY <3>1, <3>2, <3>3 DEF SealedAfter
        <3>5. sealed[u] # j.fresh
            BY <2>4, <3>1 DEF FreshKeys, Circulating
        <3> QED BY <3>4, <3>5
    <2>6. ASSUME NEW i \in InCollection' PROVE row'[i].under = j.fresh
        <3>1. i \in Items /\ row'[i].scope = "shared"
            BY DEF InCollection
        <3>2. row[i].scope = "shared"
            BY <2>1, <3>1, RowsAfterRemoval
        <3>3. i \in Rewrapped(j) \cap InCollection
            BY <2>3, <3>1, <3>2 DEF SameItems, InCollection
        <3> QED BY <2>1, <3>1, <3>3, RowsAfterRemoval
    <2> QED BY <2>4, <2>5, <2>6
<1>2. TypeOK /\ JobShape /\ FreshKeys /\ [Next]_vars => [Uniform]_vars
    BY <1>1
<1> QED BY <1>2, TypesHold, KeysStayFresh, PTL DEF Spec, RekeyIsUniform

-----------------------------------------------------------------------------
(* What can strand a holder.                                               *)

\* A step that leaves an item's row and a holder's key alone leaves it open.
LEMMA UntouchedStaysOpen ==
    ASSUME NEW u, NEW i, OpensForHolder(u, i), sealed'[u] = sealed[u],
           row'[i] = row[i], i \in InCollection'
    PROVE  OpensForHolder(u, i)'
BY DEF OpensForHolder, Opens

\* A re-key closes an item only by putting an older wrapping back.
LEMMA RemovalStrandsByRewrap ==
    ASSUME TypeOK, JobShape, NEW b \in Users, SubmitRemoval(b),
           NEW u \in Users, NEW i \in Items, OpensForHolder(u, i),
           sealed'[u] # NoKey, i \in InCollection', ~OpensForHolder(u, i)'
    PROVE  StaleRewrap(i)
<1> DEFINE j == job[b]
<1>1. j \in Job /\ j # NoJob /\ job'[b] = NoJob
    BY DEF SubmitRemoval, TypeOK
<1>2. row[i].scope = "shared" /\ row[i].key = row[i].rev /\ row[i].under = sealed[u]
    BY DEF OpensForHolder, Opens, InCollection
<1>3. u # j.target /\ sealed'[u] = SealedAfter(j)[u] /\ sealed[u] # NoKey
    BY DEF SubmitRemoval, SealedAfter, OpensForHolder
<1>4. row'[i].scope = "shared"
    BY DEF InCollection
<1>5. /\ row'[i].rev = row[i].rev
      /\ i \in Rewrapped(j) => row'[i].under = j.fresh /\ row'[i].key = j.wraps[i]
      /\ i \notin Rewrapped(j) => row'[i].under = row[i].under /\ row'[i].key = row[i].key
    BY <1>2, <1>4, RowsAfterRemoval DEF InCollection
<1>6. \/ row'[i].under # sealed'[u]
      \/ row'[i].key # row'[i].rev
    BY DEF OpensForHolder, Opens
<1>7. CASE sealed[j.target] = NoKey
    <2>1. j.stage = "begun"
        BY <1>1, <1>7 DEF SubmitRemoval, BatchMatches, JobShape, WellFormed, Job
    <2>2. j.to = {} /\ i \notin Rewrapped(j)
        BY <1>1, <2>1 DEF JobShape, WellFormed, Rewrapped
    <2>3. sealed'[u] = sealed[u]
        BY <1>3, <2>2 DEF SealedAfter
    <2> QED BY <1>2, <1>5, <1>6, <2>2, <2>3
<1>8. CASE sealed[j.target] # NoKey
    <2>1. SameItems(j) /\ SameRecipients(j)
        BY <1>8 DEF SubmitRemoval, BatchMatches
    <2>2. i \in Rewrapped(j)
        BY <1>2, <2>1 DEF SameItems, InCollection
    <2>3. sealed'[u] = j.fresh
        BY <1>3, <2>1 DEF SameRecipients, Holders, SealedAfter
    <2>4. j.wraps[i] # row[i].key
        BY <1>2, <1>5, <1>6, <2>2, <2>3
    <2> QED BY <1>1, <2>2, <2>4 DEF StaleRewrap, Rewrapped
<1> QED BY <1>7, <1>8

\* A write closes an item only by encrypting it under another key than the
\* holder's.
LEMMA WriteStrandsByKey ==
    ASSUME TypeOK, NEW r \in sent, r.op = "write", ServeWrite(r),
           NEW u \in Users, NEW i \in Items, OpensForHolder(u, i),
           i \in InCollection', ~OpensForHolder(u, i)'
    PROVE  StaleWrite(i, u)
<1>1. r \in WriteReq
    BY DEF TypeOK, ShareReq, GrantReq
<1>2. sealed' = sealed /\ row' = [row EXCEPT ![r.item] = Written(r)]
    BY DEF ServeWrite
<1>3. r.item = i
    BY <1>2, UntouchedStaysOpen DEF TypeOK
<1>4. row'[i] = Written(r)
    BY <1>2, <1>3 DEF TypeOK
<1>5. row'[i].rev = r.base + 1 /\ row'[i].key = row'[i].rev
    BY <1>1, <1>4, WrittenIsRow DEF Written
<1>6. row[i].rev = r.base /\ r.base \in Nat
    BY <1>1, <1>3, ConstantsAssumption DEF ServeWrite, RevisionMatches, WriteReq
<1>7. row'[i].under # sealed[u]
    BY <1>2, <1>5 DEF OpensForHolder, Opens
<1> QED BY <1>5, <1>6, <1>7 DEF StaleWrite

\* A holder that keeps its key row loses an item that stays in the collection
\* only to a save under another key or to a re-key that carries an older
\* wrapping: no other step of anybody, in any order, closes it.
THEOREM OnlyTwoRacesStrand == Spec => OnlyRacesStrand
<1> DEFINE Stranded ==
        \A u \in Users, i \in Items :
           /\ OpensForHolder(u, i) /\ ~OpensForHolder(u, i)'
           /\ sealed'[u] # NoKey /\ i \in InCollection'
           => StaleWrite(i, u) \/ StaleRewrap(i)
<1>1. TypeOK /\ JobShape /\ [Next]_vars => Stranded
    <2> SUFFICES ASSUME TypeOK, JobShape, [Next]_vars, NEW u \in Users, NEW i \in Items,
                        OpensForHolder(u, i), ~OpensForHolder(u, i)',
                        sealed'[u] # NoKey, i \in InCollection'
                 PROVE  StaleWrite(i, u) \/ StaleRewrap(i)
        OBVIOUS
    <2>1. sealed[u] # NoKey
        BY DEF OpensForHolder
    <2>2. ~(sealed'[u] = sealed[u] /\ row'[i] = row[i])
        BY UntouchedStaysOpen
    <2>3. \A r \in sent : r.op \in {"write", "share", "grant"}
        BY DEF TypeOK, WriteReq, ShareReq, GrantReq
    <2>4. ASSUME NEW v \in Users, AcceptInvite(v) \/ RevokeAccess(v) PROVE FALSE
        BY <2>1, <2>2, <2>4 DEF AcceptInvite, RevokeAccess, TypeOK
    <2>5. ASSUME NEW k \in Items, DeleteItem(k) PROVE FALSE
        <3> DEFINE dead == [row[k] EXCEPT !.scope = "gone"]
        <3>1. dead.scope = "gone"
            BY AnyRowCovers DEF TypeOK, AnyRow
        <3>2. row' = [row EXCEPT ![k] = dead] /\ sealed' = sealed
            BY <2>5 DEF DeleteItem
        <3> HIDE DEF dead
        <3>3. k = i
            BY <2>2, <3>2 DEF TypeOK
        <3> QED BY <3>1, <3>2, <3>3 DEF InCollection, TypeOK
    <2>6. ASSUME NEW r \in sent, Serve(r) PROVE r.op = "write" /\ ServeWrite(r)
        <3>1. CASE r.op = "grant" /\ ServeGrant(r)
            BY <2>1, <2>2, <3>1 DEF ServeGrant, TypeOK
        <3> QED BY <2>2, <2>3, <2>6, <3>1 DEF Serve, ServeShare
    <2>7. \/ \E b \in Users : SubmitRemoval(b)
          \/ \E r \in sent : r.op = "write" /\ ServeWrite(r)
        BY <2>2, <2>4, <2>5, <2>6
           DEF Next, vars, RefreshCollections, Lock, MergeRow, SendWrite, SendShare,
               RevokeShare, SendGrant, CreateInvite, RevokeInvite, BeginRemoval,
               ListRecipients, RewrapItems, AbandonRemoval, Lose
    <2> QED BY <2>7, RemovalStrandsByRewrap, WriteStrandsByKey
<1>2. TypeOK /\ JobShape /\ [Next]_vars => [Stranded]_vars
    BY <1>1
<1> QED BY <1>2, TypesHold, PTL DEF Spec, OnlyRacesStrand
=============================================================================
