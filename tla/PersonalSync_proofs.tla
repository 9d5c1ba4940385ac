-------------------------- MODULE PersonalSync_proofs --------------------------
(***************************************************************************)
(* Proofs about PersonalSync, for any items, pulls in flight, saves and    *)
(* writes.                                                                 *)
(***************************************************************************)
EXTENDS PersonalSync, FiniteSetTheorems, TLAPS

-----------------------------------------------------------------------------
(* An item's revision, counted in the log.                                 *)

\* What a log l makes of item i's revision at vault revision r.
Entries(l, i, r) == {k \in 1..r : l[k] = i}

\* A log has finitely many entries of an item, none before the first write
\* and at most one per revision.
LEMMA EntriesCounted ==
    ASSUME NEW l, NEW i, NEW r \in Nat
    PROVE  /\ IsFiniteSet(Entries(l, i, r))
           /\ Cardinality(Entries(l, i, r)) \in 0..r
           /\ Cardinality(Entries(l, i, 0)) = 0
<1>1. IsFiniteSet(1..r) /\ Cardinality(1..r) = r
    BY FS_Interval
<1>2. Entries(l, i, r) \in SUBSET (1..r)
    BY DEF Entries
<1>3. IsFiniteSet(Entries(l, i, r)) /\ Cardinality(Entries(l, i, r)) <= r
    BY <1>1, <1>2, FS_Subset
<1>4. Cardinality(Entries(l, i, r)) \in Nat
    BY <1>3, FS_CardinalityType
<1>5. Entries(l, i, 0) = {}
    BY DEF Entries
<1> QED BY <1>3, <1>4, <1>5, FS_EmptySet

\* A later revision of the vault counts no fewer of them.
LEMMA EntriesGrow ==
    ASSUME NEW l, NEW i, NEW r \in Nat, NEW q \in Nat, r <= q
    PROVE  Cardinality(Entries(l, i, r)) <= Cardinality(Entries(l, i, q))
<1>1. Entries(l, i, r) \in SUBSET Entries(l, i, q)
    BY DEF Entries
<1> QED BY <1>1, EntriesCounted, FS_Subset

\* A write leaves the entries up to the revision before it as they were.
LEMMA EntriesStay ==
    ASSUME NEW l \in Seq(Items), NEW x \in Items, NEW i, NEW r \in 0..Len(l)
    PROVE  Entries(Append(l, x), i, r) = Entries(l, i, r)
<1>1. \A k \in 1..r : Append(l, x)[k] = l[k]
    OBVIOUS
<1> QED BY <1>1 DEF Entries

\* An item's revision is bounded by the vault's, which it never falls behind.
LEMMA RevisionCounted ==
    ASSUME TypeOK, NEW i \in Items
    PROVE  /\ Current(i) \in 0..Len(log) /\ Len(log) \in Revisions /\ label \in Nat
           /\ \A r \in 0..Len(log) : RevisionAt(i, r) \in 0..r /\ RevisionAt(i, r) <= Current(i)
           /\ \A r, q \in Nat : r <= q => RevisionAt(i, r) <= RevisionAt(i, q)
           /\ \A r \in Nat : RevisionAt(i, r) \in Nat
           /\ RevisionAt(i, 0) = 0
<1>1. Len(log) \in Nat /\ Len(log) <= MaxWrites /\ MaxWrites \in Nat /\ label \in Nat
    BY ConstantsAssumption DEF TypeOK
<1>2. \A r \in Nat : RevisionAt(i, r) = Cardinality(Entries(log, i, r))
    BY DEF RevisionAt, Entries
<1>3. \A r \in Nat : RevisionAt(i, r) \in 0..r
    BY <1>2, EntriesCounted
<1>4. \A r, q \in Nat : r <= q => RevisionAt(i, r) <= RevisionAt(i, q)
    BY <1>2, EntriesGrow
<1>5. Current(i) = RevisionAt(i, Len(log))
    BY DEF Current, VaultRevision
<1>6. RevisionAt(i, 0) = 0
    BY <1>3
<1> QED BY <1>1, <1>3, <1>4, <1>5, <1>6 DEF Revisions

\* A write leaves the revisions up to the one before it as they were.
LEMMA RevisionStays ==
    ASSUME TypeOK, NEW x \in Items, log' = Append(log, x), NEW i \in Items
    PROVE  /\ \A r \in 0..Len(log) : RevisionAt(i, r)' = RevisionAt(i, r)
           /\ Len(log') = Len(log) + 1
           /\ Current(i) <= Current(i)' /\ Current(i)' \in Nat
<1>1. log \in Seq(Items) /\ Len(log) \in Nat
    BY DEF TypeOK
<1>2. Len(log') = Len(log) + 1
    BY <1>1
<1>3. \A r \in 0..Len(log) : Entries(log', i, r) = Entries(log, i, r)
    BY <1>1, EntriesStay
<1>4. ASSUME NEW r \in 0..Len(log)
      PROVE  RevisionAt(i, r)' = RevisionAt(i, r)
    <2>1. Entries(log', i, r) = Entries(log, i, r)
        BY <1>3
    <2> QED BY <2>1 DEF RevisionAt, Entries
<1>5. Current(i) = Cardinality(Entries(log', i, Len(log)))
    <2>1. Current(i) = Cardinality(Entries(log, i, Len(log)))
        BY DEF Current, VaultRevision, RevisionAt, Entries
    <2> QED BY <1>1, <1>3, <2>1
<1>6. Current(i)' = Cardinality(Entries(log', i, Len(log) + 1))
    BY <1>2 DEF Current, VaultRevision, RevisionAt, Entries
<1>7. Current(i) <= Current(i)' /\ Current(i)' \in Nat
    BY <1>1, <1>5, <1>6, EntriesGrow, EntriesCounted
<1> QED BY <1>2, <1>4, <1>7

-----------------------------------------------------------------------------
(* Shapes of pulls and saves.                                              *)

\* What a pull holds at each stage, and that a request sent is a pull.
LEMMA PullShape ==
    /\ \A p \in Pull : /\ p # Idle /\ p.stage \in {"sent", "counted", "current", "stale"}
                       /\ p.stage = "sent" => p.since \in Revisions
                       /\ p.stage # "sent" => p.rev \in Revisions
                       /\ p.stage = "stale" => p.snapshot \in Snapshot
    /\ \A x \in Revisions : LET p == [stage |-> "sent", since |-> x] IN p \in Pull /\ p.stage = "sent"
    /\ \A x \in Revisions, l \in {"counted", "current"} :
          LET p == [stage |-> l, rev |-> x] IN p \in Pull /\ p.stage = l /\ p.rev = x
    /\ \A x \in Revisions, f \in Snapshot :
          LET p == [stage |-> "stale", rev |-> x, snapshot |-> f] IN
              p \in Pull /\ p.stage = "stale" /\ p.rev = x /\ p.snapshot = f
<1>1. ASSUME NEW p \in Pull
      PROVE  /\ p.stage \in {"sent", "counted", "current", "stale"}
             /\ p.stage = "sent" => p.since \in Revisions
             /\ p.stage # "sent" => p.rev \in Revisions
             /\ p.stage = "stale" => p.snapshot \in Snapshot
    BY DEF Pull
<1>2. \A x \in Revisions : LET p == [stage |-> "sent", since |-> x] IN p \in Pull /\ p.stage = "sent"
    BY DEF Pull
<1>3. \A x \in Revisions, l \in {"counted", "current"} :
          LET p == [stage |-> l, rev |-> x] IN p \in Pull /\ p.stage = l /\ p.rev = x
    BY DEF Pull
<1>4. \A x \in Revisions, f \in Snapshot :
          LET p == [stage |-> "stale", rev |-> x, snapshot |-> f] IN
              p \in Pull /\ p.stage = "stale" /\ p.rev = x /\ p.snapshot = f
    BY DEF Pull
<1> QED BY <1>1, <1>2, <1>3, <1>4, AbsenceAssumption

\* What a save holds, and that sending and answering one keeps its shape.
LEMMA SaveShape ==
    /\ \A r \in Save : r.item \in Items /\ r.to \in Revisions
    /\ \A r \in Save, l \in {"served", "conflict"} : [r EXCEPT !.stage = l] \in Save
    /\ \A o \in {"create", "update", "delete"}, i \in Items, x \in Revisions :
          [op |-> o, item |-> i, to |-> x, stage |-> "sent"] \in Save
BY DEF Save

-----------------------------------------------------------------------------
(* The invariant: what the pulls in flight have read.                      *)

\* The revision was the vault's, and the rows, read later, are no older.
Timely(p) ==
    /\ p.stage # "sent" => p.rev <= Len(log)
    /\ p.stage = "stale" => \A i \in Items : \/ p.snapshot.rows[i] >= RevisionAt(i, p.rev)
                                             \/ p.snapshot.rows[i] = 0 /\ i \in gone

PullsInv == \A s \in Pulls : pulls[s] # Idle => Timely(pulls[s])

SyncGood == TypeOK /\ PullsInv

ServerTypes ==
    /\ log \in Seq(Items) /\ Len(log) <= MaxWrites
    /\ gone \subseteq Items /\ sealed \subseteq Grouped
StoreTypes ==
    /\ copy \in [Items -> Revisions] /\ flagged \subseteq Items
    /\ label \in 0..Len(log) /\ failures \in Nat
PullTypes == pulls \in [Pulls -> Pull \cup {Idle}]
SessionTypes == locked \in BOOLEAN /\ keyed \in BOOLEAN
SaveTypes == saves \subseteq Save

\* TypeOK is the parts a step changes together.
LEMMA TypesInParts ==
    TypeOK <=> ServerTypes /\ StoreTypes /\ PullTypes /\ SessionTypes /\ SaveTypes
BY DEF TypeOK, ServerTypes, StoreTypes, PullTypes, SessionTypes, SaveTypes

\* The parts after a step make the invariant after it.
LEMMA GoodNext ==
    ASSUME ServerTypes', StoreTypes', PullTypes', SessionTypes', SaveTypes', PullsInv'
    PROVE  SyncGood'
BY TypesInParts, PTL DEF SyncGood

-----------------------------------------------------------------------------
(* Steps that write an item, and steps of one pull.                        *)

\* A write on the server keeps the invariant, and an honest watermark
\* honest: the rows it stands for were written before.
LEMMA WriteStep ==
    ASSUME SyncGood, NEW x \in Items, NEW opens \in BOOLEAN, Write(x, opens), gone' \in {gone, gone \cup {x}},
           UNCHANGED <<pulls, store>>
    PROVE  /\ ServerTypes' /\ StoreTypes' /\ PullTypes' /\ PullsInv'
           /\ Honest => Honest'
<1>1. TypeOK /\ PullsInv /\ ServerTypes /\ StoreTypes /\ PullTypes
    BY TypesInParts DEF SyncGood
<1>2. log' = Append(log, x) /\ Len(log) < MaxWrites /\ gone \subseteq gone'
    BY DEF Write
<1>3. Len(log) \in Nat /\ MaxWrites \in Nat /\ Len(log') = Len(log) + 1 /\ log' \in Seq(Items)
    BY <1>1, <1>2, ConstantsAssumption DEF ServerTypes
<1>4. ServerTypes'
    BY <1>1, <1>2, <1>3, ConstantsAssumption DEF ServerTypes, Write
<1>5. StoreTypes' /\ PullTypes'
    BY <1>1, <1>3 DEF StoreTypes, PullTypes, store
<1>6. PullsInv'
    <2> SUFFICES ASSUME NEW s \in Pulls, pulls[s] # Idle
                 PROVE  /\ pulls[s].stage # "sent" => pulls[s].rev <= Len(log')
                        /\ pulls[s].stage = "stale" =>
                              \A i \in Items : \/ pulls[s].snapshot.rows[i] >= RevisionAt(i, pulls[s].rev)'
                                               \/ pulls[s].snapshot.rows[i] = 0 /\ i \in gone'
        BY DEF PullsInv, Timely
    <2>1. PICK p : p = pulls[s]
        OBVIOUS
    <2>2. p \in Pull /\ Timely(p)
        BY <1>1, <2>1 DEF PullTypes, PullsInv
    <2>3. p.stage # "sent" => p.rev \in 0..Len(log)
        <3>1. p.stage # "sent" => p.rev \in Nat
            BY <2>2, PullShape DEF Revisions
        <3> QED BY <1>3, <2>2, <3>1 DEF Timely
    <2>4. ASSUME p.stage = "stale", NEW i \in Items
          PROVE  p.snapshot.rows[i] >= RevisionAt(i, p.rev)' \/ (p.snapshot.rows[i] = 0 /\ i \in gone')
        <3>1. PICK r : r = p.rev
            OBVIOUS
        <3>2. RevisionAt(i, r)' = RevisionAt(i, r)
            BY <1>1, <1>2, <2>3, <2>4, <3>1, RevisionStays
        <3>3. p.snapshot.rows[i] >= RevisionAt(i, r) \/ (p.snapshot.rows[i] = 0 /\ i \in gone)
            BY <2>2, <2>4, <3>1 DEF Timely
        <3> QED BY <1>2, <3>1, <3>2, <3>3
    <2> QED BY <1>3, <2>1, <2>3, <2>4
<1>7. Honest => Honest'
    <2> SUFFICES ASSUME Honest, NEW i \in Items
                 PROVE  Known(i)' >= RevisionAt(i, label)'
        BY DEF Honest
    <2>1. label \in 0..Len(log) /\ copy' = copy /\ label' = label /\ copy[i] \in Nat
        BY <1>1 DEF StoreTypes, store, Revisions
    <2>2. RevisionAt(i, label)' = RevisionAt(i, label) /\ Current(i) <= Current(i)' /\ Current(i)' \in Nat
        <3>1. PICK r : r = label
            OBVIOUS
        <3>2. RevisionAt(i, r)' = RevisionAt(i, r)
            BY <1>1, <1>2, <2>1, <3>1, RevisionStays
        <3>3. RevisionAt(i, label)' = RevisionAt(i, r)'
            BY <2>1, <3>1
        <3> QED BY <1>1, <1>2, <3>1, <3>2, <3>3, RevisionStays
    <2>3. RevisionAt(i, label) \in Nat /\ RevisionAt(i, label) <= Current(i) /\ Current(i) \in Nat
        BY <1>1, <2>1, RevisionCounted
    <2>4. Known(i) >= RevisionAt(i, label)
        BY DEF Honest
    <2>5. CASE copy[i] = 0 /\ i \in gone'
        BY <2>1, <2>2, <2>3, <2>5 DEF Known
    <2>6. CASE ~(copy[i] = 0 /\ i \in gone')
        BY <1>2, <2>1, <2>2, <2>4, <2>6 DEF Known
    <2> QED BY <2>5, <2>6
<1> QED BY <1>4, <1>5, <1>6, <1>7

\* Starting, advancing or ending one pull keeps the others and the server.
LEMMA PullStep ==
    ASSUME SyncGood, NEW s \in Pulls, NEW p \in Pull \cup {Idle}, pulls' = [pulls EXCEPT ![s] = p],
           UNCHANGED server, p # Idle => Timely(p)
    PROVE  ServerTypes' /\ PullTypes' /\ PullsInv'
<1>1. PullsInv /\ ServerTypes /\ PullTypes
    BY TypesInParts DEF SyncGood
<1>2. ServerTypes' /\ log' = log /\ gone' = gone
    BY <1>1 DEF ServerTypes, server
<1>3. PullTypes' /\ pulls'[s] = p /\ \A q \in Pulls \ {s} : pulls'[q] = pulls[q]
    BY <1>1 DEF PullTypes
<1>4. \A i \in Items, r \in Nat : RevisionAt(i, r)' = RevisionAt(i, r)
    BY <1>2 DEF RevisionAt
<1>5. ASSUME NEW q \in Pulls, pulls'[q] # Idle
      PROVE  Timely(pulls[q])'
    <2>1. PICK t : t = pulls'[q]
        OBVIOUS
    <2>2. Timely(t)
        BY <1>1, <1>3, <1>5, <2>1 DEF PullsInv
    <2>3. Timely(t)'
        BY <1>2, <2>2 DEF Timely, RevisionAt
    <2> QED BY <2>1, <2>3 DEF Timely, RevisionAt
<1> QED BY <1>2, <1>3, <1>5 DEF PullsInv

\* A watermark is honest as long as neither the log nor the store nor the
\* watermark changes.
LEMMA UnwrittenHonest ==
    ASSUME Honest, UNCHANGED <<server, copy, label>>
    PROVE  Honest'
BY DEF Honest, Known, Current, VaultRevision, RevisionAt, server

-----------------------------------------------------------------------------
(* The actions.                                                            *)

\* The writes of other devices and the server's half of a save keep the
\* invariant and honesty.
LEMMA WritesGood ==
    ASSUME SyncGood,
           \/ \E i \in Items : OtherDeviceDeletes(i) \/ \E opens \in BOOLEAN : OtherDeviceWrites(i, opens)
           \/ \E r \in saves : ServeSave(r)
    PROVE  SyncGood' /\ (Honest => Honest')
<1>1. /\ ServerTypes /\ StoreTypes /\ PullTypes /\ SessionTypes /\ SaveTypes
      /\ TRUE \in BOOLEAN
    BY TypesInParts DEF SyncGood
<1>2. PICK x \in Items, opens \in BOOLEAN :
          /\ Write(x, opens) /\ gone' \in {gone, gone \cup {x}} /\ UNCHANGED <<pulls, store, locked, keyed>>
          /\ saves' = saves \/ \E r \in saves : saves' = (saves \ {r}) \cup {[r EXCEPT !.stage = "served"]}
    <2>1. CASE \E i \in Items : OtherDeviceDeletes(i)
        BY <1>1, <2>1 DEF OtherDeviceDeletes
    <2>2. CASE \E i \in Items, opens \in BOOLEAN : OtherDeviceWrites(i, opens)
        BY <2>2 DEF OtherDeviceWrites
    <2>3. CASE \E r \in saves : ServeSave(r)
        <3>1. PICK r \in saves : ServeSave(r)
            BY <2>3
        <3>2. r.item \in Items
            BY <1>1, SaveShape DEF SaveTypes
        <3> QED BY <1>1, <3>1, <3>2 DEF ServeSave
    <2> QED BY <2>1, <2>2, <2>3
<1>3. SessionTypes' /\ SaveTypes'
    BY <1>1, <1>2, SaveShape DEF SessionTypes, SaveTypes
<1>4. ServerTypes' /\ StoreTypes' /\ PullTypes' /\ PullsInv' /\ (Honest => Honest')
    BY <1>2, WriteStep
<1> QED BY <1>3, <1>4, GoodNext

\* So do all steps of a pull but its delivery: they touch neither store nor
\* watermark.
LEMMA RequestsGood ==
    ASSUME SyncGood,
           \/ \E s \in Pulls : CountRevision(s) \/ ReadRows(s) \/ Poll(s) \/ LosePull(s) \/ Unlock(s)
           \/ \E r \in saves, s \in Pulls : ReloadAfterConflict(r, s)
    PROVE  SyncGood' /\ (Honest => Honest')
<1>1. /\ ServerTypes /\ StoreTypes /\ PullTypes /\ SessionTypes /\ SaveTypes /\ PullsInv /\ TypeOK
      /\ Len(log) \in Nat /\ Len(log) \in Revisions /\ 0 \in Revisions
    BY TypesInParts, ConstantsAssumption DEF SyncGood, ServerTypes, Revisions
<1>2. UNCHANGED <<server, store>>
    BY DEF CountRevision, ReadRows, Poll, LosePull, Unlock, ReloadAfterConflict
<1>3. StoreTypes' /\ SessionTypes' /\ SaveTypes' /\ (Honest => Honest')
    <2>1. StoreTypes'
        BY <1>1, <1>2 DEF StoreTypes, store, server
    <2>2. Honest => Honest'
        BY <1>2, UnwrittenHonest DEF store
    <2>3. SessionTypes' /\ SaveTypes'
        BY <1>1 DEF SessionTypes, SaveTypes, CountRevision, ReadRows, Poll, LosePull, Unlock, ReloadAfterConflict
    <2> QED BY <2>1, <2>2, <2>3
<1>4. PICK s \in Pulls, p \in Pull \cup {Idle} :
          pulls' = [pulls EXCEPT ![s] = p] /\ (p # Idle => Timely(p))
    <2>1. CASE \E s \in Pulls : CountRevision(s)
        <3>1. PICK s \in Pulls : CountRevision(s)
            BY <2>1
        <3>2. PICK l \in {"current", "counted"} :
                  pulls' = [pulls EXCEPT ![s] = [stage |-> l, rev |-> Len(log)]]
            BY <3>1 DEF CountRevision, VaultRevision
        <3> DEFINE p == [stage |-> l, rev |-> Len(log)]
        <3>3. p \in Pull /\ p.stage = l /\ p.rev = Len(log)
            BY <1>1, PullShape
        <3>4. pulls' = [pulls EXCEPT ![s] = p]
            BY <3>2
        <3> HIDE DEF p
        <3>5. Timely(p)
            BY <1>1, <3>3 DEF Timely
        <3> QED BY <3>3, <3>4, <3>5
    <2>2. CASE \E s \in Pulls : ReadRows(s)
        <3>1. PICK s \in Pulls : ReadRows(s)
            BY <2>2
        <3>2. PICK o : o = pulls[s]
            OBVIOUS
        <3>3. o # Idle /\ o.stage = "counted"
            BY <3>1, <3>2 DEF ReadRows
        <3>4. o.rev \in Revisions /\ o.rev <= Len(log)
            BY <1>1, <3>2, <3>3, PullShape DEF PullTypes, PullsInv, Timely
        <3>5. PICK f : f = Rows
            OBVIOUS
        <3> DEFINE p == [stage |-> "stale", rev |-> o.rev, snapshot |-> f]
        <3>6. \A i \in Items : Current(i) \in Revisions /\ 0 \in Revisions
            <4>1. ASSUME NEW i \in Items
                  PROVE  Current(i) \in 0..Len(log)
                BY <1>1, RevisionCounted
            <4>2. Len(log) <= MaxWrites /\ MaxWrites \in Nat
                BY <1>1, ConstantsAssumption DEF ServerTypes
            <4> QED BY <1>1, <4>1, <4>2 DEF Revisions
        <3>7. f \in Snapshot /\ \A i \in Items : f.rows[i] = IF i \in gone THEN 0 ELSE Current(i)
            <4>1. sealed \in SUBSET Items
                BY <1>1, ConstantsAssumption DEF ServerTypes
            <4>2. [i \in Items |-> IF i \in gone THEN 0 ELSE Current(i)] \in [Items -> Revisions]
                BY <3>6
            <4> QED BY <3>5, <4>1, <4>2 DEF Rows, Snapshot
        <3>8. p \in Pull /\ p.stage = "stale" /\ p.rev = o.rev /\ p.snapshot = f
            BY <3>4, <3>7, PullShape
        <3>9. pulls' = [pulls EXCEPT ![s] = p]
            BY <3>1, <3>2, <3>5 DEF ReadRows
        <3> HIDE DEF p
        <3>10. ASSUME NEW i \in Items
               PROVE  f.rows[i] >= RevisionAt(i, o.rev) \/ (f.rows[i] = 0 /\ i \in gone)
            <4>1. o.rev \in 0..Len(log)
                BY <1>1, <3>4 DEF Revisions
            <4>2. RevisionAt(i, o.rev) <= Current(i) /\ RevisionAt(i, o.rev) \in Nat /\ Current(i) \in Nat
                BY <1>1, <4>1, RevisionCounted
            <4> QED BY <3>7, <4>2
        <3>11. Timely(p)
            BY <3>4, <3>8, <3>10 DEF Timely
        <3> QED BY <3>8, <3>9, <3>11
    <2>3. CASE \E s \in Pulls : LosePull(s)
        <3>1. PICK s \in Pulls : pulls' = [pulls EXCEPT ![s] = Idle]
            BY <2>3 DEF LosePull
        <3> QED BY <3>1
    <2>4. ASSUME NEW s \in Pulls, NEW x \in Revisions, Start(s, x)
          PROVE  \E p \in Pull \cup {Idle} : pulls' = [pulls EXCEPT ![s] = p] /\ (p # Idle => Timely(p))
        <3> DEFINE p == [stage |-> "sent", since |-> x]
        <3>1. p \in Pull /\ p.stage = "sent"
            BY PullShape
        <3>2. pulls' = [pulls EXCEPT ![s] = p]
            BY <2>4 DEF Start
        <3> HIDE DEF p
        <3>3. Timely(p)
            BY <3>1 DEF Timely
        <3> QED BY <3>1, <3>2, <3>3
    <2>5. label \in Revisions
        BY <1>1, ConstantsAssumption DEF StoreTypes, ServerTypes, Revisions
    <2>6. CASE \/ \E s \in Pulls : Poll(s) \/ Unlock(s)
               \/ \E r \in saves, s \in Pulls : ReloadAfterConflict(r, s)
        <3>1. PICK s \in Pulls : Start(s, 0) \/ Start(s, label)
            BY <2>6 DEF Poll, Unlock, ReloadAfterConflict
        <3> QED BY <1>1, <2>4, <2>5, <3>1
    <2> QED BY <2>1, <2>2, <2>3, <2>6
<1>5. ServerTypes' /\ PullTypes' /\ PullsInv'
    BY <1>2, <1>4, PullStep
<1> QED BY <1>3, <1>5, GoodNext

\* Steps that leave the server and the pulls alone keep what is said of
\* them.
LEMMA UnpulledStep ==
    ASSUME SyncGood, UNCHANGED <<server, pulls>>
    PROVE  ServerTypes' /\ PullTypes' /\ PullsInv'
<1>1. ServerTypes /\ PullTypes /\ PullsInv
    BY TypesInParts DEF SyncGood
<1>2. ServerTypes' /\ PullTypes'
    BY <1>1 DEF ServerTypes, PullTypes, server
<1>3. PullsInv'
    BY <1>1 DEF PullsInv, Timely, RevisionAt, server
<1> QED BY <1>2, <1>3

\* So do sending, refusing and losing a save, and caching keys.
LEMMA SavesGood ==
    ASSUME SyncGood,
           \/ \E i \in Items : Create(i) \/ Update(i) \/ Delete(i)
           \/ \E r \in saves : RefuseSave(r) \/ LoseSave(r)
           \/ CacheKeys \/ UNCHANGED vars
    PROVE  SyncGood' /\ (Honest => Honest')
<1>1. ServerTypes /\ StoreTypes /\ PullTypes /\ SessionTypes /\ SaveTypes
    BY TypesInParts DEF SyncGood
<1>2. UNCHANGED <<server, store, pulls, locked>> /\ keyed' \in {keyed, TRUE}
    BY DEF Create, Update, Delete, Send, RefuseSave, LoseSave, CacheKeys, vars, server, store
<1>3. ServerTypes' /\ PullTypes' /\ PullsInv'
    BY <1>2, UnpulledStep
<1>4. StoreTypes' /\ SessionTypes' /\ (Honest => Honest')
    BY <1>1, <1>2, UnwrittenHonest DEF StoreTypes, SessionTypes, store, server
<1>5. SaveTypes'
    <2>1. ASSUME NEW i \in Items, Create(i) \/ Update(i) \/ Delete(i)
          PROVE  SaveTypes'
        <3>1. copy[i] \in Revisions /\ 0 \in Revisions /\ 1 \in Revisions
            BY <1>1, ConstantsAssumption DEF StoreTypes, Revisions
        <3>2. PICK o \in {"create", "update", "delete"}, x \in Revisions : Send(o, i, x)
            <4>1. CASE Create(i)
                <5>1. Send("create", i, 1)
                    BY <4>1 DEF Create
                <5> QED BY <3>1, <5>1
            <4>2. CASE Update(i)
                BY <3>1, <4>2, ConstantsAssumption DEF Update, Revisions
            <4>3. CASE Delete(i)
                BY <3>1, <4>3 DEF Delete
            <4> QED BY <2>1, <4>1, <4>2, <4>3
        <3>3. [op |-> o, item |-> i, to |-> x, stage |-> "sent"] \in Save
            BY <3>2, SaveShape
        <3> QED BY <1>1, <3>2, <3>3 DEF Send, SaveTypes
    <2>2. CASE \E r \in saves : RefuseSave(r) \/ LoseSave(r)
        BY <1>1, <2>2, SaveShape DEF SaveTypes, RefuseSave, LoseSave
    <2>3. CASE CacheKeys \/ UNCHANGED vars
        BY <1>1, <2>3 DEF SaveTypes, CacheKeys, vars
    <2> QED BY <2>1, <2>2, <2>3
<1> QED BY <1>3, <1>4, <1>5, GoodNext

\* An acknowledged save misleads only if a newer copy has come.
LEMMA AcknowledgeGood ==
    ASSUME SyncGood, NEW r \in saves, Acknowledge(r)
    PROVE  SyncGood' /\ (Honest /\ r.to >= Known(r.item) => Honest')
<1>1. /\ ServerTypes /\ StoreTypes /\ PullTypes /\ SessionTypes /\ SaveTypes /\ TypeOK
    BY TypesInParts DEF SyncGood
<1>2. PICK i \in Items, x \in Revisions : i = r.item /\ x = r.to
    BY <1>1, SaveShape DEF SaveTypes
<1>3. /\ copy' = [copy EXCEPT ![i] = x] /\ flagged' = flagged \ {i} /\ saves' = saves \ {r}
      /\ UNCHANGED <<server, locked, keyed, label, failures, pulls>>
    BY <1>2 DEF Acknowledge
<1>4. ServerTypes' /\ PullTypes' /\ PullsInv'
    BY <1>3, UnpulledStep
<1>5. StoreTypes' /\ SessionTypes' /\ SaveTypes'
    BY <1>1, <1>3 DEF StoreTypes, SessionTypes, SaveTypes, server
<1>6. ASSUME Honest, x >= Known(i), NEW j \in Items
      PROVE  Known(j)' >= RevisionAt(j, label)'
    <2>1. /\ RevisionAt(j, label)' = RevisionAt(j, label) /\ Current(j)' = Current(j) /\ gone' = gone
        BY <1>3 DEF RevisionAt, Current, VaultRevision, server
    <2>2. copy'[i] = x /\ (j # i => copy'[j] = copy[j])
        BY <1>1, <1>3 DEF StoreTypes
    <2>3. Known(j) >= RevisionAt(j, label)
        BY <1>6 DEF Honest
    <2>4. label \in 0..Len(log) /\ copy[j] \in Nat /\ copy[i] \in Nat /\ x \in Nat
        BY <1>1 DEF StoreTypes, Revisions
    <2>5. /\ RevisionAt(j, label) \in Nat /\ RevisionAt(j, label) <= Current(j)
          /\ Current(j) \in Nat /\ Current(i) \in Nat
        BY <1>1, <2>4, RevisionCounted
    <2>6. CASE j # i
        BY <2>1, <2>2, <2>3, <2>6 DEF Known
    <2>7. CASE j = i
        <3>1. CASE x = 0 /\ j \in gone
            BY <2>1, <2>2, <2>5, <2>7, <3>1 DEF Known
        <3>2. CASE ~(x = 0 /\ j \in gone)
            <4>1. Known(j)' = x
                BY <2>1, <2>2, <2>7, <3>2 DEF Known
            <4>2. Known(j) \in Nat
                BY <2>4, <2>5, <2>7 DEF Known
            <4> QED BY <1>6, <2>1, <2>3, <2>4, <2>5, <2>7, <4>1, <4>2
        <3> QED BY <3>1, <3>2
    <2> QED BY <2>6, <2>7
<1>7. Honest /\ r.to >= Known(r.item) => Honest'
    BY <1>2, <1>6 DEF Honest
<1> QED BY <1>4, <1>5, <1>7, GoodNext

\* Locking empties the store and forgets the watermark, so the watermark is
\* honest after it.
LEMMA LockGood ==
    ASSUME SyncGood, Lock
    PROVE  SyncGood' /\ Honest'
<1>1. /\ ServerTypes /\ StoreTypes /\ PullTypes /\ SessionTypes /\ SaveTypes /\ TypeOK
    BY TypesInParts DEF SyncGood
<1>2. ServerTypes' /\ PullTypes' /\ PullsInv'
    BY UnpulledStep DEF Lock
<1>3. 0 \in Revisions /\ Len(log) \in Nat
    BY <1>1, ConstantsAssumption DEF Revisions, ServerTypes
<1>4. StoreTypes' /\ SessionTypes' /\ SaveTypes'
    <2>1. copy' = [i \in Items |-> 0] /\ flagged' = {} /\ label' = 0 /\ failures' = 0 /\ log' = log
        BY DEF Lock, server
    <2>2. copy' \in [Items -> Revisions]
        BY <1>3, <2>1
    <2>3. label' \in 0..Len(log') /\ failures' \in Nat /\ flagged' \subseteq Items
        BY <1>3, <2>1
    <2>4. SessionTypes' /\ SaveTypes'
        BY <1>1 DEF SessionTypes, SaveTypes, Lock
    <2> QED BY <2>2, <2>3, <2>4 DEF StoreTypes
<1>5. ASSUME NEW i \in Items
      PROVE  Known(i)' >= RevisionAt(i, label)'
    <2>1. copy'[i] = 0 /\ label' = 0 /\ log' = log
        BY DEF Lock, server
    <2>2. RevisionAt(i, label)' = RevisionAt(i, 0)
        BY <2>1 DEF RevisionAt
    <2>3. RevisionAt(i, 0) = 0 /\ Current(i) \in Nat
        BY <1>1, RevisionCounted
    <2>4. Current(i)' = Current(i)
        BY <2>1 DEF Current, VaultRevision, RevisionAt
    <2> QED BY <2>1, <2>2, <2>3, <2>4 DEF Known
<1> QED BY <1>2, <1>4, <1>5, GoodNext DEF Honest

\* A delivery keeps the invariant, and misleads the watermark only if the
\* answer was overtaken or its rows fail.
LEMMA DeliverGood ==
    ASSUME SyncGood, NEW s \in Pulls, Deliver(s)
    PROVE  /\ SyncGood'
           /\ pulls[s] # Idle /\ pulls'[s] = Idle
           /\ Honest => \/ Honest' \/ OvertakenAnswer(pulls[s]) \/ OvertakenSnapshot(pulls[s]) \/ GivesUp(pulls[s])
<1>1. /\ ServerTypes /\ StoreTypes /\ PullTypes /\ SessionTypes /\ SaveTypes /\ TypeOK /\ PullsInv
    BY TypesInParts DEF SyncGood
<1>2. PICK p : p = pulls[s]
    OBVIOUS
<1>3. /\ p # Idle /\ p.stage \in {"current", "stale"} /\ pulls' = [pulls EXCEPT ![s] = Idle]
      /\ UNCHANGED <<server, locked, keyed, saves>>
      /\ \/ UNCHANGED store
         \/ p.stage = "stale" /\ MergeSnapshot(p.snapshot, p.rev)
         \/ p.stage = "current" /\ Relabel(p.rev)
    BY <1>2 DEF Deliver
<1>4. p \in Pull /\ Timely(p) /\ p.rev \in Nat /\ p.rev \in 0..Len(log) /\ pulls'[s] = Idle
    <2>1. p \in Pull /\ Timely(p) /\ pulls'[s] = Idle
        BY <1>1, <1>2, <1>3 DEF PullTypes, PullsInv
    <2>2. p.rev \in Nat
        BY <1>3, <2>1, PullShape DEF Revisions
    <2> QED BY <1>1, <1>3, <2>1, <2>2 DEF Timely, ServerTypes
<1>5. ServerTypes' /\ PullTypes' /\ PullsInv' /\ SessionTypes' /\ SaveTypes'
    BY <1>1, <1>3, PullStep DEF SessionTypes, SaveTypes
<1>6. \A i \in Items : /\ RevisionAt(i, label) \in Nat /\ Current(i) \in Nat /\ RevisionAt(i, p.rev) \in Nat
                       /\ RevisionAt(i, p.rev) <= Current(i)
                       /\ label <= p.rev => RevisionAt(i, label) <= RevisionAt(i, p.rev)
    BY <1>1, <1>4, RevisionCounted
<1>7. label \in Nat /\ failures \in Nat /\ label \in 0..Len(log) /\ log' = log /\ gone' = gone
    BY <1>1, <1>3, RevisionCounted DEF StoreTypes, ServerTypes, server
<1>8. \A i \in Items : Current(i)' = Current(i) /\ \A r : r = label' => RevisionAt(i, label)' = RevisionAt(i, r)
    BY <1>7 DEF Current, VaultRevision, RevisionAt
<1>9. CASE UNCHANGED store
    <2>1. StoreTypes'
        BY <1>1, <1>7, <1>9 DEF StoreTypes, store
    <2>2. Honest => Honest'
        BY <1>3, <1>9, UnwrittenHonest DEF store
    <2> QED BY <1>2, <1>3, <1>4, <1>5, <2>1, <2>2, GoodNext
<1>10. CASE p.stage = "current" /\ Relabel(p.rev)
    <2>1. StoreTypes'
        BY <1>1, <1>4, <1>7, <1>10 DEF StoreTypes, Relabel
    <2>2. p.rev = label => (Honest => Honest')
        BY <1>3, <1>10, UnwrittenHonest DEF Relabel
    <2> QED BY <1>2, <1>3, <1>4, <1>5, <1>10, <2>1, <2>2, GoodNext DEF OvertakenAnswer
<1>11. CASE p.stage = "stale" /\ MergeSnapshot(p.snapshot, p.rev)
    <2>1. PICK failed, rows : failed = Failed(p.snapshot) /\ rows = p.snapshot.rows
        OBVIOUS
    <2>2. rows \in [Items -> Revisions] /\ failed \subseteq Items
        BY <1>4, <1>11, <2>1, PullShape DEF Snapshot, Failed
    <2>3. /\ copy' = [i \in Items |-> IF i \in failed THEN copy[i] ELSE rows[i]]
          /\ flagged' = {i \in failed : copy[i] # 0}
          /\ label' = LabelAfter(failed, p.rev)
          /\ failures' = IF failed = {} THEN 0 ELSE failures + 1
        BY <1>11, <2>1 DEF MergeSnapshot
    <2>4. label' \in {label, p.rev}
        BY <2>3 DEF LabelAfter
    <2>5. StoreTypes'
        <3>1. copy' \in [Items -> Revisions]
            BY <1>1, <2>2, <2>3 DEF StoreTypes
        <3>2. flagged' \subseteq Items /\ failures' \in Nat
            BY <1>7, <2>2, <2>3
        <3>3. label' \in 0..Len(log')
            BY <1>4, <1>7, <2>4
        <3> QED BY <3>1, <3>2, <3>3 DEF StoreTypes
    <2>6. ASSUME Honest, ~OvertakenSnapshot(p), ~GivesUp(p), NEW i \in Items
          PROVE  Known(i)' >= RevisionAt(i, label)'
        <3>1. failed # {} => p.rev >= label /\ ~(failures + 1 >= MaxFailedMerges)
            BY <1>4, <1>7, <1>11, <2>1, <2>6 DEF OvertakenSnapshot, GivesUp, Fails
        <3>2. (failed = {} => label' = p.rev) /\ (failed # {} => label' = label)
            BY <2>3, <3>1 DEF LabelAfter
        <3>3. (failed = {} => RevisionAt(i, label)' = RevisionAt(i, p.rev))
              /\ (failed # {} => RevisionAt(i, label)' = RevisionAt(i, label))
            BY <1>8, <3>2
        <3>4. RevisionAt(i, label)' <= RevisionAt(i, p.rev) /\ RevisionAt(i, label)' \in Nat
            BY <1>6, <3>1, <3>3
        <3>5. CASE i \in failed
            <4>1. copy'[i] = copy[i] /\ failed # {}
                BY <2>3, <3>5
            <4>2. Known(i)' = Known(i)
                BY <1>7, <1>8, <4>1 DEF Known
            <4>3. Known(i) >= RevisionAt(i, label)
                BY <2>6 DEF Honest
            <4> QED BY <3>3, <4>1, <4>2, <4>3
        <3>6. CASE i \notin failed
            <4>1. copy'[i] = rows[i] /\ rows[i] \in Nat
                BY <2>2, <2>3, <3>6 DEF Revisions
            <4>2. rows[i] >= RevisionAt(i, p.rev) \/ (rows[i] = 0 /\ i \in gone)
                BY <1>4, <1>11, <2>1 DEF Timely
            <4>3. CASE rows[i] = 0 /\ i \in gone
                <5>1. Known(i)' = Current(i)
                    BY <1>7, <1>8, <4>1, <4>3 DEF Known
                <5> QED BY <1>6, <3>4, <5>1
            <4>4. CASE ~(rows[i] = 0 /\ i \in gone)
                <5>1. Known(i)' = rows[i]
                    BY <1>7, <4>1, <4>4 DEF Known
                <5> QED BY <1>6, <3>4, <4>1, <4>2, <4>4, <5>1
            <4> QED BY <4>3, <4>4
        <3> QED BY <3>5, <3>6
    <2>7. Honest /\ ~OvertakenSnapshot(p) /\ ~GivesUp(p) => Honest'
        BY <2>6 DEF Honest
    <2> QED BY <1>2, <1>3, <1>4, <1>5, <2>5, <2>7, GoodNext
<1> QED BY <1>3, <1>9, <1>10, <1>11

-----------------------------------------------------------------------------
(* The theorems.                                                           *)

\* The invariant holds when the tab opens.
LEMMA SyncGoodInit ==
    ASSUME Init
    PROVE  SyncGood
<1>1. Len(log) = 0 /\ 0 \in Revisions /\ 0 <= MaxWrites
    BY ConstantsAssumption DEF Init, Revisions
<1>2. ServerTypes
    BY <1>1 DEF Init, ServerTypes
<1>3. StoreTypes
    <2>1. copy \in [Items -> Revisions] /\ flagged \subseteq Items
        BY <1>1 DEF Init
    <2>2. label \in 0..Len(log) /\ failures \in Nat
        BY <1>1 DEF Init
    <2> QED BY <2>1, <2>2 DEF StoreTypes
<1>4. PullTypes /\ PullsInv
    BY DEF Init, PullTypes, PullsInv
<1>5. SessionTypes /\ SaveTypes
    BY DEF Init, SessionTypes, SaveTypes
<1> QED BY <1>2, <1>3, <1>4, <1>5, TypesInParts DEF SyncGood

\* What a step may do to an honest watermark.
Misleads ==
    \/ \E s \in Pulls : /\ pulls[s] # Idle /\ pulls'[s] = Idle
                        /\ \/ OvertakenAnswer(pulls[s])
                           \/ OvertakenSnapshot(pulls[s])
                           \/ GivesUp(pulls[s])
    \/ \E r \in saves \ saves' : r.to < Known(r.item)

\* Every step keeps the invariant, and an honest watermark but in the four
\* ways of the property.
LEMMA SyncGoodNext ==
    ASSUME SyncGood, [Next]_vars
    PROVE  SyncGood' /\ (Honest => Honest' \/ Misleads)
<1>1. CASE \/ \E i \in Items : OtherDeviceDeletes(i) \/ \E opens \in BOOLEAN : OtherDeviceWrites(i, opens)
           \/ \E r \in saves : ServeSave(r)
    BY <1>1, WritesGood
<1>2. CASE \/ \E s \in Pulls : CountRevision(s) \/ ReadRows(s) \/ Poll(s) \/ LosePull(s) \/ Unlock(s)
           \/ \E r \in saves, s \in Pulls : ReloadAfterConflict(r, s)
    BY <1>2, RequestsGood
<1>3. CASE \/ \E i \in Items : Create(i) \/ Update(i) \/ Delete(i)
           \/ \E r \in saves : RefuseSave(r) \/ LoseSave(r)
           \/ CacheKeys \/ UNCHANGED vars
    BY <1>3, SavesGood
<1>4. ASSUME NEW r \in saves, Acknowledge(r)
      PROVE  SyncGood' /\ (Honest => Honest' \/ Misleads)
    <2>1. SyncGood' /\ (Honest /\ r.to >= Known(r.item) => Honest')
        BY <1>4, AcknowledgeGood
    <2>2. r \in saves \ saves'
        BY <1>4 DEF Acknowledge
    <2>3. r.to \in Nat /\ Known(r.item) \in Nat
        <3>1. TypeOK /\ r \in Save
            BY DEF SyncGood, TypeOK
        <3>2. PICK i \in Items : i = r.item
            BY <3>1, SaveShape
        <3>3. r.to \in Nat /\ copy[i] \in Nat
            BY <3>1, SaveShape DEF TypeOK, Revisions
        <3>4. Len(log) \in Nat
            BY <3>1 DEF TypeOK
        <3>5. Current(i) \in Nat
            BY <3>1, <3>4, RevisionCounted
        <3> QED BY <3>2, <3>3, <3>5 DEF Known
    <2> QED BY <2>1, <2>2, <2>3 DEF Misleads
<1>5. CASE Lock
    BY <1>5, LockGood
<1>6. CASE \E s \in Pulls : Deliver(s)
    BY <1>6, DeliverGood DEF Misleads
<1> QED BY <1>1, <1>2, <1>3, <1>4, <1>5, <1>6 DEF Next

\* The invariant holds in every reachable state.
LEMMA StaysGood == Spec => []SyncGood
BY SyncGoodInit, SyncGoodNext, PTL DEF Spec

\* The client's store, its requests and the server's log keep their types; the
\* watermark never exceeds the vault's revision.
THEOREM TypeCorrect == Spec => []TypeOK
BY StaysGood, PTL DEF SyncGood

\* A watermark that says no more than the store holds stays so, but for an
\* overtaken answer or save, an overtaken snapshot or giving up on rows.
THEOREM WatermarkIsMisledInFourWays == Spec => OnlyOvertakenAnswersMislead
<1>1. SyncGood /\ [Next]_vars =>
          [Honest /\ ~Honest' =>
              \/ \E s \in Pulls : /\ pulls[s] # Idle /\ pulls'[s] = Idle
                                  /\ \/ OvertakenAnswer(pulls[s])
                                     \/ OvertakenSnapshot(pulls[s])
                                     \/ GivesUp(pulls[s])
              \/ \E r \in saves \ saves' : r.to < Known(r.item)]_vars
    BY SyncGoodNext DEF Misleads
<1> QED BY <1>1, StaysGood, PTL DEF Spec, OnlyOvertakenAnswersMislead

\* No pull fills the store of a vault that is locked and stays locked.
THEOREM PullsLeaveLockedStores == Spec => PullsSpareLockedStore
<1>1. [Next]_vars =>
          [locked /\ locked' /\ copy' # copy => \E r \in saves \ saves' : r.stage = "served"]_vars
    <2> SUFFICES ASSUME Next, locked, locked', copy' # copy
                 PROVE  \E r \in saves \ saves' : r.stage = "served"
        OBVIOUS
    <2>1. \/ \E r \in saves : Acknowledge(r)
          \/ \E s \in Pulls : Deliver(s)
        BY DEF Next, OtherDeviceWrites, OtherDeviceDeletes, Create, Update, Delete, Send, CountRevision, ReadRows, Poll,
               LosePull, Unlock, ServeSave, RefuseSave, LoseSave, ReloadAfterConflict, CacheKeys, Lock, store
    <2>2. ~\E s \in Pulls : Deliver(s)
        BY DEF Deliver, Unlocked, store
    <2> QED BY <2>1, <2>2 DEF Acknowledge
<1> QED BY <1>1, PTL DEF Spec, PullsSpareLockedStore
================================================================================
