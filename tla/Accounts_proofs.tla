---------------------------- MODULE Accounts_proofs ----------------------------
(***************************************************************************)
(* Proofs about Accounts, for any accounts, passkeys, tabs and flows, any  *)
(* passkeys that have a copy and every value of the bounds.                *)
(***************************************************************************)
EXTENDS Accounts, TLAPS

-----------------------------------------------------------------------------
(* Types, in the parts that a step changes together.                       *)

SessionTypes ==
    /\ users \subseteq Accounts
    /\ issuedTo \in [Sessions -> Accounts \cup {None}]
    /\ live \subseteq {s \in Sessions : issuedTo[s] # None}
    /\ token \in 0..MaxSessions

\* Some authenticator of p has counted up to n.
Counted(p, n) == \E copy \in {1, 2} : n <= counter[<<p, copy>>]

PasskeyTypes ==
    /\ rows \in [Passkeys -> Row \cup {None}]
    /\ \A p \in Passkeys : rows[p] # None => p \in created /\ rows[p].of \in users
    /\ created \subseteq Passkeys
    /\ counter \in [Passkeys \X {1, 2} -> Nat]
    /\ \A p \in Passkeys : rows[p] # None => Counted(p, rows[p].count)

KeypairTypes ==
    /\ keypair \in [Accounts -> Identity \cup {None}]
    /\ \A x \in Accounts : keypair[x] # None => keypair[x].id \in 1..made
    /\ made \in Nat
    /\ uses \subseteq [tab : Tabs, by : Accounts, id : 1..made]

CeremonyTypes == ceremony \in [Jobs -> Offer \cup {None}]
FlowTypes == job \in [Jobs -> Job \cup {None}] /\ starts \in 0..MaxStarts
TabTypes ==
    /\ tab \in [Tabs -> [authed : BOOLEAN, key : Accounts \cup {None}, pending : Accounts \cup {None}]]
    /\ strayed \subseteq Tabs

\* TypeOK is the parts a step changes together.
LEMMA TypesInParts ==
    TypeOK <=> /\ SessionTypes /\ PasskeyTypes /\ KeypairTypes
               /\ CeremonyTypes /\ FlowTypes /\ TabTypes
BY DEF TypeOK, SessionTypes, PasskeyTypes, KeypairTypes, CeremonyTypes, FlowTypes, TabTypes, Counted

\* The fields of the records of Offer, Identity and Row.
LEMMA Shapes ==
    /\ \A o \in Offer : /\ o # None /\ o.kind \in {"registration", "authentication"} /\ o.of \in Accounts
                        /\ o.counts \in [Passkeys -> Nat \cup {None}]
    /\ \A i \in Identity : i # None /\ i.id \in Nat /\ i.by \in Accounts
    /\ \A r \in Row : /\ r # None /\ r.of \in Accounts /\ r.count \in Nat
                      /\ r.wrap \in Accounts \cup {None} /\ r.anomaly \in BOOLEAN
<1>1. \A o \in Offer : /\ o.kind \in {"registration", "authentication"} /\ o.of \in Accounts
                       /\ o.counts \in [Passkeys -> Nat \cup {None}]
    BY DEF Offer
<1>2. \A i \in Identity : i.id \in Nat /\ i.by \in Accounts
    BY DEF Identity
<1>3. \A r \in Row : r.of \in Accounts /\ r.count \in Nat /\ r.wrap \in Accounts \cup {None} /\ r.anomaly \in BOOLEAN
    BY DEF Row
<1> QED BY <1>1, <1>2, <1>3, AbsenceAssumption

\* What a flow holds.
LEMMA JobShape ==
    \A r \in Job :
        /\ r # None /\ r.tab \in Tabs
        /\ r.account \in Accounts \cup {None} /\ r.uk \in Accounts \cup {None, Freed}
        /\ r.token \in 0..MaxSessions /\ r.used \in Passkeys \cup {None} /\ r.count \in Nat
        /\ r.offer \in Offer \cup {None} /\ r.row \in Row \cup {None}
        /\ r.own \in Nat /\ r.found \in Identity \cup {None}
<1>1. \A r \in Job : r.tab \in Tabs /\ r.account \in Accounts \cup {None} /\ r.uk \in Accounts \cup {None, Freed}
                     /\ r.token \in 0..MaxSessions
    BY DEF Job
<1>2. \A r \in Job : r.used \in Passkeys \cup {None} /\ r.count \in Nat /\ r.offer \in Offer \cup {None}
    BY DEF Job
<1>3. \A r \in Job : r.row \in Row \cup {None} /\ r.own \in Nat /\ r.found \in Identity \cup {None}
    BY DEF Job
<1> QED BY <1>1, <1>2, <1>3, AbsenceAssumption

-----------------------------------------------------------------------------
(* What a step does to the flows.                                          *)

Places == {"register", "login", "start", "gesture", "finish", "check", "write", "issue",
           "insert", "second", "me", "email", "arrive", "get", "got", "put", "published",
           "logout", "leave"}

\* Flow j goes on, at another place and with another request; its tab, kind and
\* User Key stay, and so do the other flows.
Becomes(j, place, x, n, p, c, o, r, i, f) ==
    /\ job[j] # None /\ job'[j] # None
    /\ job'[j].tab = job[j].tab /\ job'[j].op = job[j].op /\ job'[j].uk = job[j].uk
    /\ job'[j].at = place /\ job'[j].account = x /\ job'[j].token = n
    /\ job'[j].used = p /\ job'[j].count = c /\ job'[j].offer = o /\ job'[j].row = r
    /\ job'[j].own = i /\ job'[j].found = f
    /\ \A k \in Jobs \ {j} : job'[k] = job[k]

\* Nothing of it but the place changes, or the place and the token.
Arrives(j, place, n) ==
    Becomes(j, place, job[j].account, n, job[j].used, job[j].count, job[j].offer,
            job[j].row, job[j].own, job[j].found)
Advances(j, place) == Arrives(j, place, job[j].token)

\* The row r of a flow is there still as q, has ended, or has lost its User Key.
Follows(r, q) ==
    q # None =>
        /\ r # None
        /\ q.tab = r.tab /\ q.op = r.op /\ q.at = r.at /\ q.account = r.account /\ q.token = r.token
        /\ q.used = r.used /\ q.count = r.count /\ q.offer = r.offer /\ q.row = r.row
        /\ q.own = r.own /\ q.found = r.found
        /\ q.uk = r.uk \/ (r.uk # None /\ q.uk = Freed)
Stays(k) == Follows(job[k], job'[k])

\* Flow j begins in tab t, with User Key u and token n, and has nothing yet.
Begins(j, t, op, place, x, u, n) ==
    /\ job'[j] # None
    /\ job'[j].tab = t /\ job'[j].op = op /\ job'[j].uk = u
    /\ job'[j].at = place /\ job'[j].account = x /\ job'[j].token = n
    /\ job'[j].used = None /\ job'[j].count = 0 /\ job'[j].offer = None /\ job'[j].row = None
    /\ job'[j].own = 0 /\ job'[j].found = None
    /\ \A k \in Jobs \ {j} : Stays(k)

\* A flow that is not touched stays where it is.
LEMMA UnchangedStays == \A k \in Jobs : job'[k] = job[k] => Stays(k)
BY DEF Stays, Follows

\* Replacing one flow leaves the others.
LEMMA MovedRow ==
    ASSUME FlowTypes, NEW j \in Jobs, NEW r \in Job \cup {None}, job' = [job EXCEPT ![j] = r]
    PROVE  /\ job' \in [Jobs -> Job \cup {None}] /\ job'[j] = r
           /\ \A k \in Jobs \ {j} : job'[k] = job[k]
BY DEF FlowTypes

\* Each form of change, by the fields it gives.
LEMMA StepMoves ==
    ASSUME FlowTypes, NEW j \in Jobs, job[j] # None, NEW place \in Places,
           Step(j, place)
    PROVE  Advances(j, place) /\ job' \in [Jobs -> Job \cup {None}]
<1>1. job[j] \in Job
    BY DEF FlowTypes
<1> DEFINE r == [job[j] EXCEPT !.at = place]
<1>2. r \in Job
    BY <1>1 DEF Job, Places
<1>3. job' = [job EXCEPT ![j] = r]
    BY <1>1 DEF FlowTypes, Step
<1>4. /\ r.tab = job[j].tab /\ r.op = job[j].op /\ r.uk = job[j].uk
      /\ r.at = place /\ r.account = job[j].account /\ r.token = job[j].token
      /\ r.used = job[j].used /\ r.count = job[j].count /\ r.offer = job[j].offer
      /\ r.row = job[j].row /\ r.own = job[j].own /\ r.found = job[j].found
    BY <1>1 DEF Job
<1> HIDE DEF r
<1>5. job' \in [Jobs -> Job \cup {None}] /\ job'[j] = r /\ \A k \in Jobs \ {j} : job'[k] = job[k]
    BY <1>2, <1>3, MovedRow
<1>6. r # None
    BY <1>2, JobShape
<1> QED BY <1>4, <1>5, <1>6, Zenon DEF Advances, Arrives, Becomes

\* A flow that goes on with a new token keeps the rest.
LEMMA TokenMoves ==
    ASSUME FlowTypes, NEW j \in Jobs, job[j] # None, NEW place \in Places, NEW n \in 0..MaxSessions,
           job' = [job EXCEPT ![j].at = place, ![j].token = n]
    PROVE  Arrives(j, place, n) /\ job' \in [Jobs -> Job \cup {None}]
<1>1. job[j] \in Job
    BY DEF FlowTypes
<1> DEFINE r == [job[j] EXCEPT !.at = place, !.token = n]
<1>2. r \in Job
    BY <1>1 DEF Job, Places
<1>3. job' = [job EXCEPT ![j] = r]
    BY <1>1 DEF FlowTypes
<1>4. /\ r.tab = job[j].tab /\ r.op = job[j].op /\ r.uk = job[j].uk
      /\ r.at = place /\ r.account = job[j].account /\ r.token = n
      /\ r.used = job[j].used /\ r.count = job[j].count /\ r.offer = job[j].offer
      /\ r.row = job[j].row /\ r.own = job[j].own /\ r.found = job[j].found
    BY <1>1 DEF Job
<1> HIDE DEF r
<1>5. job' \in [Jobs -> Job \cup {None}] /\ job'[j] = r /\ \A k \in Jobs \ {j} : job'[k] = job[k]
    BY <1>2, <1>3, MovedRow
<1>6. r # None
    BY <1>2, JobShape
<1> QED BY <1>4, <1>5, <1>6, Zenon DEF Arrives, Becomes

\* A flow that learns its account keeps the rest.
LEMMA MeMoves ==
    ASSUME FlowTypes, NEW j \in Jobs, job[j] # None, NEW x \in Accounts \cup {None},
           job' = [job EXCEPT ![j].at = "email", ![j].account = x]
    PROVE  Becomes(j, "email", x, job[j].token, job[j].used, job[j].count, job[j].offer, job[j].row, job[j].own, job[j].found) /\ job' \in [Jobs -> Job \cup {None}]
<1>1. job[j] \in Job
    BY DEF FlowTypes
<1> DEFINE r == [job[j] EXCEPT !.at = "email", !.account = x]
<1>2. r \in Job
    BY <1>1 DEF Job
<1>3. job' = [job EXCEPT ![j] = r]
    BY <1>1 DEF FlowTypes
<1>4. /\ r.tab = job[j].tab /\ r.op = job[j].op /\ r.uk = job[j].uk
      /\ r.at = "email" /\ r.account = x /\ r.token = job[j].token
      /\ r.used = job[j].used /\ r.count = job[j].count /\ r.offer = job[j].offer
      /\ r.row = job[j].row /\ r.own = job[j].own /\ r.found = job[j].found
    BY <1>1 DEF Job
<1> HIDE DEF r
<1>5. job' \in [Jobs -> Job \cup {None}] /\ job'[j] = r /\ \A k \in Jobs \ {j} : job'[k] = job[k]
    BY <1>2, <1>3, MovedRow
<1>6. r # None
    BY <1>2, JobShape
<1> QED BY <1>4, <1>5, <1>6, Zenon DEF Becomes

\* A flow whose authenticator made a passkey keeps the rest.
LEMMA CreateMoves ==
    ASSUME FlowTypes, NEW j \in Jobs, job[j] # None, NEW n \in 0..MaxSessions, NEW p \in Passkeys,
           job' = [job EXCEPT ![j].at = "finish", ![j].token = n, ![j].used = p]
    PROVE  Becomes(j, "finish", job[j].account, n, p, job[j].count, job[j].offer, job[j].row, job[j].own, job[j].found) /\ job' \in [Jobs -> Job \cup {None}]
<1>1. job[j] \in Job
    BY DEF FlowTypes
<1> DEFINE r == [job[j] EXCEPT !.at = "finish", !.token = n, !.used = p]
<1>2. r \in Job
    BY <1>1 DEF Job
<1>3. job' = [job EXCEPT ![j] = r]
    BY <1>1 DEF FlowTypes
<1>4. /\ r.tab = job[j].tab /\ r.op = job[j].op /\ r.uk = job[j].uk
      /\ r.at = "finish" /\ r.account = job[j].account /\ r.token = n
      /\ r.used = p /\ r.count = job[j].count /\ r.offer = job[j].offer
      /\ r.row = job[j].row /\ r.own = job[j].own /\ r.found = job[j].found
    BY <1>1 DEF Job
<1> HIDE DEF r
<1>5. job' \in [Jobs -> Job \cup {None}] /\ job'[j] = r /\ \A k \in Jobs \ {j} : job'[k] = job[k]
    BY <1>2, <1>3, MovedRow
<1>6. r # None
    BY <1>2, JobShape
<1> QED BY <1>4, <1>5, <1>6, Zenon DEF Becomes

\* A flow whose authenticator signed keeps the rest.
LEMMA AssertMoves ==
    ASSUME FlowTypes, NEW j \in Jobs, job[j] # None, NEW n \in 0..MaxSessions, NEW p \in Passkeys,
           NEW c \in Nat, NEW x \in Accounts \cup {None},
           job' = [job EXCEPT ![j].at = "finish", ![j].token = n, ![j].used = p, ![j].count = c, ![j].account = x]
    PROVE  Becomes(j, "finish", x, n, p, c, job[j].offer, job[j].row, job[j].own, job[j].found) /\ job' \in [Jobs -> Job \cup {None}]
<1>1. job[j] \in Job
    BY DEF FlowTypes
<1> DEFINE r == [job[j] EXCEPT !.at = "finish", !.token = n, !.used = p, !.count = c, !.account = x]
<1>2. r \in Job
    BY <1>1 DEF Job
<1>3. job' = [job EXCEPT ![j] = r]
    BY <1>1 DEF FlowTypes
<1>4. /\ r.tab = job[j].tab /\ r.op = job[j].op /\ r.uk = job[j].uk
      /\ r.at = "finish" /\ r.account = x /\ r.token = n
      /\ r.used = p /\ r.count = c /\ r.offer = job[j].offer
      /\ r.row = job[j].row /\ r.own = job[j].own /\ r.found = job[j].found
    BY <1>1 DEF Job
<1> HIDE DEF r
<1>5. job' \in [Jobs -> Job \cup {None}] /\ job'[j] = r /\ \A k \in Jobs \ {j} : job'[k] = job[k]
    BY <1>2, <1>3, MovedRow
<1>6. r # None
    BY <1>2, JobShape
<1> QED BY <1>4, <1>5, <1>6, Zenon DEF Becomes

\* A flow whose ceremony row is consumed keeps the rest.
LEMMA ConsumeMoves ==
    ASSUME FlowTypes, NEW j \in Jobs, job[j] # None, NEW place \in Places, NEW o \in Offer,
           job' = [job EXCEPT ![j].offer = o, ![j].at = place]
    PROVE  Becomes(j, place, job[j].account, job[j].token, job[j].used, job[j].count, o, job[j].row, job[j].own, job[j].found) /\ job' \in [Jobs -> Job \cup {None}]
<1>1. job[j] \in Job
    BY DEF FlowTypes
<1> DEFINE r == [job[j] EXCEPT !.offer = o, !.at = place]
<1>2. r \in Job
    BY <1>1 DEF Job, Places
<1>3. job' = [job EXCEPT ![j] = r]
    BY <1>1 DEF FlowTypes
<1>4. /\ r.tab = job[j].tab /\ r.op = job[j].op /\ r.uk = job[j].uk
      /\ r.at = place /\ r.account = job[j].account /\ r.token = job[j].token
      /\ r.used = job[j].used /\ r.count = job[j].count /\ r.offer = o
      /\ r.row = job[j].row /\ r.own = job[j].own /\ r.found = job[j].found
    BY <1>1 DEF Job
<1> HIDE DEF r
<1>5. job' \in [Jobs -> Job \cup {None}] /\ job'[j] = r /\ \A k \in Jobs \ {j} : job'[k] = job[k]
    BY <1>2, <1>3, MovedRow
<1>6. r # None
    BY <1>2, JobShape
<1> QED BY <1>4, <1>5, <1>6, Zenon DEF Becomes

\* A flow that has read its passkey's row keeps the rest.
LEMMA CheckMoves ==
    ASSUME FlowTypes, NEW j \in Jobs, job[j] # None, NEW r0 \in Row,
           job' = [job EXCEPT ![j].at = "write", ![j].row = r0]
    PROVE  Becomes(j, "write", job[j].account, job[j].token, job[j].used, job[j].count, job[j].offer, r0, job[j].own, job[j].found) /\ job' \in [Jobs -> Job \cup {None}]
<1>1. job[j] \in Job
    BY DEF FlowTypes
<1> DEFINE r == [job[j] EXCEPT !.at = "write", !.row = r0]
<1>2. r \in Job
    BY <1>1 DEF Job
<1>3. job' = [job EXCEPT ![j] = r]
    BY <1>1 DEF FlowTypes
<1>4. /\ r.tab = job[j].tab /\ r.op = job[j].op /\ r.uk = job[j].uk
      /\ r.at = "write" /\ r.account = job[j].account /\ r.token = job[j].token
      /\ r.used = job[j].used /\ r.count = job[j].count /\ r.offer = job[j].offer
      /\ r.row = r0 /\ r.own = job[j].own /\ r.found = job[j].found
    BY <1>1 DEF Job
<1> HIDE DEF r
<1>5. job' \in [Jobs -> Job \cup {None}] /\ job'[j] = r /\ \A k \in Jobs \ {j} : job'[k] = job[k]
    BY <1>2, <1>3, MovedRow
<1>6. r # None
    BY <1>2, JobShape
<1> QED BY <1>4, <1>5, <1>6, Zenon DEF Becomes

\* A flow that has read the keypair's row keeps the rest.
LEMMA FoundMoves ==
    ASSUME FlowTypes, NEW j \in Jobs, job[j] # None, NEW place \in Places, NEW f \in Identity \cup {None},
           job' = [job EXCEPT ![j].at = place, ![j].found = f]
    PROVE  Becomes(j, place, job[j].account, job[j].token, job[j].used, job[j].count, job[j].offer, job[j].row, job[j].own, f) /\ job' \in [Jobs -> Job \cup {None}]
<1>1. job[j] \in Job
    BY DEF FlowTypes
<1> DEFINE r == [job[j] EXCEPT !.at = place, !.found = f]
<1>2. r \in Job
    <2>1. [job[j] EXCEPT !.at = place] \in Job
        BY <1>1 DEF Job, Places
    <2>2. \A q \in Job : [q EXCEPT !.found = f] \in Job
        BY DEF Job
    <2> QED BY <1>1, <2>1, <2>2 DEF Job
<1>3. job' = [job EXCEPT ![j] = r]
    BY <1>1 DEF FlowTypes
<1>4. /\ r.tab = job[j].tab /\ r.op = job[j].op /\ r.uk = job[j].uk
      /\ r.at = place /\ r.account = job[j].account /\ r.token = job[j].token
      /\ r.used = job[j].used /\ r.count = job[j].count /\ r.offer = job[j].offer
      /\ r.row = job[j].row /\ r.own = job[j].own /\ r.found = f
    BY <1>1 DEF Job
<1> HIDE DEF r
<1>5. job' \in [Jobs -> Job \cup {None}] /\ job'[j] = r /\ \A k \in Jobs \ {j} : job'[k] = job[k]
    BY <1>2, <1>3, MovedRow
<1>6. r # None
    BY <1>2, JobShape
<1> QED BY <1>4, <1>5, <1>6, Zenon DEF Becomes

\* A flow that has generated a keypair keeps the rest.
LEMMA GenerateMoves ==
    ASSUME FlowTypes, NEW j \in Jobs, job[j] # None, NEW n \in 0..MaxSessions, NEW i \in Nat, NEW x \in Accounts \cup {None},
           job' = [job EXCEPT ![j].at = "put", ![j].token = n, ![j].own = i, ![j].account = x]
    PROVE  Becomes(j, "put", x, n, job[j].used, job[j].count, job[j].offer, job[j].row, i, job[j].found) /\ job' \in [Jobs -> Job \cup {None}]
<1>1. job[j] \in Job
    BY DEF FlowTypes
<1> DEFINE r == [job[j] EXCEPT !.at = "put", !.token = n, !.own = i, !.account = x]
<1>2. r \in Job
    BY <1>1 DEF Job
<1>3. job' = [job EXCEPT ![j] = r]
    BY <1>1 DEF FlowTypes
<1>4. /\ r.tab = job[j].tab /\ r.op = job[j].op /\ r.uk = job[j].uk
      /\ r.at = "put" /\ r.account = x /\ r.token = n
      /\ r.used = job[j].used /\ r.count = job[j].count /\ r.offer = job[j].offer
      /\ r.row = job[j].row /\ r.own = i /\ r.found = job[j].found
    BY <1>1 DEF Job
<1> HIDE DEF r
<1>5. job' \in [Jobs -> Job \cup {None}] /\ job'[j] = r /\ \A k \in Jobs \ {j} : job'[k] = job[k]
    BY <1>2, <1>3, MovedRow
<1>6. r # None
    BY <1>2, JobShape
<1> QED BY <1>4, <1>5, <1>6, Zenon DEF Becomes

\* A flow that ends leaves the others.
LEMMA EndsQuietly ==
    ASSUME FlowTypes, NEW j \in Jobs, Ends(j)
    PROVE  job' \in [Jobs -> Job \cup {None}] /\ job'[j] = None /\ \A k \in Jobs : Stays(k)
<1>1. job' = [job EXCEPT ![j] = None]
    BY DEF Ends
<1>2. job' \in [Jobs -> Job \cup {None}] /\ job'[j] = None /\ \A k \in Jobs \ {j} : job'[k] = job[k]
    BY <1>1, MovedRow
<1> QED BY <1>2, UnchangedStays DEF Stays, Follows

\* The flows of tab t end.
LEMMA DropsQuietly ==
    ASSUME FlowTypes, NEW t \in Tabs,
           job' = [k \in Jobs |-> IF job[k] # None /\ job[k].tab = t THEN None ELSE job[k]]
    PROVE  /\ job' \in [Jobs -> Job \cup {None}] /\ \A k \in Jobs : Stays(k)
           /\ \A k \in Jobs : job'[k] # None => job'[k].tab # t /\ job'[k] = job[k]
<1>1. /\ job' \in [Jobs -> Job \cup {None}]
      /\ \A k \in Jobs : job'[k] = IF job[k] # None /\ job[k].tab = t THEN None ELSE job[k]
    BY DEF FlowTypes
<1>2. \A k \in Jobs : job'[k] = None \/ job'[k] = job[k]
    BY <1>1
<1>3. \A k \in Jobs : Stays(k)
    BY <1>2, UnchangedStays DEF Stays, Follows
<1> QED BY <1>1, <1>3

\* Freeing a tab's handles frees those of its flows and nothing else.
LEMMA FreedRows ==
    ASSUME FlowTypes, NEW t \in Tabs
    PROVE  /\ FreedIn(t) \in [Jobs -> Job \cup {None}]
           /\ \A k \in Jobs : Follows(job[k], FreedIn(t)[k])
           /\ \A k \in Jobs : FreedIn(t)[k] # None =>
                 job[k] # None /\ FreedIn(t)[k].uk = (IF job[k].tab = t /\ job[k].uk # None THEN Freed ELSE job[k].uk)
<1>1. \A r \in Job : LET q == [r EXCEPT !.uk = Freed] IN
          /\ q \in Job /\ q.tab = r.tab /\ q.op = r.op /\ q.at = r.at /\ q.account = r.account
          /\ q.token = r.token /\ q.used = r.used /\ q.count = r.count /\ q.offer = r.offer
          /\ q.row = r.row /\ q.own = r.own /\ q.found = r.found /\ q.uk = Freed
    <2> TAKE r \in Job
    <2> DEFINE q == [r EXCEPT !.uk = Freed]
    <2>1. q \in Job
        BY DEF Job
    <2>2. /\ q.tab = r.tab /\ q.op = r.op /\ q.at = r.at /\ q.account = r.account
          /\ q.token = r.token /\ q.used = r.used /\ q.count = r.count /\ q.offer = r.offer
          /\ q.row = r.row /\ q.own = r.own /\ q.found = r.found /\ q.uk = Freed
        BY DEF Job
    <2> QED BY <2>1, <2>2
<1>2. SUFFICES ASSUME NEW k \in Jobs
               PROVE  /\ FreedIn(t)[k] \in Job \cup {None} /\ Follows(job[k], FreedIn(t)[k])
                      /\ FreedIn(t)[k] # None =>
                           job[k] # None /\ FreedIn(t)[k].uk = (IF job[k].tab = t /\ job[k].uk # None THEN Freed ELSE job[k].uk)
    BY DEF FreedIn
<1> DEFINE q == FreedIn(t)[k]
<1>3. q = IF job[k] # None /\ job[k].tab = t /\ job[k].uk # None THEN [job[k] EXCEPT !.uk = Freed] ELSE job[k]
    BY DEF FreedIn
<1>4. CASE job[k] # None /\ job[k].tab = t /\ job[k].uk # None
    <2>1. job[k] \in Job /\ q = [job[k] EXCEPT !.uk = Freed]
        BY <1>3, <1>4 DEF FlowTypes
    <2> QED BY <1>1, <1>4, <2>1, JobShape DEF Follows
<1>5. CASE ~(job[k] # None /\ job[k].tab = t /\ job[k].uk # None)
    BY <1>3, <1>5 DEF Follows, FlowTypes
<1> QED BY <1>4, <1>5

\* The row of a flow that begins.
LEMMA BegunRow ==
    ASSUME SessionTypes, NEW t \in Tabs, NEW op, NEW place \in Places, NEW x \in Accounts \cup {None},
           NEW u \in Accounts \cup {None},
           op \in {"register", "signIn", "passkeyLogin", "unlock", "unlockPassword",
                   "enroll", "ensure", "signOut", "join"}
    PROVE  LET r == Begun(t, op, place, x, u) IN
           /\ r \in Job
           /\ r.tab = t /\ r.op = op /\ r.uk = u /\ r.at = place /\ r.account = x /\ r.token = token
           /\ r.used = None /\ r.count = 0 /\ r.offer = None /\ r.row = None /\ r.own = 0 /\ r.found = None
<1>1. Begun(t, op, place, x, u) \in Job
    BY DEF Begun, Job, SessionTypes, Places
<1> QED BY <1>1 DEF Begun

\* Starting a flow begins it where nobody was.
LEMMA StartBegins ==
    ASSUME FlowTypes, SessionTypes, TabTypes, NEW t \in Tabs, NEW op, NEW place \in Places,
           NEW x \in Accounts \cup {None}, Start(t, op, place, x),
           op \in {"register", "signIn", "passkeyLogin", "unlock", "unlockPassword",
                   "enroll", "ensure", "signOut", "join"}
    PROVE  /\ FlowTypes'
           /\ \E j \in Jobs : job[j] = None /\ Begins(j, t, op, place, x, tab[t].key, token)
<1>1. PICK j \in Jobs : job[j] = None /\ job' = [job EXCEPT ![j] = Begun(t, op, place, x, tab[t].key)]
    BY DEF Start
<1> DEFINE r == Begun(t, op, place, x, tab[t].key)
<1>2. tab[t].key \in Accounts \cup {None}
    BY DEF TabTypes
<1>3. /\ r \in Job
      /\ r.tab = t /\ r.op = op /\ r.uk = tab[t].key /\ r.at = place /\ r.account = x /\ r.token = token
      /\ r.used = None /\ r.count = 0 /\ r.offer = None /\ r.row = None /\ r.own = 0 /\ r.found = None
    BY <1>2, BegunRow
<1>4. job' \in [Jobs -> Job \cup {None}] /\ job'[j] = r /\ \A k \in Jobs \ {j} : job'[k] = job[k]
    BY <1>1, <1>3, MovedRow
<1>5. r # None
    BY <1>3, JobShape
<1>6. \A k \in Jobs \ {j} : Stays(k)
    BY <1>4, UnchangedStays
<1> HIDE DEF r
<1>7. Begins(j, t, op, place, x, tab[t].key, token)
    BY <1>3, <1>4, <1>5, <1>6 DEF Begins
<1>8. starts' \in 0..MaxStarts
    BY BoundsAssumption DEF Start, FlowTypes
<1> QED BY <1>1, <1>4, <1>7, <1>8 DEF FlowTypes

\* Taking the pending key begins the flow that publishes the identity.
LEMMA PendingBegins ==
    ASSUME FlowTypes, SessionTypes, TabTypes, NEW t \in Tabs, TakePending(t)
    PROVE  /\ FlowTypes'
           /\ \E j \in Jobs : job[j] = None /\ Begins(j, t, "ensure", "get", None, tab[t].pending, token)
<1>1. PICK j \in Jobs : job[j] = None /\ job' = [job EXCEPT ![j] = Begun(t, "ensure", "get", None, tab[t].pending)]
    BY DEF TakePending
<1> DEFINE r == Begun(t, "ensure", "get", None, tab[t].pending)
<1>2. tab[t].pending \in Accounts \cup {None} /\ "get" \in Places
    BY DEF TabTypes, Places
<1>3. /\ r \in Job
      /\ r.tab = t /\ r.op = "ensure" /\ r.uk = tab[t].pending /\ r.at = "get" /\ r.account = None /\ r.token = token
      /\ r.used = None /\ r.count = 0 /\ r.offer = None /\ r.row = None /\ r.own = 0 /\ r.found = None
    BY <1>2, BegunRow
<1>4. job' \in [Jobs -> Job \cup {None}] /\ job'[j] = r /\ \A k \in Jobs \ {j} : job'[k] = job[k]
    BY <1>1, <1>3, MovedRow
<1>5. r # None
    BY <1>3, JobShape
<1>6. \A k \in Jobs \ {j} : Stays(k)
    BY <1>4, UnchangedStays
<1> HIDE DEF r
<1>7. Begins(j, t, "ensure", "get", None, tab[t].pending, token)
    BY <1>3, <1>4, <1>5, <1>6 DEF Begins
<1> QED BY <1>1, <1>4, <1>7 DEF FlowTypes, TakePending, vars

\* An unlock ends one flow and begins the flow that publishes the identity.
LEMMA UnlocksBegins ==
    ASSUME FlowTypes, SessionTypes, NEW j \in Jobs, job[j] # None, NEW x \in Accounts,
           NEW n \in 0..MaxSessions, Unlocks(j, x, n)
    PROVE  /\ job' \in [Jobs -> Job \cup {None}]
           /\ Begins(j, job[j].tab, "ensure", "get", None, x, n)
           /\ \A k \in Jobs \ {j} : job'[k] = FreedIn(job[j].tab)[k]
<1> DEFINE t == job[j].tab
<1> DEFINE r0 == Begun(t, "ensure", "get", None, x)
<1> DEFINE r == [r0 EXCEPT !.token = n]
<1>1. t \in Tabs /\ "get" \in Places
    BY JobShape DEF FlowTypes, Places
<1>2. job' = [FreedIn(t) EXCEPT ![j] = r]
    BY DEF Unlocks
<1>3. /\ r0 \in Job
      /\ r0.tab = t /\ r0.op = "ensure" /\ r0.uk = x /\ r0.at = "get" /\ r0.account = None
      /\ r0.used = None /\ r0.count = 0 /\ r0.offer = None /\ r0.row = None /\ r0.own = 0 /\ r0.found = None
    BY <1>1, BegunRow
<1> HIDE DEF r0
<1>4. r \in Job
    BY <1>3 DEF Job
<1>5. /\ r.tab = t /\ r.op = "ensure" /\ r.uk = x /\ r.at = "get" /\ r.account = None /\ r.token = n
      /\ r.used = None /\ r.count = 0 /\ r.offer = None /\ r.row = None /\ r.own = 0 /\ r.found = None
    BY <1>3 DEF Job
<1> HIDE DEF r
<1>6. FreedIn(t) \in [Jobs -> Job \cup {None}] /\ \A k \in Jobs : Follows(job[k], FreedIn(t)[k])
    BY <1>1, FreedRows
<1>7. job' \in [Jobs -> Job \cup {None}] /\ job'[j] = r /\ \A k \in Jobs \ {j} : job'[k] = FreedIn(t)[k]
    BY <1>2, <1>4, <1>6
<1>8. r # None
    BY <1>4, JobShape
<1>9. \A k \in Jobs \ {j} : Stays(k)
    BY <1>6, <1>7 DEF Stays
<1> QED BY <1>5, <1>7, <1>8, <1>9 DEF Begins

-----------------------------------------------------------------------------
(* The invariant: what a flow holds at each of its places, and what the    *)
(* rows it works with have become in the meantime.                         *)

\* The places of each kind of flow.
Placed(r) ==
    /\ r.at = "register" => r.op = "register"
    /\ r.at = "login" => r.op \in {"register", "signIn"}
    /\ r.at \in {"start", "gesture", "finish", "check", "write"} => r.op \in {"passkeyLogin", "unlock", "enroll"}
    /\ r.at = "issue" => r.op = "passkeyLogin"
    /\ r.at \in {"insert", "second"} => r.op = "enroll"
    /\ r.at \in {"me", "email"} => r.op = "unlockPassword"
    /\ r.at = "arrive" => r.op \in {"register", "signIn", "passkeyLogin", "unlock", "unlockPassword"}
    /\ r.at \in {"get", "got", "put", "published"} => r.op = "ensure"
    /\ r.at \in {"logout", "leave"} => r.op \in {"signOut", "join"}

\* Whom a flow is for, and whether it has taken a User Key.
Named(r) ==
    /\ r.op \in {"register", "signIn", "passkeyLogin"} => r.account # None
    /\ r.op = "unlockPassword" /\ r.at \in {"email", "arrive"} => r.account # None
    /\ r.at \in {"put", "published"} => r.account # None
    /\ r.op = "enroll" /\ r.at \in {"check", "write"} => r.account # None
    /\ r.op = "unlock" => r.uk = None
    /\ r.op \in {"enroll", "ensure"} => r.uk # None

\* What a flow has of its ceremony.
Asserted(r) ==
    /\ r.at \in {"finish", "check", "write", "issue", "insert", "second"} => r.used # None
    /\ r.at \in {"check", "write", "issue", "insert", "second"} => r.offer # None
    /\ r.op = "enroll" /\ r.used = None => r.offer = None
    /\ r.at = "start" => r.used = None
    /\ r.used = None => r.count = 0
    /\ r.row # None => r.at \in {"write", "issue", "arrive"}
    /\ r.op \in {"passkeyLogin", "unlock"} /\ r.at \in {"write", "issue", "arrive"} =>
          r.row # None /\ r.offer # None /\ r.row.of = r.offer.of
    /\ r.at = "write" => r.row # None /\ r.row.of = r.offer.of
    /\ r.op = "unlock" /\ r.at \in {"write", "arrive"} => r.row.wrap # None
    /\ r.at = "check" => /\ r.offer.counts[r.used] # None
                         /\ r.used \notin Copied => r.count > r.offer.counts[r.used]
    /\ r.op = "passkeyLogin" /\ r.at \in {"check", "write", "issue", "arrive"} => r.offer.of = r.account

\* What it holds is in the server's rows and the authenticators' counters.
Known(j) ==
    /\ job[j].token # 0 => issuedTo[job[j].token] # None
    /\ job[j].used # None => job[j].used \in created /\ Counted(job[j].used, job[j].count)
    /\ job[j].row # None => job[j].used # None /\ Counted(job[j].used, job[j].row.count)
    /\ job[j].offer # None => job[j].offer.of \in users

\* The keypair that a flow has read is still the one of its session's account.
Keyed(j) ==
    /\ (job[j].at = "got" /\ job[j].found # None) \/ job[j].at = "published" =>
          job[j].found # None /\ job[j].token # 0 /\ job[j].found = keypair[issuedTo[job[j].token]]
    /\ job[j].at \in {"put", "published"} => job[j].own \in 1..made

FlowInv(j) ==
    job[j] # None => Placed(job[j]) /\ Named(job[j]) /\ Asserted(job[j]) /\ Known(j) /\ Keyed(j)

\* Sessions are of registered accounts.
SessionInv ==
    /\ \A s \in Sessions : issuedTo[s] # None => issuedTo[s] \in users
    /\ token # 0 => issuedTo[token] # None

\* The second authenticator of a passkey that has no copy does not exist, and
\* no ceremony expects a counter that the first has not reached.
NoCopies == \A p \in Passkeys \ Copied : counter[<<p, 2>>] = 0
Offered(j) ==
    ceremony[j] # None =>
        /\ ceremony[j].of \in users
        /\ \A p \in Passkeys : ceremony[j].counts[p] # None =>
              p \in created /\ (p \notin Copied => ceremony[j].counts[p] <= counter[<<p, 1>>])

\* The ceremony of a flow at its gesture is the flow's.
Fitting(j) ==
    job[j] # None /\ job[j].at \in {"gesture", "finish"} /\ ceremony[j] # None =>
        /\ ceremony[j].kind = "registration" =>
              job[j].op = "enroll" /\ job[j].offer = None /\ (job[j].at = "gesture" => job[j].used = None)
        /\ ceremony[j].kind = "authentication" =>
              /\ job[j].op = "enroll" => job[j].used # None /\ job[j].offer # None
              /\ job[j].at = "finish" =>
                    /\ ceremony[j].counts[job[j].used] # None
                    /\ job[j].used \notin Copied => job[j].count > ceremony[j].counts[job[j].used]
                    /\ job[j].op = "enroll" => job[j].account # None
        /\ job[j].op = "passkeyLogin" => ceremony[j].of = job[j].account

\* A credential that is being enrolled is in no row, no ceremony and no other
\* flow.
Creating(r) == r # None /\ r.op = "enroll" /\ (r.at = "insert" \/ (r.at = "finish" /\ r.offer = None))
Fresh(j) ==
    Creating(job[j]) =>
        /\ rows[job[j].used] = None
        /\ \A k \in Jobs : /\ ceremony[k] # None => ceremony[k].counts[job[j].used] = None
                           /\ k # j /\ job[k] # None => job[k].used # job[j].used

\* A passkey that a flow works with is deleted, or still what it was.
Lasting(j) ==
    job[j] # None =>
        /\ job[j].op = "unlock" /\ job[j].at \in {"gesture", "finish"} /\ ceremony[j] # None =>
              \A p \in Passkeys : ceremony[j].counts[p] # None => rows[p] = None \/ rows[p].wrap # None
        /\ job[j].op = "unlock" /\ job[j].at = "check" =>
              rows[job[j].used] = None \/ rows[job[j].used].wrap # None
        /\ job[j].at = "write" => rows[job[j].used] = None \/ rows[job[j].used].of = job[j].offer.of

FlowsInv == \A j \in Jobs : FlowInv(j)
CeremonyInv == NoCopies /\ \A j \in Jobs : Offered(j) /\ Fitting(j) /\ Fresh(j) /\ Lasting(j)

\* Only an authenticator that exists twice is reported.
RowsInv == \A p \in Passkeys : rows[p] # None /\ rows[p].anomaly => p \in Copied

CredInv == FlowsInv /\ SessionInv /\ CeremonyInv /\ RowsInv

-----------------------------------------------------------------------------
(* What grows, and who changes what.                                       *)

\* Accounts, sessions, credentials, counters and keypairs are never taken back.
Grows ==
    /\ users \subseteq users' /\ created \subseteq created'
    /\ made \in Nat /\ made' \in Nat /\ made <= made'
    /\ \A s \in Sessions : issuedTo[s] # None => issuedTo'[s] = issuedTo[s]
    /\ \A p \in Passkeys, copy \in {1, 2} : /\ counter[<<p, copy>>] \in Nat /\ counter'[<<p, copy>>] \in Nat
                                            /\ counter[<<p, copy>>] <= counter'[<<p, copy>>]
    /\ \A x \in Accounts : keypair[x] # None => keypair'[x] = keypair[x]

\* A count that an authenticator has reached stays reached.
LEMMA CountedGrows ==
    ASSUME Grows, NEW p \in Passkeys, NEW n \in Nat, Counted(p, n)
    PROVE  \E copy \in {1, 2} : n <= counter'[<<p, copy>>]
BY DEF Grows, Counted

\* A step that leaves all of that alone.
LEMMA StillGrows ==
    ASSUME PasskeyTypes, KeypairTypes,
           UNCHANGED <<users, created, made, issuedTo, counter, keypair>>
    PROVE  Grows
<1>1. \A p \in Passkeys, copy \in {1, 2} : counter[<<p, copy>>] \in Nat
    BY DEF PasskeyTypes
<1> QED BY <1>1 DEF Grows, KeypairTypes

\* A flow that stays keeps what was so of it.
LEMMA StayingFlow ==
    ASSUME FlowTypes, SessionTypes, Grows, NEW k \in Jobs, Stays(k), FlowInv(k)
    PROVE  FlowInv(k)'
<1> SUFFICES ASSUME job'[k] # None
             PROVE  FlowInv(k)'
    BY DEF FlowInv
<1> DEFINE r == job[k]
<1> DEFINE q == job'[k]
<1>1. /\ r # None
      /\ q.tab = r.tab /\ q.op = r.op /\ q.at = r.at /\ q.account = r.account /\ q.token = r.token
      /\ q.used = r.used /\ q.count = r.count /\ q.offer = r.offer /\ q.row = r.row
      /\ q.own = r.own /\ q.found = r.found
      /\ q.uk = r.uk \/ (r.uk # None /\ q.uk = Freed)
    BY DEF Stays, Follows
<1>2. Placed(r) /\ Named(r) /\ Asserted(r) /\ Known(k) /\ Keyed(k)
    BY <1>1 DEF FlowInv
<1>3. r \in Job
    BY <1>1 DEF FlowTypes
<1>4. Placed(q)
    BY <1>1, <1>2 DEF Placed
<1>5. Named(q)
    BY <1>1, <1>2, AbsenceAssumption DEF Named
<1>6. Asserted(q)
    <2> HIDE DEF r, q
    <2> QED BY <1>1, <1>2 DEF Asserted
<1>7. Known(k)'
    <2>1. /\ r.used # None => r.used \in Passkeys /\ r.count \in Nat
          /\ r.row # None => r.row.count \in Nat
          /\ r.token # 0 => r.token \in Sessions
        BY <1>3, JobShape, Shapes, BoundsAssumption DEF Sessions
    <2>2. r.token # 0 => issuedTo'[r.token] # None
        BY <1>2, <2>1, AbsenceAssumption DEF Known, Grows
    <2>3. r.used # None => r.used \in created' /\ \E copy \in {1, 2} : r.count <= counter'[<<r.used, copy>>]
        BY <1>2, <2>1, CountedGrows DEF Known, Grows
    <2>4. r.row # None => r.used # None /\ \E copy \in {1, 2} : r.row.count <= counter'[<<r.used, copy>>]
        BY <1>2, <2>1, CountedGrows DEF Known
    <2>5. r.offer # None => r.offer.of \in users'
        BY <1>2 DEF Known, Grows
    <2> QED BY <1>1, <2>2, <2>3, <2>4, <2>5 DEF Known, Counted
<1>8. Keyed(k)'
    <2>1. r.token # 0 => /\ r.token \in Sessions /\ issuedTo[r.token] \in Accounts
                         /\ issuedTo'[r.token] = issuedTo[r.token]
        BY <1>2, <1>3, JobShape, BoundsAssumption, AbsenceAssumption DEF Known, Sessions, Grows, SessionTypes
    <2>2. (r.at = "got" /\ r.found # None) \/ r.at = "published" =>
              r.found # None /\ r.token # 0 /\ r.found = keypair'[issuedTo'[r.token]]
        BY <1>2, <2>1 DEF Keyed, Grows
    <2>3. r.at \in {"put", "published"} => r.own \in 1..made'
        BY <1>2 DEF Keyed, Grows
    <2> QED BY <1>1, <2>2, <2>3 DEF Keyed
<1> QED BY <1>4, <1>5, <1>6, <1>7, <1>8 DEF FlowInv

-----------------------------------------------------------------------------
(* How each action moves its flow.                                         *)

\* The account of a request is that of the session it carries.
LEMMA CallerIs ==
    ASSUME FlowTypes, SessionTypes, NEW j \in Jobs, job[j] # None, Caller(j) # None
    PROVE  /\ job[j].token \in Sessions /\ job[j].token # 0 /\ job[j].token \in live
           /\ Caller(j) = issuedTo[job[j].token] /\ Caller(j) \in Accounts
<1>1. job[j].token \in live /\ Caller(j) = issuedTo[job[j].token]
    BY DEF Caller
<1>2. job[j].token \in Sessions /\ issuedTo[job[j].token] \in Accounts
    BY <1>1 DEF SessionTypes
<1>3. job[j].token # 0
    BY <1>2, BoundsAssumption DEF Sessions
<1> QED BY <1>1, <1>2, <1>3

\* Which steps only move a flow on.
LEMMA PlainMoves ==
    ASSUME FlowTypes, SessionTypes, NEW j \in Jobs
    PROVE  /\ Register(j) => Advances(j, "login") /\ FlowTypes'
           /\ Logout(j) => Advances(j, "leave") /\ FlowTypes'
           /\ LoginStart(j) \/ UnlockStart(j) \/ RegisterStart(j) => Advances(j, "gesture") /\ FlowTypes'
           /\ Insert(j) => Advances(j, "second") /\ FlowTypes'
           /\ SecondCeremony(j) => Advances(j, "gesture") /\ FlowTypes'
           /\ ReadEmail(j) => Advances(j, "arrive") /\ FlowTypes'
<1>1. {"login", "leave", "gesture", "second", "arrive"} \subseteq Places
    BY DEF Places
<1>2. ASSUME NEW place \in {"login", "leave", "gesture", "second", "arrive"},
             job[j] # None, Step(j, place), starts' = starts
      PROVE  Advances(j, place) /\ FlowTypes'
    BY <1>1, <1>2, StepMoves DEF FlowTypes
<1>3. Register(j) => Advances(j, "login") /\ FlowTypes'
    BY <1>2 DEF Register, At
<1>4. Logout(j) => Advances(j, "leave") /\ FlowTypes'
    BY <1>2 DEF Logout, At
<1>5. LoginStart(j) \/ UnlockStart(j) \/ RegisterStart(j) => Advances(j, "gesture") /\ FlowTypes'
    BY <1>2 DEF LoginStart, UnlockStart, RegisterStart, At, Asks
<1>6. Insert(j) => Advances(j, "second") /\ FlowTypes'
    BY <1>2 DEF Insert, At
<1>7. SecondCeremony(j) => Advances(j, "gesture") /\ FlowTypes'
    BY <1>2 DEF SecondCeremony, At
<1>8. ReadEmail(j) => Advances(j, "arrive") /\ FlowTypes'
    BY <1>2 DEF ReadEmail, At
<1> QED BY <1>3, <1>4, <1>5, <1>6, <1>7, <1>8

\* An update of a passkey ends an enrolment; any other flow goes on.
LEMMA WriteMoves ==
    ASSUME FlowTypes, SessionTypes, NEW j \in Jobs, Write(j)
    PROVE  /\ FlowTypes' /\ job[j] # None
           /\ job[j].op = "enroll" => job'[j] = None /\ \A k \in Jobs : Stays(k)
           /\ job[j].op = "unlock" => Advances(j, "arrive")
           /\ job[j].op \notin {"enroll", "unlock"} => Advances(j, "issue")
<1>1. job[j] # None /\ starts' = starts /\ {"arrive", "issue"} \subseteq Places
    BY DEF Write, At, Places
<1>2. CASE job[j].op = "enroll"
    BY <1>1, <1>2, EndsQuietly DEF Write, FlowTypes
<1>3. CASE job[j].op = "unlock"
    <2>1. Step(j, "arrive")
        BY <1>3 DEF Write
    <2> QED BY <1>1, <1>3, <2>1, StepMoves DEF FlowTypes
<1>4. CASE job[j].op \notin {"enroll", "unlock"}
    <2>1. Step(j, "issue")
        BY <1>4 DEF Write
    <2> QED BY <1>1, <1>4, <2>1, StepMoves DEF FlowTypes
<1> QED BY <1>2, <1>3, <1>4

\* A failed request ends its flow, or signing out goes on without the
\* server.
LEMMA FailsMoves ==
    ASSUME FlowTypes, NEW j \in Jobs, Fails(j)
    PROVE  /\ FlowTypes' /\ job[j] # None
           /\ \/ job[j].op \in {"signOut", "join"} /\ Advances(j, "leave")
              \/ job'[j] = None /\ \A k \in Jobs : Stays(k)
<1>1. job[j] # None /\ starts' = starts /\ "leave" \in Places
    BY DEF Fails, Places
<1>2. CASE job[j].op \in {"signOut", "join"}
    <2>1. Step(j, "leave")
        BY <1>2 DEF Fails
    <2> QED BY <1>1, <1>2, <2>1, StepMoves DEF FlowTypes
<1>3. CASE job[j].op \notin {"signOut", "join"}
    BY <1>1, <1>3, EndsQuietly DEF Fails, FlowTypes
<1> QED BY <1>2, <1>3

\* A session is issued with a token that nobody had.
LEMMA IssueMoves ==
    ASSUME FlowTypes, SessionTypes, NEW j \in Jobs, job[j] # None, NEW x \in Accounts, Issue(j, x)
    PROVE  /\ job' \in [Jobs -> Job \cup {None}]
           /\ \E s \in Sessions :
                 /\ issuedTo[s] = None /\ s # 0 /\ s \in 0..MaxSessions
                 /\ issuedTo' = [issuedTo EXCEPT ![s] = x] /\ live' = live \cup {s}
                 /\ Arrives(j, "arrive", s)
<1>1. PICK s \in Sessions :
          /\ issuedTo[s] = None
          /\ issuedTo' = [issuedTo EXCEPT ![s] = x] /\ live' = live \cup {s}
          /\ job' = [job EXCEPT ![j].at = "arrive", ![j].token = s]
    BY DEF Issue
<1>2. s # 0 /\ s \in 0..MaxSessions /\ "arrive" \in Places
    BY BoundsAssumption DEF Sessions, Places
<1>3. Arrives(j, "arrive", s) /\ job' \in [Jobs -> Job \cup {None}]
    BY <1>1, <1>2, TokenMoves
<1> QED BY <1>1, <1>2, <1>3

\* GET /me tells a flow its token's account.
LEMMA MeMoved ==
    ASSUME FlowTypes, SessionTypes, NEW j \in Jobs, Me(j)
    PROVE  /\ FlowTypes' /\ Caller(j) # None
           /\ Becomes(j, "email", Caller(j), job[j].token, job[j].used, job[j].count, job[j].offer,
                      job[j].row, job[j].own, job[j].found)
<1>1. /\ job[j] # None /\ Caller(j) # None /\ starts' = starts
      /\ job' = [job EXCEPT ![j].at = "email", ![j].account = Caller(j)]
    BY DEF Me, At
<1>2. Caller(j) \in Accounts
    BY <1>1, CallerIs
<1> QED BY <1>1, <1>2, MeMoves DEF FlowTypes

\* Making a passkey makes a new one and goes on to the finish route.
LEMMA CreateMoved ==
    ASSUME FlowTypes, SessionTypes, NEW j \in Jobs, Create(j)
    PROVE  /\ FlowTypes' /\ job[j] # None
           /\ \E p \in Passkeys \ created :
                 /\ created' = created \cup {p}
                 /\ Becomes(j, "finish", job[j].account, token, p, job[j].count, job[j].offer,
                            job[j].row, job[j].own, job[j].found)
<1>1. PICK p \in Passkeys \ created :
          /\ created' = created \cup {p}
          /\ job' = [job EXCEPT ![j].at = "finish", ![j].token = token, ![j].used = p]
    BY DEF Create
<1>2. job[j] # None /\ starts' = starts /\ token \in 0..MaxSessions
    BY DEF Create, At, SessionTypes
<1>3. /\ job' \in [Jobs -> Job \cup {None}]
      /\ Becomes(j, "finish", job[j].account, token, p, job[j].count, job[j].offer,
                 job[j].row, job[j].own, job[j].found)
    BY <1>1, <1>2, CreateMoves
<1> QED BY <1>1, <1>2, <1>3 DEF FlowTypes

\* The count a flow sends is its authenticator's.
LEMMA AssertMoved ==
    ASSUME FlowTypes, SessionTypes, PasskeyTypes, NEW j \in Jobs, AssertPasskey(j),
           Named(job[j])
    PROVE  /\ FlowTypes' /\ job[j] # None
           /\ \E p \in Passkeys, copy \in {1, 2} :
                 /\ ceremony[j].counts[p] # None /\ (copy = 2 => p \in Copied)
                 /\ counter' = [counter EXCEPT ![<<p, copy>>] = @ + 1]
                 /\ counter[<<p, copy>>] \in Nat
                 /\ Becomes(j, "finish", IF job[j].op = "enroll" THEN job[j].uk ELSE job[j].account, token, p,
                            counter[<<p, copy>>] + 1, job[j].offer, job[j].row, job[j].own, job[j].found)
<1>1. PICK p \in Passkeys, copy \in {1, 2} :
          /\ ceremony[j].counts[p] # None /\ (copy = 2 => p \in Copied)
          /\ counter' = [counter EXCEPT ![<<p, copy>>] = @ + 1]
          /\ job' = [job EXCEPT ![j].at = "finish", ![j].token = token,
                                ![j].used = p, ![j].count = counter[p, copy] + 1,
                                ![j].account = IF job[j].op = "enroll" THEN job[j].uk ELSE @]
    BY DEF AssertPasskey
<1>2. /\ job[j] # None /\ starts' = starts /\ token \in 0..MaxSessions
      /\ job[j].op = "enroll" => job[j].uk # Freed
    BY DEF AssertPasskey, At, SessionTypes
<1> DEFINE c == counter[<<p, copy>>] + 1
<1> DEFINE x == IF job[j].op = "enroll" THEN job[j].uk ELSE job[j].account
<1>3. counter[<<p, copy>>] \in Nat /\ c \in Nat
    BY DEF PasskeyTypes
<1>4. x \in Accounts \cup {None}
    BY <1>2, JobShape DEF FlowTypes
<1>5. job' = [job EXCEPT ![j].at = "finish", ![j].token = token, ![j].used = p, ![j].count = c, ![j].account = x]
    BY <1>1
<1> HIDE DEF c, x
<1>6. /\ job' \in [Jobs -> Job \cup {None}]
      /\ Becomes(j, "finish", x, token, p, c, job[j].offer, job[j].row, job[j].own, job[j].found)
    BY <1>2, <1>3, <1>4, <1>5, AssertMoves
<1>7. FlowTypes'
    BY <1>2, <1>6 DEF FlowTypes
<1> QED BY <1>1, <1>2, <1>3, <1>6, <1>7 DEF c, x

\* Consuming a ceremony goes on to what its kind asks for.
LEMMA ConsumeMoved ==
    ASSUME FlowTypes, CeremonyTypes, NEW j \in Jobs, Consume(j)
    PROVE  /\ FlowTypes' /\ job[j] # None /\ ceremony[j] \in Offer
           /\ \E place \in {"insert", "check"} :
                 /\ place = IF ceremony[j].kind = "registration" THEN "insert" ELSE "check"
                 /\ Becomes(j, place, job[j].account, job[j].token, job[j].used, job[j].count, ceremony[j],
                            job[j].row, job[j].own, job[j].found)
<1> DEFINE place == IF ceremony[j].kind = "registration" THEN "insert" ELSE "check"
<1> DEFINE o == ceremony[j]
<1>1. /\ job[j] # None /\ starts' = starts /\ o \in Offer
      /\ job' = [job EXCEPT ![j].offer = o, ![j].at = place]
    BY DEF Consume, At, CeremonyTypes
<1>2. place \in Places
    BY DEF Places
<1>3. place \in {"insert", "check"}
    OBVIOUS
<1> HIDE DEF place, o
<1>4. /\ job' \in [Jobs -> Job \cup {None}]
      /\ Becomes(j, place, job[j].account, job[j].token, job[j].used, job[j].count, o,
                 job[j].row, job[j].own, job[j].found)
    BY <1>1, <1>2, ConsumeMoves
<1>5. FlowTypes'
    BY <1>1, <1>4 DEF FlowTypes
<1> QED BY <1>1, <1>3, <1>4, <1>5 DEF place, o

\* Checking an assertion reads the row of the passkey used.
LEMMA CheckMoved ==
    ASSUME FlowTypes, PasskeyTypes, NEW j \in Jobs, Check(j), job[j].used # None
    PROVE  /\ FlowTypes' /\ job[j] # None /\ rows[job[j].used] \in Row
           /\ Becomes(j, "write", job[j].account, job[j].token, job[j].used, job[j].count, job[j].offer,
                      rows[job[j].used], job[j].own, job[j].found)
<1> DEFINE r == rows[job[j].used]
<1>1. /\ job[j] # None /\ starts' = starts /\ r # None
      /\ job' = [job EXCEPT ![j].at = "write", ![j].row = r]
    BY DEF Check, At, Found
<1>2. r \in Row
    BY <1>1, JobShape DEF PasskeyTypes, FlowTypes
<1> HIDE DEF r
<1>3. /\ job' \in [Jobs -> Job \cup {None}]
      /\ Becomes(j, "write", job[j].account, job[j].token, job[j].used, job[j].count, job[j].offer,
                 r, job[j].own, job[j].found)
    BY <1>1, <1>2, CheckMoves
<1>4. FlowTypes'
    BY <1>1, <1>3 DEF FlowTypes
<1> QED BY <1>1, <1>2, <1>3, <1>4 DEF r

\* Reading the identity reads the row of the token's account.
LEMMA GetMoved ==
    ASSUME FlowTypes, SessionTypes, KeypairTypes, NEW j \in Jobs, GetKeypair(j)
    PROVE  /\ FlowTypes' /\ job[j] # None /\ Caller(j) # None
           /\ Becomes(j, "got", job[j].account, job[j].token, job[j].used, job[j].count, job[j].offer,
                      job[j].row, job[j].own, keypair[Caller(j)])
<1> DEFINE f == keypair[Caller(j)]
<1>1. /\ job[j] # None /\ starts' = starts /\ Caller(j) # None /\ "got" \in Places
      /\ job' = [job EXCEPT ![j].at = "got", ![j].found = f]
    BY DEF GetKeypair, At, Places
<1>2. f \in Identity \cup {None}
    BY <1>1, CallerIs DEF KeypairTypes
<1> HIDE DEF f
<1>3. /\ job' \in [Jobs -> Job \cup {None}]
      /\ Becomes(j, "got", job[j].account, job[j].token, job[j].used, job[j].count, job[j].offer,
                 job[j].row, job[j].own, f)
    BY <1>1, <1>2, FoundMoves
<1>4. FlowTypes'
    BY <1>1, <1>3 DEF FlowTypes
<1> QED BY <1>1, <1>3, <1>4 DEF f

\* Generating a keypair numbers it and uses the tab's User Key.
LEMMA GenerateMoved ==
    ASSUME FlowTypes, SessionTypes, KeypairTypes, NEW j \in Jobs, Generate(j), Placed(job[j]), Named(job[j])
    PROVE  /\ FlowTypes' /\ job[j] # None /\ made' = made + 1 /\ job[j].uk \in Accounts
           /\ Becomes(j, "put", job[j].uk, token, job[j].used, job[j].count, job[j].offer,
                      job[j].row, made + 1, job[j].found)
<1> DEFINE i == made + 1
<1> DEFINE x == job[j].uk
<1>1. /\ job[j] # None /\ job[j].at = "got" /\ starts' = starts /\ x # Freed /\ made' = made + 1 /\ token \in 0..MaxSessions
      /\ job' = [job EXCEPT ![j].at = "put", ![j].token = token, ![j].own = i, ![j].account = x]
    BY DEF Generate, At, SessionTypes
<1>2. x \in Accounts /\ i \in Nat
    BY <1>1, JobShape DEF FlowTypes, KeypairTypes, Placed, Named
<1> HIDE DEF i, x
<1>3. /\ job' \in [Jobs -> Job \cup {None}]
      /\ Becomes(j, "put", x, token, job[j].used, job[j].count, job[j].offer,
                 job[j].row, i, job[j].found)
    BY <1>1, <1>2, GenerateMoves
<1>4. FlowTypes'
    BY <1>1, <1>3 DEF FlowTypes
<1> QED BY <1>1, <1>2, <1>3, <1>4 DEF i, x

\* The keypair that is stored is the one that was there, or the flow's.
LEMMA UpsertMoved ==
    ASSUME FlowTypes, SessionTypes, KeypairTypes, NEW j \in Jobs, Upsert(j), FlowInv(j)
    PROVE  /\ FlowTypes' /\ job[j] # None /\ Caller(j) # None
           /\ keypair' \in [Accounts -> Identity \cup {None}]
           /\ \A y \in Accounts : y # Caller(j) => keypair'[y] = keypair[y]
           /\ keypair'[Caller(j)] \in Identity
           /\ keypair[Caller(j)] # None => keypair'[Caller(j)] = keypair[Caller(j)]
           /\ keypair[Caller(j)] = None => /\ keypair'[Caller(j)].id = job[j].own
                                           /\ keypair'[Caller(j)].by = job[j].account
           /\ Becomes(j, "published", job[j].account, job[j].token, job[j].used, job[j].count, job[j].offer,
                      job[j].row, job[j].own, keypair'[Caller(j)])
<1> DEFINE x == Caller(j)
<1> DEFINE mine == [id |-> job[j].own, by |-> job[j].account]
<1> DEFINE f == keypair'[x]
<1>1. /\ job[j] # None /\ job[j].at = "put" /\ starts' = starts /\ x # None /\ "published" \in Places
      /\ keypair' = [keypair EXCEPT ![x] = IF @ = None THEN mine ELSE @]
      /\ job' = [job EXCEPT ![j].at = "published", ![j].found = f]
    BY DEF Upsert, At, Places
<1>2. x \in Accounts
    BY <1>1, CallerIs
<1>3. job[j].account \in Accounts /\ job[j].own \in Nat
    BY <1>1, JobShape DEF FlowTypes, FlowInv, Named
<1>4. mine \in Identity /\ mine.id = job[j].own /\ mine.by = job[j].account
    BY <1>3 DEF Identity
<1> HIDE DEF mine, x
<1>5. /\ keypair' \in [Accounts -> Identity \cup {None}]
      /\ \A y \in Accounts : y # x => keypair'[y] = keypair[y]
      /\ f = IF keypair[x] = None THEN mine ELSE keypair[x]
    BY <1>1, <1>2, <1>4 DEF KeypairTypes
<1>6. f \in Identity
    BY <1>2, <1>4, <1>5, Shapes DEF KeypairTypes
<1>9. /\ keypair[x] # None => f = keypair[x]
      /\ keypair[x] = None => f.id = job[j].own /\ f.by = job[j].account
    BY <1>4, <1>5
<1> HIDE DEF f
<1>7. /\ job' \in [Jobs -> Job \cup {None}]
      /\ Becomes(j, "published", job[j].account, job[j].token, job[j].used, job[j].count, job[j].offer,
                 job[j].row, job[j].own, f)
    BY <1>1, <1>6, FoundMoves
<1>8. FlowTypes'
    BY <1>1, <1>7 DEF FlowTypes
<1> QED BY <1>1, <1>5, <1>6, <1>7, <1>8, <1>9 DEF f, x

-----------------------------------------------------------------------------
(* Frames: what the flows and ceremonies that a step does not move keep.   *)

\* The row of passkey p is deleted, or still of its account and as wrapped.
RowLasts(p) ==
    rows'[p] = None \/ /\ rows[p] # None /\ rows'[p].of = rows[p].of
                       /\ rows[p].wrap # None => rows'[p].wrap # None

\* A step that keeps what is said of one flow and leaves the others keeps it
\* of all.
LEMMA OthersKeep ==
    ASSUME FlowTypes, SessionTypes, Grows, FlowsInv, NEW j \in Jobs,
           \A k \in Jobs \ {j} : Stays(k), FlowInv(j)'
    PROVE  FlowsInv'
<1>1. \A k \in Jobs \ {j} : FlowInv(k)'
    BY StayingFlow DEF FlowsInv
<1> QED BY <1>1 DEF FlowsInv

\* The ceremony of a flow keeps what was so of it.
LEMMA OfferedKept ==
    ASSUME PasskeyTypes, CeremonyTypes, Grows, NEW k \in Jobs, Offered(k), ceremony'[k] \in {ceremony[k], None}
    PROVE  Offered(k)'
<1> SUFFICES ASSUME ceremony[k] # None, ceremony'[k] = ceremony[k]
             PROVE  Offered(k)'
    BY DEF Offered
<1>1. ceremony[k].of \in users /\ users \subseteq users'
    BY DEF Offered, Grows
<1>2. ceremony[k] \in Offer
    BY DEF CeremonyTypes
<1>3. ASSUME NEW p \in Passkeys, ceremony[k].counts[p] # None
      PROVE  p \in created' /\ (p \notin Copied => ceremony[k].counts[p] <= counter'[<<p, 1>>])
    <2>1. p \in created /\ (p \notin Copied => ceremony[k].counts[p] <= counter[<<p, 1>>])
        BY <1>3 DEF Offered
    <2>2. ceremony[k].counts[p] \in Nat
        BY <1>2, <1>3, Shapes
    <2>3. /\ counter[<<p, 1>>] \in Nat /\ counter'[<<p, 1>>] \in Nat
          /\ counter[<<p, 1>>] <= counter'[<<p, 1>>] /\ created \subseteq created'
        BY DEF Grows
    <2> QED BY <2>1, <2>2, <2>3
<1> QED BY <1>1, <1>3 DEF Offered

\* What a ceremony's row says of its flow stays said while both stay.
LEMMA FittingKept ==
    ASSUME NEW k \in Jobs, Fitting(k), Stays(k), ceremony'[k] \in {ceremony[k], None}
    PROVE  Fitting(k)'
<1> SUFFICES ASSUME ceremony[k] # None, ceremony'[k] = ceremony[k], job'[k] # None, job'[k].at \in {"gesture", "finish"}
             PROVE  Fitting(k)'
    BY DEF Fitting
<1>1. /\ job[k] # None /\ job'[k].op = job[k].op /\ job'[k].at = job[k].at
      /\ job'[k].account = job[k].account /\ job'[k].used = job[k].used /\ job'[k].count = job[k].count
      /\ job'[k].offer = job[k].offer
    BY DEF Stays, Follows
<1> QED BY <1>1 DEF Fitting

\* What flow j does to the rows, to its own ceremony and to the passkey it uses
\* leaves the other flows' alone.
LEMMA CeremonyStep ==
    ASSUME PasskeyTypes, CeremonyTypes, FlowTypes, Grows, FlowsInv, CeremonyInv, NEW j \in Jobs,
           \A k \in Jobs \ {j} : Stays(k) /\ ceremony'[k] \in {ceremony[k], None},
           \A p \in Passkeys : RowLasts(p) \/ (Creating(job[j]) /\ p = job[j].used),
           \A p \in Passkeys : ceremony'[j] # None /\ ceremony'[j].counts[p] # None =>
               \/ ceremony[j] # None /\ ceremony[j].counts[p] # None
               \/ rows[p] # None
               \/ job[j] # None /\ p = job[j].used,
           job'[j] # None =>
               \/ job'[j].used = None
               \/ job[j] # None /\ job'[j].used = job[j].used
               \/ ceremony[j] # None /\ ceremony[j].counts[job'[j].used] # None
               \/ job'[j].used \notin created,
           NoCopies', Offered(j)', Fitting(j)', Fresh(j)', Lasting(j)'
    PROVE  CeremonyInv'
<1>1. ASSUME NEW k \in Jobs \ {j}
      PROVE  Offered(k)' /\ Fitting(k)'
    BY OfferedKept, FittingKept DEF CeremonyInv
<1>2. ASSUME NEW k \in Jobs \ {j}, Creating(job'[k])
      PROVE  /\ Creating(job[k]) /\ job'[k].used = job[k].used
             /\ job[k].used \in Passkeys /\ job[k].used \in created
    <2>1. /\ Creating(job[k]) /\ job'[k].used = job[k].used
          /\ job[k] # None /\ job[k].at \in {"insert", "finish"}
        BY <1>2 DEF Creating, Stays, Follows
    <2>2. job[k].used # None /\ job[k].used \in created
        BY <2>1 DEF FlowsInv, FlowInv, Asserted, Known
    <2> QED BY <2>1, <2>2 DEF PasskeyTypes
<1>3. ASSUME NEW k \in Jobs \ {j}
      PROVE  Fresh(k)'
    <2> SUFFICES ASSUME Creating(job'[k])
                 PROVE  /\ rows'[job'[k].used] = None
                        /\ \A i \in Jobs : /\ ceremony'[i] # None => ceremony'[i].counts[job'[k].used] = None
                                           /\ i # k /\ job'[i] # None => job'[i].used # job'[k].used
        BY DEF Fresh, Creating
    <2> DEFINE p == job[k].used
    <2>1. job'[k].used = p /\ p \in Passkeys /\ p \in created /\ p # None
        BY <1>2, AbsenceAssumption
    <2>2. /\ rows[p] = None
          /\ \A i \in Jobs : /\ ceremony[i] # None => ceremony[i].counts[p] = None
                             /\ i # k /\ job[i] # None => job[i].used # p
        BY <1>2 DEF CeremonyInv, Fresh
    <2>3. rows'[p] = None
        <3>1. RowLasts(p) \/ (Creating(job[j]) /\ p = job[j].used)
            BY <2>1
        <3>2. ~(Creating(job[j]) /\ p = job[j].used)
            BY <2>2 DEF Creating
        <3> QED BY <2>2, <3>1, <3>2 DEF RowLasts
    <2>4. ASSUME NEW i \in Jobs, ceremony'[i] # None
          PROVE  ceremony'[i].counts[p] = None
        <3>1. CASE i # j
            BY <2>2, <2>4, <3>1
        <3>2. CASE i = j
            BY <2>1, <2>2, <2>4, <3>2
        <3> QED BY <3>1, <3>2
    <2>5. ASSUME NEW i \in Jobs, i # k, job'[i] # None
          PROVE  job'[i].used # p
        <3>1. CASE i # j
            BY <2>2, <2>5, <3>1 DEF Stays, Follows
        <3>2. CASE i = j
            BY <2>1, <2>2, <2>5, <3>2
        <3> QED BY <3>1, <3>2
    <2> HIDE DEF p
    <2> QED BY <2>1, <2>3, <2>4, <2>5
<1>4. ASSUME NEW k \in Jobs \ {j}
      PROVE  Lasting(k)'
    <2> SUFFICES ASSUME job'[k] # None
                 PROVE  Lasting(k)'
        BY DEF Lasting
    <2>1. /\ job[k] # None /\ job'[k].op = job[k].op /\ job'[k].at = job[k].at
          /\ job'[k].used = job[k].used /\ job'[k].offer = job[k].offer
        BY DEF Stays, Follows
    <2>2. Lasting(k)
        BY DEF CeremonyInv
    <2>3. ASSUME NEW p \in Passkeys, p = job[k].used \/ (ceremony[k] # None /\ ceremony[k].counts[p] # None)
          PROVE  RowLasts(p)
        BY <2>1, <2>3 DEF CeremonyInv, Fresh
    <2>4. job[k].at \in {"check", "write"} => job[k].used \in Passkeys
        BY <2>1 DEF FlowsInv, FlowInv, Asserted, Known, PasskeyTypes
    <2>5. job[k].op = "unlock" /\ job[k].at \in {"gesture", "finish"} /\ ceremony'[k] # None =>
              \A p \in Passkeys : ceremony'[k].counts[p] # None => rows'[p] = None \/ rows'[p].wrap # None
        BY <2>1, <2>2, <2>3 DEF Lasting, RowLasts
    <2>6. job[k].op = "unlock" /\ job[k].at = "check" =>
              rows'[job[k].used] = None \/ rows'[job[k].used].wrap # None
        BY <2>1, <2>2, <2>3, <2>4 DEF Lasting, RowLasts
    <2>7. job[k].at = "write" => rows'[job[k].used] = None \/ rows'[job[k].used].of = job[k].offer.of
        BY <2>1, <2>2, <2>3, <2>4 DEF Lasting, RowLasts
    <2> QED BY <2>1, <2>5, <2>6, <2>7 DEF Lasting
<1> QED BY <1>1, <1>3, <1>4 DEF CeremonyInv

\* A step in which no flow moves.
LEMMA QuietStep ==
    ASSUME PasskeyTypes, CeremonyTypes, FlowTypes, SessionTypes, Grows, FlowsInv, CeremonyInv,
           \A k \in Jobs : Stays(k) /\ ceremony'[k] \in {ceremony[k], None},
           \A p \in Passkeys : RowLasts(p),
           counter' = counter
    PROVE  FlowsInv' /\ CeremonyInv'
<1>1. FlowsInv'
    BY StayingFlow DEF FlowsInv
<1>2. \A k \in Jobs : Offered(k)' /\ Fitting(k)'
    BY OfferedKept, FittingKept DEF CeremonyInv
<1>3. NoCopies'
    BY DEF CeremonyInv, NoCopies
<1>4. ASSUME NEW j \in Jobs
      PROVE  Fresh(j)' /\ Lasting(j)'
    <2>1. ASSUME Creating(job'[j])
          PROVE  /\ rows'[job'[j].used] = None
                 /\ \A k \in Jobs : /\ ceremony'[k] # None => ceremony'[k].counts[job'[j].used] = None
                                    /\ k # j /\ job'[k] # None => job'[k].used # job'[j].used
        <3>1. /\ Creating(job[j]) /\ job'[j].used = job[j].used
              /\ job[j] # None /\ job[j].at \in {"insert", "finish"}
            BY <2>1 DEF Creating, Stays, Follows
        <3>2. job[j].used \in Passkeys
            BY <3>1 DEF FlowsInv, FlowInv, Asserted, Known, PasskeyTypes
        <3>3. /\ rows[job[j].used] = None
              /\ \A k \in Jobs : /\ ceremony[k] # None => ceremony[k].counts[job[j].used] = None
                                 /\ k # j /\ job[k] # None => job[k].used # job[j].used
            BY <3>1 DEF CeremonyInv, Fresh
        <3>4. rows'[job[j].used] = None
            BY <3>2, <3>3 DEF RowLasts
        <3>5. \A k \in Jobs : job'[k] # None => job[k] # None /\ job'[k].used = job[k].used
            BY DEF Stays, Follows
        <3> QED BY <3>1, <3>3, <3>4, <3>5
    <2>2. Fresh(j)'
        BY <2>1 DEF Fresh, Creating
    <2>3. ASSUME job'[j] # None
          PROVE  Lasting(j)'
        <3>1. /\ job[j] # None /\ job'[j].op = job[j].op /\ job'[j].at = job[j].at
              /\ job'[j].used = job[j].used /\ job'[j].offer = job[j].offer
            BY <2>3 DEF Stays, Follows
        <3>2. Lasting(j)
            BY DEF CeremonyInv
        <3>4. job[j].at \in {"check", "write"} => job[j].used \in Passkeys
            BY <3>1 DEF FlowsInv, FlowInv, Asserted, Known, PasskeyTypes
        <3>5. job[j].op = "unlock" /\ job[j].at \in {"gesture", "finish"} /\ ceremony'[j] # None =>
                  \A p \in Passkeys : ceremony'[j].counts[p] # None => rows'[p] = None \/ rows'[p].wrap # None
            BY <3>1, <3>2 DEF Lasting, RowLasts
        <3>6. job[j].op = "unlock" /\ job[j].at = "check" =>
                  rows'[job[j].used] = None \/ rows'[job[j].used].wrap # None
            BY <3>1, <3>2, <3>4 DEF Lasting, RowLasts
        <3>7. job[j].at = "write" => rows'[job[j].used] = None \/ rows'[job[j].used].of = job[j].offer.of
            BY <3>1, <3>2, <3>4 DEF Lasting, RowLasts
        <3> QED BY <3>1, <3>5, <3>6, <3>7 DEF Lasting
    <2>4. job'[j] = None => Lasting(j)'
        BY DEF Lasting
    <2> QED BY <2>2, <2>3, <2>4
<1> QED BY <1>1, <1>2, <1>3, <1>4 DEF CeremonyInv

\* A flow that begins.
LEMMA BeginsStep ==
    ASSUME PasskeyTypes, CeremonyTypes, FlowTypes, SessionTypes, Grows, FlowsInv, CeremonyInv,
           NEW j \in Jobs, NEW t, NEW op, NEW place, NEW x, NEW u, NEW n, Begins(j, t, op, place, x, u, n),
           \/ op = "register" /\ place = "register" /\ x # None
           \/ op = "signIn" /\ place = "login" /\ x # None
           \/ op = "passkeyLogin" /\ place = "start" /\ x # None
           \/ op = "unlock" /\ place = "start" /\ u = None
           \/ op = "unlockPassword" /\ place = "me"
           \/ op = "enroll" /\ place = "start" /\ u # None
           \/ op = "ensure" /\ place = "get" /\ u # None
           \/ op \in {"signOut", "join"} /\ place = "logout",
           n # 0 => issuedTo'[n] # None,
           UNCHANGED <<rows, ceremony, counter>>
    PROVE  FlowsInv' /\ CeremonyInv'
<1>1. /\ job'[j] # None
      /\ job'[j].op = op /\ job'[j].uk = u /\ job'[j].at = place /\ job'[j].account = x /\ job'[j].token = n
      /\ job'[j].used = None /\ job'[j].count = 0 /\ job'[j].offer = None /\ job'[j].row = None
      /\ job'[j].found = None
      /\ \A k \in Jobs \ {j} : Stays(k)
    BY DEF Begins
<1>2. Placed(job'[j])
    BY <1>1 DEF Placed
<1>3. Named(job'[j])
    BY <1>1 DEF Named
<1>4. Asserted(job'[j])
    BY <1>1 DEF Asserted
<1>5. Known(j)' /\ Keyed(j)'
    BY <1>1 DEF Known, Keyed
<1>6. FlowInv(j)'
    BY <1>2, <1>3, <1>4, <1>5 DEF FlowInv
<1>7. FlowsInv'
    BY <1>1, <1>6, OthersKeep
<1>8. /\ Offered(j)' /\ Fitting(j)' /\ Fresh(j)' /\ Lasting(j)' /\ NoCopies'
    <2>1. Offered(j)'
        BY OfferedKept DEF CeremonyInv
    <2>2. Fitting(j)' /\ Fresh(j)' /\ Lasting(j)'
        BY <1>1 DEF Fitting, Fresh, Creating, Lasting
    <2> QED BY <2>1, <2>2 DEF CeremonyInv, NoCopies
<1>9. \A p \in Passkeys : RowLasts(p)
    BY DEF RowLasts
<1> QED BY <1>1, <1>7, <1>8, <1>9, CeremonyStep

-----------------------------------------------------------------------------
(* Steps in which no flow moves.                                           *)

Good == TypeOK /\ CredInv

\* The invariant is its parts.
LEMMA GoodInParts ==
    Good <=> /\ SessionTypes /\ PasskeyTypes /\ KeypairTypes /\ CeremonyTypes /\ FlowTypes /\ TabTypes
             /\ FlowsInv /\ SessionInv /\ CeremonyInv /\ RowsInv
BY TypesInParts DEF Good, CredInv

\* The parts after a step make the invariant after it.
LEMMA GoodNext ==
    ASSUME SessionTypes', PasskeyTypes', KeypairTypes', CeremonyTypes', FlowTypes', TabTypes',
           FlowsInv', SessionInv', CeremonyInv', RowsInv'
    PROVE  Good'
BY GoodInParts, PTL

\* A step keeps the types and invariants of what it leaves alone.
LEMMA Untouched ==
    /\ SessionTypes /\ UNCHANGED <<users, issuedTo, live, token>> => SessionTypes'
    /\ PasskeyTypes /\ UNCHANGED <<rows, created, counter, users>> => PasskeyTypes'
    /\ KeypairTypes /\ UNCHANGED <<keypair, made, uses>> => KeypairTypes'
    /\ CeremonyTypes /\ UNCHANGED ceremony => CeremonyTypes'
    /\ TabTypes /\ UNCHANGED <<tab, strayed>> => TabTypes'
    /\ SessionInv /\ UNCHANGED <<users, issuedTo, token>> => SessionInv'
    /\ RowsInv /\ UNCHANGED rows => RowsInv'
<1>1. SessionTypes /\ UNCHANGED <<users, issuedTo, live, token>> => SessionTypes'
    BY DEF SessionTypes
<1>2. PasskeyTypes /\ UNCHANGED <<rows, created, counter, users>> => PasskeyTypes'
    BY DEF PasskeyTypes, Counted
<1>3. KeypairTypes /\ UNCHANGED <<keypair, made, uses>> => KeypairTypes'
    BY DEF KeypairTypes
<1>4. CeremonyTypes /\ UNCHANGED ceremony => CeremonyTypes'
    BY DEF CeremonyTypes
<1>5. TabTypes /\ UNCHANGED <<tab, strayed>> => TabTypes'
    BY DEF TabTypes
<1>6. SessionInv /\ UNCHANGED <<users, issuedTo, token>> => SessionInv'
    BY DEF SessionInv
<1>7. RowsInv /\ UNCHANGED rows => RowsInv'
    BY DEF RowsInv
<1> QED BY <1>1, <1>2, <1>3, <1>4, <1>5, <1>6, <1>7

\* A step that touches neither accounts, sessions, passkeys nor ceremonies, in
\* which no flow moves: its types remain to be shown.
LEMMA QuietGood ==
    ASSUME Good, FlowTypes', KeypairTypes', TabTypes', \A k \in Jobs : Stays(k),
           UNCHANGED <<users, issuedTo, rows, created, counter, keypair, ceremony, made>>,
           live' \subseteq live, token' \in 0..MaxSessions, token' # 0 => issuedTo[token'] # None
    PROVE  Good'
<1>1. SessionTypes /\ PasskeyTypes /\ KeypairTypes /\ CeremonyTypes /\ FlowTypes
      /\ FlowsInv /\ SessionInv /\ CeremonyInv /\ RowsInv
    BY GoodInParts
<1>2. SessionTypes'
    BY <1>1 DEF SessionTypes
<1>3. SessionInv'
    BY <1>1 DEF SessionInv
<1>4. Grows
    BY <1>1, StillGrows
<1>5. \A p \in Passkeys : RowLasts(p)
    BY DEF RowLasts
<1>6. FlowsInv' /\ CeremonyInv'
    BY <1>1, <1>4, <1>5, QuietStep
<1>7. PasskeyTypes' /\ CeremonyTypes' /\ RowsInv'
    BY <1>1, Untouched
<1> QED BY <1>2, <1>3, <1>6, <1>7, GoodNext

\* The token a flow carries is of a session.
LEMMA TokenOfFlow ==
    ASSUME Good, NEW j \in Jobs, job[j] # None
    PROVE  /\ job[j] \in Job /\ job[j].tab \in Tabs /\ job[j].token \in 0..MaxSessions
           /\ job[j].token # 0 => issuedTo[job[j].token] # None
           /\ Placed(job[j]) /\ Named(job[j]) /\ Asserted(job[j]) /\ Known(j) /\ Keyed(j)
<1>1. job[j] \in Job /\ FlowInv(j)
    BY GoodInParts DEF FlowTypes, FlowsInv
<1> QED BY <1>1, JobShape DEF FlowInv, Known

\* A flow that fails and ends keeps the invariant.
LEMMA FailsGood == ASSUME Good, NEW j \in Jobs, Fails(j), job'[j] = None PROVE Good'
<1>1. FlowTypes' /\ \A k \in Jobs : Stays(k)
    <2>1. FlowTypes /\ ~Advances(j, "leave")
        BY GoodInParts DEF Advances, Arrives, Becomes
    <2> QED BY <2>1, FailsMoves
<1>2. UNCHANGED <<users, issuedTo, rows, created, counter, keypair, ceremony, made, live, token, tab, uses, strayed>>
    BY DEF Fails, server, history
<1>3. KeypairTypes' /\ TabTypes'
    BY <1>2, Untouched, GoodInParts
<1>4. token' \in 0..MaxSessions /\ (token' # 0 => issuedTo[token'] # None)
    BY <1>2, GoodInParts DEF SessionTypes, SessionInv
<1> QED BY <1>1, <1>2, <1>3, <1>4, QuietGood

\* A reload, a visit, a lock.
LEMMA ShutShape == Shut.authed = FALSE /\ Shut.key = None /\ Shut.pending = None
                   /\ Shut \in [authed : BOOLEAN, key : Accounts \cup {None}, pending : Accounts \cup {None}]
BY DEF Shut

\* Reloading a tab keeps it: its flows end.
LEMMA ReloadGood ==
    ASSUME Good, NEW t \in Tabs, Reload(t),
           UNCHANGED <<server, created, counter, starts, history>>
    PROVE  Good'
<1>1. UNCHANGED <<users, issuedTo, rows, created, counter, keypair, ceremony, made, live, uses, strayed, starts>>
    BY DEF server, history
<1>2. FlowTypes' /\ \A k \in Jobs : Stays(k)
    BY <1>1, DropsQuietly, GoodInParts DEF Reload, FlowTypes
<1>3. TabTypes'
    BY <1>1, ShutShape, GoodInParts DEF Reload, TabTypes
<1>4. KeypairTypes'
    BY <1>1, Untouched, GoodInParts
<1>5. token' = 0 /\ token' \in 0..MaxSessions
    BY BoundsAssumption DEF Reload
<1> QED BY <1>1, <1>2, <1>3, <1>4, <1>5, QuietGood

\* Opening a tab keeps it.
LEMMA VisitGood == ASSUME Good, NEW t \in Tabs, Visit(t) PROVE Good'
<1>1. UNCHANGED <<users, issuedTo, rows, created, counter, keypair, ceremony, made, live, uses, strayed, starts, token>>
    BY DEF Visit, server, history
<1>2. FlowTypes' /\ \A k \in Jobs : Stays(k)
    BY <1>1, DropsQuietly, GoodInParts DEF Visit, FlowTypes
<1>3. TabTypes'
    <2>1. [Shut EXCEPT !.authed = TRUE] \in [authed : BOOLEAN, key : Accounts \cup {None}, pending : Accounts \cup {None}]
        BY ShutShape
    <2>2. tab' = [tab EXCEPT ![t] = [Shut EXCEPT !.authed = TRUE]]
        BY DEF Visit
    <2> QED BY <1>1, <2>1, <2>2, GoodInParts DEF TabTypes
<1>4. KeypairTypes'
    BY <1>1, Untouched, GoodInParts
<1>5. token' \in 0..MaxSessions /\ (token' # 0 => issuedTo[token'] # None)
    BY <1>1, GoodInParts DEF SessionTypes, SessionInv
<1> QED BY <1>1, <1>2, <1>3, <1>4, <1>5, QuietGood

\* Locking a tab keeps it.
LEMMA LockGood == ASSUME Good, NEW t \in Tabs, Lock(t) PROVE Good'
<1>1. UNCHANGED <<users, issuedTo, rows, created, counter, keypair, ceremony, made, live, uses, strayed, starts, token>>
    BY DEF Lock, server, history
<1>2. FlowTypes' /\ \A k \in Jobs : Stays(k)
    BY <1>1, FreedRows, GoodInParts DEF Lock, FlowTypes, Stays
<1>3. TabTypes'
    BY <1>1, GoodInParts DEF Lock, TabTypes
<1>4. KeypairTypes'
    BY <1>1, Untouched, GoodInParts
<1>5. token' \in 0..MaxSessions /\ (token' # 0 => issuedTo[token'] # None)
    BY <1>1, GoodInParts DEF SessionTypes, SessionInv
<1> QED BY <1>1, <1>2, <1>3, <1>4, <1>5, QuietGood

\* The rows of FreedIn, one of them gone.
LEMMA FreedWithout ==
    ASSUME FlowTypes, NEW j \in Jobs, NEW t \in Tabs, job' = [FreedIn(t) EXCEPT ![j] = None]
    PROVE  /\ job' \in [Jobs -> Job \cup {None}] /\ job'[j] = None
           /\ \A k \in Jobs \ {j} : job'[k] = FreedIn(t)[k]
           /\ \A k \in Jobs : Stays(k)
<1>1. FreedIn(t) \in [Jobs -> Job \cup {None}] /\ \A k \in Jobs : Follows(job[k], FreedIn(t)[k])
    BY FreedRows
<1>2. /\ job' \in [Jobs -> Job \cup {None}] /\ job'[j] = None
      /\ \A k \in Jobs \ {j} : job'[k] = FreedIn(t)[k]
    BY <1>1
<1>3. Stays(j)
    BY <1>2 DEF Stays, Follows
<1>4. ASSUME NEW k \in Jobs \ {j}
      PROVE  Stays(k)
    <2>1. Follows(job[k], FreedIn(t)[k]) /\ job'[k] = FreedIn(t)[k]
        BY <1>1, <1>2
    <2> QED BY <2>1 DEF Stays
<1> QED BY <1>2, <1>3, <1>4

\* Joining as somebody else keeps it.
LEMMA JoinGood == ASSUME Good, NEW j \in Jobs, JoinAsDifferentAccount(j) PROVE Good'
<1> DEFINE t == job[j].tab
<1>1. UNCHANGED <<users, issuedTo, rows, created, counter, keypair, ceremony, made, live, uses, starts>>
    BY DEF JoinAsDifferentAccount, server
<1>2. t \in Tabs
    BY TokenOfFlow DEF JoinAsDifferentAccount, At
<1>3. FlowTypes' /\ \A k \in Jobs : Stays(k)
    <2>1. job' = [FreedIn(t) EXCEPT ![j] = None]
        BY DEF JoinAsDifferentAccount
    <2> HIDE DEF t
    <2>2. job' \in [Jobs -> Job \cup {None}] /\ \A k \in Jobs : Stays(k)
        BY <1>2, <2>1, FreedWithout, GoodInParts
    <2> QED BY <1>1, <2>2, GoodInParts DEF FlowTypes
<1>4. TabTypes'
    <2>1. tab' = [tab EXCEPT ![t] = Shut] /\ strayed' \subseteq strayed \cup {t}
        BY DEF JoinAsDifferentAccount
    <2> HIDE DEF t
    <2> QED BY <1>2, <2>1, ShutShape, GoodInParts DEF TabTypes
<1>5. KeypairTypes'
    BY <1>1, Untouched, GoodInParts
<1>6. token' = 0 /\ token' \in 0..MaxSessions
    BY BoundsAssumption DEF JoinAsDifferentAccount
<1> QED BY <1>1, <1>3, <1>4, <1>5, <1>6, QuietGood

\* The end of a session keeps it.
LEMMA SessionEndsGood == ASSUME Good, NEW s \in Sessions, SessionEnds(s) PROVE Good'
<1>1. UNCHANGED <<users, issuedTo, rows, created, counter, keypair, ceremony, made, uses, strayed, starts, token, tab, job>>
    BY DEF SessionEnds, history
<1>2. live' \subseteq live
    BY DEF SessionEnds
<1>3. FlowTypes' /\ \A k \in Jobs : Stays(k)
    BY <1>1, UnchangedStays, GoodInParts DEF FlowTypes
<1>4. KeypairTypes' /\ TabTypes'
    BY <1>1, Untouched, GoodInParts
<1>5. token' \in 0..MaxSessions /\ (token' # 0 => issuedTo[token'] # None)
    BY <1>1, GoodInParts DEF SessionTypes, SessionInv
<1> QED BY <1>1, <1>2, <1>3, <1>4, <1>5, QuietGood

\* The flow of an identity key ends with it; whose key it is and which, was
\* known.
LEMMA HandsGood ==
    ASSUME Good, NEW j \in Jobs, HasKeypair(j) \/ Published(j)
    PROVE  Good'
<1>1. /\ job[j] # None /\ job[j].at \in {"got", "published"} /\ job[j].uk # Freed /\ made' = made
      /\ \E id : /\ Hands(j, id)
                 /\ (id = job[j].own /\ job[j].at = "published") \/ (job[j].found # None /\ id = job[j].found.id)
    BY DEF HasKeypair, Published, Unwraps, At
<1>2. PICK id : /\ Hands(j, id)
                /\ (id = job[j].own /\ job[j].at = "published") \/ (job[j].found # None /\ id = job[j].found.id)
    BY <1>1
<1>3. /\ uses' = uses \cup {[tab |-> job[j].tab, by |-> job[j].uk, id |-> id]} /\ Ends(j)
      /\ UNCHANGED <<users, issuedTo, live, rows, ceremony, keypair, created, counter, token, tab, starts, strayed, made>>
    BY <1>1, <1>2 DEF Hands, server
<1>4. job' \in [Jobs -> Job \cup {None}] /\ \A k \in Jobs : Stays(k)
    BY <1>3, EndsQuietly, GoodInParts
<1>5. /\ job[j].tab \in Tabs /\ job[j].uk \in Accounts
      /\ job[j].at = "published" => job[j].own \in 1..made
      /\ job[j].found # None => /\ job[j].token \in Sessions /\ issuedTo[job[j].token] \in Accounts
                                /\ job[j].found = keypair[issuedTo[job[j].token]]
    <2>1. /\ Placed(job[j]) /\ Named(job[j]) /\ Known(j) /\ Keyed(j) /\ job[j] \in Job
        BY <1>1, TokenOfFlow
    <2>2. job[j].uk \in Accounts /\ job[j].tab \in Tabs
        BY <1>1, <2>1, JobShape DEF Placed, Named
    <2>3. job[j].found # None => /\ job[j].token # 0 /\ job[j].found = keypair[issuedTo[job[j].token]]
        BY <1>1, <2>1 DEF Keyed
    <2>4. job[j].token # 0 => job[j].token \in Sessions /\ issuedTo[job[j].token] \in Accounts
        BY <2>1, JobShape, BoundsAssumption, GoodInParts DEF Known, Sessions, SessionTypes
    <2> QED BY <1>1, <2>1, <2>2, <2>3, <2>4 DEF Keyed
<1>6. id \in 1..made
    BY <1>2, <1>5, GoodInParts DEF KeypairTypes
<1>7. KeypairTypes'
    <2>1. [tab |-> job[j].tab, by |-> job[j].uk, id |-> id] \in [tab : Tabs, by : Accounts, id : 1..made]
        BY <1>5, <1>6
    <2> QED BY <1>3, <2>1, GoodInParts DEF KeypairTypes
<1>8. TabTypes' /\ FlowTypes'
    BY <1>3, <1>4, Untouched, GoodInParts DEF FlowTypes
<1>9. token' \in 0..MaxSessions /\ (token' # 0 => issuedTo[token'] # None)
    BY <1>3, GoodInParts DEF SessionTypes, SessionInv
<1> QED BY <1>3, <1>4, <1>7, <1>8, <1>9, QuietGood

\* A login arrives: the token it carries is put into localStorage.
LEMMA LoggedInGood == ASSUME Good, NEW j \in Jobs, LoggedIn(j) PROVE Good'
<1>1. /\ UNCHANGED <<users, issuedTo, live, rows, ceremony, keypair, created, counter, starts, made, uses>>
      /\ job[j] # None /\ Ends(j) /\ token' = job[j].token
      /\ strayed' = strayed \cup Strays(j, job[j].account) \cup Misled(j)
      /\ \E x \in {IF job[j].op = "signIn" THEN job[j].account ELSE job[j].row.wrap,
                   IF job[j].op = "signIn" THEN job[j].account ELSE None} :
             tab' = [tab EXCEPT ![job[j].tab].authed = TRUE, ![job[j].tab].pending = IF x = None THEN @ ELSE x]
      /\ job[j].at = "arrive" /\ job[j].op \in {"signIn", "passkeyLogin"}
    BY DEF LoggedIn, SignedIn, server, At
<1>2. job[j] \in Job /\ job[j].tab \in Tabs /\ Asserted(job[j])
      /\ job[j].token \in 0..MaxSessions /\ (job[j].token # 0 => issuedTo[job[j].token] # None)
    BY <1>1, TokenOfFlow
<1>3. FlowTypes' /\ \A k \in Jobs : Stays(k)
    BY <1>1, EndsQuietly, GoodInParts DEF FlowTypes
<1>4. KeypairTypes'
    BY <1>1, Untouched, GoodInParts
<1>5. TabTypes'
    <2>1. PICK x \in {IF job[j].op = "signIn" THEN job[j].account ELSE job[j].row.wrap,
                      IF job[j].op = "signIn" THEN job[j].account ELSE None} :
             tab' = [tab EXCEPT ![job[j].tab].authed = TRUE, ![job[j].tab].pending = IF x = None THEN @ ELSE x]
        BY <1>1
    <2>2. job[j].op = "passkeyLogin" => job[j].row \in Row
        BY <1>1, <1>2, JobShape DEF Asserted
    <2>3. x \in Accounts \cup {None}
        BY <1>1, <1>2, <2>2, JobShape, Shapes
    <2>4. strayed' \subseteq Tabs
        BY <1>1, GoodInParts DEF TabTypes, Strays, Misled
    <2> QED BY <1>2, <2>1, <2>3, <2>4, GoodInParts DEF TabTypes
<1> QED BY <1>1, <1>2, <1>3, <1>4, <1>5, QuietGood

\* The expiry of a ceremony keeps it.
LEMMA ExpiresGood == ASSUME Good, NEW j \in Jobs, CeremonyExpires(j) PROVE Good'
<1>1. /\ UNCHANGED <<users, issuedTo, live, rows, keypair, created, counter, token, tab, job, starts, made, uses, strayed>>
      /\ ceremony' = [ceremony EXCEPT ![j] = None]
    BY DEF CeremonyExpires, history
<1>2. /\ SessionTypes /\ PasskeyTypes /\ KeypairTypes /\ CeremonyTypes /\ FlowTypes /\ TabTypes
      /\ FlowsInv /\ SessionInv /\ CeremonyInv /\ RowsInv
    BY GoodInParts
<1>3. SessionTypes' /\ PasskeyTypes' /\ KeypairTypes' /\ TabTypes' /\ SessionInv' /\ RowsInv'
    BY <1>1, <1>2, Untouched
<1>4. CeremonyTypes' /\ \A k \in Jobs : ceremony'[k] \in {ceremony[k], None}
    BY <1>1, <1>2 DEF CeremonyTypes
<1>5. FlowTypes' /\ \A k \in Jobs : Stays(k)
    BY <1>1, <1>2, UnchangedStays DEF FlowTypes
<1>6. Grows
    BY <1>1, <1>2, StillGrows
<1>7. \A p \in Passkeys : RowLasts(p)
    BY <1>1 DEF RowLasts
<1>8. FlowsInv' /\ CeremonyInv'
    BY <1>1, <1>2, <1>4, <1>5, <1>6, <1>7, QuietStep
<1> QED BY <1>3, <1>4, <1>5, <1>8, GoodNext

\* A step that changes passkeys and in which no flow moves.
LEMMA QuietRows ==
    ASSUME Good, FlowTypes', PasskeyTypes', RowsInv', \A k \in Jobs : Stays(k),
           \A p \in Passkeys : RowLasts(p),
           UNCHANGED <<users, issuedTo, live, token, tab, created, counter, keypair, ceremony, made, uses, strayed>>
    PROVE  Good'
<1>1. /\ SessionTypes /\ PasskeyTypes /\ KeypairTypes /\ CeremonyTypes /\ FlowTypes /\ TabTypes
      /\ FlowsInv /\ SessionInv /\ CeremonyInv /\ RowsInv
    BY GoodInParts
<1>2. SessionTypes' /\ KeypairTypes' /\ TabTypes' /\ SessionInv' /\ CeremonyTypes'
    BY <1>1, Untouched
<1>3. Grows
    BY <1>1, StillGrows
<1>4. FlowsInv' /\ CeremonyInv'
    BY <1>1, <1>3, QuietStep
<1> QED BY <1>2, <1>4, GoodNext

\* Passkeys of which one is replaced by a row of the same account that is no
\* more suspect than it may be.
LEMMA RowReplaced ==
    ASSUME PasskeyTypes, RowsInv, NEW p \in Passkeys, NEW r \in Row \cup {None},
           rows' = [rows EXCEPT ![p] = r],
           r # None => /\ rows[p] # None /\ r.of = rows[p].of /\ (rows[p].wrap # None => r.wrap # None)
                       /\ Counted(p, r.count) /\ (r.anomaly => rows[p].anomaly \/ p \in Copied),
           UNCHANGED <<users, created, counter>>
    PROVE  PasskeyTypes' /\ RowsInv' /\ \A q \in Passkeys : RowLasts(q)
<1>1. /\ rows' \in [Passkeys -> Row \cup {None}] /\ rows'[p] = r
      /\ \A q \in Passkeys \ {p} : rows'[q] = rows[q]
    BY DEF PasskeyTypes
<1>2. \A q \in Passkeys : RowLasts(q)
    BY <1>1 DEF RowLasts
<1>3. RowsInv'
    BY <1>1 DEF RowsInv
<1>4. \A q \in Passkeys : rows'[q] # None => q \in created' /\ rows'[q].of \in users'
    BY <1>1 DEF PasskeyTypes
<1>5. \A q \in Passkeys : rows'[q] # None => Counted(q, rows'[q].count)
    BY <1>1 DEF PasskeyTypes
<1>6. PasskeyTypes'
    BY <1>1, <1>4, <1>5 DEF PasskeyTypes, Counted
<1> QED BY <1>2, <1>3, <1>6

\* Deleting a passkey keeps it.
LEMMA DeleteGood == ASSUME Good, NEW p \in Passkeys, DeletePasskey(p) PROVE Good'
<1>1. /\ UNCHANGED <<users, issuedTo, live, token, tab, created, counter, keypair, ceremony, made, uses, strayed, job, starts>>
      /\ rows' = [rows EXCEPT ![p] = None]
    BY DEF DeletePasskey, history
<1>2. PasskeyTypes' /\ RowsInv' /\ \A q \in Passkeys : RowLasts(q)
    BY <1>1, RowReplaced, GoodInParts
<1>3. FlowTypes' /\ \A k \in Jobs : Stays(k)
    BY <1>1, UnchangedStays, GoodInParts DEF FlowTypes
<1> QED BY <1>1, <1>2, <1>3, QuietRows

\* An alarm is about an authenticator that exists twice.
LEMMA AlarmGood == ASSUME Good, NEW j \in Jobs, Alarm(j) PROVE Good'
<1> DEFINE p == job[j].used
<1> DEFINE r == [rows[p] EXCEPT !.anomaly = TRUE]
<1>1. /\ UNCHANGED <<users, issuedTo, live, token, tab, created, counter, keypair, ceremony, made, uses, strayed, starts>>
      /\ rows' = [rows EXCEPT ![p].anomaly = TRUE] /\ Ends(j)
      /\ job[j] # None /\ job[j].at = "check" /\ rows[p] # None /\ ~Accepted(j)
    BY DEF Alarm, history, At, Found
<1>2. /\ job[j] \in Job /\ Asserted(job[j]) /\ Known(j)
      /\ PasskeyTypes /\ RowsInv /\ FlowTypes
    BY <1>1, TokenOfFlow, GoodInParts
<1>3. p \in Passkeys /\ p \in Copied
    <2>1. p \in Passkeys /\ job[j].offer \in Offer /\ job[j].count \in Nat
        BY <1>1, <1>2, JobShape DEF Asserted
    <2>2. job[j].offer.counts[p] \in Nat
        BY <1>1, <1>2, <2>1, Shapes DEF Asserted
    <2> QED BY <1>1, <1>2, <2>1, <2>2 DEF Asserted, Accepted
<1>4. rows[p] \in Row
    BY <1>1, <1>2, <1>3 DEF PasskeyTypes
<1>5. /\ r \in Row /\ r.of = rows[p].of /\ r.wrap = rows[p].wrap /\ r.count = rows[p].count
      /\ rows' = [rows EXCEPT ![p] = r]
    BY <1>1, <1>2, <1>3, <1>4 DEF Row, PasskeyTypes
<1>6. Counted(p, rows[p].count)
    BY <1>1, <1>2, <1>3 DEF PasskeyTypes
<1> HIDE DEF p, r
<1>7. PasskeyTypes' /\ RowsInv' /\ \A q \in Passkeys : RowLasts(q)
    BY <1>1, <1>2, <1>3, <1>5, <1>6, RowReplaced
<1>8. FlowTypes' /\ \A k \in Jobs : Stays(k)
    BY <1>1, <1>2, EndsQuietly DEF FlowTypes
<1> QED BY <1>1, <1>7, <1>8, QuietRows

\* An update of a passkey from the copy that was read: its account stays, and
\* the counter is one that the authenticator has reached.
LEMMA WriteRows ==
    ASSUME Good, NEW j \in Jobs, Write(j)
    PROVE  PasskeyTypes' /\ RowsInv' /\ \A q \in Passkeys : RowLasts(q)
<1> DEFINE p == job[j].used
<1> DEFINE r == Written(job[j])
<1> DEFINE count == IF job[j].count > job[j].row.count THEN job[j].count ELSE job[j].row.count
<1> DEFINE wrap == IF job[j].op = "enroll" THEN job[j].account ELSE rows[p].wrap
<1>1. /\ UNCHANGED <<users, created, counter>>
      /\ rows' = [rows EXCEPT ![p] = r]
      /\ job[j] # None /\ job[j].at = "write"
    BY DEF Write, At
<1>2. /\ job[j] \in Job /\ Asserted(job[j]) /\ Known(j) /\ Named(job[j])
      /\ PasskeyTypes /\ RowsInv /\ FlowTypes
    BY <1>1, TokenOfFlow, GoodInParts
<1>3. /\ p # None /\ job[j].row # None
    BY <1>1, <1>2 DEF Asserted
<1>4. /\ p \in Passkeys /\ job[j].row \in Row /\ job[j].count \in Nat /\ job[j].account \in Accounts \cup {None}
    BY <1>2, <1>3, JobShape
<1>5. count \in Nat /\ Counted(p, count)
    BY <1>2, <1>3, <1>4, Shapes DEF Known
<1>6. CASE rows[p] = None
    <2>1. r = None
        BY <1>6 DEF Written, WrittenFor
    <2> HIDE DEF p, r
    <2> QED BY <1>1, <1>2, <1>4, <2>1, RowReplaced
<1>7. CASE rows[p] # None
    <2>1. rows[p] \in Row
        BY <1>2, <1>4, <1>7 DEF PasskeyTypes
    <2>2. r = [rows[p] EXCEPT !.count = count, !.wrap = wrap]
        BY <1>7 DEF Written, WrittenFor
    <2>3. wrap \in Accounts \cup {None} /\ (rows[p].wrap # None => wrap # None)
        BY <1>1, <1>2, <1>4, <2>1, Shapes DEF Named
    <2> HIDE DEF p, r, count, wrap
    <2>4. r \in Row /\ r.of = rows[p].of /\ r.wrap = wrap /\ r.count = count /\ r.anomaly = rows[p].anomaly
        BY <1>5, <2>1, <2>2, <2>3 DEF Row
    <2> QED BY <1>1, <1>2, <1>4, <1>5, <1>7, <2>3, <2>4, RowReplaced
<1> QED BY <1>6, <1>7

\* A flow that begins, in a step that touches neither the server's rows nor the
\* authenticators.
LEMMA BeginsGood ==
    ASSUME Good, FlowTypes', TabTypes',
           UNCHANGED <<users, issuedTo, live, rows, created, counter, keypair, ceremony, made, uses>>,
           token' \in 0..MaxSessions, token' # 0 => issuedTo[token'] # None,
           NEW j \in Jobs, NEW t, NEW op, NEW place, NEW x, NEW u, NEW n, Begins(j, t, op, place, x, u, n),
           \/ op = "register" /\ place = "register" /\ x # None
           \/ op = "signIn" /\ place = "login" /\ x # None
           \/ op = "passkeyLogin" /\ place = "start" /\ x # None
           \/ op = "unlock" /\ place = "start" /\ u = None
           \/ op = "unlockPassword" /\ place = "me"
           \/ op = "enroll" /\ place = "start" /\ u # None
           \/ op = "ensure" /\ place = "get" /\ u # None
           \/ op \in {"signOut", "join"} /\ place = "logout",
           n # 0 => issuedTo[n] # None
    PROVE  Good'
<1>1. /\ SessionTypes /\ PasskeyTypes /\ KeypairTypes /\ CeremonyTypes /\ FlowTypes /\ TabTypes
      /\ FlowsInv /\ SessionInv /\ CeremonyInv /\ RowsInv
    BY GoodInParts
<1>2. KeypairTypes' /\ PasskeyTypes' /\ CeremonyTypes' /\ RowsInv'
    BY <1>1, Untouched
<1>3. SessionTypes'
    BY <1>1 DEF SessionTypes
<1>4. SessionInv'
    BY <1>1 DEF SessionInv
<1>5. Grows
    BY <1>1, StillGrows
<1>6. n # 0 => issuedTo'[n] # None
    OBVIOUS
<1>7. FlowsInv' /\ CeremonyInv'
    BY <1>1, <1>5, <1>6, BeginsStep
<1> QED BY <1>2, <1>3, <1>4, <1>7, GoodNext

\* What is started from a form, the overlay or the shell.
LEMMA StartGood ==
    ASSUME Good, NEW t \in Tabs, NEW op, NEW place \in Places, NEW x \in Accounts \cup {None}, Start(t, op, place, x),
           \/ op = "register" /\ place = "register" /\ x # None
           \/ op = "signIn" /\ place = "login" /\ x # None
           \/ op = "passkeyLogin" /\ place = "start" /\ x # None
           \/ op = "unlock" /\ place = "start" /\ tab[t].key = None
           \/ op = "unlockPassword" /\ place = "me"
           \/ op = "enroll" /\ place = "start" /\ tab[t].key # None
           \/ op = "ensure" /\ place = "get" /\ tab[t].key # None
           \/ op \in {"signOut", "join"} /\ place = "logout"
    PROVE  Good'
<1>1. UNCHANGED <<users, issuedTo, live, rows, created, counter, keypair, ceremony, made, uses, strayed, token, tab>>
    BY DEF Start, server, history
<1>2. SessionTypes /\ FlowTypes /\ TabTypes /\ SessionInv
    BY GoodInParts
<1>3. op \in {"register", "signIn", "passkeyLogin", "unlock", "unlockPassword",
              "enroll", "ensure", "signOut", "join"}
    OBVIOUS
<1>4. /\ FlowTypes'
      /\ \E j \in Jobs : job[j] = None /\ Begins(j, t, op, place, x, tab[t].key, token)
    BY <1>2, <1>3, StartBegins
<1>5. PICK j \in Jobs : Begins(j, t, op, place, x, tab[t].key, token)
    BY <1>4
<1>6. TabTypes'
    BY <1>1, <1>2, Untouched
<1>7. /\ token' \in 0..MaxSessions /\ (token' # 0 => issuedTo[token'] # None)
      /\ (token # 0 => issuedTo[token] # None)
    BY <1>1, <1>2 DEF SessionTypes, SessionInv
<1> DEFINE u == tab[t].key
<1> DEFINE n == token
<1> HIDE DEF u, n
<1>8. Begins(j, t, op, place, x, u, n) /\ (n # 0 => issuedTo[n] # None)
    BY <1>5, <1>7 DEF u, n
<1>9. \/ op = "register" /\ place = "register" /\ x # None
      \/ op = "signIn" /\ place = "login" /\ x # None
      \/ op = "passkeyLogin" /\ place = "start" /\ x # None
      \/ op = "unlock" /\ place = "start" /\ u = None
      \/ op = "unlockPassword" /\ place = "me"
      \/ op = "enroll" /\ place = "start" /\ u # None
      \/ op = "ensure" /\ place = "get" /\ u # None
      \/ op \in {"signOut", "join"} /\ place = "logout"
    BY DEF u
<1> QED BY <1>1, <1>4, <1>6, <1>7, <1>8, <1>9, BeginsGood

\* Submitting a form, answering the overlay or using the shell keeps it.
LEMMA FormsGood == ASSUME Good, NEW t \in Tabs, Form(t) \/ Overlay(t) \/ Shell(t) PROVE Good'
<1>1. {"register", "login", "start", "me", "get", "logout"} \subseteq Places
    BY DEF Places
<1>2. CASE Form(t)
    <2>1. PICK x \in Accounts : \/ Start(t, "register", "register", x)
                                \/ Start(t, "signIn", "login", x)
                                \/ Start(t, "passkeyLogin", "start", x)
        BY <1>2 DEF Form
    <2>2. x # None /\ x \in Accounts \cup {None}
        BY AbsenceAssumption
    <2> QED BY <1>1, <2>1, <2>2, StartGood
<1>3. CASE Overlay(t)
    <2>1. tab[t].key = None /\ (Start(t, "unlock", "start", None) \/ Start(t, "unlockPassword", "me", None))
        BY <1>3 DEF Overlay
    <2> QED BY <1>1, <2>1, StartGood
<1>4. CASE Shell(t)
    <2>1. \/ Start(t, "join", "logout", None)
          \/ Start(t, "signOut", "logout", None)
          \/ tab[t].key # None /\ (Start(t, "enroll", "start", None) \/ Start(t, "ensure", "get", None))
        BY <1>4 DEF Shell
    <2> QED BY <1>1, <2>1, StartGood
<1> QED BY <1>2, <1>3, <1>4

\* Unlocking with the pending key keeps it.
LEMMA PendingGood == ASSUME Good, NEW t \in Tabs, TakePending(t) PROVE Good'
<1>1. /\ UNCHANGED <<users, issuedTo, live, rows, created, counter, keypair, ceremony, made, uses, strayed, token>>
      /\ tab[t].pending # None
      /\ tab' = [tab EXCEPT ![t].key = tab[t].pending, ![t].pending = None]
    BY DEF TakePending, server, history
<1>2. SessionTypes /\ FlowTypes /\ TabTypes /\ SessionInv
    BY GoodInParts
<1>3. /\ FlowTypes'
      /\ \E j \in Jobs : job[j] = None /\ Begins(j, t, "ensure", "get", None, tab[t].pending, token)
    BY <1>2, PendingBegins
<1> DEFINE u == tab[t].pending
<1> DEFINE n == token
<1>4. PICK j \in Jobs : Begins(j, t, "ensure", "get", None, u, n)
    BY <1>3
<1>5. TabTypes'
    BY <1>1, <1>2 DEF TabTypes
<1>6. /\ token' \in 0..MaxSessions /\ (token' # 0 => issuedTo[token'] # None)
      /\ (n # 0 => issuedTo[n] # None) /\ u # None
    BY <1>1, <1>2 DEF SessionTypes, SessionInv
<1> HIDE DEF u, n
<1> QED BY <1>1, <1>3, <1>4, <1>5, <1>6, BeginsGood

\* The User Key is set and the flow goes on to the identity keypair.
LEMMA UnlocksGood ==
    ASSUME Good, NEW j \in Jobs, RegisteredIn(j) \/ Unlocked(j)
    PROVE  Good'
<1>1. /\ UNCHANGED <<users, issuedTo, live, rows, created, counter, keypair, ceremony, made, uses, starts>>
      /\ job[j] # None /\ job[j].at = "arrive"
      /\ token' \in {token, job[j].token}
      /\ strayed' \subseteq strayed \cup Strays(j, job[j].account) \cup Misled(j)
    BY DEF RegisteredIn, Unlocked, server, SignedIn, At
<1>2. PICK x, n :
          /\ Unlocks(j, x, n) /\ n \in {token, job[j].token}
          /\ \/ job[j].op \in {"register", "unlockPassword"} /\ x = job[j].account
             \/ job[j].op = "unlock" /\ x = job[j].row.wrap
    BY DEF RegisteredIn, Unlocked
<1>3. /\ SessionTypes /\ FlowTypes /\ TabTypes /\ SessionInv
      /\ job[j] \in Job /\ job[j].tab \in Tabs /\ job[j].token \in 0..MaxSessions
      /\ job[j].token # 0 => issuedTo[job[j].token] # None
      /\ Named(job[j]) /\ Asserted(job[j])
    BY <1>1, TokenOfFlow, GoodInParts
<1>4. x \in Accounts
    <2>1. CASE job[j].op = "unlock"
        <3>1. x = job[j].row.wrap /\ job[j].row # None /\ job[j].row.wrap # None
            BY <1>1, <1>2, <1>3, <2>1 DEF Asserted
        <3> QED BY <1>3, <3>1, JobShape, Shapes
    <2>2. CASE job[j].op # "unlock"
        <3>1. job[j].account # None /\ x = job[j].account
            BY <1>1, <1>2, <1>3, <2>2 DEF Named
        <3> QED BY <1>3, <3>1, JobShape
    <2> QED BY <2>1, <2>2
<1>5. n \in 0..MaxSessions /\ (n # 0 => issuedTo[n] # None)
    BY <1>2, <1>3 DEF SessionTypes, SessionInv
<1>6. token' \in 0..MaxSessions /\ (token' # 0 => issuedTo[token'] # None)
    BY <1>1, <1>3 DEF SessionTypes, SessionInv
<1>7. /\ job' \in [Jobs -> Job \cup {None}]
      /\ Begins(j, job[j].tab, "ensure", "get", None, x, n)
    BY <1>1, <1>2, <1>3, <1>4, <1>5, UnlocksBegins
<1>8. FlowTypes'
    BY <1>1, <1>3, <1>7 DEF FlowTypes
<1>9. TabTypes'
    <2>1. tab' = [tab EXCEPT ![job[j].tab].authed = @ \/ job[j].op = "register", ![job[j].tab].key = x]
        BY <1>2 DEF Unlocks
    <2>2. tab' \in [Tabs -> [authed : BOOLEAN, key : Accounts \cup {None}, pending : Accounts \cup {None}]]
        BY <1>3, <1>4, <2>1 DEF TabTypes
    <2>3. strayed' \subseteq Tabs
        BY <1>1, <1>3 DEF TabTypes, Strays, Misled
    <2> QED BY <2>2, <2>3 DEF TabTypes
<1> DEFINE t == job[j].tab
<1>10. Begins(j, t, "ensure", "get", None, x, n) /\ x # None
    BY <1>4, <1>7, AbsenceAssumption
<1> HIDE DEF t
<1> QED BY <1>1, <1>5, <1>6, <1>8, <1>9, <1>10, BeginsGood

-----------------------------------------------------------------------------
(* Steps in which a flow moves and its ceremony stays.                     *)

\* A flow goes on to a place where it has no ceremony to answer to.
LEMMA PlainStep ==
    ASSUME Good, Grows, NEW j \in Jobs, job[j] # None, job'[j] # None,
           job'[j].at \notin {"gesture", "finish", "insert", "check", "write"},
           job'[j].used = job[j].used,
           \A k \in Jobs \ {j} : job'[k] = job[k],
           UNCHANGED <<ceremony, counter>>, \A p \in Passkeys : RowLasts(p)
    PROVE  CeremonyInv'
<1>1. /\ PasskeyTypes /\ CeremonyTypes /\ FlowTypes /\ FlowsInv /\ CeremonyInv
    BY GoodInParts
<1>2. \A k \in Jobs \ {j} : Stays(k) /\ ceremony'[k] \in {ceremony[k], None}
    BY UnchangedStays
<1>3. Fitting(j)' /\ Fresh(j)' /\ Lasting(j)'
    BY DEF Fitting, Fresh, Lasting, Creating
<1>4. Offered(j)' /\ NoCopies'
    BY <1>1, OfferedKept DEF CeremonyInv, NoCopies
<1> QED BY <1>1, <1>2, <1>3, <1>4, CeremonyStep

\* What a flow has of its ceremony is known, if it is what it had.
LEMMA KnownKept ==
    ASSUME Good, Grows, NEW j \in Jobs, job[j] # None, job'[j] # None,
           job'[j].used = job[j].used, job'[j].count = job[j].count,
           job'[j].offer = job[j].offer, job'[j].row = job[j].row,
           job'[j].token # 0 => issuedTo'[job'[j].token] # None
    PROVE  Known(j)'
<1> DEFINE r == job[j]
<1>1. r \in Job /\ Known(j)
    BY TokenOfFlow
<1>2. /\ r.used # None => r.used \in Passkeys /\ r.count \in Nat
      /\ r.row # None => r.row.count \in Nat
    BY <1>1, JobShape, Shapes
<1>3. r.used # None => r.used \in created' /\ \E copy \in {1, 2} : r.count <= counter'[<<r.used, copy>>]
    BY <1>1, <1>2, CountedGrows DEF Known, Grows
<1>4. r.row # None => r.used # None /\ \E copy \in {1, 2} : r.row.count <= counter'[<<r.used, copy>>]
    BY <1>1, <1>2, CountedGrows DEF Known
<1>5. r.offer # None => r.offer.of \in users'
    BY <1>1 DEF Known, Grows
<1> QED BY <1>3, <1>4, <1>5 DEF Known, Counted

\* A flow's token is of the same account after a step that only adds.
LEMMA TokenKept ==
    ASSUME Good, Grows, NEW j \in Jobs, job[j] # None
    PROVE  job[j].token # 0 => /\ job[j].token \in Sessions /\ issuedTo[job[j].token] \in Accounts
                               /\ issuedTo'[job[j].token] = issuedTo[job[j].token]
                               /\ issuedTo'[job[j].token] # None
<1>1. job[j].token \in 0..MaxSessions /\ (job[j].token # 0 => issuedTo[job[j].token] # None)
    BY TokenOfFlow
<1>2. job[j].token # 0 => job[j].token \in Sessions
    BY <1>1, BoundsAssumption DEF Sessions
<1> QED BY <1>1, <1>2, GoodInParts DEF Grows, SessionTypes

\* A flow goes on with what it has.
LEMMA AdvancesKeeps ==
    ASSUME Good, Grows, NEW j \in Jobs, NEW place, NEW n, Arrives(j, place, n),
           n # 0 => issuedTo'[n] # None,
           \/ place = "login" /\ job[j].op = "register" /\ job[j].at = "register"
           \/ place = "leave" /\ job[j].op \in {"signOut", "join"}
           \/ place = "arrive" /\ job[j].at \in {"login", "issue"} /\ job[j].op # "unlockPassword"
           \/ place = "arrive" /\ job[j].at = "email"
           \/ place = "arrive" /\ job[j].at = "write" /\ job[j].op = "unlock"
           \/ place = "issue" /\ job[j].at = "write" /\ job[j].op = "passkeyLogin"
           \/ place = "gesture" /\ job[j].at \in {"start", "second"}
           \/ place = "second" /\ job[j].at = "insert"
    PROVE  FlowInv(j)' /\ job'[j].at = place /\ job'[j].used = job[j].used /\ job'[j] # None /\ job[j] # None
           /\ \A k \in Jobs \ {j} : job'[k] = job[k]
<1>1. /\ job[j] # None /\ job'[j] # None
      /\ job'[j].op = job[j].op /\ job'[j].uk = job[j].uk
      /\ job'[j].at = place /\ job'[j].account = job[j].account /\ job'[j].token = n
      /\ job'[j].used = job[j].used /\ job'[j].count = job[j].count /\ job'[j].offer = job[j].offer
      /\ job'[j].row = job[j].row /\ job'[j].own = job[j].own /\ job'[j].found = job[j].found
      /\ \A k \in Jobs \ {j} : job'[k] = job[k]
    BY DEF Arrives, Becomes
<1>2. Placed(job[j]) /\ Named(job[j]) /\ Asserted(job[j])
    BY <1>1, TokenOfFlow
<1>3. Placed(job'[j])
    BY <1>1, <1>2 DEF Placed
<1>4. Named(job'[j])
    BY <1>1, <1>2 DEF Placed, Named
<1>5. Asserted(job'[j])
    BY <1>1, <1>2 DEF Placed, Asserted
<1>6. Known(j)'
    BY <1>1, KnownKept
<1>7. Keyed(j)'
    BY <1>1 DEF Keyed
<1> QED BY <1>1, <1>3, <1>4, <1>5, <1>6, <1>7 DEF FlowInv

\* What remains for such a step.
LEMMA MoveGood ==
    ASSUME Good, Grows, SessionTypes', PasskeyTypes', KeypairTypes', FlowTypes', TabTypes', SessionInv', RowsInv',
           NEW j \in Jobs, job[j] # None, job'[j] # None, FlowInv(j)',
           job'[j].at \notin {"gesture", "finish", "insert", "check", "write"},
           job'[j].used = job[j].used,
           \A k \in Jobs \ {j} : job'[k] = job[k],
           UNCHANGED <<ceremony, counter>>, \A p \in Passkeys : RowLasts(p)
    PROVE  Good'
<1>1. FlowTypes /\ SessionTypes /\ FlowsInv /\ CeremonyTypes
    BY GoodInParts
<1>2. FlowsInv'
    <2>1. \A k \in Jobs \ {j} : Stays(k)
        BY UnchangedStays
    <2> QED BY <1>1, <2>1, OthersKeep
<1>3. CeremonyInv'
    BY PlainStep
<1>4. CeremonyTypes'
    BY <1>1, Untouched
<1> QED BY <1>2, <1>3, <1>4, GoodNext

\* Registering keeps it.
LEMMA RegisterGood == ASSUME Good, NEW j \in Jobs, Register(j) PROVE Good'
<1>1. /\ UNCHANGED <<issuedTo, live, rows, ceremony, keypair, created, counter, token, tab, starts, made, uses, strayed>>
      /\ users' = users \cup {job[j].account} /\ job[j] # None /\ job[j].at = "register"
    BY DEF Register, At, history
<1>2. /\ SessionTypes /\ PasskeyTypes /\ KeypairTypes /\ FlowTypes /\ TabTypes /\ SessionInv /\ RowsInv
      /\ job[j] \in Job /\ Placed(job[j]) /\ Named(job[j])
    BY <1>1, GoodInParts, TokenOfFlow
<1>3. Arrives(j, "login", job[j].token) /\ FlowTypes'
    BY <1>2, PlainMoves DEF Advances
<1>4. job[j].op = "register" /\ job[j].account \in Accounts
    BY <1>1, <1>2, JobShape DEF Placed, Named
<1>5. Grows
    <2>1. \A p \in Passkeys, copy \in {1, 2} : counter[<<p, copy>>] \in Nat
        BY <1>2 DEF PasskeyTypes
    <2> QED BY <1>1, <1>2, <2>1 DEF Grows, KeypairTypes
<1>6. SessionTypes' /\ SessionInv'
    BY <1>1, <1>2, <1>4 DEF SessionTypes, SessionInv
<1>7. PasskeyTypes'
    BY <1>1, <1>2 DEF PasskeyTypes, Counted
<1>8. KeypairTypes' /\ TabTypes' /\ RowsInv' /\ \A p \in Passkeys : RowLasts(p)
    BY <1>1, <1>2, Untouched DEF RowLasts
<1> DEFINE n == job[j].token
<1>9. n # 0 => issuedTo'[n] # None
    BY <1>1, <1>5, TokenKept
<1>10. Arrives(j, "login", n)
    BY <1>3
<1> HIDE DEF n
<1>11. FlowInv(j)' /\ job'[j].at = "login" /\ job'[j].used = job[j].used /\ job'[j] # None
       /\ \A k \in Jobs \ {j} : job'[k] = job[k]
    BY <1>1, <1>4, <1>5, <1>9, <1>10, AdvancesKeeps
<1> QED BY <1>1, <1>3, <1>5, <1>6, <1>7, <1>8, <1>11, MoveGood

\* A new session is of a registered account.
LEMMA IssueGood ==
    ASSUME Good, NEW j \in Jobs, job[j] # None, NEW x \in Accounts, x \in users, Issue(j, x),
           job[j].at \in {"login", "issue"}, job[j].op # "unlockPassword",
           UNCHANGED <<users, rows, ceremony, keypair, created, counter, token, tab, starts, history>>
    PROVE  Good'
<1>1. UNCHANGED <<users, rows, ceremony, keypair, created, counter, token, tab, starts, made, uses, strayed>>
    BY DEF history
<1>2. /\ SessionTypes /\ PasskeyTypes /\ KeypairTypes /\ FlowTypes /\ TabTypes /\ SessionInv /\ RowsInv
    BY GoodInParts
<1>3. /\ job' \in [Jobs -> Job \cup {None}]
      /\ \E s \in Sessions :
            /\ issuedTo[s] = None /\ s # 0 /\ s \in 0..MaxSessions
            /\ issuedTo' = [issuedTo EXCEPT ![s] = x] /\ live' = live \cup {s}
            /\ Arrives(j, "arrive", s)
    BY <1>2, IssueMoves
<1>4. PICK s \in Sessions :
          /\ issuedTo[s] = None /\ s # 0 /\ s \in 0..MaxSessions
          /\ issuedTo' = [issuedTo EXCEPT ![s] = x] /\ live' = live \cup {s}
          /\ Arrives(j, "arrive", s)
    BY <1>3
<1>5. x # None
    BY AbsenceAssumption
<1>6. /\ issuedTo' \in [Sessions -> Accounts \cup {None}] /\ issuedTo'[s] = x
      /\ \A r \in Sessions \ {s} : issuedTo'[r] = issuedTo[r]
    BY <1>2, <1>4 DEF SessionTypes
<1>7. Grows
    <2>1. \A p \in Passkeys, copy \in {1, 2} : counter[<<p, copy>>] \in Nat
        BY <1>2 DEF PasskeyTypes
    <2> QED BY <1>1, <1>2, <1>4, <1>6, <2>1 DEF Grows, KeypairTypes
<1>8. SessionTypes'
    BY <1>1, <1>2, <1>4, <1>5, <1>6 DEF SessionTypes
<1>9. SessionInv'
    <2>1. \A r \in Sessions : issuedTo'[r] # None => issuedTo'[r] \in users'
        BY <1>1, <1>2, <1>6 DEF SessionInv
    <2>2. token' # 0 => issuedTo'[token'] # None
        <3>1. token' # 0 => token' \in Sessions /\ token' # s /\ issuedTo[token'] # None
            BY <1>1, <1>2, <1>4, BoundsAssumption DEF SessionTypes, SessionInv, Sessions
        <3> QED BY <1>6, <3>1
    <2> QED BY <2>1, <2>2 DEF SessionInv
<1>10. KeypairTypes' /\ TabTypes' /\ RowsInv' /\ PasskeyTypes' /\ \A p \in Passkeys : RowLasts(p)
    BY <1>1, <1>2, Untouched DEF RowLasts
<1>11. s # 0 => issuedTo'[s] # None
    BY <1>5, <1>6
<1>12. FlowInv(j)' /\ job'[j].at = "arrive" /\ job'[j].used = job[j].used /\ job'[j] # None
       /\ \A k \in Jobs \ {j} : job'[k] = job[k]
    BY <1>4, <1>7, <1>11, AdvancesKeeps
<1>13. FlowTypes'
    BY <1>1, <1>2, <1>3 DEF FlowTypes
<1> QED BY <1>1, <1>7, <1>8, <1>9, <1>10, <1>12, <1>13, MoveGood

\* A login keeps it: the session is of the account that proved itself.
LEMMA LoginsGood == ASSUME Good, NEW j \in Jobs, Login(j) \/ LoginIssues(j) PROVE Good'
<1>1. CASE Login(j)
    <2>1. /\ job[j] # None /\ job[j].at = "login" /\ job[j].account \in users /\ Issue(j, job[j].account)
          /\ UNCHANGED <<users, rows, ceremony, keypair, created, counter, token, tab, starts, history>>
        BY <1>1 DEF Login, At
    <2>2. job[j].account \in Accounts /\ job[j].op # "unlockPassword"
        BY <2>1, TokenOfFlow, GoodInParts DEF SessionTypes, Placed
    <2> DEFINE x == job[j].account
    <2>3. x \in Accounts /\ x \in users /\ Issue(j, x)
        BY <2>1, <2>2
    <2> HIDE DEF x
    <2> QED BY <2>1, <2>2, <2>3, IssueGood
<1>2. CASE LoginIssues(j)
    <2>1. /\ job[j] # None /\ job[j].at = "issue" /\ Issue(j, job[j].offer.of)
          /\ UNCHANGED <<users, rows, ceremony, keypair, created, counter, token, tab, starts, history>>
        BY <1>2 DEF LoginIssues, At
    <2>2. job[j].offer.of \in users /\ job[j].op # "unlockPassword"
        BY <2>1, TokenOfFlow DEF Asserted, Known, Placed
    <2> DEFINE x == job[j].offer.of
    <2>3. x \in Accounts /\ x \in users /\ Issue(j, x)
        BY <2>1, <2>2, GoodInParts DEF SessionTypes
    <2> HIDE DEF x
    <2> QED BY <2>1, <2>2, <2>3, IssueGood
<1> QED BY <1>1, <1>2

\* A flow goes on with the token it has; at most its session is closed or its
\* passkey updated.
LEMMA AdvanceGood ==
    ASSUME Good, NEW j \in Jobs, NEW place, Advances(j, place), FlowTypes',
           UNCHANGED <<users, issuedTo, created, counter, ceremony, keypair, made, uses, token, tab, strayed>>,
           live' \subseteq live, PasskeyTypes', RowsInv', \A p \in Passkeys : RowLasts(p),
           \/ place = "leave" /\ job[j].op \in {"signOut", "join"}
           \/ place = "arrive" /\ job[j].at = "email"
           \/ place = "arrive" /\ job[j].at = "write" /\ job[j].op = "unlock"
           \/ place = "issue" /\ job[j].at = "write" /\ job[j].op = "passkeyLogin"
    PROVE  Good'
<1>1. /\ SessionTypes /\ PasskeyTypes /\ KeypairTypes /\ FlowTypes /\ TabTypes /\ SessionInv /\ RowsInv
    BY GoodInParts
<1>2. SessionTypes' /\ SessionInv'
    BY <1>1 DEF SessionTypes, SessionInv
<1>3. KeypairTypes' /\ TabTypes'
    BY <1>1, Untouched
<1>4. Grows
    BY <1>1, StillGrows
<1> DEFINE n == job[j].token
<1>5. job[j] # None /\ Arrives(j, place, n)
    BY DEF Advances, Arrives, Becomes
<1>6. n # 0 => issuedTo'[n] # None
    BY <1>4, <1>5, TokenKept
<1> HIDE DEF n
<1>7. FlowInv(j)' /\ job'[j].at = place /\ job'[j].used = job[j].used /\ job'[j] # None
       /\ \A k \in Jobs \ {j} : job'[k] = job[k]
    BY <1>4, <1>5, <1>6, AdvancesKeeps
<1>8. place \notin {"gesture", "finish", "insert", "check", "write"}
    OBVIOUS
<1> QED BY <1>2, <1>3, <1>4, <1>5, <1>7, <1>8, MoveGood

\* Signing out and reading the address keep it.
LEMMA LogoutGood == ASSUME Good, NEW j \in Jobs, Logout(j) \/ ReadEmail(j) PROVE Good'
<1>1. /\ UNCHANGED <<users, issuedTo, rows, created, counter, ceremony, keypair, made, uses, token, tab, strayed>>
      /\ live' \subseteq live /\ job[j] # None /\ job[j].at \in {"logout", "email"}
    BY DEF Logout, ReadEmail, At, history, server
<1>2. PasskeyTypes' /\ RowsInv' /\ \A p \in Passkeys : RowLasts(p)
    BY <1>1, Untouched, GoodInParts DEF RowLasts
<1>3. CASE Logout(j)
    <2>1. Advances(j, "leave") /\ FlowTypes'
        BY <1>3, PlainMoves, GoodInParts
    <2>2. job[j].op \in {"signOut", "join"}
        BY <1>3, <1>1, TokenOfFlow DEF Logout, At, Placed
    <2> QED BY <1>1, <1>2, <2>1, <2>2, AdvanceGood
<1>4. CASE ReadEmail(j)
    <2>1. Advances(j, "arrive") /\ FlowTypes'
        BY <1>4, PlainMoves, GoodInParts
    <2>2. job[j].at = "email"
        BY <1>4 DEF ReadEmail, At
    <2> QED BY <1>1, <1>2, <2>1, <2>2, AdvanceGood
<1> QED BY <1>3, <1>4

\* A failed request keeps it.
LEMMA FailingGood == ASSUME Good, NEW j \in Jobs, Fails(j) PROVE Good'
<1>1. UNCHANGED <<users, issuedTo, rows, created, counter, ceremony, keypair, made, uses, token, tab, strayed, live>>
    BY DEF Fails, history, server
<1>2. PasskeyTypes' /\ RowsInv' /\ \A p \in Passkeys : RowLasts(p)
    BY <1>1, Untouched, GoodInParts DEF RowLasts
<1>3. CASE job'[j] = None
    BY <1>3, FailsGood
<1>4. CASE job'[j] # None
    <2>1. FlowTypes' /\ job[j].op \in {"signOut", "join"} /\ Advances(j, "leave")
        BY <1>4, FailsMoves, GoodInParts
    <2> QED BY <1>1, <1>2, <2>1, AdvanceGood
<1> QED BY <1>3, <1>4

\* Writing a passkey's counter keeps it: the count was reached, and an alarm
\* needs a copy.
LEMMA WriteGood == ASSUME Good, NEW j \in Jobs, Write(j) PROVE Good'
<1>1. /\ UNCHANGED <<users, issuedTo, live, created, counter, ceremony, keypair, made, uses, token, tab, strayed>>
      /\ job[j] # None /\ job[j].at = "write"
    BY DEF Write, At, history
<1>2. PasskeyTypes' /\ RowsInv' /\ \A p \in Passkeys : RowLasts(p)
    BY WriteRows
<1>3. /\ FlowTypes'
      /\ job[j].op = "enroll" => job'[j] = None /\ \A k \in Jobs : Stays(k)
      /\ job[j].op = "unlock" => Advances(j, "arrive")
      /\ job[j].op \notin {"enroll", "unlock"} => Advances(j, "issue")
    BY WriteMoves, GoodInParts
<1>4. job[j].op \in {"passkeyLogin", "unlock", "enroll"}
    BY <1>1, TokenOfFlow DEF Placed
<1>5. CASE job[j].op = "enroll"
    BY <1>1, <1>2, <1>3, <1>5, QuietRows
<1>6. CASE job[j].op = "unlock"
    BY <1>1, <1>2, <1>3, <1>6, AdvanceGood
<1>7. CASE job[j].op = "passkeyLogin"
    BY <1>1, <1>2, <1>3, <1>7, AdvanceGood
<1> QED BY <1>4, <1>5, <1>6, <1>7

\* Asking for one's account keeps it.
LEMMA MeGood == ASSUME Good, NEW j \in Jobs, Me(j) PROVE Good'
<1>1. /\ UNCHANGED <<users, issuedTo, live, rows, ceremony, keypair, created, counter, token, tab, starts, made, uses, strayed>>
      /\ job[j] # None /\ job[j].at = "me"
    BY DEF Me, At, history, server
<1>2. /\ SessionTypes /\ PasskeyTypes /\ KeypairTypes /\ FlowTypes /\ TabTypes /\ SessionInv /\ RowsInv
      /\ Placed(job[j]) /\ Named(job[j]) /\ Asserted(job[j])
    BY <1>1, GoodInParts, TokenOfFlow
<1>3. /\ FlowTypes' /\ Caller(j) # None
      /\ Becomes(j, "email", Caller(j), job[j].token, job[j].used, job[j].count, job[j].offer,
                 job[j].row, job[j].own, job[j].found)
    BY <1>2, MeMoved
<1>4. Grows
    BY <1>1, <1>2, StillGrows
<1>5. SessionTypes' /\ SessionInv' /\ PasskeyTypes' /\ KeypairTypes' /\ TabTypes' /\ RowsInv'
      /\ \A p \in Passkeys : RowLasts(p)
    BY <1>1, <1>2, Untouched DEF RowLasts
<1>6. /\ job'[j] # None
      /\ job'[j].op = job[j].op /\ job'[j].uk = job[j].uk
      /\ job'[j].at = "email" /\ job'[j].account = Caller(j) /\ job'[j].token = job[j].token
      /\ job'[j].used = job[j].used /\ job'[j].count = job[j].count /\ job'[j].offer = job[j].offer
      /\ job'[j].row = job[j].row /\ job'[j].own = job[j].own /\ job'[j].found = job[j].found
      /\ \A k \in Jobs \ {j} : job'[k] = job[k]
    BY <1>3 DEF Becomes
<1>7. Placed(job'[j]) /\ Named(job'[j]) /\ Asserted(job'[j])
    <2>1. Placed(job'[j])
        BY <1>1, <1>2, <1>6 DEF Placed
    <2>2. Named(job'[j])
        BY <1>1, <1>2, <1>3, <1>6 DEF Placed, Named
    <2>3. Asserted(job'[j])
        BY <1>1, <1>2, <1>6 DEF Placed, Asserted
    <2> QED BY <2>1, <2>2, <2>3
<1>8. Known(j)'
    BY <1>1, <1>4, <1>6, KnownKept, TokenKept
<1>9. Keyed(j)'
    BY <1>6 DEF Keyed
<1>10. FlowInv(j)'
    BY <1>7, <1>8, <1>9 DEF FlowInv
<1> QED BY <1>1, <1>3, <1>4, <1>5, <1>6, <1>10, MoveGood

\* Reading the keypair keeps it.
LEMMA GetGood == ASSUME Good, NEW j \in Jobs, GetKeypair(j) PROVE Good'
<1>1. /\ UNCHANGED <<users, issuedTo, live, rows, ceremony, keypair, created, counter, token, tab, starts, made, uses, strayed>>
      /\ job[j] # None /\ job[j].at = "get"
    BY DEF GetKeypair, At, history, server
<1>2. /\ SessionTypes /\ PasskeyTypes /\ KeypairTypes /\ FlowTypes /\ TabTypes /\ SessionInv /\ RowsInv
      /\ Placed(job[j]) /\ Named(job[j]) /\ Asserted(job[j])
    BY <1>1, GoodInParts, TokenOfFlow
<1>3. /\ FlowTypes' /\ Caller(j) # None
      /\ Becomes(j, "got", job[j].account, job[j].token, job[j].used, job[j].count, job[j].offer,
                 job[j].row, job[j].own, keypair[Caller(j)])
    BY <1>2, GetMoved
<1>4. Grows
    BY <1>1, <1>2, StillGrows
<1>5. SessionTypes' /\ SessionInv' /\ PasskeyTypes' /\ KeypairTypes' /\ TabTypes' /\ RowsInv'
      /\ \A p \in Passkeys : RowLasts(p)
    BY <1>1, <1>2, Untouched DEF RowLasts
<1>6. /\ job'[j] # None
      /\ job'[j].op = job[j].op /\ job'[j].uk = job[j].uk
      /\ job'[j].at = "got" /\ job'[j].account = job[j].account /\ job'[j].token = job[j].token
      /\ job'[j].used = job[j].used /\ job'[j].count = job[j].count /\ job'[j].offer = job[j].offer
      /\ job'[j].row = job[j].row /\ job'[j].own = job[j].own /\ job'[j].found = keypair[Caller(j)]
      /\ \A k \in Jobs \ {j} : job'[k] = job[k]
    BY <1>3 DEF Becomes
<1>7. Placed(job'[j]) /\ Named(job'[j]) /\ Asserted(job'[j])
    <2>1. Placed(job'[j])
        BY <1>1, <1>2, <1>6 DEF Placed
    <2>2. Named(job'[j])
        BY <1>1, <1>2, <1>6 DEF Placed, Named
    <2>3. Asserted(job'[j])
        BY <1>1, <1>2, <1>6 DEF Placed, Asserted
    <2> QED BY <2>1, <2>2, <2>3
<1>8. Known(j)'
    BY <1>1, <1>4, <1>6, KnownKept, TokenKept
<1>9. Keyed(j)'
    <2>1. job[j].token # 0 /\ Caller(j) = issuedTo[job[j].token]
        BY <1>1, <1>2, <1>3, CallerIs
    <2> QED BY <1>1, <1>6, <2>1 DEF Keyed
<1>10. FlowInv(j)'
    BY <1>7, <1>8, <1>9 DEF FlowInv
<1> QED BY <1>1, <1>3, <1>4, <1>5, <1>6, <1>10, MoveGood

\* Generating a keypair keeps it.
LEMMA GenerateGood == ASSUME Good, NEW j \in Jobs, Generate(j) PROVE Good'
<1>1. /\ UNCHANGED <<users, issuedTo, live, rows, ceremony, keypair, created, counter, token, tab, starts, uses, strayed>>
      /\ job[j] # None /\ job[j].at = "got"
    BY DEF Generate, At, server
<1>2. /\ SessionTypes /\ PasskeyTypes /\ KeypairTypes /\ FlowTypes /\ TabTypes /\ SessionInv /\ RowsInv
      /\ Placed(job[j]) /\ Named(job[j]) /\ Asserted(job[j])
    BY <1>1, GoodInParts, TokenOfFlow
<1>3. /\ FlowTypes' /\ made' = made + 1 /\ job[j].uk \in Accounts
      /\ Becomes(j, "put", job[j].uk, token, job[j].used, job[j].count, job[j].offer,
                 job[j].row, made + 1, job[j].found)
    BY <1>2, GenerateMoved
<1>4. Grows
    <2>1. \A p \in Passkeys, copy \in {1, 2} : counter[<<p, copy>>] \in Nat
        BY <1>2 DEF PasskeyTypes
    <2> QED BY <1>1, <1>2, <1>3, <2>1 DEF Grows, KeypairTypes
<1>5. SessionTypes' /\ SessionInv' /\ PasskeyTypes' /\ TabTypes' /\ RowsInv'
      /\ \A p \in Passkeys : RowLasts(p)
    BY <1>1, <1>2, Untouched DEF RowLasts
<1>6. /\ job'[j] # None
      /\ job'[j].op = job[j].op /\ job'[j].uk = job[j].uk
      /\ job'[j].at = "put" /\ job'[j].account = job[j].uk /\ job'[j].token = token
      /\ job'[j].used = job[j].used /\ job'[j].count = job[j].count /\ job'[j].offer = job[j].offer
      /\ job'[j].row = job[j].row /\ job'[j].own = made + 1 /\ job'[j].found = job[j].found
      /\ \A k \in Jobs \ {j} : job'[k] = job[k]
    BY <1>3 DEF Becomes
<1>7. Placed(job'[j]) /\ Named(job'[j]) /\ Asserted(job'[j])
    <2>1. Placed(job'[j])
        BY <1>1, <1>2, <1>6 DEF Placed
    <2>2. Named(job'[j])
        BY <1>1, <1>2, <1>3, <1>6, AbsenceAssumption DEF Placed, Named
    <2>3. Asserted(job'[j])
        BY <1>1, <1>2, <1>6 DEF Placed, Asserted
    <2> QED BY <2>1, <2>2, <2>3
<1>8. Known(j)'
    <2>1. job'[j].token # 0 => issuedTo'[job'[j].token] # None
        BY <1>1, <1>2, <1>6 DEF SessionInv
    <2> QED BY <1>1, <1>4, <1>6, <2>1, KnownKept
<1>9. Keyed(j)'
    BY <1>2, <1>3, <1>6 DEF Keyed, KeypairTypes
<1>10. FlowInv(j)'
    BY <1>7, <1>8, <1>9 DEF FlowInv
<1>11. KeypairTypes'
    <2>1. 1..made \subseteq 1..(made + 1) /\ made + 1 \in Nat
        BY <1>2 DEF KeypairTypes
    <2>2. \A x \in Accounts : keypair[x] # None => keypair[x].id \in 1..(made + 1)
        BY <1>2, <2>1 DEF KeypairTypes
    <2>3. uses \subseteq [tab : Tabs, by : Accounts, id : 1..(made + 1)]
        BY <1>2, <2>1 DEF KeypairTypes
    <2> QED BY <1>1, <1>2, <1>3, <2>1, <2>2, <2>3 DEF KeypairTypes
<1> QED BY <1>1, <1>3, <1>4, <1>5, <1>6, <1>10, <1>11, MoveGood

\* Publishing it keeps it: the first one stays.
LEMMA UpsertGood == ASSUME Good, NEW j \in Jobs, Upsert(j) PROVE Good'
<1>1. /\ UNCHANGED <<users, issuedTo, live, rows, ceremony, created, counter, token, tab, starts, made, uses, strayed>>
      /\ job[j] # None /\ job[j].at = "put"
    BY DEF Upsert, At, history
<1>2. /\ SessionTypes /\ PasskeyTypes /\ KeypairTypes /\ FlowTypes /\ TabTypes /\ SessionInv /\ RowsInv
      /\ Placed(job[j]) /\ Named(job[j]) /\ Asserted(job[j]) /\ Keyed(j) /\ Known(j)
    BY <1>1, GoodInParts, TokenOfFlow
<1> DEFINE x == Caller(j)
<1> DEFINE f == keypair'[x]
<1>3. /\ FlowTypes' /\ x # None
      /\ keypair' \in [Accounts -> Identity \cup {None}]
      /\ \A y \in Accounts : y # x => keypair'[y] = keypair[y]
      /\ f \in Identity
      /\ keypair[x] # None => f = keypair[x]
      /\ keypair[x] = None => f.id = job[j].own
      /\ Becomes(j, "published", job[j].account, job[j].token, job[j].used, job[j].count, job[j].offer,
                 job[j].row, job[j].own, f)
    BY <1>1, <1>2, UpsertMoved DEF FlowInv
<1>4. /\ x \in Accounts /\ job[j].token # 0 /\ x = issuedTo[job[j].token]
    BY <1>1, <1>2, <1>3, CallerIs
<1>5. /\ job'[j] # None
      /\ job'[j].op = job[j].op /\ job'[j].uk = job[j].uk
      /\ job'[j].at = "published" /\ job'[j].account = job[j].account /\ job'[j].token = job[j].token
      /\ job'[j].used = job[j].used /\ job'[j].count = job[j].count /\ job'[j].offer = job[j].offer
      /\ job'[j].row = job[j].row /\ job'[j].own = job[j].own /\ job'[j].found = keypair'[issuedTo[job[j].token]]
      /\ \A k \in Jobs \ {j} : job'[k] = job[k]
    BY <1>3, <1>4 DEF Becomes
<1>6. f # None /\ keypair'[issuedTo[job[j].token]] = f
    BY <1>3, <1>4, Shapes
<1> HIDE DEF f, x
<1>7. Grows
    <2>1. \A p \in Passkeys, copy \in {1, 2} : counter[<<p, copy>>] \in Nat
        BY <1>2 DEF PasskeyTypes
    <2>2. \A y \in Accounts : keypair[y] # None => keypair'[y] = keypair[y]
        BY <1>3, <1>4 DEF f
    <2> QED BY <1>1, <1>2, <2>1, <2>2 DEF Grows, KeypairTypes
<1>8. SessionTypes' /\ SessionInv' /\ PasskeyTypes' /\ TabTypes' /\ RowsInv'
      /\ \A p \in Passkeys : RowLasts(p)
    BY <1>1, <1>2, Untouched DEF RowLasts
<1>9. KeypairTypes'
    <2>1. job[j].own \in 1..made
        BY <1>1, <1>2 DEF Keyed
    <2>2. \A y \in Accounts : keypair'[y] # None => keypair'[y].id \in 1..made
        BY <1>2, <1>3, <1>4, <2>1 DEF KeypairTypes, f
    <2> QED BY <1>1, <1>2, <1>3, <2>2 DEF KeypairTypes
<1>10. Placed(job'[j]) /\ Named(job'[j]) /\ Asserted(job'[j])
    <2>1. Placed(job'[j])
        BY <1>1, <1>2, <1>5 DEF Placed
    <2>2. Named(job'[j])
        BY <1>1, <1>2, <1>5 DEF Placed, Named
    <2>3. Asserted(job'[j])
        BY <1>1, <1>2, <1>5 DEF Placed, Asserted
    <2> QED BY <2>1, <2>2, <2>3
<1>11. Known(j)'
    BY <1>1, <1>5, <1>7, KnownKept, TokenKept
<1>12. Keyed(j)'
    BY <1>1, <1>2, <1>4, <1>5, <1>6 DEF Keyed
<1>13. FlowInv(j)'
    BY <1>10, <1>11, <1>12 DEF FlowInv
<1> QED BY <1>1, <1>3, <1>5, <1>7, <1>8, <1>9, <1>13, MoveGood

-----------------------------------------------------------------------------
(* Steps of a ceremony.                                                    *)

\* What remains for a step of a flow and its ceremony.
LEMMA CeremonyGood ==
    ASSUME Good, Grows, SessionTypes', PasskeyTypes', KeypairTypes', CeremonyTypes', FlowTypes', TabTypes',
           SessionInv', RowsInv', NEW j \in Jobs, FlowInv(j)',
           \A k \in Jobs \ {j} : job'[k] = job[k] /\ ceremony'[k] \in {ceremony[k], None},
           \A p \in Passkeys : RowLasts(p) \/ (Creating(job[j]) /\ p = job[j].used),
           \A p \in Passkeys : ceremony'[j] # None /\ ceremony'[j].counts[p] # None =>
               \/ ceremony[j] # None /\ ceremony[j].counts[p] # None
               \/ rows[p] # None
               \/ job[j] # None /\ p = job[j].used,
           job'[j] # None =>
               \/ job'[j].used = None
               \/ job[j] # None /\ job'[j].used = job[j].used
               \/ ceremony[j] # None /\ ceremony[j].counts[job'[j].used] # None
               \/ job'[j].used \notin created,
           NoCopies', Offered(j)', Fitting(j)', Fresh(j)', Lasting(j)'
    PROVE  Good'
<1>1. /\ SessionTypes /\ PasskeyTypes /\ CeremonyTypes /\ FlowTypes /\ FlowsInv /\ CeremonyInv
    BY GoodInParts
<1>2. \A k \in Jobs \ {j} : Stays(k) /\ ceremony'[k] \in {ceremony[k], None}
    BY UnchangedStays
<1>3. FlowsInv'
    BY <1>1, <1>2, OthersKeep
<1>4. CeremonyInv'
    BY <1>1, <1>2, CeremonyStep
<1> QED BY <1>3, <1>4, GoodNext

\* A start route leaves a ceremony that offers what the rows have at that
\* moment.
LEMMA PersistGood ==
    ASSUME Good, NEW j \in Jobs, Advances(j, "gesture"), FlowTypes',
           NEW kind \in {"registration", "authentication"}, NEW x \in Accounts, NEW counts \in [Passkeys -> Nat \cup {None}],
           Persist(j, kind, x, counts), x \in users, job[j].at \in {"start", "second"},
           \A p \in Passkeys : counts[p] # None =>
               /\ p \in created /\ (p \notin Copied => counts[p] <= counter[<<p, 1>>])
               /\ rows[p] # None \/ p = job[j].used
               /\ job[j].op = "unlock" => rows[p] = None \/ rows[p].wrap # None,
           kind = "registration" => job[j].op = "enroll" /\ job[j].at = "start",
           kind = "authentication" => (job[j].op = "enroll" => job[j].at = "second"),
           job[j].op = "passkeyLogin" => x = job[j].account,
           UNCHANGED <<users, issuedTo, live, rows, keypair, created, counter, token, tab, made, uses, strayed>>
    PROVE  Good'
<1>1. /\ SessionTypes /\ PasskeyTypes /\ KeypairTypes /\ CeremonyTypes /\ FlowTypes /\ TabTypes
      /\ FlowsInv /\ SessionInv /\ CeremonyInv /\ RowsInv
    BY GoodInParts
<1>2. SessionTypes' /\ PasskeyTypes' /\ KeypairTypes' /\ TabTypes' /\ SessionInv' /\ RowsInv'
      /\ \A p \in Passkeys : RowLasts(p)
    BY <1>1, Untouched DEF RowLasts
<1>3. Grows
    BY <1>1, StillGrows
<1> DEFINE o == [kind |-> kind, of |-> x, counts |-> counts]
<1>4. o \in Offer /\ o.kind = kind /\ o.of = x /\ o.counts = counts
    BY DEF Offer
<1>5. ceremony' = [ceremony EXCEPT ![j] = o]
    BY DEF Persist
<1> HIDE DEF o
<1>6. CeremonyTypes' /\ ceremony'[j] = o /\ \A k \in Jobs \ {j} : ceremony'[k] = ceremony[k]
    BY <1>1, <1>4, <1>5 DEF CeremonyTypes
<1> DEFINE n == job[j].token
<1>7. job[j] # None /\ Arrives(j, "gesture", n) /\ (n # 0 => issuedTo'[n] # None)
    <2>1. job[j] # None /\ Arrives(j, "gesture", n)
        BY DEF Advances, Arrives, Becomes
    <2> QED BY <1>3, <2>1, TokenKept
<1> HIDE DEF n
<1>8. FlowInv(j)' /\ job'[j].at = "gesture" /\ job'[j].used = job[j].used /\ job'[j] # None
      /\ \A k \in Jobs \ {j} : job'[k] = job[k]
    BY <1>3, <1>7, AdvancesKeeps
<1>9. job'[j].op = job[j].op /\ job'[j].account = job[j].account /\ job'[j].offer = job[j].offer
    BY <1>7 DEF Arrives, Becomes
<1>10. Placed(job[j]) /\ Asserted(job[j])
    BY <1>7, TokenOfFlow
<1>11. Offered(j)'
    BY <1>4, <1>6 DEF Offered
<1>12. Fitting(j)'
    <2>1. kind = "registration" => job[j].op = "enroll" /\ job[j].offer = None /\ job[j].used = None
        BY <1>10 DEF Asserted
    <2>2. kind = "authentication" => (job[j].op = "enroll" => job[j].used # None /\ job[j].offer # None)
        BY <1>10 DEF Asserted
    <2> QED BY <1>4, <1>6, <1>8, <1>9, <2>1, <2>2 DEF Fitting
<1>13. Fresh(j)'
    BY <1>8 DEF Fresh, Creating
<1>14. Lasting(j)'
    BY <1>4, <1>6, <1>8, <1>9 DEF Lasting
<1>15. NoCopies'
    BY <1>1 DEF CeremonyInv, NoCopies
<1>16. \A p \in Passkeys : ceremony'[j].counts[p] # None => rows[p] # None \/ p = job[j].used
    BY <1>4, <1>6
<1> QED BY <1>2, <1>3, <1>6, <1>7, <1>8, <1>11, <1>12, <1>13, <1>14, <1>15, <1>16, CeremonyGood

\* The counters of the rows of passkeys without a copy are the first
\* authenticator's.
LEMMA CountsOfRows ==
    ASSUME Good, NEW p \in Passkeys, rows[p] # None
    PROVE  /\ rows[p] \in Row /\ rows[p].count \in Nat /\ p \in created
           /\ p \notin Copied => rows[p].count <= counter[<<p, 1>>]
<1>1. PasskeyTypes /\ NoCopies
    BY GoodInParts DEF CeremonyInv
<1>2. rows[p] \in Row /\ rows[p].count \in Nat /\ p \in created /\ Counted(p, rows[p].count)
    BY <1>1, Shapes DEF PasskeyTypes
<1>3. counter[<<p, 1>>] \in Nat
    BY <1>1 DEF PasskeyTypes
<1>4. ASSUME p \notin Copied
      PROVE  rows[p].count <= counter[<<p, 1>>]
    <2>1. counter[<<p, 2>>] = 0
        BY <1>1, <1>4 DEF NoCopies
    <2> QED BY <1>2, <1>3, <2>1 DEF Counted
<1> QED BY <1>2, <1>4

\* Starting a ceremony keeps it: the row offers what the account has.
LEMMA AskGood ==
    ASSUME Good, NEW j \in Jobs, job[j] # None, job[j].at = "start", job[j].op \in {"passkeyLogin", "unlock"},
           NEW x \in Accounts, NEW offered \in SUBSET PasskeysOf(x), Asks(j, x, offered),
           Advances(j, "gesture"), FlowTypes', x \in users,
           job[j].op = "passkeyLogin" => x = job[j].account,
           job[j].op = "unlock" => offered \subseteq CapableOf(x),
           UNCHANGED <<users, issuedTo, live, rows, keypair, created, counter, token, tab, made, uses, strayed>>
    PROVE  Good'
<1> DEFINE counts == [p \in Passkeys |-> IF p \in offered THEN rows[p].count ELSE None]
<1>1. \A p \in offered : p \in Passkeys /\ rows[p] # None
    BY DEF PasskeysOf
<1>2. counts \in [Passkeys -> Nat \cup {None}]
    BY <1>1, CountsOfRows
<1>3. Persist(j, "authentication", x, counts)
    BY DEF Asks
<1>4. ASSUME NEW p \in Passkeys, counts[p] # None
      PROVE  /\ p \in created /\ (p \notin Copied => counts[p] <= counter[<<p, 1>>])
             /\ rows[p] # None \/ p = job[j].used
             /\ job[j].op = "unlock" => rows[p] = None \/ rows[p].wrap # None
    <2>1. p \in offered /\ rows[p] # None /\ counts[p] = rows[p].count
        BY <1>1, <1>4
    <2>2. p \in created /\ (p \notin Copied => rows[p].count <= counter[<<p, 1>>])
        BY <2>1, CountsOfRows
    <2>3. job[j].op = "unlock" => rows[p].wrap # None
        BY <2>1 DEF CapableOf
    <2> QED BY <2>1, <2>2, <2>3
<1> HIDE DEF counts
<1> DEFINE kind == "authentication"
<1>5. kind \in {"registration", "authentication"} /\ kind # "registration" /\ Persist(j, kind, x, counts)
    BY <1>3
<1> HIDE DEF kind
<1>6. job[j].op # "enroll"
    OBVIOUS
<1> QED BY <1>2, <1>4, <1>5, <1>6, PersistGood

\* So do the start routes of login and unlock.
LEMMA StartsGood ==
    ASSUME Good, NEW j \in Jobs, LoginStart(j) \/ UnlockStart(j)
    PROVE  Good'
<1>1. /\ UNCHANGED <<users, issuedTo, live, rows, keypair, created, counter, token, tab, made, uses, strayed>>
      /\ job[j] # None /\ job[j].at = "start"
    BY DEF LoginStart, UnlockStart, At, history
<1>2. Advances(j, "gesture") /\ FlowTypes'
    BY PlainMoves, GoodInParts
<1>3. CASE LoginStart(j)
    <2> DEFINE x == job[j].account
    <2> DEFINE offered == PasskeysOf(x)
    <2>1. job[j].op = "passkeyLogin" /\ x \in users /\ Asks(j, x, offered)
        BY <1>3 DEF LoginStart
    <2>2. x \in Accounts /\ x = job[j].account /\ offered \in SUBSET PasskeysOf(x)
        BY <2>1, GoodInParts DEF SessionTypes
    <2> HIDE DEF x, offered
    <2> QED BY <1>1, <1>2, <2>1, <2>2, AskGood
<1>4. CASE UnlockStart(j)
    <2> DEFINE x == Caller(j)
    <2> DEFINE offered == CapableOf(x)
    <2>1. job[j].op = "unlock" /\ x # None /\ Asks(j, x, offered)
        BY <1>4 DEF UnlockStart
    <2>2. x \in Accounts /\ x \in users
        BY <1>1, <2>1, CallerIs, GoodInParts DEF SessionInv
    <2>3. offered \in SUBSET PasskeysOf(x) /\ offered \subseteq CapableOf(x)
        BY DEF CapableOf
    <2> HIDE DEF x, offered
    <2> QED BY <1>1, <1>2, <2>1, <2>2, <2>3, AskGood
<1> QED BY <1>3, <1>4

\* So does the start route of enrolment.
LEMMA EnrolmentStartGood == ASSUME Good, NEW j \in Jobs, RegisterStart(j) PROVE Good'
<1> DEFINE x == Caller(j)
<1> DEFINE counts == [p \in Passkeys |-> None]
<1> DEFINE kind == "registration"
<1>1. /\ UNCHANGED <<users, issuedTo, live, rows, keypair, created, counter, token, tab, made, uses, strayed>>
      /\ job[j] # None /\ job[j].at = "start" /\ job[j].op = "enroll" /\ x # None
      /\ Persist(j, kind, x, counts)
    BY DEF RegisterStart, At, history
<1>2. Advances(j, "gesture") /\ FlowTypes'
    BY PlainMoves, GoodInParts
<1>3. x \in Accounts /\ x \in users
    BY <1>1, CallerIs, GoodInParts DEF SessionInv
<1>4. counts \in [Passkeys -> Nat \cup {None}] /\ (\A p \in Passkeys : counts[p] = None)
    OBVIOUS
<1>5. kind = "registration"
    OBVIOUS
<1> HIDE DEF x, counts, kind
<1>6. \A p \in Passkeys : counts[p] # None =>
          /\ p \in created /\ (p \notin Copied => counts[p] <= counter[<<p, 1>>])
          /\ rows[p] # None \/ p = job[j].used
          /\ job[j].op = "unlock" => rows[p] = None \/ rows[p].wrap # None
    BY <1>4
<1>7. /\ kind \in {"registration", "authentication"} /\ kind # "authentication"
      /\ job[j].at \in {"start", "second"} /\ job[j].op # "passkeyLogin"
    BY <1>1, <1>5
<1> QED BY <1>1, <1>2, <1>3, <1>4, <1>6, <1>7, PersistGood

\* So does the ceremony that follows an enrolment.
LEMMA SecondGood == ASSUME Good, NEW j \in Jobs, SecondCeremony(j) PROVE Good'
<1> DEFINE x == job[j].offer.of
<1> DEFINE counts == [p \in Passkeys |-> IF p = job[j].used THEN 0 ELSE None]
<1> DEFINE kind == "authentication"
<1>1. /\ UNCHANGED <<users, issuedTo, live, rows, keypair, created, counter, token, tab, made, uses, strayed>>
      /\ job[j] # None /\ job[j].at = "second"
      /\ Persist(j, kind, x, counts)
    BY DEF SecondCeremony, At, history
<1>2. Advances(j, "gesture") /\ FlowTypes'
    BY PlainMoves, GoodInParts
<1>3. job[j] \in Job /\ Placed(job[j]) /\ Asserted(job[j]) /\ Known(j)
    BY <1>1, TokenOfFlow
<1>4. job[j].op = "enroll" /\ x \in users /\ x \in Accounts /\ job[j].used \in created
    BY <1>1, <1>3, GoodInParts DEF Placed, Asserted, Known, SessionTypes
<1>5. counts \in [Passkeys -> Nat \cup {None}]
    OBVIOUS
<1>6. \A p \in Passkeys : counter[<<p, 1>>] \in Nat
    BY GoodInParts DEF PasskeyTypes
<1>7. \A p \in Passkeys : counts[p] # None => p = job[j].used /\ counts[p] = 0
    OBVIOUS
<1>8. kind = "authentication"
    OBVIOUS
<1> HIDE DEF x, counts, kind
<1>9. \A p \in Passkeys : counts[p] # None =>
          /\ p \in created /\ (p \notin Copied => counts[p] <= counter[<<p, 1>>])
          /\ rows[p] # None \/ p = job[j].used
          /\ job[j].op = "unlock" => rows[p] = None \/ rows[p].wrap # None
    BY <1>4, <1>6, <1>7
<1>10. /\ kind \in {"registration", "authentication"} /\ kind # "registration"
       /\ job[j].at \in {"start", "second"} /\ job[j].op # "passkeyLogin"
    BY <1>1, <1>4, <1>8
<1> QED BY <1>1, <1>2, <1>4, <1>5, <1>9, <1>10, PersistGood

\* Inserting the new passkey keeps it: its counter is what its authenticator
\* has reached.
LEMMA InsertGood == ASSUME Good, NEW j \in Jobs, Insert(j) PROVE Good'
<1> DEFINE p == job[j].used
<1> DEFINE r == [of |-> job[j].offer.of, count |-> 0, wrap |-> None, anomaly |-> FALSE]
<1>1. /\ UNCHANGED <<users, issuedTo, live, ceremony, keypair, created, counter, token, tab, made, uses, strayed>>
      /\ job[j] # None /\ job[j].at = "insert" /\ rows' = [rows EXCEPT ![p] = r] /\ rows[p] = None
    BY DEF Insert, At, history
<1>2. /\ SessionTypes /\ PasskeyTypes /\ KeypairTypes /\ CeremonyTypes /\ FlowTypes /\ TabTypes
      /\ FlowsInv /\ SessionInv /\ CeremonyInv /\ RowsInv
      /\ job[j] \in Job /\ Placed(job[j]) /\ Asserted(job[j]) /\ Known(j)
    BY <1>1, GoodInParts, TokenOfFlow
<1>3. Advances(j, "second") /\ FlowTypes'
    BY <1>2, PlainMoves
<1>4. job[j].op = "enroll" /\ p \in Passkeys /\ p \in created /\ job[j].offer.of \in users
    BY <1>1, <1>2, JobShape DEF Placed, Asserted, Known
<1>5. /\ r \in Row /\ r.of = job[j].offer.of /\ r.count = 0 /\ r.anomaly = FALSE
    BY <1>2, <1>4 DEF Row, SessionTypes
<1> HIDE DEF p, r
<1>6. /\ rows' \in [Passkeys -> Row \cup {None}] /\ rows'[p] = r
      /\ \A q \in Passkeys \ {p} : rows'[q] = rows[q]
    BY <1>1, <1>2, <1>4, <1>5 DEF PasskeyTypes
<1>7. Grows
    BY <1>1, <1>2, StillGrows
<1>8. SessionTypes' /\ KeypairTypes' /\ CeremonyTypes' /\ TabTypes' /\ SessionInv'
    BY <1>1, <1>2, Untouched
<1>9. RowsInv'
    <2> SUFFICES ASSUME NEW q \in Passkeys, rows'[q] # None, rows'[q].anomaly
                 PROVE  q \in Copied
        BY DEF RowsInv
    <2>1. CASE q = p
        BY <1>5, <1>6, <2>1
    <2>2. CASE q # p
        BY <1>2, <1>6, <2>2 DEF RowsInv
    <2> QED BY <2>1, <2>2
<1>10. PasskeyTypes'
    <2>1. Counted(p, 0)
        <3>1. counter[<<p, 1>>] \in Nat
            BY <1>2, <1>4 DEF PasskeyTypes
        <3> QED BY <3>1 DEF Counted
    <2>2. \A q \in Passkeys : rows'[q] # None => q \in created' /\ rows'[q].of \in users'
        BY <1>1, <1>2, <1>4, <1>5, <1>6 DEF PasskeyTypes
    <2>3. \A q \in Passkeys : rows'[q] # None => Counted(q, rows'[q].count)
        BY <1>2, <1>5, <1>6, <2>1 DEF PasskeyTypes
    <2> QED BY <1>1, <1>2, <1>6, <2>2, <2>3 DEF PasskeyTypes, Counted
<1> DEFINE n == job[j].token
<1>11. Arrives(j, "second", n) /\ (n # 0 => issuedTo'[n] # None)
    BY <1>1, <1>3, <1>7, TokenKept DEF Advances
<1> HIDE DEF n
<1>12. FlowInv(j)' /\ job'[j].at = "second" /\ job'[j].used = job[j].used /\ job'[j] # None
       /\ \A k \in Jobs \ {j} : job'[k] = job[k]
    BY <1>1, <1>7, <1>11, AdvancesKeeps
<1>13. Offered(j)' /\ NoCopies'
    BY <1>1, <1>2, <1>7, OfferedKept DEF CeremonyInv, NoCopies
<1>14. Fitting(j)' /\ Fresh(j)' /\ Lasting(j)'
    BY <1>12 DEF Fitting, Fresh, Creating, Lasting
<1>15. \A q \in Passkeys : RowLasts(q) \/ (Creating(job[j]) /\ q = job[j].used)
    BY <1>1, <1>4, <1>6 DEF RowLasts, Creating, p
<1> QED BY <1>1, <1>3, <1>7, <1>8, <1>9, <1>10, <1>12, <1>13, <1>14, <1>15, CeremonyGood

\* The row that is read is of the ceremony's account, and can still be opened
\* if it was offered for that.
LEMMA CheckGood == ASSUME Good, NEW j \in Jobs, Check(j) PROVE Good'
<1> DEFINE p == job[j].used
<1>1. /\ UNCHANGED <<users, issuedTo, live, rows, ceremony, keypair, created, counter, token, tab, made, uses, strayed>>
      /\ job[j] # None /\ job[j].at = "check" /\ rows[p] # None /\ rows[p].of = job[j].offer.of
    BY DEF Check, At, history, server, Found
<1>2. /\ SessionTypes /\ PasskeyTypes /\ KeypairTypes /\ CeremonyTypes /\ FlowTypes /\ TabTypes
      /\ FlowsInv /\ SessionInv /\ CeremonyInv /\ RowsInv
      /\ job[j] \in Job /\ Placed(job[j]) /\ Named(job[j]) /\ Asserted(job[j]) /\ Known(j)
    BY <1>1, GoodInParts, TokenOfFlow
<1>3. p # None /\ p \in Passkeys /\ job[j].offer # None /\ job[j].op \in {"passkeyLogin", "unlock", "enroll"}
    BY <1>1, <1>2, JobShape DEF Asserted, Placed
<1>4. /\ FlowTypes' /\ rows[p] \in Row
      /\ Becomes(j, "write", job[j].account, job[j].token, p, job[j].count, job[j].offer,
                 rows[p], job[j].own, job[j].found)
    BY <1>2, <1>3, CheckMoved
<1> HIDE DEF p
<1>5. /\ job'[j] # None
      /\ job'[j].op = job[j].op /\ job'[j].uk = job[j].uk
      /\ job'[j].at = "write" /\ job'[j].account = job[j].account /\ job'[j].token = job[j].token
      /\ job'[j].used = p /\ job'[j].used = job[j].used
      /\ job'[j].count = job[j].count /\ job'[j].offer = job[j].offer
      /\ job'[j].row = rows[p] /\ job'[j].own = job[j].own /\ job'[j].found = job[j].found
      /\ \A k \in Jobs \ {j} : job'[k] = job[k]
    BY <1>4 DEF Becomes, p
<1>6. Grows
    BY <1>1, <1>2, StillGrows
<1>7. SessionTypes' /\ PasskeyTypes' /\ KeypairTypes' /\ CeremonyTypes' /\ TabTypes' /\ SessionInv' /\ RowsInv'
      /\ \A q \in Passkeys : RowLasts(q)
    BY <1>1, <1>2, Untouched DEF RowLasts
<1>8. job[j].op = "unlock" => rows[p].wrap # None
    BY <1>1, <1>2 DEF CeremonyInv, Lasting, p
<1>9. Placed(job'[j]) /\ Named(job'[j])
    <2>1. Placed(job'[j])
        BY <1>3, <1>5 DEF Placed
    <2>2. Named(job'[j])
        BY <1>1, <1>2, <1>3, <1>5 DEF Named
    <2> QED BY <2>1, <2>2
<1>10. Asserted(job'[j])
    BY <1>1, <1>2, <1>3, <1>5, <1>8 DEF Asserted
<1>11. Known(j)'
    <2>1. Counted(p, rows[p].count) /\ Counted(p, job[j].count) /\ p \in created /\ job[j].offer.of \in users
        BY <1>1, <1>2, <1>3 DEF PasskeyTypes, Known, p
    <2>2. (\E copy \in {1, 2} : rows[p].count <= counter'[<<p, copy>>]) /\ (\E copy \in {1, 2} : job[j].count <= counter'[<<p, copy>>])
        BY <1>1, <2>1 DEF Counted
    <2>3. job[j].token # 0 => issuedTo'[job[j].token] # None
        BY <1>1, <1>6, TokenKept
    <2> QED BY <1>1, <1>3, <1>5, <2>1, <2>2, <2>3 DEF Known, Counted
<1>12. Keyed(j)'
    BY <1>5 DEF Keyed
<1>13. FlowInv(j)'
    BY <1>9, <1>10, <1>11, <1>12 DEF FlowInv
<1>14. Offered(j)' /\ NoCopies'
    BY <1>1, <1>2, <1>6, OfferedKept DEF CeremonyInv, NoCopies
<1>15. Fitting(j)' /\ Fresh(j)' /\ Lasting(j)'
    BY <1>1, <1>5 DEF Fitting, Fresh, Creating, Lasting
<1> QED BY <1>1, <1>4, <1>5, <1>6, <1>7, <1>13, <1>14, <1>15, CeremonyGood

\* A credential that is made is nowhere yet.
LEMMA CreateGood == ASSUME Good, NEW j \in Jobs, Create(j) PROVE Good'
<1>1. /\ UNCHANGED <<users, issuedTo, live, rows, ceremony, keypair, counter, token, tab, made, uses, strayed>>
      /\ job[j] # None /\ job[j].at = "gesture" /\ job[j].op = "enroll" /\ job[j].used = None
    BY DEF Create, At, history, server
<1>2. /\ SessionTypes /\ PasskeyTypes /\ KeypairTypes /\ CeremonyTypes /\ FlowTypes /\ TabTypes
      /\ FlowsInv /\ SessionInv /\ CeremonyInv /\ RowsInv
      /\ job[j] \in Job /\ Placed(job[j]) /\ Named(job[j]) /\ Asserted(job[j]) /\ Known(j)
    BY <1>1, GoodInParts, TokenOfFlow
<1>3. /\ FlowTypes'
      /\ \E p \in Passkeys \ created :
            /\ created' = created \cup {p}
            /\ Becomes(j, "finish", job[j].account, token, p, job[j].count, job[j].offer,
                       job[j].row, job[j].own, job[j].found)
    BY <1>2, CreateMoved
<1>4. PICK p \in Passkeys \ created :
            /\ created' = created \cup {p}
            /\ Becomes(j, "finish", job[j].account, token, p, job[j].count, job[j].offer,
                       job[j].row, job[j].own, job[j].found)
    BY <1>3
<1>5. /\ job'[j] # None
      /\ job'[j].op = "enroll" /\ job'[j].uk = job[j].uk
      /\ job'[j].at = "finish" /\ job'[j].account = job[j].account /\ job'[j].token = token
      /\ job'[j].used = p /\ job'[j].count = job[j].count /\ job'[j].offer = job[j].offer
      /\ job'[j].row = job[j].row /\ job'[j].own = job[j].own /\ job'[j].found = job[j].found
      /\ \A k \in Jobs \ {j} : job'[k] = job[k]
    BY <1>1, <1>4 DEF Becomes
<1>6. p \in Passkeys /\ p \notin created /\ p # None /\ job[j].offer = None /\ job[j].row = None /\ job[j].count = 0
    BY <1>1, <1>2, AbsenceAssumption DEF Asserted
<1>7. \A q \in Passkeys, copy \in {1, 2} : counter[<<q, copy>>] \in Nat
    BY <1>2 DEF PasskeyTypes
<1>8. Grows
    BY <1>1, <1>2, <1>4, <1>7 DEF Grows, KeypairTypes
<1>9. SessionTypes' /\ KeypairTypes' /\ CeremonyTypes' /\ TabTypes' /\ SessionInv' /\ RowsInv'
      /\ \A q \in Passkeys : RowLasts(q)
    BY <1>1, <1>2, Untouched DEF RowLasts
<1>10. PasskeyTypes'
    BY <1>1, <1>2, <1>4 DEF PasskeyTypes, Counted
<1>11. FlowInv(j)'
    <2>1. Placed(job'[j]) /\ Named(job'[j])
        BY <1>2, <1>1, <1>5 DEF Placed, Named
    <2>2. Asserted(job'[j])
        BY <1>5, <1>6 DEF Asserted
    <2>3. 0 <= counter'[<<p, 1>>]
        <3>1. counter[<<p, 1>>] \in Nat /\ counter' = counter
            BY <1>1, <1>6, <1>7
        <3> QED BY <3>1
    <2>4. token # 0 => issuedTo'[token] # None
        BY <1>1, <1>2 DEF SessionInv
    <2>5. Known(j)'
        BY <1>4, <1>5, <1>6, <2>3, <2>4 DEF Known, Counted
    <2>6. Keyed(j)'
        BY <1>5 DEF Keyed
    <2> QED BY <2>1, <2>2, <2>5, <2>6 DEF FlowInv
<1>12. Offered(j)' /\ NoCopies'
    BY <1>1, <1>2, <1>8, OfferedKept DEF CeremonyInv, NoCopies
<1>13. Fitting(j)'
    <2>1. Fitting(j)
        BY <1>2 DEF CeremonyInv
    <2> QED BY <1>1, <1>5, <1>6, <2>1 DEF Fitting
<1>14. Fresh(j)'
    <2>1. rows[p] = None
        BY <1>2, <1>6 DEF PasskeyTypes
    <2>2. \A k \in Jobs : ceremony[k] # None => ceremony[k].counts[p] = None
        BY <1>2, <1>6 DEF CeremonyInv, Offered
    <2>3. \A k \in Jobs \ {j} : job[k] # None => job[k].used # p
        BY <1>2, <1>6 DEF FlowsInv, FlowInv, Known
    <2> QED BY <1>1, <1>5, <2>1, <2>2, <2>3 DEF Fresh
<1>15. Lasting(j)'
    BY <1>5 DEF Lasting
<1> QED BY <1>1, <1>3, <1>5, <1>6, <1>8, <1>9, <1>10, <1>11, <1>12, <1>13, <1>14, <1>15, CeremonyGood

\* An assertion counts further than what the ceremony expects, unless a copy
\* of the authenticator made it.
LEMMA AssertGood == ASSUME Good, NEW j \in Jobs, AssertPasskey(j) PROVE Good'
<1>1. /\ UNCHANGED <<users, issuedTo, live, rows, ceremony, keypair, created, token, tab, made, uses, strayed>>
      /\ job[j] # None /\ job[j].at = "gesture" /\ ceremony[j] # None /\ ceremony[j].kind = "authentication"
    BY DEF AssertPasskey, At, history, server
<1>2. /\ SessionTypes /\ PasskeyTypes /\ KeypairTypes /\ CeremonyTypes /\ FlowTypes /\ TabTypes
      /\ FlowsInv /\ SessionInv /\ CeremonyInv /\ RowsInv
      /\ job[j] \in Job /\ Placed(job[j]) /\ Named(job[j]) /\ Asserted(job[j]) /\ Known(j)
    BY <1>1, GoodInParts, TokenOfFlow
<1>3. /\ FlowTypes'
      /\ \E p \in Passkeys, copy \in {1, 2} :
            /\ ceremony[j].counts[p] # None /\ (copy = 2 => p \in Copied)
            /\ counter' = [counter EXCEPT ![<<p, copy>>] = @ + 1]
            /\ counter[<<p, copy>>] \in Nat
            /\ Becomes(j, "finish", IF job[j].op = "enroll" THEN job[j].uk ELSE job[j].account, token, p,
                       counter[<<p, copy>>] + 1, job[j].offer, job[j].row, job[j].own, job[j].found)
    BY <1>2, AssertMoved
<1>4. PICK p \in Passkeys, copy \in {1, 2} :
            /\ ceremony[j].counts[p] # None /\ (copy = 2 => p \in Copied)
            /\ counter' = [counter EXCEPT ![<<p, copy>>] = @ + 1]
            /\ counter[<<p, copy>>] \in Nat
            /\ Becomes(j, "finish", IF job[j].op = "enroll" THEN job[j].uk ELSE job[j].account, token, p,
                       counter[<<p, copy>>] + 1, job[j].offer, job[j].row, job[j].own, job[j].found)
    BY <1>3
<1> DEFINE c == counter[<<p, copy>>] + 1
<1>5. /\ job'[j] # None
      /\ job'[j].op = job[j].op /\ job'[j].uk = job[j].uk
      /\ job'[j].at = "finish" /\ job'[j].token = token
      /\ job'[j].account = IF job[j].op = "enroll" THEN job[j].uk ELSE job[j].account
      /\ job'[j].used = p /\ job'[j].count = c /\ job'[j].offer = job[j].offer
      /\ job'[j].row = job[j].row /\ job'[j].own = job[j].own /\ job'[j].found = job[j].found
      /\ \A k \in Jobs \ {j} : job'[k] = job[k]
    BY <1>4 DEF Becomes
<1>6. /\ p \in created /\ (p \notin Copied => ceremony[j].counts[p] <= counter[<<p, 1>>])
      /\ p # None /\ job[j].row = None /\ c \in Nat /\ ceremony[j] \in Offer /\ ceremony[j].counts[p] \in Nat
    <2>1. p \in created /\ (p \notin Copied => ceremony[j].counts[p] <= counter[<<p, 1>>])
        BY <1>1, <1>2, <1>4 DEF CeremonyInv, Offered
    <2>2. p # None /\ job[j].row = None
        BY <1>1, <1>2, AbsenceAssumption DEF Asserted
    <2>3. ceremony[j] \in Offer
        BY <1>1, <1>2 DEF CeremonyTypes
    <2>4. ceremony[j].counts[p] \in Nat
        BY <1>4, <2>3, Shapes
    <2> QED BY <1>4, <2>1, <2>2, <2>3, <2>4
<1>7. /\ counter' \in [Passkeys \X {1, 2} -> Nat] /\ counter'[<<p, copy>>] = c
      /\ \A q \in Passkeys, b \in {1, 2} : <<q, b>> # <<p, copy>> => counter'[<<q, b>>] = counter[<<q, b>>]
    BY <1>2, <1>4 DEF PasskeyTypes
<1>8. \A q \in Passkeys, b \in {1, 2} : /\ counter[<<q, b>>] \in Nat /\ counter'[<<q, b>>] \in Nat
                                        /\ counter[<<q, b>>] <= counter'[<<q, b>>]
    <2> TAKE q \in Passkeys, b \in {1, 2}
    <2>1. counter[<<q, b>>] \in Nat
        BY <1>2 DEF PasskeyTypes
    <2>2. CASE <<q, b>> = <<p, copy>>
        BY <1>4, <1>7, <2>1, <2>2
    <2>3. CASE <<q, b>> # <<p, copy>>
        <3>1. counter'[<<q, b>>] = counter[<<q, b>>]
            BY <1>7, <2>3
        <3> QED BY <2>1, <3>1
    <2> QED BY <2>2, <2>3
<1> HIDE DEF c
<1>9. Grows
    BY <1>1, <1>2, <1>8 DEF Grows, KeypairTypes
<1>10. SessionTypes' /\ KeypairTypes' /\ CeremonyTypes' /\ TabTypes' /\ SessionInv' /\ RowsInv'
      /\ \A q \in Passkeys : RowLasts(q)
    BY <1>1, <1>2, Untouched DEF RowLasts
<1>11. PasskeyTypes'
    <2>1. \A q \in Passkeys : rows[q] # None => \E b \in {1, 2} : rows[q].count <= counter'[<<q, b>>]
        <3> SUFFICES ASSUME NEW q \in Passkeys, rows[q] # None
                     PROVE  \E b \in {1, 2} : rows[q].count <= counter'[<<q, b>>]
            OBVIOUS
        <3>1. Counted(q, rows[q].count) /\ rows[q].count \in Nat
            BY <1>2, Shapes DEF PasskeyTypes
        <3> QED BY <1>9, <3>1, CountedGrows
    <2>2. /\ rows' \in [Passkeys -> Row \cup {None}]
          /\ \A q \in Passkeys : rows'[q] # None => q \in created' /\ rows'[q].of \in users'
          /\ created' \subseteq Passkeys
        BY <1>1, <1>2 DEF PasskeyTypes
    <2> QED BY <1>1, <1>7, <2>1, <2>2 DEF PasskeyTypes, Counted
<1>12. Fitting(j)
    BY <1>2 DEF CeremonyInv
<1>13. job[j].op = "enroll" => job[j].used # None /\ job[j].offer # None /\ job[j].uk # None
    BY <1>1, <1>2, <1>12 DEF Fitting, Named
<1>14. p \notin Copied => c > ceremony[j].counts[p]
    BY <1>4, <1>6, <1>8 DEF c
<1>15. FlowInv(j)'
    <2>1. Placed(job'[j])
        BY <1>1, <1>2, <1>5 DEF Placed
    <2>2. Named(job'[j])
        BY <1>1, <1>2, <1>5, <2>1 DEF Named
    <2>3. Asserted(job'[j])
        BY <1>5, <1>6 DEF Asserted
    <2>4. c <= counter'[<<p, copy>>]
        BY <1>6, <1>7
    <2>5. token # 0 => issuedTo'[token] # None
        BY <1>1, <1>2 DEF SessionInv
    <2>6. job[j].offer # None => job[j].offer.of \in users'
        BY <1>1, <1>2 DEF Known
    <2>7. Known(j)'
        BY <1>1, <1>5, <1>6, <2>4, <2>5, <2>6 DEF Known, Counted
    <2>8. Keyed(j)'
        BY <1>5 DEF Keyed
    <2> QED BY <2>1, <2>2, <2>3, <2>7, <2>8 DEF FlowInv
<1>16. Offered(j)'
    BY <1>1, <1>2, <1>9, OfferedKept DEF CeremonyInv
<1>17. NoCopies'
    <2> SUFFICES ASSUME NEW q \in Passkeys \ Copied
                 PROVE  counter'[<<q, 2>>] = 0
        BY DEF NoCopies
    <2>1. counter[<<q, 2>>] = 0
        BY <1>2 DEF CeremonyInv, NoCopies
    <2>2. <<q, 2>> # <<p, copy>>
        BY <1>4
    <2> QED BY <1>7, <2>1, <2>2
<1>18. Fitting(j)'
    <2>1. job[j].op = "passkeyLogin" => ceremony[j].of = job[j].account
        BY <1>1, <1>12 DEF Fitting
    <2>2. /\ ceremony' = ceremony /\ ceremony[j].kind # "registration" /\ job'[j].used = p
          /\ job'[j].op = job[j].op /\ job'[j].offer = job[j].offer /\ job'[j].count = c
          /\ job[j].op = "enroll" => job'[j].account = job[j].uk
          /\ job[j].op = "passkeyLogin" => job'[j].account = job[j].account
        BY <1>1, <1>5
    <2>3. ceremony[j].counts[p] # None
        BY <1>4
    <2>4. p # None /\ (job'[j].op = "enroll" => job'[j].used # None /\ job'[j].offer # None /\ job'[j].account # None)
        BY <1>6, <1>13, <2>2
    <2>5. p \notin Copied => job'[j].count > ceremony'[j].counts[p]
        BY <1>14, <2>2
    <2> HIDE DEF c
    <2> QED BY <2>1, <2>2, <2>3, <2>4, <2>5 DEF Fitting
<1>19. Fresh(j)'
    BY <1>5, <1>13 DEF Fresh, Creating
<1>20. Lasting(j)'
    BY <1>1, <1>2, <1>5 DEF CeremonyInv, Lasting
<1> QED BY <1>1, <1>3, <1>4, <1>5, <1>9, <1>10, <1>11, <1>15, <1>16, <1>17, <1>18, <1>19, <1>20, CeremonyGood

\* The ceremony of a flow is consumed with what it expects.
LEMMA ConsumeGood == ASSUME Good, NEW j \in Jobs, Consume(j) PROVE Good'
<1> DEFINE o == ceremony[j]
<1>1. /\ UNCHANGED <<users, issuedTo, live, rows, keypair, created, counter, token, tab, made, uses, strayed>>
      /\ job[j] # None /\ job[j].at = "finish" /\ o # None
      /\ ceremony' = [ceremony EXCEPT ![j] = None]
    BY DEF Consume, At, history
<1>2. /\ SessionTypes /\ PasskeyTypes /\ KeypairTypes /\ CeremonyTypes /\ FlowTypes /\ TabTypes
      /\ FlowsInv /\ SessionInv /\ CeremonyInv /\ RowsInv
      /\ job[j] \in Job /\ Placed(job[j]) /\ Named(job[j]) /\ Asserted(job[j]) /\ Known(j)
    BY <1>1, GoodInParts, TokenOfFlow
<1>3. /\ FlowTypes' /\ o \in Offer
      /\ \E place \in {"insert", "check"} :
            /\ place = IF o.kind = "registration" THEN "insert" ELSE "check"
            /\ Becomes(j, place, job[j].account, job[j].token, job[j].used, job[j].count, o,
                       job[j].row, job[j].own, job[j].found)
    BY <1>2, ConsumeMoved
<1>4. PICK place \in {"insert", "check"} :
            /\ place = IF o.kind = "registration" THEN "insert" ELSE "check"
            /\ Becomes(j, place, job[j].account, job[j].token, job[j].used, job[j].count, o,
                       job[j].row, job[j].own, job[j].found)
    BY <1>3
<1>5. /\ job'[j] # None
      /\ job'[j].op = job[j].op /\ job'[j].uk = job[j].uk
      /\ job'[j].at = place /\ job'[j].account = job[j].account /\ job'[j].token = job[j].token
      /\ job'[j].used = job[j].used /\ job'[j].count = job[j].count /\ job'[j].offer = o
      /\ job'[j].row = job[j].row /\ job'[j].own = job[j].own /\ job'[j].found = job[j].found
      /\ \A k \in Jobs \ {j} : job'[k] = job[k]
    BY <1>4 DEF Becomes
<1>6. CeremonyTypes' /\ ceremony'[j] = None /\ \A k \in Jobs \ {j} : ceremony'[k] = ceremony[k]
    BY <1>1, <1>2 DEF CeremonyTypes
<1>7. Grows
    BY <1>1, <1>2, StillGrows
<1>8. SessionTypes' /\ PasskeyTypes' /\ KeypairTypes' /\ TabTypes' /\ SessionInv' /\ RowsInv'
      /\ \A q \in Passkeys : RowLasts(q)
    BY <1>1, <1>2, Untouched DEF RowLasts
<1>9. o.kind \in {"registration", "authentication"} /\ o.of \in users
    BY <1>1, <1>2, <1>3, Shapes DEF CeremonyInv, Offered
<1>10. /\ place = "insert" => job[j].op = "enroll" /\ job[j].offer = None
       /\ place = "check" => /\ o.counts[job[j].used] # None
                             /\ job[j].used \notin Copied => job[j].count > o.counts[job[j].used]
                             /\ job[j].op = "enroll" => job[j].account # None
       /\ job[j].op = "passkeyLogin" => o.of = job[j].account
    <2>1. Fitting(j)
        BY <1>2 DEF CeremonyInv
    <2> QED BY <1>1, <1>4, <1>9, <2>1 DEF Fitting
<1>11. job[j].used # None /\ job[j].row = None /\ o # None /\ job[j].op \in {"passkeyLogin", "unlock", "enroll"}
       /\ job[j].used \in Passkeys
    BY <1>1, <1>2, JobShape DEF Asserted, Placed
<1> HIDE DEF o
<1>12. Placed(job'[j])
    BY <1>5, <1>10, <1>11 DEF Placed
<1>13. Named(job'[j])
    BY <1>1, <1>2, <1>5, <1>10, <1>11 DEF Named
<1>14. Asserted(job'[j])
    BY <1>2, <1>5, <1>10, <1>11 DEF Asserted
<1>15. Known(j)'
    <2>1. job[j].token # 0 => issuedTo'[job[j].token] # None
        BY <1>1, <1>7, TokenKept
    <2>2. job[j].used \in created' /\ \E copy \in {1, 2} : job[j].count <= counter'[<<job[j].used, copy>>]
        BY <1>1, <1>2, <1>11 DEF Known, Counted
    <2> QED BY <1>1, <1>5, <1>9, <1>11, <2>1, <2>2 DEF Known, Counted
<1>16. Keyed(j)'
    BY <1>5 DEF Keyed
<1>17. FlowInv(j)'
    BY <1>12, <1>13, <1>14, <1>15, <1>16 DEF FlowInv
<1>18. Offered(j)' /\ Fitting(j)' /\ NoCopies'
    BY <1>1, <1>2, <1>6 DEF Offered, Fitting, CeremonyInv, NoCopies
<1>19. Fresh(j)'
    <2> SUFFICES ASSUME Creating(job'[j])
                 PROVE  Fresh(j)'
        BY DEF Fresh, Creating
    <2>1. Creating(job[j])
        BY <1>1, <1>5, <1>10, <1>11 DEF Creating
    <2>2. Fresh(j)
        BY <1>2 DEF CeremonyInv
    <2> QED BY <1>1, <1>5, <1>6, <2>1, <2>2 DEF Fresh
<1>20. Lasting(j)'
    <2>1. Lasting(j)
        BY <1>2 DEF CeremonyInv
    <2> QED BY <1>1, <1>5, <1>10, <1>11, <2>1 DEF Lasting, o
<1> QED BY <1>1, <1>3, <1>5, <1>6, <1>7, <1>8, <1>17, <1>18, <1>19, <1>20, CeremonyGood

-----------------------------------------------------------------------------
(* The invariant, and what it gives.                                       *)

\* The invariant holds for a server without accounts and a browser without
\* tabs' state.
LEMMA GoodInit == Init => Good
<1> SUFFICES ASSUME NEW registered \in SUBSET Accounts, NEW enrolled \in SUBSET Passkeys,
                    NEW x \in Accounts, NEW signedIn \in BOOLEAN,
                    enrolled # {} => x \in registered, signedIn => x \in registered /\ MaxSessions # 0,
                    InitWith(registered, enrolled, x, signedIn)
             PROVE  Good
    BY DEF Init
<1>1. MaxSessions \in Nat /\ MaxStarts \in Nat /\ x # None /\ \A p \in Passkeys : p # None
    BY BoundsAssumption, AbsenceAssumption
<1>2. signedIn => 1 \in Sessions
    BY <1>1 DEF Sessions
<1>3. \A s \in Sessions : issuedTo[s] # None => s = 1 /\ signedIn /\ issuedTo[s] = x
    BY DEF InitWith
<1>4. SessionTypes
    <2>1. users \subseteq Accounts /\ issuedTo \in [Sessions -> Accounts \cup {None}]
        BY DEF InitWith
    <2>2. live \subseteq {s \in Sessions : issuedTo[s] # None}
        BY <1>1, <1>2 DEF InitWith
    <2>3. token \in 0..MaxSessions
        BY <1>1 DEF InitWith
    <2> QED BY <2>1, <2>2, <2>3 DEF SessionTypes
<1>5. /\ \A p \in Passkeys : /\ rows[p] = IF p \in enrolled THEN [of |-> x, count |-> 1, wrap |-> x, anomaly |-> FALSE] ELSE None
                             /\ counter[<<p, 1>>] = IF p \in enrolled THEN 1 ELSE 0
                             /\ counter[<<p, 2>>] = 0
      /\ counter \in [Passkeys \X {1, 2} -> Nat]
    BY DEF InitWith
<1>6. [of |-> x, count |-> 1, wrap |-> x, anomaly |-> FALSE] \in Row
    BY DEF Row
<1>7. rows \in [Passkeys -> Row \cup {None}]
    BY <1>6 DEF InitWith
<1>8. \A p \in Passkeys : rows[p] # None =>
          p \in enrolled /\ rows[p].of = x /\ rows[p].count = 1 /\ rows[p].anomaly = FALSE
    <2> SUFFICES ASSUME NEW p \in Passkeys, rows[p] # None
                 PROVE  p \in enrolled /\ rows[p].of = x /\ rows[p].count = 1 /\ rows[p].anomaly = FALSE
        OBVIOUS
    <2>1. p \in enrolled /\ rows[p] = [of |-> x, count |-> 1, wrap |-> x, anomaly |-> FALSE]
        BY <1>5
    <2> QED BY <2>1
<1>9. PasskeyTypes
    <2>1. \A p \in Passkeys : rows[p] # None => p \in created /\ rows[p].of \in users
        BY <1>8 DEF InitWith
    <2>2. \A p \in Passkeys : rows[p] # None => Counted(p, rows[p].count)
        BY <1>5, <1>8 DEF Counted
    <2>3. created \subseteq Passkeys
        BY DEF InitWith
    <2> QED BY <1>5, <1>7, <2>1, <2>2, <2>3 DEF PasskeyTypes
<1>10. KeypairTypes
    BY DEF InitWith, KeypairTypes
<1>11. CeremonyTypes /\ FlowTypes /\ \A j \in Jobs : ceremony[j] = None /\ job[j] = None
    BY <1>1 DEF InitWith, CeremonyTypes, FlowTypes
<1>12. TabTypes
    <2>1. [Shut EXCEPT !.authed = signedIn] \in [authed : BOOLEAN, key : Accounts \cup {None}, pending : Accounts \cup {None}]
        BY DEF Shut
    <2> QED BY <2>1 DEF InitWith, TabTypes
<1>13. FlowsInv
    BY <1>11 DEF FlowsInv, FlowInv
<1>14. SessionInv
    <2>1. \A s \in Sessions : issuedTo[s] # None => issuedTo[s] \in users
        BY <1>3 DEF InitWith
    <2>2. token # 0 => issuedTo[token] # None
        BY <1>1, <1>2 DEF InitWith
    <2> QED BY <2>1, <2>2 DEF SessionInv
<1>15. CeremonyInv
    BY <1>5, <1>11 DEF CeremonyInv, NoCopies, Offered, Fitting, Fresh, Creating, Lasting
<1>16. RowsInv
    BY <1>8 DEF RowsInv
<1> QED BY <1>4, <1>9, <1>10, <1>11, <1>12, <1>13, <1>14, <1>15, <1>16, GoodInParts

\* Every step keeps it.
LEMMA GoodStep == Good /\ [Next]_vars => Good'
<1> SUFFICES ASSUME Good, [Next]_vars
             PROVE  Good'
    OBVIOUS
<1>1. CASE UNCHANGED vars
    <2>1. UNCHANGED <<users, issuedTo, live, rows, created, counter, keypair, ceremony, made, token, tab, job, starts, uses, strayed>>
        BY <1>1 DEF vars, server, history
    <2>2. FlowTypes' /\ KeypairTypes' /\ TabTypes'
        BY <2>1, Untouched, GoodInParts DEF FlowTypes
    <2>3. \A k \in Jobs : Stays(k)
        BY <2>1, UnchangedStays
    <2>4. token' \in 0..MaxSessions /\ (token' # 0 => issuedTo[token'] # None)
        BY <2>1, GoodInParts DEF SessionTypes, SessionInv
    <2> QED BY <2>1, <2>2, <2>3, <2>4, QuietGood
<1>2. ASSUME NEW j \in Jobs,
             \/ Register(j) \/ Login(j) \/ Logout(j) \/ Me(j)
             \/ LoginStart(j) \/ UnlockStart(j) \/ RegisterStart(j) \/ Create(j) \/ AssertPasskey(j)
             \/ Consume(j) \/ CeremonyExpires(j) \/ Check(j) \/ Alarm(j) \/ Write(j) \/ LoginIssues(j)
             \/ Insert(j) \/ SecondCeremony(j)
      PROVE  Good'
    BY <1>2, RegisterGood, LoginsGood, LogoutGood, MeGood, StartsGood, EnrolmentStartGood, CreateGood,
       AssertGood, ConsumeGood, ExpiresGood, CheckGood, AlarmGood, WriteGood, InsertGood, SecondGood
<1>3. ASSUME NEW j \in Jobs,
             \/ GetKeypair(j) \/ HasKeypair(j) \/ Generate(j) \/ Upsert(j) \/ Published(j)
             \/ RegisteredIn(j) \/ LoggedIn(j) \/ ReadEmail(j) \/ Unlocked(j)
             \/ JoinAsDifferentAccount(j) \/ Fails(j)
      PROVE  Good'
    BY <1>3, GetGood, HandsGood, GenerateGood, UpsertGood, UnlocksGood, LoggedInGood, LogoutGood, JoinGood, FailingGood
<1>4. ASSUME NEW j \in Jobs, Leave(j) \/ OverlayRefused(j)
      PROVE  Good'
    <2>1. /\ job[j] # None /\ Reload(job[j].tab)
          /\ UNCHANGED <<server, created, counter, starts, history>>
        BY <1>4 DEF Leave, OverlayRefused, At, history
    <2> DEFINE t == job[j].tab
    <2>2. t \in Tabs /\ Reload(t)
        BY <2>1, TokenOfFlow
    <2> HIDE DEF t
    <2> QED BY <2>1, <2>2, ReloadGood
<1>5. ASSUME NEW t \in Tabs, Form(t) \/ Overlay(t) \/ Shell(t) \/ TakePending(t) \/ Visit(t) \/ Lock(t)
      PROVE  Good'
    BY <1>5, FormsGood, PendingGood, VisitGood, LockGood
<1>6. ASSUME NEW s \in Sessions, SessionEnds(s) PROVE Good'
    BY <1>6, SessionEndsGood
<1>7. ASSUME NEW p \in Passkeys, DeletePasskey(p) PROVE Good'
    BY <1>7, DeleteGood
<1> QED BY <1>1, <1>2, <1>3, <1>4, <1>5, <1>6, <1>7 DEF Next

\* It holds in every reachable state.
LEMMA AlwaysGood == Spec => []Good
BY GoodInit, GoodStep, PTL DEF Spec

\* Sessions, passkeys, ceremonies, flows and tabs are what they may be: among
\* others, no row has a counter that no authenticator has reached.
THEOREM TypeCorrect == Spec => []TypeOK
<1>1. Good => TypeOK
    BY DEF Good
<1> QED BY <1>1, AlwaysGood, PTL

\* However the ceremonies of a passkey overlap, one whose authenticator exists
\* once is never reported as copied (passkeys.rs:305-309).
THEOREM AlarmsAreJustified == Spec => []NoFalseAlarm
<1>1. Good => NoFalseAlarm
    BY DEF Good, CredInv, RowsInv, NoFalseAlarm
<1> QED BY <1>1, AlwaysGood, PTL

-----------------------------------------------------------------------------
(* Identity keys: a tab under which no session was changed works for the   *)
(* account of the session that the browser has, or of none.                *)

SignsIn == {"register", "signIn", "passkeyLogin"}

\* A flow in a tab that has not strayed, with the User Key it took if any.
Undisturbed(j) == job[j] # None /\ job[j].tab \notin strayed /\ job[j].uk # Freed

\* A login has taken no User Key.
Unkeyed(j) == job[j] # None /\ job[j].tab \notin strayed /\ job[j].op \in SignsIn => job[j].uk = None

\* Such a flow's requests and User Key are of one account, and of the browser's
\* session while there is one.
InSession(j) ==
    /\ Unkeyed(j)
    /\ Undisturbed(j) =>
        /\ job[j].op \notin SignsIn /\ token # 0 => job[j].token \in {0, token}
        /\ job[j].uk # None => /\ token # 0 => issuedTo[token] = job[j].uk
                               /\ job[j].token # 0 => issuedTo[job[j].token] = job[j].uk
        /\ job[j].op \in SignsIn => ~tab[job[j].tab].authed
        /\ job[j].op \in {"unlock", "unlockPassword"} => tab[job[j].tab].authed

\* What an unlock was told is of the browser's session too.
Answers(j) ==
    Undisturbed(j) /\ token # 0 =>
        /\ job[j].op = "unlock" /\ job[j].at \in {"gesture", "finish"} /\ ceremony[j] # None =>
              issuedTo[token] = ceremony[j].of
        /\ job[j].op = "unlock" /\ job[j].at \in {"check", "write", "arrive"} =>
              issuedTo[token] = job[j].offer.of
        /\ job[j].op = "unlockPassword" /\ job[j].at \in {"email", "arrive"} =>
              issuedTo[token] = job[j].account

\* What was made with a User Key goes to the account it belongs to, though the
\* key be freed in the meantime.
Bound(j) ==
    job[j] # None /\ job[j].tab \notin strayed =>
        /\ job[j].token # 0 /\ job[j].at = "put" => issuedTo[job[j].token] = job[j].account
        /\ job[j].token # 0 /\ job[j].op = "enroll" /\ job[j].at = "finish"
               /\ ceremony[j] # None /\ ceremony[j].kind = "authentication" =>
              issuedTo[job[j].token] = job[j].account
        /\ job[j].op = "enroll" /\ job[j].at \in {"check", "write"} => job[j].account = job[j].offer.of

\* In every tab, a login brings the session of its account, and an unlock by
\* password takes no User Key.
Told(j) ==
    job[j] # None =>
        /\ job[j].op \in SignsIn /\ job[j].at = "arrive" =>
              job[j].token # 0 /\ issuedTo[job[j].token] = job[j].account
        /\ job[j].op = "unlockPassword" => job[j].uk = None

OwnFlow(j) == InSession(j) /\ Answers(j) /\ Bound(j) /\ Told(j)

\* A tab that is not signed in holds no User Key, any other one none but of the
\* browser's session.
OwnTab(t) ==
    t \notin strayed =>
        /\ ~tab[t].authed => tab[t].key = None /\ tab[t].pending = None
        /\ token # 0 => tab[t].key \in {issuedTo[token], None} /\ tab[t].pending \in {issuedTo[token], None}

\* Sealed by the owner, in the rows and in the copies of them that flows read.
Sealed ==
    strayed = {} =>
        /\ \A x \in Accounts : keypair[x] # None => keypair[x].by = x
        /\ \A p \in Passkeys : rows[p] # None => rows[p].wrap \in {rows[p].of, None}
        /\ \A j \in Jobs : job[j] # None /\ job[j].row # None => job[j].row.wrap \in {job[j].row.of, None}

Own == (\A j \in Jobs : OwnFlow(j)) /\ (\A t \in Tabs : OwnTab(t)) /\ Sealed /\ OneIdentity

-----------------------------------------------------------------------------
(* Frames of it.                                                           *)

\* Sessions and keypairs are never taken back or replaced, nor is it forgotten
\* that a tab has strayed.
Kept ==
    /\ \A s \in Sessions : issuedTo[s] # None => issuedTo'[s] = issuedTo[s]
    /\ \A x \in Accounts : keypair[x] # None => keypair'[x] = keypair[x]
    /\ strayed \subseteq strayed'

\* Tokens of tabs and flows are of the same account after a step that takes
\* nothing back.
LEMMA TokensLast ==
    ASSUME Good, Kept
    PROVE  /\ token # 0 => token \in Sessions /\ issuedTo[token] \in Accounts /\ issuedTo'[token] = issuedTo[token]
           /\ \A j \in Jobs : job[j] # None /\ job[j].token # 0 =>
                  /\ job[j].token \in Sessions /\ issuedTo[job[j].token] \in Accounts
                  /\ issuedTo'[job[j].token] = issuedTo[job[j].token]
<1>1. SessionTypes /\ SessionInv
    BY GoodInParts
<1>2. \A n \in 0..MaxSessions : n # 0 => n \in Sessions
    BY BoundsAssumption DEF Sessions
<1>3. token # 0 => token \in Sessions /\ issuedTo[token] # None
    BY <1>1, <1>2 DEF SessionTypes, SessionInv
<1>4. ASSUME NEW j \in Jobs, job[j] # None, job[j].token # 0
      PROVE  job[j].token \in Sessions /\ issuedTo[job[j].token] # None
    BY <1>2, <1>4, TokenOfFlow
<1> QED BY <1>1, <1>3, <1>4 DEF Kept, SessionTypes

\* A flow that stays, while the browser's session does, or ends, or the flow
\* loses its User Key or its tab strays.
LEMMA OwnFlowStays ==
    ASSUME Good, Kept, NEW k \in Jobs, OwnFlow(k), Stays(k), ceremony'[k] \in {ceremony[k], None},
           job'[k] # None /\ job'[k].tab \notin strayed' /\ job'[k].uk # Freed =>
               token' \in {token, 0} /\ tab'[job[k].tab].authed = tab[job[k].tab].authed
    PROVE  OwnFlow(k)'
<1> SUFFICES ASSUME job'[k] # None
             PROVE  OwnFlow(k)'
    BY DEF OwnFlow, InSession, Unkeyed, Answers, Bound, Told, Undisturbed
<1> DEFINE r == job[k]
<1> DEFINE q == job'[k]
<1>1. /\ r # None
      /\ q.tab = r.tab /\ q.op = r.op /\ q.at = r.at /\ q.account = r.account /\ q.token = r.token
      /\ q.offer = r.offer
      /\ q.uk = r.uk \/ (r.uk # None /\ q.uk = Freed)
    BY DEF Stays, Follows
<1>2. /\ r.token # 0 => issuedTo'[r.token] = issuedTo[r.token]
      /\ token # 0 => issuedTo'[token] = issuedTo[token]
    BY <1>1, TokensLast
<1>3. Told(k)'
    <2>1. Told(k)
        BY DEF OwnFlow
    <2> QED BY <1>1, <1>2, <2>1, AbsenceAssumption DEF Told
<1>4. Bound(k)'
    <2>1. Bound(k) /\ (r.tab \notin strayed' => r.tab \notin strayed)
        BY DEF OwnFlow, Kept
    <2> HIDE DEF r, q
    <2> QED BY <1>1, <1>2, <2>1 DEF Bound, r, q
<1>5. Unkeyed(k)'
    <2>1. Unkeyed(k) /\ (r.tab \notin strayed' => r.tab \notin strayed)
        BY DEF OwnFlow, InSession, Kept
    <2> QED BY <1>1, <2>1 DEF Unkeyed
<1>6. CASE Undisturbed(k)'
    <2>1. Undisturbed(k) /\ token' \in {token, 0} /\ tab'[r.tab].authed = tab[r.tab].authed /\ q.uk = r.uk
        BY <1>1, <1>6 DEF Undisturbed, Kept
    <2>2. InSession(k) /\ Answers(k)
        BY DEF OwnFlow
    <2>3. token' # 0 => token # 0 /\ token' = token /\ issuedTo'[token'] = issuedTo[token]
        BY <1>2, <2>1
    <2>4. InSession(k)'
        BY <1>1, <1>2, <1>5, <2>1, <2>2, <2>3 DEF InSession
    <2>5. Answers(k)'
        BY <1>1, <2>1, <2>2, <2>3 DEF Answers
    <2> QED BY <1>3, <1>4, <2>4, <2>5 DEF OwnFlow
<1>7. CASE ~Undisturbed(k)'
    BY <1>3, <1>4, <1>7, <1>5 DEF OwnFlow, InSession, Answers
<1> QED BY <1>6, <1>7

\* The rows and what flows have of them are as sealed as they were.
SealsStay ==
    /\ \A p \in Passkeys :
          \/ rows'[p] = None \/ rows'[p].wrap = None
          \/ rows[p] # None /\ rows'[p].of = rows[p].of /\ rows'[p].wrap = rows[p].wrap
    /\ \A k \in Jobs : job'[k] # None /\ job'[k].row # None => job[k] # None /\ job'[k].row = job[k].row

\* What is sealed by its owner stays so while rows and keypairs stay.
LEMMA SealedStays ==
    ASSUME Sealed, Kept, SealsStay, keypair' = keypair
    PROVE  Sealed'
BY DEF Sealed, Kept, SealsStay

\* The identity keys in use stay the published ones while none is added.
LEMMA OneStays ==
    ASSUME Good, OneIdentity, Kept, uses' = uses
    PROVE  OneIdentity'
<1> SUFFICES ASSUME NEW u \in uses, u.tab \notin strayed'
             PROVE  keypair'[u.by] # None /\ keypair'[u.by].id = u.id
    BY DEF OneIdentity
<1>1. u.by \in Accounts
    BY GoodInParts DEF KeypairTypes
<1>2. keypair[u.by] # None /\ keypair[u.by].id = u.id
    BY DEF OneIdentity, Kept
<1> QED BY <1>1, <1>2 DEF Kept

\* A tab that is not touched stays its account's, whether or not its session
\* ends.
LEMMA OwnTabStays ==
    ASSUME Good, Kept, NEW t \in Tabs, OwnTab(t), tab'[t] = tab[t], token' \in {token, 0}
    PROVE  OwnTab(t)'
<1>1. token # 0 => issuedTo'[token] = issuedTo[token]
    BY TokensLast
<1> QED BY <1>1 DEF OwnTab, Kept

\* A step that leaves the tabs, the browser's session and the history alone:
\* what remains is about the flow that moves, and the seals.
LEMMA SteadyOwn ==
    ASSUME Good, Own, Kept, UNCHANGED <<token, tab, strayed, uses>>,
           \A k \in Jobs : (Stays(k) /\ ceremony'[k] \in {ceremony[k], None}) \/ OwnFlow(k)',
           Sealed'
    PROVE  Own'
<1>1. \A k \in Jobs : OwnFlow(k)'
    <2> SUFFICES ASSUME NEW k \in Jobs, Stays(k), ceremony'[k] \in {ceremony[k], None}
                 PROVE  OwnFlow(k)'
        OBVIOUS
    <2>1. OwnFlow(k) /\ token' \in {token, 0} /\ tab'[job[k].tab].authed = tab[job[k].tab].authed
        BY DEF Own
    <2> QED BY <2>1, OwnFlowStays
<1>2. \A t \in Tabs : OwnTab(t)'
    BY OwnTabStays DEF Own
<1>3. OneIdentity'
    BY OneStays DEF Own
<1> QED BY <1>1, <1>2, <1>3 DEF Own

\* Such a step in which, besides, no keypair and no seal changes.
LEMMA SteadyFlow ==
    ASSUME Good, Own, UNCHANGED <<token, tab, strayed, uses, keypair>>,
           \A s \in Sessions : issuedTo[s] # None => issuedTo'[s] = issuedTo[s],
           NEW j \in Jobs, OwnFlow(j)',
           \A k \in Jobs \ {j} : Stays(k) /\ ceremony'[k] \in {ceremony[k], None},
           SealsStay
    PROVE  Own'
<1>1. Kept
    BY DEF Kept
<1>2. Sealed'
    BY <1>1, SealedStays DEF Own
<1> QED BY <1>1, <1>2, SteadyOwn

\* Steps in which flows, tabs and keys stay keep the invariant.
LEMMA SteadyQuiet ==
    ASSUME Good, Own, UNCHANGED <<token, tab, strayed, uses, keypair, issuedTo>>,
           \A k \in Jobs : Stays(k) /\ ceremony'[k] \in {ceremony[k], None},
           SealsStay
    PROVE  Own'
<1>1. Kept
    BY DEF Kept
<1>2. Sealed'
    BY <1>1, SealedStays DEF Own
<1> QED BY <1>1, <1>2, SteadyOwn

-----------------------------------------------------------------------------
(* Steps of the server, of an authenticator or of a flow in its tab.       *)

\* A flow that goes on with the token it has, or with the browser's.
LEMMA InSessionMoves ==
    ASSUME Good, Kept, NEW j \in Jobs, OwnFlow(j), UNCHANGED <<token, tab, strayed>>,
           job[j] # None, job'[j] # None,
           job'[j].tab = job[j].tab, job'[j].op = job[j].op, job'[j].uk = job[j].uk,
           job'[j].token \in {job[j].token, token} \/ job[j].op \in SignsIn
    PROVE  InSession(j)'
<1>1. /\ job[j].token # 0 => issuedTo'[job[j].token] = issuedTo[job[j].token]
      /\ token # 0 => issuedTo'[token] = issuedTo[token]
    BY TokensLast
<1>2. Unkeyed(j)'
    BY DEF Unkeyed, OwnFlow, InSession
<1> SUFFICES ASSUME Undisturbed(j)'
             PROVE  InSession(j)'
    BY <1>2 DEF InSession
<1>3. Undisturbed(j) /\ InSession(j)
    BY DEF Undisturbed, OwnFlow
<1>4. CASE job[j].op \in SignsIn
    BY <1>1, <1>3, <1>4, <1>2 DEF InSession, Unkeyed, Undisturbed
<1>5. CASE job'[j].token = job[j].token
    BY <1>1, <1>3, <1>5, <1>2 DEF InSession
<1>6. CASE job'[j].token = token
    BY <1>1, <1>3, <1>6, <1>2 DEF InSession
<1> QED BY <1>4, <1>5, <1>6

\* It goes on to a place where it has nothing to match.
LEMMA PlainOwn ==
    ASSUME Good, Own, NEW j \in Jobs, UNCHANGED <<token, tab, strayed, uses, keypair, issuedTo>>,
           job[j] # None, job'[j] # None,
           job'[j].tab = job[j].tab, job'[j].op = job[j].op, job'[j].uk = job[j].uk,
           job'[j].row = job[j].row, job'[j].token \in {job[j].token, token},
           job'[j].at # "put",
           job[j].op \in SignsIn => job'[j].at # "arrive",
           job[j].op = "unlock" => job'[j].at \notin {"gesture", "finish", "check", "write", "arrive"},
           job[j].op = "unlockPassword" => job'[j].at \notin {"email", "arrive"},
           job[j].op = "enroll" => job'[j].at \notin {"finish", "check", "write"},
           \A k \in Jobs \ {j} : job'[k] = job[k] /\ ceremony'[k] \in {ceremony[k], None},
           \A p \in Passkeys :
              \/ rows'[p] = None \/ rows'[p].wrap = None
              \/ rows[p] # None /\ rows'[p].of = rows[p].of /\ rows'[p].wrap = rows[p].wrap
    PROVE  Own'
<1>1. Kept /\ OwnFlow(j)
    BY DEF Kept, Own
<1>2. InSession(j)'
    BY <1>1, InSessionMoves
<1>3. Answers(j)' /\ Bound(j)'
    BY DEF Answers, Bound
<1>4. Told(j)'
    BY <1>1 DEF OwnFlow, Told
<1>5. \A k \in Jobs \ {j} : Stays(k) /\ ceremony'[k] \in {ceremony[k], None}
    BY UnchangedStays
<1>6. SealsStay
    BY DEF SealsStay
<1> QED BY <1>2, <1>3, <1>4, <1>5, <1>6, SteadyFlow DEF OwnFlow

\* So do steps that only move a flow on.
LEMMA AdvancesOwn ==
    ASSUME Good, Own, NEW j \in Jobs,
           \/ Register(j) \/ Logout(j) \/ LoginStart(j) \/ RegisterStart(j) \/ SecondCeremony(j) \/ Insert(j)
    PROVE  Own'
<1>1. /\ UNCHANGED <<token, tab, strayed, uses, keypair, issuedTo>>
      /\ ceremony' = ceremony \/ \E o : ceremony' = [ceremony EXCEPT ![j] = o]
      /\ rows' = rows \/ Insert(j)
    BY DEF Register, Logout, LoginStart, RegisterStart, SecondCeremony, Insert, Asks, Persist, history
<1>2. SessionTypes /\ FlowTypes /\ CeremonyTypes /\ PasskeyTypes
    BY GoodInParts
<1>3. \E place \in {"login", "leave", "gesture", "second"} : Advances(j, place)
    BY <1>2, PlainMoves
<1>4. PICK place \in {"login", "leave", "gesture", "second"} : Advances(j, place)
    BY <1>3
<1>5. /\ job[j] # None /\ job'[j] # None
      /\ job'[j].tab = job[j].tab /\ job'[j].op = job[j].op /\ job'[j].uk = job[j].uk
      /\ job'[j].row = job[j].row /\ job'[j].token = job[j].token /\ job'[j].at = place
      /\ \A k \in Jobs \ {j} : job'[k] = job[k]
    BY <1>4 DEF Advances, Arrives, Becomes
<1>6. Placed(job[j])
    BY <1>5, TokenOfFlow
<1>7. place = "gesture" => job[j].op # "unlock"
    <2>1. CASE Register(j) \/ Logout(j) \/ Insert(j)
        <3>1. Advances(j, "login") \/ Advances(j, "leave") \/ Advances(j, "second")
            BY <1>2, <2>1, PlainMoves
        <3> QED BY <1>5, <3>1 DEF Advances, Arrives, Becomes
    <2>2. CASE LoginStart(j) \/ RegisterStart(j)
        BY <2>2 DEF LoginStart, RegisterStart
    <2>3. CASE SecondCeremony(j)
        BY <1>6, <2>3 DEF SecondCeremony, At, Placed
    <2> QED BY <2>1, <2>2, <2>3
<1>8. \A k \in Jobs \ {j} : ceremony'[k] = ceremony[k]
    BY <1>1, <1>2 DEF CeremonyTypes
<1>9. \A p \in Passkeys :
              \/ rows'[p] = None \/ rows'[p].wrap = None
              \/ rows[p] # None /\ rows'[p].of = rows[p].of /\ rows'[p].wrap = rows[p].wrap
    <2>1. CASE rows' = rows
        BY <2>1
    <2>2. CASE Insert(j)
        <3> DEFINE r == [of |-> job[j].offer.of, count |-> 0, wrap |-> None, anomaly |-> FALSE]
        <3>1. rows' = [rows EXCEPT ![job[j].used] = r] /\ r.wrap = None
            BY <2>2 DEF Insert
        <3> HIDE DEF r
        <3> QED BY <1>2, <3>1 DEF PasskeyTypes
    <2> QED BY <1>1, <2>1, <2>2
<1> QED BY <1>1, <1>4, <1>5, <1>7, <1>8, <1>9, PlainOwn

\* So do expiries, deletions and alarms.
LEMMA QuietOwn ==
    ASSUME Good, Own,
           \/ \E s \in Sessions : SessionEnds(s)
           \/ \E p \in Passkeys : DeletePasskey(p)
           \/ \E j \in Jobs : CeremonyExpires(j) \/ Alarm(j)
           \/ UNCHANGED vars
    PROVE  Own'
<1>1. /\ UNCHANGED <<token, tab, strayed, uses, keypair, issuedTo>>
      /\ job' = job \/ \E j \in Jobs : Ends(j)
      /\ ceremony' = ceremony \/ \E j \in Jobs : ceremony' = [ceremony EXCEPT ![j] = None]
      /\ rows' = rows \/ (\E p \in Passkeys : rows' = [rows EXCEPT ![p] = None]) \/ (\E j \in Jobs : Alarm(j))
    BY DEF SessionEnds, DeletePasskey, CeremonyExpires, Alarm, history, vars, server
<1>2. FlowTypes /\ CeremonyTypes /\ PasskeyTypes
    BY GoodInParts
<1>3. \A k \in Jobs : Stays(k) /\ (job'[k] = None \/ job'[k] = job[k])
    <2>1. CASE job' = job
        BY <2>1, UnchangedStays
    <2>2. CASE \E j \in Jobs : Ends(j)
        <3>1. PICK j \in Jobs : Ends(j)
            BY <2>2
        <3>2. job'[j] = None /\ (\A k \in Jobs : Stays(k)) /\ \A k \in Jobs \ {j} : job'[k] = job[k]
            BY <1>2, <3>1, EndsQuietly DEF Ends, FlowTypes
        <3> QED BY <3>2
    <2> QED BY <1>1, <2>1, <2>2
<1>4. \A k \in Jobs : ceremony'[k] \in {ceremony[k], None}
    BY <1>1, <1>2 DEF CeremonyTypes
<1>5. \A p \in Passkeys : rows'[p] = None \/ (rows[p] # None /\ rows'[p].of = rows[p].of /\ rows'[p].wrap = rows[p].wrap)
    <2>1. CASE rows' = rows
        BY <2>1
    <2>2. CASE \E p \in Passkeys : rows' = [rows EXCEPT ![p] = None]
        BY <1>2, <2>2 DEF PasskeyTypes
    <2>3. CASE \E j \in Jobs : Alarm(j)
        <3>1. PICK j \in Jobs : Alarm(j)
            BY <2>3
        <3> DEFINE q == job[j].used
        <3>2. job[j] # None /\ job[j].at = "check" /\ rows[q] # None /\ rows' = [rows EXCEPT ![q].anomaly = TRUE]
            BY <3>1 DEF Alarm, At, Found
        <3>3. q \in Passkeys
            BY <3>2, TokenOfFlow, JobShape DEF Asserted
        <3>4. rows[q] \in Row
            BY <1>2, <3>2, <3>3 DEF PasskeyTypes
        <3> DEFINE r == [rows[q] EXCEPT !.anomaly = TRUE]
        <3>5. r.of = rows[q].of /\ r.wrap = rows[q].wrap /\ rows' = [rows EXCEPT ![q] = r]
            BY <1>2, <3>2, <3>3, <3>4 DEF Row, PasskeyTypes
        <3> HIDE DEF q, r
        <3> QED BY <1>2, <3>2, <3>3, <3>5 DEF PasskeyTypes
    <2> QED BY <1>1, <2>1, <2>2, <2>3
<1>6. SealsStay
    BY <1>3, <1>5 DEF SealsStay
<1> QED BY <1>1, <1>3, <1>4, <1>6, SteadyQuiet

\* A failed request keeps it.
LEMMA FailsOwn == ASSUME Good, Own, NEW j \in Jobs, Fails(j) PROVE Own'
<1>1. UNCHANGED <<token, tab, strayed, uses, keypair, issuedTo, rows, ceremony>>
    BY DEF Fails, history, server
<1>2. \/ job[j].op \in {"signOut", "join"} /\ Advances(j, "leave")
      \/ job'[j] = None /\ \A k \in Jobs : Stays(k)
    BY FailsMoves, GoodInParts
<1>3. CASE job[j].op \in {"signOut", "join"} /\ Advances(j, "leave")
    <2>1. /\ job[j] # None /\ job'[j] # None
          /\ job'[j].tab = job[j].tab /\ job'[j].op = job[j].op /\ job'[j].uk = job[j].uk
          /\ job'[j].row = job[j].row /\ job'[j].token = job[j].token /\ job'[j].at = "leave"
          /\ \A k \in Jobs \ {j} : job'[k] = job[k]
        BY <1>3 DEF Advances, Arrives, Becomes
    <2> QED BY <1>1, <2>1, PlainOwn
<1>4. CASE job'[j] = None /\ \A k \in Jobs : Stays(k)
    <2>1. SealsStay
        BY <1>1, <1>4 DEF SealsStay, Stays, Follows
    <2> QED BY <1>1, <1>4, <2>1, SteadyQuiet
<1> QED BY <1>2, <1>3, <1>4

\* The session that a login is given is its account's.
LEMMA LoginsOwn == ASSUME Good, Own, NEW j \in Jobs, Login(j) \/ LoginIssues(j) PROVE Own'
<1>1. /\ UNCHANGED <<rows, ceremony, keypair, token, tab, uses, strayed>>
      /\ job[j] # None /\ job[j].at \in {"login", "issue"}
    BY DEF Login, LoginIssues, At, history
<1>2. SessionTypes /\ FlowTypes /\ Placed(job[j]) /\ Asserted(job[j]) /\ Known(j) /\ job[j] \in Job
    BY <1>1, GoodInParts, TokenOfFlow
<1>3. job[j].account \in Accounts /\ Issue(j, job[j].account) /\ job[j].op \in SignsIn
    <2>1. CASE Login(j)
        BY <1>1, <1>2, <2>1 DEF Login, At, SessionTypes, Placed, SignsIn
    <2>2. CASE LoginIssues(j)
        <3>1. job[j].at = "issue" /\ Issue(j, job[j].offer.of)
            BY <2>2 DEF LoginIssues, At
        <3>2. job[j].op = "passkeyLogin"
            BY <1>2, <3>1 DEF Placed
        <3>3. job[j].offer.of = job[j].account /\ job[j].offer.of \in users
            BY <1>2, <3>1, <3>2 DEF Asserted, Known
        <3> QED BY <1>2, <3>1, <3>2, <3>3 DEF SignsIn, SessionTypes
    <2> QED BY <2>1, <2>2
<1> DEFINE x == job[j].account
<1>4. \E s \in Sessions :
                 /\ issuedTo[s] = None /\ s # 0 /\ s \in 0..MaxSessions
                 /\ issuedTo' = [issuedTo EXCEPT ![s] = x] /\ live' = live \cup {s}
                 /\ Arrives(j, "arrive", s)
    <2>1. x \in Accounts /\ Issue(j, x)
        BY <1>3
    <2> HIDE DEF x
    <2> QED BY <1>1, <1>2, <2>1, IssueMoves
<1>5. PICK s \in Sessions :
                 /\ issuedTo[s] = None /\ s # 0
                 /\ issuedTo' = [issuedTo EXCEPT ![s] = x]
                 /\ Arrives(j, "arrive", s)
    BY <1>4
<1>6. /\ job'[j] # None
      /\ job'[j].tab = job[j].tab /\ job'[j].op = job[j].op /\ job'[j].uk = job[j].uk
      /\ job'[j].account = x
      /\ job'[j].row = job[j].row /\ job'[j].token = s /\ job'[j].at = "arrive"
      /\ \A k \in Jobs \ {j} : job'[k] = job[k]
    BY <1>5 DEF Arrives, Becomes
<1>7. issuedTo'[s] = x /\ \A r \in Sessions : issuedTo[r] # None => issuedTo'[r] = issuedTo[r]
    BY <1>2, <1>5 DEF SessionTypes
<1>8. Kept /\ OwnFlow(j)
    BY <1>1, <1>7 DEF Kept, Own
<1>9. InSession(j)'
    BY <1>1, <1>3, <1>6, <1>8, InSessionMoves
<1>10. Answers(j)' /\ Bound(j)' /\ Told(j)'
    BY <1>3, <1>5, <1>6, <1>7 DEF Answers, Bound, Told, SignsIn
<1>11. SealsStay /\ \A k \in Jobs \ {j} : Stays(k) /\ ceremony'[k] \in {ceremony[k], None}
    BY <1>1, <1>6, UnchangedStays DEF SealsStay
<1> QED BY <1>1, <1>7, <1>9, <1>10, <1>11, SteadyFlow DEF OwnFlow

\* The account of a request of a flow that is undisturbed is that of the
\* browser's session.
LEMMA CallerMatches ==
    ASSUME Good, Own, NEW j \in Jobs, Undisturbed(j), job[j].op \notin SignsIn, Caller(j) # None, token # 0
    PROVE  Caller(j) = issuedTo[token]
<1>1. job[j] # None /\ InSession(j)
    BY DEF Own, OwnFlow, Undisturbed
<1>2. job[j].token # 0 /\ Caller(j) = issuedTo[job[j].token]
    BY <1>1, CallerIs, GoodInParts
<1>3. job[j].token \in {0, token}
    BY <1>1 DEF InSession
<1> QED BY <1>2, <1>3

\* Asking for one's account keeps it: the flow's account is its token's.
LEMMA MeOwn == ASSUME Good, Own, NEW j \in Jobs, Me(j) PROVE Own'
<1>1. /\ UNCHANGED <<issuedTo, rows, ceremony, keypair, token, tab, uses, strayed>>
      /\ job[j] # None /\ job[j].at = "me"
    BY DEF Me, At, history, server
<1>2. /\ Caller(j) # None
      /\ Becomes(j, "email", Caller(j), job[j].token, job[j].used, job[j].count, job[j].offer,
                 job[j].row, job[j].own, job[j].found)
    BY MeMoved, GoodInParts
<1>3. /\ job'[j] # None
      /\ job'[j].tab = job[j].tab /\ job'[j].op = job[j].op /\ job'[j].uk = job[j].uk
      /\ job'[j].account = Caller(j)
      /\ job'[j].row = job[j].row /\ job'[j].token = job[j].token /\ job'[j].at = "email"
      /\ \A k \in Jobs \ {j} : job'[k] = job[k]
    BY <1>2 DEF Becomes
<1>4. job[j].op = "unlockPassword"
    BY <1>1, TokenOfFlow DEF Placed
<1>5. Kept /\ OwnFlow(j)
    BY <1>1 DEF Kept, Own
<1>6. InSession(j)'
    BY <1>1, <1>3, <1>5, InSessionMoves
<1>7. Answers(j)'
    <2> SUFFICES ASSUME Undisturbed(j)', token # 0
                 PROVE  issuedTo[token] = Caller(j)
        BY <1>1, <1>3, <1>4 DEF Answers
    <2>1. Undisturbed(j)
        BY <1>1, <1>3 DEF Undisturbed
    <2> QED BY <1>2, <1>4, <2>1, CallerMatches DEF SignsIn
<1>8. Bound(j)' /\ Told(j)'
    BY <1>1, <1>3, <1>4, <1>5 DEF Bound, Told, OwnFlow
<1>9. SealsStay /\ \A k \in Jobs \ {j} : Stays(k) /\ ceremony'[k] \in {ceremony[k], None}
    BY <1>1, <1>3, UnchangedStays DEF SealsStay
<1> QED BY <1>1, <1>6, <1>7, <1>8, <1>9, SteadyFlow DEF OwnFlow

\* Starting an unlock keeps it.
LEMMA UnlockStartOwn == ASSUME Good, Own, NEW j \in Jobs, UnlockStart(j) PROVE Own'
<1>1. /\ UNCHANGED <<issuedTo, rows, keypair, token, tab, uses, strayed>>
      /\ job[j] # None /\ job[j].at = "start" /\ job[j].op = "unlock" /\ Caller(j) # None
      /\ Asks(j, Caller(j), CapableOf(Caller(j)))
    BY DEF UnlockStart, At, history
<1>2. Advances(j, "gesture") /\ CeremonyTypes
    BY PlainMoves, GoodInParts
<1>3. /\ job'[j] # None
      /\ job'[j].tab = job[j].tab /\ job'[j].op = job[j].op /\ job'[j].uk = job[j].uk
      /\ job'[j].row = job[j].row /\ job'[j].token = job[j].token /\ job'[j].at = "gesture"
      /\ \A k \in Jobs \ {j} : job'[k] = job[k]
    BY <1>2 DEF Advances, Arrives, Becomes
<1>4. ceremony'[j].of = Caller(j) /\ \A k \in Jobs \ {j} : ceremony'[k] = ceremony[k]
    BY <1>1, <1>2 DEF Asks, Persist, CeremonyTypes
<1>5. Kept /\ OwnFlow(j)
    BY <1>1 DEF Kept, Own
<1>6. InSession(j)'
    BY <1>1, <1>3, <1>5, InSessionMoves
<1>7. Answers(j)'
    <2> SUFFICES ASSUME Undisturbed(j)', token # 0
                 PROVE  issuedTo[token] = Caller(j)
        BY <1>1, <1>3, <1>4 DEF Answers
    <2>1. Undisturbed(j)
        BY <1>1, <1>3 DEF Undisturbed
    <2> QED BY <1>1, <2>1, CallerMatches DEF SignsIn
<1>8. Bound(j)' /\ Told(j)'
    BY <1>1, <1>3 DEF Bound, Told, SignsIn
<1>9. SealsStay /\ \A k \in Jobs \ {j} : Stays(k) /\ ceremony'[k] \in {ceremony[k], None}
    BY <1>1, <1>3, <1>4, UnchangedStays DEF SealsStay
<1> QED BY <1>1, <1>6, <1>7, <1>8, <1>9, SteadyFlow DEF OwnFlow

\* Making a passkey keeps it.
LEMMA CreateOwn == ASSUME Good, Own, NEW j \in Jobs, Create(j) PROVE Own'
<1>1. /\ UNCHANGED <<issuedTo, rows, ceremony, keypair, token, tab, uses, strayed>>
      /\ job[j] # None /\ job[j].at = "gesture" /\ job[j].op = "enroll" /\ job[j].used = None
    BY DEF Create, At, history, server
<1>2. SessionTypes /\ FlowTypes /\ CeremonyInv
    BY GoodInParts
<1>3. PICK p \in Passkeys :
          Becomes(j, "finish", job[j].account, token, p, job[j].count, job[j].offer,
                  job[j].row, job[j].own, job[j].found)
    BY <1>2, CreateMoved
<1>4. /\ job'[j] # None
      /\ job'[j].tab = job[j].tab /\ job'[j].op = job[j].op /\ job'[j].uk = job[j].uk
      /\ job'[j].row = job[j].row /\ job'[j].token = token /\ job'[j].at = "finish"
      /\ \A k \in Jobs \ {j} : job'[k] = job[k]
    BY <1>3 DEF Becomes
<1>5. Kept /\ OwnFlow(j)
    BY <1>1 DEF Kept, Own
<1>6. InSession(j)'
    BY <1>1, <1>4, <1>5, InSessionMoves
<1>7. ceremony[j] # None => ceremony[j].kind # "authentication"
    BY <1>1, <1>2 DEF CeremonyInv, Fitting
<1>8. Answers(j)' /\ Bound(j)' /\ Told(j)'
    BY <1>1, <1>4, <1>7 DEF Answers, Bound, Told, SignsIn
<1>9. SealsStay /\ \A k \in Jobs \ {j} : Stays(k) /\ ceremony'[k] \in {ceremony[k], None}
    BY <1>1, <1>4, UnchangedStays DEF SealsStay
<1> QED BY <1>1, <1>6, <1>8, <1>9, SteadyFlow DEF OwnFlow

\* An enrolment seals its User Key and sends it with the browser's session.
LEMMA AssertOwn == ASSUME Good, Own, NEW j \in Jobs, AssertPasskey(j) PROVE Own'
<1>1. /\ UNCHANGED <<issuedTo, rows, ceremony, keypair, token, tab, uses, strayed>>
      /\ job[j] # None /\ job[j].at = "gesture"
      /\ job[j].op = "enroll" => job[j].uk # Freed
    BY DEF AssertPasskey, At, history, server
<1>2. SessionTypes /\ FlowTypes /\ PasskeyTypes /\ Named(job[j]) /\ Placed(job[j])
    BY <1>1, GoodInParts, TokenOfFlow
<1>3. PICK p \in Passkeys, c \in Nat :
          Becomes(j, "finish", IF job[j].op = "enroll" THEN job[j].uk ELSE job[j].account, token, p,
                  c, job[j].offer, job[j].row, job[j].own, job[j].found)
    <2>1. PICK p \in Passkeys, copy \in {1, 2} :
              /\ counter[<<p, copy>>] \in Nat
              /\ Becomes(j, "finish", IF job[j].op = "enroll" THEN job[j].uk ELSE job[j].account, token, p,
                         counter[<<p, copy>>] + 1, job[j].offer, job[j].row, job[j].own, job[j].found)
        BY <1>2, AssertMoved
    <2> DEFINE c == counter[<<p, copy>>] + 1
    <2>2. c \in Nat
        BY <2>1
    <2> QED BY <2>1, <2>2
<1>4. /\ job'[j] # None
      /\ job'[j].tab = job[j].tab /\ job'[j].op = job[j].op /\ job'[j].uk = job[j].uk
      /\ job'[j].row = job[j].row /\ job'[j].token = token /\ job'[j].at = "finish"
      /\ job[j].op = "enroll" => job'[j].account = job[j].uk
      /\ \A k \in Jobs \ {j} : job'[k] = job[k]
    BY <1>3 DEF Becomes
<1>5. Kept /\ OwnFlow(j)
    BY <1>1 DEF Kept, Own
<1>6. InSession(j)'
    BY <1>1, <1>4, <1>5, InSessionMoves
<1>7. Answers(j)'
    <2> SUFFICES ASSUME Undisturbed(j)', token # 0, job[j].op = "unlock", ceremony[j] # None
                 PROVE  issuedTo[token] = ceremony[j].of
        <3>1. job'[j].op # "unlockPassword"
            BY <1>1, <1>2, <1>4 DEF Placed
        <3> QED BY <1>1, <1>4, <3>1 DEF Answers
    <2>1. Undisturbed(j)
        BY <1>1, <1>4 DEF Undisturbed
    <2> QED BY <1>1, <1>5, <2>1 DEF OwnFlow, Answers
<1>8. Bound(j)'
    <2> SUFFICES ASSUME job[j].tab \notin strayed, token # 0, job[j].op = "enroll"
                 PROVE  issuedTo[token] = job[j].uk
        BY <1>1, <1>4 DEF Bound
    <2>1. Undisturbed(j)
        BY <1>1 DEF Undisturbed
    <2>2. job[j].uk # None
        BY <1>2 DEF Named
    <2> QED BY <1>5, <2>1, <2>2 DEF OwnFlow, InSession
<1>9. Told(j)'
    BY <1>4, <1>5, <1>1 DEF Told, OwnFlow
<1>10. SealsStay /\ \A k \in Jobs \ {j} : Stays(k) /\ ceremony'[k] \in {ceremony[k], None}
    BY <1>1, <1>4, UnchangedStays DEF SealsStay
<1> QED BY <1>1, <1>6, <1>7, <1>8, <1>9, <1>10, SteadyFlow DEF OwnFlow

\* The ceremony is of the account of the request: so is then what an enrolment
\* has sealed.
LEMMA ConsumeOwn == ASSUME Good, Own, NEW j \in Jobs, Consume(j) PROVE Own'
<1> DEFINE o == ceremony[j]
<1>1. /\ UNCHANGED <<issuedTo, rows, keypair, token, tab, uses, strayed>>
      /\ job[j] # None /\ job[j].at = "finish" /\ o # None
      /\ job[j].op # "passkeyLogin" => Caller(j) = o.of
      /\ ceremony' = [ceremony EXCEPT ![j] = None]
    BY DEF Consume, At, history
<1>2. SessionTypes /\ FlowTypes /\ CeremonyTypes /\ CeremonyInv /\ Placed(job[j])
    BY <1>1, GoodInParts, TokenOfFlow
<1>3. /\ o \in Offer
      /\ \E place \in {"insert", "check"} :
            /\ place = IF o.kind = "registration" THEN "insert" ELSE "check"
            /\ Becomes(j, place, job[j].account, job[j].token, job[j].used, job[j].count, o,
                       job[j].row, job[j].own, job[j].found)
    BY <1>2, ConsumeMoved
<1>4. PICK place \in {"insert", "check"} :
            /\ place = IF o.kind = "registration" THEN "insert" ELSE "check"
            /\ Becomes(j, place, job[j].account, job[j].token, job[j].used, job[j].count, o,
                       job[j].row, job[j].own, job[j].found)
    BY <1>3
<1>5. /\ job'[j] # None
      /\ job'[j].op = job[j].op /\ job'[j].uk = job[j].uk /\ job'[j].tab = job[j].tab
      /\ job'[j].at = place /\ job'[j].account = job[j].account /\ job'[j].token = job[j].token
      /\ job'[j].offer = o /\ job'[j].row = job[j].row
      /\ \A k \in Jobs \ {j} : job'[k] = job[k]
    BY <1>4 DEF Becomes
<1>6. ceremony'[j] = None /\ \A k \in Jobs \ {j} : ceremony'[k] = ceremony[k]
    BY <1>1, <1>2 DEF CeremonyTypes
<1>7. Kept /\ OwnFlow(j)
    BY <1>1 DEF Kept, Own
<1>8. InSession(j)'
    BY <1>1, <1>5, <1>7, InSessionMoves
<1>9. o.kind \in {"registration", "authentication"} /\ o.of \in Accounts
    BY <1>3, Shapes
<1>10. Answers(j)'
    <2> SUFFICES ASSUME Undisturbed(j)', token # 0, job[j].op = "unlock"
                 PROVE  issuedTo[token] = o.of
        <3>1. job'[j].op # "unlockPassword"
            BY <1>1, <1>2, <1>5 DEF Placed
        <3> HIDE DEF o
        <3> QED BY <1>1, <1>5, <1>6, <3>1 DEF Answers
    <2>1. Undisturbed(j)
        BY <1>1, <1>5 DEF Undisturbed
    <2> QED BY <1>1, <1>7, <2>1 DEF OwnFlow, Answers
<1>11. Bound(j)'
    <2> SUFFICES ASSUME job[j].tab \notin strayed, job[j].op = "enroll", place = "check"
                 PROVE  job[j].account = o.of
        <3> HIDE DEF o
        <3> QED BY <1>1, <1>5, <1>6 DEF Bound
    <2>1. Caller(j) = o.of /\ Caller(j) # None
        BY <1>1, <1>9, AbsenceAssumption
    <2>2. job[j].token # 0 /\ Caller(j) = issuedTo[job[j].token]
        BY <1>1, <1>2, <2>1, CallerIs
    <2>3. o.kind = "authentication"
        BY <1>4, <1>9
    <2>4. issuedTo[job[j].token] = job[j].account
        BY <1>1, <1>7, <2>2, <2>3 DEF OwnFlow, Bound
    <2> QED BY <2>1, <2>2, <2>4
<1>12. Told(j)'
    BY <1>5, <1>7, <1>1 DEF Told, OwnFlow
<1>13. SealsStay /\ \A k \in Jobs \ {j} : Stays(k) /\ ceremony'[k] \in {ceremony[k], None}
    BY <1>1, <1>5, <1>6, UnchangedStays DEF SealsStay
<1> QED BY <1>1, <1>8, <1>10, <1>11, <1>12, <1>13, SteadyFlow DEF OwnFlow

\* The copy of a passkey's row that is read is sealed as the row is.
LEMMA CheckOwn == ASSUME Good, Own, NEW j \in Jobs, Check(j) PROVE Own'
<1> DEFINE p == job[j].used
<1>1. /\ UNCHANGED <<issuedTo, rows, ceremony, keypair, token, tab, uses, strayed>>
      /\ job[j] # None /\ job[j].at = "check" /\ rows[p] # None
    BY DEF Check, At, history, server, Found
<1>2. SessionTypes /\ FlowTypes /\ PasskeyTypes /\ Asserted(job[j]) /\ Placed(job[j]) /\ job[j] \in Job
    BY <1>1, GoodInParts, TokenOfFlow
<1>3. p # None /\ p \in Passkeys
    BY <1>1, <1>2, JobShape DEF Asserted
<1>4. Becomes(j, "write", job[j].account, job[j].token, p, job[j].count, job[j].offer,
              rows[p], job[j].own, job[j].found)
    BY <1>2, <1>3, CheckMoved
<1>5. /\ job'[j] # None
      /\ job'[j].op = job[j].op /\ job'[j].uk = job[j].uk /\ job'[j].tab = job[j].tab
      /\ job'[j].at = "write" /\ job'[j].account = job[j].account /\ job'[j].token = job[j].token
      /\ job'[j].offer = job[j].offer /\ job'[j].row = rows[p]
      /\ \A k \in Jobs \ {j} : job'[k] = job[k]
    BY <1>4 DEF Becomes
<1> HIDE DEF p
<1>6. Kept /\ OwnFlow(j) /\ Sealed
    BY <1>1 DEF Kept, Own
<1>7. InSession(j)'
    BY <1>1, <1>5, <1>6, InSessionMoves
<1>8. Answers(j)'
    <2> SUFFICES ASSUME Undisturbed(j)', token # 0, job[j].op = "unlock"
                 PROVE  issuedTo[token] = job[j].offer.of
        <3>1. job'[j].op # "unlockPassword"
            BY <1>1, <1>2, <1>5 DEF Placed
        <3> QED BY <1>1, <1>5, <3>1 DEF Answers
    <2>1. Undisturbed(j)
        BY <1>1, <1>5 DEF Undisturbed
    <2> QED BY <1>1, <1>6, <2>1 DEF OwnFlow, Answers
<1>9. Bound(j)'
    BY <1>1, <1>5, <1>6 DEF OwnFlow, Bound
<1>10. Told(j)'
    BY <1>1, <1>5, <1>6 DEF Told, OwnFlow
<1>11. Sealed'
    <2> SUFFICES ASSUME strayed = {}, NEW k \in Jobs, job'[k] # None, job'[k].row # None
                 PROVE  job'[k].row.wrap \in {job'[k].row.of, None}
        BY <1>1, <1>6 DEF Sealed
    <2>1. CASE k = j
        BY <1>1, <1>3, <1>5, <1>6, <2>1 DEF Sealed
    <2>2. CASE k # j
        BY <1>5, <1>6, <2>2 DEF Sealed
    <2> QED BY <2>1, <2>2
<1>12. \A k \in Jobs : (Stays(k) /\ ceremony'[k] \in {ceremony[k], None}) \/ OwnFlow(k)'
    BY <1>1, <1>5, <1>7, <1>8, <1>9, <1>10, UnchangedStays DEF OwnFlow
<1> QED BY <1>1, <1>6, <1>11, <1>12, SteadyOwn

\* What a passkey is given to open is the User Key of the account that enrolled
\* it.
LEMMA WriteOwn == ASSUME Good, Own, NEW j \in Jobs, Write(j) PROVE Own'
<1> DEFINE p == job[j].used
<1> DEFINE w == IF job[j].op = "enroll" THEN job[j].account ELSE rows[p].wrap
<1>1. /\ UNCHANGED <<issuedTo, ceremony, keypair, token, tab, uses, strayed>>
      /\ rows' = [rows EXCEPT ![p] = Written(job[j])]
      /\ job[j] # None /\ job[j].at = "write"
    BY DEF Write, At, history
<1>2. SessionTypes /\ FlowTypes /\ PasskeyTypes /\ CeremonyInv /\ Asserted(job[j]) /\ Placed(job[j]) /\ job[j] \in Job
    BY <1>1, GoodInParts, TokenOfFlow
<1>3. p # None /\ p \in Passkeys
    BY <1>1, <1>2, JobShape DEF Asserted
<1>4. /\ \A q \in Passkeys \ {p} : rows'[q] = rows[q]
      /\ rows[p] = None => rows'[p] = None
      /\ rows[p] # None => rows'[p].of = rows[p].of /\ rows'[p].wrap = w
    <2>1. rows'[p] = Written(job[j]) /\ \A q \in Passkeys \ {p} : rows'[q] = rows[q]
        BY <1>1, <1>2, <1>3 DEF PasskeyTypes
    <2>2. rows[p] = None => Written(job[j]) = None
        BY DEF Written, WrittenFor
    <2>3. ASSUME rows[p] # None
          PROVE  Written(job[j]).of = rows[p].of /\ Written(job[j]).wrap = w
        <3> DEFINE count == IF job[j].count > job[j].row.count THEN job[j].count ELSE job[j].row.count
        <3>1. Written(job[j]) = [rows[p] EXCEPT !.count = count, !.wrap = w]
            BY <2>3 DEF Written, WrittenFor
        <3>2. rows[p] \in Row
            BY <1>2, <1>3, <2>3 DEF PasskeyTypes
        <3> HIDE DEF p, w, count
        <3> QED BY <3>1, <3>2 DEF Row
    <2> HIDE DEF p, w
    <2> QED BY <2>1, <2>2, <2>3
<1>5. Kept /\ OwnFlow(j) /\ Sealed
    BY <1>1 DEF Kept, Own
<1>6. strayed = {} /\ rows[p] # None => w \in {rows[p].of, None}
    <2>1. job[j].op = "enroll" /\ strayed = {} => job[j].account = job[j].offer.of
        BY <1>1, <1>5 DEF OwnFlow, Bound
    <2>2. rows[p] # None => rows[p].of = job[j].offer.of
        BY <1>1, <1>2 DEF CeremonyInv, Lasting
    <2> QED BY <1>3, <1>5, <2>1, <2>2 DEF Sealed
<1>7. /\ job[j].op = "enroll" => job'[j] = None /\ \A k \in Jobs : Stays(k)
      /\ job[j].op = "unlock" => Advances(j, "arrive")
      /\ job[j].op \notin {"enroll", "unlock"} => Advances(j, "issue")
    BY <1>2, WriteMoves
<1>8. \A k \in Jobs : job'[k] # None /\ job'[k].row # None => job[k] # None /\ job'[k].row = job[k].row
    <2>1. CASE job[j].op = "enroll"
        BY <1>7, <2>1 DEF Stays, Follows
    <2>2. CASE job[j].op # "enroll"
        BY <1>7, <2>2 DEF Advances, Arrives, Becomes
    <2> QED BY <2>1, <2>2
<1> HIDE DEF p, w
<1>9. Sealed'
    <2> SUFFICES ASSUME strayed = {}
                 PROVE  /\ \A q \in Passkeys : rows'[q] # None => rows'[q].wrap \in {rows'[q].of, None}
                        /\ \A k \in Jobs : job'[k] # None /\ job'[k].row # None => job'[k].row.wrap \in {job'[k].row.of, None}
        BY <1>1, <1>5 DEF Sealed
    <2>1. \A q \in Passkeys : rows'[q] # None => rows'[q].wrap \in {rows'[q].of, None}
        <3> SUFFICES ASSUME NEW q \in Passkeys, rows'[q] # None
                     PROVE  rows'[q].wrap \in {rows'[q].of, None}
            OBVIOUS
        <3>1. CASE q = p
            BY <1>3, <1>4, <1>6, <3>1
        <3>2. CASE q # p
            BY <1>4, <1>5, <3>2 DEF Sealed
        <3> QED BY <3>1, <3>2
    <2>2. \A k \in Jobs : job'[k] # None /\ job'[k].row # None => job'[k].row.wrap \in {job'[k].row.of, None}
        BY <1>5, <1>8 DEF Sealed
    <2> QED BY <2>1, <2>2
<1>10. \A k \in Jobs : (Stays(k) /\ ceremony'[k] \in {ceremony[k], None}) \/ OwnFlow(k)'
    <2>1. CASE job[j].op = "enroll"
        BY <1>1, <1>7, <2>1
    <2>2. CASE job[j].op # "enroll"
        <3>1. PICK place \in {"arrive", "issue"} : Advances(j, place) /\ (place = "arrive" <=> job[j].op = "unlock")
            BY <1>7, <2>2
        <3>2. /\ job'[j] # None
              /\ job'[j].op = job[j].op /\ job'[j].uk = job[j].uk /\ job'[j].tab = job[j].tab
              /\ job'[j].at = place /\ job'[j].token = job[j].token
              /\ job'[j].offer = job[j].offer
              /\ \A k \in Jobs \ {j} : job'[k] = job[k]
            BY <3>1 DEF Advances, Arrives, Becomes
        <3>3. InSession(j)'
            BY <1>1, <1>5, <3>2, InSessionMoves
        <3>4. Answers(j)'
            <4> SUFFICES ASSUME Undisturbed(j)', token # 0, job[j].op = "unlock"
                         PROVE  issuedTo[token] = job[j].offer.of
                <5>1. job'[j].op # "unlockPassword"
                    BY <1>1, <1>2, <3>2 DEF Placed
                <5> QED BY <1>1, <3>2, <5>1 DEF Answers
            <4>1. Undisturbed(j)
                BY <1>1, <3>2 DEF Undisturbed
            <4> QED BY <1>1, <1>5, <4>1 DEF OwnFlow, Answers
        <3>5. Bound(j)'
            BY <3>2 DEF Bound
        <3>6. Told(j)'
            BY <1>1, <1>2, <3>1, <3>2 DEF Told, SignsIn, Placed
        <3> QED BY <1>1, <3>2, <3>3, <3>4, <3>5, <3>6, UnchangedStays DEF OwnFlow
    <2> QED BY <2>1, <2>2
<1> QED BY <1>1, <1>5, <1>9, <1>10, SteadyOwn

\* Reading the address keeps it.
LEMMA ReadEmailOwn == ASSUME Good, Own, NEW j \in Jobs, ReadEmail(j) PROVE Own'
<1>1. /\ UNCHANGED <<issuedTo, rows, ceremony, keypair, token, tab, uses, strayed>>
      /\ job[j] # None /\ job[j].at = "email"
    BY DEF ReadEmail, At, history, server
<1>2. Advances(j, "arrive") /\ job[j].op = "unlockPassword"
    BY <1>1, PlainMoves, GoodInParts, TokenOfFlow DEF Placed
<1>3. /\ job'[j] # None
      /\ job'[j].tab = job[j].tab /\ job'[j].op = job[j].op /\ job'[j].uk = job[j].uk
      /\ job'[j].account = job[j].account
      /\ job'[j].row = job[j].row /\ job'[j].token = job[j].token /\ job'[j].at = "arrive"
      /\ \A k \in Jobs \ {j} : job'[k] = job[k]
    BY <1>2 DEF Advances, Arrives, Becomes
<1>4. Kept /\ OwnFlow(j)
    BY <1>1 DEF Kept, Own
<1>5. InSession(j)'
    BY <1>1, <1>3, <1>4, InSessionMoves
<1>6. Answers(j)'
    <2> SUFFICES ASSUME Undisturbed(j)', token # 0
                 PROVE  issuedTo[token] = job[j].account
        BY <1>1, <1>2, <1>3 DEF Answers
    <2>1. Undisturbed(j)
        BY <1>1, <1>3 DEF Undisturbed
    <2> QED BY <1>1, <1>2, <1>4, <2>1 DEF OwnFlow, Answers
<1>7. Bound(j)' /\ Told(j)'
    BY <1>1, <1>2, <1>3, <1>4 DEF Bound, Told, OwnFlow, SignsIn
<1>8. SealsStay /\ \A k \in Jobs \ {j} : Stays(k) /\ ceremony'[k] \in {ceremony[k], None}
    BY <1>1, <1>3, UnchangedStays DEF SealsStay
<1> QED BY <1>1, <1>5, <1>6, <1>7, <1>8, SteadyFlow DEF OwnFlow

\* Reading the keypair keeps it: what is found is the published one.
LEMMA GetOwn == ASSUME Good, Own, NEW j \in Jobs, GetKeypair(j) PROVE Own'
<1>1. /\ UNCHANGED <<issuedTo, rows, ceremony, keypair, token, tab, uses, strayed>>
      /\ job[j] # None /\ job[j].at = "get"
    BY DEF GetKeypair, At, history, server
<1>2. /\ job[j].op = "ensure"
      /\ Becomes(j, "got", job[j].account, job[j].token, job[j].used, job[j].count, job[j].offer,
                 job[j].row, job[j].own, keypair[Caller(j)])
    BY <1>1, GetMoved, GoodInParts, TokenOfFlow DEF Placed
<1>3. /\ job'[j] # None
      /\ job'[j].tab = job[j].tab /\ job'[j].op = job[j].op /\ job'[j].uk = job[j].uk
      /\ job'[j].row = job[j].row /\ job'[j].token = job[j].token /\ job'[j].at = "got"
      /\ \A k \in Jobs \ {j} : job'[k] = job[k]
    BY <1>2 DEF Becomes
<1> QED BY <1>1, <1>2, <1>3, PlainOwn

\* A keypair is wrapped under the User Key of the account of the browser's
\* session.
LEMMA GenerateOwn == ASSUME Good, Own, NEW j \in Jobs, Generate(j) PROVE Own'
<1>1. /\ UNCHANGED <<issuedTo, rows, ceremony, keypair, token, tab, uses, strayed>>
      /\ job[j] # None /\ job[j].at = "got"
    BY DEF Generate, At, server
<1>2. SessionTypes /\ FlowTypes /\ KeypairTypes /\ Named(job[j]) /\ Placed(job[j])
    BY <1>1, GoodInParts, TokenOfFlow
<1>3. /\ job[j].op = "ensure" /\ job[j].uk \in Accounts
      /\ Becomes(j, "put", job[j].uk, token, job[j].used, job[j].count, job[j].offer,
                 job[j].row, made + 1, job[j].found)
    BY <1>1, <1>2, GenerateMoved DEF Placed
<1>4. /\ job'[j] # None
      /\ job'[j].tab = job[j].tab /\ job'[j].op = job[j].op /\ job'[j].uk = job[j].uk
      /\ job'[j].account = job[j].uk
      /\ job'[j].row = job[j].row /\ job'[j].token = token /\ job'[j].at = "put"
      /\ \A k \in Jobs \ {j} : job'[k] = job[k]
    BY <1>3 DEF Becomes
<1>5. Kept /\ OwnFlow(j)
    BY <1>1 DEF Kept, Own
<1>6. InSession(j)'
    BY <1>1, <1>4, <1>5, InSessionMoves
<1>7. Bound(j)'
    <2> SUFFICES ASSUME job[j].tab \notin strayed, token # 0
                 PROVE  issuedTo[token] = job[j].uk
        BY <1>1, <1>3, <1>4 DEF Bound
    <2>1. Undisturbed(j) /\ job[j].uk # None
        BY <1>1, <1>3, AbsenceAssumption DEF Undisturbed
    <2> QED BY <1>5, <2>1 DEF OwnFlow, InSession
<1>8. Answers(j)' /\ Told(j)'
    BY <1>3, <1>4 DEF Answers, Told, SignsIn
<1>9. SealsStay /\ \A k \in Jobs \ {j} : Stays(k) /\ ceremony'[k] \in {ceremony[k], None}
    BY <1>1, <1>4, UnchangedStays DEF SealsStay
<1> QED BY <1>1, <1>6, <1>7, <1>8, <1>9, SteadyFlow DEF OwnFlow

\* The keypair that is stored is wrapped under the User Key of its account.
LEMMA UpsertOwn == ASSUME Good, Own, NEW j \in Jobs, Upsert(j) PROVE Own'
<1> DEFINE x == Caller(j)
<1>1. /\ UNCHANGED <<issuedTo, rows, ceremony, token, tab, uses, strayed>>
      /\ job[j] # None /\ job[j].at = "put"
    BY DEF Upsert, At, history
<1>2. SessionTypes /\ FlowTypes /\ KeypairTypes /\ FlowInv(j) /\ Placed(job[j])
    BY <1>1, GoodInParts, TokenOfFlow DEF FlowsInv
<1>3. /\ x # None
      /\ \A y \in Accounts : y # x => keypair'[y] = keypair[y]
      /\ keypair[x] # None => keypair'[x] = keypair[x]
      /\ keypair[x] = None => keypair'[x].by = job[j].account
      /\ Becomes(j, "published", job[j].account, job[j].token, job[j].used, job[j].count, job[j].offer,
                 job[j].row, job[j].own, keypair'[x])
    BY <1>2, UpsertMoved
<1>4. /\ job'[j] # None
      /\ job'[j].tab = job[j].tab /\ job'[j].op = job[j].op /\ job'[j].uk = job[j].uk
      /\ job'[j].row = job[j].row /\ job'[j].token = job[j].token /\ job'[j].at = "published"
      /\ \A k \in Jobs \ {j} : job'[k] = job[k]
    BY <1>3 DEF Becomes
<1>5. x \in Accounts /\ job[j].token # 0 /\ x = issuedTo[job[j].token]
    BY <1>1, <1>2, <1>3, CallerIs
<1> HIDE DEF x
<1>6. OwnFlow(j) /\ Sealed
    BY DEF Own
<1>7. \A y \in Accounts : keypair[y] # None => keypair'[y] = keypair[y]
    BY <1>3
<1>8. Kept
    BY <1>1, <1>7 DEF Kept
<1>9. InSession(j)'
    BY <1>1, <1>4, <1>6, <1>8, InSessionMoves
<1>10. Answers(j)' /\ Bound(j)' /\ Told(j)'
    BY <1>1, <1>2, <1>4 DEF Answers, Bound, Told, SignsIn, Placed
<1>11. Sealed'
    <2> SUFFICES ASSUME strayed = {}
                 PROVE  /\ \A y \in Accounts : keypair'[y] # None => keypair'[y].by = y
                        /\ \A k \in Jobs : job'[k] # None /\ job'[k].row # None => job'[k].row.wrap \in {job'[k].row.of, None}
        BY <1>1, <1>6 DEF Sealed
    <2>1. issuedTo[job[j].token] = job[j].account
        BY <1>1, <1>5, <1>6 DEF OwnFlow, Bound
    <2>2. \A y \in Accounts : keypair'[y] # None => keypair'[y].by = y
        BY <1>3, <1>5, <1>6, <2>1 DEF Sealed
    <2>3. \A k \in Jobs : job'[k] # None /\ job'[k].row # None => job[k] # None /\ job'[k].row = job[k].row
        BY <1>1, <1>4
    <2>4. \A k \in Jobs : job'[k] # None /\ job'[k].row # None => job'[k].row.wrap \in {job'[k].row.of, None}
        BY <1>6, <2>3 DEF Sealed
    <2> QED BY <2>2, <2>4
<1>12. \A k \in Jobs : (Stays(k) /\ ceremony'[k] \in {ceremony[k], None}) \/ OwnFlow(k)'
    BY <1>1, <1>4, <1>9, <1>10, UnchangedStays DEF OwnFlow
<1> QED BY <1>1, <1>8, <1>11, <1>12, SteadyOwn

-----------------------------------------------------------------------------
(* Steps of a tab.                                                         *)

\* Its parts after a step make it hold after the step.
LEMMA OwnNext ==
    ASSUME Good, Own, Kept, UNCHANGED <<keypair, uses>>, SealsStay,
           \A k \in Jobs : OwnFlow(k)', \A t \in Tabs : OwnTab(t)'
    PROVE  Own'
<1>1. Sealed'
    BY SealedStays DEF Own
<1>2. OneIdentity'
    BY OneStays DEF Own
<1> QED BY <1>1, <1>2 DEF Own

\* A flow that begins, in a tab that has the account of the session.
LEMMA BegunFlow ==
    ASSUME NEW j \in Jobs, NEW t, NEW op, NEW place, NEW x, NEW u, NEW n, Begins(j, t, op, place, x, u, n),
           place \in {"register", "login", "start", "me", "get", "logout"},
           t \notin strayed' =>
               /\ op \notin SignsIn /\ token' # 0 => n \in {0, token'}
               /\ u # None => /\ token' # 0 => issuedTo'[token'] = u
                              /\ n # 0 => issuedTo'[n] = u
               /\ op \in SignsIn => ~tab'[t].authed /\ u = None
               /\ op \in {"unlock", "unlockPassword"} => tab'[t].authed,
           op = "unlockPassword" => u = None
    PROVE  OwnFlow(j)'
<1>1. /\ job'[j] # None /\ job'[j].tab = t /\ job'[j].op = op /\ job'[j].uk = u /\ job'[j].token = n
      /\ job'[j].at = place
    BY DEF Begins
<1>2. InSession(j)'
    BY <1>1 DEF InSession, Unkeyed, Undisturbed
<1>3. Answers(j)' /\ Bound(j)' /\ Told(j)'
    BY <1>1 DEF Answers, Bound, Told
<1> QED BY <1>2, <1>3 DEF OwnFlow

\* Beginning a flow changes nothing that is sealed.
LEMMA BegunSeals ==
    ASSUME NEW j \in Jobs, NEW t, NEW op, NEW place, NEW x, NEW u, NEW n, Begins(j, t, op, place, x, u, n),
           rows' = rows
    PROVE  SealsStay
<1>1. job'[j].row = None /\ \A k \in Jobs \ {j} : Stays(k)
    BY DEF Begins
<1> QED BY <1>1 DEF SealsStay, Stays, Follows

\* Starting a flow in a tab that may start it keeps the invariant.
LEMMA StartOwn ==
    ASSUME Good, Own, NEW t \in Tabs, NEW op, NEW place \in Places, NEW x \in Accounts \cup {None},
           Start(t, op, place, x),
           \/ op = "register" /\ place = "register" /\ ~tab[t].authed
           \/ op = "signIn" /\ place = "login" /\ ~tab[t].authed
           \/ op = "passkeyLogin" /\ place = "start" /\ ~tab[t].authed
           \/ op = "unlock" /\ place = "start" /\ tab[t].authed /\ tab[t].key = None
           \/ op = "unlockPassword" /\ place = "me" /\ tab[t].authed /\ tab[t].key = None
           \/ op = "enroll" /\ place = "start"
           \/ op = "ensure" /\ place = "get"
           \/ op \in {"signOut", "join"} /\ place = "logout"
    PROVE  Own'
<1>1. UNCHANGED <<issuedTo, rows, ceremony, keypair, token, tab, uses, strayed>>
    BY DEF Start, server, history
<1>2. op \in {"register", "signIn", "passkeyLogin", "unlock", "unlockPassword",
              "enroll", "ensure", "signOut", "join"}
    OBVIOUS
<1>3. \E j \in Jobs : Begins(j, t, op, place, x, tab[t].key, token)
    BY <1>2, StartBegins, GoodInParts
<1> DEFINE u == tab[t].key
<1> DEFINE n == token
<1>4. PICK j \in Jobs : Begins(j, t, op, place, x, u, n)
    BY <1>3
<1>5. OwnTab(t) /\ n = token
    BY DEF Own
<1>6. t \notin strayed' =>
         /\ op \notin SignsIn /\ token' # 0 => n \in {0, token'}
         /\ u # None => /\ token' # 0 => issuedTo'[token'] = u
                        /\ n # 0 => issuedTo'[n] = u
         /\ op \in SignsIn => ~tab'[t].authed /\ u = None
         /\ op \in {"unlock", "unlockPassword"} => tab'[t].authed
    BY <1>1, <1>5 DEF OwnTab, SignsIn
<1>7. (op = "unlockPassword" => u = None) /\ place \in {"register", "login", "start", "me", "get", "logout"}
    OBVIOUS
<1> HIDE DEF u, n
<1>8. OwnFlow(j)'
    BY <1>4, <1>6, <1>7, BegunFlow
<1>9. SealsStay /\ \A k \in Jobs \ {j} : Stays(k) /\ ceremony'[k] \in {ceremony[k], None}
    BY <1>1, <1>4, BegunSeals DEF Begins
<1> QED BY <1>1, <1>8, <1>9, SteadyFlow

\* So do the forms, the overlay and the shell.
LEMMA FormsOwn == ASSUME Good, Own, NEW t \in Tabs, Form(t) \/ Overlay(t) \/ Shell(t) PROVE Own'
<1>1. {"register", "login", "start", "me", "get", "logout"} \subseteq Places
    BY DEF Places
<1>2. CASE Form(t)
    <2>1. PICK x \in Accounts : \/ Start(t, "register", "register", x)
                                \/ Start(t, "signIn", "login", x)
                                \/ Start(t, "passkeyLogin", "start", x)
        BY <1>2 DEF Form
    <2>2. ~tab[t].authed /\ x \in Accounts \cup {None}
        BY <1>2 DEF Form
    <2> QED BY <1>1, <2>1, <2>2, StartOwn
<1>3. CASE Overlay(t)
    <2>1. /\ tab[t].authed /\ tab[t].key = None
          /\ Start(t, "unlock", "start", None) \/ Start(t, "unlockPassword", "me", None)
        BY <1>3 DEF Overlay
    <2> QED BY <1>1, <2>1, StartOwn
<1>4. CASE Shell(t)
    <2>1. \/ Start(t, "join", "logout", None)
          \/ Start(t, "signOut", "logout", None)
          \/ Start(t, "enroll", "start", None) \/ Start(t, "ensure", "get", None)
        BY <1>4 DEF Shell
    <2> QED BY <1>1, <2>1, StartOwn
<1> QED BY <1>2, <1>3, <1>4

\* The User Key that a login left is the one of the browser's session.
LEMMA PendingOwn == ASSUME Good, Own, NEW t \in Tabs, TakePending(t) PROVE Own'
<1>1. /\ UNCHANGED <<issuedTo, rows, ceremony, keypair, token, uses, strayed>>
      /\ tab[t].pending # None /\ token # 0
      /\ tab' = [tab EXCEPT ![t].key = tab[t].pending, ![t].pending = None]
    BY DEF TakePending, server, history
<1>2. /\ tab'[t].authed = tab[t].authed /\ tab'[t].key = tab[t].pending /\ tab'[t].pending = None
      /\ \A s \in Tabs : tab'[s].authed = tab[s].authed /\ (s # t => tab'[s] = tab[s])
    <2>1. tab \in [Tabs -> [authed : BOOLEAN, key : Accounts \cup {None}, pending : Accounts \cup {None}]]
        BY GoodInParts DEF TabTypes
    <2> DEFINE r == [tab[t] EXCEPT !.key = tab[t].pending, !.pending = None]
    <2>2. r.authed = tab[t].authed /\ r.key = tab[t].pending /\ r.pending = None /\ tab' = [tab EXCEPT ![t] = r]
        BY <1>1, <2>1
    <2> HIDE DEF r
    <2> QED BY <2>1, <2>2
<1>3. \E j \in Jobs : Begins(j, t, "ensure", "get", None, tab[t].pending, token)
    BY PendingBegins, GoodInParts
<1> DEFINE u == tab[t].pending
<1> DEFINE n == token
<1>4. PICK j \in Jobs : Begins(j, t, "ensure", "get", None, u, n)
    BY <1>3
<1>5. OwnTab(t) /\ n = token /\ Kept
    BY <1>1 DEF Own, Kept
<1>6. t \notin strayed' =>
         /\ "ensure" \notin SignsIn /\ token' # 0 => n \in {0, token'}
         /\ u # None => /\ token' # 0 => issuedTo'[token'] = u
                        /\ n # 0 => issuedTo'[n] = u
         /\ "ensure" \in SignsIn => ~tab'[t].authed /\ u = None
         /\ "ensure" \in {"unlock", "unlockPassword"} => tab'[t].authed
    BY <1>1, <1>5 DEF OwnTab, SignsIn
<1> HIDE DEF u, n
<1>7. OwnFlow(j)'
    BY <1>4, <1>6, BegunFlow
<1>8. ASSUME NEW k \in Jobs \ {j} PROVE OwnFlow(k)'
    <2>1. Stays(k) /\ OwnFlow(k)
        BY <1>4 DEF Begins, Own
    <2>2. job'[k] # None => job[k] # None /\ job[k].tab \in Tabs
        BY <2>1, TokenOfFlow DEF Stays, Follows
    <2> QED BY <1>1, <1>2, <1>5, <2>1, <2>2, OwnFlowStays
<1>9. ASSUME NEW s \in Tabs PROVE OwnTab(s)'
    <2>1. CASE s = t
        BY <1>1, <1>2, <1>5, <2>1 DEF OwnTab
    <2>2. CASE s # t
        BY <1>1, <1>2, <1>5, <2>2, OwnTabStays DEF Own
    <2> QED BY <2>1, <2>2
<1>10. SealsStay
    BY <1>1, <1>4, BegunSeals
<1> QED BY <1>1, <1>5, <1>7, <1>8, <1>9, <1>10, OwnNext

\* An identity key is handed to a flow of a tab that has the account of the
\* key's session.
LEMMA HandsOwn == ASSUME Good, Own, NEW j \in Jobs, HasKeypair(j) \/ Published(j) PROVE Own'
<1>1. /\ job[j] # None /\ job[j].at \in {"got", "published"} /\ job[j].uk # Freed
      /\ \E id : /\ Hands(j, id)
                 /\ \/ id = job[j].own /\ job[j].at = "published" /\ id = job[j].found.id
                    \/ job[j].found # None /\ id = job[j].found.id
    BY DEF HasKeypair, Published, Unwraps, At, Owns
<1>2. PICK id : /\ Hands(j, id)
                /\ \/ id = job[j].own /\ job[j].at = "published" /\ id = job[j].found.id
                   \/ job[j].found # None /\ id = job[j].found.id
    BY <1>1
<1> DEFINE u == [tab |-> job[j].tab, by |-> job[j].uk, id |-> id]
<1>3. /\ uses' = uses \cup {u} /\ Ends(j)
      /\ UNCHANGED <<issuedTo, rows, ceremony, keypair, token, tab, strayed>>
    BY <1>2 DEF Hands, server
<1>4. (\A k \in Jobs : Stays(k)) /\ job'[j] = None
    BY <1>3, EndsQuietly, GoodInParts
<1>5. Kept /\ OwnFlow(j) /\ OneIdentity
    BY <1>3 DEF Kept, Own
<1>6. job[j].tab \notin strayed => keypair[job[j].uk] # None /\ keypair[job[j].uk].id = id
    <2> SUFFICES ASSUME job[j].tab \notin strayed
                 PROVE  keypair[job[j].uk] # None /\ keypair[job[j].uk].id = id
        OBVIOUS
    <2>1. Keyed(j) /\ Placed(job[j]) /\ Named(job[j])
        BY <1>1, TokenOfFlow
    <2>2. job[j].found # None /\ job[j].token # 0 /\ job[j].found = keypair[issuedTo[job[j].token]] /\ id = job[j].found.id
        BY <1>1, <1>2, <2>1 DEF Keyed
    <2>3. Undisturbed(j) /\ job[j].uk # None
        BY <1>1, <2>1 DEF Undisturbed, Placed, Named
    <2>4. issuedTo[job[j].token] = job[j].uk
        BY <1>5, <2>2, <2>3 DEF OwnFlow, InSession
    <2> QED BY <2>2, <2>4
<1>7. OneIdentity'
    <2>1. u.tab = job[j].tab /\ u.by = job[j].uk /\ u.id = id
        OBVIOUS
    <2> HIDE DEF u
    <2> QED BY <1>3, <1>5, <1>6, <2>1 DEF OneIdentity
<1>8. \A k \in Jobs : OwnFlow(k)'
    BY <1>3, <1>4, <1>5, OwnFlowStays DEF Own
<1>9. \A t \in Tabs : OwnTab(t)'
    BY <1>3, <1>5, OwnTabStays DEF Own
<1>10. Sealed'
    BY <1>3, <1>4, <1>5, SealedStays DEF SealsStay, Stays, Follows, Own
<1> QED BY <1>7, <1>8, <1>9, <1>10 DEF Own

\* Flows end, lose their User Key or go on in the same session, or in none.
LEMMA QuietTabsOwn ==
    ASSUME Good, Own, Kept, UNCHANGED <<keypair, uses, rows, ceremony>>, token' \in {token, 0},
           \A k \in Jobs : Stays(k),
           \A k \in Jobs : job'[k] # None /\ job'[k].tab \notin strayed' /\ job'[k].uk # Freed =>
                               tab'[job[k].tab].authed = tab[job[k].tab].authed,
           NEW t \in Tabs, \A s \in Tabs \ {t} : tab'[s] = tab[s], OwnTab(t)'
    PROVE  Own'
<1>1. \A k \in Jobs : OwnFlow(k)'
    BY OwnFlowStays DEF Own
<1>2. \A s \in Tabs : OwnTab(s)'
    BY OwnTabStays DEF Own
<1>3. SealsStay
    BY DEF SealsStay, Stays, Follows
<1> QED BY <1>1, <1>2, <1>3, OwnNext

\* Locking a tab keeps it.
LEMMA LockOwn == ASSUME Good, Own, NEW t \in Tabs, Lock(t) PROVE Own'
<1>1. /\ UNCHANGED <<issuedTo, keypair, uses, rows, ceremony, token, strayed>>
      /\ tab' = [tab EXCEPT ![t].key = None] /\ job' = FreedIn(t)
    BY DEF Lock, server, history
<1>2. \A k \in Jobs : Stays(k)
    BY <1>1, FreedRows, GoodInParts DEF Stays
<1>3. /\ tab'[t].authed = tab[t].authed /\ tab'[t].key = None /\ tab'[t].pending = tab[t].pending
      /\ \A s \in Tabs : tab'[s].authed = tab[s].authed /\ (s # t => tab'[s] = tab[s])
    <2>1. tab \in [Tabs -> [authed : BOOLEAN, key : Accounts \cup {None}, pending : Accounts \cup {None}]]
        BY GoodInParts DEF TabTypes
    <2> DEFINE r == [tab[t] EXCEPT !.key = None]
    <2>2. r.authed = tab[t].authed /\ r.key = None /\ r.pending = tab[t].pending /\ tab' = [tab EXCEPT ![t] = r]
        BY <1>1, <2>1
    <2> HIDE DEF r
    <2> QED BY <2>1, <2>2
<1>4. Kept /\ OwnTab(t)
    BY <1>1 DEF Kept, Own
<1>5. OwnTab(t)'
    BY <1>1, <1>3, <1>4 DEF OwnTab
<1>6. \A k \in Jobs : job'[k] # None => tab'[job[k].tab].authed = tab[job[k].tab].authed
    BY <1>2, <1>3, TokenOfFlow DEF Stays, Follows
<1> QED BY <1>1, <1>2, <1>3, <1>4, <1>5, <1>6, QuietTabsOwn

\* The flows of a tab that is reloaded are gone.
LEMMA DropsOwn ==
    ASSUME Good, Own, NEW t \in Tabs, NEW r, r \in {Shut, [Shut EXCEPT !.authed = TRUE]},
           UNCHANGED <<issuedTo, keypair, uses, rows, ceremony, strayed>>, token' \in {token, 0},
           tab' = [tab EXCEPT ![t] = r],
           job' = [k \in Jobs |-> IF job[k] # None /\ job[k].tab = t THEN None ELSE job[k]]
    PROVE  Own'
<1>1. /\ \A k \in Jobs : Stays(k)
      /\ \A k \in Jobs : job'[k] # None => job'[k].tab # t /\ job'[k] = job[k]
    BY DropsQuietly, GoodInParts
<1>2. /\ tab'[t].key = None /\ tab'[t].pending = None
      /\ \A s \in Tabs \ {t} : tab'[s] = tab[s]
    <2>1. r.key = None /\ r.pending = None
        BY DEF Shut
    <2>2. tab \in [Tabs -> [authed : BOOLEAN, key : Accounts \cup {None}, pending : Accounts \cup {None}]]
        BY GoodInParts DEF TabTypes
    <2> QED BY <2>1, <2>2
<1>3. OwnTab(t)' /\ Kept
    BY <1>2 DEF OwnTab, Kept
<1>4. \A k \in Jobs : job'[k] # None => tab'[job[k].tab].authed = tab[job[k].tab].authed
    BY <1>1, <1>2, TokenOfFlow
<1> QED BY <1>1, <1>2, <1>3, <1>4, QuietTabsOwn

\* Leaving a page keeps it.
LEMMA ReloadOwn == ASSUME Good, Own, NEW j \in Jobs, Leave(j) \/ OverlayRefused(j) PROVE Own'
<1>1. /\ UNCHANGED <<issuedTo, keypair, uses, rows, ceremony, strayed>>
      /\ job[j] # None /\ Reload(job[j].tab)
    BY DEF Leave, OverlayRefused, At, server, history
<1>2. PICK t \in Tabs : Reload(t)
    BY <1>1, TokenOfFlow
<1>3. /\ token' = 0 /\ tab' = [tab EXCEPT ![t] = Shut]
      /\ job' = [k \in Jobs |-> IF job[k] # None /\ job[k].tab = t THEN None ELSE job[k]]
    BY <1>2 DEF Reload
<1> DEFINE r == Shut
<1>4. r \in {Shut, [Shut EXCEPT !.authed = TRUE]} /\ tab' = [tab EXCEPT ![t] = r]
    BY <1>3
<1> HIDE DEF r
<1> QED BY <1>1, <1>3, <1>4, DropsOwn

\* Opening a tab keeps it.
LEMMA VisitOwn == ASSUME Good, Own, NEW t \in Tabs, Visit(t) PROVE Own'
<1>1. UNCHANGED <<issuedTo, keypair, uses, rows, ceremony, strayed, token>>
    BY DEF Visit, server, history
<1> DEFINE r == [Shut EXCEPT !.authed = TRUE]
<1>2. /\ tab' = [tab EXCEPT ![t] = r] /\ r \in {Shut, [Shut EXCEPT !.authed = TRUE]}
      /\ job' = [k \in Jobs |-> IF job[k] # None /\ job[k].tab = t THEN None ELSE job[k]]
    BY DEF Visit
<1> HIDE DEF r
<1> QED BY <1>1, <1>2, DropsOwn

\* Signed out without a reload: a flow that took no User Key goes on, and the
\* tab has strayed.
LEMMA JoinOwn == ASSUME Good, Own, NEW j \in Jobs, JoinAsDifferentAccount(j) PROVE Own'
<1>1. job[j] # None
    BY DEF JoinAsDifferentAccount, At
<1>2. PICK t \in Tabs : t = job[j].tab
    BY <1>1, TokenOfFlow
<1>3. /\ UNCHANGED <<issuedTo, keypair, uses, rows, ceremony>>
      /\ token' = 0 /\ tab' = [tab EXCEPT ![t] = Shut] /\ job' = [FreedIn(t) EXCEPT ![j] = None]
      /\ strayed \subseteq strayed'
    BY <1>2 DEF JoinAsDifferentAccount, server
<1>4. {k \in OtherFlows(t, j) : job[k].uk = None} # {} => t \in strayed'
    BY <1>2 DEF JoinAsDifferentAccount
<1>5. /\ job'[j] = None /\ \A k \in Jobs \ {j} : job'[k] = FreedIn(t)[k]
      /\ \A k \in Jobs : Stays(k)
    BY <1>3, <1>2, FreedWithout, GoodInParts
<1>6. \A k \in Jobs : FreedIn(t)[k] # None =>
          job[k] # None /\ FreedIn(t)[k].uk = (IF job[k].tab = t /\ job[k].uk # None THEN Freed ELSE job[k].uk)
    BY <1>2, FreedRows, GoodInParts
<1>7. /\ tab'[t].key = None /\ tab'[t].pending = None
      /\ \A s \in Tabs \ {t} : tab'[s] = tab[s]
    BY <1>3, <1>2, ShutShape, GoodInParts DEF TabTypes
<1>8. OwnTab(t)' /\ Kept
    BY <1>3, <1>7 DEF OwnTab, Kept
<1>9. ASSUME NEW k \in Jobs, job'[k] # None, job'[k].tab \notin strayed', job'[k].uk # Freed
      PROVE  tab'[job[k].tab].authed = tab[job[k].tab].authed
    <2>1. k # j /\ job[k] # None /\ job'[k].tab = job[k].tab
        BY <1>5, <1>9 DEF Stays, Follows
    <2>2. job[k].tab # t \/ (job[k].uk = None /\ job[k].uk # Freed)
        BY <1>5, <1>6, <1>9, <2>1, AbsenceAssumption
    <2>3. CASE job[k].tab = t
        <3>1. k \in {i \in OtherFlows(t, j) : job[i].uk = None}
            BY <2>1, <2>2, <2>3 DEF OtherFlows
        <3>2. t \in strayed'
            BY <1>4, <3>1
        <3> QED BY <1>9, <2>1, <2>3, <3>2
    <2>4. CASE job[k].tab # t
        BY <1>7, <2>1, <2>4, TokenOfFlow
    <2> QED BY <2>3, <2>4
<1> QED BY <1>3, <1>2, <1>5, <1>7, <1>8, <1>9, QuietTabsOwn

\* A login arrives with the session of its account: the flows in progress, and
\* the tabs with the User Key of another account, are in tabs that stray.
LEMMA ArrivalOwn ==
    ASSUME Good, Own, Kept, NEW j \in Jobs, SignedIn(j, job[j].account),
           job[j] # None, job[j].at = "arrive", job[j].op \in SignsIn,
           issuedTo' = issuedTo, ceremony' = ceremony, \A k \in Jobs \ {j} : Stays(k),
           \A s \in Tabs : s # job[j].tab => tab'[s] = tab[s]
    PROVE  /\ token' = job[j].token /\ token' # 0 /\ issuedTo[token'] = job[j].account
           /\ \A k \in Jobs \ {j} : OwnFlow(k)'
           /\ \A s \in Tabs : s # job[j].tab => OwnTab(s)'
           /\ job[j].tab \notin strayed' =>
                 /\ tab[job[j].tab].key = None /\ tab[job[j].tab].pending = None
                 /\ job[j].row # None => job[j].row.wrap \in {job[j].row.of, None}
<1> DEFINE x == job[j].account
<1>1. token' = job[j].token /\ Strays(j, x) \subseteq strayed' /\ Misled(j) \subseteq strayed'
    BY DEF SignedIn
<1>2. token' # 0 /\ issuedTo[token'] = x
    BY <1>1 DEF Own, OwnFlow, Told
<1>3. ASSUME NEW k \in Jobs \ {j} PROVE OwnFlow(k)'
    <2>1. Stays(k) /\ OwnFlow(k)
        BY DEF Own
    <2>2. ASSUME job'[k] # None, job'[k].tab \notin strayed', job'[k].uk # Freed
          PROVE  FALSE
        <3>1. job[k] # None /\ job[k].tab = job'[k].tab /\ job[k].uk # Freed /\ job[k].tab \in Tabs
            BY <2>1, <2>2, TokenOfFlow DEF Stays, Follows
        <3>2. k \in OtherFlows(job[k].tab, j)
            BY <3>1 DEF OtherFlows
        <3>3. job[k].tab \in Strays(j, x)
            BY <3>1, <3>2 DEF Strays
        <3> QED BY <1>1, <2>2, <3>1, <3>3
    <2> QED BY <2>1, <2>2, OwnFlowStays
<1>4. ASSUME NEW s \in Tabs, s # job[j].tab PROVE OwnTab(s)'
    <2> SUFFICES ASSUME s \notin strayed'
                 PROVE  /\ ~tab[s].authed => tab[s].key = None /\ tab[s].pending = None
                        /\ tab[s].key \in {x, None} /\ tab[s].pending \in {x, None}
        BY <1>2, <1>4 DEF OwnTab
    <2>1. {tab[s].key, tab[s].pending} \ {None, x} = {}
        BY <1>1, <1>4 DEF Strays
    <2>2. OwnTab(s) /\ s \notin strayed
        BY DEF Own, Kept
    <2> QED BY <2>1, <2>2 DEF OwnTab
<1>5. ASSUME job[j].tab \notin strayed'
      PROVE  /\ tab[job[j].tab].key = None /\ tab[job[j].tab].pending = None
             /\ job[j].row # None => job[j].row.wrap \in {job[j].row.of, None}
    <2>1. job[j].tab \notin strayed /\ job[j].tab \in Tabs
        BY <1>5, TokenOfFlow DEF Kept
    <2>2. InSession(j) /\ Unkeyed(j) /\ OwnTab(job[j].tab) /\ Sealed
        BY <2>1 DEF Own, OwnFlow, InSession
    <2>3. ~tab[job[j].tab].authed
        BY <2>1, <2>2, AbsenceAssumption DEF InSession, Unkeyed, Undisturbed
    <2>4. tab[job[j].tab].key = None /\ tab[job[j].tab].pending = None
        BY <2>1, <2>2, <2>3 DEF OwnTab
    <2>5. ASSUME job[j].row # None
          PROVE  job[j].row.wrap \in {job[j].row.of, None}
        BY <1>1, <1>5, <2>1, <2>2, <2>5 DEF Sealed, Misled
    <2> QED BY <2>4, <2>5
<1> QED BY <1>1, <1>2, <1>3, <1>4, <1>5

\* A login keeps it: a tab whose session changes under it has strayed.
LEMMA LoggedInOwn == ASSUME Good, Own, NEW j \in Jobs, LoggedIn(j) PROVE Own'
<1>1. /\ UNCHANGED <<issuedTo, keypair, uses, rows, ceremony>>
      /\ job[j] # None /\ job[j].at = "arrive" /\ job[j].op \in {"signIn", "passkeyLogin"}
      /\ SignedIn(j, job[j].account) /\ Ends(j)
    BY DEF LoggedIn, At, server
<1>2. PICK x \in {IF job[j].op = "signIn" THEN job[j].account ELSE job[j].row.wrap,
                  IF job[j].op = "signIn" THEN job[j].account ELSE None} :
          tab' = [tab EXCEPT ![job[j].tab].authed = TRUE, ![job[j].tab].pending = IF x = None THEN @ ELSE x]
    BY DEF LoggedIn
<1>3. PICK t \in Tabs : t = job[j].tab
    BY <1>1, TokenOfFlow
<1>4. /\ tab'[t].authed = TRUE /\ tab'[t].key = tab[t].key
      /\ tab'[t].pending = IF x = None THEN tab[t].pending ELSE x
      /\ \A s \in Tabs \ {t} : tab'[s] = tab[s]
    <2>1. tab \in [Tabs -> [authed : BOOLEAN, key : Accounts \cup {None}, pending : Accounts \cup {None}]]
        BY GoodInParts DEF TabTypes
    <2> DEFINE r == [tab[t] EXCEPT !.authed = TRUE, !.pending = IF x = None THEN @ ELSE x]
    <2>2. /\ r.authed = TRUE /\ r.key = tab[t].key /\ r.pending = IF x = None THEN tab[t].pending ELSE x
          /\ tab' = [tab EXCEPT ![t] = r]
        BY <1>2, <1>3, <2>1
    <2> HIDE DEF r
    <2> QED BY <2>1, <2>2
<1>5. job'[j] = None /\ \A k \in Jobs : Stays(k)
    BY <1>1, EndsQuietly, GoodInParts
<1>6. Kept
    BY <1>1 DEF Kept, SignedIn
<1>7. /\ token' = job[j].token /\ token' # 0 /\ issuedTo[token'] = job[j].account
      /\ \A k \in Jobs \ {j} : OwnFlow(k)'
      /\ \A s \in Tabs : s # t => OwnTab(s)'
      /\ t \notin strayed' => /\ tab[t].key = None /\ tab[t].pending = None
                              /\ job[j].row # None => job[j].row.wrap \in {job[j].row.of, None}
    BY <1>1, <1>3, <1>4, <1>5, <1>6, ArrivalOwn DEF SignsIn
<1>8. ASSUME t \notin strayed' PROVE x \in {job[j].account, None}
    <2>1. CASE job[j].op = "signIn"
        BY <2>1
    <2>2. CASE job[j].op = "passkeyLogin"
        <3>1. job[j].row # None /\ job[j].row.of = job[j].account
            BY <1>1, <2>2, TokenOfFlow DEF Asserted
        <3> QED BY <1>7, <1>8, <2>2, <3>1
    <2> QED BY <1>1, <2>1, <2>2
<1>9. OwnTab(t)'
    BY <1>1, <1>4, <1>7, <1>8 DEF OwnTab
<1>10. OwnFlow(j)'
    BY <1>5 DEF OwnFlow, InSession, Unkeyed, Undisturbed, Answers, Bound, Told
<1>11. SealsStay
    BY <1>1, <1>5 DEF SealsStay, Stays, Follows
<1> QED BY <1>1, <1>6, <1>7, <1>9, <1>10, <1>11, OwnNext

\* So does the login after a registration.
LEMMA RegisteredInOwn == ASSUME Good, Own, NEW j \in Jobs, RegisteredIn(j) PROVE Own'
<1>1. /\ UNCHANGED <<issuedTo, keypair, uses, rows, ceremony>>
      /\ job[j] # None /\ job[j].at = "arrive" /\ job[j].op = "register"
      /\ SignedIn(j, job[j].account) /\ Unlocks(j, job[j].account, job[j].token)
    BY DEF RegisteredIn, At, server
<1>2. PICK t \in Tabs, x \in Accounts, n \in 0..MaxSessions : t = job[j].tab /\ x = job[j].account /\ n = job[j].token
    BY <1>1, TokenOfFlow, JobShape DEF Named
<1>3. Begins(j, t, "ensure", "get", None, x, n)
    BY <1>1, <1>2, UnlocksBegins, GoodInParts
<1>4. /\ tab'[t].authed /\ tab'[t].key = x /\ tab'[t].pending = tab[t].pending
      /\ \A s \in Tabs \ {t} : tab'[s] = tab[s]
    <2>1. tab \in [Tabs -> [authed : BOOLEAN, key : Accounts \cup {None}, pending : Accounts \cup {None}]]
        BY GoodInParts DEF TabTypes
    <2>2. tab' = [tab EXCEPT ![t].authed = @ \/ job[j].op = "register", ![t].key = x]
        BY <1>1, <1>2 DEF Unlocks
    <2> DEFINE r == [tab[t] EXCEPT !.authed = @ \/ job[j].op = "register", !.key = x]
    <2>3. /\ r.authed = (tab[t].authed \/ job[j].op = "register") /\ r.key = x /\ r.pending = tab[t].pending
          /\ tab' = [tab EXCEPT ![t] = r]
        BY <2>1, <2>2
    <2> HIDE DEF r
    <2> QED BY <1>1, <2>1, <2>3
<1>5. Kept
    BY <1>1 DEF Kept, SignedIn
<1>6. \A k \in Jobs \ {j} : Stays(k)
    BY <1>3 DEF Begins
<1>7. /\ token' = n /\ token' # 0 /\ issuedTo'[token'] = x
      /\ \A k \in Jobs \ {j} : OwnFlow(k)'
      /\ \A s \in Tabs : s # t => OwnTab(s)'
      /\ t \notin strayed' => tab[t].key = None /\ tab[t].pending = None
    BY <1>1, <1>2, <1>4, <1>5, <1>6, ArrivalOwn DEF SignsIn
<1>8. OwnTab(t)'
    BY <1>4, <1>7 DEF OwnTab
<1>9. OwnFlow(j)'
    BY <1>3, <1>7, BegunFlow DEF SignsIn
<1>10. SealsStay
    BY <1>1, <1>3, BegunSeals
<1> QED BY <1>1, <1>5, <1>7, <1>8, <1>9, <1>10, OwnNext

\* The User Key that an unlock opens is the one of the browser's session.
LEMMA UnlockedOwn == ASSUME Good, Own, NEW j \in Jobs, Unlocked(j) PROVE Own'
<1>1. /\ UNCHANGED <<issuedTo, keypair, uses, rows, ceremony, token>>
      /\ job[j] # None /\ job[j].at = "arrive" /\ job[j].op \in {"unlock", "unlockPassword"}
      /\ strayed \subseteq strayed' /\ Misled(j) \subseteq strayed'
      /\ Unlocks(j, IF job[j].op = "unlock" THEN job[j].row.wrap ELSE job[j].account, token)
    BY DEF Unlocked, At, server
<1>2. Named(job[j]) /\ Asserted(job[j]) /\ job[j] \in Job
    BY <1>1, TokenOfFlow
<1>3. /\ job[j].op = "unlock" => /\ job[j].row # None /\ job[j].row.of = job[j].offer.of
                                 /\ job[j].row.wrap \in Accounts
      /\ job[j].op = "unlockPassword" => job[j].account \in Accounts
    BY <1>1, <1>2, JobShape, Shapes DEF Named, Asserted
<1>4. PICK t \in Tabs, x \in Accounts, n \in 0..MaxSessions :
          t = job[j].tab /\ n = token /\ x = IF job[j].op = "unlock" THEN job[j].row.wrap ELSE job[j].account
    BY <1>1, <1>2, <1>3, JobShape, GoodInParts DEF SessionTypes
<1>5. Begins(j, t, "ensure", "get", None, x, n)
    BY <1>1, <1>4, UnlocksBegins, GoodInParts
<1>6. /\ tab'[t].authed = tab[t].authed /\ tab'[t].key = x /\ tab'[t].pending = tab[t].pending
      /\ \A s \in Tabs : tab'[s].authed = tab[s].authed /\ (s # t => tab'[s] = tab[s])
    <2>1. tab \in [Tabs -> [authed : BOOLEAN, key : Accounts \cup {None}, pending : Accounts \cup {None}]]
        BY GoodInParts DEF TabTypes
    <2>2. tab' = [tab EXCEPT ![t].authed = @ \/ job[j].op = "register", ![t].key = x]
        BY <1>1, <1>4 DEF Unlocks
    <2> DEFINE r == [tab[t] EXCEPT !.authed = @ \/ job[j].op = "register", !.key = x]
    <2>3. /\ r.authed = (tab[t].authed \/ job[j].op = "register") /\ r.key = x /\ r.pending = tab[t].pending
          /\ tab' = [tab EXCEPT ![t] = r]
        BY <2>1, <2>2
    <2>4. (tab[t].authed \/ job[j].op = "register") = tab[t].authed
        BY <1>1, <2>1
    <2> HIDE DEF r
    <2> QED BY <2>1, <2>3, <2>4
<1>7. Kept /\ OwnFlow(j) /\ OwnTab(t) /\ Sealed
    BY <1>1 DEF Kept, Own
<1>8. ASSUME t \notin strayed'
      PROVE  (token # 0 => issuedTo[token] = x) /\ tab[t].authed
    <2>1. Undisturbed(j)
        BY <1>1, <1>2, <1>4, <1>7, <1>8, AbsenceAssumption DEF Undisturbed, Named, OwnFlow, Told, Kept
    <2>2. tab[t].authed
        BY <1>1, <1>4, <1>7, <2>1 DEF OwnFlow, InSession
    <2>3. CASE job[j].op = "unlock"
        <3>1. token # 0 => issuedTo[token] = job[j].row.of
            BY <1>1, <1>3, <1>7, <2>1, <2>3 DEF OwnFlow, Answers
        <3>2. job[j].row.wrap = job[j].row.of
            BY <1>1, <1>3, <1>4, <1>7, <1>8, <2>3, AbsenceAssumption DEF Sealed, Misled
        <3> QED BY <1>4, <2>2, <2>3, <3>1, <3>2
    <2>4. CASE job[j].op = "unlockPassword"
        BY <1>1, <1>4, <1>7, <2>1, <2>2, <2>4 DEF OwnFlow, Answers
    <2> QED BY <1>1, <2>3, <2>4
<1>9. OwnTab(t)'
    BY <1>1, <1>6, <1>7, <1>8 DEF OwnTab, Kept
<1>10. OwnFlow(j)'
    BY <1>1, <1>4, <1>5, <1>8, BegunFlow DEF SignsIn
<1>11. ASSUME NEW k \in Jobs \ {j} PROVE OwnFlow(k)'
    <2>1. Stays(k) /\ OwnFlow(k)
        BY <1>5 DEF Begins, Own
    <2>2. job'[k] # None => job[k] # None /\ job[k].tab \in Tabs
        BY <2>1, TokenOfFlow DEF Stays, Follows
    <2> QED BY <1>1, <1>6, <1>7, <2>1, <2>2, OwnFlowStays
<1>12. ASSUME NEW s \in Tabs, s # t PROVE OwnTab(s)'
    BY <1>1, <1>6, <1>7, <1>12, OwnTabStays DEF Own
<1>13. SealsStay
    BY <1>1, <1>5, BegunSeals
<1> QED BY <1>1, <1>7, <1>9, <1>10, <1>11, <1>12, <1>13, OwnNext

-----------------------------------------------------------------------------
(* Identity keys stay the owner's.                                         *)

\* The invariant holds at the start.
LEMMA OwnInit == Init => Own
<1> SUFFICES ASSUME Init PROVE Own
    OBVIOUS
<1>1. PICK registered \in SUBSET Accounts, enrolled \in SUBSET Passkeys, x \in Accounts, signedIn \in BOOLEAN :
          InitWith(registered, enrolled, x, signedIn)
    BY DEF Init
<1>2. \A j \in Jobs : job[j] = None
    BY <1>1 DEF InitWith
<1>3. \A j \in Jobs : OwnFlow(j)
    BY <1>2 DEF OwnFlow, InSession, Unkeyed, Undisturbed, Answers, Bound, Told
<1>4. \A t \in Tabs : tab[t].key = None /\ tab[t].pending = None
    BY <1>1 DEF InitWith, Shut
<1>5. \A t \in Tabs : OwnTab(t)
    BY <1>4 DEF OwnTab
<1>6. rows = [p \in Passkeys |-> IF p \in enrolled
                                 THEN [of |-> x, count |-> 1, wrap |-> x, anomaly |-> FALSE] ELSE None]
    BY <1>1 DEF InitWith
<1>7. \A p \in Passkeys : rows[p] # None => rows[p].wrap \in {rows[p].of, None}
    BY <1>6
<1>8. (\A y \in Accounts : keypair[y] = None) /\ uses = {}
    BY <1>1 DEF InitWith
<1> QED BY <1>2, <1>3, <1>5, <1>7, <1>8 DEF Own, Sealed, OneIdentity

\* Every step keeps it.
LEMMA OwnStep == Good /\ Own /\ [Next]_vars => Own'
<1> SUFFICES ASSUME Good, Own, [Next]_vars
             PROVE  Own'
    OBVIOUS
<1>1. CASE UNCHANGED vars
    BY <1>1, QuietOwn
<1>2. ASSUME NEW j \in Jobs,
             \/ Register(j) \/ Login(j) \/ Logout(j) \/ Me(j)
             \/ LoginStart(j) \/ UnlockStart(j) \/ RegisterStart(j) \/ Create(j) \/ AssertPasskey(j)
             \/ Consume(j) \/ CeremonyExpires(j) \/ Check(j) \/ Alarm(j) \/ Write(j) \/ LoginIssues(j)
             \/ Insert(j) \/ SecondCeremony(j)
      PROVE  Own'
    BY <1>2, AdvancesOwn, LoginsOwn, MeOwn, UnlockStartOwn, CreateOwn, AssertOwn, ConsumeOwn, QuietOwn,
       CheckOwn, WriteOwn
<1>3. ASSUME NEW j \in Jobs,
             \/ GetKeypair(j) \/ HasKeypair(j) \/ Generate(j) \/ Upsert(j) \/ Published(j)
             \/ RegisteredIn(j) \/ LoggedIn(j) \/ ReadEmail(j) \/ Unlocked(j)
             \/ Leave(j) \/ JoinAsDifferentAccount(j) \/ Fails(j) \/ OverlayRefused(j)
      PROVE  Own'
    BY <1>3, GetOwn, HandsOwn, GenerateOwn, UpsertOwn, RegisteredInOwn, LoggedInOwn, ReadEmailOwn, UnlockedOwn,
       ReloadOwn, JoinOwn, FailsOwn
<1>4. ASSUME NEW t \in Tabs, Form(t) \/ Overlay(t) \/ Shell(t) \/ TakePending(t) \/ Visit(t) \/ Lock(t)
      PROVE  Own'
    BY <1>4, FormsOwn, PendingOwn, VisitOwn, LockOwn
<1>5. ASSUME NEW s \in Sessions, SessionEnds(s) PROVE Own'
    BY <1>5, QuietOwn
<1>6. ASSUME NEW p \in Passkeys, DeletePasskey(p) PROVE Own'
    BY <1>6, QuietOwn
<1> QED BY <1>1, <1>2, <1>3, <1>4, <1>5, <1>6 DEF Next

\* However flows race, in however many tabs: an identity key that a flow of a
\* tab which has not strayed is handed is the one published for its account
\* (ensure.ts:1-7), and while no tab has strayed every keypair and every
\* passkey is sealed with the User Key of the account it belongs to
\* (identity.rs:62).
THEOREM IdentityStaysOwn == Spec => []OwnIdentity
<1>1. Own => OwnIdentity
    BY DEF Own, Sealed, OwnIdentity, SealedByTheOwner
<1> QED BY <1>1, AlwaysGood, OwnInit, OwnStep, PTL DEF Spec
================================================================================
