-------------------------- MODULE Invitations_proofs --------------------------
(***************************************************************************)
(* Proofs about Invitations, for any number of users, collections and      *)
(* invitations and every value of the bounds: the types, the membership of *)
(* key holders, the bound on guessing, what a redemption may grant, and    *)
(* that every behaviour is one of InviteLifecycle.                         *)
(***************************************************************************)
EXTENDS Invitations, TLAPS

USE DEF Levels, NoAccess, Access

-----------------------------------------------------------------------------
(* Types.                                                                  *)

\* The keys an acceptance leaves behind have the shape of key.
LEMMA GrantingKeepsShape ==
    ASSUME key \in [Collections -> [Users -> Access]], NEW u \in Users, NEW granted
    PROVE  [c \in Collections |-> [key[c] EXCEPT
              ![u] = IF \E l \in Levels : <<c, l>> \in granted
                     THEN CHOOSE l \in Levels : <<c, l>> \in granted ELSE @]]
           \in [Collections -> [Users -> Access]]
<1> DEFINE some(c) == \E l \in Levels : <<c, l>> \in granted
           one(c) == CHOOSE l \in Levels : <<c, l>> \in granted
<1>1. \A c : some(c) => one(c) \in Levels
    OBVIOUS
<1> HIDE DEF some, one
<1>2. \A c \in Collections : [key[c] EXCEPT ![u] = IF some(c) THEN one(c) ELSE @] \in [Users -> Access]
    BY <1>1
<1>3. [c \in Collections |-> [key[c] EXCEPT ![u] = IF some(c) THEN one(c) ELSE @]]
        \in [Collections -> [Users -> Access]]
    BY <1>2
<1> QED BY <1>3 DEF some, one

\* What an acceptance grants are collections at levels.
LEMMA GrantsAreLevels ==
    ASSUME TypeOK, NEW i \in Invites, invite[i] # NoInvite, NEW entries
    PROVE  Granted(i, entries) \subseteq Collections \X Levels
<1>1. invite[i] \in InviteRow
    BY DEF TypeOK
<1>2. \A c \in Honoured(i, entries) : c \in Collections /\ invite[i].wide[c] \in Levels
    BY <1>1 DEF Honoured, Carried, InviteRow, Bundle
<1>3. \A c \in {invite[i].coll} \ {NoCollection} : c \in Collections /\ invite[i].level \in Levels
    BY <1>1 DEF InviteRow, Scopes
<1> QED BY <1>2, <1>3 DEF Granted

\* Composing, creating, withdrawing.
LEMMA InvitingKeepsType == TypeOK /\ Inviting => TypeOK'
<1> SUFFICES ASSUME TypeOK, Inviting PROVE TypeOK'
    OBVIOUS
<1> USE DEF TypeOK, rows
<1>1. ASSUME NEW i \in Invites, NEW c \in Scopes, NEW l \in AskLevels, Compose(i, c, l) PROVE TypeOK'
    <2>1. l \in Levels
        BY ConstantsAssumption
    <2>2. [d \in Collections |-> IF d \in Foldable THEN Declared[d] ELSE NoAccess] \in Bundle
        BY ConstantsAssumption DEF Bundle
    <2>3. draft' \in Draft
        BY <1>1, <2>1, <2>2 DEF Compose, Draft
    <2> QED BY <1>1, <2>3 DEF Compose
<1>2. CASE AdmitCreate
    <2>1. draft' \in Draft
        BY <1>2 DEF AdmitCreate, Draft
    <2> QED BY <1>2, <2>1 DEF AdmitCreate
<1>3. CASE Create
    <2>1. draft \in Draft
        BY <1>3 DEF Create
    <2>2. invite' \in [Invites -> InviteRow \cup {NoInvite}]
        BY <1>3, <2>1 DEF Create, Draft, InviteRow
    <2> QED BY <1>3, <2>2 DEF Create
<1>4. CASE DropDraft
    BY <1>4 DEF DropDraft
<1>5. ASSUME NEW i \in Invites, Revoke(i) \/ Expire(i) PROVE TypeOK'
    <2>1. invite[i] \in InviteRow
        BY <1>5 DEF Revoke, Expire, Pending
    <2>2. /\ [invite[i] EXCEPT !.status = "revoked"] \in InviteRow
          /\ [invite[i] EXCEPT !.open = FALSE] \in InviteRow
        BY <2>1 DEF InviteRow
    <2>3. invite' \in [Invites -> InviteRow \cup {NoInvite}]
        BY <1>5, <2>2 DEF Revoke, Expire
    <2> QED BY <1>5, <2>3 DEF Revoke, Expire
<1> QED BY <1>1, <1>2, <1>3, <1>4, <1>5 DEF Inviting

\* A counter that is set stays a number.
LEMMA CountingKeepsShape ==
    ASSUME TypeOK, NEW i \in Invites, invite[i] # NoInvite, NEW n \in Nat
    PROVE  SetFailed(i, n) \in [Invites -> InviteRow \cup {NoInvite}]
BY DEF TypeOK, SetFailed, InviteRow

\* Wrong proofs.
LEMMA GuessingKeepsType == TypeOK /\ Guessing => TypeOK'
<1> SUFFICES ASSUME TypeOK, Guessing PROVE TypeOK'
    OBVIOUS
<1>0. PICK i \in Invites : ReadWithWrongProof(i) \/ CountWrongProof(i) \/ AcceptWithWrongProof(i)
    BY DEF Guessing
<1>f. invite[i] # NoInvite => invite[i].failed \in Nat
    BY DEF TypeOK, InviteRow
<1>b. guessing[i] \in 0..MaxGuesses /\ guessed[i] \in Nat /\ MaxGuesses \in Nat
    BY ConstantsAssumption DEF TypeOK
<1>1. CASE ReadWithWrongProof(i)
    <2>1. guessing' \in [Invites -> 0..MaxGuesses]
        BY <1>1, <1>b DEF ReadWithWrongProof, TypeOK
    <2>2. guessed' \in [Invites -> Nat]
        BY <1>1, <1>b DEF ReadWithWrongProof, TypeOK
    <2> QED BY <1>1, <2>1, <2>2 DEF ReadWithWrongProof, TypeOK, rows
<1>2. CASE CountWrongProof(i)
    <2>1. guessing' \in [Invites -> 0..MaxGuesses]
        BY <1>2, <1>b DEF CountWrongProof, TypeOK
    <2>2. invite' \in [Invites -> InviteRow \cup {NoInvite}]
        BY <1>2, <1>f, CountingKeepsShape DEF CountWrongProof, TypeOK, Pending
    <2> QED BY <1>2, <2>1, <2>2 DEF CountWrongProof, TypeOK, rows
<1>3. CASE AcceptWithWrongProof(i)
    <2>1. invite' \in [Invites -> InviteRow \cup {NoInvite}]
        BY <1>3, <1>f, CountingKeepsShape DEF AcceptWithWrongProof, TypeOK, LiveRow, Pending
    <2>2. guessed' \in [Invites -> Nat]
        BY <1>3, <1>b DEF AcceptWithWrongProof, TypeOK
    <2> QED BY <1>3, <2>1, <2>2 DEF AcceptWithWrongProof, TypeOK, rows
<1> QED BY <1>0, <1>1, <1>2, <1>3

\* Reading and accepting.
LEMMA RedeemingKeepsType == TypeOK /\ Redeeming => TypeOK'
<1> SUFFICES ASSUME TypeOK, Redeeming PROVE TypeOK'
    OBVIOUS
<1>1. ASSUME NEW u \in Users, ResetCounter(u) PROVE TypeOK'
    <2>1. page[u] \in Page /\ page[u].invite \in Invites
        BY <1>1 DEF ResetCounter, TypeOK, Page
    <2>2. invite' \in [Invites -> InviteRow \cup {NoInvite}]
        BY <1>1, <2>1, CountingKeepsShape DEF ResetCounter, TypeOK, Pending
    <2>3. page' \in [Users -> Page \cup {NoPage}]
        BY <1>1, <2>1 DEF ResetCounter, TypeOK, Page
    <2> QED BY <1>1, <2>2, <2>3 DEF ResetCounter, TypeOK, rows
<1>2. ASSUME NEW u \in Users, ReadFamilyWideKeys(u) PROVE TypeOK'
    <2>1. page[u] \in Page /\ Carried(page[u].invite) \subseteq Collections
        BY <1>2 DEF ReadFamilyWideKeys, TypeOK, Carried
    <2>2. page' \in [Users -> Page \cup {NoPage}]
        BY <1>2, <2>1 DEF ReadFamilyWideKeys, TypeOK, Page
    <2> QED BY <1>2, <2>2 DEF ReadFamilyWideKeys, TypeOK, rows
<1>3. ASSUME NEW u \in Users, LeavePage(u) PROVE TypeOK'
    BY <1>3 DEF LeavePage, TypeOK, rows
<1>4. ASSUME NEW u \in Users, NEW i \in Invites, ReadWithProof(u, i) PROVE TypeOK'
    BY <1>4 DEF ReadWithProof, TypeOK, Page, rows
<1>5. ASSUME NEW u \in Users, NEW i \in Invites, Accept(u, i) PROVE TypeOK'
    <2>0. invite[i] # NoInvite /\ invite[i] \in InviteRow
        BY <1>5 DEF Accept, LiveRow, Pending, TypeOK
    <2>1. invite' \in [Invites -> InviteRow \cup {NoInvite}]
        BY <1>5, <2>0 DEF Accept, TypeOK, InviteRow
    <2>2. member' \in [Users -> {"none", "active", "suspended"}]
        BY <1>5 DEF Accept, TypeOK
    <2>3. key' \in [Collections -> [Users -> Access]]
        BY <1>5, GrantingKeepsShape DEF Accept, TypeOK
    <2>4. received' \subseteq Invites \X Users \X (Collections \X Levels)
        BY <1>5, <2>0, GrantsAreLevels DEF Accept, TypeOK
    <2>5. page' \in [Users -> Page \cup {NoPage}] /\ guessed' \in [Invites -> Nat]
        BY <1>5 DEF Accept, TypeOK
    <2> QED BY <1>5, <2>1, <2>2, <2>3, <2>4, <2>5 DEF Accept, TypeOK
<1>6. ASSUME NEW u \in Users, NEW i \in Invites, RollBack(u, i) PROVE TypeOK'
    BY <1>6 DEF RollBack, TypeOK, rows
<1>7. ASSUME NEW u \in Users, NEW i \in Invites, AcceptDead(u, i) PROVE TypeOK'
    <2>1. invite[i] # NoInvite => invite[i].failed \in Nat
        BY DEF TypeOK, InviteRow
    <2>2. invite' \in [Invites -> InviteRow \cup {NoInvite}]
        BY <1>7, <2>1, CountingKeepsShape DEF AcceptDead, Pending, TypeOK
    <2> QED BY <1>7, <2>2 DEF AcceptDead, TypeOK, rows
<1> QED BY <1>1, <1>2, <1>3, <1>4, <1>5, <1>6, <1>7 DEF Redeeming

\* The other routes leave requests and histories alone, and invitations while
\* the family stands.
LEMMA OtherRoutesTouchRows ==
    OtherRoutes => /\ UNCHANGED <<draft, guessing, page, received, guessed>>
                   /\ Dissolve \/ UNCHANGED invite
<1> SUFFICES ASSUME OtherRoutes
             PROVE  /\ UNCHANGED <<draft, guessing, page, received, guessed>>
                    /\ Dissolve \/ UNCHANGED invite
    OBVIOUS
<1>1. ASSUME NEW v \in Users, NEW u \in Users, NEW c \in Collections, NEW l \in AskLevels,
             AdmitGrant(v, c, u, l) \/ ChangeLevel(v, c, u, l)
      PROVE  UNCHANGED <<draft, guessing, page, received, guessed, invite>>
    BY <1>1 DEF AdmitGrant, ChangeLevel, Moved
<1>2. ASSUME NEW g \in adding, GrantKey(g)
      PROVE  UNCHANGED <<draft, guessing, page, received, guessed, invite>>
    BY <1>2 DEF GrantKey
<1>3. ASSUME NEW v \in Users, NEW u \in Users, NEW c \in Collections, RevokeKey(v, c, u)
      PROVE  UNCHANGED <<draft, guessing, page, received, guessed, invite>>
    BY <1>3 DEF RevokeKey, Moved
<1>4. ASSUME NEW u \in Users, AddMember(u) \/ RemoveMember(u)
      PROVE  UNCHANGED <<draft, guessing, page, received, guessed, invite>>
    BY <1>4 DEF AddMember, RemoveMember, Moved
<1>5. ASSUME NEW u \in Users, NEW s \in {"active", "suspended"}, SetStatus(u, s)
      PROVE  UNCHANGED <<draft, guessing, page, received, guessed, invite>>
    BY <1>5 DEF SetStatus, Moved
<1>6. Dissolve => UNCHANGED <<draft, guessing, page, received, guessed>>
    BY DEF Dissolve, Moved
<1> QED BY <1>1, <1>2, <1>3, <1>4, <1>5, <1>6 DEF OtherRoutes

\* The other routes.
LEMMA OtherRoutesKeepType == TypeOK /\ OtherRoutes => TypeOK'
<1> SUFFICES ASSUME TypeOK, OtherRoutes PROVE TypeOK'
    OBVIOUS
<1>m. ASSUME NEW kind, Moved(kind) PROVE moves' \in 0..MaxMoves
    BY <1>m, ConstantsAssumption DEF Moved, TypeOK
<1>1. ASSUME NEW v \in Users, NEW u \in Users, NEW c \in Collections, NEW l \in AskLevels,
             AdmitGrant(v, c, u, l) \/ ChangeLevel(v, c, u, l) PROVE TypeOK'
    <2>1. l \in Levels
        BY ConstantsAssumption
    <2>2. key' \in [Collections -> [Users -> Access]]
        BY <1>1, <2>1 DEF AdmitGrant, ChangeLevel, TypeOK
    <2>3. moves' \in 0..MaxMoves
        BY <1>1, <1>m DEF AdmitGrant, ChangeLevel
    <2>4. adding' \subseteq Adding
        <3>1. [coll |-> c, user |-> u, level |-> l, overtaken |-> FALSE] \in Adding
            BY <2>1 DEF Adding
        <3> QED BY <1>1, <3>1 DEF AdmitGrant, ChangeLevel, TypeOK
    <2> QED BY <1>1, <2>2, <2>3, <2>4 DEF AdmitGrant, ChangeLevel, TypeOK, Moved
<1>6. ASSUME NEW g \in adding, GrantKey(g) PROVE TypeOK'
    <2>1. g \in Adding
        BY DEF TypeOK
    <2>2. key' \in [Collections -> [Users -> Access]] /\ strays' \subseteq Collections \X Users
        BY <1>6, <2>1 DEF GrantKey, TypeOK, Adding
    <2> QED BY <1>6, <2>2 DEF GrantKey, TypeOK
<1>2. ASSUME NEW v \in Users, NEW u \in Users, NEW c \in Collections, RevokeKey(v, c, u) PROVE TypeOK'
    BY <1>2, <1>m DEF RevokeKey, TypeOK, Moved
<1>3. ASSUME NEW u \in Users, AddMember(u) \/ RemoveMember(u) PROVE TypeOK'
    <2>1. key' \in [Collections -> [Users -> Access]]
        BY <1>3 DEF AddMember, RemoveMember, TypeOK
    <2>2. member' \in [Users -> {"none", "active", "suspended"}]
        BY <1>3 DEF AddMember, RemoveMember, TypeOK
    <2>3. moves' \in 0..MaxMoves
        BY <1>3, <1>m DEF AddMember, RemoveMember
    <2>4. adding' \subseteq Adding
        <3>1. \A g \in adding : [g EXCEPT !.overtaken = TRUE] \in Adding
            BY DEF TypeOK, Adding
        <3> QED BY <1>3, <3>1 DEF AddMember, RemoveMember, Overtaken, TypeOK
    <2>5. strays' \subseteq Collections \X Users
        BY <1>3 DEF AddMember, RemoveMember, TypeOK
    <2> QED BY <1>3, <2>1, <2>2, <2>3, <2>4, <2>5 DEF AddMember, RemoveMember, TypeOK, Moved
<1>4. ASSUME NEW u \in Users, NEW s \in {"active", "suspended"}, SetStatus(u, s) PROVE TypeOK'
    BY <1>4, <1>m DEF SetStatus, TypeOK, Moved
<1>5. CASE Dissolve
    <2>1. invite' \in [Invites -> InviteRow \cup {NoInvite}]
        BY <1>5 DEF Dissolve, TypeOK, InviteRow
    <2>2. moves' \in 0..MaxMoves
        BY <1>5, <1>m DEF Dissolve
    <2> QED BY <1>5, <2>1, <2>2 DEF Dissolve, TypeOK, Moved
<1> QED BY <1>1, <1>2, <1>3, <1>4, <1>5, <1>6 DEF OtherRoutes

\* Every reachable state has well-shaped rows, pages and histories.
THEOREM TypeCorrect == Spec => []TypeOK
<1>1. Init => TypeOK
    BY ConstantsAssumption DEF Init, TypeOK
<1>2. TypeOK /\ [Next]_vars => TypeOK'
    <2>1. TypeOK /\ UNCHANGED vars => TypeOK'
        BY DEF TypeOK, vars, rows
    <2> QED BY <2>1, InvitingKeepsType, GuessingKeepsType, RedeemingKeepsType, OtherRoutesKeepType
            DEF Next
<1> QED BY <1>1, <1>2, PTL DEF Spec

-----------------------------------------------------------------------------
(* Members.                                                                *)

\* A grant under way whose recipient is no member any more was overtaken by the
\* removal: it was admitted for a member, and nothing else ends a membership
\* while the family stands.
RemovedAreOvertaken ==
    \A g \in adding : family /\ member[g.user] = "none" => g.overtaken

MemberInv == HoldersAreMembers /\ RemovedAreOvertaken

\* A step that leaves keys, memberships and grants alone keeps the invariant.
LEMMA HoldersStayMembers == MemberInv /\ UNCHANGED rows => MemberInv'
BY DEF MemberInv, HoldersAreMembers, RemovedAreOvertaken, rows

\* The other routes: a removal marks what it overtakes, an overtaken grant is
\* what leaves a stray row.
LEMMA OtherRoutesKeepMembers == TypeOK /\ MemberInv /\ OtherRoutes => MemberInv'
<1> SUFFICES ASSUME TypeOK, MemberInv, OtherRoutes PROVE MemberInv'
    OBVIOUS
<1> USE DEF MemberInv, HoldersAreMembers, RemovedAreOvertaken
<1>t. /\ \A g \in adding : g \in Adding /\ g.user \in Users /\ g.coll \in Collections
      /\ member \in [Users -> {"none", "active", "suspended"}]
      /\ key \in [Collections -> [Users -> Access]]
    BY DEF TypeOK, Adding
<1>1. ASSUME NEW v \in Users, NEW u \in Users, NEW c \in Collections, NEW l \in AskLevels,
             AdmitGrant(v, c, u, l) PROVE MemberInv'
    BY <1>1, <1>t DEF AdmitGrant
<1>2. ASSUME NEW v \in Users, NEW u \in Users, NEW c \in Collections, NEW l \in AskLevels,
             ChangeLevel(v, c, u, l) PROVE MemberInv'
    BY <1>2, <1>t DEF ChangeLevel
<1>3. ASSUME NEW g \in adding, GrantKey(g) PROVE MemberInv'
    <2>1. HoldersAreMembers'
        <3> SUFFICES ASSUME NEW d \in Collections, NEW w \in Users, key'[d][w] # NoAccess
                     PROVE  member'[w] # "none" \/ <<d, w>> \in strays'
            OBVIOUS
        <3>1. CASE key[d][w] # NoAccess
            BY <1>3, <3>1 DEF GrantKey
        <3>2. CASE key[d][w] = NoAccess
            <4>1. d = g.coll /\ w = g.user
                BY <1>3, <1>t, <3>2 DEF GrantKey
            <4> QED BY <1>3, <3>2, <4>1 DEF GrantKey
        <3> QED BY <3>1, <3>2
    <2>2. RemovedAreOvertaken'
        BY <1>3 DEF GrantKey
    <2> QED BY <2>1, <2>2
<1>4. ASSUME NEW v \in Users, NEW u \in Users, NEW c \in Collections, RevokeKey(v, c, u)
      PROVE MemberInv'
    BY <1>4, <1>t DEF RevokeKey
<1>5. ASSUME NEW u \in Users, AddMember(u) PROVE MemberInv'
    BY <1>5, <1>t DEF AddMember
<1>6. ASSUME NEW u \in Users, RemoveMember(u) PROVE MemberInv'
    <2>1. HoldersAreMembers'
        BY <1>6, <1>t DEF RemoveMember
    <2>2. RemovedAreOvertaken'
        <3> SUFFICES ASSUME NEW h \in adding', family', member'[h.user] = "none" PROVE h.overtaken
            OBVIOUS
        <3>1. PICK g \in adding : h = IF g.user = u THEN [g EXCEPT !.overtaken = TRUE] ELSE g
            BY <1>6 DEF RemoveMember, Overtaken
        <3>2. CASE g.user = u
            BY <1>t, <3>1, <3>2 DEF Adding
        <3>3. CASE g.user # u
            BY <1>6, <1>t, <3>1, <3>3 DEF RemoveMember
        <3> QED BY <3>2, <3>3
    <2> QED BY <2>1, <2>2
<1>7. ASSUME NEW u \in Users, NEW s \in {"active", "suspended"}, SetStatus(u, s) PROVE MemberInv'
    BY <1>7, <1>t DEF SetStatus
<1>8. CASE Dissolve
    BY <1>8 DEF Dissolve
<1> HIDE DEF MemberInv
<1> QED BY <1>1, <1>2, <1>3, <1>4, <1>5, <1>6, <1>7, <1>8 DEF OtherRoutes

\* A key is given to somebody who is, or becomes with it, a member, unless the
\* removal overtook the grant; who leaves, leaves all keys (HoldersAreMembers).
THEOREM KeysAreHeldByMembers == Spec => []HoldersAreMembers
<1>1. Init => MemberInv
    BY ConstantsAssumption DEF Init, MemberInv, HoldersAreMembers, RemovedAreOvertaken
<1>2. TypeOK /\ MemberInv /\ [Next]_vars => MemberInv'
    <2> SUFFICES ASSUME TypeOK, MemberInv, [Next]_vars PROVE MemberInv'
        OBVIOUS
    <2>1. CASE Inviting
        BY <2>1, HoldersStayMembers
            DEF Inviting, Compose, AdmitCreate, Create, DropDraft, Revoke, Expire
    <2>2. CASE Guessing
        BY <2>2, HoldersStayMembers
            DEF Guessing, ReadWithWrongProof, CountWrongProof, AcceptWithWrongProof
    <2>3. CASE Redeeming
        <3>1. ASSUME NEW u \in Users, NEW i \in Invites, Accept(u, i) PROVE MemberInv'
            <4>1. /\ \A w \in Users : member'[w] = "none" => w # u /\ member[w] = "none"
                  /\ \A c \in Collections, w \in Users \ {u} : key'[c][w] = key[c][w]
                  /\ UNCHANGED <<family, adding, strays>>
                BY <3>1 DEF Accept, TypeOK
            <4>2. \A g \in adding : g.user \in Users
                BY DEF TypeOK, Adding
            <4> QED BY <4>1, <4>2 DEF MemberInv, HoldersAreMembers, RemovedAreOvertaken
        <3> QED BY <2>3, <3>1, HoldersStayMembers
                DEF Redeeming, ResetCounter, ReadFamilyWideKeys, LeavePage, ReadWithProof,
                    RollBack, AcceptDead
    <2>4. CASE UNCHANGED vars
        BY <2>4, HoldersStayMembers DEF vars
    <2> QED BY <2>1, <2>2, <2>3, <2>4, OtherRoutesKeepMembers DEF Next
<1>3. MemberInv => HoldersAreMembers
    BY DEF MemberInv
<1> QED BY <1>1, <1>2, <1>3, TypeCorrect, PTL DEF Spec

-----------------------------------------------------------------------------
(* Guesses.                                                                *)

\* Why the bound on guessing holds.  As long as an invitation is pending, every
\* wrong proof compared since the last verified one is in the counter or about
\* to be; afterwards nothing is compared.  Nobody guesses at an invitation that
\* is not there, nor at the one being drafted.
GuessesAreCounted ==
    \A i \in Invites :
        /\ Pending(i) => guessed[i] <= invite[i].failed + guessing[i]
        /\ invite[i] = NoInvite => guessed[i] = 0

DraftsAreNew == draft # NoDraft => invite[draft.invite] = NoInvite

GuessInv == GuessesAreCounted /\ DraftsAreNew /\ GuessesAreBounded

\* The numbers in the invariant, for the prover's arithmetic.
LEMMA CountersAreNumbers ==
    ASSUME TypeOK, NEW i \in Invites
    PROVE  /\ guessed[i] \in Nat /\ guessing[i] \in Nat /\ guessing[i] <= MaxGuesses
           /\ invite[i] # NoInvite => invite[i] \in InviteRow /\ invite[i].failed \in Nat
           /\ MaxGuesses \in Nat /\ MaxFailedAttempts \in Nat \ {0}
BY ConstantsAssumption DEF TypeOK, InviteRow

\* A step that touches neither counters nor rows keeps the invariant if its
\* draft, if any, is for an invitation that is not there.
LEMMA GuessInvStays ==
    ASSUME GuessInv, invite' = invite, guessing' = guessing, guessed' = guessed,
           \/ draft' = draft
           \/ draft' = NoDraft
           \/ invite[draft'.invite] = NoInvite
    PROVE  GuessInv'
BY DEF GuessInv, GuessesAreCounted, DraftsAreNew, GuessesAreBounded, Pending

\* Counting one wrong proof, or none, on one invitation.
LEMMA CountedOne ==
    ASSUME TypeOK, GuessInv, NEW i \in Invites, invite[i] # NoInvite,
           UNCHANGED draft,
           \A j \in Invites \ {i} : /\ invite'[j] = invite[j]
                                    /\ guessing'[j] = guessing[j]
                                    /\ guessed'[j] = guessed[j],
           invite'[i] # NoInvite,
           invite'[i].status = "pending" =>
              Pending(i) /\ guessed'[i] <= invite'[i].failed + guessing'[i],
           guessed'[i] <= MaxFailedAttempts + MaxGuesses
    PROVE  GuessInv'
<1>1. GuessesAreCounted'
    BY DEF GuessInv, GuessesAreCounted, Pending
<1>2. GuessesAreBounded'
    BY DEF GuessInv, GuessesAreBounded
<1>3. DraftsAreNew'
    <2>1. draft # NoDraft => draft.invite \in Invites
        BY DEF TypeOK, Draft
    <2> QED BY <2>1 DEF GuessInv, DraftsAreNew
<1> QED BY <1>1, <1>2, <1>3 DEF GuessInv

\* The invariant through the inviter's steps.
LEMMA InvitingKeepsCounts == TypeOK /\ GuessInv /\ Inviting => GuessInv'
<1> SUFFICES ASSUME TypeOK, GuessInv, Inviting PROVE GuessInv'
    OBVIOUS
<1>1. ASSUME NEW i \in Invites, NEW c \in Scopes, NEW l \in AskLevels, Compose(i, c, l) PROVE GuessInv'
    BY <1>1, GuessInvStays DEF Compose
<1>2. CASE AdmitCreate
    <2>1. draft \in Draft
        BY <1>2 DEF AdmitCreate, TypeOK
    <2>2. draft'.invite = draft.invite
        BY <1>2, <2>1 DEF AdmitCreate, Draft
    <2>3. invite[draft.invite] = NoInvite
        BY <1>2 DEF AdmitCreate, GuessInv, DraftsAreNew
    <2> QED BY <1>2, <2>2, <2>3, GuessInvStays DEF AdmitCreate
<1>3. CASE Create
    <2> DEFINE i == draft.invite
    <2>1. i \in Invites /\ invite[i] = NoInvite /\ guessed[i] = 0
        BY <1>3 DEF Create, TypeOK, Draft, GuessInv, DraftsAreNew, GuessesAreCounted
    <2>2. /\ invite'[i].failed = 0 /\ invite'[i].status = "pending" /\ guessed'[i] = 0
          /\ guessing'[i] = guessing[i] /\ guessing[i] \in Nat
          /\ \A j \in Invites \ {i} : invite'[j] = invite[j]
          /\ UNCHANGED <<guessing, guessed>> /\ draft' = NoDraft
        BY <1>3, <2>1, CountersAreNumbers DEF Create, TypeOK
    <2>3. invite'[i] # NoInvite
        <3>1. draft \in Draft
            BY <1>3 DEF Create, TypeOK
        <3>2. invite'[i] \in InviteRow
            BY <1>3, <2>1, <3>1 DEF Create, TypeOK, Draft, InviteRow
        <3> QED BY <3>2, AbsenceAssumption
    <2> QED BY <2>1, <2>2, <2>3
            DEF GuessInv, GuessesAreCounted, DraftsAreNew, GuessesAreBounded, Pending
<1>4. CASE DropDraft
    BY <1>4, GuessInvStays DEF DropDraft
<1>5. ASSUME NEW i \in Invites, Revoke(i) \/ Expire(i) PROVE GuessInv'
    <2>1. Pending(i) /\ invite[i] \in InviteRow
        BY <1>5 DEF Revoke, Expire, Pending, TypeOK
    <2>r. invite'[i] \in {[invite[i] EXCEPT !.status = "revoked"], [invite[i] EXCEPT !.open = FALSE]}
        BY <1>5 DEF Revoke, Expire, TypeOK
    <2>2. /\ invite'[i].failed = invite[i].failed
          /\ invite'[i] \in InviteRow
        BY <2>1, <2>r DEF InviteRow
    <2>u. /\ \A j \in Invites \ {i} : invite'[j] = invite[j]
          /\ UNCHANGED <<draft, guessing, guessed>>
        BY <1>5 DEF Revoke, Expire, TypeOK
    <2>3. guessed[i] <= invite[i].failed + guessing[i] /\ guessed[i] <= MaxFailedAttempts + MaxGuesses
        BY <2>1 DEF GuessInv, GuessesAreCounted, GuessesAreBounded
    <2> QED BY <2>1, <2>2, <2>u, <2>3, CountedOne, AbsenceAssumption DEF Pending
<1> QED BY <1>1, <1>2, <1>3, <1>4, <1>5 DEF Inviting

\* A row whose counter is set is still a row.
LEMMA SetFailedRow ==
    ASSUME TypeOK, NEW i \in Invites, invite[i] # NoInvite, NEW n \in Nat, invite' = SetFailed(i, n)
    PROVE  /\ invite'[i] # NoInvite /\ invite'[i].failed = n
           /\ invite'[i].status = invite[i].status
           /\ \A j \in Invites \ {i} : invite'[j] = invite[j]
<1>1. invite[i] \in InviteRow
    BY DEF TypeOK
<1>2. invite'[i] = [invite[i] EXCEPT !.failed = n]
    BY DEF TypeOK, SetFailed
<1>3. invite'[i] \in InviteRow /\ invite'[i].failed = n /\ invite'[i].status = invite[i].status
    BY <1>1, <1>2 DEF InviteRow
<1> QED BY <1>3, AbsenceAssumption DEF TypeOK, SetFailed

\* The invariant through wrong proofs: a live row leaves room for one more.
LEMMA GuessingKeepsCounts == TypeOK /\ GuessInv /\ Guessing => GuessInv'
<1> SUFFICES ASSUME TypeOK, GuessInv, Guessing PROVE GuessInv'
    OBVIOUS
<1>0. PICK i \in Invites : ReadWithWrongProof(i) \/ CountWrongProof(i) \/ AcceptWithWrongProof(i)
    BY DEF Guessing
<1>n. /\ guessed[i] \in Nat /\ guessing[i] \in Nat /\ guessing[i] <= MaxGuesses
      /\ invite[i] # NoInvite => invite[i] \in InviteRow /\ invite[i].failed \in Nat
      /\ MaxGuesses \in Nat /\ MaxFailedAttempts \in Nat \ {0}
    BY CountersAreNumbers
<1>p. Pending(i) => invite[i] # NoInvite /\ guessed[i] <= invite[i].failed + guessing[i]
    BY DEF GuessInv, GuessesAreCounted, Pending
<1>1. CASE ReadWithWrongProof(i)
    <2>1. /\ guessed'[i] = guessed[i] + 1 /\ guessing'[i] = guessing[i] + 1
          /\ UNCHANGED <<draft, invite>>
          /\ \A j \in Invites \ {i} : guessing'[j] = guessing[j] /\ guessed'[j] = guessed[j]
        BY <1>1 DEF ReadWithWrongProof, TypeOK
    <2>2. Pending(i) /\ invite[i].failed < MaxFailedAttempts /\ guessing[i] < MaxGuesses
        BY <1>1 DEF ReadWithWrongProof, LiveRow
    <2>3. /\ guessed'[i] <= invite'[i].failed + guessing'[i]
          /\ guessed'[i] <= MaxFailedAttempts + MaxGuesses
        BY <1>n, <1>p, <2>1, <2>2
    <2> QED BY <1>p, <2>1, <2>2, <2>3, CountedOne
<1>2. CASE CountWrongProof(i)
    <2>1. /\ guessing'[i] = guessing[i] - 1 /\ guessing[i] > 0 /\ UNCHANGED <<draft, guessed>>
          /\ \A j \in Invites \ {i} : guessing'[j] = guessing[j]
        BY <1>2 DEF CountWrongProof, TypeOK
    <2>2. guessed[i] <= MaxFailedAttempts + MaxGuesses
        BY DEF GuessInv, GuessesAreBounded
    <2>3. CASE Pending(i)
        <3>1. invite' = SetFailed(i, invite[i].failed + 1)
            BY <1>2, <2>3 DEF CountWrongProof
        <3>2. /\ invite'[i] # NoInvite /\ invite'[i].failed = invite[i].failed + 1
              /\ \A j \in Invites \ {i} : invite'[j] = invite[j]
            BY <1>n, <1>p, <2>3, <3>1, SetFailedRow
        <3>3. guessed'[i] <= invite'[i].failed + guessing'[i]
            BY <1>n, <1>p, <2>1, <2>3, <3>2
        <3> QED BY <1>p, <2>1, <2>2, <2>3, <3>2, <3>3, CountedOne
    <2>4. CASE ~Pending(i)
        <3>1. UNCHANGED invite
            BY <1>2, <2>4 DEF CountWrongProof
        <3>2. GuessesAreCounted'
            BY <2>1, <2>4, <3>1 DEF GuessInv, GuessesAreCounted, Pending
        <3> QED BY <2>1, <3>1, <3>2 DEF GuessInv, DraftsAreNew, GuessesAreBounded
    <2> QED BY <2>3, <2>4
<1>3. CASE AcceptWithWrongProof(i)
    <2>1. /\ guessed'[i] = guessed[i] + 1 /\ UNCHANGED <<draft, guessing>>
          /\ \A j \in Invites \ {i} : guessed'[j] = guessed[j]
          /\ invite' = SetFailed(i, invite[i].failed + 1)
        BY <1>3 DEF AcceptWithWrongProof, TypeOK
    <2>2. Pending(i) /\ invite[i].failed < MaxFailedAttempts
        BY <1>3 DEF AcceptWithWrongProof, LiveRow
    <2>3. /\ invite'[i] # NoInvite /\ invite'[i].failed = invite[i].failed + 1
          /\ \A j \in Invites \ {i} : invite'[j] = invite[j]
        BY <1>n, <1>p, <2>1, <2>2, SetFailedRow
    <2>4. /\ guessed'[i] <= invite'[i].failed + guessing'[i]
          /\ guessed'[i] <= MaxFailedAttempts + MaxGuesses
        BY <1>n, <1>p, <2>1, <2>2, <2>3
    <2> QED BY <1>p, <2>1, <2>2, <2>3, <2>4, CountedOne
<1> QED BY <1>0, <1>1, <1>2, <1>3

\* The invariant through a redemption, which may take every failure back.
LEMMA RedeemingKeepsCounts == TypeOK /\ GuessInv /\ Redeeming => GuessInv'
<1> SUFFICES ASSUME TypeOK, GuessInv, Redeeming PROVE GuessInv'
    OBVIOUS
<1>1. ASSUME NEW u \in Users, ResetCounter(u) PROVE GuessInv'
    <2> DEFINE i == page[u].invite
    <2>1. i \in Invites /\ UNCHANGED <<draft, guessing>>
        BY <1>1 DEF ResetCounter, TypeOK, Page
    <2>n. /\ guessed[i] \in Nat /\ guessing[i] \in Nat
          /\ MaxGuesses \in Nat /\ MaxFailedAttempts \in Nat
        BY <2>1, CountersAreNumbers
    <2>2. CASE Pending(i)
        <3>1. /\ invite' = SetFailed(i, 0) /\ guessed'[i] = 0
              /\ \A j \in Invites \ {i} : guessed'[j] = guessed[j]
            BY <1>1, <2>1, <2>2 DEF ResetCounter, TypeOK
        <3>2. /\ invite'[i] # NoInvite /\ invite'[i].failed = 0
              /\ \A j \in Invites \ {i} : invite'[j] = invite[j]
            BY <2>1, <2>2, <3>1, SetFailedRow DEF Pending
        <3> QED BY <2>1, <2>n, <2>2, <3>1, <3>2, CountedOne DEF Pending
    <2>3. CASE ~Pending(i)
        <3>1. UNCHANGED <<invite, guessing, guessed, draft>>
            BY <1>1, <2>3 DEF ResetCounter
        <3> QED BY <3>1, GuessInvStays
    <2> QED BY <2>2, <2>3
<1>2. ASSUME NEW u \in Users, ReadFamilyWideKeys(u) \/ LeavePage(u) PROVE GuessInv'
    BY <1>2, GuessInvStays DEF ReadFamilyWideKeys, LeavePage
<1>3. ASSUME NEW u \in Users, NEW i \in Invites, ReadWithProof(u, i) \/ RollBack(u, i) PROVE GuessInv'
    BY <1>3, GuessInvStays DEF ReadWithProof, RollBack
<1>4. ASSUME NEW u \in Users, NEW i \in Invites, Accept(u, i) PROVE GuessInv'
    <2>1. Pending(i) /\ invite[i] # NoInvite /\ invite[i] \in InviteRow
        BY <1>4 DEF Accept, LiveRow, Pending, TypeOK
    <2>2. /\ invite'[i] \in InviteRow /\ invite'[i].status = "accepted" /\ guessed'[i] = 0
          /\ UNCHANGED <<draft, guessing>>
          /\ \A j \in Invites \ {i} : invite'[j] = invite[j] /\ guessed'[j] = guessed[j]
        BY <1>4, <2>1 DEF Accept, TypeOK, InviteRow
    <2> QED BY <2>1, <2>2, CountedOne, CountersAreNumbers, AbsenceAssumption
<1>5. ASSUME NEW u \in Users, NEW i \in Invites, AcceptDead(u, i) PROVE GuessInv'
    <2>n. /\ guessed[i] \in Nat /\ guessing[i] \in Nat
          /\ invite[i] # NoInvite => invite[i].failed \in Nat
        BY CountersAreNumbers
    <2>1. CASE Pending(i) /\ invite[i].failed < FailedBound
        <3>1. invite' = SetFailed(i, invite[i].failed + 1) /\ UNCHANGED <<draft, guessing, guessed>>
            BY <1>5, <2>1 DEF AcceptDead
        <3>2. /\ invite'[i] # NoInvite /\ invite'[i].failed = invite[i].failed + 1
              /\ \A j \in Invites \ {i} : invite'[j] = invite[j]
            BY <2>n, <2>1, <3>1, SetFailedRow DEF Pending
        <3>3. guessed[i] <= invite[i].failed + guessing[i] /\ guessed[i] <= MaxFailedAttempts + MaxGuesses
            BY <2>1 DEF GuessInv, GuessesAreCounted, GuessesAreBounded
        <3>4. guessed'[i] <= invite'[i].failed + guessing'[i]
            BY <2>n, <2>1, <3>1, <3>2, <3>3 DEF Pending
        <3> QED BY <2>1, <3>1, <3>2, <3>3, <3>4, CountedOne DEF Pending
    <2>2. CASE ~(Pending(i) /\ invite[i].failed < FailedBound)
        BY <1>5, <2>2, GuessInvStays DEF AcceptDead
    <2> QED BY <2>1, <2>2
<1> QED BY <1>1, <1>2, <1>3, <1>4, <1>5 DEF Redeeming

\* The invariant holds throughout.
LEMMA GuessInvHolds == Spec => []GuessInv
<1>1. Init => GuessInv
    BY ConstantsAssumption DEF Init, GuessInv, GuessesAreCounted, DraftsAreNew, GuessesAreBounded, Pending
<1>2. TypeOK /\ GuessInv /\ [Next]_vars => GuessInv'
    <2> SUFFICES ASSUME TypeOK, GuessInv, [Next]_vars PROVE GuessInv'
        OBVIOUS
    <2>1. CASE OtherRoutes
        <3>1. CASE Dissolve
            <4>1. \A i \in Invites : /\ ~Pending(i)'
                                     /\ (invite'[i] = NoInvite => invite[i] = NoInvite)
                <5> SUFFICES ASSUME NEW i \in Invites
                             PROVE  ~Pending(i)' /\ (invite'[i] = NoInvite => invite[i] = NoInvite)
                    OBVIOUS
                <5>1. CASE invite[i] = NoInvite
                    BY <3>1, <5>1 DEF Dissolve, Pending
                <5>2. CASE invite[i] # NoInvite
                    <6>1. invite[i] \in InviteRow
                        BY <5>2 DEF TypeOK
                    <6>2. invite'[i] \in InviteRow /\ invite'[i].status = "deleted"
                        BY <3>1, <5>2, <6>1 DEF Dissolve, InviteRow
                    <6> QED BY <6>2, <5>2, AbsenceAssumption DEF Pending
                <5> QED BY <5>1, <5>2
            <4>2. UNCHANGED <<guessing, guessed, draft>>
                BY <3>1 DEF Dissolve, Moved
            <4>3. GuessesAreCounted' /\ GuessesAreBounded'
                BY <4>1, <4>2 DEF GuessInv, GuessesAreCounted, GuessesAreBounded
            <4>4. DraftsAreNew'
                BY <3>1, <4>2 DEF GuessInv, DraftsAreNew, Dissolve, TypeOK, Draft
            <4> QED BY <4>3, <4>4 DEF GuessInv
        <3>2. CASE ~Dissolve
            BY <2>1, <3>2, GuessInvStays, OtherRoutesTouchRows
        <3> QED BY <3>1, <3>2
    <2>2. CASE UNCHANGED vars
        BY <2>2, GuessInvStays DEF vars
    <2> QED BY <2>1, <2>2, InvitingKeepsCounts, GuessingKeepsCounts, RedeemingKeepsCounts DEF Next
<1> QED BY <1>1, <1>2, TypeCorrect, PTL DEF Spec

\* Wrong proofs of one invitation are bounded between two right ones
\* (GuessesAreBounded).
THEOREM GuessingIsBounded == Spec => []GuessesAreBounded
<1>1. GuessInv => GuessesAreBounded
    BY DEF GuessInv
<1> QED BY <1>1, GuessInvHolds, PTL

-----------------------------------------------------------------------------
(* What a redemption grants.                                               *)

\* An offer carries family-wide keys at their declared levels, and is not made
\* for an item bucket.
FairOffer(o) ==
    /\ \A c \in Collections : o.wide[c] \in {NoAccess, Declared[c]}
    /\ o.coll # NoCollection => ~IsItemBucket(o.coll)

OffersAreFair ==
    /\ draft # NoDraft => FairOffer(draft)
    /\ \A i \in Invites : invite[i] # NoInvite => FairOffer(invite[i])

\* No step but Create writes an offer into an invitation: every other leaves
\* offers as they are, and rows where they are.
SameOffers ==
    \A i \in Invites :
        /\ invite'[i] = NoInvite <=> invite[i] = NoInvite
        /\ invite[i] # NoInvite => /\ invite'[i].coll = invite[i].coll
                                   /\ invite'[i].level = invite[i].level
                                   /\ invite'[i].wide = invite[i].wide

\* One field of one row is set, to a value of its type.
LEMMA OneFieldSet ==
    ASSUME TypeOK, NEW i \in Invites, invite[i] # NoInvite,
           \/ \E n \in Nat : invite' = SetFailed(i, n)
           \/ invite' = [invite EXCEPT ![i] = [@ EXCEPT !.status = "revoked"]]
           \/ invite' = [invite EXCEPT ![i] = [@ EXCEPT !.open = FALSE]]
           \/ invite' = [invite EXCEPT ![i] = [@ EXCEPT !.failed = 0, !.status = "accepted"]]
    PROVE  SameOffers
<1>1. invite[i] \in InviteRow
    BY DEF TypeOK
<1>2. PICK n \in Nat :
        \/ invite'[i] = [invite[i] EXCEPT !.failed = n]
        \/ invite'[i] = [invite[i] EXCEPT !.status = "revoked"]
        \/ invite'[i] = [invite[i] EXCEPT !.open = FALSE]
        \/ invite'[i] = [invite[i] EXCEPT !.failed = 0, !.status = "accepted"]
    BY DEF TypeOK, SetFailed
<1>3. /\ invite'[i] \in InviteRow
      /\ invite'[i].coll = invite[i].coll
      /\ invite'[i].level = invite[i].level
      /\ invite'[i].wide = invite[i].wide
    <2>1. CASE invite'[i] = [invite[i] EXCEPT !.failed = n]
        BY <1>1, <2>1 DEF InviteRow
    <2>2. CASE invite'[i] = [invite[i] EXCEPT !.status = "revoked"]
        BY <1>1, <2>2 DEF InviteRow
    <2>3. CASE invite'[i] = [invite[i] EXCEPT !.open = FALSE]
        BY <1>1, <2>3 DEF InviteRow
    <2>4. CASE invite'[i] = [invite[i] EXCEPT !.failed = 0, !.status = "accepted"]
        <3>1. [invite[i] EXCEPT !.failed = 0] \in InviteRow
            BY <1>1 DEF InviteRow
        <3>2. invite'[i] = [[invite[i] EXCEPT !.failed = 0] EXCEPT !.status = "accepted"]
            BY <2>4
        <3> QED BY <1>1, <3>1, <3>2 DEF InviteRow
    <2> QED BY <1>2, <2>1, <2>2, <2>3, <2>4
<1>4. \A j \in Invites \ {i} : invite'[j] = invite[j]
    BY DEF TypeOK, SetFailed
<1> QED BY <1>3, <1>4, AbsenceAssumption DEF SameOffers

\* Every step but Create leaves the offers alone.
LEMMA OffersStay ==
    ASSUME TypeOK, [Next]_vars, ~Create
    PROVE  SameOffers
<1>s. ASSUME UNCHANGED invite PROVE SameOffers
    BY <1>s DEF SameOffers
<1>f. \A i \in Invites : invite[i] # NoInvite => invite[i].failed \in Nat
    BY DEF TypeOK, InviteRow
<1>1. CASE Inviting
    <2>1. ASSUME NEW i \in Invites, Revoke(i) \/ Expire(i) PROVE SameOffers
        BY <2>1, OneFieldSet DEF Revoke, Expire, Pending
    <2> QED BY <1>1, <1>s, <2>1 DEF Inviting, Compose, AdmitCreate, DropDraft
<1>2. CASE Guessing
    <2>1. PICK i \in Invites : ReadWithWrongProof(i) \/ CountWrongProof(i) \/ AcceptWithWrongProof(i)
        BY <1>2 DEF Guessing
    <2>2. CASE UNCHANGED invite
        BY <2>2, <1>s
    <2>3. CASE ~UNCHANGED invite
        <3>1. invite[i] # NoInvite /\ invite' = SetFailed(i, invite[i].failed + 1)
            BY <2>1, <2>3 DEF ReadWithWrongProof, CountWrongProof, AcceptWithWrongProof, LiveRow, Pending
        <3>2. invite[i].failed + 1 \in Nat
            BY <1>f, <3>1
        <3> QED BY <3>1, <3>2, OneFieldSet
    <2> QED BY <2>2, <2>3
<1>3. CASE Redeeming
    <2>1. ASSUME NEW u \in Users, ResetCounter(u) PROVE SameOffers
        <3>1. page[u].invite \in Invites
            BY <2>1 DEF ResetCounter, TypeOK, Page
        <3> QED BY <2>1, <3>1, <1>s, OneFieldSet DEF ResetCounter, Pending
    <2>2. ASSUME NEW u \in Users, NEW i \in Invites, Accept(u, i) PROVE SameOffers
        BY <2>2, OneFieldSet DEF Accept, LiveRow, Pending
    <2>3. ASSUME NEW u \in Users, NEW i \in Invites, AcceptDead(u, i) PROVE SameOffers
        <3>1. invite[i] # NoInvite => invite[i].failed + 1 \in Nat
            BY <1>f
        <3> QED BY <2>3, <3>1, <1>s, OneFieldSet DEF AcceptDead, Pending
    <2> QED BY <1>3, <1>s, <2>1, <2>2, <2>3
            DEF Redeeming, ReadFamilyWideKeys, LeavePage, ReadWithProof, RollBack
<1>4. CASE OtherRoutes
    <2>1. CASE Dissolve
        <3> SUFFICES ASSUME NEW i \in Invites
                     PROVE  /\ invite'[i] = NoInvite <=> invite[i] = NoInvite
                            /\ invite[i] # NoInvite => /\ invite'[i].coll = invite[i].coll
                                                       /\ invite'[i].level = invite[i].level
                                                       /\ invite'[i].wide = invite[i].wide
            BY DEF SameOffers
        <3>1. CASE invite[i] = NoInvite
            BY <2>1, <3>1 DEF Dissolve
        <3>2. CASE invite[i] # NoInvite
            <4>1. invite[i] \in InviteRow /\ invite'[i] = [invite[i] EXCEPT !.status = "deleted"]
                BY <2>1, <3>2 DEF Dissolve, TypeOK
            <4>2. /\ invite'[i] \in InviteRow
                  /\ invite'[i].coll = invite[i].coll
                  /\ invite'[i].level = invite[i].level
                  /\ invite'[i].wide = invite[i].wide
                BY <4>1 DEF InviteRow
            <4> QED BY <3>2, <4>2, AbsenceAssumption
        <3> QED BY <3>1, <3>2
    <2> QED BY <1>4, <1>s, <2>1, OtherRoutesTouchRows
<1>5. CASE UNCHANGED vars
    BY <1>5, <1>s DEF vars
<1> QED BY <1>1, <1>2, <1>3, <1>4, <1>5 DEF Next

\* The only steps that touch a draft.
LEMMA DraftsStay ==
    ASSUME [Next]_vars
    PROVE  \/ draft' = draft
           \/ draft' = NoDraft
           \/ AdmitCreate
           \/ \E i \in Invites, c \in Scopes, l \in AskLevels : Compose(i, c, l)
<1>1. Inviting => \/ draft' \in {draft, NoDraft}
                  \/ AdmitCreate
                  \/ \E i \in Invites, c \in Scopes, l \in AskLevels : Compose(i, c, l)
    BY DEF Inviting, Create, DropDraft, Revoke, Expire
<1>2. Guessing \/ Redeeming => draft' = draft
    BY DEF Guessing, ReadWithWrongProof, CountWrongProof, AcceptWithWrongProof, Redeeming,
           ResetCounter, ReadFamilyWideKeys, LeavePage, ReadWithProof, Accept, RollBack, AcceptDead
<1>3. OtherRoutes => draft' = draft
    BY OtherRoutesTouchRows
<1> QED BY <1>1, <1>2, <1>3 DEF Next, vars

\* Offers are fair from the moment they are composed.
LEMMA OffersStayFair == Spec => []OffersAreFair
<1>1. Init => OffersAreFair
    BY DEF Init, OffersAreFair
<1>2. TypeOK /\ OffersAreFair /\ [Next]_vars => OffersAreFair'
    <2> SUFFICES ASSUME TypeOK, OffersAreFair, [Next]_vars PROVE OffersAreFair'
        OBVIOUS
    <2>1. draft' # NoDraft => FairOffer(draft')
        <3>1. CASE AdmitCreate
            <4>1. draft \in Draft
                BY <3>1 DEF AdmitCreate, TypeOK
            <4>2. draft'.wide = draft.wide /\ draft'.coll = draft.coll
                BY <3>1, <4>1 DEF AdmitCreate, Draft
            <4> QED BY <3>1, <4>2 DEF AdmitCreate, OffersAreFair, FairOffer
        <3>2. ASSUME NEW i \in Invites, NEW c \in Scopes, NEW l \in AskLevels, Compose(i, c, l)
              PROVE  FairOffer(draft')
            BY <3>2 DEF Compose, FairOffer
        <3> QED BY <3>1, <3>2, DraftsStay DEF OffersAreFair
    <2>2. ASSUME NEW i \in Invites, invite'[i] # NoInvite PROVE FairOffer(invite'[i])
        <3>1. CASE Create
            <4>1. draft \in Draft /\ FairOffer(draft)
                BY <3>1 DEF Create, TypeOK, OffersAreFair
            <4>2. CASE i = draft.invite
                BY <3>1, <4>1, <4>2 DEF Create, TypeOK, FairOffer, Draft
            <4>3. CASE i # draft.invite
                BY <2>2, <3>1, <4>1, <4>3 DEF Create, TypeOK, OffersAreFair, Draft
            <4> QED BY <4>2, <4>3
        <3>2. CASE ~Create
            BY <2>2, <3>2, OffersStay DEF SameOffers, OffersAreFair, FairOffer
        <3> QED BY <3>1, <3>2
    <2> QED BY <2>1, <2>2 DEF OffersAreFair
<1> QED BY <1>1, <1>2, TypeCorrect, PTL DEF Spec

\* Only an acceptance grants anything.
LEMMA OnlyAcceptanceGrants ==
    ASSUME [Next]_vars, received' # received
    PROVE  \E u \in Users, i \in Invites : Accept(u, i)
<1>1. Inviting => received' = received
    BY DEF Inviting, Compose, AdmitCreate, Create, DropDraft, Revoke, Expire
<1>2. Guessing => received' = received
    BY DEF Guessing, ReadWithWrongProof, CountWrongProof, AcceptWithWrongProof
<1>3. OtherRoutes => received' = received
    BY OtherRoutesTouchRows
<1>4. Redeeming => received' = received \/ \E u \in Users, i \in Invites : Accept(u, i)
    BY DEF Redeeming, ResetCounter, ReadFamilyWideKeys, LeavePage, ReadWithProof, RollBack, AcceptDead
<1> QED BY <1>1, <1>2, <1>3, <1>4 DEF Next, vars

\* What a newcomer gets, the inviter could give at that moment
\* (GrantsFollowTheInviter).
THEOREM InviterCouldGrant == Spec => GrantsFollowTheInviter
<1> DEFINE Follows(g) ==
        LET c == g[3][1] IN
        /\ CollectionAccess(Owner, c) # NoAccess
        /\ IsItemBucket(c) => g[3][2] = Declared[c]
        /\ c = invite[g[1]].coll => MayGrant(CollectionAccess(Owner, c), g[3][2])
<1>1. TypeOK /\ OffersAreFair /\ [Next]_vars => [\A g \in received' \ received : Follows(g)]_vars
    <2> SUFFICES ASSUME TypeOK, OffersAreFair, [Next]_vars, NEW g \in received' \ received
                 PROVE  Follows(g)
        OBVIOUS
    <2>1. PICK u \in Users, i \in Invites : Accept(u, i)
        BY OnlyAcceptanceGrants
    <2>2. PICK h \in Granted(i, page[u].entries) : g = <<i, u, h>>
        BY <2>1 DEF Accept
    <2>3. invite[i] # NoInvite /\ invite[i] \in InviteRow /\ FairOffer(invite[i]) /\ Authorised(i)
        BY <2>1 DEF Accept, LiveRow, Pending, TypeOK, OffersAreFair
    <2>4. CASE \E c \in Honoured(i, page[u].entries) : h = <<c, invite[i].wide[c]>>
        <3>1. PICK c \in Honoured(i, page[u].entries) : h = <<c, invite[i].wide[c]>>
            BY <2>4
        <3>2. /\ c \in Collections /\ CollectionAccess(Owner, c) # NoAccess
              /\ invite[i].wide[c] # NoAccess
            BY <3>1 DEF Honoured, Carried
        <3>3. invite[i].wide[c] = Declared[c]
            BY <2>3, <3>2 DEF FairOffer
        <3>4. c = invite[i].coll => CollectionAccess(Owner, c) = "edit"
            BY <2>3, <3>2, ConstantsAssumption DEF Authorised
        <3> QED BY <2>2, <3>1, <3>2, <3>3, <3>4 DEF MayGrant
    <2>5. CASE invite[i].coll # NoCollection /\ h = <<invite[i].coll, invite[i].level>>
        <3>1. CollectionAccess(Owner, invite[i].coll) = "edit" /\ ~IsItemBucket(invite[i].coll)
            BY <2>3, <2>5 DEF Authorised, FairOffer
        <3> QED BY <2>2, <2>5, <3>1 DEF MayGrant
    <2> QED BY <2>4, <2>5 DEF Granted
<1> QED BY <1>1, TypeCorrect, OffersStayFair, PTL DEF Spec, GrantsFollowTheInviter

-----------------------------------------------------------------------------
(* Invitations implements InviteLifecycle: each step is one of its steps,  *)
(* on the offers and the states the mapping computes, or leaves both alone. *)

Offers == [i \in Invites |-> IF invite[i] = NoInvite THEN NoInvite ELSE Promise(i)]
States == [i \in Invites |-> State(i)]

\* The promise of a row depends on what its offer says and nothing else.
LEMMA OffersMapAlike ==
    ASSUME SameOffers
    PROVE  Offers' = Offers
<1> SUFFICES ASSUME NEW i \in Invites
             PROVE  (IF invite[i] = NoInvite THEN NoInvite ELSE Promise(i))'
                        = IF invite[i] = NoInvite THEN NoInvite ELSE Promise(i)
    BY DEF Offers
<1> QED BY DEF SameOffers, Promise

\* Unchanged rows map to unchanged states.
LEMMA StatesMapAlike ==
    ASSUME UNCHANGED invite
    PROVE  States' = States
BY DEF States, State, Pending

\* Inserting an invitation opens an offer.
LEMMA CreateOpens ==
    ASSUME TypeOK, TypeOK', DraftsAreNew, Create
    PROVE  Lifecycle!Next
<1>1. draft.invite \in Invites /\ invite[draft.invite] = NoInvite /\ draft \in Draft
    BY DEF Create, TypeOK, Draft, DraftsAreNew
<1>i. PICK i \in Invites : i = draft.invite
    BY <1>1
<1>2. /\ invite'[i].status = "pending" /\ invite'[i].open
      /\ invite'[i] \in InviteRow
      /\ \A j \in Invites \ {i} : invite'[j] = invite[j]
      /\ received' = received
    BY <1>1, <1>i DEF Create, TypeOK, Draft, InviteRow
<1>3. invite'[i] # NoInvite
    BY <1>2, AbsenceAssumption
<1>4. States[i] = "unused" /\ States' = [States EXCEPT ![i] = "open"]
    BY <1>1, <1>i, <1>2, <1>3 DEF States, State, Pending
<1>5. Offers' = [Offers EXCEPT ![i] = Offers'[i]]
    <2>1. \A j \in Invites \ {i} : Offers'[j] = Offers[j]
        <3> SUFFICES ASSUME NEW j \in Invites \ {i} PROVE Offers'[j] = Offers[j]
            OBVIOUS
        <3>1. invite'[j] = invite[j]
            BY <1>2
        <3>2. Promise(j)' = Promise(j)
            BY <3>1 DEF Promise
        <3> QED BY <3>1, <3>2 DEF Offers
    <2>2. Offers = [j \in Invites |-> Offers[j]] /\ Offers' = [j \in Invites |-> Offers'[j]]
        BY DEF Offers
    <2> QED BY <2>1, <2>2
<1>6. Offers'[i] \in [must : SUBSET (Collections \X Levels), may : SUBSET (Collections \X Levels)]
    <2>1. {<<c, invite'[i].level>> : c \in {invite'[i].coll} \ {NoCollection}}
            \in SUBSET (Collections \X Levels)
        BY <1>2 DEF InviteRow, Scopes
    <2>2. Promise(i)' \in [must : SUBSET (Collections \X Levels), may : SUBSET (Collections \X Levels)]
        BY <2>1 DEF Promise
    <2> QED BY <1>3, <2>2 DEF Offers
<1>7. Lifecycle!Open(i)
    BY <1>2, <1>4, <1>5, <1>6 DEF Lifecycle!Open, Offers, States
<1> QED BY <1>7 DEF Lifecycle!Next

\* An acceptance takes the whole offer.
LEMMA AcceptTakes ==
    ASSUME TypeOK, NEW u \in Users, NEW i \in Invites, Accept(u, i), SameOffers
    PROVE  Lifecycle!Next
<1> DEFINE must == {<<c, invite[i].level>> : c \in {invite[i].coll} \ {NoCollection}}
           may == {g \in Collections \X Levels : invite[i].wide[g[1]] = g[2]}
           wide == {<<c, invite[i].wide[c]>> : c \in Honoured(i, page[u].entries)}
<1>1. /\ invite[i] \in InviteRow /\ invite[i] # NoInvite
      /\ invite[i].status = "pending" /\ invite[i].open
    BY DEF Accept, LiveRow, Pending, TypeOK
<1>2. invite'[i] # NoInvite /\ invite'[i].status = "accepted"
    <2>1. invite'[i] = [[invite[i] EXCEPT !.failed = 0] EXCEPT !.status = "accepted"]
        BY DEF Accept, TypeOK
    <2>2. [invite[i] EXCEPT !.failed = 0] \in InviteRow
        BY <1>1 DEF InviteRow
    <2> QED BY <1>1, <2>1, <2>2 DEF SameOffers, InviteRow
<1>3. \A j \in Invites \ {i} : invite'[j] = invite[j]
    BY DEF Accept, TypeOK
<1>4. States[i] = "open" /\ States' = [States EXCEPT ![i] = "taken"]
    BY <1>1, <1>2, <1>3 DEF States, State, Pending
<1>5. Offers' = Offers /\ Offers[i] = Promise(i)
    BY <1>1, OffersMapAlike DEF Offers
<1>6. Promise(i).must = must /\ Promise(i).may = may
    BY DEF Promise
<1>7. wide \in SUBSET may
    <2>1. \A c \in Honoured(i, page[u].entries) : c \in Collections /\ invite[i].wide[c] \in Levels
        BY <1>1 DEF Honoured, Carried, InviteRow, Bundle
    <2> QED BY <2>1
<1>8. received' = received \cup {<<i, u, g>> : g \in must \cup wide}
    <2>1. Granted(i, page[u].entries) = must \cup wide
        BY DEF Granted
    <2> QED BY <2>1 DEF Accept
<1>9. \E extra \in SUBSET Offers[i].may :
        received' = received \cup {<<i, u, g>> : g \in Offers[i].must \cup extra}
    <2> HIDE DEF must, may, wide
    <2> QED BY <1>5, <1>6, <1>7, <1>8
<1>10. Lifecycle!Take(i, u)
    BY <1>4, <1>5, <1>9 DEF Lifecycle!Take, Offers, States
<1> QED BY <1>10 DEF Lifecycle!Next

\* Withdrawing, expiring and the family's end close offers, or leave them be.
LEMMA ClosingCloses ==
    ASSUME TypeOK, SameOffers, UNCHANGED received,
           NEW some \in SUBSET Invites,
           \A i \in some : State(i) \in {"open", "taken"} /\ State(i)' = "closed",
           \A i \in Invites \ some : State(i)' = State(i)
    PROVE  [Lifecycle!Next]_<<Offers, States, received>>
<1>1. Offers' = Offers
    BY OffersMapAlike
<1>2. CASE some = {}
    <2>1. States' = States
        BY <1>2 DEF States
    <2> QED BY <1>1, <2>1
<1>3. CASE some # {}
    <2>1. \A i \in some : States[i] \in {"open", "taken"}
        BY DEF States
    <2>2. States' = [i \in Invites |-> IF i \in some THEN "closed" ELSE States[i]]
        BY DEF States
    <2>3. Lifecycle!Close(some)
        BY <1>1, <1>3, <2>1, <2>2 DEF Lifecycle!Close, Offers, States
    <2> QED BY <2>3 DEF Lifecycle!Next
<1> QED BY <1>2, <1>3

\* A row whose counter is set, or whose counter alone is, maps as it did.
LEMMA CountingIsInvisible ==
    ASSUME TypeOK, NEW i \in Invites, invite[i] # NoInvite, NEW n \in Nat, invite' = SetFailed(i, n)
    PROVE  States' = States
<1>1. invite[i] \in InviteRow
    BY DEF TypeOK
<1>2. /\ invite'[i] = [invite[i] EXCEPT !.failed = n]
      /\ \A j \in Invites \ {i} : invite'[j] = invite[j]
    BY DEF TypeOK, SetFailed
<1>3. /\ invite'[i].status = invite[i].status /\ invite'[i].open = invite[i].open
      /\ invite'[i] \in InviteRow
    BY <1>1, <1>2 DEF InviteRow
<1>4. State(i)' = State(i)
    BY <1>3, AbsenceAssumption DEF State, Pending
<1>5. \A j \in Invites \ {i} : State(j)' = State(j)
    BY <1>2 DEF State, Pending
<1> QED BY <1>4, <1>5 DEF States

\* Every step is a step of the abstract specification or invisible to it.
LEMMA StepsMap ==
    ASSUME TypeOK, TypeOK', DraftsAreNew, [Next]_vars
    PROVE  [Lifecycle!Next]_<<Offers, States, received>>
<1>c. CASE Create
    BY <1>c, CreateOpens
<1>a. ASSUME NEW u \in Users, NEW i \in Invites, Accept(u, i)
      PROVE  [Lifecycle!Next]_<<Offers, States, received>>
    <2>1. SameOffers
        BY <1>a, OneFieldSet DEF Accept, LiveRow, Pending
    <2> QED BY <1>a, <2>1, AcceptTakes
<1>n. CASE ~Create /\ ~\E u \in Users, i \in Invites : Accept(u, i)
    <2>1. SameOffers /\ Offers' = Offers
        BY <1>n, OffersStay, OffersMapAlike
    <2>2. received' = received
        BY <1>n, OnlyAcceptanceGrants
    <2>s. ASSUME States' = States PROVE [Lifecycle!Next]_<<Offers, States, received>>
        BY <2>1, <2>2, <2>s
    <2>u. ASSUME UNCHANGED invite PROVE States' = States
        BY <2>u, StatesMapAlike
    <2>f. \A i \in Invites : invite[i] # NoInvite => invite[i].failed + 1 \in Nat
        BY DEF TypeOK, InviteRow
    <2>3. CASE Inviting
        <3>1. ASSUME NEW i \in Invites, Revoke(i) \/ Expire(i)
              PROVE  [Lifecycle!Next]_<<Offers, States, received>>
            <4>1. Pending(i) /\ invite[i] \in InviteRow
                BY <3>1 DEF Revoke, Expire, Pending, TypeOK
            <4>2. \/ invite'[i] = [invite[i] EXCEPT !.status = "revoked"]
                  \/ invite'[i] = [invite[i] EXCEPT !.open = FALSE]
                BY <3>1 DEF Revoke, Expire, TypeOK
            <4>3. /\ invite'[i] \in InviteRow
                  /\ \/ invite'[i].status = "revoked"
                     \/ invite'[i].status = invite[i].status /\ invite'[i].open = FALSE
                BY <4>1, <4>2 DEF InviteRow
            <4>4. State(i) \in {"open", "closed"} /\ State(i)' = "closed"
                BY <4>1, <4>3, AbsenceAssumption DEF State, Pending
            <4>5. \A j \in Invites \ {i} : State(j)' = State(j)
                <5>1. \A j \in Invites \ {i} : invite'[j] = invite[j]
                    BY <3>1 DEF Revoke, Expire, TypeOK
                <5> QED BY <5>1 DEF State, Pending
            <4>6. CASE State(i) = "open"
                BY <2>1, <2>2, <4>4, <4>5, <4>6, ClosingCloses
            <4>7. CASE State(i) = "closed"
                <5>1. States' = States
                    BY <4>4, <4>5, <4>7 DEF States
                <5> QED BY <5>1, <2>s
            <4> QED BY <4>4, <4>6, <4>7
        <3> QED BY <1>n, <2>3, <2>s, <2>u, <3>1 DEF Inviting, Compose, AdmitCreate, DropDraft
    <2>4. CASE Guessing
        <3>1. PICK i \in Invites : ReadWithWrongProof(i) \/ CountWrongProof(i) \/ AcceptWithWrongProof(i)
            BY <2>4 DEF Guessing
        <3>2. UNCHANGED invite \/ (invite[i] # NoInvite /\ invite' = SetFailed(i, invite[i].failed + 1))
            BY <3>1 DEF ReadWithWrongProof, CountWrongProof, AcceptWithWrongProof, LiveRow, Pending
        <3>3. States' = States
            BY <2>f, <2>u, <3>2, CountingIsInvisible
        <3> QED BY <3>3, <2>s
    <2>5. CASE Redeeming
        <3>1. ASSUME NEW u \in Users, ResetCounter(u) PROVE States' = States
            <4>1. page[u].invite \in Invites
                BY <3>1 DEF ResetCounter, TypeOK, Page
            <4> QED BY <2>u, <3>1, <4>1, CountingIsInvisible DEF ResetCounter, Pending
        <3>2. ASSUME NEW u \in Users, NEW i \in Invites, AcceptDead(u, i) PROVE States' = States
            BY <2>f, <2>u, <3>2, CountingIsInvisible DEF AcceptDead, Pending
        <3> QED BY <1>n, <2>5, <2>s, <2>u, <3>1, <3>2
                DEF Redeeming, ReadFamilyWideKeys, LeavePage, ReadWithProof, RollBack
    <2>6. CASE OtherRoutes
        <3>1. CASE Dissolve
            <4> DEFINE some == {i \in Invites : State(i) \in {"open", "taken"}}
            <4>1. ASSUME NEW i \in Invites
                  PROVE  /\ invite[i] = NoInvite => State(i) = "unused" /\ State(i)' = "unused"
                         /\ invite[i] # NoInvite => /\ State(i) \in {"open", "taken", "closed"}
                                                    /\ State(i)' = "closed"
                <5>1. CASE invite[i] = NoInvite
                    BY <3>1, <5>1 DEF Dissolve, State
                <5>2. CASE invite[i] # NoInvite
                    <6>1. invite[i] \in InviteRow /\ invite'[i] = [invite[i] EXCEPT !.status = "deleted"]
                        BY <3>1, <5>2 DEF Dissolve, TypeOK
                    <6>2. invite'[i] \in InviteRow /\ invite'[i].status = "deleted"
                        BY <6>1 DEF InviteRow
                    <6> QED BY <5>2, <6>2, AbsenceAssumption DEF State, Pending
                <5> QED BY <5>1, <5>2
            <4>2. /\ \A i \in some : State(i) \in {"open", "taken"} /\ State(i)' = "closed"
                  /\ \A i \in Invites \ some : State(i)' = State(i)
                BY <4>1
            <4> HIDE DEF some
            <4>3. some \in SUBSET Invites
                BY DEF some
            <4> QED BY <2>1, <2>2, <4>2, <4>3, ClosingCloses
        <3> QED BY <2>6, <2>s, <2>u, <3>1, OtherRoutesTouchRows
    <2>7. CASE UNCHANGED vars
        BY <2>7, <2>s, <2>u DEF vars
    <2> QED BY <2>3, <2>4, <2>5, <2>6, <2>7 DEF Next
<1> QED BY <1>c, <1>a, <1>n

\* An invitation is taken at most once, by one user and whole, and never after
\* it has closed: Invitations implements InviteLifecycle (RedeemedOnceAndWhole).
THEOREM InvitationsImplementLifecycle == Spec => RedeemedOnceAndWhole
<1>1. Init => Lifecycle!Init
    BY DEF Init, Lifecycle!Init, State
<1>2. TypeOK /\ TypeOK' /\ DraftsAreNew /\ [Next]_vars => [Lifecycle!Next]_(Lifecycle!vars)
    BY StepsMap DEF Lifecycle!vars, Offers, States
<1>3. Spec => []DraftsAreNew
    BY GuessInvHolds, PTL DEF GuessInv
<1> QED BY <1>1, <1>2, <1>3, TypeCorrect, PTL DEF Spec, Lifecycle!Spec, RedeemedOnceAndWhole
=============================================================================
