------------------------------- MODULE Accounts -------------------------------
(***************************************************************************)
(* Accounts, sessions, passkeys and identity keypairs: the server's routes *)
(* (routes/auth.rs, sessions.rs, passkeys.rs, webauthn_state.rs,           *)
(* identity.rs) statement by statement, and the tabs of one browser that   *)
(* call them (lib/auth, lib/passkeys, lib/identity).                       *)
(*                                                                         *)
(* The tabs share the session token, which is in localStorage and read     *)
(* anew for every request; each holds a User Key of its own in memory.  A  *)
(* User Key is named by the account it belongs to.  A job is one flow of a *)
(* tab, with the request it has in flight; its ceremony is the row of      *)
(* webauthn_states that its start route left.                              *)
(*                                                                         *)
(* Outside src/ and modelled from its use: webauthn-rs, which refuses an   *)
(* assertion whose counter is not above the one in the ceremony's state,   *)
(* and authenticators, which count their assertions.                       *)
(***************************************************************************)
EXTENDS Naturals, FiniteSets

CONSTANTS
    Accounts, Passkeys, Tabs, None,
    Freed,          \* a handle of a User Key that was freed
    Copied,         \* passkeys whose authenticator exists twice
    Jobs,           \* bound: flows in progress at a time
    Does,           \* bound: the flows that are started
    MaxSessions,    \* bound: sessions issued
    MaxStarts       \* bound: flows started

ASSUME CopiedAssumption == Copied \subseteq Passkeys
ASSUME BoundsAssumption == MaxSessions \in Nat /\ MaxStarts \in Nat

VARIABLES
    users,       \* registered accounts
    issuedTo,    \* the account of each session issued
    live,        \* rows of sessions
    rows,        \* rows of passkeys
    created,     \* credentials that some authenticator has made
    counter,     \* assertions each authenticator has made
    ceremony,    \* rows of webauthn_states, by the job that started them
    keypair,     \* rows of user_keypairs
    token,       \* localStorage: the session token, 0 if absent
    tab,         \* React and module state of each tab
    job,         \* flows in progress
    starts,      \* flows started
    made,        \* identity keypairs generated
    uses,        \* history: identity keys handed to a caller
    strayed      \* history: tabs whose session was changed under a flow or by another tab,
                 \* or that opened a passkey which such a tab had sealed

server == <<users, issuedTo, live, rows, ceremony, keypair>>
history == <<made, uses, strayed>>
vars == <<server, created, counter, token, tab, job, starts, history>>

Sessions == 1..MaxSessions
Row == [of : Accounts, count : Nat, wrap : Accounts \cup {None}, anomaly : BOOLEAN]
Offer == [kind : {"registration", "authentication"}, of : Accounts, counts : [Passkeys -> Nat \cup {None}]]
Identity == [id : Nat, by : Accounts]
Job == [tab : Tabs, op : {"register", "signIn", "passkeyLogin", "unlock", "unlockPassword",
                          "enroll", "ensure", "signOut", "join"},
        at : {"register", "login", "start", "gesture", "finish", "check", "write", "issue",
              "insert", "second", "me", "email", "arrive", "get", "got", "put", "published",
              "logout", "leave"},
        account : Accounts \cup {None}, uk : Accounts \cup {None, Freed},
        token : 0..MaxSessions,
        used : Passkeys \cup {None}, count : Nat,
        offer : Offer \cup {None}, row : Row \cup {None},
        own : Nat, found : Identity \cup {None}]

\* What says that nothing is there is none of these.
ASSUME AbsenceAssumption ==
    /\ None \notin Accounts \cup Passkeys /\ Freed \notin Accounts \cup {None}
    /\ None \notin Row /\ None \notin Offer /\ None \notin Identity /\ None \notin Job

TypeOK ==
    /\ users \subseteq Accounts
    /\ issuedTo \in [Sessions -> Accounts \cup {None}]
    /\ live \subseteq {s \in Sessions : issuedTo[s] # None}
    /\ rows \in [Passkeys -> Row \cup {None}]
    /\ \A p \in Passkeys : rows[p] # None => p \in created /\ rows[p].of \in users
    /\ created \subseteq Passkeys
    /\ counter \in [Passkeys \X {1, 2} -> Nat]
    /\ \A p \in Passkeys : rows[p] # None => \E copy \in {1, 2} : rows[p].count <= counter[p, copy]
    /\ ceremony \in [Jobs -> Offer \cup {None}]
    /\ keypair \in [Accounts -> Identity \cup {None}]
    /\ \A x \in Accounts : keypair[x] # None => keypair[x].id \in 1..made
    /\ token \in 0..MaxSessions
    /\ tab \in [Tabs -> [authed : BOOLEAN, key : Accounts \cup {None}, pending : Accounts \cup {None}]]
    /\ job \in [Jobs -> Job \cup {None}]
    /\ starts \in 0..MaxStarts /\ made \in Nat
    /\ uses \subseteq [tab : Tabs, by : Accounts, id : 1..made]
    /\ strayed \subseteq Tabs

Shut == [authed |-> FALSE, key |-> None, pending |-> None]

\* Accounts that registered before, passkeys of x enrolled before, and whether
\* the browser still has a session of x, in tabs that are locked.
InitWith(registered, enrolled, x, signedIn) ==
    /\ users = registered
    /\ issuedTo = [s \in Sessions |-> IF s = 1 /\ signedIn THEN x ELSE None]
    /\ live = (IF signedIn THEN {1} ELSE {}) /\ token = (IF signedIn THEN 1 ELSE 0)
    /\ tab = [t \in Tabs |-> [Shut EXCEPT !.authed = signedIn]]
    /\ rows = [p \in Passkeys |-> IF p \in enrolled
                                  THEN [of |-> x, count |-> 1, wrap |-> x, anomaly |-> FALSE] ELSE None]
    /\ created = enrolled
    /\ counter = [h \in Passkeys \X {1, 2} |-> IF h[1] \in enrolled /\ h[2] = 1 THEN 1 ELSE 0]
    /\ ceremony = [j \in Jobs |-> None] /\ job = [j \in Jobs |-> None]
    /\ keypair = [y \in Accounts |-> None]
    /\ starts = 0 /\ made = 0 /\ uses = {} /\ strayed = {}

Init ==
    \E registered \in SUBSET Accounts, enrolled \in SUBSET Passkeys, x \in Accounts, signedIn \in BOOLEAN :
        /\ enrolled # {} => x \in registered
        /\ signedIn => x \in registered /\ MaxSessions # 0
        /\ InitWith(registered, enrolled, x, signedIn)

-----------------------------------------------------------------------------
(* Jobs and requests.                                                      *)

At(j, place) == job[j] # None /\ job[j].at = place

\* The account a job's request is made for, None if its session is gone.
Caller(j) == IF job[j].token \in live THEN issuedTo[job[j].token] ELSE None

Step(j, place) == job' = [job EXCEPT ![j].at = place]
Ends(j) == job' = [job EXCEPT ![j] = None]

\* A request leaves the tab with the token that is in localStorage then.
Sends(j, place) == job' = [job EXCEPT ![j].at = place, ![j].token = token]

Begun(t, op, place, x, uk) ==
    [tab |-> t, op |-> op, at |-> place, account |-> x, uk |-> uk, token |-> token,
     used |-> None, count |-> 0, offer |-> None, row |-> None, own |-> 0, found |-> None]

Start(t, op, place, x) ==
    /\ op \in Does /\ starts < MaxStarts /\ starts' = starts + 1
    /\ \E j \in Jobs : job[j] = None /\ job' = [job EXCEPT ![j] = Begun(t, op, place, x, tab[t].key)]
    /\ UNCHANGED <<server, created, counter, token, tab, history>>

\* The handles that the jobs of tab t took of its User Key are freed.
FreedIn(t) ==
    [j \in Jobs |-> IF job[j] # None /\ job[j].tab = t /\ job[j].uk # None
                    THEN [job[j] EXCEPT !.uk = Freed] ELSE job[j]]

\* A reload: what the tab had in memory is gone, its flows with it.
Reload(t) ==
    /\ tab' = [tab EXCEPT ![t] = Shut] /\ token' = 0
    /\ job' = [j \in Jobs |-> IF job[j] # None /\ job[j].tab = t THEN None ELSE job[j]]

\* A request, a gesture or an unwrap fails, or its answer is a refusal.
Fails(j) ==
    /\ job[j] # None /\ job[j].at # "leave"
    /\ IF job[j].op \in {"signOut", "join"} THEN Step(j, "leave") ELSE Ends(j)
    /\ UNCHANGED <<server, created, counter, token, tab, starts, history>>

\* The overlay answers a refused session by signing out and reloading.
OverlayRefused(j) ==
    /\ job[j] # None /\ job[j].op \in {"unlock", "unlockPassword"}
    /\ job[j].at \in {"start", "me", "finish"} /\ Caller(j) = None
    /\ Reload(job[j].tab)
    /\ UNCHANGED <<server, created, counter, starts, history>>

-----------------------------------------------------------------------------
(* Sessions.                                                               *)

Register(j) ==
    /\ At(j, "register") /\ job[j].account \notin users
    /\ users' = users \cup {job[j].account} /\ Step(j, "login")
    /\ UNCHANGED <<issuedTo, live, rows, ceremony, keypair, created, counter, token, tab, starts, history>>

\* A new row of sessions; the job carries its token.
Issue(j, x) ==
    \E s \in Sessions :
        /\ issuedTo[s] = None /\ \A r \in 1..(s - 1) : issuedTo[r] # None
        /\ issuedTo' = [issuedTo EXCEPT ![s] = x] /\ live' = live \cup {s}
        /\ job' = [job EXCEPT ![j].at = "arrive", ![j].token = s]

Login(j) ==
    /\ At(j, "login") /\ job[j].account \in users
    /\ Issue(j, job[j].account)
    /\ UNCHANGED <<users, rows, ceremony, keypair, created, counter, token, tab, starts, history>>

\* The session expires, or another device revokes it.
SessionEnds(s) ==
    /\ s \in live /\ "expire" \in Does /\ live' = live \ {s}
    /\ UNCHANGED <<users, issuedTo, rows, ceremony, keypair, created, counter, token, tab, job, starts, history>>

Logout(j) ==
    /\ At(j, "logout") /\ Caller(j) # None
    /\ live' = live \ {job[j].token} /\ Step(j, "leave")
    /\ UNCHANGED <<users, issuedTo, rows, ceremony, keypair, created, counter, token, tab, starts, history>>

Me(j) ==
    /\ At(j, "me") /\ Caller(j) # None
    /\ job' = [job EXCEPT ![j].at = "email", ![j].account = Caller(j)]
    /\ UNCHANGED <<server, created, counter, token, tab, starts, history>>

-----------------------------------------------------------------------------
(* Passkeys.                                                               *)

PasskeysOf(x) == {p \in Passkeys : rows[p] # None /\ rows[p].of = x}
CapableOf(x) == {p \in PasskeysOf(x) : rows[p].wrap # None}

Persist(j, kind, x, counts) ==
    ceremony' = [ceremony EXCEPT ![j] = [kind |-> kind, of |-> x, counts |-> counts]]

\* A ceremony offers passkeys, with the counters of that moment.
Asks(j, x, offered) ==
    /\ offered # {}
    /\ Persist(j, "authentication", x,
               [p \in Passkeys |-> IF p \in offered THEN rows[p].count ELSE None])
    /\ Step(j, "gesture")

LoginStart(j) ==
    /\ At(j, "start") /\ job[j].op = "passkeyLogin" /\ job[j].account \in users
    /\ Asks(j, job[j].account, PasskeysOf(job[j].account))
    /\ UNCHANGED <<users, issuedTo, live, rows, keypair, created, counter, token, tab, starts, history>>

UnlockStart(j) ==
    /\ At(j, "start") /\ job[j].op = "unlock" /\ Caller(j) # None
    /\ Asks(j, Caller(j), CapableOf(Caller(j)))
    /\ UNCHANGED <<users, issuedTo, live, rows, keypair, created, counter, token, tab, starts, history>>

RegisterStart(j) ==
    /\ At(j, "start") /\ job[j].op = "enroll" /\ Caller(j) # None
    /\ Persist(j, "registration", Caller(j), [p \in Passkeys |-> None])
    /\ Step(j, "gesture")
    /\ UNCHANGED <<users, issuedTo, live, rows, keypair, created, counter, token, tab, starts, history>>

\* The gesture of an enrolment makes a credential, every other one an
\* assertion by one of the offered passkeys' authenticators.
Create(j) ==
    /\ At(j, "gesture") /\ job[j].op = "enroll" /\ job[j].used = None
    /\ \E p \in Passkeys \ created :
          /\ created' = created \cup {p}
          /\ job' = [job EXCEPT ![j].at = "finish", ![j].token = token, ![j].used = p]
    /\ UNCHANGED <<server, counter, token, tab, starts, history>>

AssertPasskey(j) ==
    /\ At(j, "gesture") /\ ceremony[j] # None /\ ceremony[j].kind = "authentication"
    /\ job[j].op = "enroll" => job[j].uk # Freed       \* wraps its User Key now
    /\ \E p \in Passkeys, copy \in {1, 2} :
          /\ ceremony[j].counts[p] # None /\ (copy = 2 => p \in Copied)
          /\ counter' = [counter EXCEPT ![<<p, copy>>] = @ + 1]
          /\ job' = [job EXCEPT ![j].at = "finish", ![j].token = token,
                                ![j].used = p, ![j].count = counter[p, copy] + 1,
                                ![j].account = IF job[j].op = "enroll" THEN job[j].uk ELSE @]
    /\ UNCHANGED <<server, created, token, tab, starts, history>>

\* DELETE ... RETURNING; login finish asks for no session.
Consume(j) ==
    /\ At(j, "finish") /\ ceremony[j] # None
    /\ job[j].op # "passkeyLogin" => Caller(j) = ceremony[j].of
    /\ ceremony' = [ceremony EXCEPT ![j] = None]
    /\ job' = [job EXCEPT ![j].offer = ceremony[j],
                          ![j].at = IF ceremony[j].kind = "registration" THEN "insert" ELSE "check"]
    /\ UNCHANGED <<users, issuedTo, live, rows, keypair, created, counter, token, tab, starts, history>>

CeremonyExpires(j) ==
    /\ ceremony[j] # None /\ "expire" \in Does
    /\ ceremony' = [ceremony EXCEPT ![j] = None]
    /\ UNCHANGED <<users, issuedTo, live, rows, keypair, created, counter, token, tab, job, starts, history>>

\* A variant: the counter is compared with the passkey's row.
AcceptedByRow(j) == job[j].count > rows[job[j].used].count

\* The assertion's counter is above the one in the ceremony's state.
Accepted(j) == job[j].count > job[j].offer.counts[job[j].used]

Found(j) == rows[job[j].used] # None /\ rows[job[j].used].of = job[j].offer.of

\* The assertion is verified and the passkey's row read.
Check(j) ==
    /\ At(j, "check") /\ Found(j) /\ Accepted(j)
    /\ job' = [job EXCEPT ![j].at = "write", ![j].row = rows[job[j].used]]
    /\ UNCHANGED <<server, created, counter, token, tab, starts, history>>

\* handle_finish_auth_error.
Alarm(j) ==
    /\ At(j, "check") /\ Found(j) /\ ~Accepted(j)
    /\ rows' = [rows EXCEPT ![job[j].used].anomaly = TRUE]
    /\ Ends(j)
    /\ UNCHANGED <<users, issuedTo, live, ceremony, keypair, created, counter, token, tab, starts, history>>

\* UPDATE passkeys, from the row that was read; prf-wrap adds the User Key.
\* update_credential raises the counter of the copy it is given.
WrittenFor(r, counted) ==
    LET now == rows[r.used]
        count == IF counted > r.row.count THEN counted ELSE r.row.count
    IN  IF now = None THEN None
        ELSE [now EXCEPT !.count = count, !.wrap = IF r.op = "enroll" THEN r.account ELSE @]

\* A variant: the counter expected next is stored.
WrittenNext(r) == WrittenFor(r, r.count + 1)
Written(r) == WrittenFor(r, r.count)

Write(j) ==
    /\ At(j, "write")
    /\ rows' = [rows EXCEPT ![job[j].used] = Written(job[j])]
    /\ IF job[j].op = "enroll" THEN Ends(j)
       ELSE Step(j, IF job[j].op = "unlock" THEN "arrive" ELSE "issue")
    /\ UNCHANGED <<users, issuedTo, live, ceremony, keypair, created, counter, token, tab, starts, history>>

LoginIssues(j) ==
    /\ At(j, "issue") /\ Issue(j, job[j].offer.of)
    /\ UNCHANGED <<users, rows, ceremony, keypair, created, counter, token, tab, starts, history>>

\* register/finish: the row of the new passkey, and the second ceremony.
Insert(j) ==
    /\ At(j, "insert") /\ rows[job[j].used] = None
    /\ rows' = [rows EXCEPT ![job[j].used] =
                    [of |-> job[j].offer.of, count |-> 0, wrap |-> None, anomaly |-> FALSE]]
    /\ Step(j, "second")
    /\ UNCHANGED <<users, issuedTo, live, ceremony, keypair, created, counter, token, tab, starts, history>>

SecondCeremony(j) ==
    /\ At(j, "second")
    /\ Persist(j, "authentication", job[j].offer.of,
               [p \in Passkeys |-> IF p = job[j].used THEN 0 ELSE None])
    /\ Step(j, "gesture")
    /\ UNCHANGED <<users, issuedTo, live, rows, keypair, created, counter, token, tab, starts, history>>

DeletePasskey(p) ==
    /\ "delete" \in Does /\ rows[p] # None
    /\ rows' = [rows EXCEPT ![p] = None]
    /\ UNCHANGED <<users, issuedTo, live, ceremony, keypair, created, counter, token, tab, job, starts, history>>

-----------------------------------------------------------------------------
(* The identity keypair: ensureOwnIdentityKeypair and its two routes.      *)

GetKeypair(j) ==
    /\ At(j, "get") /\ Caller(j) # None
    /\ job' = [job EXCEPT ![j].at = "got", ![j].found = keypair[Caller(j)]]
    /\ UNCHANGED <<server, created, counter, token, tab, starts, history>>

\* The caller of ensureOwnIdentityKeypair is handed an identity key.
Hands(j, id) ==
    /\ uses' = uses \cup {[tab |-> job[j].tab, by |-> job[j].uk, id |-> id]} /\ Ends(j)
    /\ UNCHANGED <<server, created, counter, token, tab, starts, strayed>>

Unwraps(j) ==
    /\ job[j].found # None /\ job[j].found.by = job[j].uk
    /\ Hands(j, job[j].found.id)

\* A stale User Key ends the flow (StaleUserKeyError).
HasKeypair(j) == At(j, "got") /\ job[j].uk # Freed /\ Unwraps(j) /\ UNCHANGED made

Generate(j) ==
    /\ At(j, "got") /\ job[j].uk # Freed /\ job[j].found = None
    /\ made' = made + 1
    /\ job' = [job EXCEPT ![j].at = "put", ![j].token = token, ![j].own = made + 1, ![j].account = job[j].uk]
    /\ UNCHANGED <<server, created, counter, token, tab, starts, uses, strayed>>

\* INSERT ... ON CONFLICT DO NOTHING, and the row that is there then.
Upsert(j) ==
    /\ At(j, "put") /\ Caller(j) # None
    /\ LET x == Caller(j)
           mine == [id |-> job[j].own, by |-> job[j].account]
       IN  /\ keypair' = [keypair EXCEPT ![x] = IF @ = None THEN mine ELSE @]
           /\ job' = [job EXCEPT ![j].at = "published", ![j].found = keypair'[x]]
    /\ UNCHANGED <<users, issuedTo, live, rows, ceremony, created, counter, token, tab, starts, history>>

Owns(j) == job[j].found.id = job[j].own

\* A variant: the loser of the race keeps the key it generated.
KeepsOwn(j) == At(j, "published") /\ job[j].uk # Freed /\ Hands(j, job[j].own) /\ UNCHANGED made

Published(j) ==
    /\ At(j, "published") /\ job[j].uk # Freed
    /\ IF Owns(j) THEN Hands(j, job[j].own) ELSE Unwraps(j)
    /\ UNCHANGED made

-----------------------------------------------------------------------------
(* The tabs.                                                               *)

\* Flows of tab t other than j, none of which has lost its User Key.
OtherFlows(t, j) == {k \in Jobs \ {j} : job[k] # None /\ job[k].tab = t /\ job[k].uk # Freed}

\* Tabs under which account x's session is put: a flow is in progress, or they
\* are not the tab that signs in and hold the key of another account.
Strays(j, x) ==
    {t \in Tabs : \/ OtherFlows(t, j) # {}
                  \/ t # job[j].tab /\ {tab[t].key, tab[t].pending} \ {None, x} # {}}

\* The tab under which a passkey opens the User Key of another account, sealed
\* into it by a tab that had strayed.
Misled(j) ==
    {t \in Tabs : /\ t = job[j].tab /\ strayed # {}
                  /\ job[j].row # None /\ job[j].row.wrap \notin {job[j].row.of, None}}

\* setSessionToken at the end of a login.
SignedIn(j, x) == token' = job[j].token /\ strayed' = strayed \cup Strays(j, x) \cup Misled(j)

\* setUnlockedUserKey, after which the job publishes the identity keypair.
Unlocks(j, x, sends) ==
    LET t == job[j].tab IN
    /\ tab' = [tab EXCEPT ![t].authed = @ \/ job[j].op = "register", ![t].key = x]
    /\ job' = [FreedIn(t) EXCEPT ![j] = [Begun(t, "ensure", "get", None, x) EXCEPT !.token = sends]]

RegisteredIn(j) ==
    /\ At(j, "arrive") /\ job[j].op = "register"
    /\ SignedIn(j, job[j].account) /\ Unlocks(j, job[j].account, job[j].token)
    /\ UNCHANGED <<server, created, counter, starts, made, uses>>

\* setPendingUnlock: with the password's wrapping of the User Key, or with the
\* passkey's, where there is one and the browser gives the PRF.
LoggedIn(j) ==
    /\ At(j, "arrive") /\ job[j].op \in {"signIn", "passkeyLogin"}
    /\ \E x \in {IF job[j].op = "signIn" THEN job[j].account ELSE job[j].row.wrap,
                 IF job[j].op = "signIn" THEN job[j].account ELSE None} :
          tab' = [tab EXCEPT ![job[j].tab].authed = TRUE, ![job[j].tab].pending = IF x = None THEN @ ELSE x]
    /\ SignedIn(j, job[j].account) /\ Ends(j)
    /\ UNCHANGED <<server, created, counter, starts, made, uses>>

\* unlockFromPassword derives with the salt of the e-mail stored by then.
ReadEmail(j) ==
    /\ At(j, "email") /\ (token # 0 => issuedTo[token] = job[j].account)
    /\ Step(j, "arrive")
    /\ UNCHANGED <<server, created, counter, token, tab, starts, history>>

Unlocked(j) ==
    /\ At(j, "arrive") /\ job[j].op \in {"unlock", "unlockPassword"}
    /\ Unlocks(j, IF job[j].op = "unlock" THEN job[j].row.wrap ELSE job[j].account, token)
    /\ strayed' = strayed \cup Misled(j)
    /\ UNCHANGED <<server, created, counter, token, starts, made, uses>>

\* unlockFromPending; publishOnUnlock starts a job of its own.
TakePending(t) ==
    /\ tab[t].authed /\ tab[t].key = None /\ tab[t].pending # None /\ token # 0
    /\ tab' = [tab EXCEPT ![t].key = tab[t].pending, ![t].pending = None]
    /\ \E j \in Jobs : job[j] = None
                       /\ job' = [job EXCEPT ![j] = Begun(t, "ensure", "get", None, tab[t].pending)]
    /\ UNCHANGED <<server, created, counter, token, starts, history>>

\* The mount of AuthGate finds a session.
Visit(t) ==
    /\ ~tab[t].authed /\ token # 0
    /\ tab' = [tab EXCEPT ![t] = [Shut EXCEPT !.authed = TRUE]]
    /\ job' = [j \in Jobs |-> IF job[j] # None /\ job[j].tab = t THEN None ELSE job[j]]
    /\ UNCHANGED <<server, created, counter, token, starts, history>>

Lock(t) ==
    /\ "lock" \in Does /\ tab[t].key # None
    /\ tab' = [tab EXCEPT ![t].key = None] /\ job' = FreedIn(t)
    /\ UNCHANGED <<server, created, counter, token, starts, history>>

\* handleLogout of the sidebar.
Leave(j) ==
    /\ At(j, "leave") /\ job[j].op = "signOut"
    /\ Reload(job[j].tab)
    /\ UNCHANGED <<server, created, counter, starts, history>>

\* A variant: the invitation's view signs out and does not lock.
JoinUnlocked(j) ==
    LET t == job[j].tab IN
    /\ At(j, "leave") /\ job[j].op = "join"
    /\ token' = 0 /\ tab' = [tab EXCEPT ![t].authed = FALSE] /\ Ends(j)
    /\ strayed' = IF OtherFlows(t, j) # {} THEN strayed \cup {t} ELSE strayed
    /\ UNCHANGED <<server, created, counter, starts, made, uses>>

\* The invitation's view signs out without a reload: flows go on.
JoinAsDifferentAccount(j) ==
    LET t == job[j].tab IN
    /\ At(j, "leave") /\ job[j].op = "join"
    /\ token' = 0 /\ tab' = [tab EXCEPT ![t] = Shut]
    /\ job' = [FreedIn(t) EXCEPT ![j] = None]
    /\ strayed' = IF {k \in OtherFlows(t, j) : job[k].uk = None} # {} THEN strayed \cup {t} ELSE strayed
    /\ UNCHANGED <<server, created, counter, starts, made, uses>>

\* What a user can start from the forms, the overlay and the shell.
Form(t) ==
    /\ ~tab[t].authed
    /\ \E x \in Accounts : \/ Start(t, "register", "register", x)
                           \/ Start(t, "signIn", "login", x)
                           \/ Start(t, "passkeyLogin", "start", x)

Overlay(t) ==
    /\ tab[t].authed /\ tab[t].key = None /\ tab[t].pending = None /\ token # 0
    /\ Start(t, "unlock", "start", None) \/ Start(t, "unlockPassword", "me", None)

Shell(t) ==
    /\ tab[t].authed
    /\ \/ /\ tab[t].key # None
          /\ \/ Start(t, "enroll", "start", None)
             \/ Start(t, "ensure", "get", None)
             \/ Start(t, "signOut", "logout", None)
       \/ Start(t, "join", "logout", None)

Next ==
    \/ \E j \in Jobs :
          \/ Register(j) \/ Login(j) \/ Logout(j) \/ Me(j)
          \/ LoginStart(j) \/ UnlockStart(j) \/ RegisterStart(j) \/ Create(j) \/ AssertPasskey(j)
          \/ Consume(j) \/ CeremonyExpires(j) \/ Check(j) \/ Alarm(j) \/ Write(j) \/ LoginIssues(j)
          \/ Insert(j) \/ SecondCeremony(j)
          \/ GetKeypair(j) \/ HasKeypair(j) \/ Generate(j) \/ Upsert(j) \/ Published(j)
          \/ RegisteredIn(j) \/ LoggedIn(j) \/ ReadEmail(j) \/ Unlocked(j)
          \/ Leave(j) \/ JoinAsDifferentAccount(j)
          \/ Fails(j) \/ OverlayRefused(j)
    \/ \E t \in Tabs : Form(t) \/ Overlay(t) \/ Shell(t) \/ TakePending(t) \/ Visit(t) \/ Lock(t)
    \/ \E s \in Sessions : SessionEnds(s)
    \/ \E p \in Passkeys : DeletePasskey(p)

Spec == Init /\ [][Next]_vars

-----------------------------------------------------------------------------
(* Properties.                                                             *)

\* passkeys.rs:305-309: only a counter that goes back is reported.  However
\* ceremonies of a passkey overlap and in whichever order they finish, one
\* whose authenticator exists once is never reported as copied.
NoFalseAlarm == \A p \in Passkeys : rows[p] # None /\ rows[p].anomaly => p \in Copied

\* ensure.ts:1-7: of two callers that race, one publishes and the other adopts.
\* Every identity key that a flow uses for an account is the published one.
OneIdentity ==
    \A u \in uses : u.tab \notin strayed =>
        keypair[u.by] # None /\ keypair[u.by].id = u.id

\* identity.rs:62: the secret key is "wrapped under this account's own UserKey".
\* So is what a passkey opens, unless a tab's session was changed under it.
SealedByTheOwner ==
    strayed = {} =>
        /\ \A x \in Accounts : keypair[x] # None => keypair[x].by = x
        /\ \A p \in Passkeys : rows[p] # None => rows[p].wrap \in {rows[p].of, None}

\* Every flow of an account gets the account's one identity key, which every
\* device of the account can open.
OwnIdentity == OneIdentity /\ SealedByTheOwner
=============================================================================
