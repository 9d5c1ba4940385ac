---------------------------- MODULE WorkerSession ----------------------------
(***************************************************************************)
(* The extension's background worker and the session it keeps              *)
(* (entrypoints/background: vault-session.ts, session-storage.ts,          *)
(* autolock.ts, unlock.ts, server-unlock.ts, router.ts, background.ts).    *)
(*                                                                         *)
(* The worker may be killed whenever it is idle and is started again by    *)
(* the next event; only storage.session and the alarms outlive it.  Its    *)
(* handlers are asynchronous: each runs up to an await, and any other      *)
(* handler may run before it goes on.  A storage or alarm call takes       *)
(* effect in the order it is issued, its answer comes later.  Each handler *)
(* is a job here, at[j] the await it stands at and note[j] what it has     *)
(* read.  The session-meta record is given by the account of its token,    *)
(* the key envelope and the live key by the account of the key.            *)
(***************************************************************************)
EXTENDS Naturals, FiniteSets

CONSTANTS
    Accounts,
    Nonces,          \* ceremonies that can be started
    None,
    Events,          \* what the user does, and "crash": a bound
    MaxEvents        \* bound: how often they do it

ASSUME SessionAssumption ==
    /\ None \notin Accounts \cup Nonces
    /\ MaxEvents \in Nat

VARIABLES
    alive,      \* the worker runs
    key,        \* currentUserKey: its account and the handler still to export it
    at, note,   \* the handlers in flight
    meta,       \* storage.session: pv-session-meta
    envelope,   \* storage.session: pv-uk-envelope
    pending,    \* storage.session: pv-server-unlock-pending
    alarm,      \* pv-auto-lock is armed
    timer,      \* pv-server-unlock-timeout is armed
    issued,     \* nonces of ceremony windows opened so far
    relayed,    \* nonces content-relay has forwarded: each once
    waiting,    \* a popup shows a ceremony in flight
    events,     \* events so far
    races,      \* history: crashes, and the races that have happened
    handed      \* history: <<session, key>> of accounts, for each key that the web
                \* app handed to an unlock of another account's session

sessionVars == <<alive, key, at, note, meta, envelope, pending, alarm, timer,
                 issued, relayed, waiting, events, races, handed>>
ceremony == <<pending, timer, issued, relayed, waiting, handed>>

Handlers == {"wake", "status", "touch", "minutes", "unlock", "lock", "signOut", "start", "expire"}
Jobs == Handlers \cup Nonces
Modes == {"signin", "unlock"}
Ceremony == [nonce : Nonces, mode : Modes]
Awaits == {"idle", "read", "asked", "login", "exporting", "arming", "cleared",
           "written", "logout", "opened", "recorded", "checked"}
Account == Accounts \cup {None}
Key == [of : Accounts, by : {"unlock", None} \cup Nonces]
Note == [meta : Account, seen : Account \cup Ceremony, account : Account, freed : BOOLEAN]
Blank == [meta |-> None, seen |-> None, account |-> None, freed |-> FALSE]

\* What says that nothing is there is none of these, and each handler is one.
ASSUME AbsenceAssumption ==
    Handlers \cap Nonces = {} /\ None \notin Jobs /\ None \notin Ceremony /\ None \notin Key

TypeOK ==
    /\ alive \in BOOLEAN /\ alarm \in BOOLEAN /\ timer \in BOOLEAN /\ waiting \in BOOLEAN
    /\ key \in Key \cup {None}
    /\ at \in [Jobs -> Awaits] /\ note \in [Jobs -> Note]
    /\ meta \in Account /\ envelope \in Account
    /\ pending \in Ceremony \cup {None}
    /\ relayed \subseteq issued /\ issued \subseteq Nonces
    /\ events \in 0..MaxEvents
    /\ races \subseteq {"crashed", "crossed", "lateImport", "muddled"}
    /\ handed \subseteq Accounts \X Accounts
    /\ ~alive => key = None /\ \A j \in Jobs : at[j] = "idle"

\* Started with no session, or with one that is locked.
InitWith(session) ==
    /\ alive = FALSE /\ key = None
    /\ at = [j \in Jobs |-> "idle"] /\ note = [j \in Jobs |-> Blank]
    /\ meta = session /\ envelope = None /\ pending = None
    /\ alarm = FALSE /\ timer = FALSE
    /\ issued = {} /\ relayed = {} /\ waiting = FALSE
    /\ events = 0 /\ races = {} /\ handed = {}

Init == \E session \in Account : InitWith(session)

Busy(j) == at[j] # "idle"
Quiet == \A j \in Jobs : ~Busy(j)

-----------------------------------------------------------------------------
(* The worker starts, is killed, and dispatches events.                    *)

\* main() issues the read of the key envelope before any event is dispatched
\* (and does no more if there is none).
Hydrating == ~alive /\ envelope # None
WokenAt == IF Hydrating THEN [at EXCEPT !["wake"] = "read"] ELSE at
WokenNote == IF Hydrating THEN [note EXCEPT !["wake"] = [Blank EXCEPT !.seen = envelope]] ELSE note

\* A handler starts, in a worker that is woken for it if need be.
Dispatch(j, label, n) ==
    /\ ~Busy(j)
    /\ alive' = TRUE
    /\ at' = [WokenAt EXCEPT ![j] = label]
    /\ note' = [WokenNote EXCEPT ![j] = n]

Goto(j, label, n) ==
    /\ at' = [at EXCEPT ![j] = label]
    /\ note' = [note EXCEPT ![j] = n]
    /\ UNCHANGED alive

Return(j) == Goto(j, "idle", Blank)

\* An event within the bound.
Event(e) ==
    /\ e \in Events /\ events < MaxEvents
    /\ events' = events + 1

\* Some other event (the sync poll's alarm, a message) starts the worker.
Wake ==
    /\ ~alive
    /\ alive' = TRUE /\ at' = WokenAt /\ note' = WokenNote
    /\ UNCHANGED <<key, meta, envelope, alarm, ceremony, events, races>>

\* The worker is killed when idle; or it crashes with handlers in flight.
Die ==
    /\ alive /\ alive' = FALSE /\ key' = None
    /\ at' = [j \in Jobs |-> "idle"] /\ note' = [j \in Jobs |-> Blank]
    /\ UNCHANGED <<meta, envelope, alarm, ceremony>>

Kill == Quiet /\ Die /\ UNCHANGED <<events, races>>

Crash == ~Quiet /\ Event("crash") /\ Die /\ races' = races \cup {"crashed"}

-----------------------------------------------------------------------------
(* Hydration: main() and session.status.                                   *)

\* importUserKeyFromSession sets the key from the envelope that was read.
\* (initCrypto is awaited in between; nothing is read again.)
Import(seen) ==
    /\ key' = [of |-> seen, by |-> None]
    /\ races' = races \cup (IF envelope = seen THEN {} ELSE {"lateImport"})

\* main(): hydrate, start the vault's sync, read the session to re-arm.
WakeHydrates ==
    /\ at["wake"] = "read"
    /\ Import(note["wake"].seen)
    /\ Goto("wake", "asked", [Blank EXCEPT !.meta = meta])
    /\ UNCHANGED <<meta, envelope, alarm, ceremony, events>>
\* A variant of WakeRearms that leaves the alarm as it finds it.
WakeHydratesOnly ==
    /\ at["wake"] = "asked"
    /\ Return("wake")
    /\ UNCHANGED <<key, meta, envelope, alarm, ceremony, events, races>>

WakeRearms ==
    /\ at["wake"] = "asked"
    /\ alarm' = (alarm \/ note["wake"].meta # None)
    /\ Return("wake")
    /\ UNCHANGED <<key, meta, envelope, ceremony, events, races>>

\* getSessionStatus reads the session, then hydrates.
AskStatus ==
    /\ Event("status")
    /\ Dispatch("status", "asked", [Blank EXCEPT !.meta = meta])
    /\ UNCHANGED <<key, meta, envelope, alarm, ceremony, races>>

StatusReadsEnvelope ==
    /\ at["status"] = "asked"
    /\ IF note["status"].meta = None \/ key # None \/ envelope = None THEN Return("status")
       ELSE Goto("status", "read", [Blank EXCEPT !.seen = envelope])
    /\ UNCHANGED <<key, meta, envelope, alarm, ceremony, events, races>>

StatusHydrates ==
    /\ at["status"] = "read"
    /\ Import(note["status"].seen)
    /\ Return("status")
    /\ UNCHANGED <<meta, envelope, alarm, ceremony, events>>

-----------------------------------------------------------------------------
(* The auto-lock alarm.                                                    *)

\* noteActivity, on every message of a popup: nothing if locked.
Touch ==
    /\ alive /\ key # None
    /\ Event("touch")
    /\ Dispatch("touch", "asked", Blank)
    /\ UNCHANGED <<key, meta, envelope, alarm, ceremony, races>>

TouchArms ==
    /\ at["touch"] = "asked"
    /\ alarm' = TRUE
    /\ Return("touch")
    /\ UNCHANGED <<key, meta, envelope, ceremony, events, races>>

\* Two of these session handlers cross if one signs out or changes the account.
Crossing(j) ==
    \E o \in {"wake", "status", "minutes", "unlock", "lock", "signOut"} \cup Nonces :
        o # j /\ Busy(o) /\ ("signOut" \in {j, o} \/ meta' # meta)
NoteCrossing(j) == races' = races \cup (IF Crossing(j) THEN {"crossed"} ELSE {})

\* setAutoLockMinutes writes the session it has read back, and re-arms.
SetMinutes ==
    /\ Event("minutes")
    /\ Dispatch("minutes", "asked", [Blank EXCEPT !.meta = meta])
    /\ UNCHANGED <<key, meta, envelope, alarm, ceremony, races>>

MinutesWritten ==
    /\ at["minutes"] = "asked"
    /\ meta' = IF note["minutes"].meta = None THEN meta ELSE note["minutes"].meta
    /\ NoteCrossing("minutes")
    /\ Goto("minutes", "written", Blank)
    /\ UNCHANGED <<key, envelope, alarm, ceremony, events>>

MinutesArm ==
    /\ at["minutes"] = "written"
    /\ alarm' = TRUE
    /\ Return("minutes")
    /\ UNCHANGED <<key, meta, envelope, ceremony, events, races>>

-----------------------------------------------------------------------------
(* lockVaultSession, by the alarm or by signOutVaultSession.               *)

\* free() on the live handle: its exporter, if any, holds a dead one.
Freeing(n) ==
    IF key # None /\ key.by # None THEN [n EXCEPT ![key.by].freed = TRUE] ELSE n
\* A variant of StartLock that leaves the envelope to the end of the session.
DropHandle(j) ==
    /\ ~Busy(j)
    /\ alive' = TRUE
    /\ at' = [WokenAt EXCEPT ![j] = "cleared"]
    /\ note' = Freeing([WokenNote EXCEPT ![j] = Blank])
    /\ key' = None
    /\ UNCHANGED <<envelope, meta, ceremony>>

\* The handle is freed and dropped and the envelope removed; then an await.
StartLock(j) ==
    /\ ~Busy(j)
    /\ alive' = TRUE
    /\ at' = [WokenAt EXCEPT ![j] = "cleared"]
    /\ note' = Freeing([WokenNote EXCEPT ![j] = Blank])
    /\ key' = None /\ envelope' = None
    /\ UNCHANGED <<meta, ceremony>>
\* A variant of AutoLock that does nothing where no key is in memory.
AutoLockLiveKey ==
    /\ alarm /\ alarm' = FALSE
    /\ IF key # None THEN StartLock("lock")
       ELSE /\ alive' = TRUE /\ at' = WokenAt /\ note' = WokenNote
            /\ UNCHANGED <<key, meta, envelope, ceremony>>
    /\ UNCHANGED <<events, races>>

\* The alarm is due once it is armed, and gone when it has fired.
AutoLock ==
    /\ alarm /\ alarm' = FALSE
    /\ StartLock("lock")
    /\ UNCHANGED <<events, races>>

SignOut ==
    /\ meta # None
    /\ Event("signOut")
    /\ StartLock("signOut")
    /\ UNCHANGED alarm
    /\ NoteCrossing("signOut")

LockReadsMeta(j) ==
    /\ at[j] = "cleared"
    /\ Goto(j, "asked", [Blank EXCEPT !.meta = meta])
    /\ UNCHANGED <<key, meta, envelope, alarm, ceremony, events, races>>

\* The record is written back with wasAutoLocked set, and the listeners told; a
\* sign-out goes on to ask the server to end the session.
LockWritesMeta(j) ==
    /\ at[j] = "asked"
    /\ meta' = IF note[j].meta = None THEN meta ELSE note[j].meta
    /\ NoteCrossing(j)
    /\ IF j = "signOut" THEN Goto(j, "logout", Blank) ELSE Return(j)
    /\ UNCHANGED <<key, envelope, alarm, ceremony, events>>

\* Answered or failed, the session record is removed.
ClearMeta ==
    /\ at["signOut"] = "logout"
    /\ meta' = None
    /\ NoteCrossing("signOut")
    /\ Return("signOut")
    /\ UNCHANGED <<key, envelope, alarm, ceremony, events>>

-----------------------------------------------------------------------------
(* setUnlockedUserKey, the one way to unlock.                              *)

\* The old handle is freed, the new one set, and the session record written.
Install(j, account, token) ==
    /\ key' = [of |-> account, by |-> j]
    /\ meta' = token
    /\ at' = [at EXCEPT ![j] = "exporting"]
    /\ note' = [Freeing(note) EXCEPT ![j] = [Blank EXCEPT !.account = account]]
    /\ NoteCrossing(j)
    /\ UNCHANGED <<alive, envelope, alarm>>

\* Only then the envelope; a handle freed meanwhile cannot be exported.
Export(j) ==
    /\ at[j] = "exporting" /\ ~note[j].freed
    /\ envelope' = note[j].account
    /\ key' = IF key # None /\ key.by = j THEN [key EXCEPT !.by = None] ELSE key
    /\ Goto(j, "arming", Blank)
    /\ UNCHANGED <<meta, alarm, ceremony, events, races>>

\* The alarm is armed last.  A ceremony is over then, and its popup told.
Arm(j) ==
    /\ at[j] = "arming"
    /\ alarm' = TRUE
    /\ waiting' = (waiting /\ j = "unlock")
    /\ Return(j)
    /\ UNCHANGED <<key, meta, envelope, pending, timer, issued, relayed, events, races, handed>>

-----------------------------------------------------------------------------
(* unlock.password: handleUnlockPassword without an email.                 *)

\* me() is asked with the token of the session there is, if the vault is
\* unlocked already as well.
Unlock ==
    /\ Event("unlock")
    /\ meta # None
    /\ Dispatch("unlock", "login", [Blank EXCEPT !.account = meta])
    /\ UNCHANGED <<key, meta, envelope, alarm, ceremony, races>>

\* The account's wrapped key has come and opened; the session is read again.
UnlockOpened ==
    /\ at["unlock"] = "login"
    /\ Goto("unlock", "asked", [note["unlock"] EXCEPT !.meta = meta])
    /\ UNCHANGED <<key, meta, envelope, alarm, ceremony, events, races>>

UnlockFails ==
    /\ \/ at["unlock"] = "login"
       \/ at["unlock"] = "asked" /\ note["unlock"].meta = None
       \/ at["unlock"] = "exporting" /\ note["unlock"].freed
    /\ Return("unlock")
    /\ UNCHANGED <<key, meta, envelope, alarm, ceremony, events, races>>

UnlockInstalls ==
    /\ at["unlock"] = "asked" /\ note["unlock"].meta # None
    /\ Install("unlock", note["unlock"].account, note["unlock"].meta)
    /\ UNCHANGED <<ceremony, events>>

-----------------------------------------------------------------------------
(* startServerUnlock: a ceremony window on the web app.                    *)

Keep == UNCHANGED <<key, meta, envelope, alarm, handed>>

\* A ceremony is being set up while another's record or timer is cleaned up.
Muddle ==
    /\ at'["start"] \in {"opened", "recorded"}
    /\ \E j \in {"expire"} \cup Nonces : at'[j] \in {"asked", "cleared"}
NoteMuddle == races' = races \cup (IF Muddle THEN {"muddled"} ELSE {})

\* The session is read: none for a sign-in, a locked one for an unlock.
StartCeremony(mode) ==
    /\ issued # Nonces
    /\ Event("start")
    /\ mode = "unlock" => ~alive \/ key = None
    /\ (meta = None) = (mode = "signin")
    /\ Dispatch("start", "asked", [Blank EXCEPT !.seen = [nonce |-> CHOOSE n \in Nonces \ issued : TRUE, mode |-> mode]])
    /\ UNCHANGED <<ceremony, races>> /\ Keep

\* The window of the ceremony in progress is closed and a new one opened,
\* with a fresh nonce in its address.
OpenWindow ==
    /\ at["start"] = "asked"
    /\ issued' = issued \cup {note["start"].seen.nonce}
    /\ Goto("start", "opened", note["start"])
    /\ NoteMuddle
    /\ UNCHANGED <<pending, timer, relayed, waiting, events>> /\ Keep

RecordPending ==
    /\ at["start"] = "opened"
    /\ pending' = note["start"].seen
    /\ Goto("start", "recorded", Blank)
    /\ NoteMuddle
    /\ UNCHANGED <<timer, issued, relayed, waiting, events>> /\ Keep
\* A variant of SetTimer that arms nothing.
WaitWithoutTimer ==
    /\ at["start"] = "recorded"
    /\ waiting' = TRUE
    /\ Return("start")
    /\ UNCHANGED <<pending, timer, issued, relayed, events, races>> /\ Keep

\* The timer is set, and the popup waits for the outcome.
SetTimer ==
    /\ at["start"] = "recorded"
    /\ timer' = TRUE /\ waiting' = TRUE
    /\ Return("start")
    /\ UNCHANGED <<pending, issued, relayed, events, races>> /\ Keep

\* The timeout: the record is read, removed with the timer, and the popup told.
Expire ==
    /\ timer /\ timer' = FALSE
    /\ Dispatch("expire", "asked", Blank)
    /\ NoteMuddle
    /\ UNCHANGED <<pending, issued, relayed, waiting, events>> /\ Keep

ExpireClears ==
    /\ at["expire"] = "asked"
    /\ pending' = None
    /\ Goto("expire", "cleared", Blank)
    /\ NoteMuddle
    /\ UNCHANGED <<timer, issued, relayed, waiting, events>> /\ Keep

ExpireTells ==
    /\ at["expire"] = "cleared"
    /\ timer' = FALSE /\ waiting' = FALSE
    /\ Return("expire")
    /\ UNCHANGED <<pending, issued, relayed, events, races>> /\ Keep

-----------------------------------------------------------------------------
(* completeServerUnlock: the window's result, relayed by the content script*)

\* The record is read.  (The window lasts as long as its user wants.)
Relay(n) ==
    /\ n \in issued \ relayed
    /\ relayed' = relayed \cup {n}
    /\ Dispatch(n, "asked", [Blank EXCEPT !.seen = pending])
    /\ NoteMuddle
    /\ UNCHANGED <<pending, timer, issued, waiting, events>> /\ Keep

\* No ceremony is pending: whoever waits is told.  Another is: nothing.
Mismatch(n) ==
    /\ at[n] = "asked"
    /\ note[n].seen # None => note[n].seen.nonce # n
    /\ waiting' = (waiting /\ note[n].seen # None)
    /\ Return(n)
    /\ UNCHANGED <<pending, timer, issued, relayed, events, races>> /\ Keep

\* The nonce is spent, whatever comes of it.
Spend(n) ==
    /\ at[n] = "asked"
    /\ note[n].seen # None /\ note[n].seen.nonce = n
    /\ pending' = None
    /\ Goto(n, "cleared", note[n])
    /\ NoteMuddle
    /\ UNCHANGED <<timer, issued, relayed, waiting, events>> /\ Keep

\* The timer is cleared and the session read again.
Recheck(n) ==
    /\ at[n] = "cleared"
    /\ timer' = FALSE
    /\ Goto(n, "checked", [note[n] EXCEPT !.meta = meta])
    /\ UNCHANGED <<pending, issued, relayed, waiting, events, races>> /\ Keep

\* A password sign-in, where there was no session: login over the network.
CeremonyLogin(n) ==
    /\ at[n] = "checked"
    /\ note[n].seen.mode = "signin" /\ note[n].meta = None
    /\ \E a \in Accounts : Goto(n, "login", [note[n] EXCEPT !.account = a])
    /\ UNCHANGED <<ceremony, events, races>> /\ Keep

CeremonyLoggedIn(n) ==
    /\ at[n] = "login"
    /\ Install(n, note[n].account, note[n].account)
    /\ UNCHANGED <<ceremony, events>>

\* The web app's session, whosever it is, opened its key with a passkey.  A
\* sign-in brings the token of that session, an unlock keeps the token there is:
\* no account is compared.
CeremonyPrf(n) ==
    /\ at[n] = "checked"
    /\ (note[n].meta = None) = (note[n].seen.mode = "signin")
    /\ \E a \in Accounts :
          /\ Install(n, a, IF note[n].meta = None THEN a ELSE note[n].meta)
          /\ handed' = IF note[n].meta \in {None, a} THEN handed
                       ELSE handed \cup {<<note[n].meta, a>>}
    /\ UNCHANGED <<pending, timer, issued, relayed, waiting, events>>

\* Failed in the window, expired, refused by the session read, a login that
\* fails, a handle freed before its export: the popup is told.
CeremonyTells(n) ==
    /\ at[n] \in {"checked", "login"} \/ (at[n] = "exporting" /\ note[n].freed)
    /\ waiting' = FALSE
    /\ Return(n)
    /\ UNCHANGED <<pending, timer, issued, relayed, events, races>> /\ Keep

-----------------------------------------------------------------------------
\* The worker's handlers going on after an await.
Resume ==
    \/ WakeHydrates \/ WakeRearms
    \/ StatusReadsEnvelope \/ StatusHydrates
    \/ TouchArms \/ MinutesWritten \/ MinutesArm
    \/ \E j \in {"lock", "signOut"} : LockReadsMeta(j) \/ LockWritesMeta(j)
    \/ ClearMeta
    \/ UnlockOpened \/ UnlockFails \/ UnlockInstalls
    \/ \E j \in {"unlock"} \cup Nonces : Export(j) \/ Arm(j)
    \/ OpenWindow \/ RecordPending \/ SetTimer
    \/ ExpireClears \/ ExpireTells
    \/ \E n \in Nonces : \/ Mismatch(n) \/ Spend(n) \/ Recheck(n)
                         \/ CeremonyLogin(n) \/ CeremonyLoggedIn(n) \/ CeremonyPrf(n)
                         \/ CeremonyTells(n)

Next ==
    \/ Wake \/ Kill \/ Crash \/ Resume
    \/ AskStatus \/ Touch \/ SetMinutes \/ Unlock \/ SignOut
    \/ \E mode \in Modes : StartCeremony(mode)
    \/ \E n \in Nonces : Relay(n)
    \/ AutoLock \/ Expire

\* Awaits are answered, and an alarm that stays armed fires.  (One fairness for
\* all handlers will do: each of them ends.)
Spec == /\ Init /\ [][Next]_sessionVars
        /\ WF_sessionVars(AutoLock) /\ WF_sessionVars(Expire) /\ WF_sessionVars(Resume)

-----------------------------------------------------------------------------
(* Properties.                                                             *)

\* ensureHydrated hands out a key "never [as] a false-positive hydration"
\* (vault-session.ts:113-118): a key is imported only while its envelope is
\* stored, so that an auto-lock is the end of the unlocked vault.
HydratesOnlyWhatIsStored == "lateImport" \notin races

\* An unlocked vault that rests is on the auto-lock's clock, after a kill or a
\* crash between two steps of an unlock as well: the worker re-arms when it
\* hydrates, for the alarm and the envelope are kept apart.  (Not so for a key
\* imported after its lock, nor where sign-out crossed an unlock.)
UnlockedIsTimed ==
    Quiet /\ key # None /\ races \cap {"lateImport", "crossed"} = {} => alarm

\* A key that is live or stored has a session, and is of the account whose token
\* is kept, or of one whose key the web app handed to an unlock of this very
\* session (server-unlock.ts:456-465 compares no accounts): a half-finished
\* unlock, lock, sign-out or change of the account, or a crash in one, leaves no
\* key without a session and none of an earlier session.  (Unless a sign-out or a
\* sign-in crossed another handler; and a key imported after its lock outlives
\* the sign-out, too.)
BelongsTo(k, session) == session # None /\ (k = session \/ <<session, k>> \in handed)

OneSession ==
    "crossed" \notin races =>
        /\ envelope # None => BelongsTo(envelope, meta)
        /\ "lateImport" \notin races /\ key # None => BelongsTo(key.of, meta)

\* Left alone, every stored key is removed: the auto-lock comes round, through
\* kills of the worker and whatever handlers are in flight.
EveryUnlockEnds == envelope # None ~> (envelope = None \/ "crashed" \in races)

\* A popup that waits for a ceremony is told its outcome: by the window's
\* result or by the timeout, also if the worker is killed meanwhile.  (Unless
\* the cleaning up of one ceremony ran into the set-up of the next.)
PopupIsTold == waiting ~> (~waiting \/ races \cap {"muddled", "crashed"} # {})
=============================================================================
