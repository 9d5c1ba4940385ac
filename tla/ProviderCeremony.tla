--------------------------- MODULE ProviderCeremony ---------------------------
(***************************************************************************)
(* The extension as a passkey provider (provider-ceremony.ts): pages ask   *)
(* the worker of WorkerSession to create a credential or to sign with one. *)
(* A ceremony waits for an unlock if need be and for the user's consent,   *)
(* and answers the page; a new credential is kept in storage.session until *)
(* the server has it.  The pages' requests live in the worker's memory,    *)
(* their consent payload and the kept credentials in storage.session.      *)
(***************************************************************************)
EXTENDS WorkerSession

CONSTANTS
    Requests,
    Creates       \* those of them that create a credential; the others sign

ASSUME ProviderAssumption == Creates \subseteq Requests /\ None \notin Requests

VARIABLES
    request,   \* where a ceremony stands, and what became of the key handle it holds
    consent,   \* storage.session: pv-pending-provider-ceremony, a single slot
    kept,      \* storage.session: pv-pending-provider-items
    upload,    \* persistPendingProviderItem of each new credential
    stored,    \* credentials the server has
    lapses     \* history: what this development knows to go wrong

providerVars == <<request, consent, kept, upload, stored, lapses>>

Ended == {"given", "refused", "failed", "lost"}
Stages == {"none", "asked", "opening", "locked", "ready", "consent", "confirmed", "keeping"} \cup Ended
Handles == {"none", "current", "leaked", "freed"}
Uploads == [at : {"none", "posting", "posted", "clearing"}, seen : SUBSET Requests]

ProviderTypeOK ==
    /\ TypeOK
    /\ request \in [Requests -> [at : Stages, uk : Handles, seen : Account \cup SUBSET Requests]]
    /\ consent \in Requests \cup {None}
    /\ kept \subseteq Creates /\ stored \subseteq Creates
    /\ upload \in [Requests -> Uploads]
    /\ lapses \subseteq {"leak", "overwrite"}

NoRequest == [at |-> "none", uk |-> "none", seen |-> None]
NoUpload == [at |-> "none", seen |-> {}]

ProviderInit ==
    /\ request = [r \in Requests |-> NoRequest]
    /\ consent = None
    /\ kept = {} /\ stored = {}
    /\ upload = [r \in Requests |-> NoUpload]
    /\ lapses = {}

At(r) == request[r].at
Move(r, stage) == request' = [request EXCEPT ![r].at = stage]
End(r, outcome) == request' = [request EXCEPT ![r] = [NoRequest EXCEPT !.at = outcome]]

-----------------------------------------------------------------------------
(* The worker's own steps, as the ceremonies in flight see them.           *)
\* A variant of Frees: a lock drops the handle and does not free it.
FreesOnUnlock == key # None /\ \E j \in {"unlock"} \cup Nonces : at[j] # "exporting" /\ at'[j] = "exporting"

\* The handle in currentUserKey is freed by a lock and by an unlock ...
Frees == key # None /\ (key' = None \/ \E j \in {"unlock"} \cup Nonces : at[j] # "exporting" /\ at'[j] = "exporting")
\* ... but not by an import, which only overwrites it.
Overwrites == key # None /\ \E j \in {"wake", "status"} : at[j] = "read" /\ at'[j] # "read"
\* The subscribers are told at the end of an unlock and of a lock ...
Tells ==
    \/ \E j \in {"unlock"} \cup Nonces : at[j] = "arming" /\ at'[j] # "arming"
    \/ \E j \in {"lock", "signOut"} : at[j] = "asked" /\ at'[j] # "asked"

\* ... and look for a key, in storage if none is live.
Seen(q) ==
    IF q.at = "locked" /\ Tells /\ key' # None THEN [q EXCEPT !.at = "ready", !.uk = "current"]
    ELSE IF q.at = "locked" /\ Tells THEN
        IF envelope' = None THEN q ELSE [q EXCEPT !.at = "asked", !.seen = envelope']
    ELSE IF q.uk = "current" /\ Frees THEN [q EXCEPT !.uk = "freed"]
    ELSE IF q.uk = "current" /\ Overwrites THEN [q EXCEPT !.uk = "leaked"]
    ELSE q

\* Memory and requests die with the worker.
Lost(q) == IF q.at = "none" \/ q.at \in Ended THEN q ELSE [NoRequest EXCEPT !.at = "lost"]

WorkerStep ==
    /\ Next
    /\ IF alive /\ ~alive'
       THEN /\ request' = [r \in Requests |-> Lost(request[r])]
            /\ upload' = [r \in Requests |-> NoUpload]
       ELSE /\ request' = [r \in Requests |-> Seen(request[r])]
            /\ UNCHANGED upload
    /\ lapses' = lapses \cup (IF Overwrites THEN {"leak"} ELSE {})
    /\ UNCHANGED <<consent, kept, stored>>

-----------------------------------------------------------------------------
(* handleCredentialsCreate and handleCredentialsGet.                       *)

\* A page asks; the worker is woken, and hydrates for the request itself.
Ask(r) ==
    /\ At(r) = "none"
    /\ alive' = TRUE /\ at' = WokenAt /\ note' = WokenNote
    /\ request' = [request EXCEPT ![r] =
          IF key # None THEN [at |-> "ready", uk |-> "current", seen |-> None]
          ELSE [at |-> "asked", uk |-> "none", seen |-> envelope]]
    /\ UNCHANGED <<key, meta, envelope, alarm, ceremony, events, races>>
    /\ UNCHANGED <<consent, kept, upload, stored, lapses>>

Hydrate(r) ==
    /\ At(r) = "asked" /\ request[r].seen # None
    /\ Import(request[r].seen)
    /\ request' = [q \in Requests |->
          IF q = r THEN [at |-> "ready", uk |-> "current", seen |-> None]
          ELSE IF key # None /\ request[q].uk = "current" THEN [request[q] EXCEPT !.uk = "leaked"]
          ELSE request[q]]
    /\ lapses' = lapses \cup (IF key # None THEN {"leak"} ELSE {})
    /\ UNCHANGED <<alive, at, note, meta, envelope, alarm, ceremony, events>>
    /\ UNCHANGED <<consent, kept, upload, stored>>

Alone == UNCHANGED sessionVars

\* Locked: a popup is opened, then the unlock awaited.  (An unlock before the
\* subscription is not noticed.)
OpenPopup(r) ==
    /\ At(r) = "asked" /\ request[r].seen = None
    /\ Move(r, "opening")
    /\ UNCHANGED <<consent, kept, upload, stored, lapses>> /\ Alone

Subscribe(r) ==
    /\ At(r) = "opening"
    /\ Move(r, "locked")
    /\ UNCHANGED <<consent, kept, upload, stored, lapses>> /\ Alone
\* A variant of GiveUp that waits for the unlock as long as it takes.
GiveUpUnlocked(r) ==
    /\ At(r) = "ready" /\ r \notin Creates
    /\ End(r, "refused")
    /\ UNCHANGED <<consent, kept, upload, stored, lapses>> /\ Alone

\* No unlock within CEREMONY_ABANDON_TIMEOUT_MS; no credential to sign with.
GiveUp(r) ==
    /\ At(r) = "locked" \/ (At(r) = "ready" /\ r \notin Creates)
    /\ End(r, "refused")
    /\ UNCHANGED <<consent, kept, upload, stored, lapses>> /\ Alone

\* awaitCeremonyConsent writes its payload over any other.
AskConsent(r) ==
    /\ At(r) = "ready"
    /\ Move(r, "consent")
    /\ consent' = r
    /\ UNCHANGED <<kept, upload, stored, lapses>> /\ Alone

\* A popup shows the payload it found stored, which another may have replaced
\* since; what its user confirms goes by the payload's requestId.  Whatever is
\* stored is then removed.
Confirm(r) ==
    /\ At(r) = "consent"
    /\ Move(r, "confirmed")
    /\ consent' = None
    /\ UNCHANGED <<kept, upload, stored, lapses>> /\ Alone

\* Declined, or not answered within CEREMONY_ABANDON_TIMEOUT_MS.
Abandon(r) ==
    /\ At(r) = "consent"
    /\ End(r, "refused")
    /\ consent' = None
    /\ UNCHANGED <<kept, upload, stored, lapses>> /\ Alone

\* A freed handle cannot be used: the ceremony fails.
Fail(r) ==
    /\ At(r) = "confirmed" /\ request[r].uk = "freed"
    /\ End(r, "failed")
    /\ UNCHANGED <<consent, kept, upload, stored, lapses>> /\ Alone

Signs(r) == At(r) = "confirmed" /\ request[r].uk # "freed"

\* The assertion goes to the page.
Sign(r) ==
    /\ Signs(r) /\ r \notin Creates
    /\ End(r, "given")
    /\ UNCHANGED <<consent, kept, upload, stored, lapses>> /\ Alone
\* A variant of Create that also keeps what only signs.
CreateAny(r) ==
    /\ Signs(r)
    /\ request' = [request EXCEPT ![r] = [at |-> "keeping", uk |-> "none", seen |-> kept]]
    /\ UNCHANGED <<consent, kept, upload, stored, lapses>> /\ Alone

\* A new credential is first added to the map that is read here.
Create(r) ==
    /\ Signs(r) /\ r \in Creates
    /\ request' = [request EXCEPT ![r] = [at |-> "keeping", uk |-> "none", seen |-> kept]]
    /\ UNCHANGED <<consent, kept, upload, stored, lapses>> /\ Alone

\* The map is written back as it was read: an entry added or removed meanwhile
\* is lost or returns.
WriteKept(seen, new) ==
    /\ kept' = new
    /\ lapses' = lapses \cup (IF kept = seen THEN {} ELSE {"overwrite"})

\* Only then is the page answered, and the upload started.
KeepCredential(r) ==
    /\ At(r) = "keeping"
    /\ WriteKept(request[r].seen, request[r].seen \cup {r})
    /\ End(r, "given")
    /\ upload' = [upload EXCEPT ![r].at = "posting"]
    /\ UNCHANGED <<consent, stored>> /\ Alone

-----------------------------------------------------------------------------
(* persistPendingProviderItem.                                             *)

Post(r) ==
    /\ upload[r].at = "posting"
    /\ stored' = stored \cup {r}
    /\ upload' = [upload EXCEPT ![r].at = "posted"]
    /\ UNCHANGED <<request, consent, kept, lapses>> /\ Alone
\* A variant of PostFails that clears the entry whatever came of the request.
PostGivenUp(r) ==
    /\ upload[r].at \in {"posting", "posted"}
    /\ upload' = [upload EXCEPT ![r] = [at |-> "clearing", seen |-> kept]]
    /\ UNCHANGED <<request, consent, kept, stored, lapses>> /\ Alone

\* Refused or not answered: the entry stays, and nothing tries again.
PostFails(r) ==
    /\ upload[r].at \in {"posting", "posted"}
    /\ upload' = [upload EXCEPT ![r] = NoUpload]
    /\ UNCHANGED <<request, consent, kept, stored, lapses>> /\ Alone

Posted(r) ==
    /\ upload[r].at = "posted"
    /\ upload' = [upload EXCEPT ![r] = [at |-> "clearing", seen |-> kept]]
    /\ UNCHANGED <<request, consent, kept, stored, lapses>> /\ Alone

ClearKept(r) ==
    /\ upload[r].at = "clearing"
    /\ WriteKept(upload[r].seen, upload[r].seen \ {r})
    /\ upload' = [upload EXCEPT ![r] = NoUpload]
    /\ UNCHANGED <<request, consent, stored>> /\ Alone

-----------------------------------------------------------------------------
\* What the worker, its timeouts and the network see to.
Proceed(r) ==
    \/ Hydrate(r) \/ OpenPopup(r) \/ Subscribe(r) \/ GiveUp(r)
    \/ AskConsent(r) \/ Abandon(r)
    \/ Fail(r) \/ Sign(r) \/ Create(r) \/ KeepCredential(r)

ProviderNext ==
    \/ WorkerStep
    \/ \E r \in Requests : \/ Ask(r) \/ Proceed(r) \/ Confirm(r)
                           \/ Post(r) \/ PostFails(r) \/ Posted(r) \/ ClearKept(r)

ProviderSpec ==
    /\ Init /\ ProviderInit /\ [][ProviderNext]_<<sessionVars, providerVars>>
    /\ \A r \in Requests : WF_<<sessionVars, providerVars>>(Proceed(r))

-----------------------------------------------------------------------------
(* Properties.                                                             *)

\* No credential is made and nothing signed once the vault is locked, though a
\* ceremony took its key before it asked for consent: the lock has freed the
\* handle the ceremony holds.  (A handle overwritten by a second import is
\* never freed.)
SignsOnlyUnlocked ==
    [][\A r \in Requests : Signs(r) /\ At(r)' \in {"given", "keeping"} =>
          key # None \/ "leak" \in lapses]_<<sessionVars, providerVars>>

\* A credential a page was given is on the server or still kept, through crashes
\* of the worker and failed uploads.  (Unless two changes of the map of kept
\* credentials overlapped.)
GivenIsKept ==
    "overwrite" \notin lapses =>
        \A r \in Creates : At(r) = "given" => r \in kept \cup stored

\* Every ceremony a page starts ends: answered, refused, failed, or lost with the
\* worker.  Neither an unlock nor a consent is awaited for ever.
CeremoniesEnd == \A r \in Requests : At(r) # "none" ~> At(r) \in Ended
=============================================================================
