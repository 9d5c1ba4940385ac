--------------------------- MODULE Extension_proofs ---------------------------
(***************************************************************************)
(* Proofs about WorkerSession and ProviderCeremony, for any accounts,      *)
(* ceremonies and requests of pages, and any number of events.             *)
(***************************************************************************)
EXTENDS ProviderCeremony, TLAPS

-----------------------------------------------------------------------------
(* The invariant of the worker: what each handler holds at its awaits, and *)
(* while no two handlers have crossed, how that agrees with the session.   *)

\* The handlers that install a User Key.
Exporters == {"unlock"} \cup Nonces

\* What handler j holds at await l in its note n.
Fits(j, l, n) ==
    /\ l = "read" => j \in {"wake", "status"} /\ n.seen \in Accounts
    /\ j = "unlock" /\ l \in {"login", "asked"} => n.account \in Accounts
    /\ j \in Nonces /\ l = "login" => n.account \in Accounts /\ n.meta = None
    /\ l = "exporting" => j \in Exporters /\ n.account \in Accounts
    /\ l = "arming" => j \in Exporters
    /\ j \in Nonces /\ l = "asked" => n.seen \in Ceremony \cup {None}
    /\ j \in Nonces /\ l \in {"cleared", "checked", "login"} => n.seen \in Ceremony
    /\ j = "start" /\ l \in {"asked", "opened"} => n.seen \in Ceremony

\* A key k goes with the session m, if h are the keys handed over.
Own(k, m, h) == k = m \/ <<m, k>> \in h

\* What goes with the session still does when more keys are handed over.
LEMMA OwnKept ==
    ASSUME handed \subseteq handed', NEW k, NEW m, Own(k, m, handed)
    PROVE  Own(k, m, handed')
BY DEF Own

\* The session record m is still the one that handler j has read, and the key
\* it works with goes with it.
Agrees(j, l, n, m, h) ==
    /\ \/ j \in {"minutes", "lock", "signOut", "unlock"} /\ l = "asked"
       \/ j \in Nonces /\ l \in {"checked", "login"}
       => n.meta = m
    /\ j = "unlock" /\ l \in {"login", "asked"} => n.account = m
    /\ l = "exporting" => m # None /\ Own(n.account, m, h)

\* The alarm is armed or about to be.
Timed ==
    \/ alarm
    \/ \E j \in Exporters : at[j] = "arming"
    \/ at["wake"] = "read"
    \/ at["wake"] = "asked" /\ note["wake"].meta # None

Uncrossed == "crossed" \notin races
OnTime == Uncrossed /\ "lateImport" \notin races

\* A live key is still to be exported by the handler that installed it, or by
\* none.
Handled == key # None /\ key.by # None => at[key.by] = "exporting" /\ ~note[key.by].freed

\* A key, live or stored, has a session that it goes with.
OfSession ==
    /\ Uncrossed /\ envelope # None => meta # None /\ Own(envelope, meta, handed)
    /\ OnTime /\ key # None => meta # None /\ Own(key.of, meta, handed)

\* A sign-out in flight has removed the stored key, and none is to come.
SignedOut ==
    Uncrossed /\ Busy("signOut") =>
        /\ envelope = None /\ \A j \in Jobs : at[j] # "exporting"
        /\ OnTime => key = None

\* A key, live or stored, is on the auto-lock's clock, or will be when its
\* handler has exported it or the worker runs again.
OnClock ==
    /\ Uncrossed /\ alive /\ envelope # None => Timed
    /\ OnTime /\ key # None => Timed \/ key.by # None

FitInv == \A j \in Jobs : Fits(j, at[j], note[j])
AgreeInv == Uncrossed => \A j \in Jobs : Agrees(j, at[j], note[j], meta, handed)

WorkerInv == FitInv /\ AgreeInv /\ Handled /\ OfSession /\ SignedOut /\ OnClock

-----------------------------------------------------------------------------
(* The invariant of the requests.                                          *)

\* What a request holds where it stands; a handle it can use is the live one,
\* or one that nothing can free.
Holds(q, live, leak) ==
    /\ q.at \in {"ready", "consent", "confirmed"} <=> q.uk # "none"
    /\ q.at = "asked" => q.seen \in Account
    /\ q.at = "keeping" => q.seen \in SUBSET Creates
    /\ q.uk = "leaked" => leak
    /\ q.uk = "current" => live \/ leak

RequestsInv ==
    \A r \in Requests : /\ Holds(request[r], key # None, "leak" \in lapses)
                        /\ At(r) \notin {"none"} \cup Ended => alive
                        /\ At(r) = "keeping" => r \in Creates

\* Only a new credential is uploaded, and it is on the server before its entry
\* is cleared.
UploadsInv ==
    \A r \in Requests : /\ upload[r].at # "none" => r \in Creates
                        /\ upload[r].at \in {"posted", "clearing"} => r \in stored
                        /\ upload[r].at = "clearing" => upload[r].seen \subseteq Creates

-----------------------------------------------------------------------------
(* Types, in the parts that a step changes together.                       *)

HandlerTypes == at \in [Jobs -> Awaits] /\ note \in [Jobs -> Note]
SessionTypes ==
    /\ alive \in BOOLEAN /\ alarm \in BOOLEAN
    /\ key \in Key \cup {None} /\ meta \in Account /\ envelope \in Account
CeremonyTypes ==
    /\ timer \in BOOLEAN /\ waiting \in BOOLEAN /\ pending \in Ceremony \cup {None}
    /\ relayed \subseteq issued /\ issued \subseteq Nonces
    /\ handed \subseteq Accounts \X Accounts
HistoryTypes ==
    /\ events \in 0..MaxEvents
    /\ races \subseteq {"crashed", "crossed", "lateImport", "muddled"}
Asleep == ~alive => key = None /\ \A j \in Jobs : at[j] = "idle"

\* TypeOK is the parts a step changes together.
LEMMA TypesInParts ==
    TypeOK <=> HandlerTypes /\ SessionTypes /\ CeremonyTypes /\ HistoryTypes /\ Asleep
BY DEF TypeOK, HandlerTypes, SessionTypes, CeremonyTypes, HistoryTypes, Asleep

\* The fields of a note, and of one in which a field is replaced.
LEMMA NoteShape ==
    /\ \A n \in Note : /\ n.meta \in Account /\ n.seen \in Account \cup Ceremony
                       /\ n.account \in Account /\ n.freed \in BOOLEAN
    /\ Blank \in Note /\ Blank.meta = None /\ Blank.seen = None /\ Blank.account = None /\ Blank.freed = FALSE
<1>1. \A n \in Note : /\ n.meta \in Account /\ n.seen \in Account \cup Ceremony
                      /\ n.account \in Account /\ n.freed \in BOOLEAN
    BY DEF Note
<1>2. Blank \in Note /\ Blank.meta = None /\ Blank.seen = None /\ Blank.account = None /\ Blank.freed = FALSE
    BY DEF Blank, Note, Account
<1> QED BY <1>1, <1>2

\* Replacing one field of a note leaves the others.
LEMMA NoteReplaced ==
    ASSUME NEW n \in Note
    PROVE  /\ \A x \in Account : LET q == [n EXCEPT !.meta = x] IN
                 q \in Note /\ q.meta = x /\ q.seen = n.seen /\ q.account = n.account /\ q.freed = n.freed
           /\ \A x \in Account \cup Ceremony : LET q == [n EXCEPT !.seen = x] IN
                 q \in Note /\ q.meta = n.meta /\ q.seen = x /\ q.account = n.account /\ q.freed = n.freed
           /\ \A x \in Account : LET q == [n EXCEPT !.account = x] IN
                 q \in Note /\ q.meta = n.meta /\ q.seen = n.seen /\ q.account = x /\ q.freed = n.freed
           /\ LET q == [n EXCEPT !.freed = TRUE] IN
                 q \in Note /\ q.meta = n.meta /\ q.seen = n.seen /\ q.account = n.account /\ q.freed = TRUE
<1>1. ASSUME NEW x \in Account
      PROVE  LET q == [n EXCEPT !.meta = x] IN
                 q \in Note /\ q.meta = x /\ q.seen = n.seen /\ q.account = n.account /\ q.freed = n.freed
    BY DEF Note
<1>2. ASSUME NEW x \in Account \cup Ceremony
      PROVE  LET q == [n EXCEPT !.seen = x] IN
                 q \in Note /\ q.meta = n.meta /\ q.seen = x /\ q.account = n.account /\ q.freed = n.freed
    BY DEF Note
<1>3. ASSUME NEW x \in Account
      PROVE  LET q == [n EXCEPT !.account = x] IN
                 q \in Note /\ q.meta = n.meta /\ q.seen = n.seen /\ q.account = x /\ q.freed = n.freed
    BY DEF Note
<1>4. LET q == [n EXCEPT !.freed = TRUE] IN
          q \in Note /\ q.meta = n.meta /\ q.seen = n.seen /\ q.account = n.account /\ q.freed = TRUE
    BY DEF Note
<1> QED BY <1>1, <1>2, <1>3, <1>4

\* So does filling in one field of the empty note.
LEMMA BlankReplaced ==
    /\ \A x \in Account : LET q == [Blank EXCEPT !.meta = x] IN
          q \in Note /\ q.meta = x /\ q.seen = None /\ q.account = None /\ q.freed = FALSE
    /\ \A x \in Account \cup Ceremony : LET q == [Blank EXCEPT !.seen = x] IN
          q \in Note /\ q.meta = None /\ q.seen = x /\ q.account = None /\ q.freed = FALSE
    /\ \A x \in Account : LET q == [Blank EXCEPT !.account = x] IN
          q \in Note /\ q.meta = None /\ q.seen = None /\ q.account = x /\ q.freed = FALSE
<1>1. ASSUME NEW x \in Account
      PROVE  LET q == [Blank EXCEPT !.meta = x] IN
                 q \in Note /\ q.meta = x /\ q.seen = None /\ q.account = None /\ q.freed = FALSE
    BY DEF Note, Blank, Account
<1>2. ASSUME NEW x \in Account \cup Ceremony
      PROVE  LET q == [Blank EXCEPT !.seen = x] IN
                 q \in Note /\ q.meta = None /\ q.seen = x /\ q.account = None /\ q.freed = FALSE
    BY DEF Note, Blank, Account
<1>3. ASSUME NEW x \in Account
      PROVE  LET q == [Blank EXCEPT !.account = x] IN
                 q \in Note /\ q.meta = None /\ q.seen = None /\ q.account = x /\ q.freed = FALSE
    BY DEF Note, Blank, Account
<1> QED BY <1>1, <1>2, <1>3

\* A key is of an account, and is to be exported by an exporter or nobody.
LEMMA KeyShape ==
    /\ \A k \in Key : k # None /\ k.of \in Accounts /\ k.by \in Exporters \cup {None}
    /\ \A x \in Accounts, j \in Exporters \cup {None} :
          LET k == [of |-> x, by |-> j] IN k \in Key /\ k # None /\ k.of = x /\ k.by = j
    /\ Exporters \subseteq Jobs /\ None \notin Exporters
<1>1. \A k \in Key : k.of \in Accounts /\ k.by \in Exporters \cup {None}
    BY DEF Key, Exporters
<1>2. \A x \in Accounts, j \in Exporters \cup {None} :
          LET k == [of |-> x, by |-> j] IN k \in Key /\ k.of = x /\ k.by = j
    BY DEF Key, Exporters
<1>3. Exporters \subseteq Jobs
    BY DEF Exporters, Jobs, Handlers
<1>4. None \notin Key /\ None \notin Jobs
    BY AbsenceAssumption
<1> QED BY <1>1, <1>2, <1>3, <1>4

\* Handlers and ceremonies are the jobs, and no name is of both kinds.
LEMMA JobNames ==
    /\ \A j \in Handlers : j \in Jobs /\ j \notin Nonces
    /\ Nonces \subseteq Jobs /\ Nonces \subseteq Exporters /\ Jobs = Handlers \cup Nonces
    /\ "wake" \in Handlers /\ "status" \in Handlers /\ "touch" \in Handlers /\ "minutes" \in Handlers
    /\ "unlock" \in Handlers /\ "lock" \in Handlers /\ "signOut" \in Handlers /\ "start" \in Handlers
    /\ "expire" \in Handlers
    /\ \A j \in Exporters : j \notin {"wake", "status", "touch", "minutes", "lock", "signOut", "start", "expire"}
<1>1. Handlers \cap Nonces = {}
    BY AbsenceAssumption
<1> QED BY <1>1 DEF Jobs, Handlers, Exporters

-----------------------------------------------------------------------------
(* What a step does to the handlers.                                       *)

\* Handler j goes on to await l, with note n; the others stay.
Moves(j, l, n) ==
    /\ HandlerTypes' /\ at'[j] = l /\ note'[j] = n
    /\ \A k \in Jobs \ {j} : at'[k] = at[k] /\ note'[k] = note[k]

\* Going on to the next await moves one handler and starts a sleeping
\* worker's hydration with it.
LEMMA GotoMoves ==
    ASSUME HandlerTypes, NEW j \in Jobs, NEW l \in Awaits, NEW n \in Note, Goto(j, l, n)
    PROVE  Moves(j, l, n)
<1>1. at' = [at EXCEPT ![j] = l] /\ note' = [note EXCEPT ![j] = n]
    BY DEF Goto
<1>2. at' \in [Jobs -> Awaits] /\ at'[j] = l /\ \A k \in Jobs \ {j} : at'[k] = at[k]
    BY <1>1 DEF HandlerTypes
<1>3. note' \in [Jobs -> Note] /\ note'[j] = n /\ \A k \in Jobs \ {j} : note'[k] = note[k]
    BY <1>1 DEF HandlerTypes
<1> QED BY <1>2, <1>3 DEF Moves, HandlerTypes

\* Returning makes one handler idle.
LEMMA ReturnMoves ==
    ASSUME HandlerTypes, NEW j \in Jobs, Return(j)
    PROVE  Moves(j, "idle", Blank) /\ alive' = alive
<1>1. "idle" \in Awaits /\ Goto(j, "idle", Blank)
    BY DEF Awaits, Return
<1> QED BY <1>1, GotoMoves, NoteShape DEF Goto

\* The worker runs; if it had to be started, and there is a stored key, it
\* hydrates.
Woken(a, n) ==
    /\ a \in [Jobs -> Awaits] /\ n \in [Jobs -> Note]
    /\ \A k \in Jobs \ {"wake"} : a[k] = at[k] /\ n[k] = note[k]
    /\ \/ (alive \/ envelope = None) /\ a["wake"] = at["wake"] /\ n["wake"] = note["wake"]
       \/ envelope # None /\ a["wake"] = "read" /\ n["wake"].seen = envelope

\* A worker that is started hydrates and does nothing else yet.
LEMMA WokenIs ==
    ASSUME HandlerTypes, SessionTypes
    PROVE  Woken(WokenAt, WokenNote)
<1>1. envelope \in Account \cup Ceremony /\ "wake" \in Jobs /\ "read" \in Awaits
    BY JobNames DEF SessionTypes, Awaits
<1> DEFINE q == [Blank EXCEPT !.seen = envelope]
<1>2. q \in Note /\ q.seen = envelope
    BY <1>1, BlankReplaced
<1>3. CASE Hydrating
    <2>1. WokenAt = [at EXCEPT !["wake"] = "read"] /\ WokenNote = [note EXCEPT !["wake"] = q] /\ envelope # None
        BY <1>3 DEF WokenAt, WokenNote, Hydrating
    <2> HIDE DEF q
    <2> QED BY <1>1, <1>2, <2>1 DEF Woken, HandlerTypes
<1>4. CASE ~Hydrating
    BY <1>4 DEF Woken, HandlerTypes, WokenAt, WokenNote, Hydrating
<1> QED BY <1>3, <1>4

\* Handler j starts.
Starts(j, l, n) ==
    /\ HandlerTypes' /\ alive' = TRUE /\ at[j] = "idle" /\ at'[j] = l /\ note'[j] = n
    /\ \A k \in Jobs \ {j, "wake"} : at'[k] = at[k] /\ note'[k] = note[k]
    /\ \/ (alive \/ envelope = None) /\ at'["wake"] = at["wake"] /\ note'["wake"] = note["wake"]
       \/ envelope # None /\ at'["wake"] = "read" /\ note'["wake"].seen = envelope

\* A message starts one handler, in a worker that runs or is started for it.
LEMMA DispatchStarts ==
    ASSUME HandlerTypes, SessionTypes, NEW j \in Jobs \ {"wake"}, NEW l \in Awaits, NEW n \in Note,
           Dispatch(j, l, n)
    PROVE  Starts(j, l, n)
<1> DEFINE a == WokenAt
<1> DEFINE m == WokenNote
<1>1. Woken(a, m) /\ "wake" \in Jobs
    BY WokenIs, JobNames
<1>2. at' = [a EXCEPT ![j] = l] /\ note' = [m EXCEPT ![j] = n] /\ alive' = TRUE /\ at[j] = "idle"
    BY DEF Dispatch, Busy
<1> HIDE DEF a, m
<1>3. at' \in [Jobs -> Awaits] /\ at'[j] = l /\ \A k \in Jobs \ {j} : at'[k] = a[k]
    BY <1>1, <1>2 DEF Woken
<1>4. note' \in [Jobs -> Note] /\ note'[j] = n /\ \A k \in Jobs \ {j} : note'[k] = m[k]
    BY <1>1, <1>2 DEF Woken
<1> QED BY <1>1, <1>2, <1>3, <1>4 DEF Starts, Woken, HandlerTypes

-----------------------------------------------------------------------------
(* Frames of the worker's invariant.                                       *)

WorkerGood == TypeOK /\ WorkerInv

\* The invariant of the worker is its parts.
LEMMA GoodInParts ==
    WorkerGood <=> /\ HandlerTypes /\ SessionTypes /\ CeremonyTypes /\ HistoryTypes /\ Asleep
                   /\ FitInv /\ AgreeInv /\ Handled /\ OfSession /\ SignedOut /\ OnClock
BY TypesInParts DEF WorkerGood, WorkerInv

\* The parts after a step make the invariant after it.
LEMMA GoodNext ==
    ASSUME HandlerTypes', SessionTypes', CeremonyTypes', HistoryTypes', Asleep',
           FitInv', AgreeInv', Handled', OfSession', SignedOut', OnClock'
    PROVE  WorkerGood'
BY GoodInParts, PTL

\* The handlers that cross.
SessionJobs == {"wake", "status", "minutes", "unlock", "lock", "signOut"} \cup Nonces

\* Handler k stays where it is, or comes to where it holds what it must.
Steady(k) ==
    /\ at'[k] = at[k] /\ note'[k].meta = note[k].meta /\ note'[k].seen = note[k].seen
    /\ note'[k].account = note[k].account
Ready(k) ==
    /\ Fits(k, at'[k], note'[k])
    /\ Uncrossed' => Agrees(k, at'[k], note'[k], meta', handed')

\* Handlers that stay where they are, or have read what is there now, agree
\* with the session record.
LEMMA HandlersStep ==
    ASSUME FitInv, AgreeInv, Uncrossed' => Uncrossed, handed \subseteq handed',
           \A k \in Jobs : Steady(k) \/ Ready(k),
           Uncrossed' /\ meta' # meta => \A k \in SessionJobs : at[k] = "idle" \/ Ready(k)
    PROVE  FitInv' /\ AgreeInv'
<1>1. FitInv'
    <2> SUFFICES ASSUME NEW k \in Jobs, Steady(k)
                 PROVE  Fits(k, at'[k], note'[k])
        BY DEF FitInv, Fits, Ready
    <2>1. Fits(k, at[k], note[k])
        BY DEF FitInv
    <2> QED BY <2>1 DEF Fits, Steady
<1>2. AgreeInv'
    <2> SUFFICES ASSUME Uncrossed', NEW k \in Jobs, Steady(k), ~Ready(k)
                 PROVE  Agrees(k, at'[k], note'[k], meta', handed')
        BY DEF AgreeInv, Agrees, Ready
    <2>1. Agrees(k, at[k], note[k], meta, handed) /\ Fits(k, at[k], note[k])
        BY DEF AgreeInv, FitInv
    <2>2. CASE meta' = meta
        BY <2>1, <2>2, OwnKept DEF Agrees, Steady
    <2>3. CASE meta' # meta /\ k \in SessionJobs
        <3>1. at'[k] = "idle"
            BY <2>3 DEF Steady
        <3> QED BY <3>1 DEF Agrees
    <2>4. CASE k \notin SessionJobs
        BY <2>1, <2>4 DEF Agrees, Steady, SessionJobs, Fits, Exporters
    <2> QED BY <2>2, <2>3, <2>4
<1> QED BY <1>1, <1>2

\* A step that leaves the session and the alarm alone.
LEMMA KeptStep ==
    ASSUME Handled, OfSession, SignedOut, OnClock, UNCHANGED <<key, meta, envelope>>, handed \subseteq handed',
           Uncrossed' => Uncrossed, OnTime' => OnTime,
           alive' /\ envelope # None => alive \/ Timed',
           Timed => Timed',
           \A k \in Jobs : at'[k] = "exporting" => at[k] = "exporting",
           key # None /\ key.by # None => at'[key.by] = at[key.by] /\ note'[key.by].freed = note[key.by].freed,
           at'["signOut"] # "idle" => at["signOut"] # "idle"
    PROVE  Handled' /\ OfSession' /\ SignedOut' /\ OnClock'
<1>1. Handled'
    BY DEF Handled
<1>2. OfSession'
    BY OwnKept DEF OfSession
<1>3. SignedOut'
    BY DEF SignedOut, Busy
<1>4. OnClock'
    <2> DEFINE timed == Timed'
    <2>1. Timed => timed
        OBVIOUS
    <2>2. alive' /\ envelope # None => alive \/ timed
        OBVIOUS
    <2> HIDE DEF timed
    <2>3. /\ Uncrossed' /\ alive' /\ envelope' # None => timed
          /\ OnTime' /\ key' # None => timed \/ key'.by # None
        BY <2>1, <2>2 DEF OnClock
    <2> QED BY <2>3 DEF OnClock, timed
<1> QED BY <1>1, <1>2, <1>3, <1>4

\* Steps that leave the records alone keep their types.
LEMMA KeptTypes ==
    ASSUME SessionTypes, Asleep, UNCHANGED <<key, meta, envelope>>, alive' \in BOOLEAN, alarm' \in BOOLEAN,
           alive' \/ (alive' = alive /\ at' = at)
    PROVE  SessionTypes' /\ Asleep'
BY DEF SessionTypes, Asleep

\* Handler j goes on: it does not begin to export, and ends an export only if
\* its handle was freed.
LEMMA PlainStep ==
    ASSUME WorkerGood, NEW j \in Jobs, HandlerTypes', CeremonyTypes', HistoryTypes', handed \subseteq handed',
           UNCHANGED <<alive, key, meta, envelope>>, alarm' \in BOOLEAN, alarm => alarm',
           Uncrossed' => Uncrossed, OnTime' => OnTime,
           \A k \in Jobs \ {j} : at'[k] = at[k] /\ note'[k] = note[k],
           at[j] # "idle", at[j] = "exporting" => note[j].freed,
           at'[j] # "exporting", Ready(j),
           at[j] = "arming" \/ j = "wake" => (Timed => Timed')
    PROVE  WorkerGood'
<1>1. /\ HandlerTypes /\ SessionTypes /\ CeremonyTypes /\ HistoryTypes /\ Asleep
      /\ FitInv /\ AgreeInv /\ Handled /\ OfSession /\ SignedOut /\ OnClock
    BY GoodInParts
<1>2. alive' = TRUE
    BY <1>1 DEF Asleep, SessionTypes
<1>3. SessionTypes' /\ Asleep'
    BY <1>1, <1>2, KeptTypes
<1>4. FitInv' /\ AgreeInv'
    <2>1. \A k \in Jobs : Steady(k) \/ Ready(k)
        BY DEF Steady
    <2> QED BY <1>1, <2>1, HandlersStep
<1>5. key # None /\ key.by # None => key.by \in Jobs /\ key.by # j
    BY <1>1, KeyShape DEF Handled, SessionTypes
<1>6. Timed => Timed'
    <2> SUFFICES ASSUME Timed, ~alarm', ~alarm, at[j] # "arming", j # "wake"
                 PROVE  Timed'
        BY DEF Timed
    <2>1. \A k \in Jobs \ {j} : at'[k] = at[k] /\ note'[k] = note[k]
        OBVIOUS
    <2>2. "wake" \in Jobs /\ Exporters \subseteq Jobs
        BY JobNames, KeyShape
    <2> QED BY <2>1, <2>2 DEF Timed
<1>7. /\ \A k \in Jobs : at'[k] = "exporting" => at[k] = "exporting"
      /\ key # None /\ key.by # None => at'[key.by] = at[key.by] /\ note'[key.by].freed = note[key.by].freed
      /\ at'["signOut"] # "idle" => at["signOut"] # "idle"
    BY <1>5, JobNames
<1>8. alive' /\ envelope # None => alive \/ Timed'
    BY <1>2
<1>9. Handled' /\ OfSession' /\ SignedOut' /\ OnClock'
    BY <1>1, <1>6, <1>7, <1>8, KeptStep
<1> QED BY <1>1, <1>3, <1>4, <1>9, GoodNext

\* Handler j starts, which is not to export.
LEMMA StartStep ==
    ASSUME WorkerGood, NEW j \in Jobs \ {"wake", "signOut"}, NEW l, NEW n, Starts(j, l, n), CeremonyTypes', HistoryTypes',
           handed \subseteq handed',
           UNCHANGED <<key, meta, envelope, alarm>>,
           Uncrossed' => Uncrossed, OnTime' => OnTime,
           l # "exporting", Fits(j, l, n), Uncrossed => Agrees(j, l, n, meta, handed)
    PROVE  WorkerGood'
<1>1. /\ HandlerTypes /\ SessionTypes /\ CeremonyTypes /\ HistoryTypes /\ Asleep
      /\ FitInv /\ AgreeInv /\ Handled /\ OfSession /\ SignedOut /\ OnClock
    BY GoodInParts
<1>2. /\ HandlerTypes' /\ alive' = TRUE /\ at[j] = "idle" /\ at'[j] = l /\ note'[j] = n
      /\ \A k \in Jobs \ {j, "wake"} : at'[k] = at[k] /\ note'[k] = note[k]
      /\ \/ (alive \/ envelope = None) /\ at'["wake"] = at["wake"] /\ note'["wake"] = note["wake"]
         \/ envelope # None /\ at'["wake"] = "read" /\ note'["wake"].seen = envelope
    BY DEF Starts
<1>3. SessionTypes' /\ Asleep'
    BY <1>1, <1>2, KeptTypes DEF SessionTypes
<1>4. FitInv' /\ AgreeInv'
    <2>1. Ready(j)
        BY <1>2 DEF Ready, Agrees
    <2>2. Steady("wake") \/ Ready("wake")
        <3>1. CASE at'["wake"] = at["wake"] /\ note'["wake"] = note["wake"]
            BY <3>1 DEF Steady
        <3>2. CASE envelope # None /\ at'["wake"] = "read" /\ note'["wake"].seen = envelope
            <4>1. envelope \in Accounts /\ "wake" \notin Nonces
                BY <1>1, <3>2, JobNames DEF SessionTypes, Account
            <4> QED BY <3>2, <4>1 DEF Ready, Fits, Agrees
        <3> QED BY <1>2, <3>1, <3>2
    <2>3. \A k \in Jobs : Steady(k) \/ Ready(k)
        BY <1>2, <2>1, <2>2 DEF Steady
    <2> QED BY <1>1, <2>3, HandlersStep
<1>5. key # None /\ key.by # None => key.by \in Jobs \ {j, "wake"}
    BY <1>1, <1>2, KeyShape, JobNames DEF Handled, SessionTypes
<1>6. Timed => Timed'
    <2>1. "wake" \in Jobs /\ Exporters \subseteq Jobs /\ "wake" \notin Exporters
        BY JobNames, KeyShape
    <2> QED BY <1>2, <2>1 DEF Timed
<1>7. /\ \A k \in Jobs : at'[k] = "exporting" => at[k] = "exporting"
      /\ key # None /\ key.by # None => at'[key.by] = at[key.by] /\ note'[key.by].freed = note[key.by].freed
      /\ at'["signOut"] # "idle" => at["signOut"] # "idle"
    BY <1>2, <1>5, JobNames
<1>8. alive' /\ envelope # None => alive \/ Timed'
    BY <1>2 DEF Timed
<1>9. Handled' /\ OfSession' /\ SignedOut' /\ OnClock'
    BY <1>1, <1>6, <1>7, <1>8, KeptStep
<1> QED BY <1>1, <1>2, <1>3, <1>4, <1>9, GoodNext

\* The worker is started, or runs already.
LEMMA WakeStep ==
    ASSUME WorkerGood, alive' = TRUE, at' = WokenAt, note' = WokenNote, CeremonyTypes', HistoryTypes',
           handed \subseteq handed',
           UNCHANGED <<key, meta, envelope, alarm, races>>
    PROVE  WorkerGood'
<1>1. /\ HandlerTypes /\ SessionTypes /\ CeremonyTypes /\ HistoryTypes /\ Asleep
      /\ FitInv /\ AgreeInv /\ Handled /\ OfSession /\ SignedOut /\ OnClock
    BY GoodInParts
<1>2. /\ HandlerTypes'
      /\ \A k \in Jobs \ {"wake"} : at'[k] = at[k] /\ note'[k] = note[k]
      /\ \/ (alive \/ envelope = None) /\ at'["wake"] = at["wake"] /\ note'["wake"] = note["wake"]
         \/ envelope # None /\ at'["wake"] = "read" /\ note'["wake"].seen = envelope
    BY <1>1, WokenIs DEF Woken, HandlerTypes
<1>3. SessionTypes' /\ Asleep'
    BY <1>1, KeptTypes DEF SessionTypes
<1>4. FitInv' /\ AgreeInv'
    <2>1. Steady("wake") \/ Ready("wake")
        <3>1. CASE at'["wake"] = at["wake"] /\ note'["wake"] = note["wake"]
            BY <3>1 DEF Steady
        <3>2. CASE envelope # None /\ at'["wake"] = "read" /\ note'["wake"].seen = envelope
            <4>1. envelope \in Accounts /\ "wake" \notin Nonces
                BY <1>1, <3>2, JobNames DEF SessionTypes, Account
            <4> QED BY <3>2, <4>1 DEF Ready, Fits, Agrees
        <3> QED BY <1>2, <3>1, <3>2
    <2>2. \A k \in Jobs : Steady(k) \/ Ready(k)
        BY <1>2, <2>1 DEF Steady
    <2>3. Uncrossed' => Uncrossed
        BY DEF Uncrossed
    <2> QED BY <1>1, <2>2, <2>3, HandlersStep
<1>5. key # None /\ key.by # None => key.by \in Jobs \ {"wake"}
    BY <1>1, KeyShape, JobNames DEF SessionTypes
<1>6. Timed => Timed'
    <2>1. "wake" \in Jobs /\ Exporters \subseteq Jobs /\ "wake" \notin Exporters
        BY JobNames, KeyShape
    <2> QED BY <1>2, <2>1 DEF Timed
<1>7. /\ \A k \in Jobs : at'[k] = "exporting" => at[k] = "exporting"
      /\ key # None /\ key.by # None => at'[key.by] = at[key.by] /\ note'[key.by].freed = note[key.by].freed
      /\ at'["signOut"] # "idle" => at["signOut"] # "idle"
      /\ Uncrossed' => Uncrossed
      /\ OnTime' => OnTime
    BY <1>2, <1>5, JobNames DEF Uncrossed, OnTime
<1>8. alive' /\ envelope # None => alive \/ Timed'
    BY <1>2 DEF Timed
<1>9. Handled' /\ OfSession' /\ SignedOut' /\ OnClock'
    BY <1>1, <1>6, <1>7, <1>8, KeptStep
<1> QED BY <1>1, <1>2, <1>3, <1>4, <1>9, GoodNext

\* What is added to the history of a ceremony is no crossing.
Unraced == races' \in {races, races \cup {"muddled"}}

\* A step that records no race leaves an uncrossed run uncrossed.
LEMMA UnracedIs ==
    ASSUME Unraced
    PROVE  (Uncrossed' => Uncrossed) /\ (OnTime' => OnTime)
BY DEF Unraced, Uncrossed, OnTime

\* What is recorded of races and events keeps its type.
LEMMA HistoryKept ==
    ASSUME WorkerGood, Unraced, events' = events \/ \E e : Event(e)
    PROVE  HistoryTypes'
<1>1. HistoryTypes
    BY GoodInParts
<1>2. races' \subseteq {"crashed", "crossed", "lateImport", "muddled"}
    BY <1>1 DEF HistoryTypes, Unraced
<1>3. events' \in 0..MaxEvents
    BY <1>1, SessionAssumption DEF HistoryTypes, Event
<1> QED BY <1>2, <1>3 DEF HistoryTypes

\* A handler that goes on without touching key or records keeps the
\* invariant.
LEMMA GotoStep ==
    ASSUME WorkerGood, NEW j \in Jobs \ {"wake"}, NEW l \in Awaits, NEW n \in Note, Goto(j, l, n),
           CeremonyTypes', handed \subseteq handed', UNCHANGED <<key, meta, envelope, events>>,
           alarm' \in {alarm, TRUE}, Unraced,
           at[j] \notin {"idle", "exporting"}, l # "exporting", at[j] = "arming" => alarm',
           Fits(j, l, n), Uncrossed => Agrees(j, l, n, meta, handed)
    PROVE  WorkerGood'
<1>1. HandlerTypes /\ SessionTypes
    BY GoodInParts
<1>2. Moves(j, l, n) /\ alive' = alive
    BY <1>1, GotoMoves DEF Goto
<1>3. HistoryTypes' /\ (Uncrossed' => Uncrossed) /\ (OnTime' => OnTime)
    BY HistoryKept, UnracedIs
<1>4. /\ HandlerTypes' /\ at'[j] = l /\ note'[j] = n
      /\ \A k \in Jobs \ {j} : at'[k] = at[k] /\ note'[k] = note[k]
    BY <1>2 DEF Moves
<1>5. Ready(j)
    BY <1>3, <1>4 DEF Ready, Agrees
<1>6. alarm' \in BOOLEAN /\ (alarm => alarm')
    BY <1>1 DEF SessionTypes
<1>7. at[j] = "arming" \/ j = "wake" => (Timed => Timed')
    BY DEF Timed
<1> QED BY <1>2, <1>3, <1>4, <1>5, <1>6, <1>7, PlainStep

\* So does one that returns, if what it was to export was freed.
LEMMA ReturnStep ==
    ASSUME WorkerGood, NEW j \in Jobs, Return(j), CeremonyTypes', handed \subseteq handed',
           UNCHANGED <<key, meta, envelope, events>>, alarm' \in {alarm, TRUE}, Unraced,
           at[j] # "idle", at[j] = "exporting" => note[j].freed,
           at[j] = "arming" \/ j = "wake" => (Timed => Timed')
    PROVE  WorkerGood'
<1>1. HandlerTypes /\ SessionTypes
    BY GoodInParts
<1>2. Moves(j, "idle", Blank) /\ alive' = alive
    BY <1>1, ReturnMoves
<1>3. HistoryTypes' /\ (Uncrossed' => Uncrossed) /\ (OnTime' => OnTime)
    BY HistoryKept, UnracedIs
<1>4. /\ HandlerTypes' /\ at'[j] = "idle"
      /\ \A k \in Jobs \ {j} : at'[k] = at[k] /\ note'[k] = note[k]
    BY <1>2 DEF Moves
<1>5. Ready(j)
    BY <1>4 DEF Ready, Fits, Agrees
<1>6. alarm' \in BOOLEAN /\ (alarm => alarm')
    BY <1>1 DEF SessionTypes
<1> QED BY <1>2, <1>3, <1>4, <1>5, <1>6, PlainStep

-----------------------------------------------------------------------------
(* Handlers that start, and that go on without changing the session.       *)

\* Steps that leave the ceremony alone keep its types.
LEMMA CeremonyKept ==
    ASSUME WorkerGood, UNCHANGED ceremony
    PROVE  CeremonyTypes' /\ handed \subseteq handed'
BY GoodInParts DEF CeremonyTypes, ceremony

\* Waking an idle worker keeps the invariant.
LEMMA QuietGood ==
    ASSUME WorkerGood, Wake \/ UNCHANGED sessionVars
    PROVE  WorkerGood'
<1>1. CASE Wake
    <2>1. /\ alive' = TRUE /\ at' = WokenAt /\ note' = WokenNote
          /\ UNCHANGED <<key, meta, envelope, alarm, races>>
              /\ CeremonyTypes' /\ handed \subseteq handed'
        BY <1>1, CeremonyKept DEF Wake
    <2>2. HistoryTypes'
        BY <1>1, GoodInParts DEF Wake, HistoryTypes
    <2> QED BY <2>1, <2>2, WakeStep
<1>2. CASE UNCHANGED sessionVars
    BY <1>2 DEF sessionVars, WorkerGood, TypeOK, WorkerInv, FitInv, AgreeInv, Uncrossed, Handled, OfSession, OnTime,
                SignedOut, Busy, OnClock, Timed
<1> QED BY <1>1, <1>2

\* So do the messages that start a handler.
LEMMA StartsGood ==
    ASSUME WorkerGood, AskStatus \/ Touch \/ SetMinutes \/ Unlock \/ Expire
    PROVE  WorkerGood'
<1>1. HandlerTypes /\ SessionTypes /\ CeremonyTypes /\ {"asked", "login"} \subseteq Awaits
    BY GoodInParts DEF Awaits
<1>2. Unraced /\ (events' = events \/ \E e : Event(e)) /\ UNCHANGED <<key, meta, envelope, alarm>>
    BY DEF AskStatus, Touch, SetMinutes, Unlock, Expire, Unraced, NoteMuddle, Keep
<1>3. HistoryTypes' /\ (Uncrossed' => Uncrossed) /\ (OnTime' => OnTime)
    BY <1>2, HistoryKept, UnracedIs
<1>4. CeremonyTypes' /\ handed \subseteq handed'
    BY <1>1 DEF AskStatus, Touch, SetMinutes, Unlock, Expire, CeremonyTypes, ceremony, Keep
<1>5. \A n \in {[Blank EXCEPT !.meta = meta], Blank} : n \in Note
    BY <1>1, NoteShape, BlankReplaced DEF SessionTypes
<1>6. ASSUME NEW j \in {"status", "touch", "minutes", "expire"}, NEW n \in Note, Dispatch(j, "asked", n),
             j = "minutes" => n.meta = meta
      PROVE  WorkerGood'
    <2>1. j \in Jobs \ {"wake", "signOut"} /\ j \notin Nonces
        BY JobNames
    <2>2. Starts(j, "asked", n)
        BY <1>1, <1>6, <2>1, DispatchStarts
    <2> DEFINE l == "asked"
    <2>3. l # "exporting" /\ Fits(j, l, n) /\ Agrees(j, l, n, meta, handed)
        BY <1>6, <2>1 DEF Fits, Agrees
    <2> HIDE DEF l
    <2> QED BY <1>2, <1>3, <1>4, <2>1, <2>2, <2>3, StartStep DEF l
<1>7. CASE AskStatus \/ SetMinutes
    <2> DEFINE n == [Blank EXCEPT !.meta = meta]
    <2>1. n \in Note /\ n.meta = meta
        BY <1>1, BlankReplaced DEF SessionTypes
    <2>2. Dispatch("status", "asked", n) \/ Dispatch("minutes", "asked", n)
        BY <1>7 DEF AskStatus, SetMinutes
    <2> HIDE DEF n
    <2> QED BY <1>6, <2>1, <2>2
<1>8. CASE Touch \/ Expire
    <2>1. Dispatch("touch", "asked", Blank) \/ Dispatch("expire", "asked", Blank)
        BY <1>8 DEF Touch, Expire
    <2> QED BY <1>6, <2>1, NoteShape
<1>9. CASE Unlock
    <2> DEFINE n == [Blank EXCEPT !.account = meta]
    <2> DEFINE j == "unlock"
    <2> DEFINE l == "login"
    <2>1. n \in Note /\ n.account = meta /\ meta \in Accounts
        BY <1>1, <1>9, BlankReplaced DEF SessionTypes, Unlock, Account
    <2>2. Dispatch(j, l, n)
        BY <1>9 DEF Unlock
    <2> HIDE DEF n
    <2>3. j \in Jobs \ {"wake", "signOut"} /\ j \notin Nonces
        BY JobNames
    <2>4. Starts(j, l, n)
        BY <1>1, <2>1, <2>2, <2>3, DispatchStarts
    <2>5. l # "exporting" /\ Fits(j, l, n) /\ Agrees(j, l, n, meta, handed)
        BY <2>1, <2>3 DEF Fits, Agrees
    <2> HIDE DEF j, l
    <2> QED BY <1>2, <1>3, <1>4, <2>3, <2>4, <2>5, StartStep
<1> QED BY <1>7, <1>8, <1>9

\* So does starting an unlock by way of the web app.
LEMMA StartCeremonyGood ==
    ASSUME WorkerGood, NEW mode \in Modes, StartCeremony(mode)
    PROVE  WorkerGood'
<1>1. HandlerTypes /\ SessionTypes /\ CeremonyTypes /\ "asked" \in Awaits
    BY GoodInParts DEF Awaits
<1>2. PICK nonce : nonce = CHOOSE n \in Nonces \ issued : TRUE
    OBVIOUS
<1>3. nonce \in Nonces
    BY <1>1, <1>2 DEF StartCeremony, CeremonyTypes
<1> DEFINE c == [nonce |-> nonce, mode |-> mode]
<1> DEFINE n == [Blank EXCEPT !.seen = c]
<1> DEFINE j == "start"
<1> DEFINE l == "asked"
<1>4. c \in Ceremony
    BY <1>3 DEF Ceremony
<1>5. Dispatch(j, l, n)
    BY <1>2 DEF StartCeremony
<1> HIDE DEF c
<1>6. n \in Note /\ n.seen = c
    BY <1>4, BlankReplaced
<1> HIDE DEF n
<1>7. j \in Jobs \ {"wake", "signOut"} /\ j \notin Nonces
    BY JobNames
<1>8. Starts(j, l, n)
    BY <1>1, <1>5, <1>6, <1>7, DispatchStarts
<1>9. l # "exporting" /\ Fits(j, l, n) /\ Agrees(j, l, n, meta, handed)
    BY <1>4, <1>6, <1>7 DEF Fits, Agrees
<1>10. Unraced /\ (\E e : Event(e)) /\ UNCHANGED <<key, meta, envelope, alarm>> /\ UNCHANGED ceremony
    BY DEF StartCeremony, Unraced, Keep
<1>11. CeremonyTypes' /\ handed \subseteq handed' /\ HistoryTypes' /\ (Uncrossed' => Uncrossed) /\ (OnTime' => OnTime)
    BY <1>10, CeremonyKept, HistoryKept, UnracedIs
<1> HIDE DEF j, l
<1> QED BY <1>7, <1>8, <1>9, <1>10, <1>11, StartStep

\* So does the result the ceremony's window sends.
LEMMA RelayGood ==
    ASSUME WorkerGood, NEW j \in Nonces, Relay(j)
    PROVE  WorkerGood'
<1>1. HandlerTypes /\ SessionTypes /\ CeremonyTypes /\ "asked" \in Awaits
    BY GoodInParts DEF Awaits
<1> DEFINE n == [Blank EXCEPT !.seen = pending]
<1> DEFINE l == "asked"
<1>2. pending \in Account \cup Ceremony /\ pending \in Ceremony \cup {None}
    BY <1>1 DEF CeremonyTypes, Account
<1>3. n \in Note /\ n.seen = pending
    BY <1>2, BlankReplaced
<1>4. Dispatch(j, l, n)
    BY DEF Relay
<1> HIDE DEF n
<1>5. j \in Jobs \ {"wake", "signOut"} /\ j \notin Handlers /\ j # "unlock" /\ j # "start"
    BY JobNames
<1>6. Starts(j, l, n)
    BY <1>1, <1>3, <1>4, <1>5, DispatchStarts
<1>7. l # "exporting" /\ Fits(j, l, n) /\ Agrees(j, l, n, meta, handed)
    <2>1. j \notin {"minutes", "lock", "signOut", "unlock"}
        BY <1>5, JobNames
    <2> QED BY <1>2, <1>3, <1>5, <2>1 DEF Fits, Agrees
<1>8. Unraced /\ events' = events /\ UNCHANGED <<key, meta, envelope, alarm>>
    BY DEF Relay, Unraced, Keep, NoteMuddle
<1>9. CeremonyTypes' /\ handed \subseteq handed'
    BY <1>1 DEF CeremonyTypes, Relay, Keep
<1>10. HistoryTypes' /\ (Uncrossed' => Uncrossed) /\ (OnTime' => OnTime)
    BY <1>8, HistoryKept, UnracedIs
<1> HIDE DEF l
<1> QED BY <1>5, <1>6, <1>7, <1>8, <1>9, <1>10, StartStep

\* So do the awaits of status, touch, settings, lock and unlock that only
\* read.
LEMMA MovesOnGood ==
    ASSUME WorkerGood,
           \/ StatusReadsEnvelope \/ TouchArms \/ MinutesArm
           \/ \E j \in {"lock", "signOut"} : LockReadsMeta(j)
           \/ UnlockOpened \/ UnlockFails
    PROVE  WorkerGood'
<1>1. /\ HandlerTypes /\ SessionTypes /\ CeremonyTypes /\ FitInv /\ AgreeInv
      /\ {"asked", "read", "idle"} \subseteq Awaits
    BY GoodInParts DEF Awaits
<1>2. UNCHANGED <<key, meta, envelope, events>> /\ alarm' \in {alarm, TRUE} /\ Unraced /\ UNCHANGED ceremony
    BY DEF StatusReadsEnvelope, TouchArms, MinutesArm, LockReadsMeta, UnlockOpened, UnlockFails, Unraced
<1>3. CeremonyTypes' /\ handed \subseteq handed'
    BY <1>2, CeremonyKept
<1>4. ASSUME NEW j \in {"status", "touch", "minutes", "unlock"}, Return(j), at[j] # "idle",
             at[j] = "exporting" => note[j].freed, at[j] # "arming"
      PROVE  WorkerGood'
    <2>1. j \in Jobs /\ j # "wake"
        BY JobNames
    <2> QED BY <1>2, <1>3, <1>4, <2>1, ReturnStep
<1>5. CASE StatusReadsEnvelope
    <2>1. at["status"] = "asked"
        BY <1>5 DEF StatusReadsEnvelope
    <2>2. CASE Return("status")
        BY <1>4, <2>1, <2>2
    <2>3. CASE envelope # None /\ Goto("status", "read", [Blank EXCEPT !.seen = envelope])
        <3> DEFINE n == [Blank EXCEPT !.seen = envelope]
        <3> DEFINE j == "status"
        <3> DEFINE l == "read"
        <3>1. envelope \in Accounts /\ envelope \in Account \cup Ceremony
            BY <1>1, <2>3 DEF SessionTypes, Account
        <3>2. n \in Note /\ n.seen = envelope
            BY <3>1, BlankReplaced
        <3>3. Goto(j, l, n)
            BY <2>3
        <3> HIDE DEF n
        <3>4. j \in Jobs \ {"wake"} /\ j \notin Nonces /\ l \in Awaits
            BY JobNames, <1>1
        <3>5. Fits(j, l, n) /\ Agrees(j, l, n, meta, handed) /\ l # "exporting"
            BY <3>1, <3>2, <3>4 DEF Fits, Agrees
        <3>6. at[j] \notin {"idle", "exporting", "arming"}
            BY <2>1
        <3> HIDE DEF j, l
        <3> QED BY <1>2, <1>3, <3>2, <3>3, <3>4, <3>5, <3>6, GotoStep
    <2> QED BY <1>5, <2>2, <2>3 DEF StatusReadsEnvelope
<1>6. CASE TouchArms \/ MinutesArm
    BY <1>4, <1>6 DEF TouchArms, MinutesArm
<1>7. CASE \E j \in {"lock", "signOut"} : LockReadsMeta(j)
    <2>1. PICK j \in {"lock", "signOut"} : LockReadsMeta(j)
        BY <1>7
    <2> DEFINE n == [Blank EXCEPT !.meta = meta]
    <2> DEFINE l == "asked"
    <2>2. n \in Note /\ n.meta = meta
        BY <1>1, BlankReplaced DEF SessionTypes
    <2>3. Goto(j, l, n) /\ at[j] = "cleared"
        BY <2>1 DEF LockReadsMeta
    <2> HIDE DEF n
    <2>4. j \in Jobs \ {"wake"} /\ j \notin Nonces /\ l \in Awaits
        BY JobNames, <1>1
    <2>5. Fits(j, l, n) /\ Agrees(j, l, n, meta, handed) /\ l # "exporting"
        BY <2>2, <2>4 DEF Fits, Agrees
    <2> HIDE DEF l
    <2> QED BY <1>2, <1>3, <2>2, <2>3, <2>4, <2>5, GotoStep
<1>8. CASE UnlockOpened
    <2> DEFINE j == "unlock"
    <2> DEFINE m == note[j]
    <2> DEFINE n == [m EXCEPT !.meta = meta]
    <2> DEFINE l == "asked"
    <2>1. j \in Jobs \ {"wake"} /\ j \notin Nonces /\ l \in Awaits
        BY JobNames, <1>1
    <2>2. m \in Note /\ meta \in Account
        BY <1>1, <2>1 DEF HandlerTypes, SessionTypes
    <2>3. Goto(j, l, n) /\ at[j] = "login"
        BY <1>8 DEF UnlockOpened
    <2>4. m.account \in Accounts /\ (Uncrossed => m.account = meta)
        BY <1>1, <2>1, <2>3 DEF FitInv, Fits, AgreeInv, Agrees
    <2> HIDE DEF m
    <2>5. n \in Note /\ n.meta = meta /\ n.account = m.account
        BY <2>2, NoteReplaced
    <2> HIDE DEF n
    <2>6. Fits(j, l, n) /\ (Uncrossed => Agrees(j, l, n, meta, handed)) /\ l # "exporting"
        BY <2>1, <2>4, <2>5 DEF Fits, Agrees
    <2>7. at[j] \notin {"idle", "exporting", "arming"}
        BY <2>3
    <2> HIDE DEF j, l
    <2> QED BY <1>2, <1>3, <2>1, <2>3, <2>5, <2>6, <2>7, GotoStep
<1>9. CASE UnlockFails
    <2>1. /\ Return("unlock") /\ at["unlock"] \in {"login", "asked", "exporting"}
          /\ at["unlock"] = "exporting" => note["unlock"].freed
        BY <1>9 DEF UnlockFails
    <2> QED BY <1>4, <2>1
<1> QED BY <1>5, <1>6, <1>7, <1>8, <1>9

\* So do the set-up of a ceremony and its timeout.
LEMMA SetUpGood ==
    ASSUME WorkerGood, OpenWindow \/ RecordPending \/ SetTimer \/ ExpireClears \/ ExpireTells
    PROVE  WorkerGood'
<1>1. /\ HandlerTypes /\ SessionTypes /\ CeremonyTypes /\ FitInv /\ AgreeInv
      /\ {"opened", "recorded", "cleared"} \subseteq Awaits
    BY GoodInParts DEF Awaits
<1>2. UNCHANGED <<key, meta, envelope, events>> /\ alarm' \in {alarm, TRUE} /\ Unraced
    BY DEF OpenWindow, RecordPending, SetTimer, ExpireClears, ExpireTells, Unraced, Keep, NoteMuddle
<1>3. "start" \in Jobs /\ "expire" \in Jobs /\ "start" \notin Nonces /\ "expire" \notin Nonces
    BY JobNames
<1>4. at["start"] \in {"asked", "opened"} => note["start"].seen \in Ceremony
    BY <1>1, <1>3 DEF FitInv, Fits
<1>5. CeremonyTypes' /\ handed \subseteq handed'
    <2>1. at["start"] \in {"asked", "opened"} => note["start"].seen.nonce \in Nonces
        BY <1>4 DEF Ceremony
    <2> QED BY <1>1, <1>4, <2>1
            DEF CeremonyTypes, OpenWindow, RecordPending, SetTimer, ExpireClears, ExpireTells, Keep
<1>6. CASE SetTimer \/ ExpireTells
    <2>1. PICK j \in {"start", "expire"} : Return(j) /\ at[j] \in {"recorded", "cleared"}
        BY <1>6 DEF SetTimer, ExpireTells
    <2>2. j \in Jobs /\ j # "wake"
        BY <1>3
    <2> QED BY <1>2, <1>5, <2>1, <2>2, ReturnStep
<1>7. ASSUME NEW j \in {"start", "expire"}, NEW l \in {"opened", "recorded", "cleared"}, NEW n \in Note,
             Goto(j, l, n), at[j] \in {"asked", "opened"},
             j = "start" /\ l = "opened" => n.seen \in Ceremony
      PROVE  WorkerGood'
    <2>1. j \in Jobs \ {"wake"} /\ j \notin Nonces /\ l \in Awaits
        BY <1>1, <1>3
    <2>2. Fits(j, l, n) /\ Agrees(j, l, n, meta, handed)
        BY <1>7, <2>1 DEF Fits, Agrees
    <2> QED BY <1>2, <1>5, <1>7, <2>1, <2>2, GotoStep
<1>8. CASE OpenWindow
    <2>1. note["start"] \in Note /\ at["start"] = "asked" /\ Goto("start", "opened", note["start"])
        BY <1>1, <1>3, <1>8 DEF OpenWindow, HandlerTypes
    <2> QED BY <1>4, <1>7, <2>1
<1>9. CASE RecordPending \/ ExpireClears
    <2>1. \/ Goto("start", "recorded", Blank) /\ at["start"] = "opened"
          \/ Goto("expire", "cleared", Blank) /\ at["expire"] = "asked"
        BY <1>9 DEF RecordPending, ExpireClears
    <2> QED BY <1>7, <2>1, NoteShape
<1> QED BY <1>6, <1>8, <1>9

\* So do the checks of a ceremony's result and its answer to the popup.
LEMMA CeremonyGood ==
    ASSUME WorkerGood, NEW j \in Nonces,
           Mismatch(j) \/ Spend(j) \/ Recheck(j) \/ CeremonyLogin(j) \/ CeremonyTells(j)
    PROVE  WorkerGood'
<1>1. /\ HandlerTypes /\ SessionTypes /\ CeremonyTypes /\ FitInv /\ AgreeInv
      /\ {"cleared", "checked", "login"} \subseteq Awaits
    BY GoodInParts DEF Awaits
<1>2. UNCHANGED <<key, meta, envelope, events>> /\ alarm' \in {alarm, TRUE} /\ Unraced
    BY DEF Mismatch, Spend, Recheck, CeremonyLogin, CeremonyTells, Unraced, Keep, NoteMuddle, ceremony
<1>3. j \in Jobs \ {"wake"} /\ j \notin Handlers /\ j \notin {"unlock", "start", "minutes", "lock", "signOut", "wake", "status"}
    BY JobNames
<1>4. CeremonyTypes' /\ handed \subseteq handed'
    <2>1. relayed' = relayed /\ issued' = issued /\ pending' \in {pending, None} /\ timer' \in {timer, FALSE}
          /\ handed' = handed
        BY DEF Mismatch, Spend, Recheck, CeremonyLogin, CeremonyTells, ceremony, Keep
    <2>2. waiting' \in BOOLEAN
        <3>1. CASE Mismatch(j)
            BY <3>1, <1>1 DEF Mismatch, CeremonyTypes
        <3>2. CASE waiting' \in {waiting, FALSE}
            BY <3>2, <1>1 DEF CeremonyTypes
        <3> QED BY <3>1, <3>2 DEF Spend, Recheck, CeremonyLogin, CeremonyTells, ceremony
    <2> QED BY <1>1, <2>1, <2>2 DEF CeremonyTypes
<1>5. CASE Mismatch(j) \/ CeremonyTells(j)
    <2>1. /\ Return(j) /\ at[j] \in {"asked", "checked", "login", "exporting"}
          /\ at[j] = "exporting" => note[j].freed
        BY <1>5 DEF Mismatch, CeremonyTells
    <2> QED BY <1>2, <1>3, <1>4, <2>1, ReturnStep
<1>6. ASSUME NEW l \in {"cleared", "checked", "login"}, NEW n \in Note, Goto(j, l, n),
             at[j] \in {"asked", "cleared", "checked"}, n.seen \in Ceremony,
             l \in {"checked", "login"} => (Uncrossed => n.meta = meta),
             l = "login" => n.account \in Accounts /\ n.meta = None
      PROVE  WorkerGood'
    <2>1. Fits(j, l, n) /\ (Uncrossed => Agrees(j, l, n, meta, handed)) /\ l \in Awaits
        BY <1>1, <1>3, <1>6 DEF Fits, Agrees
    <2> QED BY <1>2, <1>3, <1>4, <1>6, <2>1, GotoStep
<1>7. PICK m : m = note[j]
    OBVIOUS
<1>8. m \in Note /\ meta \in Account
    BY <1>1, <1>3, <1>7 DEF HandlerTypes, SessionTypes
<1>9. at[j] \in {"cleared", "checked", "login"} => m.seen \in Ceremony
    BY <1>1, <1>3, <1>7 DEF FitInv, Fits
<1>10. CASE Spend(j)
    <2>1. at[j] = "asked" /\ Goto(j, "cleared", m) /\ m.seen # None
        BY <1>7, <1>10 DEF Spend
    <2>2. m.seen \in Ceremony
        BY <1>1, <1>3, <1>7, <2>1 DEF FitInv, Fits
    <2> QED BY <1>6, <1>8, <2>1, <2>2
<1>11. CASE Recheck(j)
    <2> DEFINE n == [m EXCEPT !.meta = meta]
    <2>1. at[j] = "cleared" /\ Goto(j, "checked", n)
        BY <1>7, <1>11 DEF Recheck
    <2>2. n \in Note /\ n.meta = meta /\ n.seen = m.seen
        BY <1>8, NoteReplaced
    <2> HIDE DEF n
    <2> QED BY <1>6, <1>9, <2>1, <2>2
<1>12. CASE CeremonyLogin(j)
    <2>1. at[j] = "checked" /\ m.meta = None /\ \E a \in Accounts : Goto(j, "login", [m EXCEPT !.account = a])
        BY <1>7, <1>12 DEF CeremonyLogin
    <2>2. PICK a \in Accounts : Goto(j, "login", [m EXCEPT !.account = a])
        BY <2>1
    <2> DEFINE n == [m EXCEPT !.account = a]
    <2>3. a \in Account
        BY DEF Account
    <2>4. n \in Note /\ n.meta = m.meta /\ n.seen = m.seen /\ n.account = a
        BY <1>8, <2>3, NoteReplaced
    <2>5. Goto(j, "login", n)
        BY <2>2
    <2> HIDE DEF n
    <2>6. Uncrossed => m.meta = meta
        BY <1>1, <1>3, <1>7, <2>1 DEF AgreeInv, Agrees
    <2> QED BY <1>6, <1>9, <2>1, <2>4, <2>5, <2>6
<1> QED BY <1>5, <1>10, <1>11, <1>12

\* Re-arming after a restart keeps it: the alarm is armed if there is a
\* session.
LEMMA RearmsGood ==
    ASSUME WorkerGood, WakeRearms
    PROVE  WorkerGood'
<1>1. /\ HandlerTypes /\ SessionTypes /\ "wake" \in Jobs /\ "wake" \notin Exporters /\ Exporters \subseteq Jobs
      /\ at["wake"] = "asked" /\ Return("wake")
    BY GoodInParts, JobNames, KeyShape DEF WakeRearms
<1>2. UNCHANGED <<key, meta, envelope, events>> /\ Unraced /\ CeremonyTypes'
      /\ handed \subseteq handed'
    BY CeremonyKept DEF WakeRearms, Unraced
<1>3. alarm' \in {alarm, TRUE} /\ (alarm => alarm') /\ (note["wake"].meta # None => alarm')
    BY <1>1 DEF WakeRearms, SessionTypes
<1>4. \A k \in Exporters : at'[k] = at[k]
    BY <1>1, ReturnMoves DEF Moves
<1>5. Timed => Timed'
    BY <1>1, <1>3, <1>4 DEF Timed
<1> QED BY <1>1, <1>2, <1>3, <1>5, ReturnStep

\* Arming the alarm, the last step of an unlock, keeps it.
LEMMA ArmGood ==
    ASSUME WorkerGood, NEW j \in Exporters, Arm(j)
    PROVE  WorkerGood'
<1>1. j \in Jobs /\ j # "wake" /\ at[j] = "arming" /\ Return(j) /\ CeremonyTypes
    BY GoodInParts, JobNames, KeyShape DEF Arm
<1>2. UNCHANGED <<key, meta, envelope, events>> /\ Unraced /\ alarm' = TRUE
    BY DEF Arm, Unraced
<1>3. CeremonyTypes' /\ handed \subseteq handed'
    <2>1. UNCHANGED <<pending, timer, issued, relayed, handed>> /\ waiting' \in BOOLEAN
        BY <1>1 DEF Arm, CeremonyTypes
    <2> QED BY <1>1, <2>1 DEF CeremonyTypes
<1>4. Timed'
    BY <1>2 DEF Timed
<1> QED BY <1>1, <1>2, <1>3, <1>4, ReturnStep

-----------------------------------------------------------------------------
(* Hydration.                                                              *)

\* Importing a stored key keeps it: the envelope is still that of the
\* session, or the import was late.
LEMMA ImportStep ==
    ASSUME WorkerGood, NEW s \in Accounts, Import(s), UNCHANGED <<meta, envelope, alarm, ceremony, events>>,
           HandlerTypes', alive = TRUE, alive' = TRUE,
           \A k \in Jobs : Steady(k) \/ Ready(k),
           \A k \in Jobs : at'[k] = "exporting" => at[k] = "exporting",
           at'["signOut"] # "idle" => at["signOut"] # "idle",
           Uncrossed /\ envelope # None /\ Timed => Timed'
    PROVE  WorkerGood'
<1>1. /\ HandlerTypes /\ SessionTypes /\ CeremonyTypes /\ HistoryTypes /\ Asleep
      /\ FitInv /\ AgreeInv /\ Handled /\ OfSession /\ SignedOut /\ OnClock
    BY GoodInParts
<1>2. PICK k : k = [of |-> s, by |-> None]
    OBVIOUS
<1>3. k \in Key /\ k # None /\ k.of = s /\ k.by = None
    BY <1>2, KeyShape
<1>4. key' = k
    BY <1>2 DEF Import
<1>5. (Uncrossed' => Uncrossed) /\ (OnTime' => OnTime /\ envelope = s)
    <2>1. races' = races \cup (IF envelope = s THEN {} ELSE {"lateImport"})
        BY DEF Import
    <2> QED BY <2>1 DEF Uncrossed, OnTime
<1>6. HistoryTypes'
    BY <1>1 DEF HistoryTypes, Import
<1>7. SessionTypes' /\ CeremonyTypes' /\ Asleep' /\ handed \subseteq handed'
    BY <1>1, <1>3, <1>4, CeremonyKept DEF SessionTypes, Asleep
<1>8. FitInv' /\ AgreeInv'
    BY <1>1, <1>5, <1>7, HandlersStep
<1>9. s # None
    BY SessionAssumption
<1>10. Handled'
    BY <1>3, <1>4 DEF Handled
<1>11. OfSession'
    BY <1>1, <1>3, <1>4, <1>5, <1>7, <1>9, OwnKept DEF OfSession, OnTime
<1>12. SignedOut'
    <2> SUFFICES ASSUME Uncrossed', at'["signOut"] # "idle"
                 PROVE  /\ envelope' = None /\ \A m \in Jobs : at'[m] # "exporting"
                        /\ OnTime' => key' = None
        BY DEF SignedOut, Busy
    <2>1. envelope = None /\ \A m \in Jobs : at[m] # "exporting"
        BY <1>1, <1>5 DEF SignedOut, Busy
    <2> QED BY <1>5, <1>9, <2>1
<1>13. OnClock'
    <2> DEFINE timed == Timed'
    <2>1. Uncrossed /\ envelope # None => timed
        BY <1>1 DEF OnClock
    <2> HIDE DEF timed
    <2>2. /\ Uncrossed' /\ alive' /\ envelope' # None => timed
          /\ OnTime' /\ key' # None => timed \/ key'.by # None
        BY <1>5, <1>9, <2>1 DEF OnTime
    <2> QED BY <2>2 DEF OnClock, timed
<1> QED BY <1>1, <1>6, <1>7, <1>8, <1>10, <1>11, <1>12, <1>13, GoodNext

\* So hydrating keeps it, on waking and for the popup.
LEMMA HydratesGood ==
    ASSUME WorkerGood, WakeHydrates \/ StatusHydrates
    PROVE  WorkerGood'
<1>1. /\ HandlerTypes /\ SessionTypes /\ Asleep /\ FitInv /\ OfSession
      /\ {"asked", "idle"} \subseteq Awaits
    BY GoodInParts DEF Awaits
<1>2. PICK j \in {"wake", "status"} : /\ at[j] = "read" /\ Import(note[j].seen)
                                      /\ UNCHANGED <<meta, envelope, alarm, ceremony, events, alive>>
                                      /\ j = "wake" => Goto(j, "asked", [Blank EXCEPT !.meta = meta])
                                      /\ j = "status" => Return(j)
    <2>1. CASE WakeHydrates
        BY <2>1 DEF WakeHydrates, Goto
    <2>2. CASE StatusHydrates
        BY <2>2 DEF StatusHydrates, Return, Goto
    <2> QED BY <2>1, <2>2
<1>3. j \in Jobs /\ j \notin Nonces /\ "wake" \in Jobs /\ "wake" \notin Exporters /\ "signOut" \in Jobs
      /\ Exporters \subseteq Jobs /\ j \notin Exporters
    BY JobNames, KeyShape
<1>4. PICK s : s = note[j].seen
    OBVIOUS
<1>5. s \in Accounts /\ Import(s)
    BY <1>1, <1>2, <1>3, <1>4 DEF FitInv, Fits
<1>6. alive = TRUE /\ alive' = TRUE
    BY <1>1, <1>2, <1>3 DEF Asleep, SessionTypes
<1>7. \E l \in {"asked", "idle"}, n \in Note :
          /\ HandlerTypes' /\ at'[j] = l /\ note'[j] = n
          /\ \A k \in Jobs \ {j} : at'[k] = at[k] /\ note'[k] = note[k]
          /\ j = "wake" => l = "asked" /\ n.meta = meta
    <2>1. CASE j = "wake"
        <3> DEFINE n == [Blank EXCEPT !.meta = meta]
        <3>1. n \in Note /\ n.meta = meta
            BY <1>1, BlankReplaced DEF SessionTypes
        <3>2. Goto(j, "asked", n)
            BY <1>2, <2>1
        <3> HIDE DEF n
        <3>3. Moves(j, "asked", n)
            BY <1>1, <1>3, <3>1, <3>2, GotoMoves
        <3> QED BY <2>1, <3>1, <3>3 DEF Moves
    <2>2. CASE j = "status"
        BY <1>1, <1>2, <1>3, <2>2, ReturnMoves, NoteShape DEF Moves
    <2> QED BY <2>1, <2>2
<1>8. /\ HandlerTypes' /\ at'[j] \in {"asked", "idle"}
      /\ \A k \in Jobs \ {j} : at'[k] = at[k] /\ note'[k] = note[k]
      /\ j = "wake" => at'[j] = "asked" /\ note'[j].meta = meta
    BY <1>7
<1>9. Ready(j)
    BY <1>3, <1>8 DEF Ready, Fits, Agrees
<1>10. /\ \A k \in Jobs : Steady(k) \/ Ready(k)
       /\ \A k \in Jobs : at'[k] = "exporting" => at[k] = "exporting"
       /\ at'["signOut"] # "idle" => at["signOut"] # "idle"
    BY <1>3, <1>8, <1>9 DEF Steady
<1>11. Uncrossed /\ envelope # None /\ Timed => Timed'
    <2> SUFFICES ASSUME Uncrossed, envelope # None, Timed
                 PROVE  Timed'
        OBVIOUS
    <2>1. CASE j = "wake"
        <3>1. meta # None
            BY <1>1 DEF OfSession
        <3>2. at'["wake"] = "asked" /\ note'["wake"].meta # None
            BY <1>8, <2>1, <3>1
        <3> QED BY <3>2 DEF Timed
    <2>2. CASE j = "status"
        <3>1. alarm' = alarm /\ \A k \in Exporters \cup {"wake"} : at'[k] = at[k] /\ note'[k] = note[k]
            BY <1>2, <1>3, <1>8, <2>2
        <3> QED BY <3>1 DEF Timed
    <2> QED BY <2>1, <2>2
<1>12. UNCHANGED <<meta, envelope, alarm, ceremony, events>>
    BY <1>2
<1> QED BY <1>5, <1>6, <1>8, <1>10, <1>11, <1>12, ImportStep

-----------------------------------------------------------------------------
(* Handlers that write the session record, or change the key.              *)

\* Unless the step is a crossing, whoever else it could cross is idle.
LEMMA CrossingIs ==
    ASSUME WorkerGood, NEW j, NoteCrossing(j)
    PROVE  /\ Uncrossed' => /\ Uncrossed
                            /\ \A o \in SessionJobs \ {j} : "signOut" \in {j, o} \/ meta' # meta => at[o] = "idle"
           /\ OnTime' => OnTime
           /\ events' = events \/ (\E e : Event(e)) => HistoryTypes'
<1>1. HistoryTypes
    BY GoodInParts
<1>2. races' \in {races, races \cup {"crossed"}} /\ (Crossing(j) => "crossed" \in races')
    BY DEF NoteCrossing
<1>3. (Uncrossed' => Uncrossed /\ ~Crossing(j)) /\ (OnTime' => OnTime)
    BY <1>2 DEF Uncrossed, OnTime
<1>4. ~Crossing(j) => \A o \in SessionJobs \ {j} : "signOut" \in {j, o} \/ meta' # meta => at[o] = "idle"
    BY DEF Crossing, SessionJobs, Busy
<1>5. races' \subseteq {"crashed", "crossed", "lateImport", "muddled"}
    BY <1>1, <1>2 DEF HistoryTypes
<1>6. events' = events \/ (\E e : Event(e)) => events' \in 0..MaxEvents
    BY <1>1, SessionAssumption DEF HistoryTypes, Event
<1> QED BY <1>3, <1>4, <1>5, <1>6 DEF HistoryTypes

\* Writing the session record keeps it: who read an older one has crossed.
LEMMA MetaWrittenGood ==
    ASSUME WorkerGood, MinutesWritten \/ (\E j \in {"lock", "signOut"} : LockWritesMeta(j)) \/ ClearMeta
    PROVE  WorkerGood'
<1>1. /\ HandlerTypes /\ SessionTypes /\ CeremonyTypes /\ HistoryTypes /\ Asleep
      /\ FitInv /\ AgreeInv /\ Handled /\ OfSession /\ SignedOut /\ OnClock
      /\ {"written", "logout", "idle"} \subseteq Awaits
    BY GoodInParts DEF Awaits
<1>2. PICK j \in {"minutes", "lock", "signOut"}, l \in {"written", "logout", "idle"} :
          /\ NoteCrossing(j) /\ Goto(j, l, Blank)
          /\ UNCHANGED <<key, envelope, alarm, ceremony, events>>
          /\ \/ at[j] = "asked" /\ meta' = IF note[j].meta = None THEN meta ELSE note[j].meta
             \/ at[j] = "logout" /\ meta' = None /\ j = "signOut" /\ l = "idle"
    BY DEF MinutesWritten, LockWritesMeta, ClearMeta, Return
<1>3. j \in Jobs /\ j \notin Nonces /\ j \notin Exporters /\ "signOut" \in Jobs /\ Exporters \subseteq Jobs
      /\ "wake" \in Jobs /\ j # "wake"
    BY JobNames, KeyShape
<1>4. /\ Uncrossed' => /\ Uncrossed
                       /\ \A o \in SessionJobs \ {j} : "signOut" \in {j, o} \/ meta' # meta => at[o] = "idle"
      /\ OnTime' => OnTime
      /\ HistoryTypes'
    BY <1>2, CrossingIs
<1>5. Moves(j, l, Blank) /\ alive' = alive
    BY <1>1, <1>2, <1>3, GotoMoves, NoteShape DEF Goto
<1>6. /\ HandlerTypes' /\ at'[j] = l /\ note'[j] = Blank
      /\ \A k \in Jobs \ {j} : at'[k] = at[k] /\ note'[k] = note[k]
    BY <1>5 DEF Moves
<1>7. alive' = TRUE
    BY <1>1, <1>2, <1>3, <1>5 DEF Asleep, SessionTypes
<1>8. meta' \in Account /\ (Uncrossed' => meta' = meta \/ (at[j] = "logout" /\ j = "signOut" /\ meta' = None))
    <2>1. note[j].meta \in Account
        BY <1>1, <1>3, NoteShape DEF HandlerTypes
    <2>2. at[j] = "asked" => (Uncrossed => note[j].meta = meta)
        BY <1>1, <1>3 DEF AgreeInv, Agrees
    <2>3. None \in Account /\ meta \in Account
        BY <1>1 DEF Account, SessionTypes
    <2>4. CASE at[j] = "asked"
        BY <1>2, <1>4, <2>1, <2>2, <2>3, <2>4
    <2>5. CASE at[j] = "logout"
        BY <1>2, <2>3, <2>5
    <2> QED BY <1>2, <2>4, <2>5
<1>9. SessionTypes' /\ CeremonyTypes' /\ Asleep' /\ handed \subseteq handed'
    BY <1>1, <1>2, <1>7, <1>8, CeremonyKept DEF SessionTypes, Asleep
<1>10. FitInv' /\ AgreeInv'
    <2>1. Ready(j)
        BY <1>3, <1>6 DEF Ready, Fits, Agrees
    <2>2. \A k \in Jobs : Steady(k) \/ Ready(k)
        BY <1>6, <2>1 DEF Steady
    <2>3. Uncrossed' /\ meta' # meta => \A k \in SessionJobs : at[k] = "idle" \/ Ready(k)
        BY <1>4, <2>1
    <2> QED BY <1>1, <1>4, <1>9, <2>2, <2>3, HandlersStep
<1>11. Uncrossed' /\ at[j] = "logout" => envelope = None /\ (OnTime => key = None)
    BY <1>1, <1>2, <1>4 DEF SignedOut, Busy
<1>12. Handled'
    <2>1. key # None /\ key.by # None => key.by \in Jobs \ {j}
        BY <1>1, <1>3, KeyShape DEF SessionTypes
    <2> QED BY <1>1, <1>2, <1>6, <2>1 DEF Handled
<1>13. OfSession'
    <2>1. Uncrossed' /\ envelope' # None => meta' # None /\ Own(envelope', meta', handed')
        BY <1>1, <1>2, <1>4, <1>8, <1>9, <1>11, OwnKept DEF OfSession
    <2>2. OnTime' /\ key' # None => meta' # None /\ Own(key'.of, meta', handed')
        BY <1>1, <1>2, <1>4, <1>8, <1>9, <1>11, OwnKept DEF OfSession, OnTime
    <2> QED BY <2>1, <2>2 DEF OfSession
<1>14. SignedOut'
    <2> SUFFICES ASSUME Uncrossed', at'["signOut"] # "idle"
                 PROVE  /\ envelope' = None /\ \A k \in Jobs : at'[k] # "exporting"
                        /\ OnTime' => key' = None
        BY DEF SignedOut, Busy
    <2>1. at["signOut"] # "idle"
        BY <1>2, <1>3, <1>6
    <2>2. envelope = None /\ (\A k \in Jobs : at[k] # "exporting") /\ (OnTime => key = None)
        BY <1>1, <1>4, <2>1 DEF SignedOut, Busy
    <2> QED BY <1>2, <1>4, <1>6, <2>2
<1>15. OnClock'
    <2>1. Timed => Timed'
        BY <1>2, <1>3, <1>6 DEF Timed
    <2> DEFINE timed == Timed'
    <2>2. Timed => timed
        BY <2>1
    <2> HIDE DEF timed
    <2>3. /\ Uncrossed' /\ alive' /\ envelope' # None => timed
          /\ OnTime' /\ key' # None => timed \/ key'.by # None
        BY <1>1, <1>2, <1>4, <1>5, <2>2 DEF OnClock
    <2> QED BY <2>3 DEF OnClock, timed
<1> QED BY <1>4, <1>6, <1>9, <1>10, <1>12, <1>13, <1>14, <1>15, GoodNext

\* Freeing the handles of a lock marks the handlers that hold them and
\* leaves the rest of their notes.
LEMMA FreeingIs ==
    ASSUME SessionTypes, NEW n \in [Jobs -> Note]
    PROVE  /\ Freeing(n) \in [Jobs -> Note]
           /\ \A k \in Jobs : /\ Freeing(n)[k].meta = n[k].meta /\ Freeing(n)[k].seen = n[k].seen
                              /\ Freeing(n)[k].account = n[k].account
<1>1. CASE key # None /\ key.by # None
    <2>1. key.by \in Jobs
        BY <1>1, KeyShape DEF SessionTypes
    <2>2. PICK b \in Jobs : b = key.by
        BY <2>1
    <2> DEFINE q == [n[b] EXCEPT !.freed = TRUE]
    <2>3. n[b] \in Note
        OBVIOUS
    <2>4. q \in Note /\ q.meta = n[b].meta /\ q.seen = n[b].seen /\ q.account = n[b].account
        BY <2>3, NoteReplaced
    <2>5. Freeing(n) = [n EXCEPT ![b] = q]
        BY <1>1, <2>2 DEF Freeing
    <2> HIDE DEF q
    <2> QED BY <2>4, <2>5
<1>2. CASE ~(key # None /\ key.by # None)
    BY <1>2 DEF Freeing
<1> QED BY <1>1, <1>2

\* The auto-lock and sign-out keep it: key, envelope and handles go
\* together.
LEMMA LocksGood ==
    ASSUME WorkerGood, AutoLock \/ SignOut
    PROVE  WorkerGood'
<1>1. /\ HandlerTypes /\ SessionTypes /\ CeremonyTypes /\ HistoryTypes /\ Asleep
      /\ FitInv /\ AgreeInv /\ Handled /\ OfSession /\ SignedOut /\ OnClock
      /\ "cleared" \in Awaits
    BY GoodInParts DEF Awaits
<1>2. PICK j \in {"lock", "signOut"} :
          /\ StartLock(j) /\ alarm' \in BOOLEAN
          /\ j = "lock" => UNCHANGED <<events, races>>
          /\ j = "signOut" => NoteCrossing(j) /\ \E e : Event(e)
    BY <1>1 DEF AutoLock, SignOut, SessionTypes
<1>3. j \in Jobs /\ j \notin Nonces /\ j \notin Exporters /\ "signOut" \in Jobs /\ Exporters \subseteq Jobs
      /\ "wake" \in Jobs /\ j # "wake" /\ "wake" \notin Nonces
    BY JobNames, KeyShape
<1>4. /\ Uncrossed' => Uncrossed /\ (j = "signOut" => \A o \in SessionJobs \ {j} : at[o] = "idle")
      /\ OnTime' => OnTime
      /\ HistoryTypes'
    <2>1. CASE j = "lock"
        BY <1>1, <1>2, <2>1 DEF Uncrossed, OnTime, HistoryTypes
    <2>2. CASE j = "signOut"
        BY <1>2, <2>2, CrossingIs
    <2> QED BY <2>1, <2>2
<1> DEFINE a == WokenAt
<1> DEFINE m == WokenNote
<1>5. Woken(a, m)
    BY <1>1, WokenIs
<1>6. /\ at[j] = "idle" /\ alive' = TRUE /\ key' = None /\ envelope' = None
      /\ UNCHANGED <<meta, ceremony>>
      /\ at' = [a EXCEPT ![j] = "cleared"] /\ note' = Freeing([m EXCEPT ![j] = Blank])
    BY <1>2 DEF StartLock, Busy
<1> HIDE DEF a, m
<1>7. at' \in [Jobs -> Awaits] /\ at'[j] = "cleared" /\ \A k \in Jobs \ {j} : at'[k] = a[k]
    BY <1>1, <1>3, <1>5, <1>6 DEF Woken
<1> DEFINE p == [m EXCEPT ![j] = Blank]
<1>8. p \in [Jobs -> Note] /\ \A k \in Jobs \ {j} : p[k] = m[k]
    BY <1>3, <1>5, NoteShape DEF Woken
<1>9. note' = Freeing(p)
    BY <1>6
<1> HIDE DEF p
<1>10. /\ note' \in [Jobs -> Note]
       /\ \A k \in Jobs \ {j} : /\ note'[k].meta = m[k].meta /\ note'[k].seen = m[k].seen
                                /\ note'[k].account = m[k].account
    BY <1>1, <1>8, <1>9, FreeingIs
<1>11. HandlerTypes'
    BY <1>7, <1>10 DEF HandlerTypes
<1>12. SessionTypes' /\ CeremonyTypes' /\ Asleep' /\ handed \subseteq handed'
    BY <1>1, <1>2, <1>6, CeremonyKept DEF SessionTypes, Asleep, Account
<1>13. FitInv' /\ AgreeInv'
    <2>1. Ready(j)
        BY <1>3, <1>7 DEF Ready, Fits, Agrees
    <2>2. Steady("wake") \/ Ready("wake")
        <3>1. CASE a["wake"] = at["wake"] /\ m["wake"] = note["wake"]
            BY <1>3, <1>7, <1>10, <3>1 DEF Steady
        <3>2. CASE envelope # None /\ a["wake"] = "read" /\ m["wake"].seen = envelope
            <4>1. envelope \in Accounts
                BY <1>1, <3>2 DEF SessionTypes, Account
            <4>2. at'["wake"] = "read" /\ note'["wake"].seen = envelope
                BY <1>3, <1>7, <1>10, <3>2
            <4> QED BY <1>3, <4>1, <4>2 DEF Ready, Fits, Agrees
        <3> QED BY <1>5, <3>1, <3>2 DEF Woken
    <2>3. \A k \in Jobs \ {j, "wake"} : Steady(k)
        BY <1>5, <1>7, <1>10 DEF Steady, Woken
    <2> QED BY <1>1, <1>4, <1>6, <1>12, <2>1, <2>2, <2>3, HandlersStep
<1>14. Handled' /\ OfSession' /\ OnClock'
    BY <1>6 DEF Handled, OfSession, OnClock
<1>15. SignedOut'
    <2> SUFFICES ASSUME Uncrossed', at'["signOut"] # "idle", NEW k \in Jobs
                 PROVE  at'[k] # "exporting"
        BY <1>6 DEF SignedOut, Busy
    <2>1. at[k] # "exporting"
        <3>1. CASE j = "signOut"
            <4>1. k \in SessionJobs \/ k \notin Exporters
                BY DEF SessionJobs, Exporters
            <4>2. k \notin Exporters => at[k] # "exporting"
                BY <1>1 DEF FitInv, Fits
            <4> QED BY <1>4, <1>6, <3>1, <4>1, <4>2
        <3>2. CASE j = "lock"
            <4>1. at["signOut"] # "idle"
                BY <1>3, <1>5, <1>7, <3>2 DEF Woken
            <4> QED BY <1>1, <1>4, <4>1 DEF SignedOut, Busy
        <3> QED BY <3>1, <3>2
    <2>2. a[k] = at[k] \/ a[k] = "read"
        BY <1>5 DEF Woken
    <2> QED BY <1>7, <2>1, <2>2
<1> QED BY <1>4, <1>11, <1>12, <1>13, <1>14, <1>15, GoodNext

\* Installing a key keeps it: the handler that installed it will export it.
LEMMA InstallStep ==
    ASSUME WorkerGood, NEW j \in Exporters, NEW x \in Accounts, NEW t \in Accounts, Install(j, x, t),
           UNCHANGED events, CeremonyTypes', handed \subseteq handed',
           at[j] \notin {"idle", "exporting", "arming"},
           Uncrossed => Own(x, t, handed') /\ meta \in {None, t}
    PROVE  WorkerGood'
<1>1. /\ HandlerTypes /\ SessionTypes /\ CeremonyTypes /\ HistoryTypes /\ Asleep
      /\ FitInv /\ AgreeInv /\ Handled /\ OfSession /\ SignedOut /\ OnClock
      /\ "exporting" \in Awaits
    BY GoodInParts DEF Awaits
<1>2. j \in Jobs /\ j \in SessionJobs /\ "signOut" \in SessionJobs /\ j # "signOut" /\ "signOut" \in Jobs
      /\ "wake" \in Jobs /\ j # "wake" /\ Exporters \subseteq Jobs /\ t # None /\ j # None
    BY JobNames, KeyShape, SessionAssumption DEF SessionJobs, Exporters
<1>3. /\ Uncrossed' => /\ Uncrossed
                       /\ \A o \in SessionJobs \ {j} : "signOut" \in {j, o} \/ meta' # meta => at[o] = "idle"
      /\ OnTime' => OnTime
      /\ HistoryTypes'
    BY CrossingIs DEF Install
<1> DEFINE k == [of |-> x, by |-> j]
<1> DEFINE q == [Blank EXCEPT !.account = x]
<1> DEFINE m == Freeing(note)
<1>4. k \in Key /\ k # None /\ k.of = x /\ k.by = j
    BY KeyShape
<1>5. q \in Note /\ q.account = x /\ q.freed = FALSE
    BY BlankReplaced DEF Account
<1>6. /\ m \in [Jobs -> Note]
      /\ \A i \in Jobs : m[i].meta = note[i].meta /\ m[i].seen = note[i].seen /\ m[i].account = note[i].account
    BY <1>1, FreeingIs DEF HandlerTypes
<1>7. /\ key' = k /\ meta' = t /\ at' = [at EXCEPT ![j] = "exporting"] /\ note' = [m EXCEPT ![j] = q]
      /\ UNCHANGED <<alive, envelope, alarm>>
    BY DEF Install
<1> HIDE DEF k, q, m
<1>8. at' \in [Jobs -> Awaits] /\ at'[j] = "exporting" /\ \A i \in Jobs \ {j} : at'[i] = at[i]
    BY <1>1, <1>2, <1>7 DEF HandlerTypes
<1>9. note' \in [Jobs -> Note] /\ note'[j] = q /\ \A i \in Jobs \ {j} : note'[i] = m[i]
    BY <1>2, <1>5, <1>6, <1>7
<1>10. HandlerTypes'
    BY <1>8, <1>9 DEF HandlerTypes
<1>11. alive = TRUE
    BY <1>1, <1>2 DEF Asleep, SessionTypes
<1>12. SessionTypes' /\ CeremonyTypes' /\ Asleep'
    BY <1>1, <1>4, <1>7, <1>11 DEF SessionTypes, Asleep, Account
<1>13. FitInv' /\ AgreeInv'
    <2>1. Ready(j)
        BY <1>2, <1>3, <1>5, <1>7, <1>8, <1>9 DEF Ready, Fits, Agrees
    <2>2. \A i \in Jobs \ {j} : Steady(i)
        BY <1>6, <1>8, <1>9 DEF Steady
    <2>3. Uncrossed' /\ meta' # meta => \A i \in SessionJobs : at[i] = "idle" \/ Ready(i)
        BY <1>3, <2>1
    <2> QED BY <1>1, <1>3, <2>1, <2>2, <2>3, HandlersStep
<1>14. Handled'
    BY <1>4, <1>5, <1>7, <1>8, <1>9 DEF Handled
<1>15. OfSession'
    <2>1. Uncrossed' /\ envelope' # None => meta' # None /\ Own(envelope', meta', handed')
        BY <1>1, <1>2, <1>3, <1>7, OwnKept DEF OfSession
    <2>2. OnTime' /\ key' # None => meta' # None /\ Own(key'.of, meta', handed')
        BY <1>2, <1>3, <1>4, <1>7 DEF OnTime
    <2> QED BY <2>1, <2>2 DEF OfSession
<1>16. SignedOut'
    <2>1. Uncrossed' => at'["signOut"] = "idle"
        BY <1>2, <1>3, <1>8
    <2> QED BY <2>1 DEF SignedOut, Busy
<1>17. OnClock'
    <2>1. Timed => Timed'
        BY <1>2, <1>6, <1>7, <1>8, <1>9 DEF Timed
    <2> DEFINE timed == Timed'
    <2>2. Timed => timed
        BY <2>1
    <2> HIDE DEF timed
    <2>3. /\ Uncrossed' /\ alive' /\ envelope' # None => timed
          /\ OnTime' /\ key' # None => timed \/ key'.by # None
        BY <1>1, <1>2, <1>3, <1>4, <1>7, <2>2 DEF OnClock
    <2> QED BY <2>3 DEF OnClock, timed
<1> QED BY <1>3, <1>10, <1>12, <1>13, <1>14, <1>15, <1>16, <1>17, GoodNext

\* So do the three ways to unlock.
LEMMA InstallsGood ==
    ASSUME WorkerGood, UnlockInstalls \/ \E n \in Nonces : CeremonyLoggedIn(n) \/ CeremonyPrf(n)
    PROVE  WorkerGood'
<1>1. HandlerTypes /\ FitInv /\ AgreeInv
    BY GoodInParts
<1>2. CASE UnlockInstalls
    <2>1. "unlock" \in Exporters /\ "unlock" \in Jobs /\ "unlock" \notin Nonces
        BY JobNames DEF Exporters
    <2>2. PICK x, t : x = note["unlock"].account /\ t = note["unlock"].meta
        OBVIOUS
    <2>3. at["unlock"] = "asked" /\ Install("unlock", x, t) /\ t # None /\ UNCHANGED <<ceremony, events>>
        BY <1>2, <2>2 DEF UnlockInstalls
    <2>4. x \in Accounts /\ t \in Accounts
        <3>1. note["unlock"] \in Note
            BY <1>1, <2>1 DEF HandlerTypes
        <3>2. t \in Account
            BY <2>2, <3>1, NoteShape
        <3> QED BY <1>1, <2>1, <2>2, <2>3, <3>2 DEF FitInv, Fits, Account
    <2>5. Uncrossed => meta = t /\ x = t
        BY <1>1, <2>1, <2>2, <2>3 DEF AgreeInv, Agrees
    <2> QED BY <2>1, <2>3, <2>4, <2>5, CeremonyKept, InstallStep DEF Own
<1>3. CASE \E n \in Nonces : CeremonyLoggedIn(n)
    <2>1. PICK j \in Nonces : CeremonyLoggedIn(j)
        BY <1>3
    <2>2. j \in Exporters /\ j \in Jobs
        BY JobNames
    <2>3. PICK x : x = note[j].account
        OBVIOUS
    <2>4. at[j] = "login" /\ Install(j, x, x) /\ UNCHANGED <<ceremony, events>>
        BY <2>1, <2>3 DEF CeremonyLoggedIn
    <2>5. x \in Accounts /\ note[j].meta = None
        BY <1>1, <2>2, <2>3, <2>4 DEF FitInv, Fits
    <2>6. Uncrossed => meta = None
        BY <1>1, <2>2, <2>4, <2>5 DEF AgreeInv, Agrees
    <2> QED BY <2>2, <2>4, <2>5, <2>6, CeremonyKept, InstallStep DEF Own
<1>4. CASE \E n \in Nonces : CeremonyPrf(n)
    <2>1. PICK j \in Nonces : CeremonyPrf(j)
        BY <1>4
    <2>2. j \in Exporters /\ j \in Jobs
        BY JobNames
    <2>3. PICK m : m = note[j].meta
        OBVIOUS
    <2>4. PICK x \in Accounts :
              /\ Install(j, x, IF m = None THEN x ELSE m)
              /\ handed' = IF m \in {None, x} THEN handed ELSE handed \cup {<<m, x>>}
        BY <2>1, <2>3 DEF CeremonyPrf
    <2>5. at[j] = "checked" /\ UNCHANGED <<pending, timer, issued, relayed, waiting, events>>
        BY <2>1 DEF CeremonyPrf
    <2>6. PICK t : t = IF m = None THEN x ELSE m
        OBVIOUS
    <2>7. m \in Account
        BY <1>1, <2>2, <2>3, NoteShape DEF HandlerTypes
    <2>8. /\ x \in Accounts /\ t \in Accounts /\ m \in {None, t} /\ Install(j, x, t)
          /\ Own(x, t, handed') /\ handed \subseteq handed'
        BY <2>4, <2>6, <2>7 DEF Account, Own
    <2>9. CeremonyTypes'
        <3>1. handed' \subseteq Accounts \X Accounts
            BY <2>4, <2>7, GoodInParts DEF CeremonyTypes, Account
        <3> QED BY <2>5, <3>1, GoodInParts DEF CeremonyTypes
    <2>10. Uncrossed => meta = m
        BY <1>1, <2>2, <2>3, <2>5 DEF AgreeInv, Agrees
    <2> QED BY <2>2, <2>5, <2>8, <2>9, <2>10, InstallStep
<1> QED BY <1>2, <1>3, <1>4

\* Exporting the key keeps it: the envelope is of the session, and arming
\* follows.
LEMMA ExportGood ==
    ASSUME WorkerGood, NEW j \in Exporters, Export(j)
    PROVE  WorkerGood'
<1>1. /\ HandlerTypes /\ SessionTypes /\ CeremonyTypes /\ HistoryTypes /\ Asleep
      /\ FitInv /\ AgreeInv /\ Handled /\ OfSession /\ SignedOut /\ OnClock
      /\ "arming" \in Awaits
    BY GoodInParts DEF Awaits
<1>2. j \in Jobs /\ "signOut" \in Jobs /\ "wake" \in Jobs /\ Exporters \subseteq Jobs /\ None \notin Exporters
      /\ j # "signOut" /\ j \notin {"wake", "status", "minutes", "lock", "start"}
    BY JobNames, KeyShape
<1>3. PICK x : x = note[j].account
    OBVIOUS
<1>4. /\ at[j] = "exporting" /\ ~note[j].freed /\ envelope' = x /\ Goto(j, "arming", Blank)
      /\ key' = IF key # None /\ key.by = j THEN [key EXCEPT !.by = None] ELSE key
      /\ UNCHANGED <<meta, alarm, ceremony, events, races>>
    BY <1>3 DEF Export
<1>5. /\ x \in Accounts
      /\ Uncrossed => meta # None /\ Own(x, meta, handed)
    BY <1>1, <1>2, <1>3, <1>4 DEF FitInv, Fits, AgreeInv, Agrees
<1>6. Moves(j, "arming", Blank) /\ alive' = alive
    BY <1>1, <1>2, <1>4, GotoMoves, NoteShape DEF Goto
<1>7. /\ HandlerTypes' /\ at'[j] = "arming" /\ note'[j] = Blank
      /\ \A i \in Jobs \ {j} : at'[i] = at[i] /\ note'[i] = note[i]
    BY <1>6 DEF Moves
<1>8. /\ key' \in Key \cup {None}
      /\ key' # None => key # None /\ key'.of = key.of /\ key'.by \in {None, key.by} /\ key'.by # j
    <2>1. CASE key # None /\ key.by = j
        <3>1. key' = [key EXCEPT !.by = None] /\ key \in Key
            BY <1>1, <1>4, <2>1 DEF SessionTypes
        <3>2. key' \in Key /\ key'.of = key.of /\ key'.by = None
            BY <3>1 DEF Key
        <3> QED BY <1>2, <2>1, <3>2
    <2>2. CASE ~(key # None /\ key.by = j)
        BY <1>1, <1>4, <2>2 DEF SessionTypes
    <2> QED BY <2>1, <2>2
<1>9. alive = TRUE /\ (Uncrossed' <=> Uncrossed) /\ (OnTime' <=> OnTime)
    BY <1>1, <1>2, <1>4 DEF Asleep, SessionTypes, Uncrossed, OnTime
<1>10. SessionTypes' /\ CeremonyTypes' /\ Asleep' /\ HistoryTypes' /\ handed \subseteq handed'
    BY <1>1, <1>4, <1>5, <1>6, <1>8, <1>9, CeremonyKept DEF SessionTypes, Asleep, Account, HistoryTypes
<1>11. FitInv' /\ AgreeInv'
    <2>1. Ready(j)
        BY <1>2, <1>7 DEF Ready, Fits, Agrees
    <2>2. \A i \in Jobs : Steady(i) \/ Ready(i)
        BY <1>7, <2>1 DEF Steady
    <2> QED BY <1>1, <1>4, <1>9, <1>10, <2>2, HandlersStep
<1>12. Handled'
    <2> SUFFICES ASSUME key' # None, key'.by # None
                 PROVE  at'[key'.by] = "exporting" /\ ~note'[key'.by].freed
        BY DEF Handled
    <2>1. PICK b : b = key'.by
        OBVIOUS
    <2>2. key # None /\ b = key.by /\ b # None /\ b # j
        BY <1>8, <2>1
    <2>3. b \in Jobs \ {j}
        BY <1>1, <2>2, KeyShape DEF SessionTypes
    <2> QED BY <1>1, <1>7, <2>1, <2>2, <2>3 DEF Handled
<1>13. OfSession'
    <2>1. Uncrossed' => meta' # None /\ Own(envelope', meta', handed')
        BY <1>4, <1>5, <1>9, <1>10, OwnKept
    <2>2. OnTime' /\ key' # None => meta' # None /\ Own(key'.of, meta', handed')
        BY <1>1, <1>4, <1>8, <1>9, <1>10, OwnKept DEF OfSession
    <2> QED BY <2>1, <2>2 DEF OfSession
<1>14. SignedOut'
    <2>1. Uncrossed' => at'["signOut"] = "idle"
        BY <1>1, <1>2, <1>4, <1>7, <1>9 DEF SignedOut, Busy
    <2> QED BY <2>1 DEF SignedOut, Busy
<1>15. OnClock'
    <2>1. Timed'
        BY <1>7 DEF Timed
    <2> DEFINE timed == Timed'
    <2>2. timed
        BY <2>1
    <2> HIDE DEF timed
    <2>3. /\ Uncrossed' /\ alive' /\ envelope' # None => timed
          /\ OnTime' /\ key' # None => timed \/ key'.by # None
        BY <2>2
    <2> QED BY <2>3 DEF OnClock, timed
<1> QED BY <1>7, <1>10, <1>11, <1>12, <1>13, <1>14, <1>15, GoodNext

\* A kill or a crash keeps it: key and handlers go, and waking arms again.
LEMMA DiesGood ==
    ASSUME WorkerGood, Kill \/ Crash
    PROVE  WorkerGood'
<1>1. /\ HandlerTypes /\ SessionTypes /\ CeremonyTypes /\ HistoryTypes /\ OfSession /\ "idle" \in Awaits
    BY GoodInParts DEF Awaits
<1>2. /\ alive' = FALSE /\ key' = None
      /\ at' = [j \in Jobs |-> "idle"] /\ note' = [j \in Jobs |-> Blank]
      /\ UNCHANGED <<meta, envelope, alarm, ceremony>>
      /\ races' \in {races, races \cup {"crashed"}}
      /\ events' = events \/ \E e : Event(e)
    BY DEF Kill, Crash, Die
<1>3. HandlerTypes' /\ \A j \in Jobs : at'[j] = "idle"
    BY <1>1, <1>2, NoteShape DEF HandlerTypes
<1>4. SessionTypes' /\ CeremonyTypes' /\ Asleep' /\ handed \subseteq handed'
    BY <1>1, <1>2, <1>3, CeremonyKept DEF SessionTypes, Asleep
<1>5. HistoryTypes'
    <2>1. events' \in 0..MaxEvents
        BY <1>1, <1>2, SessionAssumption DEF HistoryTypes, Event
    <2>2. races' \subseteq {"crashed", "crossed", "lateImport", "muddled"}
        BY <1>1, <1>2 DEF HistoryTypes
    <2> QED BY <2>1, <2>2 DEF HistoryTypes
<1>6. FitInv' /\ AgreeInv'
    BY <1>3, JobNames DEF FitInv, AgreeInv, Fits, Agrees
<1>7. (Uncrossed' => Uncrossed) /\ (OnTime' => OnTime)
    BY <1>2 DEF Uncrossed, OnTime
<1>8. OfSession'
    BY <1>1, <1>2, <1>4, <1>7, OwnKept DEF OfSession
<1>9. Handled' /\ SignedOut' /\ OnClock'
    BY <1>2, <1>3, JobNames DEF Handled, SignedOut, OnClock, Busy
<1> QED BY <1>3, <1>4, <1>5, <1>6, <1>8, <1>9, GoodNext

-----------------------------------------------------------------------------
(* Every step of the worker.                                               *)

\* It holds when the browser starts.
LEMMA WorkerGoodInit ==
    ASSUME Init
    PROVE  WorkerGood
<1>1. PICK session \in Account : InitWith(session)
    BY DEF Init
<1>2. HandlerTypes /\ \A j \in Jobs : at[j] = "idle"
    BY <1>1, NoteShape DEF InitWith, HandlerTypes, Awaits
<1>3. SessionTypes /\ CeremonyTypes /\ Asleep
    BY <1>1, <1>2 DEF InitWith, SessionTypes, CeremonyTypes, Asleep, Account
<1>4. HistoryTypes
    BY <1>1, SessionAssumption DEF InitWith, HistoryTypes
<1>5. FitInv /\ AgreeInv
    BY <1>2 DEF FitInv, AgreeInv, Fits, Agrees
<1>6. Handled /\ OfSession /\ SignedOut /\ OnClock
    BY <1>1, <1>2, JobNames DEF InitWith, Handled, OfSession, SignedOut, OnClock, Busy
<1> QED BY <1>2, <1>3, <1>4, <1>5, <1>6, GoodInParts

\* Every step of the worker keeps it.
LEMMA WorkerGoodNext ==
    ASSUME WorkerGood, Next \/ UNCHANGED sessionVars
    PROVE  WorkerGood'
<1>1. CASE Wake \/ UNCHANGED sessionVars
    BY <1>1, QuietGood
<1>2. CASE Kill \/ Crash
    BY <1>2, DiesGood
<1>3. CASE AskStatus \/ Touch \/ SetMinutes \/ Unlock \/ Expire
    BY <1>3, StartsGood
<1>4. CASE AutoLock \/ SignOut
    BY <1>4, LocksGood
<1>5. CASE \E mode \in Modes : StartCeremony(mode)
    BY <1>5, StartCeremonyGood
<1>6. CASE \E n \in Nonces : Relay(n)
    BY <1>6, RelayGood
<1>7. CASE Resume
    <2>1. CASE WakeHydrates \/ StatusHydrates
        BY <2>1, HydratesGood
    <2>2. CASE WakeRearms
        BY <2>2, RearmsGood
    <2>3. CASE \/ StatusReadsEnvelope \/ TouchArms \/ MinutesArm
               \/ \E j \in {"lock", "signOut"} : LockReadsMeta(j)
               \/ UnlockOpened \/ UnlockFails
        BY <2>3, MovesOnGood
    <2>4. CASE MinutesWritten \/ (\E j \in {"lock", "signOut"} : LockWritesMeta(j)) \/ ClearMeta
        BY <2>4, MetaWrittenGood
    <2>5. CASE UnlockInstalls \/ \E n \in Nonces : CeremonyLoggedIn(n) \/ CeremonyPrf(n)
        BY <2>5, InstallsGood
    <2>6. CASE \E j \in {"unlock"} \cup Nonces : Export(j) \/ Arm(j)
        BY <2>6, ExportGood, ArmGood DEF Exporters
    <2>7. CASE OpenWindow \/ RecordPending \/ SetTimer \/ ExpireClears \/ ExpireTells
        BY <2>7, SetUpGood
    <2>8. CASE \E n \in Nonces : Mismatch(n) \/ Spend(n) \/ Recheck(n) \/ CeremonyLogin(n) \/ CeremonyTells(n)
        BY <2>8, CeremonyGood
    <2> QED BY <1>7, <2>1, <2>2, <2>3, <2>4, <2>5, <2>6, <2>7, <2>8 DEF Resume
<1> QED BY <1>1, <1>2, <1>3, <1>4, <1>5, <1>6, <1>7 DEF Next

-----------------------------------------------------------------------------
(* The requests of pages.                                                  *)

RequestShape == [at : Stages, uk : Handles, seen : Account \cup SUBSET Requests]

RequestTypes == request \in [Requests -> RequestShape]
UploadTypes == upload \in [Requests -> Uploads]
PageTypes ==
    /\ consent \in Requests \cup {None}
    /\ kept \subseteq Creates /\ stored \subseteq Creates
    /\ lapses \subseteq {"leak", "overwrite"}

ProviderGood ==
    /\ WorkerGood /\ RequestTypes /\ UploadTypes /\ PageTypes
    /\ RequestsInv /\ UploadsInv /\ GivenIsKept

\* Replacing one field of a request leaves the others.
LEMMA RequestReplaced ==
    /\ \A q \in RequestShape, x \in Stages :
          LET p == [q EXCEPT !.at = x] IN p \in RequestShape /\ p.at = x /\ p.uk = q.uk /\ p.seen = q.seen
    /\ \A q \in RequestShape, x \in Handles :
          LET p == [q EXCEPT !.uk = x] IN p \in RequestShape /\ p.at = q.at /\ p.uk = x /\ p.seen = q.seen
    /\ \A q \in RequestShape :
          LET p == [q EXCEPT !.at = "ready", !.uk = "current"] IN
              p \in RequestShape /\ p.at = "ready" /\ p.uk = "current" /\ p.seen = q.seen
    /\ \A x \in Stages : LET p == [NoRequest EXCEPT !.at = x] IN p \in RequestShape /\ p.at = x /\ p.uk = "none"
    /\ \A x \in Stages, u \in Handles, s \in Account \cup SUBSET Requests :
          LET p == [at |-> x, uk |-> u, seen |-> s] IN p \in RequestShape /\ p.at = x /\ p.uk = u /\ p.seen = s
<1>1. {"ready", "none"} \subseteq Stages /\ {"current", "none"} \subseteq Handles
    BY DEF Stages, Handles
<1>2. \A q \in RequestShape, x \in Stages :
          LET p == [q EXCEPT !.at = x] IN p \in RequestShape /\ p.at = x /\ p.uk = q.uk /\ p.seen = q.seen
    BY DEF RequestShape
<1>3. \A q \in RequestShape, x \in Handles :
          LET p == [q EXCEPT !.uk = x] IN p \in RequestShape /\ p.at = q.at /\ p.uk = x /\ p.seen = q.seen
    BY DEF RequestShape
<1>4. ASSUME NEW q \in RequestShape
      PROVE  LET p == [q EXCEPT !.at = "ready", !.uk = "current"] IN
              p \in RequestShape /\ p.at = "ready" /\ p.uk = "current" /\ p.seen = q.seen
    BY <1>1 DEF RequestShape
<1>5. \A x \in Stages : LET p == [NoRequest EXCEPT !.at = x] IN p \in RequestShape /\ p.at = x /\ p.uk = "none"
    BY <1>1 DEF RequestShape, NoRequest, Account
<1>6. \A x \in Stages, u \in Handles, s \in Account \cup SUBSET Requests :
          LET p == [at |-> x, uk |-> u, seen |-> s] IN p \in RequestShape /\ p.at = x /\ p.uk = u /\ p.seen = s
    BY DEF RequestShape
<1> QED BY <1>2, <1>3, <1>4, <1>5, <1>6

\* Replacing one field of an upload leaves the other.
LEMMA UploadReplaced ==
    /\ \A q \in Uploads, x \in {"none", "posting", "posted", "clearing"} :
          LET p == [q EXCEPT !.at = x] IN p \in Uploads /\ p.at = x /\ p.seen = q.seen
    /\ \A s \in SUBSET Requests :
          LET p == [at |-> "clearing", seen |-> s] IN p \in Uploads /\ p.at = "clearing" /\ p.seen = s
    /\ NoUpload \in Uploads /\ NoUpload.at = "none"
<1>1. \A q \in Uploads, x \in {"none", "posting", "posted", "clearing"} :
          LET p == [q EXCEPT !.at = x] IN p \in Uploads /\ p.at = x /\ p.seen = q.seen
    BY DEF Uploads
<1>2. \A s \in SUBSET Requests :
          LET p == [at |-> "clearing", seen |-> s] IN p \in Uploads /\ p.at = "clearing" /\ p.seen = s
    BY DEF Uploads
<1>3. NoUpload \in Uploads /\ NoUpload.at = "none"
    BY DEF Uploads, NoUpload
<1> QED BY <1>1, <1>2, <1>3

\* The request of one page changes.
LEMMA RequestStep ==
    ASSUME ProviderGood, NEW r \in Requests, NEW p \in RequestShape, request' = [request EXCEPT ![r] = p],
           alive' = TRUE \/ alive' = alive, key' = key, lapses \subseteq lapses',
           Holds(p, key # None, "leak" \in lapses'), p.at \notin {"none"} \cup Ended => alive',
           p.at = "keeping" => r \in Creates
    PROVE  RequestTypes' /\ RequestsInv' /\ request'[r] = p /\ \A q \in Requests \ {r} : request'[q] = request[q]
<1>1. RequestTypes /\ RequestsInv
    BY DEF ProviderGood
<1>2. RequestTypes' /\ request'[r] = p /\ \A q \in Requests \ {r} : request'[q] = request[q]
    BY <1>1 DEF RequestTypes
<1>3. ASSUME NEW q \in Requests
      PROVE  /\ Holds(request'[q], key' # None, "leak" \in lapses')
             /\ request'[q].at \notin {"none"} \cup Ended => alive'
             /\ request'[q].at = "keeping" => q \in Creates
    <2>1. CASE q = r
        BY <1>2, <2>1
    <2>2. CASE q # r
        <3>1. /\ Holds(request[q], key # None, "leak" \in lapses)
              /\ request[q].at \notin {"none"} \cup Ended => alive
              /\ request[q].at = "keeping" => q \in Creates
            BY <1>1 DEF RequestsInv, At
        <3>2. Holds(request[q], key # None, "leak" \in lapses')
            BY <3>1 DEF Holds
        <3> QED BY <1>2, <2>2, <3>1, <3>2
    <2> QED BY <2>1, <2>2
<1>4. RequestsInv'
    BY <1>3 DEF RequestsInv, At
<1> QED BY <1>2, <1>4

\* An upload goes on.
LEMMA UploadStep ==
    ASSUME ProviderGood, NEW r \in Requests, NEW p \in Uploads, upload' = [upload EXCEPT ![r] = p],
           stored \subseteq stored', p.at # "none" => r \in Creates, p.at \in {"posted", "clearing"} => r \in stored',
           p.at = "clearing" => p.seen \subseteq Creates
    PROVE  UploadTypes' /\ UploadsInv'
<1>1. UploadTypes /\ UploadsInv
    BY DEF ProviderGood
<1>2. UploadTypes' /\ upload'[r] = p /\ \A q \in Requests \ {r} : upload'[q] = upload[q]
    BY <1>1 DEF UploadTypes
<1>3. UploadsInv'
    BY <1>1, <1>2 DEF UploadsInv
<1> QED BY <1>2, <1>3

\* Moving one request keeps the invariant, if it holds what it must where it
\* stands.
LEMMA OneRequestGood ==
    ASSUME ProviderGood, NEW r \in Requests, NEW p \in RequestShape, request' = [request EXCEPT ![r] = p],
           WorkerGood', alive' = TRUE \/ alive' = alive, key' = key, UNCHANGED <<kept, upload, stored, lapses>>,
           consent' \in Requests \cup {None},
           Holds(p, key # None, "leak" \in lapses), p.at \notin {"none"} \cup Ended => alive',
           p.at = "keeping" => r \in Creates, p.at = "given" => r \notin Creates
    PROVE  ProviderGood'
<1>1. UploadTypes /\ PageTypes /\ UploadsInv /\ GivenIsKept
    BY DEF ProviderGood
<1>2. RequestTypes' /\ RequestsInv' /\ request'[r] = p /\ \A q \in Requests \ {r} : request'[q] = request[q]
    BY RequestStep
<1>3. UploadTypes' /\ PageTypes' /\ UploadsInv'
    BY <1>1 DEF UploadTypes, PageTypes, UploadsInv
<1>4. GivenIsKept'
    BY <1>1, <1>2, ProviderAssumption DEF GivenIsKept, At
<1> QED BY <1>2, <1>3, <1>4 DEF ProviderGood

\* A page's request keeps it.
LEMMA AskGood ==
    ASSUME ProviderGood, NEW r \in Requests, Ask(r)
    PROVE  ProviderGood'
<1>1. WorkerGood /\ PageTypes /\ UNCHANGED <<consent, kept, upload, stored, lapses, key>> /\ alive' = TRUE
    BY DEF ProviderGood, Ask
<1>2. WorkerGood'
    <2>1. HistoryTypes' /\ CeremonyTypes' /\ handed \subseteq handed'
        BY <1>1, GoodInParts, CeremonyKept DEF Ask, HistoryTypes
    <2> QED BY <1>1, <2>1, WakeStep DEF Ask
<1>3. envelope \in Account /\ None \in Account
    BY <1>1, GoodInParts DEF SessionTypes, Account
<1>4. PICK p : p = IF key # None THEN [at |-> "ready", uk |-> "current", seen |-> None]
                   ELSE [at |-> "asked", uk |-> "none", seen |-> envelope]
    OBVIOUS
<1>5. request' = [request EXCEPT ![r] = p]
    BY <1>4 DEF Ask
<1>6. /\ p \in RequestShape /\ p.at \in {"ready", "asked"} /\ p.seen \in Account
      /\ key # None => p.at = "ready" /\ p.uk = "current"
      /\ key = None => p.at = "asked" /\ p.uk = "none"
    <2>1. {"ready", "asked"} \subseteq Stages /\ {"current", "none"} \subseteq Handles
        BY DEF Stages, Handles
    <2> QED BY <1>3, <1>4, <2>1 DEF RequestShape
<1>7. Holds(p, key # None, "leak" \in lapses) /\ p.at # "keeping" /\ p.at # "given"
    BY <1>6 DEF Holds
<1>8. consent' \in Requests \cup {None}
    BY <1>1 DEF PageTypes
<1> QED BY <1>1, <1>2, <1>5, <1>6, <1>7, <1>8, OneRequestGood

\* So do the popup, the consent, the signature and the end of a request.
LEMMA RequestsGood ==
    ASSUME ProviderGood, NEW r \in Requests,
           \/ OpenPopup(r) \/ Subscribe(r) \/ GiveUp(r) \/ AskConsent(r) \/ Confirm(r) \/ Abandon(r)
           \/ Fail(r) \/ Sign(r) \/ Create(r)
    PROVE  ProviderGood'
<1>1. WorkerGood /\ PageTypes /\ RequestTypes /\ RequestsInv
    BY DEF ProviderGood
<1>2. Alone /\ UNCHANGED <<kept, upload, stored, lapses>> /\ consent' \in {consent, None, r}
    BY DEF OpenPopup, Subscribe, GiveUp, AskConsent, Confirm, Abandon, Fail, Sign, Create
<1>3. WorkerGood' /\ UNCHANGED <<alive, key>>
    BY <1>1, <1>2, QuietGood DEF Alone, sessionVars
<1>4. consent' \in Requests \cup {None}
    BY <1>1, <1>2 DEF PageTypes
<1>5. PICK o : o = request[r]
    OBVIOUS
<1>6. o \in RequestShape /\ Holds(o, key # None, "leak" \in lapses) /\ (o.at \notin {"none"} \cup Ended => alive)
    BY <1>1, <1>5 DEF RequestTypes, RequestsInv, At
<1>7. PICK p \in RequestShape :
          /\ request' = [request EXCEPT ![r] = p]
          /\ Holds(p, key # None, "leak" \in lapses) /\ (p.at \notin {"none"} \cup Ended => alive)
          /\ (p.at = "keeping" => r \in Creates) /\ (p.at = "given" => r \notin Creates)
    <2>1. CASE OpenPopup(r) \/ Subscribe(r) \/ AskConsent(r) \/ Confirm(r)
        <3>1. PICK x \in {"opening", "locked", "consent", "confirmed"} :
                  /\ request' = [request EXCEPT ![r].at = x]
                  /\ x \in {"opening", "locked"} => o.at \in {"asked", "opening"}
                  /\ x \in {"consent", "confirmed"} => o.at \in {"ready", "consent"}
            BY <1>5, <2>1 DEF OpenPopup, Subscribe, AskConsent, Confirm, Move, At
        <3> DEFINE p == [o EXCEPT !.at = x]
        <3>2. x \in Stages
            BY DEF Stages
        <3>3. p \in RequestShape /\ p.at = x /\ p.uk = o.uk /\ p.seen = o.seen
            BY <1>6, <3>2 DEF RequestShape
        <3>4. request' = [request EXCEPT ![r] = p]
            BY <1>5, <3>1
        <3> HIDE DEF p
        <3>5. Holds(p, key # None, "leak" \in lapses) /\ alive
            BY <1>6, <3>1, <3>3 DEF Holds, Ended
        <3>6. p.at # "keeping" /\ p.at # "given"
            BY <3>1, <3>3
        <3> QED BY <3>3, <3>4, <3>5, <3>6
    <2>2. CASE GiveUp(r) \/ Abandon(r) \/ Fail(r) \/ Sign(r)
        <3>1. PICK x \in {"refused", "failed", "given"} :
                  request' = [request EXCEPT ![r] = [NoRequest EXCEPT !.at = x]] /\ (x = "given" => r \notin Creates)
            BY <2>2 DEF GiveUp, Abandon, Fail, Sign, End
        <3> DEFINE p == [NoRequest EXCEPT !.at = x]
        <3>2. x \in Stages /\ x \in Ended
            BY DEF Stages, Ended
        <3>3. p \in RequestShape /\ p.at = x /\ p.uk = "none"
            BY <3>2, RequestReplaced
        <3>4. request' = [request EXCEPT ![r] = p]
            BY <3>1
        <3> HIDE DEF p
        <3>5. Holds(p, key # None, "leak" \in lapses)
            BY <3>1, <3>3 DEF Holds
        <3> QED BY <3>1, <3>2, <3>3, <3>4, <3>5
    <2>3. CASE Create(r)
        <3> DEFINE p == [at |-> "keeping", uk |-> "none", seen |-> kept]
        <3>1. "keeping" \in Stages /\ "none" \in Handles /\ kept \in SUBSET Creates /\ kept \in SUBSET Requests
            BY <1>1, ProviderAssumption DEF Stages, Handles, PageTypes
        <3>2. p \in RequestShape /\ p.at = "keeping" /\ p.uk = "none" /\ p.seen = kept
            BY <3>1, RequestReplaced
        <3>3. request' = [request EXCEPT ![r] = p] /\ r \in Creates /\ o.at = "confirmed"
            BY <1>5, <2>3 DEF Create, Signs, At
        <3> HIDE DEF p
        <3>4. Holds(p, key # None, "leak" \in lapses) /\ alive
            BY <1>6, <3>1, <3>2, <3>3 DEF Holds, Ended
        <3> QED BY <3>2, <3>3, <3>4
    <2> QED BY <2>1, <2>2, <2>3
<1> QED BY <1>2, <1>3, <1>4, <1>7, OneRequestGood

\* Keeping a new credential keeps it: the page is given it once it is kept.
LEMMA KeepCredentialGood ==
    ASSUME ProviderGood, NEW r \in Requests, KeepCredential(r)
    PROVE  ProviderGood'
<1>1. WorkerGood /\ PageTypes /\ RequestTypes /\ RequestsInv /\ UploadTypes /\ GivenIsKept
    BY DEF ProviderGood
<1>2. Alone /\ UNCHANGED <<consent, stored>>
    BY DEF KeepCredential
<1>3. WorkerGood' /\ UNCHANGED <<alive, key>>
    BY <1>1, <1>2, QuietGood DEF Alone, sessionVars
<1>4. PICK s : s = request[r].seen
    OBVIOUS
<1>5. request[r].at = "keeping"
    BY DEF KeepCredential, At
<1>6. s \subseteq Creates /\ r \in Creates
    BY <1>1, <1>4, <1>5 DEF RequestsInv, Holds, At
<1>7. kept' = s \cup {r} /\ lapses' = lapses \cup (IF kept = s THEN {} ELSE {"overwrite"})
    BY <1>4 DEF KeepCredential, WriteKept
<1>8. PageTypes' /\ lapses \subseteq lapses'
    BY <1>1, <1>2, <1>6, <1>7 DEF PageTypes
<1>9. RequestTypes' /\ RequestsInv' /\ \A q \in Requests \ {r} : request'[q] = request[q]
    <2> DEFINE p == [NoRequest EXCEPT !.at = "given"]
    <2>1. "given" \in Stages /\ "given" \in Ended
        BY DEF Stages, Ended
    <2>2. p \in RequestShape /\ p.at = "given" /\ p.uk = "none"
        BY <2>1, RequestReplaced
    <2>3. request' = [request EXCEPT ![r] = p]
        BY DEF KeepCredential, End
    <2> HIDE DEF p
    <2>4. Holds(p, key # None, "leak" \in lapses')
        BY <2>2 DEF Holds
    <2>5. p.at \notin {"none"} \cup Ended => alive'
        BY <2>1, <2>2
    <2>6. p.at # "keeping"
        BY <2>2
    <2> QED BY <1>3, <1>8, <2>2, <2>3, <2>4, <2>5, <2>6, RequestStep
<1>10. UploadTypes' /\ UploadsInv'
    <2>1. PICK u : u = upload[r]
        OBVIOUS
    <2> DEFINE p == [u EXCEPT !.at = "posting"]
    <2>2. u \in Uploads
        BY <1>1, <2>1 DEF UploadTypes
    <2>3. p \in Uploads /\ p.at = "posting"
        BY <2>2, UploadReplaced
    <2>4. upload' = [upload EXCEPT ![r] = p]
        BY <2>1 DEF KeepCredential
    <2> HIDE DEF p
    <2> QED BY <1>2, <1>6, <2>3, <2>4, UploadStep
<1>11. GivenIsKept'
    <2> SUFFICES ASSUME "overwrite" \notin lapses', NEW q \in Creates, request'[q].at = "given"
                 PROVE  q \in kept' \cup stored'
        BY DEF GivenIsKept, At
    <2>1. "overwrite" \notin lapses /\ kept' = kept \cup {r}
        BY <1>7
    <2>2. CASE q = r
        BY <2>1, <2>2
    <2>3. CASE q # r
        <3>1. request[q].at = "given"
            BY <1>9, <2>3, ProviderAssumption
        <3> QED BY <1>1, <1>2, <2>1, <3>1 DEF GivenIsKept, At
    <2> QED BY <2>2, <2>3
<1> QED BY <1>3, <1>8, <1>9, <1>10, <1>11 DEF ProviderGood

\* Uploading keeps it: an entry is cleared once the server has it.
LEMMA UploadsGood ==
    ASSUME ProviderGood, NEW r \in Requests, Post(r) \/ PostFails(r) \/ Posted(r) \/ ClearKept(r)
    PROVE  ProviderGood'
<1>1. WorkerGood /\ PageTypes /\ RequestTypes /\ RequestsInv /\ UploadTypes /\ UploadsInv /\ GivenIsKept
    BY DEF ProviderGood
<1>2. Alone /\ UNCHANGED <<request, consent>>
    BY DEF Post, PostFails, Posted, ClearKept
<1>3. WorkerGood' /\ UNCHANGED <<alive, key>>
    BY <1>1, <1>2, QuietGood DEF Alone, sessionVars
<1>4. PICK u : u = upload[r]
    OBVIOUS
<1>5. /\ u \in Uploads /\ (u.at # "none" => r \in Creates) /\ (u.at \in {"posted", "clearing"} => r \in stored)
      /\ (u.at = "clearing" => u.seen \subseteq Creates)
    BY <1>1, <1>4 DEF UploadTypes, UploadsInv
<1>6. r \in Creates /\ stored' \in {stored, stored \cup {r}} /\ stored' \subseteq Creates
    BY <1>1, <1>4, <1>5 DEF Post, PostFails, Posted, ClearKept, PageTypes
<1>7. /\ lapses \subseteq lapses' /\ lapses' \subseteq {"leak", "overwrite"}
      /\ "leak" \in lapses' <=> "leak" \in lapses
      /\ kept' \subseteq Creates
      /\ "overwrite" \notin lapses' => kept \ (kept' \cup stored') = {}
    <2>1. CASE UNCHANGED <<kept, lapses>>
        BY <1>1, <2>1 DEF PageTypes
    <2>2. CASE ClearKept(r)
        <3>1. /\ kept' = u.seen \ {r} /\ lapses' = lapses \cup (IF kept = u.seen THEN {} ELSE {"overwrite"})
              /\ u.at = "clearing" /\ stored' = stored
            BY <1>4, <2>2 DEF ClearKept, WriteKept
        <3> QED BY <1>1, <1>5, <3>1 DEF PageTypes
    <2> QED BY <2>1, <2>2 DEF Post, PostFails, Posted
<1>8. RequestTypes' /\ PageTypes'
    BY <1>1, <1>2, <1>6, <1>7 DEF RequestTypes, PageTypes
<1>9. RequestsInv'
    BY <1>1, <1>2, <1>3, <1>7 DEF RequestsInv, At
<1>10. GivenIsKept'
    BY <1>1, <1>2, <1>6, <1>7 DEF GivenIsKept, At
<1>11. PICK p \in Uploads : /\ upload' = [upload EXCEPT ![r] = p]
                            /\ (p.at \in {"posted", "clearing"} => r \in stored')
                            /\ (p.at = "clearing" => p.seen \subseteq Creates)
    <2>1. CASE Post(r)
        <3> DEFINE p == [u EXCEPT !.at = "posted"]
        <3>1. p \in Uploads /\ p.at = "posted"
            BY <1>5, UploadReplaced
        <3>2. upload' = [upload EXCEPT ![r] = p] /\ stored' = stored \cup {r}
            BY <1>4, <2>1 DEF Post
        <3> HIDE DEF p
        <3> QED BY <3>1, <3>2
    <2>2. CASE PostFails(r) \/ ClearKept(r)
        <3>1. upload' = [upload EXCEPT ![r] = NoUpload]
            BY <2>2 DEF PostFails, ClearKept
        <3> QED BY <3>1, UploadReplaced
    <2>3. CASE Posted(r)
        <3> DEFINE p == [at |-> "clearing", seen |-> kept]
        <3>1. kept \in SUBSET Requests /\ kept \subseteq Creates
            BY <1>1, ProviderAssumption DEF PageTypes
        <3>2. p \in Uploads /\ p.at = "clearing" /\ p.seen = kept
            BY <3>1, UploadReplaced
        <3>3. upload' = [upload EXCEPT ![r] = p] /\ stored' = stored /\ u.at = "posted"
            BY <1>4, <2>3 DEF Posted
        <3> HIDE DEF p
        <3> QED BY <1>5, <3>1, <3>2, <3>3
    <2> QED BY <2>1, <2>2, <2>3
<1>12. UploadTypes' /\ UploadsInv'
    BY <1>6, <1>11, UploadStep
<1> QED BY <1>3, <1>8, <1>9, <1>10, <1>12 DEF ProviderGood

\* Taking the key for a request keeps it: the handle is the live one.
LEMMA HydrateGood ==
    ASSUME ProviderGood, NEW r \in Requests, Hydrate(r)
    PROVE  ProviderGood'
<1>1. WorkerGood /\ PageTypes /\ RequestTypes /\ RequestsInv /\ UploadTypes /\ UploadsInv /\ GivenIsKept
    BY DEF ProviderGood
<1>2. /\ UNCHANGED <<alive, at, note, meta, envelope, alarm, ceremony, events>>
      /\ UNCHANGED <<consent, kept, upload, stored>>
    BY DEF Hydrate
<1>3. PICK s : s = request[r].seen
    OBVIOUS
<1>4. request[r].at = "asked" /\ s # None /\ Import(s)
    BY <1>3 DEF Hydrate, At
<1>5. s \in Accounts /\ alive = TRUE
    <2>1. s \in Account /\ alive
        BY <1>1, <1>3, <1>4 DEF RequestsInv, Holds, At, Ended
    <2>2. alive \in BOOLEAN
        BY <1>1, GoodInParts DEF SessionTypes
    <2> QED BY <1>4, <2>1, <2>2 DEF Account
<1>6. WorkerGood'
    <2>1. HandlerTypes' /\ (\A k \in Jobs : Steady(k)) /\ (Timed => Timed')
        BY <1>1, <1>2, GoodInParts DEF HandlerTypes, Steady, Timed
    <2>2. (\A k \in Jobs : at'[k] = "exporting" => at[k] = "exporting")
          /\ (at'["signOut"] # "idle" => at["signOut"] # "idle")
        BY <1>2
    <2> QED BY <1>1, <1>2, <1>4, <1>5, <2>1, <2>2, ImportStep
<1>7. key' # None
    <2>1. PICK k : k = [of |-> s, by |-> None]
        OBVIOUS
    <2>2. k # None
        BY <1>5, <2>1, KeyShape
    <2> QED BY <1>4, <2>1, <2>2 DEF Import
<1>8. lapses' = lapses \cup (IF key # None THEN {"leak"} ELSE {})
    BY DEF Hydrate
<1>9. PageTypes' /\ UploadTypes' /\ UploadsInv'
    BY <1>1, <1>2, <1>8 DEF PageTypes, UploadTypes, UploadsInv
<1> DEFINE new == [at |-> "ready", uk |-> "current", seen |-> None]
<1>10. new \in RequestShape /\ new.at = "ready" /\ new.uk = "current"
    BY DEF RequestShape, Stages, Handles, Account
<1> DEFINE next(q) == IF q = r THEN new
                      ELSE IF key # None /\ request[q].uk = "current" THEN [request[q] EXCEPT !.uk = "leaked"]
                      ELSE request[q]
<1>11. request' = [q \in Requests |-> next(q)]
    BY DEF Hydrate
<1>12. ASSUME NEW q \in Requests
       PROVE  /\ next(q) \in RequestShape
              /\ Holds(next(q), key' # None, "leak" \in lapses')
              /\ next(q).at \notin {"none"} \cup Ended => alive'
              /\ next(q).at = "keeping" => q \in Creates
              /\ next(q).at = "given" => request[q].at = "given"
    <2>1. PICK o : o = request[q]
        OBVIOUS
    <2>2. /\ o \in RequestShape /\ Holds(o, key # None, "leak" \in lapses)
          /\ (o.at \notin {"none"} \cup Ended => alive) /\ (o.at = "keeping" => q \in Creates)
        BY <1>1, <2>1 DEF RequestTypes, RequestsInv, At
    <2>3. CASE q = r
        <3>1. next(q) = new
            BY <2>3
        <3> HIDE DEF next, new
        <3> QED BY <1>2, <1>5, <1>7, <1>10, <3>1 DEF Holds
    <2>4. CASE q # r /\ key # None /\ o.uk = "current"
        <3> DEFINE p == [o EXCEPT !.uk = "leaked"]
        <3>1. next(q) = p
            BY <2>1, <2>4
        <3>2. p \in RequestShape /\ p.at = o.at /\ p.uk = "leaked" /\ p.seen = o.seen
            BY <2>2, RequestReplaced DEF Handles
        <3>3. "leak" \in lapses'
            BY <1>8, <2>4
        <3> HIDE DEF next, new, p
        <3> QED BY <1>2, <2>1, <2>2, <2>4, <3>1, <3>2, <3>3 DEF Holds
    <2>5. CASE q # r /\ ~(key # None /\ o.uk = "current")
        <3>1. next(q) = o
            BY <2>1, <2>5
        <3> HIDE DEF next, new
        <3> QED BY <1>2, <1>7, <1>8, <2>1, <2>2, <3>1 DEF Holds
    <2> QED BY <2>3, <2>4, <2>5
<1> HIDE DEF next, new
<1>13. RequestTypes' /\ RequestsInv'
    BY <1>11, <1>12 DEF RequestTypes, RequestsInv, At
<1>14. GivenIsKept'
    BY <1>1, <1>2, <1>8, <1>11, <1>12, ProviderAssumption DEF GivenIsKept, At
<1> QED BY <1>6, <1>9, <1>13, <1>14 DEF ProviderGood

\* A step of the worker keeps it: a lock frees the handles requests hold, a
\* crash ends the requests.
LEMMA WorkerStepGood ==
    ASSUME ProviderGood, WorkerStep
    PROVE  ProviderGood'
<1>1. WorkerGood /\ PageTypes /\ RequestTypes /\ RequestsInv /\ UploadTypes /\ UploadsInv /\ GivenIsKept
    BY DEF ProviderGood
<1>2. WorkerGood' /\ alive \in BOOLEAN /\ alive' \in BOOLEAN
    <2>1. WorkerGood'
        BY <1>1, WorkerGoodNext DEF WorkerStep
    <2>2. alive' \in BOOLEAN
        BY <2>1 DEF WorkerGood, TypeOK
    <2> QED BY <1>1, <2>1, <2>2 DEF WorkerGood, TypeOK
<1>3. UNCHANGED <<consent, kept, stored>> /\ lapses' = lapses \cup (IF Overwrites THEN {"leak"} ELSE {})
    BY DEF WorkerStep
<1>4. PageTypes'
    BY <1>1, <1>3 DEF PageTypes
<1>5. UploadTypes' /\ UploadsInv'
    <2>1. CASE alive /\ ~alive'
        <3>1. upload' = [q \in Requests |-> NoUpload]
            BY <2>1 DEF WorkerStep
        <3> QED BY <3>1, UploadReplaced DEF UploadTypes, UploadsInv
    <2>2. CASE ~(alive /\ ~alive')
        BY <1>1, <1>3, <2>2 DEF WorkerStep, UploadTypes, UploadsInv
    <2> QED BY <2>1, <2>2
<1>6. ASSUME NEW q \in Requests
      PROVE  /\ request'[q] \in RequestShape
             /\ Holds(request'[q], key' # None, "leak" \in lapses')
             /\ request'[q].at \notin {"none"} \cup Ended => alive'
             /\ request'[q].at = "keeping" => q \in Creates
             /\ request'[q].at = "given" => request[q].at = "given"
    <2>1. PICK o : o = request[q]
        OBVIOUS
    <2>2. /\ o \in RequestShape /\ Holds(o, key # None, "leak" \in lapses)
          /\ (o.at \notin {"none"} \cup Ended => alive) /\ (o.at = "keeping" => q \in Creates)
        BY <1>1, <2>1 DEF RequestTypes, RequestsInv, At
    <2>3. CASE alive /\ ~alive'
        <3>1. request'[q] = Lost(o)
            BY <2>1, <2>3 DEF WorkerStep
        <3>2. CASE o.at = "none" \/ o.at \in Ended
            <4>1. request'[q] = o /\ o.uk = "none" /\ o.at \notin {"asked", "keeping"}
                BY <2>2, <3>1, <3>2 DEF Lost, Holds, Ended
            <4> QED BY <2>1, <2>2, <3>2, <4>1 DEF Holds
        <3>3. CASE ~(o.at = "none" \/ o.at \in Ended)
            <4> DEFINE p == [NoRequest EXCEPT !.at = "lost"]
            <4>1. p \in RequestShape /\ p.at = "lost" /\ p.uk = "none" /\ "lost" \in Ended
                BY RequestReplaced DEF Stages, Ended
            <4>2. request'[q] = p
                BY <3>1, <3>3 DEF Lost
            <4> HIDE DEF p
            <4> QED BY <4>1, <4>2 DEF Holds
        <3> QED BY <3>2, <3>3
    <2>4. CASE ~(alive /\ ~alive')
        <3>1. request'[q] = Seen(o) /\ (alive => alive')
            BY <2>1, <2>4, <1>2 DEF WorkerStep
        <3>2. CASE o.at = "locked" /\ Tells /\ key' # None
            <4> DEFINE p == [o EXCEPT !.at = "ready", !.uk = "current"]
            <4>1. p \in RequestShape /\ p.at = "ready" /\ p.uk = "current"
                BY <2>2, RequestReplaced
            <4>2. request'[q] = p
                BY <3>1, <3>2 DEF Seen
            <4>3. alive'
                BY <2>2, <3>1, <3>2 DEF Ended
            <4> HIDE DEF p
            <4> QED BY <3>2, <4>1, <4>2, <4>3 DEF Holds
        <3>3. CASE o.at = "locked" /\ Tells /\ key' = None
            <4> DEFINE p == [o EXCEPT !.at = "asked", !.seen = envelope']
            <4>1. envelope' \in Account
                BY <1>2 DEF WorkerGood, TypeOK
            <4>2. /\ p \in RequestShape /\ p.at = "asked" /\ p.uk = o.uk /\ p.seen \in Account
                  /\ o.uk = "none" /\ alive'
                BY <2>2, <3>1, <3>3, <4>1 DEF RequestShape, Holds, Stages, Handles, Ended
            <4>3. request'[q] \in {o, p}
                BY <3>1, <3>3 DEF Seen
            <4> HIDE DEF p
            <4> QED BY <2>1, <2>2, <3>3, <4>2, <4>3 DEF Holds
        <3>4. CASE ~(o.at = "locked" /\ Tells) /\ o.uk = "current" /\ (Frees \/ Overwrites)
            <4>0. PICK x \in {"freed", "leaked"} :
                      request'[q] = [o EXCEPT !.uk = x] /\ (x = "leaked" => "leak" \in lapses')
                BY <1>3, <3>1, <3>4 DEF Seen
            <4> DEFINE p == [o EXCEPT !.uk = x]
            <4>1. p \in RequestShape /\ p.at = o.at /\ p.uk = x /\ p.seen = o.seen
                BY <2>2 DEF RequestShape, Handles
            <4>2. request'[q] = p
                BY <4>0
            <4> HIDE DEF p
            <4> QED BY <2>1, <2>2, <3>1, <3>4, <4>0, <4>1, <4>2 DEF Holds
        <3>5. CASE ~(o.at = "locked" /\ Tells) /\ (o.uk = "current" => ~Frees /\ ~Overwrites)
            <4>1. request'[q] = o
                BY <3>1, <3>5 DEF Seen
            <4>2. o.uk = "current" /\ key # None => key' # None
                BY <3>5 DEF Frees
            <4>3. "leak" \in lapses => "leak" \in lapses'
                BY <1>3
            <4> QED BY <2>1, <2>2, <3>1, <4>1, <4>2, <4>3 DEF Holds
        <3> QED BY <3>2, <3>3, <3>4, <3>5
    <2> QED BY <2>3, <2>4
<1>7. request' = [q \in Requests |-> request'[q]]
    BY DEF WorkerStep
<1>8. RequestTypes' /\ RequestsInv'
    BY <1>6, <1>7 DEF RequestTypes, RequestsInv, At
<1>9. GivenIsKept'
    BY <1>1, <1>3, <1>6, ProviderAssumption DEF GivenIsKept, At
<1> QED BY <1>2, <1>4, <1>5, <1>8, <1>9 DEF ProviderGood

-----------------------------------------------------------------------------
(* The theorems, of the worker alone and with pages that ask of it.        *)

\* The invariant of the worker implies its two safety properties.
LEMMA GoodSafe ==
    ASSUME WorkerGood
    PROVE  UnlockedIsTimed /\ OneSession
<1>1. SessionTypes /\ Handled /\ OfSession /\ OnClock
    BY GoodInParts
<1>2. UnlockedIsTimed
    <2> SUFFICES ASSUME \A j \in Jobs : at[j] = "idle", key # None, OnTime
                 PROVE  alarm
        BY DEF UnlockedIsTimed, Quiet, Busy, OnTime, Uncrossed
    <2>1. key.by \in Jobs \cup {None} /\ Exporters \subseteq Jobs /\ "wake" \in Jobs
        BY <1>1, KeyShape, JobNames DEF SessionTypes
    <2>2. key.by = None
        BY <1>1, <2>1 DEF Handled
    <2>3. Timed
        BY <1>1, <2>2 DEF OnClock
    <2> QED BY <2>1, <2>3 DEF Timed
<1>3. OneSession
    BY <1>1 DEF OneSession, BelongsTo, OfSession, Own, OnTime, Uncrossed
<1> QED BY <1>2, <1>3

\* The invariant of worker and requests holds when the browser starts.
LEMMA ProviderGoodInit ==
    ASSUME Init, ProviderInit
    PROVE  ProviderGood
<1>1. WorkerGood
    BY WorkerGoodInit
<1>2. NoRequest \in RequestShape /\ NoRequest.at = "none" /\ NoRequest.uk = "none"
    BY DEF NoRequest, RequestShape, Stages, Handles, Account
<1>3. RequestTypes /\ RequestsInv
    BY <1>2 DEF ProviderInit, RequestTypes, RequestsInv, Holds, At
<1>4. UploadTypes /\ UploadsInv
    BY UploadReplaced DEF ProviderInit, UploadTypes, UploadsInv
<1>5. PageTypes
    BY DEF ProviderInit, PageTypes
<1>6. GivenIsKept
    BY <1>2, ProviderAssumption DEF ProviderInit, GivenIsKept, At
<1> QED BY <1>1, <1>3, <1>4, <1>5, <1>6 DEF ProviderGood

\* Every step of either keeps it.
LEMMA ProviderGoodNext ==
    ASSUME ProviderGood, [ProviderNext]_<<sessionVars, providerVars>>
    PROVE  ProviderGood'
<1>1. CASE WorkerStep
    BY <1>1, WorkerStepGood
<1>2. ASSUME NEW r \in Requests, Ask(r) \/ Proceed(r) \/ Confirm(r)
      PROVE  ProviderGood'
    BY <1>2, AskGood, RequestsGood, HydrateGood, KeepCredentialGood DEF Proceed
<1>3. ASSUME NEW r \in Requests, Post(r) \/ PostFails(r) \/ Posted(r) \/ ClearKept(r)
      PROVE  ProviderGood'
    BY <1>3, UploadsGood
<1>4. CASE UNCHANGED <<sessionVars, providerVars>>
    <2>1. WorkerGood'
        BY <1>4, QuietGood DEF ProviderGood
    <2>2. UNCHANGED providerVars /\ UNCHANGED <<key, alive>>
        BY <1>4 DEF sessionVars
    <2> QED BY <2>1, <2>2 DEF ProviderGood, providerVars, RequestTypes, UploadTypes, PageTypes, RequestsInv, UploadsInv,
                              GivenIsKept, At
<1> QED BY <1>1, <1>2, <1>3, <1>4 DEF ProviderNext

\* The worker, alone or with pages that ask, keeps its invariant.
LEMMA WorkerStaysGood == Spec \/ ProviderSpec => []WorkerGood
<1>1. Spec => []WorkerGood
    <2>1. WorkerGood /\ [Next]_sessionVars => WorkerGood'
        BY WorkerGoodNext
    <2> QED BY <2>1, WorkerGoodInit, PTL DEF Spec
<1>2. Init /\ ProviderInit /\ [][ProviderNext]_<<sessionVars, providerVars>> => []ProviderGood
    BY ProviderGoodInit, ProviderGoodNext, PTL
<1>3. ProviderGood => WorkerGood
    BY DEF ProviderGood
<1> QED BY <1>1, <1>2, <1>3, PTL DEF ProviderSpec

\* The requests keep theirs.
LEMMA ProviderStaysGood == ProviderSpec => []ProviderGood
BY ProviderGoodInit, ProviderGoodNext, PTL DEF ProviderSpec

\* The worker's variables and the requests of pages keep their types.
THEOREM TypeCorrect == ProviderSpec => []ProviderTypeOK
<1>1. ProviderGood => ProviderTypeOK
    BY DEF ProviderGood, WorkerGood, RequestTypes, UploadTypes, PageTypes, RequestShape, ProviderTypeOK
<1> QED BY <1>1, ProviderStaysGood, PTL

\* A vault that is unlocked and rests has its auto-lock alarm armed: an unlock
\* arms it last, and a worker that is started again re-arms it.
THEOREM UnlockedVaultsLock == Spec \/ ProviderSpec => []UnlockedIsTimed
<1>1. WorkerGood => UnlockedIsTimed
    BY GoodSafe
<1> QED BY <1>1, WorkerStaysGood, PTL

\* A key that is live or stored has a session, and is of the session's account
\* or of one whose key the web app handed to an unlock of that very session:
\* no half-finished unlock, lock, sign-out or crash leaves another.
THEOREM KeysAreOfTheSession == Spec \/ ProviderSpec => []OneSession
<1>1. WorkerGood => OneSession
    BY GoodSafe
<1> QED BY <1>1, WorkerStaysGood, PTL

\* A credential that a page was given is kept until the server has it, unless
\* two changes of the map of kept credentials overlapped.
THEOREM CredentialsAreKept == ProviderSpec => []GivenIsKept
<1>1. ProviderGood => GivenIsKept
    BY DEF ProviderGood
<1> QED BY <1>1, ProviderStaysGood, PTL

\* A page's request signs or makes a credential only while a key is live, or with
\* a handle that a second import left unfreed.
THEOREM SigningNeedsTheKey == ProviderSpec => SignsOnlyUnlocked
<1>1. ProviderGood => \A r \in Requests : Signs(r) => key # None \/ "leak" \in lapses
    <2> SUFFICES ASSUME ProviderGood, NEW r \in Requests, Signs(r)
                 PROVE  key # None \/ "leak" \in lapses
        OBVIOUS
    <2>1. request[r] \in RequestShape /\ Holds(request[r], key # None, "leak" \in lapses)
        BY DEF ProviderGood, RequestTypes, RequestsInv
    <2>2. request[r].uk \in Handles /\ request[r].at = "confirmed" /\ request[r].uk # "freed"
        BY <2>1 DEF RequestShape, Signs, At
    <2> QED BY <2>1, <2>2 DEF Holds, Handles
<1> DEFINE signs == \A r \in Requests : Signs(r) => key # None \/ "leak" \in lapses
<1>2. signs => [\A r \in Requests : Signs(r) /\ At(r)' \in {"given", "keeping"} =>
                    key # None \/ "leak" \in lapses]_<<sessionVars, providerVars>>
    OBVIOUS
<1> QED BY <1>1, <1>2, ProviderStaysGood, PTL DEF SignsOnlyUnlocked
================================================================================
