------------------------------- MODULE Caches -------------------------------
(***************************************************************************)
(* The three caches of the program that hold a value of the server and are *)
(* dropped when somebody changes it:                                       *)
(*   "settings"      getSetting, setSetting and clearSetting of            *)
(*                   lib/settings/index.ts, one key;                       *)
(*   "availability"  cachedAvailability and invalidateAvailability, with   *)
(*                   the three administrator actions that call it;         *)
(*   "me"            the user of the page, lib/auth/use-current-user.ts,   *)
(*                   with the components that show it.                     *)
(* They have one shape: a value with its age, a read on its way that       *)
(* others may wait for, and a drop.  What differs is named by subject.     *)
(* Values are version numbers of what the server holds; Guest is the user  *)
(* nobody, which the browser may store without asking.                     *)
(***************************************************************************)
EXTENDS Naturals

CONSTANTS Readers,      \* callers of the read, or components that show the user
          Flights,      \* reads on their way
          NoFlight,
          CacheTtl,     \* 60 s for both server caches
          ReadTime,     \* the longest a read takes
          MaxTick,      \* bound of the model: length of time
          MaxVersion    \* bound of the model: number of changes

ASSUME CachesAssumption ==
    /\ CacheTtl \in Nat \ {0} /\ ReadTime \in Nat
    /\ MaxTick \in Nat /\ MaxVersion \in Nat \ {0}
    /\ NoFlight \notin Flights

VARIABLES subject,   \* which of the three
          tick,
          version,   \* what the server holds
          replaced,  \* history: when a version stopped being current
          cache,     \* the value kept, whether there is one, and since when
          slot,      \* inFlight: the read that callers may share
          flight,    \* every read, the callers that wait for it, and whether
                     \* it was asked for by refreshCurrentUser (tell)
          reader,    \* what a caller was answered last, and when
          change,    \* the change under way; quiet: no read overlapped it
          floor,     \* history: the version of the last quiet change
          calm       \* history: the last drop ended a quiet change

cachesVars == <<subject, tick, version, replaced, cache, slot, flight, reader,
                change, floor, calm>>

Subjects == {"settings", "availability", "me"}
Guest    == 0
Versions == 1..MaxVersion
Values   == {Guest} \cup Versions

Empty    == [full |-> FALSE, v |-> Guest, at |-> 0]
Grounded == [st |-> "free", v |-> Guest, since |-> 0, wait |-> {}, tell |-> FALSE]
Away     == [st |-> "away", v |-> Guest, at |-> 0]
NoChange == [st |-> "idle", how |-> "write first", quiet |-> TRUE]

InAir     == {f \in Flights : flight[f].st # "free"}
Waits(r)  == \E f \in Flights : r \in flight[f].wait
Shows(v)  == [st |-> "has", v |-> v, at |-> tick]

\* Mutant: the end of the time is noted, not its beginning.
KeptUntil(v) == [full |-> TRUE, v |-> v, at |-> tick + CacheTtl]

Kept(v) == [full |-> TRUE, v |-> v, at |-> tick]

CachesInit ==
    /\ subject \in Subjects
    /\ tick = 0
    /\ version = 1
    /\ replaced = [v \in Versions |-> MaxTick]
    /\ cache = Empty
    /\ slot = NoFlight
    /\ flight = [f \in Flights |-> Grounded]
    /\ reader = [r \in Readers |-> Away]
    /\ change = NoChange
    /\ floor = 1
    /\ calm = TRUE

-----------------------------------------------------------------------------
(* Reading.                                                                *)

UsableForEver == cache.full

\* The value kept is given out: by its age on the server, always in the page.
Usable == cache.full /\ (subject = "me" \/ tick < cache.at + CacheTtl)

\* Concurrent readers share the read in flight, except those of a setting.
Shares == subject # "settings"

\* A caller begins to read; one that waits already is not a new caller.  In
\* the page a component reads once, when it is mounted.
MayRead(r) == ~Waits(r) /\ (subject = "me" => reader[r].st = "away")

Hit(r) ==
    /\ MayRead(r) /\ Usable
    /\ reader' = [reader EXCEPT ![r] = Shows(cache.v)]
    /\ UNCHANGED <<subject, tick, version, replaced, cache, slot, flight, change, floor, calm>>

Loading(r) == [reader EXCEPT ![r] = [st |-> "loading", v |-> Guest, at |-> 0]]

Join(r) ==
    /\ MayRead(r) /\ ~Usable /\ Shares /\ slot # NoFlight
    /\ flight' = [flight EXCEPT ![slot].wait = @ \cup {r}]
    /\ reader' = Loading(r)
    /\ UNCHANGED <<subject, tick, version, replaced, cache, slot, change, floor, calm>>

Asked(who, tell) ==
    [st |-> "asked", v |-> Guest, since |-> tick, wait |-> who, tell |-> tell]

\* A read that sets out while a change is under way disturbs it.
Ask(r) ==
    /\ MayRead(r) /\ ~Usable /\ (Shares => slot = NoFlight)
    /\ \E f \in Flights \ InAir :
        /\ flight' = [flight EXCEPT ![f] = Asked({r}, FALSE)]
        /\ slot' = IF Shares THEN f ELSE slot
    /\ reader' = Loading(r)
    /\ change' = IF change.st = "idle" THEN change ELSE [change EXCEPT !.quiet = FALSE]
    /\ UNCHANGED <<subject, tick, version, replaced, cache, floor, calm>>

\* The select, or the handler of /me, sees what is committed.
ServerReads(f) ==
    /\ flight[f].st = "asked"
    /\ flight' = [flight EXCEPT ![f].st = "answered", ![f].v = version]
    /\ UNCHANGED <<subject, tick, version, replaced, cache, slot, reader, change, floor, calm>>

\* A failed read rejects; fetchUser instead makes a guest of it.
ServerFails(f) ==
    /\ flight[f].st = "asked"
    /\ flight' = [flight EXCEPT ![f].st = IF subject = "me" THEN "answered" ELSE "failed"]
    /\ UNCHANGED <<subject, tick, version, replaced, cache, slot, reader, change, floor, calm>>

ToldWaitersOnly(f) == flight[f].wait

\* refreshCurrentUser tells every mounted component, the others only whoever waits.
Told(f) ==
    flight[f].wait \cup {r \in Readers : flight[f].tell /\ reader[r].st # "away"}

\* The answer arrives: it is stored, whatever was dropped meanwhile.
Land(f) ==
    /\ flight[f].st = "answered"
    /\ cache' = Kept(flight[f].v)
    /\ reader' = [r \in Readers |-> IF r \in Told(f) THEN Shows(flight[f].v) ELSE reader[r]]
    /\ flight' = [flight EXCEPT ![f] = Grounded]
    /\ slot' = IF Shares THEN NoFlight ELSE slot
    /\ UNCHANGED <<subject, tick, version, replaced, change, floor, calm>>

Reject(f) ==
    /\ flight[f].st = "failed"
    /\ reader' = [r \in Readers |-> IF r \in flight[f].wait THEN Away ELSE reader[r]]
    /\ flight' = [flight EXCEPT ![f] = Grounded]
    /\ slot' = IF Shares THEN NoFlight ELSE slot
    /\ UNCHANGED <<subject, tick, version, replaced, cache, change, floor, calm>>

\* A component is unmounted: no longer alive, no longer a listener.
Unmount(r) ==
    /\ subject = "me" /\ reader[r].st # "away"
    /\ reader' = [reader EXCEPT ![r] = Away]
    /\ flight' = [f \in Flights |-> [flight[f] EXCEPT !.wait = @ \ {r}]]
    /\ UNCHANGED <<subject, tick, version, replaced, cache, slot, change, floor, calm>>

-----------------------------------------------------------------------------
(* Changing.  setSetting, clearSetting and gcAdminSetPublished write first *)
(* and drop then; gcAdminSave and gcAdminDelete drop first; in the page a  *)
(* change of the account is followed by refreshCurrentUser and a sign-out  *)
(* by clearCurrentUser.                                                    *)

Ways == CASE subject = "settings"     -> {"write first"}
          [] subject = "availability" -> {"write first", "drop first"}
          [] subject = "me"           -> {"write first", "sign out"}

BeginChange(how) ==
    /\ change.st = "idle"
    /\ how \in Ways
    /\ change' = [st |-> IF how = "drop first" THEN "drop" ELSE "write",
                  how |-> how, quiet |-> InAir = {}]
    /\ UNCHANGED <<subject, tick, version, replaced, cache, slot, flight, reader, floor, calm>>

\* After the last step of a change: what a quiet one promises.
Over(next, v) ==
    /\ change' = IF next = "idle" THEN NoChange ELSE [change EXCEPT !.st = next]
    /\ floor' = IF next = "idle" /\ change.quiet THEN v ELSE floor
    /\ calm' = IF next = "idle" THEN change.quiet ELSE calm

Write ==
    /\ change.st = "write"
    /\ version < MaxVersion
    /\ version' = version + 1
    /\ replaced' = [replaced EXCEPT ![version] = tick]
    /\ Over(IF change.how = "drop first" THEN "idle" ELSE "drop", version')
    /\ UNCHANGED <<subject, tick, cache, slot, flight, reader>>

\* The statement fails, or in the page the request or its answer is lost:
\* nothing is dropped, except by a sign-out.
WriteFails ==
    /\ change.st = "write"
    /\ IF change.how = "sign out"
       THEN change' = [change EXCEPT !.st = "drop"]
       ELSE change' = NoChange
    /\ UNCHANGED <<subject, tick, version, replaced, cache, slot, flight, reader, floor, calm>>

AnswerLost ==
    /\ subject = "me" /\ change.st = "drop" /\ change.how = "write first"
    /\ change' = NoChange
    /\ UNCHANGED <<subject, tick, version, replaced, cache, slot, flight, reader, floor, calm>>

DropNothing == subject # "me" /\ UNCHANGED <<cache, slot, flight, reader>>

\* cache.delete(key); invalidateAvailability, which leaves inFlight alone.
DropOnServer ==
    /\ subject # "me"
    /\ cache' = Empty
    /\ UNCHANGED <<slot, flight, reader>>

\* refreshCurrentUser: forget, ask anew, tell everyone.
RefreshUser ==
    /\ subject = "me" /\ change.how = "write first"
    /\ cache' = Empty
    /\ \E f \in Flights \ InAir :
        /\ flight' = [flight EXCEPT ![f] = Asked({}, TRUE)]
        /\ slot' = f
    /\ UNCHANGED reader

\* clearCurrentUser: nobody is signed in, everyone is told.
Clear ==
    /\ subject = "me" /\ change.how = "sign out"
    /\ cache' = Kept(Guest)
    /\ slot' = NoFlight
    /\ reader' = [r \in Readers |-> IF reader[r].st = "away" THEN Away ELSE Shows(Guest)]
    /\ UNCHANGED flight

Drop ==
    /\ change.st = "drop"
    /\ DropOnServer \/ RefreshUser \/ Clear
    /\ Over(IF change.how = "drop first" THEN "write" ELSE "idle", version)
    /\ UNCHANGED <<subject, tick, version, replaced>>

\* No read takes longer than ReadTime.  The page keeps its user without an age.
CachesTick ==
    /\ subject # "me" /\ tick < MaxTick
    /\ \A f \in InAir : tick < flight[f].since + ReadTime
    /\ tick' = tick + 1
    /\ UNCHANGED <<subject, version, replaced, cache, slot, flight, reader, change, floor, calm>>

CachesNext ==
    \/ \E r \in Readers : Hit(r) \/ Join(r) \/ Ask(r) \/ Unmount(r)
    \/ \E f \in Flights : ServerReads(f) \/ ServerFails(f) \/ Land(f) \/ Reject(f)
    \/ \E how \in {"write first", "drop first", "sign out"} : BeginChange(how)
    \/ Write \/ WriteFails \/ AnswerLost \/ Drop \/ CachesTick

CachesSpec == CachesInit /\ [][CachesNext]_cachesVars

-----------------------------------------------------------------------------
CachesTypeOK ==
    /\ subject \in Subjects
    /\ tick \in 0..MaxTick
    /\ version \in Versions
    /\ replaced \in [Versions -> 0..MaxTick]
    /\ cache \in [full : BOOLEAN, v : Values, at : 0..MaxTick]
    /\ slot \in Flights \cup {NoFlight}
    /\ flight \in [Flights -> [st : {"free", "asked", "answered", "failed"}, v : Values,
                               since : 0..MaxTick, wait : SUBSET Readers, tell : BOOLEAN]]
    /\ reader \in [Readers -> [st : {"away", "loading", "has"}, v : Values, at : 0..MaxTick]]
    /\ change \in [st : {"idle", "write", "drop"},
                   how : {"write first", "drop first", "sign out"}, quiet : BOOLEAN]
    /\ floor \in Versions
    /\ calm \in BOOLEAN

\* However reads, drops and changes overlap, what a caller of the server's
\* caches is given was current at some moment of the last CacheTtl + ReadTime.
\* (A read that a drop overtook is stored as fresh, which adds the ReadTime.)
StaleForABoundedTime ==
    \A r \in Readers :
        (subject # "me" /\ reader[r].st = "has" /\ reader[r].v # version)
            => replaced[reader[r].v] + CacheTtl + ReadTime > reader[r].at

\* After a change that no read overlapped, nothing older than it is kept or
\* on its way, until the next change.
QuietChangeIsSeen ==
    cache.full => cache.v = Guest \/ cache.v >= floor

\* With nothing on its way and no change that a read overlapped, every
\* component shows the user that the page keeps.
ComponentsAgree ==
    (subject = "me" /\ InAir = {} /\ calm)
        => \A r \in Readers : reader[r].st = "has" => cache.full /\ reader[r].v = cache.v

-----------------------------------------------------------------------------
(* Why they hold.                                                          *)

\* Nothing is newer than what the server holds; nobody is a guest but in the
\* page, where a read does not fail; a change goes one of its subject's ways.
KeptIsReal ==
    /\ floor <= version /\ cache.v <= version
    /\ (subject # "me" /\ cache.full) => cache.v # Guest

ReadsAreReal ==
    \A f \in Flights :
        /\ flight[f].v <= version
        /\ (subject # "me" /\ flight[f].st = "answered") => flight[f].v # Guest
        /\ subject = "me" => flight[f].st # "failed"
        /\ flight[f].st = "asked" => flight[f].v = Guest

ShownIsReal ==
    \A r \in Readers :
        /\ reader[r].v <= version
        /\ (subject # "me" /\ reader[r].st = "has") => reader[r].v # Guest

ChangeIsReal == change.st # "idle" => change.how \in Ways

\* A read that was answered with an old value set out before it was replaced,
\* and is not longer on its way than ReadTime.
AgesAreSound ==
    /\ \A f \in InAir : flight[f].since <= tick /\ tick <= flight[f].since + ReadTime
    /\ \A r \in Readers : reader[r].at <= tick
    /\ cache.at <= tick
    /\ subject # "me" =>
        /\ \A f \in Flights :
            (flight[f].st = "answered" /\ flight[f].v # version)
                => replaced[flight[f].v] >= flight[f].since
        /\ (cache.full /\ cache.v # version) => replaced[cache.v] + ReadTime >= cache.at

\* During a quiet change nothing is on its way, and between a drop that comes
\* first and its write nothing is kept.
QuietIsQuiet ==
    /\ (change.st # "idle" /\ change.quiet) =>
        /\ InAir = {}
        /\ (change.how = "drop first" /\ change.st = "write") => ~cache.full
    /\ \A f \in Flights :
        flight[f].st = "answered" => flight[f].v = Guest \/ flight[f].v >= floor

\* In the page, after a quiet change: one read at most, which will tell whoever
\* shows somebody, or else nothing but what is kept is shown.
PageIsCalm ==
    (subject = "me" /\ calm) =>
        /\ InAir = (IF slot = NoFlight THEN {} ELSE {slot})
        /\ slot # NoFlight =>
            ~cache.full /\ (flight[slot].tell \/ \A r \in Readers : reader[r].st # "has")
        /\ slot = NoFlight =>
            \A r \in Readers : reader[r].st = "has" => cache.full /\ reader[r].v = cache.v

CachesInv ==
    /\ CachesTypeOK /\ KeptIsReal /\ ReadsAreReal /\ ShownIsReal /\ ChangeIsReal
    /\ AgesAreSound /\ QuietIsQuiet /\ PageIsCalm
    /\ StaleForABoundedTime /\ QuietChangeIsSeen
=============================================================================
