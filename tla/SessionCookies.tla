--------------------------- MODULE SessionCookies ---------------------------
(***************************************************************************)
(* Browsers, their two session cookies and proxy.ts in front of            *)
(* SessionTable.  Only what a cookie jar holds is ever presented; an       *)
(* answer travels back for a while, may overtake another one, and may be   *)
(* lost on the way.                                                        *)
(***************************************************************************)
EXTENDS SessionTable

CONSTANTS Browser,
          Doors,   \* what expired access tokens run into: "page" (or a
                    \* POST to /api/v1/auth/refresh), "/auth", "/panel"
          Latency,  \* a request is answered within Latency of being sent
          Lossy     \* whether an answer may be lost

ASSUME BrowserAssumption == None \notin Browser
ASSUME DoorsAssumption == Doors \subseteq {"page", "/auth", "/panel"}
ASSUME NetworkAssumption == Latency \in Nat /\ Lossy \in BOOLEAN

VARIABLES jar,      \* the refresh cookie of each browser
          access,   \* whether it holds a valid access token
          mail,     \* whose request each one is, for what, sent when
          dropped   \* history: browsers that missed a rotated cookie

browserVars == <<jar, access, dropped>>
allVars == <<vars, jar, access, mail, dropped>>

NoMail == [by |-> None, visit |-> "page", sent |-> 0]

CookiesTypeOK ==
  /\ TypeOK
  /\ jar \in [Browser -> Sid \cup {None}]
  /\ access \in [Browser -> BOOLEAN]
  /\ mail \in [Tx -> [by : Browser \cup {None},
                      visit : {"page", "/auth", "/panel"},
                      sent : 0..MaxTime]]
  /\ dropped \subseteq Browser

CookiesInit == /\ Init
               /\ jar = [b \in Browser |-> None]
               /\ access = [b \in Browser |-> FALSE]
               /\ mail = [r \in Tx |-> NoMail]
               /\ dropped = {}

InFlight(b) == {r \in Tx : mail[r].by = b}
\* Mutant: the time it is due is noted, not the time it was sent.
SendsDue(b, r, v) == mail' = [mail EXCEPT ![r] = [by |-> b, visit |-> v, sent |-> now + Grace]]
Sends(b, r, v) == mail' = [mail EXCEPT ![r] = [by |-> b, visit |-> v, sent |-> now]]
-----------------------------------------------------------------------------
(* proxy.ts on a request without a valid access token: one refresh.        *)
Visit(b, r, v) == /\ ~access[b] /\ jar[b] # None
                  /\ BeginRefresh(r, jar[b])
                  /\ Sends(b, r, v)
                  /\ UNCHANGED browserVars

(* The sign-in page is only shown to a browser without a session.          *)
BrowserSignsIn(b, r) ==
  /\ ~access[b] /\ jar[b] = None
  /\ BeginLogin(r)
  /\ Sends(b, r, "page")
  /\ UNCHANGED browserVars

(* POST /api/v1/auth/logout: the proxy leaves its cookies alone.           *)
BrowserSignsOut(b, r) ==
  /\ jar[b] # None
  /\ BeginLogout(r, jar[b])
  /\ Sends(b, r, "page")
  /\ UNCHANGED browserVars

(* change-password, and DELETE /api/v1/auth/sessions: requireUser first.   *)
BrowserSignsOutEverywhere(b, r) ==
  /\ access[b] /\ ~isBanned
  /\ BeginRevokeAll(r)
  /\ Sends(b, r, "page")
  /\ UNCHANGED browserVars

AdminBans(r) == Ban(r) /\ UNCHANGED <<browserVars, mail>>

(* Whether the answer's cookies are on the response the proxy returns: the *)
(* two redirects of proxy.ts are new responses without them.               *)
Redirected(r) == \/ mail[r].visit = "/auth" /\ tx[r].pc \in {"rotated", "race"}
                 \/ mail[r].visit = "/panel" /\ tx[r].pc \in {"none", "reuse", "failed"}

Store(b, cookie, valid) == /\ jar' = [jar EXCEPT ![b] = cookie]
                           /\ access' = [access EXCEPT ![b] = valid]

\* Mutant: only the access cookie of a rotation is written.
SetCookiesAccessOnly(b, r) ==
  IF At(r, "failed") \/ Redirected(r)
  THEN UNCHANGED <<jar, access>>
  ELSE \/ At(r, "issued") /\ Store(b, tx[r].heir, TRUE)
       \/ tx[r].pc \in {"race", "rotated"} /\ Store(b, jar[b], TRUE)
       \/ tx[r].pc \in {"none", "reuse", "loggedOut"} /\ Store(b, None, FALSE)

SetCookies(b, r) ==
  IF At(r, "failed") \/ Redirected(r)
  THEN UNCHANGED <<jar, access>>
  ELSE \/ tx[r].pc \in {"rotated", "issued"} /\ Store(b, tx[r].heir, TRUE)
       \/ At(r, "race") /\ Store(b, jar[b], TRUE)
       \/ tx[r].pc \in {"none", "reuse", "loggedOut"} /\ Store(b, None, FALSE)

Misses(b) == dropped' = dropped \cup {b}

Deliver(b, r) ==
  /\ mail[r].by = b
  /\ Finish(r)
  /\ SetCookies(b, r)
  /\ mail' = [mail EXCEPT ![r] = NoMail]
  /\ IF At(r, "rotated") /\ Redirected(r) THEN Misses(b) ELSE UNCHANGED dropped

(* The tab is closed or the connection breaks; the server has done its     *)
(* part.                                                                   *)
Lose(b, r) ==
  /\ Lossy
  /\ mail[r].by = b
  /\ Finish(r)
  /\ mail' = [mail EXCEPT ![r] = NoMail]
  /\ IF At(r, "rotated") THEN Misses(b) ELSE UNCHANGED dropped
  /\ UNCHANGED <<jar, access>>

AdminAnswered(r) == mail[r].by = None /\ Finish(r) /\ UNCHANGED <<browserVars, mail>>

(* The fifteen minutes of an access token outlast every request that was   *)
(* in flight when it was stored.                                           *)
AccessExpires(b) == /\ access[b] /\ InFlight(b) = {}
                    /\ access' = [access EXCEPT ![b] = FALSE]
                    /\ UNCHANGED <<vars, jar, mail, dropped>>

(* The clock does not outrun a request in flight.                          *)
ClockTicks == /\ \A b \in Browser : \A r \in InFlight(b) : now < mail[r].sent + Latency
              /\ Tick
              /\ UNCHANGED <<browserVars, mail>>

CookiesNext ==
  \/ \E r \in Tx :
       \/ \E b \in Browser :
            \/ \E v \in Doors : Visit(b, r, v)
            \/ BrowserSignsIn(b, r) \/ BrowserSignsOut(b, r) \/ BrowserSignsOutEverywhere(b, r)
            \/ Deliver(b, r) \/ Lose(b, r)
       \/ AdminBans(r) \/ AdminAnswered(r)
       \/ (Serve(r) \/ Fail(r) \/ LogoutFail(r)) /\ UNCHANGED <<browserVars, mail>>
  \/ \E b \in Browser : AccessExpires(b)
  \/ Unban /\ UNCHANGED <<browserVars, mail>>
  \/ ClockTicks

CookiesSpec == CookiesInit /\ [][CookiesNext]_allVars
-----------------------------------------------------------------------------
(* Properties.                                                             *)

(* A burnt token is taken for a stolen one, and a usable session dies.     *)
KillsSession(r) == At(r, "reusing") /\ \E s \in tx[r].snap : ~Expired(s, now)

(* "Until the answer to the first one arrives ... the window only has to   *)
(* cover the seconds of being on the way" (session.ts:91-94).  As long as  *)
(* the grace window is longer than two journeys (2 * Latency < Grace), a   *)
(* browser whose rotated cookies all arrived is never taken for a thief,   *)
(* however its tabs' requests interleave.                                  *)
ReuseOnlyAfterDrop ==
  \A r \in Tx, b \in Browser :
     KillsSession(r) /\ mail[r].by = b => b \in dropped

(* A browser at rest holds the newest token of its sign-in: no order of    *)
(* answers leaves it with a burnt one.                                     *)
JarHoldsTip ==
  \A b \in Browser \ dropped :
     InFlight(b) = {} /\ jar[b] # None => ~Rotated(jar[b])
-----------------------------------------------------------------------------
(* Claims of the repository's comments that the code does not keep.        *)

(* "If this cookie does not land on the response, the browser is left with *)
(* a dead string and the next refresh reads as reuse" (proxy.ts:200-202):  *)
(* the proxy sees to it, so no answer of its own makes a browser look like *)
(* a thief.                                                                *)
NoFalseReuse == \A r \in Tx : ~KillsSession(r)
=============================================================================
