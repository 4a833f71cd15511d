# Sarva: TLA+ specifications

Sarva (`src/`) is a Persian-poetry learning site: one Next.js application in front of one
Postgres database, with browser-side games whose state machines are pure reducers driven by
timers. These modules specify the parts of it whose correctness depends on the order in
which things happen: statements of concurrent requests, answers on their way to a browser,
timers against clicks. TLC checks them on small instances, TLAPS proves the safety
properties that matter most for every value of the constants.

## 1. Inventory

Status: **M** modelled, **P** partly, **–** not modelled (why: section 8).

| Component | State it keeps | Operations | Hard about it | Correct when | |
|---|---|---|---|---|---|
| Sessions and refresh-token rotation (`lib/auth/session.ts`, `proxy.ts`, the auth routes) | table `sessions`, `users.is_banned`, two cookies per browser | refresh, sign-in, sign-out, revoke everything, ban, unban | READ COMMITTED statements racing on a row; answers that overtake each other or are lost; the grace window | one usable token per sign-in, a closed sign-in stays closed, a healthy browser is never taken for a thief, every request is answered, a circle of waiting transactions takes two revocations | M |
| Bookmark flags (`lib/panel/bookmark-store.ts`, `BookmarkButton.tsx`, `/api/v1/bookmarks`) | module-level store per area, table `user_bookmarks` | batched read, toggle, settle | one slot for the request in flight, awaited by many; optimistic writes that settle out of order | the newest wish is shown, at rest the screen agrees with the table, nobody waits for ever | P |
| Rapid Aruz game (`lib/aruz-rapid/machine.ts` and its hooks) | the reducer's record, timers by key, listeners | load, arm, answer, deadline, pause, resume, restart, exit | keys, taps, alarms, visibility and React commits in any order | the clock counts interactive time, one outcome per attempt, the game never hangs | M |
| Email codes (`lib/auth/otp.ts`, two routes) | table `email_otps`, `users.email_verified_at` | issue, check | check-then-insert in separate statements, bursts of guesses, a statement of several failing | limited guesses, dead codes stay dead, limited issues | M |
| Password reset, change of the password (`forgot-password`, `reset-password`, `change-password`) | table `password_resets`, `users.password_hash` | issue a link, redeem it, change | the same shape of issue as the codes; a redeemed link and a change then revoke all sessions, in statements of their own | one change per link, no sign-in older than the change survives, unless it was under way | M |
| Registration and Google sign-in (`register`, `lib/auth/oauth/`) | `users`, `user_identities`, flow cookies | register, start, callback, link or create | two callbacks of one account, a registration in between | every user has a way in | P (without the flow cookies and the talk with Google) |
| Rate limits (`lib/api/rate-limit-db.ts`, `rate-limit.ts`) | `rate_limits` rows; a map in memory | hit, reset, sweep | little: a hit is one statement under the row lock | never more hits allowed in a window than the limit | – |
| Invalidated caches (`lib/settings/index.ts`, `availability-cache.ts`, `use-current-user.ts`) | a value with an age, a read in flight | get, set and invalidate, clear | a read that began before an invalidation and stores its value after it | after an invalidation nobody gets the older value for long | M |
| Grammar Circuit (`lib/grammar-circuit/reducer.ts`, `GrammarCircuitGame.tsx` and its hooks) | placements, phase, run id, results; timers, a current on the screen | select, place, lift, drag, check, correct, clear, next, restart, exit | timed sequences that dispatch for an old run, drags and loads that outlive what they began in | a verdict belongs to the board it is shown on, nobody is locked into a dead end, no sequence stays for ever | M |
| Admission of its questions (`validator.ts`, `matching.ts`) | a queue of states | search, augmenting paths | order of slots and roles | what is admitted can be solved from wherever right choices lead | P |
| Aruz Bridge (`lib/aruz-bridge/machine.ts`, `useAruzBridgeGame.ts`, `AruzBridgeGame.tsx`) | phase machine with an epoch, one timer, the scene | load, start, countdown, answer, time-out, review, back | a key, a tap and the end of the answer window on one step; a run that waits for the scene | one judgement per step, every run ends | M |
| Poetry club (`lib/club/`, `migrations/001_init.sql`) | poems, threads of comments, likes, two numbers kept by triggers | create, edit, moderate, like, comment, delete, report | a trigger that counts on its statement's snapshot and then waits; a reply to what is deleted meanwhile | numbers agree with rows, threads are one level deep | P (without reports, featured poems, limits) |
| Exams (`lib/exam/`, `app/exam/`) | exam content, `exam_attempts` | grade a part, save an attempt | bounds of scores | a score never exceeds its paper | – |
| Rhythm quiz, Jasoos, Ninja, Literary Pairs | answers, scores | answer, save a round | little: upserts and one transaction | – | – |
| User administration (`lib/admin/user-actions.ts`) | roles, bans | set role, ban, unban, delete | counting administrators before deleting one; the right is read before it is used | one administrator remains | M |
| Guest quota (`lib/guest/`) | counters in localStorage | record a round | a run that begins before it is known who plays; tabs | a reminder, not a control, says the source | P (one tab, Aruz Bridge) |
| Aruz engine, lessons, seeds | constant data | ranking, validation | data, not order | – | – |
| Database access, HTTP layer, mail, SMS, storage, logs, SEO, pages | – | – | – | – | – |

How they interact: browsers call server components, actions and routes; `proxy.ts` refreshes
the session in front of every page and most routes; the routes share nothing but Postgres and
a few module-level caches of one process; the games live in one tab and call the server only to
load questions and save results. Bookmarks, codes, resets and the club all go through
`requireUser`, i.e. through the sessions.

The `hazards` of `PROJECT.json` list what is hard to test, each at its line, with the properties
that cover it or the reason why none does.

## 2. Modules

| Module | What it is |
|---|---|
| `LoginFamily` | abstract specification of one sign-in: opens once, keeps its deadline, never reopens |
| `SessionTable` | the `sessions` table of a user and every server-side operation on it |
| `SessionCookies` | EXTENDS `SessionTable`: browsers, cookie jars, `proxy.ts`, delivery and loss of answers |
| `BookmarkStore` | one area of the bookmark store, its buttons, its routes and table |
| `RapidAruz` | the game's reducer with the effects and listeners around it |
| `EmailCodes` | `email_otps` of one address with `issueOtp`, `checkOtp` and their routes |
| `Accounts` | the `users` table and everybody who writes it: registration, sign-in, Google, passwords, links, administrators |
| `Caches` | the three caches that are dropped on a change: settings, availability, the user of the page |
| `Club` | poems, likes, comments and the triggers that count them |
| `Server` | `Accounts`, `SessionCookies` and `EmailCodes` side by side, for one run |
| `Tables` | `SessionTable`, `Club` and `Caches` side by side, for one run |
| `GrammarCircuit` | the reducer, its timers, drags and loads |
| `Matching` | `hasFullAssignment` as a machine that takes one turn of a loop per step, beside what it should tell (`Assignable`) |
| `ChoiceSearch` | EXTENDS `Matching`: `isChoiceSafe`, the search that admits questions, beside what it decides |
| `AruzBridge` | the phase machine with its hook, its countdown and the guest quota |
| `Pages` | `BookmarkStore`, `GrammarCircuit`, `ChoiceSearch` and `AruzBridge` side by side, for one run |
| `MC…` | small sets and symmetry for TLC |
| `SessionProofs`, `RapidAruzProofs`, `EmailCodesProofs`, `MatchingProofs`, `PageGamesProofs` | theorems and proofs about one component each (`MatchingProofs`: the admission of questions; `PageGamesProofs`: the two games of a page) |
| `ServerProofs`, `TablesProofs`, `PagesProofs` | theorems about `Accounts`, about `Club` and `Caches`, about `BookmarkStore`; and that what is proved of the parts holds of `Server`, `Tables`, `Pages` |

### Sessions

`SessionTable`: a row stands for its refresh token, since the hash is a key and the raw value is
never stored. `tx` holds the requests in flight; a request is one action per statement or, where
a transaction holds a row lock, one action for taking the lock and one for the commit:

| Action | Code |
|---|---|
| `BeginRefresh`, `RefreshNone/Rotate/Race/Reuse` | `refreshSession` up to the branch it takes, with the row locked by `for update`; `now()` was read at some moment between arrival and lock |
| `RefreshCommit` | insert of the heir, update of the row, commit |
| `RaceAnswer` | the user read outside the transaction on the grace path |
| `ReuseCommit` | the update of the whole family, once all its rows are locked |
| `LockRow` | an UPDATE of several rows takes the next of them, in any order, waits for it, and keeps those it has |
| `BeginLogin`, `CreateSession` | the login route: user read, password verified, session inserted later |
| `BeginLogout`, `Logout`, `LogoutFail` | `revokeSessionByToken` and its swallowed failure |
| `BeginRevokeAll`, `RevokeAll` | `revokeAllSessions`: the rows are picked on a snapshot, locked one after the other (`LockRow`), and looked at again under their locks; then `createSession` where the route has one |
| `Ban`, `BeginBanRevoke`, `Unban` | `adminSetUserBanned` |
| `Fail`, `Finish` | rollback or a 429; the answer leaves the server |
| `BreakDeadlock` | Postgres' detector: one of the requests that wait for each other in a circle (`Awaits`, `Circle`) gets an error |

Two revocations of everything may take their rows in different orders and wait for each other: such a circle
is reachable in the model, as in Postgres. `OnlyRevocationsDeadlock` says that it takes two of them. A refresh
or a sign-out waits for one row before it holds any; a detected reuse holds the row it was presented and waits
for rows of its family that were live in its snapshot, of which there is one at most, the newest, so that what
two reuses wait for leads along one chain and never back. Only `revokeAllSessions` names rows of several
families. What is left to the detector is `BreakDeadlock`, and with it `EveryRequestAnswered` holds: no
transaction ends without letting go of its rows, and none waits for one that never ends.

Simplifications: one user (every query names a hash, an id, a family or a user); a family is named
by its first row instead of a second random id; a failure rolls back (a commit that succeeds and is
reported as failed is left out).

`SessionCookies` lets browsers present only what is in their jar. `Visit` is the proxy's refresh on
`page`, `/auth` or `/panel`; `SetCookies` and `Redirected` say which answers carry cookies; `Deliver`
and `Lose` finish a request in any order. It assumes that a journey takes at most `Latency`, that
`2 * Latency < Grace` (`ROTATION_GRACE_SECONDS` is 30, so a journey of less than 15 seconds), and
that an access token outlasts the requests that were in flight when it was stored.

### Bookmarks

A call of `preloadBookmarks` is cut at its awaits: `Preload` (up to the first await), `Resume` (after
somebody else's request), `ServerReads`/`ReadFails`, `Receive` (the continuation and the `finally`).
A click is `Click`, `ServerWrites`/`WriteFails`/`AnswerLost`, `Settle`. Several buttons may show one
flag. A write that fails for the browser and reaches the table later is not modelled (the write is
done when the answer is lost, never afterwards). The history variables say which flags had overlapping
requests.

### Rapid Aruz

`state` is the reducer's record. The effects belong to the last commit: `shown` is what they know, and
`Render` brings it up to date, so an event may meet a newer state than its listener knew. `spent` is, by
kind of wait, the key whose `useSuspendableTimeout` entry is done; `Fire` ends a wait, `Render` replaces
an entry whose key changed. Time is a count of ticks; `elapsed` is the time since `activeSince`; `Tick`
stops at the deadline, after which nothing depends on how long ago it was. Left out: reveal progress,
sound, layout, session totals and response-time lists. `activeAccum` starts from 0 with each run's first
unit because only differences of it are used.

The pause listeners and the exit of the top bar are there while the board is drawn (`BoardVisible`: from the
wait for the font to the end of a question). `away` is what really keeps the player from the board, `missed` the
reasons in `pauseReasons` that ended while nobody listened: coming back to the results is not heard.
`GameGoesOn` excuses a pause only while one of its reasons is still there (`Excused`), or a game that is out of
runs; the reasons in `missed` are `GoesOnAfterReturn`'s subject.

### Email codes

Every statement is an action: `Limits`, `Void`, `Insert` of `issueOtp`; `Pick` (the subselect, on the
statement's snapshot), `Count` (the update, which sees the row under its lock), `Burn`, `Consume`,
`Verify` of a check. (`minute` is its clock.) Any of them may fail and nothing is taken back. A row stands for its digits. The
limit per device depends on the codes of other addresses: it may refuse at any time (`ipFull`). Whoever
can read `email_otps` through the administrator's SQL console can write it as well; that is outside.

### Accounts

A user is an address. `visitor` holds the requests in flight, each at the statement it waits for, with
what it has read: the user, the administrator who asks, the deed.

| Action | Code |
|---|---|
| `Login`, `SignIn` | `login/route.ts` up to the comparison of the password; `createSession` later |
| `Register` | the insert with `on conflict do nothing`, then its session |
| `GoogleFinds`, `GoogleLinks`, `GoogleCreates` | `link-account.ts`: known identity, user with the verified address, nobody; the last is one transaction |
| `ChangePassword`, `WritePassword`, `RevokeSessions` | `change-password`; each statement is a transaction of its own |
| `ForgotPassword`, `VoidLinks`, `InsertLink`, `LinkExpires`, `ResetPassword` | `forgot-password`, `reset-password`: the link is used up and the password written in one transaction, the sessions are revoked after it |
| `Administer`, `LookAtTarget`, `CountAdmins`, `Act` | `requireAdmin` and the refusals about oneself, the read of the target, the count before a deletion, the write |
| `Breaks` | any statement fails, and what was committed stays |

History variables: an *era* of a user ends when everybody signed in has to go out, and a session is
known by the era in which its right was read; `cleared` is the era since which nothing older is live;
`saw` the links that existed when a request voided them; `stale` says that an administrator's right was
used after it was lost. Rotations are `SessionTable`'s subject. Two `users` of one address are excluded
by the unique index.

### Caches

`subject` is one of three caches of one shape: `cache` (value, age), `slot` (the read that callers share;
settings do not share), `flight` (reads on their way), `change` (the change under way, with the order of
its write and its drop). `Hit`, `Join`, `Ask`, `ServerReads`, `ServerFails`, `Land`, `Reject` are a read;
`BeginChange`, `Write`, `WriteFails`, `Drop` (`cache.delete`, `invalidateAvailability`,
`refreshCurrentUser`, `clearCurrentUser`) and `AnswerLost` a change; `Unmount` is a component's. Values
are version numbers; `replaced` remembers when a version stopped being current. One process: another
process' cache is outside the model.

### Poetry club

A write of a like or a comment is `call[r]`, in two steps: its statement takes the rows and its trigger
counts (`Counts`, with `CountAfter` as what that snapshot shows), and `Commit` makes rows and number
visible once the poem's row is free. A transaction that waits there keeps its count: READ COMMITTED
evaluates the update again on the new row, and the subselect still on the old snapshot.

| Action | Code |
|---|---|
| `CreatePoem`, `EditPoem`, `DeletePoem`, `SetPoemStatus` | one statement each; an edit sends the poem back to the queue; a deletion cascades |
| `Unlike`, `MissesLike`, `FindsPublished`, `InsertLike` | the statements of `toggleClubLike`'s transaction, with the primary key that waits and refuses |
| `Comment`, `Aim`, `InsertRemark` | `createClubComment`: the poem, the comment that is answered, the insert, each a transaction of its own; `Root` is the thread's root |
| `Decide`, `DropRemark` | the administrator's decision; a deletion with its cascade to replies and its `set null` of references |
| `CallFails` | nothing found, a key violated, a deadlock that Postgres ends: rolled back |

Pending and rejected are one status, `held`: nothing but the queue tells them apart. Which deletions
count more than once is `CountsAgain`: the triggers of the rows that go along run first and take the
poem's row, so the last count sees everything. `blurred` is history: the numbers whose last count was
overtaken by a commit. Left out: reports, featured poems, the limits, and the rows that go with a
deleted user.

### Grammar Circuit and its questions

`circuit` is the reducer's state (with `starting` of the component), `drawn` what React committed last.
Player actions are discrete events: guarded by `drawn`, applied to `circuit`, committed at once (`Draw`).
Timers and loads change `circuit` alone until `Commit`. `diagnosis`, `fizzle` and `light` are the timers
of a check, a failure and a success: `Draw` clears those of another run or phase, `LooksChange` tears them
down and starts them again as React does when the motion setting or the size changes. `hand` is a drag,
`loads` the `startSession` calls in flight. Left out: hints, sound, the animation's geometry, saving.

A question is its slots' accepted roles and its pieces' roles; the game is given those that are
`Admitted`, defined by what `hasCompleteAssignment` and `isChoiceSafe` decide. `ChoiceSearch` is how they
decide it: `Visit` pops one state of the search and tries its placements, held against `ByLogic`. The test
it asks, `HasFullAssignment`, is Kuhn's algorithm: `path` holds the calls of `tryAssign` that are open, and a
`Step` begins a slot's turn (`NextTurn`), tries a role (`Try`), calls one of its holders (`AskHolder`) or
returns false (`GiveUp`); a call that returns true ends all that are open, each taking the role it tried
(`Settled`). The code goes through slots, roles and holders in the order of their lists; the model takes
them in an order that it leaves open, since the answer does not depend on it. It is held against `Assignable`. A question without a slot, or with more than
`MAX_SLOTS` = 16 of them, is refused before the search; such questions are not among the `Problems`.

### Aruz Bridge

`bridge` is the machine, `shown` the committed one; `ticking` the timer of the shown state. `Answer` is a
key, a click or a tap; `TimerFires` the end of any phase, the answer window included; both may meet one
step before `Render`. `BeginRun`, `PoolArrives`, `PoolFails` are `beginRun` with its load, `MarkSceneReady`
and `CountdownDone` what a run waits for. `Sides` are the sides that `prepareSteps` may draw: each follows its
lot unless the same side came `SideRun` times just before (`Seated`).
`rounds`, `user` and `endedRef` are `useGuestRounds` in one tab.

### Sums

`Server`, `Tables` and `Pages` put modules side by side that share no variable: `side` or `part` chooses
one of them at the start, and the others stay in one initial state. A behaviour of the sum is a behaviour
of one part, so one run checks the properties of all of them, and nothing is claimed about their interplay.
`Tables` looks at the club's likes and at its comments one kind at a time: they write different columns
of the poem's row, and what a transaction counted does not change while it waits for one of the other kind.
Sides of `Tables` and `Server` (requests; and session rows, users, links and codes) share model values, which saves the checker permutations and means nothing.

## 3. Runs

| Run | Instance | Checks and shows |
|---|---|---|
| `tables` | sessions: 3 rows, 2 requests, Grace 1, Ttl 2, clock 0..2; club: 1 poem, 3 comments, 2 readers, 2 calls; caches: 2 readers, 3 flights, CacheTtl 2, ReadTime 1, clock 0..4, 3 versions; symmetry | `TablesTypeOK`; `OneTipPerFamily`, `ChainIsSound`, `RevokedOnce`, `ImplementsLoginFamily`: no interleaving of refresh, sign-in, sign-out, revocation and ban breaks a rotation chain or reopens a sign-in; `OnlyRevocationsDeadlock`: only revocations of everything wait for each other in a circle; `NumbersCatchUp`, `ThreadsAreShallow`; `StaleForABoundedTime`, `QuietChangeIsSeen`, `ComponentsAgree` |
| `tables_live` | sessions: 3 rows, 2 requests, clock at 0, no symmetry; the other sides as small as can be | `EveryRequestAnswered`: with row locks taken one after the other and a detector that breaks circles, no request waits for ever |
| `session_revoke_all` (violation) | the same sessions | `NobodyStaysSignedIn` |
| `session_cookies_redirect` (violation) | one browser | `NoFalseReuse` |
| `bookmark_old_answer` (violation) | 1 flag | `OldAnswerYields` |
| `rapid_aruz` | 2 questions of 2 units, two pause reasons, 4 runs, 1 resume | `ClockIsInteractive`, `EveryRunIsCounted`, `OneOutcomeEach`, `GameGoesOn` |
| `rapid_aruz_after_exit` (violation) | smaller | `GoesOnAfterExit` |
| `rapid_aruz_after_return` (violation) | 1 question of 1 unit, a tab that may be hidden, 1 resume | `GoesOnAfterReturn` |
| `server` | accounts: 2 users, 2 links, 4 requests, 2 at a time, 2 new eras; browsers: 2 rows, 2 requests, one browser, Grace 3, Ttl 4, Latency 1, clock 0..3, losses; codes: 3 rows, 2 requests, 2 guesses, 1 issue in a window of 3, CodeTtl 2, clock 0..3; symmetry | `ServerTypeOK`; `SurvivorsAreNew`, `LinksOnlyMeetInFlight`, `PanelStaysOpen`, `EveryUserHasAWayIn`; `ReuseOnlyAfterDrop`, `JarHoldsTip`; `GuessesAreLimited`, `DeadCodesStayDead`, `IssuesAreLimited`, `ConfirmedByACode` |
| `server_last_admin` (violation) | the same accounts | `LastAdminStays` |
| `club_likes` (violation) | 1 poem, 1 comment, 2 readers, 2 calls | `LikesAreRight` |
| `pages` | 1 flag, 2 buttons, 3 calls, 2 clicks; 2 slots, 2 pieces, 2 roles, 3 questions (two solutions, one, solvable but not safe), sessions of 2, 2 loads, 6 runs; every question of up to 3 slots and 3 roles of capacity 2 for the search; 2 bridge questions, 2 steps, 1 round, 2 starts | `PagesTypeOK`; `LatestWishShown`, `AgreesWhenQuiet`, `NothingHangs`; `VerdictsFitTheBoard`, `LightMeansSolved`, `LockedBoardIsSolvable`, `ResultsTell`, `SequencesEnd`; `SearchDecides`; `RunTally`, `GuestStops`, `EveryRunEnds` |

Why the bounds are enough to be interesting: two requests are what every race of the code takes
(three calls for bookmarks, so that two wait for one); three rows give a rotated row, its heir and the
heir's heir or a second sign-in; in `server` a row outlives the grace (Ttl 4, Grace 3) and the
clock reaches its end, so that a browser which lost its heir is taken for a thief while the heir is alive
(`NoFalseReuse` is violated on this instance, and `ReuseOnlyAfterDrop` says after what), and none expires before; rows that expire are in `tables`, whose
clock reaches the ends of grace and lifetime; in `tables_live` it stands still, since a lock does not
depend on it; two units are a first and a last one, and four runs allow both questions or two restarts;
three codes are one more than two requests can get past a limit of one; two users are the two last
administrators, and four requests let one lose a right between its reading and its use and another sign
in meanwhile; three comments are a root, its reply and the reply to that; a third flight lets a dropped read meet two newer ones; two slots and pieces give every
shape of a mistake (swap, wrong role, half a board), and the unsafe question is there to be refused.
`MaxTime`, `MaxClicks`, `MaxRun`, `MaxResume`, `MaxCounted`, `MaxMinute`, `MaxEra`, `MaxVisits`, `MaxTick`,
`MaxVersion`, `MaxLoads`, `MaxLooks`, `MaxStates`, `MaxSteps` and `MaxStarts` are bounds of the models and
stand in the guards. `CHECK_DEADLOCK FALSE`
stands where the clock, the ids or the clicks may run out, or where the player may simply stop, which is the case in every run;
that nobody is stuck before is the subject of `OnlyRevocationsDeadlock` and of the liveness properties.

Every property is also checked against a mutant of the modelled code, a plausible bug that must break it
(`PROJECT.json`, `mutants`; the mutated operators stand beside the originals).

## 4. Fairness

* `SessionTable`: strong fairness of `Serve(r) \/ BreakDeadlock(r)` for every request. Postgres and the event loop go on
  with a request they have taken, and a row lock is handed out in the order in which it was asked for; a
  request that waits for a lock is enabled and disabled as others take it, so weak fairness would not
  say that it gets it. Two that wait for each other are found after `deadlock_timeout`, and one of them fails;
  other failures are not assumed. Users, failures and the clock owe nothing. `FairTablesSpec` adds this to the sum;
  the other sides of it owe nothing, since there what waits does so inside one step.
* `BookmarkStore`: weak fairness of a call's and a button's own steps: fetch settles one way or the
  other, and the event loop runs what has settled. Nothing makes anyone click.
* `RapidAruz`: weak fairness of promises, timeouts, animation frames, React's commits and time. Nothing
  is assumed of the player, so `GameGoesOn` excuses a game while the player is away or at rest on a page
  with a button.
* `GrammarCircuit`: weak fairness of each timer and of `Commit`. `Cancel`, drags and clicks owe nothing.
* `AruzBridge`: weak fairness of `Render`, `TimerFires`, `MarkSceneReady` (the scene draws a frame once it
  is mounted) and `CountdownDone`. The player need not answer: the window's end does.
* `Pages` states the three fairness conditions together; those of the parts left alone hold since their
  actions are disabled or change nothing.
* The violations of `GoesOnAfterExit` and `GoesOnAfterReturn` are found under the same fairness.

## 5. Where the code and its comments disagree

1. `revokeAllSessions` (`src/lib/auth/session.ts:288`) is one UPDATE; its snapshot cannot contain the heir
   that a rotation in flight is about to commit, and that sign-in survives (`session_revoke_all`).
2. A signed-in visit to `/auth` answers with a new redirect response that lacks the rotated cookies
   (`src/proxy.ts:235`); the browser keeps a burnt token (`session_cookies_redirect`).
3. Administrators are counted before one is deleted (`src/lib/admin/user-actions.ts:282`), in a statement
   before the deletion: two who delete or demote each other at once both go on, and none is left
   (`server_last_admin`). What does hold is `PanelStaysOpen`: it takes a right that was lost meanwhile.
4. A read of bookmarks that is answered after a newer click has settled undoes that click on the screen
   (`src/lib/panel/bookmark-store.ts:113`, `bookmark_old_answer`).
5. The trigger of likes counts on the snapshot of its own update (`src/migrations/001_init.sql:601`), so the
   second of two readers who like a poem at once may store a number without the first
   (`club_likes`); `src/lib/club/actions.ts:378-380` says it is right even then. What holds is
   `NumbersCatchUp`: the next write that meets nobody puts it right.
6. Leaving Rapid Aruz resets the ids that are the identity of its waits (`src/lib/aruz-rapid/machine.ts:496`),
   and the next session's first preview never ends (`rapid_aruz_after_exit`).
7. A tab that is hidden in the moment the last wait of a question ends moves Rapid Aruz to the results, where
   `useRapidAruzPause` listens to nothing (`src/components/UI/aruz-rapid/useRapidAruzPause.ts:28`); the return is
   missed, `BEGIN_QUESTION` keeps `pauseReasons` (`src/lib/aruz-rapid/machine.ts:283-304`), and the next question
   stays under the overlay that says that coming back is enough (`RapidAruzGame.tsx:387`), until the tab is
   hidden and shown again or the player leaves (`rapid_aruz_after_return`).

Smaller observations without a run: after an await `preloadBookmarks` does not look at `inFlight` again,
so two waiters may ask for the same ids; a failed click on an unknown flag settles as "not marked";
nothing calls `clearBookmarkCache`; with `ReplayPreviewOnReset` Rapid Aruz counts a run twice; repeating
the last question lets the results say "3 of 2"; two concurrent issues may leave two codes that work
(`IssuesAreLimited` states what does hold: one per request), although the comment at
`src/lib/auth/otp.ts:132` wants the older one void. Signing out while another tab rotates updates no row
(`src/lib/auth/session.ts:274`), and the heir stays live. One after the other, the count of administrators
never refuses anything, since nobody deletes himself; and it counts banned ones. The comments of
`availability-cache.ts:20` and `settings/index.ts:167` say that a change is seen at once: a read that a
change overtook is stored as fresh, and `gcAdminSave` and `gcAdminDelete` drop the cache before they
write (`StaleForABoundedTime` is what holds). In the Grammar Circuit a restart from the results does not
look at `guest.blocked`, and of two restarts in flight the later `START` resets the game that already
runs. A pace changed during the first load of the Aruz Bridge reaches the timers and not the score. Guest
rounds of several tabs overwrite one another. Overlapping requests for a reset leave two links that work
(`LinksOnlyMeetInFlight`). A banned user who resets his password gets a session row that every request
refuses. In the club an approval is an update by id, of a text that its author may have edited since it was
read (`src/lib/club/admin-actions.ts:260`); an approved reply under a root that was returned is counted and
not drawn (`src/components/UI/club/CommentThread.tsx:160`), although the comment at
`src/migrations/001_init.sql:611` wants the number to be what visitors can read; an edit puts a poem into
the queue past its limit. An access token of a revoked session works for up to its 15 minutes.

## 6. Proofs

All for any number of rows, requests, browsers, calls, poems, questions and any bounds, from the named
assumptions of the modules (constants are naturals, `None` is not an id, sets of ids are finite, and the
like). One theorem, `NoHonestThief`, has a hypothesis of its own.

| Theorem | Says | Argument |
|---|---|---|
| `SessionProofs!TypeCorrectness`, `SingleTip`, `SoundChains`, `RevocationIsFinal` | `TypeOK` (of the table), `OneTipPerFamily`, `ChainIsSound`, `RevokedOnce` | `Inv` adds what makes them inductive: rows that are not committed carry nothing (`RowsAreSound`); a rotation holds a row that is neither rotated nor revoked, two rotations hold different rows and heirs, and a rotation's row is among those no UPDATE has locked (`RequestsAreSound`). Without the lock's exclusion in `Reads` the step of `RefreshCommit` fails. |
| `SessionProofs!Refinement` | `Spec => ImplementsLoginFamily` | Under `Inv` every step maps to `Open`, to `Close` of a set of families or to a stutter; a commit of a rotation keeps its family open because the locked row is live until then. |
| `SessionProofs!CookiesInvariance`, `JarsHoldTips`, `NoHonestThief` | `JarHoldsTip`, `ReuseOnlyAfterDrop`; the second if `2 * Latency < Grace` | `CookiesInv` follows a token on its way: a token that a rotation made is unknown to everybody until its answer arrives (`HeirsAreUnseen`), a browser without a valid access cookie has requests out with one token only, the one in its jar (`OneTokenIsOut`), a burnt token in a jar is followed by the answer that carries its heir (`JarsAreFollowed`). `LateOnesRace`: who still presents a burnt token does so within two journeys of the rotation, so inside the grace window, and before its heir can be rotated in turn. The hypothesis is what `src/lib/auth/session.ts:91-94` gives its thirty seconds for. |
| `SessionProofs!CookiesImplementTable`, `BrowsersKeepSignIns` | `CookiesSpec => Spec`, and with it `ImplementsLoginFamily`, `RevokedOnce`, `OneTipPerFamily`, `ChainIsSound` for the browsers | Every step of a browser or of the proxy is a step of the table or leaves it alone; `CookiesInv` gives what a request may present. |
| `PagesProofs!NewestWishWins` | `LatestWishShown` | `WishesAreSound`: the newest click's number is the one in `seq` as long as that write is under way, and numbers are never reused. |
| `PagesProofs!QuietFlagsAgree` | `AgreesWhenQuiet` | `AgreeInv`: on a flag whose clicks never overlapped a request, the click under way is alone (`ClickIsAlone`), an answer on its way is what the table said and still says (`AnswerIsTrue`), and at rest shown and stored are one. |
| `RapidAruzProofs!TypeCorrectness`, `InteractiveClock`, `RunsAreCounted`, `OneOutcome` | `TypeOK` (proved, in no run), `ClockIsInteractive`, `EveryRunIsCounted`, `OneOutcomeEach` | `Inv` adds that a playing game has an open attempt with the current id and that outcomes come in the order of ids (`PlaysAnOpenAttempt`, `OutcomesInOrder`), and that a shown intro is real (`IntroIsReal`). |
| `EmailCodesProofs!CodesTypeCorrectness`, `LimitedGuesses`, `DeadForGood`, `ConfirmedBySpending` | `CodesTypeOK`, `GuessesAreLimited`, `DeadCodesStayDead`, `ConfirmedByACode` | every comparison is paid for with an attempt (`Paid`); the table only grows (`Growth`), so what was of no use to a request stays so; a row that is picked was not expired, so a dead one that is picked is spent or used up, which `Count` sees (`Fits`). |
| `EmailCodesProofs!LimitedIssues` | `IssuesAreLimited` | `IssueInv` counts two sets together: open codes with the requests that have voided and will insert are at most the requests; recent codes with the requests past the limits stay below the limit plus the requests. A request that voids, inserts or passes moves between the two, so no interleaving adds to their sum. |
| `ServerProofs!NoSurvivors`, `LinksMeet`, `OpenPanel`, `WayIn` | `SurvivorsAreNew`, `LinksOnlyMeetInFlight`, `PanelStaysOpen`, `EveryUserHasAWayIn` | `AccountsInv` says of every request what its pending statement rests on (`VisitsAreSound`), of links who saw whom (`LinksAreSound`), of users that they have a way in (`UsersAreSound`). A request that may still sign somebody in with an older right is counted by `Overtaken`, so `cleared` rises only when there is none. |
| `TablesProofs!BoundedStaleness`, `QuietChangesAreSeen`, `Agreement` | `StaleForABoundedTime`, `QuietChangeIsSeen`, `ComponentsAgree` | `CachesInv`: a read answered with an old value set out before it was replaced and lasts at most `ReadTime` (`AgesAreSound`); nothing is on its way during a quiet change (`QuietIsQuiet`); after one there is one read at most, which tells whoever shows somebody (`PageIsCalm`). |
| `TablesProofs!ClubTypeCorrectness`, `NumbersAreRight`, `ThreadsStayShallow` | `ClubTypeOK`, `NumbersCatchUp`, `ThreadsAreShallow` | `ClubInv`: the rows that two counting writes touch are disjoint (`LocksExclude`), the rows an insert names are not being deleted (`CallsAreSound`), a poem without a row has no likes and both its numbers are 0 (`HiddenPoemsAreBare`), and while nobody else has committed the same number the count of a call is what its own commit will make true (`CountsAreFresh`). |
| `PageGamesProofs!TruthfulVerdicts`, `HonestLight`, `NoWayIsBarred` | `VerdictsFitTheBoard`, `LightMeansSolved`, `LockedBoardIsSolvable` | Every operation of the reducer leads from a `Good` state to one that `Follows` it: the run never falls, and within a check of one run the board does not change. So the timers of a check know the board they tell about (`Checked`), although loads and drags go on. What is locked fits, and `ChoiceSafe` gives the rest. |
| `PageGamesProofs!ResultsTellTheGame` | `ResultsTell` | `TellInv` follows the number of the first check from the probes to the result: what the timers have told so far is what fits among the slots they have passed (`Probed`), the number is kept from the first check on (`FirstFits`), and the screen's state lags only by what a commit will bring (`Lagging`). |
| `PageGamesProofs!CircuitTypeCorrectness` | `CircuitTypeOK`, with the bounds of its numbers | `BoundInv` counts lamps against runs: the current may still be led in once for the run that is shown and once for each change of looks, and what is lit has used these up; the screen lags by at most what a commit brings. |
| `MatchingProofs!PathsAreRight` | `HasFullAssignment(slotRoles, slots, left) <=> Assignable(slotRoles, slots, left)` for finite sets of slots, roles among the question's, stocks in `Nat` | `CallIsSound`: an assignment that is accepted and affordable, and a path in which each slot asks a holder of the next role, no slot and no role twice. An augmenting step moves the whole path at once and takes one piece (`FreeRoleIsSound`). When a turn gives up, its slot and all whom it asked accept only roles that it met, and those whom it asked hold every piece of these, so there is one slot too many (`NoWayIsSound`, by counting). Every step lowers `Measure`, so `Enough` steps end a call. |
| `MatchingProofs!SearchIsRight`, `SearchTypeCorrectness` | `SearchDecides`; `MatchingTypeOK` | `SearchInv`: every state seen is a choice of accepted roles that the pieces afford, each but the first leaves a way to the end, and what follows a state that is not in the queue is seen. When the queue is empty, a choice that was not seen would have a least set of slots, and a placement reaches it from a smaller one. That the test it asks is right is `TestIsRight`, from `PathsAreRight`. |
| `PageGamesProofs!SearchAdmits` | `verdict = "safe" => Admitted(q)` and `verdict = "unsafe" => ~Admitted(q)`, for the roles and numbers that `compile` makes of a question `q` | The search knows roles and their numbers, the game boards and pieces. The roles on a sound board are an affordable choice (`SoundIsAChoice`), and an affordable choice can be laid with pieces that are free (`PiecesAreThere`, by counting). So `NoWayIsBarred` rests on the search that the code runs, down to its augmenting paths, not only on the definition it should meet. |
| `PageGamesProofs!BridgeInvariance`, `RunsAddUp` | `RunTally` | `Counted`, of the machine and of what is drawn: the numbers of a run are what its state, its index and its failure say, whichever of key, tap and timer came first; a timer ticks only in a state that has one. |
| `PageGamesProofs!QuotaStopsGuests` | `GuestStops` | `QuotaInv` counts the run under way with those that ended: until a member is known the rounds are those counted before and those that ended, and the run under way was begun either before it was known who plays or within the quota. |
| `PageGamesProofs!BridgeTypeCorrectness` | `BridgeTypeOK`, with the bounds of its numbers | A machine that is `Counted` is in bounds (its streak, marks and index are those of a run of its length); `QuotaInv` bounds rounds and history by the runs that were begun. |
| `PageGamesProofs!SidesVary` | of any `SideRun + 1` steps in a row that `prepareSteps` drew, two have the right pattern on different sides | The promise of the comment at `src/lib/aruz-bridge/machine.ts:284`. If all were alike, the last of them would follow a run of `SideRun` at least, and would have been turned. |
| `ServerProofs!ServerIsAll`, `TablesProofs!TablesAreAll`, `PagesProofs!PagesAreAll` | a behaviour of a sum is a behaviour of each of its parts, so every theorem about a part holds of the sum: of what the run checks | A step of the sum is a step of one part and leaves the variables of the others; each part's variables alone see a step or a stutter. |
| `ServerProofs!ServerTypeCorrectness`, `TablesProofs!TablesTypeCorrectness`, `PagesProofs!PagesTypeCorrectness` | `ServerTypeOK`, `TablesTypeOK`, `PagesTypeOK` | The type invariants of the parts, through the theorems above. |

Each of these theorems rests on the assumptions that its modules name (`NoneAssumption` and the like,
`BrowserAssumption`: `None` is no browser; `ReqAssumption`, `FinitenessAssumption`: requests, remarks and fans
are finitely many; `NoCodeAssumption`, `CodesAssumption`, `AccountsAssumption`, `CachesAssumption`, `CircuitAssumption`, `BridgeAssumption`,
`SearchAssumption`) and on nothing else but that hypothesis, which holds of the instance of `server`. TLC evaluates the
assumptions in every run.

Every invariant but `OnlyRevocationsDeadlock` and every action property that a run checks and finds true is a
theorem for every value of the constants, and so is the refinement of `LoginFamily`. Only model-checked are `OnlyRevocationsDeadlock`
(two requests in `tables`, three once with the clock at rest; section 2 gives the argument) and what is temporal under
fairness (`EveryRequestAnswered`, `NothingHangs`, `GameGoesOn`, `SequencesEnd`, `EveryRunEnds`): liveness and
ENABLED are out of the prover's reach. The theorems of a sum are about `ServerSpec`, `TablesSpec` and
`PagesSpec`; `PagesSpec` and `FairTablesSpec` state fairness besides, which no proof uses.

## 7. What is left

Built in this order: sessions (abstract, table, cookies), bookmarks, Rapid Aruz, email codes, accounts,
caches, Grammar Circuit with the admission of its questions, Aruz Bridge, the poetry club. What a next step would take up:

1. The poetry club: the limits of a day, which have the check-then-act shape of the codes.
2. Rate limits beside the sign-in they are reset by; exam grading against a reference definition.

## 8. Not modelled

What has no order to get wrong: pages and panels, lessons and seeds, SEO, performance settings, reports
and announcements (single inserts), the log and audit records (never read back by the program), the HTTP
helpers (stateless). What is a matter of data: the Aruz engine's ranking. What is outside: Google,
Turnstile, mail and SMS providers, object storage; Postgres itself, whose READ COMMITTED rules the modules
assume (one snapshot per statement, row locks to the end of the transaction, conditions evaluated again on
a row that changed while it was waited for). What could follow stands in section 7.

Most of the repository's lines are data and presentation: lessons (`lib/doroos`), exam papers
(`lib/exam/seed-data`), the meter engine's lexicon, and components that render them. A model of those
would restate them, so the part of the repository's lines that these modules stand for is small, and
stays so: the components with an order to get wrong are a few thousand lines.
