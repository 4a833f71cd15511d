---------------------------- MODULE BookmarkStore ----------------------------
(***************************************************************************)
(* The bookmark flags of one user and one area in one browser tab          *)
(* (lib/panel/bookmark-store.ts), the buttons that toggle them             *)
(* (components/UI/BookmarkButton.tsx) and the rows of user_bookmarks       *)
(* behind /api/v1/bookmarks.                                               *)
(*                                                                         *)
(* Several buttons may show one flag: VocabGame has one above the picture  *)
(* and one in the modal.  A call of preloadBookmarks runs in pieces, cut   *)
(* where it awaits: the request in flight before it, and its own.          *)
(***************************************************************************)
EXTENDS Integers, FiniteSets

CONSTANTS Ref,        \* refIds
          Button,     \* mounted buttons
          Shows,      \* [Button -> Ref]
          Call,       \* calls of preloadBookmarks that may be under way
          None,
          MaxClicks   \* bound on the clicks of a behaviour

ASSUME ShowsAssumption == Shows \in [Button -> Ref]
ASSUME NoneAssumption == None \notin Call
ASSUME ClicksAssumption == MaxClicks \in Nat

VARIABLES known,      \* what is shown of each flag
          seq,        \* number of the newest wish under way, 0 for none
          nextSeq,
          inFlight,   \* the call whose request is st.inFlight
          call, button,
          mark,       \* the table
          newest,     \* history: number of the newest click on each flag
          tainted     \* history: flags whose requests overlapped, were
                      \* clicked while unknown, or whose answer was lost

vars == <<known, seq, nextSeq, inFlight, call, button, mark, newest, tainted>>

Flag == {"marked", "unmarked"}
\* Mutant: what is unknown is toggled to unknown.
OppositeUnknown(v) == CASE v = "marked" -> "unmarked" [] v = "unmarked" -> "marked"
                        [] OTHER -> v
(* !(known ?? false)                                                       *)
Opposite(v) == IF v = "marked" THEN "unmarked" ELSE "marked"

NoCall == [pc |-> "idle", ids |-> {}, on |-> None, marked |-> {}, clicked |-> {}]
NoClick == [pc |-> "idle", want |-> "unmarked", seq |-> 0]
Flying(c) == call[c].pc \in {"asked", "answered", "broken"}
Writing(b) == button[b].pc # "idle"

Calls == [pc : {"idle", "waiting", "woken", "asked", "answered", "broken"},
          ids : SUBSET Ref, on : Call \cup {None},
          marked : SUBSET Ref, clicked : SUBSET Ref]
Clicks == [pc : {"idle", "sent", "written", "failed"},
           want : Flag, seq : 0..MaxClicks]

TypeOK ==
  /\ known \in [Ref -> Flag \cup {"unknown"}]
  /\ seq \in [Ref -> 0..MaxClicks]
  /\ nextSeq \in 1..(MaxClicks + 1)
  /\ inFlight \in Call \cup {None}
  /\ call \in [Call -> Calls]
  /\ button \in [Button -> Clicks]
  /\ mark \in [Ref -> Flag]
  /\ newest \in [Ref -> 0..MaxClicks]
  /\ tainted \subseteq Ref

Init ==
  /\ known = [r \in Ref |-> "unknown"]
  /\ seq = [r \in Ref |-> 0]
  /\ nextSeq = 1
  /\ inFlight = None
  /\ call = [c \in Call |-> NoCall]
  /\ button = [b \in Button |-> NoClick]
  /\ mark \in [Ref -> Flag]
  /\ newest = [r \in Ref |-> 0]
  /\ tainted = {}
-----------------------------------------------------------------------------
(* Reading the flags of a round.                                           *)

(* From "const missing" to the first await of the request.                 *)
Ask(c, ids) ==
  LET missing == {r \in ids : known[r] = "unknown"}
  IN IF missing = {}
     THEN call' = [call EXCEPT ![c] = NoCall] /\ UNCHANGED inFlight
     ELSE /\ call' = [call EXCEPT ![c] = [NoCall EXCEPT !.pc = "asked", !.ids = missing]]
          /\ inFlight' = c

(* A button that does not know its flag asks for it while rendering; a     *)
(* quiz asks for its whole round.                                          *)
Preload(c, ids) ==
  /\ call[c].pc = "idle"
  /\ \E r \in ids : known[r] = "unknown"
  /\ IF inFlight = None
     THEN Ask(c, ids)
     ELSE /\ call' = [call EXCEPT ![c] = [NoCall EXCEPT !.pc = "waiting", !.ids = ids, !.on = inFlight]]
          /\ UNCHANGED inFlight
  /\ UNCHANGED <<known, seq, nextSeq, button, mark, newest, tainted>>

Resume(c) ==
  /\ call[c].pc = "woken"
  /\ Ask(c, call[c].ids)
  /\ UNCHANGED <<known, seq, nextSeq, button, mark, newest, tainted>>

(* GET /api/v1/bookmarks?refIds=...: the select, or no usable answer.      *)
ServerReads(c) ==
  /\ call[c].pc = "asked"
  /\ call' = [call EXCEPT ![c].pc = "answered",
                          ![c].marked = {r \in call[c].ids : mark[r] = "marked"}]
  /\ UNCHANGED <<known, seq, nextSeq, inFlight, button, mark, newest, tainted>>

ReadFails(c) ==
  /\ call[c].pc = "asked"
  /\ call' = [call EXCEPT ![c].pc = "broken"]
  /\ UNCHANGED <<known, seq, nextSeq, inFlight, button, mark, newest, tainted>>

\* Mutants: wishes under way are not spared; waiters are not woken.
LearnsAll(c) ==
  known' = [r \in Ref |-> IF r \in call[c].ids
                          THEN IF r \in call[c].marked THEN "marked" ELSE "unmarked"
                          ELSE known[r]]
ForgetsWaiters(c) == call' = [call EXCEPT ![c] = NoCall]

Learns(c) ==
  known' = [r \in Ref |-> IF r \in call[c].ids /\ seq[r] = 0
                          THEN IF r \in call[c].marked THEN "marked" ELSE "unmarked"
                          ELSE known[r]]

Wakes(c) == call' = [d \in Call |-> IF d = c THEN NoCall
                                    ELSE IF call[d].pc = "waiting" /\ call[d].on = c
                                    THEN [call[d] EXCEPT !.pc = "woken", !.on = None]
                                    ELSE call[d]]

(* The answer, and the finally that clears whatever is in flight.          *)
Receive(c) ==
  /\ call[c].pc \in {"answered", "broken"}
  /\ IF call[c].pc = "answered" THEN Learns(c) ELSE UNCHANGED known
  /\ Wakes(c)
  /\ inFlight' = None
  /\ UNCHANGED <<seq, nextSeq, button, mark, newest, tainted>>
-----------------------------------------------------------------------------
(* Toggling a flag.                                                        *)

Overlaps(b) == LET r == Shows[b]
               IN \/ known[r] = "unknown"
                  \/ \E c \in Call : Flying(c) /\ r \in call[c].ids
                  \/ \E d \in Button \ {b} : Shows[d] = r /\ Writing(d)

(* on = known ?? false, so an unknown flag is taken for an unset one.      *)
Click(b) ==
  LET r == Shows[b]
      next == Opposite(known[r])
  IN /\ ~Writing(b)
     /\ nextSeq <= MaxClicks
     /\ seq' = [seq EXCEPT ![r] = nextSeq]
     /\ newest' = [newest EXCEPT ![r] = nextSeq]
     /\ known' = [known EXCEPT ![r] = next]
     /\ nextSeq' = nextSeq + 1
     /\ button' = [button EXCEPT ![b] = [pc |-> "sent", want |-> next,
                                         seq |-> nextSeq]]
     /\ call' = [c \in Call |-> IF Flying(c) THEN [call[c] EXCEPT !.clicked = @ \cup {r}] ELSE call[c]]
     /\ tainted' = IF Overlaps(b) THEN tainted \cup {r} ELSE tainted
     /\ UNCHANGED <<inFlight, mark>>

(* POST (an upsert) or DELETE (of nothing, at worst).                      *)
ServerWrites(b) ==
  /\ button[b].pc = "sent"
  /\ mark' = [mark EXCEPT ![Shows[b]] = button[b].want]
  /\ button' = [button EXCEPT ![b].pc = "written"]
  /\ UNCHANGED <<known, seq, nextSeq, inFlight, call, newest, tainted>>

(* 401, 429, 500, or no connection.                                        *)
WriteFails(b) ==
  /\ button[b].pc = "sent"
  /\ button' = [button EXCEPT ![b].pc = "failed"]
  /\ UNCHANGED <<known, seq, nextSeq, inFlight, call, mark, newest, tainted>>

AnswerLost(b) ==
  /\ button[b].pc = "written"
  /\ button' = [button EXCEPT ![b].pc = "failed"]
  /\ tainted' = tainted \cup {Shows[b]}
  /\ UNCHANGED <<known, seq, nextSeq, inFlight, call, mark, newest>>

\* Mutants: the number is not compared; a failed write keeps the wish.
SettlesAny(r, n, value) == seq' = [seq EXCEPT ![r] = 0] /\ known' = [known EXCEPT ![r] = value]

(* settleBookmark                                                          *)
Settles(r, n, value) ==
  IF seq[r] = n
  THEN seq' = [seq EXCEPT ![r] = 0] /\ known' = [known EXCEPT ![r] = value]
  ELSE UNCHANGED <<seq, known>>

OutcomeWished(b) == button[b].want
Outcome(b) == IF button[b].pc = "written" THEN button[b].want ELSE Opposite(button[b].want)

Settle(b) ==
  /\ button[b].pc \in {"written", "failed"}
  /\ Settles(Shows[b], button[b].seq, Outcome(b))
  /\ button' = [button EXCEPT ![b] = NoClick]
  /\ UNCHANGED <<nextSeq, inFlight, call, mark, newest, tainted>>
-----------------------------------------------------------------------------
Round == {{Shows[b]} : b \in Button} \cup {Ref}

Reading(c) == Resume(c) \/ ServerReads(c) \/ ReadFails(c) \/ Receive(c)
Toggling(b) == ServerWrites(b) \/ WriteFails(b) \/ Settle(b)

Next == \/ \E c \in Call : Reading(c) \/ \E ids \in Round : Preload(c, ids)
        \/ \E b \in Button : Toggling(b) \/ Click(b) \/ AnswerLost(b)

(* fetch settles one way or the other, and the event loop runs what has    *)
(* settled.                                                                *)
Fairness == /\ \A c \in Call : WF_vars(Reading(c))
            /\ \A b \in Button : WF_vars(Toggling(b))

Spec == Init /\ [][Next]_vars
FairSpec == Spec /\ Fairness
-----------------------------------------------------------------------------
(* Properties.                                                             *)

(* "The late answer of an old change must not undo the newer state"        *)
(* (bookmark-store.ts:20-22): while the newest wish for a flag is under    *)
(* way that wish is shown, whatever reads and older writes finish          *)
(* meanwhile.                                                              *)
LatestWishShown ==
  \A b \in Button : Writing(b) /\ button[b].seq = newest[Shows[b]]
                      => known[Shows[b]] = button[b].want

(* Why it holds: the newest wish for a flag is the one seq names.          *)
WishesAreSound ==
  /\ \A r \in Ref : newest[r] < nextSeq /\ seq[r] \in {0, newest[r]}
  /\ \A b \in Button : Writing(b) =>
        /\ button[b].seq \in 1..newest[Shows[b]]
        /\ button[b].seq = newest[Shows[b]] => seq[Shows[b]] = button[b].seq
  /\ \A b, d \in Button : b # d /\ Shows[b] = Shows[d] /\ Writing(b) /\ Writing(d)
                            => button[b].seq # button[d].seq

Inv == TypeOK /\ WishesAreSound /\ LatestWishShown

(* With nothing under way for a flag, what is shown is what is stored,     *)
(* unless requests for it overlapped or an answer was lost.                *)
Quiet(r) == /\ \A b \in Button : Shows[b] = r => ~Writing(b)
            /\ \A c \in Call : Flying(c) => r \notin call[c].ids

AgreesWhenQuiet ==
  \A r \in Ref \ tainted : Quiet(r) /\ known[r] # "unknown" => known[r] = mark[r]

(* A button does not stay busy, and a call that waits for the request of   *)
(* another one is not left behind when that request is overwritten.        *)
NothingHangs ==
  /\ \A b \in Button : Writing(b) ~> ~Writing(b)
  /\ \A c \in Call : call[c].pc # "idle" ~> call[c].pc = "idle"
-----------------------------------------------------------------------------
(* A claim of the repository's comments that the code does not keep.       *)

(* "If the user changed this very id between sending and arrival of the    *)
(* answer, the server's answer is old and must not push the new wish back" *)
(* (bookmark-store.ts:111-112).                                            *)
OldAnswerYields ==
  [][\A c \in Call : Receive(c) => \A r \in call[c].clicked : known'[r] = known[r]]_vars
=============================================================================
