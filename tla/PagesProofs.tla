---------------------------- MODULE PagesProofs ----------------------------
(***************************************************************************)
(* The bookmark flags, for any number of flags, buttons, calls and clicks: *)
(* a screen shows what was wished last (Inv), and what was answered when   *)
(* nothing is on its way (AgreeInv).  Then the four parts of a page, whose *)
(* theorems hold of Pages too.                                             *)
(***************************************************************************)
EXTENDS Pages, PageGamesProofs

(* Setting one or two fields of a record keeps its type.                   *)
LEMMA CallType ==
  /\ NoCall \in Calls
  /\ \A k \in Calls, R \in SUBSET Ref :
       /\ \A p \in {"answered", "broken"} : [k EXCEPT !.pc = p] \in Calls
       /\ [k EXCEPT !.pc = "answered", !.marked = R] \in Calls
       /\ [k EXCEPT !.pc = "woken", !.on = None] \in Calls
       /\ [k EXCEPT !.clicked = R] \in Calls
BY DEF NoCall, Calls

LEMMA NewCallType ==
  ASSUME NEW R \in SUBSET Ref, NEW d \in Call
  PROVE  /\ [NoCall EXCEPT !.pc = "asked", !.ids = R] \in Calls
         /\ [NoCall EXCEPT !.pc = "waiting", !.ids = R, !.on = d] \in Calls
BY DEF NoCall, Calls

(* The initial states satisfy the invariant.                               *)
LEMMA InitInv == Init => Inv
<1> SUFFICES ASSUME Init PROVE Inv
    OBVIOUS
<1>1. call \in [Call -> Calls]
      BY CallType DEF Init
<1>2. NoClick \in Clicks /\ NoClick.pc = "idle"
      BY ClicksAssumption DEF NoClick, Clicks, Flag
<1>3. button \in [Button -> Clicks] /\ \A b \in Button : ~Writing(b)
      BY <1>2 DEF Init, Writing
<1>4. TypeOK
      BY <1>1, <1>3, ClicksAssumption DEF Init, TypeOK, Flag
<1> QED
    BY <1>3, <1>4 DEF Init, Inv, WishesAreSound, LatestWishShown

(* Reading only teaches a tab flags that nobody is toggling.               *)
LEMMA AskType ==
  ASSUME TypeOK, NEW c \in Call, NEW R \in SUBSET Ref, Ask(c, R)
  PROVE  call' \in [Call -> Calls] /\ inFlight' \in Call \cup {None}
<1> DEFINE missing == {r \in R : known[r] = "unknown"}
<1>1. missing \in SUBSET Ref
      OBVIOUS
<1> HIDE DEF missing
<1>2. [NoCall EXCEPT !.pc = "asked", !.ids = missing] \in Calls
      BY <1>1, NewCallType
<1> QED
    BY <1>2, CallType DEF Ask, TypeOK, missing

LEMMA ReadStep ==
  ASSUME Inv, NEW c \in Call, Reading(c) \/ \E ids \in Round : Preload(c, ids)
  PROVE  Inv'
<1> USE DEF Inv
<1>1. UNCHANGED <<seq, nextSeq, button, newest, mark>> /\ tainted' = tainted
      BY DEF Reading, Resume, ServerReads, ReadFails, Receive, Preload
<1>2. /\ known' \in [Ref -> Flag \cup {"unknown"}]
      /\ \A r \in Ref : seq[r] # 0 => known'[r] = known[r]
      BY DEF Reading, Resume, ServerReads, ReadFails, Receive, Preload, Learns, TypeOK, Flag
<1>3. call' \in [Call -> Calls] /\ inFlight' \in Call \cup {None}
  <2>1. CASE Resume(c)
        <3>1. call[c].ids \in SUBSET Ref
              BY DEF TypeOK, Calls
        <3> QED
            BY <2>1, <3>1, AskType DEF Resume
  <2>2. CASE ServerReads(c)
        <3>1. {r \in call[c].ids : mark[r] = "marked"} \in SUBSET Ref
              BY DEF TypeOK, Calls
        <3> QED
            BY <2>2, <3>1, CallType DEF ServerReads, TypeOK
  <2>3. CASE ReadFails(c)
        BY <2>3, CallType DEF ReadFails, TypeOK
  <2>4. CASE Receive(c)
        BY <2>4, CallType DEF Receive, Wakes, TypeOK
  <2>5. ASSUME NEW ids \in Round, Preload(c, ids) PROVE <1>3!1 /\ <1>3!2
        <3>1. ids \in SUBSET Ref
              BY ShowsAssumption DEF Round
        <3>2. CASE inFlight = None
              BY <2>5, <3>1, <3>2, AskType DEF Preload
        <3>3. CASE inFlight # None
              BY <2>5, <3>1, <3>3, NewCallType DEF Preload, TypeOK
        <3> QED
            BY <3>2, <3>3
  <2> QED
      BY <2>1, <2>2, <2>3, <2>4, <2>5 DEF Reading
<1>4. TypeOK'
      BY <1>1, <1>2, <1>3 DEF TypeOK
<1>5. WishesAreSound'
      BY <1>1 DEF WishesAreSound, Writing
<1>6. LatestWishShown'
      <2> SUFFICES ASSUME NEW b \in Button, Writing(b), button[b].seq = newest[Shows[b]]
                   PROVE  known'[Shows[b]] = button[b].want
          BY <1>1 DEF LatestWishShown, Writing
      <2>1. seq[Shows[b]] # 0 /\ Shows[b] \in Ref
            BY ShowsAssumption DEF WishesAreSound, TypeOK, Clicks
      <2> QED
          BY <1>2, <2>1 DEF LatestWishShown
<1> QED
    BY <1>4, <1>5, <1>6

(* A click numbers its wish and shows it.                                  *)
LEMMA ClickStep ==
  ASSUME Inv, NEW b \in Button, Click(b)
  PROVE  Inv'
<1> USE DEF Inv
<1> DEFINE r == Shows[b]
           n == nextSeq
           want == Opposite(known[r])
<1>1. r \in Ref /\ n \in 1..MaxClicks /\ n + 1 \in 1..(MaxClicks + 1) /\ n \in 0..MaxClicks
  <2>1. nextSeq \in 1..(MaxClicks + 1) /\ nextSeq <= MaxClicks
        BY DEF Click, TypeOK
  <2> QED
      BY <2>1, ShowsAssumption, ClicksAssumption
<1>2. want \in Flag /\ known[r] \in Flag \cup {"unknown"}
      BY <1>1 DEF Opposite, Flag, TypeOK
<1>3. /\ known' = [known EXCEPT ![r] = want] /\ seq' = [seq EXCEPT ![r] = n]
      /\ newest' = [newest EXCEPT ![r] = n] /\ nextSeq' = n + 1
      /\ button' = [button EXCEPT ![b] = [pc |-> "sent", want |-> want, seq |-> n]]
      /\ UNCHANGED <<inFlight, mark>>
      BY DEF Click
<1>4. call' \in [Call -> Calls] /\ tainted' \subseteq Ref
  <2>1. \A c \in Call : call[c].clicked \cup {r} \in SUBSET Ref
        BY <1>1 DEF TypeOK, Calls
  <2> QED
      BY <1>1, <2>1, CallType DEF Click, TypeOK
<1> HIDE DEF r, n, want
<1>5. button' \in [Button -> Clicks]
  <2>1. [pc |-> "sent", want |-> want, seq |-> n] \in Clicks
        BY <1>1, <1>2 DEF Clicks
  <2> QED
      BY <1>3, <2>1 DEF TypeOK
<1>6. TypeOK'
      BY <1>1, <1>2, <1>3, <1>4, <1>5 DEF TypeOK
<1>7. /\ \A d \in Button \ {b} : button'[d] = button[d]
      /\ button'[b].seq = n /\ button'[b].want = want
      BY <1>3 DEF TypeOK
<1>8. \A d \in Button \ {b} : Writing(d) => button[d].seq < n /\ button[d].seq \in Nat
      BY ShowsAssumption, <1>1 DEF WishesAreSound, TypeOK, n
<1>9. WishesAreSound'
  <2>1. \A q \in Ref : newest'[q] < nextSeq' /\ seq'[q] \in {0, newest'[q]}
        BY <1>1, <1>3 DEF WishesAreSound, TypeOK, n
  <2>2. ASSUME NEW d \in Button, Writing(d)'
        PROVE  /\ button'[d].seq \in 1..newest'[Shows[d]]
               /\ button'[d].seq = newest'[Shows[d]] => seq'[Shows[d]] = button'[d].seq
    <3>1. CASE d = b
          BY <1>1, <1>3, <1>7, <3>1 DEF TypeOK, r
    <3>2. CASE d # b
      <4>1. Writing(d) /\ button'[d] = button[d] /\ Shows[d] \in Ref
            BY <1>7, <2>2, <3>2, ShowsAssumption DEF Writing
      <4>2. CASE Shows[d] = r
            BY <1>1, <1>3, <1>8, <3>2, <4>1, <4>2 DEF WishesAreSound, TypeOK
      <4>3. CASE Shows[d] # r
            BY <1>3, <4>1, <4>3 DEF WishesAreSound, TypeOK
      <4> QED
          BY <4>2, <4>3
    <3> QED
        BY <3>1, <3>2
  <2>3. ASSUME NEW d \in Button, NEW e \in Button, d # e, Shows[d] = Shows[e],
               Writing(d)', Writing(e)'
        PROVE  button'[d].seq # button'[e].seq
        BY <1>1, <1>7, <1>8, <2>3 DEF WishesAreSound, Writing
  <2> QED
      BY <2>1, <2>2, <2>3 DEF WishesAreSound
<1>10. ASSUME NEW d \in Button, Writing(d)', button'[d].seq = newest'[Shows[d]]
       PROVE  known'[Shows[d]] = button'[d].want
  <2>1. CASE d = b
        BY <1>1, <1>3, <1>7, <2>1 DEF TypeOK, r
  <2>2. CASE d # b
    <3>1. Writing(d) /\ button'[d] = button[d] /\ Shows[d] \in Ref
          BY <1>7, <1>10, <2>2, ShowsAssumption DEF Writing
    <3>2. Shows[d] # r
          BY <1>1, <1>3, <1>8, <1>10, <2>2, <3>1 DEF TypeOK
    <3> QED
        BY <1>3, <1>10, <3>1, <3>2 DEF LatestWishShown, TypeOK
  <2> QED
      BY <2>1, <2>2
<1> QED
    BY <1>6, <1>9, <1>10 DEF LatestWishShown

(* The server changes nothing that is shown.                               *)
LEMMA WriteStep ==
  ASSUME Inv, NEW b \in Button, ServerWrites(b) \/ WriteFails(b) \/ AnswerLost(b)
  PROVE  Inv'
<1> USE DEF Inv
<1>1. /\ known' = known /\ seq' = seq /\ nextSeq' = nextSeq
      /\ inFlight' = inFlight /\ call' = call /\ newest' = newest
      BY DEF ServerWrites, WriteFails, AnswerLost
<1>2. PICK p \in {"written", "failed"} : button' = [button EXCEPT ![b].pc = p]
      BY DEF ServerWrites, WriteFails, AnswerLost
<1>3. [button[b] EXCEPT !.pc = p] \in Clicks /\ Writing(b)
      BY <1>2 DEF TypeOK, Clicks, ServerWrites, WriteFails, AnswerLost, Writing
<1>4. button' \in [Button -> Clicks]
      BY <1>2, <1>3 DEF TypeOK
<1>5. mark' \in [Ref -> Flag] /\ tainted' \subseteq Ref
      BY ShowsAssumption DEF ServerWrites, WriteFails, AnswerLost, TypeOK, Clicks
<1>6. \A d \in Button : button'[d].seq = button[d].seq /\ button'[d].want = button[d].want
      BY <1>2, <1>3 DEF TypeOK, Clicks
<1>7. \A d \in Button : Writing(d)' => Writing(d)
      BY <1>2, <1>3 DEF TypeOK, Clicks, Writing
<1>8. TypeOK'
      BY <1>1, <1>4, <1>5 DEF TypeOK
<1>9. WishesAreSound'
      BY <1>1, <1>6, <1>7 DEF WishesAreSound
<1>10. LatestWishShown'
      BY <1>1, <1>6, <1>7 DEF LatestWishShown
<1> QED
    BY <1>8, <1>9, <1>10

(* Settling shows the outcome of the newest wish, or nothing.              *)
LEMMA SettleStep ==
  ASSUME Inv, NEW b \in Button, Settle(b)
  PROVE  Inv'
<1> USE DEF Inv
<1>1. UNCHANGED <<nextSeq, inFlight, call, mark, newest, tainted>>
      BY DEF Settle
<1>2. Shows[b] \in Ref /\ Outcome(b) \in Flag /\ Writing(b)
      BY ShowsAssumption DEF Outcome, Opposite, Flag, TypeOK, Clicks, Settle, Writing
<1>3. NoClick \in Clicks /\ NoClick.pc = "idle"
      BY ClicksAssumption DEF NoClick, Clicks, Flag
<1>4. /\ button' \in [Button -> Clicks] /\ ~Writing(b)'
      /\ \A d \in Button \ {b} : button'[d] = button[d] /\ (Writing(d)' <=> Writing(d))
      BY <1>3 DEF Settle, TypeOK, Writing
<1>5. /\ known' \in [Ref -> Flag \cup {"unknown"}] /\ seq' \in [Ref -> 0..MaxClicks]
      /\ \A q \in Ref : seq'[q] = seq[q] \/ seq'[q] = 0
      /\ \A q \in Ref \ {Shows[b]} : known'[q] = known[q] /\ seq'[q] = seq[q]
      /\ button[b].seq # newest[Shows[b]] => UNCHANGED <<known, seq>>
      BY <1>2, ClicksAssumption DEF Settle, Settles, TypeOK, WishesAreSound
<1>6. TypeOK'
      BY <1>1, <1>4, <1>5 DEF TypeOK
<1>7. ASSUME NEW d \in Button, Writing(d)', button[d].seq = newest[Shows[d]]
      PROVE  d # b /\ Writing(d) /\ button'[d] = button[d]
             /\ known'[Shows[d]] = known[Shows[d]] /\ seq'[Shows[d]] = seq[Shows[d]]
  <2>1. d # b /\ Writing(d) /\ button'[d] = button[d] /\ Shows[d] \in Ref
        BY <1>4, <1>7, ShowsAssumption
  <2>2. Shows[d] = Shows[b] => button[b].seq # newest[Shows[b]]
        BY <1>2, <1>7, <2>1 DEF WishesAreSound
  <2> QED
      BY <1>5, <2>1, <2>2
<1>8. WishesAreSound'
      BY <1>1, <1>4, <1>5, <1>7 DEF WishesAreSound
<1>9. LatestWishShown'
      BY <1>1, <1>4, <1>7 DEF LatestWishShown
<1> QED
    BY <1>6, <1>8, <1>9

(* Every step preserves the invariant.                                     *)
LEMMA NextInv == Inv /\ [Next]_vars => Inv'
<1> SUFFICES ASSUME Inv, [Next]_vars PROVE Inv'
    OBVIOUS
<1>1. CASE UNCHANGED vars
      BY <1>1 DEF vars, Inv, TypeOK, WishesAreSound, LatestWishShown, Writing
<1>2. CASE Next
      BY <1>2, ReadStep, ClickStep, WriteStep, SettleStep DEF Next, Toggling
<1> QED
    BY <1>1, <1>2

THEOREM BookmarksInvariance == Spec => []Inv
<1> QED
    BY InitInv, NextInv, PTL DEF Spec

(* The late answer of an old change, a read that was under way, a failed   *)
(* write: none of them hides the newest wish while it is under way         *)
(* (bookmark-store.ts:20-22).                                              *)
THEOREM NewestWishWins == Spec => []LatestWishShown
<1>1. Inv => LatestWishShown
      BY DEF Inv
<1> QED
    BY <1>1, BookmarksInvariance, PTL

(* The state of the flags keeps its types (bookmark-store.ts).             *)
THEOREM BookmarksTypeCorrectness == Spec => []TypeOK
<1>1. Inv => TypeOK
      BY DEF Inv
<1> QED
    BY <1>1, BookmarksInvariance, PTL
-----------------------------------------------------------------------------
(* What is shown is what is stored.  For a flag that is not tainted: a     *)
(* click is alone on its way, with no read of the flag, and the table      *)
(* holds the opposite of its wish until it has been there; with no click   *)
(* on its way, what is shown is stored, and so is what an answer brings.   *)
AtRest(r) == \A b \in Button : Shows[b] = r => ~Writing(b)

ClickIsAlone(b) ==
  /\ button[b].seq = newest[Shows[b]]
  /\ mark[Shows[b]] = IF button[b].pc = "written" THEN button[b].want
                      ELSE Opposite(button[b].want)
  /\ \A d \in Button \ {b} : Shows[d] = Shows[b] => ~Writing(d)
  /\ \A c \in Call : Flying(c) => Shows[b] \notin call[c].ids

AnswerIsTrue(c, r) ==
  call[c].pc = "answered" /\ r \in call[c].ids => (r \in call[c].marked <=> mark[r] = "marked")

AgreeInv ==
  /\ \A b \in Button : Writing(b) /\ Shows[b] \notin tainted => ClickIsAlone(b)
  /\ \A r \in Ref \ tainted : AtRest(r) /\ known[r] # "unknown" => known[r] = mark[r]
  /\ \A c \in Call, r \in Ref \ tainted : AnswerIsTrue(c, r)

LEMMA AgreeInit == Init => AgreeInv
  BY DEF Init, AgreeInv, AtRest, AnswerIsTrue, Writing, NoClick, NoCall

(* A read that begins asks for flags nobody knows; an answer is a read of  *)
(* the table; an answer that arrives is learnt.                            *)
LEMMA ReadsAgree ==
  ASSUME Inv, AgreeInv, NEW c \in Call, Reading(c) \/ \E ids \in Round : Preload(c, ids)
  PROVE  AgreeInv'
<1> USE DEF Inv
<1>1. UNCHANGED <<seq, nextSeq, button, newest, mark, tainted>>
      BY DEF Reading, Resume, ServerReads, ReadFails, Receive, Preload
<1>2. /\ \A d \in Call : Flying(d)' =>
           \/ Flying(d) /\ call'[d].ids = call[d].ids
           \/ \A r \in call'[d].ids : known[r] = "unknown"
      /\ \A d \in Call : call'[d].pc = "answered" =>
           \/ call'[d] = call[d]
           \/ \A r \in call'[d].ids : r \in call'[d].marked <=> mark[r] = "marked"
  <2>1. ASSUME NEW ids, Ask(c, ids)
        PROVE  /\ \A d \in Call \ {c} : call'[d] = call[d]
               /\ call'[c].pc \in {"idle", "asked"}
               /\ call'[c].pc = "asked" => \A r \in call'[c].ids : known[r] = "unknown"
    <3> DEFINE missing == {r \in ids : known[r] = "unknown"}
    <3>1. \/ call' = [call EXCEPT ![c] = NoCall]
          \/ call' = [call EXCEPT ![c] = [NoCall EXCEPT !.pc = "asked", !.ids = missing]]
          BY <2>1 DEF Ask
    <3>2. \A r \in missing : known[r] = "unknown"
          OBVIOUS
    <3> HIDE DEF missing
    <3>3. /\ NoCall.pc = "idle" /\ [NoCall EXCEPT !.pc = "asked", !.ids = missing].pc = "asked"
          /\ [NoCall EXCEPT !.pc = "asked", !.ids = missing].ids = missing
          BY DEF NoCall
    <3> QED
        BY <3>1, <3>2, <3>3 DEF TypeOK
  <2>2. CASE Resume(c)
        <3>1. Ask(c, call[c].ids)
              BY <2>2 DEF Resume
        <3>2. /\ \A d \in Call \ {c} : call'[d] = call[d]
              /\ call'[c].pc \in {"idle", "asked"}
              /\ call'[c].pc = "asked" => \A r \in call'[c].ids : known[r] = "unknown"
              BY <2>1, <3>1
        <3> QED
            BY <3>2 DEF Flying
  <2>3. ASSUME NEW ids \in Round, Preload(c, ids) PROVE <1>2!1 /\ <1>2!2
        <3>1. CASE inFlight = None
              BY <2>1, <2>3, <3>1 DEF Preload, Flying
        <3>2. CASE inFlight # None
              <4>1. /\ \A d \in Call \ {c} : call'[d] = call[d]
                    /\ call'[c].pc = "waiting"
                    BY <2>3, <3>2 DEF Preload, TypeOK, NoCall
              <4> QED
                  BY <4>1 DEF Flying
        <3> QED
            BY <3>1, <3>2
  <2>4. CASE ServerReads(c)
        <3>1. /\ \A d \in Call \ {c} : call'[d] = call[d]
              /\ call'[c].ids = call[c].ids /\ call[c].pc = "asked"
              /\ call'[c].marked = {r \in call[c].ids : mark[r] = "marked"}
              BY <2>4 DEF ServerReads, TypeOK, Calls
        <3> QED
            BY <3>1 DEF Flying
  <2>5. CASE ReadFails(c)
        <3>1. /\ \A d \in Call \ {c} : call'[d] = call[d]
              /\ call'[c].ids = call[c].ids /\ call[c].pc = "asked" /\ call'[c].pc = "broken"
              BY <2>5 DEF ReadFails, TypeOK, Calls
        <3> QED
            BY <3>1 DEF Flying
  <2>6. CASE Receive(c)
        <3>1. \A d \in Call : call'[d].pc \in {"idle", "woken"} \/ call'[d] = call[d]
              BY <2>6 DEF Receive, Wakes, NoCall, TypeOK, Calls
        <3> QED
            BY <3>1 DEF Flying
  <2> QED
      BY <2>2, <2>3, <2>4, <2>5, <2>6 DEF Reading
<1>3. \A r \in Ref \ tainted : known'[r] = known[r] \/ known'[r] = mark[r]
  <2>1. CASE Receive(c) /\ call[c].pc = "answered"
        BY <2>1 DEF Receive, Learns, AgreeInv, AnswerIsTrue, TypeOK, Flag
  <2>2. CASE ~(Receive(c) /\ call[c].pc = "answered")
        BY <2>2 DEF Reading, Resume, ServerReads, ReadFails, Receive, Preload
  <2> QED
      BY <2>1, <2>2
<1>4. ASSUME NEW b \in Button, Writing(b)', Shows[b] \notin tainted PROVE ClickIsAlone(b)'
  <2>1. Writing(b) /\ ClickIsAlone(b)
        BY <1>1, <1>4 DEF AgreeInv, Writing
  <2>2. known[Shows[b]] = button[b].want /\ button[b].want # "unknown"
        BY <2>1 DEF ClickIsAlone, LatestWishShown, TypeOK, Clicks, Flag
  <2> QED
      BY <1>1, <1>2, <2>1, <2>2 DEF ClickIsAlone, Writing
<1>5. \A r \in Ref \ tainted : (AtRest(r) /\ known[r] # "unknown" => known[r] = mark[r])'
      BY <1>1, <1>3 DEF AgreeInv, AtRest, Writing
<1>6. \A d \in Call, r \in Ref \ tainted : AnswerIsTrue(d, r)'
      BY <1>1, <1>2 DEF AgreeInv, AnswerIsTrue
<1> QED
    BY <1>1, <1>4, <1>5, <1>6 DEF AgreeInv

(* A click that meets another one, or a read, or an unknown flag, taints   *)
(* it; any other finds the flag as it is stored.                           *)
LEMMA ClickAgrees ==
  ASSUME Inv, Inv', AgreeInv, NEW b \in Button, Click(b)
  PROVE  AgreeInv'
<1> USE DEF Inv
<1> DEFINE r == Shows[b]
<1>1. r \in Ref /\ ~Writing(b)
      BY ShowsAssumption DEF Click
<1>2. /\ known' = [known EXCEPT ![r] = Opposite(known[r])]
      /\ newest' = [newest EXCEPT ![r] = nextSeq]
      /\ button' = [button EXCEPT ![b] = [pc |-> "sent", want |-> Opposite(known[r]), seq |-> nextSeq]]
      /\ mark' = mark
      /\ tainted' = IF Overlaps(b) THEN tainted \cup {r} ELSE tainted
      BY DEF Click
<1>3. \A c \in Call : /\ call'[c].pc = call[c].pc /\ call'[c].ids = call[c].ids
                      /\ call'[c].marked = call[c].marked /\ (Flying(c)' <=> Flying(c))
      BY DEF Click, Flying, TypeOK, Calls
<1> HIDE DEF r
<1>4. /\ \A d \in Button \ {b} : button'[d] = button[d] /\ (Writing(d)' <=> Writing(d))
      /\ Writing(b)' /\ button'[b].pc = "sent" /\ button'[b].seq = nextSeq
      /\ button'[b].want = Opposite(known[r])
      /\ \A q \in Ref \ {r} : known'[q] = known[q] /\ newest'[q] = newest[q]
      /\ newest'[r] = nextSeq
      BY <1>1, <1>2 DEF TypeOK, Writing
<1>5. ASSUME r \notin tainted'
      PROVE  /\ r \notin tainted /\ known[r] = mark[r]
             /\ \A c \in Call : Flying(c) => r \notin call[c].ids
             /\ \A d \in Button \ {b} : Shows[d] = r => ~Writing(d)
  <2>1. ~Overlaps(b) /\ r \notin tainted
        BY <1>2, <1>5
  <2>2. /\ known[r] # "unknown"
        /\ \A c \in Call : Flying(c) => r \notin call[c].ids
        /\ \A d \in Button \ {b} : Shows[d] = r => ~Writing(d)
        BY <2>1 DEF Overlaps, r
  <2>3. AtRest(r)
        BY <1>1, <2>2 DEF AtRest
  <2> QED
      BY <1>1, <2>1, <2>2, <2>3 DEF AgreeInv
<1>6. ASSUME NEW d \in Button, Writing(d)', Shows[d] \notin tainted' PROVE ClickIsAlone(d)'
  <2>1. CASE d = b
    <3>1. r = Shows[d] /\ mark[r] = Opposite(Opposite(known[r]))
          BY <1>1, <1>5, <1>6, <2>1 DEF r, Opposite, TypeOK, Flag
    <3> QED
        BY <1>2, <1>3, <1>4, <1>5, <1>6, <2>1, <3>1 DEF ClickIsAlone
  <2>2. CASE d # b
    <3>1. Writing(d) /\ Shows[d] \notin tainted /\ Shows[d] # r /\ Shows[d] \in Ref
          BY <1>2, <1>4, <1>5, <1>6, <2>2, ShowsAssumption
    <3>2. ClickIsAlone(d)
          BY <3>1 DEF AgreeInv
    <3> QED
        BY <1>2, <1>3, <1>4, <2>2, <3>1, <3>2 DEF ClickIsAlone, r
  <2> QED
      BY <2>1, <2>2
<1>7. ASSUME NEW q \in Ref \ tainted', AtRest(q)', known'[q] # "unknown" PROVE known'[q] = mark'[q]
  <2>1. q # r
        BY <1>4, <1>7 DEF AtRest, r
  <2>2. AtRest(q) /\ q \notin tainted
        BY <1>2, <1>1, <1>4, <1>7, <2>1 DEF AtRest, r
  <2> QED
      BY <1>2, <1>4, <1>7, <2>1, <2>2 DEF AgreeInv
<1>8. ASSUME NEW c \in Call, NEW q \in Ref \ tainted' PROVE AnswerIsTrue(c, q)'
      BY <1>2, <1>3, <1>8 DEF AgreeInv, AnswerIsTrue
<1> QED
    BY <1>6, <1>7, <1>8 DEF AgreeInv

LEMMA WriteAgrees ==
  ASSUME Inv, AgreeInv, NEW b \in Button, ServerWrites(b) \/ WriteFails(b) \/ AnswerLost(b)
  PROVE  AgreeInv'
<1> USE DEF Inv
<1> DEFINE r == Shows[b]
<1>1. /\ UNCHANGED <<known, call, newest>> /\ r \in Ref /\ Writing(b)
      BY ShowsAssumption DEF ServerWrites, WriteFails, AnswerLost, Writing
<1>2. /\ \A d \in Button \ {b} : button'[d] = button[d]
      /\ button'[b].seq = button[b].seq /\ button'[b].want = button[b].want
      /\ button'[b].pc \in {"written", "failed"}
      /\ button[b].pc \in {"sent", "written"}
      BY DEF ServerWrites, WriteFails, AnswerLost, TypeOK, Clicks
<1>3. \A d \in Button : Writing(d)' <=> Writing(d)
      BY <1>1, <1>2 DEF Writing
<1>4. /\ tainted \subseteq tainted' /\ \A q \in Ref \ {r} : mark'[q] = mark[q]
      /\ r \notin tainted' => /\ button[b].pc = "sent"
                             /\ mark'[r] = IF button'[b].pc = "written" THEN button[b].want ELSE mark[r]
      BY <1>1 DEF ServerWrites, WriteFails, AnswerLost, TypeOK, Clicks
<1>5. ASSUME r \notin tainted' PROVE ClickIsAlone(b)
      BY <1>1, <1>4, <1>5 DEF AgreeInv
<1> HIDE DEF r
<1>6. ASSUME NEW d \in Button, Writing(d)', Shows[d] \notin tainted' PROVE ClickIsAlone(d)'
  <2>1. Writing(d) /\ ClickIsAlone(d) /\ Shows[d] \in Ref
        BY <1>3, <1>4, <1>6, ShowsAssumption DEF AgreeInv
  <2>2. CASE d = b
        BY <1>1, <1>2, <1>3, <1>4, <1>6, <2>1, <2>2 DEF ClickIsAlone, Flying, r
  <2>3. CASE d # b
    <3>1. Shows[d] # r
          BY <1>1, <2>1, <2>3 DEF ClickIsAlone, r
    <3> QED
        BY <1>1, <1>2, <1>3, <1>4, <2>1, <2>3, <3>1 DEF ClickIsAlone, Flying
  <2> QED
      BY <2>2, <2>3
<1>7. ASSUME NEW q \in Ref \ tainted', AtRest(q)', known'[q] # "unknown" PROVE known'[q] = mark'[q]
  <2>1. q # r /\ AtRest(q)
        BY <1>1, <1>3, <1>7 DEF AtRest, r
  <2> QED
      BY <1>1, <1>4, <1>7, <2>1 DEF AgreeInv
<1>8. ASSUME NEW c \in Call, NEW q \in Ref \ tainted' PROVE AnswerIsTrue(c, q)'
  <2>1. CASE q = r
    <3>1. Flying(c) => q \notin call[c].ids
          BY <1>5, <1>8, <2>1 DEF ClickIsAlone, r
    <3> QED
        BY <1>1, <3>1 DEF AnswerIsTrue, Flying
  <2>2. CASE q # r
        BY <1>1, <1>4, <1>8, <2>2 DEF AnswerIsTrue, AgreeInv
  <2> QED
      BY <2>1, <2>2
<1> QED
    BY <1>6, <1>7, <1>8 DEF AgreeInv

LEMMA SettleAgrees ==
  ASSUME Inv, AgreeInv, NEW b \in Button, Settle(b)
  PROVE  AgreeInv'
<1> USE DEF Inv
<1> DEFINE r == Shows[b]
<1>1. /\ UNCHANGED <<newest, call, mark, tainted>> /\ r \in Ref /\ Writing(b)
      /\ button[b].pc \in {"written", "failed"}
      BY ShowsAssumption DEF Settle, Writing
<1>2. /\ \A d \in Button \ {b} : button'[d] = button[d] /\ (Writing(d)' <=> Writing(d))
      /\ ~Writing(b)'
      BY DEF Settle, TypeOK, Writing, NoClick
<1>3. \A q \in Ref \ {r} : known'[q] = known[q]
      BY DEF Settle, Settles, TypeOK
<1>4. ASSUME r \notin tainted PROVE known'[r] = mark[r]
  <2>1. ClickIsAlone(b)
        BY <1>1, <1>4 DEF AgreeInv
  <2>2. seq[r] = button[b].seq
        BY <1>1, <2>1 DEF ClickIsAlone, WishesAreSound
  <2>3. known'[r] = Outcome(b)
        BY <1>1, <2>2 DEF Settle, Settles, TypeOK
  <2> QED
      BY <1>1, <2>1, <2>3 DEF ClickIsAlone, Outcome
<1> HIDE DEF r
<1>5. ASSUME NEW d \in Button, Writing(d)', Shows[d] \notin tainted' PROVE ClickIsAlone(d)'
  <2>1. d # b /\ Writing(d) /\ ClickIsAlone(d)
        BY <1>1, <1>2, <1>5 DEF AgreeInv
  <2> QED
      BY <1>1, <1>2, <2>1 DEF ClickIsAlone, Flying
<1>6. ASSUME NEW q \in Ref \ tainted', AtRest(q)', known'[q] # "unknown" PROVE known'[q] = mark'[q]
  <2>1. CASE q = r
        BY <1>1, <1>4, <1>6, <2>1
  <2>2. CASE q # r
    <3>1. AtRest(q)
          BY <1>2, <1>6, <2>2 DEF AtRest, r
    <3> QED
        BY <1>1, <1>3, <1>6, <2>2, <3>1 DEF AgreeInv
  <2> QED
      BY <2>1, <2>2
<1>7. \A c \in Call, q \in Ref \ tainted' : AnswerIsTrue(c, q)'
      BY <1>1 DEF AgreeInv, AnswerIsTrue
<1> QED
    BY <1>5, <1>6, <1>7 DEF AgreeInv

(* With nothing under way for a flag, what is shown is what is stored,     *)
(* unless requests for it overlapped or an answer was lost                 *)
(* (bookmark-store.ts, preloadBookmarks to settleBookmark).                *)
THEOREM QuietFlagsAgree == Spec => []AgreesWhenQuiet
<1>1. Inv /\ Inv' /\ AgreeInv /\ [Next]_vars => AgreeInv'
  <2> SUFFICES ASSUME Inv, Inv', AgreeInv, [Next]_vars PROVE AgreeInv'
      OBVIOUS
  <2>1. CASE UNCHANGED vars
        BY <2>1 DEF vars, AgreeInv, ClickIsAlone, AnswerIsTrue, AtRest, Writing, Flying
  <2>2. CASE Next
        BY <2>2, ReadsAgree, ClickAgrees, WriteAgrees, SettleAgrees DEF Next, Toggling
  <2> QED
      BY <2>1, <2>2
<1>2. Spec => []AgreeInv
      BY AgreeInit, <1>1, BookmarksInvariance, PTL DEF Spec
<1>3. AgreeInv => AgreesWhenQuiet
      BY DEF AgreeInv, AgreesWhenQuiet, Quiet, AtRest
<1> QED
    BY <1>2, <1>3, PTL

-----------------------------------------------------------------------------
(* The four parts of a page.                                               *)

\* Whatever Pages does is a behaviour of each of its parts: what one does
\* touches no variable of another.
THEOREM PagesAreAll == PagesSpec => Spec /\ CircuitSpec /\ BridgeSpec /\ MatchingSpec
<1>1. PagesInit => Init /\ CircuitInit /\ BridgeInit /\ MatchingInit
  BY DEF PagesInit
<1>2. [PagesNext]_pagesVars =>
        [Next]_vars /\ [CircuitNext]_circuitVars /\ [BridgeNext]_bridgeVars /\ [Visit]_matchingVars
  BY DEF PagesNext, pagesVars
<1> QED
  BY <1>1, <1>2, PTL DEF PagesSpec, Spec, CircuitSpec, BridgeSpec, MatchingSpec

\* The flags, the boards, the machines and the search keep their types and bounds.
THEOREM PagesTypeCorrectness == PagesSpec => []PagesTypeOK
<1>1. TypeOK /\ CircuitTypeOK /\ BridgeTypeOK /\ MatchingTypeOK => PagesTypeOK
  BY DEF PagesTypeOK
<1> QED
  BY <1>1, PagesAreAll, BookmarksTypeCorrectness, CircuitTypeCorrectness, BridgeTypeCorrectness,
     SearchTypeCorrectness, PTL
=============================================================================
