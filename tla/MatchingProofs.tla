-------------------------- MODULE MatchingProofs --------------------------
(***************************************************************************)
(* The augmenting paths and the search that rests on them are right, for   *)
(* any number of slots, roles and pieces.                                  *)
(*                                                                         *)
(* A call of hasFullAssignment keeps an assignment of the slots that had   *)
(* their turn (CallIsSound).  When a turn gives up, its slot and all that  *)
(* it asked accept only roles that it met, and those who were asked hold   *)
(* every piece of these: one slot is left without, however they are given. *)
(* Every step makes Measure less, so that Enough steps end the call.       *)
(*                                                                         *)
(* What the search has seen is closed under placements but for its queue   *)
(* (SearchInv), so what it has not seen when the queue is empty has a      *)
(* least choice of slots, which a placement would have reached.            *)
(***************************************************************************)
EXTENDS ChoiceSearch, SequenceTheorems, FiniteSetTheorems, WellFoundedInduction, TLAPS

\* What hasFullAssignment is called with.
Posed(slotRoles, slots, left) ==
    /\ IsFiniteSet(slots)
    /\ \A s \in slots : slotRoles[s] \subseteq RoleIndex
    /\ \A r \in RoleIndex : left[r] \in Nat

OpenCalls(slots) == [slot : slots, role : RoleIndex \cup {NoRole}]

CallShapes(slots) ==
    [has : UNION {[some -> RoleIndex] : some \in SUBSET slots}, todo : SUBSET slots,
     path : Seq(OpenCalls(slots)), met : SUBSET RoleIndex, asked : SUBSET slots,
     answer : {"none", "yes", "no"}]

\* The slot whose turn it is asks a holder of its role to move, that one a holder
\* of another role, and so on; no slot and no role is met twice.
PathIsLinked(slotRoles, slots, c) ==
    /\ c.path[1].slot \notin DOMAIN c.has \cup c.todo
    /\ slots = DOMAIN c.has \cup c.todo \cup {c.path[1].slot}
    /\ \A i \in 2..Len(c.path) : /\ c.path[i].slot \in c.asked
                                 /\ c.has[c.path[i].slot] = c.path[i - 1].role
    /\ \A i, j \in 1..Len(c.path) : c.path[i].slot = c.path[j].slot => i = j
    /\ \A i \in 1..Len(c.path) : c.path[i].role # NoRole =>
           c.path[i].role \in slotRoles[c.path[i].slot] \cap c.met
    /\ \A i, j \in 1..Len(c.path) :
           c.path[i].role = c.path[j].role /\ c.path[i].role # NoRole => i = j

MetAreFull(left, c) == \A r \in c.met : HowMany(c.has, r) = left[r]

\* A holder that was asked is on the path or has met all its roles; one that was
\* not is yet to be asked, if its role was met.
HoldersAreKnown(slotRoles, c) ==
    /\ c.asked \subseteq DOMAIN c.has
    /\ \A h \in c.asked : /\ c.has[h] \in c.met
                          /\ \/ slotRoles[h] \subseteq c.met
                             \/ \E i \in 1..Len(c.path) : c.path[i].slot = h
    /\ \A h \in DOMAIN c.has \ c.asked :
           c.has[h] \in c.met => \E i \in 1..Len(c.path) : c.path[i].role = c.has[h]

Midway(c) == c.answer = "none" /\ c.path # <<>>

CallIsSound(slotRoles, slots, left, c) ==
    /\ c \in CallShapes(slots)
    /\ Accepted(slotRoles, c.has) /\ Affordable(c.has, left)
    /\ DOMAIN c.has \cap c.todo = {}
    /\ c.answer = "none" /\ c.path = <<>> => slots = DOMAIN c.has \cup c.todo
    /\ c.answer = "yes" => DOMAIN c.has = slots
    /\ c.answer = "no" => ~Assignable(slotRoles, slots, left)
    /\ Midway(c) => /\ PathIsLinked(slotRoles, slots, c)
                      /\ MetAreFull(left, c)
                      /\ HoldersAreKnown(slotRoles, c)

\* How many steps are left at most.
Measure(slots, c) ==
    IF c.answer # "none" THEN 0
    ELSE IF c.path = <<>> THEN 1 + Cardinality(c.todo) * Turn(slots)
    ELSE 1 + Cardinality(c.todo) * Turn(slots) + 2 * Cardinality(DOMAIN c.has \ c.asked)
           + Cardinality(RoleIndex \ c.met) + Len(c.path)
-----------------------------------------------------------------------------
\* How many slots a role has.

LEMMA CountIsNat ==
  ASSUME NEW slots, IsFiniteSet(slots), NEW f, DOMAIN f \subseteq slots, NEW r
  PROVE  HowMany(f, r) \in Nat /\ IsFiniteSet({s \in DOMAIN f : f[s] = r})
<1>1. IsFiniteSet({s \in DOMAIN f : f[s] = r})
  BY FS_Subset
<1> QED
  BY <1>1, FS_CardinalityType DEF HowMany

\* At most the old ones and one more.
LEMMA OneTaken ==
  ASSUME NEW A, IsFiniteSet(A), NEW B, NEW t, B \subseteq A \cup {t}
  PROVE  Cardinality(B) <= Cardinality(A) + 1 /\ Cardinality(B) \in Nat
                                             /\ Cardinality(A) \in Nat
<1>1. IsFiniteSet(A \cup {t}) /\ Cardinality(A \cup {t}) <= Cardinality(A) + 1
  <2>1. Cardinality(A) \in Nat
    BY FS_CardinalityType
  <2> QED
    BY <2>1, FS_AddElement
<1>2. Cardinality(B) <= Cardinality(A \cup {t})
  BY <1>1, FS_Subset
<1>3. Cardinality(A) \in Nat /\ Cardinality(A \cup {t}) \in Nat /\ Cardinality(B) \in Nat
  BY <1>1, FS_CardinalityType, FS_Subset
<1> QED
  BY <1>1, <1>2, <1>3

\* One comes, one goes.
LEMMA OneSwapped ==
  ASSUME NEW A, IsFiniteSet(A), NEW B, NEW t, NEW u \in A, B \subseteq (A \ {u}) \cup {t}
  PROVE  Cardinality(B) <= Cardinality(A) /\ Cardinality(B) \in Nat
<1>1. IsFiniteSet(A \ {u}) /\ Cardinality(A \ {u}) = Cardinality(A) - 1
  BY FS_RemoveElement
<1>2. Cardinality(B) <= Cardinality(A \ {u}) + 1 /\ Cardinality(B) \in Nat
      /\ Cardinality(A \ {u}) \in Nat
  BY <1>1, OneTaken
<1>3. Cardinality(A) \in Nat
  BY FS_CardinalityType
<1> QED
  BY <1>1, <1>2, <1>3
-----------------------------------------------------------------------------
\* The steps of one call, each from a sound state to a sound one.

LEMMA CallFields ==
  ASSUME NEW slots, NEW c \in CallShapes(slots)
  PROVE  /\ DOMAIN c.has \subseteq slots /\ c.has \in [DOMAIN c.has -> RoleIndex]
         /\ c.todo \subseteq slots /\ c.path \in Seq(OpenCalls(slots))
         /\ c.met \subseteq RoleIndex /\ c.asked \subseteq slots
         /\ c.answer \in {"none", "yes", "no"}
         /\ Len(c.path) \in Nat
         /\ \A i \in 1..Len(c.path) : c.path[i] \in OpenCalls(slots)
         /\ c.path # <<>> => Len(c.path) >= 1
         /\ NoRole \notin RoleIndex
<1>1. PICK some \in SUBSET slots : c.has \in [some -> RoleIndex]
  BY DEF CallShapes
<1>2. DOMAIN c.has \subseteq slots /\ c.has \in [DOMAIN c.has -> RoleIndex]
  BY <1>1
<1>3. c.path \in Seq(OpenCalls(slots))
  BY DEF CallShapes
<1>4. Len(c.path) \in Nat /\ \A i \in 1..Len(c.path) : c.path[i] \in OpenCalls(slots)
  BY <1>3, LenProperties, ElementOfSeq
<1>5. c.path # <<>> => Len(c.path) >= 1
  BY <1>3, EmptySeq, LenProperties
<1>6. NoRole \notin RoleIndex
  BY MatchingAssumption DEF NoRole, RoleIndex
<1> QED
  BY <1>2, <1>3, <1>4, <1>5, <1>6 DEF CallShapes

LEMMA OutsetIsSound ==
  ASSUME NEW slotRoles, NEW slots, NEW left, Posed(slotRoles, slots, left)
  PROVE  CallIsSound(slotRoles, slots, left, Outset(slots))
<1> DEFINE c == Outset(slots)
<1>1. c.has \in [{} -> RoleIndex] /\ DOMAIN c.has = {}
  BY DEF Outset
<1>2. c \in CallShapes(slots)
  BY <1>1 DEF Outset, CallShapes
<1>3. \A r \in RoleIndex : HowMany(c.has, r) <= left[r]
  <2> TAKE r \in RoleIndex
  <2>1. {s \in DOMAIN c.has : c.has[s] = r} = {}
    BY <1>1
  <2> QED
    BY <2>1, FS_EmptySet DEF HowMany, Posed
<1> QED
  BY <1>1, <1>2, <1>3 DEF CallIsSound, Outset, Accepted, Affordable, Midway

LEMMA DoneIsSound ==
  ASSUME NEW slotRoles, NEW slots, NEW left, Posed(slotRoles, slots, left),
         NEW c, CallIsSound(slotRoles, slots, left, c),
         c.answer = "none", c.path = <<>>, c.todo = {}
  PROVE  CallIsSound(slotRoles, slots, left, [c EXCEPT !.answer = "yes"])
BY DEF CallIsSound, CallShapes, Midway

LEMMA TurnIsSound ==
  ASSUME NEW slotRoles, NEW slots, NEW left, Posed(slotRoles, slots, left),
         NEW c, CallIsSound(slotRoles, slots, left, c),
         c.answer = "none", c.path = <<>>, c.todo # {}
  PROVE  CallIsSound(slotRoles, slots, left, NextTurn(c))
<1> DEFINE s == CHOOSE t \in c.todo : TRUE
           d == NextTurn(c)
<1>1. s \in c.todo
  OBVIOUS
<1> HIDE DEF s
<1>2. c \in CallShapes(slots) /\ s \in slots
  BY <1>1 DEF CallIsSound, CallShapes
<1>3. d = [c EXCEPT !.todo = @ \ {s}, !.path = <<Untried(s)>>, !.met = {}, !.asked = {}]
  BY DEF NextTurn, s
<1>4. <<Untried(s)>> \in Seq(OpenCalls(slots)) /\ Len(<<Untried(s)>>) = 1
      /\ <<Untried(s)>>[1] = Untried(s)
  BY <1>2 DEF Untried, OpenCalls
<1>5. /\ d \in CallShapes(slots) /\ d.has = c.has /\ d.answer = "none" /\ d.todo = c.todo \ {s}
      /\ d.path = <<Untried(s)>> /\ d.met = {} /\ d.asked = {}
  BY <1>2, <1>3, <1>4 DEF CallShapes
<1>6. d.path # <<>>
  BY <1>4, <1>5
<1>7. PathIsLinked(slotRoles, slots, d)
  <2>1. s \notin DOMAIN d.has \cup d.todo /\ slots = DOMAIN d.has \cup d.todo \cup {s}
    BY <1>1, <1>5 DEF CallIsSound
  <2>2. d.path[1].slot = s /\ d.path[1].role = NoRole /\ Len(d.path) = 1
    BY <1>4, <1>5 DEF Untried
  <2> QED
    BY <2>1, <2>2 DEF PathIsLinked
<1>8. MetAreFull(left, d) /\ HoldersAreKnown(slotRoles, d)
  BY <1>5 DEF MetAreFull, HoldersAreKnown
<1>9. /\ Accepted(slotRoles, d.has) /\ Affordable(d.has, left)
      /\ DOMAIN d.has \cap d.todo = {}
  BY <1>5 DEF CallIsSound
<1> HIDE DEF d
<1>10. CallIsSound(slotRoles, slots, left, d)
  BY <1>5, <1>6, <1>7, <1>8, <1>9 DEF CallIsSound
<1> QED
  BY <1>10 DEF d

\* What a sound call under way tells of its innermost slot.
LEMMA TopFacts ==
  ASSUME NEW slotRoles, NEW slots, NEW left, Posed(slotRoles, slots, left),
         NEW c, CallIsSound(slotRoles, slots, left, c), Midway(c)
  PROVE  /\ c \in CallShapes(slots) /\ Len(c.path) \in Nat \ {0}
         /\ Top(c) = c.path[Len(c.path)] /\ Top(c) \in OpenCalls(slots)
         /\ Top(c).slot \in slots /\ slotRoles[Top(c).slot] \subseteq RoleIndex
         /\ PathIsLinked(slotRoles, slots, c)
         /\ MetAreFull(left, c) /\ HoldersAreKnown(slotRoles, c)
<1>1. c \in CallShapes(slots)
  BY DEF CallIsSound
<1>2. Len(c.path) \in Nat \ {0} /\ c.path[Len(c.path)] \in OpenCalls(slots)
  BY <1>1, CallFields DEF Midway
<1>3. Top(c) = c.path[Len(c.path)]
  BY DEF Top
<1>4. Top(c).slot \in slots
  BY <1>2, <1>3 DEF OpenCalls
<1> QED
  BY <1>1, <1>2, <1>3, <1>4 DEF CallIsSound, Posed

LEMMA AskIsSound ==
  ASSUME NEW slotRoles, NEW slots, NEW left, Posed(slotRoles, slots, left),
         NEW c, CallIsSound(slotRoles, slots, left, c), Midway(c),
         NEW h \in Holders(c, Top(c).role) \ c.asked
  PROVE  CallIsSound(slotRoles, slots, left, AskHolder(c, h))
<1> DEFINE d == AskHolder(c, h)
           k == Len(c.path)
<1>1. /\ c \in CallShapes(slots) /\ k \in Nat \ {0} /\ Top(c) = c.path[k]
      /\ PathIsLinked(slotRoles, slots, c) /\ MetAreFull(left, c)
      /\ HoldersAreKnown(slotRoles, c)
  BY TopFacts
<1>2. h \in DOMAIN c.has /\ c.has[h] = c.path[k].role /\ h \notin c.asked
  BY <1>1 DEF Holders
<1>3. h \in slots /\ c.has[h] \in RoleIndex /\ c.has[h] # NoRole
  BY <1>1, <1>2, CallFields
<1>4. Untried(h) \in OpenCalls(slots)
  BY <1>3 DEF Untried, OpenCalls
<1>5. /\ Append(c.path, Untried(h)) \in Seq(OpenCalls(slots))
      /\ Len(Append(c.path, Untried(h))) = k + 1
      /\ \A i \in 1..k : Append(c.path, Untried(h))[i] = c.path[i]
      /\ Append(c.path, Untried(h))[k + 1] = Untried(h)
  BY <1>1, <1>4, CallFields, AppendProperties
<1>6. /\ d \in CallShapes(slots) /\ d.has = c.has /\ d.answer = c.answer /\ d.todo = c.todo
      /\ d.path = Append(c.path, Untried(h)) /\ d.met = c.met /\ d.asked = c.asked \cup {h}
  BY <1>1, <1>3, <1>5 DEF CallShapes, AskHolder
<1> HIDE DEF d
<1>7. /\ Len(d.path) = k + 1 /\ \A i \in 1..k : d.path[i] = c.path[i]
      /\ d.path[k + 1].slot = h /\ d.path[k + 1].role = NoRole
      /\ d.path[1] = c.path[1]
  BY <1>1, <1>5, <1>6 DEF Untried
<1>8. d.path # <<>>
  BY <1>1, <1>7, EmptySeq
<1> HIDE DEF k
<1>9. PathIsLinked(slotRoles, slots, d)
  <2>1. /\ d.path[1].slot \notin DOMAIN d.has \cup d.todo
        /\ slots = DOMAIN d.has \cup d.todo \cup {d.path[1].slot}
    BY <1>1, <1>6, <1>7 DEF PathIsLinked
  <2>2. ASSUME NEW i \in 2..(k + 1)
        PROVE  d.path[i].slot \in d.asked /\ d.has[d.path[i].slot] = d.path[i - 1].role
    <3>1. CASE i = k + 1
      BY <3>1, <1>1, <1>2, <1>6, <1>7
    <3>2. CASE i \in 2..k
      BY <3>2, <1>1, <1>6, <1>7 DEF PathIsLinked, k
    <3> QED
      BY <1>1, <3>1, <3>2
  <2>3. \A i \in 1..k : d.path[i].slot # h
    <3> TAKE i \in 1..k
    <3>1. i = 1 => d.path[i].slot # h
      BY <1>1, <1>2, <1>7 DEF PathIsLinked
    <3>2. i # 1 => d.path[i].slot # h
      BY <1>1, <1>2, <1>7 DEF PathIsLinked, k
    <3> QED
      BY <3>1, <3>2
  <2>10. \A i \in 1..(k + 1) : i \in 1..k \/ i = k + 1
    BY <1>1
  <2>11. \A i, j \in 1..k : d.path[i].slot = d.path[j].slot => i = j
    BY <1>1, <1>7 DEF PathIsLinked, k
  <2>12. \A i, j \in 1..k :
           d.path[i].role = d.path[j].role /\ d.path[i].role # NoRole => i = j
    BY <1>1, <1>7 DEF PathIsLinked, k
  <2>4. \A i, j \in 1..(k + 1) : d.path[i].slot = d.path[j].slot => i = j
    BY <1>7, <2>3, <2>10, <2>11
  <2>5. \A i \in 1..(k + 1) : d.path[i].role # NoRole =>
           d.path[i].role \in slotRoles[d.path[i].slot] \cap d.met
    BY <1>1, <1>6, <1>7 DEF PathIsLinked, k
  <2>6. \A i, j \in 1..(k + 1) :
           d.path[i].role = d.path[j].role /\ d.path[i].role # NoRole => i = j
    BY <1>7, <2>10, <2>12
  <2> QED
    BY <1>7, <2>1, <2>2, <2>4, <2>5, <2>6 DEF PathIsLinked
<1>10. MetAreFull(left, d)
  BY <1>1, <1>6 DEF MetAreFull
<1>11. HoldersAreKnown(slotRoles, d)
  <2>1. c.has[h] \in c.met
    BY <1>1, <1>2, <1>3 DEF PathIsLinked, k
  <2>2. ASSUME NEW g \in d.asked
        PROVE  /\ d.has[g] \in d.met
               /\ \/ slotRoles[g] \subseteq d.met
                  \/ \E i \in 1..Len(d.path) : d.path[i].slot = g
    <3>1. CASE g = h
      BY <3>1, <2>1, <1>1, <1>6, <1>7
    <3>2. CASE g \in c.asked
      <4>1. c.has[g] \in c.met
        BY <3>2, <1>1 DEF HoldersAreKnown
      <4>2. CASE slotRoles[g] \subseteq c.met
        BY <4>1, <4>2, <1>6
      <4>3. CASE \E i \in 1..k : c.path[i].slot = g
        BY <4>1, <4>3, <1>1, <1>6, <1>7
      <4> QED
        BY <3>2, <4>2, <4>3, <1>1 DEF HoldersAreKnown, k
    <3> QED
      BY <3>1, <3>2, <1>6
  <2>3. ASSUME NEW g \in DOMAIN d.has \ d.asked, d.has[g] \in d.met
        PROVE  \E i \in 1..Len(d.path) : d.path[i].role = d.has[g]
    <3>1. PICK i \in 1..k : c.path[i].role = c.has[g]
      BY <2>3, <1>1, <1>6 DEF HoldersAreKnown, k
    <3> QED
      BY <3>1, <1>1, <1>6, <1>7
  <2> QED
    BY <1>1, <1>2, <1>6, <2>2, <2>3 DEF HoldersAreKnown
<1>12. /\ Accepted(slotRoles, d.has) /\ Affordable(d.has, left)
       /\ DOMAIN d.has \cap d.todo = {} /\ d.answer = "none"
  BY <1>6 DEF CallIsSound, Midway
<1>13. CallIsSound(slotRoles, slots, left, d)
  BY <1>6, <1>8, <1>9, <1>10, <1>11, <1>12 DEF CallIsSound
<1> QED
  BY <1>13 DEF d

Tried(c, r) == [c.path EXCEPT ![Len(c.path)].role = r]

LEMMA TriedPath ==
  ASSUME NEW slots, NEW c \in CallShapes(slots), c.path # <<>>, NEW r \in RoleIndex
  PROVE  /\ Tried(c, r) \in Seq(OpenCalls(slots)) /\ Tried(c, r) # <<>>
         /\ Len(Tried(c, r)) = Len(c.path) /\ DOMAIN Tried(c, r) = 1..Len(c.path)
         /\ \A i \in 1..Len(c.path) : i # Len(c.path) => Tried(c, r)[i] = c.path[i]
         /\ \A i \in 1..Len(c.path) : Tried(c, r)[i].slot = c.path[i].slot
         /\ Tried(c, r)[Len(c.path)].role = r
<1> DEFINE k == Len(c.path)
           path == Tried(c, r)
           top == [c.path[k] EXCEPT !.role = r]
<1>1. k \in Nat /\ k >= 1 /\ c.path \in Seq(OpenCalls(slots)) /\ c.path[k] \in OpenCalls(slots)
      /\ \A i \in 1..k : c.path[i] \in OpenCalls(slots)
  BY CallFields
<1>2. top \in OpenCalls(slots) /\ top.slot = c.path[k].slot /\ top.role = r
  BY <1>1 DEF OpenCalls
<1>3. DOMAIN c.path = 1..k
  BY <1>1, LenProperties
<1>4. path = [i \in 1..k |-> IF i = k THEN top ELSE c.path[i]]
  BY <1>1, <1>3 DEF Tried
<1> HIDE DEF top
<1>5. path \in [1..k -> OpenCalls(slots)]
  BY <1>1, <1>2, <1>4
<1>6. path \in Seq(OpenCalls(slots)) /\ Len(path) = k
  BY <1>1, <1>5, IsASeq, LenProperties
<1>7. path # <<>>
  BY <1>1, <1>6, EmptySeq
<1> QED
  BY <1>1, <1>2, <1>4, <1>5, <1>6, <1>7

LEMMA FullRoleIsSound ==
  ASSUME NEW slotRoles, NEW slots, NEW left, Posed(slotRoles, slots, left),
         NEW c, CallIsSound(slotRoles, slots, left, c), Midway(c),
         Holders(c, Top(c).role) \subseteq c.asked,
         NEW r \in slotRoles[Top(c).slot] \ c.met, ~(HowMany(c.has, r) < left[r])
  PROVE  CallIsSound(slotRoles, slots, left, Try(c, left, r))
<1> DEFINE d == Try(c, left, r)
           k == Len(c.path)
           path == Tried(c, r)
<1>1. /\ c \in CallShapes(slots) /\ k \in Nat \ {0} /\ Top(c) = c.path[k]
      /\ PathIsLinked(slotRoles, slots, c) /\ MetAreFull(left, c)
      /\ HoldersAreKnown(slotRoles, c)
      /\ r \in RoleIndex /\ r # NoRole /\ c.path # <<>>
  BY TopFacts, CallFields DEF Midway
<1>2. /\ path \in Seq(OpenCalls(slots)) /\ path # <<>> /\ Len(path) = k
      /\ \A i \in 1..k : i # k => path[i] = c.path[i]
      /\ \A i \in 1..k : path[i].slot = c.path[i].slot
      /\ path[k].role = r
  BY <1>1, TriedPath
<1> HIDE DEF path
<1>3. /\ d \in CallShapes(slots) /\ d.has = c.has /\ d.answer = c.answer /\ d.todo = c.todo
      /\ d.path = path /\ d.met = c.met \cup {r} /\ d.asked = c.asked
  BY <1>1, <1>2 DEF CallShapes, Try, Tried, path
<1> HIDE DEF d
<1> HIDE DEF k
<1>4. \A i \in 1..k : d.path[i].role # NoRole =>
           d.path[i].role \in slotRoles[d.path[i].slot] \cap d.met
  <2> SUFFICES ASSUME NEW i \in 1..k, d.path[i].role # NoRole
               PROVE  d.path[i].role \in slotRoles[d.path[i].slot] \cap d.met
    OBVIOUS
  <2>1. CASE i = k
    BY <2>1, <1>1, <1>2, <1>3
  <2>2. CASE i # k
    BY <2>2, <1>1, <1>2, <1>3 DEF PathIsLinked, k
  <2> QED
    BY <2>1, <2>2
<1>5. \A i \in 1..k : i # k => d.path[i].role # r
  BY <1>1, <1>2, <1>3 DEF PathIsLinked, k
<1>6. PathIsLinked(slotRoles, slots, d)
  <2>1. d.path[1].slot = c.path[1].slot
    BY <1>1, <1>2, <1>3
  <2>2. ASSUME NEW i \in 2..k
        PROVE  d.path[i].slot \in d.asked /\ d.has[d.path[i].slot] = d.path[i - 1].role
    <3>1. i \in 1..k /\ i - 1 \in 1..k /\ i - 1 # k
      BY <1>1
    <3>2. c.path[i].slot \in c.asked /\ c.has[c.path[i].slot] = c.path[i - 1].role
      BY <1>1 DEF PathIsLinked, k
    <3>3. d.path[i].slot = c.path[i].slot /\ d.path[i - 1] = c.path[i - 1]
      BY <3>1, <1>2, <1>3
    <3> QED
      BY <3>2, <3>3, <1>3
  <2>3. \A i, j \in 1..k : d.path[i].slot = d.path[j].slot => i = j
    BY <1>1, <1>2, <1>3 DEF PathIsLinked, k
  <2>4. \A i, j \in 1..k :
           d.path[i].role = d.path[j].role /\ d.path[i].role # NoRole => i = j
    <3> SUFFICES ASSUME NEW i \in 1..k, NEW j \in 1..k,
                        d.path[i].role = d.path[j].role, d.path[i].role # NoRole
                 PROVE  i = j
      OBVIOUS
    <3>1. CASE i = k \/ j = k
      BY <3>1, <1>2, <1>3, <1>5
    <3>2. CASE i # k /\ j # k
      BY <3>2, <1>1, <1>2, <1>3 DEF PathIsLinked, k
    <3> QED
      BY <3>1, <3>2
  <2>5. Len(d.path) = k
    BY <1>2, <1>3
  <2> QED
    BY <1>1, <1>3, <1>4, <2>1, <2>2, <2>3, <2>4, <2>5 DEF PathIsLinked
<1>7. MetAreFull(left, d)
  <2>1. HowMany(c.has, r) <= left[r] /\ left[r] \in Nat
    BY <1>1 DEF CallIsSound, Affordable, Posed
  <2>2. HowMany(c.has, r) \in Nat
    <3>1. IsFiniteSet(slots) /\ DOMAIN c.has \subseteq slots
      BY <1>1, CallFields DEF Posed
    <3> QED
      BY <3>1, CountIsNat
  <2>3. HowMany(c.has, r) = left[r]
    BY <2>1, <2>2
  <2> QED
    BY <2>3, <1>1, <1>3 DEF MetAreFull
<1>8. HoldersAreKnown(slotRoles, d)
  <2>1. ASSUME NEW g \in d.asked
        PROVE  /\ d.has[g] \in d.met
               /\ \/ slotRoles[g] \subseteq d.met
                  \/ \E i \in 1..Len(d.path) : d.path[i].slot = g
    <3>1. c.has[g] \in c.met
      BY <1>1, <1>3 DEF HoldersAreKnown
    <3>2. CASE slotRoles[g] \subseteq c.met
      BY <3>1, <3>2, <1>3
    <3>3. CASE \E i \in 1..k : c.path[i].slot = g
      BY <3>1, <3>3, <1>2, <1>3
    <3> QED
      BY <3>2, <3>3, <1>1, <1>3 DEF HoldersAreKnown, k
  <2>2. ASSUME NEW g \in DOMAIN d.has \ d.asked, d.has[g] \in d.met
        PROVE  \E i \in 1..Len(d.path) : d.path[i].role = d.has[g]
    <3>1. CASE c.has[g] = r
      BY <3>1, <1>1, <1>2, <1>3
    <3>2. CASE c.has[g] # r
      <4>1. PICK i \in 1..k : c.path[i].role = c.has[g]
        BY <3>2, <2>2, <1>1, <1>3 DEF HoldersAreKnown, k
      <4>2. i # k
        BY <4>1, <1>1, <1>3 DEF Holders
      <4> QED
        BY <4>1, <4>2, <1>2, <1>3
    <3> QED
      BY <3>1, <3>2
  <2> QED
    BY <1>1, <1>3, <2>1, <2>2 DEF HoldersAreKnown
<1>9. /\ Accepted(slotRoles, d.has) /\ Affordable(d.has, left)
      /\ DOMAIN d.has \cap d.todo = {} /\ d.answer = "none" /\ d.path # <<>>
  BY <1>2, <1>3 DEF CallIsSound, Midway
<1>10. CallIsSound(slotRoles, slots, left, d)
  BY <1>3, <1>6, <1>7, <1>8, <1>9 DEF CallIsSound
<1> QED
  BY <1>10 DEF d

\* Everybody on the path but the innermost slot tries a role.
LEMMA OthersTry ==
  ASSUME NEW slotRoles, NEW slots, NEW left, Posed(slotRoles, slots, left),
         NEW c, CallIsSound(slotRoles, slots, left, c), Midway(c),
         NEW i \in 1..Len(c.path), i # Len(c.path)
  PROVE  c.path[i].role # NoRole
<1>1. /\ c \in CallShapes(slots) /\ Len(c.path) \in Nat
      /\ PathIsLinked(slotRoles, slots, c) /\ HoldersAreKnown(slotRoles, c)
  BY TopFacts
<1>2. i + 1 \in 2..Len(c.path) /\ (i + 1) - 1 = i
  BY <1>1
<1>3. c.path[i + 1].slot \in c.asked /\ c.has[c.path[i + 1].slot] = c.path[i].role
  BY <1>1, <1>2 DEF PathIsLinked
<1>4. c.path[i + 1].slot \in DOMAIN c.has
  BY <1>1, <1>3 DEF HoldersAreKnown
<1> QED
  BY <1>1, <1>3, <1>4, CallFields

\* Along the path every role loses one slot and gains another, but for the last,
\* which had one left.
LEMMA FreeRoleIsSound ==
  ASSUME NEW slotRoles, NEW slots, NEW left, Posed(slotRoles, slots, left),
         NEW c, CallIsSound(slotRoles, slots, left, c), Midway(c),
         NEW r \in slotRoles[Top(c).slot] \ c.met, HowMany(c.has, r) < left[r]
  PROVE  CallIsSound(slotRoles, slots, left, Try(c, left, r))
<1> DEFINE d == Try(c, left, r)
           k == Len(c.path)
           path == Tried(c, r)
           has == Settled(c.has, path)
<1>1. /\ c \in CallShapes(slots) /\ k \in Nat \ {0} /\ Top(c) = c.path[k]
      /\ PathIsLinked(slotRoles, slots, c) /\ MetAreFull(left, c)
      /\ HoldersAreKnown(slotRoles, c)
      /\ r \in RoleIndex /\ r # NoRole /\ c.path # <<>>
  BY TopFacts, CallFields DEF Midway
<1>2. /\ path \in Seq(OpenCalls(slots)) /\ path # <<>> /\ DOMAIN path = 1..k
      /\ \A i \in 1..k : i # k => path[i] = c.path[i]
      /\ \A i \in 1..k : path[i].slot = c.path[i].slot
      /\ path[k].role = r
  BY <1>1, TriedPath
<1>3. d = [c EXCEPT !.has = has, !.path = <<>>]
  BY DEF Try, Tried
<1> HIDE DEF path
<1>4. DOMAIN has = DOMAIN c.has \cup {path[i].slot : i \in 1..k}
  BY <1>2 DEF Settled
<1>5. \A i \in 1..k : has[path[i].slot] = path[i].role
  <2> TAKE i \in 1..k
  <2> DEFINE at == CHOOSE j \in 1..k : path[j].slot = path[i].slot
  <2>1. at \in 1..k /\ path[at].slot = path[i].slot
    OBVIOUS
  <2>2. at = i
    BY <2>1, <1>1, <1>2 DEF PathIsLinked
  <2>3. path[i].slot \in DOMAIN has
    BY <1>4
  <2>4. has[path[i].slot] = path[at].role
    BY <2>3, <1>2 DEF Settled
  <2> QED
    BY <2>2, <2>4
<1>6. \A s \in DOMAIN c.has : (\A i \in 1..k : path[i].slot # s) => has[s] = c.has[s]
  BY <1>2, <1>4 DEF Settled
<1> HIDE DEF has, k
<1>7. \A i \in 1..k : /\ path[i].role \in slotRoles[path[i].slot]
                      /\ path[i].slot \in slots /\ path[i].role \in RoleIndex
  <2> TAKE i \in 1..k
  <2>1. path[i].slot \in slots
    BY <1>1, <1>2, CallFields DEF OpenCalls, k
  <2>2. CASE i = k
    BY <2>1, <2>2, <1>1, <1>2
  <2>3. CASE i # k
    <3>1. c.path[i].role # NoRole
      BY <2>3, OthersTry DEF k
    <3>2. path[i].role \in slotRoles[path[i].slot]
      BY <3>1, <2>3, <1>1, <1>2 DEF PathIsLinked, k
    <3> QED
      BY <3>2, <2>1 DEF Posed
  <2> QED
    BY <2>2, <2>3
<1>8. DOMAIN has \subseteq slots /\ has \in [DOMAIN has -> RoleIndex] /\ Accepted(slotRoles, has)
  <2>1. DOMAIN has \subseteq slots
    BY <1>1, <1>4, <1>7, CallFields
  <2>2. ASSUME NEW s \in DOMAIN has PROVE has[s] \in RoleIndex /\ has[s] \in slotRoles[s]
    <3>1. CASE \E i \in 1..k : path[i].slot = s
      BY <3>1, <1>5, <1>7
    <3>2. CASE \A i \in 1..k : path[i].slot # s
      <4>1. s \in DOMAIN c.has /\ has[s] = c.has[s]
        BY <3>2, <1>4, <1>6
      <4> QED
        BY <4>1, <1>1, CallFields DEF CallIsSound, Accepted
    <3> QED
      BY <3>1, <3>2
  <2>3. has = [s \in DOMAIN has |-> has[s]]
    BY DEF has, Settled
  <2> QED
    BY <2>1, <2>2, <2>3 DEF Accepted
<1>9. \A i \in 2..k : /\ path[i].slot \in DOMAIN c.has
                      /\ c.has[path[i].slot] = path[i - 1].role
  <2> TAKE i \in 2..k
  <2>1. i \in 1..k /\ i - 1 \in 1..k /\ i - 1 # k
    BY <1>1
  <2> QED
    BY <2>1, <1>1, <1>2 DEF PathIsLinked, HoldersAreKnown, k
<1>10. \A i \in 1..k : i # k => path[i].role # r
  BY <1>1, <1>2 DEF PathIsLinked, k
<1>11. Affordable(has, left)
  <2> SUFFICES ASSUME NEW q \in RoleIndex PROVE HowMany(has, q) <= left[q]
    BY DEF Affordable
  <2> DEFINE Old(p) == {s \in DOMAIN c.has : c.has[s] = p}
             New(p) == {s \in DOMAIN has : has[s] = p}
  <2>1. /\ IsFiniteSet(Old(q)) /\ Cardinality(Old(q)) \in Nat
        /\ Cardinality(Old(q)) <= left[q] /\ left[q] \in Nat
    <3>1. IsFiniteSet(slots) /\ DOMAIN c.has \subseteq slots
      BY <1>1, CallFields DEF Posed
    <3>2. IsFiniteSet(Old(q)) /\ HowMany(c.has, q) \in Nat
      <4>1. Old(q) \subseteq slots
        BY <3>1
      <4>2. IsFiniteSet(Old(q))
        BY <3>1, <4>1, FS_Subset
      <4> QED
        BY <3>1, <4>2, CountIsNat
    <3>3. HowMany(c.has, q) <= left[q] /\ left[q] \in Nat
      BY DEF Posed, CallIsSound, Affordable
    <3> QED
      BY <3>2, <3>3 DEF HowMany
  <2>2. \A s \in New(q) : (\A i \in 1..k : path[i].slot # s) => s \in Old(q)
    BY <1>4, <1>6
  <2>3. \A i, j \in 1..k : path[i].role = path[j].role => i = j
    <3> SUFFICES ASSUME NEW i \in 1..k, NEW j \in 1..k, path[i].role = path[j].role
                 PROVE  i = j
      OBVIOUS
    <3>1. CASE i = k \/ j = k
      BY <3>1, <1>2, <1>10
    <3>2. CASE i # k /\ j # k
      <4>1. c.path[i].role = c.path[j].role /\ c.path[i].role # NoRole
        BY <3>2, <1>2, OthersTry DEF k
      <4> QED
        BY <4>1, <1>1 DEF PathIsLinked, k
    <3> QED
      BY <3>1, <3>2
  <2>4. CASE q = r
    <3>1. New(q) \subseteq Old(q) \cup {path[k].slot}
      BY <2>2, <2>4, <1>5, <1>10
    <3>2. Cardinality(New(q)) <= Cardinality(Old(q)) + 1 /\ Cardinality(New(q)) \in Nat
      BY <3>1, <2>1, OneTaken
    <3>3. Cardinality(Old(q)) < left[q]
      BY <2>4 DEF HowMany
    <3> QED
      BY <2>1, <3>2, <3>3 DEF HowMany
  <2>5. CASE q # r /\ \E i \in 1..k : path[i].role = q
    <3>1. PICK i \in 1..k : path[i].role = q
      BY <2>5
    <3>2. i # k
      BY <2>5, <3>1, <1>2
    <3>3. i + 1 \in 2..k /\ i + 1 \in 1..k /\ (i + 1) - 1 = i
      BY <3>2, <1>1
    <3>4. path[i + 1].slot \in Old(q)
      BY <3>1, <3>3, <1>9
    <3>5. path[i + 1].slot \notin New(q)
      <4>1. has[path[i + 1].slot] = path[i + 1].role
        BY <3>3, <1>5
      <4>2. path[i + 1].role # path[i].role
        BY <3>3, <2>3
      <4> QED
        BY <4>1, <4>2, <3>1
    <3>6. New(q) \subseteq (Old(q) \ {path[i + 1].slot}) \cup {path[i].slot}
      <4> SUFFICES ASSUME NEW s \in New(q), s # path[i].slot PROVE s \in Old(q)
        BY <3>5
      <4>1. \A j \in 1..k : path[j].slot # s
        BY <3>1, <1>5, <2>3
      <4> QED
        BY <4>1, <2>2
    <3>7. IsFiniteSet(Old(q))
      BY <2>1
    <3> DEFINE gone == path[i + 1].slot
               come == path[i].slot
    <3>9. gone \in Old(q) /\ New(q) \subseteq (Old(q) \ {gone}) \cup {come}
      BY <3>4, <3>6
    <3> HIDE DEF Old, New, gone, come
    <3>8. Cardinality(New(q)) <= Cardinality(Old(q)) /\ Cardinality(New(q)) \in Nat
      BY <3>7, <3>9, OneSwapped
    <3> QED
      BY <2>1, <3>8 DEF HowMany, New
  <2>6. CASE \A i \in 1..k : path[i].role # q
    <3>1. New(q) \subseteq Old(q)
      BY <2>2, <2>6, <1>5
    <3>2. Cardinality(New(q)) <= Cardinality(Old(q)) /\ IsFiniteSet(New(q))
      BY <3>1, <2>1, FS_Subset
    <3>3. Cardinality(New(q)) \in Nat
      BY <3>2, FS_CardinalityType
    <3> QED
      BY <2>1, <3>2, <3>3 DEF HowMany
  <2> QED
    BY <2>4, <2>5, <2>6
<1>12. DOMAIN has = DOMAIN c.has \cup {c.path[1].slot}
  <2>1. 1 \in 1..k /\ path[1].slot = c.path[1].slot
    BY <1>1, <1>2
  <2>2. \A i \in 1..k : i # 1 => path[i].slot \in DOMAIN c.has
    BY <1>1, <1>9
  <2> QED
    BY <1>4, <2>1, <2>2
<1>13. /\ d \in CallShapes(slots) /\ d.has = has /\ d.answer = c.answer /\ d.todo = c.todo
       /\ d.path = <<>>
  <2>1. <<>> \in Seq(OpenCalls(slots))
    BY EmptySeq
  <2>2. has \in UNION {[some -> RoleIndex] : some \in SUBSET slots}
    BY <1>8
  <2> QED
    BY <1>1, <1>3, <2>1, <2>2 DEF CallShapes
<1> HIDE DEF d
<1>14. DOMAIN d.has \cap d.todo = {} /\ slots = DOMAIN d.has \cup d.todo /\ d.answer = "none"
  BY <1>1, <1>12, <1>13 DEF PathIsLinked, CallIsSound, Midway
<1>15. CallIsSound(slotRoles, slots, left, d)
  BY <1>8, <1>11, <1>13, <1>14 DEF CallIsSound, Midway
<1> QED
  BY <1>15 DEF d

\* The innermost slot has met all its roles, and whoever it could ask was asked.
LEMMA GivingUpIsSound ==
  ASSUME NEW slotRoles, NEW slots, NEW left, Posed(slotRoles, slots, left),
         NEW c, CallIsSound(slotRoles, slots, left, c), Midway(c),
         Holders(c, Top(c).role) \subseteq c.asked, slotRoles[Top(c).slot] \subseteq c.met,
         Len(c.path) # 1
  PROVE  CallIsSound(slotRoles, slots, left, GiveUp(c))
<1> DEFINE d == GiveUp(c)
           k == Len(c.path)
           path == SubSeq(c.path, 1, k - 1)
<1>1. /\ c \in CallShapes(slots) /\ k \in Nat /\ k >= 2 /\ Top(c) = c.path[k]
      /\ PathIsLinked(slotRoles, slots, c) /\ MetAreFull(left, c)
      /\ HoldersAreKnown(slotRoles, c) /\ c.path \in Seq(OpenCalls(slots))
  <2>1. k \in Nat \ {0} /\ k # 1 /\ c \in CallShapes(slots)
    BY TopFacts
  <2> HIDE DEF k
  <2>2. k \in Nat /\ k >= 2
    BY <2>1
  <2> QED
    BY <2>1, <2>2, TopFacts, CallFields DEF k
<1>2. /\ path \in Seq(OpenCalls(slots)) /\ Len(path) = k - 1
      /\ \A i \in 1..(k - 1) : path[i] = c.path[i]
  BY <1>1, SubSeqProperties
<1>3. path # <<>>
  <2>1. Len(path) # 0
    BY <1>1, <1>2
  <2> QED
    BY <2>1, EmptySeq
<1> HIDE DEF path
<1>4. /\ d \in CallShapes(slots) /\ d.has = c.has /\ d.answer = c.answer /\ d.todo = c.todo
      /\ d.path = path /\ d.met = c.met /\ d.asked = c.asked
  BY <1>1, <1>2 DEF CallShapes, GiveUp, path
<1> HIDE DEF d, k
<1>5. 1..(k - 1) \subseteq 1..k /\ 1 \in 1..(k - 1) /\ Len(d.path) = k - 1
      /\ \A i \in 1..k : i \in 1..(k - 1) \/ i = k
  BY <1>1, <1>2, <1>4
<1>6. \A i \in 1..(k - 1) : d.path[i] = c.path[i]
  BY <1>2, <1>4
<1>7. PathIsLinked(slotRoles, slots, d)
  <2>1. ASSUME NEW i \in 2..(k - 1)
        PROVE  d.path[i].slot \in d.asked /\ d.has[d.path[i].slot] = d.path[i - 1].role
    <3>1. i \in 2..k /\ i \in 1..(k - 1) /\ i - 1 \in 1..(k - 1)
      BY <1>1
    <3>2. c.path[i].slot \in c.asked /\ c.has[c.path[i].slot] = c.path[i - 1].role
      BY <3>1, <1>1 DEF PathIsLinked, k
    <3> QED
      BY <3>1, <3>2, <1>4, <1>6
  <2>2. \A i, j \in 1..(k - 1) : d.path[i].slot = d.path[j].slot => i = j
    BY <1>1, <1>5, <1>6 DEF PathIsLinked, k
  <2>3. \A i \in 1..(k - 1) : d.path[i].role # NoRole =>
           d.path[i].role \in slotRoles[d.path[i].slot] \cap d.met
    BY <1>1, <1>4, <1>5, <1>6 DEF PathIsLinked, k
  <2>4. \A i, j \in 1..(k - 1) :
           d.path[i].role = d.path[j].role /\ d.path[i].role # NoRole => i = j
    BY <1>1, <1>5, <1>6 DEF PathIsLinked, k
  <2>5. /\ d.path[1].slot \notin DOMAIN d.has \cup d.todo
        /\ slots = DOMAIN d.has \cup d.todo \cup {d.path[1].slot}
    BY <1>1, <1>4, <1>5, <1>6 DEF PathIsLinked
  <2> QED
    BY <1>5, <2>1, <2>2, <2>3, <2>4, <2>5 DEF PathIsLinked
<1>8. HoldersAreKnown(slotRoles, d)
  <2>1. ASSUME NEW g \in d.asked
        PROVE  /\ d.has[g] \in d.met
               /\ \/ slotRoles[g] \subseteq d.met
                  \/ \E i \in 1..Len(d.path) : d.path[i].slot = g
    <3>1. c.has[g] \in c.met
      BY <1>1, <1>4 DEF HoldersAreKnown
    <3>2. CASE slotRoles[g] \subseteq c.met
      BY <3>1, <3>2, <1>4
    <3>3. CASE ~(slotRoles[g] \subseteq c.met)
      <4>1. PICK i \in 1..k : c.path[i].slot = g
        BY <3>3, <1>1, <1>4 DEF HoldersAreKnown, k
      <4>2. i # k
        BY <3>3, <4>1, <1>1
      <4> QED
        BY <3>1, <4>1, <4>2, <1>4, <1>5, <1>6
    <3> QED
      BY <3>2, <3>3
  <2>2. ASSUME NEW g \in DOMAIN d.has \ d.asked, d.has[g] \in d.met
        PROVE  \E i \in 1..Len(d.path) : d.path[i].role = d.has[g]
    <3>1. PICK i \in 1..k : c.path[i].role = c.has[g]
      BY <2>2, <1>1, <1>4 DEF HoldersAreKnown, k
    <3>2. i # k
      BY <3>1, <1>1, <1>4 DEF Holders
    <3> QED
      BY <3>1, <3>2, <1>4, <1>5, <1>6
  <2> QED
    BY <1>1, <1>4, <2>1, <2>2 DEF HoldersAreKnown
<1>9. /\ Accepted(slotRoles, d.has) /\ Affordable(d.has, left) /\ MetAreFull(left, d)
      /\ DOMAIN d.has \cap d.todo = {} /\ d.answer = "none" /\ d.path # <<>>
  BY <1>1, <1>3, <1>4 DEF CallIsSound, Midway, MetAreFull
<1>10. CallIsSound(slotRoles, slots, left, d)
  BY <1>4, <1>7, <1>8, <1>9 DEF CallIsSound
<1> QED
  BY <1>10 DEF d

\* A set that is no larger can be put into another, one to one.
LEMMA InjectionExists ==
  ASSUME NEW S, NEW T, IsFiniteSet(S), IsFiniteSet(T), Cardinality(S) <= Cardinality(T)
  PROVE  \E h \in [S -> T] : \A s, t \in S : h[s] = h[t] => s = t
<1> DEFINE m == Cardinality(S)
           n == Cardinality(T)
<1>1. m \in Nat /\ n \in Nat /\ m <= n
  BY FS_CardinalityType
<1>2. PICK b \in [1..m -> S] : \A s \in S : \E i \in 1..m : b[i] = s
  BY FS_CardinalityType DEF ExistsBijection, Bijection, Surjection
<1>3. PICK c \in [1..n -> T] : \A i, j \in 1..n : c[i] = c[j] => i = j
  BY FS_CardinalityType DEF ExistsBijection, Bijection, Injection, IsInjective
<1> HIDE DEF m, n
<1> DEFINE at == [s \in S |-> CHOOSE i \in 1..m : b[i] = s]
           h == [s \in S |-> c[at[s]]]
<1>4. \A s \in S : at[s] \in 1..m /\ b[at[s]] = s
  BY <1>2
<1> HIDE DEF at
<1>5. \A s \in S : at[s] \in 1..n
  BY <1>1, <1>4
<1>6. h \in [S -> T]
  BY <1>3, <1>5
<1>7. \A s, t \in S : h[s] = h[t] => s = t
  BY <1>3, <1>4, <1>5
<1> HIDE DEF h
<1> QED
  BY <1>6, <1>7

\* Slots that accept nothing but roles that are taken: if they are more than
\* the holders of those roles, they cannot all have one.
LEMMA TooMany ==
  ASSUME NEW slotRoles, NEW slots, NEW left, Posed(slotRoles, slots, left),
         NEW has, DOMAIN has \subseteq slots,
         NEW met \in SUBSET RoleIndex, \A r \in met : HowMany(has, r) = left[r],
         NEW s \in slots \ DOMAIN has, slotRoles[s] \subseteq met,
         \A h \in DOMAIN has : has[h] \in met => slotRoles[h] \subseteq met
  PROVE  ~Assignable(slotRoles, slots, left)
<1> DEFINE holders == {h \in DOMAIN has : has[h] \in met}
           W == holders \cup {s}
<1> SUFFICES ASSUME NEW f \in [slots -> RoleIndex],
                    Accepted(slotRoles, f), Affordable(f, left)
             PROVE  FALSE
  BY DEF Assignable
<1> DEFINE Wants(r) == {w \in slots : f[w] = r}
           Has(r) == {h \in DOMAIN has : has[h] = r}
           Into(r) == {g \in [Wants(r) -> Has(r)] :
                          \A v, w \in Wants(r) : g[v] = g[w] => v = w}
<1>1. IsFiniteSet(slots)
  BY DEF Posed
<1>2. ASSUME NEW r \in met PROVE Into(r) # {}
  <2>1. Wants(r) \subseteq slots /\ Has(r) \subseteq slots
    OBVIOUS
  <2>2. IsFiniteSet(Wants(r)) /\ IsFiniteSet(Has(r))
    BY <1>1, <2>1, FS_Subset
  <2>3. HowMany(f, r) = Cardinality(Wants(r)) /\ HowMany(has, r) = Cardinality(Has(r))
    BY DEF HowMany
  <2>4. Cardinality(Wants(r)) <= Cardinality(Has(r))
    BY <2>3 DEF Affordable
  <2> HIDE DEF Wants, Has
  <2>5. \E g \in [Wants(r) -> Has(r)] : \A v, w \in Wants(r) : g[v] = g[w] => v = w
    BY <2>2, <2>4, InjectionExists
  <2> QED
    BY <2>5
<1> DEFINE into == [r \in met |-> CHOOSE g \in Into(r) : TRUE]
           goes == [w \in W |-> into[f[w]][w]]
<1>3. \A r \in met : into[r] \in Into(r)
  BY <1>2
<1>4. \A w \in W : w \in slots /\ f[w] \in met /\ w \in Wants(f[w])
  <2> TAKE w \in W
  <2>1. w \in slots /\ slotRoles[w] \subseteq met
    OBVIOUS
  <2>2. f[w] \in slotRoles[w]
    BY <2>1 DEF Accepted
  <2> QED
    BY <2>1, <2>2
<1> HIDE DEF into
<1>5. \A w \in W : goes[w] \in Has(f[w])
  BY <1>3, <1>4
<1>6. goes \in [W -> holders]
  BY <1>4, <1>5
<1>7. \A v, w \in W : goes[v] = goes[w] => v = w
  <2> SUFFICES ASSUME NEW v \in W, NEW w \in W, goes[v] = goes[w] PROVE v = w
    OBVIOUS
  <2>1. f[v] = f[w]
    BY <1>5
  <2>2. into[f[v]][v] = into[f[v]][w]
    BY <2>1
  <2>3. v \in Wants(f[v]) /\ w \in Wants(f[v]) /\ into[f[v]] \in Into(f[v])
    BY <1>3, <1>4, <2>1
  <2> QED
    BY <2>2, <2>3
<1>8. IsFiniteSet(holders) /\ s \notin holders
  <2>1. holders \subseteq slots
    OBVIOUS
  <2> QED
    BY <1>1, <2>1, FS_Subset
<1>9. IsFiniteSet(W) /\ Cardinality(W) = Cardinality(holders) + 1
      /\ Cardinality(holders) \in Nat
  BY <1>8, FS_AddElement, FS_CardinalityType
<1> HIDE DEF W, holders, goes
<1>10. \E v, w \in W : v # w /\ goes[v] = goes[w]
  BY <1>6, <1>8, <1>9, FS_PigeonHole
<1> QED
  BY <1>7, <1>10

LEMMA NoWayIsSound ==
  ASSUME NEW slotRoles, NEW slots, NEW left, Posed(slotRoles, slots, left),
         NEW c, CallIsSound(slotRoles, slots, left, c), Midway(c),
         Holders(c, Top(c).role) \subseteq c.asked, slotRoles[Top(c).slot] \subseteq c.met,
         Len(c.path) = 1
  PROVE  CallIsSound(slotRoles, slots, left, GiveUp(c))
<1> DEFINE d == GiveUp(c)
           s == Top(c).slot
<1>1. /\ c \in CallShapes(slots) /\ Top(c) = c.path[1]
      /\ PathIsLinked(slotRoles, slots, c) /\ MetAreFull(left, c)
      /\ HoldersAreKnown(slotRoles, c) /\ c.path \in Seq(OpenCalls(slots))
  BY TopFacts, CallFields
<1>2. s \in slots \ DOMAIN c.has
  BY <1>1, TopFacts DEF PathIsLinked
<1>3. ASSUME NEW h \in DOMAIN c.has, c.has[h] \in c.met PROVE slotRoles[h] \subseteq c.met
  <2>1. h \in c.asked
    <3>1. c.path[1].role = c.has[h] => h \in c.asked
      BY <1>1 DEF Holders
    <3> QED
      BY <3>1, <1>1, <1>3 DEF HoldersAreKnown
  <2>2. h # c.path[1].slot
    BY <1>1, <1>2
  <2> QED
    BY <2>1, <2>2, <1>1 DEF HoldersAreKnown
<1>4. ~Assignable(slotRoles, slots, left)
  <2>1. DOMAIN c.has \subseteq slots /\ c.met \in SUBSET RoleIndex
    BY <1>1, CallFields
  <2>2. \A r \in c.met : HowMany(c.has, r) = left[r]
    BY <1>1 DEF MetAreFull
  <2> HIDE DEF s
  <2>3. slotRoles[s] \subseteq c.met
    BY DEF s
  <2> QED
    BY <1>2, <1>3, <2>1, <2>2, <2>3, TooMany
<1>5. SubSeq(c.path, 1, 0) \in Seq(OpenCalls(slots))
  BY <1>1, SubSeqProperties
<1>6. /\ d \in CallShapes(slots) /\ d.has = c.has /\ d.answer = "no" /\ d.todo = c.todo
  <2>1. Len(c.path) - 1 = 0
    OBVIOUS
  <2>2. d = [c EXCEPT !.path = SubSeq(c.path, 1, 0), !.answer = "no"]
    BY <1>1, <2>1 DEF GiveUp, CallShapes
  <2> HIDE DEF d
  <2> QED
    BY <1>1, <1>5, <2>2 DEF CallShapes
<1> HIDE DEF d
<1>7. CallIsSound(slotRoles, slots, left, d)
  BY <1>4, <1>6 DEF CallIsSound, Midway
<1> QED
  BY <1>7 DEF d

LEMMA StepIsSound ==
  ASSUME NEW slotRoles, NEW slots, NEW left, Posed(slotRoles, slots, left),
         NEW c, CallIsSound(slotRoles, slots, left, c)
  PROVE  CallIsSound(slotRoles, slots, left, Step(slotRoles, left, c))
<1> DEFINE holders == Holders(c, Top(c).role) \ c.asked
           roles == slotRoles[Top(c).slot] \ c.met
<1>1. CASE c.answer # "none"
  BY <1>1 DEF Step
<1>2. CASE c.answer = "none" /\ c.path = <<>> /\ c.todo = {}
  <2>1. Step(slotRoles, left, c) = [c EXCEPT !.answer = "yes"]
    BY <1>2 DEF Step
  <2> QED
    BY <1>2, <2>1, DoneIsSound
<1>3. CASE c.answer = "none" /\ c.path = <<>> /\ c.todo # {}
  <2>1. Step(slotRoles, left, c) = NextTurn(c)
    BY <1>3 DEF Step
  <2> QED
    BY <1>3, <2>1, TurnIsSound
<1>4. CASE Midway(c) /\ holders # {}
  <2>1. Step(slotRoles, left, c) = AskHolder(c, CHOOSE h \in holders : TRUE)
    BY <1>4 DEF Step, Midway
  <2>2. (CHOOSE h \in holders : TRUE) \in holders
    BY <1>4
  <2> QED
    BY <1>4, <2>1, <2>2, AskIsSound
<1>5. CASE Midway(c) /\ holders = {} /\ roles # {}
  <2> DEFINE r == CHOOSE q \in roles : TRUE
  <2>1. Step(slotRoles, left, c) = Try(c, left, r)
    BY <1>5 DEF Step, Midway
  <2>2. r \in slotRoles[Top(c).slot] \ c.met
    BY <1>5
  <2>3. Holders(c, Top(c).role) \subseteq c.asked
    BY <1>5
  <2> HIDE DEF r
  <2>4. CASE HowMany(c.has, r) < left[r]
    BY <1>5, <2>1, <2>2, <2>4, FreeRoleIsSound
  <2>5. CASE ~(HowMany(c.has, r) < left[r])
    BY <1>5, <2>1, <2>2, <2>3, <2>5, FullRoleIsSound
  <2> QED
    BY <2>4, <2>5
<1>6. CASE Midway(c) /\ holders = {} /\ roles = {}
  <2>1. Step(slotRoles, left, c) = GiveUp(c)
    BY <1>6 DEF Step, Midway
  <2>2. Holders(c, Top(c).role) \subseteq c.asked /\ slotRoles[Top(c).slot] \subseteq c.met
    BY <1>6
  <2> QED
    BY <1>6, <2>1, <2>2, GivingUpIsSound, NoWayIsSound
<1> QED
  BY <1>1, <1>2, <1>3, <1>4, <1>5, <1>6 DEF Midway
-----------------------------------------------------------------------------
\* Every step leaves fewer to do.

LEMMA Counts ==
  ASSUME NEW slotRoles, NEW slots, NEW left, Posed(slotRoles, slots, left),
         NEW c, CallIsSound(slotRoles, slots, left, c)
  PROVE  /\ IsFiniteSet(c.todo) /\ IsFiniteSet(DOMAIN c.has \ c.asked)
         /\ IsFiniteSet(RoleIndex \ c.met)
         /\ Cardinality(c.todo) \in Nat /\ Cardinality(DOMAIN c.has \ c.asked) \in Nat
         /\ Cardinality(RoleIndex \ c.met) \in Nat /\ Len(c.path) \in Nat
         /\ Cardinality(DOMAIN c.has) \in Nat
         /\ Cardinality(DOMAIN c.has) <= Cardinality(slots)
         /\ Cardinality(slots) \in Nat
<1>1. c \in CallShapes(slots) /\ IsFiniteSet(slots)
  BY DEF CallIsSound, Posed
<1>2. c.todo \subseteq slots /\ DOMAIN c.has \subseteq slots /\ DOMAIN c.has \ c.asked \subseteq slots
      /\ Len(c.path) \in Nat
  BY <1>1, CallFields
<1>3. IsFiniteSet(RoleIndex)
  BY FS_Interval, MatchingAssumption DEF RoleIndex
<1>4. IsFiniteSet(c.todo) /\ IsFiniteSet(DOMAIN c.has \ c.asked) /\ IsFiniteSet(DOMAIN c.has)
      /\ Cardinality(DOMAIN c.has) <= Cardinality(slots)
  BY <1>1, <1>2, FS_Subset
<1>5. RoleIndex \ c.met \subseteq RoleIndex
  OBVIOUS
<1>6. IsFiniteSet(RoleIndex \ c.met)
  BY <1>3, <1>5, FS_Subset
<1> QED
  BY <1>1, <1>2, <1>4, <1>6, FS_CardinalityType

LEMMA Fewer ==
  ASSUME NEW S, IsFiniteSet(S), NEW x \in S
  PROVE  /\ Cardinality(S \ {x}) = Cardinality(S) - 1
         /\ Cardinality(S) \in Nat /\ Cardinality(S \ {x}) \in Nat
<1>1. IsFiniteSet(S \ {x}) /\ Cardinality(S \ {x}) = Cardinality(S) - 1
  BY FS_RemoveElement
<1> QED
  BY <1>1, FS_CardinalityType

LEMMA TurnSize ==
  ASSUME NEW slots, Cardinality(slots) \in Nat
  PROVE  /\ Turn(slots) \in Nat /\ \A n \in Nat : n * Turn(slots) \in Nat
         /\ \A n \in Nat : (n - 1) * Turn(slots) = n * Turn(slots) - Turn(slots)
<1>1. Turn(slots) \in Nat
  BY MatchingAssumption DEF Turn
<1> DEFINE t == Turn(slots)
<1> HIDE DEF t
<1>2. t \in Nat
  BY <1>1 DEF t
<1>3. \A n \in Nat : n * t \in Nat /\ (n - 1) * t = n * t - t
  BY <1>2
<1> QED
  BY <1>1, <1>3 DEF t

LEMMA MeasureIsNat ==
  ASSUME NEW slotRoles, NEW slots, NEW left, Posed(slotRoles, slots, left),
         NEW c, CallIsSound(slotRoles, slots, left, c)
  PROVE  Measure(slots, c) \in Nat /\ (Measure(slots, c) = 0 => c.answer # "none")
<1> DEFINE turns == Cardinality(c.todo) * Turn(slots)
           fresh == Cardinality(DOMAIN c.has \ c.asked)
           unmet == Cardinality(RoleIndex \ c.met)
           open == Len(c.path)
<1>1. turns \in Nat
  BY Counts, TurnSize
<1>2. fresh \in Nat /\ unmet \in Nat /\ open \in Nat
  BY Counts
<1>3. Measure(slots, c) = IF c.answer # "none" THEN 0
                          ELSE IF c.path = <<>> THEN 1 + turns
                          ELSE 1 + turns + 2 * fresh + unmet + open
  BY DEF Measure
<1> HIDE DEF turns, fresh, unmet, open
<1> QED
  BY <1>1, <1>2, <1>3

LEMMA StepGoesOn ==
  ASSUME NEW slotRoles, NEW slots, NEW left, Posed(slotRoles, slots, left),
         NEW c, CallIsSound(slotRoles, slots, left, c), c.answer = "none"
  PROVE  Measure(slots, Step(slotRoles, left, c)) < Measure(slots, c)
<1> DEFINE d == Step(slotRoles, left, c)
           holders == Holders(c, Top(c).role) \ c.asked
           roles == slotRoles[Top(c).slot] \ c.met
           turns == Cardinality(c.todo) * Turn(slots)
           fresh == Cardinality(DOMAIN c.has \ c.asked)
           unmet == Cardinality(RoleIndex \ c.met)
           open == Len(c.path)
<1>1. turns \in Nat /\ Turn(slots) \in Nat
  BY Counts, TurnSize
<1>2. fresh \in Nat /\ unmet \in Nat /\ open \in Nat /\ c \in CallShapes(slots)
  BY Counts DEF CallIsSound
<1>3. /\ c.path = <<>> => Measure(slots, c) = 1 + turns
      /\ c.path # <<>> => Measure(slots, c) = 1 + turns + 2 * fresh + unmet + open
  BY DEF Measure
<1>4. CASE c.path = <<>> /\ c.todo = {}
  <2>1. d.answer = "yes"
    BY <1>2, <1>4 DEF Step, CallShapes
  <2>2. Measure(slots, d) = 0
    BY <2>1 DEF Measure
  <2> HIDE DEF d, turns
  <2> QED
    BY <1>1, <1>3, <1>4, <2>2 DEF d
<1>5. CASE c.path = <<>> /\ c.todo # {}
  <2> DEFINE s == CHOOSE t \in c.todo : TRUE
             all == Cardinality(RoleIndex)
             held == Cardinality(DOMAIN c.has)
             n == Cardinality(slots)
  <2>1. s \in c.todo
    BY <1>5
  <2>2. d = NextTurn(c)
    BY <1>5 DEF Step
  <2> HIDE DEF s
  <2>3. /\ d.answer = "none" /\ d.path = <<Untried(s)>> /\ d.todo = c.todo \ {s}
        /\ d.has = c.has /\ d.met = {} /\ d.asked = {}
    BY <1>2, <2>2 DEF NextTurn, CallShapes, s
  <2>4. Len(d.path) = 1 /\ d.path # <<>>
    BY <2>3
  <2>5. Cardinality(d.todo) = Cardinality(c.todo) - 1 /\ Cardinality(c.todo) \in Nat
    BY <2>1, <2>3, Counts, Fewer
  <2>6. Cardinality(d.todo) * Turn(slots) = turns - Turn(slots)
    BY <2>5, Counts, TurnSize
  <2>7. all = MaxRoles
    BY FS_Interval, MatchingAssumption DEF RoleIndex
  <2>8. DOMAIN d.has \ d.asked = DOMAIN c.has /\ RoleIndex \ d.met = RoleIndex
    BY <2>3
  <2>9. Measure(slots, d) = 1 + (turns - Turn(slots)) + 2 * held + all + 1
    BY <2>3, <2>4, <2>6, <2>8 DEF Measure
  <2>10. Turn(slots) = 2 * n + MaxRoles + 2 /\ held \in Nat /\ n \in Nat /\ held <= n
    BY Counts DEF Turn
  <2> HIDE DEF d, turns, held, all, n
  <2>11. Measure(slots, d) < 1 + turns
    BY <1>1, <2>7, <2>9, <2>10, MatchingAssumption
  <2> QED
    BY <2>11, <1>3, <1>5 DEF d
<1>6. CASE Midway(c) /\ holders # {}
  <2> DEFINE h == CHOOSE g \in holders : TRUE
             after == Cardinality((DOMAIN c.has \ c.asked) \ {h})
  <2>1. h \in holders
    BY <1>6
  <2>2. d = AskHolder(c, h)
    BY <1>6 DEF Step, Midway
  <2> HIDE DEF h
  <2>3. /\ d.answer = "none" /\ d.path = Append(c.path, Untried(h)) /\ d.todo = c.todo
        /\ d.has = c.has /\ d.met = c.met /\ d.asked = c.asked \cup {h}
    BY <1>2, <2>2 DEF AskHolder, CallShapes
  <2>4. Len(d.path) = open + 1 /\ d.path # <<>>
    <3>1. Untried(h) \in OpenCalls(slots)
      <4>1. h \in slots
        BY <1>2, <2>1, CallFields DEF Holders
      <4> QED
        BY <4>1 DEF Untried, OpenCalls
    <3>2. c.path \in Seq(OpenCalls(slots))
      BY <1>2, CallFields
    <3> QED
      BY <2>3, <3>1, <3>2, AppendProperties
  <2>5. h \in DOMAIN c.has \ c.asked
    BY <2>1 DEF Holders
  <2>6. after = fresh - 1 /\ after \in Nat
    BY <2>5, Counts, Fewer
  <2>7. DOMAIN d.has \ d.asked = (DOMAIN c.has \ c.asked) \ {h}
    BY <2>3
  <2>8. Measure(slots, d) = 1 + turns + 2 * after + unmet + Len(d.path)
    BY <2>3, <2>4, <2>7 DEF Measure
  <2>9. /\ Measure(slots, d) = 1 + turns + 2 * after + unmet + (open + 1)
        /\ fresh = after + 1 /\ after \in Nat
    <3> HIDE DEF d, turns, fresh, unmet, open, after
    <3> QED
      BY <1>2, <2>4, <2>6, <2>8
  <2>10. Measure(slots, d) < 1 + turns + 2 * fresh + unmet + open
    <3> HIDE DEF d, turns, fresh, unmet, open, after, h, holders
    <3> QED
      BY <1>1, <1>2, <2>9
  <2> QED
    BY <2>10, <1>3, <1>6 DEF Midway
<1>7. CASE Midway(c) /\ holders = {} /\ roles # {}
  <2> DEFINE r == CHOOSE q \in roles : TRUE
             after == Cardinality((RoleIndex \ c.met) \ {r})
  <2>1. d = Try(c, left, r)
    BY <1>7 DEF Step, Midway
  <2>2. r \in roles
    BY <1>7
  <2> HIDE DEF r
  <2>3. r \in RoleIndex \ c.met /\ c.path # <<>> /\ open >= 1
    BY <1>2, <1>7, <2>2, TopFacts, CallFields DEF Midway
  <2>4. CASE HowMany(c.has, r) < left[r]
    <3>1. d.answer = "none" /\ d.path = <<>> /\ d.todo = c.todo
      BY <1>2, <2>1, <2>4 DEF Try, CallShapes
    <3>2. Measure(slots, d) = 1 + turns
      BY <3>1 DEF Measure
    <3> HIDE DEF d, turns, fresh, unmet, open
    <3>3. Measure(slots, d) < 1 + turns + 2 * fresh + unmet + open
      BY <1>1, <1>2, <2>3, <3>2
    <3> QED
      BY <2>3, <3>3, <1>3 DEF d
  <2>5. CASE ~(HowMany(c.has, r) < left[r])
    <3>1. /\ d.answer = "none" /\ d.path = Tried(c, r) /\ d.todo = c.todo
          /\ d.has = c.has /\ d.met = c.met \cup {r} /\ d.asked = c.asked
      BY <1>2, <2>1, <2>5 DEF Try, Tried, CallShapes
    <3>2. Len(d.path) = open /\ d.path # <<>>
      BY <1>2, <2>3, <3>1, TriedPath
    <3>3. after = unmet - 1 /\ after \in Nat
      BY <2>3, Counts, Fewer
    <3>4. RoleIndex \ d.met = (RoleIndex \ c.met) \ {r}
      BY <3>1
    <3>5. Measure(slots, d) = 1 + turns + 2 * fresh + after + Len(d.path)
      BY <3>1, <3>2, <3>4 DEF Measure
    <3> HIDE DEF d, turns, fresh, unmet, open, after
    <3>6. Measure(slots, d) < 1 + turns + 2 * fresh + unmet + open
      BY <1>1, <1>2, <3>2, <3>3, <3>5
    <3> QED
      BY <2>3, <3>6, <1>3 DEF d
  <2> QED
    BY <2>4, <2>5
<1>8. CASE Midway(c) /\ holders = {} /\ roles = {}
  <2>1. d = GiveUp(c)
    BY <1>8 DEF Step, Midway
  <2>2. c.path # <<>> /\ open >= 1 /\ c.path \in Seq(OpenCalls(slots))
    BY <1>2, <1>8, CallFields DEF Midway
  <2>3. CASE open = 1
    <3>1. d.answer = "no"
      BY <1>2, <2>1, <2>3 DEF GiveUp, CallShapes
    <3>2. Measure(slots, d) = 0
      BY <3>1 DEF Measure
    <3> HIDE DEF d, turns, fresh, unmet, open
    <3>3. Measure(slots, d) < 1 + turns + 2 * fresh + unmet + open
      BY <1>1, <1>2, <3>2
    <3> QED
      BY <2>2, <3>3, <1>3 DEF d
  <2>4. CASE open # 1
    <3>1. /\ d.answer = "none" /\ d.path = SubSeq(c.path, 1, open - 1) /\ d.todo = c.todo
          /\ d.has = c.has /\ d.met = c.met /\ d.asked = c.asked
      BY <1>2, <2>1, <2>4 DEF GiveUp, CallShapes
    <3>2. SubSeq(c.path, 1, open - 1) \in Seq(OpenCalls(slots))
          /\ Len(SubSeq(c.path, 1, open - 1)) = open - 1
      BY <1>2, <2>2, SubSeqProperties
    <3>3. Len(d.path) = open - 1 /\ open - 1 # 0
      BY <1>2, <2>4, <3>1, <3>2
    <3>4. d.path # <<>>
      BY <3>3, EmptySeq
    <3>5. Measure(slots, d) = 1 + turns + 2 * fresh + unmet + Len(d.path)
      BY <3>1, <3>4 DEF Measure
    <3> HIDE DEF d, turns, fresh, unmet, open
    <3>6. Measure(slots, d) < 1 + turns + 2 * fresh + unmet + open
      BY <1>1, <1>2, <3>3, <3>5
    <3> QED
      BY <2>2, <3>6, <1>3 DEF d
  <2> QED
    BY <2>3, <2>4
<1> QED
  BY <1>4, <1>5, <1>6, <1>7, <1>8 DEF Midway

LEMMA LeastNumber ==
  ASSUME NEW Ns, Ns \subseteq Nat, Ns # {}
  PROVE  \E n \in Ns : \A m \in Ns : n <= m
<1>1. PICK n \in Ns : \A m \in Ns : <<m, n>> \notin OpToRel(<, Nat)
  BY NatLessThanWellFounded, WFMin
<1>2. \A m \in Ns : ~(m < n)
  BY <1>1 DEF OpToRel
<1> QED
  BY <1>2

\* Induction up to a bound, stated of a set of numbers.
LEMMA ReachesAll ==
  ASSUME NEW N \in Nat, NEW Ns, 0 \in Ns,
         \A n \in 1..N : n - 1 \in Ns => n \in Ns
  PROVE  0..N \subseteq Ns
<1>1. SUFFICES ASSUME (0..N) \ Ns # {}
               PROVE  FALSE
  OBVIOUS
<1> DEFINE Missing == (0..N) \ Ns
<1>2. Missing \subseteq Nat /\ Missing # {}
  BY <1>1
<1> HIDE DEF Missing
<1>3. PICK n \in Missing : \A m \in Missing : n <= m
  BY <1>2, LeastNumber
<1> USE DEF Missing
<1>4. n \in 1..N /\ n - 1 \in 0..N /\ ~(n <= n - 1)
  BY <1>3
<1> QED
  BY <1>3, <1>4

LEMMA OutsetMeasure ==
  ASSUME NEW slotRoles, NEW slots, NEW left, Posed(slotRoles, slots, left)
  PROVE  Enough(slots) \in Nat /\ Measure(slots, Outset(slots)) = Enough(slots)
<1>1. Cardinality(slots) \in Nat
  BY FS_CardinalityType DEF Posed
<1>2. Cardinality(slots) * Turn(slots) \in Nat
  BY <1>1, TurnSize
<1>3. Enough(slots) \in Nat
  BY <1>2 DEF Enough
<1>4. Measure(slots, Outset(slots)) = 1 + Cardinality(slots) * Turn(slots)
  BY DEF Measure, Outset
<1> QED
  BY <1>3, <1>4 DEF Enough

\* The calls up to the nth, each a step after the one before it.
IsRun(slotRoles, slots, left, n, f) ==
    /\ f[0] = Outset(slots)
    /\ \A i \in 1..n : f[i] = Step(slotRoles, left, f[i - 1])

LEMMA CourseExists ==
  ASSUME NEW slotRoles, NEW slots, NEW left, Posed(slotRoles, slots, left), NEW N \in Nat
  PROVE  \E f \in [0..N -> {c \in CallShapes(slots) : CallIsSound(slotRoles, slots, left, c)}] :
             IsRun(slotRoles, slots, left, N, f)
<1> DEFINE Sound == {c \in CallShapes(slots) : CallIsSound(slotRoles, slots, left, c)}
           Ns == {n \in 0..N : \E f \in [0..n -> Sound] : IsRun(slotRoles, slots, left, n, f)}
<1>1. 0 \in Ns
  <2> DEFINE f == [n \in 0..0 |-> Outset(slots)]
  <2>1. Outset(slots) \in Sound
    BY OutsetIsSound DEF CallIsSound
  <2>2. f \in [0..0 -> Sound] /\ f[0] = Outset(slots)
    BY <2>1
  <2>3. IsRun(slotRoles, slots, left, 0, f)
    BY <2>2 DEF IsRun
  <2> QED
    BY <2>2, <2>3
<1>2. ASSUME NEW n \in 1..N, n - 1 \in Ns
      PROVE  n \in Ns
  <2>1. PICK f \in [0..n - 1 -> Sound] : IsRun(slotRoles, slots, left, n - 1, f)
    BY <1>2
  <2> DEFINE c == f[n - 1]
             d == Step(slotRoles, left, c)
             g == [i \in 0..n |-> IF i = n THEN d ELSE f[i]]
  <2>2. c \in Sound
    <3>1. n - 1 \in 0..n - 1
      OBVIOUS
    <3> QED
      BY <3>1, <2>1
  <2>3. d \in Sound
    BY <2>2, StepIsSound DEF CallIsSound
  <2> HIDE DEF d, c
  <2>4. \A i \in 0..n : i # n => i \in 0..n - 1
    OBVIOUS
  <2>5. g \in [0..n -> Sound]
    BY <2>1, <2>3, <2>4
  <2>6. g[0] = f[0] /\ g[n] = d /\ (\A i \in 1..n - 1 : g[i] = f[i] /\ g[i - 1] = f[i - 1])
        /\ g[n - 1] = f[n - 1]
    OBVIOUS
  <2> HIDE DEF g
  <2>7. \A i \in 1..n : g[i] = Step(slotRoles, left, g[i - 1])
    <3> SUFFICES ASSUME NEW i \in 1..n
                 PROVE  g[i] = Step(slotRoles, left, g[i - 1])
      OBVIOUS
    <3>1. CASE i = n
      BY <3>1, <2>6 DEF c, d
    <3>2. CASE i # n
      <4>1. i \in 1..n - 1
        BY <3>2
      <4> QED
        BY <4>1, <2>1, <2>6 DEF IsRun
    <3> QED
      BY <3>1, <3>2
  <2>8. IsRun(slotRoles, slots, left, n, g)
    BY <2>1, <2>6, <2>7 DEF IsRun
  <2> QED
    BY <2>5, <2>8
<1> HIDE DEF Ns
<1>3. N \in Ns
  <2>1. 0..N \subseteq Ns
    BY <1>1, <1>2, ReachesAll
  <2> QED
    BY <2>1
<1> QED
  BY <1>3 DEF Ns

LEMMA CourseIsRun ==
  ASSUME NEW slotRoles, NEW slots, NEW left, Posed(slotRoles, slots, left)
  PROVE  /\ \A n \in 0..Enough(slots) :
                CallIsSound(slotRoles, slots, left, Course(slotRoles, slots, left)[n])
         /\ IsRun(slotRoles, slots, left, Enough(slots), Course(slotRoles, slots, left))
<1> DEFINE N == Enough(slots)
           Sound == {c \in CallShapes(slots) : CallIsSound(slotRoles, slots, left, c)}
           Runs(f) == f = [n \in 0..N |-> IF n = 0 THEN Outset(slots)
                                          ELSE Step(slotRoles, left, f[n - 1])]
<1>1. N \in Nat
  BY OutsetMeasure
<1>2. Course(slotRoles, slots, left) = CHOOSE f : Runs(f)
  BY DEF Course
<1> HIDE DEF N
<1>3. PICK f \in [0..N -> Sound] : IsRun(slotRoles, slots, left, N, f)
  BY <1>1, CourseExists
<1>4. \A n \in 0..N : f[n] = IF n = 0 THEN Outset(slots) ELSE Step(slotRoles, left, f[n - 1])
  BY <1>1, <1>3 DEF IsRun
<1>5. Runs(f)
  BY <1>3, <1>4
<1> DEFINE g == Course(slotRoles, slots, left)
<1>6. Runs(g)
  BY <1>2, <1>5
<1> HIDE DEF g
<1>7. \A n \in 0..N : g[n] = IF n = 0 THEN Outset(slots) ELSE Step(slotRoles, left, g[n - 1])
  BY <1>6
<1>8. IsRun(slotRoles, slots, left, N, g)
  BY <1>1, <1>7 DEF IsRun
<1> DEFINE Ns == {n \in 0..N : CallIsSound(slotRoles, slots, left, g[n])}
<1>9. 0 \in Ns
  BY <1>1, <1>8, OutsetIsSound DEF IsRun
<1>10. ASSUME NEW n \in 1..N, n - 1 \in Ns
       PROVE  n \in Ns
  BY <1>1, <1>8, <1>10, StepIsSound DEF IsRun
<1> HIDE DEF Ns
<1>11. 0..N \subseteq Ns
  BY <1>1, <1>9, <1>10, ReachesAll
<1> QED
  BY <1>8, <1>11 DEF Ns, N, g

LEMMA CourseEnds ==
  ASSUME NEW slotRoles, NEW slots, NEW left, Posed(slotRoles, slots, left)
  PROVE  Course(slotRoles, slots, left)[Enough(slots)].answer # "none"
<1> DEFINE N == Enough(slots)
           g == Course(slotRoles, slots, left)
           Ns == {n \in 0..N : g[n].answer = "none" => Measure(slots, g[n]) + n <= N}
<1>1. N \in Nat /\ Measure(slots, Outset(slots)) = N
  BY OutsetMeasure
<1>2. /\ \A n \in 0..N : CallIsSound(slotRoles, slots, left, g[n])
      /\ IsRun(slotRoles, slots, left, N, g)
  BY CourseIsRun
<1> HIDE DEF N, g
<1>3. 0 \in Ns
  BY <1>1, <1>2 DEF IsRun
<1>4. ASSUME NEW n \in 1..N, n - 1 \in Ns
      PROVE  n \in Ns
  <2> DEFINE c == g[n - 1]
             d == g[n]
             a == Measure(slots, c)
             b == Measure(slots, d)
  <2>1. n - 1 \in 0..N /\ n \in 0..N
    BY <1>1
  <2>2. d = Step(slotRoles, left, c)
    BY <1>2 DEF IsRun
  <2>3. CallIsSound(slotRoles, slots, left, c) /\ CallIsSound(slotRoles, slots, left, d)
    BY <2>1, <1>2
  <2>4. c.answer = "none" => a + (n - 1) <= N
    BY <1>4
  <2>5. SUFFICES ASSUME d.answer = "none"
                 PROVE  b + n <= N
    BY <2>1
  <2>6. c.answer = "none"
    BY <2>2, <2>5 DEF Step
  <2>7. b < a
    BY <2>2, <2>3, <2>6, StepGoesOn
  <2>8. a \in Nat /\ b \in Nat
    BY <2>3, MeasureIsNat
  <2> HIDE DEF a, b, c, d
  <2> QED
    BY <1>1, <2>4, <2>6, <2>7, <2>8
<1> HIDE DEF Ns
<1>5. N \in Ns
  <2>1. 0..N \subseteq Ns
    BY <1>1, <1>3, <1>4, ReachesAll
  <2> QED
    BY <1>1, <2>1
<1>6. CallIsSound(slotRoles, slots, left, g[N])
  BY <1>1, <1>2
<1>7. Measure(slots, g[N]) \in Nat /\ (Measure(slots, g[N]) = 0 => g[N].answer # "none")
  BY <1>6, MeasureIsNat
<1>8. g[N].answer = "none" => Measure(slots, g[N]) + N <= N
  BY <1>5 DEF Ns
<1>9. g[N].answer # "none"
  BY <1>1, <1>7, <1>8
<1> QED
  BY <1>9 DEF N, g

\* hasFullAssignment (lib/grammar-circuit/matching.ts) answers "yes" exactly when
\* the slots can be filled with what is left, whichever way tryAssign takes the
\* roles and their holders in turn: an augmenting path that it gives up on cannot
\* be found by anybody, since the slots on it and the holders of the roles they
\* have met accept nothing but those roles, and all of them are full.
THEOREM PathsAreRight ==
  ASSUME NEW slotRoles, NEW slots, NEW left, Posed(slotRoles, slots, left)
  PROVE  HasFullAssignment(slotRoles, slots, left) <=> Assignable(slotRoles, slots, left)
<1> DEFINE c == Course(slotRoles, slots, left)[Enough(slots)]
<1>1. c.answer # "none"
  BY CourseEnds
<1>2. CallIsSound(slotRoles, slots, left, c)
  <2>1. Enough(slots) \in 0..Enough(slots)
    BY OutsetMeasure
  <2> QED
    BY <2>1, CourseIsRun
<1>3. HasFullAssignment(slotRoles, slots, left) <=> c.answer = "yes"
  BY DEF HasFullAssignment
<1> HIDE DEF c
<1>4. c.answer \in {"yes", "no"}
  BY <1>1, <1>2 DEF CallIsSound, CallShapes
<1>5. CASE c.answer = "yes"
  <2>1. DOMAIN c.has = slots /\ Accepted(slotRoles, c.has) /\ Affordable(c.has, left)
    BY <1>2, <1>5 DEF CallIsSound
  <2>2. c.has \in [DOMAIN c.has -> RoleIndex]
    BY <1>2 DEF CallIsSound, CallShapes
  <2>3. Assignable(slotRoles, slots, left)
    BY <2>1, <2>2 DEF Assignable
  <2> QED
    BY <1>3, <1>5, <2>3
<1>6. CASE c.answer = "no"
  <2>1. ~Assignable(slotRoles, slots, left)
    BY <1>2, <1>6 DEF CallIsSound
  <2> QED
    BY <1>3, <1>6, <2>1
<1> QED
  BY <1>4, <1>5, <1>6
-----------------------------------------------------------------------------
\* The search that admits questions.  What a state of it stands for is a choice
\* of roles that are accepted and that the pieces afford.

PartialChoices(pb) ==
    {f \in UNION {[some -> RoleIndex] : some \in SUBSET SlotsOf(pb)} :
        Accepted(pb.slotRoles, f) /\ Affordable(f, pb.capacities)}

Taken(f) == [mask |-> DOMAIN f, consumed |-> [r \in RoleIndex |-> HowMany(f, r)]]

Grown(f, s, r) == [t \in DOMAIN f \cup {s} |-> IF t = s THEN r ELSE f[t]]

LEMMA ProblemShape ==
  ASSUME NEW pb \in Problems
  PROVE  /\ pb.slotRoles \in [SlotsOf(pb) -> SUBSET RoleIndex]
         /\ pb.capacities \in Stock
         /\ IsFiniteSet(SlotsOf(pb))
         /\ SlotsOf(pb) # {}
         /\ \A left \in Stock : [slotRoles |-> pb.slotRoles, capacities |-> left] \in Problems
         /\ pb = [slotRoles |-> pb.slotRoles, capacities |-> pb.capacities]
<1>1. PICK n \in 1..MaxSlots :
        pb \in [slotRoles : [1..n -> SUBSET RoleIndex], capacities : Stock]
  BY DEF Problems
<1>2. SlotsOf(pb) = 1..n /\ IsFiniteSet(1..n) /\ n \in Nat /\ n >= 1
  BY <1>1, FS_Interval, MatchingAssumption DEF SlotsOf
<1>3. \A left \in Stock : [slotRoles |-> pb.slotRoles, capacities |-> left] \in Problems
  <2> TAKE left \in Stock
  <2>1. [slotRoles |-> pb.slotRoles, capacities |-> left]
           \in [slotRoles : [1..n -> SUBSET RoleIndex], capacities : Stock]
    BY <1>1
  <2> QED
    BY <2>1 DEF Problems
<1>4. 1..n # {}
  BY <1>2
<1> QED
  BY <1>1, <1>2, <1>3, <1>4

LEMMA HowManyType ==
  ASSUME NEW pb \in Problems, NEW f, DOMAIN f \subseteq SlotsOf(pb), NEW r
  PROVE  HowMany(f, r) \in Nat /\ IsFiniteSet({s \in DOMAIN f : f[s] = r})
<1>1. IsFiniteSet({s \in DOMAIN f : f[s] = r})
  BY ProblemShape, FS_Subset
<1> QED
  BY <1>1, FS_CardinalityType DEF HowMany

LEMMA ChoiceShape ==
  ASSUME NEW pb \in Problems, NEW f \in PartialChoices(pb)
  PROVE  /\ DOMAIN f \subseteq SlotsOf(pb)
         /\ f \in [DOMAIN f -> RoleIndex]
         /\ Accepted(pb.slotRoles, f) /\ Affordable(f, pb.capacities)
         /\ \A r \in RoleIndex : HowMany(f, r) \in Nat
         /\ Left(pb, Taken(f)) = [r \in RoleIndex |-> pb.capacities[r] - HowMany(f, r)]
         /\ Left(pb, Taken(f)) \in Stock
<1>1. PICK some \in SUBSET SlotsOf(pb) : f \in [some -> RoleIndex]
  BY DEF PartialChoices
<1>2. DOMAIN f \subseteq SlotsOf(pb) /\ f \in [DOMAIN f -> RoleIndex]
  BY <1>1
<1>3. Accepted(pb.slotRoles, f) /\ Affordable(f, pb.capacities)
  BY DEF PartialChoices
<1>4. \A r \in RoleIndex : HowMany(f, r) \in Nat
  BY <1>2, HowManyType
<1>5. Left(pb, Taken(f)) = [r \in RoleIndex |-> pb.capacities[r] - HowMany(f, r)]
  BY DEF Left, Taken
<1>6. ASSUME NEW r \in RoleIndex PROVE pb.capacities[r] - HowMany(f, r) \in 0..MaxCapacity
  BY <1>3, <1>4, ProblemShape, MatchingAssumption DEF Affordable, Stock
<1>7. Left(pb, Taken(f)) \in Stock
  BY <1>5, <1>6 DEF Stock
<1> QED
  BY <1>2, <1>3, <1>4, <1>5, <1>7

\* A slot that is put costs its role one piece.
LEMMA OneMore ==
  ASSUME NEW pb \in Problems, NEW f, DOMAIN f \subseteq SlotsOf(pb),
         NEW s \in SlotsOf(pb) \ DOMAIN f, NEW r, NEW q
  PROVE  /\ HowMany(f, q) \in Nat
         /\ HowMany(Grown(f, s, r), q) = HowMany(f, q) + (IF q = r THEN 1 ELSE 0)
<1> DEFINE before == {t \in DOMAIN f : f[t] = q}
           g == Grown(f, s, r)
           after == {t \in DOMAIN g : g[t] = q}
<1>1. IsFiniteSet(before) /\ Cardinality(before) \in Nat /\ HowMany(f, q) = Cardinality(before)
  BY HowManyType DEF HowMany
<1>2. DOMAIN g = DOMAIN f \cup {s} /\ g[s] = r /\ \A t \in DOMAIN f : g[t] = f[t]
  BY DEF Grown
<1>3. HowMany(g, q) = Cardinality(after)
  BY DEF HowMany
<1>4. s \notin before
  OBVIOUS
<1> HIDE DEF g
<1>5. CASE q = r
  <2>1. after = before \cup {s}
    BY <1>2, <1>5
  <2> QED
    BY <2>1, <1>1, <1>3, <1>4, <1>5, FS_AddElement DEF g
<1>6. CASE q # r
  <2>1. after = before
    BY <1>2, <1>6
  <2>2. HowMany(g, q) = HowMany(f, q)
    BY <2>1, <1>1, <1>3
  <2>3. HowMany(f, q) + (IF q = r THEN 1 ELSE 0) = HowMany(f, q)
    BY <1>1, <1>6
  <2> QED
    BY <1>1, <2>2, <2>3 DEF g
<1> QED
  BY <1>5, <1>6

\* A placement of an accepted role that is left leads from choice to choice.
LEMMA PlacementGrows ==
  ASSUME NEW pb \in Problems, NEW f \in PartialChoices(pb), NEW s \in SlotsOf(pb) \ DOMAIN f,
         NEW r \in pb.slotRoles[s], HowMany(f, r) < pb.capacities[r]
  PROVE  /\ Grown(f, s, r) \in PartialChoices(pb)
         /\ Taken(Grown(f, s, r)) = [mask |-> Taken(f).mask \cup {s},
                                     consumed |-> [Taken(f).consumed EXCEPT ![r] = @ + 1]]
<1> DEFINE g == Grown(f, s, r)
<1>1. r \in RoleIndex
  BY ProblemShape
<1>2. /\ DOMAIN g = DOMAIN f \cup {s} /\ DOMAIN g \subseteq SlotsOf(pb)
      /\ g[s] = r /\ \A t \in DOMAIN f : g[t] = f[t]
  BY ChoiceShape DEF Grown
<1>3. g \in [DOMAIN g -> RoleIndex]
  BY <1>1, ChoiceShape DEF Grown
<1>4. \A q \in RoleIndex : HowMany(g, q) = HowMany(f, q) + (IF q = r THEN 1 ELSE 0)
  BY ChoiceShape, OneMore
<1> HIDE DEF g
<1>5. Accepted(pb.slotRoles, g)
  BY <1>2, ChoiceShape DEF Accepted
<1>6. Affordable(g, pb.capacities)
  <2> SUFFICES ASSUME NEW q \in RoleIndex PROVE HowMany(g, q) <= pb.capacities[q]
    BY DEF Affordable
  <2>1. HowMany(f, q) \in Nat /\ pb.capacities[q] \in Nat /\ HowMany(f, q) <= pb.capacities[q]
    BY ChoiceShape, ProblemShape DEF Affordable, Stock
  <2> QED
    BY <2>1, <1>4
<1>7. g \in PartialChoices(pb)
  BY <1>2, <1>3, <1>5, <1>6 DEF PartialChoices
<1>8. Taken(g).consumed = [Taken(f).consumed EXCEPT ![r] = @ + 1]
  <2>1. ASSUME NEW was, NEW is, NEW more,
               was = [q \in RoleIndex |-> HowMany(f, q)], is = [q \in RoleIndex |-> HowMany(g, q)],
               more = [was EXCEPT ![r] = @ + 1]
        PROVE  is = more
    <3>1. \A q \in RoleIndex : was[q] \in Nat /\ more[q] = was[q] + (IF q = r THEN 1 ELSE 0)
      BY <1>1, <2>1, ChoiceShape
    <3>2. \A q \in RoleIndex : is[q] = more[q]
      BY <1>4, <2>1, <3>1
    <3> QED
      BY <2>1, <3>2
  <2> QED
    BY <2>1 DEF Taken
<1>9. Taken(g).mask = Taken(f).mask \cup {s}
  BY <1>2 DEF Taken
<1>10. Taken(g) = [mask |-> Taken(g).mask, consumed |-> Taken(g).consumed]
  BY DEF Taken
<1> QED
  BY <1>7, <1>8, <1>9, <1>10 DEF g

\* Nothing is the choice of no role.
LEMMA NothingIsAChoice ==
  ASSUME NEW pb \in Problems
  PROVE  \E f \in PartialChoices(pb) :
            DOMAIN f = {} /\ Taken(f) = Nothing /\ Left(pb, Taken(f)) = pb.capacities
<1> DEFINE f == [s \in {} |-> 1]
<1>1. DOMAIN f = {} /\ f \in [{} -> RoleIndex]
  OBVIOUS
<1>2. \A r : HowMany(f, r) = 0
  <2> TAKE r
  <2>1. {s \in DOMAIN f : f[s] = r} = {}
    OBVIOUS
  <2> QED
    BY <2>1, FS_EmptySet DEF HowMany
<1> HIDE DEF f
<1>3. Accepted(pb.slotRoles, f)
  BY <1>1 DEF Accepted
<1>4. Affordable(f, pb.capacities)
  BY <1>2, ProblemShape DEF Affordable, Stock
<1>5. f \in PartialChoices(pb)
  BY <1>1, <1>3, <1>4 DEF PartialChoices
<1>6. Taken(f) = Nothing
  BY <1>1, <1>2 DEF Taken, Nothing
<1>7. Left(pb, Taken(f)) = pb.capacities
  <2>1. Left(pb, Taken(f)) = [r \in RoleIndex |-> pb.capacities[r] - 0]
    BY <1>2, <1>5, ChoiceShape
  <2>2. pb.capacities \in [RoleIndex -> Nat]
    BY ProblemShape, MatchingAssumption DEF Stock
  <2> QED
    BY <2>1, <2>2
<1> QED
  BY <1>1, <1>5, <1>6, <1>7

\* A choice for some slots is one for fewer, and leads back by a placement.
LEMMA PlacementReaches ==
  ASSUME NEW pb \in Problems, NEW g \in PartialChoices(pb), NEW s \in DOMAIN g
  PROVE  \E f \in PartialChoices(pb) :
            DOMAIN f = DOMAIN g \ {s} /\ Taken(g) \in Placements(pb, Taken(f))
<1> DEFINE f == [t \in DOMAIN g \ {s} |-> g[t]]
           r == g[s]
<1>1. /\ DOMAIN f = DOMAIN g \ {s} /\ DOMAIN f \subseteq SlotsOf(pb)
      /\ \A t \in DOMAIN f : f[t] = g[t]
      /\ s \in SlotsOf(pb) \ DOMAIN f
  BY ChoiceShape
<1>2. r \in RoleIndex /\ r \in pb.slotRoles[s]
  BY ChoiceShape DEF Accepted
<1>3. f \in [DOMAIN f -> RoleIndex]
  BY ChoiceShape
<1> HIDE DEF f, r
<1>4. g = Grown(f, s, r)
  <2>1. DOMAIN g = DOMAIN f \cup {s} /\ g = [t \in DOMAIN g |-> g[t]]
    BY <1>1, ChoiceShape
  <2>2. \A t \in DOMAIN g : g[t] = IF t = s THEN r ELSE f[t]
    BY <1>1 DEF r
  <2> QED
    BY <2>1, <2>2 DEF Grown
<1>5. \A q : HowMany(f, q) \in Nat /\ HowMany(g, q) = HowMany(f, q) + (IF q = r THEN 1 ELSE 0)
  BY <1>1, <1>4, OneMore
<1>6. Accepted(pb.slotRoles, f)
  BY <1>1, ChoiceShape DEF Accepted
<1>7. \A q \in RoleIndex :
        HowMany(f, q) <= pb.capacities[q] /\ (q = r => HowMany(f, q) < pb.capacities[q])
  <2> TAKE q \in RoleIndex
  <2>1. HowMany(g, q) <= pb.capacities[q] /\ pb.capacities[q] \in Nat
    BY ChoiceShape, ProblemShape DEF Affordable, Stock
  <2> QED
    BY <2>1, <1>5
<1>8. f \in PartialChoices(pb)
  BY <1>1, <1>3, <1>6, <1>7 DEF PartialChoices, Affordable
<1>9. HowMany(f, r) < pb.capacities[r]
  BY <1>2, <1>7
<1>10. Taken(g) = [mask |-> Taken(f).mask \cup {s},
                   consumed |-> [Taken(f).consumed EXCEPT ![r] = @ + 1]]
  BY <1>1, <1>2, <1>4, <1>8, <1>9, PlacementGrows
<1>11. Left(pb, Taken(f))[r] > 0
  <2>1. Left(pb, Taken(f))[r] = pb.capacities[r] - HowMany(f, r)
    BY <1>2, <1>8, ChoiceShape
  <2>2. pb.capacities[r] \in Nat
    BY <1>2, ProblemShape DEF Stock
  <2> QED
    BY <2>1, <2>2, <1>5, <1>9
<1>12. s \in SlotsOf(pb) \ Taken(f).mask
  BY <1>1 DEF Taken
<1>13. Taken(g) \in Placements(pb, Taken(f))
  <2>1. r \in {q \in pb.slotRoles[s] : Left(pb, Taken(f))[q] > 0}
    BY <1>2, <1>11
  <2>2. Taken(g) \in {[mask |-> Taken(f).mask \cup {s},
                       consumed |-> [Taken(f).consumed EXCEPT ![q] = @ + 1]]
                        : q \in {p \in pb.slotRoles[s] : Left(pb, Taken(f))[p] > 0}}
    BY <1>10, <2>1
  <2> QED
    BY <1>12, <2>2 DEF Placements
<1> QED
  BY <1>1, <1>8, <1>13

LEMMA PlacementIsAChoice ==
  ASSUME NEW pb \in Problems, NEW f \in PartialChoices(pb), NEW to \in Placements(pb, Taken(f))
  PROVE  \E g \in PartialChoices(pb) : to = Taken(g) /\ DOMAIN g # {}
<1>1. PICK s \in SlotsOf(pb) \ Taken(f).mask :
        \E r \in {q \in pb.slotRoles[s] : Left(pb, Taken(f))[q] > 0} :
           to = [mask |-> Taken(f).mask \cup {s},
                 consumed |-> [Taken(f).consumed EXCEPT ![r] = @ + 1]]
  BY DEF Placements
<1>2. PICK r \in {q \in pb.slotRoles[s] : Left(pb, Taken(f))[q] > 0} :
           to = [mask |-> Taken(f).mask \cup {s},
                 consumed |-> [Taken(f).consumed EXCEPT ![r] = @ + 1]]
  BY <1>1
<1>3. s \in SlotsOf(pb) \ DOMAIN f
  BY <1>1 DEF Taken
<1>4. r \in pb.slotRoles[s] /\ r \in RoleIndex
  BY <1>3, ProblemShape
<1>5. HowMany(f, r) < pb.capacities[r]
  <2>1. Left(pb, Taken(f))[r] = pb.capacities[r] - HowMany(f, r) /\ HowMany(f, r) \in Nat
    BY <1>4, ChoiceShape
  <2>2. pb.capacities[r] \in Nat
    BY <1>4, ProblemShape DEF Stock
  <2> QED
    BY <2>1, <2>2, <1>2
<1>6. Grown(f, s, r) \in PartialChoices(pb) /\ Taken(Grown(f, s, r)) = to
  BY <1>2, <1>3, <1>4, <1>5, PlacementGrows
<1>7. DOMAIN Grown(f, s, r) # {}
  BY DEF Grown
<1> QED
  BY <1>6, <1>7

\* A search that has no state left has seen every choice: the least one that it
\* has not seen is reached by a placement from one that it has.
LEMMA AllIsSeen ==
  ASSUME NEW pb \in Problems, NEW known, Nothing \in known,
         \A f \in PartialChoices(pb) : Taken(f) \in known => Placements(pb, Taken(f)) \subseteq known
  PROVE  \A g \in PartialChoices(pb) : Taken(g) \in known
<1> DEFINE Slotted == SlotsOf(pb)
           missed == {some \in SUBSET Slotted :
                        \E g \in PartialChoices(pb) : DOMAIN g = some /\ Taken(g) \notin known}
<1>1. SUFFICES ASSUME missed # {} PROVE FALSE
  BY ChoiceShape
<1>2. IsWellFoundedOn(StrictSubsetOrdering(Slotted), SUBSET Slotted)
  BY FS_StrictSubsetOrderingWellFounded, FS_FiniteSubsetsOfFinite, ProblemShape
<1>3. PICK some \in missed : \A less \in missed : <<less, some>> \notin StrictSubsetOrdering(Slotted)
  <2>1. missed \subseteq SUBSET Slotted
    OBVIOUS
  <2> HIDE DEF missed, Slotted
  <2> QED
    BY <1>1, <1>2, <2>1, WFMin
<1>4. PICK g \in PartialChoices(pb) : DOMAIN g = some /\ Taken(g) \notin known
  OBVIOUS
<1>5. CASE some = {}
  <2>1. Taken(g) = Nothing
    <3>1. \A r : HowMany(g, r) = 0
      <4> TAKE r
      <4>1. {s \in DOMAIN g : g[s] = r} = {}
        BY <1>4, <1>5
      <4> QED
        BY <4>1, FS_EmptySet DEF HowMany
    <3> QED
      BY <3>1, <1>4, <1>5 DEF Taken, Nothing
  <2> QED
    BY <2>1, <1>4
<1>6. CASE some # {}
  <2>1. PICK s \in DOMAIN g : TRUE
    BY <1>4, <1>6
  <2>2. PICK f \in PartialChoices(pb) :
            DOMAIN f = DOMAIN g \ {s} /\ Taken(g) \in Placements(pb, Taken(f))
    BY PlacementReaches
  <2>3. Taken(f) \notin known
    BY <1>4, <2>2
  <2>4. DOMAIN f \in missed
    BY <2>2, <2>3, ChoiceShape
  <2>5. <<DOMAIN f, some>> \in StrictSubsetOrdering(Slotted)
    BY <1>4, <2>2, ChoiceShape DEF StrictSubsetOrdering
  <2> QED
    BY <1>3, <2>4, <2>5
<1> QED
  BY <1>5, <1>6

\* hasFullAssignment is asked of any of the slots of a question, with any stock.
LEMMA TestIsRight ==
  ASSUME NEW pb \in Problems
  PROVE  TellsAssignable(pb)
<1> SUFFICES ASSUME NEW slots \in SUBSET SlotsOf(pb)
             PROVE  HasFullAssignment(pb.slotRoles, slots, pb.capacities)
                    <=> Assignable(pb.slotRoles, slots, pb.capacities)
  BY DEF TellsAssignable
<1>1. IsFiniteSet(slots)
  BY ProblemShape, FS_Subset
<1>2. \A s \in slots : pb.slotRoles[s] \subseteq RoleIndex
  BY ProblemShape
<1>3. \A r \in RoleIndex : pb.capacities[r] \in Nat
  BY ProblemShape, MatchingAssumption DEF Stock
<1> QED
  BY <1>1, <1>2, <1>3, PathsAreRight DEF Posed

\* What hasFullAssignment says of what is left by a choice.
LEMMA TestTells ==
  ASSUME NEW pb \in Problems, NEW f \in PartialChoices(pb)
  PROVE  HasFullAssignment(pb.slotRoles, SlotsOf(pb) \ DOMAIN f, Left(pb, Taken(f)))
         <=> Assignable(pb.slotRoles, SlotsOf(pb) \ DOMAIN f, Left(pb, Taken(f)))
<1> DEFINE left == Left(pb, Taken(f))
           rest == [slotRoles |-> pb.slotRoles, capacities |-> left]
<1>1. left \in Stock
  BY ChoiceShape
<1> HIDE DEF left
<1>2. rest \in Problems
  BY <1>1, ProblemShape
<1>3. SlotsOf(rest) = SlotsOf(pb)
  BY DEF SlotsOf
<1>4. TellsAssignable(rest)
  BY <1>2, TestIsRight
<1>5. rest.slotRoles = pb.slotRoles /\ rest.capacities = left
  OBVIOUS
<1> HIDE DEF rest
<1> QED
  BY <1>3, <1>4, <1>5 DEF TellsAssignable, left

LEMMA ByLogicOfChoices ==
  ASSUME NEW pb \in Problems
  PROVE  ByLogic(pb) <=>
           \A f \in PartialChoices(pb) :
              Assignable(pb.slotRoles, SlotsOf(pb) \ DOMAIN f, Left(pb, Taken(f)))
<1>1. ASSUME ByLogic(pb), NEW f \in PartialChoices(pb)
      PROVE  Assignable(pb.slotRoles, SlotsOf(pb) \ DOMAIN f, Left(pb, Taken(f)))
  BY <1>1, ChoiceShape DEF ByLogic
<1>2. ASSUME \A f \in PartialChoices(pb) :
                Assignable(pb.slotRoles, SlotsOf(pb) \ DOMAIN f, Left(pb, Taken(f))),
             NEW some \in SUBSET SlotsOf(pb), NEW f \in [some -> RoleIndex],
             Accepted(pb.slotRoles, f), Affordable(f, pb.capacities)
      PROVE  Assignable(pb.slotRoles, SlotsOf(pb) \ some,
                        [r \in RoleIndex |-> pb.capacities[r] - HowMany(f, r)])
  <2>1. f \in PartialChoices(pb) /\ DOMAIN f = some
    BY <1>2 DEF PartialChoices
  <2>2. Assignable(pb.slotRoles, SlotsOf(pb) \ DOMAIN f, Left(pb, Taken(f)))
    BY <1>2, <2>1
  <2>3. Left(pb, Taken(f)) = [r \in RoleIndex |-> pb.capacities[r] - HowMany(f, r)]
    BY <2>1, ChoiceShape
  <2> QED
    BY <2>1, <2>2, <2>3
<1> QED
  BY <1>1, <1>2 DEF ByLogic

\* What the search knows: every state that it has seen is a choice; while it has
\* found none that bars the way, each but the first leaves a way to the end, and
\* what follows a state that is not in the queue was seen as well.
SearchInv ==
    /\ problem \in Problems /\ visited \in Nat
    /\ queue \subseteq seen /\ Nothing \in seen
    /\ \A st \in seen : \E f \in PartialChoices(problem) : st = Taken(f)
    /\ verdict = "unsafe" => ~ByLogic(problem)
    /\ verdict \in {"searching", "safe"} =>
        /\ \A st \in seen \ {Nothing} : Feasible(problem, st)
        /\ \A st \in seen \ queue : Placements(problem, st) \subseteq seen
        /\ visited = 0 => verdict = "searching" /\ queue = {Nothing}
        /\ visited > 0 => HasFullAssignment(problem.slotRoles, SlotsOf(problem), problem.capacities)
    /\ verdict = "safe" => queue = {}

LEMMA SearchBegins == MatchingInit => SearchInv
<1> SUFFICES ASSUME MatchingInit PROVE SearchInv
  OBVIOUS
<1>1. problem \in Problems /\ queue = {Nothing} /\ seen = {Nothing} /\ visited = 0
      /\ verdict = "searching"
  BY DEF MatchingInit
<1>2. \E f \in PartialChoices(problem) : Nothing = Taken(f)
  BY <1>1, NothingIsAChoice
<1> QED
  BY <1>1, <1>2 DEF SearchInv

\* A placement that leaves no way to the end is a choice that cannot be completed.
LEMMA BarsTheWay ==
  ASSUME NEW pb \in Problems, NEW f \in PartialChoices(pb), ~Feasible(pb, Taken(f))
  PROVE  ~ByLogic(pb)
<1>1. Taken(f).mask = DOMAIN f
  BY DEF Taken
<1>2. ~HasFullAssignment(pb.slotRoles, SlotsOf(pb) \ DOMAIN f, Left(pb, Taken(f)))
  BY <1>1 DEF Feasible
<1>3. ~Assignable(pb.slotRoles, SlotsOf(pb) \ DOMAIN f, Left(pb, Taken(f)))
  BY <1>2, TestTells
<1> QED
  BY <1>3, ByLogicOfChoices

LEMMA SearchStep ==
  ASSUME SearchInv, Visit
  PROVE  SearchInv'
<1> DEFINE pb == problem
<1>1. pb \in Problems /\ problem' = problem /\ verdict = "searching"
  BY DEF SearchInv, Visit
<1>2. CASE Begin
  <2>1. verdict' = "unsafe" /\ queue' = queue /\ seen' = seen /\ visited' = visited
    BY <1>2 DEF Visit
  <2>2. PICK f \in PartialChoices(pb) :
            DOMAIN f = {} /\ Taken(f) = Nothing /\ Left(pb, Taken(f)) = pb.capacities
    BY <1>1, NothingIsAChoice
  <2>3. SlotsOf(pb) \ DOMAIN f = SlotsOf(pb) /\ SlotsOf(pb) # {}
    BY <1>1, <2>2, ProblemShape
  <2>4. ~HasFullAssignment(pb.slotRoles, SlotsOf(pb) \ DOMAIN f, Left(pb, Taken(f)))
    BY <1>2, <2>2, <2>3 DEF Begin
  <2>5. ~Feasible(pb, Taken(f))
    BY <2>2, <2>3, <2>4 DEF Feasible, Taken
  <2>6. ~ByLogic(pb)
    BY <1>1, <2>5, BarsTheWay
  <2> QED
    BY <1>1, <2>1, <2>6 DEF SearchInv
<1>3. CASE ~Begin /\ queue = {}
  <2>1. verdict' = "safe" /\ queue' = queue /\ seen' = seen /\ visited' = visited
    BY <1>3 DEF Visit
  <2>2. visited # 0
    BY <1>1, <1>3 DEF SearchInv
  <2> QED
    BY <1>1, <1>3, <2>1, <2>2 DEF SearchInv
<1>4. CASE ~Begin /\ queue # {}
  <2> DEFINE from == CHOOSE st \in queue : TRUE
             new == Placements(problem, from) \ seen
  <2>1. from \in queue /\ from \in seen
    BY <1>4 DEF SearchInv
  <2>2. /\ visited' = visited + 1
        /\ verdict' = IF visited' > MaxStates THEN "tooLarge"
                      ELSE IF \A to \in new : Feasible(problem, to) THEN "searching"
                      ELSE "unsafe"
        /\ queue' = (queue \ {from}) \cup new
        /\ seen' = seen \cup new
    BY <1>4 DEF Visit
  <2>3. \A st \in new : \E f \in PartialChoices(pb) : st = Taken(f)
    <3>1. PICK f \in PartialChoices(pb) : from = Taken(f)
      BY <2>1 DEF SearchInv
    <3>2. \A st \in new : st \in Placements(pb, Taken(f))
      BY <3>1
    <3> QED
      BY <1>1, <3>2, PlacementIsAChoice
  <2>4. Placements(problem, from) \subseteq seen'
    BY <2>2
  <2>5. visited > 0 \/ HasFullAssignment(pb.slotRoles, SlotsOf(pb), pb.capacities)
    BY <1>4 DEF Begin, SearchInv
  <2>6. HasFullAssignment(pb.slotRoles, SlotsOf(pb), pb.capacities)
    BY <1>1, <2>5 DEF SearchInv
  <2> HIDE DEF from, new
  <2>7. visited' \in Nat /\ visited' # 0
    <3>1. visited \in Nat
      BY DEF SearchInv
    <3>2. visited' = visited + 1
      BY <2>2
    <3> HIDE DEF SearchInv
    <3> QED
      BY <3>1, <3>2
  <2>13. queue' \subseteq seen' /\ Nothing \in seen'
    BY <2>2 DEF SearchInv
  <2>14. \A st \in seen' : \E f \in PartialChoices(pb) : st = Taken(f)
    <3> SUFFICES ASSUME NEW st \in seen' PROVE \E f \in PartialChoices(pb) : st = Taken(f)
      OBVIOUS
    <3>1. CASE st \in new
      BY <2>3, <3>1
    <3>2. CASE st \in seen
      BY <3>2 DEF SearchInv
    <3> QED
      BY <2>2, <3>1, <3>2
  <2>8. ASSUME verdict' = "unsafe" PROVE ~ByLogic(pb)
    <3>1. PICK to \in new : ~Feasible(pb, to)
      BY <2>2, <2>8
    <3>2. PICK f \in PartialChoices(pb) : to = Taken(f)
      BY <2>3
    <3> QED
      BY <1>1, <3>1, <3>2, BarsTheWay
  <2>9. ASSUME verdict' = "searching"
        PROVE  /\ \A st \in seen' \ {Nothing} : Feasible(pb, st)
               /\ \A st \in seen' \ queue' : Placements(pb, st) \subseteq seen'
    <3>1. \A to \in new : Feasible(pb, to)
      BY <2>2, <2>9
    <3>2. \A st \in seen \ {Nothing} : Feasible(pb, st)
      BY <1>1 DEF SearchInv
    <3>3. \A st \in seen \ queue : Placements(pb, st) \subseteq seen
      BY <1>1 DEF SearchInv
    <3> QED
      BY <2>2, <2>4, <3>1, <3>2, <3>3
  <2>10. verdict' \in {"searching", "tooLarge", "unsafe"}
    BY <2>2
  <2>11. problem' = pb
    BY <1>1
  <2>12. HasFullAssignment(problem'.slotRoles, SlotsOf(problem'), problem'.capacities)
    BY <2>6, <2>11
  <2> HIDE DEF pb
  <2> QED
    BY <1>1, <2>7, <2>8, <2>9, <2>10, <2>11, <2>12, <2>13, <2>14 DEF SearchInv
<1> QED
  BY <1>2, <1>3, <1>4

\* A search that ends with an empty queue has seen that no choice bars the way.
LEMMA SafeMeansByLogic ==
  ASSUME SearchInv, verdict = "safe"
  PROVE  ByLogic(problem)
<1> DEFINE pb == problem
<1>1. pb \in Problems /\ queue = {} /\ Nothing \in seen /\ visited # 0 /\ visited \in Nat
  BY DEF SearchInv
<1>2. \A st \in seen : Placements(pb, st) \subseteq seen
  BY <1>1 DEF SearchInv
<1>3. \A g \in PartialChoices(pb) : Taken(g) \in seen
  BY <1>1, <1>2, AllIsSeen
<1> SUFFICES ASSUME NEW f \in PartialChoices(pb)
             PROVE  Assignable(pb.slotRoles, SlotsOf(pb) \ DOMAIN f, Left(pb, Taken(f)))
  BY <1>1, ByLogicOfChoices
<1>4. CASE Taken(f) = Nothing
  <2>1. DOMAIN f = {}
    BY <1>4 DEF Taken, Nothing
  <2>2. Left(pb, Taken(f)) = pb.capacities
    BY <1>1, <1>4, NothingIsAChoice
  <2>3. HasFullAssignment(pb.slotRoles, SlotsOf(pb), pb.capacities)
    BY <1>1 DEF SearchInv
  <2>4. SlotsOf(pb) \ DOMAIN f = SlotsOf(pb)
    BY <2>1
  <2> QED
    BY <1>1, <2>2, <2>3, <2>4, TestTells
<1>5. CASE Taken(f) # Nothing
  <2>1. Feasible(pb, Taken(f))
    BY <1>3, <1>5 DEF SearchInv
  <2>2. Taken(f).mask = DOMAIN f
    BY DEF Taken
  <2>3. CASE DOMAIN f = SlotsOf(pb)
    <3> DEFINE none == [s \in {} |-> 1]
    <3>1. none \in [SlotsOf(pb) \ DOMAIN f -> RoleIndex] /\ DOMAIN none = {}
      BY <2>3
    <3>2. \A r : HowMany(none, r) = 0
      <4> TAKE r
      <4>1. {s \in DOMAIN none : none[s] = r} = {}
        OBVIOUS
      <4> QED
        BY <4>1, FS_EmptySet DEF HowMany
    <3> HIDE DEF none
    <3>3. Accepted(pb.slotRoles, none)
      BY <3>1 DEF Accepted
    <3>4. Affordable(none, Left(pb, Taken(f)))
      BY <1>1, <3>2, ChoiceShape DEF Affordable, Stock
    <3> QED
      BY <3>1, <3>3, <3>4 DEF Assignable
  <2>4. CASE DOMAIN f # SlotsOf(pb)
    BY <1>1, <2>1, <2>2, <2>4, TestTells DEF Feasible
  <2> QED
    BY <2>3, <2>4
<1> QED
  BY <1>4, <1>5

LEMMA SearchInvariance == MatchingSpec => []SearchInv
<1>1. SearchInv /\ [Visit]_matchingVars => SearchInv'
  <2> SUFFICES ASSUME SearchInv, [Visit]_matchingVars PROVE SearchInv'
    OBVIOUS
  <2>1. CASE Visit
    BY <2>1, SearchStep
  <2>2. CASE UNCHANGED matchingVars
    BY <2>2 DEF SearchInv, matchingVars
  <2> QED
    BY <2>1, <2>2
<1> QED
  BY SearchBegins, <1>1, PTL DEF MatchingSpec

\* isChoiceSafe, with the augmenting paths it asks, accepts a question of any size
\* if and only if no accepted placement, in any order, can leave the rest without
\* a solution.
THEOREM SearchIsRight == MatchingSpec => []SearchDecides
<1>1. SearchInv => SearchDecides
  <2> SUFFICES ASSUME SearchInv PROVE SearchDecides
    OBVIOUS
  <2>1. TellsAssignable(problem)
    BY TestIsRight DEF SearchInv
  <2>2. verdict = "safe" => ByLogic(problem)
    BY SafeMeansByLogic
  <2>3. verdict = "unsafe" => ~ByLogic(problem)
    BY DEF SearchInv
  <2> QED
    BY <2>1, <2>2, <2>3 DEF SearchDecides
<1> QED
  BY <1>1, SearchInvariance, PTL

\* The search stops once it has visited MAX_STATES states.
VisitsInv ==
    /\ verdict \in {"searching", "safe", "unsafe", "tooLarge"}
    /\ visited \in 0..(MaxStates + 1)
    /\ verdict = "searching" => visited <= MaxStates

LEMMA VisitsStop ==
  ASSUME VisitsInv, Visit
  PROVE  VisitsInv'
<1>1. MaxStates \in Nat /\ visited \in Nat /\ visited <= MaxStates /\ verdict = "searching"
  BY SearchAssumption DEF VisitsInv, Visit
<1>2. CASE Begin \/ queue = {}
  <2>1. visited' = visited /\ verdict' \in {"unsafe", "safe"}
    BY <1>2 DEF Visit
  <2> QED
    BY <1>1, <2>1 DEF VisitsInv
<1>3. CASE ~(Begin \/ queue = {})
  <2> DEFINE new == Placements(problem, CHOOSE st \in queue : TRUE) \ seen
             fine == \A to \in new : Feasible(problem, to)
  <2>1. /\ visited' = visited + 1
        /\ verdict' = IF visited' > MaxStates THEN "tooLarge"
                      ELSE IF fine THEN "searching" ELSE "unsafe"
    BY <1>3, Zenon DEF Visit
  <2> HIDE DEF fine
  <2> QED
    BY <1>1, <2>1 DEF VisitsInv
<1> QED
  BY <1>2, <1>3

\* The search gives up past MAX_STATES states, and the states it has seen fill
\* slots of the question.
THEOREM SearchTypeCorrectness == MatchingSpec => []MatchingTypeOK
<1>1. MatchingInit => VisitsInv
  BY SearchAssumption DEF MatchingInit, VisitsInv
<1>2. SearchInv /\ VisitsInv => MatchingTypeOK
  <2> SUFFICES ASSUME SearchInv, VisitsInv PROVE MatchingTypeOK
    OBVIOUS
  <2>1. ASSUME NEW st \in seen PROVE st.mask \subseteq SlotsOf(problem)
    <3>1. PICK f \in PartialChoices(problem) : st = Taken(f)
      BY DEF SearchInv
    <3>2. DOMAIN f \subseteq SlotsOf(problem)
      BY ChoiceShape DEF SearchInv
    <3> QED
      BY <3>1, <3>2 DEF Taken
  <2> QED
    BY <2>1 DEF MatchingTypeOK, VisitsInv
<1>3. VisitsInv /\ [Visit]_matchingVars => VisitsInv'
  <2>1. VisitsInv /\ UNCHANGED matchingVars => VisitsInv'
    BY DEF VisitsInv, matchingVars
  <2> QED
    BY <2>1, VisitsStop
<1> QED
  BY <1>1, <1>2, <1>3, SearchInvariance, PTL DEF MatchingSpec
=============================================================================
