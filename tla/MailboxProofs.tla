--------------------------- MODULE MailboxProofs ---------------------------
(***************************************************************************)
(* Proofs about the message boxes, for any users, message IDs, routes and  *)
(* readers, any page size, trim limit, revocation window and clock.        *)
(*                                                                         *)
(* The argument for a reader: a page is a prefix of what lies behind the   *)
(* cursor in the order of the positions, and the cursor moves to the last  *)
(* position of the page, so that everything received is at or before the   *)
(* cursor and everything readable at or before it has been received, or    *)
(* was written there later.  A position never changes: an accepted message *)
(* keeps its timestamp, also when it is revoked.                           *)
(***************************************************************************)
EXTENDS Mailbox, FiniteSetTheorems, TLAPS

(***************************************************************************)
(* The inductive invariant                                                 *)
(***************************************************************************)

\* A box holds accepted messages only; a message still to be written to a box is
\* not in it and has not been revoked anywhere.
HeldInv(b, i) ==
    /\ box[b][i] # "absent" => msg[i] # None
    /\ i \in unwritten[b] => /\ msg[i] # None /\ b \in Copies(i) /\ box[b][i] = "absent"
                             /\ \A c \in Copies(i) : box[c][i] # "revoked"

\* Every box keeps to it.
BoxInv == \A b \in Boxes, i \in Ids : HeldInv(b, i)

\* The deduplication key of an accepted message is set or has lapsed.
KeyInv ==
    \A i \in Ids : msg[i] # None => <<msg[i].from, msg[i].client>> \in dedup \cup lapsed

\* A cursor is at the start or at a message.
CursorInv(r) == cursor[r] = <<0, 0>> \/ cursor[r][2] # 0

\* What a reader has received is at or before its cursor, and nothing came twice.
ReceivedInv(r) ==
    /\ \A i \in got[r] : msg[i] # None /\ ~ Before(cursor[r], Position(i))
    /\ ~ repeated[r]

\* What is readable at or before the cursor has been received or came late.
CompleteInv(r) ==
    \A i \in Here(r[2]) :
        ~ Before(cursor[r], Position(i)) /\ Readable(r[2], i) => i \in got[r] \cup missed[r]

\* Facts about one reader.
ReaderInv(r) == CursorInv(r) /\ ReceivedInv(r) /\ CompleteInv(r)

\* The inductive invariant.
MailInv ==
    /\ TypeOK /\ BoxInv /\ CopiesAgree /\ KeyInv /\ AcceptedOnce
    /\ \A r \in Readers : ReaderInv(r)

(***************************************************************************)
(* Positions and pages                                                     *)
(***************************************************************************)

\* Times and IDs are positive numbers.
LEMMA Numbers ==
  /\ \A t \in Times : t \in Nat /\ t > 0
  /\ \A i \in Ids : i \in Nat /\ i > 0
  BY ConstantsAssumption

\* The position of an accepted message.
LEMMA PositionTyped ==
  ASSUME TypeOK, NEW i \in Ids, msg[i] # None
  PROVE  /\ Time(i) \in Times /\ Time(i) \in Nat /\ Time(i) > 0 /\ i \in Nat /\ i > 0
         /\ Position(i) \in Positions /\ Position(i)[1] = Time(i) /\ Position(i)[2] = i
<1>1. msg[i] \in Messages
  BY DEF TypeOK
<1>2. Time(i) \in Times
  BY <1>1 DEF Messages, Time
<1>3. Time(i) \in Nat /\ Time(i) > 0 /\ i \in Nat /\ i > 0
  BY <1>2, Numbers
<1> QED BY <1>2, <1>3 DEF Position, Positions

\* A position is a pair of numbers.
LEMMA PairTyped ==
  ASSUME NEW p \in Positions
  PROVE  p[1] \in Nat /\ p[2] \in Nat
<1>1. p[1] \in Times \cup {0} /\ p[2] \in Ids \cup {0}
  BY DEF Positions
<1> QED BY <1>1, Numbers

\* Before is a strict order on positions ...
LEMMA BeforeOrder ==
  ASSUME NEW p \in Positions, NEW q \in Positions, NEW s \in Positions
  PROVE  /\ ~ Before(p, p)
         /\ Before(p, q) /\ Before(q, s) => Before(p, s)
         /\ ~ Before(q, p) /\ Before(q, s) => Before(p, s)
         /\ ~ Before(q, p) /\ ~ Before(s, q) => ~ Before(s, p)
  BY PairTyped DEF Before

\* ... that tells any two messages apart.
LEMMA BeforeTotal ==
  ASSUME TypeOK, NEW i \in Ids, NEW j \in Ids, msg[i] # None, msg[j] # None, i # j
  PROVE  Before(Position(i), Position(j)) \/ Before(Position(j), Position(i))
  BY PositionTyped DEF Before

\* The messages in a box are accepted ones.
LEMMA HereTyped ==
  ASSUME MailInv, NEW b \in Boxes, NEW i \in Here(b)
  PROVE  i \in Ids /\ msg[i] # None
  BY DEF Here, MailInv, BoxInv, HeldInv

\* What readMessagesAfter asks Redis for is what lies behind the cursor.
LEMMA AfterIs ==
  ASSUME MailInv, NEW r \in Readers, NEW b \in Boxes, b = r[2]
  PROVE  After(b, cursor[r]) =
             { i \in Here(b) : Readable(b, i) /\ Before(cursor[r], Position(i)) }
<1>0. TypeOK /\ CursorInv(r)
  BY DEF MailInv, ReaderInv
<1>1. cursor[r] \in Positions
  BY <1>0 DEF TypeOK
<1>2. ASSUME NEW i \in Here(b)
      PROVE  (/\ Time(i) >= cursor[r][1]
              /\ ~ (Time(i) = cursor[r][1] /\ cursor[r][2] > 0 /\ i <= cursor[r][2]))
             <=> Before(cursor[r], Position(i))
  <2>1. i \in Ids /\ msg[i] # None
    BY HereTyped
  <2>2. /\ Time(i) \in Nat /\ Time(i) > 0 /\ i \in Nat /\ Position(i)[1] = Time(i)
        /\ Position(i)[2] = i
    BY <1>0, <2>1, PositionTyped
  <2>3. cursor[r][1] \in Nat /\ cursor[r][2] \in Nat
    BY <1>1, PairTyped
  <2>4. cursor[r][2] = 0 => cursor[r][1] = 0
    BY <1>0 DEF CursorInv
  <2> QED BY <2>2, <2>3, <2>4 DEF Before
<1> QED BY <1>2 DEF After

\* A finite set of messages has a last one.
LEMMA LastExists ==
  ASSUME TypeOK, NEW S \in SUBSET Ids, S # {}, \A i \in S : msg[i] # None
  PROVE  Last(S) \in S /\ \A j \in S : j = Last(S) \/ Before(Position(j), Position(Last(S)))
<1> DEFINE Behind(x) == { y \in S : Before(Position(x), Position(y)) }
           Family == { Behind(x) : x \in S }
<1>1. IsFiniteSet(S)
  BY ConstantsAssumption, FS_Subset
<1>2. IsWellFoundedOn(StrictSubsetOrdering(S), FiniteSubsetsOf(S))
  BY FS_StrictSubsetOrderingWellFounded
<1>3. Family \subseteq FiniteSubsetsOf(S) /\ Family # {}
  <2>1. \A x \in S : Behind(x) \in SUBSET S
    OBVIOUS
  <2>2. \A x \in S : IsFiniteSet(Behind(x))
    <3> HIDE DEF Behind
    <3> QED BY <1>1, <2>1, FS_Subset
  <2> HIDE DEF Behind
  <2> QED BY <2>1, <2>2 DEF FiniteSubsetsOf
<1>4. PICK A \in Family : \A B \in Family : ~(<<B, A>> \in StrictSubsetOrdering(S))
  <2> HIDE DEF Family
  <2> QED BY <1>2, <1>3, WFMin
<1>5. PICK x \in S : A = Behind(x)
  BY <1>4
<1>6. ASSUME NEW y \in S, Before(Position(x), Position(y)) PROVE FALSE
  <2>1. \A z \in S : Position(z) \in Positions
    BY PositionTyped
  <2>2. \A z \in S : Before(Position(y), Position(z)) => Before(Position(x), Position(z))
    BY <1>6, <2>1, BeforeOrder
  <2>3. ~ Before(Position(y), Position(y))
    BY <2>1, BeforeOrder
  <2>4. Behind(y) \in Family /\ Behind(y) \subseteq A /\ y \in A /\ y \notin Behind(y)
    BY <1>5, <1>6, <2>2, <2>3
  <2>5. Behind(y) \in SUBSET S /\ A \in SUBSET S
    BY <1>5
  <2> HIDE DEF Behind, Family
  <2>6. <<Behind(y), A>> \in StrictSubsetOrdering(S)
    BY <2>4, <2>5 DEF StrictSubsetOrdering
  <2> QED BY <1>4, <2>4, <2>6
<1>7. \A j \in S : j = x \/ Before(Position(j), Position(x))
  BY <1>6, BeforeTotal
<1> QED BY <1>7 DEF Last

\* P is a prefix, up to and with l, of the readable messages of b behind c.
Prefix(b, c, P, l) ==
    /\ P \subseteq Ids /\ l \in P
    /\ \A i \in P : i \in Here(b) /\ msg[i] # None /\ Before(c, Position(i))
    /\ \A i \in P : ~ Before(Position(l), Position(i))
    /\ \A i \in Here(b) : Readable(b, i) /\ Before(c, Position(i)) =>
                             Before(Position(l), Position(i)) \/ i \in P

\* A page is a prefix of what lies behind the cursor, in the order of positions.
LEMMA PageIs ==
  ASSUME MailInv, NEW r \in Readers, NEW b \in Boxes, b = r[2],
         NEW P, P = Page(After(b, cursor[r])), P # {}
  PROVE  Prefix(b, cursor[r], P, Last(P))
<1> DEFINE S == After(b, cursor[r])
<1>0. TypeOK
  BY DEF MailInv
<1>1. S = { i \in Here(b) : Readable(b, i) /\ Before(cursor[r], Position(i)) }
  BY AfterIs
<1>2. \A i \in Here(b) : i \in Ids /\ msg[i] # None /\ Position(i) \in Positions
  BY <1>0, HereTyped, PositionTyped
<1>3. \A i : i \in P <=> /\ i \in S
                         /\ Cardinality({ j \in S : Before(Position(j), Position(i)) }) < PageSize
  BY DEF Page
<1> HIDE DEF S
<1>4. P \subseteq S /\ S \subseteq Here(b)
  BY <1>1, <1>3
<1>5. P \in SUBSET Ids /\ \A i \in P : msg[i] # None
  BY <1>2, <1>4
<1>6. Last(P) \in P /\ \A j \in P : j = Last(P) \/ Before(Position(j), Position(Last(P)))
  BY <1>0, <1>5, LastExists
<1>7. PICK l \in P : l = Last(P)
  BY <1>6
<1>8. ASSUME NEW i \in P PROVE ~ Before(Position(l), Position(i))
  <2>1. Position(i) \in Positions /\ Position(l) \in Positions
    BY <1>2, <1>4
  <2> QED BY <1>6, <1>7, <2>1, BeforeOrder
<1>9. ASSUME NEW i \in S, ~ Before(Position(l), Position(i)) PROVE i \in P
  <2> DEFINE A == { j \in S : Before(Position(j), Position(i)) }
             B == { j \in S : Before(Position(j), Position(l)) }
  <2>1. \A j \in S : Position(j) \in Positions
    BY <1>2, <1>4
  <2>2. A \subseteq B
    BY <1>4, <1>9, <2>1, BeforeOrder
  <2>3. B \in SUBSET Ids /\ A \in SUBSET B
    BY <1>2, <1>4, <2>2
  <2>4. Cardinality(B) < PageSize
    BY <1>3
  <2> HIDE DEF A, B
  <2>5. IsFiniteSet(B)
    BY <2>3, ConstantsAssumption, FS_Subset
  <2>6. Cardinality(A) <= Cardinality(B) /\ IsFiniteSet(A)
    BY <2>3, <2>5, FS_Subset
  <2>7. Cardinality(A) \in Nat /\ Cardinality(B) \in Nat /\ PageSize \in Nat
    BY <2>5, <2>6, FS_CardinalityType, ConstantsAssumption
  <2>8. Cardinality(A) < PageSize
    BY <2>4, <2>6, <2>7
  <2> QED BY <1>3, <1>9, <2>8 DEF A
<1>10. \A i \in P : i \in Here(b) /\ msg[i] # None /\ Before(cursor[r], Position(i))
  BY <1>1, <1>4, <1>5
<1>11. \A i \in Here(b) :
           Readable(b, i) /\ Before(cursor[r], Position(i)) =>
               Before(Position(l), Position(i)) \/ i \in P
  BY <1>1, <1>9
<1> QED BY <1>5, <1>7, <1>8, <1>10, <1>11 DEF Prefix

\* What Read does: the reader gets a prefix and its cursor moves to the end of it.
LEMMA ReadIs ==
  ASSUME MailInv, NEW r \in Readers, Read(r)
  PROVE  \E b \in Boxes, P \in SUBSET Ids, l \in Ids :
             /\ b = r[2] /\ Prefix(b, cursor[r], P, l)
             /\ got' = [got EXCEPT ![r] = got[r] \cup P]
             /\ repeated' = [repeated EXCEPT ![r] = repeated[r] \/ P \cap got[r] # {}]
             /\ cursor' = [cursor EXCEPT ![r] = Position(l)]
             /\ UNCHANGED <<clock, sendVars, boxVars, missed, faults>>
<1>1. PICK b \in Boxes : b = r[2]
  BY ConstantsAssumption DEF Boxes
<1> DEFINE P == Page(After(b, cursor[r]))
           l == Last(P)
<1>2. /\ P # {}
      /\ got' = [got EXCEPT ![r] = got[r] \cup P]
      /\ repeated' = [repeated EXCEPT ![r] = repeated[r] \/ P \cap got[r] # {}]
      /\ cursor' = [cursor EXCEPT ![r] = Position(l)]
      /\ UNCHANGED <<clock, sendVars, boxVars, missed, faults>>
  BY <1>1 DEF Read
<1>3. Prefix(b, cursor[r], P, l)
  BY <1>1, <1>2, PageIs
<1> HIDE DEF P, l
<1>4. P \in SUBSET Ids /\ l \in Ids
  BY <1>3 DEF Prefix
<1> QED BY <1>1, <1>2, <1>3, <1>4

(***************************************************************************)
(* Types                                                                   *)
(***************************************************************************)

\* The smallest time exists.
LEMMA MinTimes == Min(Times) \in Times
<1> DEFINE Below(x) == { y \in Times : y < x }
           Family == { Below(x) : x \in Times }
<1>1. IsWellFoundedOn(StrictSubsetOrdering(Times), FiniteSubsetsOf(Times))
  BY FS_StrictSubsetOrderingWellFounded
<1>2. Family \subseteq FiniteSubsetsOf(Times) /\ Family # {}
  <2>1. \A x \in Times : Below(x) \in SUBSET (0..x) /\ Below(x) \in SUBSET Times
    BY Numbers
  <2>2. \A x \in Times : IsFiniteSet(0..x)
    BY Numbers, FS_Interval
  <2>3. Times # {}
    BY ConstantsAssumption
  <2> HIDE DEF Below
  <2>4. \A x \in Times : IsFiniteSet(Below(x))
    BY <2>1, <2>2, FS_Subset
  <2> QED BY <2>1, <2>3, <2>4 DEF FiniteSubsetsOf
<1>3. PICK A \in Family : \A B \in Family : ~(<<B, A>> \in StrictSubsetOrdering(Times))
  <2> HIDE DEF Family
  <2> QED BY <1>1, <1>2, WFMin
<1>4. PICK x \in Times : A = Below(x)
  BY <1>3
<1>5. ASSUME NEW y \in Times, y < x PROVE FALSE
  <2>1. \A z \in Times : z < y => z < x
    BY <1>5, Numbers
  <2>2. Below(y) \in Family /\ Below(y) \subseteq A /\ y \in A /\ y \notin Below(y)
    BY <1>4, <1>5, <2>1, Numbers
  <2>3. Below(y) \in SUBSET Times /\ A \in SUBSET Times
    BY <1>4
  <2> HIDE DEF Below, Family
  <2>4. <<Below(y), A>> \in StrictSubsetOrdering(Times)
    BY <2>2, <2>3 DEF StrictSubsetOrdering
  <2> QED BY <1>3, <2>2, <2>4
<1>6. \A y \in Times : x <= y
  BY <1>5, Numbers
<1> QED BY <1>6 DEF Min

\* A box is finite.
LEMMA BoxFinite ==
  ASSUME NEW b
  PROVE  Cardinality(Here(b)) \in Nat
<1>1. Here(b) \in SUBSET Ids
  BY DEF Here
<1>2. IsFiniteSet(Here(b))
  BY <1>1, ConstantsAssumption, FS_Subset
<1> QED BY <1>2, FS_CardinalityType

\* What a box holds after a trim.
LEMMA WithoutIs ==
  ASSUME TypeOK, NEW b \in Boxes, NEW S, box' = Without(b, S)
  PROVE  /\ box' \in [Boxes -> [Ids -> {"absent", "plain", "revoked"}]]
         /\ \A c \in Boxes, i \in Ids : box'[c][i] = box[c][i] \/ box'[c][i] = "absent"
<1>0. box \in [Boxes -> [Ids -> {"absent", "plain", "revoked"}]]
  BY DEF TypeOK
<1> DEFINE f == [i \in Ids |-> IF i \in S THEN "absent" ELSE box[b][i]]
<1>1. f \in [Ids -> {"absent", "plain", "revoked"}]
  BY <1>0
<1>2. \A i \in Ids : f[i] = box[b][i] \/ f[i] = "absent"
  OBVIOUS
<1>3. box' = [box EXCEPT ![b] = f]
  BY DEF Without
<1> HIDE DEF f
<1> QED BY <1>0, <1>1, <1>2, <1>3

\* Every step keeps the types.
LEMMA TypeStep ==
  ASSUME MailInv, Next
  PROVE  TypeOK'
<1>0. TypeOK
  BY DEF MailInv
<1>1. ASSUME NEW w \in Routes, NEW c \in ClientIds, NEW i \in Ids, Accept(w[1], w[2], c, i)
      PROVE  TypeOK'
  <2>1. w[1] \in Users /\ w[2] \in Boxes
    BY ConstantsAssumption DEF Boxes
  <2>2. PICK m : m = [from |-> w[1], to |-> w[2], client |-> c, time |-> clock]
    OBVIOUS
  <2>3. m \in Messages
    BY <1>0, <2>1, <2>2 DEF Messages, TypeOK
  <2>4. msg' \in [Ids -> Messages \cup {None}]
    BY <1>0, <1>1, <2>2, <2>3 DEF Accept, TypeOK
  <2>5. unwritten' \in [Boxes -> SUBSET Ids]
    BY <1>0, <1>1 DEF Accept, TypeOK
  <2> QED BY <1>0, <1>1, <2>1, <2>4, <2>5 DEF Accept, TypeOK, readerVars
<1>2. ASSUME NEW k \in Users \X ClientIds, DedupExpires(k) PROVE TypeOK'
  BY <1>0, <1>2, ConstantsAssumption DEF DedupExpires, Fault, TypeOK, boxVars, readerVars
<1>3. ASSUME NEW t \in Times, Tick(t) PROVE TypeOK'
  BY <1>0, <1>3, ConstantsAssumption DEF Tick, Fault, TypeOK, sendVars, boxVars, readerVars
<1>4. ASSUME NEW b \in Boxes, NEW i \in Ids, Write(b, i) PROVE TypeOK'
  <2>1. box' \in [Boxes -> [Ids -> {"absent", "plain", "revoked"}]]
    BY <1>0, <1>4 DEF Write, TypeOK
  <2>2. missed' \in [Readers -> SUBSET Ids]
    BY <1>0, <1>4 DEF Write, TypeOK
  <2> QED BY <1>0, <1>4, <2>1, <2>2 DEF Write, TypeOK, sendVars
<1>5. ASSUME NEW b \in Boxes, CountExcess(b) PROVE TypeOK'
  <2>1. Cardinality(Here(b)) - MaxCount \in Nat
    BY <1>5, BoxFinite, ConstantsAssumption DEF CountExcess
  <2> QED BY <1>0, <1>5, <2>1 DEF CountExcess, TypeOK, sendVars, readerVars
<1>6. ASSUME NEW b \in Boxes, NEW S, box' = Without(b, S),
             UNCHANGED <<clock, sendVars, unwritten, readerVars, faults>>,
             excess' \in [Boxes -> Nat]
      PROVE  TypeOK'
  BY <1>0, <1>6, WithoutIs DEF TypeOK, sendVars, readerVars
<1>7. ASSUME NEW b \in Boxes, RemoveExcess(b) PROVE TypeOK'
  <2>1. excess' \in [Boxes -> Nat]
    BY <1>0, <1>7 DEF RemoveExcess, TypeOK
  <2> QED BY <1>6, <1>7, <2>1 DEF RemoveExcess
<1>8. ASSUME NEW b \in Boxes, NEW t \in Times, TrimByTime(b, t) PROVE TypeOK'
  <2>1. excess' \in [Boxes -> Nat]
    BY <1>0, <1>8 DEF TrimByTime, TypeOK
  <2> QED BY <1>6, <1>8, <2>1 DEF TrimByTime
<1>9. ASSUME NEW i \in Ids, NEW now \in Times, Revoke(i, now) PROVE TypeOK'
  <2>1. box' \in [Boxes -> [Ids -> {"absent", "plain", "revoked"}]]
    BY <1>0, <1>9 DEF Revoke, TypeOK
  <2> QED BY <1>0, <1>9, <2>1 DEF Revoke, Rewritten, TypeOK, readerVars
<1>10. ASSUME NEW r \in Readers, Read(r) PROVE TypeOK'
  <2>1. PICK b \in Boxes, P \in SUBSET Ids, l \in Ids :
             /\ b = r[2] /\ Prefix(b, cursor[r], P, l)
             /\ got' = [got EXCEPT ![r] = got[r] \cup P]
             /\ repeated' = [repeated EXCEPT ![r] = repeated[r] \/ P \cap got[r] # {}]
             /\ cursor' = [cursor EXCEPT ![r] = Position(l)]
             /\ UNCHANGED <<clock, sendVars, boxVars, missed, faults>>
    BY <1>10, ReadIs
  <2>2. msg[l] # None
    BY <2>1 DEF Prefix
  <2>3. Position(l) \in Positions
    BY <1>0, <2>2, PositionTyped
  <2>4. repeated' \in [Readers -> BOOLEAN]
    BY <1>0, <2>1 DEF TypeOK
  <2> QED BY <1>0, <2>1, <2>3, <2>4 DEF TypeOK, sendVars, boxVars
<1> QED BY <1>1, <1>2, <1>3, <1>4, <1>5, <1>7, <1>8, <1>9, <1>10 DEF Next

(***************************************************************************)
(* Kinds of steps                                                          *)
(***************************************************************************)

\* A step that leaves the messages, the boxes and the readers alone.
Quiet ==
    /\ UNCHANGED <<msg, box, unwritten, readerVars>>
    /\ dedup \cup lapsed \subseteq dedup' \cup lapsed' /\ lapsed \subseteq lapsed'

\* A trim takes messages out of one box.
Trims ==
    /\ \A b \in Boxes, i \in Ids : box'[b][i] = box[b][i] \/ box'[b][i] = "absent"
    /\ UNCHANGED <<sendVars, unwritten, readerVars>>

\* Every step is of one of these kinds.
LEMMA StepKinds ==
  ASSUME MailInv, Next
  PROVE  \/ Quiet \/ Trims
         \/ \E w \in Routes, c \in ClientIds, i \in Ids : Accept(w[1], w[2], c, i)
         \/ \E b \in Boxes, i \in Ids : Write(b, i)
         \/ \E i \in Ids, now \in Times : Revoke(i, now)
         \/ \E r \in Readers : Read(r)
<1>0. TypeOK
  BY DEF MailInv
<1>1. ASSUME \/ \E k \in Users \X ClientIds : DedupExpires(k)
             \/ \E t \in Times : Tick(t)
             \/ \E b \in Boxes : CountExcess(b)
      PROVE  Quiet
  BY <1>1 DEF DedupExpires, Tick, CountExcess, Quiet, boxVars, readerVars, sendVars
<1>2. ASSUME NEW b \in Boxes, RemoveExcess(b) PROVE Trims
  BY <1>0, <1>2, WithoutIs DEF RemoveExcess, Trims
<1>3. ASSUME NEW b \in Boxes, NEW t \in Times, TrimByTime(b, t) PROVE Trims
  BY <1>0, <1>3, WithoutIs DEF TrimByTime, Trims
<1> QED BY <1>1, <1>2, <1>3 DEF Next

\* An accepted message never changes, and so neither does its position.
LEMMA MessagesStay ==
  ASSUME MailInv, Next, NEW i \in Ids, msg[i] # None
  PROVE  msg'[i] = msg[i] /\ Position(i)' = Position(i) /\ Copies(i)' = Copies(i)
<1>0. TypeOK
  BY DEF MailInv
<1>1. msg' = msg \/ \E w \in Routes, c \in ClientIds, j \in Ids : Accept(w[1], w[2], c, j)
  BY StepKinds DEF Quiet, Trims, Write, Revoke, Rewritten, Read, sendVars
<1>2. msg'[i] = msg[i]
  BY <1>0, <1>1 DEF Accept, TypeOK
<1> QED BY <1>2 DEF Position, Time, Copies

(***************************************************************************)
(* The boxes                                                               *)
(***************************************************************************)

\* Revoke marks every copy of one message, all of which are there.
LEMMA RevokeIs ==
  ASSUME MailInv, NEW i \in Ids, NEW now \in Times, Revoke(i, now)
  PROVE  /\ msg[i] # None /\ Copies(i) \subseteq Boxes
         /\ \A b \in Copies(i) : box[b][i] # "absent" /\ box'[b][i] = "revoked"
         /\ \A b \in Boxes, j \in Ids : j # i \/ b \notin Copies(i) => box'[b][j] = box[b][j]
         /\ UNCHANGED <<sendVars, unwritten, readerVars>>
<1>0. TypeOK
  BY DEF MailInv
<1>1. msg[i] \in Messages
  BY <1>0 DEF Revoke, TypeOK
<1>2. Copies(i) \subseteq Boxes
  BY <1>1 DEF Copies, BoxesOf, Messages, Boxes
<1>3. \A b \in Copies(i) : box[b][i] # "absent"
  BY DEF Revoke, Here
<1>4. /\ \A b \in Copies(i) : box'[b] = [box[b] EXCEPT ![i] = "revoked"]
      /\ \A b \in Boxes : b \notin Copies(i) => box'[b] = box[b]
  BY <1>2 DEF Revoke
<1>5. \A b \in Boxes : box[b] \in [Ids -> {"absent", "plain", "revoked"}]
  BY <1>0 DEF TypeOK
<1> QED BY <1>2, <1>3, <1>4, <1>5 DEF Revoke, Rewritten, sendVars, readerVars

\* Write puts one message into one box.
LEMMA WriteIs ==
  ASSUME MailInv, NEW b \in Boxes, NEW i \in Ids, Write(b, i)
  PROVE  /\ i \in unwritten[b] /\ box'[b][i] = "plain"
         /\ \A c \in Boxes, j \in Ids : c # b \/ j # i => box'[c][j] = box[c][j]
         /\ unwritten' = [unwritten EXCEPT ![b] = unwritten[b] \ {i}]
         /\ UNCHANGED <<sendVars, cursor, got, repeated>>
<1>0. box \in [Boxes -> [Ids -> {"absent", "plain", "revoked"}]]
  BY DEF MailInv, TypeOK
<1>1. box' = [box EXCEPT ![b] = [box[b] EXCEPT ![i] = "plain"]]
  BY DEF Write
<1> QED BY <1>0, <1>1 DEF Write

\* A message that was in no box is accepted and owed to its boxes.
Accepted(u, x, c, i) ==
    /\ msg[i] = None /\ msg'[i] # None
    /\ msg'[i].from = u /\ msg'[i].client = c /\ msg'[i].to = x
    /\ \A j \in Ids : j # i => msg'[j] = msg[j]
    /\ \A b \in Boxes : box[b][i] = "absent"
    /\ \A b \in Boxes : \/ b \in BoxesOf(u, x) /\ unwritten'[b] = unwritten[b] \cup {i}
                        \/ b \notin BoxesOf(u, x) /\ unwritten'[b] = unwritten[b]
    /\ UNCHANGED <<box, lapsed, readerVars>>
    /\ <<u, c>> \notin dedup /\ dedup' = dedup \cup {<<u, c>>}

\* What Accept does.
LEMMA AcceptIs ==
  ASSUME MailInv, NEW w \in Routes, NEW c \in ClientIds, NEW i \in Ids,
         Accept(w[1], w[2], c, i)
  PROVE  Accepted(w[1], w[2], c, i)
<1>0. TypeOK /\ BoxInv
  BY DEF MailInv
<1>1. w[1] \in Users /\ w[2] \in Boxes /\ clock \in Times
  BY <1>0, ConstantsAssumption DEF Boxes, TypeOK
<1>2. PICK m : m = [from |-> w[1], to |-> w[2], client |-> c, time |-> clock]
  OBVIOUS
<1>3. m \in Messages /\ m # None
  BY <1>1, <1>2, NoneAssumption DEF Messages
<1>4. msg[i] = None /\ msg' = [msg EXCEPT ![i] = m]
  BY <1>2 DEF Accept
<1>5. msg'[i] = m /\ \A j \in Ids : j # i => msg'[j] = msg[j]
  BY <1>0, <1>4 DEF TypeOK
<1>6. msg'[i].from = w[1] /\ msg'[i].client = c /\ msg'[i].to = w[2]
  BY <1>2, <1>5
<1>7. \A b \in Boxes : box[b][i] = "absent"
  BY <1>0, <1>4 DEF BoxInv, HeldInv
<1>8. \A b \in Boxes : unwritten'[b] = IF b \in BoxesOf(w[1], w[2]) THEN unwritten[b] \cup {i}
                                       ELSE unwritten[b]
  BY DEF Accept
<1> QED BY <1>3, <1>4, <1>5, <1>6, <1>7, <1>8 DEF Accept, Accepted, Admits

\* The copies of an accepted message are in boxes.
LEMMA CopiesTyped ==
  ASSUME TypeOK, NEW i \in Ids, msg[i] # None
  PROVE  Copies(i) \subseteq Boxes
<1>1. msg[i] \in Messages
  BY DEF TypeOK
<1> QED BY <1>1 DEF Copies, BoxesOf, Messages, Boxes

\* Boxes keep holding accepted messages, and what is owed to a box stays absent.
LEMMA BoxStep ==
  ASSUME MailInv, Next
  PROVE  BoxInv'
<1>0. TypeOK /\ BoxInv
  BY DEF MailInv
<1> SUFFICES ASSUME NEW b \in Boxes, NEW i \in Ids
             PROVE  HeldInv(b, i)'
  BY DEF BoxInv
<1>1. HeldInv(b, i)
  BY <1>0 DEF BoxInv
<1>2. msg[i] # None => msg'[i] = msg[i] /\ Copies(i)' = Copies(i) /\ Copies(i) \subseteq Boxes
  BY <1>0, MessagesStay, CopiesTyped
<1>3. CASE Quiet
  BY <1>1, <1>2, <1>3 DEF HeldInv, Quiet
<1>4. CASE Trims
  <2>1. /\ \A c \in Boxes : box'[c][i] = box[c][i] \/ box'[c][i] = "absent"
        /\ unwritten' = unwritten
    BY <1>4 DEF Trims
  <2> QED BY <1>1, <1>2, <2>1 DEF HeldInv
<1>5. ASSUME NEW w \in Routes, NEW c \in ClientIds, NEW j \in Ids, Accept(w[1], w[2], c, j)
      PROVE  HeldInv(b, i)'
  <2>1. /\ msg[j] = None /\ msg'[j] # None /\ msg'[j].from = w[1] /\ msg'[j].to = w[2]
        /\ \A x \in Boxes : box[x][j] = "absent"
        /\ \/ b \in BoxesOf(w[1], w[2]) /\ unwritten'[b] = unwritten[b] \cup {j}
           \/ b \notin BoxesOf(w[1], w[2]) /\ unwritten'[b] = unwritten[b]
        /\ box' = box
    <3>1. Accepted(w[1], w[2], c, j)
      BY <1>5, AcceptIs
    <3> QED BY <3>1 DEF Accepted
  <2>2. BoxesOf(w[1], w[2]) \subseteq Boxes
    BY ConstantsAssumption DEF BoxesOf, Boxes
  <2>3. Copies(j)' = BoxesOf(w[1], w[2])
    BY <2>1 DEF Copies, BoxesOf
  <2> QED BY <1>1, <1>2, <2>1, <2>2, <2>3 DEF HeldInv
<1>6. ASSUME NEW c \in Boxes, NEW j \in Ids, Write(c, j) PROVE HeldInv(b, i)'
  <2>1. /\ j \in unwritten[c] /\ box'[c][j] = "plain"
        /\ \A x \in Boxes, y \in Ids : x # c \/ y # j => box'[x][y] = box[x][y]
        /\ unwritten' = [unwritten EXCEPT ![c] = unwritten[c] \ {j}]
    BY <1>6, WriteIs
  <2>2. HeldInv(c, j) /\ unwritten \in [Boxes -> SUBSET Ids]
    BY <1>0 DEF BoxInv, TypeOK
  <2>3. i \in unwritten'[b] => i \in unwritten[b] /\ (b # c \/ i # j)
    BY <2>1, <2>2
  <2>4. \A x \in Boxes : box'[x][i] = box[x][i] \/ (box'[x][i] = "plain" /\ x = c /\ i = j)
    BY <2>1
  <2> QED BY <1>1, <1>2, <2>2, <2>1, <2>3, <2>4 DEF HeldInv
<1>7. ASSUME NEW j \in Ids, NEW now \in Times, Revoke(j, now) PROVE HeldInv(b, i)'
  BY <1>1, <1>2, <1>7, RevokeIs DEF HeldInv
<1>8. ASSUME NEW r \in Readers, Read(r) PROVE HeldInv(b, i)'
  BY <1>1, <1>2, <1>8 DEF HeldInv, Read, boxVars
<1> QED BY <1>3, <1>4, <1>5, <1>6, <1>7, <1>8, StepKinds

\* The copies of a message stay in the same state.
LEMMA CopiesStep ==
  ASSUME MailInv, Next
  PROVE  CopiesAgree'
<1>0. TypeOK /\ BoxInv /\ CopiesAgree
  BY DEF MailInv
<1> DEFINE Same(i) == \A b, c \in Copies(i) :
                          \/ box[b][i] = "absent" \/ box[c][i] = "absent"
                          \/ box[b][i] = box[c][i]
<1>1. \A i \in Ids : msg[i] # None => Same(i)
  BY <1>0 DEF CopiesAgree, Copies, Here
<1>2. SUFFICES ASSUME NEW i \in Ids, msg'[i] # None
               PROVE  Same(i)'
  BY DEF CopiesAgree, Copies, Here
<1>3. msg[i] # None => /\ msg'[i] = msg[i] /\ Copies(i)' = Copies(i) /\ Copies(i) \subseteq Boxes
                       /\ Same(i)
  BY <1>0, <1>1, MessagesStay, CopiesTyped
<1>4. CASE box' = box /\ msg' = msg
  BY <1>2, <1>3, <1>4
<1>5. CASE Trims
  <2>1. /\ \A c \in Boxes : box'[c][i] = box[c][i] \/ box'[c][i] = "absent"
        /\ msg' = msg
    BY <1>5 DEF Trims, sendVars
  <2> QED BY <1>2, <1>3, <2>1
<1>6. ASSUME NEW w \in Routes, NEW c \in ClientIds, NEW j \in Ids, Accept(w[1], w[2], c, j)
      PROVE  Same(i)'
  <2>1. /\ i # j => msg'[i] = msg[i]
        /\ msg'[j].from = w[1] /\ msg'[j].to = w[2] /\ box' = box
        /\ \A x \in Boxes : box[x][j] = "absent"
    <3>1. Accepted(w[1], w[2], c, j)
      BY <1>6, AcceptIs
    <3> QED BY <3>1 DEF Accepted
  <2>2. BoxesOf(w[1], w[2]) \subseteq Boxes
    BY ConstantsAssumption DEF BoxesOf, Boxes
  <2>3. Copies(j)' = BoxesOf(w[1], w[2])
    BY <2>1 DEF Copies, BoxesOf
  <2> QED BY <1>2, <1>3, <2>1, <2>2, <2>3
<1>7. ASSUME NEW c \in Boxes, NEW j \in Ids, Write(c, j) PROVE Same(i)'
  <2>1. /\ j \in unwritten[c] /\ box'[c][j] = "plain" /\ msg' = msg
        /\ \A x \in Boxes, y \in Ids : x # c \/ y # j => box'[x][y] = box[x][y]
    BY <1>7, WriteIs DEF sendVars
  <2>2. \A x \in Copies(j) : box[x][j] # "revoked"
    BY <1>0, <2>1 DEF BoxInv, HeldInv
  <2>3. \A x \in Boxes : box[x][i] \in {"absent", "plain", "revoked"}
    BY <1>0 DEF TypeOK
  <2>4. CASE i = j
    <3>1. \A x \in Copies(i) : box'[x][i] = "plain" \/ box'[x][i] = "absent"
      BY <1>2, <1>3, <2>1, <2>2, <2>3, <2>4
    <3> QED BY <1>2, <1>3, <2>1, <3>1
  <2>5. CASE i # j
    BY <1>2, <1>3, <2>1, <2>5
  <2> QED BY <2>4, <2>5
<1>8. ASSUME NEW j \in Ids, NEW now \in Times, Revoke(j, now) PROVE Same(i)'
  BY <1>2, <1>3, <1>8, RevokeIs DEF sendVars
<1>9. ASSUME \/ Quiet \/ \E r \in Readers : Read(r)
      PROVE  box' = box /\ msg' = msg
  BY <1>9 DEF Quiet, Read, boxVars, sendVars
<1> QED BY <1>4, <1>5, <1>6, <1>7, <1>8, <1>9, StepKinds

\* A key that is set or has lapsed stays so, and a second message with the same
\* key needs the key to have lapsed.
LEMMA KeyStep ==
  ASSUME MailInv, Next
  PROVE  KeyInv' /\ AcceptedOnce'
<1>0. TypeOK /\ KeyInv /\ AcceptedOnce
  BY DEF MailInv
<1>1. ASSUME msg' = msg, dedup \cup lapsed \subseteq dedup' \cup lapsed', lapsed \subseteq lapsed'
      PROVE  KeyInv' /\ AcceptedOnce'
  BY <1>0, <1>1 DEF KeyInv, AcceptedOnce
<1>2. ASSUME NEW w \in Routes, NEW c \in ClientIds, NEW i \in Ids, Accept(w[1], w[2], c, i)
      PROVE  KeyInv' /\ AcceptedOnce'
  <2>1. /\ msg'[i].from = w[1] /\ msg'[i].client = c
        /\ \A j \in Ids : j # i => msg'[j] = msg[j]
        /\ lapsed' = lapsed /\ <<w[1], c>> \notin dedup /\ dedup' = dedup \cup {<<w[1], c>>}
    <3>1. Accepted(w[1], w[2], c, i)
      BY <1>2, AcceptIs
    <3> QED BY <3>1 DEF Accepted
  <2>2. KeyInv'
    BY <1>0, <2>1 DEF KeyInv
  <2>3. \A j \in Ids : j # i /\ msg'[j] # None => \/ msg'[j].from # w[1] \/ msg'[j].client # c
                                                  \/ <<w[1], c>> \in lapsed'
    BY <1>0, <2>1 DEF KeyInv
  <2>4. AcceptedOnce'
    BY <1>0, <2>1, <2>3 DEF AcceptedOnce
  <2> QED BY <2>2, <2>4
<1>3. ASSUME \/ Quiet \/ Trims \/ \E b \in Boxes, i \in Ids : Write(b, i)
             \/ \E i \in Ids, now \in Times : Revoke(i, now)
             \/ \E r \in Readers : Read(r)
      PROVE  /\ msg' = msg /\ dedup \cup lapsed \subseteq dedup' \cup lapsed'
             /\ lapsed \subseteq lapsed'
  BY <1>3 DEF Quiet, Trims, Write, Revoke, Rewritten, Read, sendVars
<1> QED BY <1>1, <1>2, <1>3, StepKinds

(***************************************************************************)
(* The readers                                                             *)
(***************************************************************************)

\* The reader's invariant, message by message.
ReceivedAt(r, i) == i \in got[r] => msg[i] # None /\ ~ Before(cursor[r], Position(i))

\* What the cursor has passed was received or came late.
CompleteAt(r, b, i) ==
    box[b][i] # "absent" /\ ~ Before(cursor[r], Position(i)) /\ Readable(b, i) =>
        i \in got[r] \cup missed[r]

\* The step leaves what r has read alone, and what appears in its box behind its
\* cursor counts as missed.
Elsewhere(r, b) ==
    /\ cursor'[r] = cursor[r] /\ got'[r] = got[r] /\ repeated'[r] = repeated[r]
    /\ missed[r] \subseteq missed'[r]
    /\ \A i \in Ids : \/ box'[b][i] = box[b][i]
                      \/ box'[b][i] = "absent"
                      \/ box[b][i] # "absent" /\ box'[b][i] = "revoked"
                      \/ msg[i] # None /\ Before(cursor[r], Position(i))
                      \/ i \in missed'[r]

\* Every step but a read of r is elsewhere.
LEMMA ElsewhereStep ==
  ASSUME MailInv, Next, NEW r \in Readers, NEW b \in Boxes, b = r[2], ~ Read(r)
  PROVE  Elsewhere(r, b)
<1>0. TypeOK
  BY DEF MailInv
<1>1. CASE Quiet
  BY <1>1 DEF Quiet, Elsewhere, readerVars
<1>2. CASE Trims
  BY <1>2 DEF Trims, Elsewhere, readerVars
<1>3. ASSUME NEW w \in Routes, NEW c \in ClientIds, NEW j \in Ids, Accept(w[1], w[2], c, j)
      PROVE  Elsewhere(r, b)
  BY <1>3 DEF Accept, Elsewhere, readerVars
<1>4. ASSUME NEW x \in Boxes, NEW j \in Ids, Write(x, j) PROVE Elsewhere(r, b)
  <2>1. /\ \A i \in Ids : b # x \/ i # j => box'[b][i] = box[b][i]
        /\ UNCHANGED <<cursor, got, repeated>> /\ j \in unwritten[x]
    BY <1>4, WriteIs
  <2>2. missed'[r] = IF r[2] = x /\ ~ Before(cursor[r], Position(j)) THEN missed[r] \cup {j}
                     ELSE missed[r]
    BY <1>4 DEF Write
  <2>3. msg[j] # None
    BY <2>1 DEF MailInv, BoxInv, HeldInv
  <2> QED BY <2>1, <2>2, <2>3 DEF Elsewhere
<1>5. ASSUME NEW j \in Ids, NEW now \in Times, Revoke(j, now) PROVE Elsewhere(r, b)
  <2>1. /\ \A c \in Copies(j) : box[c][j] # "absent" /\ box'[c][j] = "revoked"
        /\ \A i \in Ids : i # j \/ b \notin Copies(j) => box'[b][i] = box[b][i]
        /\ UNCHANGED readerVars
    BY <1>5, RevokeIs
  <2> QED BY <2>1 DEF Elsewhere, readerVars
<1>6. ASSUME NEW q \in Readers, Read(q) PROVE Elsewhere(r, b)
  <2>1. q # r
    BY <1>6
  <2>2. /\ cursor'[r] = cursor[r] /\ got'[r] = got[r] /\ repeated'[r] = repeated[r]
        /\ UNCHANGED <<box, missed>>
    BY <1>0, <1>6, <2>1 DEF Read, TypeOK, boxVars
  <2> QED BY <2>2 DEF Elsewhere
<1> QED BY <1>1, <1>2, <1>3, <1>4, <1>5, <1>6, StepKinds

\* Elsewhere, the reader's invariant stands.
LEMMA ReaderElsewhere ==
  ASSUME MailInv, Next, NEW r \in Readers, NEW b \in Boxes, b = r[2], Elsewhere(r, b),
         NEW i \in Ids, ReceivedAt(r, i), CompleteAt(r, b, i)
  PROVE  ReceivedAt(r, i)' /\ CompleteAt(r, b, i)'
<1>0. msg[i] # None => msg'[i] = msg[i] /\ Position(i)' = Position(i)
  BY MessagesStay
<1>1. HeldInv(b, i)
  BY DEF MailInv, BoxInv
<1>2. /\ cursor'[r] = cursor[r] /\ got'[r] = got[r] /\ missed[r] \subseteq missed'[r]
      /\ \/ box'[b][i] = box[b][i]
         \/ box'[b][i] = "absent"
         \/ box[b][i] # "absent" /\ box'[b][i] = "revoked"
         \/ msg[i] # None /\ Before(cursor[r], Position(i))
         \/ i \in missed'[r]
  BY DEF Elsewhere
<1>3. ReceivedAt(r, i)'
  BY <1>0, <1>2 DEF ReceivedAt
<1>4. CompleteAt(r, b, i)'
  <2>1. SUFFICES ASSUME box'[b][i] # "absent", ~ Before(cursor[r], Position(i))', Readable(b, i)'
                 PROVE  i \in got[r] \cup missed'[r]
    BY <1>2 DEF CompleteAt
  <2>2. CASE box'[b][i] = box[b][i]
    BY <1>0, <1>1, <1>2, <2>1, <2>2 DEF CompleteAt, HeldInv, Readable
  <2>3. CASE box[b][i] # "absent" /\ box'[b][i] = "revoked"
    BY <1>0, <1>1, <1>2, <2>1, <2>3 DEF CompleteAt, HeldInv, Readable
  <2>4. CASE msg[i] # None /\ Before(cursor[r], Position(i))
    BY <1>0, <1>2, <2>1, <2>4
  <2> QED BY <1>2, <2>1, <2>2, <2>3, <2>4
<1> QED BY <1>3, <1>4

\* A read moves the cursor over exactly what it returns: nothing of the page was
\* received before, and nothing readable that the cursor passes is left out.
LEMMA ReaderReads ==
  ASSUME MailInv, NEW r \in Readers, Read(r), NEW b \in Boxes, b = r[2],
         \A i \in Ids : ReceivedAt(r, i) /\ CompleteAt(r, b, i), ~ repeated[r]
  PROVE  /\ CursorInv(r)' /\ ~ repeated'[r]
         /\ \A i \in Ids : ReceivedAt(r, i)' /\ CompleteAt(r, b, i)'
<1>0. TypeOK
  BY DEF MailInv
<1>1. PICK x \in Boxes, P \in SUBSET Ids, l \in Ids :
           /\ x = r[2] /\ Prefix(x, cursor[r], P, l)
           /\ got' = [got EXCEPT ![r] = got[r] \cup P]
           /\ repeated' = [repeated EXCEPT ![r] = repeated[r] \/ P \cap got[r] # {}]
           /\ cursor' = [cursor EXCEPT ![r] = Position(l)]
           /\ UNCHANGED <<clock, sendVars, boxVars, missed, faults>>
  BY ReadIs
<1>2. /\ got'[r] = got[r] \cup P /\ repeated'[r] = (repeated[r] \/ P \cap got[r] # {})
      /\ cursor'[r] = Position(l)
      /\ msg' = msg /\ box' = box /\ missed' = missed
  BY <1>0, <1>1 DEF TypeOK, sendVars, boxVars
<1>3. /\ l \in P /\ \A i \in P : msg[i] # None /\ Before(cursor[r], Position(i))
      /\ \A i \in P : box[b][i] # "absent" /\ ~ Before(Position(l), Position(i))
      /\ \A i \in Ids : box[b][i] # "absent" /\ Readable(b, i) /\ Before(cursor[r], Position(i))
                            => Before(Position(l), Position(i)) \/ i \in P
  BY <1>1 DEF Prefix, Here
<1>4. cursor[r] \in Positions /\ \A i \in Ids : msg[i] # None => Position(i) \in Positions
  BY <1>0, PositionTyped DEF TypeOK
<1>5. msg[l] # None /\ Before(cursor[r], Position(l)) /\ Position(l) \in Positions
  BY <1>3, <1>4
<1>6. CursorInv(r)'
  <2>1. Position(l)[2] = l /\ l # 0
    BY <1>0, <1>5, PositionTyped
  <2> QED BY <1>2, <2>1 DEF CursorInv
<1>7. P \cap got[r] = {}
  BY <1>3 DEF ReceivedAt
<1>8. ~ repeated'[r]
  BY <1>2, <1>7
<1>9. ASSUME NEW i \in Ids PROVE ReceivedAt(r, i)' /\ CompleteAt(r, b, i)'
  <2>1. Position(i)' = Position(i) /\ (Readable(b, i)' <=> Readable(b, i))
    BY <1>2 DEF Position, Time, Readable
  <2>2. box[b][i] # "absent" => msg[i] # None
    BY DEF MailInv, BoxInv, HeldInv
  <2>3. ASSUME i \in got[r] PROVE msg[i] # None /\ ~ Before(Position(l), Position(i))
    <3>1. msg[i] # None /\ ~ Before(cursor[r], Position(i))
      BY <2>3 DEF ReceivedAt
    <3> QED BY <1>4, <1>5, <3>1, BeforeOrder
  <2>4. ReceivedAt(r, i)'
    BY <1>2, <1>3, <2>1, <2>3 DEF ReceivedAt
  <2>5. ASSUME box[b][i] # "absent", ~ Before(Position(l), Position(i)), Readable(b, i)
        PROVE  i \in got[r] \cup P \cup missed[r]
    BY <1>3, <2>5 DEF CompleteAt
  <2>6. CompleteAt(r, b, i)'
    BY <1>2, <2>1, <2>5 DEF CompleteAt
  <2> QED BY <2>4, <2>6
<1> QED BY <1>6, <1>8, <1>9

\* Every step keeps what a reader relies on.
LEMMA ReaderStep ==
  ASSUME MailInv, Next, NEW r \in Readers
  PROVE  ReaderInv(r)'
<1>1. PICK b \in Boxes : b = r[2]
  BY ConstantsAssumption DEF Boxes
<1>2. TypeOK /\ ReaderInv(r)
  BY DEF MailInv
<1>3. got[r] \subseteq Ids /\ got'[r] \subseteq Ids
  BY <1>2, TypeStep DEF TypeOK
<1>4. \A i \in Ids : ReceivedAt(r, i) /\ CompleteAt(r, b, i)
  BY <1>1, <1>2 DEF ReaderInv, ReceivedInv, CompleteInv, ReceivedAt, CompleteAt, Here
<1>5. CursorInv(r) /\ ~ repeated[r]
  BY <1>2 DEF ReaderInv, ReceivedInv
<1>6. /\ CursorInv(r)' /\ ~ repeated'[r]
      /\ \A i \in Ids : ReceivedAt(r, i)' /\ CompleteAt(r, b, i)'
  <2>1. CASE Read(r)
    BY <1>1, <1>4, <1>5, <2>1, ReaderReads
  <2>2. CASE ~ Read(r)
    <3>1. Elsewhere(r, b)
      BY <1>1, <2>2, ElsewhereStep
    <3>2. CursorInv(r)' /\ ~ repeated'[r]
      BY <1>5, <3>1 DEF Elsewhere, CursorInv
    <3>3. ASSUME NEW i \in Ids PROVE ReceivedAt(r, i)' /\ CompleteAt(r, b, i)'
      BY <1>1, <1>4, <3>1, ReaderElsewhere
    <3> QED BY <3>2, <3>3
  <2> QED BY <2>1, <2>2
<1>7. ReceivedInv(r)'
  BY <1>3, <1>6 DEF ReceivedInv, ReceivedAt
<1>8. CompleteInv(r)'
  BY <1>1, <1>6 DEF CompleteInv, CompleteAt, Here
<1> QED BY <1>6, <1>7, <1>8 DEF ReaderInv

(***************************************************************************)
(* The theorems                                                            *)
(***************************************************************************)

\* The invariant holds initially: nothing is accepted, nothing has been read.
LEMMA InitHolds ==
  ASSUME Init
  PROVE  MailInv
<1>1. TypeOK
  BY MinTimes, ConstantsAssumption DEF Init, TypeOK, Positions
<1>2. BoxInv /\ CopiesAgree /\ KeyInv /\ AcceptedOnce
  BY DEF Init, BoxInv, HeldInv, CopiesAgree, KeyInv, AcceptedOnce
<1>3. ASSUME NEW r \in Readers PROVE ReaderInv(r)
  <2>1. PICK b \in Boxes : b = r[2]
    BY ConstantsAssumption DEF Boxes
  <2>2. Here(b) = {}
    BY DEF Init, Here
  <2> QED BY <2>1, <2>2 DEF Init, ReaderInv, CursorInv, ReceivedInv, CompleteInv
<1> QED BY <1>1, <1>2, <1>3 DEF MailInv

\* Every step preserves the invariant.
LEMMA StepHolds ==
  ASSUME MailInv, [Next]_vars
  PROVE  MailInv'
<1>1. CASE Next
  BY <1>1, TypeStep, BoxStep, CopiesStep, KeyStep, ReaderStep DEF MailInv
<1>2. CASE UNCHANGED vars
  BY <1>2 DEF vars, MailInv, TypeOK, BoxInv, HeldInv, Copies, BoxesOf, CopiesAgree, KeyInv,
     AcceptedOnce, ReaderInv, CursorInv, ReceivedInv, CompleteInv, Here, Readable, Position, Time
<1> QED BY <1>1, <1>2

\* The boxes are always consistent: MailInv holds in every reachable state.
THEOREM MailInvariant == Spec => []MailInv
<1>1. Init => MailInv
  BY InitHolds
<1>2. MailInv /\ [Next]_vars => MailInv'
  BY StepHolds
<1> QED BY <1>1, <1>2, PTL DEF Spec

\* The two copies of a private message are never in different states, and a retry
\* while the deduplication key lives is no second message.
THEOREM BoxesStayConsistent == Spec => []BoxesAgree
<1>1. MailInv => BoxesAgree
  BY DEF MailInv, BoxesAgree
<1> QED BY <1>1, MailInvariant, PTL

\* Incremental synchronisation never returns a message twice, for any page size,
\* any order of message IDs and timestamps and any trimming and revocation.
THEOREM PagesNeverRepeat == Spec => []NoRepeat
<1>1. MailInv => NoRepeat
  BY DEF MailInv, ReaderInv, ReceivedInv, NoRepeat
<1> QED BY <1>1, MailInvariant, PTL

\* Nor does it leave out a readable message that the cursor has passed, unless
\* the message was written behind the cursor.
THEOREM PagesNeverOmit == Spec => []NoOmission
<1>1. MailInv => NoOmission
  BY DEF MailInv, ReaderInv, CompleteInv, NoOmission
<1> QED BY <1>1, MailInvariant, PTL

\* A reader's position never moves back.
Advances == \A r \in Readers : ~ Before(cursor'[r], cursor[r])

\* A reader's position never moves back, whatever Redis' clock does.
THEOREM CursorsAdvance == Spec => [][Advances]_vars
<1>1. ASSUME MailInv, Next PROVE Advances
  <2> SUFFICES ASSUME NEW r \in Readers PROVE ~ Before(cursor'[r], cursor[r])
    BY DEF Advances
  <2>1. TypeOK
    BY <1>1 DEF MailInv
  <2>2. cursor[r] \in Positions
    BY <2>1 DEF TypeOK
  <2>3. CASE Read(r)
    <3>1. PICK b \in Boxes, P \in SUBSET Ids, l \in Ids :
              /\ Prefix(b, cursor[r], P, l) /\ cursor' = [cursor EXCEPT ![r] = Position(l)]
      BY <1>1, <2>3, ReadIs
    <3>2. msg[l] # None /\ Before(cursor[r], Position(l))
      BY <3>1 DEF Prefix
    <3>3. Position(l) \in Positions
      BY <2>1, <3>2, PositionTyped
    <3>4. cursor'[r] = Position(l)
      BY <2>1, <3>1 DEF TypeOK
    <3> QED BY <2>2, <3>2, <3>3, <3>4, BeforeOrder
  <2>4. CASE ~ Read(r)
    <3>1. PICK b \in Boxes : b = r[2]
      BY ConstantsAssumption DEF Boxes
    <3>2. cursor'[r] = cursor[r]
      BY <1>1, <2>4, <3>1, ElsewhereStep DEF Elsewhere
    <3> QED BY <2>2, <3>2, BeforeOrder
  <2> QED BY <2>3, <2>4
<1>2. MailInv /\ [Next]_vars => [Advances]_vars
  BY <1>1
<1> QED BY <1>2, MailInvariant, PTL DEF Spec

=============================================================================
