-------------------------- MODULE MessageIdProofs --------------------------
(***************************************************************************)
(* Machine-checked proofs about MessageId, for any number of instances,    *)
(* goroutines and IDs and any segment sizes.                               *)
(***************************************************************************)
EXTENDS MessageId, TLAPS

\* The clipping in MySQLStore.Reserve: a reservation that starts inside the ID
\* space covers at least one ID and stays inside it.
LEMMA LastReservedRange ==
    ASSUME NEW c \in Callers, NEW f \in FirstID..MaxID
    PROVE  /\ LastReserved(c, f) \in f..MaxID
           /\ LastReserved(c, f) - f + 1 <= SegmentSize[InstanceOf[c]]
  BY ConstantsAssumption DEF LastReserved, Lesser

\* The mark behind a segment of the ID space, last + 1.
LEMMA MarkRange ==
    ASSUME NEW f \in FirstID..MaxID, NEW l \in f..MaxID
    PROVE  l + 1 \in FirstID..(MaxID + 1) /\ l + 1 \in Nat /\ f < l + 1
  BY ConstantsAssumption

\* The initial state, before any instance is started, satisfies the invariant.
LEMMA InitInv == Init => IInv
  BY ConstantsAssumption
     DEF Init, IInv, TypeOK, CallerState, Held, MutexHeld, RowHeld, BelowMark,
         Disjoint, Above, Local, Reserved, NoDuplicateIds, InstanceOrder

\* The deferred Unlock of a call keeps the types of what it touches.
LEMMA UnlockTypes ==
    ASSUME TypeOK, NEW c \in Callers, Unlock(c)
    PROVE  /\ mu' \in [Instances -> Callers \cup {None}]
           /\ pc' \in [Callers -> CallerState]
           /\ first' \in [Callers -> Nat]
           /\ id' \in [Callers -> Nat]
  BY ConstantsAssumption DEF TypeOK, CallerState, Unlock

\* Every step keeps the variables in their types.
LEMMA TypeStep == IInv /\ [Next]_vars => TypeOK'
  <1> SUFFICES ASSUME IInv, [Next]_vars PROVE TypeOK'
    OBVIOUS
  <1>0. TypeOK /\ Held
    BY DEF IInv
  <1> USE <1>0, ConstantsAssumption DEF TypeOK, dbVars, genVars
  <1>1. CASE \E c \in Callers : Lock(c)
    <2> PICK c \in Callers : Lock(c)
      BY <1>1
    <2>1. mu' \in [Instances -> Callers \cup {None}]
      BY DEF Lock
    <2>2. pc' \in [Callers -> CallerState]
      BY DEF Lock, CallerState
    <2> QED
      BY <2>1, <2>2 DEF Lock
  <1>2. CASE \E c \in Callers : Fail(c)
    <2> PICK c \in Callers : Fail(c)
      BY <1>2
    <2>1. Unlock(c)
      BY DEF Fail
    <2>2. rowLock' \in Callers \cup {None}
      BY DEF Fail
    <2> QED
      BY <2>1, <2>2, UnlockTypes DEF Fail
  <1>3. CASE \E c \in Callers : LockRow(c)
    <2> PICK c \in Callers : LockRow(c)
      BY <1>3
    <2>1. first' \in [Callers -> Nat]
      BY DEF LockRow
    <2>2. pc' \in [Callers -> CallerState]
      BY DEF LockRow, CallerState
    <2> QED
      BY <2>1, <2>2 DEF LockRow
  <1>4. CASE \E c \in Callers : Exhausted(c)
    <2> PICK c \in Callers : Exhausted(c)
      BY <1>4
    <2>1. Unlock(c)
      BY DEF Exhausted
    <2> QED
      BY <2>1, UnlockTypes DEF Exhausted
  <1>5. CASE \E c \in Callers : Reserve(c)
    <2> PICK c \in Callers : Reserve(c)
      BY <1>5
    <2>1. first[c] \in FirstID..MaxID
      BY DEF Reserve, Held, RowHeld
    <2>2. LastReserved(c, first[c]) \in first[c]..MaxID
      BY <2>1, LastReservedRange
    <2>3. nextId' = LastReserved(c, first[c]) + 1
      BY DEF Reserve, NewMark
    <2>4. nextId' \in FirstID..(MaxID + 1)
      BY <2>1, <2>2, <2>3, MarkRange
    <2>5. CASE Unlock(c)
      BY <2>4, <2>5, UnlockTypes DEF Reserve
    <2>6. CASE pc' = [pc EXCEPT ![c] = "reserved"] /\ UNCHANGED <<mu, first, id>>
      <3>1. pc' \in [Callers -> CallerState]
        BY <2>6 DEF CallerState
      <3> QED
        BY <2>4, <2>6, <3>1 DEF Reserve
    <2> QED
      BY <2>5, <2>6 DEF Reserve
  <1>6. CASE \E c \in Callers : Install(c)
    <2> PICK c \in Callers : Install(c)
      BY <1>6
    <2>1. first[c] \in Nat /\ LastReserved(c, first[c]) \in Nat
      BY DEF Install, Held, RowHeld
    <2>2. pc' \in [Callers -> CallerState]
      BY DEF Install, CallerState
    <2>3. next' \in [Instances -> Nat] /\ last' \in [Instances -> Nat]
      BY <2>1 DEF Install
    <2> QED
      BY <2>2, <2>3 DEF Install
  <1>7. CASE \E c \in Callers : TakeId(c)
    <2> PICK c \in Callers : TakeId(c)
      BY <1>7
    <2>1. id' \in [Callers -> Nat]
      BY DEF TakeId
    <2>2. pc' \in [Callers -> CallerState]
      BY DEF TakeId, CallerState
    <2> QED
      BY <2>1, <2>2 DEF TakeId
  <1>8. CASE \E c \in Callers : ReturnId(c)
    <2> PICK c \in Callers : ReturnId(c)
      BY <1>8
    <2>1. issued' \in [Instances -> Seq(Nat)]
      BY DEF ReturnId
    <2>2. next' \in [Instances -> Nat]
      <3>0. \A n \in Nat : n + 1 \in Nat
        BY SMT
      <3>1. \A i \in Instances : next[i] \in Nat /\ next[i] + 1 \in Nat
        BY <3>0
      <3>2. next' = [next EXCEPT ![InstanceOf[c]] = @ + 1]
        BY DEF ReturnId
      <3> QED
        BY <3>1, <3>2
    <2>3. Unlock(c)
      BY DEF ReturnId
    <2> QED
      BY <2>1, <2>2, <2>3, UnlockTypes DEF ReturnId
  <1>9. CASE \E i \in Instances : Start(i)
    <2> PICK i \in Instances : Start(i)
      BY <1>9
    <2>1. up' \in [Instances -> BOOLEAN]
      BY DEF Start
    <2> QED
      BY <2>1 DEF Start
  <1>10. CASE \E i \in Instances : Crash(i)
    <2> PICK i \in Instances : Crash(i)
      BY <1>10
    <2>1. up' \in [Instances -> BOOLEAN] /\ mu' \in [Instances -> Callers \cup {None}]
      BY DEF Crash
    <2>2. next' \in [Instances -> Nat] /\ last' \in [Instances -> Nat]
      BY DEF Crash
    <2>3. pc' \in [Callers -> CallerState]
      BY DEF Crash, CallerState
    <2>4. first' \in [Callers -> Nat] /\ id' \in [Callers -> Nat]
      BY DEF Crash
    <2> QED
      BY <2>1, <2>2, <2>3, <2>4 DEF Crash
  <1>11. CASE UNCHANGED vars
    BY <1>11 DEF vars
  <1> QED
    BY <1>1, <1>2, <1>3, <1>4, <1>5, <1>6, <1>7, <1>8, <1>9, <1>10, <1>11
       DEF Next, CallerStep

(***************************************************************************)
(* What the three steps that move IDs do, in the form the proofs use.      *)
(***************************************************************************)

\* A committed reservation: the segment starts at the old durable mark and
\* ends just below the new one; the caller keeps it or gives up.
ReserveEffect(c) ==
    /\ pc[c] = "reserving"
    /\ first[c] = nextId /\ first[c] \in FirstID..MaxID
    /\ LastReserved(c, first[c]) \in first[c]..MaxID
    /\ nextId' = LastReserved(c, first[c]) + 1
    /\ UNCHANGED <<next, last, up, issued>>
    /\ rowLock = c
    /\ \A d \in Callers : d # c =>
           /\ pc[d] # "reserving"
           /\ pc'[d] = pc[d] /\ first'[d] = first[d] /\ id'[d] = id[d]
    /\ \/ pc'[c] = "reserved" /\ first'[c] = first[c] /\ UNCHANGED mu
       \/ pc'[c] = "idle" /\ mu' = [mu EXCEPT ![InstanceOf[c]] = None]

\* The installation of a committed segment.
InstallEffect(c) ==
    /\ pc[c] = "reserved" /\ pc' = [pc EXCEPT ![c] = "locked"]
    /\ NeedsSegment(InstanceOf[c])
    /\ first[c] \in FirstID..MaxID
    /\ LastReserved(c, first[c]) \in first[c]..(nextId - 1)
    /\ next'[InstanceOf[c]] = first[c]
    /\ last'[InstanceOf[c]] = LastReserved(c, first[c])
    /\ \A j \in Instances : j # InstanceOf[c] =>
           next'[j] = next[j] /\ last'[j] = last[j]
    /\ UNCHANGED <<nextId, rowLock, up, mu, first, id, issued>>

\* The return of an ID: it is the first of the instance's segment, and is
\* added at the end of what the instance has handed out.
ReturnEffect(c) ==
    LET i == InstanceOf[c]
        len == Len(issued[i])
    IN  /\ id[c] = next[i] /\ next[i] # 0 /\ next[i] <= last[i]
        /\ next'[i] = id[c] + 1
        /\ \A j \in Instances : j # i =>
               issued'[j] = issued[j] /\ next'[j] = next[j]
        /\ \A n \in DOMAIN issued'[i] :
               \/ n = len + 1 /\ issued'[i][n] = id[c]
               \/ n \in DOMAIN issued[i] /\ n <= len /\ issued'[i][n] = issued[i][n]
        /\ UNCHANGED <<nextId, rowLock, last, up>>
        /\ mu' = [mu EXCEPT ![i] = None]
        /\ pc[c] = "taking" /\ pc' = [pc EXCEPT ![c] = "idle"]
        /\ first' = [first EXCEPT ![c] = 0]
        /\ id' = [id EXCEPT ![c] = 0]

\* MySQLStore.Reserve has the effect above.
LEMMA ReserveFacts ==
    ASSUME TypeOK, Held, NEW c \in Callers, Reserve(c)
    PROVE  ReserveEffect(c)
  <1>1. first[c] = nextId /\ first[c] \in FirstID..MaxID
    BY ConstantsAssumption DEF Reserve, Held, RowHeld, TypeOK
  <1>2. LastReserved(c, first[c]) \in first[c]..MaxID
    BY <1>1, LastReservedRange
  <1>3. nextId' = LastReserved(c, first[c]) + 1
    BY DEF Reserve, NewMark
  <1>4. rowLock = c /\ \A d \in Callers : d # c => pc[d] # "reserving"
    BY DEF Reserve, Held, RowHeld
  <1> QED
    BY <1>1, <1>2, <1>3, <1>4 DEF ReserveEffect, Reserve, Unlock, TypeOK

\* The installation of a segment in Generator.Next has the effect above.
LEMMA InstallFacts ==
    ASSUME TypeOK, Held, NEW c \in Callers, Install(c)
    PROVE  InstallEffect(c)
  BY ConstantsAssumption DEF InstallEffect, Install, Held, RowHeld, TypeOK, dbVars

\* The last lines of Generator.Next have the effect above.
LEMMA ReturnFacts ==
    ASSUME TypeOK, Held, NEW c \in Callers, ReturnId(c)
    PROVE  ReturnEffect(c)
  <1> DEFINE i == InstanceOf[c]
  <1>1. i \in Instances /\ issued[i] \in Seq(Nat) /\ id[c] \in Nat /\ next[i] \in Nat
    BY ConstantsAssumption DEF TypeOK
  <1>2. issued' = [issued EXCEPT ![i] = Append(issued[i], id[c])]
    BY DEF ReturnId
  <1>3. issued'[i] = Append(issued[i], id[c])
    BY <1>1, <1>2 DEF TypeOK
  <1>4. \A n \in DOMAIN issued'[i] :
            \/ n = Len(issued[i]) + 1 /\ issued'[i][n] = id[c]
            \/ /\ n \in DOMAIN issued[i] /\ n <= Len(issued[i])
               /\ issued'[i][n] = issued[i][n]
    <2> HIDE DEF i
    <2> QED
      BY <1>1, <1>3
  <1>5. id[c] = next[i] /\ next[i] # 0 /\ next[i] <= last[i]
    BY <1>1 DEF ReturnId, Held, RowHeld, NeedsSegment, TypeOK
  <1>6. next' = [next EXCEPT ![i] = next[i] + 1]
    BY DEF ReturnId
  <1>7. \A j \in Instances : j # i => issued'[j] = issued[j] /\ next'[j] = next[j]
    BY <1>1, <1>2, <1>6 DEF TypeOK
  <1>8. next'[i] = id[c] + 1
    BY <1>1, <1>5, <1>6 DEF TypeOK
  <1> QED
    BY <1>4, <1>5, <1>7, <1>8 DEF ReturnEffect, ReturnId, Unlock, dbVars

\* A goroutine inside Next holds its instance's mutex.
LEMMA MutexStep == IInv /\ [Next]_vars => MutexHeld'
  <1> SUFFICES ASSUME IInv, [Next]_vars PROVE MutexHeld'
    OBVIOUS
  <1>0. TypeOK /\ Held
    BY DEF IInv
  <1> USE ConstantsAssumption
  <1>1. ASSUME NEW c \in Callers, Lock(c) PROVE MutexHeld'
    BY <1>0, <1>1 DEF IInv, Lock, TypeOK, CallerState,
          Held, MutexHeld, dbVars, genVars
  <1>2. ASSUME NEW c \in Callers, Fail(c) PROVE MutexHeld'
    BY <1>0, <1>2 DEF IInv, Fail, Unlock, TypeOK, CallerState,
          Held, MutexHeld, dbVars, genVars
  <1>3. ASSUME NEW c \in Callers, LockRow(c) PROVE MutexHeld'
    BY <1>0, <1>3 DEF IInv, LockRow, TypeOK, CallerState,
          Held, MutexHeld, dbVars, genVars
  <1>4. ASSUME NEW c \in Callers, Exhausted(c) PROVE MutexHeld'
    BY <1>0, <1>4 DEF IInv, Exhausted, Unlock, TypeOK, CallerState,
          Held, MutexHeld, dbVars, genVars
  <1>5. ASSUME NEW c \in Callers, Reserve(c) PROVE MutexHeld'
    <2>1. ReserveEffect(c)
      BY <1>0, <1>5, ReserveFacts
    <2> SUFFICES ASSUME NEW d \in Callers, pc'[d] # "idle"
                 PROVE  mu'[InstanceOf[d]] = d /\ up'[InstanceOf[d]]
      BY DEF MutexHeld
    <2>2. MutexHeld!(c) /\ MutexHeld!(d)
      BY <1>0 DEF Held, MutexHeld
    <2>3. pc[d] # "idle" /\ up' = up
      BY <2>1 DEF ReserveEffect
    <2>4. CASE mu' = mu
      BY <2>2, <2>3, <2>4
    <2>5. CASE pc'[c] = "idle" /\ mu' = [mu EXCEPT ![InstanceOf[c]] = None]
      <3>1. d # c /\ pc[c] # "idle"
        BY <2>1, <2>5 DEF ReserveEffect
      <3>2. InstanceOf[d] # InstanceOf[c]
        BY <2>2, <2>3, <3>1
      <3>3. mu'[InstanceOf[d]] = mu[InstanceOf[d]]
        BY <1>0, <2>5, <3>2 DEF TypeOK
      <3> QED
        BY <2>2, <2>3, <3>3
    <2> QED
      BY <2>1, <2>4, <2>5 DEF ReserveEffect
  <1>6. ASSUME NEW c \in Callers, Install(c) PROVE MutexHeld'
    <2>1. InstallEffect(c)
      BY <1>0, <1>6, InstallFacts
    <2> QED
      BY <1>0, <2>1 DEF IInv, InstallEffect, TypeOK, CallerState,
          Held, MutexHeld, dbVars, genVars
  <1>7. ASSUME NEW c \in Callers, TakeId(c) PROVE MutexHeld'
    BY <1>0, <1>7 DEF IInv, TakeId, TypeOK, CallerState,
          Held, MutexHeld, dbVars, genVars
  <1>8. ASSUME NEW c \in Callers, ReturnId(c) PROVE MutexHeld'
    <2>1. ReturnEffect(c)
      BY <1>0, <1>8, ReturnFacts
    <2> QED
      BY <1>0, <2>1 DEF IInv, ReturnEffect, TypeOK, CallerState,
          Held, MutexHeld, dbVars, genVars
  <1>9. ASSUME NEW i \in Instances, Start(i) PROVE MutexHeld'
    BY <1>0, <1>9 DEF IInv, Start, TypeOK, CallerState,
          Held, MutexHeld, dbVars, genVars
  <1>10. ASSUME NEW i \in Instances, Crash(i) PROVE MutexHeld'
    BY <1>0, <1>10 DEF IInv, Crash, TypeOK, CallerState,
          Held, MutexHeld, dbVars, genVars
  <1>11. CASE UNCHANGED vars
    BY <1>11 DEF IInv, vars, TypeOK, CallerState,
          Held, MutexHeld, dbVars, genVars
  <1> QED
    BY <1>1, <1>2, <1>3, <1>4, <1>5, <1>6, <1>7, <1>8, <1>9, <1>10, <1>11
       DEF Next, CallerStep

\* A reservation works on the current mark; the goroutine that holds the mutex
\* sees a segment no other goroutine changes.
LEMMA RowStep == IInv /\ [Next]_vars => RowHeld'
  <1> SUFFICES ASSUME IInv, [Next]_vars PROVE RowHeld'
    OBVIOUS
  <1>0. TypeOK /\ Held
    BY DEF IInv
  <1> USE ConstantsAssumption
  <1>1. ASSUME NEW c \in Callers, Lock(c) PROVE RowHeld'
    BY <1>0, <1>1 DEF IInv, Lock, TypeOK, CallerState,
          Held, MutexHeld, RowHeld, NeedsSegment, dbVars, genVars
  <1>2. ASSUME NEW c \in Callers, Fail(c) PROVE RowHeld'
    BY <1>0, <1>2 DEF IInv, Fail, Unlock, TypeOK, CallerState,
          Held, MutexHeld, RowHeld, NeedsSegment, dbVars, genVars
  <1>3. ASSUME NEW c \in Callers, LockRow(c) PROVE RowHeld'
    BY <1>0, <1>3 DEF IInv, LockRow, TypeOK, CallerState,
          Held, MutexHeld, RowHeld, NeedsSegment, dbVars, genVars
  <1>4. ASSUME NEW c \in Callers, Exhausted(c) PROVE RowHeld'
    BY <1>0, <1>4 DEF IInv, Exhausted, Unlock, TypeOK, CallerState,
          Held, MutexHeld, RowHeld, NeedsSegment, dbVars, genVars
  <1>5. ASSUME NEW c \in Callers, Reserve(c) PROVE RowHeld'
    <2>1. ReserveEffect(c)
      BY <1>0, <1>5, ReserveFacts
    <2> SUFFICES ASSUME NEW d \in Callers PROVE RowHeld!(d)'
      BY DEF RowHeld
    <2>2. InstanceOf[d] \in Instances /\ InstanceOf[c] \in Instances
      OBVIOUS
    <2>3. MutexHeld!(c) /\ MutexHeld!(d) /\ RowHeld!(d)
      BY <1>0 DEF Held, MutexHeld, RowHeld
    <2>4. CASE d = c
      <3>1. NeedsSegment(InstanceOf[c])' /\ nextId' \in Int
        BY <1>0, <2>1, <2>2, <2>3, <2>4 DEF ReserveEffect, NeedsSegment, TypeOK
      <3>2. CASE pc'[c] = "idle"
        BY <2>4, <3>2
      <3>3. CASE pc'[c] = "reserved" /\ first'[c] = first[c]
        <4>1. LastReserved(c, first'[c]) \in first'[c]..(nextId' - 1)
          BY <1>0, <2>1, <3>3 DEF ReserveEffect, TypeOK
        <4> QED
          BY <2>1, <2>4, <3>1, <3>3, <4>1 DEF ReserveEffect
      <3> QED
        BY <2>1, <3>2, <3>3 DEF ReserveEffect
    <2>5. CASE d # c /\ InstanceOf[d] = InstanceOf[c]
      <3>1. pc[d] = "idle" /\ pc'[d] = "idle"
        BY <1>0, <2>1, <2>2, <2>3, <2>5 DEF ReserveEffect, TypeOK
      <3> QED
        BY <3>1
    <2>6. CASE InstanceOf[d] # InstanceOf[c]
      <3>1. /\ pc'[d] = pc[d] /\ first'[d] = first[d] /\ id'[d] = id[d]
            /\ next'[InstanceOf[d]] = next[InstanceOf[d]]
            /\ last'[InstanceOf[d]] = last[InstanceOf[d]]
            /\ nextId <= nextId' /\ nextId' \in Int /\ nextId \in Int
            /\ pc[d] = "reserving" => nextId' = nextId /\ rowLock' = rowLock
        <4>1. d # c /\ pc[d] # "reserving"
          BY <2>1, <2>6 DEF ReserveEffect
        <4>2. nextId <= nextId' /\ nextId' \in Int /\ nextId \in Int
          <5>1. /\ first[c] \in FirstID..MaxID /\ first[c] = nextId
                /\ LastReserved(c, first[c]) \in first[c]..MaxID
                /\ nextId' = LastReserved(c, first[c]) + 1
            BY <2>1 DEF ReserveEffect
          <5> QED
            BY <5>1, MarkRange
        <4> QED
          BY <2>1, <4>1, <4>2 DEF ReserveEffect
      <3>2. LastReserved(d, first'[d]) = LastReserved(d, first[d])
        BY <3>1
      <3>3. NeedsSegment(InstanceOf[d])' = NeedsSegment(InstanceOf[d])
        BY <3>1 DEF NeedsSegment
      <3>4. pc'[d] = "reserving" =>
                /\ rowLock' = d /\ first'[d] = nextId' /\ nextId' <= MaxID
                /\ NeedsSegment(InstanceOf[d])'
        BY <2>3, <3>1, <3>3
      <3>5. pc'[d] = "reserved" =>
                /\ first'[d] \in FirstID..MaxID
                /\ LastReserved(d, first'[d]) \in first'[d]..(nextId' - 1)
                /\ NeedsSegment(InstanceOf[d])'
        BY <1>0, <2>3, <3>1, <3>2, <3>3 DEF TypeOK
      <3>6. pc'[d] = "taking" =>
                id'[d] = next'[InstanceOf[d]] /\ ~NeedsSegment(InstanceOf[d])'
        BY <2>3, <3>1, <3>3
      <3> QED
        BY <3>4, <3>5, <3>6
    <2> QED
      BY <2>4, <2>5, <2>6
  <1>6. ASSUME NEW c \in Callers, Install(c) PROVE RowHeld'
    <2>1. InstallEffect(c)
      BY <1>0, <1>6, InstallFacts
    <2> SUFFICES ASSUME NEW d \in Callers PROVE RowHeld!(d)'
      BY DEF RowHeld
    <2>2. InstanceOf[d] \in Instances /\ InstanceOf[c] \in Instances
      OBVIOUS
    <2>3. MutexHeld!(c) /\ MutexHeld!(d) /\ RowHeld!(d)
      BY <1>0 DEF Held, MutexHeld, RowHeld
    <2>4. CASE d = c
      BY <1>0, <2>1, <2>2, <2>3, <2>4 DEF InstallEffect, TypeOK
    <2>5. CASE d # c /\ InstanceOf[d] = InstanceOf[c]
      <3>1. pc[d] = "idle" /\ pc'[d] = "idle"
        BY <1>0, <2>1, <2>2, <2>3, <2>5 DEF InstallEffect, TypeOK
      <3> QED
        BY <3>1
    <2>6. CASE InstanceOf[d] # InstanceOf[c]
      <3>1. /\ pc'[d] = pc[d] /\ first'[d] = first[d] /\ id'[d] = id[d]
            /\ next'[InstanceOf[d]] = next[InstanceOf[d]]
            /\ last'[InstanceOf[d]] = last[InstanceOf[d]]
            /\ nextId <= nextId' /\ nextId' \in Int /\ nextId \in Int
            /\ pc[d] = "reserving" => nextId' = nextId /\ rowLock' = rowLock
        BY <1>0, <2>1, <2>2, <2>3, <2>6 DEF InstallEffect, TypeOK
      <3>2. LastReserved(d, first'[d]) = LastReserved(d, first[d])
        BY <3>1
      <3>3. NeedsSegment(InstanceOf[d])' = NeedsSegment(InstanceOf[d])
        BY <3>1 DEF NeedsSegment
      <3>4. pc'[d] = "reserving" =>
                /\ rowLock' = d /\ first'[d] = nextId' /\ nextId' <= MaxID
                /\ NeedsSegment(InstanceOf[d])'
        BY <2>3, <3>1, <3>3
      <3>5. pc'[d] = "reserved" =>
                /\ first'[d] \in FirstID..MaxID
                /\ LastReserved(d, first'[d]) \in first'[d]..(nextId' - 1)
                /\ NeedsSegment(InstanceOf[d])'
        BY <1>0, <2>3, <3>1, <3>2, <3>3 DEF TypeOK
      <3>6. pc'[d] = "taking" =>
                id'[d] = next'[InstanceOf[d]] /\ ~NeedsSegment(InstanceOf[d])'
        BY <2>3, <3>1, <3>3
      <3> QED
        BY <3>4, <3>5, <3>6
    <2> QED
      BY <2>4, <2>5, <2>6
  <1>7. ASSUME NEW c \in Callers, TakeId(c) PROVE RowHeld'
    BY <1>0, <1>7 DEF IInv, TakeId, TypeOK, CallerState,
          Held, MutexHeld, RowHeld, NeedsSegment, dbVars, genVars
  <1>8. ASSUME NEW c \in Callers, ReturnId(c) PROVE RowHeld'
    <2>1. ReturnEffect(c)
      BY <1>0, <1>8, ReturnFacts
    <2> SUFFICES ASSUME NEW d \in Callers PROVE RowHeld!(d)'
      BY DEF RowHeld
    <2>2. InstanceOf[d] \in Instances /\ InstanceOf[c] \in Instances
      OBVIOUS
    <2>3. MutexHeld!(c) /\ MutexHeld!(d) /\ RowHeld!(d)
      BY <1>0 DEF Held, MutexHeld, RowHeld
    <2>4. CASE d = c
      BY <1>0, <2>1, <2>2, <2>3, <2>4 DEF ReturnEffect, TypeOK
    <2>5. CASE d # c /\ InstanceOf[d] = InstanceOf[c]
      <3>1. pc[d] = "idle" /\ pc'[d] = "idle"
        BY <1>0, <2>1, <2>2, <2>3, <2>5 DEF ReturnEffect, TypeOK
      <3> QED
        BY <3>1
    <2>6. CASE InstanceOf[d] # InstanceOf[c]
      <3>1. /\ pc'[d] = pc[d] /\ first'[d] = first[d] /\ id'[d] = id[d]
            /\ next'[InstanceOf[d]] = next[InstanceOf[d]]
            /\ last'[InstanceOf[d]] = last[InstanceOf[d]]
            /\ nextId <= nextId' /\ nextId' \in Int /\ nextId \in Int
            /\ pc[d] = "reserving" => nextId' = nextId /\ rowLock' = rowLock
        BY <1>0, <2>1, <2>2, <2>3, <2>6 DEF ReturnEffect, TypeOK
      <3>2. LastReserved(d, first'[d]) = LastReserved(d, first[d])
        BY <3>1
      <3>3. NeedsSegment(InstanceOf[d])' = NeedsSegment(InstanceOf[d])
        BY <3>1 DEF NeedsSegment
      <3>4. pc'[d] = "reserving" =>
                /\ rowLock' = d /\ first'[d] = nextId' /\ nextId' <= MaxID
                /\ NeedsSegment(InstanceOf[d])'
        BY <2>3, <3>1, <3>3
      <3>5. pc'[d] = "reserved" =>
                /\ first'[d] \in FirstID..MaxID
                /\ LastReserved(d, first'[d]) \in first'[d]..(nextId' - 1)
                /\ NeedsSegment(InstanceOf[d])'
        BY <1>0, <2>3, <3>1, <3>2, <3>3 DEF TypeOK
      <3>6. pc'[d] = "taking" =>
                id'[d] = next'[InstanceOf[d]] /\ ~NeedsSegment(InstanceOf[d])'
        BY <2>3, <3>1, <3>3
      <3> QED
        BY <3>4, <3>5, <3>6
    <2> QED
      BY <2>4, <2>5, <2>6
  <1>9. ASSUME NEW i \in Instances, Start(i) PROVE RowHeld'
    BY <1>0, <1>9 DEF IInv, Start, TypeOK, CallerState,
          Held, MutexHeld, RowHeld, NeedsSegment, dbVars, genVars
  <1>10. ASSUME NEW i \in Instances, Crash(i) PROVE RowHeld'
    BY <1>0, <1>10 DEF IInv, Crash, TypeOK, CallerState,
          Held, MutexHeld, RowHeld, NeedsSegment, dbVars, genVars
  <1>11. CASE UNCHANGED vars
    BY <1>11 DEF IInv, vars, TypeOK, CallerState,
          Held, MutexHeld, RowHeld, NeedsSegment, dbVars, genVars
  <1> QED
    BY <1>1, <1>2, <1>3, <1>4, <1>5, <1>6, <1>7, <1>8, <1>9, <1>10, <1>11
       DEF Next, CallerStep

\* Nothing in memory or handed out ever reaches the durable mark.
LEMMA BelowStep == IInv /\ [Next]_vars => BelowMark'
  <1> SUFFICES ASSUME IInv, [Next]_vars PROVE BelowMark'
    OBVIOUS
  <1>0. TypeOK /\ Held
    BY DEF IInv
  <1> USE ConstantsAssumption
  <1>1. ASSUME NEW c \in Callers, Lock(c) PROVE BelowMark'
    BY <1>0, <1>1 DEF IInv, Lock, TypeOK, CallerState,
          BelowMark, dbVars, genVars
  <1>2. ASSUME NEW c \in Callers, Fail(c) PROVE BelowMark'
    BY <1>0, <1>2 DEF IInv, Fail, Unlock, TypeOK, CallerState,
          BelowMark, dbVars, genVars
  <1>3. ASSUME NEW c \in Callers, LockRow(c) PROVE BelowMark'
    BY <1>0, <1>3 DEF IInv, LockRow, TypeOK, CallerState,
          BelowMark, dbVars, genVars
  <1>4. ASSUME NEW c \in Callers, Exhausted(c) PROVE BelowMark'
    BY <1>0, <1>4 DEF IInv, Exhausted, Unlock, TypeOK, CallerState,
          BelowMark, dbVars, genVars
  <1>5. ASSUME NEW c \in Callers, Reserve(c) PROVE BelowMark'
    <2>1. ReserveEffect(c)
      BY <1>0, <1>5, ReserveFacts
    <2>2. nextId \in Nat /\ nextId' \in Nat /\ nextId < nextId'
      BY <1>0, <2>1 DEF ReserveEffect, TypeOK
    <2>3. UNCHANGED <<next, last, issued>>
      BY <2>1 DEF ReserveEffect
    <2>4. \A i \in Instances : last[i] \in Nat /\ issued[i] \in Seq(Nat)
      BY <1>0 DEF TypeOK
    <2>5. ASSUME NEW i \in Instances, NEW n \in DOMAIN issued[i] PROVE issued[i][n] \in Nat
      <3>1. issued[i] \in Seq(Nat)
        BY <2>4
      <3> QED
        BY <3>1
    <2>6. BelowMark
      BY DEF IInv
    <2>7. ASSUME NEW i \in Instances, next[i] # 0 PROVE FirstID <= next[i] /\ last[i] < nextId'
      <3>1. FirstID <= next[i] /\ last[i] < nextId /\ last[i] \in Nat
        BY <2>4, <2>6, <2>7 DEF BelowMark
      <3> QED
        BY <2>2, <3>1
    <2>8. ASSUME NEW i \in Instances, NEW n \in DOMAIN issued[i]
          PROVE  FirstID <= issued[i][n] /\ issued[i][n] < nextId'
      <3>1. FirstID <= issued[i][n] /\ issued[i][n] < nextId /\ issued[i][n] \in Nat
        BY <2>5, <2>6 DEF BelowMark
      <3> QED
        BY <2>2, <3>1
    <2> QED
      BY <2>3, <2>7, <2>8 DEF BelowMark
  <1>6. ASSUME NEW c \in Callers, Install(c) PROVE BelowMark'
    <2>1. InstallEffect(c)
      BY <1>0, <1>6, InstallFacts
    <2> SUFFICES ASSUME NEW j \in Instances PROVE BelowMark!(j)'
      BY DEF BelowMark
    <2>2. BelowMark!(j)
      BY DEF IInv, BelowMark
    <2>3. next'[j] # 0 => FirstID <= next'[j] /\ last'[j] < nextId'
      <3>1. nextId \in Int /\ nextId' = nextId
        BY <1>0, <2>1 DEF InstallEffect, TypeOK
      <3>2. CASE j = InstanceOf[c]
        BY <2>1, <3>1, <3>2 DEF InstallEffect
      <3>3. CASE j # InstanceOf[c]
        BY <2>1, <2>2, <3>1, <3>3 DEF InstallEffect
      <3> QED
        BY <3>2, <3>3
    <2>4. ASSUME NEW n \in DOMAIN issued'[j]
          PROVE  FirstID <= issued'[j][n] /\ issued'[j][n] < nextId'
      BY <2>1, <2>2 DEF InstallEffect
    <2> QED
      BY <2>3, <2>4
  <1>7. ASSUME NEW c \in Callers, TakeId(c) PROVE BelowMark'
    BY <1>0, <1>7 DEF IInv, TakeId, TypeOK, CallerState,
          BelowMark, dbVars, genVars
  <1>8. ASSUME NEW c \in Callers, ReturnId(c) PROVE BelowMark'
    <2>1. ReturnEffect(c)
      BY <1>0, <1>8, ReturnFacts
    <2> SUFFICES ASSUME NEW j \in Instances PROVE BelowMark!(j)'
      BY DEF BelowMark
    <2>2. BelowMark!(j)
      BY DEF IInv, BelowMark
    <2>3. next'[j] # 0 => FirstID <= next'[j] /\ last'[j] < nextId'
      <3>1. next[j] \in Nat /\ UNCHANGED <<nextId, last>>
        BY <1>0, <2>1 DEF ReturnEffect, TypeOK
      <3>2. CASE j = InstanceOf[c]
        <4>1. next[j] # 0 /\ next'[j] = next[j] + 1
          BY <2>1, <3>2 DEF ReturnEffect
        <4> QED
          BY <2>2, <3>1, <4>1
      <3>3. CASE j # InstanceOf[c]
        BY <2>1, <2>2, <3>1, <3>3 DEF ReturnEffect
      <3> QED
        BY <3>2, <3>3
    <2>4. ASSUME NEW n \in DOMAIN issued'[j]
          PROVE  FirstID <= issued'[j][n] /\ issued'[j][n] < nextId'
      <3>1. CASE j = InstanceOf[c]
        <4>1. next[j] # 0 /\ next[j] <= last[j] /\ id[c] = next[j] /\ nextId' = nextId
          BY <2>1, <3>1 DEF ReturnEffect
        <4>2. FirstID <= id[c] /\ id[c] < nextId
          BY <1>0, <2>2, <4>1 DEF TypeOK
        <4>3. issued'[j][n] = id[c] \/ (n \in DOMAIN issued[j] /\ issued'[j][n] = issued[j][n])
          BY <2>1, <2>4, <3>1 DEF ReturnEffect
        <4> QED
          BY <2>2, <4>1, <4>2, <4>3
      <3>2. CASE j # InstanceOf[c]
        BY <2>1, <2>2, <3>2 DEF ReturnEffect
      <3> QED
        BY <3>1, <3>2
    <2> QED
      BY <2>3, <2>4
  <1>9. ASSUME NEW i \in Instances, Start(i) PROVE BelowMark'
    BY <1>0, <1>9 DEF IInv, Start, TypeOK, CallerState,
          BelowMark, dbVars, genVars
  <1>10. ASSUME NEW i \in Instances, Crash(i) PROVE BelowMark'
    BY <1>0, <1>10 DEF IInv, Crash, TypeOK, CallerState,
          BelowMark, dbVars, genVars
  <1>11. CASE UNCHANGED vars
    BY <1>11 DEF IInv, vars, TypeOK, CallerState,
          BelowMark, dbVars, genVars
  <1> QED
    BY <1>1, <1>2, <1>3, <1>4, <1>5, <1>6, <1>7, <1>8, <1>9, <1>10, <1>11
       DEF Next, CallerStep

\* The IDs instances hold never overlap each other or what was handed out.
LEMMA DisjointStep == IInv /\ [Next]_vars => Disjoint'
  <1> SUFFICES ASSUME IInv, [Next]_vars PROVE Disjoint'
    OBVIOUS
  <1>0. TypeOK /\ Held
    BY DEF IInv
  <1> USE ConstantsAssumption
  <1>1. ASSUME NEW c \in Callers, Lock(c) PROVE Disjoint'
    BY <1>0, <1>1 DEF IInv, Lock, TypeOK, CallerState,
          Disjoint, Local, Reserved, dbVars, genVars
  <1>2. ASSUME NEW c \in Callers, Fail(c) PROVE Disjoint'
    BY <1>0, <1>2 DEF IInv, Fail, Unlock, TypeOK, CallerState,
          Disjoint, Local, Reserved, dbVars, genVars
  <1>3. ASSUME NEW c \in Callers, LockRow(c) PROVE Disjoint'
    BY <1>0, <1>3 DEF IInv, LockRow, TypeOK, CallerState,
          Disjoint, Local, Reserved, dbVars, genVars
  <1>4. ASSUME NEW c \in Callers, Exhausted(c) PROVE Disjoint'
    BY <1>0, <1>4 DEF IInv, Exhausted, Unlock, TypeOK, CallerState,
          Disjoint, Local, Reserved, dbVars, genVars
  <1>5. ASSUME NEW c \in Callers, Reserve(c) PROVE Disjoint'
    <2>1. ReserveEffect(c)
      BY <1>0, <1>5, ReserveFacts
    <2>2. \A j \in Instances : Local(j)' = Local(j)
      BY <2>1 DEF ReserveEffect, Local
    <2>3. \A d \in Callers : d # c => Reserved(d)' = Reserved(d)
      BY <2>1 DEF ReserveEffect, Reserved, LastReserved, Lesser
    <2>4. \A x \in Reserved(c)' : x \in Int /\ x >= nextId
      BY <1>0, <2>1 DEF ReserveEffect, Reserved, TypeOK
    <2>5. \A j \in Instances : \A x \in Local(j) : x \in Int /\ x < nextId
      BY <1>0 DEF IInv, BelowMark, Local, TypeOK
    <2>6. \A d \in Callers : \A x \in Reserved(d) : x \in Int /\ x < nextId
      BY <1>0 DEF Held, RowHeld, Reserved, TypeOK
    <2>7. issued' = issued /\ nextId \in Int
      BY <1>0, <2>1 DEF ReserveEffect, TypeOK
    <2>8. \A j \in Instances : \A n \in DOMAIN issued[j] : issued[j][n] < nextId
      BY DEF IInv, BelowMark
    <2>9. \A j \in Instances : \A n \in DOMAIN issued[j] : issued[j][n] \notin Reserved(c)'
      BY <2>4, <2>7, <2>8
    <2>10. \A j \in Instances : \A x \in Reserved(c)' : x \notin Local(j)
      BY <2>4, <2>5, <2>7
    <2>11. \A d \in Callers : \A x \in Reserved(c)' : x \notin Reserved(d)
      BY <2>4, <2>6, <2>7
    <2> QED
      BY <2>2, <2>3, <2>7, <2>9, <2>10, <2>11 DEF IInv, Disjoint
  <1>6. ASSUME NEW c \in Callers, Install(c) PROVE Disjoint'
    <2>1. InstallEffect(c)
      BY <1>0, <1>6, InstallFacts
    <2> DEFINE i == InstanceOf[c]
    <2>2. i \in Instances /\ issued' = issued
      BY <2>1 DEF InstallEffect
    <2>3. Local(i)' = Reserved(c)
      BY <2>1 DEF InstallEffect, Local, Reserved
    <2>4. \A j \in Instances : j # i => Local(j)' = Local(j)
      BY <2>1 DEF InstallEffect, Local
    <2>5. Reserved(c)' = {}
      BY <1>0, <2>1 DEF InstallEffect, Reserved, TypeOK
    <2>6. \A d \in Callers : d # c => Reserved(d)' = Reserved(d)
      BY <1>0, <2>1 DEF InstallEffect, Reserved, TypeOK, LastReserved, Lesser
    <2> HIDE DEF i
    <2>7. \A j \in Instances : j # i => \A x \in Reserved(c) : x \notin Local(j)
      BY DEF IInv, Disjoint, i
    <2>8. Disjoint
      BY DEF IInv
    <2>9. \A j, k \in Instances : j # k => \A x \in Local(j)' : x \notin Local(k)'
      BY <2>2, <2>3, <2>4, <2>7, <2>8 DEF Disjoint
    <2>10. \A j, k \in Instances : \A n \in DOMAIN issued'[k] : issued'[k][n] \notin Local(j)'
      BY <2>2, <2>3, <2>4, <2>8 DEF Disjoint
    <2>11. \A d \in Callers, k \in Instances : InstanceOf[d] # k =>
               \A x \in Reserved(d)' : x \notin Local(k)'
      BY <2>3, <2>4, <2>5, <2>6, <2>8 DEF Disjoint
    <2>12. \A d \in Callers, k \in Instances : \A n \in DOMAIN issued'[k] :
               issued'[k][n] \notin Reserved(d)'
      BY <2>2, <2>5, <2>6, <2>8 DEF Disjoint
    <2>13. \A d, e \in Callers : d # e => \A x \in Reserved(d)' : x \notin Reserved(e)'
      BY <2>5, <2>6, <2>8 DEF Disjoint
    <2> QED
      BY <2>9, <2>10, <2>11, <2>12, <2>13 DEF Disjoint
  <1>7. ASSUME NEW c \in Callers, TakeId(c) PROVE Disjoint'
    BY <1>0, <1>7 DEF IInv, TakeId, TypeOK, CallerState,
          Disjoint, Local, Reserved, dbVars, genVars
  <1>8. ASSUME NEW c \in Callers, ReturnId(c) PROVE Disjoint'
    <2>1. ReturnEffect(c)
      BY <1>0, <1>8, ReturnFacts
    <2> DEFINE i == InstanceOf[c]
    <2>2. i \in Instances
      OBVIOUS
    <2>3. id[c] \in Local(i) /\ id[c] \notin Local(i)' /\ Local(i)' \subseteq Local(i)
      BY <1>0, <2>1, <2>2 DEF ReturnEffect, Local, TypeOK
    <2>4. \A j \in Instances : j # i => Local(j)' = Local(j)
      BY <2>1 DEF ReturnEffect, Local
    <2>5. \A d \in Callers : Reserved(d)' = Reserved(d)
      BY <1>0, <2>1 DEF ReturnEffect, Reserved, TypeOK, LastReserved, Lesser
    <2>6. \A d \in Callers : InstanceOf[d] = i => Reserved(d) = {}
      BY <1>0, <2>1 DEF ReturnEffect, Held, MutexHeld, Reserved
    <2>7. \A j \in Instances : \A n \in DOMAIN issued'[j] :
              \/ issued'[j][n] = id[c]
              \/ n \in DOMAIN issued[j] /\ issued'[j][n] = issued[j][n]
      BY <2>1 DEF ReturnEffect
    <2> HIDE DEF i
    <2>8. \A j \in Instances : id[c] \notin Local(j)'
      BY <2>2, <2>3, <2>4 DEF IInv, Disjoint
    <2>9. \A d \in Callers : id[c] \notin Reserved(d)
      BY <2>2, <2>3, <2>6 DEF IInv, Disjoint
    <2>10. \A j \in Instances : Local(j)' \subseteq Local(j)
      BY <2>3, <2>4
    <2> QED
      BY <2>5, <2>7, <2>8, <2>9, <2>10 DEF IInv, Disjoint
  <1>9. ASSUME NEW i \in Instances, Start(i) PROVE Disjoint'
    BY <1>0, <1>9 DEF IInv, Start, TypeOK, CallerState,
          Disjoint, Local, Reserved, dbVars, genVars
  <1>10. ASSUME NEW i \in Instances, Crash(i) PROVE Disjoint'
    BY <1>0, <1>10 DEF IInv, Crash, TypeOK, CallerState,
          Disjoint, Local, Reserved, dbVars, genVars
  <1>11. CASE UNCHANGED vars
    BY <1>11 DEF IInv, vars, TypeOK, CallerState,
          Disjoint, Local, Reserved, dbVars, genVars
  <1> QED
    BY <1>1, <1>2, <1>3, <1>4, <1>5, <1>6, <1>7, <1>8, <1>9, <1>10, <1>11
       DEF Next, CallerStep

\* The IDs an instance holds stay above what it has handed out.
LEMMA AboveStep == IInv /\ [Next]_vars => Above'
  <1> SUFFICES ASSUME IInv, [Next]_vars PROVE Above'
    OBVIOUS
  <1>0. TypeOK /\ Held
    BY DEF IInv
  <1> USE ConstantsAssumption
  <1>1. ASSUME NEW c \in Callers, Lock(c) PROVE Above'
    BY <1>0, <1>1 DEF IInv, Lock, TypeOK, CallerState,
          Above, dbVars, genVars
  <1>2. ASSUME NEW c \in Callers, Fail(c) PROVE Above'
    BY <1>0, <1>2 DEF IInv, Fail, Unlock, TypeOK, CallerState,
          Above, dbVars, genVars
  <1>3. ASSUME NEW c \in Callers, LockRow(c) PROVE Above'
    BY <1>0, <1>3 DEF IInv, LockRow, TypeOK, CallerState,
          Above, dbVars, genVars
  <1>4. ASSUME NEW c \in Callers, Exhausted(c) PROVE Above'
    BY <1>0, <1>4 DEF IInv, Exhausted, Unlock, TypeOK, CallerState,
          Above, dbVars, genVars
  <1>5. ASSUME NEW c \in Callers, Reserve(c) PROVE Above'
    <2>1. ReserveEffect(c)
      BY <1>0, <1>5, ReserveFacts
    <2>2. UNCHANGED <<next, issued>> /\ BelowMark /\ Above
      BY <2>1 DEF ReserveEffect, IInv
    <2>3. \A i \in Instances : \A n \in DOMAIN issued[i] : issued[i][n] < first[c]
      BY <2>1, <2>2 DEF ReserveEffect, BelowMark
    <2>4. ASSUME NEW d \in Callers, pc'[d] = "reserved"
          PROVE  \/ d = c /\ first'[c] = first[c]
                 \/ pc[d] = "reserved" /\ first'[d] = first[d]
      BY <2>1, <2>4 DEF ReserveEffect
    <2> QED
      BY <2>2, <2>3, <2>4 DEF Above
  <1>6. ASSUME NEW c \in Callers, Install(c) PROVE Above'
    <2>1. InstallEffect(c)
      BY <1>0, <1>6, InstallFacts
    <2> QED
      BY <1>0, <2>1 DEF IInv, InstallEffect, BelowMark, TypeOK, CallerState,
          Above, dbVars, genVars
  <1>7. ASSUME NEW c \in Callers, TakeId(c) PROVE Above'
    BY <1>0, <1>7 DEF IInv, TakeId, TypeOK, CallerState,
          Above, dbVars, genVars
  <1>8. ASSUME NEW c \in Callers, ReturnId(c) PROVE Above'
    <2>1. ReturnEffect(c)
      BY <1>0, <1>8, ReturnFacts
    <2> SUFFICES ASSUME NEW j \in Instances, NEW n \in DOMAIN issued'[j]
                 PROVE  Above!(j)!(n)'
      BY DEF Above
    <2>2. CASE j # InstanceOf[c]
      BY <1>0, <2>1, <2>2 DEF ReturnEffect, IInv, Above, TypeOK
    <2>3. CASE j = InstanceOf[c]
      <3>1. /\ next'[j] = id[c] + 1 /\ id[c] = next[j] /\ next[j] # 0 /\ next[j] \in Nat
            /\ issued'[j][n] = id[c] \/ (n \in DOMAIN issued[j] /\ issued'[j][n] = issued[j][n])
        BY <1>0, <2>1, <2>3 DEF ReturnEffect, TypeOK
      <3>2. n \in DOMAIN issued[j] => issued[j][n] \in Int /\ issued[j][n] < next[j]
        BY <1>0, <3>1 DEF IInv, Above, TypeOK
      <3>3. \A d \in Callers : InstanceOf[d] = j => pc'[d] # "reserved"
        <4>1. \A d \in Callers : InstanceOf[d] = j /\ d # c => pc[d] = "idle"
          BY <1>0, <2>1, <2>3 DEF ReturnEffect, Held, MutexHeld
        <4>2. pc' = [pc EXCEPT ![c] = "idle"]
          BY <2>1 DEF ReturnEffect
        <4> QED
          BY <1>0, <4>1, <4>2 DEF TypeOK
      <3> QED
        BY <3>1, <3>2, <3>3
    <2> QED
      BY <2>2, <2>3
  <1>9. ASSUME NEW i \in Instances, Start(i) PROVE Above'
    BY <1>0, <1>9 DEF IInv, Start, TypeOK, CallerState,
          Above, dbVars, genVars
  <1>10. ASSUME NEW i \in Instances, Crash(i) PROVE Above'
    BY <1>0, <1>10 DEF IInv, Crash, TypeOK, CallerState,
          Above, dbVars, genVars
  <1>11. CASE UNCHANGED vars
    BY <1>11 DEF IInv, vars, TypeOK, CallerState,
          Above, dbVars, genVars
  <1> QED
    BY <1>1, <1>2, <1>3, <1>4, <1>5, <1>6, <1>7, <1>8, <1>9, <1>10, <1>11
       DEF Next, CallerStep

\* Only ReturnId changes the history.
LEMMA HistoryStep ==
    ASSUME [Next]_vars
    PROVE  issued' = issued \/ \E c \in Callers : ReturnId(c)
  BY DEF Next, CallerStep, vars, Lock, Fail, LockRow, Exhausted, Reserve, Install,
         TakeId, Start, Crash

\* The ID ReturnId hands out is new, in range, and the largest of its instance.
LEMMA FreshId ==
    ASSUME IInv, NEW c \in Callers, ReturnId(c)
    PROVE  /\ id[c] \in FirstID..MaxID
           /\ \A j \in Instances : \A n \in DOMAIN issued[j] : issued[j][n] # id[c]
           /\ \A n \in DOMAIN issued[InstanceOf[c]] : issued[InstanceOf[c]][n] < id[c]
  <1> USE ConstantsAssumption
  <1>0. TypeOK /\ Held
    BY DEF IInv
  <1>1. ReturnEffect(c)
    BY <1>0, ReturnFacts
  <1>2. id[c] \in FirstID..MaxID
    BY <1>0, <1>1 DEF ReturnEffect, IInv, BelowMark, TypeOK
  <1>3. id[c] \in Local(InstanceOf[c])
    BY <1>0, <1>1 DEF ReturnEffect, Local, TypeOK
  <1>4. \A j \in Instances : \A n \in DOMAIN issued[j] : issued[j][n] # id[c]
    BY <1>3 DEF IInv, Disjoint
  <1>5. \A n \in DOMAIN issued[InstanceOf[c]] : issued[InstanceOf[c]][n] < id[c]
    BY <1>1 DEF ReturnEffect, IInv, Above
  <1> QED
    BY <1>2, <1>4, <1>5

\* Handing out an ID never repeats one.
LEMMA NoDuplicateStep == IInv /\ [Next]_vars => NoDuplicateIds'
  <1> SUFFICES ASSUME IInv, [Next]_vars PROVE NoDuplicateIds'
    OBVIOUS
  <1>1. CASE issued' = issued
    BY <1>1 DEF IInv, NoDuplicateIds
  <1>2. ASSUME NEW c \in Callers, ReturnId(c) PROVE NoDuplicateIds'
    <2>0. TypeOK /\ Held /\ NoDuplicateIds
      BY DEF IInv
    <2>1. ReturnEffect(c)
      BY <1>2, <2>0, ReturnFacts
    <2>2. /\ id[c] \in FirstID..MaxID
          /\ \A j \in Instances : \A n \in DOMAIN issued[j] : issued[j][n] # id[c]
      BY <1>2, FreshId
    <2>3. \A j \in Instances : \A n \in DOMAIN issued'[j] :
              \/ j = InstanceOf[c] /\ n = Len(issued[j]) + 1 /\ issued'[j][n] = id[c]
              \/ n \in DOMAIN issued[j] /\ issued'[j][n] = issued[j][n]
      BY <2>1 DEF ReturnEffect
    <2> QED
      BY <2>0, <2>2, <2>3 DEF NoDuplicateIds
  <1> QED
    BY <1>1, <1>2, HistoryStep

\* Handing out an ID keeps every instance's IDs growing.
LEMMA OrderStep == IInv /\ [Next]_vars => InstanceOrder'
  <1> SUFFICES ASSUME IInv, [Next]_vars PROVE InstanceOrder'
    OBVIOUS
  <1>1. CASE issued' = issued
    BY <1>1 DEF IInv, InstanceOrder
  <1>2. ASSUME NEW c \in Callers, ReturnId(c) PROVE InstanceOrder'
    <2>0. TypeOK /\ Held /\ InstanceOrder
      BY DEF IInv
    <2>1. ReturnEffect(c)
      BY <1>2, <2>0, ReturnFacts
    <2>2. \A n \in DOMAIN issued[InstanceOf[c]] : issued[InstanceOf[c]][n] < id[c]
      BY <1>2, FreshId
    <2> SUFFICES ASSUME NEW j \in Instances,
                        NEW m \in DOMAIN issued'[j], NEW n \in DOMAIN issued'[j],
                        m < n
                 PROVE  issued'[j][m] < issued'[j][n]
      BY DEF InstanceOrder
    <2>3. CASE j # InstanceOf[c]
      BY <2>0, <2>1, <2>3 DEF ReturnEffect, InstanceOrder
    <2>4. CASE j = InstanceOf[c]
      <3> DEFINE len == Len(issued[j])
      <3>1. /\ (n = len + 1 /\ issued'[j][n] = id[c])
               \/ (n \in DOMAIN issued[j] /\ n <= len /\ issued'[j][n] = issued[j][n])
            /\ (m = len + 1 /\ issued'[j][m] = id[c])
               \/ (m \in DOMAIN issued[j] /\ m <= len /\ issued'[j][m] = issued[j][m])
        BY <2>1, <2>4 DEF ReturnEffect
      <3>2. len \in Nat /\ DOMAIN issued[j] = 1..len
        BY <2>0 DEF TypeOK
      <3> HIDE DEF len
      <3>3. m \in DOMAIN issued[j] /\ issued'[j][m] = issued[j][m]
        BY <3>1, <3>2
      <3> QED
        BY <2>0, <2>2, <2>4, <3>1, <3>3 DEF InstanceOrder
    <2> QED
      BY <2>3, <2>4
  <1> QED
    BY <1>1, <1>2, HistoryStep

(***************************************************************************)
(* Theorems                                                                *)
(***************************************************************************)

\* The strengthened invariant holds in every reachable state: it adds to
\* uniqueness who holds which lock, that nothing held in memory or handed out
\* reaches the durable mark, and that the held segments are disjoint.
THEOREM InductiveInvariant == Spec => []IInv
  <1>1. IInv /\ [Next]_vars => IInv'
    BY TypeStep, MutexStep, RowStep, BelowStep, DisjointStep, AboveStep,
       NoDuplicateStep, OrderStep
       DEF IInv, Held
  <1> QED
    BY InitInv, <1>1, PTL DEF Spec

\* Generator.Next never returns the same message ID twice, across instances,
\* crashes, failed and ambiguous reservations, and stays in the safe range.
THEOREM MessageIdsUnique == Spec => []NoDuplicateIds
  <1>1. IInv => NoDuplicateIds
    BY DEF IInv
  <1> QED
    BY InductiveInvariant, <1>1, PTL

\* The IDs one instance returns grow, over segment changes and restarts.
THEOREM MessageIdsOrdered == Spec => []InstanceOrder
  <1>1. IInv => InstanceOrder
    BY DEF IInv
  <1> QED
    BY InductiveInvariant, <1>1, PTL

\* validateSegment accepts every segment MySQLStore.Reserve commits.
THEOREM ReservationsAccepted == Spec => []SegmentsAccepted
  <1>1. IInv => SegmentsAccepted
    <2> SUFFICES ASSUME IInv, NEW c \in Callers, pc[c] = "reserved"
                 PROVE  ValidSegment(InstanceOf[c], first[c], LastReserved(c, first[c]))
      BY DEF SegmentsAccepted
    <2>1. first[c] \in FirstID..MaxID
      BY DEF IInv, Held, RowHeld
    <2> QED
      BY <2>1, LastReservedRange, ConstantsAssumption DEF ValidSegment
  <1> QED
    BY InductiveInvariant, <1>1, PTL

\* The generator with its segments, locks, failures and crashes implements the
\* abstract source of unique IDs, which ascend within an instance.
THEOREM ImplementsUniqueIds == Spec => AbstractSpec
  <1>1. Init => Abstract!Init
    BY DEF Init, Abstract!Init
  <1>2. IInv /\ [Next]_vars => [Abstract!Next]_issued
    <2> SUFFICES ASSUME IInv, [Next]_vars, issued' # issued PROVE Abstract!Next
      OBVIOUS
    <2>1. PICK c \in Callers : ReturnId(c)
      BY HistoryStep
    <2>2. /\ id[c] \in FirstID..MaxID
          /\ \A j \in Instances : \A n \in DOMAIN issued[j] : issued[j][n] # id[c]
      BY <2>1, FreshId
    <2>3. InstanceOf[c] \in Instances
      BY ConstantsAssumption
    <2>4. \A j \in Instances : id[c] \notin Abstract!IssuedBy(j)
      BY <2>2 DEF Abstract!IssuedBy
    <2>5. issued' = [issued EXCEPT ![InstanceOf[c]] = Append(@, id[c])]
      BY <2>1 DEF ReturnId
    <2>6. \A n \in DOMAIN issued[InstanceOf[c]] : issued[InstanceOf[c]][n] < id[c]
      BY <2>1, FreshId
    <2>7. \A x \in Abstract!IssuedBy(InstanceOf[c]) : x < id[c]
      BY <2>6 DEF Abstract!IssuedBy
    <2> QED
      BY <2>2, <2>3, <2>4, <2>5, <2>7 DEF Abstract!Next, Abstract!Issue
  <1> QED
    BY <1>1, <1>2, InductiveInvariant, PTL DEF Spec, AbstractSpec, Abstract!Spec
=============================================================================
