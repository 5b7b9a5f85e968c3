----------------------------- MODULE MessageId -----------------------------
(***************************************************************************)
(* Message ID allocation: package messageid (generator.go, mysql_store.go) *)
(* and its start-up check in cmd/server.                                   *)
(*                                                                         *)
(* Every application instance owns one Generator, which hands out IDs from *)
(* an in-memory segment.  The goroutines of an instance (Callers) call     *)
(* Next concurrently under the generator's mutex, which stays held while a *)
(* used-up segment is replaced by one reserved in MySQL: a transaction     *)
(* that locks the allocator row, advances next_id and commits.             *)
(*                                                                         *)
(* What is interleaved: the goroutines of all instances, at every point    *)
(* where the code touches the row, the segment or the mutex; a call may    *)
(* fail at every database operation; a commit may report an error although *)
(* it was applied; an instance may crash at any point and be restarted.    *)
(***************************************************************************)
EXTENDS Integers, Sequences

CONSTANTS
    Instances,      \* application instances sharing one MySQL primary
    Callers,        \* goroutines that call Generator.Next
    InstanceOf,     \* the instance a goroutine runs in
    SegmentSize,    \* Options.SegmentSize of each instance's generator
    FirstID,        \* the high-water mark the migration seeds
    MaxID,          \* JavaScript's largest exact integer
    None            \* no holder

ASSUME ConstantsAssumption ==
    /\ InstanceOf \in [Callers -> Instances]
    /\ SegmentSize \in [Instances -> Nat \ {0}]
    /\ FirstID \in Nat \ {0}
    /\ MaxID \in Nat
    /\ FirstID <= MaxID + 1
    /\ None \notin Callers

VARIABLES
    nextId,     \* message_id_allocators.next_id, durable
    rowLock,    \* the goroutine whose transaction holds the allocator row
    up,         \* up[i]: instance i is running
    mu,         \* mu[i]: the goroutine holding Generator.mu
    next,       \* next[i]: Generator.next
    last,       \* last[i]: Generator.last
    pc,         \* where each goroutine is inside Next
    first,      \* first[c]: the next_id read by c's reservation
    id,         \* id[c]: the local variable id of Next
    issued      \* issued[i]: the IDs returned by instance i, in order (history)

dbVars == <<nextId, rowLock>>
genVars == <<mu, next, last>>
vars == <<nextId, rowLock, up, mu, next, last, pc, first, id, issued>>

\* "locked": mutex held; "reserving": row locked and read; "reserved": the
\* reservation committed, segment not yet installed; "taking": the ID is read
\* but Generator.next not yet advanced.
CallerState == {"idle", "locked", "reserving", "reserved", "taking"}

TypeOK ==
    /\ nextId \in FirstID..(MaxID + 1)
    /\ rowLock \in Callers \cup {None}
    /\ up \in [Instances -> BOOLEAN]
    /\ mu \in [Instances -> Callers \cup {None}]
    /\ next \in [Instances -> Nat]
    /\ last \in [Instances -> Nat]
    /\ pc \in [Callers -> CallerState]
    /\ first \in [Callers -> Nat]
    /\ id \in [Callers -> Nat]
    /\ issued \in [Instances -> Seq(Nat)]

Init ==
    /\ nextId = FirstID
    /\ rowLock = None
    /\ up = [i \in Instances |-> FALSE]
    /\ mu = [i \in Instances |-> None]
    /\ next = [i \in Instances |-> 0]
    /\ last = [i \in Instances |-> 0]
    /\ pc = [c \in Callers |-> "idle"]
    /\ first = [c \in Callers |-> 0]
    /\ id = [c \in Callers |-> 0]
    /\ issued = [i \in Instances |-> <<>>]

(***************************************************************************)
(* Helpers.  A definition X_Bug directly before X is a plausible mistake   *)
(* in the code X models; it is used only to show that a property notices.  *)
(***************************************************************************)
Lesser(a, b) == IF a <= b THEN a ELSE b

\* The last ID of a reservation starting at f: the segment size, clipped to
\* what is left of the ID space.
LastReserved_NoClip(c, f) == f + SegmentSize[InstanceOf[c]] - 1

LastReserved(c, f) ==
    f + Lesser(SegmentSize[InstanceOf[c]], MaxID - f + 1) - 1

\* next := last + 1, the mark the UPDATE stores
NewMark_OffByOne(c) == LastReserved(c, first[c])

NewMark(c) == LastReserved(c, first[c]) + 1

\* validateSegment
ValidSegment(i, f, l) ==
    /\ f >= 1 /\ l >= f /\ l <= MaxID
    /\ l - f + 1 <= SegmentSize[i]

\* g.next == 0 || g.next > g.last
NeedsSegment(i) == next[i] = 0 \/ next[i] > last[i]

\* defer g.mu.Unlock() as c leaves Next and its locals go out of scope
Unlock_Forgotten(c) ==
    /\ pc' = [pc EXCEPT ![c] = "idle"]
    /\ first' = [first EXCEPT ![c] = 0]
    /\ id' = [id EXCEPT ![c] = 0]
    /\ UNCHANGED mu

Unlock(c) ==
    /\ mu' = [mu EXCEPT ![InstanceOf[c]] = None]
    /\ pc' = [pc EXCEPT ![c] = "idle"]
    /\ first' = [first EXCEPT ![c] = 0]
    /\ id' = [id EXCEPT ![c] = 0]

(***************************************************************************)
(* Generator.Next                                                          *)
(***************************************************************************)

\* g.mu.Lock()
Lock(c) ==
    /\ up[InstanceOf[c]]
    /\ pc[c] = "idle"
    /\ mu[InstanceOf[c]] = None
    /\ mu' = [mu EXCEPT ![InstanceOf[c]] = c]
    /\ pc' = [pc EXCEPT ![c] = "locked"]
    /\ UNCHANGED <<dbVars, up, next, last, first, id, issued>>

\* ctx is done, or BeginTx, the row query, the update or RowsAffected fails
\* and the deferred Rollback releases the row.
Fail(c) ==
    /\ pc[c] \in {"locked", "reserving"}
    /\ Unlock(c)
    /\ rowLock' = IF rowLock = c THEN None ELSE rowLock
    /\ UNCHANGED <<nextId, up, next, last, issued>>

\* SELECT next_id ... FOR UPDATE finds an ID that can still be reserved.
LockRow(c) ==
    /\ pc[c] = "locked"
    /\ NeedsSegment(InstanceOf[c])
    /\ rowLock = None
    /\ nextId >= 1 /\ nextId <= MaxID
    /\ rowLock' = c
    /\ first' = [first EXCEPT ![c] = nextId]
    /\ pc' = [pc EXCEPT ![c] = "reserving"]
    /\ UNCHANGED <<nextId, up, genVars, id, issued>>

\* The row is out of range: ErrExhausted, rolled back in the same call.
Exhausted(c) ==
    /\ pc[c] = "locked"
    /\ NeedsSegment(InstanceOf[c])
    /\ rowLock = None
    /\ ~(nextId >= 1 /\ nextId <= MaxID)
    /\ Unlock(c)
    /\ UNCHANGED <<dbVars, up, next, last, issued>>

\* UPDATE next_id and COMMIT: the new mark is durable and the row is free.
\* The commit may be applied and still be reported as an error, which
\* abandons the segment.
Reserve(c) ==
    /\ pc[c] = "reserving"
    /\ nextId' = NewMark(c)
    /\ rowLock' = None
    /\ \/ /\ pc' = [pc EXCEPT ![c] = "reserved"]
          /\ UNCHANGED <<mu, first, id>>
       \/ Unlock(c)
    /\ UNCHANGED <<up, next, last, issued>>

\* The installation of the segment.  SegmentsAccepted below shows that
\* validateSegment never refuses what the store returns.
Install(c) ==
    LET i == InstanceOf[c]
        l == LastReserved(c, first[c])
    IN  /\ pc[c] = "reserved"
        /\ ValidSegment(i, first[c], l)
        /\ next' = [next EXCEPT ![i] = first[c]]
        /\ last' = [last EXCEPT ![i] = l]
        /\ pc' = [pc EXCEPT ![c] = "locked"]
        /\ UNCHANGED <<dbVars, up, mu, first, id, issued>>

\* id := g.next
TakeId(c) ==
    /\ pc[c] = "locked"
    /\ ~NeedsSegment(InstanceOf[c])
    /\ id' = [id EXCEPT ![c] = next[InstanceOf[c]]]
    /\ pc' = [pc EXCEPT ![c] = "taking"]
    /\ UNCHANGED <<dbVars, up, genVars, first, issued>>

\* g.next++; return id, nil
ReturnId_NoIncrement(c) ==
    /\ pc[c] = "taking"
    /\ issued' = [issued EXCEPT ![InstanceOf[c]] = Append(@, id[c])]
    /\ Unlock(c)
    /\ UNCHANGED <<dbVars, up, next, last>>

ReturnId(c) ==
    /\ pc[c] = "taking"
    /\ next' = [next EXCEPT ![InstanceOf[c]] = @ + 1]
    /\ issued' = [issued EXCEPT ![InstanceOf[c]] = Append(@, id[c])]
    /\ Unlock(c)
    /\ UNCHANGED <<dbVars, up, last>>

(***************************************************************************)
(* Process lifecycle                                                       *)
(***************************************************************************)

\* MySQLStore.Validate and New during start-up; an exhausted or corrupt mark
\* stops the server before it serves.
Start(i) ==
    /\ ~up[i]
    /\ nextId >= 1 /\ nextId <= MaxID
    /\ up' = [up EXCEPT ![i] = TRUE]
    /\ UNCHANGED <<dbVars, genVars, pc, first, id, issued>>

\* The process dies: its memory is lost and MySQL rolls back its transaction.
Crash(i) ==
    LET mine(c) == InstanceOf[c] = i
    IN  /\ up[i]
        /\ up' = [up EXCEPT ![i] = FALSE]
        /\ mu' = [mu EXCEPT ![i] = None]
        /\ next' = [next EXCEPT ![i] = 0]
        /\ last' = [last EXCEPT ![i] = 0]
        /\ pc' = [c \in Callers |-> IF mine(c) THEN "idle" ELSE pc[c]]
        /\ first' = [c \in Callers |-> IF mine(c) THEN 0 ELSE first[c]]
        /\ id' = [c \in Callers |-> IF mine(c) THEN 0 ELSE id[c]]
        /\ rowLock' = IF \E c \in Callers : rowLock = c /\ mine(c)
                      THEN None ELSE rowLock
        /\ UNCHANGED <<nextId, issued>>

CallerStep(c) ==
    \/ Fail(c) \/ LockRow(c) \/ Exhausted(c) \/ Reserve(c)
    \/ Install(c) \/ TakeId(c) \/ ReturnId(c)

Next ==
    \/ \E c \in Callers : Lock(c) \/ CallerStep(c)
    \/ \E i \in Instances : Start(i) \/ Crash(i)

\* A call inside Next never waits without a deadline: the store puts a timeout
\* on every operation, so some step of a started call always happens.
Fairness == \A c \in Callers : WF_vars(CallerStep(c))

Spec == Init /\ [][Next]_vars /\ Fairness

(***************************************************************************)
(* Properties                                                              *)
(***************************************************************************)
IssuedBy(i) == { issued[i][n] : n \in DOMAIN issued[i] }

\* No message ID is ever returned twice, by the same instance or by two, over
\* crashes, restarts, failed and ambiguous reservations (Generator.Next:
\* "globally unique"), and none collides with a message that predates the
\* allocator or leaves the range a browser represents exactly.
NoDuplicateIds ==
    \A i, j \in Instances :
        \A m \in DOMAIN issued[i], n \in DOMAIN issued[j] :
            /\ issued[i][m] \in FirstID..MaxID
            /\ issued[i][m] = issued[j][n] => i = j /\ m = n

\* Within one instance the IDs grow, over segment changes and restarts
\* too: a later message never sorts before an earlier one of that instance.
InstanceOrder ==
    \A i \in Instances :
        \A m, n \in DOMAIN issued[i] : m < n => issued[i][m] < issued[i][n]

\* The generator implements the abstract ID source.
Abstract == INSTANCE UniqueIds
AbstractSpec == Abstract!Spec

\* validateSegment never refuses a segment the store has committed, the last,
\* clipped one included: an accepted reservation is never thrown away with
\* ErrInvalidSegment, after its IDs are durably gone.
SegmentsAccepted ==
    \A c \in Callers :
        pc[c] = "reserved" =>
            ValidSegment(InstanceOf[c], first[c], LastReserved(c, first[c]))

\* Next never keeps the generator's mutex for ever, although it holds it
\* across a database transaction that waits for other instances' row locks:
\* every goroutine of the instance gets its turn again.
MutexReleased ==
    \A i \in Instances : mu[i] # None ~> mu[i] = None

(***************************************************************************)
(* The inductive invariant behind NoDuplicateIds and InstanceOrder         *)
(***************************************************************************)

\* The IDs instance i holds and may still hand out.
Local(i) == IF next[i] = 0 THEN {} ELSE next[i]..last[i]

\* A segment committed for goroutine c and not yet installed.
Reserved(c) ==
    IF pc[c] = "reserved" THEN first[c]..LastReserved(c, first[c]) ELSE {}

\* A goroutine inside Next holds its instance's mutex, and only in a running
\* instance.
MutexHeld ==
    \A c \in Callers :
        pc[c] # "idle" => mu[InstanceOf[c]] = c /\ up[InstanceOf[c]]

\* A reservation works on the current high-water mark, under the row lock.
RowHeld ==
    \A c \in Callers :
        /\ pc[c] = "reserving" =>
               /\ rowLock = c /\ first[c] = nextId /\ nextId <= MaxID
               /\ NeedsSegment(InstanceOf[c])
        /\ pc[c] = "reserved" =>
               /\ first[c] \in FirstID..MaxID
               /\ LastReserved(c, first[c]) \in first[c]..(nextId - 1)
               /\ NeedsSegment(InstanceOf[c])
        /\ pc[c] = "taking" =>
               /\ id[c] = next[InstanceOf[c]]
               /\ ~NeedsSegment(InstanceOf[c])

\* Everything in memory or handed out lies below the durable mark.
BelowMark ==
    \A i \in Instances :
        /\ next[i] # 0 => FirstID <= next[i] /\ last[i] < nextId
        /\ \A n \in DOMAIN issued[i] :
               FirstID <= issued[i][n] /\ issued[i][n] < nextId

\* What two instances may still hand out never overlaps, and none of it was
\* handed out before.
Disjoint ==
    /\ \A i, j \in Instances : i # j =>
           \A x \in Local(i) : x \notin Local(j)
    /\ \A i, j \in Instances : \A n \in DOMAIN issued[j] :
           issued[j][n] \notin Local(i)
    /\ \A c \in Callers, j \in Instances : InstanceOf[c] # j =>
           \A x \in Reserved(c) : x \notin Local(j)
    /\ \A c \in Callers, j \in Instances : \A n \in DOMAIN issued[j] :
           issued[j][n] \notin Reserved(c)
    /\ \A c, d \in Callers : c # d =>
           \A x \in Reserved(c) : x \notin Reserved(d)

\* What instance i holds lies above what it has handed out.
Above ==
    \A i \in Instances : \A n \in DOMAIN issued[i] :
        /\ next[i] # 0 => issued[i][n] < next[i]
        /\ \A c \in Callers :
               InstanceOf[c] = i /\ pc[c] = "reserved" =>
                   issued[i][n] < first[c]

Held == MutexHeld /\ RowHeld

IInv ==
    /\ TypeOK /\ Held /\ BelowMark /\ Disjoint /\ Above
    /\ NoDuplicateIds /\ InstanceOrder
=============================================================================
