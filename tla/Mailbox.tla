------------------------------- MODULE Mailbox -------------------------------
(***************************************************************************)
(* The message boxes in Redis: inbox:{user} and outbox:{group} with their  *)
(* writers, the incremental synchronisation, revocation and trimming.      *)
(* repository/redis_repository.go and the scripts in redis/lua_*.go.       *)
(*                                                                         *)
(* No service calls these operations yet, so callers are free: an accepted *)
(* message is written to its boxes in any order and with any delay, boxes  *)
(* are trimmed at any time.  A reader does what the client's protocol says *)
(* and passes the position of the last message it got.                     *)
(*                                                                         *)
(* Message IDs come from several servers' segments, so their order need    *)
(* not be the order of the Redis timestamps, and Redis' clock may step     *)
(* back.  Wide IDs have more than 14 digits: Lua's cjson writes them in a  *)
(* form Go cannot decode into an int64.  A definition X_Bug before X is a  *)
(* plausible mistake in the code X models.                                 *)
(***************************************************************************)
EXTENDS Integers, FiniteSets, FiniteSetsExt

CONSTANTS
    Users,       \* user IDs
    Outbox,      \* the group's box; a user's inbox is named by the user
    Routes,      \* the pairs <<sender, box>> that messages take
    Readers,     \* the pairs <<user, box>> that synchronise
    Ids,         \* message IDs that can be allocated (bound)
    Wide,        \* the IDs with more than 14 digits
    Times,       \* Redis milliseconds 1..n (bound)
    Window,      \* the 120000 ms within which a message can be revoked
    PageSize,    \* batchSize and limit
    MaxCount,    \* maxCount of TrimInbox and TrimOutbox
    ClientIds,   \* client_msg_ids a user sends with
    MaxFaults,   \* bound: clock steps back, deduplication keys that expire
    None

ASSUME ConstantsAssumption ==
    /\ Ids \subseteq Nat \ {0} /\ IsFiniteSet(Ids) /\ Wide \subseteq Ids
    /\ Times \subseteq Nat \ {0} /\ Times # {}
    /\ Window \in Nat /\ PageSize \in Nat \ {0} /\ MaxCount \in Nat
    /\ Outbox \notin Users
    /\ Routes \subseteq { w \in Users \X (Users \cup {Outbox}) : w[1] # w[2] }
    /\ Readers \subseteq Users \X (Users \cup {Outbox})
    /\ MaxFaults \in Nat

VARIABLES
    clock,      \* Redis TIME
    msg,        \* msg[i]: the accepted message, or None
    dedup,      \* the keys msg_dedup:{sender}:{client_msg_id}
    lapsed,     \* pairs whose key has expired (history)
    box,        \* box[b][i]: "absent", "plain", "revoked"
    unwritten,  \* unwritten[b]: accepted messages not yet written to b
    excess,     \* excess[b]: removeCount between ZCARD and ZREMRANGEBYRANK
    cursor,     \* cursor[r]: lastSyncTime and lastSyncMsgId
    got,        \* got[r]: the messages r has received (history)
    missed,     \* missed[r]: messages written behind the cursor (history)
    repeated,   \* repeated[r]: a page held a message received before (history)
    faults

vars == <<clock, msg, dedup, lapsed, box, unwritten, excess, cursor, got, missed, repeated,
          faults>>

Boxes == Users \cup {Outbox}
Messages == [from : Users, to : Boxes, client : ClientIds, time : Times]
Positions == (Times \cup {0}) \X (Ids \cup {0})

ASSUME NoneAssumption == None \notin Messages

TypeOK ==
    /\ clock \in Times
    /\ msg \in [Ids -> Messages \cup {None}]
    /\ dedup \subseteq Users \X ClientIds
    /\ lapsed \subseteq Users \X ClientIds
    /\ box \in [Boxes -> [Ids -> {"absent", "plain", "revoked"}]]
    /\ unwritten \in [Boxes -> SUBSET Ids]
    /\ excess \in [Boxes -> Nat]
    /\ cursor \in [Readers -> Positions]
    /\ got \in [Readers -> SUBSET Ids]
    /\ missed \in [Readers -> SUBSET Ids]
    /\ repeated \in [Readers -> BOOLEAN]
    /\ faults \in 0..MaxFaults

Init ==
    /\ clock = Min(Times)
    /\ msg = [i \in Ids |-> None]
    /\ dedup = {} /\ lapsed = {}
    /\ box = [b \in Boxes |-> [i \in Ids |-> "absent"]]
    /\ unwritten = [b \in Boxes |-> {}]
    /\ excess = [b \in Boxes |-> 0]
    /\ cursor = [r \in Readers |-> <<0, 0>>]
    /\ got = [r \in Readers |-> {}]
    /\ missed = [r \in Readers |-> {}]
    /\ repeated = [r \in Readers |-> FALSE]
    /\ faults = 0

boxVars == <<box, unwritten, excess>>
readerVars == <<cursor, got, missed, repeated>>
sendVars == <<msg, dedup, lapsed>>

Fault == faults < MaxFaults /\ faults' = faults + 1

(***************************************************************************)
(* The message check scripts                                               *)
(***************************************************************************)

\* Both participants of a private message keep it, a group message has one copy.
BoxesOf(u, b) == IF b = Outbox THEN {Outbox} ELSE {u, b}

\* SET dedupKey NX
Admits(u, c) == <<u, c>> \notin dedup

\* private_msg_check and group_msg_check for a permitted sender: deduplication
\* and Redis time.  The caller then owes the message to its boxes.
Accept(u, b, c, i) ==
    /\ msg[i] = None
    /\ Admits(u, c)
    /\ dedup' = dedup \cup {<<u, c>>}
    /\ msg' = [msg EXCEPT ![i] = [from |-> u, to |-> b, client |-> c, time |-> clock]]
    /\ unwritten' = [x \in Boxes |->
                        IF x \in BoxesOf(u, b) THEN unwritten[x] \cup {i} ELSE unwritten[x]]
    /\ UNCHANGED <<clock, lapsed, box, excess, readerVars, faults>>

\* The key's 300 seconds pass.
DedupExpires(k) ==
    /\ k \in dedup
    /\ Fault
    /\ dedup' = dedup \ {k}
    /\ lapsed' = lapsed \cup {k}
    /\ UNCHANGED <<clock, msg, boxVars, readerVars>>

Tick(t) ==
    /\ t \in Times
    /\ IF t = clock + 1 THEN UNCHANGED faults ELSE t < clock /\ Fault
    /\ clock' = t
    /\ UNCHANGED <<sendVars, boxVars, readerVars>>

(***************************************************************************)
(* Reading: readMessagesAfter                                              *)
(***************************************************************************)
Time(i) == msg[i].time

\* The composite cursor (timestamp, msgId).
Position(i) == <<Time(i), i>>

Before(p, q) == p[1] < q[1] \/ (p[1] = q[1] /\ p[2] < q[2])
Here(b) == { i \in Ids : box[b][i] # "absent" }

\* json.Unmarshal into InboxMessage: a wide ID written by cjson.encode is skipped.
Readable(b, i) == ~ (box[b][i] = "revoked" /\ i \in Wide)

After_FailsOnCorrupt(b, c) ==
    { i \in Here(b) : (\A j \in Here(b) : Readable(b, j)) /\ Before(c, Position(i)) }

\* ZRANGEBYSCORE from the cursor's time on, minus what the cursor has passed.
After(b, c) ==
    { i \in Here(b) :
        /\ Readable(b, i)
        /\ Time(i) >= c[1]
        /\ ~ (Time(i) = c[1] /\ c[2] > 0 /\ i <= c[2]) }

Page_LimitById(S) == { i \in S : Cardinality({ j \in S : j < i }) < PageSize }

\* Sorted by (timestamp, msgId) and cut to the limit.
Page(S) == { i \in S : Cardinality({ j \in S : Before(Position(j), Position(i)) }) < PageSize }

Last(S) == CHOOSE i \in S : \A j \in S : j = i \/ Before(Position(j), Position(i))

\* ReadInbox or ReadOutbox by a client that then moves its cursor.
Read(r) ==
    LET page == Page(After(r[2], cursor[r])) IN
    /\ page # {}
    /\ got' = [got EXCEPT ![r] = @ \cup page]
    /\ repeated' = [repeated EXCEPT ![r] = @ \/ page \cap got[r] # {}]
    /\ cursor' = [cursor EXCEPT ![r] = Position(Last(page))]
    /\ UNCHANGED <<clock, sendVars, boxVars, missed, faults>>

(***************************************************************************)
(* Writing, revoking and trimming                                          *)
(***************************************************************************)

\* WriteInbox or WriteOutbox.  A reader whose cursor is ahead will not see it.
Write(b, i) ==
    /\ i \in unwritten[b]
    /\ unwritten' = [unwritten EXCEPT ![b] = @ \ {i}]
    /\ box' = [box EXCEPT ![b][i] = "plain"]
    /\ missed' = [r \in Readers |->
                     IF r[2] = b /\ ~ Before(cursor[r], Position(i)) THEN missed[r] \cup {i}
                     ELSE missed[r]]
    /\ UNCHANGED <<clock, sendVars, excess, cursor, got, repeated, faults>>

Copies_SenderOnly(i) == IF msg[i].to = Outbox THEN {Outbox} ELSE {msg[i].from}

\* The boxes a revocation rewrites.
Copies(i) == BoxesOf(msg[i].from, msg[i].to)

Rewritten_Now(i, now) == [msg EXCEPT ![i].time = Max({@, now})]

\* replaceWithRevoked keeps the timestamp.
Rewritten(i, now) == msg

\* revoke_msg: the sender, in time by the caller's clock, with every copy found
\* (a wide ID is not found again once cjson has written it).
Revoke(i, now) ==
    /\ msg[i] # None
    /\ \A b \in Copies(i) : i \in Here(b) /\ Readable(b, i)
    /\ now - Time(i) <= Window
    /\ box' = [b \in Boxes |->
                  IF b \in Copies(i) THEN [box[b] EXCEPT ![i] = "revoked"] ELSE box[b]]
    /\ msg' = Rewritten(i, now)
    /\ UNCHANGED <<clock, dedup, lapsed, unwritten, excess, readerVars, faults>>

Without(b, S) == [box EXCEPT ![b] = [i \in Ids |-> IF i \in S THEN "absent" ELSE @[i]]]

\* TrimInbox, TrimOutbox: ZCARD ...
CountExcess(b) ==
    /\ excess[b] = 0 /\ Cardinality(Here(b)) > MaxCount
    /\ excess' = [excess EXCEPT ![b] = Cardinality(Here(b)) - MaxCount]
    /\ UNCHANGED <<clock, sendVars, box, unwritten, readerVars, faults>>

\* ... and ZREMRANGEBYRANK of as many, lowest scores first; the order within a
\* millisecond is that of the stored strings.
RemoveExcess(b) ==
    /\ excess[b] > 0
    /\ \E S \in SUBSET Here(b) :
           /\ Cardinality(S) = Min({excess[b], Cardinality(Here(b))})
           /\ \A i \in S : \A j \in Here(b) \ S : Time(i) <= Time(j)
           /\ box' = Without(b, S)
    /\ excess' = [excess EXCEPT ![b] = 0]
    /\ UNCHANGED <<clock, sendVars, unwritten, readerVars, faults>>

\* TrimInboxByTime, TrimOutboxByTime.
TrimByTime(b, t) ==
    /\ \E i \in Here(b) : Time(i) <= t
    /\ box' = Without(b, { i \in Here(b) : Time(i) <= t })
    /\ UNCHANGED <<clock, sendVars, unwritten, excess, readerVars, faults>>

(***************************************************************************)
(* The specification                                                       *)
(***************************************************************************)
Next ==
    \/ \E w \in Routes, c \in ClientIds, i \in Ids : Accept(w[1], w[2], c, i)
    \/ \E k \in Users \X ClientIds : DedupExpires(k)
    \/ \E t \in Times : Tick(t)
    \/ \E b \in Boxes :
           \/ \E i \in Ids : Write(b, i)
           \/ CountExcess(b) \/ RemoveExcess(b)
           \/ \E t \in Times : TrimByTime(b, t)
    \/ \E i \in Ids, now \in Times : Revoke(i, now)
    \/ \E r \in Readers : Read(r)

\* A client that has not got everything asks for the next page.
Spec == Init /\ [][Next]_vars /\ \A r \in Readers : WF_vars(Read(r))

(***************************************************************************)
(* Properties                                                              *)
(***************************************************************************)

\* No page repeats a message of an earlier one: messages of one millisecond are
\* told apart by their ID, and a revocation keeps the position of what it
\* rewrites.
NoRepeat == \A r \in Readers : ~ repeated[r]

\* No page omits a message: what is in the box at or before the cursor has
\* been received, or was written behind the cursor (its timestamp was taken
\* before a message that was already read), or has become unreadable.
NoOmission ==
    \A r \in Readers : \A i \in Here(r[2]) :
        ~ Before(cursor[r], Position(i)) /\ Readable(r[2], i) => i \in got[r] \cup missed[r]

\* The two copies of a private message are never in different states: nobody
\* reads the content of a message that the other side sees revoked.
CopiesAgree ==
    \A i \in Ids : msg[i] # None =>
        \A b, c \in BoxesOf(msg[i].from, msg[i].to) :
            i \in Here(b) \cap Here(c) => box[b][i] = box[c][i]

\* A retry is not a second message: two messages of one sender carry the same
\* client_msg_id only if its key expired in between.
AcceptedOnce ==
    \A i, j \in Ids : i # j /\ None \notin {msg[i], msg[j]} =>
        \/ msg[i].from # msg[j].from \/ msg[i].client # msg[j].client
        \/ <<msg[i].from, msg[i].client>> \in lapsed

\* What the boxes hold is consistent: every variable has its type, the copies of
\* a message agree, and a retry within the key's lifetime is no second message.
BoxesAgree == TypeOK /\ CopiesAgree /\ AcceptedOnce

\* A reader that keeps asking receives every readable message of its box that
\* is not trimmed, whatever arrives meanwhile.
CatchesUp ==
    \A r \in Readers : \A i \in Ids :
        i \in Here(r[2]) ~> \/ i \in got[r] \cup missed[r]
                            \/ i \notin Here(r[2]) \/ ~ Readable(r[2], i)

=============================================================================
