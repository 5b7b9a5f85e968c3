---------------------------- MODULE FriendsProofs ----------------------------
(***************************************************************************)
(* Friends for every set of users and calls and any number of friend       *)
(* requests.  FriendInv adds to the properties what their proofs need: a   *)
(* call holds the rows its place says, and no others (Locks); it names two *)
(* different users (Peers); an answer speaks about the row its ID has      *)
(* always had (RowIds, Answers); and what Check has found under the locks  *)
(* is still true when the call writes (Checked).                           *)
(***************************************************************************)
EXTENDS Friends, FiniteSetTheorems, TLAPS

\* A call that answers an application.
IsAnswer(c) == c.op \in {"accept", "reject"}

\* A row has the ID of its application, which was given out, and two users.
RowIds ==
    \A i \in RequestIds : requests[i] # NoRow =>
        /\ i < nextId /\ requests[i].sent = i
        /\ requests[i].from # requests[i].to

\* Which arguments a call has at its place.
Arguments(p) ==
    /\ pc[p] # "idle" => call[p] # NoCall
    /\ pc[p] = "preview" => IsAnswer(call[p])
    /\ pc[p] \in {"lock1", "lock2", "check", "apply"} =>
           call[p].peer \in Users /\ call[p].peer # call[p].me

\* Every call has the arguments its place needs.
Peers == \A p \in Calls : Arguments(p)

\* An answer means the application its ID names; once previewed, it knows the
\* applicant and the addressee.
Application(p) ==
    LET c == call[p]
        r == requests[c.id]
    IN  IsAnswer(c) =>
            /\ c.id \in RequestIds /\ c.seen = c.id
            /\ pc[p] # "preview" => c.id < nextId
            /\ pc[p] # "preview" /\ r # NoRow => r.from = c.peer /\ r.to = c.me

\* Every answer is about its own application.
Answers == \A p \in Calls : Application(p)

\* Which rows a call holds: the smaller user's, then both.
Holds(p) ==
    IF pc[p] = "lock2" THEN {Ordered(call[p])[1]}
    ELSE IF pc[p] \in {"check", "apply"} THEN {call[p].me, call[p].peer}
    ELSE {}

\* The row locks are the ones the calls hold.
Locks == \A p \in Calls : \A u \in Users : rowLock[u] = p <=> u \in Holds(p)

\* What Check found.
Checked == \A p \in Calls : pc[p] = "apply" => Permitted(call[p])

\* The inductive invariant.
FriendInv ==
    /\ TypeOK /\ Symmetric /\ AcceptedMeansFriends /\ PendingExclusive
    /\ RowIds /\ Peers /\ Answers /\ Locks /\ Checked

(***************************************************************************)
(* Types                                                                   *)
(***************************************************************************)

\* A row that exists names two users and a status.
LEMMA RowTyped ==
  ASSUME TypeOK, NEW i \in RequestIds, requests[i] # NoRow
  PROVE  /\ requests[i] \in [from : Users, to : Users,
                             status : {"pending", "accepted", "rejected"}, sent : RequestIds]
         /\ requests[i].from \in Users /\ requests[i].to \in Users
         /\ requests[i].status \in {"pending", "accepted", "rejected"}
  BY DEF TypeOK, Rows

\* A row without a status is no row.
LEMMA NoRowTyped ==
  ASSUME TypeOK, NEW i \in RequestIds, requests[i].status # "none"
  PROVE  requests[i] # NoRow
  BY DEF NoRow

\* A call that has arrived was made by a user.
LEMMA CallTyped ==
  ASSUME TypeOK, NEW p \in Calls, call[p] # NoCall
  PROVE  /\ call[p] \in [op : {"send", "accept", "reject", "delete", "block", "unblock"},
                         by : Users, me : Users, peer : Users \cup {0}, id : RequestIds \cup {0},
                         seen : RequestIds \cup {0}]
         /\ call[p].me \in Users
         /\ call[p].op \in {"send", "accept", "reject", "delete", "block", "unblock"}
  BY DEF TypeOK, CallRecords

\* The types hold of empty tables.
LEMMA InitTyped == Init => TypeOK
<1> SUFFICES ASSUME Init PROVE TypeOK
  OBVIOUS
<1>1. NoRow \in Rows /\ NoCall \in CallRecords
  BY DEF Rows, CallRecords
<1>2. nextId \in 1..(MaxRequests + 1)
  BY ConstantsAssumption DEF Init
<1>3. requests \in [RequestIds -> Rows] /\ call \in [Calls -> CallRecords]
  BY <1>1 DEF Init
<1> QED BY <1>2, <1>3 DEF Init, TypeOK, Steps

\* The end of a call keeps the types of the locks and the calls.
LEMMA EndTyped ==
  ASSUME TypeOK, NEW p \in Calls, EndCall(p)
  PROVE  /\ rowLock' \in [Users -> Calls \cup {Free}]
         /\ pc' \in [Calls -> Steps] /\ call' \in [Calls -> CallRecords]
<1>1. NoCall \in CallRecords
  BY DEF CallRecords
<1> QED BY <1>1 DEF EndCall, Goto, TypeOK, Steps

\* The tables, and the queries on them.
tables == <<friends, blocked, requests, nextId>>

\* A step that arrives, locks, reads or gives up leaves the tables alone.
Reading(p) ==
    \/ \E u, v \in Users : \E op \in {"send", "delete", "block", "unblock"} : CallPeer(p, op, u, v)
    \/ \E u \in Users, i \in RequestIds : \E op \in {"accept", "reject"} : CallAnswer(p, op, u, i)
    \/ Preview(p) \/ LockFirst(p) \/ LockSecond(p) \/ Check(p) \/ Fail(p)

\* Every transaction ends with one of these.
Writing(p) ==
    \/ SendRequest(p) \/ AcceptRequest(p) \/ RejectRequest(p)
    \/ DeleteFriend(p) \/ Block(p) \/ Unblock(p)

\* A step of the specification reads or writes.
LEMMA StepKinds ==
  ASSUME Next
  PROVE  \E p \in Calls : Reading(p) \/ Writing(p)
  BY DEF Next, Proceed, Reading, Writing

\* A reading step leaves the tables alone and enqueues nothing.
LEMMA ReadingLeaves ==
  ASSUME NEW p \in Calls, Reading(p)
  PROVE  UNCHANGED tables /\ enqueued' = {}
  BY DEF Reading, CallPeer, CallAnswer, Arrive, Preview, LockFirst, LockSecond, LockUser, Check,
         Fail, Abort, tables

\* A reading step keeps the types.
LEMMA ReadingTyped ==
  ASSUME TypeOK, Peers, Answers, NEW p \in Calls, Reading(p)
  PROVE  TypeOK'
<1>0. /\ friends' \subseteq Users \X Users /\ blocked' \subseteq Users \X Users
      /\ requests' \in [RequestIds -> Rows] /\ nextId' \in 1..(MaxRequests + 1)
      /\ enqueued' \subseteq {"friends", "blacklist"} \X Users
  BY ReadingLeaves DEF TypeOK, tables
<1>1. ASSUME NEW c \in CallRecords, NEW step \in Steps, Arrive(p, c, step) PROVE TypeOK'
  BY <1>0, <1>1 DEF Arrive, Goto, TypeOK
<1>2. CASE Abort(p)
  BY <1>0, <1>2, EndTyped DEF Abort, TypeOK
<1>3. ASSUME NEW u \in Users, NEW v \in Users, NEW op \in {"send", "delete", "block", "unblock"},
             CallPeer(p, op, u, v)
      PROVE  TypeOK'
  <2>1. [op |-> op, by |-> u, me |-> u, peer |-> v, id |-> 0, seen |-> 0] \in CallRecords
    BY DEF CallRecords
  <2> QED BY <1>1, <1>3, <2>1 DEF CallPeer, Steps
<1>4. ASSUME NEW u \in Users, NEW i \in RequestIds, NEW op \in {"accept", "reject"},
             CallAnswer(p, op, u, i)
      PROVE  TypeOK'
  <2>1. Meant(i) \in RequestIds
    BY RowTyped DEF Meant
  <2>2. [op |-> op, by |-> u, me |-> u, peer |-> 0, id |-> i, seen |-> Meant(i)] \in CallRecords
    BY <2>1 DEF CallRecords
  <2> QED BY <1>1, <1>4, <2>2 DEF CallAnswer, Steps
<1>5. CASE Preview(p) /\ ~Abort(p)
  <2>1. /\ pc[p] = "preview" /\ requests[call[p].id] # NoRow /\ pc' = [pc EXCEPT ![p] = "lock1"]
        /\ call' = [call EXCEPT ![p].me = requests[call[p].id].to,
                                ![p].peer = requests[call[p].id].from]
        /\ UNCHANGED rowLock
    BY <1>5 DEF Preview, Goto
  <2>2. call[p] # NoCall /\ call[p].id \in RequestIds
    BY <2>1 DEF Peers, Arguments, Answers, Application, NoCall, IsAnswer
  <2>3. requests[call[p].id].from \in Users /\ requests[call[p].id].to \in Users
    BY <2>1, <2>2, RowTyped
  <2>4. [call[p] EXCEPT !.me = requests[call[p].id].to, !.peer = requests[call[p].id].from]
            \in CallRecords
    BY <2>2, <2>3, CallTyped DEF CallRecords
  <2>5. call' \in [Calls -> CallRecords]
    BY <2>1, <2>4 DEF TypeOK
  <2>6. pc' \in [Calls -> Steps]
    BY <2>1 DEF TypeOK, Steps
  <2> QED BY <1>0, <2>1, <2>5, <2>6 DEF TypeOK
<1>6. CASE LockFirst(p) \/ LockSecond(p)
  <2>1. PICK u : rowLock' = [rowLock EXCEPT ![u] = p]
    BY <1>6 DEF LockFirst, LockSecond, LockUser
  <2>2. rowLock' \in [Users -> Calls \cup {Free}]
    BY <2>1 DEF TypeOK
  <2>3. pc' \in [Calls -> Steps] /\ call' = call
    BY <1>6 DEF LockFirst, LockSecond, LockUser, Goto, TypeOK, Steps
  <2> QED BY <1>0, <2>2, <2>3 DEF TypeOK
<1>7. CASE Check(p) /\ ~Abort(p)
  BY <1>0, <1>7 DEF Check, Goto, TypeOK, Steps
<1> QED BY <1>2, <1>3, <1>4, <1>5, <1>6, <1>7 DEF Reading, Preview, Check, Fail

(***************************************************************************)
(* What a transaction knows when it writes, and what it writes             *)
(***************************************************************************)

\* A call that writes holds the rows of two different users, what Check found
\* still holds, and an answer finds the row of its application.
LEMMA WriterKnows ==
  ASSUME FriendInv, NEW p \in Calls, pc[p] = "apply"
  PROVE  LET c == call[p]
             r == requests[c.id]
         IN  /\ c.me \in Users /\ c.peer \in Users /\ c.me # c.peer
             /\ rowLock[c.me] = p /\ rowLock[c.peer] = p
             /\ Permitted(c)
             /\ IsAnswer(c) =>
                    /\ c.id \in RequestIds /\ c.id < nextId /\ r # NoRow
                    /\ r.from = c.peer /\ r.to = c.me /\ r.to = c.by /\ r.sent = c.seen
<1> DEFINE c == call[p]
           r == requests[c.id]
<1>0. TypeOK /\ RowIds /\ Peers /\ Answers /\ Locks /\ Checked
  BY DEF FriendInv
<1>1. c.me \in Users /\ c.peer \in Users /\ c.me # c.peer
  BY <1>0, CallTyped DEF Peers, Arguments
<1>2. Holds(p) = {c.me, c.peer}
  BY DEF Holds
<1>3. rowLock[c.me] = p /\ rowLock[c.peer] = p
  BY <1>0, <1>1, <1>2 DEF Locks
<1>4. Permitted(c)
  BY <1>0 DEF Checked
<1>5. ASSUME IsAnswer(c)
      PROVE  /\ c.id \in RequestIds /\ c.id < nextId /\ r # NoRow
             /\ r.from = c.peer /\ r.to = c.me /\ r.to = c.by /\ r.sent = c.seen
  <2>1. r # NoRow /\ r.to = c.by
    BY <1>4, <1>5 DEF Permitted, Answerable, IsAnswer, IsTarget
  <2>2. c.id \in RequestIds /\ c.id < nextId /\ c.seen = c.id /\ r.from = c.peer /\ r.to = c.me
    BY <1>0, <1>5, <2>1 DEF Answers, Application
  <2> QED BY <1>0, <2>1, <2>2 DEF RowIds
<1> QED BY <1>1, <1>3, <1>4, <1>5

\* The rows a transaction between u and v may touch.
SamePair(x, y, u, v) == (x = u /\ y = v) \/ (x = v /\ y = u)

\* A transaction between u and v writes rows about u and v, and one new request.
WritesPair(u, v) ==
    /\ \A x, y \in Users : ~SamePair(x, y, u, v) =>
           /\ <<x, y>> \in friends' <=> <<x, y>> \in friends
           /\ <<x, y>> \in blocked' <=> <<x, y>> \in blocked
    /\ \A i \in RequestIds : requests'[i] # requests[i] =>
           /\ i < nextId => requests[i] # NoRow /\ SamePair(requests[i].from, requests[i].to, u, v)
           /\ requests'[i] # NoRow => SamePair(requests'[i].from, requests'[i].to, u, v)
    /\ \A i \in RequestIds : i < nextId /\ requests'[i] # NoRow =>
           /\ requests[i] # NoRow
           /\ requests'[i].from = requests[i].from /\ requests'[i].to = requests[i].to
    /\ nextId' >= nextId

\* A change of the status keeps the rest of a row.
LEMMA StatusSet ==
  ASSUME TypeOK, NEW i \in RequestIds, requests[i] # NoRow,
         NEW status \in {"pending", "accepted", "rejected"},
         NEW n, n = [requests[i] EXCEPT !.status = status]
  PROVE  /\ n \in Rows /\ n # NoRow /\ n.status = status
         /\ n.from = requests[i].from /\ n.to = requests[i].to /\ n.sent = requests[i].sent
  BY RowTyped DEF Rows, NoRow

\* A row is between u and v, in one direction or the other.
LEMMA BetweenPair ==
  ASSUME NEW r, NEW u, NEW v
  PROVE  Between(r, u, v) <=> SamePair(r.from, r.to, u, v)
  BY DEF Between, Pair, SamePair

\* Retire turns the rows of the pair that have the status into rejected ones.
LEMMA Retires ==
  ASSUME TypeOK, NEW u \in Users, NEW v \in Users, NEW old \in {"pending", "accepted"},
         Retire(u, v, old)
  PROVE  /\ requests' \in [RequestIds -> Rows]
         /\ \A i \in RequestIds :
                \/ requests'[i] = requests[i]
                   /\ ~(/\ requests[i].status = old
                        /\ SamePair(requests[i].from, requests[i].to, u, v))
                \/ /\ SamePair(requests[i].from, requests[i].to, u, v)
                   /\ requests[i] # NoRow /\ requests'[i] # NoRow
                   /\ requests[i].status = old /\ requests'[i].status = "rejected"
                   /\ requests'[i].from = requests[i].from /\ requests'[i].to = requests[i].to
                   /\ requests'[i].sent = requests[i].sent
<1>1. ASSUME NEW i \in RequestIds, requests[i].status = old, Between(requests[i], u, v)
      PROVE  /\ requests'[i] = [requests[i] EXCEPT !.status = "rejected"]
             /\ requests[i] # NoRow
  BY <1>1 DEF Retire, NoRow
<1>2. ASSUME NEW i \in RequestIds, ~(requests[i].status = old /\ Between(requests[i], u, v))
      PROVE  requests'[i] = requests[i]
  BY <1>2 DEF Retire
<1>3. ASSUME NEW i \in RequestIds PROVE requests'[i] \in Rows
  BY <1>1, <1>2, StatusSet DEF TypeOK
<1>4. requests' \in [RequestIds -> Rows]
  <2> DEFINE n(i) == IF requests[i].status = old /\ Between(requests[i], u, v)
                       THEN [requests[i] EXCEPT !.status = "rejected"] ELSE requests[i]
  <2>1. requests' = [i \in RequestIds |-> n(i)]
    BY DEF Retire
  <2>2. \A i \in RequestIds : n(i) \in Rows
    BY <1>3, <2>1
  <2> HIDE DEF n
  <2> QED BY <2>1, <2>2
<1>5. ASSUME NEW i \in RequestIds
      PROVE  \/ requests'[i] = requests[i]
                /\ ~(requests[i].status = old /\ SamePair(requests[i].from, requests[i].to, u, v))
             \/ /\ SamePair(requests[i].from, requests[i].to, u, v)
                /\ requests[i] # NoRow /\ requests'[i] # NoRow
                /\ requests[i].status = old /\ requests'[i].status = "rejected"
                /\ requests'[i].from = requests[i].from /\ requests'[i].to = requests[i].to
                /\ requests'[i].sent = requests[i].sent
  <2>1. Between(requests[i], u, v) <=> SamePair(requests[i].from, requests[i].to, u, v)
    BY BetweenPair
  <2>2. CASE requests[i].status = old /\ Between(requests[i], u, v)
    <3>1. requests'[i] = [requests[i] EXCEPT !.status = "rejected"] /\ requests[i] # NoRow
      BY <1>1, <2>2
    <3>2. /\ requests'[i] # NoRow /\ requests'[i].status = "rejected"
          /\ requests'[i].from = requests[i].from /\ requests'[i].to = requests[i].to
          /\ requests'[i].sent = requests[i].sent
      BY <3>1, StatusSet
    <3> QED BY <2>1, <2>2, <3>1, <3>2
  <2>3. CASE ~(requests[i].status = old /\ Between(requests[i], u, v))
    BY <1>2, <2>1, <2>3
  <2> QED BY <2>2, <2>3
<1> QED BY <1>4, <1>5

\* Answering sets the status of one row.
LEMMA Answered ==
  ASSUME TypeOK, NEW i \in RequestIds, requests[i] # NoRow, NEW status \in {"accepted", "rejected"},
         requests' = [requests EXCEPT ![i].status = status]
  PROVE  /\ requests' \in [RequestIds -> Rows]
         /\ \A j \in RequestIds \ {i} : requests'[j] = requests[j]
         /\ requests'[i] # NoRow /\ requests'[i].status = status
         /\ requests'[i].from = requests[i].from /\ requests'[i].to = requests[i].to
         /\ requests'[i].sent = requests[i].sent
<1>1. requests'[i] = [requests[i] EXCEPT !.status = status]
  BY DEF TypeOK
<1>2. \A j \in RequestIds \ {i} : requests'[j] = requests[j]
  BY DEF TypeOK
<1>3. requests'[i] \in Rows
  BY <1>1, StatusSet
<1>4. requests' \in [RequestIds -> Rows]
  <2> DEFINE n == [requests[i] EXCEPT !.status = status]
  <2>1. requests' = [requests EXCEPT ![i] = n]
    OBVIOUS
  <2>2. n \in Rows
    BY <1>1, <1>3
  <2> HIDE DEF n
  <2> QED BY <2>1, <2>2 DEF TypeOK
<1> QED BY <1>1, <1>2, <1>4, StatusSet

\* Sending inserts one row and drops an answered one of the same direction.
LEMMA Saved ==
  ASSUME TypeOK, NEW c, c.me \in Users, c.peer \in Users, nextId <= MaxRequests, SaveRequest(c)
  PROVE  /\ requests' \in [RequestIds -> Rows] /\ nextId' = nextId + 1
         /\ nextId' \in 1..(MaxRequests + 1) /\ nextId \in RequestIds
         /\ requests'[nextId] # NoRow /\ requests'[nextId].status = "pending"
         /\ requests'[nextId].from = c.me /\ requests'[nextId].to = c.peer
         /\ requests'[nextId].sent = nextId
         /\ \A i \in RequestIds \ {nextId} :
                \/ requests'[i] = requests[i]
                \/ /\ requests[i].from = c.me /\ requests[i].to = c.peer
                   /\ requests'[i] = NoRow
<1> DEFINE n == [from |-> c.me, to |-> c.peer, status |-> "pending", sent |-> nextId]
<1>1. nextId \in RequestIds /\ nextId + 1 \in 1..(MaxRequests + 1)
  BY ConstantsAssumption DEF TypeOK, RequestIds
<1>2. n \in Rows /\ NoRow \in Rows /\ n # NoRow
  BY <1>1 DEF Rows, NoRow
<1>3. requests'[nextId] = n
  BY <1>1 DEF SaveRequest
<1>4. \A i \in RequestIds \ {nextId} :
          \/ requests'[i] = requests[i]
          \/ /\ requests[i].from = c.me /\ requests[i].to = c.peer
             /\ requests'[i] = NoRow
  BY DEF SaveRequest
<1>5. \A i \in RequestIds : requests'[i] \in Rows
  BY <1>2, <1>3, <1>4 DEF TypeOK
<1>6. requests' \in [RequestIds -> Rows]
  <2>1. requests' = [i \in RequestIds |-> requests'[i]]
    BY DEF SaveRequest
  <2> QED BY <1>5, <2>1
<1> QED BY <1>1, <1>2, <1>3, <1>4, <1>6 DEF SaveRequest

\* What each transaction writes, in terms of its two users: the request table
\* is described by what happens to a row, the other two by their new rows.
LEMMA WritingTyped ==
  ASSUME FriendInv, NEW p \in Calls, Writing(p)
  PROVE  TypeOK' /\ WritesPair(call[p].me, call[p].peer)
<1> DEFINE c == call[p]
           u == c.me
           v == c.peer
<1>0. TypeOK /\ pc[p] = "apply" /\ EndCall(p)
  BY DEF FriendInv, Writing, SendRequest, AcceptRequest, RejectRequest, DeleteFriend, Block,
         Unblock, Apply
<1>1. /\ u \in Users /\ v \in Users /\ u # v
      /\ IsAnswer(c) => /\ c.id \in RequestIds /\ c.id < nextId /\ requests[c.id] # NoRow
                        /\ requests[c.id].from = v /\ requests[c.id].to = u
  BY <1>0, WriterKnows
<1>2. /\ rowLock' \in [Users -> Calls \cup {Free}]
      /\ pc' \in [Calls -> Steps] /\ call' \in [Calls -> CallRecords]
  BY <1>0, EndTyped
<1>3. nextId \in Nat
  BY <1>0 DEF TypeOK
<1> HIDE DEF c, u, v
<1>4. CASE SendRequest(p)
  <2>1. SaveRequest(c) /\ nextId <= MaxRequests /\ enqueued' = {} /\ UNCHANGED <<friends, blocked>>
    BY <1>4 DEF SendRequest, c
  <2>2. c.me \in Users /\ c.peer \in Users
    BY <1>1 DEF u, v
  <2>3. /\ requests' \in [RequestIds -> Rows] /\ nextId' = nextId + 1
        /\ nextId' \in 1..(MaxRequests + 1) /\ nextId \in RequestIds
        /\ requests'[nextId].from = u /\ requests'[nextId].to = v
        /\ \A i \in RequestIds \ {nextId} :
               \/ requests'[i] = requests[i]
               \/ /\ requests[i].from = u /\ requests[i].to = v
                  /\ requests'[i] = NoRow
    BY <1>0, <2>1, <2>2, Saved DEF u, v
  <2>4. TypeOK'
    BY <1>0, <1>2, <2>1, <2>3 DEF TypeOK
  <2>5. \A i \in RequestIds : NoRow.from # u
    BY <1>1, ConstantsAssumption DEF NoRow
  <2>6. WritesPair(u, v)
    BY <1>3, <2>1, <2>3, <2>5 DEF WritesPair, SamePair
  <2> QED BY <2>4, <2>6 DEF c, u, v
<1>5. ASSUME TypeOK, NEW i \in RequestIds, i < nextId, requests[i] # NoRow,
             requests[i].from = v, requests[i].to = u,
             NEW status \in {"accepted", "rejected"},
             requests' = [requests EXCEPT ![i].status = status], nextId' = nextId,
             \A x, y \in Users : ~SamePair(x, y, u, v) =>
                 /\ <<x, y>> \in friends' <=> <<x, y>> \in friends
                 /\ <<x, y>> \in blocked' <=> <<x, y>> \in blocked
      PROVE  requests' \in [RequestIds -> Rows] /\ WritesPair(u, v)
  <2>1. /\ requests' \in [RequestIds -> Rows]
        /\ \A j \in RequestIds \ {i} : requests'[j] = requests[j]
        /\ requests'[i] # NoRow
        /\ requests'[i].from = requests[i].from /\ requests'[i].to = requests[i].to
    BY <1>5, Answered
  <2> QED BY <1>3, <1>5, <2>1 DEF WritesPair, SamePair
<1>6. CASE AcceptRequest(p)
  <2>1. /\ IsAnswer(c)
        /\ requests' = [requests EXCEPT ![c.id].status = "accepted"]
        /\ friends' = friends \cup Pair(requests[c.id].from, requests[c.id].to)
        /\ enqueued' = {<<"friends", requests[c.id].from>>, <<"friends", requests[c.id].to>>}
        /\ UNCHANGED <<blocked, nextId>>
    BY <1>6 DEF AcceptRequest, Apply, IsAnswer, c
  <2>2. /\ friends' = friends \cup {<<v, u>>, <<u, v>>}
        /\ enqueued' = {<<"friends", v>>, <<"friends", u>>}
    BY <1>1, <2>1 DEF Pair
  <2>3. \A x, y \in Users : ~SamePair(x, y, u, v) =>
            /\ <<x, y>> \in friends' <=> <<x, y>> \in friends
            /\ <<x, y>> \in blocked' <=> <<x, y>> \in blocked
    BY <2>1, <2>2 DEF SamePair
  <2>4. requests' \in [RequestIds -> Rows] /\ WritesPair(u, v)
    BY <1>0, <1>1, <1>5, <2>1, <2>3
  <2>5. TypeOK'
    BY <1>0, <1>1, <1>2, <2>1, <2>2, <2>4 DEF TypeOK
  <2> QED BY <2>4, <2>5 DEF c, u, v
<1>7. CASE RejectRequest(p)
  <2>1. /\ IsAnswer(c) /\ requests' = [requests EXCEPT ![c.id].status = "rejected"]
        /\ enqueued' = {} /\ UNCHANGED <<friends, blocked, nextId>>
    BY <1>7 DEF RejectRequest, Apply, IsAnswer, c
  <2>2. requests' \in [RequestIds -> Rows] /\ WritesPair(u, v)
    BY <1>0, <1>1, <1>5, <2>1
  <2>3. TypeOK'
    BY <1>0, <1>2, <2>1, <2>2 DEF TypeOK
  <2> QED BY <2>2, <2>3 DEF c, u, v
<1>8. ASSUME NEW old \in {"pending", "accepted"}, Retire(u, v, old), nextId' = nextId,
             \A x, y \in Users : ~SamePair(x, y, u, v) =>
                 /\ <<x, y>> \in friends' <=> <<x, y>> \in friends
                 /\ <<x, y>> \in blocked' <=> <<x, y>> \in blocked
      PROVE  requests' \in [RequestIds -> Rows] /\ WritesPair(u, v)
  <2>1. /\ requests' \in [RequestIds -> Rows]
        /\ \A i \in RequestIds :
               \/ requests'[i] = requests[i]
               \/ /\ SamePair(requests[i].from, requests[i].to, u, v)
                  /\ requests[i] # NoRow
                  /\ requests'[i].from = requests[i].from /\ requests'[i].to = requests[i].to
    BY <1>0, <1>1, <1>8, Retires
  <2> QED BY <1>3, <1>8, <2>1 DEF WritesPair
<1>9. CASE DeleteFriend(p)
  <2>1. /\ friends' = friends \ {<<u, v>>, <<v, u>>} /\ Retire(u, v, "accepted")
        /\ enqueued' = {<<"friends", u>>, <<"friends", v>>} /\ UNCHANGED <<blocked, nextId>>
    BY <1>9 DEF DeleteFriend, Pair, c, u, v
  <2>2. requests' \in [RequestIds -> Rows] /\ WritesPair(u, v)
    BY <1>8, <2>1 DEF SamePair
  <2>3. TypeOK'
    BY <1>0, <1>1, <1>2, <2>1, <2>2 DEF TypeOK
  <2> QED BY <2>2, <2>3 DEF c, u, v
<1>10. CASE Block(p)
  <2>1. /\ blocked' = blocked \cup {<<u, v>>} /\ Retire(u, v, "pending")
        /\ enqueued' = {<<"blacklist", u>>} /\ UNCHANGED <<friends, nextId>>
    BY <1>10 DEF Block, c, u, v
  <2>2. requests' \in [RequestIds -> Rows] /\ WritesPair(u, v)
    BY <1>8, <2>1 DEF SamePair
  <2>3. TypeOK'
    BY <1>0, <1>1, <1>2, <2>1, <2>2 DEF TypeOK
  <2> QED BY <2>2, <2>3 DEF c, u, v
<1>11. CASE Unblock(p)
  <2>1. /\ blocked' = blocked \ {<<u, v>>}
        /\ enqueued' = {<<"blacklist", u>>} /\ UNCHANGED <<friends, requests, nextId>>
    BY <1>11 DEF Unblock, c, u, v
  <2>2. WritesPair(u, v)
    BY <1>3, <2>1 DEF WritesPair, SamePair
  <2>3. TypeOK'
    BY <1>0, <1>1, <1>2, <2>1 DEF TypeOK
  <2> QED BY <2>2, <2>3 DEF c, u, v
<1> QED BY <1>4, <1>6, <1>7, <1>9, <1>10, <1>11 DEF Writing

(***************************************************************************)
(* The tables                                                              *)
(***************************************************************************)

\* PendingExclusive without the queries: an open request is the only one of its
\* pair, and the pair has no friend and no blacklist row.
Lone ==
    \A i \in RequestIds : requests[i].status = "pending" =>
        /\ \A j \in RequestIds :
               /\ requests[j].status = "pending"
               /\ SamePair(requests[j].from, requests[j].to, requests[i].from, requests[i].to)
               => j = i
        /\ <<requests[i].from, requests[i].to>> \notin friends \cup blocked
        /\ <<requests[i].to, requests[i].from>> \notin friends \cup blocked

\* Lone says what PendingExclusive says.
LEMMA PendingIsLone == (PendingExclusive <=> Lone) /\ (PendingExclusive' <=> Lone')
<1>1. PendingExclusive <=> Lone
  BY BetweenPair
  DEF PendingExclusive, Lone, FindPending, IsFriendPair, IsEitherBlocked, Pair, SamePair
<1>2. PendingExclusive' <=> Lone'
  BY BetweenPair
  DEF PendingExclusive, Lone, FindPending, IsFriendPair, IsEitherBlocked, Pair, SamePair
<1> QED BY <1>1, <1>2

\* What the tables promise each other.
TableInv == Symmetric /\ AcceptedMeansFriends /\ PendingExclusive /\ RowIds

\* SaveFriendRequest inserts the only open request of two users who are neither
\* friends nor blocked.
LEMMA SendKeeps ==
  ASSUME FriendInv, NEW p \in Calls, SendRequest(p)
  PROVE  TableInv'
<1> DEFINE c == call[p]
           u == c.me
           v == c.peer
<1>0. /\ TypeOK /\ pc[p] = "apply" /\ c.op = "send" /\ SaveRequest(c) /\ nextId <= MaxRequests
      /\ UNCHANGED <<friends, blocked>>
      /\ Symmetric /\ AcceptedMeansFriends /\ Lone /\ RowIds
  BY PendingIsLone DEF FriendInv, SendRequest, Apply
<1>1. u \in Users /\ v \in Users /\ u # v /\ Permitted(c)
  BY <1>0, WriterKnows
<1>2. /\ <<u, v>> \notin friends \cup blocked /\ <<v, u>> \notin friends \cup blocked
      /\ \A j \in RequestIds : requests[j].status = "pending" =>
             ~SamePair(requests[j].from, requests[j].to, u, v)
  BY <1>0, <1>1, BetweenPair DEF Permitted, IsEitherBlocked, IsFriendPair, FindPending, Pair
<1>3. /\ nextId' = nextId + 1 /\ nextId \in RequestIds
      /\ requests'[nextId] # NoRow /\ requests'[nextId].status = "pending"
      /\ requests'[nextId].from = u /\ requests'[nextId].to = v
      /\ requests'[nextId].sent = nextId
      /\ \A i \in RequestIds \ {nextId} : requests'[i] = requests[i] \/ requests'[i] = NoRow
  BY <1>0, <1>1, Saved
<1>4. NoRow.status = "none"
  BY DEF NoRow
<1> HIDE DEF c, u, v
<1>5. Symmetric' /\ AcceptedMeansFriends'
  BY <1>0, <1>3, <1>4 DEF Symmetric, AcceptedMeansFriends
<1>6. RowIds'
  BY <1>0, <1>1, <1>3 DEF RowIds, TypeOK, RequestIds
<1>7. Lone'
  <2>1. ASSUME NEW i \in RequestIds \ {nextId}, requests'[i].status = "pending"
        PROVE  /\ requests'[i] = requests[i] /\ requests[i].status = "pending"
               /\ ~SamePair(requests'[i].from, requests'[i].to, u, v)
    BY <1>2, <1>3, <1>4, <2>1
  <2> QED BY <1>0, <1>2, <1>3, <2>1 DEF Lone, SamePair
<1> QED BY <1>5, <1>6, <1>7, PendingIsLone DEF TableInv

\* An accept makes the friendship of an open request, or finds it: no open
\* request of the two is left.
LEMMA AcceptKeeps ==
  ASSUME FriendInv, NEW p \in Calls, AcceptRequest(p)
  PROVE  TableInv'
<1> DEFINE c == call[p]
           k == c.id
           u == c.me
           v == c.peer
<1>0. /\ TypeOK /\ pc[p] = "apply" /\ c.op = "accept"
      /\ requests' = [requests EXCEPT ![k].status = "accepted"]
      /\ friends' = friends \cup Pair(requests[k].from, requests[k].to)
      /\ UNCHANGED <<blocked, nextId>>
      /\ Symmetric /\ AcceptedMeansFriends /\ Lone /\ RowIds
  BY PendingIsLone DEF FriendInv, AcceptRequest, Apply
<1>1. /\ u \in Users /\ v \in Users /\ u # v /\ Permitted(c)
      /\ k \in RequestIds /\ requests[k] # NoRow /\ requests[k].from = v /\ requests[k].to = u
  BY <1>0, WriterKnows DEF IsAnswer
<1>2. requests[k].status \in {"pending", "accepted"}
  BY <1>0, <1>1 DEF Permitted, Answerable
<1>3. friends' = friends \cup {<<v, u>>, <<u, v>>}
  BY <1>0, <1>1 DEF Pair
<1>4. /\ \A j \in RequestIds \ {k} : requests'[j] = requests[j]
      /\ requests'[k] # NoRow /\ requests'[k].status = "accepted"
      /\ requests'[k].from = v /\ requests'[k].to = u
      /\ requests'[k].sent = requests[k].sent
  BY <1>0, <1>1, Answered
<1> HIDE DEF c, k, u, v
<1>5. Symmetric' /\ AcceptedMeansFriends'
  BY <1>0, <1>3, <1>4 DEF Symmetric, AcceptedMeansFriends
<1>6. RowIds'
  BY <1>0, <1>1, <1>4 DEF RowIds
<1>7. ASSUME NEW i \in RequestIds, requests'[i].status = "pending"
      PROVE  /\ i # k /\ requests'[i] = requests[i] /\ requests[i].status = "pending"
             /\ ~SamePair(requests[i].from, requests[i].to, v, u)
  <2>1. i # k /\ requests'[i] = requests[i]
    BY <1>4, <1>7
  <2>2. CASE requests[k].status = "pending"
    BY <1>0, <1>1, <1>7, <2>1, <2>2 DEF Lone
  <2>3. CASE requests[k].status = "accepted"
    <3>1. <<v, u>> \in friends /\ <<u, v>> \in friends
      BY <1>0, <1>1, <2>3 DEF AcceptedMeansFriends, Symmetric
    <3> QED BY <1>0, <1>7, <2>1, <3>1 DEF Lone, SamePair
  <2> QED BY <1>2, <2>2, <2>3
<1>8. Lone'
  BY <1>0, <1>3, <1>7 DEF Lone, SamePair
<1> QED BY <1>5, <1>6, <1>8, PendingIsLone DEF TableInv

\* A reject closes one request.
LEMMA RejectKeeps ==
  ASSUME FriendInv, NEW p \in Calls, RejectRequest(p)
  PROVE  TableInv'
<1> DEFINE k == call[p].id
<1>0. /\ TypeOK /\ pc[p] = "apply" /\ call[p].op = "reject"
      /\ requests' = [requests EXCEPT ![k].status = "rejected"]
      /\ UNCHANGED <<friends, blocked, nextId>>
      /\ Symmetric /\ AcceptedMeansFriends /\ Lone /\ RowIds
  BY PendingIsLone DEF FriendInv, RejectRequest, Apply
<1>1. k \in RequestIds /\ requests[k] # NoRow
  BY <1>0, WriterKnows DEF IsAnswer
<1>2. /\ \A j \in RequestIds \ {k} : requests'[j] = requests[j]
      /\ requests'[k] # NoRow /\ requests'[k].status = "rejected"
      /\ requests'[k].from = requests[k].from /\ requests'[k].to = requests[k].to
      /\ requests'[k].sent = requests[k].sent
  BY <1>0, <1>1, Answered
<1> HIDE DEF k
<1>3. Symmetric' /\ AcceptedMeansFriends'
  BY <1>0, <1>1, <1>2 DEF Symmetric, AcceptedMeansFriends
<1>4. RowIds'
  BY <1>0, <1>1, <1>2 DEF RowIds
<1>5. \A i \in RequestIds : requests'[i].status = "pending" => requests'[i] = requests[i]
  BY <1>2
<1>6. Lone'
  BY <1>0, <1>5 DEF Lone
<1> QED BY <1>3, <1>4, <1>6, PendingIsLone DEF TableInv

\* Deleting a friend takes both rows and every accepted request of the two;
\* blocking takes every open one.
LEMMA RetireKeeps ==
  ASSUME FriendInv, NEW p \in Calls, DeleteFriend(p) \/ Block(p) \/ Unblock(p)
  PROVE  TableInv'
<1> DEFINE u == call[p].me
           v == call[p].peer
<1>0. TypeOK /\ Symmetric /\ AcceptedMeansFriends /\ Lone /\ RowIds
  BY PendingIsLone DEF FriendInv
<1>1. u \in Users /\ v \in Users
  BY WriterKnows DEF DeleteFriend, Block, Unblock, Apply
<1>2. ASSUME NEW old \in {"pending", "accepted"}, Retire(u, v, old), nextId' = nextId
      PROVE  /\ RowIds'
             /\ \A i \in RequestIds : requests'[i].status \in {"pending", "accepted"} =>
                    /\ requests'[i] = requests[i]
                    /\ requests[i].status = old =>
                           ~SamePair(requests[i].from, requests[i].to, u, v)
  <2>1. \A i \in RequestIds :
            \/ requests'[i] = requests[i]
               /\ ~(requests[i].status = old /\ SamePair(requests[i].from, requests[i].to, u, v))
            \/ /\ requests[i] # NoRow /\ requests'[i].status = "rejected"
               /\ requests'[i].from = requests[i].from /\ requests'[i].to = requests[i].to
               /\ requests'[i].sent = requests[i].sent
    BY <1>0, <1>1, <1>2, Retires
  <2>2. RowIds'
    BY <1>0, <1>2, <2>1 DEF RowIds
  <2> QED BY <2>1, <2>2
<1>3. CASE DeleteFriend(p)
  <2>1. /\ friends' = friends \ {<<u, v>>, <<v, u>>} /\ Retire(u, v, "accepted")
        /\ UNCHANGED <<blocked, nextId>>
    BY <1>3 DEF DeleteFriend, Pair
  <2> HIDE DEF u, v
  <2>2. /\ RowIds'
        /\ \A i \in RequestIds : requests'[i].status \in {"pending", "accepted"} =>
               /\ requests'[i] = requests[i]
               /\ requests[i].status = "accepted" =>
                      ~SamePair(requests[i].from, requests[i].to, u, v)
    BY <1>2, <2>1
  <2>3. Symmetric' /\ AcceptedMeansFriends'
    BY <1>0, <2>1, <2>2 DEF Symmetric, AcceptedMeansFriends, SamePair
  <2>4. Lone'
    BY <1>0, <2>1, <2>2 DEF Lone
  <2> QED BY <2>2, <2>3, <2>4, PendingIsLone DEF TableInv
<1>4. CASE Block(p)
  <2>1. /\ blocked' = blocked \cup {<<u, v>>} /\ Retire(u, v, "pending")
        /\ UNCHANGED <<friends, nextId>>
    BY <1>4 DEF Block
  <2> HIDE DEF u, v
  <2>2. /\ RowIds'
        /\ \A i \in RequestIds : requests'[i].status \in {"pending", "accepted"} =>
               /\ requests'[i] = requests[i]
               /\ requests[i].status = "pending" =>
                      ~SamePair(requests[i].from, requests[i].to, u, v)
    BY <1>2, <2>1
  <2>3. Symmetric' /\ AcceptedMeansFriends'
    BY <1>0, <2>1, <2>2 DEF Symmetric, AcceptedMeansFriends
  <2>4. Lone'
    BY <1>0, <2>1, <2>2 DEF Lone, SamePair
  <2> QED BY <2>2, <2>3, <2>4, PendingIsLone DEF TableInv
<1>5. CASE Unblock(p)
  <2>1. blocked' = blocked \ {<<u, v>>} /\ UNCHANGED <<friends, requests, nextId>>
    BY <1>5 DEF Unblock
  <2>2. Symmetric' /\ AcceptedMeansFriends' /\ RowIds' /\ Lone'
    BY <1>0, <2>1 DEF Symmetric, AcceptedMeansFriends, RowIds, Lone
  <2> QED BY <2>2, PendingIsLone DEF TableInv
<1> QED BY <1>3, <1>4, <1>5

(***************************************************************************)
(* The calls                                                               *)
(***************************************************************************)

\* Sorting the two users of a call gives the same two, the smaller one first.
LEMMA OrderedPair ==
  ASSUME NEW c, c.me \in Users, c.peer \in Users
  PROVE  /\ Ordered(c)[1] \in Users /\ Ordered(c)[2] \in Users
         /\ {Ordered(c)[1], Ordered(c)[2]} = {c.me, c.peer}
         /\ c.me # c.peer => Ordered(c)[1] < Ordered(c)[2]
<1>1. c.me \in Nat /\ c.peer \in Nat
  BY ConstantsAssumption
<1> QED BY <1>1 DEF Ordered

\* A step of p leaves the other calls where they are.
LEMMA OthersStay ==
  ASSUME TypeOK, NEW p \in Calls, Reading(p) \/ Writing(p)
  PROVE  \A q \in Calls \ {p} : pc'[q] = pc[q] /\ call'[q] = call[q]
  BY DEF Reading, CallPeer, CallAnswer, Arrive, Preview, LockFirst, LockSecond, LockUser, Check,
         Fail, Abort, Writing, SendRequest, AcceptRequest, RejectRequest, DeleteFriend, Block,
         Unblock, Apply, EndCall, Goto, TypeOK

\* The end of a transaction gives its rows back, and nobody else's.
LEMMA EndFrees ==
  ASSUME FriendInv, NEW p \in Calls, EndCall(p)
  PROVE  /\ pc'[p] = "idle" /\ call'[p] = NoCall
         /\ \A u \in Users : rowLock'[u] = IF rowLock[u] = p THEN Free ELSE rowLock[u]
  BY DEF FriendInv, EndCall, Goto, TypeOK

\* A call holds the rows its place says, and no others.
LEMMA LocksStep ==
  ASSUME FriendInv, NEW p \in Calls, Reading(p) \/ Writing(p)
  PROVE  Locks'
<1>0. TypeOK /\ Peers /\ Locks /\ Free \notin Calls
  BY ConstantsAssumption DEF FriendInv, Free
<1>1. \A q \in Calls \ {p} : pc'[q] = pc[q] /\ call'[q] = call[q]
  BY <1>0, OthersStay
<1>2. \A q \in Calls \ {p} : Holds(q)' = Holds(q)
  BY <1>1 DEF Holds
<1>3. SUFFICES ASSUME NEW q \in Calls, NEW u \in Users
               PROVE  (rowLock'[u] = q) <=> (u \in Holds(q)')
  BY DEF Locks
<1>4. \A r \in Calls : (rowLock[u] = r) <=> (u \in Holds(r))
  BY <1>0 DEF Locks
<1>5. CASE EndCall(p)
  <2>1. Holds(p)' = {}
    BY <1>5, EndFrees DEF Holds
  <2> QED BY <1>0, <1>2, <1>4, <1>5, <2>1, EndFrees
<1>6. ASSUME rowLock' = rowLock, Holds(p)' = Holds(p)
      PROVE  (rowLock'[u] = q) <=> (u \in Holds(q)')
  BY <1>2, <1>4, <1>6
<1>7. ASSUME NEW c, NEW step \in {"preview", "lock1"}, Arrive(p, c, step)
      PROVE  (rowLock'[u] = q) <=> (u \in Holds(q)')
  <2>1. rowLock' = rowLock /\ pc[p] = "idle" /\ pc'[p] = step
    BY <1>0, <1>7 DEF Arrive, Goto, TypeOK
  <2>2. Holds(p) = {} /\ Holds(p)' = {}
    BY <2>1 DEF Holds
  <2> QED BY <1>6, <2>1, <2>2
<1>8. CASE Preview(p) /\ ~EndCall(p)
  <2>1. rowLock' = rowLock /\ pc[p] = "preview" /\ pc'[p] = "lock1"
    BY <1>0, <1>8 DEF Preview, Abort, Goto, TypeOK
  <2>2. Holds(p) = {} /\ Holds(p)' = {}
    BY <2>1 DEF Holds
  <2> QED BY <1>6, <2>1, <2>2
<1>9. CASE Check(p) /\ ~EndCall(p)
  <2>1. rowLock' = rowLock /\ pc[p] = "check" /\ pc'[p] = "apply" /\ call'[p] = call[p]
    BY <1>0, <1>9 DEF Check, Abort, Goto, TypeOK
  <2>2. Holds(p)' = Holds(p)
    BY <2>1 DEF Holds
  <2> QED BY <1>6, <2>1, <2>2
<1>10. ASSUME NEW w \in Users, rowLock[w] = Free, rowLock' = [rowLock EXCEPT ![w] = p],
              Holds(p)' = Holds(p) \cup {w}
       PROVE  (rowLock'[u] = q) <=> (u \in Holds(q)')
  <2>1. rowLock'[u] = IF u = w THEN p ELSE rowLock[u]
    BY <1>0, <1>10 DEF TypeOK
  <2>2. CASE q = p
    BY <1>4, <1>10, <2>1, <2>2
  <2>3. CASE q # p
    BY <1>0, <1>2, <1>4, <1>10, <2>1, <2>3
  <2> QED BY <2>2, <2>3
<1>11. CASE LockFirst(p)
  <2> DEFINE w == Ordered(call[p])[1]
  <2>1. /\ pc[p] = "lock1" /\ pc'[p] = "lock2" /\ call' = call
        /\ rowLock[w] = Free /\ rowLock' = [rowLock EXCEPT ![w] = p]
    BY <1>0, <1>11 DEF LockFirst, LockUser, Goto, TypeOK
  <2>2. w \in Users
    BY <1>0, <2>1, CallTyped, OrderedPair DEF Peers, Arguments
  <2>3. Holds(p) = {} /\ Holds(p)' = {w}
    BY <2>1 DEF Holds
  <2> QED BY <1>10, <2>1, <2>2, <2>3
<1>12. CASE LockSecond(p)
  <2> DEFINE w == Ordered(call[p])[2]
  <2>1. /\ pc[p] = "lock2" /\ pc'[p] = "check" /\ call' = call
        /\ rowLock[w] = Free /\ rowLock' = [rowLock EXCEPT ![w] = p]
    BY <1>0, <1>12 DEF LockSecond, LockUser, Goto, TypeOK
  <2>2. /\ w \in Users
        /\ {Ordered(call[p])[1], w} = {call[p].me, call[p].peer}
    BY <1>0, <2>1, CallTyped, OrderedPair DEF Peers, Arguments
  <2>3. Holds(p) = {Ordered(call[p])[1]} /\ Holds(p)' = {call[p].me, call[p].peer}
    BY <2>1 DEF Holds
  <2> QED BY <1>10, <2>1, <2>2, <2>3
<1>13. Writing(p) => EndCall(p)
  BY DEF Writing, SendRequest, AcceptRequest, RejectRequest, DeleteFriend, Block, Unblock, Apply
<1>14. Fail(p) => EndCall(p)
  BY DEF Fail, Abort
<1> QED BY <1>5, <1>7, <1>8, <1>9, <1>11, <1>12, <1>13, <1>14
        DEF Reading, CallPeer, CallAnswer

\* A row keeps its applicant and its addressee; IDs are not given out twice.
RowsStay ==
    /\ nextId' >= nextId
    /\ \A i \in RequestIds : i < nextId /\ requests'[i] # NoRow =>
           /\ requests[i] # NoRow
           /\ requests'[i].from = requests[i].from /\ requests'[i].to = requests[i].to

\* A call comes to a place with the arguments that place needs, and an answer
\* keeps to the application its caller means.
LEMMA ArgumentsStep ==
  ASSUME FriendInv, NEW p \in Calls, Reading(p) \/ Writing(p), RowsStay
  PROVE  Peers' /\ Answers'
<1>0. TypeOK /\ RowIds /\ Peers /\ Answers
  BY DEF FriendInv
<1>a. \A i \in RequestIds : i < nextId => i < nextId'
  <2>1. TypeOK'
    BY <1>0, ReadingTyped, WritingTyped
  <2>2. nextId \in Nat /\ nextId' \in Nat /\ nextId' >= nextId
    BY <1>0, <2>1 DEF TypeOK, RowsStay
  <2>3. \A i \in RequestIds : i \in Nat
    BY DEF RequestIds
  <2> QED BY <2>2, <2>3
<1>1. \A q \in Calls \ {p} : pc'[q] = pc[q] /\ call'[q] = call[q]
  BY <1>0, OthersStay
<1>2. ASSUME NEW q \in Calls, call'[q] = call[q],
             \/ pc'[q] = pc[q]
             \/ /\ pc[q] \in {"lock1", "lock2", "check"}
                /\ pc'[q] \in {"lock2", "check", "apply"}
      PROVE  Arguments(q)' /\ Application(q)'
  <2>1. Arguments(q) /\ Application(q)
    BY <1>0 DEF Peers, Answers
  <2>2. Arguments(q)'
    BY <1>2, <2>1 DEF Arguments, IsAnswer
  <2>3. Application(q)'
    <3>1. SUFFICES ASSUME IsAnswer(call[q])
                   PROVE  LET c == call[q]
                              r == requests'[c.id]
                          IN  /\ c.id \in RequestIds /\ c.seen = c.id
                              /\ pc'[q] # "preview" => c.id < nextId'
                              /\ pc'[q] # "preview" /\ r # NoRow => r.from = c.peer /\ r.to = c.me
      BY <1>2 DEF Application, IsAnswer
    <3>2. /\ call[q].id \in RequestIds /\ call[q].seen = call[q].id
          /\ pc'[q] # "preview" => pc[q] # "preview" /\ call[q].id < nextId
      BY <1>2, <2>1, <3>1 DEF Application
    <3>3. pc'[q] # "preview" => call[q].id < nextId'
      BY <1>a, <3>2
    <3> QED BY <2>1, <3>1, <3>2, <3>3 DEF Application, RowsStay
  <2> QED BY <2>2, <2>3
<1>3. SUFFICES Arguments(p)' /\ Application(p)'
  BY <1>1, <1>2 DEF Peers, Answers
<1>4. CASE EndCall(p)
  BY <1>4, EndFrees DEF Arguments, Application, IsAnswer, NoCall
<1>5. ASSUME NEW u \in Users, NEW v \in Users, NEW op \in {"send", "delete", "block", "unblock"},
             CallPeer(p, op, u, v)
      PROVE  Arguments(p)' /\ Application(p)'
  <2>1. /\ u # v /\ pc'[p] = "lock1"
        /\ call'[p] = [op |-> op, by |-> u, me |-> u, peer |-> v, id |-> 0, seen |-> 0]
    BY <1>0, <1>5 DEF CallPeer, Arrive, Goto, TypeOK
  <2> QED BY <2>1 DEF Arguments, Application, IsAnswer, NoCall
<1>6. ASSUME NEW u \in Users, NEW i \in RequestIds, NEW op \in {"accept", "reject"},
             CallAnswer(p, op, u, i)
      PROVE  Arguments(p)' /\ Application(p)'
  <2>1. Meant(i) = i
    BY <1>0 DEF Meant, RowIds
  <2>2. /\ pc'[p] = "preview"
        /\ call'[p] = [op |-> op, by |-> u, me |-> u, peer |-> 0, id |-> i, seen |-> i]
    BY <1>0, <1>6, <2>1 DEF CallAnswer, Arrive, Goto, TypeOK
  <2> QED BY <2>2 DEF Arguments, Application, IsAnswer, NoCall
<1>7. CASE Preview(p) /\ ~EndCall(p)
  <2> DEFINE r == requests[call[p].id]
  <2>1. /\ pc[p] = "preview" /\ r # NoRow
        /\ pc' = [pc EXCEPT ![p] = "lock1"]
        /\ call' = [call EXCEPT ![p].me = r.to, ![p].peer = r.from]
        /\ UNCHANGED <<requests, nextId>>
    BY <1>7 DEF Preview, Abort, Goto
  <2>2. /\ IsAnswer(call[p]) /\ call[p] # NoCall
        /\ call[p].id \in RequestIds /\ call[p].id < nextId /\ call[p].seen = call[p].id
    BY <1>0, <2>1 DEF Peers, Arguments, Answers, Application, RowIds
  <2>3. r.from \in Users /\ r.from # r.to
    BY <1>0, <2>1, <2>2, RowTyped DEF RowIds
  <2>4. /\ call'[p].op = call[p].op /\ call'[p].me = r.to /\ call'[p].peer = r.from
        /\ call'[p].id = call[p].id /\ call'[p].seen = call[p].seen
    BY <1>0, <2>1, <2>2, CallTyped DEF TypeOK
  <2>5. pc'[p] = "lock1" /\ call'[p] # NoCall
    <3>1. NoCall.op = "none" /\ call'[p].op \in {"accept", "reject"}
      BY <2>2, <2>4 DEF NoCall, IsAnswer
    <3>2. call'[p] # NoCall
      BY <3>1
    <3> QED BY <1>0, <2>1, <3>2 DEF TypeOK
  <2>6. Arguments(p)'
    BY <2>1, <2>3, <2>4, <2>5 DEF Arguments
  <2>7. Application(p)'
    BY <2>1, <2>2, <2>4 DEF Application, IsAnswer
  <2> QED BY <2>6, <2>7
<1>8. CASE LockFirst(p) \/ LockSecond(p) \/ (Check(p) /\ ~EndCall(p))
  <2>1. /\ call'[p] = call[p]
        /\ pc[p] \in {"lock1", "lock2", "check"} /\ pc'[p] \in {"lock2", "check", "apply"}
    BY <1>0, <1>8 DEF LockFirst, LockSecond, LockUser, Check, Abort, Goto, TypeOK
  <2> QED BY <1>2, <2>1
<1>9. Writing(p) => EndCall(p)
  BY DEF Writing, SendRequest, AcceptRequest, RejectRequest, DeleteFriend, Block, Unblock, Apply
<1>10. Fail(p) => EndCall(p)
  BY DEF Fail, Abort
<1> QED BY <1>4, <1>5, <1>6, <1>7, <1>8, <1>9, <1>10 DEF Reading

\* A transaction between two users changes nothing a check about two others has
\* found.
LEMMA PermittedStays ==
  ASSUME TypeOK, NEW u \in Users, NEW v \in Users, WritesPair(u, v),
         NEW c, c.me \in Users \ {u, v}, c.peer \in Users \ {u, v}, Permitted(c),
         IsAnswer(c) => /\ c.id \in RequestIds /\ c.id < nextId
                        /\ requests[c.id].from = c.peer /\ requests[c.id].to = c.me
  PROVE  Permitted(c)'
<1>1. \A x, y \in {c.me, c.peer} :
          /\ <<x, y>> \in friends' <=> <<x, y>> \in friends
          /\ <<x, y>> \in blocked' <=> <<x, y>> \in blocked
  BY DEF WritesPair, SamePair
<1>2. ASSUME NEW i \in RequestIds, SamePair(requests'[i].from, requests'[i].to, c.me, c.peer),
             requests'[i] # NoRow
      PROVE  requests'[i] = requests[i]
  BY <1>2 DEF WritesPair, SamePair
<1>3. CASE c.op = "send"
  <2>1. /\ ~IsEitherBlocked(c.me, c.peer)' /\ ~IsFriendPair(c.me, c.peer)'
    BY <1>1, <1>3 DEF Permitted, IsEitherBlocked, IsFriendPair, Pair
  <2>2. ASSUME NEW i \in RequestIds, requests'[i].status = "pending",
               Between(requests'[i], c.me, c.peer)
        PROVE  FALSE
    <3>1. SamePair(requests'[i].from, requests'[i].to, c.me, c.peer) /\ requests'[i] # NoRow
      BY <2>2, BetweenPair DEF NoRow
    <3>2. requests'[i] = requests[i]
      BY <1>2, <3>1
    <3>3. FindPending(c.me, c.peer) = {}
      BY <1>3 DEF Permitted
    <3> QED BY <2>2, <3>2, <3>3 DEF FindPending
  <2>3. FindPending(c.me, c.peer)' = {}
    BY <2>2 DEF FindPending
  <2> QED BY <1>3, <2>1, <2>3 DEF Permitted
<1>4. CASE IsAnswer(c)
  <2>1. requests[c.id] # NoRow
    BY <1>4 DEF Permitted, Answerable, IsAnswer
  <2>2. requests'[c.id] = requests[c.id]
    BY <1>4, <2>1 DEF WritesPair, SamePair
  <2>3. Answerable(c)'
    BY <1>1, <1>4, <2>2 DEF Permitted, Answerable, IsTarget, IsAnswer, IsEitherBlocked, Pair
  <2> QED BY <1>4, <2>3 DEF Permitted, IsAnswer
<1>5. CASE c.op # "send" /\ ~IsAnswer(c)
  BY <1>1, <1>5 DEF Permitted, IsAnswer
<1> QED BY <1>3, <1>4, <1>5

\* What Check has found is true until its call writes: whoever writes in
\* between holds the rows of two other users.
LEMMA CheckedStep ==
  ASSUME FriendInv, NEW p \in Calls, Reading(p) \/ Writing(p)
  PROVE  Checked'
<1>0. TypeOK /\ Checked
  BY DEF FriendInv
<1>1. SUFFICES ASSUME NEW q \in Calls, pc'[q] = "apply" PROVE Permitted(call[q])'
  BY DEF Checked
<1>2. CASE Reading(p)
  <2>1. UNCHANGED tables
    BY <1>2, ReadingLeaves
  <2>2. call'[q] = call[q] /\ Permitted(call[q])
    <3>1. CASE q # p
      BY <1>0, <1>1, <1>2, <3>1, OthersStay DEF Checked
    <3>2. CASE q = p
      <4>1. Check(p) /\ ~Abort(p)
        BY <1>0, <1>1, <1>2, <3>2 DEF Reading, CallPeer, CallAnswer, Arrive, Preview, LockFirst,
               LockSecond, LockUser, Check, Fail, Abort, EndCall, Goto, TypeOK
      <4> QED BY <3>2, <4>1 DEF Check
    <3> QED BY <3>1, <3>2
  <2> QED BY <2>1, <2>2 DEF tables, Permitted, Answerable, IsEitherBlocked, IsFriendPair,
                            FindPending
<1>3. CASE Writing(p)
  <2>1. pc[p] = "apply" /\ EndCall(p)
    BY <1>3 DEF Writing, SendRequest, AcceptRequest, RejectRequest, DeleteFriend, Block, Unblock,
                Apply
  <2>2. q # p
    BY <1>1, <2>1, EndFrees
  <2>3. pc[q] = "apply" /\ call'[q] = call[q]
    BY <1>0, <1>1, <1>3, <2>2, OthersStay
  <2>4. PICK c : c = call[q] /\ c = call'[q]
    BY <2>3
  <2>5. PICK u, v : u = call[p].me /\ v = call[p].peer
    OBVIOUS
  <2>6. /\ u \in Users /\ v \in Users /\ rowLock[u] = p /\ rowLock[v] = p
        /\ WritesPair(u, v)
    BY <1>3, <2>1, <2>5, WriterKnows, WritingTyped
  <2>7. /\ c.me \in Users /\ c.peer \in Users /\ rowLock[c.me] = q /\ rowLock[c.peer] = q
        /\ Permitted(c)
        /\ IsAnswer(c) => /\ c.id \in RequestIds /\ c.id < nextId
                          /\ requests[c.id].from = c.peer /\ requests[c.id].to = c.me
    BY <2>3, <2>4, WriterKnows
  <2>8. Permitted(c)'
    BY <1>0, <2>2, <2>6, <2>7, PermittedStays
  <2> QED BY <2>4, <2>8 DEF Permitted, Answerable, FindPending, IsFriendPair, IsEitherBlocked
<1> QED BY <1>2, <1>3

(***************************************************************************)
(* The invariant                                                           *)
(***************************************************************************)

\* FriendInv holds of empty tables.
LEMMA InitHolds == Init => FriendInv
<1> SUFFICES ASSUME Init PROVE FriendInv
  OBVIOUS
<1>1. TypeOK
  BY InitTyped
<1>2. Symmetric /\ AcceptedMeansFriends /\ PendingExclusive /\ RowIds
  BY DEF Init, Symmetric, AcceptedMeansFriends, PendingExclusive, RowIds, NoRow
<1>3. Peers /\ Answers /\ Checked
  BY DEF Init, Peers, Arguments, Answers, Application, Checked, IsAnswer, NoCall
<1>4. Locks
  BY ConstantsAssumption DEF Init, Locks, Holds, Free
<1> QED BY <1>1, <1>2, <1>3, <1>4 DEF FriendInv

\* FriendInv is preserved by every step of every call.
LEMMA StepHolds == FriendInv /\ [Next]_vars => FriendInv'
<1> SUFFICES ASSUME FriendInv, [Next]_vars PROVE FriendInv'
  OBVIOUS
<1>0. TypeOK /\ Symmetric /\ AcceptedMeansFriends /\ PendingExclusive /\ RowIds /\ Peers /\ Answers
  BY DEF FriendInv
<1>1. CASE UNCHANGED vars
  BY <1>1 DEF FriendInv, vars, TypeOK, Symmetric, AcceptedMeansFriends, PendingExclusive, RowIds,
              Peers, Arguments, Answers, Application, Locks, Holds, Checked, Permitted, Answerable,
              FindPending, IsFriendPair, IsEitherBlocked
<1>2. ASSUME NEW p \in Calls, Reading(p) \/ Writing(p) PROVE FriendInv'
  <2>1. TypeOK' /\ RowsStay /\ TableInv'
    <3>1. CASE Reading(p)
      <4>1. UNCHANGED tables
        BY <3>1, ReadingLeaves
      <4>2. TypeOK'
        BY <1>0, <3>1, ReadingTyped
      <4>3. RowsStay
        BY <1>0, <4>1 DEF RowsStay, tables, TypeOK
      <4>4. TableInv'
        BY <1>0, <4>1 DEF TableInv, tables, Symmetric, AcceptedMeansFriends, PendingExclusive,
                          RowIds, FindPending, IsFriendPair, IsEitherBlocked
      <4> QED BY <4>2, <4>3, <4>4
    <3>2. CASE Writing(p)
      <4>1. TypeOK' /\ WritesPair(call[p].me, call[p].peer)
        BY <3>2, WritingTyped
      <4>2. RowsStay
        BY <4>1 DEF WritesPair, RowsStay
      <4>3. TableInv'
        BY <3>2, SendKeeps, AcceptKeeps, RejectKeeps, RetireKeeps DEF Writing
      <4> QED BY <4>1, <4>2, <4>3
    <3> QED BY <1>2, <3>1, <3>2
  <2>2. Peers' /\ Answers'
    BY <1>2, <2>1, ArgumentsStep
  <2>3. Locks' /\ Checked'
    BY <1>2, LocksStep, CheckedStep
  <2> QED BY <2>1, <2>2, <2>3 DEF FriendInv, TableInv
<1> QED BY <1>1, <1>2, StepKinds

\* FriendInv is an invariant of the friend service.
THEOREM FriendInvariant == Spec => []FriendInv
  BY InitHolds, StepHolds, PTL DEF Spec

\* Whatever sends, accepts, retries, deletes and blocks interleave: the columns
\* have their types, friend rows come in pairs, and every accepted request
\* stands for a friendship that exists.
THEOREM FriendTablesAgree == Spec => []TablesAgree
<1>1. FriendInv => TablesAgree
  BY DEF FriendInv, TablesAgree
<1> QED BY <1>1, FriendInvariant, PTL

\* Two users have at most one open request between them, and none while they
\* are friends or one has blocked the other.
THEOREM OneOpenRequest == Spec => []PendingExclusive
<1>1. FriendInv => PendingExclusive
  BY DEF FriendInv
<1> QED BY <1>1, FriendInvariant, PTL

(***************************************************************************)
(* What a step may do                                                      *)
(***************************************************************************)

\* Only an accept adds friend rows, and only of the pair whose open request is
\* addressed to its caller and is the one the caller means.
LEMMA FriendsByConsent ==
  ASSUME FriendInv, NEW p \in Calls, Reading(p) \/ Writing(p), NEW x \in Users, NEW y \in Users
  PROVE  Consent(x, y)
<1>0. Symmetric /\ AcceptedMeansFriends
  BY DEF FriendInv
<1>1. SUFFICES ASSUME <<x, y>> \in friends', <<x, y>> \notin friends
               PROVE  \E q \in Calls :
                          LET r == requests[call[q].id] IN
                          /\ pc[q] = "apply" /\ call[q].op = "accept" /\ call[q].by = r.to
                          /\ r.status = "pending" /\ Between(r, x, y)
                          /\ r.sent = call[q].seen
                          /\ ~IsEitherBlocked(x, y)
  BY DEF Consent
<1>2. ~Reading(p)
  BY <1>1, ReadingLeaves DEF tables
<1>3. AcceptRequest(p)
  BY <1>1, <1>2 DEF Writing, SendRequest, RejectRequest, DeleteFriend, Block, Unblock
<1> DEFINE r == requests[call[p].id]
<1>4. /\ pc[p] = "apply" /\ call[p].op = "accept"
      /\ friends' = friends \cup Pair(r.from, r.to)
  BY <1>3 DEF AcceptRequest, Apply
<1>5. /\ call[p].id \in RequestIds /\ r.from \in Users /\ r.to \in Users
      /\ r.to = call[p].by /\ r.sent = call[p].seen /\ Answerable(call[p])
  BY <1>4, WriterKnows DEF IsAnswer, Permitted
<1>6. SamePair(r.from, r.to, x, y) /\ Between(r, x, y)
  BY <1>1, <1>4, BetweenPair DEF Pair, SamePair
<1>7. r.status # "accepted"
  BY <1>0, <1>1, <1>5, <1>6 DEF AcceptedMeansFriends, Symmetric, SamePair
<1>8. r.status = "pending" /\ ~IsEitherBlocked(r.from, r.to)
  BY <1>4, <1>5, <1>7 DEF Answerable
<1>9. ~IsEitherBlocked(x, y)
  BY <1>6, <1>8 DEF IsEitherBlocked, Pair, SamePair
<1> QED BY <1>4, <1>5, <1>6, <1>8, <1>9

\* A transaction enqueues the owners whose friends or blacklist it changes, and
\* holds their rows.
LEMMA OwnersEnqueued ==
  ASSUME FriendInv, NEW p \in Calls, Reading(p) \/ Writing(p), NEW x \in Users
  PROVE  Enqueued(x)
<1> DEFINE u == call[p].me
           v == call[p].peer
<1>1. CASE Reading(p)
  BY <1>1, ReadingLeaves DEF Enqueued, FriendsOf, BlockedBy, tables
<1>2. CASE Writing(p)
  <2>1. pc[p] = "apply"
    BY <1>2 DEF Writing, SendRequest, AcceptRequest, RejectRequest, DeleteFriend, Block, Unblock,
                Apply
  <2>2. /\ u \in Users /\ v \in Users /\ rowLock[u] # Free /\ rowLock[v] # Free
        /\ IsAnswer(call[p]) => requests[call[p].id].from = v /\ requests[call[p].id].to = u
    BY <2>1, WriterKnows, ConstantsAssumption DEF Free
  <2>3. /\ friends' # friends => <<"friends", u>> \in enqueued' /\ <<"friends", v>> \in enqueued'
        /\ blocked' # blocked => <<"blacklist", u>> \in enqueued'
    <3>1. CASE AcceptRequest(p)
      BY <2>2, <3>1 DEF AcceptRequest, Apply, IsAnswer
    <3>2. CASE ~AcceptRequest(p)
      BY <1>2, <3>2 DEF Writing, SendRequest, RejectRequest, DeleteFriend, Block, Unblock
    <3> QED BY <3>1, <3>2
  <2>4. x \notin {u, v} => \A y \in Users : <<x, y>> \in friends' <=> <<x, y>> \in friends
    BY <1>2, WritingTyped DEF WritesPair, SamePair
  <2>5. x # u => \A y \in Users : <<x, y>> \in blocked' <=> <<x, y>> \in blocked
    <3>1. blocked' \in {blocked, blocked \cup {<<u, v>>}, blocked \ {<<u, v>>}}
      BY <1>2 DEF Writing, SendRequest, AcceptRequest, RejectRequest, DeleteFriend, Block, Unblock
    <3> QED BY <3>1
  <2>6. FriendsOf(x)' # FriendsOf(x) => x \in {u, v} /\ friends' # friends
    BY <2>4 DEF FriendsOf
  <2>7. BlockedBy(x)' # BlockedBy(x) => x = u /\ blocked' # blocked
    BY <2>5 DEF BlockedBy
  <2> QED BY <2>2, <2>3, <2>6, <2>7 DEF Enqueued
<1> QED BY <1>1, <1>2

\* A friendship comes from an open request that its addressee, and nobody else,
\* means and accepts, with no block between the two, whoever sends which IDs.
THEOREM FriendshipNeedsConsent == Spec => ConsentedFriendship
<1>1. FriendInv /\ [Next]_vars => [\A u, v \in Users : Consent(u, v)]_vars
  BY StepKinds, FriendsByConsent
<1> QED BY <1>1, FriendInvariant, PTL DEF Spec, ConsentedFriendship

\* Every change of a relationship is enqueued for its owners, under their locks.
THEOREM FriendChangesEnqueued == Spec => ChangesEnqueued
<1>1. FriendInv /\ [Next]_vars => [\A u \in Users : Enqueued(u)]_vars
  BY StepKinds, OwnersEnqueued
<1> QED BY <1>1, FriendInvariant, PTL DEF Spec, ChangesEnqueued

(***************************************************************************)
(* No deadlock                                                             *)
(***************************************************************************)

\* A non-empty set of users has one with the largest ID: otherwise the sets of
\* larger IDs would shrink for ever.
LEMMA LargestUser ==
  ASSUME NEW T, T \subseteq Users, T # {}
  PROVE  \E x \in T : \A y \in T : y <= x
<1> DEFINE Above(x) == { y \in T : y > x }
           Family == { Above(x) : x \in T }
<1>1. IsFiniteSet(T) /\ T \subseteq Nat
  BY ConstantsAssumption, FS_Subset
<1>2. IsWellFoundedOn(StrictSubsetOrdering(T), SUBSET T)
  BY <1>1, FS_StrictSubsetOrderingWellFounded, FS_FiniteSubsetsOfFinite
<1>3. Family \subseteq SUBSET T /\ Family # {}
  OBVIOUS
<1>4. PICK A \in Family : \A B \in Family : ~(<<B, A>> \in StrictSubsetOrdering(T))
  <2> HIDE DEF Family
  <2> QED BY <1>2, <1>3, WFMin
<1>5. PICK x \in T : A = Above(x)
  BY <1>4
<1>6. ASSUME NEW y \in T, y > x PROVE FALSE
  <2>1. Above(y) \in Family /\ Above(y) \in SUBSET T /\ A \in SUBSET T
    BY <1>5
  <2>2. y \in Nat /\ x \in Nat /\ \A z \in T : z \in Nat
    BY <1>1
  <2>3. \A z \in T : z > y => z > x
    BY <1>6, <2>2
  <2>4. Above(y) \subseteq A
    BY <1>5, <2>3
  <2>5. y \in A /\ y \notin Above(y)
    BY <1>5, <1>6, <2>2
  <2>6. Above(y) # A
    BY <2>5
  <2>7. <<Above(y), A>> \in StrictSubsetOrdering(T)
    <3> HIDE DEF Above
    <3> QED BY <2>1, <2>4, <2>6 DEF StrictSubsetOrdering
  <2> QED BY <1>4, <2>1, <2>7
<1>7. \A y \in T : y <= x
  <2>1. x \in Nat /\ \A y \in T : y \in Nat
    BY <1>1
  <2> QED BY <1>6, <2>1
<1> QED BY <1>7

\* Of the calls that hold a row and wait for another, the one that holds the
\* largest waits for a row no call of the set can hold.
LEMMA NobodyStuck ==
  ASSUME FriendInv
  PROVE  NoDeadlockedSet
<1>0. TypeOK /\ Peers /\ Locks
  BY DEF FriendInv
<1> SUFFICES ASSUME NEW S \in SUBSET Calls, S # {},
                    \A p \in S : \E q \in S : WaitsFor(p, q)
             PROVE  FALSE
  BY DEF NoDeadlockedSet
<1> DEFINE low(p) == Ordered(call[p])[1]
           high(p) == Ordered(call[p])[2]
           T == { low(p) : p \in { q \in S : pc[q] = "lock2" } }
<1>1. \A p \in S : /\ pc[p] \in {"lock1", "lock2"}
                   /\ low(p) \in Users /\ high(p) \in Users /\ low(p) < high(p)
  <2>1. ASSUME NEW p \in S
        PROVE  /\ pc[p] \in {"lock1", "lock2"}
               /\ low(p) \in Users /\ high(p) \in Users /\ low(p) < high(p)
    <3>1. pc[p] \in {"lock1", "lock2"}
      BY DEF WaitsFor
    <3>2. call[p].me \in Users /\ call[p].peer \in Users /\ call[p].me # call[p].peer
      BY <1>0, <3>1, CallTyped DEF Peers, Arguments
    <3> QED BY <3>1, <3>2, OrderedPair
  <2> QED BY <2>1
<1>2. ASSUME NEW u \in Users, NEW q \in S, rowLock[u] = q
      PROVE  pc[q] = "lock2" /\ u = low(q)
  <2>1. u \in Holds(q)
    BY <1>0, <1>2 DEF Locks
  <2> QED BY <1>1, <2>1 DEF Holds
<1>3. \A p \in S : \E q \in S :
          pc[q] = "lock2" /\ (pc[p] = "lock2" => low(q) = high(p))
  <2>1. ASSUME NEW p \in S
        PROVE  \E q \in S : pc[q] = "lock2" /\ (pc[p] = "lock2" => low(q) = high(p))
    <3>1. PICK q \in S : WaitsFor(p, q)
      OBVIOUS
    <3>2. CASE pc[p] = "lock1"
      BY <1>1, <1>2, <3>1, <3>2 DEF WaitsFor
    <3>3. CASE pc[p] = "lock2"
      BY <1>1, <1>2, <3>1, <3>3 DEF WaitsFor
    <3> QED BY <1>1, <3>2, <3>3
  <2> QED BY <2>1
<1> HIDE DEF low, high
<1>4. T # {} /\ T \subseteq Users
  BY <1>1, <1>3
<1>5. PICK x \in T : \A y \in T : y <= x
  <2> HIDE DEF T
  <2> QED BY <1>4, LargestUser
<1>6. PICK p \in S : pc[p] = "lock2" /\ x = low(p)
  OBVIOUS
<1>7. PICK q \in S : pc[q] = "lock2" /\ low(q) = high(p)
  BY <1>3, <1>6
<1>8. low(q) <= low(p) /\ low(p) < low(q)
  BY <1>1, <1>5, <1>6, <1>7
<1>9. low(p) \in Nat /\ low(q) \in Nat
  BY <1>1, ConstantsAssumption
<1> QED BY <1>8, <1>9

\* No calls ever wait only for each other, in whichever order they name the two
\* users: LockFriendUsers sorts.
THEOREM LockOrderPreventsDeadlock == Spec => []NoDeadlockedSet
  BY NobodyStuck, FriendInvariant, PTL

=============================================================================
