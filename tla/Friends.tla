------------------------------ MODULE Friends ------------------------------
(***************************************************************************)
(* Friend requests, friendships and the blacklist: service/friend.go over  *)
(* repository/friend_repository.go.                                        *)
(*                                                                         *)
(* Every operation is one MySQL transaction that locks the two users' rows *)
(* in ascending ID order, checks, writes and commits.  Accept and Reject   *)
(* look at the request once before the transaction, to learn whom to lock. *)
(* The steps of concurrent calls interleave; a call may fail at any point, *)
(* which rolls its transaction back.  Any user may answer any request ID,  *)
(* and a request it has seen some time ago, so that a call may arrive when *)
(* the request is gone, answered or followed by a newer one.               *)
(*                                                                         *)
(* The refresh of the cache after the commit is CacheTruth's Business step;*)
(* notifications and the paged reads change no state and are left out.     *)
(* A definition X_Bug before X is a plausible mistake in the code X models,*)
(* kept to show that a property notices it.                                *)
(***************************************************************************)
EXTENDS Integers, FiniteSets

CONSTANTS
    Users,          \* user IDs: numbers, because locks are taken in ID order
    Calls,          \* goroutines serving requests
    MaxRequests     \* bound: friend requests ever sent

ASSUME ConstantsAssumption ==
    /\ Users \subseteq Nat \ {0} /\ IsFiniteSet(Users)
    /\ MaxRequests \in Nat
    /\ "free" \notin Calls

VARIABLES
    friends,     \* rows of friendships: <<user, friend>>
    blocked,     \* rows of blacklist: <<user, blocked>>
    requests,    \* requests[id]: the friend_requests row, or NoRow
    nextId,      \* AUTO_INCREMENT of friend_requests
    rowLock,     \* rowLock[u]: the call holding the row of user u, or Free
    pc, call,    \* where each call is, and its arguments
    enqueued     \* the projections the last step put into the outbox (history)

lockVars == <<rowLock, pc, call>>
vars == <<friends, blocked, requests, nextId, rowLock, pc, call, enqueued>>

NoRow == [from |-> 0, to |-> 0, status |-> "none", sent |-> 0]
NoCall == [op |-> "none", by |-> 0, me |-> 0, peer |-> 0, id |-> 0, seen |-> 0]
RequestIds == 1..MaxRequests
Steps == {"idle", "preview", "lock1", "lock2", "check", "apply"}
Free == "free"

\* A call is made by user by; me and peer are the two users it is about, whose
\* rows it locks.  A row carries the number of the application it stands for
\* (sent); an answer carries the number of the one its caller means (seen).
\* Both numbers are history, the code has neither.
Rows == [from : Users, to : Users, status : {"pending", "accepted", "rejected"},
         sent : RequestIds] \cup {NoRow}
CallRecords == [op : {"send", "accept", "reject", "delete", "block", "unblock"},
                by : Users, me : Users, peer : Users \cup {0}, id : RequestIds \cup {0},
                seen : RequestIds \cup {0}] \cup {NoCall}

TypeOK ==
    /\ friends \subseteq Users \X Users
    /\ blocked \subseteq Users \X Users
    /\ requests \in [RequestIds -> Rows]
    /\ nextId \in 1..(MaxRequests + 1)
    /\ rowLock \in [Users -> Calls \cup {Free}]
    /\ pc \in [Calls -> Steps]
    /\ call \in [Calls -> CallRecords]
    /\ enqueued \subseteq {"friends", "blacklist"} \X Users

Init ==
    /\ friends = {}
    /\ blocked = {}
    /\ requests = [i \in RequestIds |-> NoRow]
    /\ nextId = 1
    /\ rowLock = [u \in Users |-> Free]
    /\ pc = [p \in Calls |-> "idle"]
    /\ call = [p \in Calls |-> NoCall]
    /\ enqueued = {}

(***************************************************************************)
(* Queries                                                                 *)
(***************************************************************************)
Pair(u, v) == {<<u, v>>, <<v, u>>}
IsFriendPair(u, v) == Pair(u, v) \cap friends # {}
IsEitherBlocked(u, v) == Pair(u, v) \cap blocked # {}
Between(r, u, v) == <<r.from, r.to>> \in Pair(u, v)

\* FindPendingFriendRequest looks in both directions.
FindPending(u, v) ==
    { i \in RequestIds : requests[i].status = "pending" /\ Between(requests[i], u, v) }

(***************************************************************************)
(* A call arrives                                                          *)
(***************************************************************************)
Goto(p, step) == pc' = [pc EXCEPT ![p] = step]
Arrive(p, c, step) ==
    /\ pc[p] = "idle"
    /\ Goto(p, step)
    /\ call' = [call EXCEPT ![p] = c]
    /\ enqueued' = {}
    /\ UNCHANGED <<friends, blocked, requests, nextId, rowLock>>

\* An operation on another user; a user ID of one's own is CodeSelfRequest.
CallPeer(p, op, u, v) ==
    /\ u # v
    /\ Arrive(p, [op |-> op, by |-> u, me |-> u, peer |-> v, id |-> 0, seen |-> 0], "lock1")

\* The application a caller means by ID i: the one whose row has that ID when
\* the call arrives; without such a row, the one of that number.
Meant(i) == IF requests[i] = NoRow THEN i ELSE requests[i].sent

\* Any user answers any request ID: one it sees in its list, one it answered
\* before, one of somebody else, one that is gone or was not given out yet.
CallAnswer(p, op, u, i) ==
    Arrive(p, [op |-> op, by |-> u, me |-> u, peer |-> 0, id |-> i, seen |-> Meant(i)], "preview")

\* The transaction ends; its locks are free.
EndCall(p) ==
    /\ rowLock' = [u \in Users |-> IF rowLock[u] = p THEN Free ELSE rowLock[u]]
    /\ Goto(p, "idle")
    /\ call' = [call EXCEPT ![p] = NoCall]

\* The call returns an error and its transaction is rolled back.
Abort(p) ==
    /\ EndCall(p)
    /\ enqueued' = {}
    /\ UNCHANGED <<friends, blocked, requests, nextId>>

\* A database error, a cancelled context or a crash, at any point.
Fail(p) == pc[p] # "idle" /\ Abort(p)

IsTarget_Any(r, c) == TRUE

\* CodeNotRequestTarget unless the request is addressed to the caller.
IsTarget(r, c) == r.to = c.by

\* GetFriendRequest before the transaction: whom to lock.
Preview(p) ==
    LET r == requests[call[p].id] IN
    /\ pc[p] = "preview"
    /\ IF r # NoRow /\ IsTarget(r, call[p])
         THEN /\ call' = [call EXCEPT ![p].me = r.to, ![p].peer = r.from]
              /\ Goto(p, "lock1")
              /\ enqueued' = {}
              /\ UNCHANGED <<friends, blocked, requests, nextId, rowLock>>
         ELSE Abort(p)

(***************************************************************************)
(* LockFriendUsers                                                         *)
(***************************************************************************)
Ordered_AsGiven(c) == <<c.me, c.peer>>

\* sort.Slice(ids, ...)
Ordered(c) == IF c.me < c.peer THEN <<c.me, c.peer>> ELSE <<c.peer, c.me>>

LockUser(p, step, n, next) ==
    LET u == Ordered(call[p])[n] IN
    /\ pc[p] = step
    /\ rowLock[u] = Free
    /\ rowLock' = [rowLock EXCEPT ![u] = p]
    /\ Goto(p, next)
    /\ enqueued' = {}
    /\ UNCHANGED <<friends, blocked, requests, nextId, call>>

LockFirst(p) == LockUser(p, "lock1", 1, "lock2")
LockSecond(p) == LockUser(p, "lock2", 2, "check")

(***************************************************************************)
(* The transactions: what each checks, and what it writes                  *)
(***************************************************************************)
\* The request as GetFriendRequestForUpdate finds it under the locks.
Answerable(c) ==
    LET r == requests[c.id] IN
    /\ r # NoRow /\ IsTarget(r, c)
    /\ c.op = "accept" => \/ r.status = "accepted"
                          \/ r.status = "pending" /\ ~ IsEitherBlocked(r.from, r.to)
    /\ c.op = "reject" => r.status \in {"pending", "rejected"}

\* Deleting a friend and lifting a block are refused to nobody.
Permitted(c) ==
    /\ c.op = "send" => /\ ~ IsEitherBlocked(c.me, c.peer)
                        /\ ~ IsFriendPair(c.me, c.peer)
                        /\ FindPending(c.me, c.peer) = {}
    /\ c.op \in {"accept", "reject"} => Answerable(c)
    /\ c.op = "block" => <<c.me, c.peer>> \notin blocked

\* The reads of the transaction; an answer of no ends it with an error.
Check(p) ==
    /\ pc[p] = "check"
    /\ IF Permitted(call[p])
         THEN /\ Goto(p, "apply")
              /\ enqueued' = {}
              /\ UNCHANGED <<friends, blocked, requests, nextId, rowLock, call>>
         ELSE Abort(p)

Apply(p, op) == pc[p] = "apply" /\ call[p].op = op /\ EndCall(p)

\* SaveFriendRequest drops the answered row of the same direction and inserts
\* the application under a new ID.
SaveRequest_ReuseId(c) ==
    LET old == { i \in RequestIds : requests[i].from = c.me /\ requests[i].to = c.peer }
        i == IF old = {} THEN nextId ELSE CHOOSE k \in old : TRUE
    IN  /\ requests' = [requests EXCEPT ![i] = [from |-> c.me, to |-> c.peer,
                                                 status |-> "pending", sent |-> nextId]]
        /\ nextId' = nextId + 1

SaveRequest(c) ==
    /\ requests' = [i \in RequestIds |->
           IF i = nextId
             THEN [from |-> c.me, to |-> c.peer, status |-> "pending", sent |-> nextId]
           ELSE IF requests[i].from = c.me /\ requests[i].to = c.peer
                   /\ requests[i].status # "pending"
             THEN NoRow
           ELSE requests[i]]
    /\ nextId' = nextId + 1

SendRequest(p) ==
    /\ Apply(p, "send")
    /\ nextId <= MaxRequests
    /\ SaveRequest(call[p])
    /\ enqueued' = {}
    /\ UNCHANGED <<friends, blocked>>

\* UPDATE friend_requests SET status WHERE status = old AND the pair matches.
Retire(u, v, old) ==
    requests' = [i \in RequestIds |->
        IF requests[i].status = old /\ Between(requests[i], u, v)
          THEN [requests[i] EXCEPT !.status = "rejected"] ELSE requests[i]]

\* A pending request becomes accepted; both directions of the friendship are
\* inserted, also by a retry of an accepted request.
AcceptRequest(p) ==
    LET c == call[p]
        r == requests[c.id]
    IN  /\ Apply(p, "accept")
        /\ requests' = [requests EXCEPT ![c.id].status = "accepted"]
        /\ friends' = friends \cup Pair(r.from, r.to)
        /\ enqueued' = {<<"friends", r.from>>, <<"friends", r.to>>}
        /\ UNCHANGED <<blocked, nextId>>

RejectRequest(p) ==
    /\ Apply(p, "reject")
    /\ requests' = [requests EXCEPT ![call[p].id].status = "rejected"]
    /\ enqueued' = {}
    /\ UNCHANGED <<friends, blocked, nextId>>

DeleteFriend_OneWay(p) ==
    LET c == call[p] IN
    /\ Apply(p, "delete")
    /\ friends' = friends \ {<<c.me, c.peer>>}
    /\ Retire(c.me, c.peer, "accepted")
    /\ enqueued' = {<<"friends", c.me>>}
    /\ UNCHANGED <<blocked, nextId>>

\* DeleteFriendshipPair and InvalidateAcceptedFriendRequests.
DeleteFriend(p) ==
    LET c == call[p] IN
    /\ Apply(p, "delete")
    /\ friends' = friends \ Pair(c.me, c.peer)
    /\ Retire(c.me, c.peer, "accepted")
    /\ enqueued' = {<<"friends", c.me>>, <<"friends", c.peer>>}
    /\ UNCHANGED <<blocked, nextId>>

Block_KeepsPending(p) ==
    LET c == call[p] IN
    /\ Apply(p, "block")
    /\ blocked' = blocked \cup {<<c.me, c.peer>>}
    /\ enqueued' = {<<"blacklist", c.me>>}
    /\ UNCHANGED <<friends, requests, nextId>>

\* Blocking keeps the friendship and rejects what is pending.
Block(p) ==
    LET c == call[p] IN
    /\ Apply(p, "block")
    /\ blocked' = blocked \cup {<<c.me, c.peer>>}
    /\ Retire(c.me, c.peer, "pending")
    /\ enqueued' = {<<"blacklist", c.me>>}
    /\ UNCHANGED <<friends, nextId>>

Unblock_NoEvent(p) ==
    LET c == call[p] IN
    /\ Apply(p, "unblock")
    /\ blocked' = blocked \ {<<c.me, c.peer>>}
    /\ enqueued' = {}
    /\ UNCHANGED <<friends, requests, nextId>>

Unblock(p) ==
    LET c == call[p] IN
    /\ Apply(p, "unblock")
    /\ blocked' = blocked \ {<<c.me, c.peer>>}
    /\ enqueued' = {<<"blacklist", c.me>>}
    /\ UNCHANGED <<friends, requests, nextId>>

(***************************************************************************)
(* The specification                                                       *)
(***************************************************************************)
Proceed(p) ==
    \/ Preview(p) \/ LockFirst(p) \/ LockSecond(p) \/ Check(p)
    \/ SendRequest(p) \/ AcceptRequest(p) \/ RejectRequest(p)
    \/ DeleteFriend(p) \/ Block(p) \/ Unblock(p)

Next ==
    \E p \in Calls :
        \/ \E u, v \in Users : \E op \in {"send", "delete", "block", "unblock"} :
               /\ op = "send" => nextId <= MaxRequests
               /\ CallPeer(p, op, u, v)
        \/ \E u \in Users, i \in RequestIds : \E op \in {"accept", "reject"} :
               CallAnswer(p, op, u, i)
        \/ Proceed(p)
        \/ Fail(p)

Spec == Init /\ [][Next]_vars

(***************************************************************************)
(* Properties                                                              *)
(***************************************************************************)

\* A friendship has both rows or none, whatever accepts, deletes and retries of
\* accepts interleave; IsFriendPair and the two cache owners then agree.
Symmetric == \A u, v \in Users : <<u, v>> \in friends <=> <<v, u>> \in friends

\* At most one request between two users is open, in either direction, and only
\* while they are neither friends nor blocked: crossing requests, a block
\* racing a request and an accept racing a block leave nothing behind that
\* could be accepted later.
PendingExclusive ==
    \A i \in RequestIds :
        LET r == requests[i] IN
        r.status = "pending" =>
            /\ FindPending(r.from, r.to) = {i}
            /\ ~ IsFriendPair(r.from, r.to)
            /\ ~ IsEitherBlocked(r.from, r.to)

\* An accepted request stands for a friendship that still exists, so that the
\* retry of an accept never brings back a friendship deleted in between
\* (InvalidateAcceptedFriendRequests).
AcceptedMeansFriends ==
    \A i \in RequestIds :
        requests[i].status = "accepted" => <<requests[i].from, requests[i].to>> \in friends

\* The tables agree with each other: every column has its type, friend rows come
\* in pairs, and no accepted request outlives its friendship.
TablesAgree == TypeOK /\ Symmetric /\ AcceptedMeansFriends

\* u and v become friends only when the addressee of an application between them
\* calls accept and means that very application, still open, with no block
\* between the two.
Consent(u, v) ==
    <<u, v>> \in friends' \ friends =>
        \E p \in Calls :
            LET r == requests[call[p].id] IN
            /\ pc[p] = "apply" /\ call[p].op = "accept" /\ call[p].by = r.to
            /\ r.status = "pending" /\ Between(r, u, v)
            /\ r.sent = call[p].seen
            /\ ~ IsEitherBlocked(u, v)

\* No two users become friends without consent: not through a late answer to
\* an earlier application (SaveFriendRequest's "a delayed accept command"), and
\* not through an answer of the applicant or of a third user, who may send any
\* request ID (CodeNotRequestTarget).
ConsentedFriendship == [][\A u, v \in Users : Consent(u, v)]_vars

FriendsOf(u) == { v \in Users : <<u, v>> \in friends }
BlockedBy(u) == { v \in Users : <<u, v>> \in blocked }

\* A change of the friends or the blacklist of u is written under u's row lock
\* and enqueued.
Enqueued(u) ==
    /\ FriendsOf(u)' # FriendsOf(u) => <<"friends", u>> \in enqueued' /\ rowLock[u] # Free
    /\ BlockedBy(u)' # BlockedBy(u) => <<"blacklist", u>> \in enqueued' /\ rowLock[u] # Free

\* What CacheTruth relies on: a transaction that changes the projection of an
\* owner holds the owner's row and puts the owner into the outbox.
ChangesEnqueued == [][\A u \in Users : Enqueued(u)]_vars

\* Call p waits for a user row that call q holds.
WaitsFor(p, q) ==
    \/ pc[p] = "lock1" /\ rowLock[Ordered(call[p])[1]] = q
    \/ pc[p] = "lock2" /\ rowLock[Ordered(call[p])[2]] = q

\* No set of calls wait only for each other: sorting the IDs in LockFriendUsers
\* leaves nothing for MySQL's deadlock detection to break, also between calls
\* that name the two users in opposite order.
NoDeadlockedSet ==
    \A S \in SUBSET Calls :
        S # {} => \E p \in S : \A q \in S : ~ WaitsFor(p, q)

=============================================================================
