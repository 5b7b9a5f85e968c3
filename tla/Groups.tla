------------------------------- MODULE Groups -------------------------------
(***************************************************************************)
(* Groups, their members, roles, mutes and ownership: service/group.go     *)
(* over repository/group_repository.go.                                    *)
(*                                                                         *)
(* Every mutation is one MySQL transaction that first locks the groups row,*)
(* then checks the operator and the target, then (AddMember) locks the two *)
(* users in ascending order and checks their friendship and the capacity,  *)
(* writes and commits.  The steps of concurrent calls interleave; a call   *)
(* may fail at any point, which rolls its transaction back.                *)
(*                                                                         *)
(* Friendships belong to Friends; here they change by an environment step  *)
(* that needs both user rows, as every transaction of Friends does.  Names *)
(* and notices are left out, and a mute deadline is only set or not set.   *)
(* A definition X_Bug before X is a plausible mistake in the code X models.*)
(***************************************************************************)
EXTENDS Integers, FiniteSets

CONSTANTS
    Users,         \* user IDs: numbers, because user rows are locked in order
    GroupIds,      \* group IDs that can be created (bound)
    Calls,         \* goroutines serving requests
    Limits,        \* the values groups.max_members may have
    ChangingPairs  \* bound: the pairs of users whose friendship comes and goes

ASSUME ConstantsAssumption ==
    /\ Users \subseteq Nat \ {0} /\ IsFiniteSet(Users)
    /\ Limits \subseteq Nat \ {0}
    /\ ChangingPairs \subseteq Users \X Users
    /\ "free" \notin Calls

VARIABLES
    groups,      \* groups[g]: "none" before Create, "live", "dead" (tombstone)
    limit,       \* limit[g]: groups.max_members
    owner,       \* owner[g]: groups.owner_id, or 0
    role,        \* role[g]: the members' roles, a function on the members of g
    muted,       \* muted[g]: the members with a mute deadline
    friends,     \* rows of friendships, as pairs
    groupLock,   \* groupLock[g]: the call holding the groups row
    userLock,    \* userLock[u]: the call holding the users row
    pc, call,    \* where each call is, and its arguments
    enqueued     \* the groups the last step put into the outbox (history)

data == <<groups, limit, owner, role, muted, friends>>
vars == <<groups, limit, owner, role, muted, friends, groupLock, userLock, pc, call, enqueued>>

Member == 0
Admin == 1
Owner == 2
Free == "free"
EmptyRoles == [u \in {} |-> Member]
NoCall == [op |-> "none", g |-> 0, me |-> 0, target |-> 0, arg |-> 0]
Ops == {"create", "add", "remove", "role", "mute", "transfer", "leave", "disband"}
Steps == {"idle", "group", "check", "user1", "user2", "invite", "apply"}

Members(g) == DOMAIN role[g]
RoleTables == UNION { [M -> {Member, Admin, Owner}] : M \in SUBSET Users }

TypeOK ==
    /\ groups \in [GroupIds -> {"none", "live", "dead"}]
    /\ limit \in [GroupIds -> Limits]
    /\ owner \in [GroupIds -> Users \cup {0}]
    /\ role \in [GroupIds -> RoleTables]
    /\ muted \in [GroupIds -> SUBSET Users]
    /\ \A g \in GroupIds : muted[g] \subseteq Members(g)
    /\ friends \subseteq Users \X Users
    /\ groupLock \in [GroupIds -> Calls \cup {Free}]
    /\ userLock \in [Users -> Calls \cup {Free}]
    /\ pc \in [Calls -> Steps]
    /\ call \in [Calls -> [op : Ops \cup {"none"}, g : GroupIds \cup {0}, me : Users \cup {0},
                           target : Users \cup {0}, arg : {0, 1}]]
    /\ enqueued \subseteq GroupIds

\* Everybody is everybody's friend before the first group exists.  The limit a
\* group will be created with is chosen here.
Init ==
    /\ groups = [g \in GroupIds |-> "none"]
    /\ limit \in [GroupIds -> Limits]
    /\ owner = [g \in GroupIds |-> 0]
    /\ role = [g \in GroupIds |-> EmptyRoles]
    /\ muted = [g \in GroupIds |-> {}]
    /\ friends = { e \in Users \X Users : e[1] # e[2] }
    /\ groupLock = [g \in GroupIds |-> Free]
    /\ userLock = [u \in Users |-> Free]
    /\ pc = [p \in Calls |-> "idle"]
    /\ call = [p \in Calls |-> NoCall]
    /\ enqueued = {}

(***************************************************************************)
(* A call: its arguments, its locks, its end                               *)
(***************************************************************************)
Goto(p, step) == pc' = [pc EXCEPT ![p] = step]

\* Any user may ask for any operation on any group: on one that is dissolved,
\* or on users that have left meanwhile.
Arrive(p, op, g, u, v, arg) ==
    /\ pc[p] = "idle"
    /\ groups[g] # "none"
    /\ op = "transfer" => u # v
    /\ call' = [call EXCEPT ![p] = [op |-> op, g |-> g, me |-> u, target |-> v, arg |-> arg]]
    /\ Goto(p, "group")
    /\ enqueued' = {}
    /\ UNCHANGED <<data, groupLock, userLock>>

\* Create: locks the creator's row, inserts the group with a new ID and the
\* owner's membership, in one transaction.  No other call knows the ID before.
Create(g, u) ==
    /\ groups[g] = "none" /\ userLock[u] = Free
    /\ groups' = [groups EXCEPT ![g] = "live"]
    /\ owner' = [owner EXCEPT ![g] = u]
    /\ role' = [role EXCEPT ![g] = [v \in {u} |-> Owner]]
    /\ enqueued' = {g}
    /\ UNCHANGED <<limit, muted, friends, groupLock, userLock, pc, call>>

\* Environment: a transaction of Friends makes or ends a friendship.
FriendshipChanges(u, v) ==
    /\ u # v /\ userLock[u] = Free /\ userLock[v] = Free
    /\ \/ friends' = friends \cup {<<u, v>>, <<v, u>>}
       \/ friends' = friends \ {<<u, v>>, <<v, u>>}
    /\ enqueued' = {}
    /\ UNCHANGED <<groups, limit, owner, role, muted, groupLock, userLock, pc, call>>

\* COMMIT or ROLLBACK.
EndCall(p) ==
    /\ groupLock' = [g \in GroupIds |-> IF groupLock[g] = p THEN Free ELSE groupLock[g]]
    /\ userLock' = [u \in Users |-> IF userLock[u] = p THEN Free ELSE userLock[u]]
    /\ Goto(p, "idle")
    /\ call' = [call EXCEPT ![p] = NoCall]

Abort(p) == EndCall(p) /\ enqueued' = {} /\ UNCHANGED data

\* A database error, a cancelled context or a crash, at any point.
Fail(p) == pc[p] # "idle" /\ Abort(p)

LockGroup_PlainRead(p) ==
    /\ pc[p] = "group"
    /\ Goto(p, "check")
    /\ enqueued' = {}
    /\ UNCHANGED <<data, groupLock, userLock, call>>

\* GetGroupForUpdate.
LockGroup(p) ==
    /\ pc[p] = "group"
    /\ groupLock[call[p].g] = Free
    /\ groupLock' = [groupLock EXCEPT ![call[p].g] = p]
    /\ Goto(p, "check")
    /\ enqueued' = {}
    /\ UNCHANGED <<data, userLock, call>>

(***************************************************************************)
(* The checks                                                              *)
(***************************************************************************)
CanManage(g, u) == u \in Members(g) /\ (owner[g] = u \/ role[g][u] = Admin)

Outranks_NoPeerRule(g, u, v) == v # owner[g]

\* Whom an operator may remove or mute: never the owner, and a peer only as
\* the owner.
Outranks(g, u, v) == v # owner[g] /\ (owner[g] = u \/ role[g][v] = Member)

\* Whether the operation may go on after the reads under the group lock.  A
\* dissolved group is refused by all; Disband answers it with success and
\* changes nothing.
Permitted(c) ==
    LET g == c.g IN
    /\ groups[g] = "live"
    /\ c.op = "add" => CanManage(g, c.me) /\ c.target \notin Members(g)
    /\ c.op \in {"remove", "mute"} => /\ CanManage(g, c.me) /\ c.target \in Members(g)
                                      /\ Outranks(g, c.me, c.target)
    /\ c.op = "role" => /\ c.me \in Members(g) /\ owner[g] = c.me
                        /\ c.target \in Members(g) /\ c.target # owner[g]
    /\ c.op = "transfer" => /\ c.me \in Members(g) /\ owner[g] = c.me
                            /\ c.target \in Members(g)
    /\ c.op = "leave" => c.me \in Members(g) /\ owner[g] # c.me
    /\ c.op = "disband" => owner[g] = c.me

Check(p) ==
    /\ pc[p] = "check"
    /\ IF Permitted(call[p])
         THEN /\ Goto(p, IF call[p].op = "add" THEN "user1" ELSE "apply")
              /\ enqueued' = {}
              /\ UNCHANGED <<data, groupLock, userLock, call>>
         ELSE Abort(p)

\* sort.Slice(ids, ...)
Ordered(c) == IF c.me < c.target THEN <<c.me, c.target>> ELSE <<c.target, c.me>>

LockUsers_PlainRead(p) ==
    /\ pc[p] = "user1"
    /\ Goto(p, "invite")
    /\ enqueued' = {}
    /\ UNCHANGED <<data, groupLock, userLock, call>>

\* LockGroupUsers: both users in ascending ID order.
LockUsers(p) ==
    \E n \in {1, 2} :
        LET u == Ordered(call[p])[n] IN
        /\ pc[p] = IF n = 1 THEN "user1" ELSE "user2"
        /\ userLock[u] = Free
        /\ userLock' = [userLock EXCEPT ![u] = p]
        /\ Goto(p, IF n = 1 THEN "user2" ELSE "invite")
        /\ enqueued' = {}
        /\ UNCHANGED <<data, groupLock, call>>

HasRoom_OffByOne(g) == Cardinality(Members(g)) <= limit[g]

HasRoom(g) == Cardinality(Members(g)) < limit[g]

\* IsFriendPair and CountGroupMembers.
CheckInvite(p) ==
    LET c == call[p] IN
    /\ pc[p] = "invite"
    /\ IF {<<c.me, c.target>>, <<c.target, c.me>>} \cap friends # {} /\ HasRoom(c.g)
         THEN /\ Goto(p, "apply")
              /\ enqueued' = {}
              /\ UNCHANGED <<data, groupLock, userLock, call>>
         ELSE Abort(p)

(***************************************************************************)
(* The writes, each with its outbox event and the commit                   *)
(***************************************************************************)
Without(g, v) == [u \in Members(g) \ {v} |-> role[g][u]]

Apply(p, op) == pc[p] = "apply" /\ call[p].op = op /\ EndCall(p)

AddMember(p) ==
    LET c == call[p] IN
    /\ Apply(p, "add")
    /\ role' = [role EXCEPT ![c.g] =
                   [u \in Members(c.g) \cup {c.target} |->
                       IF u = c.target THEN Member ELSE role[c.g][u]]]
    /\ enqueued' = {c.g}
    /\ UNCHANGED <<groups, limit, owner, muted, friends>>

Drop(g, v) ==
    /\ role' = [role EXCEPT ![g] = Without(g, v)]
    /\ muted' = [muted EXCEPT ![g] = @ \ {v}]
    /\ enqueued' = {g}
    /\ UNCHANGED <<groups, limit, owner, friends>>

RemoveMember(p) == Apply(p, "remove") /\ Drop(call[p].g, call[p].target)

Leave(p) == Apply(p, "leave") /\ Drop(call[p].g, call[p].me)

\* A role the member already has is a success without a write or an event.
UpdateRole(p) ==
    LET c == call[p] IN
    /\ Apply(p, "role")
    /\ role' = [role EXCEPT ![c.g][c.target] = c.arg]
    /\ enqueued' = IF role[c.g][c.target] = c.arg THEN {} ELSE {c.g}
    /\ UNCHANGED <<groups, limit, owner, muted, friends>>

MuteMember_NoEvent(p) ==
    LET c == call[p] IN
    /\ Apply(p, "mute")
    /\ muted' = [muted EXCEPT ![c.g] = IF c.arg = 1 THEN @ \cup {c.target} ELSE @ \ {c.target}]
    /\ enqueued' = {}
    /\ UNCHANGED <<groups, limit, owner, role, friends>>

\* arg = 1 sets a deadline, arg = 0 clears it; the deadline a member already
\* has is a success without an event, a new deadline is not.
MuteMember(p) ==
    LET c == call[p] IN
    /\ Apply(p, "mute")
    /\ muted' = [muted EXCEPT ![c.g] = IF c.arg = 1 THEN @ \cup {c.target} ELSE @ \ {c.target}]
    /\ \/ enqueued' = {c.g}
       \/ enqueued' = {} /\ ((c.arg = 1) <=> (c.target \in muted[c.g]))
    /\ UNCHANGED <<groups, limit, owner, role, friends>>

TransferOwnership_KeepsMute(p) ==
    LET c == call[p] IN
    /\ Apply(p, "transfer")
    /\ owner' = [owner EXCEPT ![c.g] = c.target]
    /\ role' = [role EXCEPT ![c.g][c.me] = Member, ![c.g][c.target] = Owner]
    /\ enqueued' = {c.g}
    /\ UNCHANGED <<groups, limit, muted, friends>>

\* owner_id and both roles move together, and the new owner is unmuted.
TransferOwnership(p) ==
    LET c == call[p] IN
    /\ Apply(p, "transfer")
    /\ owner' = [owner EXCEPT ![c.g] = c.target]
    /\ role' = [role EXCEPT ![c.g][c.me] = Member, ![c.g][c.target] = Owner]
    /\ muted' = [muted EXCEPT ![c.g] = @ \ {c.target}]
    /\ enqueued' = {c.g}
    /\ UNCHANGED <<groups, limit, friends>>

\* The tombstone is written and the members and the group are deleted.
Disband(p) ==
    LET g == call[p].g IN
    /\ Apply(p, "disband")
    /\ groups' = [groups EXCEPT ![g] = "dead"]
    /\ owner' = [owner EXCEPT ![g] = 0]
    /\ role' = [role EXCEPT ![g] = EmptyRoles]
    /\ muted' = [muted EXCEPT ![g] = {}]
    /\ enqueued' = {g}
    /\ UNCHANGED <<limit, friends>>

(***************************************************************************)
(* The specification                                                       *)
(***************************************************************************)
Proceed(p) ==
    \/ LockGroup(p) \/ Check(p) \/ LockUsers(p) \/ CheckInvite(p)
    \/ AddMember(p) \/ RemoveMember(p) \/ Leave(p) \/ UpdateRole(p)
    \/ MuteMember(p) \/ TransferOwnership(p) \/ Disband(p)

Next ==
    \/ \E p \in Calls :
           \/ \E g \in GroupIds : \E u, v \in Users :
                  \/ \E op \in {"add", "remove", "transfer"} : Arrive(p, op, g, u, v, 0)
                  \/ \E op \in {"role", "mute"}, arg \in {0, 1} : Arrive(p, op, g, u, v, arg)
           \/ \E g \in GroupIds : \E u \in Users :
                  \E op \in {"leave", "disband"} : Arrive(p, op, g, u, u, 0)
           \/ Proceed(p)
           \/ Fail(p)
    \/ \E g \in GroupIds : \E u \in Users : Create(g, u)
    \/ \E e \in ChangingPairs : FriendshipChanges(e[1], e[2])

Spec == Init /\ [][Next]_vars

(***************************************************************************)
(* Properties                                                              *)
(***************************************************************************)

\* groups.owner_id and the role column never disagree: a live group has one
\* member with the owner's role, the one owner_id names, who is not muted;
\* transfer, leave, removal, demotion and mute racing each other cannot leave
\* a group without a usable owner.
OneUsableOwner ==
    \A g \in GroupIds : groups[g] = "live" =>
        /\ owner[g] \in Members(g)
        /\ \A u \in Members(g) : role[g][u] = Owner <=> u = owner[g]
        /\ owner[g] \notin muted[g]

\* Concurrent invitations that each counted the members never exceed the limit.
WithinCapacity == \A g \in GroupIds : Cardinality(Members(g)) <= limit[g]

\* A dissolved group keeps no member, also when an invitation was under way.
DissolvedEmpty == \A g \in GroupIds : groups[g] # "live" => Members(g) = {}

\* The three tables agree: every column has its type, a mute belongs to a member,
\* and a group that is gone has no members.
RowsAgree == TypeOK /\ DissolvedEmpty

\* v is put out of the live group g by someone else only if that operator is, at
\* the commit, its owner, or an admin and v an ordinary member.
Authorised(g, v) ==
    \E p \in Calls :
        LET u == call[p].me IN
        /\ pc[p] = "apply" /\ call[p].g = g
        /\ v # owner[g]
        /\ \/ u = v \/ u = owner[g]
           \/ u \in Members(g) /\ role[g][u] = Admin /\ role[g][v] = Member

\* No member is removed with an authority that was lost while the call waited
\* for the group row.
RemovalAuthorised ==
    [][\A g \in GroupIds : \A v \in Members(g) \ Members(g)' :
           groups'[g] = "live" => Authorised(g, v)]_vars

\* An owner or admin of g who invites is at that moment a friend of v.
Invited(g, v) ==
    \E p \in Calls :
        /\ pc[p] = "apply" /\ call[p].op = "add"
        /\ CanManage(g, call[p].me)
        /\ <<call[p].me, v>> \in friends

\* A user joins a group only so: a friendship deleted or a demotion committed
\* while the invitation waited stops it.
InvitedByFriend ==
    [][\A g \in GroupIds : \A v \in Members(g)' \ Members(g) :
           groups[g] = "live" => Invited(g, v)]_vars

\* What CacheTruth relies on: a transaction that changes what the member
\* projection of a group shows puts the group into the outbox.
ChangesEnqueued ==
    [][\A g \in GroupIds :
           <<groups[g], role[g], muted[g]>>' # <<groups[g], role[g], muted[g]>>
               => g \in enqueued']_vars

=============================================================================
