---------------------------- MODULE GroupsProofs ----------------------------
(***************************************************************************)
(* Groups for every finite set of users and every set of groups and calls. *)
(* GroupInv adds to the properties what their proofs need: friend rows come*)
(* in pairs (FriendRows); a call has the arguments its place needs         *)
(* (Arguments); the calls past LockGroup, and only they, hold their group's*)
(* row (GroupLocks), an invitation past LockUsers holds its two users      *)
(* (UserLocks); and what the checks have found is still true when the call *)
(* writes (Checked, Welcome).                                              *)
(***************************************************************************)
EXTENDS Groups, FiniteSetTheorems, TLAPS

\* Friendship rows come in pairs.
FriendRows == \A u, v \in Users : <<u, v>> \in friends => <<v, u>> \in friends

\* The places at which a call holds the group row.
InGroup == {"check", "user1", "user2", "invite", "apply"}

\* A call names a group and users; only AddMember locks users.
ArgumentsOf(p) ==
    pc[p] # "idle" =>
        /\ call[p].op \in Ops \ {"create"}
        /\ call[p].g \in GroupIds /\ call[p].me \in Users /\ call[p].target \in Users
        /\ call[p].op = "transfer" => call[p].me # call[p].target
        /\ call[p].op = "leave" => call[p].me = call[p].target
        /\ pc[p] \in {"user1", "user2", "invite"} => call[p].op = "add"

\* Every call has the arguments its place needs.
Arguments == \A p \in Calls : ArgumentsOf(p)

\* The group locks are the ones the calls hold.
GroupLocks ==
    \A p \in Calls : \A g \in GroupIds :
        groupLock[g] = p <=> pc[p] \in InGroup /\ call[p].g = g

\* An invitation at the place where it holds both users.
Inviting(p) == pc[p] = "invite" \/ (pc[p] = "apply" /\ call[p].op = "add")

\* The user rows that an invitation has locked.
UsersOf(p) ==
    /\ pc[p] = "user2" => userLock[Ordered(call[p])[1]] = p
    /\ Inviting(p) => userLock[call[p].me] = p /\ userLock[call[p].target] = p

\* Every invitation holds its user rows.
UserLocks == \A p \in Calls : UsersOf(p)

\* What Check found.
Checked == \A p \in Calls : pc[p] \in InGroup \ {"check"} => Permitted(call[p])

\* What CheckInvite found.
WelcomeOf(p) ==
    pc[p] = "apply" /\ call[p].op = "add" =>
        <<call[p].me, call[p].target>> \in friends /\ HasRoom(call[p].g)

\* What every invitation found still holds.
Welcome == \A p \in Calls : WelcomeOf(p)

\* The inductive invariant.
GroupInv ==
    /\ TypeOK /\ DissolvedEmpty /\ OneUsableOwner /\ WithinCapacity /\ FriendRows
    /\ Arguments /\ GroupLocks /\ UserLocks /\ Checked /\ Welcome

(***************************************************************************)
(* Groups and their tables                                                 *)
(***************************************************************************)

\* The types of the tables.
DataTyped ==
    /\ groups \in [GroupIds -> {"none", "live", "dead"}]
    /\ limit \in [GroupIds -> Limits]
    /\ owner \in [GroupIds -> Users \cup {0}]
    /\ role \in [GroupIds -> RoleTables]
    /\ muted \in [GroupIds -> SUBSET Users]
    /\ friends \subseteq Users \X Users

\* What the properties say of one group.
GoodGroup(g) ==
    /\ muted[g] \subseteq Members(g)
    /\ groups[g] # "live" => Members(g) = {}
    /\ groups[g] = "live" =>
           /\ owner[g] \in Members(g)
           /\ \A u \in Members(g) : role[g][u] = Owner <=> u = owner[g]
           /\ owner[g] \notin muted[g]
    /\ Cardinality(Members(g)) <= limit[g]

\* Only g is written.
OnlyGroup(g) ==
    /\ \A h \in GroupIds \ {g} : /\ groups'[h] = groups[h] /\ owner'[h] = owner[h]
                                 /\ role'[h] = role[h] /\ muted'[h] = muted[h]
    /\ UNCHANGED <<limit, friends>>

\* A function from users to roles is a table of members.
LEMMA TableOf ==
  ASSUME NEW D \in SUBSET Users, NEW f \in [D -> {Member, Admin, Owner}]
  PROVE  f \in RoleTables /\ DOMAIN f = D
  BY DEF RoleTables

\* The members of a group are finitely many users with roles.
LEMMA MembersTyped ==
  ASSUME DataTyped, NEW g \in GroupIds
  PROVE  /\ Members(g) \subseteq Users /\ IsFiniteSet(Members(g))
         /\ Cardinality(Members(g)) \in Nat
         /\ role[g] \in [Members(g) -> {Member, Admin, Owner}]
         /\ limit[g] \in Nat \ {0}
<1>1. role[g] \in RoleTables
  BY DEF DataTyped
<1>2. PICK M \in SUBSET Users : role[g] \in [M -> {Member, Admin, Owner}]
  BY <1>1 DEF RoleTables
<1>3. Members(g) = M
  BY <1>2 DEF Members
<1>4. IsFiniteSet(M)
  BY <1>2, ConstantsAssumption, FS_Subset
<1>5. Cardinality(M) \in Nat
  BY <1>4, FS_CardinalityType
<1>6. limit[g] \in Nat \ {0}
  BY ConstantsAssumption DEF DataTyped
<1> QED BY <1>2, <1>3, <1>4, <1>5, <1>6

\* The invariant, group by group.
LEMMA GroupWise ==
  ASSUME GroupInv
  PROVE  TypeOK /\ DataTyped /\ \A g \in GroupIds : GoodGroup(g)
  BY DEF GroupInv, TypeOK, DataTyped, GoodGroup, DissolvedEmpty, OneUsableOwner, WithinCapacity

\* A call that writes holds its group's row, and what Check found still holds.
LEMMA WriterKnows ==
  ASSUME GroupInv, NEW p \in Calls, pc[p] = "apply"
  PROVE  LET c == call[p] IN
         /\ c.g \in GroupIds /\ c.me \in Users /\ c.target \in Users
         /\ groupLock[c.g] = p /\ Permitted(c) /\ groups[c.g] = "live"
         /\ c.op = "transfer" => c.me # c.target
         /\ c.op = "leave" => c.me = c.target
         /\ c.op = "add" => <<c.me, c.target>> \in friends /\ HasRoom(c.g)
<1>0. Arguments /\ GroupLocks /\ Checked /\ Welcome
  BY DEF GroupInv
<1>1. ArgumentsOf(p) /\ WelcomeOf(p)
  BY <1>0 DEF Arguments, Welcome
<1>2. Permitted(call[p])
  BY <1>0 DEF Checked, InGroup
<1>3. groupLock[call[p].g] = p
  BY <1>0, <1>1 DEF GroupLocks, ArgumentsOf, InGroup
<1> QED BY <1>1, <1>2, <1>3 DEF ArgumentsOf, WelcomeOf, Permitted

(***************************************************************************)
(* The writes                                                              *)
(***************************************************************************)

\* A new member has the role of a member, and CountGroupMembers was below the
\* limit.
LEMMA AddKeeps ==
  ASSUME GroupInv, NEW p \in Calls, AddMember(p), NEW g, g = call[p].g
  PROVE  DataTyped' /\ OnlyGroup(g) /\ GoodGroup(g)'
<1> DEFINE v == call[p].target
           D == Members(g) \cup {v}
           f == [u \in D |-> IF u = v THEN Member ELSE role[g][u]]
<1>0. /\ pc[p] = "apply" /\ call[p].op = "add"
      /\ role' = [role EXCEPT ![g] = f] /\ UNCHANGED <<groups, limit, owner, muted, friends>>
  BY DEF AddMember, Apply
<1>1. /\ g \in GroupIds /\ v \in Users /\ groups[g] = "live" /\ v \notin Members(g) /\ HasRoom(g)
  BY <1>0, WriterKnows DEF Permitted
<1>2. DataTyped /\ GoodGroup(g)
  BY <1>1, GroupWise
<1>3. /\ Members(g) \subseteq Users /\ IsFiniteSet(Members(g))
      /\ Cardinality(Members(g)) \in Nat /\ limit[g] \in Nat
      /\ role[g] \in [Members(g) -> {Member, Admin, Owner}]
  BY <1>1, <1>2, MembersTyped
<1>4. f \in [D -> {Member, Admin, Owner}] /\ D \in SUBSET Users
  BY <1>1, <1>3
<1>5. f \in RoleTables /\ DOMAIN f = D
  BY <1>4, TableOf
<1>6. /\ f[v] = Member
      /\ \A u \in Members(g) : f[u] = role[g][u]
  BY <1>1
<1>7. Cardinality(D) = Cardinality(Members(g)) + 1
  BY <1>1, <1>3, FS_AddElement
<1>8. Member # Owner
  BY DEF Member, Owner
<1> HIDE DEF f, v
<1>9. DataTyped' /\ role'[g] = f
  BY <1>0, <1>1, <1>2, <1>5 DEF DataTyped
<1>10. OnlyGroup(g)
  BY <1>0, <1>2 DEF OnlyGroup, DataTyped
<1>11. Members(g)' = D
  BY <1>5, <1>9 DEF Members
<1>12. Cardinality(Members(g)') <= limit'[g]
  BY <1>0, <1>1, <1>3, <1>7, <1>11 DEF HasRoom
<1>13. \A u \in D : f[u] = Owner <=> u = owner[g]
  BY <1>1, <1>2, <1>6, <1>8 DEF GoodGroup
<1>14. GoodGroup(g)'
  BY <1>0, <1>1, <1>2, <1>9, <1>11, <1>12, <1>13 DEF GoodGroup
<1> QED BY <1>9, <1>10, <1>14

\* A member who is not the owner goes, with its mute.
LEMMA DropKeeps ==
  ASSUME GroupInv, NEW g \in GroupIds, NEW v, v # owner[g], groups[g] = "live", Drop(g, v)
  PROVE  DataTyped' /\ OnlyGroup(g) /\ GoodGroup(g)' /\ Members(g)' = Members(g) \ {v}
<1> DEFINE D == Members(g) \ {v}
           f == [u \in D |-> role[g][u]]
<1>0. /\ role' = [role EXCEPT ![g] = f] /\ muted' = [muted EXCEPT ![g] = muted[g] \ {v}]
      /\ UNCHANGED <<groups, limit, owner, friends>>
  BY DEF Drop, Without
<1>2. DataTyped /\ GoodGroup(g)
  BY GroupWise
<1>3. /\ Members(g) \subseteq Users /\ IsFiniteSet(Members(g))
      /\ Cardinality(Members(g)) \in Nat /\ limit[g] \in Nat
      /\ role[g] \in [Members(g) -> {Member, Admin, Owner}]
  BY <1>2, MembersTyped
<1>4. f \in [D -> {Member, Admin, Owner}] /\ D \in SUBSET Users
  BY <1>3
<1>5. f \in RoleTables /\ DOMAIN f = D
  BY <1>4, TableOf
<1>6. \A u \in D : f[u] = role[g][u]
  OBVIOUS
<1>7. Cardinality(D) <= Cardinality(Members(g)) /\ Cardinality(D) \in Nat
  BY <1>3, FS_Subset, FS_CardinalityType
<1> HIDE DEF f
<1>9. DataTyped' /\ role'[g] = f /\ muted'[g] = muted[g] \ {v}
  <2>1. role' \in [GroupIds -> RoleTables] /\ role'[g] = f
    BY <1>0, <1>2, <1>5 DEF DataTyped
  <2>2. muted' \in [GroupIds -> SUBSET Users] /\ muted'[g] = muted[g] \ {v}
    BY <1>0, <1>2 DEF DataTyped
  <2> QED BY <1>0, <1>2, <2>1, <2>2 DEF DataTyped
<1>10. OnlyGroup(g)
  BY <1>0, <1>2 DEF OnlyGroup, DataTyped
<1>11. Members(g)' = D
  BY <1>5, <1>9 DEF Members
<1>12. Cardinality(Members(g)') <= limit'[g]
  BY <1>0, <1>2, <1>3, <1>7, <1>11 DEF GoodGroup
<1>14. GoodGroup(g)'
  BY <1>0, <1>2, <1>6, <1>9, <1>11, <1>12 DEF GoodGroup
<1> QED BY <1>9, <1>10, <1>11, <1>14

\* RemoveMember and Leave never take the owner.
LEMMA RemoveKeeps ==
  ASSUME GroupInv, NEW p \in Calls, RemoveMember(p) \/ Leave(p), NEW g, g = call[p].g
  PROVE  DataTyped' /\ OnlyGroup(g) /\ GoodGroup(g)'
<1>1. CASE RemoveMember(p)
  <2>1. pc[p] = "apply" /\ call[p].op = "remove" /\ Drop(g, call[p].target)
    BY <1>1 DEF RemoveMember, Apply
  <2>2. g \in GroupIds /\ groups[g] = "live" /\ call[p].target # owner[g]
    BY <2>1, WriterKnows DEF Permitted, Outranks
  <2> QED BY <2>1, <2>2, DropKeeps
<1>2. CASE Leave(p)
  <2>1. pc[p] = "apply" /\ call[p].op = "leave" /\ Drop(g, call[p].me)
    BY <1>2 DEF Leave, Apply
  <2>2. g \in GroupIds /\ groups[g] = "live" /\ call[p].me # owner[g]
    BY <2>1, WriterKnows DEF Permitted
  <2> QED BY <2>1, <2>2, DropKeeps
<1> QED BY <1>1, <1>2

\* The roles f, the owner o and the mutes m are written for the members of g: all
\* that UpdateRole, TransferOwnership and MuteMember do.
NewRoles(g, f, o, m) ==
    /\ f \in [Members(g) -> {Member, Admin, Owner}] /\ o \in Members(g)
    /\ m \in SUBSET Members(g) /\ o \notin m
    /\ \A u \in Members(g) : f[u] = Owner <=> u = o
    /\ role' = [role EXCEPT ![g] = f] /\ owner' = [owner EXCEPT ![g] = o]
    /\ muted' = [muted EXCEPT ![g] = m] /\ UNCHANGED <<groups, limit, friends>>

\* A change of roles that keeps the members and names one owner, not muted,
\* leaves a good group.
LEMMA RolesKeep ==
  ASSUME GroupInv, NEW g \in GroupIds, groups[g] = "live",
         NEW f, NEW o, NEW m, NewRoles(g, f, o, m)
  PROVE  DataTyped' /\ OnlyGroup(g) /\ GoodGroup(g)' /\ Members(g)' = Members(g)
<1>0. /\ f \in [Members(g) -> {Member, Admin, Owner}] /\ o \in Members(g)
      /\ m \in SUBSET Members(g) /\ o \notin m
      /\ \A u \in Members(g) : f[u] = Owner <=> u = o
      /\ role' = [role EXCEPT ![g] = f] /\ owner' = [owner EXCEPT ![g] = o]
      /\ muted' = [muted EXCEPT ![g] = m] /\ UNCHANGED <<groups, limit, friends>>
  BY DEF NewRoles
<1>1. DataTyped /\ GoodGroup(g)
  BY GroupWise
<1>2. Members(g) \subseteq Users /\ limit[g] \in Nat
  BY <1>1, MembersTyped
<1>3. f \in RoleTables /\ DOMAIN f = Members(g)
  BY <1>0, <1>2, TableOf
<1>4. role' \in [GroupIds -> RoleTables] /\ role'[g] = f
  BY <1>0, <1>1, <1>3 DEF DataTyped
<1>5. muted' \in [GroupIds -> SUBSET Users] /\ muted'[g] = m
  BY <1>0, <1>1, <1>2 DEF DataTyped
<1>6. owner' \in [GroupIds -> Users \cup {0}] /\ owner'[g] = o
  BY <1>0, <1>1, <1>2 DEF DataTyped
<1>7. DataTyped'
  BY <1>0, <1>1, <1>4, <1>5, <1>6 DEF DataTyped
<1>8. OnlyGroup(g)
  BY <1>0, <1>1 DEF OnlyGroup, DataTyped
<1>9. Members(g)' = Members(g)
  BY <1>3, <1>4 DEF Members
<1>10. GoodGroup(g)'
  BY <1>0, <1>1, <1>4, <1>5, <1>6, <1>9 DEF GoodGroup
<1> QED BY <1>7, <1>8, <1>9, <1>10

\* UpdateRole leaves the owner alone.
LEMMA UpdateKeeps ==
  ASSUME GroupInv, NEW p \in Calls, UpdateRole(p), NEW g, g = call[p].g
  PROVE  DataTyped' /\ OnlyGroup(g) /\ GoodGroup(g)' /\ Members(g)' = Members(g)
<1> DEFINE v == call[p].target
           arg == call[p].arg
           f == [role[g] EXCEPT ![v] = arg]
<1>0. /\ pc[p] = "apply" /\ call[p].op = "role"
      /\ role' = [role EXCEPT ![g][v] = arg] /\ UNCHANGED <<groups, limit, owner, muted, friends>>
  BY DEF UpdateRole, Apply
<1>1. /\ g \in GroupIds /\ v \in Users /\ groups[g] = "live" /\ v \in Members(g) /\ v # owner[g]
      /\ arg \in {Member, Admin}
  <2>1. call[p].arg \in {0, 1}
    BY GroupWise DEF TypeOK
  <2> QED BY <1>0, <2>1, WriterKnows DEF Permitted, Member, Admin
<1>2. DataTyped /\ GoodGroup(g)
  BY <1>1, GroupWise
<1>3. role[g] \in [Members(g) -> {Member, Admin, Owner}]
  BY <1>1, <1>2, MembersTyped
<1>4. f \in [Members(g) -> {Member, Admin, Owner}]
  BY <1>1, <1>3
<1>5. \A u \in Members(g) : f[u] = Owner <=> u = owner[g]
  BY <1>1, <1>2, <1>3 DEF GoodGroup, Member, Admin, Owner
<1>6. /\ role' = [role EXCEPT ![g] = f] /\ owner' = [owner EXCEPT ![g] = owner[g]]
      /\ muted' = [muted EXCEPT ![g] = muted[g]]
  BY <1>0, <1>2 DEF DataTyped
<1> HIDE DEF f
<1>8. PICK ff, o, mm : ff = f /\ o = owner[g] /\ mm = muted[g]
  OBVIOUS
<1>9. /\ ff \in [Members(g) -> {Member, Admin, Owner}] /\ o \in Members(g)
      /\ mm \in SUBSET Members(g) /\ o \notin mm
      /\ \A w \in Members(g) : ff[w] = Owner <=> w = o
  BY <1>1, <1>2, <1>4, <1>5, <1>8 DEF GoodGroup
<1>10. /\ role' = [role EXCEPT ![g] = ff] /\ owner' = [owner EXCEPT ![g] = o]
       /\ muted' = [muted EXCEPT ![g] = mm] /\ UNCHANGED <<groups, limit, friends>>
  BY <1>0, <1>5, <1>6, <1>8
<1>11. NewRoles(g, ff, o, mm)
  BY <1>9, <1>10 DEF NewRoles
<1> QED BY <1>1, <1>11, RolesKeep

\* MuteMember leaves the owner alone.
LEMMA MuteKeeps ==
  ASSUME GroupInv, NEW p \in Calls, MuteMember(p), NEW g, g = call[p].g
  PROVE  DataTyped' /\ OnlyGroup(g) /\ GoodGroup(g)' /\ Members(g)' = Members(g)
<1> DEFINE v == call[p].target
           m == IF call[p].arg = 1 THEN muted[g] \cup {v} ELSE muted[g] \ {v}
<1>0. /\ pc[p] = "apply" /\ call[p].op = "mute"
      /\ muted' = [muted EXCEPT ![g] = m] /\ UNCHANGED <<groups, limit, owner, role, friends>>
  BY DEF MuteMember, Apply
<1>1. g \in GroupIds /\ groups[g] = "live" /\ v \in Members(g) /\ v # owner[g]
  BY <1>0, WriterKnows DEF Permitted, Outranks
<1>2. DataTyped /\ GoodGroup(g)
  BY <1>1, GroupWise
<1>3. role[g] \in [Members(g) -> {Member, Admin, Owner}]
  BY <1>1, <1>2, MembersTyped
<1>4. m \in SUBSET Members(g) /\ owner[g] \notin m
  BY <1>1, <1>2 DEF GoodGroup
<1>5. role' = [role EXCEPT ![g] = role[g]] /\ owner' = [owner EXCEPT ![g] = owner[g]]
  BY <1>0, <1>2 DEF DataTyped
<1> HIDE DEF m
<1>8. PICK ff, o, mm : ff = role[g] /\ o = owner[g] /\ mm = m
  OBVIOUS
<1>9. /\ ff \in [Members(g) -> {Member, Admin, Owner}] /\ o \in Members(g)
      /\ mm \in SUBSET Members(g) /\ o \notin mm
      /\ \A w \in Members(g) : ff[w] = Owner <=> w = o
  BY <1>1, <1>2, <1>3, <1>4, <1>8 DEF GoodGroup
<1>10. /\ role' = [role EXCEPT ![g] = ff] /\ owner' = [owner EXCEPT ![g] = o]
       /\ muted' = [muted EXCEPT ![g] = mm] /\ UNCHANGED <<groups, limit, friends>>
  BY <1>0, <1>5, <1>8
<1>11. NewRoles(g, ff, o, mm)
  BY <1>9, <1>10 DEF NewRoles
<1> QED BY <1>1, <1>11, RolesKeep

\* TransferOwnership moves owner_id and both roles, and unmutes the new owner.
LEMMA TransferKeeps ==
  ASSUME GroupInv, NEW p \in Calls, TransferOwnership(p), NEW g, g = call[p].g
  PROVE  DataTyped' /\ OnlyGroup(g) /\ GoodGroup(g)' /\ Members(g)' = Members(g)
<1> DEFINE u == call[p].me
           v == call[p].target
           f == [role[g] EXCEPT ![u] = Member, ![v] = Owner]
           m == muted[g] \ {v}
<1>0. /\ pc[p] = "apply" /\ call[p].op = "transfer"
      /\ role' = [role EXCEPT ![g][u] = Member, ![g][v] = Owner]
      /\ owner' = [owner EXCEPT ![g] = v] /\ muted' = [muted EXCEPT ![g] = m]
      /\ UNCHANGED <<groups, limit, friends>>
  BY DEF TransferOwnership, Apply
<1>1. /\ g \in GroupIds /\ groups[g] = "live" /\ u # v
      /\ u \in Members(g) /\ u = owner[g] /\ v \in Members(g)
  BY <1>0, WriterKnows DEF Permitted
<1>2. DataTyped /\ GoodGroup(g)
  BY <1>1, GroupWise
<1>3. role[g] \in [Members(g) -> {Member, Admin, Owner}]
  BY <1>1, <1>2, MembersTyped
<1>4. f \in [Members(g) -> {Member, Admin, Owner}]
  BY <1>1, <1>3
<1>5. \A w \in Members(g) : f[w] = Owner <=> w = v
  BY <1>1, <1>2, <1>3 DEF GoodGroup, Member, Admin, Owner
<1>6. role' = [role EXCEPT ![g] = f]
  BY <1>0, <1>1, <1>2 DEF DataTyped
<1>7. m \in SUBSET Members(g) /\ v \notin m
  BY <1>2 DEF GoodGroup
<1> HIDE DEF f, m
<1>8. PICK ff, o, mm : ff = f /\ o = v /\ mm = m
  OBVIOUS
<1>9. /\ ff \in [Members(g) -> {Member, Admin, Owner}] /\ o \in Members(g)
      /\ mm \in SUBSET Members(g) /\ o \notin mm
      /\ \A w \in Members(g) : ff[w] = Owner <=> w = o
  BY <1>1, <1>4, <1>5, <1>7, <1>8
<1>10. /\ role' = [role EXCEPT ![g] = ff] /\ owner' = [owner EXCEPT ![g] = o]
       /\ muted' = [muted EXCEPT ![g] = mm] /\ UNCHANGED <<groups, limit, friends>>
  BY <1>0, <1>6, <1>8
<1>11. NewRoles(g, ff, o, mm)
  BY <1>9, <1>10 DEF NewRoles
<1> QED BY <1>1, <1>11, RolesKeep

\* Disband leaves a tombstone without members, Create a group of one.
LEMMA DisbandKeeps ==
  ASSUME GroupInv, NEW p \in Calls, Disband(p), NEW g, g = call[p].g
  PROVE  DataTyped' /\ OnlyGroup(g) /\ GoodGroup(g)' /\ groups'[g] = "dead"
<1>0. /\ pc[p] = "apply"
      /\ groups' = [groups EXCEPT ![g] = "dead"] /\ owner' = [owner EXCEPT ![g] = 0]
      /\ role' = [role EXCEPT ![g] = EmptyRoles] /\ muted' = [muted EXCEPT ![g] = {}]
      /\ UNCHANGED <<limit, friends>>
  BY DEF Disband, Apply
<1>1. g \in GroupIds
  BY <1>0, WriterKnows
<1>2. DataTyped /\ limit[g] \in Nat
  BY <1>1, GroupWise, MembersTyped
<1>3. EmptyRoles \in RoleTables /\ DOMAIN EmptyRoles = {}
  <2>1. EmptyRoles \in [{} -> {Member, Admin, Owner}]
    BY DEF EmptyRoles
  <2> QED BY <2>1, TableOf
<1>4. DataTyped' /\ groups'[g] = "dead" /\ role'[g] = EmptyRoles /\ muted'[g] = {}
  BY <1>0, <1>1, <1>2, <1>3 DEF DataTyped
<1>5. OnlyGroup(g)
  BY <1>0, <1>2 DEF OnlyGroup, DataTyped
<1>6. Members(g)' = {}
  BY <1>3, <1>4 DEF Members
<1>7. Cardinality(Members(g)') <= limit'[g]
  BY <1>0, <1>2, <1>6, FS_EmptySet
<1>8. GoodGroup(g)'
  BY <1>4, <1>6, <1>7 DEF GoodGroup
<1> QED BY <1>4, <1>5, <1>8

\* Create makes a group of one, its owner.
LEMMA CreateKeeps ==
  ASSUME GroupInv, NEW g \in GroupIds, NEW u \in Users, Create(g, u)
  PROVE  DataTyped' /\ OnlyGroup(g) /\ GoodGroup(g)'
<1> DEFINE f == [v \in {u} |-> Owner]
<1>0. /\ groups[g] = "none" /\ groups' = [groups EXCEPT ![g] = "live"]
      /\ owner' = [owner EXCEPT ![g] = u] /\ role' = [role EXCEPT ![g] = f]
      /\ UNCHANGED <<limit, muted, friends>>
  BY DEF Create
<1>1. DataTyped /\ GoodGroup(g) /\ limit[g] \in Nat \ {0}
  BY GroupWise, MembersTyped
<1>2. muted[g] = {}
  BY <1>0, <1>1 DEF GoodGroup
<1>3. f \in RoleTables /\ DOMAIN f = {u} /\ f[u] = Owner
  <2>1. f \in [{u} -> {Member, Admin, Owner}] /\ f[u] = Owner
    OBVIOUS
  <2> QED BY <2>1, TableOf
<1> HIDE DEF f
<1>4. DataTyped'
  BY <1>0, <1>1, <1>3 DEF DataTyped
<1>5. role'[g] = f /\ owner'[g] = u /\ groups'[g] = "live" /\ muted'[g] = {}
  BY <1>0, <1>1, <1>2 DEF DataTyped
<1>6. OnlyGroup(g)
  BY <1>0, <1>1 DEF OnlyGroup, DataTyped
<1>7. Members(g)' = {u}
  BY <1>3, <1>5 DEF Members
<1>8. Cardinality(Members(g)') <= limit'[g]
  BY <1>0, <1>1, <1>7, FS_Singleton
<1>9. GoodGroup(g)'
  BY <1>3, <1>5, <1>7, <1>8 DEF GoodGroup
<1> QED BY <1>4, <1>6, <1>9

(***************************************************************************)
(* Steps                                                                   *)
(***************************************************************************)

\* A call arrives, with the arguments its operation has.
Arriving(p) ==
    \E g \in GroupIds : \E u, v \in Users : \E op \in Ops \ {"create"}, arg \in {0, 1} :
        (op = "leave" => u = v) /\ Arrive(p, op, g, u, v, arg)

\* A step that locks, checks or gives up leaves the tables alone.
Reading(p) ==
    Arriving(p) \/ LockGroup(p) \/ Check(p) \/ LockUsers(p) \/ CheckInvite(p) \/ Fail(p)

\* Every transaction ends with one of these.
Writing(p) ==
    \/ AddMember(p) \/ RemoveMember(p) \/ Leave(p) \/ UpdateRole(p)
    \/ MuteMember(p) \/ TransferOwnership(p) \/ Disband(p)

\* A step of the specification reads, writes, creates or changes a friendship.
LEMMA StepKinds ==
  ASSUME Next
  PROVE  \/ \E p \in Calls : Reading(p) \/ Writing(p)
         \/ \E g \in GroupIds : \E u \in Users : Create(g, u)
         \/ \E u, v \in Users : FriendshipChanges(u, v)
<1>1. ASSUME NEW p \in Calls, NEW g \in GroupIds, NEW u \in Users, NEW v \in Users
      PROVE  /\ \A op \in {"add", "remove", "transfer"} :
                    Arrive(p, op, g, u, v, 0) => Arriving(p)
             /\ \A op \in {"role", "mute"}, arg \in {0, 1} :
                    Arrive(p, op, g, u, v, arg) => Arriving(p)
             /\ \A op \in {"leave", "disband"} : Arrive(p, op, g, u, u, 0) => Arriving(p)
  BY DEF Arriving, Ops
<1>2. \A e \in ChangingPairs : e[1] \in Users /\ e[2] \in Users
  BY ConstantsAssumption
<1> QED BY <1>1, <1>2 DEF Next, Proceed, Reading, Writing

\* A writing call is at its end.
LEMMA WritingEnds ==
  ASSUME NEW p \in Calls, Writing(p)
  PROVE  pc[p] = "apply" /\ EndCall(p)
  BY DEF Writing, AddMember, RemoveMember, Leave, UpdateRole, MuteMember, TransferOwnership,
         Disband, Apply

\* A reading step leaves the tables alone and enqueues nothing.
LEMMA ReadingLeaves ==
  ASSUME NEW p \in Calls, Reading(p)
  PROVE  UNCHANGED data /\ enqueued' = {}
  BY DEF Reading, Arriving, Arrive, LockGroup, Check, LockUsers, CheckInvite, Fail, Abort

\* A transaction writes its own group, and leaves it good.
LEMMA WritingKeeps ==
  ASSUME GroupInv, NEW p \in Calls, Writing(p), NEW g, g = call[p].g
  PROVE  DataTyped' /\ OnlyGroup(g) /\ GoodGroup(g)' /\ enqueued' \subseteq {g}
<1>1. DataTyped' /\ OnlyGroup(g) /\ GoodGroup(g)'
  BY AddKeeps, RemoveKeeps, UpdateKeeps, MuteKeeps, TransferKeeps, DisbandKeeps DEF Writing
<1>2. enqueued' \subseteq {g}
  BY DEF Writing, AddMember, RemoveMember, Leave, Drop, UpdateRole, MuteMember,
         TransferOwnership, Disband
<1> QED BY <1>1, <1>2

\* Whatever step: the tables keep their types, every group stays good and friend
\* rows stay paired.
LEMMA TablesStep ==
  ASSUME GroupInv, [Next]_vars
  PROVE  DataTyped' /\ (\A g \in GroupIds : GoodGroup(g)') /\ FriendRows'
<1>0. DataTyped /\ (\A g \in GroupIds : GoodGroup(g)) /\ FriendRows
  BY GroupWise DEF GroupInv
<1>1. ASSUME NEW g \in GroupIds, DataTyped', OnlyGroup(g), GoodGroup(g)'
      PROVE  DataTyped' /\ (\A h \in GroupIds : GoodGroup(h)') /\ FriendRows'
  <2>1. \A h \in GroupIds \ {g} : GoodGroup(h)'
    BY <1>0, <1>1 DEF OnlyGroup, GoodGroup, Members
  <2>2. FriendRows'
    BY <1>0, <1>1 DEF OnlyGroup, FriendRows
  <2> QED BY <1>1, <2>1, <2>2
<1>2. CASE UNCHANGED <<groups, limit, owner, role, muted>>
  <2>1. \A h \in GroupIds : GoodGroup(h)'
    BY <1>0, <1>2 DEF GoodGroup, Members
  <2>2. UNCHANGED friends => FriendRows' /\ friends' \subseteq Users \X Users
    BY <1>0 DEF FriendRows, DataTyped
  <2>3. ASSUME NEW u \in Users, NEW v \in Users, FriendshipChanges(u, v)
        PROVE  FriendRows' /\ friends' \subseteq Users \X Users
    BY <1>0, <2>3 DEF FriendshipChanges, FriendRows, DataTyped
  <2>4. ASSUME NEW p \in Calls, Writing(p) PROVE UNCHANGED friends
    BY <2>4 DEF Writing, AddMember, RemoveMember, Leave, Drop, UpdateRole, MuteMember,
                TransferOwnership, Disband
  <2>5. \A p \in Calls : Reading(p) => UNCHANGED friends
    BY ReadingLeaves DEF data
  <2>6. \A g \in GroupIds, u \in Users : Create(g, u) => UNCHANGED friends
    BY DEF Create
  <2>7. FriendRows' /\ friends' \subseteq Users \X Users
    BY <2>2, <2>3, <2>4, <2>5, <2>6, StepKinds DEF vars
  <2> QED BY <1>0, <1>2, <2>1, <2>7 DEF DataTyped
<1>3. ASSUME NEW p \in Calls, Writing(p)
      PROVE  DataTyped' /\ (\A h \in GroupIds : GoodGroup(h)') /\ FriendRows'
  <2>1. PICK g : g = call[p].g
    OBVIOUS
  <2>2. g \in GroupIds
    BY <1>3, <2>1, WriterKnows, WritingEnds
  <2> QED BY <1>1, <1>3, <2>1, <2>2, WritingKeeps
<1>4. \A p \in Calls : Reading(p) => UNCHANGED <<groups, limit, owner, role, muted>>
  BY ReadingLeaves DEF data
<1>5. \A u, v \in Users : FriendshipChanges(u, v) => UNCHANGED <<groups, limit, owner, role, muted>>
  BY DEF FriendshipChanges
<1> QED BY <1>1, <1>2, <1>3, <1>4, <1>5, StepKinds, CreateKeeps DEF vars

(***************************************************************************)
(* The calls                                                               *)
(***************************************************************************)

\* A step of p leaves the other calls where they are.
LEMMA OthersStay ==
  ASSUME TypeOK, NEW p \in Calls, Reading(p) \/ Writing(p)
  PROVE  \A q \in Calls \ {p} : pc'[q] = pc[q] /\ call'[q] = call[q]
<1> SUFFICES ASSUME NEW q \in Calls \ {p} PROVE pc'[q] = pc[q] /\ call'[q] = call[q]
  OBVIOUS
<1>1. EndCall(p) => pc'[q] = pc[q] /\ call'[q] = call[q]
  BY DEF EndCall, Goto, TypeOK
<1>2. CASE Reading(p)
  BY <1>1, <1>2 DEF Reading, Arriving, Arrive, LockGroup, Check, LockUsers, CheckInvite, Fail,
                    Abort, Goto, TypeOK
<1> QED BY <1>1, <1>2, WritingEnds

\* Where a reading step brings its call, with which arguments and locks.
ReadingTo(p) ==
    \/ /\ EndCall(p)
    \/ /\ pc[p] = "idle" /\ pc'[p] = "group" /\ UNCHANGED <<groupLock, userLock>>
       /\ call'[p].op \in Ops \ {"create"} /\ call'[p].g \in GroupIds
       /\ call'[p].me \in Users /\ call'[p].target \in Users
       /\ call'[p].op = "transfer" => call'[p].me # call'[p].target
       /\ call'[p].op = "leave" => call'[p].me = call'[p].target
    \/ /\ pc[p] = "group" /\ pc'[p] = "check" /\ UNCHANGED <<userLock, call>>
       /\ groupLock[call[p].g] = Free
       /\ groupLock' = [groupLock EXCEPT ![call[p].g] = p]
    \/ /\ pc[p] = "check" /\ UNCHANGED <<groupLock, userLock, call>>
       /\ Permitted(call[p])
       /\ pc'[p] = IF call[p].op = "add" THEN "user1" ELSE "apply"
    \/ /\ pc[p] = "user1" /\ pc'[p] = "user2" /\ UNCHANGED <<groupLock, call>>
       /\ userLock[Ordered(call[p])[1]] = Free
       /\ userLock' = [userLock EXCEPT ![Ordered(call[p])[1]] = p]
    \/ /\ pc[p] = "user2" /\ pc'[p] = "invite" /\ UNCHANGED <<groupLock, call>>
       /\ userLock[Ordered(call[p])[2]] = Free
       /\ userLock' = [userLock EXCEPT ![Ordered(call[p])[2]] = p]
    \/ /\ pc[p] = "invite" /\ pc'[p] = "apply" /\ UNCHANGED <<groupLock, userLock, call>>
       /\ {<<call[p].me, call[p].target>>, <<call[p].target, call[p].me>>} \cap friends # {}
       /\ HasRoom(call[p].g)

\* Every reading step is one of these.
LEMMA ReadingPlaces ==
  ASSUME TypeOK, NEW p \in Calls, Reading(p)
  PROVE  ReadingTo(p)
<1>1. CASE Arriving(p)
  <2>1. PICK g \in GroupIds, u \in Users, v \in Users, op \in Ops \ {"create"}, arg \in {0, 1} :
            (op = "leave" => u = v) /\ Arrive(p, op, g, u, v, arg)
    BY <1>1 DEF Arriving
  <2>2. /\ call'[p] = [op |-> op, g |-> g, me |-> u, target |-> v, arg |-> arg]
        /\ pc[p] = "idle" /\ pc'[p] = "group" /\ UNCHANGED <<groupLock, userLock>>
        /\ op = "transfer" => u # v
    BY <2>1 DEF Arrive, Goto, TypeOK
  <2> QED BY <2>1, <2>2 DEF ReadingTo
<1>2. CASE LockGroup(p)
  BY <1>2 DEF LockGroup, Goto, ReadingTo, TypeOK
<1>3. CASE Check(p)
  BY <1>3 DEF Check, Abort, Goto, ReadingTo, TypeOK
<1>4. CASE LockUsers(p)
  <2>1. PICK n \in {1, 2} :
            /\ pc[p] = IF n = 1 THEN "user1" ELSE "user2"
            /\ userLock[Ordered(call[p])[n]] = Free
            /\ userLock' = [userLock EXCEPT ![Ordered(call[p])[n]] = p]
            /\ Goto(p, IF n = 1 THEN "user2" ELSE "invite")
            /\ UNCHANGED <<groupLock, call>>
    BY <1>4 DEF LockUsers
  <2>2. pc'[p] = IF n = 1 THEN "user2" ELSE "invite"
    BY <2>1 DEF Goto, TypeOK
  <2>3. CASE n = 1
    BY <2>1, <2>2, <2>3 DEF ReadingTo
  <2>4. CASE n = 2
    BY <2>1, <2>2, <2>4 DEF ReadingTo
  <2> QED BY <2>3, <2>4
<1>5. CASE CheckInvite(p)
  BY <1>5 DEF CheckInvite, Abort, Goto, ReadingTo, TypeOK
<1>6. CASE Fail(p)
  BY <1>6 DEF Fail, Abort, ReadingTo
<1> QED BY <1>1, <1>2, <1>3, <1>4, <1>5, <1>6 DEF Reading

\* The types of locks and calls.
CallsTyped ==
    /\ groupLock \in [GroupIds -> Calls \cup {Free}]
    /\ userLock \in [Users -> Calls \cup {Free}]
    /\ pc \in [Calls -> Steps]
    /\ call \in [Calls -> [op : Ops \cup {"none"}, g : GroupIds \cup {0}, me : Users \cup {0},
                           target : Users \cup {0}, arg : {0, 1}]]

\* Every step of a call keeps the types of locks and calls.
LEMMA CallsTypedStep ==
  ASSUME TypeOK, NEW p \in Calls, Reading(p) \/ Writing(p)
  PROVE  CallsTyped'
<1>1. EndCall(p) => CallsTyped'
  <2>1. NoCall \in [op : Ops \cup {"none"}, g : GroupIds \cup {0}, me : Users \cup {0},
                    target : Users \cup {0}, arg : {0, 1}]
    BY DEF NoCall
  <2> QED BY <2>1 DEF EndCall, Goto, CallsTyped, TypeOK, Steps
<1>2. CASE Arriving(p)
  <2>1. PICK g \in GroupIds, u \in Users, v \in Users, op \in Ops \ {"create"}, arg \in {0, 1} :
            Arrive(p, op, g, u, v, arg)
    BY <1>2 DEF Arriving
  <2>2. [op |-> op, g |-> g, me |-> u, target |-> v, arg |-> arg]
            \in [op : Ops \cup {"none"}, g : GroupIds \cup {0}, me : Users \cup {0},
                 target : Users \cup {0}, arg : {0, 1}]
    OBVIOUS
  <2> QED BY <2>1, <2>2 DEF Arrive, Goto, CallsTyped, TypeOK, Steps
<1>3. CASE LockGroup(p) \/ LockUsers(p)
  <2>1. /\ pc' \in [Calls -> Steps] /\ call' = call
        /\ \/ groupLock' = groupLock \/ \E g : groupLock' = [groupLock EXCEPT ![g] = p]
        /\ \/ userLock' = userLock \/ \E u : userLock' = [userLock EXCEPT ![u] = p]
    BY <1>3 DEF LockGroup, LockUsers, Goto, TypeOK, Steps
  <2>2. groupLock' \in [GroupIds -> Calls \cup {Free}]
    BY <2>1 DEF TypeOK
  <2>3. userLock' \in [Users -> Calls \cup {Free}]
    BY <2>1 DEF TypeOK
  <2> QED BY <2>1, <2>2, <2>3 DEF CallsTyped, TypeOK
<1>4. CASE (Check(p) \/ CheckInvite(p) \/ Fail(p)) /\ ~EndCall(p)
  BY <1>4 DEF Check, CheckInvite, Fail, Abort, Goto, CallsTyped, TypeOK, Steps
<1> QED BY <1>1, <1>2, <1>3, <1>4, WritingEnds DEF Reading

\* The end of a transaction gives its rows back, and nobody else's.
LEMMA EndFrees ==
  ASSUME TypeOK, NEW p \in Calls, EndCall(p)
  PROVE  /\ pc'[p] = "idle"
         /\ \A g \in GroupIds : groupLock'[g] = IF groupLock[g] = p THEN Free ELSE groupLock[g]
         /\ \A u \in Users : userLock'[u] = IF userLock[u] = p THEN Free ELSE userLock[u]
  BY DEF EndCall, Goto, TypeOK

\* A call that is not idle has arguments, at every place.
LEMMA ArgumentsStep ==
  ASSUME GroupInv, NEW p \in Calls, Reading(p) \/ Writing(p)
  PROVE  Arguments'
<1>0. TypeOK /\ Arguments
  BY DEF GroupInv
<1>1. SUFFICES ArgumentsOf(p)'
  BY <1>0, OthersStay DEF Arguments, ArgumentsOf
<1>2. CASE EndCall(p)
  BY <1>0, <1>2, EndFrees DEF ArgumentsOf
<1>3. CASE Reading(p) /\ ~EndCall(p)
  <2>1. ReadingTo(p) /\ ArgumentsOf(p)
    BY <1>0, <1>3, ReadingPlaces DEF Arguments
  <2> QED BY <1>3, <2>1 DEF ReadingTo, ArgumentsOf
<1> QED BY <1>2, <1>3, WritingEnds

\* The calls past LockGroup hold their group's row; a row has one holder.
LEMMA GroupLocksStep ==
  ASSUME GroupInv, NEW p \in Calls, Reading(p) \/ Writing(p)
  PROVE  GroupLocks'
<1>0. TypeOK /\ GroupLocks /\ ArgumentsOf(p) /\ Free \notin Calls
  BY ConstantsAssumption DEF GroupInv, Arguments, Free
<1>1. \A q \in Calls \ {p} : pc'[q] = pc[q] /\ call'[q] = call[q]
  BY <1>0, OthersStay
<1> SUFFICES ASSUME NEW q \in Calls, NEW g \in GroupIds
             PROVE  groupLock'[g] = q <=> pc'[q] \in InGroup /\ call'[q].g = g
  BY DEF GroupLocks
<1>2. \A r \in Calls : groupLock[g] = r <=> pc[r] \in InGroup /\ call[r].g = g
  BY <1>0 DEF GroupLocks
<1>3. CASE EndCall(p)
  BY <1>0, <1>1, <1>2, <1>3, EndFrees DEF InGroup
<1>4. CASE Reading(p) /\ ~EndCall(p)
  <2>1. ReadingTo(p)
    BY <1>0, <1>4, ReadingPlaces
  <2>2. CASE groupLock' = groupLock
    <3>1. pc[p] = "group" => pc'[p] # "check"
      BY <1>0, <1>2, <1>4, <2>1, <2>2 DEF ReadingTo, ArgumentsOf, GroupLocks, InGroup, TypeOK
    <3>2. \/ pc[p] \notin InGroup /\ pc'[p] \notin InGroup
          \/ pc[p] \in InGroup /\ pc'[p] \in InGroup /\ call' = call
      BY <1>4, <2>1, <3>1 DEF ReadingTo, InGroup
    <3> QED BY <1>1, <1>2, <2>2, <3>2
  <2>3. CASE groupLock' # groupLock
    <3>1. /\ pc[p] = "group" /\ pc'[p] = "check" /\ call' = call
          /\ groupLock[call[p].g] = Free
          /\ groupLock' = [groupLock EXCEPT ![call[p].g] = p]
      BY <1>4, <2>1, <2>3 DEF ReadingTo
    <3>2. groupLock'[g] = IF g = call[p].g THEN p ELSE groupLock[g]
      BY <1>0, <3>1 DEF TypeOK
    <3>3. CASE q = p
      BY <1>2, <3>1, <3>2, <3>3 DEF InGroup
    <3>4. CASE q # p
      BY <1>0, <1>1, <1>2, <3>1, <3>2, <3>4
    <3> QED BY <3>3, <3>4
  <2> QED BY <2>2, <2>3
<1> QED BY <1>3, <1>4, WritingEnds

\* Sorting the two users of an invitation gives the same two.
LEMMA OrderedPair ==
  ASSUME NEW c, c.me \in Users, c.target \in Users
  PROVE  /\ Ordered(c)[1] \in Users /\ Ordered(c)[2] \in Users
         /\ {Ordered(c)[1], Ordered(c)[2]} = {c.me, c.target}
<1>1. c.me \in Nat /\ c.target \in Nat
  BY ConstantsAssumption
<1> QED BY <1>1 DEF Ordered

\* A call keeps a user row until it ends: nobody takes it away.
LEMMA UserLockStays ==
  ASSUME TypeOK, NEW p \in Calls, Reading(p) \/ Writing(p),
         NEW q \in Calls, NEW u \in Users, userLock[u] = q, q # p \/ ~EndCall(p)
  PROVE  userLock'[u] = q
<1>0. Free \notin Calls
  BY ConstantsAssumption DEF Free
<1>1. CASE EndCall(p)
  BY <1>1, EndFrees
<1>2. CASE Reading(p) /\ ~EndCall(p)
  <2>1. ReadingTo(p)
    BY <1>2, ReadingPlaces
  <2>2. \/ userLock' = userLock
        \/ \E w : userLock[w] = Free /\ userLock' = [userLock EXCEPT ![w] = p]
    BY <1>2, <2>1 DEF ReadingTo
  <2> QED BY <1>0, <2>2 DEF TypeOK
<1> QED BY <1>1, <1>2, WritingEnds

\* An invitation that has taken its users' rows holds them.
LEMMA UserLocksStep ==
  ASSUME GroupInv, NEW p \in Calls, Reading(p) \/ Writing(p)
  PROVE  UserLocks'
<1>0. TypeOK /\ Arguments /\ UserLocks
  BY DEF GroupInv
<1>a. \A q \in Calls : /\ ArgumentsOf(q) /\ UsersOf(q)
                       /\ pc[q] # "idle" =>
                              /\ call[q].me \in Users /\ call[q].target \in Users
                              /\ Ordered(call[q])[1] \in Users /\ Ordered(call[q])[2] \in Users
                              /\ {Ordered(call[q])[1], Ordered(call[q])[2]}
                                     = {call[q].me, call[q].target}
  BY <1>0, OrderedPair DEF Arguments, ArgumentsOf, UserLocks
<1>1. \A q \in Calls \ {p} : pc'[q] = pc[q] /\ call'[q] = call[q]
  BY <1>0, OthersStay
<1>2. ASSUME NEW q \in Calls \ {p} PROVE UsersOf(q)'
  <2>1. pc[q] = "user2" => userLock'[Ordered(call[q])[1]] = q
    BY <1>0, <1>a, UserLockStays DEF UsersOf
  <2>2. Inviting(q) => userLock'[call[q].me] = q /\ userLock'[call[q].target] = q
    BY <1>0, <1>a, UserLockStays DEF UsersOf, Inviting
  <2>3. pc'[q] = pc[q] /\ call'[q] = call[q]
    BY <1>1
  <2> QED BY <2>1, <2>2, <2>3 DEF UsersOf, Inviting, Ordered
<1>3. UsersOf(p)'
  <2>1. CASE EndCall(p)
    BY <1>0, <2>1, EndFrees DEF UsersOf, Inviting
  <2>2. CASE Reading(p) /\ ~EndCall(p)
    <3>1. ReadingTo(p)
      BY <1>0, <2>2, ReadingPlaces
    <3>2. CASE pc'[p] = "user2"
      <4>1. /\ pc[p] = "user1" /\ call' = call
            /\ userLock' = [userLock EXCEPT ![Ordered(call[p])[1]] = p]
        BY <2>2, <3>1, <3>2 DEF ReadingTo
      <4>2. userLock'[Ordered(call[p])[1]] = p
        BY <1>0, <1>a, <4>1 DEF TypeOK
      <4> QED BY <3>2, <4>1, <4>2 DEF UsersOf, Inviting, Ordered
    <3>3. CASE pc'[p] = "invite"
      <4>1. /\ pc[p] = "user2" /\ call' = call
            /\ userLock' = [userLock EXCEPT ![Ordered(call[p])[2]] = p]
        BY <2>2, <3>1, <3>3 DEF ReadingTo
      <4>2. userLock'[Ordered(call[p])[2]] = p /\ userLock'[Ordered(call[p])[1]] = p
        BY <1>0, <1>a, <4>1 DEF TypeOK, UsersOf
      <4>3. userLock'[call[p].me] = p /\ userLock'[call[p].target] = p
        BY <1>a, <4>1, <4>2
      <4> QED BY <3>3, <4>1, <4>3 DEF UsersOf, Inviting
    <3>4. CASE pc'[p] = "apply" /\ call'[p].op = "add"
      <4>1. pc[p] = "invite" /\ call' = call /\ userLock' = userLock
        BY <2>2, <3>1, <3>4 DEF ReadingTo
      <4> QED BY <1>a, <3>4, <4>1 DEF UsersOf, Inviting
    <3>5. CASE pc'[p] \notin {"user2", "invite"} /\ ~(pc'[p] = "apply" /\ call'[p].op = "add")
      BY <3>5 DEF UsersOf, Inviting
    <3> QED BY <3>2, <3>3, <3>4, <3>5
  <2> QED BY <2>1, <2>2, WritingEnds
<1> QED BY <1>2, <1>3 DEF UserLocks

\* What the checks found about a group holds as long as the group is not
\* written.
LEMMA PermittedStays ==
  ASSUME NEW c, Permitted(c), groups'[c.g] = groups[c.g], owner'[c.g] = owner[c.g],
         role'[c.g] = role[c.g]
  PROVE  Permitted(c)'
  BY DEF Permitted, CanManage, Outranks, Members

\* Room for one more stays, too.
LEMMA RoomStays ==
  ASSUME NEW g, HasRoom(g), limit' = limit, role'[g] = role[g]
  PROVE  HasRoom(g)'
  BY DEF HasRoom, Members

\* What a call past Check and CheckInvite knows about its group and its users.
KnowsOf(p) == /\ pc[p] \in InGroup \ {"check"} => Permitted(call[p])
              /\ WelcomeOf(p)

\* What q knows survives a step of another call: that call holds another group.
LEMMA KnowledgeOfOthers ==
  ASSUME GroupInv, NEW p \in Calls, Reading(p) \/ Writing(p), NEW q \in Calls \ {p}
  PROVE  KnowsOf(q)'
<1>0. TypeOK /\ Arguments /\ GroupLocks /\ KnowsOf(q) /\ ArgumentsOf(q)
  BY DEF GroupInv, Checked, Welcome, KnowsOf, Arguments
<1>1. pc'[q] = pc[q] /\ call'[q] = call[q]
  BY <1>0, OthersStay
<1>2. PICK c : c = call[q] /\ c = call'[q]
  BY <1>1
<1>3. ASSUME pc[q] \in InGroup
      PROVE  /\ groups'[c.g] = groups[c.g] /\ owner'[c.g] = owner[c.g] /\ role'[c.g] = role[c.g]
             /\ limit' = limit /\ friends' = friends
  <2>1. CASE Reading(p)
    BY <2>1, ReadingLeaves DEF data
  <2>2. CASE Writing(p)
    <3>1. PICK g : g = call[p].g
      OBVIOUS
    <3>2. OnlyGroup(g) /\ groupLock[g] = p
      BY <2>2, <3>1, WritingKeeps, WriterKnows, WritingEnds
    <3>3. c.g \in GroupIds /\ groupLock[c.g] = q
      BY <1>0, <1>2, <1>3 DEF GroupLocks, ArgumentsOf, InGroup
    <3> QED BY <3>2, <3>3 DEF OnlyGroup
  <2> QED BY <2>1, <2>2
<1>4. pc[q] \in InGroup \ {"check"} => Permitted(c)'
  BY <1>0, <1>2, <1>3, PermittedStays DEF KnowsOf
<1>5. pc[q] = "apply" /\ c.op = "add" => <<c.me, c.target>> \in friends' /\ HasRoom(c.g)'
  BY <1>0, <1>2, <1>3, RoomStays DEF KnowsOf, WelcomeOf, InGroup
<1>6. pc'[q] \in InGroup \ {"check"} => Permitted(call[q])'
  BY <1>1, <1>2, <1>4 DEF Permitted, CanManage, Outranks, Members
<1>7. WelcomeOf(q)'
  BY <1>1, <1>2, <1>5 DEF WelcomeOf, HasRoom, Members
<1> QED BY <1>6, <1>7 DEF KnowsOf

\* A call learns what it knows from its own checks.
LEMMA KnowledgeOfSelf ==
  ASSUME GroupInv, NEW p \in Calls, Reading(p) \/ Writing(p)
  PROVE  KnowsOf(p)'
<1>0. TypeOK /\ Arguments /\ KnowsOf(p) /\ ArgumentsOf(p) /\ FriendRows
  BY DEF GroupInv, Checked, Welcome, KnowsOf, Arguments
<1>1. CASE EndCall(p)
  BY <1>0, <1>1, EndFrees DEF KnowsOf, WelcomeOf, InGroup
<1>2. CASE Reading(p) /\ ~EndCall(p)
  <2>1. ReadingTo(p) /\ UNCHANGED data
    BY <1>0, <1>2, ReadingPlaces, ReadingLeaves
  <2>2. ASSUME pc'[p] \in InGroup \ {"check"} PROVE call' = call /\ Permitted(call[p])
    BY <1>0, <1>2, <2>1, <2>2 DEF ReadingTo, KnowsOf, InGroup
  <2>3. ASSUME pc'[p] = "apply", call'[p].op = "add"
        PROVE  /\ <<call[p].me, call[p].target>> \in friends /\ HasRoom(call[p].g)
               /\ call' = call
    <3>1. /\ pc[p] = "invite" /\ call' = call /\ HasRoom(call[p].g)
          /\ {<<call[p].me, call[p].target>>, <<call[p].target, call[p].me>>} \cap friends # {}
      BY <1>2, <2>1, <2>3 DEF ReadingTo
    <3>2. call[p].me \in Users /\ call[p].target \in Users
      BY <1>0, <3>1 DEF ArgumentsOf
    <3> QED BY <1>0, <3>1, <3>2 DEF FriendRows
  <2>4. pc'[p] \in InGroup \ {"check"} => Permitted(call[p])'
    BY <2>1, <2>2 DEF Permitted, CanManage, Outranks, Members, data
  <2>5. WelcomeOf(p)'
    BY <2>1, <2>3 DEF WelcomeOf, HasRoom, Members, data
  <2> QED BY <2>4, <2>5 DEF KnowsOf
<1> QED BY <1>1, <1>2, WritingEnds

\* A new group is no call's group yet, and a friendship does not change while an
\* invitation holds one of its users.
LEMMA KnowledgeOutside ==
  ASSUME GroupInv, NEW q \in Calls,
         \/ \E g \in GroupIds : \E u \in Users : Create(g, u)
         \/ \E u, v \in Users : FriendshipChanges(u, v)
  PROVE  KnowsOf(q)'
<1>0. /\ TypeOK /\ DataTyped /\ KnowsOf(q) /\ ArgumentsOf(q) /\ UsersOf(q) /\ Free \notin Calls
  BY GroupWise, ConstantsAssumption
  DEF GroupInv, Checked, Welcome, KnowsOf, Arguments, UserLocks, Free
<1>1. pc'[q] = pc[q] /\ call'[q] = call[q]
  BY DEF Create, FriendshipChanges
<1>2. PICK c : c = call[q] /\ c = call'[q]
  BY <1>1
<1>3. ASSUME pc[q] \in InGroup \ {"check"}
      PROVE  /\ groups'[c.g] = groups[c.g] /\ owner'[c.g] = owner[c.g] /\ role'[c.g] = role[c.g]
             /\ limit' = limit
  <2>1. groups[c.g] = "live"
    BY <1>0, <1>2, <1>3 DEF KnowsOf, Permitted
  <2>2. ASSUME NEW g \in GroupIds, NEW u \in Users, Create(g, u)
        PROVE  /\ groups'[c.g] = groups[c.g] /\ owner'[c.g] = owner[c.g] /\ role'[c.g] = role[c.g]
               /\ limit' = limit
    <3>1. g # c.g
      BY <2>1, <2>2 DEF Create
    <3> QED BY <1>0, <2>2, <3>1 DEF Create, DataTyped
  <2> QED BY <2>2 DEF FriendshipChanges
<1>4. ASSUME pc[q] = "apply", c.op = "add" PROVE <<c.me, c.target>> \in friends'
  <2>1. <<c.me, c.target>> \in friends /\ userLock[c.me] = q /\ userLock[c.target] = q
    BY <1>0, <1>2, <1>4 DEF KnowsOf, WelcomeOf, UsersOf, Inviting
  <2>2. ASSUME NEW u \in Users, NEW v \in Users, FriendshipChanges(u, v)
        PROVE  <<c.me, c.target>> \in friends'
    <3>1. c.me # u /\ c.target # u
      BY <1>0, <2>1, <2>2 DEF FriendshipChanges
    <3> QED BY <2>1, <2>2, <3>1 DEF FriendshipChanges
  <2> QED BY <2>1, <2>2 DEF Create
<1>5. pc[q] \in InGroup \ {"check"} => Permitted(c)'
  BY <1>0, <1>2, <1>3, PermittedStays DEF KnowsOf
<1>6. pc[q] = "apply" /\ c.op = "add" => <<c.me, c.target>> \in friends' /\ HasRoom(c.g)'
  BY <1>0, <1>2, <1>3, <1>4, RoomStays DEF KnowsOf, WelcomeOf, InGroup
<1>7. pc'[q] \in InGroup \ {"check"} => Permitted(call[q])'
  BY <1>1, <1>2, <1>5 DEF Permitted, CanManage, Outranks, Members
<1>8. WelcomeOf(q)'
  BY <1>1, <1>2, <1>6 DEF WelcomeOf, HasRoom, Members
<1> QED BY <1>7, <1>8 DEF KnowsOf

(***************************************************************************)
(* The invariant and what follows from it                                  *)
(***************************************************************************)

\* GroupInv holds before the first group exists.
LEMMA InitHolds == Init => GroupInv
<1> SUFFICES ASSUME Init PROVE GroupInv
  OBVIOUS
<1>1. EmptyRoles \in RoleTables /\ DOMAIN EmptyRoles = {}
  <2>1. EmptyRoles \in [{} -> {Member, Admin, Owner}]
    BY DEF EmptyRoles
  <2> QED BY <2>1, TableOf
<1>2. \A g \in GroupIds : Members(g) = {} /\ muted[g] = {} /\ groups[g] = "none"
  BY <1>1 DEF Init, Members
<1>3. NoCall \in [op : Ops \cup {"none"}, g : GroupIds \cup {0}, me : Users \cup {0},
                  target : Users \cup {0}, arg : {0, 1}]
  BY DEF NoCall
<1>4. friends \subseteq Users \X Users /\ FriendRows
  BY DEF Init, FriendRows
<1>5. TypeOK
  BY <1>1, <1>2, <1>3, <1>4 DEF Init, TypeOK, Steps
<1>6. DissolvedEmpty /\ OneUsableOwner
  BY <1>2 DEF DissolvedEmpty, OneUsableOwner
<1>7. WithinCapacity
  <2>1. \A g \in GroupIds : limit[g] \in Nat
    BY ConstantsAssumption DEF Init
  <2> QED BY <1>2, <2>1, FS_EmptySet DEF WithinCapacity
<1>8. Arguments /\ UserLocks /\ Checked /\ Welcome
  BY DEF Init, Arguments, ArgumentsOf, UserLocks, UsersOf, Inviting, Checked, Welcome, WelcomeOf,
         InGroup
<1>9. GroupLocks
  BY ConstantsAssumption DEF Init, GroupLocks, InGroup, Free
<1> QED BY <1>4, <1>5, <1>6, <1>7, <1>8, <1>9 DEF GroupInv

\* GroupInv is preserved by every step.
LEMMA StepHolds == GroupInv /\ [Next]_vars => GroupInv'
<1> SUFFICES ASSUME GroupInv, [Next]_vars PROVE GroupInv'
  OBVIOUS
<1>0. TypeOK /\ Arguments /\ GroupLocks /\ UserLocks
  BY DEF GroupInv
<1>1. DataTyped' /\ (\A g \in GroupIds : GoodGroup(g)') /\ FriendRows'
  BY TablesStep
<1>2. ASSUME CallsTyped', enqueued' \subseteq GroupIds, Arguments', GroupLocks', UserLocks',
             \A q \in Calls : KnowsOf(q)'
      PROVE  GroupInv'
  <2>1. TypeOK'
    BY <1>1, <1>2 DEF TypeOK, DataTyped, CallsTyped, GoodGroup
  <2>2. DissolvedEmpty' /\ OneUsableOwner' /\ WithinCapacity'
    BY <1>1 DEF GoodGroup, DissolvedEmpty, OneUsableOwner, WithinCapacity
  <2>3. Checked' /\ Welcome'
    BY <1>2 DEF KnowsOf, Checked, Welcome
  <2> QED BY <1>1, <1>2, <2>1, <2>2, <2>3 DEF GroupInv
<1>3. ASSUME NEW p \in Calls, Reading(p) \/ Writing(p) PROVE GroupInv'
  <2>1. enqueued' \subseteq GroupIds
    <3>1. Writing(p) => call[p].g \in GroupIds
      BY WriterKnows, WritingEnds
    <3> QED BY <1>3, <3>1, ReadingLeaves, WritingKeeps
  <2>2. CallsTyped' /\ Arguments' /\ GroupLocks' /\ UserLocks'
    BY <1>0, <1>3, CallsTypedStep, ArgumentsStep, GroupLocksStep, UserLocksStep
  <2>3. \A q \in Calls : KnowsOf(q)'
    BY <1>3, KnowledgeOfOthers, KnowledgeOfSelf
  <2> QED BY <1>2, <2>1, <2>2, <2>3
<1>4. ASSUME \/ \E g \in GroupIds : \E u \in Users : Create(g, u)
             \/ \E u, v \in Users : FriendshipChanges(u, v)
      PROVE  GroupInv'
  <2>1. UNCHANGED <<groupLock, userLock, pc, call>> /\ enqueued' \subseteq GroupIds
    BY <1>4 DEF Create, FriendshipChanges
  <2>2. CallsTyped' /\ Arguments' /\ GroupLocks' /\ UserLocks'
    BY <1>0, <2>1 DEF TypeOK, CallsTyped, Arguments, ArgumentsOf, GroupLocks, UserLocks, UsersOf,
                      Inviting
  <2>3. \A q \in Calls : KnowsOf(q)'
    BY <1>4, KnowledgeOutside
  <2> QED BY <1>2, <2>1, <2>2, <2>3
<1>5. CASE UNCHANGED vars
  <2>1. CallsTyped' /\ enqueued' \subseteq GroupIds /\ Arguments' /\ GroupLocks' /\ UserLocks'
    BY <1>0, <1>5 DEF vars, TypeOK, CallsTyped, Arguments, ArgumentsOf, GroupLocks, UserLocks,
                      UsersOf, Inviting
  <2>2. \A q \in Calls : KnowsOf(q)'
    BY <1>5 DEF GroupInv, vars, Checked, Welcome, WelcomeOf, KnowsOf, Permitted, CanManage,
                Outranks, Members, HasRoom
  <2> QED BY <1>2, <2>1, <2>2
<1> QED BY <1>3, <1>4, <1>5, StepKinds

\* GroupInv is an invariant of the group service.
THEOREM GroupInvariant == Spec => []GroupInv
  BY InitHolds, StepHolds, PTL DEF Spec

\* Every column has its type, a mute belongs to a member, and a dissolved group
\* has no members, whatever was under way when it was dissolved.
THEOREM GroupRowsAgree == Spec => []RowsAgree
<1>1. GroupInv => RowsAgree
  BY DEF GroupInv, RowsAgree
<1> QED BY <1>1, GroupInvariant, PTL

\* A live group always has exactly one owner, whom owner_id and the roles agree
\* on and who is not muted.
THEOREM OwnerAlwaysUsable == Spec => []OneUsableOwner
<1>1. GroupInv => OneUsableOwner
  BY DEF GroupInv
<1> QED BY <1>1, GroupInvariant, PTL

\* No group has more members than max_members, however many invitations race.
THEOREM CapacityNeverExceeded == Spec => []WithinCapacity
<1>1. GroupInv => WithinCapacity
  BY DEF GroupInv
<1> QED BY <1>1, GroupInvariant, PTL

\* A member disappears from a live group only by its own Leave or by an operator
\* who outranks it at the commit.
LEMMA RemovalStep ==
  ASSUME GroupInv, Next, NEW g \in GroupIds, NEW v \in Members(g) \ Members(g)',
         groups'[g] = "live"
  PROVE  Authorised(g, v)
<1>0. DataTyped
  BY GroupWise
<1>1. PICK p \in Calls : Writing(p)
  <2>1. \A p \in Calls : Reading(p) => role' = role
    BY ReadingLeaves DEF data
  <2>2. \A h \in GroupIds, u \in Users : Create(h, u) => Members(g) = {} \/ role'[g] = role[g]
    <3>1. ASSUME NEW h \in GroupIds, NEW u \in Users, Create(h, u), h = g PROVE Members(g) = {}
      BY <3>1, GroupWise DEF Create, GoodGroup
    <3>2. ASSUME NEW h \in GroupIds, NEW u \in Users, Create(h, u), h # g
          PROVE  role'[g] = role[g]
      BY <1>0, <3>2 DEF Create, DataTyped
    <3> QED BY <3>1, <3>2
  <2>3. \A u, w \in Users : FriendshipChanges(u, w) => role' = role
    BY DEF FriendshipChanges
  <2>4. role'[g] # role[g] /\ Members(g) # {}
    BY DEF Members
  <2> QED BY <2>1, <2>2, <2>3, <2>4, StepKinds
<1>2. PICK h : h = call[p].g
  OBVIOUS
<1>3. pc[p] = "apply" /\ h \in GroupIds /\ OnlyGroup(h)
  BY <1>1, <1>2, WritingEnds, WriterKnows, WritingKeeps
<1>4. h = g
  BY <1>3 DEF OnlyGroup, Members
<1>5. CASE RemoveMember(p)
  <2>1. call[p].op = "remove" /\ Drop(g, call[p].target)
    BY <1>2, <1>4, <1>5 DEF RemoveMember, Apply
  <2>2. /\ CanManage(g, call[p].me) /\ Outranks(g, call[p].me, call[p].target)
        /\ groups[g] = "live"
    <3>1. Permitted(call[p]) /\ (call[p].op = "add" => <<call[p].me, call[p].target>> \in friends)
      BY <1>1, <1>3, WriterKnows
    <3> QED BY <1>2, <1>4, <2>1, <3>1 DEF Permitted
  <2>3. v = call[p].target
    BY <2>1, <2>2, DropKeeps DEF Outranks
  <2> QED BY <1>2, <1>3, <1>4, <2>2, <2>3 DEF Authorised, CanManage, Outranks
<1>6. CASE Leave(p)
  <2>1. call[p].op = "leave" /\ Drop(g, call[p].me)
    BY <1>2, <1>4, <1>6 DEF Leave, Apply
  <2>2. call[p].me # owner[g] /\ groups[g] = "live"
    <3>1. Permitted(call[p]) /\ (call[p].op = "add" => <<call[p].me, call[p].target>> \in friends)
      BY <1>1, <1>3, WriterKnows
    <3> QED BY <1>2, <1>4, <2>1, <3>1 DEF Permitted
  <2>3. v = call[p].me
    BY <2>1, <2>2, DropKeeps
  <2> QED BY <1>2, <1>3, <1>4, <2>2, <2>3 DEF Authorised
<1>7. CASE AddMember(p)
  BY <1>0, <1>2, <1>4, <1>7 DEF AddMember, Members, DataTyped
<1>8. CASE UpdateRole(p) \/ MuteMember(p) \/ TransferOwnership(p)
  BY <1>2, <1>4, <1>8, UpdateKeeps, MuteKeeps, TransferKeeps
<1>9. CASE Disband(p)
  BY <1>2, <1>4, <1>9, DisbandKeeps
<1> QED BY <1>1, <1>5, <1>6, <1>7, <1>8, <1>9 DEF Writing

\* A member appears in a live group only by the invitation of a friend who may
\* invite at the commit.
LEMMA InvitationStep ==
  ASSUME GroupInv, Next, NEW g \in GroupIds, NEW v \in Members(g)' \ Members(g),
         groups[g] = "live"
  PROVE  Invited(g, v)
<1>0. DataTyped
  BY GroupWise
<1>1. PICK p \in Calls : Writing(p)
  <2>1. \A p \in Calls : Reading(p) => role' = role
    BY ReadingLeaves DEF data
  <2>2. \A h \in GroupIds, u \in Users : Create(h, u) => role'[g] = role[g]
    BY <1>0 DEF Create, DataTyped
  <2>3. \A u, w \in Users : FriendshipChanges(u, w) => role' = role
    BY DEF FriendshipChanges
  <2>4. role'[g] # role[g]
    BY DEF Members
  <2> QED BY <2>1, <2>2, <2>3, <2>4, StepKinds
<1>2. PICK h : h = call[p].g
  OBVIOUS
<1>3. pc[p] = "apply" /\ h \in GroupIds /\ OnlyGroup(h)
  BY <1>1, <1>2, WritingEnds, WriterKnows, WritingKeeps
<1>4. h = g
  BY <1>3 DEF OnlyGroup, Members
<1>5. CASE AddMember(p)
  <2>1. call[p].op = "add"
    BY <1>5 DEF AddMember, Apply
  <2>2. /\ CanManage(g, call[p].me) /\ <<call[p].me, call[p].target>> \in friends
    <3>1. Permitted(call[p]) /\ (call[p].op = "add" => <<call[p].me, call[p].target>> \in friends)
      BY <1>1, <1>3, WriterKnows
    <3> QED BY <1>2, <1>4, <2>1, <3>1 DEF Permitted
  <2>3. v = call[p].target
    BY <1>0, <1>2, <1>4, <1>5 DEF AddMember, Members, DataTyped
  <2> QED BY <1>3, <2>1, <2>2, <2>3 DEF Invited
<1>6. CASE RemoveMember(p) \/ Leave(p)
  BY <1>0, <1>2, <1>4, <1>6 DEF RemoveMember, Leave, Drop, Without, Members, DataTyped
<1>7. CASE UpdateRole(p) \/ MuteMember(p) \/ TransferOwnership(p)
  BY <1>2, <1>4, <1>7, UpdateKeeps, MuteKeeps, TransferKeeps
<1>8. CASE Disband(p)
  <2>1. groups'[g] = "dead" /\ GoodGroup(g)'
    BY <1>2, <1>4, <1>8, DisbandKeeps
  <2> QED BY <2>1 DEF GoodGroup
<1> QED BY <1>1, <1>5, <1>6, <1>7, <1>8 DEF Writing

\* A step that changes what the member projection shows enqueues the group.
LEMMA EnqueueStep ==
  ASSUME GroupInv, Next, NEW g \in GroupIds, g \notin enqueued'
  PROVE  groups'[g] = groups[g] /\ role'[g] = role[g] /\ muted'[g] = muted[g]
<1>0. DataTyped
  BY GroupWise
<1>1. CASE \E p \in Calls : Reading(p)
  BY <1>1, ReadingLeaves DEF data
<1>2. CASE \E h \in GroupIds : \E u \in Users : Create(h, u)
  BY <1>0, <1>2 DEF Create, DataTyped
<1>3. CASE \E u, v \in Users : FriendshipChanges(u, v)
  BY <1>3 DEF FriendshipChanges
<1>4. ASSUME NEW p \in Calls, Writing(p)
      PROVE  groups'[g] = groups[g] /\ role'[g] = role[g] /\ muted'[g] = muted[g]
  <2>1. PICK h : h = call[p].g
    OBVIOUS
  <2>2. h \in GroupIds /\ OnlyGroup(h)
    BY <1>4, <2>1, WritingEnds, WriterKnows, WritingKeeps
  <2>3. CASE h # g
    BY <2>2, <2>3 DEF OnlyGroup
  <2>4. CASE h = g /\ UpdateRole(p)
    <3>1. /\ role[g][call[p].target] = call[p].arg
          /\ role' = [role EXCEPT ![g][call[p].target] = call[p].arg]
          /\ UNCHANGED <<groups, muted>>
      BY <2>1, <2>4 DEF UpdateRole
    <3>2. role[g] \in [Members(g) -> {Member, Admin, Owner}]
      BY <1>0, MembersTyped
    <3>3. role'[g] = [role[g] EXCEPT ![call[p].target] = call[p].arg]
      BY <1>0, <3>1 DEF DataTyped
    <3>4. role'[g] = role[g]
      BY <3>1, <3>2, <3>3
    <3> QED BY <3>1, <3>4
  <2>5. CASE h = g /\ MuteMember(p)
    <3>1. /\ (call[p].arg = 1) <=> (call[p].target \in muted[g])
          /\ muted' = [muted EXCEPT ![g] = IF call[p].arg = 1 THEN @ \cup {call[p].target}
                                                              ELSE @ \ {call[p].target}]
          /\ UNCHANGED <<groups, role>>
      BY <2>1, <2>5 DEF MuteMember
    <3>2. muted'[g] = muted[g]
      BY <1>0, <3>1 DEF DataTyped
    <3> QED BY <3>1, <3>2
  <2>6. CASE h = g /\ ~UpdateRole(p) /\ ~MuteMember(p)
    BY <1>4, <2>1, <2>6 DEF Writing, AddMember, RemoveMember, Leave, Drop,
       TransferOwnership, Disband
  <2> QED BY <2>3, <2>4, <2>5, <2>6
<1> QED BY <1>1, <1>2, <1>3, <1>4, StepKinds

\* No member of a live group is removed without authority at the commit.
THEOREM RemovalsAuthorised == Spec => RemovalAuthorised
<1>1. GroupInv /\ [Next]_vars =>
          [\A g \in GroupIds : \A v \in Members(g) \ Members(g)' :
               groups'[g] = "live" => Authorised(g, v)]_vars
  BY RemovalStep
<1> QED BY <1>1, GroupInvariant, PTL DEF Spec, RemovalAuthorised

\* Nobody joins a live group but by a friend who may invite.
THEOREM JoinsInvited == Spec => InvitedByFriend
<1>1. GroupInv /\ [Next]_vars =>
          [\A g \in GroupIds : \A v \in Members(g)' \ Members(g) :
               groups[g] = "live" => Invited(g, v)]_vars
  BY InvitationStep
<1> QED BY <1>1, GroupInvariant, PTL DEF Spec, InvitedByFriend

\* Every change of a group's members, roles and mutes is enqueued.
THEOREM GroupChangesEnqueued == Spec => ChangesEnqueued
<1>1. GroupInv /\ [Next]_vars =>
          [\A g \in GroupIds :
               <<groups[g], role[g], muted[g]>>' # <<groups[g], role[g], muted[g]>>
                   => g \in enqueued']_vars
  BY EnqueueStep
<1> QED BY <1>1, GroupInvariant, PTL DEF Spec, ChangesEnqueued

=============================================================================
