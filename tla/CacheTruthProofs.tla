-------------------------- MODULE CacheTruthProofs --------------------------
(***************************************************************************)
(* Proofs about the relationship cache, for any number of owners, request  *)
(* goroutines and workers and any bound on versions, runs and faults.      *)
(*                                                                         *)
(* The argument: a refresh that has read the owner row keeps it locked, so *)
(* what it read is still the truth when the Redis write lands and until    *)
(* the commit (Owned).  The write therefore covers every outbox row issued *)
(* so far, and no later write can take that back (Reflected is stable).    *)
(* A worker closes a row only with a result that has seen it (Wrote).      *)
(***************************************************************************)
EXTENDS CacheTruth, TLAPS

(***************************************************************************)
(* The inductive invariant                                                 *)
(***************************************************************************)
\* A refresh is under way.
Busy == {"lock", "recheck", "invalidate", "snapshot", "write", "purge", "commit", "release"}
\* The snapshot transaction is open.
InTransaction == {"write", "purge", "commit"}

\* The outbox rows that transactions have inserted so far can only be these.
Issued == { e \in Events : e[2] <= version[e[1]] }

\* Redis holds the truth about r, or nothing.
Settled(r) == content[r] = None \/ content[r] = version[r]

\* The change of outbox row e is in Redis, and if it dissolved its group, the
\* group_seq key is gone and no message check can pass any more.
Reflected(e) ==
    /\ Applied(e[1], e[2])
    /\ e[1] \in dead /\ e[2] = version[e[1]] => Settled(e[1]) /\ e[1] \notin groupSeq

\* What a process works on.
Task(p) ==
    /\ pc[p] \in Busy => res[p] \in Resources
    /\ p \in Requests => pc[p] # "mark" /\ todo[p] \subseteq Resources
    /\ p \in Workers => /\ mode[p] = "refresh" /\ pc[p] # "recheck"
                        /\ todo[p] \subseteq Issued
                        /\ pc[p] \in Busy \cup {"mark"} => cur[p] \in Issued
                        /\ pc[p] \in Busy => res[p] = cur[p][1]

\* The snapshot transaction: the owner row is locked and what was read is current.
Owned(p) ==
    pc[p] \in InTransaction => rowLock[res[p]] = p /\ snap[p] = version[res[p]]

\* What a refresh has achieved by the step it is at.
Wrote(p) ==
    /\ pc[p] \in {"purge", "commit"} => Settled(res[p])
    /\ pc[p] = "commit" /\ res[p] \in dead => res[p] \notin groupSeq
    /\ p \in Workers /\ pc[p] \in {"release", "mark"} /\ ok[p] => Reflected(cur[p])

\* Facts about one process.
ProcInv(p) == Task(p) /\ Owned(p) /\ Wrote(p)

\* Facts about the stores alone.
OutboxInv ==
    /\ \A e \in Events : event[e] # "none" => e \in Issued
    /\ \A e \in Events : event[e] = "done" => Reflected(e)
    /\ \A r \in loaded : content[r] # None
    /\ \A g \in dead : version[g] >= 1

\* The inductive invariant.
CacheInv == TypeOK /\ OutboxInv /\ \A p \in Procs : ProcInv(p)

(***************************************************************************)
(* Kinds of steps                                                          *)
(***************************************************************************)

\* A business operation, an Ensure call or a bulk run of request p begins.
Begins(p) ==
    \/ \E R \in Scopes : Business(p, R) \/ Ensure(p, R)
    \/ \E g \in Groups : Disband(p, g) \/ DisbandAgain(p, g)
    \/ \E strict \in BOOLEAN : BulkRebuild(p, strict)

\* The failures of process p.
Fails(p) == LockError(p) \/ OpError(p) \/ ReleaseFails(p) \/ Crash(p)

\* A step of process p.
Acts(p) ==
    \/ p \in Requests /\ Begins(p)
    \/ Continue(p) \/ Fails(p)
    \/ p \in Workers /\ (WorkerStep(p) \/ MarkFails(p))

\* A step of no process.
Happens ==
    \/ \E e \in Events : LeaseExpires(e)
    \/ \E r \in Resources : LockExpires(r)
    \/ \E g \in Groups : SendGroup(g)
    \/ RedisLoss

\* Every step is one of a process or one of the environment.
LEMMA StepKinds ==
  ASSUME Next
  PROVE  Happens \/ \E p \in Procs : Acts(p)
  BY DEF Next, Happens, Acts, Begins, Fails, Procs

\* What a call may touch are owners.
LEMMA ScopesTyped == \A R \in Scopes : R \subseteq Resources
  BY DEF Scopes, Resources

(***************************************************************************)
(* Types                                                                   *)
(***************************************************************************)

\* What the process p's own variables hold.
LocalTyped ==
    /\ pc \in [Procs -> Steps]
    /\ mode \in [Procs -> Modes]
    /\ res \in [Procs -> Resources \cup {None}]
    /\ todo \in [Procs -> SUBSET (Resources \cup Events)]
    /\ cur \in [Workers -> Events \cup {None}]
    /\ snap \in [Procs -> Versions]
    /\ ok \in [Procs -> BOOLEAN]

\* What MySQL, Redis and the bounds hold.
StoreTyped ==
    /\ version \in [Resources -> Versions]
    /\ dead \subseteq Groups
    /\ event \in [Events -> EventStatus]
    /\ token \in [Events -> Workers \cup {None}]
    /\ content \in [Resources -> Versions \cup {None}]
    /\ loaded \subseteq Resources
    /\ groupSeq \subseteq Groups
    /\ warmLock \in [Resources -> Procs \cup {None}]
    /\ rowLock \in [Resources -> Procs \cup {None}]
    /\ bulk \in 0..MaxBulk
    /\ faults \in 0..MaxFaults

\* TypeOK by parts: the variables of the processes and those of the stores.
LEMMA TypeSplit == TypeOK => LocalTyped /\ StoreTyped
  BY DEF TypeOK, LocalTyped, StoreTyped

\* The same, in the next state.
LEMMA TypeJoin == LocalTyped' /\ StoreTyped' => TypeOK'
  BY DEF TypeOK, LocalTyped, StoreTyped

\* A fault is counted within its bound.
LEMMA FaultTyped ==
  ASSUME Fault, faults \in 0..MaxFaults
  PROVE  faults' \in 0..MaxFaults
  BY ConstantsAssumption DEF Fault

\* A transaction raises versions below the bound and inserts pending rows.
LEMMA CommitTyped ==
  ASSUME StoreTyped, NEW R, R \subseteq Resources, CommitTruth(R)
  PROVE  version' \in [Resources -> Versions] /\ event' \in [Events -> EventStatus]
<1>1. \A r \in Resources : version[r] \in Versions
  BY DEF StoreTyped
<1>2. \A r \in R : version[r] + 1 \in Versions
  BY <1>1, ConstantsAssumption DEF Versions, CommitTruth
<1>3. version' \in [Resources -> Versions]
  BY <1>1, <1>2 DEF CommitTruth
<1>4. event' \in [Events -> EventStatus]
  BY DEF CommitTruth, StoreTyped, EventStatus
<1> QED BY <1>3, <1>4

\* A request that begins keeps the types.
LEMMA BeginTyped ==
  ASSUME TypeOK, NEW p \in Requests, Begins(p)
  PROVE  TypeOK'
<1>0. p \in Procs /\ LocalTyped /\ StoreTyped
  BY TypeSplit DEF Procs
<1>1. ASSUME NEW R \in Scopes, Business(p, R) PROVE TypeOK'
  <2>1. version' \in [Resources -> Versions] /\ event' \in [Events -> EventStatus]
    BY <1>0, <1>1, CommitTyped, ScopesTyped DEF Business
  <2>2. StoreTyped'
    BY <1>0, <1>1, <2>1 DEF Business, StoreTyped, redisVars, locks
  <2>3. LocalTyped'
    BY <1>0, <1>1, ScopesTyped DEF Business, LocalTyped, Goto, Steps, Modes
  <2> QED BY <2>2, <2>3, TypeJoin
<1>2. ASSUME NEW R \in Scopes, Ensure(p, R) PROVE TypeOK'
  <2>1. StoreTyped'
    BY <1>0, <1>2 DEF Ensure, StoreTyped, redisVars, locks, mysqlVars
  <2>2. LocalTyped'
    BY <1>0, <1>2, ScopesTyped DEF Ensure, LocalTyped, Goto, Steps, Modes
  <2> QED BY <2>1, <2>2, TypeJoin
<1>3. ASSUME NEW g \in Groups, Disband(p, g) PROVE TypeOK'
  <2>0. {g} \subseteq Resources
    BY DEF Resources
  <2>1. version' \in [Resources -> Versions] /\ event' \in [Events -> EventStatus]
    BY <1>0, <1>3, <2>0, CommitTyped DEF Disband
  <2>2. StoreTyped'
    BY <1>0, <1>3, <2>1 DEF Disband, StoreTyped, redisVars, locks
  <2>3. LocalTyped'
    BY <1>0, <1>3, <2>0 DEF Disband, LocalTyped, Goto, Steps, Modes
  <2> QED BY <2>2, <2>3, TypeJoin
<1>4. ASSUME NEW g \in Groups, DisbandAgain(p, g) PROVE TypeOK'
  <2>0. {g} \subseteq Resources
    BY DEF Resources
  <2>1. StoreTyped'
    BY <1>0, <1>4, ConstantsAssumption DEF DisbandAgain, StoreTyped, redisVars, locks, mysqlVars
  <2>2. LocalTyped'
    BY <1>0, <1>4, <2>0 DEF DisbandAgain, LocalTyped, Goto, Steps, Modes
  <2> QED BY <2>1, <2>2, TypeJoin
<1>5. ASSUME NEW strict \in BOOLEAN, BulkRebuild(p, strict) PROVE TypeOK'
  <2>1. StoreTyped'
    BY <1>0, <1>5, ConstantsAssumption DEF BulkRebuild, StoreTyped, redisVars, locks, mysqlVars
  <2>2. LocalTyped'
    BY <1>0, <1>5 DEF BulkRebuild, LocalTyped, Goto, Steps, Modes
  <2> QED BY <2>1, <2>2, TypeJoin
<1> QED BY <1>1, <1>2, <1>3, <1>4, <1>5 DEF Begins

\* Return only touches the variables of p; a result is recorded and the rest of
\* the loop kept or dropped.
LEMMA ReturnTyped ==
  ASSUME LocalTyped, NEW p \in Procs, NEW b \in BOOLEAN, Return(p, b), UNCHANGED <<mode, cur>>
  PROVE  LocalTyped'
<1>0. 0 \in Versions
  BY ConstantsAssumption DEF Versions
<1>1. CASE p \in Workers
  BY <1>0, <1>1 DEF Return, LocalTyped, Goto, Steps
<1>2. CASE p \notin Workers
  <2>1. todo' \in [Procs -> SUBSET (Resources \cup Events)]
    BY <1>2 DEF Return, LocalTyped
  <2> QED BY <1>0, <1>2, <2>1 DEF Return, LocalTyped, Goto, Steps
<1> QED BY <1>1, <1>2

\* Pick chooses an owner that Task allows.
LEMMA PickTyped ==
  ASSUME CacheInv, NEW p \in Procs, Pick(p)
  PROVE  LocalTyped'
<1>0. LocalTyped /\ Task(p)
  BY TypeSplit DEF CacheInv, ProcInv
<1>1. PICK x \in todo[p] :
        LET r == IF p \in Workers THEN x[1] ELSE x
            skip == mode[p] = "ensure" /\ (r \in loaded \/ r \in dead)
        IN  /\ todo' = [todo EXCEPT ![p] = @ \ {x}]
            /\ cur' = IF p \in Workers THEN [cur EXCEPT ![p] = x] ELSE cur
            /\ res' = IF skip THEN res ELSE [res EXCEPT ![p] = r]
            /\ Goto(p, IF skip THEN "pick" ELSE "lock")
  BY DEF Pick
<1>2. UNCHANGED <<mode, snap, ok>>
  BY DEF Pick
<1>3. /\ p \in Workers => x \in Events /\ x[1] \in Resources
      /\ p \notin Workers => x \in Resources
  BY <1>0 DEF Task, Issued, Events, Procs
<1>4. PICK r \in Resources : r = IF p \in Workers THEN x[1] ELSE x
  BY <1>3
<1>5. res' \in [Procs -> Resources \cup {None}]
  <2>1. res' = res \/ res' = [res EXCEPT ![p] = r]
    BY <1>1, <1>4
  <2> QED BY <1>0, <2>1 DEF LocalTyped
<1>6. pc' \in [Procs -> Steps]
  <2>1. pc' = [pc EXCEPT ![p] = "pick"] \/ pc' = [pc EXCEPT ![p] = "lock"]
    BY <1>1 DEF Goto
  <2> QED BY <1>0, <2>1 DEF LocalTyped, Steps
<1>7. cur' \in [Workers -> Events \cup {None}]
  BY <1>0, <1>1, <1>3 DEF LocalTyped
<1>8. todo' \in [Procs -> SUBSET (Resources \cup Events)]
  BY <1>0, <1>1 DEF LocalTyped
<1> QED BY <1>0, <1>2, <1>5, <1>6, <1>7, <1>8 DEF LocalTyped

\* So does a step of a refresh,
LEMMA ContinueTyped ==
  ASSUME CacheInv, NEW p \in Procs, Continue(p)
  PROVE  TypeOK'
<1>0. LocalTyped /\ StoreTyped /\ Task(p) /\ Owned(p)
  BY TypeSplit DEF CacheInv, ProcInv
<1>1. CASE Pick(p)
  <2>1. StoreTyped'
    BY <1>0, <1>1 DEF Pick, StoreTyped, mysqlVars, redisVars, locks
  <2> QED BY <1>1, <2>1, PickTyped, TypeJoin
<1>2. CASE Finish(p)
  BY <1>0, <1>2, TypeJoin
     DEF Finish, StoreTyped, LocalTyped, mysqlVars, redisVars, locks, Goto, Steps, Modes
<1>3. CASE TryLock(p)
  <2>1. StoreTyped'
    BY <1>0, <1>3 DEF TryLock, StoreTyped, mysqlVars, redisVars
  <2>2. AfterLock(p) \in Steps
    BY DEF AfterLock, Steps
  <2>3. LocalTyped'
    BY <1>0, <1>3, <2>2 DEF TryLock, LocalTyped, opVars, Goto
  <2> QED BY <2>1, <2>3, TypeJoin
<1>4. CASE GiveUp(p)
  <2>1. StoreTyped'
    BY <1>0, <1>4 DEF GiveUp, StoreTyped, mysqlVars, redisVars, locks
  <2> QED BY <1>0, <1>4, <2>1, ReturnTyped, TypeJoin DEF GiveUp
<1>5. CASE Recheck(p)
  BY <1>0, <1>5, TypeJoin
     DEF Recheck, StoreTyped, LocalTyped, mysqlVars, redisVars, locks, opVars, Goto, Steps
<1>6. CASE Invalidate(p)
  BY <1>0, <1>6, TypeJoin
     DEF Invalidate, StoreTyped, LocalTyped, mysqlVars, locks, opVars, Goto, Steps
<1>7. CASE Snapshot(p)
  <2>0. res[p] \in Resources
    BY <1>0, <1>7 DEF Snapshot, Task, Busy
  <2>1. StoreTyped'
    BY <1>0, <1>7 DEF Snapshot, StoreTyped, mysqlVars, redisVars
  <2>2. version[res[p]] \in Versions
    BY <1>0, <2>0 DEF StoreTyped
  <2>3. LocalTyped'
    BY <1>0, <1>7, <2>2 DEF Snapshot, LocalTyped, opVars, Goto, Steps
  <2> QED BY <2>1, <2>3, TypeJoin
<1>8. CASE Write(p)
  <2>0. res[p] \in Resources /\ snap[p] \in Versions
    BY <1>0, <1>8 DEF Write, Task, Busy, LocalTyped
  <2>1. StoreTyped'
    BY <1>0, <1>8, <2>0 DEF Write, Replace, StoreTyped, mysqlVars, locks
  <2>2. LocalTyped'
    BY <1>0, <1>8 DEF Write, LocalTyped, opVars, Goto, Steps
  <2> QED BY <2>1, <2>2, TypeJoin
<1>9. CASE Purge(p)
  BY <1>0, <1>9, TypeJoin
     DEF Purge, StoreTyped, LocalTyped, mysqlVars, locks, opVars, Goto, Steps
<1>10. CASE Commit(p)
  BY <1>0, <1>10, TypeJoin
     DEF Commit, FreeRow, StoreTyped, LocalTyped, mysqlVars, redisVars, opVars, Goto, Steps
<1>11. CASE Release(p)
  <2>1. StoreTyped'
    BY <1>0, <1>11 DEF Release, StoreTyped, mysqlVars, redisVars
  <2>2. ok[p] \in BOOLEAN
    BY <1>0 DEF LocalTyped
  <2> QED BY <1>0, <1>11, <2>1, <2>2, ReturnTyped, TypeJoin DEF Release
<1> QED BY <1>1, <1>2, <1>3, <1>4, <1>5, <1>6, <1>7, <1>8, <1>9, <1>10, <1>11 DEF Continue

\* an error or a crash in one,
LEMMA FailTyped ==
  ASSUME CacheInv, NEW p \in Procs, Fails(p)
  PROVE  TypeOK'
<1>0. LocalTyped /\ StoreTyped /\ Task(p) /\ 0 \in Versions
  BY TypeSplit, ConstantsAssumption DEF CacheInv, ProcInv, Versions
<1>1. CASE LockError(p)
  <2>1. StoreTyped'
    BY <1>0, <1>1, FaultTyped DEF LockError, StoreTyped, mysqlVars, redisVars
  <2> QED BY <1>0, <1>1, <2>1, ReturnTyped, TypeJoin DEF LockError
<1>2. CASE OpError(p)
  <2>1. pc[p] = "write" => res[p] \in Resources /\ snap[p] \in Versions
    BY <1>0 DEF Task, Busy, LocalTyped
  <2>2. /\ content' \in [Resources -> Versions \cup {None}]
        /\ loaded' \subseteq Resources /\ groupSeq' \subseteq Groups
    BY <1>0, <1>2, <2>1 DEF OpError, Replace, StoreTyped, redisVars
  <2>3. StoreTyped'
    BY <1>0, <1>2, <2>2, FaultTyped DEF OpError, FreeRow, StoreTyped, mysqlVars
  <2>4. LocalTyped'
    BY <1>0, <1>2 DEF OpError, LocalTyped, opVars, Goto, Steps
  <2> QED BY <2>3, <2>4, TypeJoin
<1>3. CASE ReleaseFails(p)
  <2>1. StoreTyped'
    BY <1>0, <1>3, FaultTyped DEF ReleaseFails, StoreTyped, mysqlVars, redisVars, locks
  <2> QED BY <1>0, <1>3, <2>1, ReturnTyped, TypeJoin DEF ReleaseFails
<1>4. CASE Crash(p)
  <2>1. StoreTyped'
    BY <1>0, <1>4, FaultTyped DEF Crash, FreeRow, StoreTyped, mysqlVars, redisVars
  <2>2. LocalTyped'
    BY <1>0, <1>4 DEF Crash, LocalTyped, Goto, Steps, Modes
  <2> QED BY <2>1, <2>2, TypeJoin
<1> QED BY <1>1, <1>2, <1>3, <1>4 DEF Fails

\* a step of a worker on its outbox rows,
LEMMA WorkerTyped ==
  ASSUME CacheInv, NEW p \in Workers, WorkerStep(p) \/ MarkFails(p)
  PROVE  TypeOK'
<1>0. LocalTyped /\ StoreTyped /\ Task(p) /\ p \in Procs
  BY TypeSplit DEF CacheInv, ProcInv, Procs
<1>1. CASE Claim(p)
  <2>1. PICK B \in SUBSET Claimable :
          /\ event' = [e \in Events |-> IF e \in B THEN "claimed" ELSE event[e]]
          /\ token' = [e \in Events |-> IF e \in B THEN p ELSE token[e]]
          /\ todo' = [todo EXCEPT ![p] = B]
    BY <1>1 DEF Claim
  <2>2. StoreTyped'
    BY <1>0, <1>1, <2>1 DEF Claim, StoreTyped, EventStatus, redisVars, locks
  <2>3. B \subseteq Events
    BY DEF Claimable
  <2>4. LocalTyped'
    BY <1>0, <1>1, <2>1, <2>3 DEF Claim, LocalTyped, Goto, Steps, Modes
  <2> QED BY <2>2, <2>4, TypeJoin
<1>2. CASE Mark(p) \/ MarkFails(p)
  <2>1. event' \in [Events -> EventStatus] /\ token' \in [Events -> Workers \cup {None}]
    BY <1>0, <1>2 DEF Mark, MarkFails, MarkRow, StoreTyped, EventStatus
  <2>2. faults' \in 0..MaxFaults
    BY <1>0, <1>2, FaultTyped DEF Mark, MarkFails, StoreTyped
  <2>3. EndEvent(p)
    BY <1>2 DEF Mark, MarkFails
  <2>4. StoreTyped'
    BY <1>0, <2>1, <2>2, <2>3 DEF EndEvent, StoreTyped, redisVars, locks
  <2>5. LocalTyped'
    BY <1>0, <2>3 DEF EndEvent, LocalTyped, Goto, Steps
  <2> QED BY <2>4, <2>5, TypeJoin
<1> QED BY <1>1, <1>2 DEF WorkerStep

\* and what happens to Redis by itself.
LEMMA HappensTyped ==
  ASSUME TypeOK, Happens
  PROVE  TypeOK'
<1>0. LocalTyped /\ StoreTyped
  BY TypeSplit
<1>1. LocalTyped'
  BY <1>0 DEF Happens, LeaseExpires, LockExpires, SendGroup, RedisLoss, opVars, LocalTyped
<1>2. StoreTyped'
  <2>1. ASSUME NEW e \in Events, LeaseExpires(e) PROVE StoreTyped'
    BY <1>0, <2>1, FaultTyped DEF LeaseExpires, StoreTyped, redisVars, locks, EventStatus
  <2>2. ASSUME NEW r \in Resources, LockExpires(r) PROVE StoreTyped'
    BY <1>0, <2>2 DEF LockExpires, StoreTyped, mysqlVars, redisVars
  <2>3. ASSUME NEW g \in Groups, SendGroup(g) PROVE StoreTyped'
    BY <1>0, <2>3 DEF SendGroup, StoreTyped, mysqlVars, locks
  <2>4. ASSUME RedisLoss PROVE StoreTyped'
    BY <1>0, <2>4, FaultTyped DEF RedisLoss, StoreTyped, mysqlVars
  <2> QED BY <2>1, <2>2, <2>3, <2>4 DEF Happens
<1> QED BY <1>1, <1>2, TypeJoin

\* Every step keeps the types.
LEMMA TypeStep ==
  ASSUME CacheInv, Next
  PROVE  TypeOK'
<1>1. TypeOK
  BY DEF CacheInv
<1> QED BY <1>1, StepKinds, BeginTyped, ContinueTyped, FailTyped, WorkerTyped, HappensTyped DEF Acts

(***************************************************************************)
(* What a step does to the stores                                          *)
(***************************************************************************)
store == <<version, dead, content, loaded, groupSeq>>

\* A transaction commits new versions, and may dissolve what it changes.
Changes(R) ==
    /\ R \subseteq Resources /\ CommitTruth(R)
    /\ dead \subseteq dead' /\ dead' \subseteq dead \cup R
    /\ UNCHANGED redisVars

\* The replacement script installs the current version of r.
Installs(r) ==
    /\ content' = [content EXCEPT ![r] = version[r]]
    /\ loaded' = loaded \cup {r}
    /\ UNCHANGED <<version, dead, groupSeq>>

\* The group_seq key of r is deleted.
Purges(r) == groupSeq' = groupSeq \ {r} /\ UNCHANGED <<version, dead, content, loaded>>

\* The marker that r is loaded is deleted.
Unloads(r) == loaded' = loaded \ {r} /\ UNCHANGED <<version, dead, content, groupSeq>>

\* A message check passes in g.
Sends(g) ==
    /\ content[g] # None /\ ~ (g \in dead /\ content[g] = version[g])
    /\ groupSeq' = groupSeq \cup {g}
    /\ UNCHANGED <<version, dead, content, loaded>>

\* Redis loses everything.
Loses ==
    /\ content' = [r \in Resources |-> None] /\ loaded' = {} /\ groupSeq' = {}
    /\ UNCHANGED <<version, dead>>

\* What a step can do to the truth and to Redis.
Effect ==
    \/ UNCHANGED store
    \/ \E R \in SUBSET Resources : Changes(R)
    \/ \E r \in Resources : Installs(r) \/ Purges(r) \/ Unloads(r) \/ Sends(r)
    \/ Loses

\* A process that writes, purges or invalidates does so for an owner, and what it
\* writes is current because it holds the row.
LEMMA ReplaceInstalls ==
  ASSUME CacheInv, NEW p \in Procs, pc[p] = "write", Replace(p), UNCHANGED mysqlVars
  PROVE  res[p] \in Resources /\ Installs(res[p])
<1>1. Task(p) /\ Owned(p)
  BY DEF CacheInv, ProcInv
<1>2. res[p] \in Resources /\ snap[p] = version[res[p]]
  BY <1>1 DEF Task, Owned, Busy, InTransaction
<1> QED BY <1>2 DEF Replace, Installs, mysqlVars

\* A refresh is about some resource.
LEMMA OwnerOf ==
  ASSUME CacheInv, NEW p \in Procs, pc[p] \in Busy
  PROVE  res[p] \in Resources
  BY DEF CacheInv, ProcInv, Task

\* Every step has one of these effects.
LEMMA StepEffect ==
  ASSUME CacheInv, Next
  PROVE  Effect
<1>1. ASSUME NEW p \in Procs, p \in Requests, Begins(p) PROVE Effect
  <2>1. ASSUME NEW R \in Scopes, Business(p, R) PROVE Effect
    <3>1. Changes(R) /\ R \in SUBSET Resources
      BY <2>1, ScopesTyped DEF Business, Changes
    <3> QED BY <3>1 DEF Effect
  <2>2. ASSUME NEW g \in Groups, Disband(p, g) PROVE Effect
    <3>1. Changes({g}) /\ {g} \in SUBSET Resources
      BY <2>2 DEF Disband, Changes, Resources
    <3> QED BY <3>1 DEF Effect
  <2>3. ASSUME NEW R \in Scopes, Ensure(p, R) PROVE Effect
    BY <2>3 DEF Ensure, Effect, store, mysqlVars, redisVars
  <2>4. ASSUME NEW g \in Groups, DisbandAgain(p, g) PROVE Effect
    BY <2>4 DEF DisbandAgain, Effect, store, mysqlVars, redisVars
  <2>5. ASSUME NEW strict \in BOOLEAN, BulkRebuild(p, strict) PROVE Effect
    BY <2>5 DEF BulkRebuild, Effect, store, mysqlVars, redisVars
  <2> QED BY <1>1, <2>1, <2>2, <2>3, <2>4, <2>5 DEF Begins
<1>2. ASSUME NEW p \in Procs, Continue(p) PROVE Effect
  <2>1. CASE Pick(p) \/ Finish(p) \/ TryLock(p) \/ GiveUp(p) \/ Recheck(p) \/ Snapshot(p)
             \/ Commit(p) \/ Release(p)
    BY <2>1 DEF Pick, Finish, TryLock, GiveUp, Recheck, Snapshot, Commit, Release,
                Effect, store, mysqlVars, redisVars
  <2>2. CASE Invalidate(p)
    <3>1. res[p] \in Resources /\ Unloads(res[p])
      BY <2>2, OwnerOf DEF Invalidate, Busy, Unloads, mysqlVars
    <3> QED BY <3>1 DEF Effect
  <2>3. CASE Write(p)
    <3>1. res[p] \in Resources /\ Installs(res[p])
      BY <2>3, ReplaceInstalls DEF Write
    <3> QED BY <3>1 DEF Effect
  <2>4. CASE Purge(p)
    <3>1. res[p] \in Resources /\ Purges(res[p])
      BY <2>4, OwnerOf DEF Purge, Busy, Purges, mysqlVars
    <3> QED BY <3>1 DEF Effect
  <2> QED BY <1>2, <2>1, <2>2, <2>3, <2>4 DEF Continue
<1>3. ASSUME NEW p \in Procs, Fails(p) PROVE Effect
  <2>1. CASE LockError(p) \/ ReleaseFails(p) \/ Crash(p)
    BY <2>1 DEF LockError, ReleaseFails, Crash, Effect, store, mysqlVars, redisVars
  <2>2. CASE OpError(p)
    <3>0. UNCHANGED mysqlVars
      BY <2>2 DEF OpError
    <3>1. CASE UNCHANGED redisVars
      BY <3>0, <3>1 DEF Effect, store, mysqlVars, redisVars
    <3>2. CASE pc[p] = "write" /\ Replace(p)
      BY <3>0, <3>2, ReplaceInstalls DEF Effect
    <3>3. CASE pc[p] = "purge" /\ groupSeq' = groupSeq \ {res[p]} /\ UNCHANGED <<content, loaded>>
      BY <3>0, <3>3, OwnerOf DEF Effect, Purges, Busy, mysqlVars
    <3>4. CASE /\ pc[p] = "invalidate" /\ loaded' = loaded \ {res[p]}
               /\ UNCHANGED <<content, groupSeq>>
      BY <3>0, <3>4, OwnerOf DEF Effect, Unloads, Busy, mysqlVars
    <3> QED BY <2>2, <3>1, <3>2, <3>3, <3>4 DEF OpError
  <2> QED BY <1>3, <2>1, <2>2 DEF Fails
<1>4. ASSUME NEW p \in Workers, WorkerStep(p) \/ MarkFails(p) PROVE Effect
  BY <1>4 DEF WorkerStep, Claim, Mark, MarkFails, EndEvent, Effect, store, redisVars
<1>5. ASSUME Happens PROVE Effect
  <2>1. ASSUME NEW g \in Groups, SendGroup(g) PROVE Effect
    <3>1. Sends(g) /\ g \in Resources
      BY <2>1 DEF SendGroup, Sends, Resources, mysqlVars
    <3> QED BY <3>1 DEF Effect
  <2>2. ASSUME RedisLoss PROVE Effect
    BY <2>2 DEF RedisLoss, Loses, Effect, mysqlVars
  <2>3. ASSUME NEW e \in Events, LeaseExpires(e) PROVE Effect
    BY <2>3 DEF LeaseExpires, Effect, store, redisVars
  <2>4. ASSUME NEW r \in Resources, LockExpires(r) PROVE Effect
    BY <2>4 DEF LockExpires, Effect, store, mysqlVars, redisVars
  <2> QED BY <1>5, <2>1, <2>2, <2>3, <2>4 DEF Happens
<1> QED BY <1>1, <1>2, <1>3, <1>4, <1>5, StepKinds DEF Acts

(***************************************************************************)
(* What no effect undoes                                                   *)
(***************************************************************************)

\* A locked owner row keeps its version, its group alive or dead, and what a
\* refresh has brought to Redis.
LEMMA LockedStays ==
  ASSUME CacheInv, Effect, NEW r \in Resources, rowLock[r] # None
  PROVE  /\ version'[r] = version[r] /\ (r \in dead' <=> r \in dead)
         /\ Settled(r) => Settled(r)'
         /\ r \in dead /\ Settled(r) /\ r \notin groupSeq => r \notin groupSeq'
<1>0. StoreTyped
  BY TypeSplit DEF CacheInv
<1>1. CASE UNCHANGED store
  BY <1>1 DEF store, Settled
<1>2. ASSUME NEW R \in SUBSET Resources, Changes(R)
      PROVE  /\ version'[r] = version[r] /\ (r \in dead' <=> r \in dead)
             /\ UNCHANGED <<content, groupSeq>>
  <2>1. r \notin R
    BY <1>2 DEF Changes, CommitTruth
  <2> QED BY <1>2, <2>1 DEF Changes, CommitTruth, redisVars
<1>3. ASSUME NEW s \in Resources, Installs(s)
      PROVE  (Settled(r) => Settled(r)') /\ UNCHANGED <<version, dead, groupSeq>>
  BY <1>0, <1>3 DEF Installs, Settled, StoreTyped
<1>4. ASSUME NEW s \in Resources, Purges(s) \/ Unloads(s)
      PROVE  UNCHANGED <<version, dead, content>> /\ (r \notin groupSeq => r \notin groupSeq')
  BY <1>4 DEF Purges, Unloads
<1>5. ASSUME NEW s \in Resources, Sends(s)
      PROVE  /\ UNCHANGED <<version, dead, content>>
             /\ r \in dead /\ Settled(r) /\ r \notin groupSeq => r \notin groupSeq'
  BY <1>5 DEF Sends, Settled
<1>6. CASE Loses
  BY <1>0, <1>6 DEF Loses, Settled
<1> QED BY <1>1, <1>2, <1>3, <1>4, <1>5, <1>6 DEF Effect, Settled

\* No version is taken back.
LEMMA IssuedStays ==
  ASSUME CacheInv, Effect
  PROVE  Issued \subseteq Issued'
<1>0. StoreTyped
  BY TypeSplit DEF CacheInv
<1>1. \A r \in Resources : version[r] \in Int /\ version'[r] \in Int /\ version[r] <= version'[r]
  <2>1. \A r \in Resources : version[r] \in Int
    BY <1>0 DEF StoreTyped, Versions
  <2>2. ASSUME NEW R \in SUBSET Resources, Changes(R)
        PROVE  \A r \in Resources : version'[r] = version[r] \/ version'[r] = version[r] + 1
    BY <2>2 DEF Changes, CommitTruth
  <2>3. version' = version \/ \E R \in SUBSET Resources : Changes(R)
    BY DEF Effect, store, Installs, Purges, Unloads, Sends, Loses
  <2> QED BY <2>1, <2>2, <2>3
<1>2. \A e \in Events : e[1] \in Resources /\ e[2] \in Int
  BY DEF Events
<1> QED BY <1>1, <1>2 DEF Issued

\* What is reflected stays reflected: the only write to Redis that could take it
\* back would install an older version, and a new dissolution has a new row.
LEMMA ReflectedStays ==
  ASSUME CacheInv, Effect, NEW e \in Issued, Reflected(e)
  PROVE  Reflected(e)'
<1> DEFINE r == e[1]
           v == e[2]
<1>0. StoreTyped /\ r \in Resources /\ v \in Int /\ v <= version[r] /\ version[r] \in Int
  <2>1. StoreTyped
    BY TypeSplit DEF CacheInv
  <2>2. e \in Events /\ v <= version[r]
    BY DEF Issued
  <2>3. r \in Resources /\ v \in Int
    BY <2>2 DEF Events
  <2>4. version[r] \in Int
    BY <2>1, <2>3 DEF StoreTyped, Versions
  <2> QED BY <2>1, <2>2, <2>3, <2>4
<1>1. /\ r \in loaded => content[r] # None /\ content[r] >= v
      /\ r \in dead /\ v = version[r] => Settled(r) /\ r \notin groupSeq
  BY DEF Reflected, Applied
<1>2. SUFFICES /\ r \in loaded' => content'[r] # None /\ content'[r] >= v
               /\ r \in dead' /\ v = version'[r] => Settled(r)' /\ r \notin groupSeq'
  BY DEF Reflected, Applied, Settled
<1>3. CASE UNCHANGED store
  BY <1>1, <1>3 DEF store, Settled
<1>4. ASSUME NEW R \in SUBSET Resources, Changes(R)
      PROVE  /\ r \in loaded' => content'[r] # None /\ content'[r] >= v
             /\ r \in dead' /\ v = version'[r] => Settled(r)' /\ r \notin groupSeq'
  <2>1. r \in R => version'[r] = version[r] + 1 /\ v # version'[r]
    BY <1>0, <1>4 DEF Changes, CommitTruth
  <2>2. r \notin R => version'[r] = version[r] /\ (r \in dead' <=> r \in dead)
    BY <1>0, <1>4 DEF Changes, CommitTruth
  <2>3. UNCHANGED <<content, loaded, groupSeq>>
    BY <1>4 DEF Changes, redisVars
  <2> QED BY <1>1, <2>1, <2>2, <2>3 DEF Settled
<1>5. ASSUME NEW s \in Resources, Installs(s)
      PROVE  /\ r \in loaded' => content'[r] # None /\ content'[r] >= v
             /\ r \in dead' /\ v = version'[r] => Settled(r)' /\ r \notin groupSeq'
  <2>1. CASE s = r
    <3>1. content'[r] = version[r]
      BY <1>0, <1>5, <2>1 DEF Installs, StoreTyped
    <3>2. version[r] # None
      BY <1>0, ConstantsAssumption DEF StoreTyped, Versions
    <3> QED BY <1>0, <1>1, <1>5, <3>1, <3>2 DEF Installs, Settled
  <2>2. CASE s # r
    <3>1. content'[r] = content[r] /\ (r \in loaded' <=> r \in loaded)
      BY <1>0, <1>5, <2>2 DEF Installs, StoreTyped
    <3> QED BY <1>1, <1>5, <3>1 DEF Installs, Settled
  <2> QED BY <2>1, <2>2
<1>6. ASSUME NEW s \in Resources, Purges(s) \/ Unloads(s)
      PROVE  /\ r \in loaded' => content'[r] # None /\ content'[r] >= v
             /\ r \in dead' /\ v = version'[r] => Settled(r)' /\ r \notin groupSeq'
  BY <1>1, <1>6 DEF Purges, Unloads, Settled
<1>7. ASSUME NEW s \in Resources, Sends(s)
      PROVE  /\ r \in loaded' => content'[r] # None /\ content'[r] >= v
             /\ r \in dead' /\ v = version'[r] => Settled(r)' /\ r \notin groupSeq'
  BY <1>1, <1>7 DEF Sends, Settled
<1>8. CASE Loses
  BY <1>0, <1>8 DEF Loses, Settled
<1> QED BY <1>3, <1>4, <1>5, <1>6, <1>7, <1>8 DEF Effect

(***************************************************************************)
(* A process that another one does not disturb                             *)
(***************************************************************************)

\* A step leaves the variables of q and its row lock alone.
Apart(q) ==
    /\ pc'[q] = pc[q] /\ mode'[q] = mode[q] /\ res'[q] = res[q] /\ todo'[q] = todo[q]
    /\ snap'[q] = snap[q] /\ ok'[q] = ok[q]
    /\ q \in Workers => cur'[q] = cur[q]
    /\ \A r \in Resources : rowLock[r] = q => rowLock'[r] = q

\* The steps of others keep what a process relies on: whoever changes the truth of
\* a resource needs its row lock.
LEMMA ApartKeeps ==
  ASSUME CacheInv, Effect, NEW q \in Procs, Apart(q)
  PROVE  ProcInv(q)'
<1>0. Task(q) /\ Owned(q) /\ Wrote(q) /\ q # None
  BY ConstantsAssumption DEF CacheInv, ProcInv, Procs
<1>1. Task(q)'
  BY <1>0, IssuedStays DEF Task, Apart
<1>2. ASSUME pc[q] \in InTransaction
      PROVE  /\ res[q] \in Resources /\ rowLock[res[q]] = q /\ snap[q] = version[res[q]]
             /\ rowLock[res[q]] # None
  BY <1>0, <1>2 DEF Task, Owned, InTransaction, Busy
<1>3. Owned(q)'
  BY <1>2, LockedStays DEF Owned, Apart
<1>4. Wrote(q)'
  <2>1. ASSUME pc[q] \in {"purge", "commit"} PROVE Settled(res[q])'
    <3>1. PICK r \in Resources : r = res[q] /\ rowLock[r] # None
      BY <1>2, <2>1 DEF InTransaction
    <3>2. Settled(r)'
      BY <1>0, <2>1, <3>1, LockedStays DEF Wrote
    <3> QED BY <3>1, <3>2 DEF Apart, Settled
  <2>2. ASSUME pc[q] = "commit", res[q] \in dead' PROVE res[q] \notin groupSeq'
    BY <1>0, <1>2, <2>2, LockedStays DEF Wrote, InTransaction
  <2>3. ASSUME q \in Workers, pc[q] \in {"release", "mark"}, ok[q] PROVE Reflected(cur[q])'
    <3>1. PICK e \in Issued : e = cur[q] /\ Reflected(e)
      BY <1>0, <2>3 DEF Wrote, Task, Busy
    <3>2. Reflected(e)'
      BY <3>1, ReflectedStays
    <3>3. cur'[q] = e
      BY <2>3, <3>1 DEF Apart
    <3> QED BY <3>2, <3>3 DEF Reflected, Applied, Settled
  <2> QED BY <2>1, <2>2, <2>3 DEF Wrote, Apart, Settled, Reflected, Applied
<1> QED BY <1>1, <1>3, <1>4 DEF ProcInv

\* A step of p disturbs nobody else.
LEMMA OthersApart ==
  ASSUME CacheInv, NEW p \in Procs, Acts(p), NEW q \in Procs, q # p
  PROVE  Apart(q)
<1>0. LocalTyped /\ StoreTyped
  BY TypeSplit DEF CacheInv
<1>1. CASE p \in Requests /\ Begins(p)
  BY <1>0, <1>1 DEF Begins, Business, Ensure, Disband, DisbandAgain, BulkRebuild,
     Apart, LocalTyped, Goto, locks
<1>2. CASE Pick(p)
  <2>1. pc' = [pc EXCEPT ![p] = "pick"] \/ pc' = [pc EXCEPT ![p] = "lock"]
    BY <1>2 DEF Pick, Goto
  <2>2. /\ res'[q] = res[q] /\ todo'[q] = todo[q] /\ (q \in Workers => cur'[q] = cur[q])
    BY <1>0, <1>2 DEF Pick, LocalTyped
  <2>3. UNCHANGED <<mode, snap, ok, rowLock>>
    BY <1>2 DEF Pick, locks
  <2> QED BY <1>0, <2>1, <2>2, <2>3 DEF Apart, LocalTyped
<1>3. CASE GiveUp(p) \/ Release(p) \/ LockError(p) \/ ReleaseFails(p)
  <2>1. \E b \in BOOLEAN : Return(p, b)
    BY <1>0, <1>3 DEF GiveUp, Release, LockError, ReleaseFails, LocalTyped
  <2>2. UNCHANGED <<rowLock, mode, cur>>
    BY <1>3 DEF GiveUp, Release, LockError, ReleaseFails, locks
  <2> QED BY <1>0, <2>1, <2>2 DEF Return, Apart, LocalTyped, Goto
<1>4. CASE Finish(p) \/ TryLock(p) \/ Recheck(p) \/ Invalidate(p) \/ Write(p) \/ Purge(p)
  BY <1>0, <1>4 DEF Finish, TryLock, Recheck, Invalidate, Write, Purge, Apart, LocalTyped, Goto,
     locks, opVars
<1>5. CASE Snapshot(p)
  <2>1. \A r \in Resources : rowLock[r] = q => rowLock'[r] = q
    <3>1. q # None
      BY ConstantsAssumption DEF Procs
    <3> QED BY <1>0, <1>5, <3>1 DEF Snapshot, StoreTyped
  <2> QED BY <1>0, <1>5, <2>1 DEF Snapshot, Apart, LocalTyped, Goto, opVars
<1>6. CASE Commit(p) \/ OpError(p)
  BY <1>0, <1>6 DEF Commit, OpError, FreeRow, Apart, LocalTyped, Goto, opVars
<1>7. CASE Crash(p)
  BY <1>0, <1>7 DEF Crash, FreeRow, Apart, LocalTyped, Goto
<1>8. CASE p \in Workers /\ (WorkerStep(p) \/ MarkFails(p))
  BY <1>0, <1>8 DEF WorkerStep, Claim, Mark, MarkFails, EndEvent, Apart, LocalTyped, Goto, locks
<1> QED BY <1>1, <1>2, <1>3, <1>4, <1>5, <1>6, <1>7, <1>8 DEF Acts, Continue, Fails

\* The environment disturbs no process.
LEMMA AllApart ==
  ASSUME Happens, NEW q \in Procs
  PROVE  Apart(q)
  BY DEF Happens, LeaseExpires, LockExpires, SendGroup, RedisLoss, Apart, opVars, locks

(***************************************************************************)
(* The process that moves                                                  *)
(***************************************************************************)

\* A process that is not refreshing has nothing to keep but its task.
LEMMA AtRest ==
  ASSUME NEW p \in Procs, pc'[p] \in {"idle", "pick"},
         p \in Requests => todo'[p] \subseteq Resources,
         p \in Workers => mode'[p] = "refresh" /\ todo'[p] \subseteq Issued'
  PROVE  ProcInv(p)'
  BY DEF ProcInv, Task, Owned, Wrote, Busy, InTransaction

\* A request begins.
LEMMA BeginKeeps ==
  ASSUME CacheInv, NEW p \in Requests, Begins(p)
  PROVE  ProcInv(p)'
<1>0. LocalTyped /\ p \in Procs /\ p \notin Workers
  BY TypeSplit, ConstantsAssumption DEF CacheInv, Procs
<1>1. pc'[p] = "pick"
  BY <1>0 DEF Begins, Business, Ensure, Disband, DisbandAgain, BulkRebuild, Goto, LocalTyped
<1>2. todo'[p] \subseteq Resources
  <2>1. \A g \in Groups : {g} \subseteq Resources
    BY DEF Resources
  <2>2. \E S \in SUBSET Resources : todo' = [todo EXCEPT ![p] = S]
    BY <2>1, ScopesTyped DEF Begins, Business, Ensure, Disband, DisbandAgain, BulkRebuild
  <2> QED BY <1>0, <2>2 DEF LocalTyped
<1> QED BY <1>0, <1>1, <1>2, AtRest

\* A refresh returns: a worker goes on to mark its row, a request to its loop.
LEMMA ReturnKeeps ==
  ASSUME CacheInv, NEW p \in Procs, pc[p] \in Busy, NEW b \in BOOLEAN, Return(p, b), Effect,
         UNCHANGED <<mode, cur>>, b /\ p \in Workers => Reflected(cur[p])
  PROVE  ProcInv(p)'
<1>0. LocalTyped /\ Task(p)
  BY TypeSplit DEF CacheInv, ProcInv
<1>1. CASE p \in Workers
  <2>1. /\ pc'[p] = "mark" /\ ok'[p] = b /\ todo'[p] = todo[p] /\ cur'[p] = cur[p]
        /\ mode'[p] = "refresh" /\ p \notin Requests
    BY <1>0, <1>1, ConstantsAssumption DEF Return, LocalTyped, Goto, Task
  <2>2. todo'[p] \subseteq Issued' /\ cur'[p] \in Issued'
    BY <1>0, <1>1, <2>1, IssuedStays DEF Task
  <2>3. b => Reflected(cur[p])'
    <3>1. PICK e \in Issued : e = cur[p]
      BY <1>0, <1>1 DEF Task
    <3>2. b => Reflected(e)'
      BY <1>1, <3>1, ReflectedStays
    <3> QED BY <1>1, <2>1, <3>1, <3>2 DEF Reflected, Applied, Settled
  <2>4. Task(p)' /\ Owned(p)'
    BY <1>1, <2>1, <2>2 DEF Task, Owned, Busy, InTransaction
  <2>5. Wrote(p)'
    <3>1. ok'[p] => b
      BY <2>1
    <3> QED BY <2>1, <2>3, <3>1 DEF Wrote
  <2> QED BY <2>4, <2>5 DEF ProcInv
<1>2. CASE p \notin Workers
  <2>1. pc'[p] = "pick" /\ todo'[p] \subseteq todo[p]
    BY <1>0, <1>2 DEF Return, LocalTyped, Goto
  <2>2. p \in Requests => todo'[p] \subseteq Resources
    BY <1>0, <2>1 DEF Task
  <2> QED BY <1>2, <2>1, <2>2, AtRest
<1> QED BY <1>1, <1>2

\* The steps of a refresh before its result keep the task.
LEMMA TaskStays ==
  ASSUME CacheInv, Effect, NEW p \in Procs, pc[p] \in Busy, pc'[p] \in Busy,
         p \in Workers => pc'[p] # "recheck", UNCHANGED opVars
  PROVE  Task(p)'
<1>0. Task(p)
  BY DEF CacheInv, ProcInv
<1>1. Issued \subseteq Issued'
  BY IssuedStays
<1> QED BY <1>0, <1>1 DEF Task, opVars, Busy

\* The next resource or outbox row is taken up.
LEMMA PickKeeps ==
  ASSUME CacheInv, Effect, NEW p \in Procs, Pick(p)
  PROVE  ProcInv(p)'
<1>0. LocalTyped /\ Task(p) /\ Issued \subseteq Issued'
  BY TypeSplit, IssuedStays DEF CacheInv, ProcInv
<1>1. PICK x \in todo[p] :
        LET r == IF p \in Workers THEN x[1] ELSE x
            skip == mode[p] = "ensure" /\ (r \in loaded \/ r \in dead)
        IN  /\ todo' = [todo EXCEPT ![p] = @ \ {x}]
            /\ cur' = IF p \in Workers THEN [cur EXCEPT ![p] = x] ELSE cur
            /\ res' = IF skip THEN res ELSE [res EXCEPT ![p] = r]
            /\ Goto(p, IF skip THEN "pick" ELSE "lock")
  BY DEF Pick
<1>2. mode'[p] = mode[p] /\ todo'[p] = todo[p] \ {x}
  BY <1>0, <1>1 DEF Pick, LocalTyped
<1>3. /\ p \in Workers => p \notin Requests /\ mode[p] = "refresh" /\ x \in Issued
      /\ p \in Requests => x \in Resources
      /\ p \in Workers \/ p \in Requests
  BY <1>0, ConstantsAssumption DEF Task, Procs
<1>4. CASE p \in Workers
  <2>1. pc'[p] = "lock" /\ cur'[p] = x /\ res'[p] = x[1]
    BY <1>0, <1>1, <1>3, <1>4 DEF LocalTyped, Goto
  <2>2. x[1] \in Resources /\ x \in Issued'
    BY <1>0, <1>3, <1>4 DEF Issued, Events
  <2> QED BY <1>0, <1>2, <1>3, <1>4, <2>1, <2>2
          DEF ProcInv, Task, Owned, Wrote, Busy, InTransaction
<1>5. CASE p \notin Workers
  <2>0. todo'[p] \subseteq Resources
    BY <1>0, <1>2, <1>3, <1>5 DEF Task
  <2>1. CASE pc'[p] = "pick"
    BY <1>3, <1>5, <2>0, <2>1, AtRest
  <2>2. CASE pc'[p] # "pick"
    <3>1. pc'[p] = "lock" /\ res'[p] = x
      BY <1>0, <1>1, <1>5, <2>2 DEF LocalTyped, Goto
    <3> QED BY <1>3, <1>5, <2>0, <3>1 DEF ProcInv, Task, Owned, Wrote, Busy, InTransaction
  <2> QED BY <2>1, <2>2
<1> QED BY <1>4, <1>5

\* The steps of withResourceLock and reconcileCurrent.
LEMMA ContinueKeeps ==
  ASSUME CacheInv, Effect, NEW p \in Procs, Continue(p)
  PROVE  ProcInv(p)'
<1>0. /\ LocalTyped /\ StoreTyped /\ Task(p) /\ Owned(p) /\ Wrote(p)
      /\ pc[p] \in Busy => res[p] \in Resources
      /\ p # None /\ (p \in Workers => p \notin Requests)
  BY TypeSplit, ConstantsAssumption DEF CacheInv, ProcInv, Task, Procs
<1>1. CASE Pick(p)
  BY <1>1, PickKeeps
<1>2. CASE Finish(p)
  <2>1. pc'[p] = "idle" /\ todo'[p] = {} /\ mode'[p] = "refresh"
    BY <1>0, <1>2 DEF Finish, LocalTyped, Goto
  <2> QED BY <2>1, AtRest
<1>3. CASE TryLock(p)
  <2>1. pc[p] = "lock" /\ pc'[p] = AfterLock(p) /\ UNCHANGED opVars
    BY <1>0, <1>3 DEF TryLock, LocalTyped, Goto
  <2>2. /\ AfterLock(p) \in {"recheck", "invalidate", "snapshot"}
        /\ p \in Workers => AfterLock(p) # "recheck"
    BY <1>0 DEF AfterLock, Task
  <2>3. Task(p)'
    BY <2>1, <2>2, TaskStays DEF Busy
  <2> QED BY <2>1, <2>2, <2>3 DEF ProcInv, Owned, Wrote, InTransaction
<1>4. CASE GiveUp(p)
  BY <1>4, ReturnKeeps DEF GiveUp, Busy
<1>5. CASE Recheck(p)
  <2>1. pc[p] = "recheck" /\ p \notin Workers /\ UNCHANGED opVars
    BY <1>0, <1>5 DEF Recheck, Task
  <2>2. pc'[p] \in {"release", "snapshot"}
    BY <1>0, <1>5 DEF Recheck, LocalTyped, Goto
  <2>3. Task(p)'
    BY <2>1, <2>2, TaskStays DEF Busy
  <2> QED BY <2>1, <2>2, <2>3 DEF ProcInv, Owned, Wrote, InTransaction
<1>6. CASE Invalidate(p)
  <2>1. pc[p] = "invalidate" /\ pc'[p] = "snapshot" /\ UNCHANGED opVars
    BY <1>0, <1>6 DEF Invalidate, LocalTyped, Goto
  <2>2. Task(p)'
    BY <2>1, TaskStays DEF Busy
  <2> QED BY <2>1, <2>2 DEF ProcInv, Owned, Wrote, InTransaction
<1>7. CASE Snapshot(p)
  <2>1. /\ pc[p] = "snapshot" /\ pc'[p] = "write" /\ res[p] \in Resources
        /\ UNCHANGED opVars /\ UNCHANGED version
    BY <1>0, <1>7 DEF Snapshot, LocalTyped, Goto, mysqlVars, Busy
  <2>2. Task(p)'
    BY <2>1, TaskStays DEF Busy
  <2>3. rowLock'[res[p]] = p /\ snap'[p] = version[res[p]] /\ res'[p] = res[p]
    BY <1>0, <1>7, <2>1 DEF Snapshot, LocalTyped, StoreTyped, opVars
  <2> QED BY <2>1, <2>2, <2>3 DEF ProcInv, Owned, Wrote
<1>8. CASE Write(p)
  <2>1. /\ pc[p] = "write" /\ pc'[p] = (IF res[p] \in dead THEN "purge" ELSE "commit")
        /\ UNCHANGED <<opVars, snap, rowLock, version, dead>>
    BY <1>0, <1>8 DEF Write, LocalTyped, Goto, mysqlVars, locks
  <2>2. res[p] \in Resources /\ rowLock[res[p]] = p /\ snap[p] = version[res[p]]
    BY <1>0, <2>1 DEF Owned, InTransaction, Busy
  <2>3. Task(p)'
    BY <2>1, TaskStays DEF Busy
  <2>4. content'[res[p]] = version[res[p]]
    BY <1>0, <1>8, <2>2 DEF Write, Replace, StoreTyped
  <2>5. Owned(p)' /\ Wrote(p)'
    BY <2>1, <2>2, <2>4 DEF Owned, Wrote, Settled, opVars
  <2> QED BY <2>3, <2>5 DEF ProcInv
<1>9. CASE Purge(p)
  <2>1. /\ pc[p] = "purge" /\ pc'[p] = "commit" /\ groupSeq' = groupSeq \ {res[p]}
        /\ UNCHANGED <<opVars, snap, rowLock, version, dead, content>>
    BY <1>0, <1>9 DEF Purge, LocalTyped, Goto, mysqlVars, locks
  <2>2. Task(p)'
    BY <2>1, TaskStays DEF Busy
  <2>3. Owned(p)' /\ Wrote(p)'
    BY <1>0, <2>1 DEF Owned, Wrote, Settled, InTransaction, opVars
  <2> QED BY <2>2, <2>3 DEF ProcInv
<1>10. CASE Commit(p)
  <2>1. /\ pc[p] = "commit" /\ pc'[p] = "release" /\ UNCHANGED <<opVars, store>>
    BY <1>0, <1>10 DEF Commit, LocalTyped, Goto, mysqlVars, redisVars, store
  <2>2. Task(p)'
    BY <2>1, TaskStays DEF Busy
  <2>3. p \in Workers => Reflected(cur[p])
    <3>1. SUFFICES ASSUME p \in Workers PROVE Reflected(cur[p])
      OBVIOUS
    <3>2. PICK e \in Issued : e = cur[p] /\ res[p] = e[1] /\ e[1] \in Resources
      BY <1>0, <2>1, <3>1 DEF Task, Busy
    <3>3. e[2] <= version[e[1]] /\ e[2] \in Int /\ version[e[1]] \in Int
      BY <1>0, <3>2 DEF Issued, Events, StoreTyped, Versions
    <3>4. Settled(e[1]) /\ (e[1] \in dead => e[1] \notin groupSeq)
      BY <1>0, <2>1, <3>2 DEF Wrote
    <3>5. e[1] \in loaded => content[e[1]] # None
      BY DEF CacheInv, OutboxInv
    <3>6. Reflected(e)
      BY <3>3, <3>4, <3>5 DEF Reflected, Applied, Settled
    <3> QED BY <3>2, <3>6
  <2>4. Wrote(p)' /\ Owned(p)'
    <3>1. p \in Workers => Reflected(cur[p])'
      BY <2>1, <2>3 DEF store, opVars, Reflected, Applied, Settled
    <3> QED BY <2>1, <3>1 DEF Wrote, Owned, InTransaction
  <2> QED BY <2>2, <2>4 DEF ProcInv
<1>11. CASE Release(p)
  <2>1. ok[p] \in BOOLEAN /\ pc[p] = "release" /\ Return(p, ok[p]) /\ UNCHANGED <<mode, cur>>
    BY <1>0, <1>11 DEF Release, LocalTyped
  <2>2. ok[p] /\ p \in Workers => Reflected(cur[p])
    BY <1>0, <2>1 DEF Wrote
  <2>3. pc[p] \in Busy
    BY <2>1 DEF Busy
  <2> QED BY <2>1, <2>2, <2>3, ReturnKeeps
<1> QED BY <1>1, <1>2, <1>3, <1>4, <1>5, <1>6, <1>7, <1>8, <1>9, <1>10, <1>11 DEF Continue

\* A refresh fails or its process crashes.
LEMMA FailKeeps ==
  ASSUME CacheInv, Effect, NEW p \in Procs, Fails(p)
  PROVE  ProcInv(p)'
<1>0. LocalTyped /\ Task(p)
  BY TypeSplit DEF CacheInv, ProcInv
<1>1. CASE LockError(p) \/ ReleaseFails(p)
  BY <1>1, ReturnKeeps DEF LockError, ReleaseFails, Busy
<1>2. CASE OpError(p)
  <2>1. pc[p] \in Busy /\ pc'[p] = "release" /\ ok'[p] = FALSE /\ UNCHANGED opVars
    BY <1>0, <1>2 DEF OpError, LocalTyped, Goto, Busy
  <2>2. Task(p)'
    BY <2>1, TaskStays DEF Busy
  <2> QED BY <2>1, <2>2 DEF ProcInv, Owned, Wrote, InTransaction
<1>3. CASE Crash(p)
  <2>1. pc'[p] = "idle" /\ todo'[p] = {} /\ mode'[p] = "refresh"
    BY <1>0, <1>3 DEF Crash, LocalTyped, Goto
  <2> QED BY <2>1, AtRest
<1> QED BY <1>1, <1>2, <1>3 DEF Fails

\* A worker claims rows, or closes one.
LEMMA WorkerKeeps ==
  ASSUME CacheInv, Effect, NEW p \in Workers, WorkerStep(p) \/ MarkFails(p)
  PROVE  ProcInv(p)'
<1>0. LocalTyped /\ Task(p) /\ p \in Procs /\ p \notin Requests /\ Issued \subseteq Issued'
  BY TypeSplit, ConstantsAssumption, IssuedStays DEF CacheInv, ProcInv, Procs
<1>1. CASE Claim(p)
  <2>1. PICK B \in SUBSET Claimable : todo' = [todo EXCEPT ![p] = B]
    BY <1>1 DEF Claim
  <2>2. B \subseteq Issued
    BY DEF Claimable, CacheInv, OutboxInv
  <2>3. pc'[p] = "pick" /\ todo'[p] = B /\ mode'[p] = "refresh"
    BY <1>0, <1>1, <2>1 DEF Claim, LocalTyped, Goto
  <2> QED BY <1>0, <2>2, <2>3, AtRest
<1>2. CASE Mark(p) \/ MarkFails(p)
  <2>1. EndEvent(p)
    BY <1>2 DEF Mark, MarkFails
  <2>2. pc'[p] = "pick" /\ todo'[p] = todo[p] /\ mode'[p] = "refresh"
    BY <1>0, <2>1 DEF EndEvent, LocalTyped, Goto, Task
  <2>3. todo'[p] \subseteq Issued'
    BY <1>0, <2>2 DEF Task
  <2> QED BY <1>0, <2>2, <2>3, AtRest
<1> QED BY <1>1, <1>2 DEF WorkerStep

\* Every step keeps what every process relies on.
LEMMA ProcStep ==
  ASSUME CacheInv, Next, NEW q \in Procs
  PROVE  ProcInv(q)'
<1>0. Effect
  BY StepEffect
<1>1. CASE Happens
  BY <1>0, <1>1, AllApart, ApartKeeps
<1>2. ASSUME NEW p \in Procs, Acts(p) PROVE ProcInv(q)'
  <2>1. CASE q # p
    BY <1>0, <1>2, <2>1, OthersApart, ApartKeeps
  <2>2. CASE q = p
    BY <1>0, <1>2, <2>2, BeginKeeps, ContinueKeeps, FailKeeps, WorkerKeeps DEF Acts
  <2> QED BY <2>1, <2>2
<1> QED BY <1>1, <1>2, StepKinds

(***************************************************************************)
(* The outbox rows                                                         *)
(***************************************************************************)

\* What a step does to the rows: a transaction inserts rows for the versions it
\* makes, a row is closed by a worker whose refresh succeeded.
RowStep ==
    /\ \A e \in Events : event'[e] # "none" => event[e] # "none" \/ e \in Issued'
    /\ \A e \in Events : event'[e] = "done" =>
           \/ event[e] = "done"
           \/ \E w \in Workers : pc[w] = "mark" /\ ok[w] /\ cur[w] = e

\* A business transaction inserts rows for what it changes.
LEMMA CommitRows ==
  ASSUME CacheInv, NEW R, R \subseteq Resources, CommitTruth(R)
  PROVE  RowStep
<1>0. StoreTyped
  BY TypeSplit DEF CacheInv
<1>1. \A e \in Events : e[1] \in Resources /\ e[2] \in Int /\ version[e[1]] \in Int
  BY <1>0 DEF Events, StoreTyped, Versions
<1>2. \A e \in Events : \/ event'[e] = event[e]
                        \/ event'[e] = "pending" /\ e[1] \in R /\ e[2] = version'[e[1]]
  BY <1>1 DEF CommitTruth
<1>3. \A e \in Events : e[2] = version'[e[1]] => e \in Issued'
  BY <1>1 DEF Issued
<1> QED BY <1>2, <1>3 DEF RowStep

\* Every step changes the outbox rows in one of these ways.
LEMMA StepRows ==
  ASSUME CacheInv, Next
  PROVE  RowStep
<1>0. StoreTyped /\ LocalTyped
  BY TypeSplit DEF CacheInv
<1>1. CASE event' = event
  BY <1>1 DEF RowStep
<1>2. ASSUME NEW p \in Requests, Begins(p) PROVE RowStep
  <2>1. ASSUME NEW R \in Scopes, Business(p, R) PROVE RowStep
    BY <2>1, CommitRows, ScopesTyped DEF Business
  <2>2. ASSUME NEW g \in Groups, Disband(p, g) PROVE RowStep
    <3>1. {g} \subseteq Resources
      BY DEF Resources
    <3> QED BY <2>2, <3>1, CommitRows DEF Disband
  <2>3. ASSUME \/ \E R \in Scopes : Ensure(p, R)
               \/ \E g \in Groups : DisbandAgain(p, g)
               \/ \E strict \in BOOLEAN : BulkRebuild(p, strict)
        PROVE  event' = event
    BY <2>3 DEF Ensure, DisbandAgain, BulkRebuild, mysqlVars
  <2> QED BY <1>1, <1>2, <2>1, <2>2, <2>3 DEF Begins
<1>3. ASSUME NEW p \in Procs, Continue(p) PROVE event' = event
  BY <1>3 DEF Continue, Pick, Finish, TryLock, GiveUp, Recheck, Invalidate, Snapshot, Write, Purge,
     Commit, Release, mysqlVars
<1>4. ASSUME NEW p \in Procs, Fails(p) PROVE event' = event
  BY <1>4 DEF Fails, LockError, OpError, ReleaseFails, Crash, mysqlVars
<1>5. ASSUME NEW w \in Workers, Claim(w) PROVE RowStep
  <2>1. PICK B \in SUBSET Claimable :
          event' = [e \in Events |-> IF e \in B THEN "claimed" ELSE event[e]]
    BY <1>5 DEF Claim
  <2>2. \A e \in B : event[e] # "none"
    BY DEF Claimable
  <2> QED BY <2>1, <2>2 DEF RowStep
<1>6. ASSUME NEW w \in Workers, Mark(w) PROVE RowStep
  <2>1. PICK c : c = cur[w]
    OBVIOUS
  <2>2. pc[w] = "mark" /\ MarkRow(w, c, IF ok[w] THEN "done" ELSE "pending")
    BY <1>6, <2>1 DEF Mark
  <2>3. CASE Held(c) /\ event' = [event EXCEPT ![c] = IF ok[w] THEN "done" ELSE "pending"]
    <3>1. \A e \in Events : e # c => event'[e] = event[e]
      BY <1>0, <2>3 DEF StoreTyped
    <3>2. c \in Events => /\ event[c] # "none"
                          /\ event'[c] = "done" => ok[w]
      BY <1>0, <2>3 DEF StoreTyped, Held
    <3> QED BY <2>1, <2>2, <3>1, <3>2 DEF RowStep
  <2> QED BY <1>1, <2>2, <2>3 DEF MarkRow
<1>7. ASSUME NEW w \in Workers, MarkFails(w) PROVE event' = event
  BY <1>7 DEF MarkFails
<1>8. ASSUME NEW e \in Events, LeaseExpires(e) PROVE RowStep
  BY <1>0, <1>8 DEF LeaseExpires, RowStep, StoreTyped
<1>9. ASSUME (\E r \in Resources : LockExpires(r)) \/ (\E g \in Groups : SendGroup(g)) \/ RedisLoss
      PROVE  event' = event
  BY <1>9 DEF LockExpires, SendGroup, RedisLoss, mysqlVars
<1> QED BY <1>1, <1>2, <1>3, <1>4, <1>5, <1>6, <1>7, <1>8, <1>9, StepKinds
        DEF Acts, Happens, WorkerStep

\* Every step keeps the facts about the stores.
LEMMA OutboxStep ==
  ASSUME CacheInv, Next
  PROVE  OutboxInv'
<1>0. /\ Effect /\ RowStep /\ OutboxInv /\ StoreTyped /\ Issued \subseteq Issued'
      /\ \A w \in Workers : Task(w) /\ Wrote(w)
  BY StepEffect, StepRows, TypeSplit, IssuedStays DEF CacheInv, ProcInv, Procs
<1>1. \A e \in Events : event'[e] # "none" => e \in Issued'
  BY <1>0 DEF RowStep, OutboxInv
<1>2. ASSUME NEW e \in Events, event'[e] = "done" PROVE Reflected(e)'
  <2>1. e \in Issued /\ Reflected(e)
    <3>1. CASE event[e] = "done"
      BY <1>0, <3>1 DEF OutboxInv
    <3>2. CASE \E w \in Workers : pc[w] = "mark" /\ ok[w] /\ cur[w] = e
      BY <1>0, <3>2 DEF Task, Wrote, Busy
    <3> QED BY <1>0, <1>2, <3>1, <3>2 DEF RowStep
  <2> QED BY <1>0, <2>1, ReflectedStays
<1>3. \A r \in loaded' : content'[r] # None
  <2>1. \A r \in loaded : content[r] # None
    BY <1>0 DEF OutboxInv
  <2>2. ASSUME NEW s \in Resources, Installs(s) PROVE \A r \in loaded' : content'[r] # None
    <3>1. version[s] # None
      BY <1>0, ConstantsAssumption DEF StoreTyped, Versions
    <3> QED BY <1>0, <2>1, <2>2, <3>1 DEF Installs, StoreTyped
  <2>3. CASE UNCHANGED content /\ loaded' \subseteq loaded
    BY <2>1, <2>3
  <2>4. CASE Loses
    BY <2>4 DEF Loses
  <2> QED BY <1>0, <2>2, <2>3, <2>4
          DEF Effect, store, Changes, redisVars, Purges, Unloads, Sends
<1>4. \A g \in dead' : version'[g] >= 1
  <2>0. \A g \in dead : version[g] >= 1
    BY <1>0 DEF OutboxInv
  <2>1. ASSUME NEW R \in SUBSET Resources, Changes(R) PROVE \A g \in dead' : version'[g] >= 1
    <3>1. \A g \in R : version'[g] = version[g] + 1 /\ version[g] \in Nat
      BY <1>0, <2>1 DEF Changes, CommitTruth, StoreTyped, Versions
    <3>2. \A g \in dead : g \notin R /\ version'[g] = version[g]
      BY <1>0, <2>1 DEF Changes, CommitTruth, StoreTyped, Resources
    <3> QED BY <2>0, <2>1, <3>1, <3>2 DEF Changes
  <2>2. CASE UNCHANGED <<version, dead>>
    BY <2>0, <2>2
  <2> QED BY <1>0, <2>1, <2>2 DEF Effect, store, Installs, Purges, Unloads, Sends, Loses
<1> QED BY <1>1, <1>2, <1>3, <1>4 DEF OutboxInv

(***************************************************************************)
(* The theorems                                                            *)
(***************************************************************************)
LEMMA InitHolds == Init => CacheInv
<1>1. SUFFICES ASSUME Init PROVE CacheInv
  OBVIOUS
<1>2. TypeOK
  BY <1>1, ConstantsAssumption DEF Init, TypeOK, Versions, EventStatus, Steps, Modes
<1>3. OutboxInv
  BY <1>1 DEF Init, OutboxInv
<1>4. \A p \in Procs : ProcInv(p)
  BY <1>1, <1>2 DEF Init, ProcInv, Task, Owned, Wrote, Busy, InTransaction, Procs
<1> QED BY <1>2, <1>3, <1>4 DEF CacheInv

\* Every step preserves the invariant.
LEMMA StepHolds == CacheInv /\ [Next]_vars => CacheInv'
<1>1. ASSUME CacheInv, Next PROVE CacheInv'
  BY <1>1, TypeStep, OutboxStep, ProcStep DEF CacheInv
<1>2. ASSUME CacheInv, UNCHANGED vars PROVE CacheInv'
  BY <1>2 DEF vars, CacheInv, TypeOK, OutboxInv, ProcInv, Task, Owned, Wrote, Reflected, Applied,
     Settled, Issued
<1> QED BY <1>1, <1>2

\* A refresh in its transaction holds the truth, a closed row is reflected and a
\* worker's success is true, in every reachable state.
THEOREM CacheInvariant == Spec => []CacheInv
  BY InitHolds, StepHolds, PTL DEF Spec

\* A row that MarkCacheReconcileSuccess closed has its change in the loaded
\* projection, whoever lost a lease, a Redis lock or a call meanwhile.
THEOREM ClosedRowsApplied == Spec => []DoneEventsApplied
<1>1. CacheInv => DoneEventsApplied
  BY DEF CacheInv, OutboxInv, DoneEventsApplied, Reflected
<1> QED BY <1>1, CacheInvariant, PTL

\* Every variable has its type, and the group_seq key of a group whose dissolution
\* is reconciled is gone for good.
THEOREM SequenceStaysPurged == Spec => []KeysAgree
<1>1. ASSUME CacheInv PROVE KeysAgree
  <2>1. TypeOK /\ StoreTyped /\ OutboxInv
    BY <1>1, TypeSplit DEF CacheInv
  <2>2. ASSUME NEW g \in dead, event[<<g, version[g]>>] = "done" PROVE g \notin groupSeq
    <3>1. g \in Resources /\ version[g] \in 1..MaxVersion
      BY <2>1 DEF StoreTyped, OutboxInv, Resources, Versions
    <3>2. PICK e \in Events : e = <<g, version[g]>>
      BY <3>1 DEF Events
    <3>3. Reflected(e)
      BY <2>1, <2>2, <3>2 DEF OutboxInv
    <3> QED BY <2>2, <3>2, <3>3 DEF Reflected
  <2> QED BY <2>1, <2>2 DEF KeysAgree, SequencePurged
<1> QED BY <1>1, CacheInvariant, PTL

\* Every step of the implementation is a step of Projection or leaves it alone: a
\* write installs the version of that moment, a transaction changes the truth
\* alone.
LEMMA EffectRefines ==
  ASSUME CacheInv, Effect
  PROVE  Abstract!Next \/ UNCHANGED <<version, content>>
<1>1. CASE UNCHANGED store
  BY <1>1 DEF store
<1>2. ASSUME NEW R \in SUBSET Resources, Changes(R) PROVE Abstract!Change(R)
  BY <1>2 DEF Changes, CommitTruth, redisVars, Abstract!Change
<1>3. ASSUME NEW r \in Resources, Installs(r) PROVE Abstract!Refresh(r)
  BY <1>3 DEF Installs, Abstract!Refresh
<1>4. ASSUME NEW r \in Resources, Purges(r) \/ Unloads(r) \/ Sends(r)
      PROVE  UNCHANGED <<version, content>>
  BY <1>4 DEF Purges, Unloads, Sends
<1>5. ASSUME Loses PROVE Abstract!Lose
  BY <1>5 DEF Loses, Abstract!Lose
<1> QED BY <1>1, <1>2, <1>3, <1>4, <1>5 DEF Effect, Abstract!Next

\* The cache implements Projection: no refresh ever installs a version that is not
\* the one MySQL holds at that moment.
THEOREM RefreshesInstallTruth == Spec => AbstractSpec
<1>1. Init => Abstract!Init
  BY DEF Init, Abstract!Init
<1>2. CacheInv /\ [Next]_vars => [Abstract!Next]_<<version, content>>
  <2>1. ASSUME CacheInv, Next PROVE [Abstract!Next]_<<version, content>>
    BY <2>1, StepEffect, EffectRefines
  <2>2. ASSUME UNCHANGED vars PROVE UNCHANGED <<version, content>>
    BY <2>2 DEF vars
  <2> QED BY <2>1, <2>2
<1> QED BY <1>1, <1>2, CacheInvariant, PTL DEF Spec, AbstractSpec, Abstract!Spec

=============================================================================
