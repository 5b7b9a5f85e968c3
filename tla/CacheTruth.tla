---------------------------- MODULE CacheTruth ----------------------------
(***************************************************************************)
(* The relationship cache: MySQL is the truth, Redis a projection of it.   *)
(* service/cache_truth.go (CacheTruthService, CacheReconciler),            *)
(* repository/cache_mysql.go and repository/cache_redis.go.                *)
(*                                                                         *)
(* A resource is one cache owner: a user (the friend or blacklist          *)
(* projection) or a group (the member projection).  Its MySQL content is a *)
(* version number that every committed business transaction raises; the    *)
(* transaction inserts the outbox event <<r, v>> for the version it makes. *)
(* Redis holds a version of the content and a separate loaded marker.      *)
(*                                                                         *)
(* Processes are request goroutines (business operations followed by their *)
(* post-commit refresh, EnsureAccess, Warm, Rebuild) and reconcile workers.*)
(* All of them refresh a resource with the same steps, interleaved here    *)
(* one by one: take the Redis lock, lock the MySQL owner row and read,     *)
(* replace the projection, commit, release the lock.                       *)
(*                                                                         *)
(* Time is abstracted: a Redis lock may expire at any moment, a worker's   *)
(* lease at any moment too, and a retry delay has always passed.           *)
(***************************************************************************)
EXTENDS Integers, FiniteSets

CONSTANTS
    Users,        \* owners of a friend or blacklist projection
    Groups,       \* owners of a group member projection
    Requests,     \* request goroutines
    Workers,      \* CacheReconciler instances
    BatchSize,    \* CacheReconcilerOptions.BatchSize
    MaxVersion,   \* bound: business transactions per resource
    MaxBulk,      \* bound: Warm and Rebuild runs, repeated Disband calls
    MaxFaults,    \* bound: crashes, Redis losses and failed calls
    None

ASSUME ConstantsAssumption ==
    /\ BatchSize \in Nat \ {0}
    /\ MaxVersion \in Nat /\ MaxBulk \in Nat /\ MaxFaults \in Nat
    /\ Users \cap Groups = {}
    /\ Requests \cap Workers = {}
    /\ None \notin Requests \cup Workers \cup Nat

Resources == Users \cup Groups
Procs == Requests \cup Workers
Versions == 0..MaxVersion
Events == Resources \X (1..MaxVersion)

VARIABLES
    version,    \* version[r]: the committed MySQL content of r
    dead,       \* the groups whose row is deleted and tombstoned
    event,      \* event[e]: status of the outbox row e
    token,      \* token[e]: the worker whose claim token the row carries
    content,    \* content[r]: the version Redis holds, None after a loss
    loaded,     \* the resources whose loaded marker is valid
    groupSeq,   \* the groups that have a group_seq:{gid} key
    warmLock,   \* warmLock[r]: the process whose token the Redis lock holds
    rowLock,    \* rowLock[r]: the process holding the MySQL owner row
    pc,         \* pc[p]: the step p is at
    mode,       \* mode[p]: "refresh", "ensure", "warm" or "strict"
    res,        \* res[p]: the resource p refreshes
    todo,       \* todo[p]: what p refreshes next: resources, or a worker's batch
    cur,        \* cur[w]: the event worker w processes
    snap,       \* snap[p]: the version p read under the row lock
    ok,         \* ok[p]: the refresh p just ran returned no error
    bulk,       \* Warm and Rebuild runs and repeated Disbands so far
    faults      \* faults so far

mysqlVars == <<version, dead, event, token>>
redisVars == <<content, loaded, groupSeq>>
locks == <<warmLock, rowLock>>
opVars == <<mode, res, todo, cur>>
vars == <<version, dead, event, token, content, loaded, groupSeq, warmLock,
          rowLock, pc, mode, res, todo, cur, snap, ok, bulk, faults>>

\* "claimed" and "expired" are both status = 1 rows; the lease of an expired
\* one has run out, so that another worker may claim it.
EventStatus == {"none", "pending", "claimed", "expired", "done"}
Modes == {"refresh", "ensure", "warm", "strict"}
Steps == {"idle", "pick", "lock", "recheck", "invalidate", "snapshot", "write",
          "purge", "commit", "release", "mark"}

TypeOK ==
    /\ version \in [Resources -> Versions]
    /\ dead \subseteq Groups
    /\ event \in [Events -> EventStatus]
    /\ token \in [Events -> Workers \cup {None}]
    /\ content \in [Resources -> Versions \cup {None}]
    /\ loaded \subseteq Resources
    /\ groupSeq \subseteq Groups
    /\ warmLock \in [Resources -> Procs \cup {None}]
    /\ rowLock \in [Resources -> Procs \cup {None}]
    /\ pc \in [Procs -> Steps]
    /\ mode \in [Procs -> Modes]
    /\ res \in [Procs -> Resources \cup {None}]
    /\ todo \in [Procs -> SUBSET (Resources \cup Events)]
    /\ cur \in [Workers -> Events \cup {None}]
    /\ snap \in [Procs -> Versions]
    /\ ok \in [Procs -> BOOLEAN]
    /\ bulk \in 0..MaxBulk
    /\ faults \in 0..MaxFaults

\* Every resource starts with content nobody has cached yet.
Init ==
    /\ version = [r \in Resources |-> 0]
    /\ dead = {}
    /\ event = [e \in Events |-> "none"]
    /\ token = [e \in Events |-> None]
    /\ content = [r \in Resources |-> None]
    /\ loaded = {}
    /\ groupSeq = {}
    /\ warmLock = [r \in Resources |-> None]
    /\ rowLock = [r \in Resources |-> None]
    /\ pc = [p \in Procs |-> "idle"]
    /\ mode = [p \in Procs |-> "refresh"]
    /\ res = [p \in Procs |-> None]
    /\ todo = [p \in Procs |-> {}]
    /\ cur = [w \in Workers |-> None]
    /\ snap = [p \in Procs |-> 0]
    /\ ok = [p \in Procs |-> FALSE]
    /\ bulk = 0
    /\ faults = 0

Goto(p, step) == pc' = [pc EXCEPT ![p] = step]
Fault == faults < MaxFaults /\ faults' = faults + 1

(***************************************************************************)
(* Business transactions and the calls that start a refresh                *)
(***************************************************************************)

\* A transaction that changes the resources R holds their owner rows until it
\* commits, so it commits only while no refresh reads them.  It stores the new
\* content and one outbox event per resource in one commit.
CommitTruth(R) ==
    /\ \A r \in R : rowLock[r] = None /\ version[r] < MaxVersion /\ r \notin dead
    /\ version' = [r \in Resources |-> IF r \in R THEN version[r] + 1 ELSE version[r]]
    /\ event' = [e \in Events |->
                    IF e[1] \in R /\ e[2] = version[e[1]] + 1 THEN "pending" ELSE event[e]]

\* A friend, blacklist or group operation of request p, up to its commit.  The
\* refresh after the commit (SetFriendCache, DeleteFriendCache, ...) follows;
\* a friendship changes the projections of both users.
Business(p, R) ==
    /\ pc[p] = "idle"
    /\ CommitTruth(R)
    /\ Goto(p, "pick")
    /\ mode' = [mode EXCEPT ![p] = "refresh"]
    /\ todo' = [todo EXCEPT ![p] = R]
    /\ UNCHANGED <<dead, token, redisVars, locks, res, cur, snap, ok,
                   bulk, faults>>

\* Group.Disband deletes the group and inserts its tombstone in the same commit.
Disband(p, g) ==
    /\ pc[p] = "idle"
    /\ CommitTruth({g})
    /\ dead' = dead \cup {g}
    /\ Goto(p, "pick")
    /\ mode' = [mode EXCEPT ![p] = "refresh"]
    /\ todo' = [todo EXCEPT ![p] = {g}]
    /\ UNCHANGED <<token, redisVars, locks, res, cur, snap, ok, bulk, faults>>

\* A repeated Disband finds the tombstone: it writes nothing and refreshes again.
DisbandAgain(p, g) ==
    /\ pc[p] = "idle"
    /\ g \in dead
    /\ bulk < MaxBulk
    /\ bulk' = bulk + 1
    /\ Goto(p, "pick")
    /\ todo' = [todo EXCEPT ![p] = {g}]
    /\ UNCHANGED <<mysqlVars, redisVars, locks, mode, res, cur, snap, ok, faults>>

\* EnsurePrivateAccess and EnsureGroupAccess before a message check; a group
\* with a tombstone is refused.
Ensure(p, R) ==
    /\ pc[p] = "idle"
    /\ R \cap dead = {}
    /\ Goto(p, "pick")
    /\ mode' = [mode EXCEPT ![p] = "ensure"]
    /\ todo' = [todo EXCEPT ![p] = R]
    /\ UNCHANGED <<mysqlVars, redisVars, locks, res, cur, snap, ok, bulk, faults>>

\* Warm (not strict) or Rebuild (strict) over every owner, groups that only
\* have a tombstone included.
BulkRebuild(p, strict) ==
    /\ pc[p] = "idle"
    /\ bulk < MaxBulk
    /\ bulk' = bulk + 1
    /\ Goto(p, "pick")
    /\ mode' = [mode EXCEPT ![p] = IF strict THEN "strict" ELSE "warm"]
    /\ todo' = [todo EXCEPT ![p] = Resources]
    /\ UNCHANGED <<mysqlVars, redisVars, locks, res, cur, snap, ok, faults>>

(***************************************************************************)
(* The outbox: claim, lease, mark                                          *)
(***************************************************************************)

Held(e) == event[e] \in {"claimed", "expired"}

\* Mutant: a row whose lease ran out is never claimed again.
Claimable_PendingOnly == { e \in Events : event[e] = "pending" }

Claimable == { e \in Events : event[e] \in {"pending", "expired"} }

\* ClaimCacheReconcileEvents: a batch of pending rows and rows whose lease ran
\* out, claimed in one transaction under a fresh token.
Claim(w) ==
    /\ pc[w] = "idle"
    /\ \E B \in SUBSET Claimable :
           /\ B # {} /\ Cardinality(B) <= BatchSize
           /\ event' = [e \in Events |-> IF e \in B THEN "claimed" ELSE event[e]]
           /\ token' = [e \in Events |-> IF e \in B THEN w ELSE token[e]]
           /\ todo' = [todo EXCEPT ![w] = B]
    /\ Goto(w, "pick")
    /\ mode' = [mode EXCEPT ![w] = "refresh"]
    /\ UNCHANGED <<version, dead, redisVars, locks, res, cur, snap, ok, bulk, faults>>

\* UPDATE ... WHERE status = 1 AND lock_token = token: the row moves only if
\* the worker still owns it; otherwise the worker logs ErrNotFound.
MarkRow(w, e, status) ==
    IF Held(e) /\ token[e] = w
      THEN /\ event' = [event EXCEPT ![e] = status]
           /\ token' = [token EXCEPT ![e] = None]
      ELSE UNCHANGED <<event, token>>

EndEvent(w) ==
    /\ Goto(w, "pick")
    /\ cur' = [cur EXCEPT ![w] = None]
    /\ ok' = [ok EXCEPT ![w] = FALSE]
    /\ UNCHANGED <<version, dead, redisVars, locks, mode, res, todo, snap, bulk>>

\* MarkCacheReconcileSuccess, or MarkCacheReconcileFailure, which makes the
\* row pending again.
Mark(w) ==
    /\ pc[w] = "mark"
    /\ MarkRow(w, cur[w], IF ok[w] THEN "done" ELSE "pending")
    /\ EndEvent(w)
    /\ UNCHANGED faults

\* The UPDATE fails; RunOnce records the error and takes the next event.
MarkFails(w) ==
    /\ pc[w] = "mark"
    /\ Fault
    /\ EndEvent(w)
    /\ UNCHANGED <<event, token>>

\* A worker that lost the event to a crash, or to an error of its Mark, never
\* renews the lease.
Abandoned(e) == \A w \in Workers : token[e] = w => (e \notin todo[w] /\ cur[w] # e)

\* locked_at falls behind the lease.  A batch that takes longer than the lease
\* counts as a fault; an abandoned row always expires.
LeaseExpires(e) ==
    /\ event[e] = "claimed"
    /\ IF Abandoned(e) THEN UNCHANGED faults ELSE Fault
    /\ event' = [event EXCEPT ![e] = "expired"]
    /\ UNCHANGED <<version, dead, token, redisVars, locks, pc, opVars, snap, ok, bulk>>

(***************************************************************************)
(* One refresh: withResourceLock around reconcileCurrent                   *)
(***************************************************************************)

\* A call ends: ReconcileNow returns to the loop over owners, to the worker, or
\* with an error to the caller of EnsureAccess, Warm and Rebuild, which stop.
Return(p, success) ==
    /\ res' = [res EXCEPT ![p] = None]
    /\ snap' = [snap EXCEPT ![p] = 0]
    /\ IF p \in Workers
         THEN Goto(p, "mark") /\ ok' = [ok EXCEPT ![p] = success] /\ UNCHANGED todo
         ELSE /\ Goto(p, "pick")
              /\ ok' = [ok EXCEPT ![p] = FALSE]
              /\ todo' = IF success \/ mode[p] = "refresh" THEN todo
                         ELSE [todo EXCEPT ![p] = {}]

\* The next owner of the loop, or the next event of the batch.  EnsureAccess
\* skips an owner whose marker it finds and a group that is gone.
Pick(p) ==
    /\ pc[p] = "pick"
    /\ \E x \in todo[p] :
           LET r == IF p \in Workers THEN x[1] ELSE x
               skip == mode[p] = "ensure" /\ (r \in loaded \/ r \in dead)
           IN  /\ todo' = [todo EXCEPT ![p] = @ \ {x}]
               /\ cur' = IF p \in Workers THEN [cur EXCEPT ![p] = x] ELSE cur
               /\ res' = IF skip THEN res ELSE [res EXCEPT ![p] = r]
               /\ Goto(p, IF skip THEN "pick" ELSE "lock")
    /\ UNCHANGED <<mysqlVars, redisVars, locks, mode, snap, ok, bulk, faults>>

Finish(p) ==
    /\ pc[p] = "pick" /\ todo[p] = {}
    /\ Goto(p, "idle")
    /\ mode' = [mode EXCEPT ![p] = "refresh"]
    /\ UNCHANGED <<mysqlVars, redisVars, locks, res, todo, cur, snap, ok, bulk, faults>>

AfterLock(p) ==
    IF mode[p] = "ensure" THEN "recheck"
    ELSE IF mode[p] = "strict" THEN "invalidate" ELSE "snapshot"

\* TryCacheWarmLock: SET NX with a TTL.
TryLock(p) ==
    /\ pc[p] = "lock" /\ warmLock[res[p]] = None
    /\ warmLock' = [warmLock EXCEPT ![res[p]] = p]
    /\ Goto(p, AfterLock(p))
    /\ UNCHANGED <<mysqlVars, redisVars, rowLock, opVars, snap, ok, bulk, faults>>

\* WaitTimeout passes while another process holds the lock.
GiveUp(p) ==
    /\ pc[p] = "lock" /\ warmLock[res[p]] # None
    /\ Return(p, FALSE)
    /\ UNCHANGED <<mysqlVars, redisVars, locks, mode, cur, bulk, faults>>

\* SET NX fails, before or after Redis stored the token.
LockError(p) ==
    /\ pc[p] = "lock"
    /\ Fault
    /\ \/ UNCHANGED warmLock
       \/ warmLock[res[p]] = None /\ warmLock' = [warmLock EXCEPT ![res[p]] = p]
    /\ Return(p, FALSE)
    /\ UNCHANGED <<mysqlVars, redisVars, rowLock, mode, cur, bulk>>

\* loadIfStillMissing reads the marker again under the lock.
Recheck(p) ==
    /\ pc[p] = "recheck"
    /\ IF res[p] \in loaded
         THEN Goto(p, "release") /\ ok' = [ok EXCEPT ![p] = TRUE]
         ELSE Goto(p, "snapshot") /\ UNCHANGED ok
    /\ UNCHANGED <<mysqlVars, redisVars, locks, opVars, snap, bulk, faults>>

\* InvalidateProjectionMarkers of a strict rebuild.
Invalidate(p) ==
    /\ pc[p] = "invalidate"
    /\ loaded' = loaded \ {res[p]}
    /\ Goto(p, "snapshot")
    /\ UNCHANGED <<mysqlVars, content, groupSeq, locks, opVars, snap, ok, bulk, faults>>

\* Mutant: a plain SELECT that does not lock the owner row.
Snapshot_NoRowLock(p) ==
    /\ pc[p] = "snapshot"
    /\ snap' = [snap EXCEPT ![p] = version[res[p]]]
    /\ Goto(p, "write")
    /\ UNCHANGED <<mysqlVars, redisVars, locks, opVars, ok, bulk, faults>>

\* WithinCacheSnapshot: SELECT ... FOR UPDATE on the owner row (or the group's
\* tombstone), then the first read of the transaction.
Snapshot(p) ==
    /\ pc[p] = "snapshot" /\ rowLock[res[p]] = None
    /\ rowLock' = [rowLock EXCEPT ![res[p]] = p]
    /\ snap' = [snap EXCEPT ![p] = version[res[p]]]
    /\ Goto(p, "write")
    /\ UNCHANGED <<mysqlVars, redisVars, warmLock, opVars, ok, bulk, faults>>

\* The replacement script: members and loaded marker change together.
Replace(p) ==
    /\ content' = [content EXCEPT ![res[p]] = snap[p]]
    /\ loaded' = loaded \cup {res[p]}
    /\ UNCHANGED groupSeq

\* Mutant: the sequence key of a dissolved group is left in place.
Write_NoPurge(p) ==
    /\ pc[p] = "write"
    /\ Replace(p)
    /\ Goto(p, "commit")
    /\ UNCHANGED <<mysqlVars, locks, opVars, snap, ok, bulk, faults>>

\* ReplaceFriendOwner, ReplaceBlacklistOwner, ReplaceGroupMembersOwner.
Write(p) ==
    /\ pc[p] = "write"
    /\ Replace(p)
    /\ Goto(p, IF res[p] \in dead THEN "purge" ELSE "commit")
    /\ UNCHANGED <<mysqlVars, locks, opVars, snap, ok, bulk, faults>>

\* DeleteDisbandedGroupRuntime, after the member projection is empty.  It also
\* deletes outbox:{gid}, which is not state of this module: WriteOutbox adds to
\* it without any check, so nothing could be said about it here.
Purge(p) ==
    /\ pc[p] = "purge"
    /\ groupSeq' = groupSeq \ {res[p]}
    /\ Goto(p, "commit")
    /\ UNCHANGED <<mysqlVars, content, loaded, locks, opVars, snap, ok, bulk, faults>>

FreeRow(p) == rowLock' = [r \in Resources |-> IF rowLock[r] = p THEN None ELSE rowLock[r]]

\* The snapshot transaction ends only after the Redis write.
Commit(p) ==
    /\ pc[p] = "commit"
    /\ FreeRow(p)
    /\ ok' = [ok EXCEPT ![p] = TRUE]
    /\ Goto(p, "release")
    /\ UNCHANGED <<mysqlVars, redisVars, warmLock, opVars, snap, bulk, faults>>

\* Mutant: the error of the operation is dropped.
OpError_Swallowed(p) ==
    /\ pc[p] \in {"recheck", "invalidate", "snapshot", "write", "purge", "commit"}
    /\ Fault
    /\ FreeRow(p)
    /\ ok' = [ok EXCEPT ![p] = TRUE]
    /\ Goto(p, "release")
    /\ UNCHANGED <<mysqlVars, redisVars, warmLock, opVars, snap, bulk>>

\* Mutant: the error path returns without the rollback.
OpError_NoRollback(p) ==
    /\ pc[p] \in {"recheck", "invalidate", "snapshot", "write", "purge", "commit"}
    /\ Fault
    /\ ok' = [ok EXCEPT ![p] = FALSE]
    /\ Goto(p, "release")
    /\ UNCHANGED <<mysqlVars, redisVars, locks, opVars, snap, bulk>>

\* A MySQL or Redis call of the operation fails; a Redis command may have taken
\* effect all the same.  The transaction rolls back and the lock is released.
OpError(p) ==
    /\ pc[p] \in {"recheck", "invalidate", "snapshot", "write", "purge", "commit"}
    /\ Fault
    /\ \/ UNCHANGED redisVars
       \/ pc[p] = "write" /\ Replace(p)
       \/ pc[p] = "purge" /\ groupSeq' = groupSeq \ {res[p]} /\ UNCHANGED <<content, loaded>>
       \/ pc[p] = "invalidate" /\ loaded' = loaded \ {res[p]} /\ UNCHANGED <<content, groupSeq>>
    /\ FreeRow(p)
    /\ ok' = [ok EXCEPT ![p] = FALSE]
    /\ Goto(p, "release")
    /\ UNCHANGED <<mysqlVars, warmLock, opVars, snap, bulk>>

\* ReleaseCacheWarmLock: GET = token, then DEL, in one script.
Release(p) ==
    /\ pc[p] = "release"
    /\ warmLock' = IF warmLock[res[p]] = p THEN [warmLock EXCEPT ![res[p]] = None] ELSE warmLock
    /\ Return(p, ok[p])
    /\ UNCHANGED <<mysqlVars, redisVars, rowLock, mode, cur, bulk, faults>>

\* The release fails: the refresh reports an error and the lock waits for its TTL.
ReleaseFails(p) ==
    /\ pc[p] = "release"
    /\ Fault
    /\ Return(p, FALSE)
    /\ UNCHANGED <<mysqlVars, redisVars, locks, mode, cur, bulk>>

(***************************************************************************)
(* The environment                                                         *)
(***************************************************************************)

\* The Redis lock's TTL runs out, whatever its holder is doing.
LockExpires(r) ==
    /\ warmLock[r] # None
    /\ warmLock' = [warmLock EXCEPT ![r] = None]
    /\ UNCHANGED <<mysqlVars, redisVars, rowLock, pc, opVars, snap, ok, bulk, faults>>

\* The server running p dies and starts again: MySQL rolls the open transaction
\* back, the Redis lock and the claims stay.
Crash(p) ==
    /\ pc[p] # "idle"
    /\ Fault
    /\ FreeRow(p)
    /\ Goto(p, "idle")
    /\ mode' = [mode EXCEPT ![p] = "refresh"]
    /\ res' = [res EXCEPT ![p] = None]
    /\ todo' = [todo EXCEPT ![p] = {}]
    /\ cur' = [w \in Workers |-> IF w = p THEN None ELSE cur[w]]
    /\ snap' = [snap EXCEPT ![p] = 0]
    /\ ok' = [ok EXCEPT ![p] = FALSE]
    /\ UNCHANGED <<mysqlVars, redisVars, warmLock, bulk>>

\* Redis loses everything it holds.
RedisLoss ==
    /\ Fault
    /\ content' = [r \in Resources |-> None]
    /\ loaded' = {}
    /\ groupSeq' = {}
    /\ warmLock' = [r \in Resources |-> None]
    /\ UNCHANGED <<mysqlVars, rowLock, pc, opVars, snap, ok, bulk>>

\* group_msg_check.lua for a member: it consults the member set alone and
\* creates group_seq (INCR).  The empty set of a dissolved group refuses
\* everybody.  The later write of the message into outbox:{gid} is Mailbox's.
SendGroup(g) ==
    /\ content[g] # None
    /\ ~ (g \in dead /\ content[g] = version[g])
    /\ groupSeq' = groupSeq \cup {g}
    /\ UNCHANGED <<mysqlVars, content, loaded, locks, pc, opVars, snap, ok, bulk, faults>>

(***************************************************************************)
(* The specification                                                       *)
(***************************************************************************)

\* The owners one call touches: a pair of users, one user or one group.
Scopes == { {r} : r \in Resources } \cup { {u, v} : u, v \in Users }

\* What a running server does next on its own.
Continue(p) ==
    \/ Pick(p) \/ Finish(p) \/ TryLock(p) \/ GiveUp(p) \/ Recheck(p) \/ Invalidate(p)
    \/ Snapshot(p) \/ Write(p) \/ Purge(p) \/ Commit(p) \/ Release(p)

WorkerStep(w) == Claim(w) \/ Mark(w)

Next ==
    \/ \E p \in Requests :
           \/ \E R \in Scopes : Business(p, R) \/ Ensure(p, R)
           \/ \E g \in Groups : Disband(p, g) \/ DisbandAgain(p, g)
           \/ \E strict \in BOOLEAN : BulkRebuild(p, strict)
    \/ \E p \in Procs :
           Continue(p) \/ LockError(p) \/ OpError(p) \/ ReleaseFails(p) \/ Crash(p)
    \/ \E w \in Workers : WorkerStep(w) \/ MarkFails(w)
    \/ \E e \in Events : LeaseExpires(e)
    \/ \E r \in Resources : LockExpires(r)
    \/ \E g \in Groups : SendGroup(g)
    \/ RedisLoss

Spec == Init /\ [][Next]_vars

\* A started call and the workers' loop keep running, TTLs and leases run out;
\* nothing makes users act, and faults are finitely many.
Fairness ==
    /\ \A p \in Procs : WF_vars(Continue(p))
    /\ \A w \in Workers : WF_vars(WorkerStep(w))
    /\ \A r \in Resources : WF_vars(LockExpires(r))
    /\ \A e \in Events : WF_vars(Abandoned(e) /\ LeaseExpires(e))

FairSpec == Spec /\ Fairness

(***************************************************************************)
(* Properties                                                              *)
(***************************************************************************)

\* What has been refreshed for version v: nobody can read something older.
Applied(r, v) == r \in loaded => content[r] # None /\ content[r] >= v

\* Whichever worker, request or rebuild wrote last, an outbox row that
\* MarkCacheReconcileSuccess closed has its change in the loaded projection:
\* lost leases, stolen Redis locks and failed calls cannot close a row whose
\* change a reader of the cache may still miss.
DoneEventsApplied == \A e \in Events : event[e] = "done" => Applied(e[1], e[2])

\* Once the outbox row of a group's dissolution is closed, the group has no
\* group_seq key and none can come back: a message check that passed before the
\* members were removed cannot have recreated it after the last DEL.  This is
\* about group_seq only: the message itself may still reach outbox:{gid} later.
SequencePurged ==
    \A g \in dead : event[<<g, version[g]>>] = "done" => g \notin groupSeq

\* The keys agree with the rows of MySQL and the outbox table: every variable has
\* its type, and the group_seq that a reconciled dissolution deleted stays away.
KeysAgree == TypeOK /\ SequencePurged

Abstract == INSTANCE Projection WITH truth <- version, cached <- content

\* Every write to Redis installs the version MySQL holds at that moment, as the
\* comments of ReconcileNow and WithinCacheSnapshot claim, also when the Redis
\* lock expired under its holder.
AbstractSpec == Abstract!Spec

\* Every outbox row a business transaction wrote is closed in the end, although
\* workers crash, lose leases and wait for locks of dead processes.
EveryEventDone == \A e \in Events : event[e] = "pending" ~> event[e] = "done"

\* No call waits forever for the Redis lock or the owner row.
CallsReturn == \A p \in Requests : pc[p] # "idle" ~> pc[p] = "idle"

=============================================================================
