# TLA+ models of MyIM (YunChat)

This directory holds TLA+ specifications of the concurrent core of the MyIM
backend (`backend/` of the repository), TLC configurations that model-check
them, and TLAPS proofs. Paths below are relative to `backend/internal/` unless
they start with `backend/`, `docs/` or `frontend/`.

## 1. The system and its parts

MyIM is a chat server in Go with a React client. MySQL holds the truth, Redis
holds projections of it, message state and leases, RabbitMQ carries events to
consumers. Accounts, avatars, friends, groups, the relationship cache, the
WebSocket hub and the infrastructure are implemented; sending chat messages,
moments and settings are still placeholders in the repository.

| part | state | operations | talks to | what must hold |
|---|---|---|---|---|
| message IDs (`messageid/`) | `message_id_allocators.next_id`; per process a segment and a mutex | `Next`, `Reserve`, `Validate` | MySQL row lock | IDs unique over all processes and restarts, ascending per process, within 2^53-1 |
| relationship cache (`service/cache_truth.go`, `repository/cache_*.go`) | outbox rows, Redis projections, loaded markers, warm locks | refresh after a commit, `EnsureAccess`, `Warm`, `Rebuild`, worker batches | MySQL owner rows, Redis locks | Redis never gets an older snapshot than the truth of that moment; every change reaches it in the end |
| friends (`service/friend.go`) | friend requests, friendships, blacklist | send, accept, reject, delete, block, unblock | MySQL row locks, outbox, hub | friendships symmetric and consented, requests exclusive |
| groups (`service/group.go`) | groups, members, roles, mutes, tombstones | create, add, remove, role, mute, transfer, leave, disband | MySQL row locks, friendships, outbox, hub | one owner, limits and authority respected at the commit |
| WebSocket hub (`ws/hub.go`), presence (`repository/presence_repository.go`) | map of clients, goroutines, send queues, Redis lease | login, replace and kick, renew, disconnect, notify, close | Redis, friends | the newest login wins, cleanup of an old one harms nothing, shutdown leaves nothing |
| RabbitMQ publisher (`infra/rabbitmq.go`) | channel, confirm and return buffers | `Publish`, `Close` | broker | success means stored, every call returns |
| accounts and sessions (`service/auth.go`, `repository/redis_extensions.go`, `frontend/src/lib/api.ts`, `stores/authStore.ts`) | password hash, a Redis key per refresh token, an index per user; in the browser a token and `refreshPromise` | login, refresh, rename, change password, logout | MySQL, Redis, browser | a token is exchanged once, revocation ends every token stored before it, a browser is not logged out by its own concurrency |
| message store (`redis/lua_*.go`, `repository/redis_repository.go`) | inboxes and outboxes (sorted sets), deduplication keys, unread counters, conversation lists, like sets, feeds | scripts and pipelines, no caller yet | Redis | pages neither repeat nor omit, both copies agree, a retry is no second message |
| migrations and server life cycle (`migrate/`, `backend/cmd/server/main.go`, `infra/dependencies.go`) | `schema_migrations`, the schema, background goroutines, requests in flight | `Up`, start, shutdown | MySQL, all of the above | every migration once and in order, no traffic on a wrong schema, shutdown in order and in time |
| frontend socket and chat store (`frontend/src/realtime`, `stores/chatStore.ts`) | socket, chat store | connect, reconnect, optimistic send | HTTP, WebSocket | not modelled |

What is hard in this code: goroutines that share a segment, a map or a channel;
transactions of several processes on the same rows; locks with a TTL that may
expire under their holder; work that is claimed with a lease; calls that fail
after taking effect; late answers after a timeout; crashes between two steps, DDL that
commits by itself; commands of several Redis clients between each other; pages over
a set that changes; shutdown against logins. `PROJECT.json` lists these hazards line by line with
the properties that watch them.

## 2. Modules

Every component module has one action per step of the code at the granularity
at which others can see it: a lock taken, a row read, a write, a commit. A
definition named `X_Something` directly before `X` is a plausible mistake in the
code that `X` models; no specification uses it, it shows that a property would notice.

**`UniqueIds`, `MessageId`, `MessageIdProofs`.** `UniqueIds` is the promise: an
instance hands out an ID that nobody has handed out, larger than all of its own. `MessageId` is the code:
`Generator.Next` (`Lock`, `TakeId`, `ReturnId`), its refill (`LockRow`, `Reserve`,
`Install`, `Fail`, `Exhausted`), and start and crash of an instance. `Reserve`
includes the commit that is applied and reported as an error. `next`, `last`, `mu`
are the generator's fields, `nextId` and `rowLock` the MySQL row, `first` and `id`
locals of a call, `issued` a history. There is no refusal branch of
`validateSegment`: `SegmentsAccepted` shows that it never refuses.

**`Projection`, `CacheTruth`** (`CacheTruthProofs`). `Projection` is the promise: a refresh installs
the truth of the moment it lands. `CacheTruth` has request goroutines and
reconcile workers that run the same refresh: `TryLock` (`SET NX` with a TTL),
`Recheck`, `Invalidate`, `Snapshot` (owner row `FOR UPDATE` and read), `Write`,
`Purge`, `Commit`, `Release`. `Business` and `Disband` are the transactions of
friends and groups reduced to "raise the version, insert the outbox row"; `Claim`, `Mark`
and `LeaseExpires` are the outbox. The content of a projection is its version.
`LockExpires`, `Crash`, `RedisLoss`, `LockError`, `OpError`, `ReleaseFails`,
`MarkFails` are the faults; a failed Redis call may have taken effect.
`SendGroup` is the group message script as far as it recreates `group_seq`: the `INCR`
behind its member check. The claim about a dissolved group is for that key only. The
message's later `WriteOutbox` is an unchecked `ZADD` that can recreate `outbox:{gid}` after
the purge; `docs/GROUP_DISSOLVE_RECOVERY_TUTORIAL.md:180-182` reserves that chain for the
sending service, and nothing is claimed about it here. `version` and `event` are MySQL,
`content`, `loaded`, `groupSeq`, `warmLock` Redis.

**`Friends`** (`FriendsProofs`). Each call runs through `Preview` (accept and reject only), the two
row locks in ID order, `Check` (the reads) and one write action with the commit. Any user
(`by`) may answer any request ID, as the HTTP handler lets it; that it is the addressee is
`IsTarget`, checked before and again under the row locks. A user who answers has an
application in mind: the one it has seen under the ID (`seen`), possibly long ago. `enqueued` is the
set of outbox rows of the last commit: the link to `CacheTruth`, which assumes that
a changed projection is enqueued and its owner row held.

**`Groups`** (`MCGroups`, `GroupsProofs`). The same shape with the groups row first and, for
`AddMember`, the users' rows after it. Friendships change by an environment step that
needs both user rows, as every transaction of `Friends` does.

**`Hub`** (`MCHub`, `HubProofs`). The connections of one user on one or several hubs: handler,
reader and writer goroutine per connection, `closeOnce` with its three states, the
per-user registration lock, the map, the Redis lease, and `Close`. Users share nothing but
the stripes of `registrationMux`, so one user is enough; broadcasts of presence to
friends are `Notify` calls on other users' queues. `ClaimElsewhere` is a login on a server
outside the model: it takes the lease and tells nobody. `latest` and `excused` are history.

**`Publisher`.** `Publish` and `publishOnceLocked` against a broker that answers in
order, an AMQP library that moves frames into two Go channels of capacity one, and a
connection that may break. `overdue` is history: an attempt
has timed out since the channel was opened.

**`Sessions`** (`MCSessions`, `SessionsProofs`). One account. A call is a MySQL read
(`ReadUser`), then the Redis commands of its kind: `Store`; `Watch` and `Exec` of a
rotation; `ReadIndex` and `Del` of a revocation with `UpdateUsername` before or
`SavePassword` after it. A MULTI block is one step. `live` is the set of `refresh:{jti}`
keys, `index` is `refresh_user:{id}`, `family` the field of the key, `password` a version.
`Unauthorized`, `Change`, `Logout`, `Deliver` and `GiveUp` are the browser: `stored` is
`authStore.refreshToken`, `flight` is `refreshPromise`. `SecondTab` presents any token ever
issued. `parent`, `raced` and `excused` are history: who was exchanged for whom, which
tokens were stored between the two commands of a revocation, and who has a reason to lose
its session. `SessionsAged` adds one more history, the password that was valid when a token
was stored, for the claim about password changes.

**`Lifecycle`** (`MCLifecycle`, `LifecycleProofs`). Servers with different migration directories on one
database: `Status`, `Skip`, `MarkDirty`, `ExecSQL`, `MarkClean` are `Runner.Up`, `Fail` a
crash or an error anywhere (SQL leaves nothing, a part, or all), `Repair` the manual step
that the code's error message asks for. `Serve` to `Leave` is `run` of `cmd/server/main.go`:
requests, the two background goroutines, and a shutdown whose deadline `late` records.

**`Mailbox`** (`MCMailbox`, `MailboxProofs`). Inboxes and a group's outbox. `Accept` is the message script
of a permitted sender; `Write` follows in any order or never, since the services that
would call it do not exist yet. `Read` is `readMessagesAfter` with the cursor of the last
message (`Position`, `After`, `Page`), `Revoke` the script with both copies,
`CountExcess`/`RemoveExcess` the two commands of a trim, `TrimByTime` the other one.
The Redis clock may step back and IDs need not follow it. `Readable` is the decoding in
Go of what `cjson` wrote. `got`, `missed`, `repeated` and `lapsed` are history.

How they compose: `CacheTruth!CommitTruth` abstracts the commits of `Friends` and
`Groups`; the two `ChangesEnqueued` properties are the assumption it rests on.
`Groups!FriendshipChanges` abstracts `Friends`. `Lifecycle!CloseHub` rests on
`Hub!CloseReturns`, `Mailbox!Accept` takes an ID as `MessageId` gives it, unique and
without an order between servers. `Hub` and `Publisher` are independent of the
transactions: notifications and events follow a commit and change no durable state.

## 3. Runs

| run | checks | shows |
|---|---|---|
| `message_ids` | `NoDuplicateIds` `SegmentsAccepted` `AbstractSpec` `MutexReleased` | two instances, three goroutines, six IDs, segments of two and three, so that the last one is clipped and the space runs out; crashes and failures are unbounded |
| `cache_safety` | `KeysAgree` `AbstractSpec` `DoneEventsApplied` | two changes of a group or its dissolution, one request and two workers, any lock expiry, one fault: no stale write, a closed outbox row is applied, a dissolved group's `group_seq` does not come back |
| `cache_fair` | `EveryEventDone` `CallsReturn` | a friendship (two projections), one worker, one fault: all rows closed, all calls return |
| `friends` | `TablesAgree` `PendingExclusive` `NoDeadlockedSet` `ConsentedFriendship` `ChangesEnqueued` | two users, two concurrent calls, three applications, either user answering any request ID, failures anywhere |
| `groups` | `RowsAgree` `OneUsableOwner` `WithinCapacity` `RemovalAuthorised` `InvitedByFriend` `ChangesEnqueued` | three users, two concurrent calls, a group with room for two or three, a friendship that comes and goes |
| `hub` | `MapAgrees` `LatestOnline` `ClosedEmpty` `CloseReturns` `ReplacedEnds` | two logins on one hub, one kicking the other, against full queues, leaving peers, shutdown and one fault or login on another server, whose loser notices by its renewal |
| `publisher` | `AnsweredMeansStored` `PublishReturns` | nacks, returns, lost channels, timeouts: every call returns, and success means stored while no attempt on the channel has timed out |
| `publisher_late` | `AckMeansStored` (violated) | the first finding below |
| `sessions` | `ExchangedOnce` `OneLivePerFamily` `IndexComplete` `RevokedBeforeSaved` `LogoutHasReason` | one browser, three requests at a time, three tokens, two renames or password changes, one fault (failed command, lost answer, expiry, second tab) |
| `sessions_password` | `OldTokensRevoked` (violated) | the second finding below: one password change beside logins and rotations, no fault |
| `lifecycle` | `MigrationsOnce` `SchemaReady` `ClosedAfterUse` `ShutdownEnds` | a release with one migration, the next with two, a directory with an edited file; three starts in all, crashes anywhere, requests and goroutines that may hang |
| `mailbox` | `BoxesAgree` `NoRepeat` `NoOmission` `CatchesUp` | two messages, private or to the group, three milliseconds, pages and boxes of one message, a clock that steps back or a key that expires |

Six invariants conjoin the type invariant with properties that tie tables or keys to each
other: `KeysAgree` (`SequencePurged`), `TablesAgree` (`Symmetric`, `AcceptedMeansFriends`),
`RowsAgree` (`DissolvedEmpty`), `MapAgrees` (`NoGhost`), `MigrationsOnce` (`RunOnce`,
`AppliedInOrder`) and `BoxesAgree` (`CopiesAgree`, `AcceptedOnce`). The types of
`MessageId` and `Sessions`, `InstanceOrder` and `PromiseCurrent` are proved instead
(section 4), and `InstanceOrder` is part of what `AbstractSpec` promises. Every
invariant of the passing runs, and every action property but `AnsweredMeansStored`, is also
proved for every value of the constants.

Bounds. Two concurrent actors are the smallest number with a race; a third is added
where one actor can hide the race of the others (a second worker, a third request). Two
versions of a resource distinguish stale from fresh; three tokens allow a login and two
rotations, or a login inside a revocation and one after it; two messages, in the same or
in different milliseconds and in either order of their IDs, are what a page boundary
tells apart. Limits (queue, group, segment, page, box) are so small that they are
reached. Faults are counted because they only add failed prefixes. Runs stop when their
bounded supply of users' actions, IDs, starts or messages is used up, so most switch the
deadlock check off; in `friends` and `groups` calls can always arrive, and it stays on.

### Findings

**A late confirmation is taken for the next message's** (`infra/rabbitmq.go:194`).
When `publishCtx` ends, the attempt fails and the channel stays open; the ACK
that arrives later sits in `confirms`, and the next `publishOnceLocked` returns
success on it. `docs/FOUNDATION_TUTORIAL.md:145` and `:151` promise the opposite.
TLC's shortest trace: publish m1, time out, the broker stores and confirms m1,
publish m2, which reads m1's ACK.

**A refresh token can survive a password change** (`service/auth.go:177`). The comment in
`UpdatePassword` says that "password changed, old refresh token still valid" never occurs,
since the sessions are revoked before the hash is saved; `docs/AUTH_TUTORIAL.md:176` and
`:358` and `frontend/src/pages/SettingsPage.tsx:185` promise the same. But
`RevokeUserRefreshSessions` deletes what its `SMEMBERS` has found
(`repository/redis_extensions.go:88`), and the hash is saved later still. TLC's trace: a
password change revokes; before its `UPDATE` a login, checked against the old password,
stores its token; the hash is saved and the token stays valid. A rotation in the same window does
the same. `RevokedBeforeSaved` says what does hold: no token that the revocation found is
valid when the hash is saved.

### Observations

These are in the models and are what the properties carefully do not claim.

* `infra/rabbitmq.go:123`: `finalErr` is cleared only when the channel was found closed
  and dialled again; after a nack, a return or a timeout on an open channel the
  remaining attempts only wait (`Publisher!KeepChannel`).
* `repository/redis_extensions.go:88`: a token stored between `SMEMBERS` and `DEL` loses
  its index entry and stays valid (the second finding). `IndexComplete` names this exception
  and does not watch it.
* `redis/lua_revoke_msg.go:41`: an ID of more than 14 digits is written by `cjson` in a
  form that `readMessagesAfter` skips. `NoOmission` and `CatchesUp` except it.
* `repository/redis_repository.go:47`: a message written after a later one was read lies
  behind the cursor (`missed`); the timestamp is taken before the write. `NoOmission` and
  `CatchesUp` except such messages, so they watch page cuts and trims and not this.

### Fairness

* `MessageId`: a goroutine inside `Next` takes a step in the end, because every
  store operation has a timeout (`withStoreTimeout`); nobody has to call.
* `CacheTruth`: a started call and the worker loop keep running, Redis TTLs and the
  leases of abandoned rows run out. A lock holder's TTL and `WaitTimeout` bound every
  wait. Users need not act.
* `Hub`: goroutines that can run do. `Renew` gets strong fairness: the ticker competes
  with queued events in a `select`, and Go picks among ready cases at random.
* `Publisher`: only the goroutine inside `Publish`; nothing is assumed of the broker.
* `Lifecycle`: `run` goes on while it can. Requests and background goroutines get no
  fairness: they may hang, and the deadline of `shutdownCtx` is what ends the wait.
* `Mailbox`: a reader that has not received everything asks again (the client's
  synchronisation loop). Writers and trims may stop.
* `Sessions`, `Friends`, `Groups` have safety properties only and assume nothing.

## 4. Proofs

Eight modules hold proofs. Each proves an inductive invariant of its component
(`Spec => []Inv`, from `Init => Inv` and one lemma per action or per conjunct) and derives
the properties from it. TLC checked each inductive invariant on a small instance before it
was proved. The theorems hold for every value of the constants that satisfies the named
assumptions of the component module. What these ask, beyond types and distinct sentinel
values:

* users' and message IDs are positive (`AUTO_INCREMENT` columns and `message_id_allocators`
  start at 1; the scripts use 0 for "no message"), so are Redis timestamps;
* the sets of users (`Friends`, `Groups`) and of message IDs (`Mailbox`) are finite: tables
  and sorted sets are. They may have any size;
* sentinels are no members of the sets they stand beside (`None`, `"free"`, `"saved"`);
* the sizes of segments, queues, batches and pages are positive.

**`MessageIdProofs`** proves, for any number of instances and goroutines and any
segment sizes, from `ConstantsAssumption` alone (goroutines belong to instances,
sizes are positive, the seed lies in `1..MaxID+1`):

* `InductiveInvariant`: `Spec => []IInv`;
* `MessageIdsUnique`, `ReservationsAccepted`: the invariants the run `message_ids` checks;
* `MessageIdsOrdered`: the IDs of one instance ascend;
* `ImplementsUniqueIds`: `Spec => AbstractSpec`, the refinement.

The argument: `NoDuplicateIds` is not inductive, because it says nothing about IDs
that are reserved but not yet handed out. `IInv` adds where such IDs can be: in an
installed segment (`Local`) or in a committed one not yet installed (`Reserved`).
`BelowMark` puts all of them and all issued IDs below the durable mark, so that a new
reservation is disjoint from everything; `Disjoint` keeps them apart from each other
and from what was issued; `Above` keeps a segment above what its instance has
issued. Both need to know that a reservation works on the current mark under the row
lock (`RowHeld`) and that a segment is replaced only by the holder of the mutex when
it is used up (`MutexHeld`, `RowHeld`). A crash only forgets IDs, an ambiguous commit
only raises the mark. One lemma per conjunct (`TypeStep`, `MutexStep`, `RowStep`,
`BelowStep`, `DisjointStep`, `AboveStep`, `NoDuplicateStep`, `OrderStep`) goes
through the actions that can disturb it.

**`SessionsProofs`** proves, for any numbers of calls, browsers, tokens, changes and
faults, from `ConstantsAssumption` alone (`None` and `Saved` are no tokens and differ):

* `SessionsSafe`: `Spec => []SessionInv`;
* `TokensExchangedOnce`, `FamiliesDoNotFork`, `IndexFindsTokens`: the invariants that the
  run `sessions` checks;
* `TypesHold` and `PromisesCurrent`: the types, and that `refreshPromise` always belongs to
  a refresh that is still running;
* `SavedAfterRevoked`: the action property `RevokedBeforeSaved`;
* `SessionLostForReason`: the action property `LogoutHasReason`.

The argument: `ExchangedOnce` is not inductive, since nothing in it keeps a token that
was exchanged from being live again. `Known` and `Spent` say that only issued tokens are
live and that the parent of a token is issued and dead; keys are written once, so dead
tokens stay dead, and a rotation, which needs its token live, cannot repeat one. `Heads`
says that a family is named by an issued token, so a login opens a family that has no live
member, and a rotation removes the one it replaces. `Revoking` describes a revocation
between its commands: what is live is in the set it has read or was stored since, which is
what makes `DEL` of that set leave the index complete up to `raced`. `Revoked` carries the
result of `DEL` to the `UPDATE` of the password. `PromiseCurrent` is inductive with the types:
every action that ends a call also settles the promise. The lemmas follow the commands: a
step outside Redis (`OutsideRedis`), one that issues (`IssueKeeps`), one that reads the
index (`ReadIndexKeeps`), one that removes tokens (`DeathKeeps`).

`LogoutHasReason` needs a second invariant, `ClientInv`. While a client has no
excuse, the token it stores is stored by nobody else and presented only by its own
refresh (`Owns`, `Presents`); there is one such refresh, the one behind `refreshPromise`
(`OneFlight`); a token in an answer that has not arrived is known to nobody else
(`Unsent`). So the only `EXEC` that can take the client's token away is its own, whose
answer brings the next one, and `Watch` never finds the token gone. A rename or a password
change has excused everybody by the time it ends (`Revokes`). The lemmas follow the two
sides: what a server step does to its call (`ServerForm`), and what each kind of step
leaves of a client's session (`OwnsRefresh`, `OwnsServer`, `OwnsDeliver`, ...).

**`CacheTruthProofs`** proves, for any owners, requests, workers, versions and faults,
`ClosedRowsApplied` (`DoneEventsApplied`), `SequenceStaysPurged` (`KeysAgree`) and
`RefreshesInstallTruth` (the refinement of `Projection`). `CacheInv` says what the
property leaves open while a refresh is under way: between `Snapshot` and `Commit` the
owner row is locked by the refresh and its snapshot is the current version (`Owned`);
after its write Redis holds that version or, if Redis has lost its data, nothing
(`Settled`), and a worker that will report success has its row reflected (`Wrote`).
`Reflected` is stable: a later write can only be newer, and for a dissolved group, whose
version is final, a message's member check cannot pass on the current projection. The Redis lock
plays no part: `LockExpires` may happen anywhere, the MySQL row lock is what orders the
writes. Every step is first summarised by its effect on truth and Redis (`Effect`,
`StepEffect`) and on the outbox rows (`RowStep`), so that the preservation lemmas do not
repeat the actions.

**`FriendsProofs`** proves `FriendTablesAgree` (`TablesAgree`), `OneOpenRequest`
(`PendingExclusive`), `LockOrderPreventsDeadlock` (`NoDeadlockedSet`) and the action
properties `FriendshipNeedsConsent` (`ConsentedFriendship`) and `FriendChangesEnqueued`
(`ChangesEnqueued`). `FriendInv` adds that a call holds exactly the rows its place says
(`Locks`), that an answer's ID still means the application its caller saw (`RowIds`,
`Answers`) and that what `Check` found is still true (`Checked`): whoever could change it needs a row
the call holds; among it, for an accept, that its caller is the addressee. For deadlock, take the largest user ID that calls of the set hold: its
holder waits for a larger one, which another call of the set would hold.

**`GroupsProofs`** proves `GroupRowsAgree` (`RowsAgree`), `OwnerAlwaysUsable`
(`OneUsableOwner`), `CapacityNeverExceeded` (`WithinCapacity`) and the action properties
`RemovalsAuthorised`, `JoinsInvited` and `GroupChangesEnqueued`. The group row
(`GroupLocks`) keeps what `Check` found, the two user rows (`UserLocks`) keep the
friendship that `CheckInvite` found, because every transaction on friendships takes both.
`OneUsableOwner` is the part that needs cases: a transfer changes `owner_id` and two roles
at once, and all other actions are barred from the owner's row by their checks.

**`HubProofs`** proves `MapNamesNoGhost` (`MapAgrees`), `NewestLoginOnline`
(`LatestOnline`), `ClosedHubEmpty` (`ClosedEmpty`) and the action property
`ReplacedForGood`. The registration lock orders claim and install on a hub, so the handler
that is about to install is the newest claimant of its hub (`Installer`), what it kicks is
never the newest login (`Kicker`), and a lease that a cleanup releases is its own.

**`LifecycleProofs`** proves `MigrationsRunOnce` (`MigrationsOnce`), `ServesOnItsSchema`
(`SchemaReady`), `DependenciesClosedLast` (`ClosedAfterUse`) and the action property
`AppliedStaysApplied`. There is no lock around `Up`: what makes it work is that the insert
of the dirty row is exclusive (`Working`, `OneRunner`), that a row tells the state of the
schema (`RowsTell`), and that what `Status` read stays true (`StatusHolds`), since clean
rows never change. `Reached` then says how far `Up` has come and `Drained` what each stage
of the shutdown has waited for.

**`MailboxProofs`** proves `BoxesStayConsistent` (`BoxesAgree`), `PagesNeverRepeat`
(`NoRepeat`), `PagesNeverOmit` (`NoOmission`) and the action property `CursorsAdvance`.
Positions are strictly and totally ordered (`BeforeOrder`, `BeforeTotal`), the code's three
comparisons select exactly what lies behind the cursor (`AfterIs`), which needs that a
cursor is the start or a message (`CursorInv`), and a page is a prefix of it with a last
element (`LastExists`, `PageIs`). So everything received is at or before the cursor
(`ReceivedInv`) and everything readable there was received or came late (`CompleteInv`).
An accepted message keeps its position (`MessagesStay`), which is where a revocation that
took a new timestamp would break the proof. That copies agree rests on `BoxInv`: a message
still owed to a box has not been revoked anywhere, since `revoke_msg` wants every copy.

Model-checked only: the liveness properties (`MutexReleased`, `EveryEventDone`,
`CallsReturn`, `CloseReturns`, `ReplacedEnds`, `PublishReturns`, `ShutdownEnds`,
`CatchesUp`), since liveness under fairness and `ENABLED` are out of the prover's reach, and
`Publisher`, whose `AnsweredMeansStored` needs an invariant over the frames in flight.

## 5. Not modelled, and why

Signing and parsing of tokens, avatar files, HTTP decoding, configuration, metrics and
pages have no protocol of their own. `CacheTruthService.Audit`, lists and pages only
read. Registration is one insert. Group names and notices are independent of everything
checked. Moments (likes, feeds, comments), conversation lists, unread counters and user
settings have repository functions but no service that calls them; likes (a
warm-up that reads MySQL before it writes Redis, under a lock without an owner) and feed
pages (ordered as text, continued by number) have hazards of their own and wait for their
callers. `WriteOutbox` behind a group's dissolution, and the tombstone check that would
have to guard it, wait for the sending service. The
permission checks of the message scripts read the projections that `CacheTruth` keeps
current; `Mailbox` starts from a permitted sender. Not covered in the modelled parts: a
Redis command that executes after the client gave up on it, a MySQL connection lost while
the snapshot callback runs, Redis restored from an old dump, and the order of presence
broadcasts (best-effort hints in the code).

## 6. Plan

1. Proofs: `AnsweredMeansStored` of `Publisher`, and that `CommitTruth` of `CacheTruth` is
   what the commits of `Friends` and `Groups` do, from the two `ChangesEnqueued` theorems.
2. `CacheTruth`: lost MySQL connection, delayed Redis commands and restored dumps.
3. Moment likes and feed pages, and the sending services, once the repository has them.
4. The browser's socket: reconnection, heartbeat and optimistic messages.
