-------------------------------- MODULE Hub --------------------------------
(***************************************************************************)
(* The WebSocket hubs and the presence lease of one user: ws/hub.go and    *)
(* repository/presence_repository.go.                                      *)
(*                                                                         *)
(* Every connection has an HTTP handler that registers it, a reader (run)  *)
(* that cleans up at its end, and a writer (writeLoop).  A new login takes *)
(* the Redis lease, replaces the old connection in its hub's map and kicks *)
(* it; a connection of another hub finds out when it renews the lease.     *)
(* Close ends a hub while logins may still be under way.                   *)
(*                                                                         *)
(* Users do not share state apart from the stripes of registrationMux, so  *)
(* one user is modelled.  Presence broadcasts are Notify calls to other    *)
(* users.  A definition X_Bug before X is a plausible mistake in the code. *)
(***************************************************************************)
EXTENDS Integers, FiniteSets

CONSTANTS
    Hubs,        \* server processes
    Conns,       \* connections the user ever opens (bound)
    HubOf,       \* the hub a connection reaches
    QueueCap,    \* capacity of client.send
    MaxFaults,   \* bound: crashes, expired leases, failed Redis calls, logins elsewhere
    None

ASSUME ConstantsAssumption ==
    /\ HubOf \in [Conns -> Hubs]
    /\ QueueCap \in Nat \ {0}
    /\ MaxFaults \in Nat
    /\ None \notin Conns

VARIABLES
    handler,    \* handler[c]: where Hub.Handler is for connection c
    old,        \* old[c]: the connection c's handler has replaced
    reader,     \* reader[c]: where client.run is
    writer,     \* writer[c]: where client.writeLoop is
    once,       \* once[c]: closeOnce; "running" while the kick is written
    queue,      \* queue[c]: events in client.send
    regLock,    \* regLock[i]: the handler holding the user's registration lock
    clients,    \* clients[i]: Hub.clients of the user
    closer,     \* closer[i]: where Hub.Close is
    victims,    \* victims[i]: the clients Close has still to close
    lease,      \* the connection conn:{user} and online:{user} name; None when they
                \* name no connection of Conns
    latest,     \* the connection that claimed the lease last (history), likewise
    excused,    \* connections with a reason of their own to end (history)
    faults

conn == <<handler, old, reader, writer, once, queue>>
hub == <<regLock, clients, closer, victims>>
vars == <<handler, old, reader, writer, once, queue, regLock, clients, closer, victims,
          lease, latest, excused, faults>>

Registration == {"begun", "claim", "install", "kick", "kicking"}

TypeOK ==
    /\ handler \in [Conns -> Registration \cup {"new", "served", "failed", "refused"}]
    /\ old \in [Conns -> Conns \cup {None}]
    /\ reader \in [Conns -> {"none", "reading", "close", "remove", "release", "join", "gone"}]
    /\ writer \in [Conns -> {"none", "loop", "writing", "closing", "exit"}]
    /\ once \in [Conns -> {"fresh", "running", "done"}]
    /\ queue \in [Conns -> 0..QueueCap]
    /\ regLock \in [Hubs -> Conns \cup {None}]
    /\ clients \in [Hubs -> Conns \cup {None}]
    /\ closer \in [Hubs -> {"open", "waitReg", "closing", "closed"}]
    /\ victims \in [Hubs -> SUBSET Conns]
    /\ lease \in Conns \cup {None}
    /\ latest \in Conns \cup {None}
    /\ excused \subseteq Conns
    /\ faults \in 0..MaxFaults

Init ==
    /\ handler = [c \in Conns |-> "new"]
    /\ old = [c \in Conns |-> None]
    /\ reader = [c \in Conns |-> "none"]
    /\ writer = [c \in Conns |-> "none"]
    /\ once = [c \in Conns |-> "fresh"]
    /\ queue = [c \in Conns |-> 0]
    /\ regLock = [i \in Hubs |-> None]
    /\ clients = [i \in Hubs |-> None]
    /\ closer = [i \in Hubs |-> "open"]
    /\ victims = [i \in Hubs |-> {}]
    /\ lease = None
    /\ latest = None
    /\ excused = {}
    /\ faults = 0

Fault == faults < MaxFaults /\ faults' = faults + 1
Handle(c, step) == handler' = [handler EXCEPT ![c] = step]

(***************************************************************************)
(* Hub.Handler: registration                                               *)
(***************************************************************************)

\* beginRegistration, after the token check and the upgrade.
BeginRegistration(c) ==
    /\ handler[c] = "new"
    /\ Handle(c, IF closer[HubOf[c]] = "open" THEN "begun" ELSE "refused")
    /\ UNCHANGED <<old, reader, writer, once, queue, hub, lease, latest, excused, faults>>

LockRegistration_NoWait(c) ==
    /\ handler[c] = "begun"
    /\ regLock' = [regLock EXCEPT ![HubOf[c]] = c]
    /\ Handle(c, "claim")
    /\ UNCHANGED <<old, reader, writer, once, queue, clients, closer, victims, lease, latest,
                   excused, faults>>

\* userRegistrationLock(userID).Lock()
LockRegistration(c) ==
    /\ handler[c] = "begun" /\ regLock[HubOf[c]] = None
    /\ regLock' = [regLock EXCEPT ![HubOf[c]] = c]
    /\ Handle(c, "claim")
    /\ UNCHANGED <<old, reader, writer, once, queue, clients, closer, victims, lease, latest,
                   excused, faults>>

\* ClaimPresence takes the lease from whoever holds it.
ClaimPresence(c) ==
    /\ handler[c] = "claim"
    /\ lease' = c /\ latest' = c
    /\ Handle(c, "install")
    /\ UNCHANGED <<old, reader, writer, once, queue, hub, excused, faults>>

\* The claim fails, before or after Redis ran the script; the socket is closed.
ClaimFails(c) ==
    /\ handler[c] = "claim"
    /\ Fault
    /\ \/ UNCHANGED <<lease, latest>>
       \/ lease' = c /\ latest' = c
    /\ regLock' = [regLock EXCEPT ![HubOf[c]] = None]
    /\ Handle(c, "failed")
    /\ UNCHANGED <<old, reader, writer, once, queue, clients, closer, victims, excused>>

\* install, start of the client's goroutines, registration.Unlock().
Install(c) ==
    LET i == HubOf[c] IN
    /\ handler[c] = "install"
    /\ old' = [old EXCEPT ![c] = clients[i]]
    /\ clients' = [clients EXCEPT ![i] = c]
    /\ reader' = [reader EXCEPT ![c] = "reading"]
    /\ writer' = [writer EXCEPT ![c] = "loop"]
    /\ regLock' = [regLock EXCEPT ![i] = None]
    /\ Handle(c, IF clients[i] = None THEN "served" ELSE "kick")
    /\ UNCHANGED <<once, queue, closer, victims, lease, latest, excused, faults>>

\* old.kickAndClose() enters closeOnce, waits for another close, or finds it done.
Kick(c) ==
    /\ handler[c] = "kick" /\ once[old[c]] # "running"
    /\ IF once[old[c]] = "fresh"
         THEN once' = [once EXCEPT ![old[c]] = "running"] /\ Handle(c, "kicking")
         ELSE Handle(c, "served") /\ UNCHANGED once
    /\ UNCHANGED <<old, reader, writer, queue, hub, lease, latest, excused, faults>>

\* The kick frame is written under writeMu and the socket is closed.
FinishKick(c) ==
    /\ handler[c] = "kicking" /\ writer[old[c]] # "writing"
    /\ once' = [once EXCEPT ![old[c]] = "done"]
    /\ Handle(c, "served")
    /\ UNCHANGED <<old, reader, writer, queue, hub, lease, latest, excused, faults>>

HandlerStep(c) ==
    \/ LockRegistration(c) \/ ClaimPresence(c) \/ Install(c) \/ Kick(c) \/ FinishKick(c)

(***************************************************************************)
(* client.close, writeLoop and run                                         *)
(***************************************************************************)

CloseClient_KeepsSocket(c) ==
    /\ once[c] # "running"
    /\ once' = [once EXCEPT ![c] = IF @ = "fresh" THEN "running" ELSE @]

\* close(): closeOnce.Do waits for a kick in progress; "done" stands for the
\* closed socket, and done is closed from "running" on.
CloseClient(c) ==
    /\ once[c] # "running"
    /\ once' = [once EXCEPT ![c] = "done"]

WriterStops(c) ==
    /\ writer[c] = "loop" /\ once[c] # "fresh"
    /\ writer' = [writer EXCEPT ![c] = "exit"]
    /\ UNCHANGED <<handler, old, reader, once, queue, hub, lease, latest, excused, faults>>

\* case raw := <-c.send
TakeEvent(c) ==
    /\ writer[c] = "loop" /\ once[c] = "fresh" /\ queue[c] > 0
    /\ queue' = [queue EXCEPT ![c] = @ - 1]
    /\ writer' = [writer EXCEPT ![c] = "writing"]
    /\ UNCHANGED <<handler, old, reader, once, hub, lease, latest, excused, faults>>

Renew_IgnoresOwner(c) ==
    /\ writer[c] = "loop" /\ once[c] = "fresh"
    /\ writer' = [writer EXCEPT ![c] = "writing"]
    /\ UNCHANGED <<handler, old, reader, once, queue, hub, lease, latest, excused, faults>>

\* case <-ticker.C: RenewPresence, then a ping.  A Redis error changes nothing.
Renew(c) ==
    /\ writer[c] = "loop" /\ once[c] = "fresh"
    /\ writer' = [writer EXCEPT ![c] = IF lease = c THEN "writing" ELSE "closing"]
    /\ UNCHANGED <<handler, old, reader, once, queue, hub, lease, latest, excused, faults>>

\* The frame is written, or the write fails.
Write(c) ==
    /\ writer[c] = "writing"
    /\ \/ /\ once[c] # "done"
          /\ writer' = [writer EXCEPT ![c] = "loop"]
          /\ UNCHANGED excused
       \/ /\ writer' = [writer EXCEPT ![c] = "closing"]
          /\ excused' = excused \cup {c}
    /\ UNCHANGED <<handler, old, reader, once, queue, hub, lease, latest, faults>>

WriterCloses(c) ==
    /\ writer[c] = "closing"
    /\ CloseClient(c)
    /\ writer' = [writer EXCEPT ![c] = "exit"]
    /\ UNCHANGED <<handler, old, reader, queue, hub, lease, latest, excused, faults>>

WriterStep(c) == WriterStops(c) \/ TakeEvent(c) \/ Renew(c) \/ Write(c) \/ WriterCloses(c)

\* ReadMessage fails because the peer leaves or is silent past the deadline.
PeerLeaves(c) ==
    /\ reader[c] = "reading"
    /\ reader' = [reader EXCEPT ![c] = "close"]
    /\ excused' = excused \cup {c}
    /\ UNCHANGED <<handler, old, writer, once, queue, hub, lease, latest, faults>>

\* ReadMessage fails because the socket is closed.
ReadFails(c) ==
    /\ reader[c] = "reading" /\ once[c] = "done"
    /\ reader' = [reader EXCEPT ![c] = "close"]
    /\ UNCHANGED <<handler, old, writer, once, queue, hub, lease, latest, excused, faults>>

\* disconnect: close, remove, ReleasePresence; run then waits for the writer.
ReaderCloses(c) ==
    /\ reader[c] = "close"
    /\ CloseClient(c)
    /\ reader' = [reader EXCEPT ![c] = "remove"]
    /\ UNCHANGED <<handler, old, writer, queue, hub, lease, latest, excused, faults>>

Remove_Forgotten(c) ==
    /\ reader[c] = "remove"
    /\ reader' = [reader EXCEPT ![c] = "release"]
    /\ UNCHANGED <<handler, old, writer, once, queue, hub, lease, latest, excused, faults>>

Remove(c) ==
    /\ reader[c] = "remove"
    /\ clients' = [clients EXCEPT ![HubOf[c]] = IF @ = c THEN None ELSE @]
    /\ reader' = [reader EXCEPT ![c] = "release"]
    /\ UNCHANGED <<handler, old, writer, once, queue, regLock, closer, victims, lease, latest,
                   excused, faults>>

\* releasePresenceScript: compare and delete.
Released(c) == IF lease = c THEN None ELSE lease

Release(c) ==
    /\ reader[c] = "release"
    /\ lease' = Released(c)
    /\ reader' = [reader EXCEPT ![c] = "join"]
    /\ UNCHANGED <<handler, old, writer, once, queue, hub, latest, excused, faults>>

ReleaseFails(c) ==
    /\ reader[c] = "release"
    /\ Fault
    /\ lease' \in {lease, Released(c)}
    /\ reader' = [reader EXCEPT ![c] = "join"]
    /\ UNCHANGED <<handler, old, writer, once, queue, hub, latest, excused>>

\* <-writerDone; clientsWG.Done().  Events left in the channel go with it.
Join(c) ==
    /\ reader[c] = "join" /\ writer[c] = "exit"
    /\ reader' = [reader EXCEPT ![c] = "gone"]
    /\ queue' = [queue EXCEPT ![c] = 0]
    /\ UNCHANGED <<handler, old, writer, once, hub, lease, latest, excused, faults>>

ReaderStep(c) == ReadFails(c) \/ ReaderCloses(c) \/ Remove(c) \/ Release(c) \/ Join(c)

(***************************************************************************)
(* Notify and Close                                                        *)
(***************************************************************************)

\* Notify: the event is queued, or a full queue closes the connection.
Notify(i) ==
    LET c == clients[i] IN
    /\ c # None
    /\ IF queue[c] < QueueCap
         THEN queue' = [queue EXCEPT ![c] = @ + 1] /\ UNCHANGED <<once, excused>>
         ELSE CloseClient(c) /\ excused' = excused \cup {c} /\ UNCHANGED queue
    /\ UNCHANGED <<handler, old, reader, writer, hub, lease, latest, faults>>

OfHub(i) == { c \in Conns : HubOf[c] = i }

CloseHub(i) ==
    /\ closer[i] = "open"
    /\ closer' = [closer EXCEPT ![i] = "waitReg"]
    /\ UNCHANGED <<conn, regLock, clients, victims, lease, latest, excused, faults>>

Collect_NoWait(i) ==
    /\ closer[i] = "waitReg"
    /\ victims' = [victims EXCEPT ![i] = {clients[i]} \ {None}]
    /\ closer' = [closer EXCEPT ![i] = "closing"]
    /\ UNCHANGED <<conn, regLock, clients, lease, latest, excused, faults>>

\* registrationWG.Wait() and the snapshot of the map.
Collect(i) ==
    /\ closer[i] = "waitReg"
    /\ \A c \in OfHub(i) : handler[c] \notin Registration
    /\ victims' = [victims EXCEPT ![i] = {clients[i]} \ {None}]
    /\ closer' = [closer EXCEPT ![i] = "closing"]
    /\ UNCHANGED <<conn, regLock, clients, lease, latest, excused, faults>>

CloseVictim(i) ==
    /\ closer[i] = "closing"
    /\ \E c \in victims[i] :
           /\ CloseClient(c)
           /\ victims' = [victims EXCEPT ![i] = @ \ {c}]
    /\ UNCHANGED <<handler, old, reader, writer, queue, regLock, clients, closer, lease, latest,
                   excused, faults>>

\* clientsWG.Wait()
FinishClose(i) ==
    /\ closer[i] = "closing" /\ victims[i] = {}
    /\ \A c \in OfHub(i) : reader[c] \in {"none", "gone"}
    /\ closer' = [closer EXCEPT ![i] = "closed"]
    /\ UNCHANGED <<conn, regLock, clients, victims, lease, latest, excused, faults>>

CloserStep(i) == Collect(i) \/ CloseVictim(i) \/ FinishClose(i)

(***************************************************************************)
(* The environment                                                         *)
(***************************************************************************)

\* The lease is not renewed in time.
LeaseExpires ==
    /\ lease # None
    /\ Fault
    /\ excused' = excused \cup {lease}
    /\ lease' = None
    /\ UNCHANGED <<conn, hub, latest>>

\* ClaimPresence of a login of the user on a server outside Hubs, from which the
\* hubs hear nothing.
ClaimElsewhere ==
    /\ Fault
    /\ lease' = None /\ latest' = None
    /\ UNCHANGED <<conn, hub, excused>>

\* A server process dies and starts again; the lease stays.
Crash(i) ==
    LET lost == { c \in OfHub(i) : handler[c] # "new" } IN
    /\ Fault
    /\ handler' = [c \in Conns |-> IF c \in lost THEN "failed" ELSE handler[c]]
    /\ reader' = [c \in Conns |-> IF c \in lost THEN "gone" ELSE reader[c]]
    /\ writer' = [c \in Conns |-> IF c \in lost THEN "exit" ELSE writer[c]]
    /\ once' = [c \in Conns |-> IF c \in lost THEN "done" ELSE once[c]]
    /\ regLock' = [regLock EXCEPT ![i] = None]
    /\ clients' = [clients EXCEPT ![i] = None]
    /\ closer' = [closer EXCEPT ![i] = "open"]
    /\ victims' = [victims EXCEPT ![i] = {}]
    /\ queue' = [c \in Conns |-> IF c \in lost THEN 0 ELSE queue[c]]
    /\ excused' = excused \cup lost
    /\ UNCHANGED <<old, lease, latest>>

(***************************************************************************)
(* The specification                                                       *)
(***************************************************************************)
Next ==
    \/ \E c \in Conns :
           \/ BeginRegistration(c) \/ HandlerStep(c) \/ ClaimFails(c)
           \/ WriterStep(c) \/ PeerLeaves(c) \/ ReaderStep(c) \/ ReleaseFails(c)
    \/ \E i \in Hubs : Notify(i) \/ CloseHub(i) \/ CloserStep(i) \/ Crash(i)
    \/ LeaseExpires \/ ClaimElsewhere

\* Goroutines that can run do; the ticker's case is chosen in the end however
\* many events are queued (Go's select has no priority).  Nothing makes users
\* log in or leave, or the server shut down.
Fairness ==
    /\ \A c \in Conns : /\ WF_vars(HandlerStep(c)) /\ WF_vars(ReaderStep(c))
                        /\ WF_vars(WriterStep(c)) /\ SF_vars(Renew(c))
    /\ \A i \in Hubs : WF_vars(CloserStep(i))

Spec == Init /\ [][Next]_vars /\ Fairness

(***************************************************************************)
(* Properties                                                              *)
(***************************************************************************)

\* The newest login that is installed, has no reason of its own to end and
\* whose hub is open is connected, in the map and online: no cleanup of an
\* older connection takes its lease or its map entry, and no handler that
\* registered beside it kicks it.
LatestOnline ==
    \A c \in Conns :
        latest = c /\ reader[c] # "none" /\ c \notin excused /\ closer[HubOf[c]] = "open" =>
            clients[HubOf[c]] = c /\ lease = c /\ once[c] = "fresh"

\* The map never keeps a connection whose cleanup has passed: an event is not
\* queued for nobody while the user is thought to be connected.
NoGhost ==
    \A i \in Hubs : clients[i] # None => reader[clients[i]] \in {"reading", "close", "remove"}

\* The map agrees with the connections: every variable has its type, a queue
\* holds at most what its channel can, and the map names nobody who is gone.
MapAgrees == TypeOK /\ NoGhost

\* When Close has returned, nothing of the hub runs and nobody can join: a
\* login under way while Close began is either finished and closed, or refused.
ClosedEmpty ==
    \A i \in Hubs : closer[i] = "closed" =>
        /\ clients[i] = None
        /\ \A c \in OfHub(i) :
               /\ handler[c] \notin Registration
               /\ reader[c] \in {"none", "gone"} /\ writer[c] \in {"none", "exit"}

\* Close returns, although it waits for logins, kicks and the clients' cleanup.
CloseReturns ==
    \A i \in Hubs : closer[i] \in {"waitReg", "closing"} ~> closer[i] \in {"open", "closed"}

\* Connections the user has beside the newest login.
Replaced == { c \in Conns : reader[c] \notin {"none", "gone"} /\ latest # c }

\* Replaced connections end, until the newest login is the only one: one whose
\* successor is on the same hub by the kick, one whose successor is on another
\* server, that told nobody, by its own renewal.
ReplacedEnds == Replaced # {} ~> Replaced = {}

=============================================================================
