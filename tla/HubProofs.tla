----------------------------- MODULE HubProofs -----------------------------
(***************************************************************************)
(* Proofs about the WebSocket hubs and the presence lease, for any number  *)
(* of hubs, connections and faults and any queue length.                   *)
(*                                                                         *)
(* The argument for the newest login: on its own hub the registration lock *)
(* orders claim and install, so a handler that is about to install is the  *)
(* newest claimant of its hub (Installer); the connection it replaces is   *)
(* therefore never the newest one (Kicker), and nobody but itself, a full  *)
(* queue, the peer or a fault gives the newest one a reason to end.        *)
(***************************************************************************)
EXTENDS Hub, TLAPS

(***************************************************************************)
(* The inductive invariant                                                 *)
(***************************************************************************)

\* Hub.Handler has not started the goroutines of c.
Unstarted == {"new", "begun", "claim", "install", "refused"}

\* The goroutines of c start and end together.
Goroutines(c) ==
    /\ handler[c] \in Unstarted => reader[c] = "none"
    /\ reader[c] = "none" => writer[c] = "none" /\ once[c] = "fresh"
    /\ reader[c] = "gone" => writer[c] = "exit"

\* A handler between claim and install owns the registration lock and is, on its
\* hub, the last to have claimed the lease.
Installer(c) ==
    /\ handler[c] \in {"claim", "install"} => regLock[HubOf[c]] = c
    /\ handler[c] = "install" =>
           /\ latest # None => (HubOf[latest] = HubOf[c] => latest = c)
           /\ latest = c /\ c \notin excused => lease = c

\* What a handler kicks is not the newest login.
Kicker(c) ==
    handler[c] \in {"kick", "kicking"} =>
        old[c] \in Conns /\ old[c] # latest /\ reader[old[c]] # "none"

\* The newest login, installed and without a reason of its own to end.
Current(c) ==
    latest = c /\ reader[c] # "none" /\ c \notin excused /\ closer[HubOf[c]] = "open"

Online(c) ==
    /\ clients[HubOf[c]] = c /\ lease = c /\ once[c] = "fresh"
    /\ reader[c] = "reading" /\ writer[c] \in {"loop", "writing"}

\* Facts about one connection.
ConnInv(c) == Goroutines(c) /\ Installer(c) /\ Kicker(c) /\ (Current(c) => Online(c))

\* What a hub's map and its Close rely on.
HubInv(i) ==
    /\ clients[i] # None => /\ HubOf[clients[i]] = i
                            /\ reader[clients[i]] \in {"reading", "close", "remove"}
    /\ \A c \in victims[i] : HubOf[c] = i /\ reader[c] # "none"
    /\ closer[i] \in {"closing", "closed"} =>
           \A c \in OfHub(i) : handler[c] \notin Registration
    /\ closer[i] = "closed" => \A c \in OfHub(i) : reader[c] \in {"none", "gone"}

\* The inductive invariant.
Inv == TypeOK /\ (\A c \in Conns : ConnInv(c)) /\ (\A i \in Hubs : HubInv(i))

\* What Inv says of one connection and of one hub.
LEMMA Facts ==
  ASSUME Inv
  PROVE  /\ TypeOK /\ \A c \in Conns : ConnInv(c) /\ HubOf[c] \in Hubs
         /\ \A i \in Hubs : HubInv(i)
  BY ConstantsAssumption DEF Inv

(***************************************************************************)
(* The handler's steps                                                     *)
(***************************************************************************)
\* beginRegistration and the registration lock.
LEMMA LockKeeps ==
  ASSUME Inv, NEW c \in Conns, BeginRegistration(c) \/ LockRegistration(c)
  PROVE  Inv'
<1>0. /\ TypeOK /\ \A d \in Conns : ConnInv(d) /\ HubOf[d] \in Hubs
      /\ \A i \in Hubs : HubInv(i)
  BY Facts
<1>1. TypeOK'
  BY <1>0 DEF BeginRegistration, LockRegistration, Handle, TypeOK, hub, Registration
<1>2. ASSUME NEW d \in Conns PROVE ConnInv(d)'
  BY <1>0, ConstantsAssumption DEF BeginRegistration, LockRegistration, Handle, TypeOK, hub,
     ConnInv, Goroutines, Unstarted, Installer, Kicker, Current, Online
<1>3. ASSUME NEW i \in Hubs PROVE HubInv(i)'
  BY <1>0 DEF BeginRegistration, LockRegistration, Handle, TypeOK, hub, HubInv, OfHub, Registration
<1> QED BY <1>1, <1>2, <1>3 DEF Inv

\* The newest claimant of the hub takes the map entry; what it replaces is older.
LEMMA InstallKeeps ==
  ASSUME Inv, NEW c \in Conns, Install(c)
  PROVE  Inv'
<1>0. /\ TypeOK /\ \A d \in Conns : ConnInv(d) /\ HubOf[d] \in Hubs
      /\ \A i \in Hubs : HubInv(i)
  BY Facts
<1>1. TypeOK'
  BY <1>0 DEF Install, Handle, TypeOK, Registration
<1>2. ASSUME NEW d \in Conns PROVE ConnInv(d)'
  BY <1>0, ConstantsAssumption DEF Install, Handle, TypeOK, HubInv,
     ConnInv, Goroutines, Unstarted, Installer, Kicker, Current, Online
<1>3. ASSUME NEW i \in Hubs PROVE HubInv(i)'
  BY <1>0 DEF Install, Handle, TypeOK, hub, HubInv, OfHub, Registration
<1> QED BY <1>1, <1>2, <1>3 DEF Inv

\* The bound on faults.
LEMMA FaultTyped ==
  ASSUME Fault, faults \in 0..MaxFaults
  PROVE  faults' \in 0..MaxFaults
  BY ConstantsAssumption DEF Fault

\* ClaimPresence, or its failure before or after Redis ran the script.
LEMMA ClaimKeeps ==
  ASSUME Inv, NEW c \in Conns, ClaimPresence(c) \/ ClaimFails(c)
  PROVE  Inv'
<1>0. /\ TypeOK /\ \A d \in Conns : ConnInv(d) /\ HubOf[d] \in Hubs
      /\ \A j \in Hubs : HubInv(j)
  BY Facts
<1>1. TypeOK'
  BY <1>0, FaultTyped DEF ClaimPresence, ClaimFails, TypeOK, Handle, hub, Registration
<1>2. ASSUME NEW d \in Conns PROVE ConnInv(d)'
  BY <1>0, ConstantsAssumption DEF ClaimPresence, ClaimFails, TypeOK, HubInv,
     ConnInv, Goroutines, Unstarted, Installer, Kicker, Current, Online, Handle, hub, Fault
<1>3. ASSUME NEW j \in Hubs PROVE HubInv(j)'
  BY <1>0 DEF ClaimPresence, ClaimFails, TypeOK, HubInv, OfHub, Registration, Handle, hub
<1> QED BY <1>1, <1>2, <1>3 DEF Inv

\* The kick closes a connection that is not the newest.
LEMMA KickKeeps ==
  ASSUME Inv, NEW c \in Conns, Kick(c) \/ FinishKick(c)
  PROVE  Inv'
<1>0. /\ TypeOK /\ \A d \in Conns : ConnInv(d) /\ HubOf[d] \in Hubs
      /\ \A j \in Hubs : HubInv(j)
  BY Facts
<1>1. TypeOK'
  BY <1>0 DEF Kick, FinishKick, TypeOK, Handle, hub, Registration
<1>2. ASSUME NEW d \in Conns PROVE ConnInv(d)'
  BY <1>0, ConstantsAssumption DEF Kick, FinishKick, TypeOK, HubInv,
     ConnInv, Goroutines, Unstarted, Installer, Kicker, Current, Online, Handle, hub
<1>3. ASSUME NEW j \in Hubs PROVE HubInv(j)'
  BY <1>0 DEF Kick, FinishKick, TypeOK, HubInv, OfHub, Registration, Handle, hub
<1> QED BY <1>1, <1>2, <1>3 DEF Inv

(***************************************************************************)
(* The writer's and the reader's steps                                     *)
(***************************************************************************)

\* writeLoop takes an event, renews the lease or writes a frame.
LEMMA WriterKeeps ==
  ASSUME Inv, NEW c \in Conns, WriterStops(c) \/ TakeEvent(c) \/ Renew(c) \/ Write(c)
  PROVE  Inv'
<1>0. /\ TypeOK /\ \A d \in Conns : ConnInv(d) /\ HubOf[d] \in Hubs
      /\ \A j \in Hubs : HubInv(j)
  BY Facts
<1>1. TypeOK'
  BY <1>0, ConstantsAssumption DEF WriterStops, TakeEvent, Renew, Write, TypeOK, hub
<1>2. ASSUME NEW d \in Conns PROVE ConnInv(d)'
  BY <1>0, ConstantsAssumption DEF WriterStops, TakeEvent, Renew, Write, TypeOK, HubInv,
     ConnInv, Goroutines, Unstarted, Installer, Kicker, Current, Online, hub
<1>3. ASSUME NEW j \in Hubs PROVE HubInv(j)'
  BY <1>0 DEF WriterStops, TakeEvent, Renew, Write, TypeOK, HubInv, OfHub, Registration, hub
<1> QED BY <1>1, <1>2, <1>3 DEF Inv

\* writeLoop closes the connection at its end.
LEMMA WriterClosesKeeps ==
  ASSUME Inv, NEW c \in Conns, WriterCloses(c)
  PROVE  Inv'
<1>0. /\ TypeOK /\ \A d \in Conns : ConnInv(d) /\ HubOf[d] \in Hubs
      /\ \A j \in Hubs : HubInv(j)
  BY Facts
<1>1. TypeOK'
  BY <1>0 DEF WriterCloses, TypeOK, CloseClient, hub
<1>2. ASSUME NEW d \in Conns PROVE ConnInv(d)'
  BY <1>0, ConstantsAssumption DEF WriterCloses, TypeOK, HubInv,
     ConnInv, Goroutines, Unstarted, Installer, Kicker, Current, Online, CloseClient, hub
<1>3. ASSUME NEW j \in Hubs PROVE HubInv(j)'
  BY <1>0 DEF WriterCloses, TypeOK, HubInv, OfHub, Registration,
     CloseClient, hub
<1> QED BY <1>1, <1>2, <1>3 DEF Inv

\* The reader stops and closes the connection.
LEMMA ReaderKeeps ==
  ASSUME Inv, NEW c \in Conns, PeerLeaves(c) \/ ReadFails(c) \/ ReaderCloses(c)
  PROVE  Inv'
<1>0. /\ TypeOK /\ \A d \in Conns : ConnInv(d) /\ HubOf[d] \in Hubs
      /\ \A j \in Hubs : HubInv(j)
  BY Facts
<1>1. TypeOK'
  BY <1>0 DEF PeerLeaves, ReadFails, ReaderCloses, TypeOK, CloseClient, hub
<1>2. ASSUME NEW d \in Conns PROVE ConnInv(d)'
  BY <1>0, ConstantsAssumption DEF PeerLeaves, ReadFails, ReaderCloses, TypeOK, HubInv,
     ConnInv, Goroutines, Unstarted, Installer, Kicker, Current, Online, CloseClient, hub
<1>3. ASSUME NEW j \in Hubs PROVE HubInv(j)'
  BY <1>0 DEF PeerLeaves, ReadFails, ReaderCloses, TypeOK, HubInv, OfHub, Registration,
     CloseClient, hub
<1> QED BY <1>1, <1>2, <1>3 DEF Inv

\* disconnect takes the connection out of the map and releases its lease.
LEMMA RemoveKeeps ==
  ASSUME Inv, NEW c \in Conns, Remove(c) \/ Release(c) \/ ReleaseFails(c) \/ Join(c)
  PROVE  Inv'
<1>0. /\ TypeOK /\ \A d \in Conns : ConnInv(d) /\ HubOf[d] \in Hubs
      /\ \A j \in Hubs : HubInv(j)
  BY Facts
<1>1. TypeOK'
  BY <1>0, FaultTyped, ConstantsAssumption DEF Remove, Release, ReleaseFails, Join, TypeOK,
     Released, hub
<1>2. ASSUME NEW d \in Conns PROVE ConnInv(d)'
  BY <1>0, ConstantsAssumption DEF Remove, Release, ReleaseFails, Join, TypeOK, HubInv,
     ConnInv, Goroutines, Unstarted, Installer, Kicker, Current, Online, Released, hub
<1>3. ASSUME NEW j \in Hubs PROVE HubInv(j)'
  BY <1>0 DEF Remove, Release, ReleaseFails, Join, TypeOK, HubInv, OfHub,
     Registration, Released, hub
<1> QED BY <1>1, <1>2, <1>3 DEF Inv

(***************************************************************************)
(* Notify, Close and the environment                                       *)
(***************************************************************************)

\* A full queue excuses the connection it closes.
LEMMA NotifyKeeps ==
  ASSUME Inv, NEW i \in Hubs, Notify(i)
  PROVE  Inv'
<1>0. /\ TypeOK /\ \A d \in Conns : ConnInv(d) /\ HubOf[d] \in Hubs
      /\ \A j \in Hubs : HubInv(j)
  BY Facts
<1>1. TypeOK'
  BY <1>0, ConstantsAssumption DEF Notify, TypeOK, CloseClient, hub
<1>2. ASSUME NEW d \in Conns PROVE ConnInv(d)'
  BY <1>0, ConstantsAssumption DEF Notify, TypeOK, HubInv,
     ConnInv, Goroutines, Unstarted, Installer, Kicker, Current, Online, CloseClient, hub
<1>3. ASSUME NEW j \in Hubs PROVE HubInv(j)'
  BY <1>0 DEF Notify, TypeOK, HubInv, OfHub, Registration,
     CloseClient, hub
<1> QED BY <1>1, <1>2, <1>3 DEF Inv

\* Close waits for the registrations, then for the clients.
LEMMA CloseKeeps ==
  ASSUME Inv, NEW i \in Hubs, CloseHub(i) \/ Collect(i) \/ CloseVictim(i) \/ FinishClose(i)
  PROVE  Inv'
<1>0. /\ TypeOK /\ \A d \in Conns : ConnInv(d) /\ HubOf[d] \in Hubs
      /\ \A j \in Hubs : HubInv(j)
  BY Facts
<1>1. TypeOK'
  BY <1>0 DEF CloseHub, Collect, CloseVictim, FinishClose, TypeOK, CloseClient, conn
<1>2. ASSUME NEW d \in Conns PROVE ConnInv(d)'
  BY <1>0, ConstantsAssumption DEF CloseHub, Collect, CloseVictim, FinishClose, TypeOK, HubInv,
     ConnInv, Goroutines, Unstarted, Installer, Kicker, Current, Online, CloseClient, conn, OfHub
<1>3. ASSUME NEW j \in Hubs PROVE HubInv(j)'
  BY <1>0 DEF CloseHub, Collect, CloseVictim, FinishClose, TypeOK, HubInv,
     OfHub, Registration, CloseClient, conn
<1> QED BY <1>1, <1>2, <1>3 DEF Inv

\* A crash excuses every connection of its hub.
LEMMA CrashKeeps ==
  ASSUME Inv, NEW i \in Hubs, Crash(i)
  PROVE  Inv'
<1>0. /\ TypeOK /\ \A d \in Conns : ConnInv(d) /\ HubOf[d] \in Hubs
      /\ \A j \in Hubs : HubInv(j)
  BY Facts
<1>1. TypeOK'
  BY <1>0, FaultTyped, ConstantsAssumption DEF Crash, TypeOK, OfHub, Registration
<1>2. ASSUME NEW d \in Conns PROVE ConnInv(d)'
  BY <1>0, ConstantsAssumption DEF Crash, TypeOK, HubInv,
     ConnInv, Goroutines, Unstarted, Installer, Kicker, Current, Online, OfHub, Registration
<1>3. ASSUME NEW j \in Hubs PROVE HubInv(j)'
  BY <1>0 DEF Crash, TypeOK, HubInv, OfHub, Registration, Fault
<1> QED BY <1>1, <1>2, <1>3 DEF Inv

\* An expired lease excuses its holder.
LEMMA ExpiryKeeps ==
  ASSUME Inv, LeaseExpires
  PROVE  Inv'
<1>0. /\ TypeOK /\ \A d \in Conns : ConnInv(d) /\ HubOf[d] \in Hubs
      /\ \A j \in Hubs : HubInv(j)
  BY Facts
<1>1. TypeOK'
  BY <1>0, FaultTyped DEF LeaseExpires, TypeOK, conn, hub
<1>2. ASSUME NEW d \in Conns PROVE ConnInv(d)'
  BY <1>0 DEF LeaseExpires, TypeOK, conn, hub,
     ConnInv, Goroutines, Unstarted, Installer, Kicker, Current, Online
<1>3. ASSUME NEW j \in Hubs PROVE HubInv(j)'
  BY <1>0 DEF LeaseExpires, TypeOK, HubInv, OfHub, conn, hub
<1> QED BY <1>1, <1>2, <1>3 DEF Inv

\* A claim on another server makes no connection of the hubs the newest.
LEMMA ElsewhereKeeps ==
  ASSUME Inv, ClaimElsewhere
  PROVE  Inv'
<1>0. /\ TypeOK /\ \A d \in Conns : ConnInv(d) /\ HubOf[d] \in Hubs
      /\ \A j \in Hubs : HubInv(j)
  BY Facts
<1>1. TypeOK'
  BY <1>0, FaultTyped DEF ClaimElsewhere, TypeOK, conn, hub
<1>2. ASSUME NEW d \in Conns PROVE ConnInv(d)'
  BY <1>0, ConstantsAssumption DEF ClaimElsewhere, TypeOK, conn, hub,
     ConnInv, Goroutines, Unstarted, Installer, Kicker, Current, Online
<1>3. ASSUME NEW j \in Hubs PROVE HubInv(j)'
  BY <1>0 DEF ClaimElsewhere, TypeOK, HubInv, OfHub, conn, hub
<1> QED BY <1>1, <1>2, <1>3 DEF Inv

(***************************************************************************)
(* The theorems                                                            *)
(***************************************************************************)
LEMMA InitHolds == Init => Inv
<1>1. SUFFICES ASSUME Init PROVE Inv
  OBVIOUS
<1>2. TypeOK
  BY <1>1, ConstantsAssumption DEF Init, TypeOK
<1>3. ASSUME NEW c \in Conns PROVE ConnInv(c)
  BY <1>1 DEF Init, ConnInv, Goroutines, Installer, Kicker, Current
<1>4. ASSUME NEW i \in Hubs PROVE HubInv(i)
  BY <1>1 DEF Init, HubInv
<1> QED BY <1>2, <1>3, <1>4 DEF Inv

\* Every step preserves the invariant.
LEMMA StepHolds == Inv /\ [Next]_vars => Inv'
<1>1. ASSUME Inv, NEW c \in Conns,
             BeginRegistration(c) \/ HandlerStep(c) \/ ClaimFails(c)
      PROVE  Inv'
  BY <1>1, LockKeeps, InstallKeeps, ClaimKeeps, KickKeeps DEF HandlerStep
<1>2. ASSUME Inv, NEW c \in Conns,
             WriterStep(c) \/ PeerLeaves(c) \/ ReaderStep(c) \/ ReleaseFails(c)
      PROVE  Inv'
  BY <1>2, WriterKeeps, WriterClosesKeeps, ReaderKeeps, RemoveKeeps DEF WriterStep, ReaderStep
<1>3. ASSUME Inv, NEW i \in Hubs, Notify(i) \/ CloseHub(i) \/ CloserStep(i) \/ Crash(i)
      PROVE  Inv'
  BY <1>3, NotifyKeeps, CloseKeeps, CrashKeeps DEF CloserStep
<1>4. ASSUME Inv, UNCHANGED vars PROVE Inv'
  BY <1>4 DEF vars, Inv, TypeOK, ConnInv, Goroutines, Installer, Kicker, Current, Online, HubInv
<1> QED BY <1>1, <1>2, <1>3, <1>4, ExpiryKeeps, ElsewhereKeeps DEF Next

\* In every reachable state the registration lock, the map, the lease and the
\* goroutines of the connections agree.
THEOREM HubInvariant == Spec => []Inv
  BY InitHolds, StepHolds, PTL DEF Spec

\* Every variable has its type, no queue exceeds its channel, and the map names
\* nobody whose cleanup has passed.
THEOREM MapNamesNoGhost == Spec => []MapAgrees
<1>1. Inv => MapAgrees
  BY DEF Inv, MapAgrees, NoGhost, HubInv
<1> QED BY <1>1, HubInvariant, PTL

\* The newest login that has no reason of its own to end is connected, in the map
\* and online, whatever older connections and concurrent handlers do.
THEOREM NewestLoginOnline == Spec => []LatestOnline
<1>1. Inv => LatestOnline
  BY DEF Inv, ConnInv, Current, Online, LatestOnline
<1> QED BY <1>1, HubInvariant, PTL

\* When Close has returned, nothing of the hub runs and nobody can join.
THEOREM ClosedHubEmpty == Spec => []ClosedEmpty
<1>1. ASSUME Inv PROVE ClosedEmpty
  <2>1. SUFFICES ASSUME NEW i \in Hubs, closer[i] = "closed"
                 PROVE  /\ clients[i] = None
                        /\ \A c \in OfHub(i) :
                               /\ handler[c] \notin Registration
                               /\ reader[c] \in {"none", "gone"} /\ writer[c] \in {"none", "exit"}
    BY DEF ClosedEmpty
  <2>2. HubInv(i) /\ TypeOK
    BY <1>1 DEF Inv
  <2>3. \A c \in OfHub(i) : Goroutines(c)
    BY <1>1 DEF Inv, ConnInv, OfHub
  <2>4. clients[i] = None
    BY <2>1, <2>2 DEF HubInv, OfHub, TypeOK
  <2> QED BY <2>1, <2>2, <2>3, <2>4 DEF HubInv, Goroutines
<1> QED BY <1>1, HubInvariant, PTL

\* A connection that has been replaced as the newest never becomes it again: its
\* cleanup can at most give back a lease that is its own.
THEOREM ReplacedForGood ==
  Spec => [][\A c \in Conns : reader[c] # "none" /\ latest # c => latest' # c]_vars
<1>1. ASSUME Inv, [Next]_vars, NEW c \in Conns, reader[c] # "none", latest # c, latest' = c
      PROVE  FALSE
  <2>1. handler[c] = "claim"
    BY <1>1, ConstantsAssumption DEF Next, BeginRegistration, HandlerStep, LockRegistration, ClaimPresence, Install,
       Kick, FinishKick, ClaimFails, WriterStep, WriterStops, TakeEvent, Renew, Write, WriterCloses,
       PeerLeaves, ReaderStep, ReadFails, ReaderCloses, Remove, Release, Join, ReleaseFails,
       Notify, CloseHub, CloserStep, Collect, CloseVictim, FinishClose, Crash, LeaseExpires,
       ClaimElsewhere, vars
  <2> QED BY <1>1, <2>1 DEF Inv, ConnInv, Goroutines, Unstarted
<1>2. Inv /\ [Next]_vars =>
          [\A c \in Conns : reader[c] # "none" /\ latest # c => latest' # c]_vars
  BY <1>1
<1> QED BY <1>2, HubInvariant, PTL DEF Spec

=============================================================================
