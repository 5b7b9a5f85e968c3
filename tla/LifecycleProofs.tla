--------------------------- MODULE LifecycleProofs ---------------------------
(***************************************************************************)
(* Lifecycle for every set of servers, releases and migrations, and any    *)
(* number of starts and requests.  LifeInv adds to the properties what     *)
(* their proofs need: what a row of schema_migrations says about the       *)
(* tables (RowsTell), that a server between MarkDirty and MarkClean owns   *)
(* the dirty row it works on (Working, OneRunner), that what Status has    *)
(* read stays true (StatusHolds), how far Up has come (Reached), and what  *)
(* every stage of the shutdown has waited for (Drained).                   *)
(***************************************************************************)
EXTENDS Lifecycle, TLAPS

\* A version no row names was not run; one with a clean row is complete.
RowsTell ==
    \A v \in Versions : /\ row[v] = "absent" => runs[v] = 0
                        /\ row[v] = "clean" => schema[v] = sum[v]

\* A server is between the dirty mark and the clean mark of a migration.
InSQL(s) == pc[s] \in {"sql", "mark"}

\* A server that runs a migration has inserted its row.
Runner(s) ==
    InSQL(s) =>
        /\ cur[s] \in Files(s)
        /\ row[cur[s]] = "dirty" /\ sum[cur[s]] = Content[s][cur[s]]
        /\ pc[s] = "sql" => runs[cur[s]] = 0
        /\ pc[s] = "mark" => schema[cur[s]] = Content[s][cur[s]]

\* Every runner is where its rows say.
Working == \A s \in Servers : Runner(s)

\* Two servers never run the same migration.
OneRunner == \A s, t \in Servers : InSQL(s) /\ InSQL(t) /\ cur[s] = cur[t] => s = t

\* What Status has read is still so.
StillApplied(s) ==
    \A v \in Versions : applied[s][v] # None => row[v] = "clean" /\ sum[v] = applied[s][v]

\* What a server saw applied is still applied.
StatusHolds == \A s \in Servers : StillApplied(s)

\* Migration v is applied with the content that s knows.
Complete(s, v) == row[v] = "clean" /\ schema[v] = Content[s][v]

\* Up has gone through the files up to cur, the one it works on excepted.
Behind(s) ==
    /\ pc[s] \in {"down", "status"} => cur[s] = -1
    /\ pc[s] = "next" => \A v \in Files(s) : v <= cur[s] => Complete(s, v)
    /\ InSQL(s) => \A v \in Files(s) : v < cur[s] => Complete(s, v)
    /\ pc[s] \notin Migrating \cup {"down"} => \A v \in Files(s) : Complete(s, v)

\* Every server is where it was allowed to go.
Reached == \A s \in Servers : Behind(s)

\* Requests and goroutines outlive the step that waits for them only if
\* shutdownCtx has ended.
Waited(s) ==
    s \notin late =>
        /\ pc[s] \in {"hub", "wait", "close", "closed"} => requests[s] = 0
        /\ pc[s] \in {"close", "closed"} => tasks[s] = {}

\* Every server waited for what it closes.
Drained == \A s \in Servers : Waited(s)

\* The inductive invariant.
LifeInv ==
    /\ TypeOK /\ RunOnce /\ RowsTell
    /\ Working /\ OneRunner /\ StatusHolds /\ Reached /\ Drained

(***************************************************************************)
(* Types                                                                   *)
(***************************************************************************)

\* A migration file has a version and a content.
LEMMA FileTyped ==
  ASSUME NEW s \in Servers, NEW v \in Files(s)
  PROVE  v \in Versions /\ v \in Nat /\ Content[s][v] \in Sums
<1>1. Content[s] \in [Versions -> Sums \cup {None}] /\ Versions \subseteq Nat
  BY ConstantsAssumption
<1> QED BY <1>1 DEF Files

\* The types hold of an empty database and stopped servers.
LEMMA InitTyped == Init => TypeOK
  BY ConstantsAssumption DEF Init, TypeOK, Nothing, Steps, Migrating

\* The end of a process keeps the types of what belongs to it.
LEMMA ExitTyped ==
  ASSUME TypeOK, NEW s \in Servers, Exit(s)
  PROVE  /\ pc' \in [Servers -> Steps]
         /\ applied' \in [Servers -> [Versions -> Sums \cup {None}]]
         /\ cur' \in [Servers -> Versions \cup {-1}]
         /\ requests' \in [Servers -> 0..MaxRequests]
         /\ tasks' \in [Servers -> SUBSET Background]
         /\ stopping' \subseteq Servers /\ late' \subseteq Servers
  BY ConstantsAssumption DEF Exit, Goto, TypeOK, Nothing, Steps

\* Every step of a server and every repair keeps the types.
LEMMA StepTyped == TypeOK /\ Working /\ [Next]_vars => TypeOK'
<1> SUFFICES ASSUME TypeOK, Working, [Next]_vars PROVE TypeOK'
  OBVIOUS
<1> USE ConstantsAssumption
<1>1. ASSUME NEW s \in Servers, Start(s) PROVE TypeOK'
  BY <1>1 DEF Start, Goto, TypeOK, Steps, Migrating, db, load
<1>2. ASSUME NEW s \in Servers, Up(s) PROVE TypeOK'
  <2>1. CASE Status(s)
    <3>1. CASE Exit(s)
      BY <2>1, <3>1, ExitTyped DEF Status, TypeOK, db
    <3>2. CASE ~Exit(s)
      BY <2>1, <3>2 DEF Status, Goto, TypeOK, Steps, Migrating, db, load
    <3> QED BY <3>1, <3>2
  <2>2. CASE Skip(s)
    <3>1. CASE Exit(s)
      BY <2>2, <3>1, ExitTyped DEF Skip, TypeOK, db
    <3>2. CASE ~Exit(s)
      BY <2>2, <3>2 DEF Skip, TypeOK, db, load
    <3> QED BY <3>1, <3>2
  <2>3. CASE MarkDirty(s)
    <3> PICK v \in Versions :
            /\ IsNext(s, v) /\ applied[s][v] = None
            /\ \/ /\ Inserted(s, v)
                  /\ cur' = [cur EXCEPT ![s] = v]
                  /\ Goto(s, "sql")
                  /\ UNCHANGED <<applied, load>>
               \/ /\ row[v] # "absent"
                  /\ Exit(s)
                  /\ UNCHANGED <<row, sum>>
      BY <2>3 DEF MarkDirty
    <3>1. CASE Exit(s) /\ UNCHANGED <<row, sum>>
      BY <2>3, <3>1, ExitTyped DEF MarkDirty, TypeOK
    <3>2. CASE /\ Inserted(s, v) /\ cur' = [cur EXCEPT ![s] = v]
               /\ Goto(s, "sql") /\ UNCHANGED <<applied, load>>
      <4>1. Content[s][v] \in Sums
        BY DEF IsNext, Ahead, Files
      <4> QED BY <2>3, <3>2, <4>1 DEF MarkDirty, Inserted, Goto, TypeOK, Steps, Migrating, load
    <3> QED BY <3>1, <3>2
  <2>4. CASE ExecSQL(s)
    <3>1. cur[s] \in Files(s)
      BY <2>4 DEF ExecSQL, Working, Runner, InSQL
    <3>2. schema' \in [Versions -> Sums \cup {None, "partial"}] /\ runs' \in [Versions -> Nat]
      BY <2>4, <3>1, FileTyped DEF ExecSQL, TypeOK
    <3>3. pc' \in [Servers -> Steps]
      BY <2>4 DEF ExecSQL, Goto, TypeOK, Steps, Migrating
    <3> QED BY <2>4, <3>2, <3>3 DEF ExecSQL, TypeOK, load
  <2>5. CASE MarkClean(s)
    <3>1. cur[s] \in Versions /\ row[cur[s]] = "dirty"
      BY <2>5 DEF MarkClean, Working, Runner, InSQL, Files
    <3> QED BY <2>5, <3>1 DEF MarkClean, Goto, TypeOK, Steps, Migrating, load
  <2>6. CASE Migrated(s)
    BY <2>6 DEF Migrated, Goto, TypeOK, Steps, db, load
  <2> QED BY <1>2, <2>1, <2>2, <2>3, <2>4, <2>5, <2>6 DEF Up
<1>3. ASSUME NEW s \in Servers, Fail(s) PROVE TypeOK'
  <2>1. Exit(s) /\ UNCHANGED <<sum, starts>>
    BY <1>3 DEF Fail
  <2>2. InSQL(s) => cur[s] \in Versions /\ Content[s][cur[s]] \in Sums /\ row[cur[s]] = "dirty"
    BY FileTyped DEF Working, Runner
  <2>3. /\ row' \in [Versions -> {"absent", "dirty", "clean"}]
        /\ \A v \in Versions : row'[v] = "absent" <=> row[v] = "absent"
    BY <1>3, <2>2 DEF Fail, TypeOK, InSQL
  <2>4. schema' \in [Versions -> Sums \cup {None, "partial"}] /\ runs' \in [Versions -> Nat]
    BY <1>3, <2>2 DEF Fail, TypeOK, InSQL
  <2> QED BY <2>1, <2>3, <2>4, ExitTyped DEF TypeOK
<1>4. ASSUME NEW s \in Servers, Serve(s) \/ Stop(s) PROVE TypeOK'
  <2>1. pc' \in [Servers -> Steps]
    BY <1>4 DEF Serve, Stop, Goto, TypeOK, Steps
  <2>2. tasks' \in [Servers -> SUBSET Background]
    <3>1. tasks' = tasks \/ tasks' = [tasks EXCEPT ![s] = Background]
      BY <1>4 DEF Serve, Stop
    <3> QED BY <3>1 DEF TypeOK
  <2> QED BY <1>4, <2>1, <2>2 DEF Serve, Stop, TypeOK, db
<1>5. ASSUME NEW s \in Servers, Shutdown(s) PROVE TypeOK'
  <2>1. CASE ShutdownHTTP(s) \/ CloseHub(s) \/ WaitBackground(s) \/ CloseDeps(s)
    BY <2>1 DEF ShutdownHTTP, CloseHub, WaitBackground, CloseDeps, Bounded,
                Goto, TypeOK, Steps, db, load
  <2>2. CASE Leave(s)
    BY <2>2, ExitTyped DEF Leave, TypeOK, db
  <2> QED BY <1>5, <2>1, <2>2 DEF Shutdown
<1>6. ASSUME NEW s \in Servers, RequestArrives(s) \/ RequestEnds(s) PROVE TypeOK'
  BY <1>6 DEF RequestArrives, RequestEnds, TypeOK, db
<1>7. ASSUME NEW s \in Servers, NEW t \in Background, TaskEnds(s, t) PROVE TypeOK'
  BY <1>7 DEF TaskEnds, TypeOK, db
<1>8. ASSUME NEW v \in Versions, Repair(v) PROVE TypeOK'
  BY <1>8 DEF Repair, TypeOK, load
<1>9. CASE UNCHANGED vars
  BY <1>9 DEF TypeOK, vars
<1> QED BY <1>1, <1>2, <1>3, <1>4, <1>5, <1>6, <1>7, <1>8, <1>9 DEF Next

(***************************************************************************)
(* The database                                                            *)
(***************************************************************************)

\* Which steps write schema_migrations or run SQL, and what they write.
Writes(s) ==
    \/ UNCHANGED db
    \/ /\ pc[s] = "next"
       /\ \E v \in Versions : IsNext(s, v) /\ Inserted(s, v)
       /\ UNCHANGED <<schema, runs>>
    \/ /\ pc[s] = "sql"
       /\ runs' = [runs EXCEPT ![cur[s]] = @ + 1]
       /\ \E done \in {schema[cur[s]], "partial", Content[s][cur[s]]} :
              schema' = [schema EXCEPT ![cur[s]] = done]
       /\ UNCHANGED <<row, sum>>
    \/ /\ pc[s] = "mark"
       /\ row' = [row EXCEPT ![cur[s]] = "clean"]
       /\ UNCHANGED <<sum, schema, runs>>

\* A step of a server writes only the row its place in Up allows.
LEMMA ServerWrites ==
  ASSUME NEW s \in Servers,
         \/ Start(s) \/ Up(s) \/ Fail(s) \/ Serve(s) \/ Stop(s) \/ Shutdown(s)
         \/ RequestArrives(s) \/ RequestEnds(s)
         \/ \E t \in Background : TaskEnds(s, t)
  PROVE  Writes(s)
<1>1. CASE Up(s)
  <2>1. CASE MarkDirty(s)
    BY <2>1 DEF MarkDirty, Writes, db
  <2>2. CASE ExecSQL(s)
    BY <2>2 DEF ExecSQL, Writes
  <2>3. CASE MarkClean(s)
    BY <2>3 DEF MarkClean, Writes
  <2>4. CASE Status(s) \/ Skip(s) \/ Migrated(s)
    BY <2>4 DEF Status, Skip, Migrated, Writes
  <2> QED BY <1>1, <2>1, <2>2, <2>3, <2>4 DEF Up
<1>2. CASE Fail(s)
  BY <1>2 DEF Fail, Writes, db
<1>3. CASE ~Up(s) /\ ~Fail(s)
  BY <1>3 DEF Start, Serve, Stop, Shutdown, ShutdownHTTP, CloseHub, WaitBackground, CloseDeps,
              Leave, RequestArrives, RequestEnds, TaskEnds, Writes
<1> QED BY <1>1, <1>2, <1>3

\* A clean row and the tables of its version never change again: no server
\* runs an applied migration once more and no repair touches it.
CleanStays ==
    \A v \in Versions : row[v] = "clean" =>
        row'[v] = "clean" /\ sum'[v] = sum[v] /\ schema'[v] = schema[v]

\* What the database says is preserved by what a server writes.
LEMMA WritesKeep ==
  ASSUME LifeInv, NEW s \in Servers, Writes(s)
  PROVE  RunOnce' /\ RowsTell' /\ CleanStays
<1>0. TypeOK /\ RunOnce /\ RowsTell /\ Working
  BY DEF LifeInv
<1>1. CASE UNCHANGED db
  BY <1>0, <1>1 DEF RunOnce, RowsTell, CleanStays, db
<1>2. ASSUME NEW v \in Versions, Inserted(s, v), UNCHANGED <<schema, runs>>
      PROVE  RunOnce' /\ RowsTell' /\ CleanStays
  BY <1>0, <1>2 DEF Inserted, RunOnce, RowsTell, CleanStays, TypeOK
<1>3. ASSUME pc[s] = "sql",
             runs' = [runs EXCEPT ![cur[s]] = @ + 1],
             NEW done, schema' = [schema EXCEPT ![cur[s]] = done],
             UNCHANGED <<row, sum>>
      PROVE  RunOnce' /\ RowsTell' /\ CleanStays
  <2>1. cur[s] \in Versions /\ row[cur[s]] = "dirty" /\ runs[cur[s]] = 0
    BY <1>0, <1>3, FileTyped DEF Working, Runner, InSQL
  <2> QED BY <1>0, <1>3, <2>1 DEF RunOnce, RowsTell, CleanStays, TypeOK
<1>4. ASSUME pc[s] = "mark", row' = [row EXCEPT ![cur[s]] = "clean"],
             UNCHANGED <<sum, schema, runs>>
      PROVE  RunOnce' /\ RowsTell' /\ CleanStays
  <2>1. cur[s] \in Versions /\ row[cur[s]] = "dirty" /\ schema[cur[s]] = sum[cur[s]]
    BY <1>0, <1>4, FileTyped DEF Working, Runner, InSQL
  <2> QED BY <1>0, <1>4, <2>1 DEF RunOnce, RowsTell, CleanStays, TypeOK
<1> QED BY <1>1, <1>2, <1>3, <1>4 DEF Writes

\* Every step keeps what the database says, a repair included.
LEMMA DatabaseStep == LifeInv /\ [Next]_vars => RunOnce' /\ RowsTell' /\ CleanStays
<1> SUFFICES ASSUME LifeInv, [Next]_vars PROVE RunOnce' /\ RowsTell' /\ CleanStays
  OBVIOUS
<1>1. ASSUME NEW s \in Servers, Writes(s) PROVE RunOnce' /\ RowsTell' /\ CleanStays
  BY <1>1, WritesKeep
<1>2. ASSUME NEW v \in Versions, Repair(v) PROVE RunOnce' /\ RowsTell' /\ CleanStays
  BY <1>2 DEF Repair, LifeInv, TypeOK, RunOnce, RowsTell, CleanStays
<1>3. CASE UNCHANGED vars
  BY <1>3 DEF LifeInv, RunOnce, RowsTell, CleanStays, vars
<1> QED BY <1>1, <1>2, <1>3, ServerWrites DEF Next

(***************************************************************************)
(* The servers                                                             *)
(***************************************************************************)

\* What is said about t holds of t alone: a step of another server leaves it.
Untouched(t) ==
    /\ pc'[t] = pc[t] /\ cur'[t] = cur[t] /\ applied'[t] = applied[t]
    /\ requests'[t] = requests[t] /\ tasks'[t] = tasks[t]
    /\ t \in late' <=> t \in late

\* A server writes nothing of another server's state.
LEMMA OthersUntouched ==
  ASSUME TypeOK, NEW s \in Servers,
         \/ Start(s) \/ Up(s) \/ Fail(s) \/ Serve(s) \/ Stop(s) \/ Shutdown(s)
         \/ RequestArrives(s) \/ RequestEnds(s)
         \/ \E t \in Background : TaskEnds(s, t)
  PROVE  \A t \in Servers \ {s} : Untouched(t)
<1> SUFFICES ASSUME NEW t \in Servers \ {s} PROVE Untouched(t)
  OBVIOUS
<1>0. Exit(s) => Untouched(t)
  BY DEF Exit, Goto, Untouched, TypeOK
<1>1. CASE Up(s)
  BY <1>0, <1>1 DEF Up, Status, Skip, MarkDirty, ExecSQL, MarkClean, Migrated,
                    Goto, Untouched, TypeOK, load
<1>2. CASE Fail(s)
  BY <1>0, <1>2 DEF Fail
<1>3. CASE Shutdown(s)
  BY <1>0, <1>3 DEF Shutdown, ShutdownHTTP, CloseHub, WaitBackground, CloseDeps, Leave, Bounded,
                    Goto, Untouched, TypeOK, load
<1>4. CASE ~Up(s) /\ ~Fail(s) /\ ~Shutdown(s)
  BY <1>4 DEF Start, Serve, Stop, RequestArrives, RequestEnds, TaskEnds,
              Goto, Untouched, TypeOK, load
<1> QED BY <1>1, <1>2, <1>3, <1>4

\* What is known about t survives a write of another server and a repair.
LEMMA UntouchedHolds ==
  ASSUME LifeInv, NEW s \in Servers, NEW t \in Servers \ {s},
         Writes(s), Untouched(t), CleanStays
  PROVE  Runner(t)' /\ StillApplied(t)' /\ Behind(t)' /\ Waited(t)'
<1>0. /\ TypeOK /\ Runner(t) /\ StillApplied(t) /\ Behind(t) /\ Waited(t)
      /\ Runner(s) /\ OneRunner
  BY DEF LifeInv, Working, StatusHolds, Reached, Drained
<1>1. ASSUME InSQL(t)
      PROVE  /\ row'[cur[t]] = row[cur[t]] /\ sum'[cur[t]] = sum[cur[t]]
             /\ runs'[cur[t]] = runs[cur[t]] /\ schema'[cur[t]] = schema[cur[t]]
  <2>1. cur[t] \in Versions /\ row[cur[t]] = "dirty"
    BY <1>0, <1>1, FileTyped DEF Runner
  <2>2. InSQL(s) => cur[s] # cur[t]
    BY <1>0, <1>1 DEF OneRunner
  <2> QED BY <1>0, <2>1, <2>2 DEF Writes, Inserted, InSQL, TypeOK, db
<1>2. Runner(t)'
  BY <1>0, <1>1 DEF Runner, Untouched, InSQL
<1>3. StillApplied(t)'
  BY <1>0 DEF StillApplied, Untouched, CleanStays
<1>4. Behind(t)'
  <2>1. \A v \in Files(t) : Complete(t, v) => Complete(t, v)'
    BY FileTyped DEF Complete, CleanStays
  <2> QED BY <1>0, <2>1 DEF Behind, Untouched, InSQL, Files
<1>5. Waited(t)'
  BY <1>0 DEF Waited, Untouched
<1> QED BY <1>2, <1>3, <1>4, <1>5

\* A server that is down has nothing to answer for.
LEMMA ExitHolds ==
  ASSUME TypeOK, NEW s \in Servers, Exit(s)
  PROVE  Runner(s)' /\ StillApplied(s)' /\ Behind(s)' /\ Waited(s)' /\ ~InSQL(s)'
  BY DEF Exit, Goto, TypeOK, Nothing, Runner, StillApplied, Behind, Waited, InSQL, Migrating

\* Every step of Up leads the server to a place whose conditions hold.
LEMMA UpHolds ==
  ASSUME LifeInv, CleanStays, NEW s \in Servers, Up(s)
  PROVE  Runner(s)' /\ StillApplied(s)' /\ Behind(s)' /\ Waited(s)'
<1>0. TypeOK /\ Runner(s) /\ StillApplied(s) /\ Behind(s) /\ Waited(s) /\ RowsTell
  BY DEF LifeInv, Working, StatusHolds, Reached, Drained
<1> Files(s) \subseteq Nat
  BY FileTyped
<1> cur[s] \in Int
  <2>1. Versions \subseteq Nat /\ cur[s] \in Versions \cup {-1}
    BY <1>0, ConstantsAssumption DEF TypeOK
  <2>2. \A v \in Nat : v \in Int
    OBVIOUS
  <2>3. -1 \in Int
    OBVIOUS
  <2> QED BY <2>1, <2>2, <2>3
<1>1. \A v \in Files(s) : Complete(s, v) => Complete(s, v)'
  BY FileTyped DEF Complete, CleanStays
<1>2. applied' = applied => StillApplied(s)'
  BY <1>0 DEF StillApplied, CleanStays
<1>3. CASE Exit(s)
  BY <1>0, <1>3, ExitHolds
<1>4. CASE Status(s) /\ ~Exit(s)
  <2>1. /\ pc[s] = "status" /\ pc' = [pc EXCEPT ![s] = "next"] /\ cur' = cur
        /\ applied' = [applied EXCEPT ![s] = sum] /\ UNCHANGED <<db, load>>
        /\ \A v \in Versions : row[v] # "dirty"
    BY <1>4 DEF Status, Goto
  <2>2. pc'[s] = "next" /\ cur'[s] = -1 /\ applied'[s] = sum
    BY <1>0, <2>1 DEF Behind, TypeOK
  <2>3. StillApplied(s)'
    BY <1>0, <2>1, <2>2 DEF StillApplied, TypeOK, db
  <2>4. Behind(s)'
    BY <2>2, FileTyped DEF Behind, InSQL, Migrating, Files
  <2> QED BY <2>2, <2>3, <2>4 DEF Runner, InSQL, Waited
<1>5. CASE Skip(s) /\ ~Exit(s)
  <2>1. PICK v \in Versions :
            /\ IsNext(s, v) /\ applied[s][v] # None /\ applied[s][v] = Content[s][v]
            /\ cur' = [cur EXCEPT ![s] = v]
    BY <1>5 DEF Skip
  <2>2. pc[s] = "next" /\ UNCHANGED <<db, pc, applied, load>> /\ cur'[s] = v
    BY <1>0, <1>5, <2>1 DEF Skip, TypeOK
  <2>3. Complete(s, v)
    BY <1>0, <2>1 DEF StillApplied, RowsTell, Complete
  <2>4. \A w \in Files(s) : w <= v => Complete(s, w)
    <3>1. \A w \in Files(s) : w <= cur[s] => Complete(s, w)
      BY <1>0, <2>2 DEF Behind
    <3>2. v \in Files(s) /\ \A w \in Files(s) : w > cur[s] => v <= w
      BY <2>1 DEF IsNext, Ahead
    <3> QED BY <2>3, <3>1, <3>2
  <2>5. Behind(s)'
    BY <1>1, <2>2, <2>4 DEF Behind, InSQL, Migrating, Files
  <2> QED BY <1>0, <1>2, <2>2, <2>5 DEF Runner, InSQL, Waited, load
<1>6. CASE MarkDirty(s) /\ ~Exit(s)
  <2>1. PICK v \in Versions :
            /\ IsNext(s, v) /\ Inserted(s, v)
            /\ cur' = [cur EXCEPT ![s] = v]
    BY <1>6 DEF MarkDirty
  <2>2. /\ pc[s] = "next" /\ pc'[s] = "sql" /\ cur'[s] = v
        /\ UNCHANGED <<schema, runs, applied>>
    BY <1>0, <1>6, <2>1 DEF MarkDirty, Goto, TypeOK
  <2>3. v \in Files(s)
    BY <2>1 DEF IsNext, Ahead
  <2>4. Runner(s)'
    BY <1>0, <2>1, <2>2, <2>3 DEF Runner, InSQL, Inserted, RowsTell, TypeOK, Files
  <2>5. \A w \in Files(s) : w < v => Complete(s, w)
    <3>1. \A w \in Files(s) : w <= cur[s] => Complete(s, w)
      BY <1>0, <2>2 DEF Behind
    <3>2. \A w \in Files(s) : w > cur[s] => v <= w
      BY <2>1 DEF IsNext, Ahead
    <3> QED BY <2>3, <3>1, <3>2
  <2>6. Behind(s)'
    BY <1>1, <2>2, <2>5 DEF Behind, InSQL, Migrating, Files
  <2> QED BY <1>2, <2>2, <2>4, <2>6 DEF Waited
<1>7. CASE ExecSQL(s)
  <2>1. /\ pc[s] = "sql" /\ pc'[s] = "mark" /\ cur' = cur /\ applied' = applied
        /\ UNCHANGED <<row, sum>>
        /\ schema' = [schema EXCEPT ![cur[s]] = Content[s][cur[s]]]
    BY <1>0, <1>7 DEF ExecSQL, Goto, TypeOK
  <2>2. Runner(s)'
    BY <1>0, <2>1, FileTyped DEF Runner, InSQL, Files, TypeOK
  <2>3. Behind(s)'
    BY <1>0, <1>1, <2>1 DEF Behind, InSQL, Migrating, Files
  <2> QED BY <1>2, <2>1, <2>2, <2>3 DEF Waited
<1>8. CASE MarkClean(s)
  <2>1. /\ pc[s] = "mark" /\ pc'[s] = "next" /\ cur' = cur /\ applied' = applied
        /\ UNCHANGED <<sum, schema>> /\ row' = [row EXCEPT ![cur[s]] = "clean"]
    BY <1>0, <1>8 DEF MarkClean, Goto, TypeOK
  <2>2. cur[s] \in Files(s) /\ Complete(s, cur[s])'
    BY <1>0, <2>1, FileTyped DEF Runner, InSQL, Complete, TypeOK
  <2>3. \A v \in Files(s) : v < cur[s] => Complete(s, v)'
    BY <1>0, <1>1, <2>1 DEF Behind, InSQL
  <2>4. Behind(s)'
    BY <2>1, <2>2, <2>3, FileTyped DEF Behind, InSQL, Migrating, Files
  <2> QED BY <1>2, <2>1, <2>4 DEF Waited, Runner, InSQL
<1>9. CASE Migrated(s)
  <2>1. /\ pc[s] = "next" /\ pc'[s] = "connect" /\ UNCHANGED <<cur, applied>>
        /\ Ahead(s) = {}
    BY <1>0, <1>9 DEF Migrated, Goto, TypeOK
  <2>2. \A v \in Files(s) : v <= cur[s]
    BY <2>1 DEF Ahead
  <2>3. Behind(s)'
    BY <1>0, <1>1, <2>1, <2>2 DEF Behind, InSQL, Migrating, Files
  <2> QED BY <1>2, <2>1, <2>3 DEF Waited, Runner, InSQL
<1> QED BY <1>3, <1>4, <1>5, <1>6, <1>7, <1>8, <1>9 DEF Up

\* So do the steps of a server outside Up.
LEMMA RunHolds ==
  ASSUME LifeInv, CleanStays, NEW s \in Servers,
         \/ Start(s) \/ Fail(s) \/ Serve(s) \/ Stop(s) \/ Shutdown(s)
         \/ RequestArrives(s) \/ RequestEnds(s)
         \/ \E t \in Background : TaskEnds(s, t)
  PROVE  Runner(s)' /\ StillApplied(s)' /\ Behind(s)' /\ Waited(s)'
<1>0. TypeOK /\ Runner(s) /\ StillApplied(s) /\ Behind(s) /\ Waited(s)
  BY DEF LifeInv, Working, StatusHolds, Reached, Drained
<1>1. \A v \in Files(s) : Complete(s, v) => Complete(s, v)'
  BY FileTyped DEF Complete, CleanStays
<1>2. applied' = applied => StillApplied(s)'
  BY <1>0 DEF StillApplied, CleanStays
<1>3. CASE Exit(s)
  BY <1>0, <1>3, ExitHolds
<1>4. CASE Start(s)
  BY <1>0, <1>2, <1>4 DEF Start, Goto, Runner, Behind, Waited, InSQL, Migrating, TypeOK, Files
<1>5. ASSUME NEW step \in {"serve", "http", "hub", "wait", "close", "closed"},
             pc[s] \notin Migrating \cup {"down"}, Goto(s, step),
             UNCHANGED <<db, applied, cur>>
      PROVE  Runner(s)' /\ StillApplied(s)' /\ Behind(s)'
  <2>1. pc'[s] = step
    BY <1>0, <1>5 DEF Goto, TypeOK
  <2> QED BY <1>0, <1>1, <1>2, <1>5, <2>1 DEF Runner, Behind, InSQL, Migrating, Files
<1>6. CASE Serve(s) \/ Stop(s)
  <2>1. Waited(s)'
    BY <1>0, <1>6 DEF Serve, Stop, Goto, Waited, TypeOK
  <2> QED BY <1>5, <1>6, <2>1 DEF Serve, Stop, Migrating
<1>7. CASE ShutdownHTTP(s) \/ WaitBackground(s)
  <2>1. Waited(s)'
    BY <1>0, <1>7 DEF ShutdownHTTP, WaitBackground, Bounded, Goto, Waited, TypeOK
  <2> QED BY <1>5, <1>7, <2>1 DEF ShutdownHTTP, WaitBackground, Migrating
<1>8. CASE CloseHub(s) \/ CloseDeps(s)
  <2>1. Waited(s)'
    BY <1>0, <1>8 DEF CloseHub, CloseDeps, Goto, Waited, TypeOK, load
  <2> QED BY <1>5, <1>8, <2>1 DEF CloseHub, CloseDeps, Migrating
<1>9. CASE RequestArrives(s) \/ RequestEnds(s) \/ \E t \in Background : TaskEnds(s, t)
  <2>1. UNCHANGED <<db, pc, applied, cur>>
    BY <1>9 DEF RequestArrives, RequestEnds, TaskEnds
  <2>2. Runner(s)' /\ StillApplied(s)' /\ Behind(s)'
    BY <1>0, <1>1, <1>2, <2>1 DEF Runner, Behind, InSQL, Files, db
  <2>3. Waited(s)'
    BY <1>0, <1>9 DEF RequestArrives, RequestEnds, TaskEnds, Waited, TypeOK
  <2> QED BY <2>2, <2>3
<1> QED BY <1>3, <1>4, <1>6, <1>7, <1>8, <1>9 DEF Fail, Shutdown, Leave

\* A server begins to run a migration only when its row was absent, and a
\* migration that runs has a row.
LEMMA OneRunnerStep ==
  ASSUME LifeInv, NEW s \in Servers,
         \/ Start(s) \/ Up(s) \/ Fail(s) \/ Serve(s) \/ Stop(s) \/ Shutdown(s)
         \/ RequestArrives(s) \/ RequestEnds(s)
         \/ \E t \in Background : TaskEnds(s, t)
  PROVE  OneRunner'
<1>0. TypeOK /\ Working /\ OneRunner
  BY DEF LifeInv
<1>1. \A t \in Servers \ {s} : pc'[t] = pc[t] /\ cur'[t] = cur[t]
  BY <1>0, OthersUntouched DEF Untouched
<1>2. InSQL(s)' => \/ InSQL(s) /\ cur'[s] = cur[s]
                   \/ row[cur'[s]] = "absent"
  <2>1. CASE Exit(s)
    BY <1>0, <2>1, ExitHolds
  <2>2. CASE MarkDirty(s) /\ ~Exit(s)
    BY <1>0, <2>2 DEF MarkDirty, Inserted, TypeOK
  <2>3. CASE ~MarkDirty(s) /\ ~Exit(s)
    BY <1>0, <2>3 DEF Start, Up, Status, Skip, ExecSQL, MarkClean, Migrated, Fail, Serve, Stop,
           Shutdown, ShutdownHTTP, CloseHub, WaitBackground, CloseDeps, Leave,
           RequestArrives, RequestEnds, TaskEnds, Goto, InSQL, TypeOK
  <2> QED BY <2>1, <2>2, <2>3
<1>3. \A t \in Servers : InSQL(t) => row[cur[t]] = "dirty"
  BY <1>0 DEF Working, Runner
<1>4. \A t \in Servers \ {s} : InSQL(t)' => InSQL(t) /\ cur'[t] = cur[t]
  BY <1>1 DEF InSQL
<1>5. \A t \in Servers \ {s} : ~(InSQL(s)' /\ InSQL(t)' /\ cur'[s] = cur'[t])
  BY <1>0, <1>2, <1>3, <1>4 DEF OneRunner
<1> QED BY <1>0, <1>4, <1>5 DEF OneRunner

(***************************************************************************)
(* The invariant and what follows from it                                  *)
(***************************************************************************)

\* LifeInv holds initially: no row, no server.
LEMMA InitHolds == Init => LifeInv
<1> SUFFICES ASSUME Init PROVE LifeInv
  OBVIOUS
<1>1. TypeOK
  BY InitTyped
<1>2. RunOnce /\ RowsTell
  BY DEF Init, RunOnce, RowsTell, Nothing
<1>3. Working /\ OneRunner
  BY DEF Init, Working, OneRunner, Runner, InSQL
<1>4. StatusHolds /\ Drained
  BY DEF Init, StatusHolds, StillApplied, Drained, Waited, Nothing
<1>5. Reached
  BY DEF Init, Reached, Behind, InSQL, Migrating
<1> QED BY <1>1, <1>2, <1>3, <1>4, <1>5 DEF LifeInv

\* LifeInv is preserved by every step.
LEMMA StepHolds == LifeInv /\ [Next]_vars => LifeInv'
<1> SUFFICES ASSUME LifeInv, [Next]_vars PROVE LifeInv'
  OBVIOUS
<1>0. TypeOK /\ Working
  BY DEF LifeInv
<1>1. TypeOK' /\ RunOnce' /\ RowsTell' /\ CleanStays
  BY <1>0, StepTyped, DatabaseStep
<1>2. ASSUME NEW s \in Servers,
             \/ Start(s) \/ Up(s) \/ Fail(s) \/ Serve(s) \/ Stop(s) \/ Shutdown(s)
             \/ RequestArrives(s) \/ RequestEnds(s)
             \/ \E t \in Background : TaskEnds(s, t)
      PROVE  LifeInv'
  <2>1. OneRunner'
    BY <1>2, OneRunnerStep
  <2>2. Runner(s)' /\ StillApplied(s)' /\ Behind(s)' /\ Waited(s)'
    BY <1>1, <1>2, UpHolds, RunHolds
  <2>3. \A t \in Servers \ {s} : Runner(t)' /\ StillApplied(t)' /\ Behind(t)' /\ Waited(t)'
    BY <1>0, <1>1, <1>2, ServerWrites, OthersUntouched, UntouchedHolds
  <2>4. \A t \in Servers : Runner(t)' /\ StillApplied(t)' /\ Behind(t)' /\ Waited(t)'
    BY <2>2, <2>3
  <2> QED BY <1>1, <2>1, <2>4 DEF LifeInv, Working, StatusHolds, Reached, Drained
<1>3. ASSUME NEW v \in Versions, Repair(v) PROVE LifeInv'
  <2>1. UNCHANGED <<pc, applied, cur, load>>
    BY <1>3 DEF Repair
  <2>2. ASSUME NEW s \in Servers
        PROVE  Runner(s)' /\ StillApplied(s)' /\ Behind(s)' /\ Waited(s)'
    <3>0. Runner(s) /\ StillApplied(s) /\ Behind(s) /\ Waited(s)
      BY DEF LifeInv, Working, StatusHolds, Reached, Drained
    <3>1. \A w \in Files(s) : Complete(s, w) => Complete(s, w)'
      BY <1>1, FileTyped DEF Complete, CleanStays
    <3>2. Behind(s)'
      BY <2>1, <3>0, <3>1 DEF Behind, InSQL, Files
    <3>3. StillApplied(s)' /\ Waited(s)'
      BY <1>1, <2>1, <3>0 DEF StillApplied, CleanStays, Waited, load
    <3>4. InSQL(s) => cur[s] # v
      BY <1>3 DEF Repair, InSQL
    <3>5. Runner(s)'
      BY <1>0, <1>3, <2>1, <3>0, <3>4, FileTyped DEF Repair, Runner, InSQL, TypeOK, Files
    <3> QED BY <3>2, <3>3, <3>5
  <2>3. OneRunner'
    BY <2>1 DEF LifeInv, OneRunner, InSQL
  <2> QED BY <1>1, <2>2, <2>3 DEF LifeInv, Working, StatusHolds, Reached, Drained
<1>4. CASE UNCHANGED vars
  BY <1>1, <1>4 DEF LifeInv, vars, Working, OneRunner, Runner, InSQL, StatusHolds, StillApplied,
                    Reached, Behind, Complete, Files, Drained, Waited
<1> QED BY <1>2, <1>3, <1>4 DEF Next

\* LifeInv is an invariant of the start and the end of servers.
THEOREM LifeInvariant == Spec => []LifeInv
  BY InitHolds, StepHolds, PTL DEF Spec

\* Whichever servers start together, crash or start again, the SQL of a version
\* is started at most once until it is taken back, after all earlier files of
\* the server's directory are complete, and schema_migrations says so.
THEOREM MigrationsRunOnce == Spec => []MigrationsOnce
<1>1. LifeInv => MigrationsOnce
  BY DEF LifeInv, MigrationsOnce, AppliedInOrder, Reached, Behind, InSQL, Complete
<1> QED BY <1>1, LifeInvariant, PTL

\* A server that has left Up without an error finds the schema of its files as
\* long as it runs.
THEOREM ServesOnItsSchema == Spec => []SchemaReady
<1>1. LifeInv => SchemaReady
  BY DEF LifeInv, SchemaReady, Reached, Behind, Complete
<1> QED BY <1>1, LifeInvariant, PTL

\* deps.Close() comes after the last request and the last goroutine, unless
\* shutdownCtx has ended.
THEOREM DependenciesClosedLast == Spec => []ClosedAfterUse
<1>1. LifeInv => ClosedAfterUse
  BY DEF LifeInv, ClosedAfterUse, Drained, Waited
<1> QED BY <1>1, LifeInvariant, PTL

\* No step of a server and no repair changes a version once its row is clean.
THEOREM AppliedStaysApplied == Spec => [][CleanStays]_vars
<1>1. LifeInv /\ [Next]_vars => [CleanStays]_vars
  BY DatabaseStep
<1> QED BY <1>1, LifeInvariant, PTL DEF Spec

=============================================================================
