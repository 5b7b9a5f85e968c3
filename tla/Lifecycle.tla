------------------------------ MODULE Lifecycle ------------------------------
(***************************************************************************)
(* Start and end of a server: migrate/migrate.go (Runner.Up),              *)
(* cmd/server/main.go (run) and infra/dependencies.go (Close).             *)
(*                                                                         *)
(* Several servers of different releases start on one database, crash and  *)
(* start again.  A migration is a version with a content (its checksum);   *)
(* MySQL DDL commits statement by statement, so that a migration that      *)
(* fails leaves a part of it behind.  In a running server only what the    *)
(* shutdown waits for is kept: HTTP requests and two background goroutines;*)
(* the hub is closed as its own module says.  A definition X_Bug before X  *)
(* is a plausible mistake in the code X models.                            *)
(***************************************************************************)
EXTENDS Integers, FiniteSets

CONSTANTS
    Servers,      \* processes that run the server with auto_migrate
    Versions,     \* migration versions
    Sums,         \* contents of migration files
    Content,      \* Content[s][v]: the file in the directory of s, or None
    MaxRequests,  \* bound: HTTP requests in flight per server
    MaxStarts,    \* bound: starts of all servers together
    None

ASSUME ConstantsAssumption ==
    /\ Versions \subseteq Nat
    /\ Content \in [Servers -> [Versions -> Sums \cup {None}]]
    /\ MaxRequests \in Nat /\ MaxStarts \in Nat
    /\ None \notin Sums /\ "partial" \notin Sums

VARIABLES
    row,        \* row[v]: the schema_migrations row: "absent", "dirty", "clean"
    sum,        \* sum[v]: its checksum column
    schema,     \* schema[v]: what of v the tables contain: None, "partial", a content
    runs,       \* runs[v]: how often the SQL of v was started (history)
    pc,         \* pc[s]: where run is
    applied,    \* applied[s]: the checksums Status has read
    cur,        \* cur[s]: the version Up has reached
    requests,   \* requests[s]: HTTP requests in flight
    tasks,      \* tasks[s]: background goroutines that have not ended
    stopping,   \* the servers whose ctx is cancelled
    late,       \* the servers whose shutdownCtx has ended (history)
    starts

db == <<row, sum, schema, runs>>
load == <<requests, tasks, stopping, late>>
vars == <<row, sum, schema, runs, pc, applied, cur, requests, tasks, stopping, late, starts>>

Background == {"warm", "reconcile"}
Files(s) == { v \in Versions : Content[s][v] # None }
Migrating == {"status", "next", "sql", "mark"}
Steps == Migrating \cup {"down", "connect", "serve", "http", "hub", "wait", "close", "closed"}

TypeOK ==
    /\ row \in [Versions -> {"absent", "dirty", "clean"}]
    /\ sum \in [Versions -> Sums \cup {None}]
    /\ \A v \in Versions : row[v] = "absent" <=> sum[v] = None
    /\ schema \in [Versions -> Sums \cup {None, "partial"}]
    /\ runs \in [Versions -> Nat]
    /\ pc \in [Servers -> Steps]
    /\ applied \in [Servers -> [Versions -> Sums \cup {None}]]
    /\ cur \in [Servers -> Versions \cup {-1}]
    /\ requests \in [Servers -> 0..MaxRequests]
    /\ tasks \in [Servers -> SUBSET Background]
    /\ stopping \subseteq Servers /\ late \subseteq Servers
    /\ starts \in 0..MaxStarts

Nothing == [v \in Versions |-> None]

Init ==
    /\ row = [v \in Versions |-> "absent"]
    /\ sum = Nothing
    /\ schema = Nothing
    /\ runs = [v \in Versions |-> 0]
    /\ pc = [s \in Servers |-> "down"]
    /\ applied = [s \in Servers |-> Nothing]
    /\ cur = [s \in Servers |-> -1]
    /\ requests = [s \in Servers |-> 0]
    /\ tasks = [s \in Servers |-> {}]
    /\ stopping = {} /\ late = {}
    /\ starts = 0

Goto(s, step) == pc' = [pc EXCEPT ![s] = step]

\* The process is gone, with everything it ran.
Exit(s) ==
    /\ Goto(s, "down")
    /\ applied' = [applied EXCEPT ![s] = Nothing]
    /\ cur' = [cur EXCEPT ![s] = -1]
    /\ requests' = [requests EXCEPT ![s] = 0]
    /\ tasks' = [tasks EXCEPT ![s] = {}]
    /\ stopping' = stopping \ {s}
    /\ late' = late \ {s}

(***************************************************************************)
(* Runner.Up                                                               *)
(***************************************************************************)

\* OpenMySQL has answered.
Start(s) ==
    /\ pc[s] = "down" /\ starts < MaxStarts
    /\ starts' = starts + 1
    /\ Goto(s, "status")
    /\ UNCHANGED <<db, applied, cur, load>>

\* LoadDir and Status: a dirty row ends the start.
Status(s) ==
    /\ pc[s] = "status"
    /\ IF \E v \in Versions : row[v] = "dirty"
         THEN Exit(s)
         ELSE /\ Goto(s, "next")
              /\ applied' = [applied EXCEPT ![s] = sum]
              /\ UNCHANGED <<cur, load>>
    /\ UNCHANGED <<db, starts>>

Ahead(s) == { v \in Files(s) : v > cur[s] }

\* The files in the order of their versions.
IsNext(s, v) == v \in Ahead(s) /\ \A w \in Ahead(s) : v <= w

Skip_NoChecksum(s) ==
    /\ pc[s] = "next"
    /\ \E v \in Versions :
           /\ IsNext(s, v) /\ applied[s][v] # None
           /\ cur' = [cur EXCEPT ![s] = v]
    /\ UNCHANGED <<db, pc, applied, load, starts>>

\* The version is applied: its checksum must be that of the file.
Skip(s) ==
    /\ pc[s] = "next"
    /\ \E v \in Versions :
           /\ IsNext(s, v) /\ applied[s][v] # None
           /\ IF applied[s][v] = Content[s][v]
                THEN cur' = [cur EXCEPT ![s] = v] /\ UNCHANGED <<pc, applied, load>>
                ELSE Exit(s)
    /\ UNCHANGED <<db, starts>>

Inserted_Upsert(s, v) ==
    /\ row' = [row EXCEPT ![v] = "dirty"]
    /\ sum' = [sum EXCEPT ![v] = Content[s][v]]

\* INSERT with dirty = 1, refused by the primary key if the row exists.
Inserted(s, v) ==
    /\ row[v] = "absent"
    /\ row' = [row EXCEPT ![v] = "dirty"]
    /\ sum' = [sum EXCEPT ![v] = Content[s][v]]

MarkDirty(s) ==
    /\ pc[s] = "next"
    /\ \E v \in Versions :
           /\ IsNext(s, v) /\ applied[s][v] = None
           /\ \/ /\ Inserted(s, v)
                 /\ cur' = [cur EXCEPT ![s] = v]
                 /\ Goto(s, "sql")
                 /\ UNCHANGED <<applied, load>>
              \/ /\ row[v] # "absent"
                 /\ Exit(s)
                 /\ UNCHANGED <<row, sum>>
    /\ UNCHANGED <<schema, runs, starts>>

\* ExecContext(migration.SQL)
ExecSQL(s) ==
    /\ pc[s] = "sql"
    /\ schema' = [schema EXCEPT ![cur[s]] = Content[s][cur[s]]]
    /\ runs' = [runs EXCEPT ![cur[s]] = @ + 1]
    /\ Goto(s, "mark")
    /\ UNCHANGED <<row, sum, applied, cur, load, starts>>

MarkClean(s) ==
    /\ pc[s] = "mark"
    /\ row' = [row EXCEPT ![cur[s]] = "clean"]
    /\ Goto(s, "next")
    /\ UNCHANGED <<sum, schema, runs, applied, cur, load, starts>>

\* A statement fails, its answer is lost or the process dies.  What the SQL has
\* done stays: nothing, a part, or all of it.
Fail(s) ==
    /\ pc[s] # "down"
    /\ Exit(s)
    /\ IF pc[s] = "sql"
         THEN /\ runs' = [runs EXCEPT ![cur[s]] = @ + 1]
              /\ \E done \in {schema[cur[s]], "partial", Content[s][cur[s]]} :
                     schema' = [schema EXCEPT ![cur[s]] = done]
              /\ UNCHANGED row
         ELSE /\ row' \in {row} \cup
                  (IF pc[s] = "mark" THEN {[row EXCEPT ![cur[s]] = "clean"]} ELSE {})
              /\ UNCHANGED <<schema, runs>>
    /\ UNCHANGED <<sum, starts>>

\* Outside the code: somebody inspects a dirty version nobody works on, and
\* completes it or takes it back.
Repair(v) ==
    /\ row[v] = "dirty"
    /\ \A s \in Servers : pc[s] \in {"sql", "mark"} => cur[s] # v
    /\ \/ /\ row' = [row EXCEPT ![v] = "clean"]
          /\ schema' = [schema EXCEPT ![v] = sum[v]]
          /\ UNCHANGED <<sum, runs>>
       \/ /\ row' = [row EXCEPT ![v] = "absent"]
          /\ sum' = [sum EXCEPT ![v] = None]
          /\ schema' = [schema EXCEPT ![v] = None]
          /\ runs' = [runs EXCEPT ![v] = 0]
    /\ UNCHANGED <<pc, applied, cur, load, starts>>

(***************************************************************************)
(* run: serving and shutting down                                          *)
(***************************************************************************)
Migrated(s) ==
    /\ pc[s] = "next" /\ Ahead(s) = {}
    /\ Goto(s, "connect")
    /\ UNCHANGED <<db, applied, cur, load, starts>>

\* Redis, RabbitMQ and the services are up; Warm and Run start, the listener
\* opens.
Serve(s) ==
    /\ pc[s] = "connect"
    /\ Goto(s, "serve")
    /\ tasks' = [tasks EXCEPT ![s] = Background]
    /\ UNCHANGED <<db, applied, cur, requests, stopping, late, starts>>

RequestArrives(s) ==
    /\ pc[s] = "serve" /\ requests[s] < MaxRequests
    /\ requests' = [requests EXCEPT ![s] = @ + 1]
    /\ UNCHANGED <<db, pc, applied, cur, tasks, stopping, late, starts>>

RequestEnds(s) ==
    /\ requests[s] > 0
    /\ requests' = [requests EXCEPT ![s] = @ - 1]
    /\ UNCHANGED <<db, pc, applied, cur, tasks, stopping, late, starts>>

\* Warm ends by itself, the reconciler when its context is cancelled.
TaskEnds(s, t) ==
    /\ t \in tasks[s] /\ (t = "warm" \/ s \in stopping)
    /\ tasks' = [tasks EXCEPT ![s] = @ \ {t}]
    /\ UNCHANGED <<db, pc, applied, cur, requests, stopping, late, starts>>

\* A signal, or an error of one of the listeners; stop() cancels ctx.
Stop(s) ==
    /\ pc[s] = "serve"
    /\ Goto(s, "http")
    /\ stopping' = stopping \cup {s}
    /\ UNCHANGED <<db, applied, cur, requests, tasks, late, starts>>

Bounded_HTTPUnbounded(s) == requests[s] = 0 /\ UNCHANGED late

\* server.Shutdown(shutdownCtx)
Bounded(s) == (requests[s] = 0 /\ UNCHANGED late) \/ late' = late \cup {s}

ShutdownHTTP(s) ==
    /\ pc[s] = "http"
    /\ Bounded(s)
    /\ Goto(s, "hub")
    /\ UNCHANGED <<db, applied, cur, requests, tasks, stopping, starts>>

\* websocketHub.Close() has no timeout of its own; module Hub shows it returns.
CloseHub(s) ==
    /\ pc[s] = "hub"
    /\ Goto(s, "wait")
    /\ UNCHANGED <<db, applied, cur, load, starts>>

WaitBackground_Skipped(s) ==
    /\ pc[s] = "wait"
    /\ Goto(s, "close")
    /\ UNCHANGED <<db, applied, cur, load, starts>>

\* background.Wait() against shutdownCtx.
WaitBackground(s) ==
    /\ pc[s] = "wait"
    /\ (tasks[s] = {} /\ UNCHANGED late) \/ late' = late \cup {s}
    /\ Goto(s, "close")
    /\ UNCHANGED <<db, applied, cur, requests, tasks, stopping, starts>>

\* deps.Close(): RabbitMQ, Redis, MySQL.
CloseDeps(s) ==
    /\ pc[s] = "close"
    /\ Goto(s, "closed")
    /\ UNCHANGED <<db, applied, cur, load, starts>>

Leave(s) == pc[s] = "closed" /\ Exit(s) /\ UNCHANGED <<db, starts>>

(***************************************************************************)
(* The specification                                                       *)
(***************************************************************************)
Up(s) == Status(s) \/ Skip(s) \/ MarkDirty(s) \/ ExecSQL(s) \/ MarkClean(s) \/ Migrated(s)

Shutdown(s) == ShutdownHTTP(s) \/ CloseHub(s) \/ WaitBackground(s) \/ CloseDeps(s) \/ Leave(s)

Next ==
    \/ \E s \in Servers :
           \/ Start(s) \/ Up(s) \/ Fail(s) \/ Serve(s) \/ Stop(s) \/ Shutdown(s)
           \/ RequestArrives(s) \/ RequestEnds(s)
           \/ \E t \in Background : TaskEnds(s, t)
    \/ \E v \in Versions : Repair(v)

\* run goes on while it can; requests and background goroutines may hang.
Spec == Init /\ [][Next]_vars /\ \A s \in Servers : WF_vars(Up(s)) /\ WF_vars(Shutdown(s))

(***************************************************************************)
(* Properties                                                              *)
(***************************************************************************)

\* The SQL of a version is started at most once until somebody has taken it
\* back, whichever servers start together, crash in the middle or start again.
RunOnce == \A v \in Versions : runs[v] <= 1

\* A server runs a migration only on top of all earlier ones of its directory,
\* complete and with the content of its own files.
AppliedInOrder ==
    \A s \in Servers : pc[s] \in {"sql", "mark"} =>
        \A v \in Files(s) : v < cur[s] => row[v] = "clean" /\ schema[v] = Content[s][v]

\* Every migration runs once and in order, and schema_migrations says so: every
\* variable has its type, no SQL is started twice, none before its predecessors.
MigrationsOnce == TypeOK /\ RunOnce /\ AppliedInOrder

\* A server that takes HTTP traffic finds every version its own files describe:
\* no half-applied version, none edited after it was applied.
SchemaReady ==
    \A s \in Servers : pc[s] \notin Migrating \cup {"down"} =>
        \A v \in Files(s) : row[v] = "clean" /\ schema[v] = Content[s][v]

\* The dependencies are closed under a request or a background goroutine only
\* when shutdownCtx has ended.
ClosedAfterUse ==
    \A s \in Servers : pc[s] = "closed" /\ s \notin late => requests[s] = 0 /\ tasks[s] = {}

\* A server that begins to shut down comes to its end, although requests and
\* goroutines may hang.
ShutdownEnds == \A s \in Servers : s \in stopping ~> s \notin stopping

=============================================================================
