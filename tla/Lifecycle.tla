----------------------------- MODULE Lifecycle -----------------------------
(***************************************************************************)
(* A run of the program from its command line to its exit, and the         *)
(* database file it leaves to the next one: main.go, db/database.go, and   *)
(* Initialize, Start and Shutdown of the relay and transit packages.       *)
(*                                                                         *)
(* main's goroutine opens the database, starts the servers, waits for a    *)
(* signal and takes down what it started, while the goroutines of the      *)
(* relay (`worker`: a client's reader, or the cleaner) and the accept loop *)
(* of the transit server go on: nobody waits for them.  The process may    *)
(* die at any step; another one, of the same build or not, starts with the *)
(* file as it is.  One process uses the file at a time.                    *)
(*                                                                         *)
(* Of `initialize` (options and logging) only two results are seen here: a *)
(* failure, and whether the options name a database file.                  *)
(***************************************************************************)
EXTENDS Naturals

CONSTANTS
  Workers,           \* goroutines of the relay that use the database
  Cleaner,           \* the one of them that is runCleaning
  Builds,            \* builds of the program, by their schemaVersion
  SchemaStatements   \* the statements of relaySchema; the first makes `version`

ASSUME LifecycleAssumption ==
  /\ Cleaner \in Workers
  /\ Builds \subseteq Nat \ {0}
  /\ SchemaStatements \in Nat \ {0}

VARIABLES
  there,      \* the file exists
  schema,     \* how many statements of relaySchema took effect in it
  version,    \* the row of its table `version`, or 0 for none
  build,      \* the build that runs, or ran last
  main,       \* what main's goroutine does next
  cmd,        \* the command: "serve", "relay", "transit" or "clean"
  named,      \* config.Opts.Relay.DBFile is not empty
  exit,       \* how the last process ended
  handle,     \* db.db: "nil", "open", or "closed" and not yet nil
  http,       \* relay.server: "nil", "made", "up", "failed" or "down"
  transit,    \* transit.server: "nil", "up", or "closed" and not yet nil
  acceptor,   \* runTransit: "none", "calls" Accept, "waits" in it, or "ended"
  worker,     \* each worker: "none", "idle", or "checked" that handle is not nil
  signalled,  \* a signal waits in sigChan
  served      \* history: a server was started on the file

file == <<there, schema, version>>
servers == <<handle, http, transit, acceptor, worker>>
vars == <<file, build, main, cmd, named, exit, servers, signalled, served>>

DBOpening == {"stat", "create", "open", "open_new", "schema", "row", "check"}
Serving == {"start_relay", "start_transit", "blocked"}
Stopping == {"stop_http", "close_db", "nil_db", "close_transit", "nil_transit"}

TypeOK ==
  /\ there \in BOOLEAN
  /\ schema \in 0..SchemaStatements
  /\ version \in Builds \cup {0}
  /\ build \in Builds
  /\ main \in {"off", "initialize", "clean"} \cup DBOpening \cup Serving \cup Stopping
  /\ cmd \in {"serve", "relay", "transit", "clean"}
  /\ named \in BOOLEAN
  /\ exit \in {"none", "ok", "error", "panic", "crash"}
  /\ handle \in {"nil", "open", "closed"}
  /\ http \in {"nil", "made", "up", "failed", "down"}
  /\ transit \in {"nil", "up", "closed"}
  /\ acceptor \in {"none", "calls", "waits", "ended"}
  /\ worker \in [Workers -> {"none", "idle", "checked"}]
  /\ signalled \in BOOLEAN
  /\ served \in BOOLEAN

NoWorkers == [w \in Workers |-> "none"]

Init ==
  /\ there = FALSE
  /\ schema = 0
  /\ version = 0
  /\ build \in Builds
  /\ main = "off"
  /\ cmd = "serve"
  /\ named = FALSE
  /\ exit = "none"
  /\ handle = "nil"
  /\ http = "nil"
  /\ transit = "nil"
  /\ acceptor = "none"
  /\ worker = NoWorkers
  /\ signalled = FALSE
  /\ served = FALSE

-----------------------------------------------------------------------------
(* Beginning and end of a process. *)

MainAt(step) == main = step

Start ==
  /\ MainAt("off")
  /\ build' \in Builds
  /\ cmd' \in {"serve", "relay", "transit", "clean"}
  /\ main' = "initialize"
  /\ exit' = "none"
  /\ UNCHANGED <<file, named, servers, signalled, served>>

\* Everything in memory goes, whatever the other goroutines are at.
Exit(how) ==
  /\ main' = "off"
  /\ exit' = how
  /\ handle' = "nil"
  /\ http' = "nil"
  /\ transit' = "nil"
  /\ acceptor' = "none"
  /\ worker' = NoWorkers
  /\ signalled' = FALSE
  /\ UNCHANGED <<build, cmd, named>>

\* Killed, out of power, or by a signal that comes before signal.Notify.
Crash ==
  /\ ~MainAt("off")
  /\ Exit("crash")
  /\ UNCHANGED <<file, served>>

\* A step of main's goroutine that returns an error up to main().
Fails(step) ==
  /\ MainAt(step)
  /\ Exit("error")
  /\ UNCHANGED <<file, served>>

Goto(step) ==
  /\ main' = step
  /\ UNCHANGED <<build, cmd, named, exit>>

\* Bad options and a log file that does not open end in Fails.
Initialize ==
  \/ Fails("initialize")
  \/ /\ MainAt("initialize")
     /\ named' \in BOOLEAN
     /\ main' = IF cmd = "transit" THEN "start_transit" ELSE "stat"
     /\ UNCHANGED <<file, build, cmd, exit, servers, signalled, served>>

-----------------------------------------------------------------------------
(* db.Initialize. *)

\* What Initialize's caller goes on with.
AfterOpen == IF cmd = "clean" THEN "clean" ELSE "start_relay"

\* Mutant of Stat: the file is always created.
StatAlwaysNew ==
  /\ MainAt("stat")
  /\ Goto(IF named THEN "create" ELSE AfterOpen)
  /\ UNCHANGED <<file, servers, signalled, served>>

\* With no name the relay runs, and `db` stays nil.
Stat ==
  /\ MainAt("stat")
  /\ Goto(CASE ~named -> AfterOpen [] named /\ there -> "open"
            [] named /\ ~there -> "create")
  /\ UNCHANGED <<file, servers, signalled, served>>

\* os.Create makes the file, or empties the one that is there.
CreateFile ==
  /\ MainAt("create")
  /\ there' = TRUE /\ schema' = 0 /\ version' = 0
  /\ Goto("open_new")
  /\ UNCHANGED <<servers, signalled, served>>

OpenFile ==
  /\ MainAt("open") \/ MainAt("open_new")
  /\ handle' = "open"
  /\ Goto(IF main = "open" THEN "check" ELSE "schema")
  /\ UNCHANGED <<file, http, transit, acceptor, worker, signalled, served>>

\* Mutant of CreateSchema: off by one at the end of the script.
CreateSchemaPastEnd ==
  /\ MainAt("schema")
  /\ schema' = schema + 1
  /\ Goto(IF schema = SchemaStatements THEN "row" ELSE "schema")
  /\ UNCHANGED <<there, version, servers, signalled, served>>

\* One Exec of all of relaySchema, in no transaction: SQLite commits each of
\* its statements by itself.
CreateSchema ==
  /\ MainAt("schema")
  /\ schema' = schema + 1
  /\ Goto(IF schema' = SchemaStatements THEN "row" ELSE "schema")
  /\ UNCHANGED <<there, version, servers, signalled, served>>

InsertVersion ==
  /\ MainAt("row")
  /\ version' = build
  /\ Goto(AfterOpen)
  /\ UNCHANGED <<there, schema, servers, signalled, served>>

\* Mutant of CheckMigration: a missing row is passed over.
CheckMigrationNoRow ==
  /\ MainAt("check")
  /\ schema # 0 /\ version <= build
  /\ Goto(AfterOpen)
  /\ UNCHANGED <<file, servers, signalled, served>>

\* An older version is let through: the migration is still to be written.
CheckMigration ==
  /\ MainAt("check")
  /\ schema # 0 /\ version # 0 /\ version <= build
  /\ Goto(AfterOpen)
  /\ UNCHANGED <<file, servers, signalled, served>>

\* No table, no row, or a version of a later build.
CheckMigrationFails ==
  /\ schema = 0 \/ version = 0 \/ version > build
  /\ Fails("check")

\* Any statement may also fail by itself: a full disk, a read-only file.
StatementFails ==
  Fails("schema") \/ Fails("row") \/ Fails("check") \/ Fails("clean")

OpenDatabase ==
  \/ Initialize
  \/ Stat
  \/ CreateFile
  \/ OpenFile
  \/ CreateSchema
  \/ InsertVersion
  \/ CheckMigration
  \/ CheckMigrationFails
  \/ StatementFails

-----------------------------------------------------------------------------
(* beginRelay, beginTransit, runClean. *)

\* relay.Start: runRelay, ListenAndServe and runCleaning get goroutines.
StartRelay ==
  /\ MainAt("start_relay")
  /\ http' = "made"
  /\ served' = (served \/ named)
  /\ Goto(IF cmd = "serve" THEN "start_transit" ELSE "blocked")
  /\ UNCHANGED <<file, handle, transit, acceptor, worker, signalled>>

\* Mutant of StartTransit: the accept loop starts before the listener is set.
StartTransitAcceptsFirst ==
  /\ MainAt("start_transit")
  /\ \/ /\ acceptor = "none"
        /\ acceptor' = "calls"
        /\ UNCHANGED <<main, cmd, named, build, exit, transit>>
     \/ /\ acceptor # "none"
        /\ transit' = "up"
        /\ Goto("blocked")
        /\ UNCHANGED acceptor
  /\ UNCHANGED <<file, handle, http, worker, signalled, served>>

StartTransit ==
  /\ MainAt("start_transit")
  /\ transit' = "up"
  /\ acceptor' = "calls"
  /\ Goto("blocked")
  /\ UNCHANGED <<file, handle, http, worker, signalled, served>>

\* The port is taken: main returns, and the relay goes with the process.
ListenFails == Fails("start_transit")

\* CleanNowPure: the new Service knows no application, so CleanApps passes
\* over every one it finds (NextApp in module Cleaning); then db.Close.  With
\* no database GetAllApps returns ErrNotOpen, and StatementFails it is.
CleanNowPure ==
  /\ MainAt("clean") /\ handle # "nil"
  /\ Exit("ok")
  /\ UNCHANGED <<file, served>>

BeginServers == StartRelay \/ StartTransit \/ ListenFails \/ CleanNowPure

-----------------------------------------------------------------------------
(* The goroutines of the servers. *)

\* ListenAndServe; its failure is only logged.
ListenAndServe ==
  /\ http = "made"
  /\ http' \in {"up", "failed"}
  /\ UNCHANGED <<file, build, main, cmd, named, exit, handle, transit, acceptor,
                 worker, signalled, served>>

\* Start has the cleaner run, whatever becomes of ListenAndServe; the others
\* read connections that the relay upgrades.
WorkerStarts(w) ==
  /\ worker[w] = "none"
  /\ http = "up" \/ (w = Cleaner /\ http # "nil")
  /\ worker' = [worker EXCEPT ![w] = "idle"]
  /\ UNCHANGED <<file, build, main, cmd, named, exit, handle, http, transit, acceptor,
                 signalled, served>>

\* if db.Get() == nil { return ErrNotOpen }, at the top of each method.
WorkerChecks(w) ==
  /\ worker[w] = "idle" /\ handle # "nil"
  /\ worker' = [worker EXCEPT ![w] = "checked"]
  /\ UNCHANGED <<file, build, main, cmd, named, exit, handle, http, transit, acceptor,
                 signalled, served>>

\* db.Get().Exec, once or more; nil has no methods to call.
WorkerUses(w) ==
  /\ worker[w] = "checked"
  /\ \/ /\ handle = "nil"
        /\ Exit("panic")
     \/ /\ handle # "nil"
        /\ worker' \in {worker, [worker EXCEPT ![w] = "idle"]}
        /\ UNCHANGED <<build, main, cmd, named, exit, handle, http, transit, acceptor,
                       signalled>>
  /\ UNCHANGED <<file, served>>

\* server.Accept() of runTransit: `server` is looked up for each call.
AcceptCall ==
  /\ acceptor = "calls"
  /\ \/ transit = "nil" /\ Exit("panic")
     \/ /\ transit # "nil"
        /\ acceptor' = "waits"
        /\ UNCHANGED <<build, main, cmd, named, exit, handle, http, transit, worker,
                       signalled>>
  /\ UNCHANGED <<file, served>>

\* Accept returns a connection, whose goroutine is module Transit's; once the
\* listener is closed, an error.
AcceptReturns ==
  /\ acceptor = "waits"
  /\ acceptor' \in (IF transit = "up" THEN {"calls"} ELSE {"calls", "ended"})
  /\ UNCHANGED <<file, build, main, cmd, named, exit, handle, http, transit, worker,
                 signalled, served>>

Goroutines ==
  \/ ListenAndServe
  \/ \E w \in Workers : WorkerStarts(w) \/ WorkerChecks(w) \/ WorkerUses(w)
  \/ AcceptCall
  \/ AcceptReturns

-----------------------------------------------------------------------------
(* blockUntilSignalOrTermination and shutdown. *)

\* Nothing sends to chanQuit.
Signal ==
  /\ MainAt("blocked") /\ ~signalled
  /\ signalled' = TRUE
  /\ UNCHANGED <<file, build, main, cmd, named, exit, servers, served>>

Unblock ==
  /\ MainAt("blocked") /\ signalled
  /\ Goto("stop_http")
  /\ UNCHANGED <<file, servers, signalled, served>>

\* server.Shutdown, for 30 seconds at most: it does not know of websockets.
StopHttp ==
  /\ MainAt("stop_http")
  /\ http' = IF http = "nil" THEN "nil" ELSE "down"
  /\ Goto("close_db")
  /\ UNCHANGED <<file, handle, transit, acceptor, worker, signalled, served>>

\* Mutant of CloseDatabase: it waits for the workers to be done.
CloseDatabaseWaits ==
  /\ \/ /\ MainAt("close_db")
        /\ \A w \in Workers : worker[w] = "none"
        /\ handle' = IF handle = "nil" THEN "nil" ELSE "closed"
        /\ Goto("nil_db")
     \/ /\ MainAt("nil_db")
        /\ handle' = "nil"
        /\ Goto("close_transit")
  /\ UNCHANGED <<file, http, transit, acceptor, worker, signalled, served>>

\* db.Close(): the handle is closed, then forgotten.
CloseDatabase ==
  /\ \/ /\ MainAt("close_db")
        /\ handle' = IF handle = "nil" THEN "nil" ELSE "closed"
        /\ Goto("nil_db")
     \/ /\ MainAt("nil_db")
        /\ handle' = "nil"
        /\ Goto("close_transit")
  /\ UNCHANGED <<file, http, transit, acceptor, worker, signalled, served>>

\* transit.Shutdown, the same way; then main returns.
CloseTransit ==
  /\ MainAt("close_transit")
  /\ transit' = IF transit = "nil" THEN "nil" ELSE "closed"
  /\ Goto("nil_transit")
  /\ UNCHANGED <<file, handle, http, acceptor, worker, signalled, served>>

ForgetTransit ==
  /\ MainAt("nil_transit") /\ transit # "nil"
  /\ transit' = "nil"
  /\ Goto("nil_transit")
  /\ UNCHANGED <<file, handle, http, acceptor, worker, signalled, served>>

MainReturns ==
  /\ MainAt("nil_transit") /\ transit = "nil"
  /\ Exit("ok")
  /\ UNCHANGED <<file, served>>

Shutdown ==
  \/ Unblock
  \/ StopHttp
  \/ CloseDatabase
  \/ CloseTransit
  \/ ForgetTransit
  \/ MainReturns

-----------------------------------------------------------------------------

Next ==
  \/ Start
  \/ Crash
  \/ OpenDatabase
  \/ BeginServers
  \/ Goroutines
  \/ Signal
  \/ Shutdown

Spec == Init /\ [][Next]_vars

\* Go runs main's goroutine; nobody has to start or to stop the program.
FairSpec == Spec /\ WF_vars(OpenDatabase \/ BeginServers \/ Shutdown)

-----------------------------------------------------------------------------
(* Properties. *)

Complete == there /\ schema = SchemaStatements /\ version # 0

\* Whatever crashed before, and wherever in making the file, a relay that
\* serves from a file has every table in it, and a version that its own
\* build or an older one wrote.
ServesKnownSchema ==
  named /\ http \in {"made", "up"} => Complete /\ version <= build

\* Once a relay has served from the file, no later start, of whatever build
\* and however it ends, empties the file or leaves it half made.
ServedFileLasts == served => Complete

\* A nil handle or listener is only ever used after a signal: up to then no
\* goroutine finds either gone.
PanicsOnlyInShutdown ==
  [][exit' = "panic" /\ exit # "panic" => main \in Stopping]_vars

\* A signal ends the program, one way or another: the shutdown waits for no
\* goroutine that waits for ever.
SignalEndsIt == signalled ~> main = "off"

=============================================================================
