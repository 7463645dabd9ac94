--------------------------- MODULE LifecycleProofs ---------------------------
(***************************************************************************)
(* What holds of Lifecycle for any goroutines, any builds and any schema:  *)
(* whichever steps a process died at before, a relay serves from a file    *)
(* that is complete and that its build knows, and a file once served from  *)
(* stays complete.                                                         *)
(*                                                                         *)
(* The argument is about main's goroutine alone: `schema` and `version`    *)
(* are written only on the way from "create" to "row", that way is taken   *)
(* only if the file was not there, and a file that was served from is.     *)
(***************************************************************************)
EXTENDS Lifecycle, TLAPS

\* On the way of a new file: nothing was served, and the statements that ran
\* are those before the next.
NewFile ==
  /\ main = "create" => ~served
  /\ main = "open_new" => there /\ schema = 0 /\ version = 0 /\ ~served
  /\ main = "schema" => there /\ schema < SchemaStatements /\ version = 0
                        /\ ~served
  /\ main = "row" => there /\ schema = SchemaStatements /\ ~served

\* A row of `version` is written after the last statement of the schema.
RowComesLast == version # 0 => there /\ schema = SchemaStatements

\* Past db.Initialize, if a file is named: it is complete, and of this build
\* or an older one.
Opened ==
  named /\ (main \in {"start_relay", "clean"} \/ http # "nil") =>
    version # 0 /\ version <= build

LInv ==
  /\ TypeOK
  /\ NewFile
  /\ RowComesLast
  /\ Opened
  /\ served => version # 0
  /\ main \in DBOpening \cup {"off", "initialize", "clean", "start_relay"} =>
       http = "nil"

\* A goroutine past its check of `db` finds it, and the accept loop its
\* listener, until the shutdown begins.
Lent ==
  main \notin Stopping =>
    /\ (\E w \in Workers : worker[w] = "checked") => handle # "nil"
    /\ acceptor # "none" => transit = "up"

USE LifecycleAssumption

-----------------------------------------------------------------------------
(* LInv is inductive. *)

LEMMA ExitKeepsLInv ==
  ASSUME LInv, NEW how \in {"ok", "error", "panic", "crash"}, Exit(how),
         UNCHANGED <<file, served>>
  PROVE  LInv'
<1>1. /\ main' = "off" /\ http' = "nil" /\ handle' = "nil" /\ transit' = "nil"
      /\ exit' = how /\ acceptor' = "none" /\ worker' = NoWorkers
      /\ signalled' = FALSE
      /\ UNCHANGED <<build, cmd, named, there, schema, version, served>>
  BY DEF Exit, file
<1>2. TypeOK'
  BY <1>1 DEF TypeOK, LInv, NoWorkers
<1> QED
  BY <1>1, <1>2 DEF LInv, NewFile, RowComesLast, Opened

LEMMA OpenKeepsLInv ==
  ASSUME LInv, OpenDatabase
  PROVE  LInv'
<1> USE DEF LInv, NewFile, RowComesLast, Opened, TypeOK, MainAt, Goto, file,
            servers, DBOpening, Serving, AfterOpen
<1>0. CASE Initialize
  BY <1>0, ExitKeepsLInv DEF Initialize, Fails
<1>1. CASE Stat
  BY <1>1 DEF Stat
<1>2. CASE CreateFile
  BY <1>2 DEF CreateFile
<1>3. CASE OpenFile
  BY <1>3 DEF OpenFile
<1>4. CASE CreateSchema
  BY <1>4 DEF CreateSchema
<1>5. CASE InsertVersion
  BY <1>5 DEF InsertVersion
<1>6. CASE CheckMigration
  BY <1>6 DEF CheckMigration
<1>7. CASE CheckMigrationFails \/ StatementFails
  BY <1>7, ExitKeepsLInv DEF CheckMigrationFails, StatementFails, Fails
<1> QED
  BY <1>0, <1>1, <1>2, <1>3, <1>4, <1>5, <1>6, <1>7 DEF OpenDatabase

LEMMA BeginKeepsLInv ==
  ASSUME LInv, BeginServers
  PROVE  LInv'
<1> USE DEF LInv, NewFile, RowComesLast, Opened, TypeOK, MainAt, Goto, file,
            servers, DBOpening, Serving
<1>1. CASE StartRelay
  BY <1>1 DEF StartRelay
<1>2. CASE StartTransit
  BY <1>2 DEF StartTransit
<1>3. CASE ListenFails \/ CleanNowPure
  BY <1>3, ExitKeepsLInv DEF ListenFails, CleanNowPure, Fails
<1> QED
  BY <1>1, <1>2, <1>3 DEF BeginServers

LEMMA GoroutinesKeepLInv ==
  ASSUME LInv, Goroutines
  PROVE  LInv'
<1> USE DEF LInv, NewFile, RowComesLast, Opened, TypeOK, file, DBOpening,
            Serving
<1>1. CASE ListenAndServe
  BY <1>1 DEF ListenAndServe
<1>2. ASSUME NEW w \in Workers, WorkerStarts(w) PROVE LInv'
  BY <1>2 DEF WorkerStarts
<1>3. ASSUME NEW w \in Workers, WorkerChecks(w) PROVE LInv'
  BY <1>3 DEF WorkerChecks
<1>4. ASSUME NEW w \in Workers, WorkerUses(w) PROVE LInv'
  <2>1. CASE Exit("panic")
    BY <1>4, <2>1, ExitKeepsLInv DEF WorkerUses
  <2>2. CASE ~Exit("panic")
    BY <1>4, <2>2 DEF WorkerUses
  <2> QED
    BY <2>1, <2>2
<1>5. CASE AcceptCall
  <2>1. CASE Exit("panic")
    BY <1>5, <2>1, ExitKeepsLInv DEF AcceptCall
  <2>2. CASE ~Exit("panic")
    BY <1>5, <2>2 DEF AcceptCall
  <2> QED
    BY <2>1, <2>2
<1>6. CASE AcceptReturns
  BY <1>6 DEF AcceptReturns
<1> QED
  BY <1>1, <1>2, <1>3, <1>4, <1>5, <1>6 DEF Goroutines

LEMMA ShutdownKeepsLInv ==
  ASSUME LInv, Shutdown \/ Signal
  PROVE  LInv'
<1> USE DEF LInv, NewFile, RowComesLast, Opened, TypeOK, MainAt, Goto, file,
            servers, DBOpening, Serving, Stopping
<1>1. CASE Unblock
  BY <1>1 DEF Unblock
<1>6. CASE Signal
  <2>1. signalled' \in BOOLEAN
    BY <1>6 DEF Signal
  <2> QED
    BY <1>6, <2>1 DEF Signal
<1>2. CASE StopHttp
  BY <1>2 DEF StopHttp
<1>3. CASE CloseDatabase
  BY <1>3 DEF CloseDatabase
<1>4. CASE CloseTransit \/ ForgetTransit
  BY <1>4 DEF CloseTransit, ForgetTransit
<1>5. CASE MainReturns
  BY <1>5, ExitKeepsLInv DEF MainReturns
<1> QED
  BY <1>1, <1>2, <1>3, <1>4, <1>5, <1>6 DEF Shutdown

LEMMA NextKeepsLInv ==
  ASSUME LInv, [Next]_vars
  PROVE  LInv'
<1>1. CASE Start
  BY <1>1 DEF Start, LInv, NewFile, RowComesLast, Opened, TypeOK, MainAt, file,
              servers, DBOpening, Serving
<1>2. CASE Crash
  BY <1>2, ExitKeepsLInv DEF Crash
<1>3. CASE UNCHANGED vars
  BY <1>3 DEF vars, file, servers, LInv, NewFile, RowComesLast, Opened, TypeOK
<1> QED
  BY <1>1, <1>2, <1>3, OpenKeepsLInv, BeginKeepsLInv, GoroutinesKeepLInv,
     ShutdownKeepsLInv
  DEF Next

LEMMA LInvHolds == Spec => []LInv
<1>1. ASSUME Init PROVE LInv
  <2>1. /\ there \in BOOLEAN /\ signalled \in BOOLEAN
        /\ served \in BOOLEAN /\ named \in BOOLEAN
    BY <1>1, Zenon DEF Init
  <2>2. TypeOK
    BY <1>1, <2>1 DEF Init, TypeOK, NoWorkers
  <2> QED
    BY <1>1, <2>2 DEF Init, LInv, NewFile, RowComesLast, Opened
<1> QED
  BY <1>1, NextKeepsLInv, PTL DEF Spec

\* The variables have the types that are stated, in every run of any builds.
THEOREM TypeCorrect == Spec => []TypeOK
<1>1. LInv => TypeOK
  BY DEF LInv
<1> QED
  BY <1>1, LInvHolds, PTL

\* A file that a relay serves from has every table, and a version that its own build or
\* an older one wrote, wherever earlier processes died in making the file.
THEOREM KnownSchema == Spec => []ServesKnownSchema
<1>1. LInv => ServesKnownSchema
  BY DEF LInv, ServesKnownSchema, Opened, RowComesLast, Complete
<1> QED
  BY <1>1, LInvHolds, PTL

\* No later start, of whatever build and however it ends, empties or halves
\* a file that was served from.
THEOREM FileLasts == Spec => []ServedFileLasts
<1>1. LInv => ServedFileLasts
  BY DEF LInv, ServedFileLasts, RowComesLast, Complete
<1> QED
  BY <1>1, LInvHolds, PTL

-----------------------------------------------------------------------------
(* Lent is inductive. *)

LEMMA NextKeepsLent ==
  ASSUME TypeOK, Lent, [Next]_vars
  PROVE  Lent'
<1> USE DEF Lent, file, servers, Goto, MainAt, Stopping
<1>1. ASSUME NEW how, Exit(how) PROVE Lent'
  BY <1>1 DEF Exit, NoWorkers
<1>2. CASE Start
  BY <1>2 DEF Start
<1>3. CASE OpenDatabase
  BY <1>1, <1>3
  DEF OpenDatabase, Initialize, Stat, CreateFile, OpenFile, CreateSchema, InsertVersion,
      CheckMigration, CheckMigrationFails, StatementFails, Fails
<1>4. CASE BeginServers
  BY <1>1, <1>4
  DEF BeginServers, StartRelay, StartTransit, ListenFails, CleanNowPure, Fails
<1>5. CASE Goroutines
  <2>1. ASSUME NEW w \in Workers,
               WorkerStarts(w) \/ WorkerChecks(w) \/ WorkerUses(w)
        PROVE  Lent'
    BY <1>1, <2>1 DEF WorkerStarts, WorkerChecks, WorkerUses, TypeOK
  <2>2. CASE ListenAndServe \/ AcceptCall \/ AcceptReturns
    BY <1>1, <2>2 DEF ListenAndServe, AcceptCall, AcceptReturns
  <2> QED
    BY <1>5, <2>1, <2>2 DEF Goroutines
<1>6. CASE Shutdown \/ Signal
  BY <1>1, <1>6
  DEF Shutdown, Signal, Unblock, StopHttp, CloseDatabase, CloseTransit,
      ForgetTransit, MainReturns
<1>7. CASE Crash
  BY <1>1, <1>7 DEF Crash
<1>8. CASE UNCHANGED vars
  BY <1>8 DEF vars
<1> QED
  BY <1>2, <1>3, <1>4, <1>5, <1>6, <1>7, <1>8 DEF Next

\* Who ends a process by a panic does so in its shutdown.
LEMMA PanicStep ==
  ASSUME Lent, TypeOK, [Next]_vars, exit' = "panic", exit # "panic"
  PROVE  main \in Stopping
<1>1. ASSUME NEW how, Exit(how) PROVE how = "panic"
  BY <1>1 DEF Exit
<1> USE DEF Goto, MainAt
<1>2. ~Start /\ ~Crash /\ ~(UNCHANGED vars)
  BY <1>1 DEF Start, Crash, vars
<1>3. ~OpenDatabase
  BY <1>1
  DEF OpenDatabase, Initialize, Stat, CreateFile, OpenFile, CreateSchema, InsertVersion,
      CheckMigration, CheckMigrationFails, StatementFails, Fails
<1>4. ~BeginServers
  BY <1>1
  DEF BeginServers, StartRelay, StartTransit, ListenFails, CleanNowPure, Fails
<1>5. CASE Goroutines
  BY <1>5
  DEF Goroutines, ListenAndServe, WorkerStarts, WorkerChecks, WorkerUses,
      AcceptCall, AcceptReturns, Lent
<1>6. ~Shutdown /\ ~Signal
  BY <1>1
  DEF Shutdown, Signal, Unblock, StopHttp, CloseDatabase, CloseTransit,
      ForgetTransit, MainReturns
<1> QED
  BY <1>2, <1>3, <1>4, <1>5, <1>6 DEF Next

\* For any number of goroutines, none finds the database handle or the
\* transit listener gone before a signal had the shutdown begin.
THEOREM NoEarlyPanic == Spec => PanicsOnlyInShutdown
<1>1. Init => Lent
  BY DEF Init, Lent, NoWorkers
<1>2. LInv => TypeOK
  BY DEF LInv
<1>3. Lent /\ TypeOK /\ [Next]_vars
      => [exit' = "panic" /\ exit # "panic" => main \in Stopping]_vars
  BY PanicStep
<1> QED
  BY <1>1, <1>2, <1>3, NextKeepsLent, LInvHolds, PTL
  DEF Spec, PanicsOnlyInShutdown

=============================================================================
