------------------------------ MODULE Cleaning ------------------------------
(***************************************************************************)
(* The cleaner, beside the handlers of module Rendezvous: runCleaning of   *)
(* relay/relay.go, CleanApps and GetAllApps of relay/service.go, Cleanup   *)
(* and StillInUse of relay/application.go.                                 *)
(*                                                                         *)
(* One goroutine waits for a ticker and sweeps every application that has  *)
(* rows and is in memory.  It takes no lock the handlers take and opens no *)
(* transaction: it lists what is old, then deletes what it listed, and     *)
(* every statement is a step.  `cleaner` holds its locals, `pc` the        *)
(* statement it is about to run.                                           *)
(*                                                                         *)
(* `now` (module RelayStore) is the wall clock.  It moves here.            *)
(***************************************************************************)
EXTENDS Rendezvous, Integers, Sequences

CONSTANTS
  CleaningInterval,  \* clock units between two ticks
  FaultyCleaning,    \* the cleaner's statements that may fail
  CrashSteps,        \* a bound: the cleaner's steps at which the process may die
  MaxNow             \* a bound on the clock

\* runCleaning does nothing with an interval of zero.
ASSUME CleaningAssumption == CleaningInterval \in Nat \ {0}

CleanerDBSteps ==
  { "apps_np", "apps_mb", "apps_msg", "touch", "boxes", "names",
    "del_npsides", "del_np", "del_msgs", "del_mbsides", "del_mb",
    "use_mb", "use_np" }

CleanerSteps == CleanerDBSteps \cup {"idle", "next", "drop"}

VARIABLES
  cleaner,       \* the locals of CleanApps and of the Cleanup it runs
  lastCleaning,  \* the tick of the last sweep, or a full interval before the start
  ticks,         \* the ticker's channel, of capacity one
  nextTick,      \* when the ticker fires next
  lingering      \* connections whose handler was running when the clock last moved

cleaning == <<cleaner, lastCleaning, ticks, nextTick, lingering>>

cvars == <<vars, cleaning>>

Resting ==
  [pc |-> "idle", since |-> 0, tick |-> 0, todo |-> {}, app |-> None,
   look |-> {}, old |-> {}, names |-> {}, np |-> 0, box |-> None, dead |-> {}]

CleanerType ==
  [ pc : CleanerSteps, since : Int, tick : Nat, todo : SUBSET AppIDs,
    app : AppIDs \cup {None}, look : SUBSET BoxRefs,
    old : SUBSET MailboxIDs, names : SUBSET Nat, np : Nat,
    box : MailboxIDs \cup {None}, dead : SUBSET AppIDs ]

CleaningTypeOK ==
  /\ cleaner \in CleanerType
  /\ lastCleaning \in Int
  /\ ticks = <<>> \/ \E t \in 0..now : ticks = <<t>>
  /\ nextTick \in Nat
  /\ lingering \subseteq Conns

CleaningInit ==
  /\ Init
  /\ cleaner = Resting
  /\ lastCleaning = now - CleaningInterval
  /\ ticks = <<>>
  /\ nextTick = now + CleaningInterval
  /\ lingering = {}

-----------------------------------------------------------------------------
(* The clock and the ticker. *)

Running == {c \in Conns : ~At(c, "idle")}

\* Mutant of PassTime: ticks pile up in the channel.
PassTimeQueued ==
  /\ now < MaxNow
  /\ lingering = {}
  /\ lingering' = Running
  /\ now' = now + 1
  /\ IF now' = nextTick
       THEN /\ nextTick' = nextTick + CleaningInterval
            /\ ticks' = Append(ticks, now')
       ELSE UNCHANGED <<nextTick, ticks>>
  /\ UNCHANGED <<mailboxes, mailboxSides, messages, nameplates,
                 nameplateSides, npSeq, application, cleaner, lastCleaning>>

\* A tick that finds the channel full is dropped.  No handler is as slow as
\* an interval, which is minutes: the clock may move once while one runs.
PassTime ==
  /\ now < MaxNow
  /\ lingering = {}
  /\ lingering' = Running
  /\ now' = now + 1
  /\ IF now' = nextTick
       THEN /\ nextTick' = nextTick + CleaningInterval
            /\ ticks' = IF ticks = <<>> THEN <<now'>> ELSE ticks
       ELSE UNCHANGED <<nextTick, ticks>>
  /\ UNCHANGED <<mailboxes, mailboxSides, messages, nameplates,
                 nameplateSides, npSeq, application, cleaner, lastCleaning>>

-----------------------------------------------------------------------------
(* How the cleaner moves on. *)

CleanerAt(step) == cleaner.pc = step

CleanerGoto(step) == cleaner' = [cleaner EXCEPT !.pc = step]

\* All that a step of the cleaner leaves alone, but the tables.
Elsewhere == <<application, lastCleaning, ticks, nextTick, lingering>>

\* Mutant of TakeTick: the sweep is for what is older than this very tick.
TakeTickItself ==
  /\ CleanerAt("idle") /\ ticks # <<>>
  /\ cleaner' = [cleaner EXCEPT !.pc = "apps_np", !.since = Head(ticks),
                                !.tick = Head(ticks)]
  /\ ticks' = <<>>
  /\ UNCHANGED <<vars, lastCleaning, nextTick, lingering>>

\* for t := range ticker.C { service.CleanApps(lastCleaning) ...
TakeTick ==
  /\ CleanerAt("idle") /\ ticks # <<>>
  /\ cleaner' = [cleaner EXCEPT !.pc = "apps_np", !.since = lastCleaning,
                                !.tick = Head(ticks)]
  /\ ticks' = <<>>
  /\ UNCHANGED <<vars, lastCleaning, nextTick, lingering>>

\* ... lastCleaning = t }, also after an error.
EndSweep ==
  /\ lastCleaning' = cleaner.tick
  /\ cleaner' = Resting
  /\ UNCHANGED <<vars, ticks, nextTick, lingering>>

-----------------------------------------------------------------------------
(* GetAllApps: three SELECT DISTINCT app_id, one per table. *)

ListApps(step, rows, then) ==
  /\ CleanerAt(step)
  /\ cleaner' = [cleaner EXCEPT !.todo = @ \cup {r.app : r \in rows},
                                !.pc = then]
  /\ UNCHANGED <<store, Elsewhere>>

GetAllApps ==
  \/ ListApps("apps_np", nameplates, "apps_mb")
  \/ ListApps("apps_mb", mailboxes, "apps_msg")
  \/ ListApps("apps_msg", messages, "next")

-----------------------------------------------------------------------------
(* CleanApps: the listed applications, in the order the SELECTs gave them, *)
(* which is any.                                                           *)

\* app, ok := s.Apps[appID]: one that is not in memory is passed over.
NextApp ==
  /\ CleanerAt("next")
  /\ \E a \in cleaner.todo :
       cleaner' = [cleaner EXCEPT
         !.todo = @ \ {a}, !.app = a,
         !.look = IF apps[a] = None THEN {} ELSE
                    { [id |-> id, by |-> boxOf[apps[a]][id]] :
                      id \in {i \in MailboxIDs : boxOf[apps[a]][i] # None} },
         !.pc = IF apps[a] = None THEN "next" ELSE "touch"]
  /\ UNCHANGED <<store, Elsewhere>>

AllAppsSeen ==
  /\ CleanerAt("next") /\ cleaner.todo = {}
  /\ CleanerGoto("drop")
  /\ UNCHANGED <<store, Elsewhere>>

-----------------------------------------------------------------------------
(* Cleanup. *)

HasListeners(box) == \E l \in listeners : l.box = box

\* for _, mbox := range a.Mailboxes: an error of Touch is ignored.
TouchListened ==
  /\ CleanerAt("touch")
  /\ \E box \in cleaner.look :
       /\ cleaner' = [cleaner EXCEPT !.look = @ \ {box}]
       /\ mailboxes' = IF HasListeners(box) THEN Touched(box.id) ELSE mailboxes
  /\ UNCHANGED <<mailboxSides, messages, nameplates, nameplateSides, npSeq,
                 now, Elsewhere>>

\* Mutant of ListOld: a mailbox as old as `since` is kept.
ListOldStrict ==
  /\ CleanerAt("boxes")
  /\ cleaner' = [cleaner EXCEPT
       !.old = {r.id : r \in {q \in mailboxes : q.app = cleaner.app
                                             /\ q.updated < cleaner.since}},
       !.pc = "names"]
  /\ UNCHANGED <<store, Elsewhere>>

AllTouched ==
  /\ CleanerAt("touch") /\ cleaner.look = {}
  /\ CleanerGoto("boxes")
  /\ UNCHANGED <<store, Elsewhere>>

\* The SELECT on mailboxes, and `updated <= since` on each row of it.
ListOld ==
  /\ CleanerAt("boxes")
  /\ cleaner' = [cleaner EXCEPT
       !.old = {r.id : r \in {q \in mailboxes : q.app = cleaner.app
                                             /\ q.updated <= cleaner.since}},
       !.pc = "names"]
  /\ UNCHANGED <<store, Elsewhere>>

ListOldNames ==
  /\ CleanerAt("names")
  /\ cleaner' = [cleaner EXCEPT
       !.names = {r.id : r \in {q \in nameplates : q.app = cleaner.app
                                             /\ q.mailbox \in cleaner.old}},
       !.pc = "del_npsides"]
  /\ UNCHANGED <<store, Elsewhere>>

DeleteNameplateSides ==
  /\ CleanerAt("del_npsides")
  /\ \E np \in cleaner.names :
       /\ nameplateSides' = {r \in nameplateSides : r.np # np}
       /\ cleaner' = [cleaner EXCEPT !.np = np, !.pc = "del_np"]
  /\ UNCHANGED <<mailboxes, mailboxSides, messages, nameplates, npSeq, now,
                 Elsewhere>>

DeleteNameplate ==
  /\ CleanerAt("del_np")
  /\ nameplates' = {r \in nameplates : r.id # cleaner.np}
  /\ cleaner' = [cleaner EXCEPT !.names = @ \ {cleaner.np},
                                !.pc = "del_npsides"]
  /\ UNCHANGED <<mailboxes, mailboxSides, messages, nameplateSides, npSeq,
                 now, Elsewhere>>

NameplatesDeleted ==
  /\ CleanerAt("del_npsides") /\ cleaner.names = {}
  /\ CleanerGoto("del_msgs")
  /\ UNCHANGED <<store, Elsewhere>>

\* WHERE mailbox_id=$1: in whatever application.
DeleteMessages ==
  /\ CleanerAt("del_msgs")
  /\ \E id \in cleaner.old :
       /\ messages' = {r \in messages : r.mailbox # id}
       /\ cleaner' = [cleaner EXCEPT !.box = id, !.pc = "del_mbsides"]
  /\ UNCHANGED <<mailboxes, mailboxSides, nameplates, nameplateSides, npSeq,
                 now, Elsewhere>>

DeleteMailboxSides ==
  /\ CleanerAt("del_mbsides")
  /\ mailboxSides' = {r \in mailboxSides : r.mailbox # cleaner.box}
  /\ CleanerGoto("del_mb")
  /\ UNCHANGED <<mailboxes, messages, nameplates, nameplateSides, npSeq, now,
                 Elsewhere>>

DeleteMailbox ==
  /\ CleanerAt("del_mb")
  /\ mailboxes' = {r \in mailboxes : r.id # cleaner.box}
  /\ cleaner' = [cleaner EXCEPT !.old = @ \ {cleaner.box}, !.pc = "del_msgs"]
  /\ UNCHANGED <<mailboxSides, messages, nameplates, nameplateSides, npSeq,
                 now, Elsewhere>>

MailboxesDeleted ==
  /\ CleanerAt("del_msgs") /\ cleaner.old = {}
  /\ CleanerGoto("use_mb")
  /\ UNCHANGED <<store, Elsewhere>>

-----------------------------------------------------------------------------
(* StillInUse, and the end of CleanApps. *)

\* The errors of its two statements are ignored: inUse stays false.
StillInUse(step, rows, then) ==
  /\ CleanerAt(step)
  /\ \/ /\ \E r \in rows : r.app = cleaner.app
        /\ CleanerGoto("next")
     \/ /\ (\A r \in rows : r.app # cleaner.app) \/ step \in FaultyCleaning
        /\ cleaner' = [cleaner EXCEPT
             !.dead = IF then = "next" THEN @ \cup {cleaner.app} ELSE @,
             !.pc = then]
  /\ UNCHANGED <<store, Elsewhere>>

\* delete(s.Apps, appID)
DropApp ==
  /\ CleanerAt("drop")
  /\ \E a \in cleaner.dead :
       /\ apps' = [apps EXCEPT ![a] = None]
       /\ cleaner' = [cleaner EXCEPT !.dead = @ \ {a}]
  /\ UNCHANGED <<store, sess, boxOf, listeners, gone, frame, History,
                 lastCleaning, ticks, nextTick, lingering>>

CleanAppsReturns ==
  /\ CleanerAt("drop") /\ cleaner.dead = {}
  /\ EndSweep

\* A statement fails: Cleanup and CleanApps return the error, the rest of
\* the sweep does not take place and no application is dropped.
CleanAppsFails ==
  /\ cleaner.pc \in FaultyCleaning \ {"idle", "touch", "use_mb", "use_np"}
  /\ EndSweep

CleanerStep ==
  \/ TakeTick
  \/ GetAllApps
  \/ NextApp
  \/ AllAppsSeen
  \/ TouchListened
  \/ AllTouched
  \/ ListOld
  \/ ListOldNames
  \/ DeleteNameplateSides
  \/ DeleteNameplate
  \/ NameplatesDeleted
  \/ DeleteMessages
  \/ DeleteMailboxSides
  \/ DeleteMailbox
  \/ MailboxesDeleted
  \/ StillInUse("use_mb", mailboxes, "use_np")
  \/ StillInUse("use_np", nameplates, "next")
  \/ DropApp
  \/ CleanAppsReturns
  \/ CleanAppsFails

-----------------------------------------------------------------------------

\* A step of the handlers; a handler that ends no longer holds the clock.
HandlerStep ==
  /\ \E c \in Conns :
       \/ Begins(c)
       \/ ApplicationStep(c)
       \/ Ends(c)
       \/ Disconnect(c)
  /\ lingering' = {c \in lingering : frame'[c].pc # "idle"}
  /\ UNCHANGED <<cleaner, lastCleaning, ticks, nextTick>>

\* The process dies and comes back.  A panic of Allocate (AllocatePanics of
\* module Rendezvous) does to memory and tables what this does, and is not a
\* disjunct of its own.
Reboot ==
  /\ cleaner.pc \in CrashSteps /\ Restart
  /\ cleaner' = Resting
  /\ lastCleaning' = now - CleaningInterval
  /\ ticks' = <<>>
  /\ nextTick' = now + CleaningInterval
  /\ lingering' = {}

CleaningNext ==
  \/ HandlerStep
  \/ CleanerStep
  \/ PassTime
  \/ Reboot

CleaningSpec == CleaningInit /\ [][CleaningNext]_cvars

-----------------------------------------------------------------------------
(* Properties. *)

\* What the cleaner knows of a mailbox is stale by the time it acts on it.
\* Still no statement of a sweep removes anything that belongs to a mailbox
\* younger than the interval: not its row, its sides, its messages nor a
\* nameplate that leads to it, however the handlers and restarts fall.
Recent(r) == now - r.updated < CleaningInterval

KeepsRecent ==
  [][cleaner' # cleaner =>
       \A r \in mailboxes : Recent(r) =>
         /\ r \in mailboxes'
         /\ MailboxSideRows(r.id) \subseteq mailboxSides'
         /\ {m \in messages : m.mailbox = r.id} \subseteq messages'
         /\ \A n \in nameplates : n.mailbox = r.id =>
              /\ n \in nameplates'
              /\ NameplateSideRows(n.id) \subseteq nameplateSides']_cvars

\* When the cleaner asks whether the application is still in use, none of
\* its mailboxes is as old as the sweep's limit: nothing old was missed,
\* though handlers added rows all the while.
CleanupIsComplete ==
  cleaner.pc \in {"use_mb", "use_np"} =>
    \A r \in mailboxes : r.app = cleaner.app => r.updated > cleaner.since

-----------------------------------------------------------------------------
(* What comments in the code say, and the code does not do. *)

\* "Touch boxes if someone is listening" (application.go:400), so that they
\* are not old: a mailbox that a connected client listens to is not removed.
ListenedIsKept ==
  [][cleaner' # cleaner =>
       \A l \in listeners : l.conn \notin gone =>
         \A r \in mailboxes : r.id = l.box.id => r \in mailboxes']_cvars

=============================================================================
