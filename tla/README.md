# Formal models of the wormhole server

TLA+ models of the Go *magic wormhole* server in `src/`: the rendezvous relay
(`relay/`, a websocket server over an SQLite database) and the transit relay
(`transit/`, a TCP pipe between two clients with a common token). The modules
are checked with TLC on small instances, and the rendezvous core, the mailbox hub,
the transit server, the cleaner and the life of the process with its database file are proved with
TLAPS for every number of connections, applications, mailboxes, messages, lines and
builds.

Everything is written from the code; comments of the code are only quoted where
the code does something else (see *Findings*).

## 1. The system

### Components, their state and their operations

| component | source | state | operations |
|---|---|---|---|
| Store | `db/schema.go`, the SQL in `relay/` | tables `mailboxes`, `mailbox_sides`, `messages`, `nameplates`, `nameplate_sides` | one statement at a time, no transactions |
| Application | `relay/application.go`, `relay/mailbox.go` | `Application{id, Mailboxes}`: a map shared by all copies; `Mailbox{id, appID, listeners}` | `FindNameplate`, `ClaimNameplate`, `AllocateNameplate`, `ReleaseNameplate`, `AddMailbox`, `OpenMailbox`, `Mailbox.Open/Close/Touch/AddMessage` |
| Client handlers | `relay/client.go`, `relay/service.go` | `Client{App, Side, Nameplate, Mailbox, listenerHandle, Allocated, Claimed, Released, Closed, Listening}`, `Service.Apps` | `HandleBind` ... `HandleClose`, `GetApp`, `Client.Close` |
| Mailbox hub | `relay/relay.go`, `relay/client.go`, `relay/websocket.go`, `relay/mailbox.go` | `Client.sendBuffer` (64), `Client.conn`, `Mailbox.listeners` under its mutex, the `register` and `unregister` channels | goroutines `watchReads`, `watchWrites`, `runRelay`; `broadcast`, `AddListener`, `RemoveListener` |
| Transit | `transit/` | `pending` by token under one mutex; `Client{conn, Buddy, Token, Side, GotToken, SentOK}` | `HandleConnection`, `handleData`, `processToken`, `connectWith`, `Close` |
| Cleaning | `relay/application.go:394-529`, `relay/service.go:73-204`, `relay/relay.go:103-174` | `lastCleaning` and the ticker | `Cleanup`, `GetAllApps`, `CleanApps`, `StillInUse`, the ticker of `runCleaning`, the command line's `CleanNowPure` |
| Database file | `db/database.go` | the file, the package variable `db` | `Initialize`, `Get`, `Close`, `CreateSchema`, `CheckMigration` |
| Lifecycle | `main.go`, `relay/relay.go:27-124`, `transit/transit.go` | the running servers, `sigChan` | the four commands, `initialize`, signal, `Shutdown` |
| Configuration, logging, index page, listing | `config/`, `log/`, `relay/index.go`, `HandleList` | none that changes | - |

### How they interact

* `handleWebsocket` makes a `Client`, sends it over the unbuffered channel
  `register` to `runRelay`, and starts `watchReads` and `watchWrites`. The reader
  runs one handler at a time. A reader that ends sends the client over
  `unregister`; `runRelay` then runs `Client.Close`.
* A handler calls the application, which calls the database and the maps.
  Handlers of different connections run at once. Nothing protects the maps
  `Service.Apps` and `Application.Mailboxes`; only a mailbox's listeners and the
  transit package's `pending` have a mutex.
* `AddMessage` inserts a row and then broadcasts: it calls every listener (a
  closure that sends into the listener's bounded `sendBuffer`) while it holds the
  mailbox's lock. `Client.Close` takes the same lock in `runRelay`, which serves
  all connections.
* `runCleaning` is one more goroutine of the relay. It takes no lock the handlers take,
  lists the mailboxes that are older than the tick before last and then deletes, in
  statements of their own, what it listed; it reads `Service.Apps` and
  `Application.Mailboxes` and deletes from the former.
* `main`'s goroutine opens the database, starts the servers and, on a signal, takes them down.
  It waits for the HTTP server, which has forgotten its websockets, and for no goroutine.
* In transit the goroutine of one connection reads and writes the `Client` of
  another (`connectWith`, the pipe, `Close`), with the mutex around `pending` only.

### What is hard

* *Interleaved statements.* Every check of the relay (is the name free, is the
  mailbox crowded, does the row exist) is a statement of its own, before or after
  the one that depends on it, with no transaction.
* *Partial failure.* Any of the statements of one command may fail, and the rows
  of the earlier ones stay.
* *Crashes.* The database survives and the maps do not; a panic in any goroutine
  takes the process down.
* *Bounded buffers under a lock.* A full `sendBuffer` holds a broadcaster, which
  holds the mailbox, which can hold `runRelay`.
* *Pointers set to nil elsewhere.* `Client.conn` and `Buddy.conn` are checked and
  used in separate steps.
* *Stale lists.* The cleaner deletes by a list that is several statements old, and from
  applications that handlers are bound to.
* *A file made in steps.* The database file, its tables and its version are written one
  after the other, and only the file's existence says whether they were.
* *SQL parameters.* go-sqlite3 binds `$1`, `$2` in the order they first occur in
  the statement, so a statement with `$2` first gets its arguments exchanged.

### What makes each component correct

| component | properties |
|---|---|
| Store + Application + handlers | never more than two sides in a mailbox; messages stay in their application and mailbox; a nameplate has its mailbox; what memory points to is stored; what was handed over is stored |
| Mailbox hub | every listener is handed the same messages in one order; leaving unregisters; no send on a closed channel; nobody waits forever |
| Transit | lines are piped only between peers with one token and different sides, in order; a connection takes its Buddy along; nobody waits forever for the lock |
| Cleaning | nothing of a mailbox younger than an interval is deleted; nothing older than the limit is left; no nameplate is left without its mailbox |
| Database file | a relay serves only from a complete file of a version it knows; a file once served from stays so |
| Lifecycle | nobody uses a handle or a listener that is gone before the shutdown; a signal ends the program |

The hazards, each at its line, are in `PROJECT.json`.

## 2. The modules

| module | models | extends / instances |
|---|---|---|
| `RelayStore` | the tables and how a statement sees them | - |
| `Application` | the application's methods, one action per statement or map access | `RelayStore` |
| `Rendezvous` | the client's handlers around them, departure, crash: the complete rendezvous specification | `Application`, instances `MailboxService` |
| `MCRendezvous` | symmetry sets for TLC | `Rendezvous` |
| `MailboxService` | abstract: what the relay promises its clients | - |
| `RendezvousProofs`, `CapacityProofs`, `ServiceProofs` | theorems about `Rendezvous`, each on top of the one before | `Rendezvous` |
| `Cleaning` | the cleaner beside all handlers, and the clock | `Rendezvous` |
| `MCCleaning` | symmetry and state constraints for TLC | `Cleaning` |
| `CleaningProofs`, `SweepProofs` | theorems about `Cleaning`: its tables and its clock; its memory and its types | `Cleaning` |
| `MailboxFeed` | abstract: what a mailbox promises its listeners | - |
| `MailboxHub` | the goroutines, the buffers and the lock around one mailbox | instances `MailboxFeed` |
| `HubProofs` | theorems about `MailboxHub` | `MailboxHub` |
| `TransitWire` | abstract: what the transit server promises its clients | - |
| `Transit` | the transit server | instances `TransitWire` |
| `TransitProofs` | theorems about `Transit` | `Transit` |
| `MCTransit` | symmetry and bounds for TLC | `Transit` |
| `Lifecycle` | the process from command line to exit, and the database file over many processes | - |
| `LifecycleProofs` | theorems about `Lifecycle` | `Lifecycle` |

### RelayStore, Application, Rendezvous

A table is a set of rows, and a statement is an operator on the tables. A row of a
table of sides names the connection that inserted it (`by`), because equal rows are
possible and `COUNT(*)` counts them all. The code opens no transaction, so one
statement is one step. Columns nothing reads are left out.

`frame[c]` holds the locals of the handler that connection `c` runs, with `pc` the
statement it is about to run; `sess[c]` is its `Client` object. A handler is a
first step in `Rendezvous` (the checks on the client's own fields: `HandleOpen`),
steps of `Application` (`AddMailboxCount`, `AddMailboxInsert`, `MapGet`, ...) and a last
step in `Rendezvous` (the fields it sets: `Opened`). Returning an error goes back
to `idle` from wherever the handler is. A statement in `FaultySteps` may fail at
any time, which takes the code's error path.

The two Go maps are read and written with no lock. A lookup and an insertion are
steps of their own, so two handlers may both miss and both insert. A map is named
by the connection that made it (`home`), and a `Mailbox` object by its id and its
maker, so the two objects that such a race leaves for one mailbox are told apart,
and so are their listeners. The Go runtime may also notice a concurrent map write and
abort: that is the action `Crash`, which may happen at any time.

`Crash` and `AllocatePanics` empty everything in memory, keep the tables and end the
connections. What they were bound to is kept for the properties.

Translated as the code is, not as it was meant: `Touched` touches no row,
`CloseSelect` finds no row and returns, `HandleClaim` claims under the nameplate's
name, `Opened` never sets `Listening`, and `Mailbox.Open` passes over a failing
`SELECT`.

Two histories, `granted` and `received`, exist for the properties only.

`MailboxService` is what all of this is to amount to, with no statement, map, object or
listener in it: clients are bound, mailboxes created, members admitted under at most two sides,
messages stored by members and delivered to members. `ServiceSpec` is that `Rendezvous` implements it, with
`sess[c].app` as the binding, the rows of `mailboxes` and `messages` as what is owned and stored, and
the two histories as who was admitted and handed what. `HandleBind` (or the `GetAppInsert` it leads to), `AddMailboxInsert`,
`OpenCount`, `AddInsert` and `AddBroadcast` are the steps that show; all others, crashes and failures too,
are stutters. `Create` says of a new mailbox only that its id is new, and `Admit` looks at the
mailbox's owner, so that a handler may only be let in where its own application's row is.

`ClaimsAgree` is about the nameplate's id, which a handler looks up in one statement and uses in later
ones, while others delete the row and insert one of the same name.

Abstractions: identifiers, sides and messages are members of small sets; a mailbox
id that `ClaimNameplate` generates is any id with no row; replies are left out (the
properties are about what is stored and what is handed to listeners); the reader's
wait for its buffers is left to `MailboxHub`.

### Cleaning

`CleaningNext` composes the handlers of `Rendezvous`, unchanged, with one more process.
`cleaner` holds the locals of `CleanApps` and of the `Cleanup` it runs, with `pc` the
statement it is about to run: three `SELECT`s for the applications, then for each that is
in memory the look at its Mailbox objects, the two lists (`old`, `names`), the deletes one
statement at a time, and `StillInUse`; at last the applications without rows are dropped.
A statement in `FaultyCleaning` may fail, which ends the sweep. The order of applications,
of Mailbox objects and of listed ids is the database's or the map's, so any.

`now` is the wall clock, in any unit; rows are compared by it. The ticker fires every
`CleaningInterval` and its channel holds one tick: one that finds it full is dropped.
`since`, the limit of a sweep, is the tick of the sweep before, and after a start an
interval before the start.

`Reboot` is the death of the process at the cleaner's steps named in `CrashSteps`: the
tables stay as they are in the middle of a sweep, and the clock goes on.

`lingering` are the connections whose handler was running when the clock last
moved; it moves again only once they are done. So a handler takes less than one
interval, which is minutes. Without this `NameplateHasMailbox` fails: a claim
that found its mailbox and took a whole interval to insert the nameplate would insert
it after the mailbox was swept.

### MailboxHub and MailboxFeed

`reader[c]` covers `handleWebsocket`, `watchReads` and the handlers, `writer[c]`
`watchWrites`, `relay` the loop of `runRelay`. Sending into a buffer is a step that is
enabled when there is room; sending into a closed one panics. `conn[c]` is open,
lost (reads and writes fail) or nil; the writer looks at it in one step and uses it in the next.
The mailbox's lock is a variable where it is held over several steps, by a
broadcaster; `AddListener` and `RemoveListener` hold it for one step and wait until
it is free. The number of items of a buffer matters and what they are does not.
The database is left out, and here it succeeds.

`MailboxFeed` says what a mailbox promises: a member is handed each message once,
in the one order in which they are published, from the moment it joins, and no message is
published before the last one reached every member. `MailboxHub` implements it with the
listeners of the mailbox as the members (`FeedSpec`), when nobody sends `close`. With
`close` a client can be registered twice and outlive its connection (see *Findings*).

### Transit

`pc[c]` is where the goroutine of a connection is, from `HandleConnection` down
to the steps of `connectWith` and `Close`. The fields of every `Client` are variables any goroutine may
read or write. The list `pending[token]` never has more than one entry, because every
processing of a token replaces or empties it, so it is one client or `None`. What
a peer sends is a number of lines; its first line asks for a token and a side, or for
nothing the server accepts. `ReadLine` may take any number of lines beyond the one
it returns out of the socket, and these are lost with their `bufio.Reader`. What is
lost may end in the middle of a line, so a later number stands for a line or for the end of one.

Every call of a method on a conn that another goroutine may have set to nil is a step of
its own, after the check: `Pipe` looks `Buddy.conn` up and `Write` writes to the socket it found;
`Close` checks, `Shut` closes, `Unset` sets the field to nil, and of two goroutines
that close one client both may get through, or one may panic. A write has no deadline, so with a
peer that stays and does not read it may take forever (`Writing`, see *Fairness*).

`TransitWire` says what clients get of this: a line is taken, and then dropped or written once, to
one client that is connected, that is not its sender, and that named the same token and another side. The goroutine that
has a line in its hands is the one in `handleData` (`Wire`, where `held` is `line`). Dropping is
always allowed, because the code does drop: the bad handshake, the impatient client, a bad pipeline,
a Buddy that left. `WireSpec` says more than `PipedInOrder`, which is about one receiver: however often a client's
Buddy is replaced, no line goes to the old one and to the new one.

### Lifecycle

`main` is what main's goroutine does next, from `initialize` to its return: the steps of
`db.Initialize` (`Stat`, `CreateFile`, `OpenFile`, `CreateSchema`, `InsertVersion`,
`CheckMigration`), `relay.Start`, `transit.Start`, the wait for a signal, and
`shutdown` in the order of the code. `there`, `schema` and `version` are the file: it survives
`Exit`, which ends a process by an error, a panic, a return or a crash at any step, and
the next `Start` finds it, of the same or another of the `Builds`. SQLite commits each statement of the schema
script by itself, so `schema` counts them, and a crash may come after any of them.

The other goroutines matter here by what they share with `main`: `worker[w]` checks
`db.Get()` and uses it a step later (a client's reader, or the cleaner, which runs even if
`ListenAndServe` failed), `acceptor` looks the transit listener up for each `Accept`.
`named` says whether the options name a database file: without one the relay runs with
`db` nil, and each method returns `ErrNotOpen`.

## 3. What is checked

Each run's instance is as small as its question allows; all bounds are named.

| run | instance | shows |
|---|---|---|
| `Messages` | 2 connections, 2 applications, 1 id that is an application id too, 5 failing statements | `TypeOK`, `HeldMailboxExists`, `DeliveredIsStored`, refinement `ServiceSpec` with stored and delivered messages |
| `Nameplates` | 2 connections, a side that is also a nameplate's name, at most 2 nameplate rows, a failing `INSERT` | `NameplateHasMailbox`, `ClaimsAgree`, `MailboxCapacity` over claims, and refinement `ServiceSpec` with a crowded mailbox |
| `Isolation` | 2 connections, 2 applications, 2 mailboxes, 2 failing statements | `DeliveryIsolation` over races on the maps, closing, reopening, old listeners |
| `MailboxHub` | 2 connections, buffers of 1, 2 messages from each | `TypeOK`, `CloseCleansUp`, `NoSendOnClosed`, refinement `FeedSpec`, liveness `ServedUnlessDeadFull` |
| `Transit` | 3 connections, 2 tokens, 2 sides, 3 lines | `TypeOK`, `PipedByToken`, `PipedInOrder`, `BuddyGoesToo`, refinement `WireSpec` |
| `TransitLeave` | 3 connections, 1 token, 2 lines from one of them, fair goroutines | liveness `LeaverIsReleased`: who leaves is closed in the end, with its Buddy; `TokenIsProcessed`: the lock is free again in the end |
| `Cleaning` | 2 connections, 1 mailbox, 2 sweeps, 3 failing deletes, restarts in a sweep | `CleaningTypeOK`, `NameplateHasMailbox`, `CleanupIsComplete`, action property `KeepsRecent` |
| `Lifecycle` | 2 builds, 2 goroutines of the relay, 3 statements of schema | `TypeOK`, `ServesKnownSchema`, `ServedFileLasts`, action property `PanicsOnlyInShutdown`, liveness `SignalEndsIt` |

The other four runs end in a counterexample; see *Findings*.

Why the bounds are enough:

* *Connections.* The races on maps and on nameplates are between two; two
  connections with three stored sides (a claim stores a name for a side) can overfill a
  mailbox, whose count is compared with 2. The theorems then lift the bound.
* *The mailbox id `a1`, equal to an application id.* The exchanged parameters
  of `CloseSelect` would only ever find a row if the two sets of ids meet.
* *The side `n1`, equal to a name.* The only case in which a release finds what a claim inserted.
* *`MaxNameplates`* bounds rows ever inserted into `nameplates`; two are the least with
  two nameplates of one name.
* *`Cap` = 1* for 64: a buffer is full after one item, so every sender waits for
  every writer at some time. Nothing in the code depends on the number.
* *`MaxReads` = 2*: open, then add. A client is called by its own broadcast and by the other's.
* *`MaxLines` = 3, two tokens, two sides* (`Transit`): a handshake and two lines after it, the least
  with an order. With two tokens a pair could be piped to a third client of the other token; with two sides
  and none, every way in which sides pair or do not occurs.
* *`FewLines`* (`MCTransit`) is a state constraint. While no peer has left unnoticed, one of them sends all its
  lines, or they send four in all; while one has, they send three in all, and no second one leaves. Four are three handshakes and a line of
  whichever client, so every order of pairing and of taking over is there with a line piped meanwhile; three are
  three handshakes, or two and a line that is piped to who leaves, or by who does. Two goroutines may be in `Close` at
  once, as who is closed by its Buddy's goroutine runs its own. The theorems lift the bound.
* *`LeaveSpec`* bounds what the peers may do in `TransitLeave`, where a state constraint
  would cut behaviours short: all name the token, and one of them, `Talker`, may send a line after it. No fairness is assumed of a
  peer, so one that sends no more is a behaviour of `FairSpec` too, and the liveness found is that of
  these behaviours. The clients are alike, so it does not matter which of them it is.
* *`CleaningInterval` = 2, `MaxNow` = 4.* With 2 there is a time between a tick and the
  next, and a handler may be over the clock's move (`lingering`); within 4 come the first sweep, which
  finds nothing old, and one that does.
* *`ClaimsOrOpens`, `AddsOnce`, `FirstSweepAlone`* (`MCCleaning`) are state constraints: a client
  that claims a nameplate opens no mailbox besides the claim's, a message is not added while it is
  stored, and no handler runs beside the sweep whose limit is before the run began.
* *`CrashSteps`* are the two points of a sweep at which the tables are least
  consistent, a nameplate without its sides and a mailbox without its rows; `FaultyCleaning` are
  one delete of each kind.
* *`SchemaStatements` = 3*: a first, a middle and a last one. Two builds are the least with
  one newer than the other; two workers have the cleaner and a client.
* *`CHECK_DEADLOCK FALSE`* but in `Lifecycle`, where the program can always be started
  again: clients may stop sending, and
  a process that died takes no step. That nobody waits who should not is stated as
  a property (`ServedUnlessDeadFull`) instead.

`HeldMailboxExists` and `DeliveredIsStored` are about handlers and crashes: in `Cleaning` they do not hold, as a
sweep may remove what a client holds and the messages it was handed (`SweptWhileListening`), so read them as holding from one
sweep to the next. `NameplateHasMailbox` is checked with the cleaner too.

### Fairness

`MailboxHub` states weak fairness of each reader, of each writer and of
`runRelay`, which is what the Go scheduler gives a goroutine that stays able to run.
Nothing is assumed of peers (`Lose`, `Read`), nor strong fairness of a lock or of a
channel. The choice of a `select` is left open, as in Go. `ServedUnlessDeadFull` has as its premise that the
process lives and that no buffer is full whose writer has ended; the run `StuckRelay` shows what
happens without the second half. The step `Tick` ends the writer of a lost
connection even if nothing is ever sent to it again; without it, a client lost in
silence would keep its writer, as in the code until the ping timer.

`Transit` states weak fairness of each connection's goroutine but for what it needs a
peer for. `ServerStep` is without `ReadLine`, and `Cut` is the peer's. A write to a socket that is open
(`Writing`: a line to the Buddy, an "ok", "impatient") is not fair either, because it has no deadline and a peer that
does not read holds it up; a write to a socket that was cut or closed fails, and is fair.
`LeaverIsReleased` has one exception, that the leaver's goroutine hangs in such a write of a line forever, and
`TokenIsProcessed` one, that who holds the lock hangs in the write of an "ok" forever. The mutex needs no
strong fairness: each client waits for it once, so nobody can be passed over without end.

`Lifecycle` states weak fairness of main's goroutine, between start and signal and after it. Nobody
has to start the program, to send a signal, or to make any other goroutine run.

`Rendezvous` and `Cleaning` are safety only. The clock of `Cleaning` is bounded, so "what is old goes in the
end" is stated as `CleanupIsComplete` of each sweep instead.

## 4. What is proved

TLAPS checks, for every value of the constants that the named assumptions allow:

| theorem | statement |
|---|---|
| `TypeCorrect` | `Spec => []TypeOK` |
| `Isolation` | `Spec => []DeliveryIsolation` |
| `NameplateIntegrity` | `Spec => []NameplateHasMailbox` |
| `HeldIntegrity` | `Spec => []HeldMailboxExists` |
| `StoredBeforeDelivered` | `Spec => []DeliveredIsStored` |
| `Capacity` | `Spec => []MailboxCapacity`, if `"mbs_select" \notin FaultySteps` |
| `Agreement` | `Spec => []ClaimsAgree` |
| `RelayImplementsService` | `Spec => ServiceSpec`, if `"mbs_select" \notin FaultySteps` |
| `TransitTypeCorrect` | `Spec => []TypeOK` of `Transit` |
| `PipeIsolation` | `Spec => []PipedByToken` |
| `PipeOrder` | `Spec => []PipedInOrder` |
| `BuddyIsClosed` | `Spec => []BuddyGoesToo` |
| `TransitImplementsWire` | `Spec => WireSpec` |
| `TypeCorrect` of `HubProofs` | `Spec => []TypeOK` of `MailboxHub` |
| `CleanedUp` | `Spec => []CloseCleansUp`, if `"close" \notin Sent` |
| `NeverSendsOnClosed` | `Spec => []NoSendOnClosed`, if `"close" \notin Sent` |
| `HubImplementsFeed` | `Spec => FeedSpec`, if `"close" \notin Sent` |
| `RecentIsKept` | `CleaningSpec => KeepsRecent` |
| `SweepIsComplete` | `CleaningSpec => []CleanupIsComplete` |
| `SweptNameplateIntegrity` | `CleaningSpec => []NameplateHasMailbox`, if `CleaningInterval >= 2` |
| `SweepTypes` | `CleaningSpec => [](TypeOK /\ CleaningTypeOK)` |
| `SweptIsolation` | `CleaningSpec => []DeliveryIsolation` |
| `TypeCorrect` of `LifecycleProofs` | `Spec => []TypeOK` of `Lifecycle` |
| `KnownSchema` | `Spec => []ServesKnownSchema` |
| `FileLasts` | `Spec => []ServedFileLasts` |
| `NoEarlyPanic` | `Spec => PanicsOnlyInShutdown` |

The assumptions are the ones in the modules: `Conns` is finite, `None` is nothing
else, mailbox ids are not numbers, and which names and which statements the constants may name. No
bound on connections, messages or applications is used, and every statement may fail at any time, but for
the one that `Capacity` and `RelayImplementsService` name.

The first five rest on one inductive invariant, `IInv` of `RendezvousProofs`. The
properties are not inductive by themselves: what a client holds was in the frame of a
handler before, and what a listener is handed was. `IInv` follows an id along that
way. From the step at which `AddMailbox` has found or inserted the row, the frame's
mailbox has a row in `mailboxes` under the frame's application (`FrameOpen`); so
has what a client holds (`SessInv`), what a listener listens to (`ListenersInv`) and
what a running `add` or `close` works on (`FrameHeld`). Every listener, and every frame
about to become one, has its entry in `granted`. A frame that is about to broadcast has
its row in `messages`. An id belongs to one row only (`TablesInv`), so two
applications never share one; that is what makes isolation hold over racing maps.
Handlers never delete from `mailboxes` and `messages`, which keeps all of this true
under the steps of others. A step of the proof for each action shows that it
preserves the parts it can disturb, and `Invariance` puts them together.

`Capacity` adds the argument the code relies on without saying so: `Mailbox.Open`
inserts its row before `OpenMailbox` counts, and no handler deletes one. `GrantedInv`
says that every side ever let in, and every side about to be counted, has a row in
`mailbox_sides`. A handler that counts two rows or less has therefore counted all the
sides that were let in before, and its own, so there are at most two of them. The step
from three different rows to a cardinality over 2 is the lemma `ThreeRows`. The
assumption is necessary: with a failing `SELECT` in `Mailbox.Open` (mailbox.go:97) a
side is let in with no row.

`Agreement` rests on `NameplateInv` of the same module. The ids of `nameplates` are handed out once
(`AUTOINCREMENT`), so no row and no handler has one above `npSeq`; a handler that has not yet looked a nameplate
up has none. `ClaimInsertNameplate` then gives out an id that nobody else can hold, and a deleted
row takes its id along.

`RelayImplementsService` puts the two invariants to the use they are for. A step's effect on the tables and
histories is one of the service's; its guard is not in the code, which never asks again whose a mailbox is
before it lets a client in, or whether who adds a message was let in. `FrameOpen` gives `Admit` the row of
the handler's application, `GrantedInv` the two sides, `FrameHeld` gives `Store` its row
and `Deliver` its message and members; `MemberInv` of `ServiceProofs` adds that whoever holds a mailbox, or runs an
`add`, was let into it.

The transit theorems rest on `TInv` and `BuddyInv` of `TransitProofs`. A `Buddy` may be
replaced at any time, so nothing can be said of the pairs of one moment; `TokenInv`
says that all that were ever connected are mates: one token, and different sides if
both name one; and so is the client whose conn a goroutine has looked up, whatever its Buddy is by then. `LineInv` says that a line is read once and is newer than everything piped
before, and that a client with a token has its handshake behind it. `BuddyInv` is about the
race between `Close` and `connectWith`: a client that is through with closing itself
has chosen the Buddy it closes, and one that is connected with it later finds its
conn nil and panics while it still holds the lock, before it sets `SentOK`. So where
the lock is free, the Buddy of a client that is gone is the one it closed. For `TransitImplementsWire`,
`TokenInv` and `LineInv` give each `Write` its guard but for the sender itself. That a client without a side is
not matched with itself is `SelfInv`: it waits only after it has looked, and looks only once, because
`handleData` sets `GotToken` before it.

The hub theorems rest on `HInv` of `HubProofs`, and the argument is the lock's: a
listener is registered and removed only where no broadcast is running, so the set
that a broadcast has still to call shrinks by its own calls and by nothing else. A client
is closed by `runRelay` in the order remove, close buffer, drop connection; so who is
registered, and even more who is still to be called, has an open buffer. Each step of the goroutines then
maps to `Join`, `Leave`, `Publish` or `Deliver` of `MailboxFeed`, or to a stutter. With `close` among
what clients send this breaks at the first step: `HandleClose` forgets the mailbox
and leaves the listener.

The cleaning theorems rest on `CInv` and `LinkInv` of `CleaningProofs`, which TLC also
finds true of the instance of `Cleaning.cfg`. The argument is about time, not about
locks, as the cleaner takes none. `ClockInv` says that the ticks the cleaner takes are an interval
apart, also when one was dropped or the process came back; so at every statement
of a sweep its limit is an interval in the past. `SweepInv` says what the two
lists mean while handlers run beside them: a handler only inserts mailboxes of the present
moment, under an id that has no row, and nameplates with an id above all others
(`HandlerEffect`), so a listed mailbox is an old one until it is deleted, a listed
nameplate is one of a listed mailbox, and no old one is missing from the list. `Touch`, which would
make a listed mailbox young again, changes no row. That a claim does not add a nameplate for a listed mailbox
is not a matter of statements but of a handler's length: `Young` says that the mailbox
`ClaimNameplate` has found or inserted is as young as its call but for one move of the
clock, so with two units to the interval it is on no list (`YoungIsNotOld`).

`SweepTypes` and `SweptIsolation` could not use any of `IInv`: it tells a mailbox's application by its row, and
a sweep deletes rows, after which another application may insert one with the same id. `MInv` of
`SweepProofs` tells it by the Mailbox object instead: whoever refers to an object, a map, a handler, a client or a
listener, is of the application its maker was bound to, and bindings never change. So deleted
rows and dropped applications (`DropApp`) change nothing about who hears whom; `KInv` adds the types of
the cleaner's own locals.

The lifecycle theorems are about main's goroutine alone. `schema` and `version` are
written only on the way from `create` to `row`, that way is taken only if the file was
not there, and it is finished in the order tables, version (`NewFile`, `RowComesLast`); so
a file with a version is complete, and one that was served from is never made again.
`Lent` is about the others: who has checked the handle, or waits in `Accept`, began after
it was set, and only the shutdown takes it away.

What stays with TLC: liveness (`ServedUnlessDeadFull`, `LeaverIsReleased`, `TokenIsProcessed`, `SignalEndsIt`), which is
beyond the prover. Every other property of a passing run is the statement of a theorem.

## 5. Findings

Four runs check one sentence of a comment each, and TLC finds a behaviour of the code
that contradicts it.

| run | the comment | what happens |
|---|---|---|
| `SplitMailbox` | adding triggers "broadcasts for any listners" (client.go:461-463) | two openers make an object each, and never hear each other |
| `StuckRelay` | "so it doesn't block the actual relay server" (relay.go:84-85) | a full buffer with no writer holds a broadcaster, its lock, and `runRelay` forever |
| `SweptWhileListening` | "Touch boxes if someone is listening" (application.go:400) | `Touch` changes no row (mailbox.go:85), so the sweep removes the mailbox under its listeners |
| `TransitLeftover` | Close "frees any resources" (transit/client.go:38-39) | a client that left while it waited is still matched with the next, and its nil conn panics |

`PROJECT.json` lists those that were met while translating and that the models
contain, among them: the SQL parameters of `Touch` and `Mailbox.Close`; the claim under
the nameplate's name, which refuses the second claimant, and the release under another
side; two clients that allocate the same nameplate; the listener that a `close` command leaves
behind; the negative argument of `rand.Intn`; the nil connection in `watchWrites`; messages that
nobody reads back; ids unique over all applications; the reader made anew for every line; the
client that waits after it was matched; applications dropped under their clients; a
`clean` command that cleans nothing; a file that a crash leaves without its version; a shutdown
that panics in a goroutine it did not wait for.

## 6. Not modelled

* *Listing*: `HandleList` only reads. *Ping* changes nothing.
* *Configuration*: options are loaded, merged and checked once, by functions without state
  that have unit tests. `Lifecycle` sees that this fails, or that a file is named or not. *Logging,
  index page*: no state that other parts change.
* `Free`, `FreeMailbox`, `Mailbox.Delete`, `RemoveAllListeners`, `GetMessages`:
  nothing reachable calls them.
* Two processes on one database file, and a `Stat` that fails although the file is there
  (`Initialize` would then empty it).
* Handlers that take as long as a cleaning interval (`lingering`), and clock changes
  other than forward.
* A client that opens a mailbox by an id that is the text of a Unix time (client.go:443 takes any): only then could
  the exchanged parameters of `Touch` find a row (`StoreAssumption`). Generated ids are not numbers.
* A transit peer that closes one direction of its connection only.
* The text of messages, tokens and SQL, JSON, the websocket handshake.

## 7. Plan

Done, in this order, the most important behaviour first: `RelayStore`,
`Application`, `Rendezvous` with its proofs; `MailboxHub` over `MailboxFeed` with its
proofs; `Transit` with its proofs and its liveness; `Cleaning` over `Rendezvous`, and its proofs; `Lifecycle` with the
database file, and its proofs.

The abstract specifications `MailboxService` and `TransitWire` came last, with the proofs that the
handlers and the goroutines implement them, and the theorems about the memory under sweeps (`SweepProofs`).

Left: what of `MailboxService` still holds under sweeps, where mailboxes are forgotten and ids come back.
