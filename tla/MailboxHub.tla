----------------------------- MODULE MailboxHub -----------------------------
(***************************************************************************)
(* The goroutines around one Mailbox object and the channels between them: *)
(* handleWebsocket, watchReads and watchWrites of each client, runRelay,   *)
(* Mailbox.broadcast under the mailbox's lock, and the send buffer, whose  *)
(* senders wait while it is full and panic once it is closed.              *)
(*                                                                         *)
(* The database is left out: what a handler does there is in module        *)
(* Application, and here it succeeds.  A message is the number of its      *)
(* broadcast; of a buffer only the number of its items matters.            *)
(***************************************************************************)
EXTENDS Naturals, Sequences, FiniteSets

CONSTANTS
  Conns,     \* websocket connections
  Cap,       \* the capacity of sendBuffer, 64 in the code
  Sent,      \* commands clients send, besides those only answered
  MaxReads,  \* a bound on the messages read from each client
  NoConn

ASSUME HubAssumption ==
  /\ Cap \in Nat \ {0}
  /\ MaxReads \in Nat
  /\ Sent \subseteq {"open", "add", "close"}
  /\ NoConn \notin Conns

VARIABLES
  reader,     \* where handleWebsocket, then watchReads, of a client is
  todo,       \* the listeners its broadcast has still to call
  callee,     \* the listener it is calling
  writer,     \* where watchWrites of a client is
  buffer,     \* the number of items in sendBuffer
  shut,       \* the clients whose sendBuffer is closed
  conn,       \* Client.conn: "open", "lost" (reads and writes fail) or "nil"
  box,        \* Client.Mailbox is not nil
  closed,     \* Client.Closed
  handle,     \* Client.listenerHandle
  lock,       \* who holds the mailbox's lock across steps: a broadcaster
  listeners,  \* the mailbox's listeners: [conn, handle]
  nextID,     \* its listenerID
  relay,      \* runRelay: [pc, client]
  died,       \* "no", or the panic that took the process down: a "send" on
              \* a closed channel, a method of a "nil" connection
  reads,      \* the messages read from each client so far
  published,  \* history: the number of broadcasts begun
  since,      \* history: `published` when a client's listener was added
  heard       \* history: the broadcasts put into a client's buffer

client == <<box, closed, handle>>
mailbox == <<lock, listeners, nextID>>
history == <<published, since, heard>>
vars == <<reader, todo, callee, writer, buffer, shut, conn, client,
          mailbox, relay, died, reads, history>>

Listener == [conn : Conns, handle : Nat]

TypeOK ==
  /\ reader \in [Conns -> {"register", "read", "ack", "open", "lock", "next",
                           "call", "reply", "unregister", "done"}]
  /\ todo \in [Conns -> SUBSET Listener]
  /\ callee \in [Conns -> Conns \cup {NoConn}]
  /\ writer \in [Conns -> {"off", "select", "write", "goodbye", "hangup", "gone"}]
  /\ buffer \in [Conns -> 0..Cap]
  /\ shut \subseteq Conns
  /\ conn \in [Conns -> {"open", "lost", "nil"}]
  /\ box \in [Conns -> BOOLEAN]
  /\ closed \in [Conns -> BOOLEAN]
  /\ handle \in [Conns -> Nat]
  /\ lock \in Conns \cup {NoConn}
  /\ listeners \subseteq Listener
  /\ nextID \in Nat
  /\ relay \in [pc : {"select", "welcome", "remove", "closechan", "closeconn"},
                client : Conns \cup {NoConn}]
  /\ died \in {"no", "send", "nil"}
  /\ reads \in [Conns -> 0..MaxReads]
  /\ published \in Nat
  /\ since \in [Conns -> Nat]
  /\ heard \in [Conns -> Seq(Nat)]

Selecting == [pc |-> "select", client |-> NoConn]

Init ==
  /\ reader = [c \in Conns |-> "register"]
  /\ todo = [c \in Conns |-> {}]
  /\ callee = [c \in Conns |-> NoConn]
  /\ writer = [c \in Conns |-> "off"]
  /\ buffer = [c \in Conns |-> 0]
  /\ shut = {}
  /\ conn = [c \in Conns |-> "open"]
  /\ box = [c \in Conns |-> FALSE]
  /\ closed = [c \in Conns |-> FALSE]
  /\ handle = [c \in Conns |-> 0]
  /\ lock = NoConn
  /\ listeners = {}
  /\ nextID = 1
  /\ relay = Selecting
  /\ died = "no"
  /\ reads = [c \in Conns |-> 0]
  /\ published = 0
  /\ since = [c \in Conns |-> 0]
  /\ heard = [c \in Conns |-> <<>>]

-----------------------------------------------------------------------------
(* Channels and pcs. *)

Alive == died = "no"

At(c, pc) == reader[c] = pc /\ Alive

Goto(c, pc) == reader' = [reader EXCEPT ![c] = pc]

\* Mutant of Put: a send to a full buffer does not wait.
PutAnyway(c) == buffer' = [buffer EXCEPT ![c] = @ + 1]

\* c.sendBuffer <- item: waits for room.
Put(c) ==
  /\ buffer[c] < Cap
  /\ buffer' = [buffer EXCEPT ![c] = @ + 1]

-----------------------------------------------------------------------------
(* The peer, and the reader's goroutine. *)

\* The peer goes away, or takes nothing for so long that a write times out.
Lose(c) ==
  /\ reader[c] # "register" /\ Alive
  /\ conn[c] = "open"
  /\ conn' = [conn EXCEPT ![c] = "lost"]
  /\ UNCHANGED <<reader, todo, callee, writer, buffer, shut, client,
                 mailbox, relay, died, reads, history>>

\* A lost connection may still have messages that arrived before.  One that
\* cannot be parsed is answered with an error and no Ack.
Read(c) ==
  /\ At(c, "read")
  /\ reads[c] < MaxReads
  /\ reads' = [reads EXCEPT ![c] = @ + 1]
  /\ Goto(c, "ack") \/ Goto(c, "reply")
  /\ UNCHANGED <<todo, callee, writer, buffer, shut, conn, client, mailbox,
                 relay, died, history>>

ReadFails(c) ==
  /\ At(c, "read") /\ conn[c] = "lost"
  /\ Goto(c, "unregister")
  /\ UNCHANGED <<todo, callee, writer, buffer, shut, conn, client,
                 mailbox, relay, died, reads, history>>

\* OnMessage: the Ack, then what the message is and whether its handler,
\* by the client's fields, refuses it.  A bind is answered with the Ack alone.
Ack(c) ==
  /\ At(c, "ack")
  /\ Put(c)
  /\ \/ /\ "open" \in Sent /\ ~box[c]
        /\ Goto(c, "open")
        /\ UNCHANGED <<box, closed>>
     \/ /\ "add" \in Sent /\ box[c]
        /\ Goto(c, "lock")
        /\ UNCHANGED <<box, closed>>
     \/ /\ "close" \in Sent /\ ~closed[c]
        /\ Goto(c, "reply")
        /\ box' = [box EXCEPT ![c] = FALSE]
        /\ closed' = [closed EXCEPT ![c] = TRUE]
     \/ /\ Goto(c, "reply") \/ Goto(c, "read")
        /\ UNCHANGED <<box, closed>>
  /\ UNCHANGED <<todo, callee, writer, shut, conn, handle, mailbox, relay,
                 died, reads, history>>

\* An answer or an error.
Reply(c) ==
  /\ At(c, "reply")
  /\ Put(c)
  /\ Goto(c, "read")
  /\ UNCHANGED <<todo, callee, writer, shut, conn, client, mailbox,
                 relay, died, reads, history>>

AddListener(c) ==
  /\ At(c, "open")
  /\ lock = NoConn
  /\ listeners' = listeners \cup {[conn |-> c, handle |-> nextID]}
  /\ nextID' = nextID + 1
  /\ handle' = [handle EXCEPT ![c] = nextID]
  /\ box' = [box EXCEPT ![c] = TRUE]
  /\ since' = [since EXCEPT ![c] = published]
  /\ Goto(c, "read")
  /\ UNCHANGED <<todo, callee, writer, buffer, shut, conn, closed, lock,
                 relay, died, reads, published, heard>>

-----------------------------------------------------------------------------
(* Mailbox.broadcast, in the adding client's reader. *)

\* Mutant of Broadcast: it calls the listeners without the lock.
BroadcastUnlocked(c) ==
  /\ At(c, "lock")
  /\ todo' = [todo EXCEPT ![c] = listeners]
  /\ published' = published + 1
  /\ Goto(c, "next")
  /\ UNCHANGED <<callee, writer, buffer, shut, conn, client, mailbox, relay,
                 died, reads, since, heard>>

Broadcast(c) ==
  /\ At(c, "lock")
  /\ lock = NoConn
  /\ lock' = c
  /\ todo' = [todo EXCEPT ![c] = listeners]
  /\ published' = published + 1
  /\ Goto(c, "next")
  /\ UNCHANGED <<callee, writer, buffer, shut, conn, client, listeners,
                 nextID, relay, died, reads, since, heard>>

\* mailboxMessage: `if c.conn == nil` is a step before the send.
NextListener(c) ==
  /\ At(c, "next")
  /\ \E l \in todo[c] :
       /\ todo' = [todo EXCEPT ![c] = @ \ {l}]
       /\ IF conn[l.conn] = "nil"
            THEN UNCHANGED <<reader, callee>>
            ELSE /\ callee' = [callee EXCEPT ![c] = l.conn]
                 /\ Goto(c, "call")
  /\ UNCHANGED <<writer, buffer, shut, conn, client, mailbox, relay,
                 died, reads, history>>

CallListener(c) ==
  LET d == callee[c] IN
  /\ At(c, "call")
  /\ IF d \in shut
       THEN /\ died' = "send"
            /\ UNCHANGED <<reader, callee, buffer, heard>>
       ELSE /\ Put(d)
            /\ heard' = [heard EXCEPT ![d] = Append(@, published)]
            /\ callee' = [callee EXCEPT ![c] = NoConn]
            /\ Goto(c, "next")
            /\ UNCHANGED died
  /\ UNCHANGED <<todo, writer, shut, conn, client, mailbox, relay, reads,
                 published, since>>

\* Mutant of Unlock: the lock is kept.
UnlockForgotten(c) ==
  /\ At(c, "next") /\ todo[c] = {}
  /\ Goto(c, "read")
  /\ UNCHANGED <<todo, callee, writer, buffer, shut, conn, client, mailbox,
                 relay, died, reads, history>>

Unlock(c) ==
  /\ At(c, "next") /\ todo[c] = {}
  /\ lock' = NoConn
  /\ Goto(c, "read")
  /\ UNCHANGED <<todo, callee, writer, buffer, shut, conn, client,
                 listeners, nextID, relay, died, reads, history>>

-----------------------------------------------------------------------------
(* watchWrites.  It looks whether c.conn is nil, and uses it a step later. *)

Writing(c, pc) == writer[c] = pc /\ Alive

WriterGoto(c, pc) == writer' = [writer EXCEPT ![c] = pc]

\* Returning, its deferred function looks again.
Return(c) == WriterGoto(c, IF conn[c] = "nil" THEN "gone" ELSE "hangup")

\* <-sendBuffer: an item, or that the channel is closed and empty.
Take(c) ==
  /\ Writing(c, "select")
  /\ \/ /\ buffer[c] > 0
        /\ buffer' = [buffer EXCEPT ![c] = @ - 1]
        /\ WriterGoto(c, IF conn[c] = "nil" THEN "gone" ELSE "write")
     \/ /\ buffer[c] = 0 /\ c \in shut
        /\ WriterGoto(c, IF conn[c] = "nil" THEN "gone" ELSE "goodbye")
        /\ UNCHANGED buffer
  /\ UNCHANGED <<reader, todo, callee, shut, conn, client, mailbox,
                 relay, died, reads, history>>

\* A write that fails ends the writer; the close message always does.
Write(c) ==
  /\ \/ Writing(c, "write")
     \/ Writing(c, "goodbye")
  /\ CASE conn[c] = "nil" -> died' = "nil" /\ UNCHANGED writer
       [] conn[c] = "lost" \/ writer[c] = "goodbye" -> Return(c) /\ UNCHANGED died
       [] OTHER -> WriterGoto(c, "select") /\ UNCHANGED died
  /\ UNCHANGED <<reader, todo, callee, buffer, shut, conn, client,
                 mailbox, relay, reads, history>>

\* <-ticker.C, with no look at c.conn: a ping written changes nothing.
Tick(c) ==
  /\ Writing(c, "select")
  /\ \/ conn[c] = "lost" /\ Return(c) /\ UNCHANGED died
     \/ conn[c] = "nil" /\ died' = "nil" /\ UNCHANGED writer
  /\ UNCHANGED <<reader, todo, callee, buffer, shut, conn, client,
                 mailbox, relay, reads, history>>

\* The deferred c.conn.Close(), after which the reader reads no more.
HangUp(c) ==
  /\ Writing(c, "hangup")
  /\ IF conn[c] = "nil"
       THEN died' = "nil" /\ UNCHANGED <<writer, conn>>
       ELSE /\ WriterGoto(c, "gone")
            /\ conn' = [conn EXCEPT ![c] = "lost"]
            /\ UNCHANGED died
  /\ UNCHANGED <<reader, todo, callee, buffer, shut, client, mailbox,
                 relay, reads, history>>

-----------------------------------------------------------------------------
(* runRelay. *)

Running(pc) == relay.pc = pc /\ Alive

\* <-register, which also lets handleWebsocket start the two watchers.
Register(c) ==
  /\ Running("select") /\ reader[c] = "register"
  /\ relay' = [pc |-> "welcome", client |-> c]
  /\ Goto(c, "read")
  /\ writer' = [writer EXCEPT ![c] = "select"]
  /\ UNCHANGED <<todo, callee, buffer, shut, conn, client, mailbox,
                 died, reads, history>>

OnConnect ==
  /\ Running("welcome")
  /\ Put(relay.client)
  /\ relay' = Selecting
  /\ UNCHANGED <<reader, todo, callee, writer, shut, conn, client,
                 mailbox, died, reads, history>>

\* <-unregister, the last thing a reader does.
Unregister(c) ==
  /\ Running("select") /\ reader[c] = "unregister"
  /\ relay' = [pc |-> "remove", client |-> c]
  /\ Goto(c, "done")
  /\ UNCHANGED <<todo, callee, writer, buffer, shut, conn, client,
                 mailbox, died, reads, history>>

\* Mutant of RemoveListener: only with Client.Listening, which is never set.
RemoveListenerIfListening ==
  /\ Running("remove")
  /\ relay' = [relay EXCEPT !.pc = "closechan"]
  /\ UNCHANGED <<reader, todo, callee, writer, buffer, shut, conn, client,
                 mailbox, died, reads, history>>

\* Mutant of RemoveListener: it does not take the mailbox's lock.
RemoveListenerUnlocked ==
  LET c == relay.client IN
  /\ Running("remove")
  /\ listeners' = IF box[c] THEN listeners \ {[conn |-> c, handle |-> handle[c]]}
                            ELSE listeners
  /\ relay' = [relay EXCEPT !.pc = "closechan"]
  /\ UNCHANGED <<reader, todo, callee, writer, buffer, shut, conn, client,
                 lock, nextID, died, reads, history>>

\* Client.Close, in three steps.
RemoveListener ==
  LET c == relay.client IN
  /\ Running("remove")
  /\ IF box[c] /\ handle[c] > 0
       THEN /\ lock = NoConn
            /\ listeners' = listeners \ {[conn |-> c, handle |-> handle[c]]}
       ELSE UNCHANGED listeners
  /\ relay' = [relay EXCEPT !.pc = "closechan"]
  /\ UNCHANGED <<reader, todo, callee, writer, buffer, shut, conn,
                 client, lock, nextID, died, reads, history>>

CloseChannel ==
  /\ Running("closechan")
  /\ shut' = shut \cup {relay.client}
  /\ relay' = [relay EXCEPT !.pc = "closeconn"]
  /\ UNCHANGED <<reader, todo, callee, writer, buffer, conn, client,
                 mailbox, died, reads, history>>

CloseConn ==
  /\ Running("closeconn")
  /\ conn' = [conn EXCEPT ![relay.client] = "nil"]
  /\ relay' = Selecting
  /\ UNCHANGED <<reader, todo, callee, writer, buffer, shut, client,
                 mailbox, died, reads, history>>

-----------------------------------------------------------------------------

Peer(c) == Lose(c) \/ Read(c)

Reader(c) ==
  \/ ReadFails(c)
  \/ Ack(c)
  \/ Reply(c)
  \/ AddListener(c)
  \/ Broadcast(c)
  \/ NextListener(c)
  \/ CallListener(c)
  \/ Unlock(c)

Writer(c) == Take(c) \/ Write(c) \/ Tick(c) \/ HangUp(c)

Relay ==
  \/ \E c \in Conns : Register(c) \/ Unregister(c)
  \/ OnConnect
  \/ RemoveListener
  \/ CloseChannel
  \/ CloseConn

Next ==
  \/ \E c \in Conns : Peer(c) \/ Reader(c) \/ Writer(c)
  \/ Relay

\* The Go scheduler lets every goroutine that can run, run.  Peers owe nothing.
Fairness ==
  /\ \A c \in Conns : WF_vars(Reader(c)) /\ WF_vars(Writer(c))
  /\ WF_vars(Relay)

Spec == Init /\ [][Next]_vars /\ Fairness

-----------------------------------------------------------------------------
(* Properties. *)

\* Mailbox.broadcast hands every listener the same messages in the same
\* order: with no one closing a mailbox, the hub is a MailboxFeed.
Feed == INSTANCE MailboxFeed WITH
          Listeners <- Conns,
          members <- {l.conn : l \in listeners},
          from <- since,
          got <- heard

FeedSpec == Feed!Spec

\* Client.Close "cleans up resources it had bound" (client.go:44-45): when it
\* is through, no mailbox calls the client any more.
CloseCleansUp ==
  \A l \in listeners : conn[l.conn] # "nil"

\* A broadcast that is under way while a client leaves never sends on the
\* client's closed channel, which would take the whole process down.
NoSendOnClosed == died # "send"

\* A full buffer that nothing empties: its writer ended on an error.
DeadFull(c) ==
  writer[c] \in {"hangup", "gone"} /\ buffer[c] = Cap /\ c \notin shut

\* Nothing waits forever: a reader comes back to waiting for its peer, or
\* ends, and runRelay comes back to its select.
Served ==
  /\ \A c \in Conns : []<>(reader[c] \in {"read", "done"})
  /\ []<>(relay.pc = "select")

\* Buffers fill up and readers wait for them, runRelay waits for the
\* broadcasters' lock, and nobody waits forever, unless the buffer of a
\* client whose writer is gone fills up (or the process dies).
ServedUnlessDeadFull ==
  [](Alive /\ \A c \in Conns : ~DeadFull(c)) => Served

-----------------------------------------------------------------------------
(* What comments in the code say, and the code does not do. *)

\* "Handle all the incoming/outgoing connections that get passed in from
\* websocket. So we run this async so it doesn't block the actual relay
\* server" (relay.go:84-85): the goroutine that handles every connection
\* that comes or goes does not wait for a mailbox forever.
ConnectionsHandled == []Alive => []<>(relay.pc # "remove")

=============================================================================
