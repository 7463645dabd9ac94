------------------------------ MODULE HubProofs ------------------------------
(***************************************************************************)
(* What holds of MailboxHub for any number of connections and any size of  *)
(* buffer.  Types need no assumption.  That a departed client is never     *)
(* called, that no broadcast sends on a closed channel and that the hub is *)
(* a MailboxFeed are proved where no client closes a mailbox: a close      *)
(* leaves the listener behind, so none of the three holds with it.         *)
(*                                                                         *)
(* The argument is the mailbox's lock.  Whoever broadcasts holds it from   *)
(* its look at the listeners to the last call; Client.Close removes the    *)
(* listener under it, before it closes the channel.  So what is still to   *)
(* be called is registered, and what is registered is not closed.          *)
(***************************************************************************)
EXTENDS MailboxHub, TLAPS

USE HubAssumption

-----------------------------------------------------------------------------
(* Counters below a limit. *)

LEMMA CountUp ==
  ASSUME NEW S, NEW n \in Nat, NEW f \in [S -> 0..n], NEW c \in S, f[c] < n
  PROVE  [f EXCEPT ![c] = @ + 1] \in [S -> 0..n]
<1>1. f[c] + 1 \in 0..n
  OBVIOUS
<1> QED
  BY <1>1

LEMMA CountDown ==
  ASSUME NEW S, NEW n \in Nat, NEW f \in [S -> 0..n], NEW c \in S, f[c] > 0
  PROVE  [f EXCEPT ![c] = @ - 1] \in [S -> 0..n]
<1>1. f[c] - 1 \in 0..n
  OBVIOUS
<1> QED
  BY <1>1

ReaderPcs == {"register", "read", "ack", "open", "lock", "next", "call", "reply",
              "unregister", "done"}

\* An item put into a buffer fits.
LEMMA PutFits ==
  ASSUME TypeOK, NEW c \in Conns, Put(c)
  PROVE  buffer' \in [Conns -> 0..Cap]
BY CountUp DEF TypeOK, Put

-----------------------------------------------------------------------------
(* Types. *)

\* A broadcaster that calls and a relay that works know for whom.
Known ==
  /\ \A c \in Conns : reader[c] = "call" => callee[c] \in Conns
  /\ relay.pc # "select" => relay.client \in Conns

LEMMA PeerKeepsType ==
  ASSUME TypeOK, Known, NEW c \in Conns, Peer(c)
  PROVE  TypeOK' /\ Known'
<1> USE DEF TypeOK, Known, Goto, At, client, mailbox, history
<1>1. CASE Lose(c)
  BY <1>1 DEF Lose
<1>2. CASE Read(c)
  <2>1. reads' \in [Conns -> 0..MaxReads]
    BY <1>2, CountUp DEF Read
  <2>2. \/ reader' = [reader EXCEPT ![c] = "ack"]
        \/ reader' = [reader EXCEPT ![c] = "reply"]
    BY <1>2 DEF Read
  <2>3. UNCHANGED <<todo, callee, writer, buffer, shut, conn, box, closed, handle,
                    lock, listeners, nextID, relay, died, published, since, heard>>
    BY <1>2 DEF Read
  <2>4. reader' \in [Conns -> ReaderPcs]
    BY <2>2 DEF ReaderPcs
  <2>5. \A d \in Conns : reader'[d] = "call" => reader[d] = "call"
    BY <2>2
  <2> QED
    BY <2>1, <2>3, <2>4, <2>5 DEF ReaderPcs
<1> QED
  BY <1>1, <1>2 DEF Peer

LEMMA ReaderKeepsType ==
  ASSUME TypeOK, Known, NEW c \in Conns, Reader(c)
  PROVE  TypeOK' /\ Known'
<1> USE DEF TypeOK, Known, Goto, At, client, mailbox, history, Listener
<1>1. CASE ReadFails(c)
  BY <1>1 DEF ReadFails
<1>2. CASE Ack(c)
  <2>1. buffer' \in [Conns -> 0..Cap]
    BY <1>2, PutFits DEF Ack
  <2>5. PICK pc \in {"open", "lock", "reply", "read"} :
          reader' = [reader EXCEPT ![c] = pc]
    BY <1>2 DEF Ack
  <2>2. reader' \in [Conns -> ReaderPcs]
    BY <2>5 DEF ReaderPcs
  <2>3. box' \in [Conns -> BOOLEAN] /\ closed' \in [Conns -> BOOLEAN]
    BY <1>2 DEF Ack
  <2>4. \A d \in Conns : reader'[d] = "call" => reader[d] = "call"
    BY <2>5
  <2> QED
    BY <1>2, <2>1, <2>2, <2>3, <2>4 DEF Ack, ReaderPcs
<1>3. CASE Reply(c)
  BY <1>3, PutFits DEF Reply
<1>4. CASE AddListener(c)
  <2>1. /\ listeners' \subseteq Listener
        /\ nextID' \in Nat
        /\ handle' \in [Conns -> Nat]
        /\ since' \in [Conns -> Nat]
    BY <1>4, SMTT(30) DEF AddListener
  <2>2. box' \in [Conns -> BOOLEAN]
    BY <1>4 DEF AddListener
  <2>3. reader' \in [Conns -> ReaderPcs]
    BY <1>4 DEF AddListener, ReaderPcs
  <2>4. Known'
    BY <1>4 DEF AddListener
  <2> QED
    BY <1>4, <2>1, <2>2, <2>3, <2>4 DEF AddListener, ReaderPcs
<1>5. CASE Broadcast(c)
  <2>1. reader' \in [Conns -> ReaderPcs]
    BY <1>5 DEF Broadcast, ReaderPcs
  <2>4. Known'
    BY <1>5 DEF Broadcast
  <2>2. todo' \in [Conns -> SUBSET Listener]
    BY <1>5 DEF Broadcast
  <2>3. published' \in Nat /\ lock' \in Conns
    BY <1>5 DEF Broadcast
  <2> QED
    BY <1>5, <2>1, <2>2, <2>3, <2>4 DEF Broadcast, ReaderPcs
<1>6. CASE NextListener(c)
  <2>1. PICK l \in todo[c] :
          /\ todo' = [todo EXCEPT ![c] = @ \ {l}]
          /\ IF conn[l.conn] = "nil"
               THEN UNCHANGED <<reader, callee>>
               ELSE /\ callee' = [callee EXCEPT ![c] = l.conn]
                    /\ reader' = [reader EXCEPT ![c] = "call"]
    BY <1>6 DEF NextListener
  <2>2. l.conn \in Conns
    OBVIOUS
  <2>3. todo' \in [Conns -> SUBSET Listener]
    BY <2>1
  <2>4. CASE conn[l.conn] = "nil"
    BY <1>6, <2>1, <2>3, <2>4 DEF NextListener
  <2>5. CASE conn[l.conn] # "nil"
    <3>1. reader' \in [Conns -> ReaderPcs]
      BY <2>1, <2>5 DEF ReaderPcs
    <3>2. callee' \in [Conns -> Conns \cup {NoConn}] /\ callee'[c] \in Conns
      BY <2>1, <2>2, <2>5, ZenonT(30)
    <3>3. \A d \in Conns : reader'[d] = "call" => callee'[d] \in Conns
      BY <2>1, <2>2, <2>5, ZenonT(30)
    <3> QED
      BY <1>6, <2>3, <3>1, <3>2, <3>3 DEF NextListener, ReaderPcs
  <2> QED
    BY <2>4, <2>5
<1>7. CASE CallListener(c)
  <2>1. CASE callee[c] \in shut
    BY <1>7, <2>1 DEF CallListener
  <2>2. CASE callee[c] \notin shut
    <3>1. callee[c] \in Conns
      BY <1>7 DEF CallListener
    <3>2. heard' = [heard EXCEPT ![callee[c]] = Append(@, published)]
      BY <1>7, <2>2 DEF CallListener
    <3>3. Append(heard[callee[c]], published) \in Seq(Nat)
      BY <3>1
    <3>4. heard' \in [Conns -> Seq(Nat)]
      BY <3>2, <3>3
    <3>5. buffer' \in [Conns -> 0..Cap]
      BY <1>7, <2>2, <3>1, PutFits DEF CallListener
    <3>6. /\ reader' = [reader EXCEPT ![c] = "next"]
          /\ callee' = [callee EXCEPT ![c] = NoConn]
      BY <1>7, <2>2 DEF CallListener
    <3> QED
      BY <1>7, <2>2, <3>4, <3>5, <3>6 DEF CallListener
  <2> QED
    BY <2>1, <2>2
<1>8. CASE Unlock(c)
  BY <1>8 DEF Unlock
<1> QED
  BY <1>1, <1>2, <1>3, <1>4, <1>5, <1>6, <1>7, <1>8 DEF Reader

LEMMA WriterKeepsType ==
  ASSUME TypeOK, Known, NEW c \in Conns, Writer(c)
  PROVE  TypeOK' /\ Known'
<1> USE DEF TypeOK, Known, Writing, WriterGoto, Return, client, mailbox, history
<1>1. CASE Take(c)
  <2>1. buffer' \in [Conns -> 0..Cap]
    <3>1. CASE buffer' = [buffer EXCEPT ![c] = @ - 1] /\ buffer[c] > 0
      BY <3>1, CountDown
    <3>2. CASE UNCHANGED buffer
      BY <3>2
    <3> QED
      BY <1>1, <3>1, <3>2 DEF Take
  <2>2. PICK pc \in {"write", "goodbye", "gone"} :
          writer' = [writer EXCEPT ![c] = pc]
    <3>1. CASE conn[c] = "nil"
      BY <1>1, <3>1 DEF Take
    <3>2. CASE conn[c] # "nil"
      BY <1>1, <3>2 DEF Take
    <3> QED
      BY <3>1, <3>2
  <2> QED
    BY <1>1, <2>1, <2>2 DEF Take
<1>2. CASE Write(c)
  BY <1>2 DEF Write
<1>3. CASE Tick(c)
  BY <1>3 DEF Tick
<1>4. CASE HangUp(c)
  BY <1>4, ZenonT(30) DEF HangUp
<1> QED
  BY <1>1, <1>2, <1>3, <1>4 DEF Writer

LEMMA RelayKeepsType ==
  ASSUME TypeOK, Known, Relay
  PROVE  TypeOK' /\ Known'
<1> USE DEF TypeOK, Known, Goto, Running, Selecting, client, mailbox, history
<1>1. ASSUME NEW c \in Conns, Register(c) PROVE TypeOK' /\ Known'
  BY <1>1 DEF Register
<1>2. ASSUME NEW c \in Conns, Unregister(c) PROVE TypeOK' /\ Known'
  BY <1>2 DEF Unregister
<1>3. CASE OnConnect
  BY <1>3, PutFits DEF OnConnect
<1>4. CASE RemoveListener
  BY <1>4 DEF RemoveListener
<1>5. CASE CloseChannel
  BY <1>5 DEF CloseChannel
<1>6. CASE CloseConn
  BY <1>6 DEF CloseConn
<1> QED
  BY <1>1, <1>2, <1>3, <1>4, <1>5, <1>6 DEF Relay

LEMMA TypesHold == Spec => [](TypeOK /\ Known)
<1>1. Init => TypeOK /\ Known
  BY DEF Init, TypeOK, Known, Selecting
<1>2. TypeOK /\ Known /\ [Next]_vars => TypeOK' /\ Known'
  <2>1. ASSUME TypeOK, Known, UNCHANGED vars PROVE TypeOK' /\ Known'
    BY <2>1 DEF vars, client, mailbox, history, TypeOK, Known
  <2> QED
    BY <2>1, PeerKeepsType, ReaderKeepsType, WriterKeepsType, RelayKeepsType
    DEF Next
<1> QED
  BY <1>1, <1>2, PTL DEF Spec

\* The types hold with any buffer size: in particular no buffer ever holds
\* more than its capacity, and no message is read beyond a client's bound.
THEOREM TypeCorrect == Spec => []TypeOK
BY TypesHold, PTL

-----------------------------------------------------------------------------
(* The mailbox's lock keeps its listeners callable. *)

\* A connection opens the mailbox once, and hears nothing before it does.
OpensOnce ==
  /\ nextID > 0
  /\ \A c \in Conns :
       /\ box[c] => handle[c] > 0
       /\ reader[c] = "open" => ~box[c]
       /\ ~box[c] => heard[c] = <<>>

\* What runRelay takes apart has no reader any more.
Departed ==
  \A c \in Conns :
    \/ c \in shut
    \/ conn[c] = "nil"
    \/ relay.client = c /\ relay.pc \in {"remove", "closechan", "closeconn"}
    => reader[c] = "done"

\* Every listener is its connection's only one, and can be called.
Callable ==
  \A l \in listeners :
    /\ box[l.conn] /\ l.handle = handle[l.conn]
    /\ l.conn \notin shut /\ conn[l.conn] # "nil"
    /\ ~(relay.client = l.conn /\ relay.pc \in {"closechan", "closeconn"})

\* A broadcaster holds the lock, and what it has to call is registered.
Broadcasts ==
  /\ \A c \in Conns :
       /\ reader[c] \in {"next", "call"} => lock = c /\ todo[c] \subseteq listeners
       /\ reader[c] = "call" =>
            /\ \E l \in listeners : l.conn = callee[c]
            /\ \A l \in todo[c] : l.conn # callee[c]
  /\ lock # NoConn => reader[lock] \in {"next", "call"}

\* Behind by the broadcast under way are those it has still to call.
Awaited(l) ==
  /\ lock # NoConn
  /\ \/ l \in todo[lock]
     \/ reader[lock] = "call" /\ callee[lock] = l.conn

Counted ==
  \A l \in listeners :
    since[l.conn] + Len(heard[l.conn]) + (IF Awaited(l) THEN 1 ELSE 0)
      = published

Callers == OpensOnce /\ Departed /\ Callable /\ Broadcasts /\ Counted /\ died # "send"

HInv == TypeOK /\ Known /\ Callers

\* A step of the hub is one of the feed, or none.
FeedStep == [Feed!Next]_(Feed!feed)

\* Steps that touch neither the lock nor what it guards, and begin or end no
\* broadcast, opening or departure.
Quiet ==
  /\ UNCHANGED <<todo, callee, shut, box, handle, lock, listeners, nextID, since,
                 heard, published>>
  /\ died' # "send"
  /\ \A c \in Conns :
       reader'[c] # reader[c] =>
         /\ reader[c] \notin {"next", "call", "done"}
         /\ reader'[c] \notin {"next", "call"}
         /\ reader'[c] = "open" => ~box[c]
  /\ \A c \in Conns : conn'[c] = "nil" => conn[c] = "nil"
  /\ relay'.pc \in {"remove", "closechan", "closeconn"} => relay' = relay

LEMMA QuietKeeps ==
  ASSUME HInv, Quiet
  PROVE  Callers' /\ FeedStep
<1> USE DEF HInv, Callers, Quiet
<1>1. OpensOnce'
  BY DEF OpensOnce
<1>2. Departed'
  BY DEF Departed
<1>3. Callable'
  BY SMTT(30) DEF Callable, TypeOK, Listener
<1>4. Broadcasts'
  <2>1. \A c \in Conns : reader'[c] \in {"next", "call"} => reader'[c] = reader[c]
    OBVIOUS
  <2>2. lock # NoConn => reader'[lock] = reader[lock]
    BY DEF Broadcasts, TypeOK
  <2> QED
    BY <2>1, <2>2 DEF Broadcasts
<1>5. \A l \in listeners : Awaited(l)' = Awaited(l)
  BY DEF Awaited, Broadcasts, TypeOK
<1>6. Counted'
  BY <1>5 DEF Counted
<1>7. FeedStep
  BY DEF FeedStep, Feed!feed
<1> QED
  BY <1>1, <1>2, <1>3, <1>4, <1>6, <1>7

LEMMA QuietSteps ==
  ASSUME HInv, "close" \notin Sent, NEW c \in Conns,
         \/ Peer(c) \/ Writer(c)
         \/ ReadFails(c) \/ Ack(c) \/ Reply(c)
         \/ Register(c) \/ OnConnect
         \/ UNCHANGED vars
  PROVE  Quiet
<1> USE DEF HInv, Callers, TypeOK, client, mailbox, history, At, Goto, Put
<1>1. CASE Peer(c)
  <2>1. CASE Lose(c)
    BY <2>1 DEF Lose, Quiet
  <2>2. CASE Read(c)
    <3>1. UNCHANGED <<todo, callee, shut, box, handle, lock, listeners, nextID,
                      since, heard, published, died, conn, relay>>
      BY <2>2 DEF Read
    <3>2. PICK pc \in {"ack", "reply"} : reader' = [reader EXCEPT ![c] = pc]
      BY <2>2 DEF Read
    <3>3. reader[c] = "read"
      BY <2>2 DEF Read
    <3> QED
      BY <3>1, <3>2, <3>3 DEF Quiet
  <2> QED
    BY <1>1, <2>1, <2>2 DEF Peer
<1>2. CASE ReadFails(c)
  BY <1>2 DEF ReadFails, Quiet
<1>3. CASE Ack(c)
  <2>1. UNCHANGED <<todo, callee, shut, box, handle, lock, listeners, nextID,
                    since, heard, published, died, conn, relay>>
    BY <1>3 DEF Ack
  <2>2. PICK pc \in {"open", "lock", "reply", "read"} :
          /\ reader' = [reader EXCEPT ![c] = pc]
          /\ pc = "open" => ~box[c]
    BY <1>3 DEF Ack
  <2>3. reader[c] = "ack"
    BY <1>3 DEF Ack
  <2> QED
    BY <2>1, <2>2, <2>3 DEF Quiet
<1>4. CASE Reply(c)
  BY <1>4 DEF Reply, Quiet
<1>5. CASE Writer(c)
  <2>1. /\ UNCHANGED <<todo, callee, shut, box, handle, lock, listeners, nextID,
                       since, heard, published, reader, relay>>
        /\ died' # "send"
    BY <1>5 DEF Writer, Take, Write, Tick, HangUp
  <2>2. conn' = conn \/ conn' = [conn EXCEPT ![c] = "lost"]
    BY <1>5 DEF Writer, Take, Write, Tick, HangUp
  <2> QED
    BY <2>1, <2>2 DEF Quiet
<1>6. CASE Register(c)
  BY <1>6 DEF Register, Running, Quiet
<1>7. CASE OnConnect
  BY <1>7 DEF OnConnect, Running, Selecting, Quiet
<1>8. CASE UNCHANGED vars
  BY <1>8 DEF vars, Quiet
<1> QED
  BY <1>1, <1>2, <1>3, <1>4, <1>5, <1>6, <1>7, <1>8

-----------------------------------------------------------------------------
(* The steps of the listeners and of the broadcaster. *)

\* With the lock free, everybody has heard everything.
LEMMA FreeIsCaughtUp ==
  ASSUME HInv, lock = NoConn, NEW l \in listeners
  PROVE  since[l.conn] + Len(heard[l.conn]) = published
BY DEF HInv, Callers, Counted, Awaited, TypeOK, Listener

\* A connection has one listener.
LEMMA OneListener ==
  ASSUME HInv, NEW k \in listeners, NEW l \in listeners, k.conn = l.conn
  PROVE  k = l
<1>1. k \in Listener /\ l \in Listener
  BY DEF HInv, TypeOK
<1>2. k.handle = l.handle
  BY DEF HInv, Callers, Callable
<1> QED
  BY <1>1, <1>2 DEF Listener

LEMMA AddListenerStep ==
  ASSUME HInv, NEW c \in Conns, AddListener(c)
  PROVE  Callers' /\ FeedStep
<1> USE DEF HInv, Callers
<1> DEFINE new == [conn |-> c, handle |-> nextID]
<1>1. /\ reader[c] = "open" /\ lock = NoConn
      /\ listeners' = listeners \cup {new}
      /\ nextID' = nextID + 1
      /\ handle' = [handle EXCEPT ![c] = nextID]
      /\ box' = [box EXCEPT ![c] = TRUE]
      /\ since' = [since EXCEPT ![c] = published]
      /\ reader' = [reader EXCEPT ![c] = "read"]
      /\ UNCHANGED <<todo, callee, shut, conn, lock, relay, died, published,
                     heard>>
  BY DEF AddListener, At, Goto
<1>2. ~box[c] /\ heard[c] = <<>>
  BY <1>1 DEF OpensOnce
<1>3. \A l \in listeners : l.conn \in Conns /\ l.conn # c
  BY <1>2 DEF Callable, TypeOK, Listener
<1>4. OpensOnce'
  BY <1>1 DEF OpensOnce, TypeOK
<1>5. Departed'
  BY <1>1 DEF Departed, TypeOK
<1>6. Callable'
  <2>1. c \notin shut /\ conn[c] # "nil"
        /\ ~(relay.client = c /\ relay.pc \in {"closechan", "closeconn"})
    BY <1>1 DEF Departed
  <2>2. box'[c] /\ handle'[c] = nextID
    BY <1>1 DEF TypeOK
  <2>3. \A l \in listeners : box'[l.conn] /\ l.handle = handle'[l.conn]
    BY <1>1, <1>3 DEF Callable, TypeOK
  <2> QED
    BY <1>1, <2>1, <2>2, <2>3 DEF Callable
<1>7. Broadcasts'
  BY <1>1 DEF Broadcasts, TypeOK
<1>8. Counted'
  <2>1. \A l \in listeners' : ~Awaited(l)'
    BY <1>1 DEF Awaited
  <2>2. \A l \in listeners : since'[l.conn] + Len(heard'[l.conn]) = published
    BY <1>1, <1>3, FreeIsCaughtUp DEF TypeOK
  <2>3. since'[c] + Len(heard'[c]) = published
    BY <1>1, <1>2 DEF TypeOK
  <2>4. \A l \in listeners' : since'[l.conn] + Len(heard'[l.conn]) = published
    <3>1. new.conn = c
      OBVIOUS
    <3>2. \A l \in listeners' : l \in listeners \/ l = new
      BY <1>1
    <3> HIDE DEF new
    <3> QED
      BY <2>2, <2>3, <3>1, <3>2
  <2>5. published \in Nat /\ published' = published
    BY <1>1 DEF TypeOK
  <2> QED
    BY <2>1, <2>4, <2>5 DEF Counted
<1>9. Feed!Join(c)
  <2>1. c \notin {l.conn : l \in listeners}
    BY <1>3
  <2>2. {l.conn : l \in listeners'} = {l.conn : l \in listeners} \cup {c}
    <3>1. new.conn = c
      OBVIOUS
    <3> HIDE DEF new
    <3> QED
      BY <1>1, <3>1
  <2> QED
    BY <1>1, <1>2, <2>1, <2>2 DEF Feed!Join
<1> QED
  BY <1>1, <1>4, <1>5, <1>6, <1>7, <1>8, <1>9 DEF FeedStep, Feed!Next

LEMMA BroadcastStep ==
  ASSUME HInv, NEW c \in Conns, Broadcast(c)
  PROVE  Callers' /\ FeedStep
<1> USE DEF HInv, Callers
<1>1. /\ reader[c] = "lock" /\ lock = NoConn /\ lock' = c
      /\ todo' = [todo EXCEPT ![c] = listeners]
      /\ published' = published + 1
      /\ reader' = [reader EXCEPT ![c] = "next"]
      /\ UNCHANGED <<callee, shut, conn, box, handle, listeners, nextID,
                     relay, died, since, heard>>
  BY DEF Broadcast, At, Goto, client
<1>2. OpensOnce' /\ Departed' /\ Callable'
  BY <1>1 DEF OpensOnce, Departed, Callable, TypeOK
<1>3. Broadcasts'
  BY <1>1, SMTT(30) DEF Broadcasts, TypeOK
<1>4. Counted'
  <2>1. \A l \in listeners : Awaited(l)'
    BY <1>1 DEF Awaited, TypeOK
  <2> QED
    BY <1>1, <2>1, FreeIsCaughtUp DEF Counted, TypeOK
<1>5. Feed!Publish
  BY <1>1, FreeIsCaughtUp DEF Feed!Publish, Feed!CaughtUp
<1> QED
  BY <1>1, <1>2, <1>3, <1>4, <1>5 DEF FeedStep, Feed!Next

LEMMA NextListenerStep ==
  ASSUME HInv, NEW c \in Conns, NextListener(c)
  PROVE  Callers' /\ FeedStep
<1> USE DEF HInv, Callers
<1>1. /\ reader[c] = "next"
      /\ UNCHANGED <<shut, conn, box, handle, lock, listeners, nextID,
                     relay, died, since, heard, published>>
  BY DEF NextListener, At, client, mailbox, history
<1>2. lock = c /\ todo[c] \subseteq listeners
  BY <1>1 DEF Broadcasts
<1>3. PICK l \in todo[c] :
        /\ todo' = [todo EXCEPT ![c] = @ \ {l}]
        /\ conn[l.conn] # "nil" =>
             /\ callee' = [callee EXCEPT ![c] = l.conn]
             /\ reader' = [reader EXCEPT ![c] = "call"]
  BY DEF NextListener, Goto
<1>4. /\ callee' = [callee EXCEPT ![c] = l.conn]
      /\ reader' = [reader EXCEPT ![c] = "call"]
  BY <1>2, <1>3 DEF Callable
<1>5. \A k \in todo[c] \ {l} : k.conn # l.conn
  BY <1>2, OneListener
<1>6. OpensOnce' /\ Departed' /\ Callable'
  <2>1. OpensOnce'
    BY <1>1, <1>4 DEF OpensOnce, TypeOK
  <2>2. Departed'
    BY <1>1, <1>4 DEF Departed, TypeOK
  <2>3. Callable'
    BY <1>1 DEF Callable
  <2> QED
    BY <2>1, <2>2, <2>3
<1>7. Broadcasts'
  BY <1>1, <1>2, <1>3, <1>4, <1>5, SMTT(30) DEF Broadcasts, TypeOK
<1>8. Counted'
  <2>1. ASSUME NEW k \in listeners PROVE Awaited(k)' = Awaited(k)
    <3>1. k.conn = l.conn => k = l
      BY <1>2, OneListener
    <3>2. Awaited(k) <=> k \in todo[c]
      BY <1>1, <1>2 DEF Awaited, TypeOK
    <3>3. Awaited(k)' <=> k \in todo[c] \ {l} \/ k.conn = l.conn
      BY <1>1, <1>2, <1>3, <1>4 DEF Awaited, TypeOK
    <3> QED
      BY <3>1, <3>2, <3>3 DEF Awaited
  <2> QED
    BY <1>1, <2>1 DEF Counted
<1>9. FeedStep
  BY <1>1 DEF FeedStep, Feed!feed
<1> QED
  BY <1>1, <1>6, <1>7, <1>8, <1>9

LEMMA CallListenerStep ==
  ASSUME HInv, NEW c \in Conns, CallListener(c)
  PROVE  Callers' /\ FeedStep
<1> USE DEF HInv, Callers
<1>1. reader[c] = "call"
  BY DEF CallListener, At
<1>2. /\ lock = c /\ todo[c] \subseteq listeners
      /\ \A k \in todo[c] : k.conn # callee[c]
  BY <1>1 DEF Broadcasts
<1>3. PICK l \in listeners : l.conn = callee[c]
  BY <1>1 DEF Broadcasts
<1> DEFINE d == l.conn
<1>4. d \in Conns /\ d \notin shut /\ box[d]
  BY <1>3 DEF Callable, TypeOK, Listener
<1>5. /\ heard' = [heard EXCEPT ![d] = Append(@, published)]
      /\ callee' = [callee EXCEPT ![c] = NoConn]
      /\ reader' = [reader EXCEPT ![c] = "next"]
      /\ UNCHANGED <<todo, shut, conn, box, handle, lock, listeners,
                     nextID, relay, died, since, published>>
  BY <1>3, <1>4 DEF CallListener, Goto, client, mailbox
<1>6. OpensOnce'
  BY <1>4, <1>5, ZenonT(30) DEF OpensOnce, TypeOK
<1>7. Departed' /\ Callable'
  BY <1>1, <1>5, SMTT(30) DEF Departed, Callable, TypeOK
<1>8. Broadcasts'
  BY <1>1, <1>2, <1>5 DEF Broadcasts, TypeOK
<1>9. /\ since[d] \in Nat /\ Len(heard[d]) \in Nat /\ published \in Nat
      /\ since[d] + Len(heard[d]) + 1 = published
  <2>1. Awaited(l)
    BY <1>1, <1>2, <1>3 DEF Awaited
  <2>2. since[d] \in Nat /\ Len(heard[d]) \in Nat /\ published \in Nat
    BY <1>4 DEF TypeOK
  <2> QED
    BY <2>1, <2>2 DEF Counted
<1>10. Len(heard'[d]) = Len(heard[d]) + 1 /\ \A e \in Conns : e # d => heard'[e] = heard[e]
  BY <1>4, <1>5 DEF TypeOK
<1>11. Counted'
  <2>1. ASSUME NEW k \in listeners
        PROVE  since[k.conn] + Len(heard'[k.conn]) + (IF Awaited(k)' THEN 1 ELSE 0)
                 = published
    <3>1. k.conn \in Conns
      BY DEF TypeOK, Listener
    <3>2. Awaited(k)' <=> k \in todo[c]
      BY <1>1, <1>2, <1>5 DEF Awaited, TypeOK
    <3>3. CASE k.conn = d
      <4>1. ~Awaited(k)'
        BY <1>2, <1>3, <3>2, <3>3
      <4> QED
        BY <1>9, <1>10, <3>3, <4>1
    <3>4. CASE k.conn # d
      <4>1. Awaited(k) <=> k \in todo[c]
        BY <1>1, <1>2, <1>3, <3>4 DEF Awaited, TypeOK
      <4> QED
        BY <1>10, <3>1, <3>2, <3>4, <4>1 DEF Counted
    <3> QED
      BY <3>3, <3>4
  <2> QED
    BY <1>5, <2>1 DEF Counted
<1>12. Feed!Deliver(d)
  <2>1. d \in {k.conn : k \in listeners} /\ ~Feed!CaughtUp(d)
    BY <1>9 DEF Feed!CaughtUp
  <2>2. heard' = [heard EXCEPT ![d] = Append(@, since[d] + Len(@) + 1)]
    BY <1>5, <1>9
  <2> QED
    BY <1>5, <2>1, <2>2 DEF Feed!Deliver
<1> QED
  BY <1>4, <1>5, <1>6, <1>7, <1>8, <1>11, <1>12 DEF FeedStep, Feed!Next

LEMMA UnlockStep ==
  ASSUME HInv, NEW c \in Conns, Unlock(c)
  PROVE  Callers' /\ FeedStep
<1> USE DEF HInv, Callers
<1>1. /\ reader[c] = "next" /\ todo[c] = {} /\ lock' = NoConn
      /\ reader' = [reader EXCEPT ![c] = "read"]
      /\ UNCHANGED <<todo, callee, shut, conn, box, handle, listeners,
                     nextID, relay, died, since, heard, published>>
  BY DEF Unlock, At, Goto, client, history
<1>2. lock = c
  BY <1>1 DEF Broadcasts
<1>3. OpensOnce' /\ Departed' /\ Callable'
  BY <1>1 DEF OpensOnce, Departed, Callable, TypeOK
<1>4. Broadcasts'
  BY <1>1, <1>2 DEF Broadcasts, TypeOK
<1>5. \A l \in listeners : ~Awaited(l) /\ ~Awaited(l)'
  BY <1>1, <1>2 DEF Awaited
<1>6. Counted'
  BY <1>1, <1>5 DEF Counted
<1>7. FeedStep
  BY <1>1 DEF FeedStep, Feed!feed
<1> QED
  BY <1>1, <1>3, <1>4, <1>6, <1>7

-----------------------------------------------------------------------------
(* The steps of a departure. *)

LEMMA UnregisterStep ==
  ASSUME HInv, NEW c \in Conns, Unregister(c)
  PROVE  Callers' /\ FeedStep
<1> USE DEF HInv, Callers
<1>1. /\ reader[c] = "unregister" /\ relay.pc = "select"
      /\ relay' = [pc |-> "remove", client |-> c]
      /\ reader' = [reader EXCEPT ![c] = "done"]
      /\ UNCHANGED <<todo, callee, shut, conn, box, handle, lock, listeners,
                     nextID, died, since, heard, published>>
  BY DEF Unregister, Running, Goto, client, mailbox, history
<1>2. OpensOnce'
  BY <1>1 DEF OpensOnce, TypeOK
<1>3. Departed'
  BY <1>1 DEF Departed, TypeOK
<1>4. Callable'
  BY <1>1 DEF Callable
<1>5. \A d \in Conns : d # c => reader'[d] = reader[d]
  BY <1>1 DEF TypeOK
<1>6. lock # NoConn => lock # c
  BY <1>1 DEF Broadcasts
<1>7. Broadcasts'
  <2>1. lock # NoConn => reader'[lock] = reader[lock]
    BY <1>5, <1>6 DEF TypeOK
  <2>2. \A d \in Conns : reader'[d] \in {"next", "call"} => reader'[d] = reader[d]
    BY <1>1, <1>5 DEF TypeOK
  <2> QED
    BY <1>1, <2>1, <2>2 DEF Broadcasts
<1>8. Counted'
  <2>1. \A l \in listeners : Awaited(l)' <=> Awaited(l)
    BY <1>1, <1>5, <1>6 DEF Awaited, TypeOK
  <2> QED
    BY <1>1, <2>1 DEF Counted
<1>9. FeedStep
  BY <1>1 DEF FeedStep, Feed!feed
<1> QED
  BY <1>1, <1>2, <1>3, <1>4, <1>7, <1>8, <1>9

LEMMA LeaveIsNext ==
  ASSUME NEW c \in Conns, Feed!Leave(c)
  PROVE  Feed!Next
BY DEF Feed!Next

LEMMA RemoveListenerStep ==
  ASSUME HInv, RemoveListener
  PROVE  Callers' /\ FeedStep
<1> USE DEF HInv, Callers
<1>0. PICK c \in Conns : c = relay.client
  BY DEF RemoveListener, Running, Known
<1> DEFINE mine == [conn |-> c, handle |-> handle[c]]
<1>1. /\ relay.pc = "remove"
      /\ relay' = [relay EXCEPT !.pc = "closechan"]
      /\ UNCHANGED <<reader, todo, callee, shut, conn, box, handle, lock,
                     nextID, died, since, heard, published>>
  BY DEF RemoveListener, Running, client, history
<1>2. relay.client = c /\ relay' = [pc |-> "closechan", client |-> c]
  BY <1>0, <1>1 DEF TypeOK
<1>3. OpensOnce' /\ Departed'
  BY <1>1, <1>2 DEF OpensOnce, Departed
<1>4. CASE \A l \in listeners : l.conn # c
  <2>1. listeners' = listeners
    <3>1. mine.conn = c
      OBVIOUS
    <3>2. mine \notin listeners
      BY <1>4, <3>1
    <3> QED
      BY <1>2, <3>2 DEF RemoveListener
  <2>2. Callable'
    BY <1>1, <1>2, <1>4, <2>1 DEF Callable
  <2>3. Broadcasts'
    BY <1>1, <2>1 DEF Broadcasts
  <2>4. Counted'
    BY <1>1, <2>1 DEF Counted, Awaited
  <2>5. FeedStep
    BY <1>1, <2>1 DEF FeedStep, Feed!feed
  <2> QED
    BY <1>1, <1>3, <2>2, <2>3, <2>4, <2>5
<1>5. ASSUME NEW l \in listeners, l.conn = c
      PROVE  Callers' /\ FeedStep
  <2>1. box[c] /\ handle[c] > 0
    BY <1>2, <1>5 DEF Callable, OpensOnce
  <2>2. lock = NoConn /\ listeners' = listeners \ {mine}
    BY <1>2, <2>1 DEF RemoveListener
  <2>3. l = mine
    BY <1>5 DEF Callable, TypeOK, Listener
  <2>4. \A k \in listeners' : k.conn # c
    BY <1>5, <2>2, <2>3, OneListener
  <2>5. Callable'
    BY <1>1, <1>2, <2>2, <2>4 DEF Callable
  <2>6. Broadcasts'
    BY <1>1, <2>2 DEF Broadcasts
  <2>7. Counted'
    BY <1>1, <2>2 DEF Counted, Awaited
  <2>8. Feed!Leave(c)
    <3>1. {k.conn : k \in listeners'} = {k.conn : k \in listeners} \ {c}
      BY <1>5, <2>2, <2>3, <2>4
    <3>2. since[c] + Len(heard[c]) = published
      BY <1>5, <2>2, FreeIsCaughtUp
    <3> QED
      BY <1>1, <1>5, <3>1, <3>2 DEF Feed!Leave, Feed!CaughtUp
  <2> QED
    <3>1. Feed!Next
      BY <1>2, <2>8, LeaveIsNext
    <3> QED
      BY <1>1, <1>3, <2>5, <2>6, <2>7, <3>1 DEF FeedStep
<1> QED
  BY <1>4, <1>5

LEMMA CloseStep ==
  ASSUME HInv, CloseChannel \/ CloseConn
  PROVE  Callers' /\ FeedStep
<1> USE DEF HInv, Callers
<1> DEFINE c == relay.client
<1>1. /\ relay.pc \in {"closechan", "closeconn"}
      /\ shut' \in {shut, shut \cup {c}}
      /\ conn' \in {conn, [conn EXCEPT ![c] = "nil"]}
      /\ relay' \in {[relay EXCEPT !.pc = "closeconn"], Selecting}
      /\ UNCHANGED <<reader, todo, callee, box, handle, lock, listeners, nextID,
                     died, since, heard, published>>
  BY DEF CloseChannel, CloseConn, Running, client, mailbox, history
<1>2. c \in Conns /\ reader[c] = "done"
  BY <1>1 DEF Known, Departed
<1>3. \A l \in listeners : l.conn # c
  BY <1>1 DEF Callable
<1>4. relay'.pc = "select" \/ relay' = [pc |-> "closeconn", client |-> c]
  BY <1>1 DEF Selecting, TypeOK
<1>5. \A d \in Conns : d # c => conn'[d] = conn[d]
  BY <1>1 DEF TypeOK
<1>6. OpensOnce' /\ Broadcasts' /\ Counted'
  BY <1>1 DEF OpensOnce, Broadcasts, Counted, Awaited
<1>7. Departed'
  BY <1>1, <1>2, <1>4, <1>5 DEF Departed
<1>8. Callable'
  <2>1. ASSUME NEW l \in listeners
        PROVE  /\ l.conn \notin shut' /\ conn'[l.conn] # "nil"
               /\ ~(relay'.client = l.conn
                    /\ relay'.pc \in {"closechan", "closeconn"})
    <3>1. l.conn \in Conns /\ l.conn # c
      BY <1>3 DEF TypeOK, Listener
    <3> QED
      BY <1>1, <1>4, <1>5, <3>1 DEF Callable
  <2> QED
    BY <1>1, <2>1 DEF Callable
<1>9. FeedStep
  BY <1>1 DEF FeedStep, Feed!feed
<1> QED
  BY <1>1, <1>6, <1>7, <1>8, <1>9

-----------------------------------------------------------------------------
(* Together. *)

LEMMA NextKeepsCallers ==
  ASSUME HInv, "close" \notin Sent, [Next]_vars
  PROVE  Callers' /\ FeedStep
<1>1. ASSUME NEW c \in Conns,
             \/ Peer(c) \/ Writer(c)
             \/ ReadFails(c) \/ Ack(c) \/ Reply(c)
             \/ Register(c) \/ OnConnect
             \/ UNCHANGED vars
      PROVE  Callers' /\ FeedStep
  BY <1>1, QuietSteps, QuietKeeps
<1>2. ASSUME NEW c \in Conns, Reader(c)
      PROVE  Callers' /\ FeedStep
  BY <1>1, <1>2, AddListenerStep, BroadcastStep, NextListenerStep,
     CallListenerStep, UnlockStep
  DEF Reader
<1>3. CASE OnConnect
  BY <1>1, <1>3 DEF OnConnect, Running, HInv, Known
<1>4. CASE Relay
  BY <1>1, <1>3, <1>4, UnregisterStep, RemoveListenerStep, CloseStep DEF Relay
<1>5. CASE UNCHANGED vars
  <2>1. CASE Conns = {}
    BY <1>5, <2>1, QuietKeeps
    DEF Quiet, vars, client, mailbox, history, HInv, Callers
  <2> QED
    BY <1>1, <1>5, <2>1
<1> QED
  BY <1>1, <1>2, <1>4, <1>5 DEF Next

LEMMA InitCallers == Init => Callers /\ Feed!Init
BY DEF Init, Callers, OpensOnce, Departed, Callable, Broadcasts, Counted,
       Selecting, Feed!Init

LEMMA CallersHold ==
  ASSUME "close" \notin Sent
  PROVE  Spec => [](HInv) /\ [][FeedStep]_vars
<1>1. Init => Callers
  BY InitCallers
<1>2. HInv /\ [Next]_vars => Callers' /\ FeedStep
  BY NextKeepsCallers
<1>3. Spec => []Callers
  BY <1>1, <1>2, TypesHold, PTL DEF Spec, HInv
<1> QED
  BY <1>2, <1>3, TypesHold, PTL DEF Spec, HInv

\* Where no client closes its mailbox, no mailbox calls a client whose Close
\* is through, for any number of clients and broadcasts.
THEOREM CleanedUp ==
  ASSUME "close" \notin Sent
  PROVE  Spec => []CloseCleansUp
<1>1. HInv => CloseCleansUp
  BY DEF HInv, Callers, Callable, CloseCleansUp
<1> QED
  BY <1>1, CallersHold, PTL

\* Where no client closes its mailbox, no broadcast sends on a channel that
\* a departure closed meanwhile.
THEOREM NeverSendsOnClosed ==
  ASSUME "close" \notin Sent
  PROVE  Spec => []NoSendOnClosed
<1>1. HInv => NoSendOnClosed
  BY DEF HInv, Callers, NoSendOnClosed
<1> QED
  BY <1>1, CallersHold, PTL

\* Where no client closes its mailbox, the hub implements MailboxFeed: every
\* listener is handed every message once, in one order, for any number of
\* clients and any buffer size.
THEOREM HubImplementsFeed ==
  ASSUME "close" \notin Sent
  PROVE  Spec => FeedSpec
<1>1. Init => Feed!Init
  BY InitCallers
<1>2. HInv /\ [Next]_vars => [Feed!Next]_(Feed!feed)
  BY NextKeepsCallers DEF FeedStep
<1> QED
  BY <1>1, <1>2, CallersHold, PTL DEF Spec, FeedSpec, Feed!Spec

=============================================================================
