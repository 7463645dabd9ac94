------------------------------ MODULE Transit ------------------------------
(***************************************************************************)
(* The transit server, transit/transit.go and transit/client.go: TCP       *)
(* connections that name a token are paired, and what one sends is written *)
(* to the other.                                                           *)
(*                                                                         *)
(* Each connection is served by a goroutine of its own; `lock` guards      *)
(* `pending` and nothing else, so the fields of a Client are read, checked *)
(* and written by the goroutines of other clients in between any two steps *)
(* of its own.  A method called on a nil conn panics, which takes the      *)
(* whole process down.                                                     *)
(*                                                                         *)
(* What a peer sends is lines, numbered: the first one names a token (and  *)
(* a side), or nothing the server accepts.  A later number stands for the  *)
(* line or for the end of it, if its beginning was lost.                   *)
(***************************************************************************)
EXTENDS Naturals, Sequences

CONSTANTS
  Conns,     \* TCP connections
  Tokens,
  Sides,
  MaxLines,  \* a bound on the lines each peer sends
  None       \* no side, no client, no token

ASSUME TransitAssumption ==
  /\ None \notin Conns \cup Tokens \cup Sides
  /\ MaxLines \in Nat

VARIABLES
  hello,     \* what the first line of each peer asks for: [token, side]
  seen,      \* how many lines of each peer were taken from the socket
  line,      \* the line handleData deals with and may yet pipe, or 0
  pc,        \* where the goroutine of a client is
  target,    \* the client whose Close it runs: its own, its Buddy's, ...
  match,     \* the waiting client it is being connected with
  dest,      \* the client whose conn it is writing a line to
  sock,      \* the socket: "open", "cut" by its peer, or "closed" by us
  isNil,     \* Client.conn is nil
  gotToken,  \* Client.GotToken; Token and Side are then those of `hello`
  sentOK,    \* Client.SentOK
  buddy,     \* Client.Buddy
  pending,   \* the one entry in the list of each token, or None
  lock,      \* who holds the package's lock across steps
  died,      \* a panic took the process down
  got        \* history: what was written to each peer, [from, line]

fields == <<isNil, gotToken, sentOK, buddy>>
vars == <<hello, seen, line, pc, target, match, dest, sock, fields, pending,
          lock, died, got>>

\* An old token comes without a side; a token of None is no handshake.
Hellos ==
  [token : Tokens, side : Sides \cup {None}]
    \cup {[token |-> None, side |-> None]}

TypeOK ==
  /\ hello \in [Conns -> Hellos]
  /\ seen \in [Conns -> 0..MaxLines]
  /\ line \in [Conns -> 0..MaxLines]
  /\ pc \in [Conns -> {"top", "read", "handle", "pipe", "write", "impatient",
                       "token", "bond", "ok", "bondself", "okself", "close",
                       "shut", "unset", "next", "gone"}]
  /\ target \in [Conns -> Conns]
  /\ match \in [Conns -> Conns \cup {None}]
  /\ dest \in [Conns -> Conns \cup {None}]
  /\ sock \in [Conns -> {"open", "cut", "closed"}]
  /\ isNil \in [Conns -> BOOLEAN]
  /\ gotToken \in [Conns -> BOOLEAN]
  /\ sentOK \in [Conns -> BOOLEAN]
  /\ buddy \in [Conns -> Conns \cup {None}]
  /\ pending \in [Tokens -> Conns \cup {None}]
  /\ lock \in Conns \cup {None}
  /\ died \in BOOLEAN
  /\ got \in [Conns -> Seq([from : Conns, line : 1..MaxLines])]

Init ==
  /\ hello \in [Conns -> Hellos]
  /\ seen = [c \in Conns |-> 0]
  /\ line = [c \in Conns |-> 0]
  /\ pc = [c \in Conns |-> "top"]
  /\ target = [c \in Conns |-> c]
  /\ match = [c \in Conns |-> None]
  /\ dest = [c \in Conns |-> None]
  /\ sock = [c \in Conns |-> "open"]
  /\ isNil = [c \in Conns |-> FALSE]
  /\ gotToken = [c \in Conns |-> FALSE]
  /\ sentOK = [c \in Conns |-> FALSE]
  /\ buddy = [c \in Conns |-> None]
  /\ pending = [t \in Tokens |-> None]
  /\ lock = None
  /\ died = FALSE
  /\ got = [c \in Conns |-> <<>>]

-----------------------------------------------------------------------------

At(c, step) == pc[c] = step /\ ~died

Goto(c, step) == pc' = [pc EXCEPT ![c] = step]

\* A method is called on a nil conn.
Panic == died' = TRUE

Token(c) == hello[c].token
Side(c) == hello[c].side

-----------------------------------------------------------------------------
(* The peer. *)

Cut(c) ==
  /\ ~died /\ sock[c] = "open"
  /\ sock' = [sock EXCEPT ![c] = "cut"]
  /\ UNCHANGED <<hello, seen, line, pc, target, dest, match, fields, pending,
                 lock, died, got>>

-----------------------------------------------------------------------------
(* HandleConnection. *)

\* bufio.NewReader(c.conn) for every line: the conn is looked up here.
NewReader(c) ==
  /\ At(c, "top")
  /\ IF isNil[c] THEN Panic /\ UNCHANGED pc
                 ELSE Goto(c, "read") /\ UNCHANGED died
  /\ UNCHANGED <<hello, seen, line, target, match, dest, sock, fields, pending,
                 lock, got>>

\* Mutant of ReadLine: it does not look at the error.
ReadLineIgnoringError(c) ==
  /\ At(c, "read")
  /\ seen' = [seen EXCEPT ![c] = @ + 1]
  /\ line' = [line EXCEPT ![c] = seen[c] + 1]
  /\ Goto(c, "handle")
  /\ UNCHANGED <<hello, target, match, dest, sock, fields, pending, lock, died,
                 got>>

\* Mutant of ReadLine: of what was read, the last line is handled first.
ReadLineNewest(c) ==
  /\ At(c, "read") /\ sock[c] # "closed"
  /\ \E n \in seen[c] + 1 .. MaxLines : line' = [line EXCEPT ![c] = n]
  /\ seen' = [seen EXCEPT ![c] = @ + 1]
  /\ Goto(c, "handle")
  /\ UNCHANGED <<hello, target, match, dest, sock, fields, pending, lock, died,
                 got>>

\* ReadBytes waits for the peer to send, and returns the first line; what the
\* same read had of the lines after it is in the buffer of a Reader that is
\* not used again.
ReadLine(c) ==
  /\ At(c, "read") /\ sock[c] # "closed"
  /\ \E n \in seen[c] + 1 .. MaxLines : seen' = [seen EXCEPT ![c] = n]
  /\ line' = [line EXCEPT ![c] = seen[c] + 1]
  /\ Goto(c, "handle")
  /\ UNCHANGED <<hello, target, match, dest, sock, fields, pending, lock, died,
                 got>>

\* Mutant of ReadFails: the error is logged and the loop goes on.
ReadFailsGoesOn(c) ==
  /\ At(c, "read")
  /\ sock[c] # "open"
  /\ Goto(c, "top")
  /\ UNCHANGED <<hello, seen, line, target, match, dest, sock, fields, pending,
                 lock, died, got>>

\* A peer that left may have sent more before, or not.
ReadFails(c) ==
  /\ At(c, "read")
  /\ sock[c] # "open"
  /\ Goto(c, "close")
  /\ UNCHANGED <<hello, seen, line, target, match, dest, sock, fields, pending,
                 lock, died, got>>

-----------------------------------------------------------------------------
(* handleData. *)

Handle(c) ==
  LET b == buddy[c] IN
  /\ At(c, "handle")
  /\ \/ /\ sentOK[c]
        /\ Goto(c, IF b # None /\ ~isNil[b] THEN "pipe" ELSE "close")
        /\ UNCHANGED gotToken
     \/ /\ ~sentOK[c] /\ gotToken[c]
        /\ Goto(c, "impatient")
        /\ UNCHANGED gotToken
     \/ /\ ~sentOK[c] /\ ~gotToken[c]
        /\ gotToken' = [gotToken EXCEPT ![c] = Token(c) # None]
        /\ Goto(c, IF Token(c) # None THEN "token" ELSE "close")
  /\ line' = [line EXCEPT ![c] = IF pc'[c] = "pipe" THEN @ ELSE 0]
  /\ UNCHANGED <<hello, seen, target, match, dest, sock, isNil, sentOK, buddy,
                 pending, lock, died, got>>

\* c.Buddy.conn is looked up,
Pipe(c) ==
  LET b == buddy[c] IN
  /\ At(c, "pipe")
  /\ IF isNil[b] THEN Panic /\ UNCHANGED <<pc, dest>>
                 ELSE /\ dest' = [dest EXCEPT ![c] = b]
                      /\ Goto(c, "write")
                      /\ UNCHANGED died
  /\ UNCHANGED <<hello, seen, line, target, match, sock, fields, pending, lock,
                 got>>

\* and its Write(data) called, whatever the error, which has no deadline.
Write(c) ==
  LET d == dest[c] IN
  /\ At(c, "write")
  /\ got' = [got EXCEPT ![d] = IF sock[d] = "open"
                                 THEN Append(@, [from |-> c, line |-> line[c]])
                                 ELSE @]
  /\ dest' = [dest EXCEPT ![c] = None]
  /\ line' = [line EXCEPT ![c] = 0]
  /\ Goto(c, "top")
  /\ UNCHANGED <<hello, seen, target, match, sock, fields, pending, lock,
                 died>>

Impatient(c) ==
  /\ At(c, "impatient")
  /\ IF isNil[c] THEN Panic /\ UNCHANGED pc
                 ELSE Goto(c, "close") /\ UNCHANGED died
  /\ UNCHANGED <<hello, seen, line, target, match, dest, sock, fields, pending,
                 lock, got>>

-----------------------------------------------------------------------------
(* processToken. *)

\* The waiting client is of another side, or one of the two names none.
Pairs(c, w) == Side(w) = None \/ Side(c) = None \/ Side(w) # Side(c)

\* Mutant of Wait: the client keeps looking for a match, and finds itself.
WaitLooking(c) ==
  LET w == pending[Token(c)] IN
  /\ At(c, "token") /\ lock = None
  /\ w # None => ~Pairs(c, w)
  /\ pending' = [pending EXCEPT ![Token(c)] = c]
  /\ UNCHANGED <<hello, seen, line, pc, target, match, dest, sock, fields,
                 lock, died, got>>

\* With no match the client waits, in the place of whoever did.
Wait(c) ==
  LET w == pending[Token(c)] IN
  /\ At(c, "token") /\ lock = None
  /\ w # None => ~Pairs(c, w)
  /\ pending' = [pending EXCEPT ![Token(c)] = c]
  /\ Goto(c, "top")
  /\ UNCHANGED <<hello, seen, line, target, match, dest, sock, fields, lock,
                 died, got>>

\* Mutant of Match: whoever waits, whatever the token.
MatchAnyToken(c) ==
  \E t \in Tokens :
    LET w == pending[t] IN
    /\ At(c, "token") /\ lock = None
    /\ w # None /\ Pairs(c, w)
    /\ match' = [match EXCEPT ![c] = w]
    /\ pending' = [pending EXCEPT ![t] = None]
    /\ lock' = c
    /\ Goto(c, "bond")
    /\ UNCHANGED <<hello, seen, line, target, dest, sock, fields, died, got>>

Match(c) ==
  LET w == pending[Token(c)] IN
  /\ At(c, "token") /\ lock = None
  /\ w # None /\ Pairs(c, w)
  /\ match' = [match EXCEPT ![c] = w]
  /\ pending' = [pending EXCEPT ![Token(c)] = None]
  /\ lock' = c
  /\ Goto(c, "bond")
  /\ UNCHANGED <<hello, seen, line, target, dest, sock, fields, died, got>>

\* connectWith, in two steps: Buddy, then the "ok" and SentOK.
Bond(c) ==
  /\ \/ /\ At(c, "bond")
        /\ buddy' = [buddy EXCEPT ![match[c]] = c]
        /\ Goto(c, "ok")
     \/ /\ At(c, "bondself")
        /\ buddy' = [buddy EXCEPT ![c] = match[c]]
        /\ Goto(c, "okself")
  /\ UNCHANGED <<hello, seen, line, target, match, dest, sock, isNil, gotToken,
                 sentOK, pending, lock, died, got>>

OkMatch(c) ==
  /\ At(c, "ok")
  /\ IF isNil[match[c]]
       THEN Panic /\ UNCHANGED <<pc, sentOK>>
       ELSE /\ sentOK' = [sentOK EXCEPT ![match[c]] = TRUE]
            /\ Goto(c, "bondself")
            /\ UNCHANGED died
  /\ UNCHANGED <<hello, seen, line, target, match, dest, sock, isNil, gotToken,
                 buddy, pending, lock, got>>

\* Mutant of OkSelf: it returns with the lock held.
OkSelfKeepsLock(c) ==
  /\ At(c, "okself")
  /\ IF isNil[c]
       THEN Panic /\ UNCHANGED <<pc, match, sentOK, pending>>
       ELSE /\ sentOK' = [sentOK EXCEPT ![c] = TRUE]
            /\ pending' = [pending EXCEPT ![Token(c)] = c]
            /\ match' = [match EXCEPT ![c] = None]
            /\ Goto(c, "top")
            /\ UNCHANGED died
  /\ UNCHANGED <<hello, seen, line, target, dest, sock, isNil, gotToken, buddy,
                 lock, got>>

\* After the match the client is filed as waiting all the same.
OkSelf(c) ==
  /\ At(c, "okself")
  /\ IF isNil[c]
       THEN Panic /\ UNCHANGED <<pc, match, sentOK, pending, lock>>
       ELSE /\ sentOK' = [sentOK EXCEPT ![c] = TRUE]
            /\ pending' = [pending EXCEPT ![Token(c)] = c]
            /\ lock' = None
            /\ match' = [match EXCEPT ![c] = None]
            /\ Goto(c, "top")
            /\ UNCHANGED died
  /\ UNCHANGED <<hello, seen, line, target, dest, sock, isNil, gotToken, buddy,
                 got>>

-----------------------------------------------------------------------------
(* Client.Close, of the client, then of its Buddy, and of that one's. *)

Close(c) ==
  /\ At(c, "close")
  /\ Goto(c, IF isNil[target[c]] THEN "next" ELSE "shut")
  /\ UNCHANGED <<hello, seen, line, target, match, dest, sock, fields, pending,
                 lock, died, got>>

\* conn.Close(), which two goroutines may call, and then conn = nil.
Shut(c) ==
  LET x == target[c] IN
  /\ At(c, "shut")
  /\ IF isNil[x] THEN Panic /\ UNCHANGED <<pc, sock>>
                 ELSE /\ sock' = [sock EXCEPT ![x] = "closed"]
                      /\ Goto(c, "unset")
                      /\ UNCHANGED died
  /\ UNCHANGED <<hello, seen, line, target, match, dest, fields, pending, lock,
                 got>>

Unset(c) ==
  /\ At(c, "unset")
  /\ isNil' = [isNil EXCEPT ![target[c]] = TRUE]
  /\ Goto(c, "next")
  /\ UNCHANGED <<hello, seen, line, target, match, dest, sock, gotToken,
                 sentOK, buddy, pending, lock, died, got>>

\* Mutant of CloseBuddy: the Buddy is left alone.
CloseAlone(c) ==
  /\ At(c, "next")
  /\ Goto(c, "gone")
  /\ UNCHANGED <<hello, seen, line, target, match, dest, sock, fields, pending,
                 lock, died, got>>

CloseBuddy(c) ==
  LET b == buddy[target[c]] IN
  /\ At(c, "next")
  /\ IF b # None /\ ~isNil[b]
       THEN Goto(c, "close") /\ target' = [target EXCEPT ![c] = b]
       ELSE Goto(c, "gone") /\ target' = [target EXCEPT ![c] = c]
  /\ UNCHANGED <<hello, seen, line, match, dest, sock, fields, pending, lock,
                 died, got>>

-----------------------------------------------------------------------------

\* What the goroutine of a client does without its peer.
ServerStep(c) ==
  \/ NewReader(c)
  \/ ReadFails(c)
  \/ Handle(c)
  \/ Pipe(c)
  \/ Write(c)
  \/ Impatient(c)
  \/ Wait(c)
  \/ Match(c)
  \/ Bond(c)
  \/ OkMatch(c)
  \/ OkSelf(c)
  \/ Close(c)
  \/ Shut(c)
  \/ Unset(c)
  \/ CloseBuddy(c)

Step(c) == ReadLine(c) \/ ServerStep(c)

Next == \E c \in Conns : Cut(c) \/ Step(c)

Spec == Init /\ [][Next]_vars

\* A goroutine in a write that the peer at its other end may hold up: a socket
\* that is open and that nobody reads fills up.
Writing(c) ==
  \/ pc[c] = "write" /\ sock[dest[c]] = "open"
  \/ pc[c] = "ok" /\ sock[match[c]] = "open"
  \/ pc[c] \in {"okself", "impatient"} /\ sock[c] = "open"

\* Go runs every goroutine that is not blocked, and a write to a peer that left
\* fails.  No peer has to send, to read or to leave.
Fairness == \A c \in Conns : WF_vars(ServerStep(c) /\ ~Writing(c))

FairSpec == Spec /\ Fairness

-----------------------------------------------------------------------------
(* Properties. *)

\* Whoever steals whose buddy, a line is only ever written to a peer that
\* named the sender's token, and for another side.
PipedByToken ==
  \A d \in Conns : \A i \in DOMAIN got[d] :
    LET c == got[d][i].from IN
    /\ Token(c) # None /\ Token(c) = Token(d)
    /\ Side(c) # None /\ Side(d) # None => Side(c) # Side(d)

\* A peer is written the lines of another at most once and in the order they
\* were sent, and never the line that named the token.
PipedInOrder ==
  \A d \in Conns : \A j \in DOMAIN got[d] :
    /\ got[d][j].line > 1
    /\ \A i \in 1 .. j - 1 :
         got[d][i].from = got[d][j].from => got[d][i].line < got[d][j].line

\* The goroutines, step by step, are a TransitWire: a line is in the hands of
\* the goroutine that read it until handleData is through with it.
Wire == INSTANCE TransitWire WITH
  Clients <- Conns,
  asks <- hello,
  taken <- seen,
  held <- line,
  open <- {c \in Conns : sock[c] = "open"}

WireSpec == Wire!Spec

\* A client that was told "ok" takes its Buddy along when it goes, also when
\* another was connected with it meanwhile: once no two are being connected,
\* and unless the process died, the Buddy it has by now is closed too.
BuddyGoesToo ==
  ~died /\ lock = None =>
    \A c \in Conns : pc[c] = "gone" /\ sentOK[c] => isNil[buddy[c]]

\* When a connected peer leaves, both sockets are closed in the end, whoever
\* is whose buddy by then: the goroutine that finds out closes its own and
\* its Buddy's, also if it was piping a line, unless it hangs forever in that
\* Write, to a peer that stays and reads no more.
Released(c) ==
  sock[c] = "closed" /\ \E b \in Conns : b = buddy[c] /\ sock[b] = "closed"

LeaverIsReleased ==
  \A c \in Conns :
    \/ <>[](pc[c] = "write" /\ Writing(c))
    \/ sentOK[c] /\ sock[c] = "cut" ~> died \/ Released(c)

\* Nobody waits forever for the lock, which connectWith holds over two writes,
\* unless one of those hangs: whatever happens to the two clients meanwhile.
TokenIsProcessed ==
  \A c \in Conns :
    \/ <>[](lock # None /\ Writing(lock))
    \/ pc[c] = "token" ~> died \/ pc[c] # "token"

-----------------------------------------------------------------------------
(* What comments in the code say, and the code does not do. *)

\* "Close shutsdown the client connection and frees any resources we may be
\* consuming" (transit/client.go:38-39): a client that is closed is no
\* longer offered to the next one with its token.
ClosedIsForgotten ==
  \A t \in Tokens, c \in Conns : pending[t] = c => pc[c] # "gone"

=============================================================================
