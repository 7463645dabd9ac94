---------------------------- MODULE TransitWire ----------------------------
(***************************************************************************)
(* What the transit server promises its clients, whoever is whose Buddy at *)
(* the moment: a line that was taken from a client is dropped, or written  *)
(* once, to one client, that is connected, is another one than the sender, *)
(* and asked for the same token from another side; and what a client sends *)
(* is written in the order it was sent in.                                 *)
(***************************************************************************)
EXTENDS Naturals, Sequences

CONSTANTS Clients, Hellos, MaxLines, None

VARIABLES
  asks,   \* [token, side] each client names in its first line
  taken,  \* how many lines were taken from each client
  held,   \* the one taken and not yet written or dropped, or 0
  open,   \* who can be written to
  got     \* what was written to each client, [from, line]

wire == <<asks, taken, held, open, got>>

Mates(c, d) ==
  /\ asks[c].token # None /\ asks[c].token = asks[d].token
  /\ asks[c].side # None /\ asks[d].side # None => asks[c].side # asks[d].side

Init ==
  /\ asks \in [Clients -> Hellos]
  /\ taken = [c \in Clients |-> 0]
  /\ held = [c \in Clients |-> 0]
  /\ open = Clients
  /\ got = [c \in Clients |-> <<>>]

\* Lines may be lost between one that is taken and the next.
Take(c) ==
  /\ held[c] = 0
  /\ \E n \in taken[c] + 1 .. MaxLines : taken' = [taken EXCEPT ![c] = n]
  /\ held' = [held EXCEPT ![c] = taken[c] + 1]
  /\ UNCHANGED <<asks, open, got>>

Drop(c) ==
  /\ held[c] # 0
  /\ held' = [held EXCEPT ![c] = 0]
  /\ UNCHANGED <<asks, taken, open, got>>

\* The first line is the server's own.
Write(c, d) ==
  /\ held[c] > 1
  /\ d \in open /\ d # c /\ Mates(c, d)
  /\ got' = [got EXCEPT ![d] = Append(@, [from |-> c, line |-> held[c]])]
  /\ held' = [held EXCEPT ![c] = 0]
  /\ UNCHANGED <<asks, taken, open>>

Lose(d) ==
  /\ d \in open
  /\ open' = open \ {d}
  /\ UNCHANGED <<asks, taken, held, got>>

Next ==
  \/ \E c \in Clients : Take(c) \/ Drop(c) \/ Lose(c)
  \/ \E c, d \in Clients : Write(c, d)

Spec == Init /\ [][Next]_wire

=============================================================================
