---------------------------- MODULE MailboxFeed ----------------------------
(***************************************************************************)
(* What a mailbox promises the connections that listen to it: from the     *)
(* moment it joins until it leaves, a listener is handed every message,    *)
(* once, in the order all the others are handed them, and no message is    *)
(* begun before the last one reached everybody.                            *)
(*                                                                         *)
(* Messages are numbered in the order they are published.                  *)
(***************************************************************************)
EXTENDS Naturals, Sequences

CONSTANT Listeners

VARIABLES
  members,    \* who listens
  published,  \* how many messages were published
  from,       \* how many had been when a listener joined
  got         \* what it was handed since

feed == <<members, published, from, got>>

Init ==
  /\ members = {}
  /\ published = 0
  /\ from = [c \in Listeners |-> 0]
  /\ got = [c \in Listeners |-> <<>>]

CaughtUp(c) == from[c] + Len(got[c]) = published

Join(c) ==
  /\ c \notin members /\ got[c] = <<>>
  /\ members' = members \cup {c}
  /\ from' = [from EXCEPT ![c] = published]
  /\ UNCHANGED <<published, got>>

Publish ==
  /\ \A c \in members : CaughtUp(c)
  /\ published' = published + 1
  /\ UNCHANGED <<members, from, got>>

Deliver(c) ==
  /\ c \in members /\ ~CaughtUp(c)
  /\ got' = [got EXCEPT ![c] = Append(@, from[c] + Len(@) + 1)]
  /\ UNCHANGED <<members, published, from>>

Leave(c) ==
  /\ c \in members /\ CaughtUp(c)
  /\ members' = members \ {c}
  /\ UNCHANGED <<published, from, got>>

Next ==
  \/ Publish
  \/ \E c \in Listeners : Join(c) \/ Deliver(c) \/ Leave(c)

Spec == Init /\ [][Next]_feed

=============================================================================
