----------------------------- MODULE MCTransit -----------------------------
(* Transit for TLC: clients, tokens and sides are interchangeable. *)
EXTENDS Transit, FiniteSetsExt, TLC

Symmetry ==
  Permutations(Conns) \cup Permutations(Tokens) \cup Permutations(Sides)

AllName == \A c \in Conns : Token(c) # None

\* Only one peer sends more than its first line.
OneTalks == \A c, d \in Conns : c # d => seen[c] <= 1 \/ seen[d] <= 1

\* A bound on the states: while no peer has left unnoticed, one of them sends
\* all its lines, or they send one line more than there are peers in all; while
\* one has, they send one less.
FewLines ==
  LET all == MapThenSumSet(LAMBDA c : seen[c], Conns)
      left == Cardinality({c \in Conns : sock[c] = "cut"})
  IN \/ left = 0 /\ all <= Cardinality(Conns) + 1
     \/ left = 0 /\ OneTalks
     \/ left = 1 /\ all <= Cardinality(Conns)

\* A bound on what the peers do, of whom no fairness is assumed: only one, and
\* it does not matter which, sends more than its first line.
Talker == CHOOSE c \in Conns : TRUE

OtherIsQuiet == \A c \in Conns \ {Talker} : seen[c] <= 1

LeaveInit == Init /\ AllName

LeaveSpec == LeaveInit /\ [][Next /\ OtherIsQuiet']_vars /\ Fairness

=============================================================================
