---------------------------- MODULE MCCleaning ----------------------------
(* Cleaning for TLC: connections are interchangeable, and a bound on what  *)
(* is explored: a client that claims a nameplate opens no other mailbox,   *)
(* the message is not added again while it is stored, and no handler runs  *)
(* beside the sweeps that look for what is older than the run, whose list  *)
(* is empty.                                                               *)
EXTENDS Cleaning, TLC

CleaningSymmetry == Permutations(Conns)

ClaimsOrOpens ==
  \A c \in Conns :
    ~ /\ sess[c].claimed \/ frame[c].cmd = "claim"
      /\ sess[c].mailbox # None \/ frame[c].cmd = "open"

FirstSweepAlone ==
  cleaner.pc # "idle" /\ cleaner.since < 0 => Running = {}

AddsOnce == \A c \in Conns : At(c, "add_insert") => messages = {}

=============================================================================
