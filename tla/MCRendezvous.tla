---------------------------- MODULE MCRendezvous ----------------------------
(* Rendezvous for TLC: connections and, unless a nameplate is also a side, sides are
   interchangeable. *)
EXTENDS Rendezvous, TLC

MailboxSymmetry == Permutations(Conns) \cup Permutations(Sides)
IsolationSymmetry == Permutations(Conns) \cup Permutations(MailboxIDs)
                       \cup Permutations(AppIDs)
NameplateSymmetry == Permutations(Conns) \cup Permutations(MailboxIDs)

=============================================================================
