---------------------------- MODULE MCRowLocks ----------------------------
(* Instances of RowLocks for TLC.                                          *)
EXTENDS RowLocks, TLC

CONSTANTS vip, balcony, concert, festival

OneEvent  == [t \in TicketTypes |-> concert]
TwoEvents == (vip :> concert) @@ (balcony :> festival)

Symmetry == Permutations(Procs) \cup Permutations(Reservations)
               \cup Permutations(Keys) \cup Permutations(Users)
=============================================================================
