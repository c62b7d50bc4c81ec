--------------------------- MODULE MCStaleWrites ---------------------------
(* One ticket type of one event, for TLC.                                  *)
EXTENDS StaleWrites, TLC

CONSTANTS vip, concert

MCEventOf == [t \in {vip} |-> concert]
Symmetry  == Permutations(Reservations) \cup Permutations(Keys)
=============================================================================
