-------------------------- MODULE MCPurchaseTask --------------------------
(* One ticket type of one event, for TLC.                                  *)
EXTENDS PurchaseTask, TLC

CONSTANTS vip, concert

MCEventOf == [t \in TicketTypes |-> concert]
Symmetry  == Permutations(Tasks) \cup Permutations(Workers)
                \cup Permutations(Keys) \cup Permutations(Reservations)
=============================================================================
