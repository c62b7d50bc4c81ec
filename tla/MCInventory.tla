---------------------------- MODULE MCInventory ----------------------------
(* Two ticket types of one event, one of them free, for TLC.               *)
EXTENDS Inventory, TLC

CONSTANTS vip, free, concert

MCTicketTypes == {vip, free}
MCEventOf     == [t \in MCTicketTypes |-> concert]
Symmetry      == Permutations(Reservations) \cup Permutations(Keys)
=============================================================================
