------------------------------ MODULE Accounts ------------------------------
(***************************************************************************)
(* What the shop promises about the money of an order, without saying how: *)
(* an order is paid for once, what was paid never changes afterwards, and  *)
(* money goes back in positive amounts that never exceed what is left of   *)
(* it.  Module Ledger is shown to implement this.                          *)
(***************************************************************************)
EXTENDS Integers

CONSTANT Orders

VARIABLES
    sales,    \* the orders that were paid for
    paid,     \* what was paid for each of them
    kept      \* what the shop has not given back of it

accountVars == <<sales, paid, kept>>

AccountsInit ==
    /\ sales = {}
    /\ paid = [o \in Orders |-> 0]
    /\ kept = [o \in Orders |-> 0]

Sell(o) ==
    /\ o \notin sales
    /\ paid'[o] \in Nat
    /\ sales' = sales \cup {o}
    /\ paid' = [paid EXCEPT ![o] = paid'[o]]
    /\ kept' = [kept EXCEPT ![o] = paid'[o]]

GiveBack(o) ==
    /\ o \in sales
    /\ kept'[o] \in 0 .. kept[o] - 1
    /\ kept' = [kept EXCEPT ![o] = kept'[o]]
    /\ UNCHANGED <<sales, paid>>

AccountsNext == \E o \in Orders : Sell(o) \/ GiveBack(o)

AccountsSpec == AccountsInit /\ [][AccountsNext]_accountVars
=============================================================================
