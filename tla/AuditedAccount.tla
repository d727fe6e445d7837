--------------------------- MODULE AuditedAccount ---------------------------
(***************************************************************************)
(* What vendor_wallet promises of a balance: it is a cached aggregate of   *)
(* its ledger, changes by exactly what is posted there in the same step,   *)
(* and is never overdrawn.                                                 *)
(***************************************************************************)
EXTENDS Integers

VARIABLES
    balance,   \* the cached aggregate
    posted     \* credits minus debits of the ledger

Init == balance = 0 /\ posted = 0

Post ==
    /\ posted' \in Int
    /\ balance' = balance + (posted' - posted)
    /\ balance' >= 0

Spec == Init /\ [][Post]_<<balance, posted>>
=============================================================================
