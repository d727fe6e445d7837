---------------------------- MODULE MCWalletLedger ----------------------------
(* Amounts for the runs of WalletLedger: a job pays for one request, not two. *)
EXTENDS WalletLedger

MCNet == [j \in Jobs |-> 4]
MCCommission == [j \in Jobs |-> 1]
=============================================================================
