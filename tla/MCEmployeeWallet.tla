-------------------------- MODULE MCEmployeeWallet --------------------------
(* Symmetry sets for the runs of EmployeeWallet. *)
EXTENDS EmployeeWallet, TLC

MCSymmetry == Permutations(Payments) \cup Permutations(Withdrawals)
                \cup Permutations(Handlers)
=============================================================================
