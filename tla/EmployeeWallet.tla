--------------------------- MODULE EmployeeWallet ---------------------------
(***************************************************************************)
(* The wallet of one technician (vendor_wallet): earnings mirrored into it *)
(* by settlements, their release after the T+7 hold, withdrawals and the   *)
(* administrator's handling of them, adjustments and freezes.              *)
(*                                                                         *)
(* The services lock the wallet row for a whole transaction and are one    *)
(* step each.  The settlement mirror and the administrator's views read a  *)
(* row without a lock and write it later: they are two steps, and handler  *)
(* keeps what was read in between.  database is the one in the settings:   *)
(* the release command reads with select_for_update outside a transaction, *)
(* which PostgreSQL refuses and SQLite ignores; SQLite in turn refuses a   *)
(* transaction to write over what it read before.                          *)
(***************************************************************************)
EXTENDS FiniteSetsExt, Integers

CONSTANTS
    Payments,      \* JobPayment rows of this technician's jobs
    Withdrawals,   \* ids of withdrawals
    Handlers,      \* processes that serve a request or settle a job
    Pay,           \* what the technician earns with every payment
    Amounts,       \* withdrawal amounts of MIN_WITHDRAWAL and more
    Adjustments,   \* amounts an administrator credits or debits
    MaxAvailable,  \* bound: no adjustment credits beyond this balance
    None

ASSUME EmployeeWalletAssumption ==
    /\ IsFiniteSet(Payments) /\ IsFiniteSet(Withdrawals)
    /\ Pay \in Nat \ {0}
    /\ Amounts \subseteq Nat \ {0} /\ Adjustments \subseteq Nat \ {0}
    /\ MaxAvailable \in Nat
    /\ None \notin Payments \cup Withdrawals

VARIABLES
    wallet,       \* the EmployeeWallet row
    earning,      \* [Payments -> EarningRow]: SERVICE_EARNING rows
    withdrawal,   \* [Withdrawals -> WithdrawalRow]
    adjusted,     \* credits minus debits of the ADJUSTMENT rows
    verified,     \* the technician has a verified, active payout account
    handler,
    database

vars == <<wallet, earning, withdrawal, adjusted, verified, handler, database>>

Terminal == {"COMPLETED", "FAILED", "CANCELLED"}

EarningRow == [status : {"none", "PENDING_SETTLEMENT", "COMPLETED"}, due : BOOLEAN]

\* cancelRow, failRow: the CANCEL_<id> and FAIL_<id> reversals exist.
WithdrawalRow ==
    [ status : {"none", "REQUESTED", "PROCESSING"} \cup Terminal,
      amount : Nat, cancelRow : BOOLEAN, failRow : BOOLEAN ]

NoEarning == [status |-> "none", due |-> FALSE]
NoWithdrawal == [status |-> "none", amount |-> 0, cancelRow |-> FALSE, failRow |-> FALSE]
Idle == [kind |-> "idle", id |-> None, read |-> 0]

TypeOK ==
    /\ wallet \in [status : {"ACTIVE", "SUSPENDED"}, available : Int, pending : Int,
                   withdrawn : Nat]
    /\ earning \in [Payments -> EarningRow]
    /\ withdrawal \in [Withdrawals -> WithdrawalRow]
    /\ adjusted \in Int
    /\ verified \in BOOLEAN
    /\ handler \in [Handlers -> [kind : {"idle", "mirror", "withdraw", "process",
                                         "complete", "fail"},
                                 id : Payments \cup Withdrawals \cup {None}, read : Int]]
    /\ database \in {"postgresql", "sqlite"}

Init ==
    /\ wallet = [status |-> "ACTIVE", available |-> 0, pending |-> 0, withdrawn |-> 0]
    /\ earning = [p \in Payments |-> NoEarning]
    /\ withdrawal = [w \in Withdrawals |-> NoWithdrawal]
    /\ adjusted = 0
    /\ verified = FALSE
    /\ handler = [h \in Handlers |-> Idle]
    /\ database \in {"postgresql", "sqlite"}

-----------------------------------------------------------------------------
(***************************************************************************)
(* The ledger, as reconcile_wallets adds it up.                            *)
(***************************************************************************)

Reversals(row) == (IF row.cancelRow THEN 1 ELSE 0) + (IF row.failRow THEN 1 ELSE 0)

LedgerAvailable ==
    adjusted
      + Pay * Cardinality({p \in Payments : earning[p].status = "COMPLETED"})
      + MapThenSumSet(LAMBDA w : withdrawal[w].amount * (Reversals(withdrawal[w]) - 1),
                      Withdrawals)

LedgerPending == Pay * Cardinality({p \in Payments : earning[p].status = "PENDING_SETTLEMENT"})

\* Mutant: total_withdrawn is not cut off.
ReturnedInFull(row, amount) ==
    [row EXCEPT !.available = @ + amount, !.withdrawn = @ - amount]

\* What is given back to the wallet: total_withdrawn is cut off at zero.
Returned(row, amount) ==
    [row EXCEPT !.available = @ + amount,
                !.withdrawn = IF @ < amount THEN 0 ELSE @ - amount]

Begin(h, request) ==
    /\ handler[h] = Idle
    /\ handler' = [handler EXCEPT ![h] = request]

Done(h) == handler' = [handler EXCEPT ![h] = Idle]

-----------------------------------------------------------------------------
(***************************************************************************)
(* Earnings: settle_completed_job mirrors a payment, the release command   *)
(* matures it.                                                             *)
(***************************************************************************)

MirrorReads(h, p) ==
    /\ earning[p].status = "none"
    /\ Begin(h, [kind |-> "mirror", id |-> p, read |-> wallet.pending])
    /\ UNCHANGED <<wallet, earning, withdrawal, adjusted, verified, database>>

\* Mutant: the pending balance is raised also when the payment has its row.
MirrorWritesAgain(h) ==
    /\ handler[h].kind = "mirror"
    /\ database = "sqlite" => wallet.pending = handler[h].read
    /\ wallet' = [wallet EXCEPT !.pending = handler[h].read + Pay]
    /\ earning' = [earning EXCEPT ![handler[h].id].status =
                      IF @ = "none" THEN "PENDING_SETTLEMENT" ELSE @]
    /\ Done(h)
    /\ UNCHANGED <<withdrawal, adjusted, verified, database>>

\* The payment has no row yet and the settlement commits.
MirrorWrites(h) ==
    /\ handler[h].kind = "mirror"
    /\ earning[handler[h].id].status = "none"
    /\ database = "sqlite" => wallet.pending = handler[h].read
    /\ wallet' = [wallet EXCEPT !.pending = handler[h].read + Pay]
    /\ earning' = [earning EXCEPT ![handler[h].id].status = "PENDING_SETTLEMENT"]
    /\ Done(h)
    /\ UNCHANGED <<withdrawal, adjusted, verified, database>>

\* It was mirrored meanwhile, or the settlement is rolled back.
MirrorRollsBack(h) ==
    /\ handler[h].kind = "mirror"
    /\ Done(h)
    /\ UNCHANGED <<wallet, earning, withdrawal, adjusted, verified, database>>

HoldElapses(p) ==
    /\ earning[p].status = "PENDING_SETTLEMENT" /\ ~ earning[p].due
    /\ earning' = [earning EXCEPT ![p].due = TRUE]
    /\ UNCHANGED <<wallet, withdrawal, adjusted, verified, handler, database>>

\* release_wallet_settlements: all due rows of the wallet in one transaction.
ReleaseSettlements ==
    /\ database = "sqlite"
    /\ LET due == {p \in Payments :
                     earning[p] = [status |-> "PENDING_SETTLEMENT", due |-> TRUE]}
       IN /\ due # {}
          /\ earning' = [p \in Payments |-> IF p \in due
                           THEN [earning[p] EXCEPT !.status = "COMPLETED"] ELSE earning[p]]
          /\ wallet' = [wallet EXCEPT !.available = @ + Pay * Cardinality(due),
                                      !.pending = @ - Pay * Cardinality(due)]
    /\ UNCHANGED <<withdrawal, adjusted, verified, handler, database>>

-----------------------------------------------------------------------------
(***************************************************************************)
(* Requests of the technician.                                             *)
(***************************************************************************)

\* request_withdrawal looks for a verified account before it locks the wallet.
WithdrawReads(h, amount) ==
    /\ verified
    /\ Begin(h, [kind |-> "withdraw", id |-> None, read |-> amount])
    /\ UNCHANGED <<wallet, earning, withdrawal, adjusted, verified, database>>

\* Mutant: the balance is not compared again under the lock.
WithdrawWritesUnchecked(h, w) ==
    /\ handler[h].kind = "withdraw"
    /\ withdrawal[w].status = "none"
    /\ wallet.status = "ACTIVE" /\ wallet.available > 0
    /\ LET amount == handler[h].read
       IN /\ wallet' = [wallet EXCEPT !.available = @ - amount, !.withdrawn = @ + amount]
          /\ withdrawal' = [withdrawal EXCEPT ![w] =
                              [NoWithdrawal EXCEPT !.status = "REQUESTED", !.amount = amount]]
    /\ Done(h)
    /\ UNCHANGED <<earning, adjusted, verified, database>>

WithdrawWrites(h, w) ==
    /\ handler[h].kind = "withdraw"
    /\ withdrawal[w].status = "none"
    /\ wallet.status = "ACTIVE"
    /\ LET amount == handler[h].read
       IN /\ amount <= wallet.available
          /\ wallet' = [wallet EXCEPT !.available = @ - amount, !.withdrawn = @ + amount]
          /\ withdrawal' = [withdrawal EXCEPT ![w] =
                              [NoWithdrawal EXCEPT !.status = "REQUESTED", !.amount = amount]]
    /\ Done(h)
    /\ UNCHANGED <<earning, adjusted, verified, database>>

WithdrawRefused(h) ==
    /\ handler[h].kind = "withdraw"
    /\ wallet.status # "ACTIVE" \/ wallet.available < handler[h].read
    /\ Done(h)
    /\ UNCHANGED <<wallet, earning, withdrawal, adjusted, verified, database>>

\* cancel_withdrawal locks the withdrawal, then the wallet.  Once it was
\* cancelled its reference is taken.
CancelWithdrawal(w) ==
    /\ withdrawal[w].status = "REQUESTED"
    /\ ~ withdrawal[w].cancelRow
    /\ wallet' = Returned(wallet, withdrawal[w].amount)
    /\ withdrawal' = [withdrawal EXCEPT ![w].status = "CANCELLED", ![w].cancelRow = TRUE]
    /\ UNCHANGED <<earning, adjusted, verified, handler, database>>

\* add_payout_account and its verification; rejection or deactivation.
AccountChanges ==
    /\ verified' = ~ verified
    /\ UNCHANGED <<wallet, earning, withdrawal, adjusted, handler, database>>

-----------------------------------------------------------------------------
(***************************************************************************)
(* Requests of an administrator.  The three views on a withdrawal read it  *)
(* and check its status without a lock; their saves write the new status   *)
(* whatever the row holds by then.                                         *)
(***************************************************************************)

AdminReads(h, w, kind) ==
    /\ withdrawal[w].status \in
         (CASE kind = "process"  -> {"REQUESTED"}
            [] kind = "complete" -> {"PROCESSING"}
            [] kind = "fail"     -> {"REQUESTED", "PROCESSING"})
    /\ Begin(h, [kind |-> kind, id |-> w, read |-> 0])
    /\ UNCHANGED <<wallet, earning, withdrawal, adjusted, verified, database>>

AdminProcesses(h) ==
    /\ handler[h].kind = "process"
    /\ withdrawal' = [withdrawal EXCEPT ![handler[h].id].status = "PROCESSING"]
    /\ Done(h)
    /\ UNCHANGED <<wallet, earning, adjusted, verified, database>>

AdminCompletes(h) ==
    /\ handler[h].kind = "complete"
    /\ withdrawal' = [withdrawal EXCEPT ![handler[h].id].status = "COMPLETED"]
    /\ Done(h)
    /\ UNCHANGED <<wallet, earning, adjusted, verified, database>>

\* Mutant: money is given back only for a withdrawal still in processing.
AdminFailsProcessing(h) ==
    /\ handler[h].kind = "fail"
    /\ LET w == handler[h].id
           returns == withdrawal[w].status = "PROCESSING"
       IN /\ ~ withdrawal[w].failRow
          /\ wallet' = IF returns THEN Returned(wallet, withdrawal[w].amount) ELSE wallet
          /\ withdrawal' = [withdrawal EXCEPT ![w].status = "FAILED", ![w].failRow = returns]
    /\ Done(h)
    /\ UNCHANGED <<earning, adjusted, verified, database>>

\* AdminWithdrawalFailView, under the lock of the wallet; a second FAIL_<id> row
\* violates the unique constraint and everything is rolled back.
AdminFails(h) ==
    /\ handler[h].kind = "fail"
    /\ LET w == handler[h].id
       IN \/ /\ ~ withdrawal[w].failRow
             /\ wallet' = Returned(wallet, withdrawal[w].amount)
             /\ withdrawal' = [withdrawal EXCEPT ![w].status = "FAILED", ![w].failRow = TRUE]
          \/ /\ withdrawal[w].failRow
             /\ UNCHANGED <<wallet, withdrawal>>
    /\ Done(h)
    /\ UNCHANGED <<earning, adjusted, verified, database>>

AdminCredits(amount) ==
    /\ wallet.available + amount <= MaxAvailable
    /\ wallet' = [wallet EXCEPT !.available = @ + amount]
    /\ adjusted' = adjusted + amount
    /\ UNCHANGED <<earning, withdrawal, verified, handler, database>>

AdminDebits(amount) ==
    /\ amount <= wallet.available
    /\ wallet' = [wallet EXCEPT !.available = @ - amount]
    /\ adjusted' = adjusted - amount
    /\ UNCHANGED <<earning, withdrawal, verified, handler, database>>

\* set_wallet_status; LOCKED and CLOSED stop withdrawals as SUSPENDED does.
SetWalletStatus(status) ==
    /\ wallet.status # status
    /\ wallet' = [wallet EXCEPT !.status = status]
    /\ UNCHANGED <<earning, withdrawal, adjusted, verified, handler, database>>

-----------------------------------------------------------------------------
Next ==
    \/ \E h \in Handlers :
          \/ \E p \in Payments : MirrorReads(h, p)
          \/ MirrorWrites(h) \/ MirrorRollsBack(h)
          \/ \E amount \in Amounts : WithdrawReads(h, amount)
          \/ \E w \in Withdrawals : WithdrawWrites(h, w)
          \/ WithdrawRefused(h)
          \/ \E w \in Withdrawals, kind \in {"process", "complete", "fail"} :
                AdminReads(h, w, kind)
          \/ AdminProcesses(h) \/ AdminCompletes(h) \/ AdminFails(h)
    \/ \E p \in Payments : HoldElapses(p)
    \/ ReleaseSettlements
    \/ \E w \in Withdrawals : CancelWithdrawal(w)
    \/ AccountChanges
    \/ \E amount \in Adjustments : AdminCredits(amount) \/ AdminDebits(amount)
    \/ \E status \in {"ACTIVE", "SUSPENDED"} : SetWalletStatus(status)

Spec == Init /\ [][Next]_vars

-----------------------------------------------------------------------------
(***************************************************************************)
(* Properties.                                                             *)
(***************************************************************************)

Account == INSTANCE AuditedAccount WITH balance <- wallet.available,
                                        posted <- LedgerAvailable

\* The available balance follows its ledger row by row and is never overdrawn,
\* through races of withdrawals, cancellations and failures and with either
\* database ("cached aggregates", reconcile_wallets).
AvailableIsAudited == Account!Spec

\* The amount of a withdrawal that failed or was cancelled is back in the wallet,
\* in whatever order its views and its cancellation read and wrote it.
OverIsReturned ==
    \A w \in Withdrawals :
        withdrawal[w].status \in {"FAILED", "CANCELLED"} => Reversals(withdrawal[w]) > 0

\* The pending balance promises nothing that is not in the ledger and is equal to
\* it on SQLite: on PostgreSQL, where settlements lose each other's updates, it
\* falls short of the ledger and never exceeds it.
PendingIsBacked ==
    /\ 0 <= wallet.pending /\ wallet.pending <= LedgerPending
    /\ database = "sqlite" => wallet.pending = LedgerPending

\* A withdrawal that was paid out was not also given back: does not hold
\* (README, section 3).
CompletedIsNotReturned ==
    \A w \in Withdrawals :
        withdrawal[w].status = "COMPLETED" => Reversals(withdrawal[w]) = 0
=============================================================================
