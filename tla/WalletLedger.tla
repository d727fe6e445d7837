---------------------------- MODULE WalletLedger ----------------------------
(***************************************************************************)
(* The withdrawable wallet of one owner (WalletAccount): settlement of     *)
(* completed jobs, the dispute hold and its release, clawbacks, and        *)
(* withdrawals through RazorpayX, whose answers come back as webhooks.     *)
(*                                                                         *)
(* credit[j] are the JOB_CREDIT rows of job j, oldest first; the other     *)
(* kinds of ledger rows differ in number only and are counted.  A row is   *)
(* due when hold_release_at has passed.  request[w] is a WithdrawalRequest *)
(* with its WITHDRAWAL_DEBIT and REFUND_ADJUSTMENT rows; linked says that  *)
(* debit_ledger_entry is set.  All transactions run READ COMMITTED, and    *)
(* only the webhook locks a row.                                           *)
(***************************************************************************)
EXTENDS FiniteSetsExt, Integers, Sequences

CONSTANTS
    Jobs,          \* completed jobs whose payee is this wallet
    Withdrawals,   \* ids of withdrawal requests
    Callers,       \* processes that settle or claw back a job
    Executors,     \* processes that carry out a withdrawal
    Net,           \* what a job pays its worker
    Commission,    \* what the platform keeps of a job
    CashJobs,      \* jobs the customer pays in cash
    Amounts,       \* sums asked for
    DailyCap,      \* withdrawal_limit_for_tier
    MaxClawbacks,  \* bound: CLAWBACK_DEBIT rows of one job
    MaxRefunds,    \* bound: REFUND_ADJUSTMENT rows of one request
    MaxPayouts,    \* bound: payouts of one request RazorpayX has yet to decide
    None

ASSUME WalletLedgerAssumption ==
    /\ Net \in [Jobs -> Nat] /\ Commission \in [Jobs -> Nat]
    /\ CashJobs \subseteq Jobs
    /\ Amounts \subseteq Nat \ {0}
    /\ DailyCap \in Nat /\ MaxClawbacks \in Nat
    /\ MaxRefunds \in Nat /\ MaxPayouts \in Nat
    /\ IsFiniteSet(Callers)
    /\ None \notin Jobs \cup Withdrawals

VARIABLES
    credit,      \* [Jobs -> Seq(CreditRow)]
    clawbacks,   \* [Jobs -> Nat]: CLAWBACK_DEBIT rows
    caller,      \* what a settlement or a clawback read before it writes
    request,     \* [Withdrawals -> RequestRow]
    executor,    \* what a withdrawal being carried out holds
    undecided,   \* [Withdrawals -> Nat]: payouts RazorpayX accepted
    events,      \* webhooks RazorpayX has sent and may send again
    configured   \* is_configured: RazorpayX credentials are in the settings

ledgerVars == <<credit, clawbacks, caller>>
payoutVars == <<request, executor, undecided, events, configured>>
vars == <<credit, clawbacks, caller,
          request, executor, undecided, events, configured>>

CreditRow == [status : {"HELD", "RELEASED", "CLAWED_BACK"}, due : BOOLEAN]

\* "absent": the id is not used yet; "rolled back": used by a transaction that
\* never committed, so that no row has it.
RequestRow ==
    [ status  : {"absent", "rolled back", "PROCESSING", "SUCCESS", "FAILED",
                 "AWAITING_RAZORPAYX_ACTIVATION"},
      amount  : Nat,
      today   : BOOLEAN,      \* requested_at is of this day
      linked  : BOOLEAN,
      debits  : Nat,
      refunds : Nat ]

PayoutEvent == {"payout.processed", "payout.failed", "payout.reversed"}

NoRow == [status |-> "absent", amount |-> 0, today |-> FALSE, linked |-> FALSE,
          debits |-> 0, refunds |-> 0]
IdleCaller == [pc |-> "idle", job |-> None, index |-> 0, read |-> "HELD"]
IdleExecutor == [pc |-> "idle", w |-> None, row |-> NoRow]

TypeOK ==
    /\ credit \in [Jobs -> Seq(CreditRow)]
    /\ clawbacks \in [Jobs -> Nat]
    /\ caller \in [Callers -> [pc : {"idle", "settling", "clawing"},
                               job : Jobs \cup {None}, index : Nat,
                               read : {"HELD", "RELEASED", "CLAWED_BACK"}]]
    /\ request \in [Withdrawals -> RequestRow]
    /\ executor \in [Executors -> [pc : {"idle", "checked", "accepted"},
                                   w : Withdrawals \cup {None}, row : RequestRow]]
    /\ undecided \in [Withdrawals -> Nat]
    /\ events \subseteq Withdrawals \X PayoutEvent
    /\ configured \in BOOLEAN

Init ==
    /\ credit = [j \in Jobs |-> << >>]
    /\ clawbacks = [j \in Jobs |-> 0]
    /\ caller = [p \in Callers |-> IdleCaller]
    /\ request = [w \in Withdrawals |-> NoRow]
    /\ executor = [x \in Executors |-> IdleExecutor]
    /\ undecided = [w \in Withdrawals |-> 0]
    /\ events = {}
    /\ configured \in BOOLEAN

-----------------------------------------------------------------------------
(***************************************************************************)
(* Balances.                                                               *)
(***************************************************************************)

ReleasedCredits(j) ==
    Cardinality({i \in DOMAIN credit[j] : credit[j][i].status = "RELEASED"})

\* The commission of a job paid online is a RELEASED row from the start; that of
\* a cash job stays HELD.
EarnedBy(j) ==
    Net[j] * (ReleasedCredits(j) - clawbacks[j])
      - (IF j \in CashJobs THEN 0 ELSE Commission[j] * Len(credit[j]))

\* current_balance: every RELEASED row of the wallet.
Balance ==
    MapThenSumSet(EarnedBy, Jobs)
      + MapThenSumSet(LAMBDA w : request[w].amount * (request[w].refunds - request[w].debits),
                      Withdrawals)

\* _today_withdrawn_total: requests that wait for activation do not count.
WithdrawnToday ==
    MapThenSumSet(LAMBDA w : request[w].amount,
                  {w \in Withdrawals : /\ request[w].today
                                       /\ request[w].status \in {"PROCESSING", "SUCCESS"}})

-----------------------------------------------------------------------------
(***************************************************************************)
(* Settlement, release and clawback.                                       *)
(***************************************************************************)

\* Mutant: the settlement does not look for a JOB_CREDIT.
SettleReadsUnchecked(p, j) ==
    /\ caller[p] = IdleCaller
    /\ caller' = [caller EXCEPT ![p] = [IdleCaller EXCEPT !.pc = "settling", !.job = j]]
    /\ UNCHANGED <<credit, clawbacks, payoutVars>>

\* settle_completed_job found no JOB_CREDIT.
SettleReads(p, j) ==
    /\ caller[p] = IdleCaller
    /\ credit[j] = << >>
    /\ caller' = [caller EXCEPT ![p] = [IdleCaller EXCEPT !.pc = "settling", !.job = j]]
    /\ UNCHANGED <<credit, clawbacks, payoutVars>>

\* Credit and commission commit together with the mirror in the EmployeeWallet.
SettleWrites(p) ==
    /\ caller[p].pc = "settling"
    /\ credit' = [credit EXCEPT ![caller[p].job] =
                    Append(@, [status |-> "HELD", due |-> FALSE])]
    /\ caller' = [caller EXCEPT ![p] = IdleCaller]
    /\ UNCHANGED <<clawbacks, payoutVars>>

\* The job has no payment yet, or the mirror's unique key collides with that of a
\* settlement that committed meanwhile: a database error that is caught still
\* rolls the whole transaction back.
SettleRollsBack(p) ==
    /\ caller[p].pc = "settling"
    /\ caller' = [caller EXCEPT ![p] = IdleCaller]
    /\ UNCHANGED <<credit, clawbacks, payoutVars>>

HoldElapses(j) ==
    /\ \E i \in DOMAIN credit[j] :
          /\ ~ credit[j][i].due
          /\ credit' = [credit EXCEPT ![j][i].due = TRUE]
    /\ UNCHANGED <<clawbacks, caller, payoutVars>>

\* Mutant: the update does not ask for HELD rows.
ReleaseDueHoldsOfAnyStatus ==
    /\ \E j \in Jobs : \E i \in DOMAIN credit[j] : credit[j][i].due
    /\ credit' = [j \in Jobs |-> [i \in DOMAIN credit[j] |->
                    IF credit[j][i].due THEN [credit[j][i] EXCEPT !.status = "RELEASED"]
                    ELSE credit[j][i]]]
    /\ UNCHANGED <<clawbacks, caller, payoutVars>>

\* Mutant: the credits of cash jobs are left to be netted, as their commission is.
ReleaseDueHoldsPaidOnline ==
    /\ \E j \in Jobs \ CashJobs : \E i \in DOMAIN credit[j] :
          credit[j][i].due /\ credit[j][i].status = "HELD"
    /\ credit' = [j \in Jobs |-> [i \in DOMAIN credit[j] |->
                    IF j \notin CashJobs /\ credit[j][i] = [status |-> "HELD", due |-> TRUE]
                    THEN [credit[j][i] EXCEPT !.status = "RELEASED"] ELSE credit[j][i]]]
    /\ UNCHANGED <<clawbacks, caller, payoutVars>>

\* release_due_holds: one UPDATE.
ReleaseDueHolds ==
    /\ \E j \in Jobs : \E i \in DOMAIN credit[j] :
          credit[j][i].due /\ credit[j][i].status = "HELD"
    /\ credit' = [j \in Jobs |-> [i \in DOMAIN credit[j] |->
                    IF credit[j][i] = [status |-> "HELD", due |-> TRUE]
                    THEN [credit[j][i] EXCEPT !.status = "RELEASED"] ELSE credit[j][i]]]
    /\ UNCHANGED <<clawbacks, caller, payoutVars>>

\* clawback_job takes the newest JOB_CREDIT, without a lock.
ClawbackReads(p, j) ==
    /\ caller[p] = IdleCaller
    /\ credit[j] # << >>
    /\ clawbacks[j] < MaxClawbacks
    /\ caller' = [caller EXCEPT ![p] = [pc |-> "clawing", job |-> j, index |-> Len(credit[j]),
                                        read |-> credit[j][Len(credit[j])].status]]
    /\ UNCHANGED <<credit, clawbacks, payoutVars>>

ClawbackWrites(p) ==
    /\ caller[p].pc = "clawing"
    /\ LET c == caller[p]
       IN \/ /\ c.read = "HELD"
             /\ credit' = [credit EXCEPT ![c.job][c.index].status = "CLAWED_BACK"]
             /\ UNCHANGED clawbacks
          \/ /\ c.read = "RELEASED"
             /\ clawbacks' = [clawbacks EXCEPT ![c.job] = @ + 1]
             /\ UNCHANGED credit
          \/ /\ c.read = "CLAWED_BACK"
             /\ UNCHANGED <<credit, clawbacks>>
    /\ caller' = [caller EXCEPT ![p] = IdleCaller]
    /\ UNCHANGED payoutVars

-----------------------------------------------------------------------------
(***************************************************************************)
(* Withdrawals.  A request is checked, created and carried out in one      *)
(* transaction, so that nothing of it is seen before the last step.        *)
(***************************************************************************)

\* request_withdrawal, for its owner or for run_scheduled_withdrawals.
RequestChecks(x, w, amount) ==
    /\ executor[x] = IdleExecutor
    /\ request[w].status = "absent" /\ \A y \in Executors : executor[y].w # w
    /\ amount <= Balance
    /\ WithdrawnToday + amount <= DailyCap
    /\ executor' = [executor EXCEPT ![x] =
                      [pc |-> "checked", w |-> w, row |-> [NoRow EXCEPT !.amount = amount]]]
    /\ UNCHANGED <<ledgerVars, request, undecided, events, configured>>

\* retry_pending_activations has listed the request; nothing locks its row.
RetryLists(x, w) ==
    /\ executor[x] = IdleExecutor
    /\ configured
    /\ request[w].status = "AWAITING_RAZORPAYX_ACTIVATION"
    /\ executor' = [executor EXCEPT ![x] = [pc |-> "checked", w |-> w, row |-> request[w]]]
    /\ UNCHANGED <<ledgerVars, request, undecided, events, configured>>

\* The row once the transaction of x has committed status s.
Saved(x, s) ==
    LET e == executor[x]
    IN [(IF e.row.status = "absent" THEN [e.row EXCEPT !.today = TRUE] ELSE request[e.w])
          EXCEPT !.status = s]

Finish(x, row) ==
    /\ request' = [request EXCEPT ![executor[x].w] = row]
    /\ executor' = [executor EXCEPT ![x] = IdleExecutor]

\* execute_withdrawal without credentials.
Postpone(x) ==
    /\ executor[x].pc = "checked"
    /\ ~ configured
    /\ Finish(x, Saved(x, "AWAITING_RAZORPAYX_ACTIVATION"))
    /\ UNCHANGED <<ledgerVars, undecided, events, configured>>

\* Mutant: the debit is posted before the call, and not undone when it is refused.
PayoutRefusedAfterDebit(x) ==
    /\ executor[x].pc = "checked"
    /\ configured
    /\ Finish(x, [Saved(x, "FAILED") EXCEPT !.linked = TRUE, !.debits = @ + 1])
    /\ UNCHANGED <<ledgerVars, undecided, events, configured>>

PayoutRefused(x) ==
    /\ executor[x].pc = "checked"
    /\ configured
    /\ Finish(x, Saved(x, "FAILED"))
    /\ UNCHANGED <<ledgerVars, undecided, events, configured>>

\* payout.create has reached RazorpayX, which answers or lets the call time out.
PayoutAccepted(x) ==
    /\ executor[x].pc = "checked"
    /\ configured
    /\ undecided[executor[x].w] < MaxPayouts
    /\ executor' = [executor EXCEPT ![x].pc = "accepted"]
    /\ undecided' = [undecided EXCEPT ![executor[x].w] = @ + 1]
    /\ UNCHANGED <<ledgerVars, request, events, configured>>

PayoutTimesOut(x) ==
    /\ executor[x].pc = "accepted"
    /\ Finish(x, Saved(x, "FAILED"))
    /\ UNCHANGED <<ledgerVars, undecided, events, configured>>

\* Mutant: a request that was debited before is not debited again.
PayoutRecordedOnce(x) ==
    /\ executor[x].pc = "accepted"
    /\ LET row == Saved(x, "PROCESSING")
       IN Finish(x, IF row.linked THEN row ELSE [row EXCEPT !.linked = TRUE, !.debits = 1])
    /\ UNCHANGED <<ledgerVars, undecided, events, configured>>

\* The status and the debit commit together.
PayoutRecorded(x) ==
    /\ executor[x].pc = "accepted"
    /\ Finish(x, [Saved(x, "PROCESSING") EXCEPT !.linked = TRUE, !.debits = @ + 1])
    /\ UNCHANGED <<ledgerVars, undecided, events, configured>>

\* The process dies, and with it its transaction.
Crash(x) ==
    /\ executor[x].pc # "idle"
    /\ LET e == executor[x]
       IN Finish(x, [request[e.w] EXCEPT !.status =
                       IF e.row.status = "absent" THEN "rolled back" ELSE @])
    /\ UNCHANGED <<ledgerVars, undecided, events, configured>>

CredentialsAdded ==
    /\ ~ configured
    /\ configured' = TRUE
    /\ UNCHANGED <<ledgerVars, request, executor, undecided, events>>

NextDay ==
    /\ \E w \in Withdrawals : request[w].today
    /\ request' = [w \in Withdrawals |-> [request[w] EXCEPT !.today = FALSE]]
    /\ UNCHANGED <<ledgerVars, executor, undecided, events, configured>>

-----------------------------------------------------------------------------
(***************************************************************************)
(* RazorpayX, and the webhook that hears of its decisions.  It delivers    *)
(* every event at least once and in any order, or the row is not there yet *)
(* when it does.                                                           *)
(***************************************************************************)

PayoutDecided(w) ==
    /\ undecided[w] > 0
    /\ undecided' = [undecided EXCEPT ![w] = @ - 1]
    /\ \E event \in {"payout.processed", "payout.failed"} : events' = events \cup {<<w, event>>}
    /\ UNCHANGED <<ledgerVars, request, executor, configured>>

PayoutReversed(w) ==
    /\ <<w, "payout.processed">> \in events
    /\ events' = events \cup {<<w, "payout.reversed">>}
    /\ UNCHANGED <<ledgerVars, request, executor, undecided, configured>>

\* handle_payout_webhook finds the row and locks it; one that has the status of
\* the event already is left alone.
WebhookProcessed(w) ==
    /\ <<w, "payout.processed">> \in events
    /\ request[w].status \notin {"absent", "rolled back", "SUCCESS"}
    /\ request' = [request EXCEPT ![w].status = "SUCCESS"]
    /\ UNCHANGED <<ledgerVars, executor, undecided, events, configured>>

\* Mutant: a repeated delivery refunds again.
WebhookFailsAgain(w) ==
    /\ <<w, "payout.failed">> \in events \/ <<w, "payout.reversed">> \in events
    /\ request[w].status \notin {"absent", "rolled back"}
    /\ request[w].refunds < MaxRefunds
    /\ request' = [request EXCEPT ![w].status = "FAILED",
                                  ![w].refunds = IF request[w].linked THEN @ + 1 ELSE @]
    /\ UNCHANGED <<ledgerVars, executor, undecided, events, configured>>

WebhookFailed(w) ==
    /\ <<w, "payout.failed">> \in events \/ <<w, "payout.reversed">> \in events
    /\ request[w].status \notin {"absent", "rolled back", "FAILED"}
    /\ request[w].refunds < MaxRefunds
    /\ request' = [request EXCEPT ![w].status = "FAILED",
                                  ![w].refunds = IF request[w].linked THEN @ + 1 ELSE @]
    /\ UNCHANGED <<ledgerVars, executor, undecided, events, configured>>

-----------------------------------------------------------------------------
CallerStep(p) ==
    \/ SettleWrites(p) \/ SettleRollsBack(p) \/ ClawbackWrites(p)
    \/ \E j \in Jobs : SettleReads(p, j) \/ ClawbackReads(p, j)

ExecutorStep(x) ==
    \/ \E w \in Withdrawals, amount \in Amounts : RequestChecks(x, w, amount)
    \/ \E w \in Withdrawals : RetryLists(x, w)
    \/ Postpone(x) \/ PayoutRefused(x) \/ PayoutAccepted(x)
    \/ PayoutTimesOut(x) \/ PayoutRecorded(x) \/ Crash(x)

ProviderStep(w) ==
    PayoutDecided(w) \/ PayoutReversed(w) \/ WebhookProcessed(w) \/ WebhookFailed(w)

Next ==
    \/ \E p \in Callers : CallerStep(p)
    \/ ReleaseDueHolds
    \/ \E j \in Jobs : HoldElapses(j)
    \/ \E x \in Executors : ExecutorStep(x)
    \/ \E w \in Withdrawals : ProviderStep(w)
    \/ CredentialsAdded \/ NextDay

Spec == Init /\ [][Next]_vars

\* release_wallet_holds --loop passes every 15 minutes, and time goes on.
FairSpec ==
    /\ Spec
    /\ WF_vars(ReleaseDueHolds)
    /\ \A j \in Jobs : WF_vars(HoldElapses(j))

-----------------------------------------------------------------------------
(***************************************************************************)
(* Properties.                                                             *)
(***************************************************************************)

SentProcessed(w) == <<w, "payout.processed">> \in events

\* handle_payout_webhook never gives back more than was taken, however often the
\* failure of a payout is delivered and however often it was tried: a refund
\* needs a debit of its own, unless RazorpayX also said it had paid.
RefundsCovered ==
    \A w \in Withdrawals :
        ~ SentProcessed(w) => request[w].refunds <= request[w].debits

\* While a payout is under way (PROCESSING) its amount is missing from the
\* balance, also after an earlier attempt was refunded.
InFlightIsDebited ==
    \A w \in Withdrawals :
        request[w].status = "PROCESSING" /\ ~ SentProcessed(w)
          => request[w].refunds < request[w].debits

SentFailed(w) == <<w, "payout.failed">> \in events \/ <<w, "payout.reversed">> \in events

\* RazorpayX has accepted a payout of request w.
PaidOut(w) == undecided[w] > 0 \/ SentProcessed(w) \/ SentFailed(w)

\* The wallet moves with payouts only (execute_withdrawal, handle_payout_webhook):
\* what it is debited of RazorpayX has accepted, and it is refunded nothing that
\* was never debited and of which no failure was heard, whoever died, timed out
\* or carried out the request as well.  The converse is SuccessIsDebited.
MoneyFollowsPayouts ==
    \A w \in Withdrawals :
        /\ request[w].debits > 0 => PaidOut(w)
        /\ request[w].refunds > 0 => request[w].debits > 0 /\ SentFailed(w)

\* Earnings clawed back while held are never released, whichever of the sweep
\* and the clawback writes last.  CreditLifecycle below says more.
ClawedBackFinal ==
    [][\A j \in Jobs : \A i \in DOMAIN credit[j] :
          credit[j][i].status = "CLAWED_BACK"
            => credit'[j][i].status = "CLAWED_BACK"]_vars

Settling(j) == {p \in Callers : caller[p].pc = "settling" /\ caller[p].job = j}

\* Settling is idempotent but for the processes that have read the job by then
\* (settle_completed_job, retry_failed_settlements): each of them credits it
\* once, and nobody starts to settle a job that has a credit.
CreditedOncePerReader ==
    \A j \in Jobs : Len(credit[j]) + Cardinality(Settling(j)) <= Cardinality(Callers)

\* A clawback that read credit i of job j while it was held writes now.
ClawsBackAsHeld(j, i) ==
    \E p \in Callers :
        /\ caller[p] = [pc |-> "clawing", job |-> j, index |-> i, read |-> "HELD"]
        /\ caller'[p] = IdleCaller

\* The life of a credit: it begins HELD, written by a settlement that had read the
\* job; it is released only when its hold has elapsed, and clawed back only by
\* a clawback that read it HELD, which is what ReleasedNeverChanges overlooks.
\* No credit is deleted, and no hold begins anew.
CreditLives(j) ==
    /\ \A i \in DOMAIN credit[j] :
          LET s == credit[j][i]
              t == credit'[j][i]
          IN /\ i \in DOMAIN credit'[j]
             /\ s.due => t.due
             /\ \/ t.status = s.status
                \/ s.status = "HELD" /\ s.due /\ t.status = "RELEASED"
                \/ t.status = "CLAWED_BACK" /\ ClawsBackAsHeld(j, i)
    /\ \A i \in DOMAIN credit'[j] \ DOMAIN credit[j] :
          credit'[j][i] = [status |-> "HELD", due |-> FALSE] /\ Settling(j) # {}

CreditLifecycle == [][\A j \in Jobs : CreditLives(j)]_vars

\* Earnings are not held for ever, those of cash jobs and those settled twice
\* included.
HoldsEnd ==
    \A j \in Jobs :
        (\E i \in DOMAIN credit[j] : credit[j][i].status = "HELD")
          ~> (\A i \in DOMAIN credit[j] : credit[j][i].status # "HELD")

\* A credit is never changed after its release: a later clawback adds a row of
\* its own (clawback_job).  Does not hold (README, section 3).
ReleasedNeverChanges ==
    [][\A j \in Jobs : \A i \in DOMAIN credit[j] :
          credit[j][i].status = "RELEASED" => credit'[j][i].status = "RELEASED"]_vars

\* The wallet is debited of every payout RazorpayX accepted and paid: does not
\* hold.
SuccessIsDebited ==
    \A w \in Withdrawals : request[w].status = "SUCCESS" => request[w].debits > 0
=============================================================================
