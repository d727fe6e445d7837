------------------------- MODULE WalletLedger_proofs -------------------------
(***************************************************************************)
(* Theorems of WalletLedger, for any number of jobs, withdrawals and       *)
(* processes, and any amounts: its type invariant, the safety properties   *)
(* its run checks, the safety HoldsEnd rests on, and that the money moves  *)
(* with payouts only.                                                      *)
(*                                                                         *)
(* The money of a withdrawal is in its row alone, so that the argument is  *)
(* about one row (Covered) and about what a process holds of a row while   *)
(* it talks to RazorpayX (ExecutorOK): a first attempt has the id to       *)
(* itself, and a retry starts from a row that no payout was recorded in.   *)
(***************************************************************************)
EXTENDS WalletLedger, FiniteSetTheorems, SequenceTheorems, TLAPS

\* No payout of the row was recorded yet.
Untouched(r) == r.debits = 0 /\ r.refunds = 0 /\ r.linked = FALSE

\* The money of a row, given whether RazorpayX said it had paid.
Covered(r, paid) ==
    /\ r.status \in {"absent", "rolled back", "AWAITING_RAZORPAYX_ACTIVATION"} => Untouched(r)
    /\ r.status = "SUCCESS" => paid
    /\ ~ paid => /\ r.refunds <= r.debits
                 /\ r.status = "PROCESSING" => r.refunds < r.debits

CallerOK(p) ==
    /\ caller[p].pc # "idle" => caller[p].job \in Jobs
    /\ caller[p].pc = "clawing" => caller[p].index \in DOMAIN credit[caller[p].job]

ExecutorOK(x) ==
    LET e == executor[x]
    IN e.pc # "idle" =>
         /\ e.w \in Withdrawals
         /\ e.row.status = "absent" =>
              /\ Untouched(e.row)
              /\ request[e.w].status = "absent"
              /\ \A y \in Executors \ {x} : executor[y].w # e.w
         /\ e.row.status # "absent" => configured

IInv ==
    /\ TypeOK
    /\ \A p \in Callers : CallerOK(p)
    /\ \A x \in Executors : ExecutorOK(x)
    /\ \A w \in Withdrawals : Covered(request[w], SentProcessed(w))

-----------------------------------------------------------------------------
(***************************************************************************)
(* The ledger.                                                             *)
(***************************************************************************)

\* t may follow s as the credits of a job: rows are added, none is taken away, and
\* what was clawed back stays so.
Follows(t, s) ==
    /\ t \in Seq(CreditRow)
    /\ DOMAIN s \subseteq DOMAIN t
    /\ \A i \in DOMAIN s : s[i].status = "CLAWED_BACK" => t[i].status = "CLAWED_BACK"

\* A function over the indices of a sequence of credits is one, too.
LEMMA RewrittenCredits ==
    ASSUME NEW s \in Seq(CreditRow), NEW t \in [DOMAIN s -> CreditRow]
    PROVE  t \in Seq(CreditRow) /\ DOMAIN t = DOMAIN s
<1>1. Len(s) \in Nat /\ DOMAIN s = 1..Len(s)
  BY LenProperties
<1>2. t \in [1..Len(s) -> CreditRow]
  BY <1>1
<1> QED
  BY <1>1, <1>2

\* Credits that do not change follow themselves.
LEMMA FollowsSelf ==
    ASSUME NEW s \in Seq(CreditRow)
    PROVE  Follows(s, s)
  BY DEF Follows

\* A settlement appends a row.
LEMMA FollowsAppend ==
    ASSUME NEW s \in Seq(CreditRow), NEW e \in CreditRow
    PROVE  Follows(Append(s, e), s)
<1>1. /\ Append(s, e) \in Seq(CreditRow)
      /\ Len(Append(s, e)) = Len(s) + 1
      /\ \A i \in 1..Len(s) : Append(s, e)[i] = s[i]
  BY AppendProperties
<1>2. /\ Len(s) \in Nat /\ DOMAIN s = 1..Len(s)
      /\ DOMAIN Append(s, e) = 1..Len(Append(s, e))
  BY <1>1, LenProperties
<1> QED
  BY <1>1, <1>2 DEF Follows

\* A row is replaced that was not clawed back, or by one that is.
LEMMA FollowsExcept ==
    ASSUME NEW s \in Seq(CreditRow), NEW i \in DOMAIN s, NEW e \in CreditRow,
           s[i].status = "CLAWED_BACK" => e.status = "CLAWED_BACK"
    PROVE  Follows([s EXCEPT ![i] = e], s)
<1>1. s \in [DOMAIN s -> CreditRow]
  BY LenProperties
<1>2. [s EXCEPT ![i] = e] \in [DOMAIN s -> CreditRow]
  BY <1>1
<1> QED
  BY <1>1, <1>2, RewrittenCredits DEF Follows

\* A step of the ledger.
LedgerStep ==
    \/ \E p \in Callers : CallerStep(p)
    \/ ReleaseDueHolds
    \/ \E j \in Jobs : HoldElapses(j)

LedgerTyped ==
    /\ credit \in [Jobs -> Seq(CreditRow)]
    /\ clawbacks \in [Jobs -> Nat]
    /\ caller \in [Callers -> [pc : {"idle", "settling", "clawing"},
                               job : Jobs \cup {None}, index : Nat,
                               read : {"HELD", "RELEASED", "CLAWED_BACK"}]]

CreditsFollow ==
    /\ DOMAIN credit' = Jobs
    /\ \A j \in Jobs : Follows(credit'[j], credit[j])

\* Every step of the ledger keeps its types, what callers hold of it, and what was
\* clawed back.
LEMMA LedgerSteps ==
    ASSUME LedgerTyped, \A p \in Callers : CallerOK(p), LedgerStep
    PROVE  LedgerTyped' /\ CreditsFollow /\ \A p \in Callers : CallerOK(p)'
<1>0. /\ \A j \in Jobs : credit[j] \in Seq(CreditRow)
      /\ \A j \in Jobs : Follows(credit[j], credit[j])
  BY FollowsSelf DEF LedgerTyped
<1>1. ASSUME NEW p \in Callers, NEW j \in Jobs, SettleReads(p, j)
      PROVE  LedgerTyped' /\ CreditsFollow /\ \A q \in Callers : CallerOK(q)'
  BY <1>0, <1>1 DEF SettleReads, IdleCaller, LedgerTyped, CreditsFollow, CallerOK
<1>2. ASSUME NEW p \in Callers, SettleWrites(p)
      PROVE  LedgerTyped' /\ CreditsFollow /\ \A q \in Callers : CallerOK(q)'
  <2> DEFINE job == caller[p].job
             row == [status |-> "HELD", due |-> FALSE]
  <2>1. job \in Jobs /\ row \in CreditRow
    BY <1>2 DEF SettleWrites, CallerOK, CreditRow
  <2>2. Follows(Append(credit[job], row), credit[job])
    BY <1>0, <2>1, FollowsAppend
  <2>3. CreditsFollow
    BY <1>0, <1>2, <2>1, <2>2 DEF SettleWrites, LedgerTyped, CreditsFollow
  <2>4. LedgerTyped'
    BY <1>2, <2>1, <2>3 DEF SettleWrites, IdleCaller, LedgerTyped, CreditsFollow, Follows
  <2> QED
    BY <1>2, <2>3, <2>4 DEF SettleWrites, IdleCaller, LedgerTyped, CreditsFollow, Follows, CallerOK
<1>3. ASSUME NEW p \in Callers, SettleRollsBack(p)
      PROVE  LedgerTyped' /\ CreditsFollow /\ \A q \in Callers : CallerOK(q)'
  BY <1>0, <1>3 DEF SettleRollsBack, IdleCaller, LedgerTyped, CreditsFollow, CallerOK
<1>4. ASSUME NEW j \in Jobs, HoldElapses(j)
      PROVE  LedgerTyped' /\ CreditsFollow /\ \A q \in Callers : CallerOK(q)'
  <2>1. PICK i \in DOMAIN credit[j] : credit' = [credit EXCEPT ![j][i].due = TRUE]
    BY <1>4 DEF HoldElapses
  <2> DEFINE row == [credit[j][i] EXCEPT !.due = TRUE]
  <2>2. credit[j][i] \in CreditRow
    BY <1>0, <2>1, LenProperties
  <2>3. row \in CreditRow /\ row.status = credit[j][i].status
    BY <2>2 DEF CreditRow
  <2>4. Follows([credit[j] EXCEPT ![i] = row], credit[j])
    BY <1>0, <2>3, FollowsExcept
  <2>5. credit' = [credit EXCEPT ![j] = [credit[j] EXCEPT ![i] = row]]
    BY <2>1
  <2> HIDE DEF row
  <2>6. CreditsFollow
    BY <1>0, <2>4, <2>5 DEF LedgerTyped, CreditsFollow
  <2>7. UNCHANGED <<clawbacks, caller>>
    BY <1>4 DEF HoldElapses
  <2> QED
    BY <2>5, <2>6, <2>7 DEF LedgerTyped, CreditsFollow, Follows, CallerOK
<1>5. ASSUME ReleaseDueHolds
      PROVE  LedgerTyped' /\ CreditsFollow /\ \A q \in Callers : CallerOK(q)'
  <2>1. ASSUME NEW j \in Jobs
        PROVE  Follows(credit'[j], credit[j])
    <3>1. credit[j] \in [DOMAIN credit[j] -> CreditRow]
      BY <1>0, LenProperties
    <3>2. credit'[j] = [i \in DOMAIN credit[j] |->
                    IF credit[j][i] = [status |-> "HELD", due |-> TRUE]
                    THEN [credit[j][i] EXCEPT !.status = "RELEASED"] ELSE credit[j][i]]
      BY <1>5 DEF ReleaseDueHolds
    <3>3. credit'[j] \in [DOMAIN credit[j] -> CreditRow]
      BY <3>1, <3>2 DEF CreditRow
    <3>4. credit'[j] \in Seq(CreditRow) /\ DOMAIN credit'[j] = DOMAIN credit[j]
      BY <1>0, <3>3, RewrittenCredits
    <3> QED
      BY <3>2, <3>4 DEF Follows
  <2>2. CreditsFollow /\ LedgerTyped'
    BY <1>5, <2>1 DEF ReleaseDueHolds, LedgerTyped, CreditsFollow, Follows
  <2> QED
    BY <1>5, <2>2 DEF ReleaseDueHolds, CreditsFollow, Follows, CallerOK
<1>6. ASSUME NEW p \in Callers, NEW j \in Jobs, ClawbackReads(p, j)
      PROVE  LedgerTyped' /\ CreditsFollow /\ \A q \in Callers : CallerOK(q)'
  <2>1. Len(credit[j]) \in Nat /\ DOMAIN credit[j] = 1..Len(credit[j]) /\ credit[j] # << >>
    BY <1>0, <1>6, LenProperties DEF ClawbackReads
  <2>2. Len(credit[j]) \in DOMAIN credit[j]
    BY <1>0, <2>1, EmptySeq
  <2>3. credit[j][Len(credit[j])] \in CreditRow
    BY <1>0, <2>1, <2>2, ElementOfSeq
  <2>4. UNCHANGED <<credit, clawbacks>>
    BY <1>6 DEF ClawbackReads
  <2>5. LedgerTyped'
    BY <1>6, <2>1, <2>3 DEF ClawbackReads, LedgerTyped, CreditRow
  <2> QED
    BY <1>0, <1>6, <2>2, <2>4, <2>5 DEF ClawbackReads, LedgerTyped, CreditsFollow, CallerOK
<1>7. ASSUME NEW p \in Callers, ClawbackWrites(p)
      PROVE  LedgerTyped' /\ CreditsFollow /\ \A q \in Callers : CallerOK(q)'
  <2> DEFINE j == caller[p].job
             i == caller[p].index
             row == [credit[j][i] EXCEPT !.status = "CLAWED_BACK"]
  <2>1. j \in Jobs /\ i \in DOMAIN credit[j]
    BY <1>7 DEF ClawbackWrites, CallerOK
  <2>2. credit[j][i] \in CreditRow
    BY <1>0, <2>1, LenProperties
  <2>3. row \in CreditRow /\ row.status = "CLAWED_BACK"
    BY <2>2 DEF CreditRow
  <2>4. Follows([credit[j] EXCEPT ![i] = row], credit[j])
    BY <1>0, <2>1, <2>3, FollowsExcept
  <2>5. \/ credit' = [credit EXCEPT ![j] = [credit[j] EXCEPT ![i] = row]]
        \/ credit' = credit
    BY <1>7 DEF ClawbackWrites
  <2>6. /\ clawbacks' = clawbacks \/ clawbacks' = [clawbacks EXCEPT ![j] = @ + 1]
        /\ caller' = [caller EXCEPT ![p] = IdleCaller]
    BY <1>7 DEF ClawbackWrites
  <2> HIDE DEF row, j, i
  <2>7. CreditsFollow
    BY <1>0, <2>1, <2>4, <2>5 DEF LedgerTyped, CreditsFollow
  <2>8. LedgerTyped'
    BY <2>1, <2>5, <2>6, <2>7 DEF LedgerTyped, CreditsFollow, Follows, IdleCaller
  <2> QED
    BY <2>6, <2>7, <2>8 DEF LedgerTyped, CreditsFollow, Follows, IdleCaller, CallerOK
<1> QED
  BY <1>1, <1>2, <1>3, <1>4, <1>5, <1>6, <1>7 DEF LedgerStep, CallerStep

-----------------------------------------------------------------------------
(***************************************************************************)
(* Withdrawals.                                                            *)
(***************************************************************************)

\* A step of the withdrawals, their provider or its webhooks.
PayoutStep ==
    \/ \E x \in Executors : ExecutorStep(x)
    \/ \E w \in Withdrawals : ProviderStep(w)
    \/ CredentialsAdded \/ NextDay

PayoutTyped ==
    /\ request \in [Withdrawals -> RequestRow]
    /\ executor \in [Executors -> [pc : {"idle", "checked", "accepted"},
                                   w : Withdrawals \cup {None}, row : RequestRow]]
    /\ undecided \in [Withdrawals -> Nat]
    /\ events \subseteq Withdrawals \X PayoutEvent
    /\ configured \in BOOLEAN

PayoutsOK ==
    /\ PayoutTyped
    /\ \A x \in Executors : ExecutorOK(x)
    /\ \A w \in Withdrawals : Covered(request[w], SentProcessed(w))

\* The end of a transaction leaves everything in order if the row it leaves does.
LEMMA FinishKeeps ==
    ASSUME PayoutsOK, NEW x \in Executors, executor[x].pc # "idle",
           NEW row \in RequestRow, Finish(x, row),
           Covered(row, SentProcessed(executor[x].w)),
           UNCHANGED <<events, configured>>, undecided' = undecided
    PROVE  PayoutsOK'
<1> DEFINE w == executor[x].w
<1>1. w \in Withdrawals
  BY DEF PayoutsOK, ExecutorOK
<1>2. /\ request' = [request EXCEPT ![w] = row]
      /\ executor' = [executor EXCEPT ![x] = IdleExecutor]
  BY DEF Finish
<1>3. IdleExecutor \in [pc : {"idle", "checked", "accepted"},
                        w : Withdrawals \cup {None}, row : RequestRow]
  BY DEF IdleExecutor, NoRow, RequestRow
<1>4. PayoutTyped'
  BY <1>1, <1>2, <1>3 DEF PayoutsOK, PayoutTyped
<1>5. ASSUME NEW y \in Executors
      PROVE  ExecutorOK(y)'
  <2>1. CASE y = x
    BY <1>2, <2>1 DEF PayoutsOK, PayoutTyped, IdleExecutor, ExecutorOK
  <2>2. CASE y # x
    <3>1. executor'[y] = executor[y]
      BY <1>2, <2>2 DEF PayoutsOK, PayoutTyped
    <3>2. ASSUME executor[y].pc # "idle", executor[y].row.status = "absent"
          PROVE  /\ request'[executor[y].w] = request[executor[y].w]
                 /\ \A z \in Executors \ {y} : executor'[z].w # executor[y].w
      <4>1. executor[y].w \in Withdrawals /\ executor[y].w # w
        BY <2>2, <3>2 DEF PayoutsOK, ExecutorOK
      <4>2. IdleExecutor.w # executor[y].w
        BY <4>1, WalletLedgerAssumption DEF IdleExecutor
      <4> QED
        BY <1>2, <3>2, <4>1, <4>2 DEF PayoutsOK, PayoutTyped, ExecutorOK
    <3> QED
      BY <3>1, <3>2 DEF PayoutsOK, ExecutorOK
  <2> QED
    BY <2>1, <2>2
<1>6. ASSUME NEW v \in Withdrawals
      PROVE  Covered(request[v], SentProcessed(v))'
  BY <1>1, <1>2 DEF PayoutsOK, PayoutTyped, Covered, SentProcessed, Untouched
<1> QED
  BY <1>4, <1>5, <1>6 DEF PayoutsOK

\* A row a transaction saves, in terms of the row before it: it is a first attempt,
\* or it changes the status alone.
LEMMA SavedRow ==
    ASSUME PayoutsOK, NEW x \in Executors, executor[x].pc # "idle",
           NEW s \in {"PROCESSING", "FAILED", "AWAITING_RAZORPAYX_ACTIVATION"}
    PROVE  /\ Saved(x, s) \in RequestRow
           /\ Saved(x, s).status = s
           /\ \/ Untouched(Saved(x, s))
              \/ /\ configured
                 /\ Saved(x, s).debits = request[executor[x].w].debits
                 /\ Saved(x, s).refunds = request[executor[x].w].refunds
<1> DEFINE e == executor[x]
<1>1. /\ e.w \in Withdrawals /\ e.row \in RequestRow /\ request[e.w] \in RequestRow
  BY DEF PayoutsOK, PayoutTyped, ExecutorOK
<1>2. CASE e.row.status = "absent"
  BY <1>1, <1>2 DEF PayoutsOK, ExecutorOK, Saved, RequestRow, Untouched
<1>3. CASE e.row.status # "absent"
  BY <1>1, <1>3 DEF PayoutsOK, ExecutorOK, Saved, RequestRow
<1> QED
  BY <1>2, <1>3

\* Debits and refunds are counted.
LEMMA RowCounts ==
    ASSUME NEW r \in RequestRow
    PROVE  r.debits \in Nat /\ r.refunds \in Nat /\ r.linked \in BOOLEAN
  BY DEF RequestRow

\* A row that no payout was recorded in is covered, once a transaction ends.
LEMMA UntouchedIsCovered ==
    ASSUME NEW r \in RequestRow, NEW w, Untouched(r),
           r.status \notin {"PROCESSING", "SUCCESS"}
    PROVE  Covered(r, SentProcessed(w))
<1>1. r.refunds <= r.debits
  BY DEF Untouched
<1> QED
  BY <1>1, Zenon DEF Covered

\* So is one that has the money of a covered row, if its payout is not under way,
LEMMA SameMoneyIsCovered ==
    ASSUME NEW q \in RequestRow, NEW r \in RequestRow, NEW w, q.status = "FAILED",
           q.debits = r.debits, q.refunds = r.refunds, Covered(r, SentProcessed(w))
    PROVE  Covered(q, SentProcessed(w))
  BY RowCounts DEF Covered

\* or if it was debited, for the first time
LEMMA FirstDebitIsCovered ==
    ASSUME NEW q \in RequestRow, NEW r \in RequestRow, NEW w, q.status = "PROCESSING",
           q.debits = r.debits + 1, q.refunds = r.refunds, Untouched(r)
    PROVE  Covered(q, SentProcessed(w))
  BY RowCounts DEF Covered, Untouched

\* or once more.
LEMMA OneMoreDebitIsCovered ==
    ASSUME NEW q \in RequestRow, NEW r \in RequestRow, NEW w, q.status = "PROCESSING",
           q.debits = r.debits + 1, q.refunds = r.refunds, Covered(r, SentProcessed(w))
    PROVE  Covered(q, SentProcessed(w))
<1>1. ~ SentProcessed(w) => r.refunds <= r.debits
  BY Zenon DEF Covered
<1>2. r.refunds <= r.debits => q.refunds < q.debits /\ q.refunds <= q.debits
  BY RowCounts
<1> QED
  BY <1>1, <1>2, Zenon DEF Covered

\* What a recorded payout makes of a row,
LEMMA RecordedRow ==
    ASSUME NEW r \in RequestRow
    PROVE  LET row == [r EXCEPT !.linked = TRUE, !.debits = @ + 1]
           IN /\ row \in RequestRow /\ row.status = r.status
              /\ row.debits = r.debits + 1 /\ row.refunds = r.refunds
<1> DEFINE n == r.debits + 1
           row == [r EXCEPT !.linked = TRUE, !.debits = n]
<1>1. n \in Nat
  BY RowCounts
<1> HIDE DEF n
<1>2. /\ row \in RequestRow /\ row.status = r.status
      /\ row.debits = n /\ row.refunds = r.refunds
  BY <1>1 DEF RequestRow
<1>3. row = [r EXCEPT !.linked = TRUE, !.debits = @ + 1]
  BY Zenon DEF n
<1> HIDE DEF row
<1> QED
  BY <1>2, <1>3, Zenon DEF n

\* and a failed one.
LEMMA FailedRow ==
    ASSUME NEW r \in RequestRow
    PROVE  LET row == [r EXCEPT !.status = "FAILED",
                                !.refunds = IF r.linked THEN @ + 1 ELSE @]
           IN /\ row \in RequestRow /\ row.status = "FAILED"
              /\ row.debits = r.debits
              /\ row.refunds = IF r.linked THEN r.refunds + 1 ELSE r.refunds
<1> DEFINE n == IF r.linked THEN r.refunds + 1 ELSE r.refunds
<1>1. n \in Nat
  BY RowCounts
<1> HIDE DEF n
<1> DEFINE row == [r EXCEPT !.status = "FAILED", !.refunds = n]
<1>2. /\ row \in RequestRow /\ row.status = "FAILED"
      /\ row.debits = r.debits /\ row.refunds = n
  BY <1>1 DEF RequestRow
<1>3. row = [r EXCEPT !.status = "FAILED",
                      !.refunds = IF r.linked THEN @ + 1 ELSE @]
  BY Zenon DEF n
<1> HIDE DEF row
<1> QED
  BY <1>2, <1>3, Zenon DEF n

\* Midnight leaves the money of a row alone.
LEMMA YesterdaysRow ==
    ASSUME NEW r \in RequestRow
    PROVE  LET row == [r EXCEPT !.today = FALSE]
           IN /\ row \in RequestRow /\ row.status = r.status /\ row.linked = r.linked
              /\ row.debits = r.debits /\ row.refunds = r.refunds
  BY DEF RequestRow

\* Every step of a process that carries out a withdrawal keeps the invariant.
LEMMA ExecutorSteps ==
    ASSUME PayoutsOK, NEW x \in Executors, ExecutorStep(x)
    PROVE  PayoutsOK'
<1>0. ASSUME executor[x].pc # "idle"
      PROVE  /\ executor[x].w \in Withdrawals
             /\ request[executor[x].w] \in RequestRow
             /\ Covered(request[executor[x].w], SentProcessed(executor[x].w))
  BY <1>0 DEF PayoutsOK, PayoutTyped, ExecutorOK
<1>1. ASSUME NEW w \in Withdrawals, NEW amount \in Amounts, RequestChecks(x, w, amount)
      PROVE  PayoutsOK'
  <2> DEFINE row == [NoRow EXCEPT !.amount = amount]
             busy == [pc |-> "checked", w |-> w, row |-> row]
  <2>1. row \in RequestRow /\ row.status = "absent" /\ Untouched(row)
    BY WalletLedgerAssumption DEF NoRow, RequestRow, Untouched
  <2>2. /\ executor' = [executor EXCEPT ![x] = busy]
        /\ UNCHANGED <<request, undecided, events, configured>>
        /\ request[w].status = "absent" /\ \A y \in Executors : executor[y].w # w
    BY <1>1 DEF RequestChecks
  <2> HIDE DEF row
  <2>3. PayoutTyped'
    BY <2>1, <2>2 DEF PayoutsOK, PayoutTyped
  <2>4. ASSUME NEW y \in Executors
        PROVE  ExecutorOK(y)'
    BY <2>1, <2>2 DEF PayoutsOK, PayoutTyped, ExecutorOK
  <2> QED
    BY <2>2, <2>3, <2>4 DEF PayoutsOK, Covered, SentProcessed
<1>2. ASSUME NEW w \in Withdrawals, RetryLists(x, w)
      PROVE  PayoutsOK'
  <2> DEFINE busy == [pc |-> "checked", w |-> w, row |-> request[w]]
  <2>1. /\ executor' = [executor EXCEPT ![x] = busy]
        /\ UNCHANGED <<request, undecided, events, configured>>
        /\ request[w].status = "AWAITING_RAZORPAYX_ACTIVATION" /\ configured
    BY <1>2 DEF RetryLists
  <2>2. PayoutTyped'
    BY <2>1 DEF PayoutsOK, PayoutTyped
  <2>3. ASSUME NEW y \in Executors
        PROVE  ExecutorOK(y)'
    BY <2>1 DEF PayoutsOK, PayoutTyped, ExecutorOK
  <2> QED
    BY <2>1, <2>2, <2>3 DEF PayoutsOK, Covered, SentProcessed
<1>3. ASSUME Postpone(x)
      PROVE  PayoutsOK'
  <2> DEFINE row == Saved(x, "AWAITING_RAZORPAYX_ACTIVATION")
  <2>1. row \in RequestRow /\ Untouched(row) /\ row.status = "AWAITING_RAZORPAYX_ACTIVATION"
    BY <1>3, SavedRow DEF Postpone
  <2>2. Covered(row, SentProcessed(executor[x].w))
    BY <2>1, UntouchedIsCovered
  <2> QED
    BY <1>3, <2>1, <2>2, FinishKeeps DEF Postpone
<1>4. ASSUME PayoutRefused(x) \/ PayoutTimesOut(x)
      PROVE  PayoutsOK'
  <2> DEFINE row == Saved(x, "FAILED")
  <2>1. executor[x].pc # "idle"
    BY <1>4 DEF PayoutRefused, PayoutTimesOut
  <2>2. /\ row \in RequestRow /\ row.status = "FAILED"
        /\ \/ Untouched(row)
           \/ /\ row.debits = request[executor[x].w].debits
              /\ row.refunds = request[executor[x].w].refunds
    BY <2>1, SavedRow
  <2> HIDE DEF row
  <2>3. Covered(row, SentProcessed(executor[x].w))
    BY <1>0, <2>1, <2>2, UntouchedIsCovered, SameMoneyIsCovered
  <2> USE DEF row
  <2> QED
    BY <1>4, <2>1, <2>2, <2>3, FinishKeeps DEF PayoutRefused, PayoutTimesOut
<1>5. ASSUME PayoutAccepted(x)
      PROVE  PayoutsOK'
  <2>1. executor[x].pc # "idle" /\ undecided[executor[x].w] + 1 \in Nat
    BY <1>0, <1>5 DEF PayoutAccepted, PayoutsOK, PayoutTyped
  <2>2. /\ executor' = [executor EXCEPT ![x].pc = "accepted"]
        /\ UNCHANGED <<request, events, configured>>
    BY <1>5 DEF PayoutAccepted
  <2>3. PayoutTyped'
    BY <1>5, <2>1, <2>2 DEF PayoutAccepted, PayoutsOK, PayoutTyped
  <2>4. ASSUME NEW y \in Executors
        PROVE  ExecutorOK(y)'
    BY <2>1, <2>2 DEF PayoutsOK, PayoutTyped, ExecutorOK
  <2> QED
    BY <2>2, <2>3, <2>4 DEF PayoutsOK, Covered, SentProcessed
<1>6. ASSUME PayoutRecorded(x)
      PROVE  PayoutsOK'
  <2> DEFINE saved == Saved(x, "PROCESSING")
             row == [saved EXCEPT !.linked = TRUE, !.debits = @ + 1]
  <2>1. executor[x].pc # "idle"
    BY <1>6 DEF PayoutRecorded
  <2>2. /\ saved \in RequestRow /\ saved.status = "PROCESSING"
        /\ \/ Untouched(saved)
           \/ /\ saved.debits = request[executor[x].w].debits
              /\ saved.refunds = request[executor[x].w].refunds
    BY <2>1, SavedRow
  <2>3. Finish(x, row) /\ UNCHANGED <<undecided, events, configured>>
    BY <1>6 DEF PayoutRecorded
  <2> HIDE DEF saved
  <2>4. /\ row \in RequestRow /\ row.status = "PROCESSING"
        /\ row.debits = saved.debits + 1 /\ row.refunds = saved.refunds
    BY <2>2, RecordedRow
  <2> HIDE DEF row
  <2>5. Covered(row, SentProcessed(executor[x].w))
    <3>1. CASE Untouched(saved)
      BY <2>2, <2>4, <3>1, FirstDebitIsCovered
    <3>2. CASE ~ Untouched(saved)
      BY <1>0, <2>1, <2>2, <2>4, <3>2, OneMoreDebitIsCovered
    <3> QED
      BY <3>1, <3>2
  <2> QED
    BY <2>1, <2>3, <2>4, <2>5, FinishKeeps
<1>7. ASSUME Crash(x)
      PROVE  PayoutsOK'
  <2> DEFINE e == executor[x]
             row == [request[e.w] EXCEPT !.status =
                       IF e.row.status = "absent" THEN "rolled back" ELSE @]
  <2>1. e.pc # "idle" /\ Finish(x, row) /\ UNCHANGED <<undecided, events, configured>>
    BY <1>7 DEF Crash
  <2>2. row \in RequestRow
    BY <1>0, <2>1 DEF RequestRow
  <2>3. Covered(row, SentProcessed(e.w))
    BY <1>0, <2>1 DEF PayoutsOK, ExecutorOK, Covered, Untouched, RequestRow
  <2> HIDE DEF row
  <2> QED
    BY <2>1, <2>2, <2>3, FinishKeeps
<1> QED
  BY <1>1, <1>2, <1>3, <1>4, <1>5, <1>6, <1>7 DEF ExecutorStep

\* So do the decisions of RazorpayX and its webhooks, new credentials and midnight.
LEMMA OtherPayoutSteps ==
    ASSUME PayoutsOK,
           \/ \E w \in Withdrawals : ProviderStep(w)
           \/ CredentialsAdded \/ NextDay
    PROVE  PayoutsOK'
<1>1. ASSUME NEW w \in Withdrawals, PayoutDecided(w) \/ PayoutReversed(w)
      PROVE  PayoutsOK'
  <2>1. UNCHANGED <<request, executor, configured>>
    BY <1>1 DEF PayoutDecided, PayoutReversed
  <2>2. events \subseteq events' /\ events' \subseteq Withdrawals \X PayoutEvent
    BY <1>1 DEF PayoutDecided, PayoutReversed, PayoutsOK, PayoutTyped, PayoutEvent
  <2>3. undecided' \in [Withdrawals -> Nat]
    BY <1>1 DEF PayoutDecided, PayoutReversed, PayoutsOK, PayoutTyped
  <2>4. PayoutTyped'
    BY <2>1, <2>2, <2>3 DEF PayoutsOK, PayoutTyped
  <2>5. \A v \in Withdrawals : Covered(request[v], SentProcessed(v))'
    BY <2>1, <2>2 DEF PayoutsOK, Covered, SentProcessed
  <2> QED
    BY <2>1, <2>4, <2>5 DEF PayoutsOK, ExecutorOK
<1>2. ASSUME NEW w \in Withdrawals, WebhookProcessed(w) \/ WebhookFailed(w)
      PROVE  PayoutsOK'
  <2>1. /\ UNCHANGED <<executor, undecided, events, configured>>
        /\ request[w].status # "absent"
    BY <1>2 DEF WebhookProcessed, WebhookFailed
  <2>2. PICK row :
          /\ request' = [request EXCEPT ![w] = row]
          /\ row \in RequestRow /\ row.status # "absent"
          /\ Covered(row, SentProcessed(w))
    <3>0. request[w] \in RequestRow /\ Covered(request[w], SentProcessed(w))
      BY DEF PayoutsOK, PayoutTyped
    <3>1. CASE WebhookProcessed(w)
      <4> DEFINE row == [request[w] EXCEPT !.status = "SUCCESS"]
      <4>1. request' = [request EXCEPT ![w] = row] /\ SentProcessed(w)
        BY <3>1 DEF WebhookProcessed, SentProcessed
      <4>2. row \in RequestRow /\ row.status = "SUCCESS"
        BY <3>0 DEF RequestRow
      <4> QED
        BY <4>1, <4>2 DEF Covered
    <3>2. CASE WebhookFailed(w)
      <4> DEFINE row == [request[w] EXCEPT
                           !.status = "FAILED",
                           !.refunds = IF request[w].linked THEN @ + 1 ELSE @]
      <4>1. /\ request' = [request EXCEPT ![w] = row]
            /\ request[w].status \notin {"absent", "rolled back", "FAILED"}
        BY <3>2 DEF WebhookFailed
      <4>2. /\ row \in RequestRow /\ row.status = "FAILED"
            /\ row.debits = request[w].debits
            /\ row.refunds = IF request[w].linked THEN request[w].refunds + 1
                                                  ELSE request[w].refunds
        BY <3>0, FailedRow
      <4> HIDE DEF row
      <4>3. ASSUME ~ SentProcessed(w)
            PROVE  row.refunds <= row.debits
        <5>1. /\ request[w].debits \in Nat /\ request[w].refunds \in Nat
              /\ request[w].status \in {"PROCESSING", "SUCCESS",
                                        "AWAITING_RAZORPAYX_ACTIVATION"}
          BY <3>0, <4>1 DEF RequestRow
        <5>2. CASE request[w].linked
          <6>1. request[w].status = "PROCESSING"
            BY <3>0, <4>3, <5>1, <5>2 DEF Covered, Untouched
          <6>2. request[w].refunds < request[w].debits
            BY <3>0, <4>3, <6>1 DEF Covered
          <6>3. row.refunds = request[w].refunds + 1
            BY <4>2, <5>2
          <6> QED
            BY <4>2, <5>1, <6>2, <6>3
        <5>3. CASE ~ request[w].linked
          BY <3>0, <4>2, <4>3, <5>1, <5>3 DEF Covered
        <5> QED
          BY <5>2, <5>3
      <4> USE DEF row
      <4> QED
        BY <4>1, <4>2, <4>3 DEF Covered
    <3> QED
      BY <1>2, <3>1, <3>2
  <2>3. PayoutTyped'
    BY <2>1, <2>2 DEF PayoutsOK, PayoutTyped
  <2>4. ASSUME NEW x \in Executors
        PROVE  ExecutorOK(x)'
    BY <2>1, <2>2 DEF PayoutsOK, PayoutTyped, ExecutorOK
  <2>5. ASSUME NEW v \in Withdrawals
        PROVE  Covered(request[v], SentProcessed(v))'
    BY <2>1, <2>2 DEF PayoutsOK, PayoutTyped, Covered, SentProcessed
  <2> QED
    BY <2>3, <2>4, <2>5 DEF PayoutsOK
<1>3. ASSUME CredentialsAdded
      PROVE  PayoutsOK'
  BY <1>3 DEF CredentialsAdded, PayoutsOK, PayoutTyped, ExecutorOK, Covered, SentProcessed
<1>4. ASSUME NextDay
      PROVE  PayoutsOK'
  <2>1. /\ request' = [w \in Withdrawals |-> [request[w] EXCEPT !.today = FALSE]]
        /\ UNCHANGED <<executor, undecided, events, configured>>
    BY <1>4 DEF NextDay
  <2>2. ASSUME NEW w \in Withdrawals
        PROVE  /\ request'[w] \in RequestRow
               /\ request'[w].status = request[w].status
               /\ Covered(request'[w], SentProcessed(w))
    BY <2>1, YesterdaysRow DEF PayoutsOK, PayoutTyped, Covered, Untouched
  <2>3. PayoutTyped'
    BY <2>1, <2>2 DEF PayoutsOK, PayoutTyped
  <2> QED
    BY <2>1, <2>2, <2>3 DEF PayoutsOK, ExecutorOK, SentProcessed
<1> QED
  BY <1>1, <1>2, <1>3, <1>4 DEF ProviderStep

-----------------------------------------------------------------------------
(***************************************************************************)
(* The theorems.  A step of the ledger leaves the withdrawals alone, and   *)
(* the other way round.                                                    *)
(***************************************************************************)

\* Every step of the system keeps the invariant and what was clawed back.
LEMMA Steps ==
    ASSUME IInv, [Next]_vars
    PROVE  IInv' /\ CreditsFollow
<1>0. /\ LedgerTyped /\ \A p \in Callers : CallerOK(p)
      /\ PayoutsOK
  BY DEF IInv, TypeOK, LedgerTyped, PayoutTyped, PayoutsOK
<1>1. CASE LedgerStep
  <2>1. LedgerTyped' /\ CreditsFollow /\ \A p \in Callers : CallerOK(p)'
    BY <1>0, <1>1, LedgerSteps
  <2>2. UNCHANGED payoutVars
    BY <1>1 DEF LedgerStep, CallerStep, SettleReads, SettleWrites, SettleRollsBack,
                HoldElapses, ReleaseDueHolds, ClawbackReads, ClawbackWrites
  <2>3. PayoutsOK'
    BY <1>0, <2>2 DEF payoutVars, PayoutsOK, PayoutTyped, ExecutorOK, SentProcessed
  <2> QED
    BY <2>1, <2>3 DEF IInv, TypeOK, LedgerTyped, PayoutTyped, PayoutsOK
<1>2. CASE PayoutStep \/ UNCHANGED vars
  <2>1. UNCHANGED ledgerVars
    BY <1>2 DEF PayoutStep, ExecutorStep, ProviderStep, RequestChecks, RetryLists, Postpone,
                PayoutRefused, PayoutAccepted, PayoutTimesOut, PayoutRecorded, Crash,
                PayoutDecided, PayoutReversed, WebhookProcessed, WebhookFailed,
                CredentialsAdded, NextDay, ledgerVars, vars
  <2>2. /\ LedgerTyped' /\ \A p \in Callers : CallerOK(p)'
        /\ CreditsFollow
    BY <1>0, <2>1, FollowsSelf DEF ledgerVars, LedgerTyped, CallerOK, CreditsFollow
  <2>3. PayoutsOK'
    <3>1. CASE PayoutStep
      BY <1>0, <3>1, ExecutorSteps, OtherPayoutSteps DEF PayoutStep
    <3>2. CASE UNCHANGED vars
      BY <1>0, <3>2 DEF vars, PayoutsOK, PayoutTyped, ExecutorOK, SentProcessed
    <3> QED
      BY <1>2, <3>1, <3>2
  <2> QED
    BY <2>2, <2>3 DEF IInv, TypeOK, LedgerTyped, PayoutTyped, PayoutsOK
<1> QED
  BY <1>1, <1>2 DEF Next, LedgerStep, PayoutStep

\* The inductive invariant.
THEOREM Invariance == Spec => []IInv
<1>1. Init => IInv
  <2> SUFFICES ASSUME Init PROVE IInv
    OBVIOUS
  <2>1. NoRow \in RequestRow /\ Untouched(NoRow) /\ NoRow.status = "absent"
    BY DEF NoRow, RequestRow, Untouched
  <2>2. << >> \in Seq(CreditRow)
    BY EmptySeq
  <2>3. \A w \in Withdrawals : Covered(request[w], SentProcessed(w))
    BY <2>1, UntouchedIsCovered DEF Init
  <2>4. (\A p \in Callers : CallerOK(p)) /\ \A x \in Executors : ExecutorOK(x)
    BY DEF Init, CallerOK, ExecutorOK, IdleCaller, IdleExecutor
  <2>5. TypeOK
    BY <2>1, <2>2 DEF Init, TypeOK, IdleCaller, IdleExecutor
  <2> QED
    BY <2>3, <2>4, <2>5 DEF IInv
<1>2. IInv /\ [Next]_vars => IInv'
  BY Steps
<1> QED
  BY <1>1, <1>2, PTL DEF Spec

\* Every variable has its type, for every value of the constants.
THEOREM TypeCorrect == Spec => []TypeOK
<1>1. IInv => TypeOK
  BY DEF IInv
<1> QED
  BY <1>1, Invariance, PTL

\* However often RazorpayX delivers the failure of a payout, and however many
\* processes tried it, the webhook gives back no more than was taken.
THEOREM RefundsAreCovered == Spec => []RefundsCovered
<1>1. IInv => RefundsCovered
  BY DEF IInv, Covered, RefundsCovered
<1> QED
  BY <1>1, Invariance, PTL

\* A payout under way is missing from the balance.
THEOREM PayoutsAreDebited == Spec => []InFlightIsDebited
<1>1. IInv => InFlightIsDebited
  BY DEF IInv, Covered, InFlightIsDebited
<1> QED
  BY <1>1, Invariance, PTL

\* No step releases what was clawed back while held.
THEOREM ClawbacksAreFinal == Spec => ClawedBackFinal
<1>1. IInv /\ [Next]_vars =>
        [\A j \in Jobs : \A i \in DOMAIN credit[j] :
            credit[j][i].status = "CLAWED_BACK"
              => credit'[j][i].status = "CLAWED_BACK"]_vars
  BY Steps DEF CreditsFollow, Follows
<1> QED
  BY <1>1, Invariance, PTL DEF Spec, ClawedBackFinal

-----------------------------------------------------------------------------
(***************************************************************************)
(* The credits of a job: how many there are, and what becomes of each.     *)
(* Both need CallerOK only: a settlement knows its job, and a clawback its *)
(* row.                                                                    *)
(***************************************************************************)

\* Sequences with the same indices are of the same length.
LEMMA SameIndices ==
    ASSUME NEW s \in Seq(CreditRow), NEW t \in Seq(CreditRow), DOMAIN t = DOMAIN s
    PROVE  Len(t) = Len(s)
<1>1. /\ Len(s) \in Nat /\ DOMAIN s = 1..Len(s)
      /\ Len(t) \in Nat /\ DOMAIN t = 1..Len(t)
  BY LenProperties
<1> DEFINE m == Len(s)
           n == Len(t)
<1>2. m \in Nat /\ n \in Nat /\ 1..m = 1..n
  BY <1>1
<1> HIDE DEF m, n
<1>3. m <= n
  BY <1>2
<1>4. n <= m
  BY <1>2
<1>5. m = n
  BY <1>2, <1>3, <1>4
<1> QED
  BY <1>5 DEF m, n

\* What a step of the ledger does to job j: a settlement that read it writes its
\* credit, one begins to read a job without credit, or neither.
Credited(j) ==
    /\ \E p \in Settling(j) : Settling(j)' = Settling(j) \ {p}
    /\ Len(credit'[j]) = Len(credit[j]) + 1

Settlements(j) ==
    \/ Credited(j)
    \/ credit[j] = << >> /\ credit'[j] = << >>
    \/ Len(credit'[j]) = Len(credit[j]) /\ Settling(j)' \subseteq Settling(j)

\* Every step of the ledger is one of the three, and follows the life of a credit.
LEMMA CreditSteps ==
    ASSUME LedgerTyped, \A p \in Callers : CallerOK(p), LedgerStep, NEW j \in Jobs
    PROVE  Settlements(j) /\ CreditLives(j)
<1> DEFINE s == credit[j]
           t == credit'[j]
<1>0. /\ s \in Seq(CreditRow) /\ Len(s) \in Nat /\ DOMAIN s = 1..Len(s)
      /\ s \in [DOMAIN s -> CreditRow]
  BY LenProperties DEF LedgerTyped
<1>a. ASSUME t = s
      PROVE  CreditLives(j)
  BY <1>a DEF CreditLives
<1>b. ASSUME NEW i \in DOMAIN s, NEW e \in CreditRow, t = [s EXCEPT ![i] = e],
             s[i].due => e.due,
             \/ e.status = s[i].status
             \/ s[i].status = "HELD" /\ s[i].due /\ e.status = "RELEASED"
             \/ e.status = "CLAWED_BACK" /\ ClawsBackAsHeld(j, i)
      PROVE  CreditLives(j) /\ Len(t) = Len(s)
  <2>1. t \in [DOMAIN s -> CreditRow]
    BY <1>0, <1>b
  <2>2. DOMAIN t = DOMAIN s /\ Len(t) = Len(s)
    BY <1>0, <2>1, RewrittenCredits, SameIndices
  <2>3. t[i] = e /\ \A k \in DOMAIN s : k # i => t[k] = s[k]
    BY <1>0, <1>b
  <2> QED
    BY <1>b, <2>2, <2>3 DEF CreditLives
<1>1. ASSUME NEW p \in Callers, NEW i \in Jobs, SettleReads(p, i)
      PROVE  Settlements(j) /\ CreditLives(j)
  <2>1. t = s
    BY <1>1 DEF SettleReads
  <2>2. CASE i = j
    BY <1>1, <1>a, <2>1, <2>2 DEF SettleReads, Settlements
  <2>3. CASE i # j
    <3>1. Settling(j)' \subseteq Settling(j)
      BY <1>1, <2>3 DEF SettleReads, Settling, LedgerTyped, IdleCaller
    <3> QED
      BY <1>a, <2>1, <3>1 DEF Settlements
  <2> QED
    BY <2>2, <2>3
<1>2. ASSUME NEW p \in Callers, SettleWrites(p)
      PROVE  Settlements(j) /\ CreditLives(j)
  <2> DEFINE row == [status |-> "HELD", due |-> FALSE]
  <2>0. row \in CreditRow
    BY DEF CreditRow
  <2>1. /\ caller[p].pc = "settling" /\ caller' = [caller EXCEPT ![p] = IdleCaller]
        /\ credit' = [credit EXCEPT ![caller[p].job] = Append(@, row)]
    BY <1>2 DEF SettleWrites
  <2>2. CASE caller[p].job = j
    <3>1. t = Append(s, row)
      BY <2>1, <2>2 DEF LedgerTyped
    <3>2. /\ Len(t) = Len(s) + 1 /\ DOMAIN t = 1..Len(s) + 1
          /\ t[Len(s) + 1] = row /\ \A k \in 1..Len(s) : t[k] = s[k]
      BY <1>0, <2>0, <3>1, AppendProperties, LenProperties
    <3>3. p \in Settling(j)
      BY <2>1, <2>2 DEF Settling
    <3>4. Settling(j)' = Settling(j) \ {p}
      BY <2>1 DEF Settling, LedgerTyped, IdleCaller
    <3>5. CreditLives(j)
      <4>1. \A k \in DOMAIN s : k \in DOMAIN t /\ t[k] = s[k]
        BY <1>0, <3>2
      <4>2. \A k \in DOMAIN t \ DOMAIN s : t[k] = row
        BY <1>0, <3>2
      <4> QED
        BY <3>3, <4>1, <4>2, Zenon DEF CreditLives
    <3> QED
      BY <3>2, <3>3, <3>4, <3>5 DEF Settlements, Credited
  <2>3. CASE caller[p].job # j
    <3>1. t = s
      BY <2>1, <2>3 DEF LedgerTyped
    <3>2. Settling(j)' \subseteq Settling(j)
      BY <2>1 DEF Settling, LedgerTyped, IdleCaller
    <3> QED
      BY <1>a, <3>1, <3>2 DEF Settlements
  <2> QED
    BY <2>2, <2>3
<1>3. ASSUME NEW p \in Callers, SettleRollsBack(p)
      PROVE  Settlements(j) /\ CreditLives(j)
  <2>1. t = s
    BY <1>3 DEF SettleRollsBack
  <2>2. Settling(j)' \subseteq Settling(j)
    BY <1>3 DEF SettleRollsBack, Settling, LedgerTyped, IdleCaller
  <2> QED
    BY <1>a, <2>1, <2>2 DEF Settlements
<1>4. ASSUME NEW k \in Jobs, HoldElapses(k)
      PROVE  Settlements(j) /\ CreditLives(j)
  <2>1. PICK i \in DOMAIN credit[k] : credit' = [credit EXCEPT ![k][i].due = TRUE]
    BY <1>4 DEF HoldElapses
  <2>2. Settling(j)' = Settling(j)
    BY <1>4 DEF HoldElapses, Settling
  <2>3. CASE k = j
    <3> DEFINE e == [s[i] EXCEPT !.due = TRUE]
    <3>1. i \in DOMAIN s /\ s[i] \in CreditRow
      BY <1>0, <2>1, <2>3
    <3>2. e \in CreditRow /\ e.status = s[i].status /\ e.due
      BY <3>1 DEF CreditRow
    <3>3. t = [s EXCEPT ![i] = e]
      BY <2>1, <2>3 DEF LedgerTyped
    <3> HIDE DEF e
    <3>4. CreditLives(j) /\ Len(t) = Len(s)
      BY <1>b, <3>1, <3>2, <3>3
    <3> QED
      BY <2>2, <3>4 DEF Settlements
  <2>4. CASE k # j
    <3>1. t = s
      BY <2>1, <2>4 DEF LedgerTyped
    <3> QED
      BY <1>a, <2>2, <3>1 DEF Settlements
  <2> QED
    BY <2>3, <2>4
<1>5. ASSUME ReleaseDueHolds
      PROVE  Settlements(j) /\ CreditLives(j)
  <2>1. /\ t = [i \in DOMAIN s |->
                    IF s[i] = [status |-> "HELD", due |-> TRUE]
                    THEN [s[i] EXCEPT !.status = "RELEASED"] ELSE s[i]]
        /\ UNCHANGED caller
    BY <1>5 DEF ReleaseDueHolds
  <2>2. t \in [DOMAIN s -> CreditRow]
    BY <1>0, <2>1 DEF CreditRow
  <2>3. DOMAIN t = DOMAIN s /\ Len(t) = Len(s)
    BY <1>0, <2>2, RewrittenCredits, SameIndices
  <2>4. ASSUME NEW i \in DOMAIN s
        PROVE  \/ t[i] = s[i]
               \/ /\ s[i].status = "HELD" /\ s[i].due /\ t[i].due
                  /\ t[i].status = "RELEASED"
    BY <1>0, <2>1 DEF CreditRow
  <2>5. CreditLives(j)
    BY <2>3, <2>4, Zenon DEF CreditLives
  <2> QED
    BY <2>1, <2>3, <2>5 DEF Settlements, Settling
<1>6. ASSUME NEW p \in Callers, NEW k \in Jobs, ClawbackReads(p, k)
      PROVE  Settlements(j) /\ CreditLives(j)
  <2>1. t = s
    BY <1>6 DEF ClawbackReads
  <2>2. Settling(j)' \subseteq Settling(j)
    BY <1>6 DEF ClawbackReads, Settling, LedgerTyped
  <2> QED
    BY <1>a, <2>1, <2>2 DEF Settlements
<1>7. ASSUME NEW p \in Callers, ClawbackWrites(p)
      PROVE  Settlements(j) /\ CreditLives(j)
  <2> DEFINE k == caller[p].job
             i == caller[p].index
             e == [credit[k][i] EXCEPT !.status = "CLAWED_BACK"]
  <2>1. k \in Jobs /\ i \in DOMAIN credit[k]
    BY <1>7 DEF ClawbackWrites, CallerOK
  <2>2. Settling(j)' \subseteq Settling(j)
    BY <1>7 DEF ClawbackWrites, Settling, LedgerTyped, IdleCaller
  <2>3. \/ credit' = credit
        \/ caller[p].read = "HELD" /\ credit' = [credit EXCEPT ![k] = [credit[k] EXCEPT ![i] = e]]
    BY <1>7 DEF ClawbackWrites
  <2>4. CASE t = s
    BY <1>a, <2>2, <2>4 DEF Settlements
  <2>5. CASE t # s
    <3>1. k = j
      BY <2>3, <2>5 DEF LedgerTyped
    <3>2. caller[p] = [pc |-> "clawing", job |-> j, index |-> i, read |-> "HELD"]
      <4>1. caller[p].pc = "clawing" /\ caller[p].read = "HELD"
        BY <1>7, <2>3, <2>5 DEF ClawbackWrites
      <4> QED
        BY <3>1, <4>1 DEF LedgerTyped
    <3>3. caller'[p] = IdleCaller
      BY <1>7 DEF ClawbackWrites, LedgerTyped
    <3>4. ClawsBackAsHeld(j, i)
      BY <3>2, <3>3 DEF ClawsBackAsHeld
    <3>5. i \in DOMAIN s /\ s[i] \in CreditRow
      BY <1>0, <2>1, <3>1
    <3>6. e \in CreditRow /\ e.status = "CLAWED_BACK" /\ e.due = s[i].due
      BY <3>1, <3>5 DEF CreditRow
    <3>7. t = [s EXCEPT ![i] = e]
      BY <2>3, <2>5, <3>1 DEF LedgerTyped
    <3> HIDE DEF e, i
    <3>8. CreditLives(j) /\ Len(t) = Len(s)
      BY <1>b, <3>4, <3>5, <3>6, <3>7
    <3> QED
      BY <2>2, <3>8 DEF Settlements
  <2> QED
    BY <2>4, <2>5
<1> QED
  BY <1>1, <1>2, <1>3, <1>4, <1>5, <1>6, <1>7 DEF LedgerStep, CallerStep

\* A step that is not the ledger's leaves credits and their callers alone.
LEMMA LedgerRests ==
    ASSUME UNCHANGED ledgerVars, NEW j \in Jobs
    PROVE  Settling(j)' = Settling(j) /\ credit'[j] = credit[j] /\ CreditLives(j)
  BY DEF ledgerVars, Settling, CreditLives

\* Steps of the withdrawals are not the ledger's.
LEMMA PayoutsLeaveLedger ==
    ASSUME PayoutStep \/ UNCHANGED vars
    PROVE  UNCHANGED ledgerVars
  BY DEF PayoutStep, ExecutorStep, ProviderStep, RequestChecks, RetryLists, Postpone,
         PayoutRefused, PayoutAccepted, PayoutTimesOut, PayoutRecorded, Crash,
         PayoutDecided, PayoutReversed, WebhookProcessed, WebhookFailed,
         CredentialsAdded, NextDay, ledgerVars, vars

\* The bound is inductive: what a settlement adds to the credits, it takes from those
\* who may still credit the job.
LEMMA BoundKept ==
    ASSUME IInv, CreditedOncePerReader, [Next]_vars
    PROVE  CreditedOncePerReader'
<1>0. LedgerTyped /\ \A p \in Callers : CallerOK(p)
  BY DEF IInv, TypeOK, LedgerTyped
<1> SUFFICES ASSUME NEW j \in Jobs
             PROVE  Len(credit'[j]) + Cardinality(Settling(j)') <= Cardinality(Callers)
  BY DEF CreditedOncePerReader
<1>1. /\ Settling(j) \subseteq Callers /\ Settling(j)' \subseteq Callers
      /\ IsFiniteSet(Callers)
  BY WalletLedgerAssumption DEF Settling
<1>2. /\ IsFiniteSet(Settling(j)) /\ Cardinality(Settling(j)) \in Nat
      /\ Cardinality(Settling(j)') \in Nat
      /\ Cardinality(Settling(j)') <= Cardinality(Callers)
      /\ Cardinality(Callers) \in Nat
  BY <1>1, FS_Subset, FS_CardinalityType
<1>3. Len(credit[j]) \in Nat
  BY <1>0, LenProperties DEF LedgerTyped
<1>4. Len(credit[j]) + Cardinality(Settling(j)) <= Cardinality(Callers)
  BY DEF CreditedOncePerReader
<1>5. CASE LedgerStep
  <2>1. CASE Credited(j)
    <3>1. PICK p \in Settling(j) : Settling(j)' = Settling(j) \ {p}
      BY <2>1 DEF Credited
    <3>2. Cardinality(Settling(j)') = Cardinality(Settling(j)) - 1
      BY <1>2, <3>1, FS_RemoveElement
    <3> QED
      BY <1>2, <1>3, <1>4, <2>1, <3>2 DEF Credited
  <2>2. CASE credit[j] = << >> /\ credit'[j] = << >>
    <3>1. Len(credit'[j]) = 0
      BY <2>2
    <3> QED
      BY <1>2, <3>1
  <2>3. CASE Len(credit'[j]) = Len(credit[j]) /\ Settling(j)' \subseteq Settling(j)
    <3>1. Cardinality(Settling(j)') <= Cardinality(Settling(j))
      BY <1>2, <2>3, FS_Subset
    <3> QED
      BY <1>2, <1>3, <1>4, <2>3, <3>1
  <2> QED
    BY <1>0, <1>5, <2>1, <2>2, <2>3, CreditSteps DEF Settlements
<1>6. CASE PayoutStep \/ UNCHANGED vars
  BY <1>4, <1>6, PayoutsLeaveLedger, LedgerRests
<1> QED
  BY <1>5, <1>6 DEF Next, LedgerStep, PayoutStep

\* However many processes settle a job at once, and whichever of them roll back, it is
\* credited at most once by each of them, and not at all by those who come later.
THEOREM CreditsAreBounded == Spec => []CreditedOncePerReader
<1>1. Init => CreditedOncePerReader
  <2> SUFFICES ASSUME Init, NEW j \in Jobs
               PROVE  Len(credit[j]) + Cardinality(Settling(j)) <= Cardinality(Callers)
    BY DEF CreditedOncePerReader
  <2>1. Settling(j) = {} /\ Len(credit[j]) = 0
    BY DEF Init, Settling, IdleCaller
  <2>2. Cardinality({}) = 0 /\ Cardinality(Callers) \in Nat
    BY WalletLedgerAssumption, FS_EmptySet, FS_CardinalityType
  <2> QED
    BY <2>1, <2>2
<1>2. IInv /\ CreditedOncePerReader /\ [Next]_vars => CreditedOncePerReader'
  BY BoundKept
<1> QED
  BY <1>1, <1>2, Invariance, PTL DEF Spec

\* Every step of the system lets each credit live as it should: from HELD it is
\* released when due, or clawed back by a clawback that read it HELD.
THEOREM CreditsLive == Spec => CreditLifecycle
<1>1. IInv /\ [Next]_vars => [\A j \in Jobs : CreditLives(j)]_vars
  <2> SUFFICES ASSUME IInv, [Next]_vars, NEW j \in Jobs
               PROVE  CreditLives(j)
    OBVIOUS
  <2>0. LedgerTyped /\ \A p \in Callers : CallerOK(p)
    BY DEF IInv, TypeOK, LedgerTyped
  <2>1. CASE LedgerStep
    BY <2>0, <2>1, CreditSteps
  <2>2. CASE PayoutStep \/ UNCHANGED vars
    BY <2>2, PayoutsLeaveLedger, LedgerRests
  <2> QED
    BY <2>1, <2>2 DEF Next, LedgerStep, PayoutStep
<1> QED
  BY <1>1, Invariance, PTL DEF Spec, CreditLifecycle
-----------------------------------------------------------------------------
(***************************************************************************)
(* Payouts.  A request counts a debit only where an executor has recorded  *)
(* the payout it had accepted, and a refund only while it is linked to a   *)
(* debit; RazorpayX forgets no payout it accepted.                         *)
(***************************************************************************)

\* A link and a refund stand for a debit.
Traced(r) == (r.linked => r.debits > 0) /\ (r.refunds > 0 => r.debits > 0)

TraceInv ==
    /\ \A w \in Withdrawals :
          /\ Traced(request[w])
          /\ request[w].debits > 0 => PaidOut(w)
          /\ request[w].refunds > 0 => SentFailed(w)
    /\ \A x \in Executors, w \in Withdrawals :
          executor[x].pc = "accepted" /\ executor[x].w = w => PaidOut(w)

SameMoney(q, r) == q.debits = r.debits /\ q.refunds = r.refunds /\ q.linked = r.linked

\* What a step may make of row r of request w: its money is the same, or a payout is
\* recorded that was accepted, or a failure is heard and refunded if it is linked.
RowMoves(q, r, w) ==
    \/ SameMoney(q, r)
    \/ /\ q.debits = r.debits + 1 /\ q.refunds = r.refunds
       /\ \E x \in Executors : executor[x].pc = "accepted" /\ executor[x].w = w
    \/ /\ q.debits = r.debits /\ q.linked = r.linked
       /\ q.refunds = IF r.linked THEN r.refunds + 1 ELSE r.refunds
       /\ SentFailed(w)

\* No step forgets a payout.
LEMMA PayoutsRemain ==
    ASSUME IInv, [Next]_vars, NEW w \in Withdrawals
    PROVE  (PaidOut(w) => PaidOut(w)') /\ (SentFailed(w) => SentFailed(w)')
<1>0. PayoutTyped
  BY DEF IInv, TypeOK, PayoutTyped
<1>1. CASE UNCHANGED <<undecided, events>>
  BY <1>1 DEF PaidOut, SentProcessed, SentFailed
<1>2. ASSUME NEW x \in Executors, PayoutAccepted(x)
      PROVE  (PaidOut(w) => PaidOut(w)') /\ (SentFailed(w) => SentFailed(w)')
  <2>1. events' = events /\ (undecided'[w] = undecided[w] \/ undecided'[w] = undecided[w] + 1)
    BY <1>0, <1>2 DEF PayoutAccepted, PayoutTyped
  <2>2. undecided[w] \in Nat
    BY <1>0 DEF PayoutTyped
  <2> QED
    BY <2>1, <2>2 DEF PaidOut, SentProcessed, SentFailed
<1>3. ASSUME NEW v \in Withdrawals, PayoutDecided(v)
      PROVE  (PaidOut(w) => PaidOut(w)') /\ (SentFailed(w) => SentFailed(w)')
  <2>1. /\ undecided' = [undecided EXCEPT ![v] = @ - 1]
        /\ \E e \in {"payout.processed", "payout.failed"} : events' = events \cup {<<v, e>>}
    BY <1>3 DEF PayoutDecided
  <2>2. CASE v = w
    BY <2>1, <2>2 DEF PaidOut, SentProcessed, SentFailed
  <2>3. CASE v # w
    <3>1. undecided'[w] = undecided[w] /\ events \subseteq events'
      BY <1>0, <2>1, <2>3 DEF PayoutTyped
    <3> QED
      BY <3>1 DEF PaidOut, SentProcessed, SentFailed
  <2> QED
    BY <2>2, <2>3
<1>4. ASSUME NEW v \in Withdrawals, PayoutReversed(v)
      PROVE  (PaidOut(w) => PaidOut(w)') /\ (SentFailed(w) => SentFailed(w)')
  BY <1>4 DEF PayoutReversed, PaidOut, SentProcessed, SentFailed
<1> QED
  BY <1>1, <1>2, <1>3, <1>4
  DEF Next, CallerStep, ExecutorStep, ProviderStep, SettleReads, SettleWrites, SettleRollsBack,
      ReleaseDueHolds, HoldElapses, ClawbackReads, ClawbackWrites, RequestChecks, RetryLists,
      Postpone, PayoutRefused, PayoutTimesOut, PayoutRecorded, Crash, WebhookProcessed,
      WebhookFailed, CredentialsAdded, NextDay, payoutVars, vars

\* A first attempt finds no money in its row, and puts none there.
LEMMA SavedMoney ==
    ASSUME PayoutsOK, NEW x \in Executors, executor[x].pc # "idle",
           NEW s \in {"PROCESSING", "FAILED", "AWAITING_RAZORPAYX_ACTIVATION"}
    PROVE  SameMoney(Saved(x, s), request[executor[x].w])
<1> DEFINE e == executor[x]
<1>1. /\ e.w \in Withdrawals /\ e.row \in RequestRow /\ request[e.w] \in RequestRow
  BY DEF PayoutsOK, PayoutTyped, ExecutorOK
<1>2. CASE e.row.status = "absent"
  <2>1. Untouched(e.row) /\ Untouched(request[e.w])
    BY <1>1, <1>2 DEF PayoutsOK, ExecutorOK, Covered
  <2>2. SameMoney(Saved(x, s), e.row)
    BY <1>1, <1>2 DEF Saved, RequestRow, SameMoney
  <2> QED
    BY <2>1, <2>2 DEF Untouched, SameMoney
<1>3. CASE e.row.status # "absent"
  BY <1>1, <1>3 DEF Saved, RequestRow, SameMoney
<1> QED
  BY <1>2, <1>3

\* A transaction that ends changes its own row only.
LEMMA FinishMoves ==
    ASSUME PayoutsOK, NEW x \in Executors, executor[x].pc # "idle",
           NEW row, Finish(x, row), RowMoves(row, request[executor[x].w], executor[x].w)
    PROVE  \A w \in Withdrawals : RowMoves(request'[w], request[w], w)
<1>1. executor[x].w \in Withdrawals /\ request' = [request EXCEPT ![executor[x].w] = row]
  BY DEF PayoutsOK, ExecutorOK, Finish
<1>2. \A w \in Withdrawals : request'[w] = IF w = executor[x].w THEN row ELSE request[w]
  BY <1>1 DEF PayoutsOK, PayoutTyped
<1>3. \A w \in Withdrawals : RowMoves(request[w], request[w], w)
  BY DEF RowMoves, SameMoney
<1> QED
  BY <1>2, <1>3

LEMMA RowsMove ==
    ASSUME IInv, [Next]_vars
    PROVE  \A w \in Withdrawals : RowMoves(request'[w], request[w], w)
<1>0. PayoutsOK
  BY DEF IInv, TypeOK, PayoutTyped, PayoutsOK
<1>1. CASE UNCHANGED request
  BY <1>1 DEF RowMoves, SameMoney
<1>2. ASSUME NEW x \in Executors, Postpone(x) \/ PayoutRefused(x) \/ PayoutTimesOut(x)
      PROVE  \A w \in Withdrawals : RowMoves(request'[w], request[w], w)
  <2>1. /\ executor[x].pc # "idle"
        /\ \E s \in {"PROCESSING", "FAILED", "AWAITING_RAZORPAYX_ACTIVATION"} :
              Finish(x, Saved(x, s))
    BY <1>2 DEF Postpone, PayoutRefused, PayoutTimesOut
  <2>2. PICK s \in {"PROCESSING", "FAILED", "AWAITING_RAZORPAYX_ACTIVATION"} :
              Finish(x, Saved(x, s))
    BY <2>1
  <2>3. RowMoves(Saved(x, s), request[executor[x].w], executor[x].w)
    BY <1>0, <2>1, SavedMoney DEF RowMoves
  <2> QED
    BY <1>0, <2>1, <2>2, <2>3, FinishMoves
<1>3. ASSUME NEW x \in Executors, PayoutRecorded(x)
      PROVE  \A w \in Withdrawals : RowMoves(request'[w], request[w], w)
  <2> DEFINE saved == Saved(x, "PROCESSING")
             row == [saved EXCEPT !.linked = TRUE, !.debits = @ + 1]
             r == request[executor[x].w]
  <2>1. executor[x].pc = "accepted" /\ Finish(x, row)
    BY <1>3 DEF PayoutRecorded
  <2>2. saved \in RequestRow /\ SameMoney(saved, r)
    BY <1>0, <2>1, SavedRow, SavedMoney
  <2> HIDE DEF saved
  <2>3. row.debits = saved.debits + 1 /\ row.refunds = saved.refunds
    BY <2>2, RecordedRow
  <2>4. RowMoves(row, r, executor[x].w)
    BY <2>1, <2>2, <2>3 DEF RowMoves, SameMoney
  <2> HIDE DEF row
  <2> QED
    BY <1>0, <2>1, <2>4, FinishMoves
<1>4. ASSUME NEW x \in Executors, Crash(x)
      PROVE  \A w \in Withdrawals : RowMoves(request'[w], request[w], w)
  <2> DEFINE e == executor[x]
             row == [request[e.w] EXCEPT !.status =
                       IF e.row.status = "absent" THEN "rolled back" ELSE @]
  <2>1. e.pc # "idle" /\ Finish(x, row)
    BY <1>4 DEF Crash
  <2>2. request[e.w] \in RequestRow
    BY <1>0, <2>1 DEF PayoutsOK, PayoutTyped, ExecutorOK
  <2>3. SameMoney(row, request[e.w])
    BY <2>2 DEF RequestRow, SameMoney
  <2> HIDE DEF row
  <2>4. RowMoves(row, request[e.w], e.w)
    BY <2>3 DEF RowMoves
  <2> QED
    BY <1>0, <2>1, <2>4, FinishMoves
<1>5. ASSUME NEW v \in Withdrawals, WebhookProcessed(v) \/ WebhookFailed(v)
      PROVE  \A w \in Withdrawals : RowMoves(request'[w], request[w], w)
  <2>0. request[v] \in RequestRow
    BY <1>0 DEF PayoutsOK, PayoutTyped
  <2>1. PICK row : request' = [request EXCEPT ![v] = row] /\ RowMoves(row, request[v], v)
    <3>1. CASE WebhookProcessed(v)
      <4> DEFINE row == [request[v] EXCEPT !.status = "SUCCESS"]
      <4>1. request' = [request EXCEPT ![v] = row]
        BY <3>1 DEF WebhookProcessed
      <4>2. SameMoney(row, request[v])
        BY <2>0 DEF RequestRow, SameMoney
      <4> HIDE DEF row
      <4> QED
        BY <4>1, <4>2 DEF RowMoves
    <3>2. CASE WebhookFailed(v)
      <4> DEFINE row == [request[v] EXCEPT
                           !.status = "FAILED",
                           !.refunds = IF request[v].linked THEN @ + 1 ELSE @]
      <4>1. request' = [request EXCEPT ![v] = row] /\ SentFailed(v)
        BY <3>2 DEF WebhookFailed, SentFailed
      <4>2. /\ row.debits = request[v].debits
            /\ row.refunds = IF request[v].linked THEN request[v].refunds + 1
                                                  ELSE request[v].refunds
        BY <2>0, FailedRow
      <4>3. row.linked = request[v].linked
        BY <2>0 DEF RequestRow
      <4> HIDE DEF row
      <4> QED
        BY <4>1, <4>2, <4>3 DEF RowMoves
    <3> QED
      BY <1>5, <3>1, <3>2
  <2>2. \A w \in Withdrawals : request'[w] = IF w = v THEN row ELSE request[w]
    BY <1>0, <2>1 DEF PayoutsOK, PayoutTyped
  <2> QED
    BY <2>1, <2>2 DEF RowMoves, SameMoney
<1>6. ASSUME NextDay
      PROVE  \A w \in Withdrawals : RowMoves(request'[w], request[w], w)
  <2> SUFFICES ASSUME NEW w \in Withdrawals PROVE SameMoney(request'[w], request[w])
    BY DEF RowMoves
  <2>1. request[w] \in RequestRow /\ request'[w] = [request[w] EXCEPT !.today = FALSE]
    BY <1>0, <1>6 DEF NextDay, PayoutsOK, PayoutTyped
  <2> QED
    BY <2>1, YesterdaysRow DEF SameMoney
<1> QED
  BY <1>1, <1>2, <1>3, <1>4, <1>5, <1>6
  DEF Next, CallerStep, ExecutorStep, ProviderStep, SettleReads, SettleWrites, SettleRollsBack,
      ReleaseDueHolds, HoldElapses, ClawbackReads, ClawbackWrites, RequestChecks, RetryLists,
      PayoutAccepted, PayoutDecided, PayoutReversed, CredentialsAdded, payoutVars, vars

\* A process that holds an accepted payout has just been given it, or held it before.
LEMMA AcceptedKept ==
    ASSUME IInv, TraceInv, [Next]_vars, NEW x \in Executors, NEW w \in Withdrawals,
           executor'[x].pc = "accepted", executor'[x].w = w
    PROVE  PaidOut(w)'
<1>0. PayoutsOK
  BY DEF IInv, TypeOK, PayoutTyped, PayoutsOK
<1>1. CASE executor'[x] = executor[x]
  <2>1. PaidOut(w)
    BY <1>1 DEF TraceInv
  <2> QED
    BY <2>1, PayoutsRemain
<1>2. ASSUME NEW y \in Executors, PayoutAccepted(y), executor'[x] # executor[x]
      PROVE  PaidOut(w)'
  <2>1. /\ executor' = [executor EXCEPT ![y].pc = "accepted"]
        /\ undecided' = [undecided EXCEPT ![executor[y].w] = @ + 1]
    BY <1>2 DEF PayoutAccepted
  <2>2. x = y /\ executor[y].w = w
    BY <1>0, <1>2, <2>1 DEF PayoutsOK, PayoutTyped, ExecutorOK
  <2>3. undecided[w] \in Nat /\ undecided'[w] = undecided[w] + 1
    BY <1>0, <2>1, <2>2 DEF PayoutsOK, PayoutTyped
  <2>4. undecided'[w] > 0
    BY <2>3
  <2> QED
    BY <2>4 DEF PaidOut
<1>3. ASSUME NEW y \in Executors, NEW e, e.pc # "accepted",
             executor' = [executor EXCEPT ![y] = e]
      PROVE  executor'[x] = executor[x]
  BY <1>0, <1>3 DEF PayoutsOK, PayoutTyped
<1>4. IdleExecutor.pc # "accepted"
  BY DEF IdleExecutor
<1>5. ASSUME NEW y \in Executors, NEW v \in Withdrawals,
             RetryLists(y, v) \/ \E amount \in Amounts : RequestChecks(y, v, amount)
      PROVE  executor'[x] = executor[x]
  <2>1. \E r : executor' = [executor EXCEPT ![y] = [pc |-> "checked", w |-> v, row |-> r]]
    BY <1>5 DEF RequestChecks, RetryLists
  <2>2. PICK r : executor' = [executor EXCEPT ![y] = [pc |-> "checked", w |-> v, row |-> r]]
    BY <2>1
  <2>3. [pc |-> "checked", w |-> v, row |-> r].pc # "accepted"
    OBVIOUS
  <2> QED
    BY <1>3, <2>2, <2>3
<1>6. ASSUME NEW y \in Executors,
             \/ Postpone(y) \/ PayoutRefused(y) \/ PayoutTimesOut(y)
             \/ PayoutRecorded(y) \/ Crash(y)
      PROVE  executor'[x] = executor[x]
  <2>1. executor' = [executor EXCEPT ![y] = IdleExecutor]
    BY <1>6 DEF Postpone, PayoutRefused, PayoutTimesOut, PayoutRecorded, Crash, Finish
  <2> QED
    BY <1>3, <1>4, <2>1
<1>7. \/ UNCHANGED executor
      \/ \E y \in Executors : ExecutorStep(y)
  BY DEF Next, CallerStep, ProviderStep, SettleReads, SettleWrites, SettleRollsBack,
      ReleaseDueHolds, HoldElapses, ClawbackReads, ClawbackWrites,
      PayoutDecided, PayoutReversed, WebhookProcessed, WebhookFailed, CredentialsAdded, NextDay,
      payoutVars, vars
<1> QED
  BY <1>1, <1>2, <1>5, <1>6, <1>7 DEF ExecutorStep

LEMMA TraceKept ==
    ASSUME IInv, TraceInv, [Next]_vars
    PROVE  TraceInv'
<1>1. ASSUME NEW w \in Withdrawals
      PROVE  /\ Traced(request'[w])
             /\ request'[w].debits > 0 => PaidOut(w)'
             /\ request'[w].refunds > 0 => SentFailed(w)'
  <2>1. /\ request[w].debits \in Nat /\ request[w].refunds \in Nat
        /\ Traced(request[w]) /\ RowMoves(request'[w], request[w], w)
        /\ request[w].debits > 0 => PaidOut(w)
        /\ request[w].refunds > 0 => SentFailed(w)
        /\ PaidOut(w) => PaidOut(w)'
        /\ SentFailed(w) => SentFailed(w)'
    BY RowsMove, PayoutsRemain, RowCounts DEF TraceInv, IInv, TypeOK
  <2>2. CASE SameMoney(request'[w], request[w])
    BY <2>1, <2>2 DEF SameMoney, Traced
  <2>3. CASE /\ request'[w].debits = request[w].debits + 1
             /\ request'[w].refunds = request[w].refunds
             /\ \E x \in Executors : executor[x].pc = "accepted" /\ executor[x].w = w
    <3>1. PaidOut(w)
      BY <2>3 DEF TraceInv
    <3> QED
      BY <2>1, <2>3, <3>1 DEF Traced
  <2>4. CASE /\ request'[w].debits = request[w].debits
             /\ request'[w].linked = request[w].linked
             /\ request'[w].refunds = IF request[w].linked THEN request[w].refunds + 1
                                                           ELSE request[w].refunds
             /\ SentFailed(w)
    BY <2>1, <2>4 DEF Traced
  <2> QED
    BY <2>1, <2>2, <2>3, <2>4 DEF RowMoves
<1>2. ASSUME NEW x \in Executors, NEW w \in Withdrawals,
             executor'[x].pc = "accepted", executor'[x].w = w
      PROVE  PaidOut(w)'
  BY <1>2, AcceptedKept
<1> QED
  BY <1>1, <1>2 DEF TraceInv

\* No debit without a payout RazorpayX accepted, no refund without a debit and a
\* failure it told of.
THEOREM MoneyFollows == Spec => []MoneyFollowsPayouts
<1>1. Init => TraceInv
  BY DEF Init, NoRow, IdleExecutor, TraceInv, Traced
<1>2. IInv /\ TraceInv /\ [Next]_vars => TraceInv'
  BY TraceKept
<1>3. TraceInv => MoneyFollowsPayouts
  BY DEF TraceInv, Traced, MoneyFollowsPayouts
<1> QED
  BY <1>1, <1>2, <1>3, Invariance, PTL DEF Spec
=============================================================================
