------------------------ MODULE EmployeeWallet_proofs ------------------------
(***************************************************************************)
(* EmployeeWallet: type correctness, that the amount of a withdrawal that  *)
(* is over is back in the wallet, that the pending balance is backed by    *)
(* the ledger, and that the available balance implements AuditedAccount,   *)
(* for any number of payments, withdrawals and handlers and any amounts.   *)
(***************************************************************************)
EXTENDS EmployeeWallet, FiniteSetTheorems, WellFoundedInduction, TLAPS

WalletRow == [status : {"ACTIVE", "SUSPENDED"}, available : Int, pending : Int,
              withdrawn : Nat]

\* What a handler keeps between its read and its write.
Kept == [kind : {"idle", "mirror", "withdraw", "process", "complete", "fail"},
         id : Payments \cup Withdrawals \cup {None}, read : Int]

\* Who holds a copy of what, and what was read is an amount.
KeptOK(k) ==
    /\ k.kind = "mirror" => k.id \in Payments /\ k.read >= 0
    /\ k.kind = "withdraw" => k.read \in Amounts
    /\ k.kind \in {"process", "complete", "fail"} => k.id \in Withdrawals

HandlersOK == \A h \in Handlers : KeptOK(handler[h])

\* Each status that ends a withdrawal without a payment comes with a reversal of
\* its own, whatever status was written over.
OverHasRow ==
    \A w \in Withdrawals :
        /\ withdrawal[w].status = "CANCELLED" => withdrawal[w].cancelRow
        /\ withdrawal[w].status = "FAILED" => withdrawal[w].failRow

\* On PostgreSQL rows are only added to the pending ledger, so that what a
\* settlement has read stays within it; SQLite refuses a copy that has aged.
MirrorsBacked ==
    database = "postgresql" =>
        \A h \in Handlers : handler[h].kind = "mirror" => handler[h].read <= LedgerPending

WalletInv == TypeOK /\ HandlersOK /\ OverHasRow /\ PendingIsBacked /\ MirrorsBacked

-----------------------------------------------------------------------------
(***************************************************************************)
(* Writes to one field of a row.                                           *)
(***************************************************************************)

LEMMA WalletEdit ==
    ASSUME NEW row \in WalletRow, NEW a \in Int, NEW p \in Int, NEW n \in Nat
    PROVE  /\ [row EXCEPT !.available = a, !.withdrawn = n] \in WalletRow
           /\ [row EXCEPT !.available = a, !.withdrawn = n].pending = row.pending
           /\ [row EXCEPT !.available = a, !.pending = p] \in WalletRow
           /\ [row EXCEPT !.available = a, !.pending = p].pending = p
           /\ [row EXCEPT !.available = a] \in WalletRow
           /\ [row EXCEPT !.available = a].pending = row.pending
           /\ [row EXCEPT !.pending = p] \in WalletRow
           /\ [row EXCEPT !.pending = p].pending = p
  BY DEF WalletRow

\* Giving back keeps the wallet's type: total_withdrawn is cut off at zero.
LEMMA ReturnedTyped ==
    ASSUME wallet \in WalletRow, NEW amount \in Nat
    PROVE  /\ Returned(wallet, amount) \in WalletRow
           /\ Returned(wallet, amount).pending = wallet.pending
<1>1. /\ wallet.available + amount \in Int
      /\ (IF wallet.withdrawn < amount THEN 0 ELSE wallet.withdrawn - amount) \in Nat
      /\ wallet.pending \in Int
  BY DEF WalletRow
<1>2. Returned(wallet, amount) \in WalletRow
  BY <1>1, WalletEdit DEF Returned
<1>3. Returned(wallet, amount).pending = wallet.pending
  BY <1>1 DEF Returned, WalletRow
<1> QED
  BY <1>2, <1>3

\* D stands for BOOLEAN, which Zenon puts in below: SMT does the records and
\* has no set of the truth values.
LEMMA RowEdit ==
    ASSUME NEW D, NEW S,
           NEW f \in [Payments -> [status : S, due : D]],
           NEW p \in Payments, NEW s \in S, NEW d \in D
    PROVE  /\ [f EXCEPT ![p].status = s] \in [Payments -> [status : S, due : D]]
           /\ [f EXCEPT ![p].due = d] \in [Payments -> [status : S, due : D]]
  OBVIOUS

LEMMA EarningEdit ==
    ASSUME NEW f \in [Payments -> EarningRow], NEW p \in Payments
    PROVE  /\ [f EXCEPT ![p].status = "PENDING_SETTLEMENT"] \in [Payments -> EarningRow]
           /\ [f EXCEPT ![p].due = TRUE] \in [Payments -> EarningRow]
<1>1. TRUE \in BOOLEAN
  OBVIOUS
<1>2. "PENDING_SETTLEMENT" \in {"none", "PENDING_SETTLEMENT", "COMPLETED"}
  OBVIOUS
<1> QED
  BY <1>1, <1>2, RowEdit, Zenon DEF EarningRow

LEMMA RowMatures ==
    ASSUME NEW D, NEW S, NEW r \in [status : S, due : D], NEW s \in S
    PROVE  [r EXCEPT !.status = s] \in [status : S, due : D]
  OBVIOUS

LEMMA EarningsMature ==
    ASSUME NEW f \in [Payments -> EarningRow], NEW Q
    PROVE  [p \in Payments |-> IF p \in Q THEN [f[p] EXCEPT !.status = "COMPLETED"]
                               ELSE f[p]] \in [Payments -> EarningRow]
<1> DEFINE g(p) == IF p \in Q THEN [f[p] EXCEPT !.status = "COMPLETED"] ELSE f[p]
<1>1. "COMPLETED" \in {"none", "PENDING_SETTLEMENT", "COMPLETED"}
  OBVIOUS
<1>2. ASSUME NEW r \in EarningRow
      PROVE  [r EXCEPT !.status = "COMPLETED"] \in EarningRow
  BY <1>1, RowMatures, Zenon DEF EarningRow
<1>3. ASSUME NEW p \in Payments
      PROVE  g(p) \in EarningRow
  <2>1. f[p] \in EarningRow
    OBVIOUS
  <2> QED
    BY <2>1, <1>2
<1> HIDE DEF g
<1>4. [p \in Payments |-> g(p)] \in [Payments -> EarningRow]
  BY <1>3
<1> QED
  BY <1>4 DEF g

WithdrawalStatus == {"none", "REQUESTED", "PROCESSING"} \cup Terminal

\* B stands for BOOLEAN, as D above.
LEMMA TransferEdit ==
    ASSUME NEW B, NEW S,
           NEW f \in [Withdrawals -> [status : S, amount : Nat, cancelRow : B, failRow : B]],
           NEW w \in Withdrawals, NEW s \in S, NEW b \in B,
           NEW r \in [status : S, amount : Nat, cancelRow : B, failRow : B]
    PROVE  /\ [f EXCEPT ![w].status = s]
                 \in [Withdrawals -> [status : S, amount : Nat, cancelRow : B, failRow : B]]
           /\ [f EXCEPT ![w].status = s, ![w].cancelRow = b]
                 \in [Withdrawals -> [status : S, amount : Nat, cancelRow : B, failRow : B]]
           /\ [f EXCEPT ![w].status = s, ![w].failRow = b]
                 \in [Withdrawals -> [status : S, amount : Nat, cancelRow : B, failRow : B]]
           /\ [f EXCEPT ![w] = r]
                 \in [Withdrawals -> [status : S, amount : Nat, cancelRow : B, failRow : B]]
  OBVIOUS

LEMMA WithdrawalEdit ==
    ASSUME NEW f \in [Withdrawals -> WithdrawalRow], NEW w \in Withdrawals,
           NEW s \in WithdrawalStatus, NEW r \in WithdrawalRow
    PROVE  /\ [f EXCEPT ![w].status = s] \in [Withdrawals -> WithdrawalRow]
           /\ [f EXCEPT ![w].status = s, ![w].cancelRow = TRUE] \in [Withdrawals -> WithdrawalRow]
           /\ [f EXCEPT ![w].status = s, ![w].failRow = TRUE] \in [Withdrawals -> WithdrawalRow]
           /\ [f EXCEPT ![w] = r] \in [Withdrawals -> WithdrawalRow]
<1>1. TRUE \in BOOLEAN
  OBVIOUS
<1> QED
  BY <1>1, TransferEdit, Zenon DEF WithdrawalRow, WithdrawalStatus

LEMMA RequestEdit ==
    ASSUME NEW B, NEW S, NEW r \in [status : S, amount : Nat, cancelRow : B, failRow : B],
           NEW s \in S, NEW a \in Nat
    PROVE  /\ [r EXCEPT !.status = s, !.amount = a]
                 \in [status : S, amount : Nat, cancelRow : B, failRow : B]
           /\ [r EXCEPT !.status = s, !.amount = a].status = s
  OBVIOUS

LEMMA NoWithdrawalTyped == NoWithdrawal \in WithdrawalRow
<1>1. 0 \in Nat
  OBVIOUS
<1> QED
  BY <1>1, Zenon DEF NoWithdrawal, WithdrawalRow

LEMMA AmountNat ==
    ASSUME NEW B, NEW S, NEW r \in [status : S, amount : Nat, cancelRow : B, failRow : B]
    PROVE  r.amount \in Nat
  OBVIOUS

LEMMA StatusEdit ==
    ASSUME NEW w \in Withdrawals, NEW s \in {"PROCESSING", "COMPLETED"},
           TypeOK, OverHasRow, withdrawal' = [withdrawal EXCEPT ![w].status = s]
    PROVE  OverHasRow'
  BY DEF TypeOK, WithdrawalRow, OverHasRow

LEMMA CancelEdit ==
    ASSUME NEW w \in Withdrawals, TypeOK, OverHasRow,
           withdrawal' = [withdrawal EXCEPT ![w].status = "CANCELLED", ![w].cancelRow = TRUE]
    PROVE  OverHasRow'
  BY DEF TypeOK, WithdrawalRow, OverHasRow

LEMMA FailEdit ==
    ASSUME NEW w \in Withdrawals, TypeOK, OverHasRow,
           withdrawal' = [withdrawal EXCEPT ![w].status = "FAILED", ![w].failRow = TRUE]
    PROVE  OverHasRow'
  BY DEF TypeOK, WithdrawalRow, OverHasRow

\* Cardinalities: the pending ledger when a row is added, matures, or gets due.
Pending == {p \in Payments : earning[p].status = "PENDING_SETTLEMENT"}

LEMMA PendingFinite == IsFiniteSet(Pending) /\ Cardinality(Pending) \in Nat
  BY EmployeeWalletAssumption, FS_Subset, FS_CardinalityType DEF Pending

LEMMA PendingAdded ==
    ASSUME NEW p \in Payments, earning[p].status = "none",
           earning \in [Payments -> EarningRow],
           earning' = [earning EXCEPT ![p].status = "PENDING_SETTLEMENT"]
    PROVE  LedgerPending' = LedgerPending + Pay
<1>1. p \notin Pending /\ Pending' = Pending \cup {p}
  BY DEF Pending, EarningRow
<1>2. Cardinality(Pending') = Cardinality(Pending) + 1
  BY <1>1, PendingFinite, FS_AddElement
<1> QED
  BY <1>2, PendingFinite, EmployeeWalletAssumption DEF LedgerPending, Pending

LEMMA PendingAged ==
    ASSUME NEW p \in Payments, earning \in [Payments -> EarningRow],
           earning' = [earning EXCEPT ![p].due = TRUE]
    PROVE  LedgerPending' = LedgerPending
<1>1. \A q \in Payments : earning'[q].status = earning[q].status
  BY DEF EarningRow
<1>2. Pending' = Pending
  BY <1>1 DEF Pending
<1> QED
  BY <1>2 DEF LedgerPending, Pending

LEMMA PendingMatured ==
    ASSUME NEW Q \in SUBSET Pending, earning \in [Payments -> EarningRow],
           earning' = [p \in Payments |-> IF p \in Q
                         THEN [earning[p] EXCEPT !.status = "COMPLETED"] ELSE earning[p]]
    PROVE  /\ Cardinality(Q) \in Nat
           /\ LedgerPending' = LedgerPending - Pay * Cardinality(Q)
<1>1. \A p \in Payments : earning'[p].status = IF p \in Q THEN "COMPLETED"
                                               ELSE earning[p].status
  BY DEF EarningRow
<1>2. Pending' = Pending \ Q
  BY <1>1 DEF Pending
<1>3. Pending \cap Q = Q
  OBVIOUS
<1>4. Cardinality(Q) \in Nat
  BY PendingFinite, FS_Subset, FS_CardinalityType
<1>5. Cardinality(Pending') = Cardinality(Pending) - Cardinality(Q)
  BY <1>2, <1>3, PendingFinite, FS_Difference
<1>6. LedgerPending = Pay * Cardinality(Pending) /\ LedgerPending' = Pay * Cardinality(Pending')
  BY DEF LedgerPending, Pending
<1> QED
  BY <1>4, <1>5, <1>6, PendingFinite, EmployeeWalletAssumption

LEMMA LedgerTyped == LedgerPending \in Nat
<1>1. LedgerPending = Pay * Cardinality(Pending)
  BY DEF LedgerPending, Pending
<1> QED
  BY <1>1, PendingFinite, EmployeeWalletAssumption

\* A step that leaves the pending balance and its ledger alone, and in which a
\* settlement reads nothing but the balance as it is.
LEMMA PendingStays ==
    ASSUME WalletInv, database' = database, wallet'.pending = wallet.pending,
           LedgerPending' = LedgerPending,
           \A h \in Handlers : handler'[h].kind = "mirror" =>
               handler'[h] = handler[h] \/ handler'[h].read = wallet.pending
    PROVE  PendingIsBacked' /\ MirrorsBacked'
<1>1. PendingIsBacked'
  BY DEF WalletInv, PendingIsBacked
<1>2. MirrorsBacked'
  BY DEF WalletInv, PendingIsBacked, MirrorsBacked
<1> QED
  BY <1>1, <1>2

-----------------------------------------------------------------------------
(***************************************************************************)
(* Handlers.                                                               *)
(***************************************************************************)

LEMMA IdleKept == Idle \in Kept /\ Idle.kind = "idle" /\ KeptOK(Idle)
  BY DEF Idle, Kept, KeptOK

\* A handler that is done, or takes up a request, leaves the others alone.
LEMMA HandlerMoves ==
    ASSUME TypeOK, HandlersOK, NEW h \in Handlers, NEW k \in Kept, KeptOK(k),
           handler' = [handler EXCEPT ![h] = k]
    PROVE  /\ handler' \in [Handlers -> Kept]
           /\ HandlersOK'
           /\ \A g \in Handlers : handler'[g] = IF g = h THEN k ELSE handler[g]
<1>1. handler \in [Handlers -> Kept]
  BY DEF TypeOK, Kept
<1>2. \A g \in Handlers : handler'[g] = IF g = h THEN k ELSE handler[g]
  BY <1>1
<1>3. HandlersOK'
  BY <1>2 DEF HandlersOK
<1> QED
  BY <1>1, <1>2, <1>3

LEMMA DoneKeeps ==
    ASSUME TypeOK, HandlersOK, NEW h \in Handlers, Done(h)
    PROVE  /\ handler' \in [Handlers -> Kept]
           /\ HandlersOK'
           /\ \A g \in Handlers : handler'[g].kind = "mirror" => handler'[g] = handler[g]
           /\ \A g \in Handlers : g # h => handler'[g] = handler[g]
           /\ handler'[h].kind # "mirror"
  BY HandlerMoves, IdleKept DEF Done

LEMMA BeginKeeps ==
    ASSUME TypeOK, HandlersOK, NEW h \in Handlers, NEW k \in Kept, KeptOK(k),
           Begin(h, k)
    PROVE  /\ handler' \in [Handlers -> Kept]
           /\ HandlersOK'
           /\ \A g \in Handlers : handler'[g] = IF g = h THEN k ELSE handler[g]
  BY HandlerMoves DEF Begin

LEMMA HandlerTyped ==
    ASSUME TypeOK, HandlersOK, NEW h \in Handlers
    PROVE  /\ handler[h] \in Kept
           /\ KeptOK(handler[h])
           /\ handler[h].read \in Int
  BY DEF TypeOK, HandlersOK, Kept

LEMMA AmountTyped ==
    ASSUME TypeOK, NEW w \in Withdrawals
    PROVE  withdrawal[w].amount \in Nat
<1>1. withdrawal[w] \in WithdrawalRow
  BY DEF TypeOK
<1> QED
  BY <1>1, AmountNat, Zenon DEF WithdrawalRow

-----------------------------------------------------------------------------
(***************************************************************************)
(* The invariant.                                                          *)
(***************************************************************************)

Typed ==
    /\ wallet \in WalletRow
    /\ earning \in [Payments -> EarningRow]
    /\ withdrawal \in [Withdrawals -> WithdrawalRow]
    /\ adjusted \in Int
    /\ verified \in BOOLEAN
    /\ handler \in [Handlers -> Kept]
    /\ database \in {"postgresql", "sqlite"}

LEMMA TypedIsTypeOK == Typed <=> TypeOK
  BY Zenon DEF Typed, TypeOK, WalletRow, Kept

LEMMA WalletStarts == Init => WalletInv
<1> SUFFICES ASSUME Init PROVE WalletInv
  OBVIOUS
<1>1. wallet \in WalletRow /\ wallet.pending = 0
  BY DEF Init, WalletRow
<1>2. earning \in [Payments -> EarningRow]
  <2>1. NoEarning \in EarningRow
    BY Zenon DEF NoEarning, EarningRow
  <2> QED
    BY <2>1 DEF Init
<1>3. withdrawal \in [Withdrawals -> WithdrawalRow]
  BY NoWithdrawalTyped DEF Init
<1>4. handler \in [Handlers -> Kept] /\ database \in {"postgresql", "sqlite"}
  BY IdleKept DEF Init
<1>5. adjusted \in Int
  BY DEF Init
<1>6. verified \in BOOLEAN
  BY Zenon DEF Init
<1>7. TypeOK
  BY <1>1, <1>2, <1>3, <1>4, <1>5, <1>6, TypedIsTypeOK DEF Typed
<1>8. HandlersOK /\ OverHasRow
  BY IdleKept DEF Init, HandlersOK, OverHasRow, NoWithdrawal
<1>9. Pending = {}
  BY DEF Init, Pending, NoEarning
<1>10. LedgerPending = 0
  <2>1. LedgerPending = Pay * Cardinality(Pending)
    BY DEF LedgerPending, Pending
  <2>2. Cardinality(Pending) = 0
    BY <1>9, FS_EmptySet
  <2> QED
    BY <2>1, <2>2, EmployeeWalletAssumption
<1>11. PendingIsBacked /\ MirrorsBacked
  BY <1>1, <1>10, IdleKept DEF Init, PendingIsBacked, MirrorsBacked
<1> QED
  BY <1>7, <1>8, <1>11 DEF WalletInv

LEMMA Assembled ==
    ASSUME Typed', HandlersOK', OverHasRow', PendingIsBacked', MirrorsBacked'
    PROVE  WalletInv'
  BY Zenon DEF WalletInv, Typed, TypeOK, WalletRow, Kept

LEMMA InvParts ==
    ASSUME WalletInv
    PROVE  Typed /\ TypeOK /\ HandlersOK /\ OverHasRow
  BY TypedIsTypeOK DEF WalletInv

LEMMA WithdrawalsStay ==
    ASSUME WalletInv, UNCHANGED withdrawal
    PROVE  OverHasRow'
  BY DEF WalletInv, OverHasRow

-----------------------------------------------------------------------------
(***************************************************************************)
(* Earnings.                                                               *)
(***************************************************************************)

LEMMA MirrorReadsKeeps ==
    ASSUME WalletInv, NEW h \in Handlers, NEW p \in Payments, MirrorReads(h, p)
    PROVE  WalletInv'
<1> DEFINE k == [kind |-> "mirror", id |-> p, read |-> wallet.pending]
<1>1. k \in Kept /\ KeptOK(k) /\ k.read = wallet.pending
  BY InvParts DEF Kept, KeptOK, Typed, WalletRow, WalletInv, PendingIsBacked
<1>2. UNCHANGED <<wallet, earning, withdrawal, adjusted, verified, database>>
  BY DEF MirrorReads
<1>3. Begin(h, k)
  BY DEF MirrorReads
<1> HIDE DEF k
<1>4. /\ handler' \in [Handlers -> Kept] /\ HandlersOK'
      /\ \A g \in Handlers : handler'[g] = IF g = h THEN k ELSE handler[g]
  BY <1>1, <1>3, InvParts, BeginKeeps
<1>5. Typed'
  BY <1>2, <1>4, InvParts DEF Typed
<1>6. LedgerPending' = LedgerPending
  BY <1>2 DEF LedgerPending
<1>7. PendingIsBacked' /\ MirrorsBacked'
  BY <1>1, <1>2, <1>4, <1>6, PendingStays
<1> QED
  BY <1>2, <1>4, <1>5, <1>7, WithdrawalsStay, Assembled

\* The ledger rises with the balance; on PostgreSQL the balance may rise from an
\* old reading, which was within the ledger.
LEMMA MirrorWritesKeeps ==
    ASSUME WalletInv, NEW h \in Handlers, MirrorWrites(h)
    PROVE  WalletInv'
<1> DEFINE p == handler[h].id
           read == handler[h].read
<1>1. /\ handler[h].kind = "mirror" /\ p \in Payments /\ read \in Int /\ read >= 0
  BY InvParts, HandlerTyped DEF MirrorWrites, KeptOK
<1>2. /\ earning[p].status = "none"
      /\ earning' = [earning EXCEPT ![p].status = "PENDING_SETTLEMENT"]
      /\ wallet' = [wallet EXCEPT !.pending = read + Pay]
      /\ database = "sqlite" => wallet.pending = read
      /\ Done(h)
      /\ UNCHANGED <<withdrawal, adjusted, verified, database>>
  BY DEF MirrorWrites
<1>3. read <= LedgerPending \/ database = "sqlite"
  BY <1>1, InvParts DEF WalletInv, MirrorsBacked, Typed
<1> HIDE DEF p, read
<1>4. earning' \in [Payments -> EarningRow] /\ LedgerPending' = LedgerPending + Pay
  BY <1>1, <1>2, InvParts, EarningEdit, PendingAdded DEF Typed
<1>5. wallet' \in WalletRow /\ wallet'.pending = read + Pay
  <2>1. read + Pay \in Int
    BY <1>1, EmployeeWalletAssumption
  <2> QED
    BY <1>2, <2>1, InvParts DEF Typed, WalletRow
<1>6. /\ handler' \in [Handlers -> Kept] /\ HandlersOK'
      /\ \A g \in Handlers : handler'[g].kind = "mirror" => handler'[g] = handler[g]
  BY <1>2, InvParts, DoneKeeps
<1>7. Typed'
  BY <1>2, <1>4, <1>5, <1>6, InvParts DEF Typed
<1>8. PendingIsBacked'
  BY <1>1, <1>2, <1>3, <1>4, <1>5, LedgerTyped, EmployeeWalletAssumption
  DEF WalletInv, PendingIsBacked
<1>9. MirrorsBacked'
  <2>1. \A g \in Handlers : handler[g].read \in Int
    BY InvParts, HandlerTyped
  <2> QED
    BY <1>2, <1>4, <1>6, <2>1, LedgerTyped, EmployeeWalletAssumption
    DEF WalletInv, MirrorsBacked
<1> QED
  BY <1>2, <1>6, <1>7, <1>8, <1>9, WithdrawalsStay, Assembled

LEMMA HoldElapsesKeeps ==
    ASSUME WalletInv, NEW p \in Payments, HoldElapses(p)
    PROVE  WalletInv'
<1>1. /\ earning' = [earning EXCEPT ![p].due = TRUE]
      /\ UNCHANGED <<wallet, withdrawal, adjusted, verified, handler, database>>
  BY DEF HoldElapses
<1>2. earning' \in [Payments -> EarningRow] /\ LedgerPending' = LedgerPending
  BY <1>1, InvParts, EarningEdit, PendingAged DEF Typed
<1>3. Typed'
  BY <1>1, <1>2, InvParts DEF Typed
<1>4. HandlersOK'
  BY <1>1, InvParts DEF HandlersOK
<1>5. PendingIsBacked' /\ MirrorsBacked'
  BY <1>1, <1>2, PendingStays
<1> QED
  BY <1>1, <1>3, <1>4, <1>5, WithdrawalsStay, Assembled

\* Only on SQLite, where the balance is the ledger.
LEMMA ReleaseKeeps ==
    ASSUME WalletInv, ReleaseSettlements
    PROVE  WalletInv'
<1> DEFINE due == {p \in Payments :
                     earning[p] = [status |-> "PENDING_SETTLEMENT", due |-> TRUE]}
<1>1. /\ database = "sqlite"
      /\ earning' = [p \in Payments |-> IF p \in due
                        THEN [earning[p] EXCEPT !.status = "COMPLETED"] ELSE earning[p]]
      /\ wallet' = [wallet EXCEPT !.available = @ + Pay * Cardinality(due),
                                  !.pending = @ - Pay * Cardinality(due)]
      /\ UNCHANGED <<withdrawal, adjusted, verified, handler, database>>
  BY DEF ReleaseSettlements
<1>2. due \in SUBSET Pending
  BY DEF Pending
<1> HIDE DEF due
<1>3. Cardinality(due) \in Nat /\ LedgerPending' = LedgerPending - Pay * Cardinality(due)
  BY <1>1, <1>2, InvParts, PendingMatured DEF Typed
<1>4. earning' \in [Payments -> EarningRow]
  BY <1>1, InvParts, EarningsMature DEF Typed
<1> DEFINE sum == Pay * Cardinality(due)
<1>5. sum \in Int
  BY <1>3, EmployeeWalletAssumption
<1>6. /\ wallet' = [wallet EXCEPT !.available = @ + sum, !.pending = @ - sum]
      /\ LedgerPending' = LedgerPending - sum
  BY <1>1, <1>3
<1> HIDE DEF sum
<1>7. wallet' \in WalletRow /\ wallet'.pending = wallet.pending - sum
  <2>1. wallet \in WalletRow
    BY InvParts DEF Typed
  <2>2. wallet.available + sum \in Int /\ wallet.pending - sum \in Int
    BY <1>5, <2>1 DEF WalletRow
  <2>3. wallet' \in WalletRow
    BY <1>6, <2>1, <2>2, WalletEdit
  <2>4. wallet'.pending = wallet.pending - sum
    BY <1>6, <2>1, <2>2 DEF WalletRow
  <2> QED
    BY <2>3, <2>4
<1>8. Typed'
  BY <1>1, <1>4, <1>7, InvParts DEF Typed
<1>9. HandlersOK'
  BY <1>1, InvParts DEF HandlersOK
<1>10. PendingIsBacked'
  <2>1. LedgerPending' \in Nat
    <3>1. LedgerPending' = Pay * Cardinality(Pending') /\ IsFiniteSet(Pending')
      BY EmployeeWalletAssumption, FS_Subset DEF LedgerPending, Pending
    <3> QED
      BY <3>1, FS_CardinalityType, EmployeeWalletAssumption
  <2> QED
    BY <1>1, <1>6, <1>7, <2>1, LedgerTyped DEF WalletInv, PendingIsBacked
<1>11. MirrorsBacked'
  BY <1>1 DEF MirrorsBacked
<1> QED
  BY <1>1, <1>8, <1>9, <1>10, <1>11, WithdrawalsStay, Assembled

-----------------------------------------------------------------------------
(***************************************************************************)
(* Withdrawals, of the technician and in the hands of an administrator.    *)
(***************************************************************************)

\* What becomes of the invariant when a request does not touch earnings.
LEMMA EarningsUntouched ==
    ASSUME WalletInv, wallet' \in WalletRow, wallet'.pending = wallet.pending,
           withdrawal' \in [Withdrawals -> WithdrawalRow], OverHasRow',
           adjusted' \in Int, verified' \in BOOLEAN,
           handler' \in [Handlers -> Kept], HandlersOK',
           \A g \in Handlers : handler'[g].kind = "mirror" => handler'[g] = handler[g],
           UNCHANGED <<earning, database>>
    PROVE  WalletInv'
<1>1. LedgerPending' = LedgerPending
  BY DEF LedgerPending
<1>2. PendingIsBacked' /\ MirrorsBacked'
  BY <1>1, PendingStays
<1>3. /\ earning' \in [Payments -> EarningRow]
      /\ database' \in {"postgresql", "sqlite"}
  BY InvParts DEF Typed
<1>4. Typed'
  BY <1>3, Zenon DEF Typed
<1> QED
  BY <1>2, <1>4, Assembled

LEMMA WalletStays ==
    ASSUME WalletInv, UNCHANGED wallet
    PROVE  wallet' \in WalletRow /\ wallet'.pending = wallet.pending
  BY InvParts DEF Typed

LEMMA RowsStay ==
    ASSUME WalletInv
    PROVE  /\ UNCHANGED withdrawal
                 => withdrawal' \in [Withdrawals -> WithdrawalRow] /\ OverHasRow'
           /\ UNCHANGED adjusted => adjusted' \in Int
           /\ UNCHANGED handler =>
                 /\ handler' \in [Handlers -> Kept] /\ HandlersOK'
                 /\ \A g \in Handlers : handler'[g].kind = "mirror" => handler'[g] = handler[g]
<1>1. UNCHANGED withdrawal
        => withdrawal' \in [Withdrawals -> WithdrawalRow] /\ OverHasRow'
  BY InvParts, WithdrawalsStay DEF Typed
<1>2. UNCHANGED adjusted => adjusted' \in Int
  BY InvParts DEF Typed
<1>3. UNCHANGED handler =>
         /\ handler' \in [Handlers -> Kept] /\ HandlersOK'
         /\ \A g \in Handlers : handler'[g].kind = "mirror" => handler'[g] = handler[g]
  BY InvParts DEF Typed, HandlersOK
<1> QED
  BY <1>1, <1>2, <1>3

LEMMA VerifiedStays ==
    ASSUME WalletInv, UNCHANGED verified
    PROVE  verified' \in BOOLEAN
  BY InvParts, Zenon DEF Typed

\* A request is read, and nothing is written yet.
LEMMA ReadingKeeps ==
    ASSUME WalletInv, NEW h \in Handlers, NEW k \in Kept, KeptOK(k), k.kind # "mirror",
           Begin(h, k), UNCHANGED <<wallet, earning, withdrawal, adjusted, verified, database>>
    PROVE  WalletInv'
<1>1. /\ handler' \in [Handlers -> Kept] /\ HandlersOK'
      /\ \A g \in Handlers : handler'[g].kind = "mirror" => handler'[g] = handler[g]
  BY InvParts, BeginKeeps
<1> QED
  BY <1>1, WalletStays, RowsStay, VerifiedStays, EarningsUntouched

\* A request ends without a write.
LEMMA RefusalKeeps ==
    ASSUME WalletInv, NEW h \in Handlers, Done(h),
           UNCHANGED <<wallet, earning, withdrawal, adjusted, verified, database>>
    PROVE  WalletInv'
<1>1. /\ handler' \in [Handlers -> Kept] /\ HandlersOK'
      /\ \A g \in Handlers : handler'[g].kind = "mirror" => handler'[g] = handler[g]
  BY InvParts, DoneKeeps
<1> QED
  BY <1>1, WalletStays, RowsStay, VerifiedStays, EarningsUntouched

LEMMA WithdrawReadsKeeps ==
    ASSUME WalletInv, NEW h \in Handlers, NEW amount \in Amounts, WithdrawReads(h, amount)
    PROVE  WalletInv'
<1> DEFINE k == [kind |-> "withdraw", id |-> None, read |-> amount]
<1>1. k \in Kept /\ KeptOK(k) /\ k.kind # "mirror"
  BY EmployeeWalletAssumption DEF Kept, KeptOK
<1>2. Begin(h, k) /\ UNCHANGED <<wallet, earning, withdrawal, adjusted, verified, database>>
  BY DEF WithdrawReads
<1> HIDE DEF k
<1> QED
  BY <1>1, <1>2, ReadingKeeps

LEMMA AdminReadsKeeps ==
    ASSUME WalletInv, NEW h \in Handlers, NEW w \in Withdrawals,
           NEW kind \in {"process", "complete", "fail"}, AdminReads(h, w, kind)
    PROVE  WalletInv'
<1> DEFINE k == [kind |-> kind, id |-> w, read |-> 0]
<1>1. k \in Kept /\ KeptOK(k) /\ k.kind # "mirror"
  BY DEF Kept, KeptOK
<1>2. Begin(h, k) /\ UNCHANGED <<wallet, earning, withdrawal, adjusted, verified, database>>
  BY DEF AdminReads
<1> HIDE DEF k
<1> QED
  BY <1>1, <1>2, ReadingKeeps

LEMMA WithdrawWritesKeeps ==
    ASSUME WalletInv, NEW h \in Handlers, NEW w \in Withdrawals, WithdrawWrites(h, w)
    PROVE  WalletInv'
<1> DEFINE amount == handler[h].read
           row == [NoWithdrawal EXCEPT !.status = "REQUESTED", !.amount = amount]
<1>1. /\ handler[h].kind = "withdraw"
      /\ wallet' = [wallet EXCEPT !.available = @ - amount, !.withdrawn = @ + amount]
      /\ withdrawal' = [withdrawal EXCEPT ![w] = row]
      /\ Done(h)
      /\ UNCHANGED <<earning, adjusted, verified, database>>
  BY DEF WithdrawWrites
<1>2. amount \in Nat
  BY <1>1, InvParts, HandlerTyped, EmployeeWalletAssumption DEF KeptOK
<1> HIDE DEF amount
<1>3. wallet' \in WalletRow /\ wallet'.pending = wallet.pending
  <2>1. wallet \in WalletRow
    BY InvParts DEF Typed
  <2>2. wallet.available - amount \in Int /\ wallet.withdrawn + amount \in Nat
    BY <1>2, <2>1 DEF WalletRow
  <2>3. wallet' \in WalletRow
    BY <1>1, <2>1, <2>2, WalletEdit
  <2>4. wallet'.pending = wallet.pending
    BY <1>1, <2>1 DEF WalletRow
  <2> QED
    BY <2>3, <2>4
<1>4. row \in WithdrawalRow /\ row.status = "REQUESTED"
  <2>1. "REQUESTED" \in WithdrawalStatus
    BY DEF WithdrawalStatus
  <2> QED
    BY <1>2, <2>1, NoWithdrawalTyped, RequestEdit, Zenon DEF WithdrawalRow, WithdrawalStatus
<1> HIDE DEF row
<1>5. withdrawal' \in [Withdrawals -> WithdrawalRow]
  BY <1>1, <1>4, InvParts DEF Typed
<1>6. OverHasRow'
  BY <1>1, <1>4, InvParts DEF Typed, OverHasRow
<1>7. /\ handler' \in [Handlers -> Kept] /\ HandlersOK'
      /\ \A g \in Handlers : handler'[g].kind = "mirror" => handler'[g] = handler[g]
  BY <1>1, InvParts, DoneKeeps
<1> QED
  BY <1>1, <1>3, <1>5, <1>6, <1>7, RowsStay, VerifiedStays, EarningsUntouched

LEMMA CancelKeeps ==
    ASSUME WalletInv, NEW w \in Withdrawals, CancelWithdrawal(w)
    PROVE  WalletInv'
<1>1. /\ wallet' = Returned(wallet, withdrawal[w].amount)
      /\ withdrawal' = [withdrawal EXCEPT ![w].status = "CANCELLED", ![w].cancelRow = TRUE]
      /\ UNCHANGED <<earning, adjusted, verified, handler, database>>
  BY DEF CancelWithdrawal
<1>2. wallet' \in WalletRow /\ wallet'.pending = wallet.pending
  BY <1>1, InvParts, AmountTyped, ReturnedTyped DEF Typed
<1>3. withdrawal' \in [Withdrawals -> WithdrawalRow]
  BY <1>1, InvParts, WithdrawalEdit DEF Typed, WithdrawalStatus, Terminal
<1>4. OverHasRow'
  BY <1>1, InvParts, CancelEdit DEF Typed
<1> QED
  BY <1>1, <1>2, <1>3, <1>4, RowsStay, VerifiedStays, EarningsUntouched

LEMMA AccountChangesKeeps ==
    ASSUME WalletInv, AccountChanges
    PROVE  WalletInv'
<1>1. verified' \in BOOLEAN
  BY Zenon DEF AccountChanges
<1>2. UNCHANGED <<wallet, earning, withdrawal, adjusted, handler, database>>
  BY DEF AccountChanges
<1> QED
  BY <1>1, <1>2, WalletStays, RowsStay, EarningsUntouched

\* The save writes the new status whatever the row holds: none that ends the
\* withdrawal without a payment.
LEMMA AdminDecidesKeeps ==
    ASSUME WalletInv, NEW h \in Handlers, AdminProcesses(h) \/ AdminCompletes(h)
    PROVE  WalletInv'
<1>1. PICK s \in {"PROCESSING", "COMPLETED"} :
         /\ handler[h].kind \in {"process", "complete"}
         /\ withdrawal' = [withdrawal EXCEPT ![handler[h].id].status = s]
         /\ Done(h)
         /\ UNCHANGED <<wallet, earning, adjusted, verified, database>>
  BY DEF AdminProcesses, AdminCompletes
<1>2. handler[h].id \in Withdrawals
  BY <1>1, InvParts, HandlerTyped DEF KeptOK
<1>3. withdrawal' \in [Withdrawals -> WithdrawalRow]
  BY <1>1, <1>2, InvParts, WithdrawalEdit DEF Typed, WithdrawalStatus, Terminal
<1>4. OverHasRow'
  BY <1>1, <1>2, InvParts, StatusEdit
<1>5. /\ handler' \in [Handlers -> Kept] /\ HandlersOK'
      /\ \A g \in Handlers : handler'[g].kind = "mirror" => handler'[g] = handler[g]
  BY <1>1, InvParts, DoneKeeps
<1> QED
  BY <1>1, <1>3, <1>4, <1>5, WalletStays, RowsStay, VerifiedStays, EarningsUntouched

LEMMA AdminFailsKeeps ==
    ASSUME WalletInv, NEW h \in Handlers, AdminFails(h)
    PROVE  WalletInv'
<1> DEFINE w == handler[h].id
<1>1. w \in Withdrawals
  BY InvParts, HandlerTyped DEF AdminFails, KeptOK
<1>2. Done(h) /\ UNCHANGED <<earning, adjusted, verified, database>>
  BY DEF AdminFails
<1>3. \/ /\ wallet' = Returned(wallet, withdrawal[w].amount)
         /\ withdrawal' = [withdrawal EXCEPT ![w].status = "FAILED", ![w].failRow = TRUE]
      \/ UNCHANGED <<wallet, withdrawal>>
  BY DEF AdminFails
<1> HIDE DEF w
<1>4. CASE UNCHANGED <<wallet, withdrawal>>
  BY <1>2, <1>4, RefusalKeeps
<1>5. CASE /\ wallet' = Returned(wallet, withdrawal[w].amount)
           /\ withdrawal' = [withdrawal EXCEPT ![w].status = "FAILED", ![w].failRow = TRUE]
  <2>1. wallet' \in WalletRow /\ wallet'.pending = wallet.pending
    BY <1>1, <1>5, InvParts, AmountTyped, ReturnedTyped DEF Typed
  <2>2. withdrawal' \in [Withdrawals -> WithdrawalRow]
    BY <1>1, <1>5, InvParts, WithdrawalEdit DEF Typed, WithdrawalStatus, Terminal
  <2>3. OverHasRow'
    BY <1>1, <1>5, InvParts, FailEdit DEF Typed
  <2>4. /\ handler' \in [Handlers -> Kept] /\ HandlersOK'
        /\ \A g \in Handlers : handler'[g].kind = "mirror" => handler'[g] = handler[g]
    BY <1>2, InvParts, DoneKeeps
  <2> QED
    BY <1>2, <2>1, <2>2, <2>3, <2>4, RowsStay, VerifiedStays, EarningsUntouched
<1> QED
  BY <1>3, <1>4, <1>5

LEMMA AdminAdjustsKeeps ==
    ASSUME WalletInv, NEW amount \in Adjustments, AdminCredits(amount) \/ AdminDebits(amount)
    PROVE  WalletInv'
<1>1. PICK change \in {amount, -amount} :
         /\ wallet' = [wallet EXCEPT !.available = @ + change]
         /\ adjusted' = adjusted + change
         /\ UNCHANGED <<earning, withdrawal, verified, handler, database>>
  <2>1. amount \in Nat /\ adjusted \in Int /\ wallet.available \in Int
    BY InvParts, EmployeeWalletAssumption DEF Typed, WalletRow
  <2>2. CASE AdminCredits(amount)
    BY <2>2 DEF AdminCredits
  <2>3. CASE AdminDebits(amount)
    <3>1. /\ wallet.available - amount = wallet.available + (-amount)
          /\ adjusted - amount = adjusted + (-amount)
      BY <2>1
    <3> QED
      BY <2>3, <3>1 DEF AdminDebits
  <2> QED
    BY <2>2, <2>3
<1>2. change \in Int
  BY EmployeeWalletAssumption
<1>3. wallet' \in WalletRow /\ wallet'.pending = wallet.pending
  BY <1>1, <1>2, InvParts DEF Typed, WalletRow
<1>4. adjusted' \in Int
  BY <1>1, <1>2, InvParts DEF Typed
<1> QED
  BY <1>1, <1>3, <1>4, RowsStay, VerifiedStays, EarningsUntouched

LEMMA SetWalletStatusKeeps ==
    ASSUME WalletInv, NEW status \in {"ACTIVE", "SUSPENDED"}, SetWalletStatus(status)
    PROVE  WalletInv'
<1>1. wallet' \in WalletRow /\ wallet'.pending = wallet.pending
  BY InvParts DEF SetWalletStatus, Typed, WalletRow
<1> QED
  BY <1>1, RowsStay, VerifiedStays, EarningsUntouched DEF SetWalletStatus

-----------------------------------------------------------------------------
(***************************************************************************)
(* Theorems.                                                               *)
(***************************************************************************)

LEMMA WalletStep ==
    ASSUME WalletInv, [Next]_vars
    PROVE  WalletInv'
<1>1. ASSUME NEW h \in Handlers,
             \/ \E p \in Payments : MirrorReads(h, p)
             \/ MirrorWrites(h) \/ MirrorRollsBack(h)
      PROVE  WalletInv'
  BY <1>1, MirrorReadsKeeps, MirrorWritesKeeps, RefusalKeeps DEF MirrorRollsBack
<1>2. ASSUME NEW h \in Handlers,
             \/ \E amount \in Amounts : WithdrawReads(h, amount)
             \/ \E w \in Withdrawals : WithdrawWrites(h, w)
             \/ WithdrawRefused(h)
      PROVE  WalletInv'
  BY <1>2, WithdrawReadsKeeps, WithdrawWritesKeeps, RefusalKeeps DEF WithdrawRefused
<1>3. ASSUME NEW h \in Handlers,
             \/ \E w \in Withdrawals, kind \in {"process", "complete", "fail"} :
                   AdminReads(h, w, kind)
             \/ AdminProcesses(h) \/ AdminCompletes(h) \/ AdminFails(h)
      PROVE  WalletInv'
  BY <1>3, AdminReadsKeeps, AdminDecidesKeeps, AdminFailsKeeps
<1>4. CASE UNCHANGED vars
  <2>1. UNCHANGED <<wallet, earning, withdrawal, adjusted, verified, handler, database>>
    BY <1>4 DEF vars
  <2> QED
    BY <2>1, WalletStays, RowsStay, VerifiedStays, EarningsUntouched
<1> QED
  BY <1>1, <1>2, <1>3, <1>4, HoldElapsesKeeps, ReleaseKeeps, CancelKeeps,
     AccountChangesKeeps, AdminAdjustsKeeps, SetWalletStatusKeeps DEF Next

LEMMA WalletAlways == Spec => []WalletInv
<1>1. Init => WalletInv
  BY WalletStarts
<1>2. WalletInv /\ [Next]_vars => WalletInv'
  BY WalletStep
<1> QED
  BY <1>1, <1>2, PTL DEF Spec

\* Every variable keeps its type; total_withdrawn never falls below zero.
THEOREM TypeCorrect == Spec => []TypeOK
<1>1. WalletInv => TypeOK
  BY DEF WalletInv
<1> QED
  BY <1>1, WalletAlways, PTL

\* Whatever the views and the cancellation read before they wrote, a withdrawal
\* that ended without a payment has given its amount back.
THEOREM OverIsReturnedAlways == Spec => []OverIsReturned
<1>1. WalletInv => OverIsReturned
  BY DEF WalletInv, OverHasRow, OverIsReturned, Reversals
<1> QED
  BY <1>1, WalletAlways, PTL

\* The pending balance never exceeds the rows it stands for, on either database,
\* and on SQLite it is their sum.
THEOREM PendingBacked == Spec => []PendingIsBacked
<1>1. WalletInv => PendingIsBacked
  BY DEF WalletInv
<1> QED
  BY <1>1, WalletAlways, PTL

-----------------------------------------------------------------------------
(***************************************************************************)
(* Sums over the withdrawals.                                              *)
(***************************************************************************)

\* Every set of naturals that is not empty has a least element.
LEMMA LeastNatural ==
    ASSUME NEW T \in SUBSET Nat, T # {}
    PROVE  \E x \in T : \A y \in T : x <= y
  <1> DEFINE R == OpToRel(<, Nat)
  <1>1. IsWellFoundedOn(R, Nat)
    BY NatLessThanWellFounded
  <1>2. \A x, y \in Nat : y < x => <<y, x>> \in R
    BY DEF OpToRel
  <1> HIDE DEF R
  <1>3. \E x \in T : \A y \in T : ~(<<y, x>> \in R)
    BY <1>1, WFMin, Zenon
  <1>4. PICK x \in T : \A y \in T : ~(<<y, x>> \in R)
    BY <1>3
  <1>5. \A y \in T : x \in Nat /\ y \in Nat /\ ~(y < x)
    BY <1>2, <1>4
  <1> QED BY <1>5

LEMMA NaturalInduction ==
    ASSUME NEW A \in SUBSET Nat, 0 \in A, \A n \in A : n + 1 \in A
    PROVE  A = Nat
  <1> DEFINE T == Nat \ A
  <1> SUFFICES ASSUME T # {} PROVE FALSE
    OBVIOUS
  <1>1. PICK x \in T : \A y \in T : x <= y
    BY LeastNatural
  <1>2. x \in Nat /\ x # 0 /\ x - 1 \in Nat
    BY <1>1
  <1>3. x - 1 \in A
    BY <1>1, <1>2
  <1>4. (x - 1) + 1 = x
    BY <1>2
  <1> QED BY <1>1, <1>3, <1>4

Pick(s) == CHOOSE x \in s : TRUE

\* i sums f over every set of it that Withdrawals has.
Sums(i, f) ==
    /\ i \in [SUBSET Withdrawals -> Int]
    /\ \A s \in SUBSET Withdrawals :
          i[s] = IF s = {} THEN 0 ELSE f[Pick(s)] + i[s \ {Pick(s)}]

Small(n) == {s \in SUBSET Withdrawals : Cardinality(s) <= n}

LEMMA PickIn == ASSUME NEW s, s # {} PROVE Pick(s) \in s
  BY DEF Pick

LEMMA Smaller ==
    ASSUME IsFiniteSet(Withdrawals), NEW s \in SUBSET Withdrawals
    PROVE  /\ Cardinality(s) \in Nat /\ IsFiniteSet(s)
           /\ Cardinality(s) <= Cardinality(Withdrawals)
           /\ s = {} <=> Cardinality(s) = 0
           /\ s # {} => /\ Pick(s) \in s /\ Pick(s) \in Withdrawals
                        /\ s \ {Pick(s)} \in SUBSET Withdrawals
                        /\ Cardinality(s \ {Pick(s)}) = Cardinality(s) - 1
  <1>1. IsFiniteSet(s) /\ Cardinality(s) <= Cardinality(Withdrawals)
    BY FS_Subset
  <1>2. Cardinality(s) \in Nat /\ (s = {} <=> Cardinality(s) = 0)
    BY <1>1, FS_CardinalityType, FS_EmptySet
  <1>3. s # {} => Pick(s) \in s
    BY PickIn
  <1>4. s # {} => Cardinality(s \ {Pick(s)}) = Cardinality(s) - 1
    BY <1>1, <1>3, FS_RemoveElement
  <1> QED BY <1>1, <1>2, <1>3, <1>4

LEMMA SmallZero ==
    ASSUME IsFiniteSet(Withdrawals)
    PROVE  /\ \A s \in Small(0) : s = {}
           /\ \A n \in Nat : {} \in Small(n)
  <1>1. ASSUME NEW s \in Small(0) PROVE s = {}
    <2>1. s \in SUBSET Withdrawals /\ Cardinality(s) <= 0
      BY DEF Small
    <2>2. Cardinality(s) \in Nat /\ (s = {} <=> Cardinality(s) = 0)
      BY <2>1, Smaller
    <2> QED BY <2>1, <2>2
  <1>2. Cardinality({}) = 0
    BY FS_EmptySet
  <1> QED BY <1>1, <1>2 DEF Small

\* What holds of the empty set, and of a set if it does without the element that
\* is picked, holds of every set of withdrawals.
LEMMA PickInduction ==
    ASSUME IsFiniteSet(Withdrawals), NEW Q \in SUBSET (SUBSET Withdrawals),
           {} \in Q,
           \A s \in SUBSET Withdrawals : s # {} /\ s \ {Pick(s)} \in Q => s \in Q
    PROVE  Q = SUBSET Withdrawals
  <1> DEFINE A == {n \in Nat : Small(n) \subseteq Q}
  <1>1. 0 \in A
    BY SmallZero
  <1>2. ASSUME NEW n \in A PROVE n + 1 \in A
    <2>1. n \in Nat /\ n + 1 \in Nat
      OBVIOUS
    <2>2. ASSUME NEW s \in Small(n + 1) PROVE s \in Q
      <3>1. s \in SUBSET Withdrawals
        BY DEF Small
      <3>2. s # {} => s \ {Pick(s)} \in Small(n)
        BY <2>1, <3>1, Smaller DEF Small
      <3> QED BY <3>1, <3>2
    <2> QED BY <2>1, <2>2
  <1>3. A = Nat
    <2>1. A \in SUBSET Nat
      OBVIOUS
    <2> HIDE DEF A
    <2> QED BY <1>1, <1>2, <2>1, NaturalInduction
  <1>4. ASSUME NEW s \in SUBSET Withdrawals PROVE s \in Q
    <2>1. Cardinality(s) \in Nat
      BY Smaller
    <2>2. s \in Small(Cardinality(s))
      BY <2>1 DEF Small
    <2> QED BY <1>3, <2>1, <2>2
  <1> QED BY <1>4

LEMMA SumsExist ==
    ASSUME IsFiniteSet(Withdrawals), NEW f \in [Withdrawals -> Int]
    PROVE  \E i : Sums(i, f)
  <1> DEFINE Good(n, i) ==
                /\ i \in [Small(n) -> Int]
                /\ \A s \in Small(n) :
                      i[s] = IF s = {} THEN 0 ELSE f[Pick(s)] + i[s \ {Pick(s)}]
             A == {n \in Nat : \E i : Good(n, i)}
  <1>1. 0 \in A
    <2> DEFINE i == [s \in Small(0) |-> 0]
    <2>1. \A s \in Small(0) : s = {}
      BY SmallZero
    <2>2. Good(0, i)
      BY <2>1
    <2> QED BY <2>2
  <1>2. ASSUME NEW n \in A PROVE n + 1 \in A
    <2>1. PICK i : Good(n, i)
      OBVIOUS
    <2> DEFINE k == [s \in Small(n + 1) |->
                       IF s \in Small(n) THEN i[s] ELSE f[Pick(s)] + i[s \ {Pick(s)}]]
    <2>2. ASSUME NEW s \in Small(n + 1), s # {}
          PROVE  s \ {Pick(s)} \in Small(n) /\ Pick(s) \in Withdrawals
      BY <2>2, Smaller DEF Small
    <2>3. \A s \in Small(n) : s \in Small(n + 1)
      <3> SUFFICES ASSUME NEW s \in Small(n) PROVE s \in Small(n + 1)
        OBVIOUS
      <3>1. Cardinality(s) \in Nat
        BY Smaller DEF Small
      <3> QED BY <3>1 DEF Small
    <2>4. \A s \in Small(n + 1) : s = {} => s \in Small(n)
      BY SmallZero
    <2>5. \A s \in Small(n) : i[s] \in Int
      BY <2>1
    <2>6. \A x \in Withdrawals : f[x] \in Int
      OBVIOUS
    <2>7. k \in [Small(n + 1) -> Int]
      <3> SUFFICES ASSUME NEW s \in Small(n + 1)
                   PROVE  (IF s \in Small(n) THEN i[s]
                           ELSE f[Pick(s)] + i[s \ {Pick(s)}]) \in Int
        OBVIOUS
      <3>1. CASE s \in Small(n)
        BY <3>1, <2>5
      <3>2. CASE s \notin Small(n)
        <4>1. s # {}
          BY <3>2, <2>4
        <4>2. f[Pick(s)] \in Int /\ i[s \ {Pick(s)}] \in Int
          BY <4>1, <2>2, <2>5, <2>6
        <4> QED BY <3>2, <4>2
      <3> QED BY <3>1, <3>2
    <2>8. \A s \in Small(n) : k[s] = i[s]
      BY <2>3
    <2>9. ASSUME NEW s \in Small(n + 1)
          PROVE  k[s] = IF s = {} THEN 0 ELSE f[Pick(s)] + k[s \ {Pick(s)}]
      <3>1. CASE s = {}
        <4>1. s \in Small(n) /\ i[s] = 0
          BY <2>1, <2>4, <3>1
        <4> QED BY <3>1, <4>1, <2>8
      <3>2. CASE s # {}
        <4>1. k[s \ {Pick(s)}] = i[s \ {Pick(s)}]
          BY <3>2, <2>2, <2>8
        <4>2. k[s] = f[Pick(s)] + i[s \ {Pick(s)}]
          BY <2>1, <3>2
        <4> QED BY <3>2, <4>1, <4>2
      <3> QED BY <3>1, <3>2
    <2> HIDE DEF k
    <2>10. Good(n + 1, k)
      BY <2>7, <2>9
    <2>11. n + 1 \in Nat
      OBVIOUS
    <2> QED BY <2>10, <2>11
  <1> DEFINE c == Cardinality(Withdrawals)
  <1>3. c \in Nat
    BY FS_CardinalityType
  <1>4. A = Nat
    <2>1. A \in SUBSET Nat
      OBVIOUS
    <2> HIDE DEF A
    <2> QED BY <1>1, <1>2, <2>1, NaturalInduction
  <1>5. PICK i : Good(c, i)
    BY <1>3, <1>4
  <1>6. Small(c) = SUBSET Withdrawals
    BY Smaller DEF Small
  <1>7. Sums(i, f)
    BY <1>5, <1>6 DEF Sums
  <1> QED BY <1>7

\* Two sums of functions that differ at one withdrawal differ by as much.
LEMMA SumsDiffer ==
    ASSUME IsFiniteSet(Withdrawals), NEW f \in [Withdrawals -> Int],
           NEW g \in [Withdrawals -> Int], NEW w \in Withdrawals,
           \A x \in Withdrawals : x # w => g[x] = f[x],
           NEW i, NEW k, Sums(i, f), Sums(k, g)
    PROVE  k[Withdrawals] = i[Withdrawals] + (g[w] - f[w])
  <1> DEFINE d(s) == IF w \in s THEN g[w] - f[w] ELSE 0
             Q == {s \in SUBSET Withdrawals : k[s] = i[s] + d(s)}
  <1>0. /\ \A s \in SUBSET Withdrawals : i[s] \in Int /\ k[s] \in Int
        /\ \A x \in Withdrawals : f[x] \in Int /\ g[x] \in Int
    BY DEF Sums
  <1>1. {} \in Q
    <2>1. {} \in SUBSET Withdrawals
      OBVIOUS
    <2>2. i[{}] = 0 /\ k[{}] = 0
      BY <2>1 DEF Sums
    <2>3. d({}) = 0
      OBVIOUS
    <2> QED BY <2>1, <2>2, <2>3
  <1>2. ASSUME NEW s \in SUBSET Withdrawals, s # {}, s \ {Pick(s)} \in Q
        PROVE  s \in Q
    <2>1. PICK x \in Withdrawals, r \in SUBSET Withdrawals :
             x = Pick(s) /\ r = s \ {x} /\ x \in s
      BY <1>2, Smaller
    <2>2. i[s] = f[x] + i[r] /\ k[s] = g[x] + k[r]
      BY <1>2, <2>1 DEF Sums
    <2>3. k[r] = i[r] + d(r)
      BY <1>2, <2>1
    <2>4. /\ f[x] \in Int /\ g[x] \in Int /\ i[r] \in Int /\ k[r] \in Int
          /\ g[w] - f[w] \in Int
      BY <1>0
    <2>5. CASE x = w
      <3>1. d(r) = 0 /\ d(s) = g[x] - f[x]
        BY <2>1, <2>5
      <3> HIDE DEF d
      <3>2. k[s] = i[s] + d(s)
        BY <2>2, <2>3, <2>4, <3>1
      <3> QED BY <3>2
    <2>6. CASE x # w
      <3>1. d(s) = d(r) /\ g[x] = f[x] /\ d(r) \in Int
        BY <2>1, <2>4, <2>6
      <3> HIDE DEF d
      <3>2. k[s] = i[s] + d(s)
        BY <2>2, <2>3, <2>4, <3>1
      <3> QED BY <3>2
    <2> QED BY <2>5, <2>6
  <1>3. Q \in SUBSET (SUBSET Withdrawals)
    OBVIOUS
  <1> HIDE DEF Q
  <1>4. Q = SUBSET Withdrawals
    BY <1>1, <1>2, <1>3, PickInduction
  <1> QED BY <1>4 DEF Q

-----------------------------------------------------------------------------
Net(row) == row.amount * (Reversals(row) - 1)

NetSum(f) == MapThenSumSet(LAMBDA w : f[w].amount * (Reversals(f[w]) - 1), Withdrawals)

\* The sum of the ledger over the withdrawals is one of a function.
LEMMA NetSumIs ==
    ASSUME IsFiniteSet(Withdrawals), NEW f, \A w \in Withdrawals : Net(f[w]) \in Int
    PROVE  \E i : Sums(i, [w \in Withdrawals |-> Net(f[w])]) /\ NetSum(f) = i[Withdrawals]
  <1> DEFINE n == [w \in Withdrawals |-> Net(f[w])]
             Is(i) == i = [s \in SUBSET Withdrawals |->
                             IF s = {} THEN 0
                             ELSE f[CHOOSE x \in s : TRUE].amount
                                    * (Reversals(f[CHOOSE x \in s : TRUE]) - 1)
                                  + i[s \ {CHOOSE x \in s : TRUE}]]
  <1>1. NetSum(f) = (CHOOSE i : Is(i))[Withdrawals]
    BY DEF NetSum, MapThenSumSet, MapThenFoldSet
  <1>2. n \in [Withdrawals -> Int]
    OBVIOUS
  <1>3. \A s \in SUBSET Withdrawals : s # {} =>
           /\ Pick(s) \in Withdrawals
           /\ n[Pick(s)] = f[CHOOSE x \in s : TRUE].amount
                            * (Reversals(f[CHOOSE x \in s : TRUE]) - 1)
    <2> SUFFICES ASSUME NEW s \in SUBSET Withdrawals, s # {}
                 PROVE  /\ Pick(s) \in Withdrawals
                        /\ n[Pick(s)] = Net(f[Pick(s)])
      BY DEF Net, Pick
    <2> QED BY PickIn
  <1>4. PICK i : Sums(i, n)
    <2> HIDE DEF n
    <2> QED BY <1>2, SumsExist
  <1>5. Is(i)
    <2> SUFFICES i = [s \in SUBSET Withdrawals |->
                         IF s = {} THEN 0 ELSE n[Pick(s)] + i[s \ {Pick(s)}]]
      BY <1>3 DEF Pick
    <2> QED BY <1>4 DEF Sums
  <1> DEFINE c == CHOOSE j : Is(j)
  <1>6. Is(c)
    <2> HIDE DEF Is
    <2> QED BY <1>5
  <1>7. ASSUME NEW s \in SUBSET Withdrawals
        PROVE  c[s] = IF s = {} THEN 0 ELSE n[Pick(s)] + c[s \ {Pick(s)}]
    <2> HIDE DEF c
    <2>1. c[s] = IF s = {} THEN 0
                 ELSE f[CHOOSE x \in s : TRUE].amount
                        * (Reversals(f[CHOOSE x \in s : TRUE]) - 1)
                      + c[s \ {CHOOSE x \in s : TRUE}]
      BY <1>6
    <2>2. CASE s = {}
      BY <2>1, <2>2
    <2>3. CASE s # {}
      <3> HIDE DEF n
      <3> QED BY <1>3, <2>1, <2>3 DEF Pick
    <2> QED BY <2>2, <2>3
  <1>8. DOMAIN c = SUBSET Withdrawals /\ c = [s \in SUBSET Withdrawals |-> c[s]]
    <2> HIDE DEF c
    <2> QED BY <1>6
  <1>9. NetSum(f) = c[Withdrawals]
    BY <1>1
  <1> HIDE DEF c, n
  <1> DEFINE Q == {s \in SUBSET Withdrawals : c[s] \in Int}
  <1>10. {} \in Q
    <2>1. {} \in SUBSET Withdrawals
      OBVIOUS
    <2>2. c[{}] = 0
      BY <1>7, <2>1
    <2> QED BY <2>1, <2>2
  <1>11. ASSUME NEW s \in SUBSET Withdrawals, s # {}, s \ {Pick(s)} \in Q
         PROVE  s \in Q
    <2>1. n[Pick(s)] \in Int
      BY <1>2, <1>3, <1>11
    <2>2. c[s] = n[Pick(s)] + c[s \ {Pick(s)}]
      BY <1>7, <1>11
    <2>3. c[s \ {Pick(s)}] \in Int
      BY <1>11
    <2>4. c[s] \in Int
      BY <2>1, <2>2, <2>3
    <2> QED BY <2>4
  <1>12. Q = SUBSET Withdrawals
    <2>1. Q \in SUBSET (SUBSET Withdrawals)
      OBVIOUS
    <2> HIDE DEF Q
    <2> QED BY <1>10, <1>11, <2>1, PickInduction
  <1>13. Sums(c, n)
    BY <1>7, <1>8, <1>12 DEF Sums
  <1> QED BY <1>9, <1>13 DEF n

\* The sum over the withdrawals when one of them changes.
LEMMA NetSumChanges ==
    ASSUME NEW f, NEW g, NEW w \in Withdrawals,
           \A x \in Withdrawals : Net(f[x]) \in Int /\ Net(g[x]) \in Int,
           \A x \in Withdrawals : x # w => g[x] = f[x]
    PROVE  /\ NetSum(f) \in Int /\ NetSum(g) \in Int
           /\ NetSum(g) = NetSum(f) + (Net(g[w]) - Net(f[w]))
  <1> DEFINE m == [x \in Withdrawals |-> Net(f[x])]
             n == [x \in Withdrawals |-> Net(g[x])]
  <1>1. m \in [Withdrawals -> Int] /\ n \in [Withdrawals -> Int]
    OBVIOUS
  <1>2. PICK i : Sums(i, m) /\ NetSum(f) = i[Withdrawals]
    BY NetSumIs, EmployeeWalletAssumption
  <1>3. PICK k : Sums(k, n) /\ NetSum(g) = k[Withdrawals]
    BY NetSumIs, EmployeeWalletAssumption
  <1>4. \A x \in Withdrawals : x # w => n[x] = m[x]
    OBVIOUS
  <1>5. n[w] - m[w] = Net(g[w]) - Net(f[w])
    OBVIOUS
  <1> HIDE DEF m, n
  <1>6. k[Withdrawals] = i[Withdrawals] + (n[w] - m[w])
    BY <1>1, <1>2, <1>3, <1>4, EmployeeWalletAssumption, SumsDiffer
  <1>7. i[Withdrawals] \in Int /\ k[Withdrawals] \in Int
    BY <1>2, <1>3 DEF Sums
  <1> QED BY <1>2, <1>3, <1>5, <1>6, <1>7

LEMMA NetSumInt ==
    ASSUME NEW f, \A x \in Withdrawals : Net(f[x]) \in Int
    PROVE  NetSum(f) \in Int
  <1>1. PICK i : Sums(i, [x \in Withdrawals |-> Net(f[x])]) /\ NetSum(f) = i[Withdrawals]
    BY NetSumIs, EmployeeWalletAssumption
  <1> QED BY <1>1 DEF Sums

LEMMA NetSumZero ==
    ASSUME NEW f, \A x \in Withdrawals : Net(f[x]) = 0
    PROVE  NetSum(f) = 0
  <1> DEFINE n == [x \in Withdrawals |-> Net(f[x])]
  <1>1. PICK i : Sums(i, n) /\ NetSum(f) = i[Withdrawals]
    BY NetSumIs, EmployeeWalletAssumption
  <1>2. \A x \in Withdrawals : n[x] = 0
    OBVIOUS
  <1> DEFINE Q == {s \in SUBSET Withdrawals : i[s] = 0}
  <1> HIDE DEF n
  <1>3. {} \in Q
    <2>1. {} \in SUBSET Withdrawals
      OBVIOUS
    <2> QED BY <1>1, <2>1 DEF Sums
  <1>4. ASSUME NEW s \in SUBSET Withdrawals, s # {}, s \ {Pick(s)} \in Q
        PROVE  s \in Q
    <2>1. n[Pick(s)] = 0
      BY <1>2, <1>4, PickIn
    <2>2. i[s] = n[Pick(s)] + i[s \ {Pick(s)}]
      BY <1>1, <1>4 DEF Sums
    <2>3. i[s \ {Pick(s)}] = 0
      BY <1>4
    <2> QED BY <2>1, <2>2, <2>3
  <1>5. Q = SUBSET Withdrawals
    <2>1. Q \in SUBSET (SUBSET Withdrawals)
      OBVIOUS
    <2> HIDE DEF Q
    <2> QED BY <1>3, <1>4, <2>1, EmployeeWalletAssumption, PickInduction
  <1> QED BY <1>1, <1>5

-----------------------------------------------------------------------------
(***************************************************************************)
(* The available balance and its ledger.                                   *)
(***************************************************************************)

\* A withdrawal that was not requested yet weighs nothing, and no withdrawal
\* overdraws the balance.
Unrequested == \A w \in Withdrawals : withdrawal[w].status = "none" => Net(withdrawal[w]) = 0

Solvent == wallet.available >= 0

AuditInv == WalletInv /\ Unrequested /\ Solvent

Matured == {p \in Payments : earning[p].status = "COMPLETED"}

Earned == Pay * Cardinality(Matured)

LEMMA MaturedFinite ==
    IsFiniteSet(Matured) /\ Cardinality(Matured) \in Nat /\ Earned \in Int
  <1>1. IsFiniteSet(Matured)
    BY EmployeeWalletAssumption, FS_Subset DEF Matured
  <1>2. Cardinality(Matured) \in Nat
    BY <1>1, FS_CardinalityType
  <1> QED BY <1>1, <1>2, EmployeeWalletAssumption DEF Earned

LEMMA NetIs ==
    ASSUME NEW row, row.amount \in Nat
    PROVE  /\ Net(row) \in Int
           /\ row.cancelRow = FALSE /\ row.failRow = FALSE => Net(row) = -row.amount
           /\ row.amount = 0 => Net(row) = 0
  <1>1. CASE Reversals(row) = 0
    BY <1>1 DEF Net, Reversals
  <1>2. CASE Reversals(row) = 1
    BY <1>2 DEF Net, Reversals
  <1>3. CASE Reversals(row) = 2
    BY <1>3 DEF Net, Reversals
  <1>4. Reversals(row) \in {0, 1, 2}
    BY DEF Reversals
  <1> QED BY <1>1, <1>2, <1>3, <1>4

\* A reversal row gives the amount back.
LEMMA NetRises ==
    ASSUME NEW row, NEW new, row.amount \in Nat, new.amount = row.amount,
           Reversals(new) = Reversals(row) + 1
    PROVE  Net(new) = Net(row) + row.amount
  <1>1. Reversals(row) \in {0, 1, 2}
    BY DEF Reversals
  <1>2. \A a \in Nat : \A r \in {0, 1, 2} : a * ((r + 1) - 1) = a * (r - 1) + a
    OBVIOUS
  <1>3. Net(row) = row.amount * (Reversals(row) - 1)
    BY DEF Net
  <1>4. Net(new) = row.amount * ((Reversals(row) + 1) - 1)
    BY Zenon DEF Net
  <1> QED BY <1>1, <1>2, <1>3, <1>4

LEMMA NetTyped ==
    ASSUME TypeOK
    PROVE  \A w \in Withdrawals : Net(withdrawal[w]) \in Int
  BY AmountTyped, NetIs

LEMMA LedgerSplit ==
    /\ LedgerAvailable = adjusted + Earned + NetSum(withdrawal)
    /\ LedgerAvailable' = adjusted' + Earned' + NetSum(withdrawal')
  <1>1. LedgerAvailable = adjusted + Earned + NetSum(withdrawal)
    BY DEF LedgerAvailable, Earned, Matured, NetSum
  <1>2. (LedgerAvailable = adjusted + Earned + NetSum(withdrawal))'
    BY <1>1, PTL
  <1> QED BY <1>1, <1>2

\* The balance changes by what is posted.
Conforms ==
    wallet'.available - wallet.available =
        (adjusted' - adjusted) + (Earned' - Earned) + (NetSum(withdrawal') - NetSum(withdrawal))

LEMMA ConformsIsPost ==
    ASSUME TypeOK, TypeOK', Conforms, Solvent'
    PROVE  Account!Post
  <1>1. \A x \in Withdrawals : Net(withdrawal'[x]) \in Int
    <2>1. \A x \in Withdrawals : withdrawal'[x].amount \in Nat
      <3>1. \A x \in Withdrawals : withdrawal'[x] \in WithdrawalRow
        BY DEF TypeOK
      <3> QED BY <3>1, AmountNat, Zenon DEF WithdrawalRow
    <2> QED BY <2>1, NetIs
  <1>2. NetSum(withdrawal) \in Int /\ NetSum(withdrawal') \in Int
    BY <1>1, NetTyped, NetSumInt
  <1>3. Earned \in Int /\ Earned' \in Int
    <2>1. IsFiniteSet(Matured') /\ Cardinality(Matured') \in Nat
      BY EmployeeWalletAssumption, FS_Subset, FS_CardinalityType DEF Matured
    <2> QED BY <2>1, MaturedFinite, EmployeeWalletAssumption DEF Earned
  <1>4. /\ adjusted \in Int /\ adjusted' \in Int
        /\ wallet.available \in Int /\ wallet'.available \in Int
    BY DEF TypeOK
  <1>5. LedgerAvailable' \in Int
    BY <1>2, <1>3, <1>4, LedgerSplit
  <1>6. wallet'.available = wallet.available + (LedgerAvailable' - LedgerAvailable)
    BY <1>2, <1>3, <1>4, LedgerSplit DEF Conforms
  <1>7. wallet'.available >= 0
    BY DEF Solvent
  <1> QED BY <1>5, <1>6, <1>7 DEF Account!Post

-----------------------------------------------------------------------------
(***************************************************************************)
(* Every step posts what it changes.                                       *)
(***************************************************************************)

Audited == Conforms /\ Solvent' /\ Unrequested'

\* Neither rows nor the balance change, or rows of earnings only that did not and
\* do not count.
LEMMA NothingPosted ==
    ASSUME AuditInv, UNCHANGED <<withdrawal, adjusted>>, Earned' = Earned,
           wallet'.available = wallet.available
    PROVE  Audited
  <1>1. NetSum(withdrawal') = NetSum(withdrawal) /\ NetSum(withdrawal) \in Int
    BY NetTyped, NetSumInt DEF AuditInv, WalletInv
  <1>2. Conforms
    BY <1>1, MaturedFinite DEF Conforms, AuditInv, WalletInv, TypeOK
  <1>3. Solvent' /\ Unrequested'
    BY DEF AuditInv, Solvent, Unrequested
  <1> QED BY <1>2, <1>3 DEF Audited

LEMMA EarningsRest ==
    ASSUME AuditInv, UNCHANGED <<wallet, earning, withdrawal, adjusted>>
    PROVE  Audited
  <1>1. Earned' = Earned
    BY DEF Earned, Matured
  <1> QED BY <1>1, NothingPosted

\* One withdrawal changes, and the balance by as much.
LEMMA OnePosted ==
    ASSUME AuditInv, UNCHANGED <<earning, adjusted>>, NEW w \in Withdrawals,
           \A x \in Withdrawals : withdrawal'[x].amount \in Nat,
           \A x \in Withdrawals : x # w => withdrawal'[x] = withdrawal[x],
           withdrawal'[w].status # "none" \/ Net(withdrawal'[w]) = 0,
           wallet'.available = wallet.available + (Net(withdrawal'[w]) - Net(withdrawal[w])),
           Solvent'
    PROVE  Audited
  <1>1. \A x \in Withdrawals : Net(withdrawal[x]) \in Int /\ Net(withdrawal'[x]) \in Int
    BY NetTyped, NetIs DEF AuditInv, WalletInv
  <1>2. /\ NetSum(withdrawal) \in Int /\ NetSum(withdrawal') \in Int
        /\ NetSum(withdrawal') = NetSum(withdrawal)
                                   + (Net(withdrawal'[w]) - Net(withdrawal[w]))
    BY <1>1, NetSumChanges
  <1>3. Earned' = Earned
    BY DEF Earned, Matured
  <1>4. wallet.available \in Int /\ adjusted \in Int
    BY DEF AuditInv, WalletInv, TypeOK
  <1>5. Conforms
    BY <1>1, <1>2, <1>3, <1>4, MaturedFinite DEF Conforms
  <1>6. Unrequested'
    BY DEF AuditInv, Unrequested
  <1> QED BY <1>5, <1>6 DEF Audited

\* The three writes to a withdrawal, field by field.  B stands for BOOLEAN, as in
\* TransferEdit.
LEMMA RowsByField ==
    ASSUME TypeOK
    PROVE  \E B, S : withdrawal \in [Withdrawals -> [status : S, amount : Nat,
                                                    cancelRow : B, failRow : B]]
  <1>1. withdrawal \in [Withdrawals -> [status : WithdrawalStatus, amount : Nat,
                                       cancelRow : BOOLEAN, failRow : BOOLEAN]]
    BY Zenon DEF TypeOK, WithdrawalRow, WithdrawalStatus
  <1> QED BY <1>1, Zenon

LEMMA StatusFields ==
    ASSUME TypeOK, NEW w \in Withdrawals, NEW s,
           withdrawal' = [withdrawal EXCEPT ![w].status = s]
    PROVE  /\ \A x \in Withdrawals : /\ withdrawal'[x].amount \in Nat
                                     /\ x # w => withdrawal'[x] = withdrawal[x]
           /\ withdrawal'[w].status = s /\ withdrawal'[w].amount = withdrawal[w].amount
           /\ withdrawal'[w].cancelRow = withdrawal[w].cancelRow
           /\ withdrawal'[w].failRow = withdrawal[w].failRow
  <1>1. PICK B, S : withdrawal \in [Withdrawals -> [status : S, amount : Nat,
                                                    cancelRow : B, failRow : B]]
    BY RowsByField
  <1> QED BY <1>1

LEMMA CancelFields ==
    ASSUME TypeOK, NEW w \in Withdrawals, NEW s,
           withdrawal' = [withdrawal EXCEPT ![w].status = s, ![w].cancelRow = TRUE]
    PROVE  /\ \A x \in Withdrawals : /\ withdrawal'[x].amount \in Nat
                                     /\ x # w => withdrawal'[x] = withdrawal[x]
           /\ withdrawal'[w].status = s /\ withdrawal'[w].amount = withdrawal[w].amount
           /\ withdrawal'[w].cancelRow = TRUE
           /\ withdrawal'[w].failRow = withdrawal[w].failRow
  <1>1. PICK B, S : withdrawal \in [Withdrawals -> [status : S, amount : Nat,
                                                    cancelRow : B, failRow : B]]
    BY RowsByField
  <1> QED BY <1>1

LEMMA FailFields ==
    ASSUME TypeOK, NEW w \in Withdrawals, NEW s,
           withdrawal' = [withdrawal EXCEPT ![w].status = s, ![w].failRow = TRUE]
    PROVE  /\ \A x \in Withdrawals : /\ withdrawal'[x].amount \in Nat
                                     /\ x # w => withdrawal'[x] = withdrawal[x]
           /\ withdrawal'[w].status = s /\ withdrawal'[w].amount = withdrawal[w].amount
           /\ withdrawal'[w].cancelRow = withdrawal[w].cancelRow
           /\ withdrawal'[w].failRow = TRUE
  <1>1. PICK B, S : withdrawal \in [Withdrawals -> [status : S, amount : Nat,
                                                    cancelRow : B, failRow : B]]
    BY RowsByField
  <1> QED BY <1>1

LEMMA ReturnedAvailable ==
    ASSUME wallet \in WalletRow, NEW amount
    PROVE  Returned(wallet, amount).available = wallet.available + amount
  BY DEF WalletRow, Returned

\* An amount that is given back, with the row that says so.
LEMMA ReturnPosted ==
    ASSUME AuditInv, UNCHANGED <<earning, adjusted>>, NEW w \in Withdrawals,
           wallet' = Returned(wallet, withdrawal[w].amount),
           \A x \in Withdrawals : /\ withdrawal'[x].amount \in Nat
                                  /\ x # w => withdrawal'[x] = withdrawal[x],
           withdrawal'[w].status # "none", withdrawal'[w].amount = withdrawal[w].amount,
           Reversals(withdrawal'[w]) = Reversals(withdrawal[w]) + 1
    PROVE  Audited
  <1>1. /\ wallet \in WalletRow /\ wallet.available \in Int /\ wallet.available >= 0
        /\ withdrawal[w].amount \in Nat
    BY InvParts, AmountTyped DEF AuditInv, Typed, WalletRow, Solvent
  <1>2. wallet'.available = wallet.available + withdrawal[w].amount
    BY <1>1, ReturnedAvailable
  <1>3. Net(withdrawal'[w]) = Net(withdrawal[w]) + withdrawal[w].amount
    BY <1>1, NetRises
  <1>4. Net(withdrawal[w]) \in Int
    BY <1>1, NetIs
  <1>5. wallet'.available = wallet.available + (Net(withdrawal'[w]) - Net(withdrawal[w]))
    BY <1>1, <1>2, <1>3, <1>4
  <1>6. Solvent'
    BY <1>1, <1>2 DEF Solvent
  <1> QED BY <1>5, <1>6, OnePosted

LEMMA CancelPosts ==
    ASSUME AuditInv, NEW w \in Withdrawals, CancelWithdrawal(w)
    PROVE  Audited
  <1>1. /\ wallet' = Returned(wallet, withdrawal[w].amount)
        /\ withdrawal' = [withdrawal EXCEPT ![w].status = "CANCELLED", ![w].cancelRow = TRUE]
        /\ ~ withdrawal[w].cancelRow /\ UNCHANGED <<earning, adjusted>>
    BY DEF CancelWithdrawal
  <1>2. /\ \A x \in Withdrawals : /\ withdrawal'[x].amount \in Nat
                                  /\ x # w => withdrawal'[x] = withdrawal[x]
        /\ withdrawal'[w].status = "CANCELLED"
        /\ withdrawal'[w].amount = withdrawal[w].amount
        /\ withdrawal'[w].cancelRow = TRUE
        /\ withdrawal'[w].failRow = withdrawal[w].failRow
    BY <1>1, InvParts, CancelFields DEF AuditInv
  <1>3. Reversals(withdrawal'[w]) = Reversals(withdrawal[w]) + 1
    BY <1>1, <1>2 DEF Reversals
  <1> QED BY <1>1, <1>2, <1>3, ReturnPosted

LEMMA FailsPosts ==
    ASSUME AuditInv, NEW h \in Handlers, AdminFails(h)
    PROVE  Audited
  <1> DEFINE w == handler[h].id
  <1>1. w \in Withdrawals
    BY InvParts, HandlerTyped DEF AdminFails, KeptOK, AuditInv
  <1>2. UNCHANGED <<earning, adjusted>>
    BY DEF AdminFails
  <1>3. \/ /\ ~ withdrawal[w].failRow
           /\ wallet' = Returned(wallet, withdrawal[w].amount)
           /\ withdrawal' = [withdrawal EXCEPT ![w].status = "FAILED", ![w].failRow = TRUE]
        \/ UNCHANGED <<wallet, withdrawal>>
    BY DEF AdminFails
  <1> HIDE DEF w
  <1>4. CASE UNCHANGED <<wallet, withdrawal>>
    BY <1>2, <1>4, EarningsRest
  <1>5. CASE /\ ~ withdrawal[w].failRow
             /\ wallet' = Returned(wallet, withdrawal[w].amount)
             /\ withdrawal' = [withdrawal EXCEPT ![w].status = "FAILED", ![w].failRow = TRUE]
    <2>1. /\ \A x \in Withdrawals : /\ withdrawal'[x].amount \in Nat
                                    /\ x # w => withdrawal'[x] = withdrawal[x]
          /\ withdrawal'[w].status = "FAILED"
          /\ withdrawal'[w].amount = withdrawal[w].amount
          /\ withdrawal'[w].cancelRow = withdrawal[w].cancelRow
          /\ withdrawal'[w].failRow = TRUE
      BY <1>1, <1>5, InvParts, FailFields DEF AuditInv
    <2>2. Reversals(withdrawal'[w]) = Reversals(withdrawal[w]) + 1
      BY <1>5, <2>1 DEF Reversals
    <2> QED BY <1>1, <1>2, <1>5, <2>1, <2>2, ReturnPosted
  <1> QED BY <1>3, <1>4, <1>5

LEMMA DecidesPosts ==
    ASSUME AuditInv, NEW h \in Handlers, AdminProcesses(h) \/ AdminCompletes(h)
    PROVE  Audited
  <1>1. PICK s \in {"PROCESSING", "COMPLETED"} :
           /\ handler[h].kind \in {"process", "complete"}
           /\ withdrawal' = [withdrawal EXCEPT ![handler[h].id].status = s]
           /\ UNCHANGED <<wallet, earning, adjusted>>
    BY DEF AdminProcesses, AdminCompletes
  <1> DEFINE w == handler[h].id
  <1>2. w \in Withdrawals
    BY <1>1, InvParts, HandlerTyped DEF KeptOK, AuditInv
  <1>3. withdrawal' = [withdrawal EXCEPT ![w].status = s]
    BY <1>1
  <1> HIDE DEF w
  <1>4. /\ \A x \in Withdrawals : /\ withdrawal'[x].amount \in Nat
                                  /\ x # w => withdrawal'[x] = withdrawal[x]
        /\ withdrawal'[w].status = s /\ withdrawal'[w].amount = withdrawal[w].amount
        /\ withdrawal'[w].cancelRow = withdrawal[w].cancelRow
        /\ withdrawal'[w].failRow = withdrawal[w].failRow
    BY <1>2, <1>3, InvParts, StatusFields DEF AuditInv
  <1>5. Net(withdrawal'[w]) = Net(withdrawal[w]) /\ Net(withdrawal[w]) \in Int
    BY <1>2, <1>4, InvParts, NetTyped DEF AuditInv, Net, Reversals
  <1>6. /\ wallet'.available = wallet.available + (Net(withdrawal'[w]) - Net(withdrawal[w]))
        /\ Solvent'
    BY <1>1, <1>5 DEF AuditInv, WalletInv, TypeOK, Solvent
  <1> QED BY <1>1, <1>2, <1>4, <1>6, OnePosted

LEMMA WithdrawPosts ==
    ASSUME AuditInv, NEW h \in Handlers, NEW w \in Withdrawals, WithdrawWrites(h, w)
    PROVE  Audited
  <1> DEFINE amount == handler[h].read
             row == [NoWithdrawal EXCEPT !.status = "REQUESTED", !.amount = amount]
  <1>1. /\ handler[h].kind = "withdraw" /\ withdrawal[w].status = "none"
        /\ amount <= wallet.available
        /\ wallet' = [wallet EXCEPT !.available = @ - amount, !.withdrawn = @ + amount]
        /\ withdrawal' = [withdrawal EXCEPT ![w] = row]
        /\ UNCHANGED <<earning, adjusted>>
    BY DEF WithdrawWrites
  <1>2. amount \in Nat
    BY <1>1, InvParts, HandlerTyped, EmployeeWalletAssumption DEF KeptOK, AuditInv
  <1>3. row.status = "REQUESTED" /\ row.amount = amount
        /\ row.cancelRow = FALSE /\ row.failRow = FALSE
    BY DEF NoWithdrawal
  <1> HIDE DEF amount, row
  <1>4. Net(row) = -amount
    BY <1>2, <1>3, NetIs
  <1>5. /\ \A x \in Withdrawals : withdrawal'[x] = IF x = w THEN row ELSE withdrawal[x]
        /\ \A x \in Withdrawals : withdrawal[x].amount \in Nat
    BY <1>1, InvParts, AmountTyped DEF AuditInv, Typed
  <1>6. \A x \in Withdrawals : withdrawal'[x].amount \in Nat
    BY <1>2, <1>3, <1>5
  <1>7. Net(withdrawal[w]) = 0
    BY <1>1 DEF AuditInv, Unrequested
  <1>8. wallet'.available = wallet.available - amount /\ wallet.available \in Int
    BY <1>1, InvParts DEF AuditInv, Typed, WalletRow
  <1>9. /\ wallet'.available = wallet.available + (Net(withdrawal'[w]) - Net(withdrawal[w]))
        /\ Solvent'
    BY <1>1, <1>2, <1>4, <1>5, <1>7, <1>8 DEF Solvent
  <1> QED BY <1>1, <1>3, <1>5, <1>6, <1>9, OnePosted

LEMMA AdjustPosts ==
    ASSUME AuditInv, NEW amount \in Adjustments, AdminCredits(amount) \/ AdminDebits(amount)
    PROVE  Audited
  <1>1. /\ amount \in Nat /\ adjusted \in Int /\ wallet \in WalletRow
        /\ wallet.available \in Int /\ wallet.available >= 0
    BY InvParts, EmployeeWalletAssumption DEF AuditInv, Typed, WalletRow, Solvent
  <1>2. UNCHANGED <<earning, withdrawal>>
    BY DEF AdminCredits, AdminDebits
  <1>3. /\ wallet'.available - wallet.available = adjusted' - adjusted
        /\ wallet'.available >= 0
    <2>1. CASE AdminCredits(amount)
      BY <1>1, <2>1 DEF AdminCredits, WalletRow
    <2>2. CASE AdminDebits(amount)
      BY <1>1, <2>2 DEF AdminDebits, WalletRow
    <2> QED BY <2>1, <2>2
  <1>4. Earned' = Earned /\ NetSum(withdrawal') = NetSum(withdrawal)
    BY <1>2 DEF Earned, Matured
  <1>5. NetSum(withdrawal) \in Int
    BY NetTyped, NetSumInt DEF AuditInv, WalletInv
  <1>6. adjusted' - adjusted \in Int
    BY <1>1 DEF AdminCredits, AdminDebits
  <1>7. Conforms
    BY <1>3, <1>4, <1>5, <1>6, MaturedFinite DEF Conforms
  <1>8. Solvent' /\ Unrequested'
    BY <1>2, <1>3 DEF AuditInv, Solvent, Unrequested
  <1> QED BY <1>7, <1>8 DEF Audited

LEMMA MirrorPosts ==
    ASSUME AuditInv, NEW h \in Handlers, MirrorWrites(h)
    PROVE  Audited
  <1> DEFINE p == handler[h].id
  <1>1. p \in Payments
    BY InvParts, HandlerTyped DEF MirrorWrites, KeptOK, AuditInv
  <1>2. /\ earning[p].status = "none"
        /\ earning' = [earning EXCEPT ![p].status = "PENDING_SETTLEMENT"]
        /\ wallet' = [wallet EXCEPT !.pending = handler[h].read + Pay]
        /\ UNCHANGED <<withdrawal, adjusted>>
    BY DEF MirrorWrites
  <1> HIDE DEF p
  <1>3. earning \in [Payments -> EarningRow] /\ wallet \in WalletRow
    BY InvParts DEF AuditInv, Typed
  <1>4. Matured' = Matured
    BY <1>1, <1>2, <1>3 DEF Matured, EarningRow
  <1>5. Earned' = Earned
    BY <1>4 DEF Earned
  <1>6. wallet'.available = wallet.available
    BY <1>2, <1>3 DEF WalletRow
  <1> QED BY <1>2, <1>5, <1>6, NothingPosted

LEMMA HoldPosts ==
    ASSUME AuditInv, NEW p \in Payments, HoldElapses(p)
    PROVE  Audited
  <1>1. earning \in [Payments -> EarningRow]
    BY InvParts DEF AuditInv, Typed
  <1>2. \A q \in Payments : earning'[q].status = earning[q].status
    BY <1>1 DEF HoldElapses, EarningRow
  <1>3. Earned' = Earned
    BY <1>2 DEF Earned, Matured
  <1> QED BY <1>3, NothingPosted DEF HoldElapses

LEMMA ReleasePosts ==
    ASSUME AuditInv, ReleaseSettlements
    PROVE  Audited
  <1> DEFINE due == {p \in Payments :
                       earning[p] = [status |-> "PENDING_SETTLEMENT", due |-> TRUE]}
  <1>1. /\ earning' = [p \in Payments |-> IF p \in due
                          THEN [earning[p] EXCEPT !.status = "COMPLETED"] ELSE earning[p]]
        /\ wallet' = [wallet EXCEPT !.available = @ + Pay * Cardinality(due),
                                    !.pending = @ - Pay * Cardinality(due)]
        /\ UNCHANGED <<withdrawal, adjusted>>
    BY DEF ReleaseSettlements
  <1>2. due \in SUBSET Payments /\ due \cap Matured = {}
    BY DEF Matured
  <1> HIDE DEF due
  <1>3. earning \in [Payments -> EarningRow] /\ wallet \in WalletRow
    BY InvParts DEF AuditInv, Typed
  <1>4. \A p \in Payments : earning'[p].status = IF p \in due THEN "COMPLETED"
                                                 ELSE earning[p].status
    BY <1>1, <1>3 DEF EarningRow
  <1>5. Matured' = Matured \cup due
    BY <1>2, <1>4 DEF Matured
  <1>6. IsFiniteSet(due) /\ Cardinality(due) \in Nat
    BY <1>2, EmployeeWalletAssumption, FS_Subset, FS_CardinalityType
  <1>7. Cardinality(Matured') = Cardinality(Matured) + Cardinality(due)
    <2>1. Cardinality(Matured \cap due) = 0
      BY <1>2, FS_EmptySet
    <2>2. Cardinality(Matured \cup due)
            = Cardinality(Matured) + Cardinality(due) - Cardinality(Matured \cap due)
      BY <1>6, MaturedFinite, FS_Union
    <2> QED BY <1>5, <1>6, <2>1, <2>2, MaturedFinite
  <1>8. Earned' = Earned + Pay * Cardinality(due) /\ Pay * Cardinality(due) \in Nat
    BY <1>6, <1>7, MaturedFinite, EmployeeWalletAssumption DEF Earned
  <1> DEFINE sum == Pay * Cardinality(due)
  <1> HIDE DEF sum
  <1>9. wallet'.available = wallet.available + sum
    BY <1>1, <1>3 DEF WalletRow, sum
  <1>10. /\ Earned' = Earned + sum /\ sum \in Nat /\ Earned \in Int
         /\ wallet.available \in Int /\ wallet.available >= 0 /\ adjusted \in Int
    BY <1>8, MaturedFinite, InvParts DEF sum, AuditInv, Typed, WalletRow, Solvent
  <1>11. NetSum(withdrawal') = NetSum(withdrawal) /\ NetSum(withdrawal) \in Int
    BY <1>1, NetTyped, NetSumInt DEF AuditInv, WalletInv
  <1>12. Conforms
    BY <1>1, <1>9, <1>10, <1>11 DEF Conforms
  <1>13. Solvent' /\ Unrequested'
    BY <1>1, <1>9, <1>10 DEF AuditInv, Solvent, Unrequested
  <1> QED BY <1>12, <1>13 DEF Audited

\* The views that only read, and the technician's payout account.
LEMMA ReadsPost ==
    ASSUME AuditInv, NEW h \in Handlers,
           \/ \E p \in Payments : MirrorReads(h, p)
           \/ MirrorRollsBack(h) \/ WithdrawRefused(h) \/ AccountChanges
           \/ \E amount \in Amounts : WithdrawReads(h, amount)
           \/ \E w \in Withdrawals, kind \in {"process", "complete", "fail"} :
                 AdminReads(h, w, kind)
    PROVE  Audited
  <1>1. UNCHANGED <<wallet, earning, withdrawal, adjusted>>
    BY DEF MirrorReads, MirrorRollsBack, WithdrawRefused, AccountChanges, WithdrawReads,
           AdminReads
  <1> QED BY <1>1, EarningsRest

LEMMA AccountPosts == ASSUME AuditInv, AccountChanges PROVE Audited
  BY EarningsRest DEF AccountChanges

LEMMA FreezePosts ==
    ASSUME AuditInv, NEW status \in {"ACTIVE", "SUSPENDED"}, SetWalletStatus(status)
    PROVE  Audited
  <1>1. wallet \in WalletRow
    BY InvParts DEF AuditInv, Typed
  <1>2. wallet'.available = wallet.available
    BY <1>1 DEF SetWalletStatus, WalletRow
  <1>3. Earned' = Earned
    BY DEF SetWalletStatus, Earned, Matured
  <1> QED BY <1>2, <1>3, NothingPosted DEF SetWalletStatus

LEMMA StepPosts ==
    ASSUME AuditInv, [Next]_vars
    PROVE  Audited
  <1>1. ASSUME NEW h \in Handlers,
               \/ \E p \in Payments : MirrorReads(h, p)
               \/ MirrorWrites(h) \/ MirrorRollsBack(h)
        PROVE  Audited
    BY <1>1, MirrorPosts, ReadsPost
  <1>2. ASSUME NEW h \in Handlers,
               \/ \E amount \in Amounts : WithdrawReads(h, amount)
               \/ \E w \in Withdrawals : WithdrawWrites(h, w)
               \/ WithdrawRefused(h)
        PROVE  Audited
    BY <1>2, WithdrawPosts, ReadsPost
  <1>3. ASSUME NEW h \in Handlers,
               \/ \E w \in Withdrawals, kind \in {"process", "complete", "fail"} :
                     AdminReads(h, w, kind)
               \/ AdminProcesses(h) \/ AdminCompletes(h) \/ AdminFails(h)
        PROVE  Audited
    BY <1>3, DecidesPosts, FailsPosts, ReadsPost
  <1>4. CASE UNCHANGED vars
    BY <1>4, EarningsRest DEF vars
  <1> QED BY <1>1, <1>2, <1>3, <1>4, HoldPosts, ReleasePosts, CancelPosts, AccountPosts,
             AdjustPosts, FreezePosts DEF Next

LEMMA AuditStep ==
    ASSUME AuditInv, [Next]_vars
    PROVE  AuditInv' /\ Account!Post
  <1>1. Audited
    BY StepPosts
  <1>2. WalletInv'
    BY WalletStep DEF AuditInv
  <1>3. AuditInv'
    BY <1>1, <1>2 DEF AuditInv, Audited
  <1>4. Account!Post
    BY <1>1, <1>2, ConformsIsPost DEF AuditInv, WalletInv, Audited
  <1> QED BY <1>3, <1>4

LEMMA AuditStarts ==
    ASSUME Init
    PROVE  AuditInv /\ Account!Init
  <1>1. WalletInv
    BY WalletStarts
  <1>2. \A w \in Withdrawals : Net(withdrawal[w]) = 0
    <2>1. NoWithdrawal.amount = 0 /\ NoWithdrawal.amount \in Nat
      BY DEF NoWithdrawal
    <2>2. Net(NoWithdrawal) = 0
      BY <2>1, NetIs
    <2> QED BY <2>2 DEF Init
  <1>3. NetSum(withdrawal) = 0
    BY <1>2, NetSumZero
  <1>4. Earned = 0
    <2>1. Matured = {}
      BY DEF Init, Matured, NoEarning
    <2> QED BY <2>1, FS_EmptySet, EmployeeWalletAssumption DEF Earned
  <1>5. wallet.available = 0 /\ adjusted = 0
    BY DEF Init
  <1>6. LedgerAvailable = 0
    BY <1>3, <1>4, <1>5, LedgerSplit
  <1> QED BY <1>1, <1>2, <1>5, <1>6 DEF AuditInv, Unrequested, Solvent, Account!Init

\* The available balance implements the audited account: every step of the services
\* changes it by exactly what the step posts to the ledger, and no race overdraws
\* it, on either database.
THEOREM AvailableAudited == Spec => AvailableIsAudited
  <1>1. Init => AuditInv /\ Account!Init
    BY AuditStarts
  <1>2. AuditInv /\ [Next]_vars =>
            AuditInv' /\ [Account!Post]_<<wallet.available, LedgerAvailable>>
    BY AuditStep
  <1> QED BY <1>1, <1>2, PTL DEF Spec, AvailableIsAudited, Account!Spec

LEMMA SamePlusDifference == \A a, b \in Int : (a + b) - a = b /\ a + (b - a) = b
  OBVIOUS

\* The available balance is what the ledger says at any time, credits minus debits, and
\* never below zero.
THEOREM BalanceIsLedger == Spec => [](wallet.available = LedgerAvailable /\ Solvent)
  <1> DEFINE Balanced == wallet.available = LedgerAvailable
             Inv == AuditInv /\ LedgerAvailable \in Int /\ Balanced
  <1>1. Init => Inv
    <2> SUFFICES ASSUME Init PROVE Inv
      OBVIOUS
    <2>1. AuditInv /\ Account!Init
      BY AuditStarts
    <2> QED BY <2>1 DEF Account!Init
  <1>2. Inv /\ [Next]_vars => Inv'
    <2> SUFFICES ASSUME Inv, [Next]_vars PROVE Inv'
      OBVIOUS
    <2>1. AuditInv' /\ Account!Post
      BY AuditStep
    <2>3. LedgerAvailable' \in Int
      BY <2>1 DEF Account!Post
    <2>4. (wallet.available)' = wallet.available + (LedgerAvailable' - LedgerAvailable)
      BY <2>1 DEF Account!Post
    <2>5. wallet.available = LedgerAvailable /\ LedgerAvailable \in Int
      OBVIOUS
    <2>6. (wallet.available)' = LedgerAvailable'
      BY <2>3, <2>4, <2>5, SamePlusDifference, Zenon
    <2> QED BY <2>1, <2>3, <2>6
  <1>3. Inv => wallet.available = LedgerAvailable /\ Solvent
    BY DEF AuditInv
  <1> HIDE DEF Inv
  <1> QED BY <1>1, <1>2, <1>3, PTL DEF Spec
=============================================================================
