------------------------- MODULE SellerOrders_proofs -------------------------
(***************************************************************************)
(* Theorems of SellerOrders, for any number of orders in the group: its    *)
(* type invariant and the three safety properties its run checks.          *)
(***************************************************************************)
EXTENDS SellerOrders, TLAPS

-----------------------------------------------------------------------------
(***************************************************************************)
(* The helpers.                                                            *)
(***************************************************************************)

\* Taking one away stays in the natural numbers.
LEMMA LessNat ==
    ASSUME NEW n \in Nat
    PROVE  Less(n) \in Nat
  BY DEF Less

\* Deducting keeps the quantities natural numbers.
LEMMA DeductType ==
    ASSUME NEW S, onHand \in [Order -> Nat], reserved \in [Order -> Nat], Deduct(S)
    PROVE  onHand' \in [Order -> Nat] /\ reserved' \in [Order -> Nat]
  BY LessNat DEF Deduct

\* So does releasing.
LEMMA ReleaseType ==
    ASSUME NEW o \in Order, onHand \in [Order -> Nat], reserved \in [Order -> Nat], Release(o)
    PROVE  onHand' \in [Order -> Nat] /\ reserved' \in [Order -> Nat]
  BY LessNat DEF Release

\* The statuses the code writes by name.
LEMMA WrittenStatuses ==
    {"READY_FOR_PICKUP", "ASSIGNED", "HANDED_OVER", "DELIVERED", "CANCELLED"} \subseteq Status
  BY DEF Status, Cancellable, Pickable, Fulfilled

\* The way forward leads to statuses in which an order can be cancelled.
LEMMA FollowingType ==
    ASSUME NEW s \in DOMAIN Following
    PROVE  s \in Cancellable /\ Following[s] \in Cancellable \ Pickable
  BY DEF Following, Cancellable, Pickable

\* Jobs only ever leave the state "none".
Grow == \A j \in Job : jobs[j] # "none" => jobs'[j] # "none"

\* What pointed to jobs that exist still does.
LEMMA MadeGrows ==
    ASSUME TypeOK, Grow, NEW f \in [Order -> Row], Made(f)
    PROVE  \A o \in Order : f[o].job # 0 => jobs'[f[o].job] # "none"
  BY DEF Made, Grow, Row, Job

\* A new job is well formed, and the rows that get it point to it.
LEMMA LinkType ==
    ASSUME TypeOK, NEW S, NEW base \in [Order -> Row], Made(base), Link(S, base)
    PROVE  /\ jobs' \in [Job -> JobState] /\ Grow
           /\ rows' \in [Order -> Row] /\ Made(rows)'
  <1>1. PICK j \in Job :
          /\ jobs[j] = "none"
          /\ jobs' = [jobs EXCEPT ![j] = "open"]
          /\ rows' = [o \in Order |-> IF o \in S THEN [base[o] EXCEPT !.job = j] ELSE base[o]]
    BY DEF Link
  <1>2. jobs' \in [Job -> JobState] /\ Grow /\ jobs'[j] = "open"
    BY <1>1 DEF TypeOK, JobState, Grow
  <1>3. j \in 0..MaxJobs /\ j # 0
    BY SellerOrdersAssumption DEF Job
  <1>4. rows' \in [Order -> Row]
    BY <1>1, <1>3 DEF Row
  <1>5. ASSUME NEW o \in Order, rows'[o].job # 0
        PROVE  jobs'[rows'[o].job] # "none"
    <2>1. CASE o \in S
      BY <2>1, <1>1, <1>2 DEF Row
    <2>2. CASE o \notin S
      BY <2>2, <1>1, <1>2, <1>5, MadeGrows
    <2> QED BY <2>1, <2>2
  <1> QED BY <1>2, <1>4, <1>5 DEF Made

\* The state of a job changes only to one that says it exists.
LEMMA JobBecomesType ==
    ASSUME TypeOK, NEW j \in 0..MaxJobs, NEW s \in {"begun", "done"}, JobBecomes(j, s)
    PROVE  jobs' \in [Job -> JobState] /\ Grow
  BY DEF TypeOK, JobBecomes, JobState, Grow, Job

\* What a transaction of o has read is made of rows, and its jobs exist.
LEMMA SeenType ==
    ASSUME TypeOK, NEW o \in Order, NEW kind \in Kind, In(o, kind)
    PROVE  tx[o] \in Tx /\ tx[o].seen \in [Order -> Row] /\ Made(tx[o].seen)
  BY DEF TypeOK, In, Tx

\* A step in which transactions only begin with the rows as they are, or end.
LEMMA TxType ==
    ASSUME TypeOK, Grow, tx' \in [Order -> Tx \cup {Idle}],
           \A o \in Order : tx'[o] \in {tx[o], Idle} \/ tx'[o].seen = rows
    PROVE  (\A o \in Order : tx[o] # Idle => Made(tx[o].seen))'
  <1>1. ASSUME NEW o \in Order, tx'[o] # Idle
        PROVE  tx'[o].seen \in [Order -> Row] /\ Made(tx'[o].seen)
    BY <1>1 DEF TypeOK, Tx
  <1>2. ASSUME NEW o \in Order, tx'[o] # Idle
        PROVE  \A p \in Order : tx'[o].seen[p].job # 0 => jobs'[tx'[o].seen[p].job] # "none"
    BY <1>1, <1>2, MadeGrows
  <1> QED BY <1>2 DEF Made

\* Rows whose jobs are those of well formed rows f are well formed.
LEMMA RowsType ==
    ASSUME TypeOK, Grow, rows' \in [Order -> Row],
           NEW f \in [Order -> Row], Made(f),
           \A o \in Order : rows'[o].job \in {rows[o].job, f[o].job}
    PROVE  Made(rows)'
  <1>1. rows \in [Order -> Row] /\ Made(rows)
    BY DEF TypeOK
  <1>2. \A o \in Order : rows[o].job # 0 => jobs'[rows[o].job] # "none"
    BY <1>1, MadeGrows
  <1>3. \A o \in Order : f[o].job # 0 => jobs'[f[o].job] # "none"
    BY MadeGrows
  <1> QED BY <1>2, <1>3 DEF Made

\* Nothing in the state of the jobs has changed.
LEMMA SameGrows ==
    ASSUME UNCHANGED jobs
    PROVE  Grow
  BY DEF Grow

-----------------------------------------------------------------------------
(***************************************************************************)
(* Type correctness, action by action.                                     *)
(***************************************************************************)

\* What every action leaves to show: the rows and their jobs, the stock, and
\* the few variables it changes.
LEMMA TypeStep ==
    ASSUME TypeOK, Grow,
           jobs' \in [Job -> JobState],
           rows' \in [Order -> Row], Made(rows)',
           onHand' \in [Order -> Nat], reserved' \in [Order -> Nat],
           tx' \in [Order -> Tx \cup {Idle}],
           \A o \in Order : tx'[o] \in {tx[o], Idle} \/ tx'[o].seen = rows,
           accepting' \in Acceptance \cup {Idle},
           retrying' \subseteq Order, placed' \subseteq Order, stale' \subseteq Order,
           met' \in BOOLEAN, early' \in BOOLEAN, revoked' \in BOOLEAN, unplaced' \in BOOLEAN
    PROVE  TypeOK'
  BY TxType DEF TypeOK

\* Requests about one order.
LEMMA RequestType ==
    ASSUME TypeOK, NEW o \in Order, Request(o)
    PROVE  TypeOK'
  <1> USE DEF history, stock
  <1>a. rows \in [Order -> Row] /\ Made(rows) /\ jobs \in [Job -> JobState]
    BY DEF TypeOK
  <1>1. CASE Advance(o)
    <2>1. rows[o].status \in DOMAIN Following /\ rows' = [rows EXCEPT ![o].status = Following[@]]
      BY <1>1 DEF Advance
    <2>2. Following[rows[o].status] \in Status
      BY <2>1, FollowingType DEF Status
    <2>3. rows' \in [Order -> Row] /\ \A p \in Order : rows'[p].job = rows[p].job
      BY <1>a, <2>1, <2>2 DEF Row
    <2>4. UNCHANGED <<stock, jobs, tx, accepting, retrying, placed, history>>
      BY <1>1 DEF Advance
    <2> QED BY <1>a, <2>3, <2>4, SameGrows, RowsType, TypeStep DEF TypeOK
  <1>2. CASE Revoke(o)
    <2>1. rows' \in [Order -> Row] /\ \A p \in Order : rows'[p].job = rows[p].job
      BY <1>a, <1>2, WrittenStatuses DEF Revoke, Row
    <2>2. onHand' \in [Order -> Nat] /\ reserved' \in [Order -> Nat]
      BY <1>2, ReleaseType DEF Revoke, TypeOK
    <2>3. /\ UNCHANGED <<jobs, tx, accepting, retrying, placed, stale, met, early, unplaced>>
          /\ revoked' \in BOOLEAN
      BY <1>2 DEF Revoke
    <2> QED BY <1>a, <2>1, <2>2, <2>3, SameGrows, RowsType, TypeStep DEF TypeOK
  <1>3. ASSUME NEW to \in Fulfilled, Override(o, to) \/ Handover(o, to)
        PROVE  TypeOK'
    <2>1. Conclude(o, to)
      BY <1>3 DEF Override, Handover
    <2>2. rows' \in [Order -> Row] /\ \A p \in Order : rows'[p].job = rows[p].job
      BY <1>a, <2>1, WrittenStatuses DEF Conclude, Row, Fulfilled
    <2>3. onHand' \in [Order -> Nat] /\ reserved' \in [Order -> Nat]
      BY <2>1, DeductType DEF Conclude, TypeOK
    <2>4. jobs' \in [Job -> JobState] /\ Grow
      <3>1. rows[o].job \in 0..MaxJobs
        BY <1>a DEF Row
      <3> QED BY <1>3, <1>a, <3>1, JobBecomesType, SameGrows DEF Override, Handover
    <2>5. UNCHANGED <<tx, accepting, retrying, placed, history>>
      BY <2>1 DEF Conclude
    <2> QED BY <1>a, <2>2, <2>3, <2>4, <2>5, RowsType, TypeStep DEF TypeOK
  <1>4. ASSUME NEW code \in {"pickup", "drop"}, Arrive(o, code)
        PROVE  TypeOK'
    <2>1. rows' \in [Order -> Row] /\ \A p \in Order : rows'[p].job = rows[p].job
      BY <1>a, <1>4 DEF Arrive, Row
    <2>2. UNCHANGED <<stock, jobs, tx, accepting, retrying, placed, history>>
      BY <1>4 DEF Arrive
    <2> QED BY <1>a, <2>1, <2>2, SameGrows, RowsType, TypeStep DEF TypeOK
  <1>5. ASSUME NEW kind \in Kind, Begin(o, kind)
        PROVE  TypeOK'
    <2>1. UNCHANGED <<rows, stock, jobs, accepting, retrying, placed, history>>
          /\ tx' = [tx EXCEPT ![o] = [kind |-> kind, seen |-> rows]]
      BY <1>5 DEF Begin
    <2>2. tx' \in [Order -> Tx \cup {Idle}]
          /\ \A p \in Order : tx'[p] \in {tx[p], Idle} \/ tx'[p].seen = rows
      BY <1>a, <2>1 DEF TypeOK, Tx
    <2> QED BY <1>a, <2>1, <2>2, SameGrows, RowsType, TypeStep DEF TypeOK
  <1>6. CASE RetryReads(o)
    BY <1>6, <1>a, SameGrows, RowsType, TypeStep DEF RetryReads, TypeOK
  <1>7. CASE Retry(o)
    <2>1. Link({o}, rows) /\ retrying' = retrying \ {o} /\ early' = TRUE
          /\ UNCHANGED <<stock, tx, accepting, placed, stale, met, revoked, unplaced>>
      BY <1>7 DEF Retry
    <2>2. jobs' \in [Job -> JobState] /\ Grow /\ rows' \in [Order -> Row] /\ Made(rows)'
      BY <1>a, <2>1, LinkType
    <2> QED BY <2>1, <2>2, TypeStep DEF TypeOK
  <1>8. CASE Relocate(o)
    BY <1>8, <1>a, SameGrows, RowsType, TypeStep DEF Relocate, TypeOK
  <1> QED BY <1>1, <1>2, <1>3, <1>4, <1>5, <1>6, <1>7, <1>8 DEF Request

\* The end of a transaction in the variables it leaves to every commit.
LEMMA CommitsType ==
    ASSUME TypeOK, NEW o \in Order, NEW S, Commits(o, S)
    PROVE  /\ tx' \in [Order -> Tx \cup {Idle}]
           /\ \A p \in Order : tx'[p] \in {tx[p], Idle}
           /\ met' \in BOOLEAN
           /\ UNCHANGED <<accepting, retrying, placed, early, revoked>>
  <1>1. tx' = [tx EXCEPT ![o] = Idle] /\ UNCHANGED <<accepting, retrying, placed, early, revoked>>
    BY DEF Commits
  <1>2. met' = (met \/ Outdated(tx[o].seen))
    BY DEF Commits
  <1>3. met' \in BOOLEAN
    <2>1. met \in BOOLEAN BY DEF TypeOK
    <2>2. Outdated(tx[o].seen) \in BOOLEAN BY DEF Outdated
    <2> QED BY <1>2, <2>1, <2>2
  <1> QED BY <1>1, <1>3 DEF TypeOK

\* Writing the orders of S over from a reading f.
LEMMA SavesType ==
    ASSUME TypeOK, NEW f \in [Order -> Row], NEW S \in SUBSET Order,
           NEW status \in Fulfilled, NEW code, Saves(f, S, status, code)
    PROVE  /\ rows' \in [Order -> Row]
           /\ \A p \in Order : rows'[p].job \in {rows[p].job, f[p].job}
           /\ onHand' \in [Order -> Nat] /\ reserved' \in [Order -> Nat]
           /\ stale' \subseteq Order /\ UNCHANGED unplaced
  <1>1. status \in Status
    BY WrittenStatuses DEF Fulfilled
  <1>2. onHand' \in [Order -> Nat] /\ reserved' \in [Order -> Nat]
    BY DeductType DEF Saves, TypeOK
  <1>3. rows \in [Order -> Row] /\ stale \subseteq Order
    BY DEF TypeOK
  <1>4. rows' = [p \in Order |->
                  IF p \in S
                  THEN [f[p] EXCEPT !.status = status, !.deducted = TRUE, !.codes = @ \ {code}]
                  ELSE rows[p]]
    BY DEF Saves
  <1>5. stale' \subseteq Order /\ UNCHANGED unplaced
    BY <1>3 DEF Saves, Overwritten
  <1>6. ASSUME NEW p \in Order
        PROVE  rows'[p] \in Row /\ rows'[p].job \in {rows[p].job, f[p].job}
    BY <1>1, <1>3, <1>4 DEF Row
  <1> QED BY <1>2, <1>4, <1>5, <1>6

\* The ends of the transactions.
LEMMA FinishType ==
    ASSUME TypeOK, NEW o \in Order, Finish(o)
    PROVE  TypeOK'
  <1> USE DEF history, stock
  <1>a. rows \in [Order -> Row] /\ Made(rows) /\ jobs \in [Job -> JobState]
    BY DEF TypeOK
  <1>1. CASE Ready(o)
    <2> DEFINE seen == tx[o].seen
               base == [rows EXCEPT ![o].status = "READY_FOR_PICKUP"]
    <2>1. In(o, "ready") /\ seen \in [Order -> Row] /\ Made(seen)
      BY <1>1, SeenType DEF Ready, Kind
    <2>2. base \in [Order -> Row] /\ \A p \in Order : base[p].job = rows[p].job
      BY <1>a, WrittenStatuses DEF Row
    <2>3. Made(base)
      BY <1>a, <2>2 DEF Made
    <2>4. UNCHANGED <<stock, stale, unplaced>>
      BY <1>1 DEF Ready
    <2>5. CASE Commits(o, {o}) /\ rows' = base /\ UNCHANGED jobs
      BY <1>a, <2>2, <2>4, <2>5, CommitsType, SameGrows, RowsType, TypeStep DEF TypeOK
    <2>6. CASE Commits(o, Active(seen)) /\ Link(Active(seen), base)
      <3>1. jobs' \in [Job -> JobState] /\ Grow /\ rows' \in [Order -> Row] /\ Made(rows)'
        BY <2>2, <2>3, <2>6, LinkType
      <3> QED BY <2>4, <2>6, <3>1, CommitsType, TypeStep DEF TypeOK
    <2>7. ASSUME Commits(o, {o}), UNCHANGED jobs, NEW p \in Linked(seen),
                 rows' = [base EXCEPT ![o].job = seen[p].job]
          PROVE  TypeOK'
      <3>1. seen[p].job \in 0..MaxJobs /\ seen[p].job # 0 /\ jobs[seen[p].job] # "none"
        BY <2>1 DEF Linked, Active, Row, Made
      <3>2. rows' \in [Order -> Row]
        BY <2>2, <2>7, <3>1 DEF Row
      <3>3. Made(rows)'
        <4>1. \A q \in Order : rows'[q].job = IF q = o THEN seen[p].job ELSE rows[q].job
          BY <1>a, <2>2, <2>7 DEF Row
        <4> QED BY <1>a, <2>7, <3>1, <4>1 DEF Made
      <3> QED BY <1>a, <2>4, <2>7, <3>2, <3>3, CommitsType, SameGrows, TypeStep DEF TypeOK
    <2> QED BY <1>1, <2>5, <2>6, <2>7 DEF Ready
  <1>2. CASE Cancel(o)
    <2> DEFINE seen == tx[o].seen
               rest == Active(seen) \ {o}
               base == [rows EXCEPT ![o].status = "CANCELLED"]
    <2>1. base \in [Order -> Row] /\ \A p \in Order : base[p].job = rows[p].job
      BY <1>a, WrittenStatuses DEF Row
    <2>2. Made(base)
      BY <1>a, <2>1 DEF Made
    <2>3. onHand' \in [Order -> Nat] /\ reserved' \in [Order -> Nat]
      BY <1>2, ReleaseType DEF Cancel, TypeOK
    <2>4. UNCHANGED stale /\ unplaced' \in BOOLEAN
      <3>1. unplaced \in BOOLEAN BY DEF TypeOK
      <3>2. Stranded(seen, rest) \in BOOLEAN BY DEF Stranded
      <3> QED BY <1>2, <3>1, <3>2 DEF Cancel
    <2>5. CASE Commits(o, rest) /\ Link(rest, base)
      <3>1. jobs' \in [Job -> JobState] /\ Grow /\ rows' \in [Order -> Row] /\ Made(rows)'
        BY <2>1, <2>2, <2>5, LinkType
      <3> QED BY <2>3, <2>4, <2>5, <3>1, CommitsType, TypeStep DEF TypeOK
    <2>6. CASE Commits(o, {o}) /\ rows' = base /\ UNCHANGED jobs
      BY <1>a, <2>1, <2>3, <2>4, <2>6, CommitsType, SameGrows, RowsType, TypeStep DEF TypeOK
    <2> QED BY <1>2, <2>5, <2>6 DEF Cancel
  <1>3. CASE VerifyPickup(o)
    <2> DEFINE seen == tx[o].seen
               group == {p \in Active(seen) : seen[p].status # "DELIVERED"}
    <2>1. In(o, "pickup") /\ seen \in [Order -> Row] /\ Made(seen)
      BY <1>3, SeenType DEF VerifyPickup, Kind
    <2>2. Commits(o, group) /\ Saves(seen, group, "HANDED_OVER", "pickup")
          /\ JobBecomes(seen[o].job, "begun")
      BY <1>3 DEF VerifyPickup
    <2>3. jobs' \in [Job -> JobState] /\ Grow
      BY <2>1, <2>2, JobBecomesType DEF Row
    <2>4. /\ rows' \in [Order -> Row]
          /\ \A p \in Order : rows'[p].job \in {rows[p].job, seen[p].job}
          /\ onHand' \in [Order -> Nat] /\ reserved' \in [Order -> Nat]
          /\ stale' \subseteq Order /\ UNCHANGED unplaced
      BY <2>1, <2>2, SavesType DEF Active, Fulfilled
    <2> QED BY <2>1, <2>2, <2>3, <2>4, CommitsType, RowsType, TypeStep DEF TypeOK
  <1>4. CASE VerifyDelivery(o)
    <2> DEFINE seen == tx[o].seen
    <2>1. In(o, "deliver") /\ seen \in [Order -> Row] /\ Made(seen)
      BY <1>4, SeenType DEF VerifyDelivery, Kind
    <2>2. Commits(o, Active(seen)) /\ Saves(seen, Active(seen), "DELIVERED", "drop")
          /\ JobBecomes(seen[o].job, "done")
      BY <1>4 DEF VerifyDelivery
    <2>3. jobs' \in [Job -> JobState] /\ Grow
      BY <2>1, <2>2, JobBecomesType DEF Row
    <2>4. /\ rows' \in [Order -> Row]
          /\ \A p \in Order : rows'[p].job \in {rows[p].job, seen[p].job}
          /\ onHand' \in [Order -> Nat] /\ reserved' \in [Order -> Nat]
          /\ stale' \subseteq Order /\ UNCHANGED unplaced
      BY <2>1, <2>2, SavesType DEF Active, Fulfilled
    <2> QED BY <2>1, <2>2, <2>3, <2>4, CommitsType, RowsType, TypeStep DEF TypeOK
  <1>5. CASE Abort(o)
    <2>1. tx' = [tx EXCEPT ![o] = Idle]
          /\ UNCHANGED <<rows, stock, jobs, accepting, retrying, placed, history>>
      BY <1>5 DEF Abort
    <2>2. tx' \in [Order -> Tx \cup {Idle}] /\ \A p \in Order : tx'[p] \in {tx[p], Idle}
      BY <2>1 DEF TypeOK
    <2> QED BY <1>a, <2>1, <2>2, SameGrows, RowsType, TypeStep DEF TypeOK
  <1> QED BY <1>1, <1>2, <1>3, <1>4, <1>5 DEF Finish

\* The rider's acceptance.
LEMMA AcceptType ==
    ASSUME TypeOK, (\E j \in Job : AcceptReads(j)) \/ Accept \/ AbortAccept
    PROVE  TypeOK'
  <1> USE DEF history, stock
  <1>a. rows \in [Order -> Row] /\ Made(rows) /\ jobs \in [Job -> JobState]
    BY DEF TypeOK
  <1>1. ASSUME NEW j \in Job, AcceptReads(j)
        PROVE  TypeOK'
    BY <1>a, <1>1, SameGrows, RowsType, TypeStep DEF AcceptReads, TypeOK, Acceptance
  <1>2. CASE Accept
    <2> DEFINE seen == accepting.seen
               mine == {o \in Order : /\ seen[o].job = accepting.job
                                      /\ seen[o].status \in {"READY_FOR_PICKUP", "PACKED", "NEW"}}
    <2>1. accepting \in Acceptance
      BY <1>2 DEF Accept, TypeOK
    <2>2. jobs' \in [Job -> JobState] /\ Grow
      BY <1>a, <1>2, <2>1 DEF Accept, Acceptance, JobState, Grow
    <2>3. rows' \in [Order -> Row] /\ \A p \in Order : rows'[p].job = rows[p].job
      BY <1>a, <1>2, WrittenStatuses DEF Accept, Row
    <2>4. stale' \subseteq Order
      BY <1>2 DEF Accept, TypeOK, Overwritten
    <2>5. met' \in BOOLEAN
      <3>1. met \in BOOLEAN BY DEF TypeOK
      <3>2. Outdated(seen) \in BOOLEAN BY DEF Outdated
      <3> QED BY <1>2, <3>1, <3>2 DEF Accept
    <2>6. UNCHANGED <<stock, tx, retrying, placed, early, revoked, unplaced>> /\ accepting' = Idle
      BY <1>2 DEF Accept
    <2> QED BY <1>a, <2>2, <2>3, <2>4, <2>5, <2>6, RowsType, TypeStep DEF TypeOK
  <1>3. CASE AbortAccept
    BY <1>a, <1>3, SameGrows, RowsType, TypeStep DEF AbortAccept, TypeOK
  <1> QED BY <1>1, <1>2, <1>3

\* The variables keep their types, and no order points to a job that was not
\* created, in whatever order requests read and commit.
THEOREM TypeCorrect == Spec => []TypeOK
  <1>1. Init => TypeOK
    <2> SUFFICES ASSUME Init PROVE TypeOK
      OBVIOUS
    <2>1. [status |-> "NEW", job |-> 0, deducted |-> FALSE, codes |-> {}] \in Row
      BY SellerOrdersAssumption DEF Row, Status, Cancellable
    <2>2. rows \in [Order -> Row] /\ \A o \in Order : rows[o].job = 0
      BY <2>1 DEF Init
    <2>3. onHand \in [Order -> Nat] /\ reserved \in [Order -> Nat]
      BY SellerOrdersAssumption DEF Init
    <2>4. jobs \in [Job -> JobState]
      BY DEF Init, JobState
    <2>5. tx \in [Order -> Tx \cup {Idle}] /\ \A o \in Order : tx[o] = Idle
      BY DEF Init
    <2>6. Made(rows)
      BY <2>2 DEF Made
    <2>7. /\ accepting \in Acceptance \cup {Idle}
          /\ retrying \subseteq Order /\ placed \subseteq Order /\ stale \subseteq Order
          /\ met \in BOOLEAN /\ early \in BOOLEAN /\ revoked \in BOOLEAN /\ unplaced \in BOOLEAN
      BY DEF Init
    <2> QED BY <2>2, <2>3, <2>4, <2>5, <2>6, <2>7 DEF TypeOK
  <1>2. TypeOK /\ [Next]_vars => TypeOK'
    <2> SUFFICES ASSUME TypeOK, [Next]_vars PROVE TypeOK'
      OBVIOUS
    <2>1. CASE UNCHANGED vars
      BY <2>1 DEF vars, stock, history, TypeOK, Made
    <2>2. CASE Next
      BY <2>2, RequestType, FinishType, AcceptType DEF Next
    <2> QED BY <2>1, <2>2
  <1> QED BY <1>1, <1>2, PTL DEF Spec

-----------------------------------------------------------------------------
(***************************************************************************)
(* The stock.  What StockMatches says of an order also needs that deducted *)
(* tells whether its stock has gone, which is what the requests go by, and *)
(* that a request which will release a reservation holds an order that     *)
(* still has one: nobody else writes a locked row.                         *)
(***************************************************************************)
Deducted == \A o \in Order \ stale : rows[o].deducted <=> rows[o].status \in Fulfilled

Held == \A o \in Order : tx[o] # Idle /\ tx[o].kind \in {"ready", "cancel"}
                           => rows[o].status \in Cancellable

StockInv == StockMatches /\ Deducted /\ Held

\* The statuses with a reservation, those without stock, and CANCELLED.
LEMMA StatusParts ==
    /\ Pickable \subseteq Cancellable /\ "READY_FOR_PICKUP" \in Pickable
    /\ "ASSIGNED" \in Pickable
    /\ \A s \in Cancellable : s \notin Fulfilled /\ s # "CANCELLED"
    /\ "CANCELLED" \notin Cancellable /\ "CANCELLED" \notin Fulfilled
    /\ \A s \in Status : s \in Cancellable \/ s \in Fulfilled \/ s = "CANCELLED"
  BY DEF Status, Cancellable, Pickable, Fulfilled

\* What StockInv says of one order.
Sound(o) ==
    /\ onHand[o] = OnHand - Taken(o)
    /\ reserved[o] = Others + (IF rows[o].status \in Cancellable THEN 1 ELSE 0)
    /\ rows[o].deducted <=> rows[o].status \in Fulfilled

\* An order of which neither the stock nor the kind of its status changes
\* stays sound.
LEMMA SoundStays ==
    ASSUME NEW o \in Order, Sound(o),
           onHand'[o] = onHand[o], reserved'[o] = reserved[o],
           rows'[o].deducted = rows[o].deducted,
           rows'[o].status \in Cancellable <=> rows[o].status \in Cancellable,
           rows'[o].status \in Fulfilled <=> rows[o].status \in Fulfilled
    PROVE  Sound(o)'
  BY DEF Sound, Taken

\* An order that goes while its piece is reserved is sound.
LEMMA SoundTaken ==
    ASSUME NEW o \in Order, Sound(o), rows[o].status \in Cancellable,
           onHand'[o] = Less(onHand[o]), reserved'[o] = Less(reserved[o]),
           rows'[o].deducted = TRUE, rows'[o].status \in Fulfilled
    PROVE  Sound(o)'
  BY StatusParts, SellerOrdersAssumption DEF Sound, Taken, Less

\* An order that is cancelled while its piece is reserved is sound.
LEMMA SoundReleased ==
    ASSUME NEW o \in Order, Sound(o), rows[o].status \in Cancellable,
           onHand'[o] = onHand[o], reserved'[o] = Less(reserved[o]),
           rows'[o].deducted = rows[o].deducted, rows'[o].status = "CANCELLED"
    PROVE  Sound(o)'
  BY StatusParts, SellerOrdersAssumption DEF Sound, Taken, Less

\* StockInv, order by order.
LEMMA StockParts == StockInv <=> (\A o \in Order \ stale : Sound(o)) /\ Held
  BY DEF StockInv, StockMatches, Deducted, Sound

\* A step that writes only orders nobody else has locked.
LEMMA StockStep ==
    ASSUME StockInv, \A o \in Order \ stale' : Sound(o)',
           \A o \in Order : tx'[o] # Idle =>
               tx'[o] = tx[o] /\ rows'[o].status = rows[o].status
    PROVE  StockInv'
  <1>1. Held'
    BY DEF StockInv, Held
  <1> QED BY <1>1 DEF StockInv, StockMatches, Deducted, Sound

\* Requests about one order.
LEMMA RequestStock ==
    ASSUME TypeOK, StockInv, NEW o \in Order, Request(o)
    PROVE  StockInv'
  <1> USE DEF history, stock
  <1>a. rows \in [Order -> Row] /\ onHand \in [Order -> Nat] /\ reserved \in [Order -> Nat]
        /\ tx \in [Order -> Tx \cup {Idle}]
    BY DEF TypeOK
  <1>b. \A p \in Order \ stale : Sound(p)
    BY StockParts
  <1>1. CASE Advance(o)
    <2>1. /\ tx[o] = Idle /\ rows[o].status \in DOMAIN Following
          /\ rows' = [rows EXCEPT ![o].status = Following[@]]
          /\ UNCHANGED <<stock, tx, stale>>
      BY <1>1 DEF Advance, Unlocked
    <2>2. rows[o].status \in Cancellable /\ Following[rows[o].status] \in Cancellable
      BY <2>1, FollowingType
    <2>3. ASSUME NEW p \in Order \ stale'
          PROVE  Sound(p)'
      <3>1. CASE p = o
        <4>1. rows'[p].status \in Cancellable /\ rows'[p].deducted = rows[p].deducted
              /\ rows[p].status \in Cancellable
          BY <1>a, <2>1, <2>2, <3>1 DEF Row
        <4> QED BY <1>b, <2>1, <2>3, <4>1, SoundStays, StatusParts
      <3>2. CASE p # o
        BY <1>a, <1>b, <2>1, <2>3, <3>2, SoundStays
      <3> QED BY <3>1, <3>2
    <2> QED BY <1>a, <2>1, <2>3, StockStep
  <1>2. CASE Revoke(o)
    <2>1. /\ tx[o] = Idle /\ rows[o].status \in Cancellable
          /\ rows' = [rows EXCEPT ![o].status = "CANCELLED"]
          /\ Release(o) /\ UNCHANGED <<tx, stale>>
      BY <1>2 DEF Revoke, Unlocked
    <2>2. ASSUME NEW p \in Order \ stale'
          PROVE  Sound(p)'
      <3>1. CASE p = o
        BY <1>a, <1>b, <2>1, <2>2, <3>1, SoundReleased DEF Row, Release
      <3>2. CASE p # o
        BY <1>a, <1>b, <2>1, <2>2, <3>2, SoundStays DEF Release
      <3> QED BY <3>1, <3>2
    <2> QED BY <1>a, <2>1, <2>2, StockStep
  <1>3. ASSUME NEW to \in Fulfilled, Override(o, to) \/ Handover(o, to)
        PROVE  StockInv'
    <2>1. Conclude(o, to)
      BY <1>3 DEF Override, Handover
    <2>2. /\ tx[o] = Idle /\ rows[o].status \in Cancellable \cup Fulfilled
          /\ rows' = [rows EXCEPT ![o].status = to, ![o].deducted = TRUE]
          /\ Deduct({o} \ {p \in Order : rows[p].deducted})
          /\ UNCHANGED <<tx, stale>>
      BY <2>1, StatusParts DEF Conclude, Unlocked, Fulfilled
    <2>3. ASSUME NEW p \in Order \ stale'
          PROVE  Sound(p)'
      <3>0. Sound(p)
        BY <1>b, <2>2, <2>3
      <3>1. CASE p = o /\ ~rows[o].deducted
        <4>1. rows[p].status \in Cancellable
          BY <2>2, <3>0, <3>1 DEF Sound
        <4>2. rows'[p].status \in Fulfilled /\ rows'[p].deducted = TRUE
          BY <1>a, <2>2, <3>1 DEF Row
        <4>3. onHand'[p] = Less(onHand[p]) /\ reserved'[p] = Less(reserved[p])
          BY <2>2, <3>1 DEF Deduct
        <4> QED BY <3>0, <4>1, <4>2, <4>3, SoundTaken
      <3>2. CASE p = o /\ rows[o].deducted
        <4>1. rows[p].status \in Fulfilled /\ rows[p].deducted \in BOOLEAN
          BY <1>a, <3>0, <3>2 DEF Sound, Row
        <4>2. rows'[p].status \in Fulfilled /\ rows'[p].deducted = rows[p].deducted
          BY <1>a, <2>2, <3>2, <4>1 DEF Row
        <4>3. onHand'[p] = onHand[p] /\ reserved'[p] = reserved[p]
          BY <2>2, <3>2 DEF Deduct
        <4> QED BY <3>0, <4>1, <4>2, <4>3, SoundStays, StatusParts
      <3>3. CASE p # o
        <4>1. onHand'[p] = onHand[p] /\ reserved'[p] = reserved[p] /\ rows'[p] = rows[p]
          BY <1>a, <2>2, <3>3 DEF Deduct
        <4> QED BY <3>0, <4>1, SoundStays
      <3> QED BY <3>1, <3>2, <3>3
    <2> QED BY <1>a, <2>2, <2>3, StockStep
  <1>4. ASSUME NEW code \in {"pickup", "drop"}, Arrive(o, code)
        PROVE  StockInv'
    <2>1. UNCHANGED <<stock, tx, stale>>
      BY <1>4 DEF Arrive
    <2>2. \A p \in Order : rows'[p].status = rows[p].status /\ rows'[p].deducted = rows[p].deducted
      BY <1>a, <1>4 DEF Arrive, Row
    <2> QED BY <1>b, <2>1, <2>2, SoundStays, StockStep
  <1>5. ASSUME NEW kind \in Kind, Begin(o, kind)
        PROVE  StockInv'
    <2>1. UNCHANGED <<rows, stock, stale>> /\ MayBegin(o, kind)
          /\ tx' = [tx EXCEPT ![o] = [kind |-> kind, seen |-> rows]]
      BY <1>5 DEF Begin
    <2>2. Held'
      <3> SUFFICES ASSUME NEW p \in Order, tx'[p] # Idle, tx'[p].kind \in {"ready", "cancel"}
                   PROVE  rows[p].status \in Cancellable
        BY <2>1 DEF Held
      <3>1. CASE p = o
        <4>1. kind \in {"ready", "cancel"}
          BY <1>a, <2>1, <3>1
        <4> QED BY <2>1, <3>1, <4>1 DEF MayBegin, Cancellable
      <3>2. CASE p # o
        BY <1>a, <2>1, <3>2 DEF StockInv, Held
      <3> QED BY <3>1, <3>2
    <2> QED BY <2>1, <2>2 DEF StockInv, StockMatches, Deducted, Taken
  <1>6. CASE RetryReads(o)
    BY <1>6, <1>b, SoundStays, StockStep DEF RetryReads
  <1>7. CASE Retry(o)
    <2>1. UNCHANGED <<stock, tx, stale>>
      BY <1>7 DEF Retry
    <2>2. \A p \in Order : rows'[p].status = rows[p].status /\ rows'[p].deducted = rows[p].deducted
      <3>1. PICK j \in Job :
              rows' = [p \in Order |-> IF p \in {o} THEN [rows[p] EXCEPT !.job = j] ELSE rows[p]]
        BY <1>7 DEF Retry, Link
      <3> QED BY <1>a, <3>1 DEF Row
    <2> QED BY <1>b, <2>1, <2>2, SoundStays, StockStep
  <1>8. CASE Relocate(o)
    BY <1>8, <1>b, SoundStays, StockStep DEF Relocate
  <1> QED BY <1>1, <1>2, <1>3, <1>4, <1>5, <1>6, <1>7, <1>8 DEF Request

\* Writing the orders of S over from a reading f in which none is cancelled.
LEMMA SavesSound ==
    ASSUME TypeOK, StockInv, NEW f \in [Order -> Row], NEW S \in SUBSET Order,
           NEW status \in Fulfilled, NEW code, Saves(f, S, status, code),
           \A p \in S : f[p].status # "CANCELLED"
    PROVE  /\ \A p \in Order \ stale' : Sound(p)'
           /\ \A p \in Order \ S : rows'[p] = rows[p]
  <1>1. rows \in [Order -> Row]
    BY DEF TypeOK
  <1>2. rows' = [p \in Order |->
                  IF p \in S
                  THEN [f[p] EXCEPT !.status = status, !.deducted = TRUE, !.codes = @ \ {code}]
                  ELSE rows[p]]
        /\ Deduct({p \in S : ~f[p].deducted})
        /\ stale' = stale \cup Overwritten(f, S)
    BY DEF Saves
  <1>3. ASSUME NEW p \in Order \ stale'
        PROVE  Sound(p)'
    <2>1. Sound(p)
      BY <1>2, StockParts
    <2>2. CASE p \notin S
      <3>1. onHand'[p] = onHand[p] /\ reserved'[p] = reserved[p] /\ rows'[p] = rows[p]
        BY <1>2, <2>2 DEF Deduct
      <3> QED BY <2>1, <3>1, SoundStays
    <2>3. CASE p \in S
      <3>1. f[p].status = rows[p].status /\ f[p].deducted = rows[p].deducted
        BY <1>2, <1>3, <2>3 DEF Overwritten
      <3>2. rows'[p].status \in Fulfilled /\ rows'[p].deducted = TRUE
        BY <1>2, <2>3 DEF Row
      <3>3. rows[p].status \in Status /\ rows[p].deducted \in BOOLEAN
        BY <1>1 DEF Row
      <3>4. CASE ~rows[p].deducted
        <4>1. rows[p].status \in Cancellable
          BY <2>1, <2>3, <3>1, <3>3, <3>4, StatusParts DEF Sound
        <4>2. onHand'[p] = Less(onHand[p]) /\ reserved'[p] = Less(reserved[p])
          BY <1>2, <2>3, <3>1, <3>4 DEF Deduct
        <4> QED BY <2>1, <3>2, <4>1, <4>2, SoundTaken
      <3>5. CASE rows[p].deducted
        <4>1. rows[p].status \in Fulfilled
          BY <2>1, <3>5 DEF Sound
        <4>2. onHand'[p] = onHand[p] /\ reserved'[p] = reserved[p]
          BY <1>2, <3>1, <3>5 DEF Deduct
        <4> QED BY <2>1, <3>2, <3>3, <3>5, <4>1, <4>2, SoundStays, StatusParts
      <3> QED BY <3>4, <3>5
    <2> QED BY <2>2, <2>3
  <1> QED BY <1>2, <1>3

\* When a transaction ends, no other order it has written is locked.
LEMMA CommitsFrame ==
    ASSUME TypeOK, NEW o \in Order, NEW S, Commits(o, S),
           \A p \in Order \ S : p # o => rows'[p].status = rows[p].status
    PROVE  \A p \in Order : tx'[p] # Idle => tx'[p] = tx[p] /\ rows'[p].status = rows[p].status
  <1>1. tx' = [tx EXCEPT ![o] = Idle] /\ \A p \in S \ {o} : tx[p] = Idle
    BY DEF Commits, Unlocked
  <1>2. tx \in [Order -> Tx \cup {Idle}]
    BY DEF TypeOK
  <1> QED BY <1>1, <1>2

\* A new job writes no status and no deduction.
LEMMA LinkFrame ==
    ASSUME NEW S, NEW base \in [Order -> Row], Link(S, base)
    PROVE  \A p \in Order : /\ rows'[p].status = base[p].status
                            /\ rows'[p].deducted = base[p].deducted
  <1>1. PICK j \in Job :
          rows' = [p \in Order |-> IF p \in S THEN [base[p] EXCEPT !.job = j] ELSE base[p]]
    BY DEF Link
  <1> QED BY <1>1 DEF Row

\* The ends of the transactions.
LEMMA FinishStock ==
    ASSUME TypeOK, StockInv, NEW o \in Order, Finish(o)
    PROVE  StockInv'
  <1> USE DEF history, stock
  <1>a. rows \in [Order -> Row] /\ onHand \in [Order -> Nat] /\ reserved \in [Order -> Nat]
        /\ tx \in [Order -> Tx \cup {Idle}]
    BY DEF TypeOK
  <1>b. \A p \in Order \ stale : Sound(p)
    BY StockParts
  <1>1. CASE Ready(o)
    <2> DEFINE seen == tx[o].seen
               base == [rows EXCEPT ![o].status = "READY_FOR_PICKUP"]
    <2>1. base \in [Order -> Row] /\ base[o].status = "READY_FOR_PICKUP"
          /\ (\A p \in Order : base[p].deducted = rows[p].deducted)
          /\ (\A p \in Order \ {o} : base[p].status = rows[p].status)
      BY <1>a, WrittenStatuses DEF Row
    <2>2. rows[o].status \in Cancellable
      BY <1>1 DEF Ready, In, StockInv, Held
    <2>3. UNCHANGED <<stock, stale>>
      BY <1>1 DEF Ready
    <2>4. ASSUME \A p \in Order : /\ rows'[p].status = base[p].status
                                  /\ rows'[p].deducted = base[p].deducted,
                 NEW S, Commits(o, S)
          PROVE  StockInv'
      <3>1. ASSUME NEW p \in Order \ stale'
            PROVE  Sound(p)'
        BY <1>b, <2>1, <2>2, <2>3, <2>4, <3>1, SoundStays, StatusParts
      <3>2. \A p \in Order \ S : p # o => rows'[p].status = rows[p].status
        BY <2>1, <2>4
      <3> QED BY <2>4, <3>1, <3>2, CommitsFrame, StockStep
    <2>5. CASE Commits(o, {o}) /\ rows' = base
      BY <2>4, <2>5
    <2>6. CASE Commits(o, Active(seen)) /\ Link(Active(seen), base)
      BY <2>1, <2>4, <2>6, LinkFrame
    <2>7. ASSUME Commits(o, {o}), NEW j, rows' = [base EXCEPT ![o].job = j]
          PROVE  StockInv'
      <3>1. \A p \in Order : /\ rows'[p].status = base[p].status
                             /\ rows'[p].deducted = base[p].deducted
        BY <2>1, <2>7 DEF Row
      <3> QED BY <2>4, <2>7, <3>1
    <2> QED BY <1>1, <2>5, <2>6, <2>7 DEF Ready
  <1>2. CASE Cancel(o)
    <2> DEFINE seen == tx[o].seen
               rest == Active(seen) \ {o}
               base == [rows EXCEPT ![o].status = "CANCELLED"]
    <2>1. base \in [Order -> Row] /\ base[o].status = "CANCELLED"
          /\ (\A p \in Order : base[p].deducted = rows[p].deducted)
          /\ (\A p \in Order \ {o} : base[p].status = rows[p].status)
      BY <1>a, WrittenStatuses DEF Row
    <2>2. rows[o].status \in Cancellable
      BY <1>2 DEF Cancel, In, StockInv, Held
    <2>3. UNCHANGED stale /\ Release(o)
      BY <1>2 DEF Cancel
    <2>4. ASSUME \A p \in Order : /\ rows'[p].status = base[p].status
                                  /\ rows'[p].deducted = base[p].deducted,
                 NEW S, Commits(o, S)
          PROVE  StockInv'
      <3>1. ASSUME NEW p \in Order \ stale'
            PROVE  Sound(p)'
        <4>1. CASE p = o
          BY <1>a, <1>b, <2>1, <2>2, <2>3, <2>4, <3>1, <4>1, SoundReleased DEF Release
        <4>2. CASE p # o
          BY <1>a, <1>b, <2>1, <2>3, <2>4, <3>1, <4>2, SoundStays DEF Release
        <4> QED BY <4>1, <4>2
      <3>2. \A p \in Order \ S : p # o => rows'[p].status = rows[p].status
        BY <2>1, <2>4
      <3> QED BY <2>4, <3>1, <3>2, CommitsFrame, StockStep
    <2>5. CASE Commits(o, rest) /\ Link(rest, base)
      BY <2>1, <2>4, <2>5, LinkFrame
    <2>6. CASE Commits(o, {o}) /\ rows' = base
      BY <2>4, <2>6
    <2> QED BY <1>2, <2>5, <2>6 DEF Cancel
  <1>3. CASE VerifyPickup(o)
    <2> DEFINE seen == tx[o].seen
               group == {p \in Active(seen) : seen[p].status # "DELIVERED"}
    <2>1. In(o, "pickup") /\ seen \in [Order -> Row]
      BY <1>3, SeenType DEF VerifyPickup, Kind
    <2>2. Commits(o, group) /\ Saves(seen, group, "HANDED_OVER", "pickup")
      BY <1>3 DEF VerifyPickup
    <2>3. /\ \A p \in Order \ stale' : Sound(p)'
          /\ \A p \in Order \ group : rows'[p] = rows[p]
      BY <2>1, <2>2, SavesSound DEF Active, Fulfilled
    <2> QED BY <2>2, <2>3, CommitsFrame, StockStep
  <1>4. CASE VerifyDelivery(o)
    <2> DEFINE seen == tx[o].seen
    <2>1. In(o, "deliver") /\ seen \in [Order -> Row]
      BY <1>4, SeenType DEF VerifyDelivery, Kind
    <2>2. Commits(o, Active(seen)) /\ Saves(seen, Active(seen), "DELIVERED", "drop")
      BY <1>4 DEF VerifyDelivery
    <2>3. /\ \A p \in Order \ stale' : Sound(p)'
          /\ \A p \in Order \ Active(seen) : rows'[p] = rows[p]
      BY <2>1, <2>2, SavesSound DEF Active, Fulfilled
    <2> QED BY <2>2, <2>3, CommitsFrame, StockStep
  <1>5. CASE Abort(o)
    <2>1. tx' = [tx EXCEPT ![o] = Idle] /\ UNCHANGED <<rows, stock, stale>>
      BY <1>5 DEF Abort
    <2>2. \A p \in Order : tx'[p] # Idle => tx'[p] = tx[p] /\ rows'[p].status = rows[p].status
      BY <1>a, <2>1
    <2> QED BY <1>b, <2>1, <2>2, SoundStays, StockStep
  <1> QED BY <1>1, <1>2, <1>3, <1>4, <1>5 DEF Finish

\* The rider's acceptance writes statuses in which the piece stays reserved,
\* where its reading was up to date.
LEMMA AcceptStock ==
    ASSUME TypeOK, StockInv, (\E j \in Job : AcceptReads(j)) \/ Accept \/ AbortAccept
    PROVE  StockInv'
  <1> USE DEF history, stock
  <1>a. rows \in [Order -> Row] /\ \A p \in Order \ stale : Sound(p)
    BY StockParts DEF TypeOK
  <1>1. ASSUME NEW j \in Job, AcceptReads(j)
        PROVE  StockInv'
    BY <1>a, <1>1, SoundStays, StockStep DEF AcceptReads
  <1>2. CASE Accept
    <2> DEFINE seen == accepting.seen
               mine == {o \in Order : /\ seen[o].job = accepting.job
                                      /\ seen[o].status \in {"READY_FOR_PICKUP", "PACKED", "NEW"}}
    <2>1. /\ \A p \in mine : tx[p] = Idle
          /\ rows' = [o \in Order |-> IF o \in mine THEN [rows[o] EXCEPT !.status = "ASSIGNED"]
                                                    ELSE rows[o]]
          /\ stale' = stale \cup Overwritten(seen, mine)
          /\ UNCHANGED <<stock, tx>>
      BY <1>2 DEF Accept, Unlocked
    <2>2. ASSUME NEW p \in Order \ stale'
          PROVE  Sound(p)'
      <3>1. CASE p \in mine
        <4>1. rows[p].status \in {"READY_FOR_PICKUP", "PACKED", "NEW"}
          BY <2>1, <2>2, <3>1 DEF Overwritten
        <4>2. rows'[p].status = "ASSIGNED" /\ rows'[p].deducted = rows[p].deducted
          BY <1>a, <2>1, <3>1 DEF Row
        <4>3. rows[p].status \in Cancellable /\ rows'[p].status \in Cancellable
          BY <4>1, <4>2 DEF Cancellable, Pickable
        <4> QED BY <1>a, <2>1, <2>2, <4>2, <4>3, SoundStays, StatusParts
      <3>2. CASE p \notin mine
        BY <1>a, <2>1, <2>2, <3>2, SoundStays
      <3> QED BY <3>1, <3>2
    <2>3. \A p \in Order : tx[p] # Idle => rows'[p].status = rows[p].status
      BY <1>a, <2>1
    <2> QED BY <2>1, <2>2, <2>3, StockStep
  <1>3. CASE AbortAccept
    BY <1>a, <1>3, SoundStays, StockStep DEF AbortAccept
  <1> QED BY <1>1, <1>2, <1>3

\* The stock of a product agrees with its order through every interleaving of
\* the requests of the group, except where one has written the order over from
\* a reading that was outdated.
THEOREM StockCorrect == Spec => []StockMatches
  <1>1. Init => StockInv
    BY StatusParts, SellerOrdersAssumption
       DEF Init, StockInv, StockMatches, Deducted, Held, Taken, Cancellable, Pickable, Fulfilled
  <1>2. TypeOK /\ StockInv /\ [Next]_vars => StockInv'
    <2> SUFFICES ASSUME TypeOK, StockInv, [Next]_vars PROVE StockInv'
      OBVIOUS
    <2>1. CASE UNCHANGED vars
      BY <2>1 DEF vars, stock, history, StockInv, StockMatches, Deducted, Held, Taken
    <2>2. CASE Next
      BY <2>2, RequestStock, FinishStock, AcceptStock DEF Next
    <2> QED BY <2>1, <2>2
  <1>3. StockInv => StockMatches
    BY DEF StockInv
  <1> QED BY <1>1, <1>2, <1>3, TypeCorrect, PTL DEF Spec

-----------------------------------------------------------------------------
(***************************************************************************)
(* The group's job.  While no two requests met, a transaction commits on   *)
(* the rows as they are, so that what it checked when it began still holds *)
(* (Begun); and once an order has a job, none is still being packed        *)
(* (RiderFindsAll), which is why a late mark_ready never finds a job.      *)
(***************************************************************************)
Fits == [ready |-> {"PACKED"}, cancel |-> Cancellable,
         pickup |-> Pickable, deliver |-> {"HANDED_OVER"}]

Begun == \A o \in Order : tx[o] # Idle => tx[o].seen[o].status \in Fits[tx[o].kind]

GroupInv == RiderFindsAll /\ GroupGoesOut /\ Begun

Settled == Pickable \cup Fulfilled \cup {"CANCELLED"}

\* The rows as a step leaves them, when none of the exceptions applies: either
\* no order has a job or all are settled; and either somebody is not ready or
\* all that are have a job.
NoneEarly(f) == (\A o \in Order : f[o].job = 0) \/ (\A o \in Order : f[o].status \in Settled)
GoesOut(f) ==
    \/ \E o \in Order : f[o].status \notin Pickable \cup {"CANCELLED"}
    \/ \A o \in Order : f[o].status = "READY_FOR_PICKUP" => f[o].job # 0

\* A step that only begins transactions on the rows as they are, or ends them.
LEMMA GroupStep ==
    ASSUME GroupInv,
           met' \/ early' \/ NoneEarly(rows'),
           met' \/ early' \/ revoked' \/ unplaced' \/ GoesOut(rows'),
           \A o \in Order : tx'[o] \in {tx[o], Idle}
    PROVE  GroupInv'
  BY DEF GroupInv, RiderFindsAll, GroupGoesOut, GroupGoesOutAnywhere, Begun, NoneEarly,
         GoesOut, Settled

\* A commit that met nobody: its reading agrees with the rows.
LEMMA CommitReads ==
    ASSUME TypeOK, NEW o \in Order, NEW S, Commits(o, S), ~met'
    PROVE  /\ ~met /\ UNCHANGED <<early, revoked>>
           /\ \A p \in Order : /\ tx[o].seen[p].status = rows[p].status
                               /\ tx[o].seen[p].job = rows[p].job
           /\ \A p \in Order : tx'[p] \in {tx[p], Idle}
  BY DEF Commits, Outdated, TypeOK

\* Requests about one order.
LEMMA RequestGroup ==
    ASSUME TypeOK, GroupInv, NEW o \in Order, Request(o)
    PROVE  GroupInv'
  <1> USE DEF history, stock
  <1>a. rows \in [Order -> Row] /\ tx \in [Order -> Tx \cup {Idle}]
    BY DEF TypeOK
  <1>b. met \/ early \/ NoneEarly(rows)
    BY DEF GroupInv, RiderFindsAll, NoneEarly, Settled
  <1>c. met \/ early \/ revoked \/ unplaced \/ GoesOut(rows)
    BY DEF GroupInv, GroupGoesOut, GroupGoesOutAnywhere, GoesOut
  <1>1. CASE Advance(o)
    <2>1. /\ rows[o].status \in DOMAIN Following
          /\ rows' = [rows EXCEPT ![o].status = Following[@]]
          /\ UNCHANGED <<tx, history>>
      BY <1>1 DEF Advance
    <2>2. /\ rows[o].status \notin Settled
          /\ Following[rows[o].status] \notin Pickable \cup {"CANCELLED"}
      BY <2>1 DEF Following, Settled, Pickable, Fulfilled
    <2>3. rows'[o].status = Following[rows[o].status]
          /\ \A p \in Order : rows'[p].job = rows[p].job
      BY <1>a, <2>1 DEF Row
    <2>4. NoneEarly(rows) => NoneEarly(rows')
      BY <2>2, <2>3 DEF NoneEarly
    <2>5. GoesOut(rows')
      BY <2>2, <2>3 DEF GoesOut
    <2> QED BY <1>b, <2>1, <2>4, <2>5, GroupStep
  <1>2. CASE Revoke(o)
    <2>1. /\ rows' = [rows EXCEPT ![o].status = "CANCELLED"]
          /\ revoked' = TRUE /\ UNCHANGED <<tx, met, early>>
      BY <1>2 DEF Revoke
    <2>2. NoneEarly(rows) => NoneEarly(rows')
      BY <1>a, <2>1 DEF NoneEarly, Settled, Row
    <2> QED BY <1>b, <2>1, <2>2, GroupStep
  <1>3. ASSUME NEW to \in Fulfilled, Override(o, to) \/ Handover(o, to)
        PROVE  GroupInv'
    <2>1. rows' = [rows EXCEPT ![o].status = to, ![o].deducted = TRUE] /\ UNCHANGED <<tx, history>>
      BY <1>3 DEF Override, Handover, Conclude
    <2>2. rows'[o].status \notin Pickable \cup {"CANCELLED"}
      BY <1>a, <2>1 DEF Row, Pickable, Fulfilled
    <2>3. NoneEarly(rows) => NoneEarly(rows')
      BY <1>a, <2>1 DEF NoneEarly, Settled, Row
    <2>4. GoesOut(rows')
      BY <2>2 DEF GoesOut
    <2> QED BY <1>b, <2>1, <2>3, <2>4, GroupStep
  <1>4. ASSUME NEW code \in {"pickup", "drop"}, Arrive(o, code)
        PROVE  GroupInv'
    <2>1. UNCHANGED <<tx, history>>
      BY <1>4 DEF Arrive
    <2>2. \A p \in Order : rows'[p].status = rows[p].status /\ rows'[p].job = rows[p].job
      BY <1>a, <1>4 DEF Arrive, Row
    <2>3. (NoneEarly(rows) => NoneEarly(rows')) /\ (GoesOut(rows) => GoesOut(rows'))
      BY <2>2 DEF NoneEarly, GoesOut
    <2> QED BY <1>b, <1>c, <2>1, <2>3, GroupStep
  <1>5. ASSUME NEW kind \in Kind, Begin(o, kind)
        PROVE  GroupInv'
    <2>1. UNCHANGED <<rows, met, early, revoked, unplaced>> /\ MayBegin(o, kind)
          /\ tx' = [tx EXCEPT ![o] = [kind |-> kind, seen |-> rows]]
      BY <1>5 DEF Begin
    <2>2. Begun'
      <3>1. ASSUME NEW p \in Order, tx'[p] # Idle
            PROVE  tx'[p].seen[p].status \in Fits[tx'[p].kind]
        <4>1. CASE p = o
          BY <1>a, <2>1, <4>1 DEF MayBegin, Fits
        <4>2. CASE p # o
          BY <1>a, <2>1, <3>1, <4>2 DEF GroupInv, Begun
        <4> QED BY <4>1, <4>2
      <3> QED BY <3>1 DEF Begun
    <2> QED BY <2>1, <2>2 DEF GroupInv, RiderFindsAll, GroupGoesOut, GroupGoesOutAnywhere
  <1>6. CASE RetryReads(o)
    <2>1. UNCHANGED <<rows, tx, history>>
      BY <1>6 DEF RetryReads
    <2> QED BY <1>b, <1>c, <2>1, GroupStep
  <1>7. CASE Retry(o)
    <2>1. early' = TRUE /\ UNCHANGED tx
      BY <1>7 DEF Retry
    <2> QED BY <2>1, GroupStep
  <1>8. CASE Relocate(o)
    <2>1. UNCHANGED <<rows, tx, history>>
      BY <1>8 DEF Relocate
    <2> QED BY <1>b, <1>c, <2>1, GroupStep
  <1> QED BY <1>1, <1>2, <1>3, <1>4, <1>5, <1>6, <1>7, <1>8 DEF Request

\* mark_ready, which met nobody.
LEMMA ReadyGroup ==
    ASSUME TypeOK, GroupInv, NEW o \in Order, Ready(o), ~met', ~early'
    PROVE  NoneEarly(rows') /\ GoesOut(rows')
  <1> DEFINE seen == tx[o].seen
             base == [rows EXCEPT ![o].status = "READY_FOR_PICKUP"]
  <1>a. PICK S : Commits(o, S)
    BY DEF Ready
  <1>b. ~met /\ ~early
        /\ \A p \in Order : seen[p].status = rows[p].status /\ seen[p].job = rows[p].job
    BY <1>a, CommitReads
  <1>1. rows[o].status = "PACKED"
    BY <1>b DEF Ready, In, GroupInv, Begun, Fits
  <1>2. \A p \in Order : rows[p].job = 0
    BY <1>b, <1>1 DEF GroupInv, RiderFindsAll, Pickable, Fulfilled
  <1>3. Linked(seen) = {}
    BY <1>b, <1>2 DEF Linked, Active
  <1>4. /\ base \in [Order -> Row]
        /\ base[o].status = "READY_FOR_PICKUP" /\ base[o].job = 0
        /\ \A p \in Order \ {o} : base[p] = rows[p]
    BY <1>2, WrittenStatuses DEF TypeOK, Row
  <1>5. CASE Waiting(seen, o) # {} /\ rows' = base
    <2>1. PICK p \in Order \ {o} : rows[p].status \notin Pickable \cup Fulfilled \cup {"CANCELLED"}
      BY <1>b, <1>5 DEF Waiting, Active
    <2>2. GoesOut(rows')
      BY <1>4, <1>5, <2>1 DEF GoesOut
    <2> QED BY <1>2, <1>4, <1>5, <2>2 DEF NoneEarly
  <1>6. CASE Waiting(seen, o) = {} /\ Link(Active(seen), base)
    <2>1. PICK j \in Job :
            rows' = [p \in Order |-> IF p \in Active(seen) THEN [base[p] EXCEPT !.job = j]
                                                          ELSE base[p]]
      BY <1>6 DEF Link
    <2>2. j # 0
      BY SellerOrdersAssumption DEF Job
    <2>3. ASSUME NEW p \in Order
          PROVE  rows'[p].status = base[p].status
                 /\ (p \in Active(seen) => rows'[p].job = j)
      BY <1>4, <2>1 DEF Row
    <2>4. ASSUME NEW p \in Order
          PROVE  rows'[p].status \in Settled
      <3>1. CASE p = o
        BY <1>4, <2>3, <3>1 DEF Settled, Pickable
      <3>2. CASE p # o
        BY <1>4, <1>b, <1>6, <2>3, <3>2 DEF Settled, Waiting, Active
      <3> QED BY <3>1, <3>2
    <2>5. ASSUME NEW p \in Order, rows'[p].status = "READY_FOR_PICKUP"
          PROVE  rows'[p].job # 0
      <3>1. rows[p].status # "CANCELLED"
        BY <1>1, <1>4, <2>3, <2>5
      <3> QED BY <1>b, <2>2, <2>3, <3>1 DEF Active
    <2> QED BY <2>4, <2>5 DEF NoneEarly, GoesOut
  <1> QED BY <1>3, <1>5, <1>6 DEF Ready

\* A cancellation, which met nobody.
LEMMA CancelGroup ==
    ASSUME TypeOK, GroupInv, NEW o \in Order, Cancel(o), ~met', ~early'
    PROVE  NoneEarly(rows') /\ (revoked \/ unplaced' \/ GoesOut(rows'))
  <1> DEFINE seen == tx[o].seen
             rest == Active(seen) \ {o}
             base == [rows EXCEPT ![o].status = "CANCELLED"]
  <1>a. PICK S : Commits(o, S)
    BY DEF Cancel
  <1>b. ~met /\ ~early
        /\ \A p \in Order : seen[p].status = rows[p].status /\ seen[p].job = rows[p].job
    BY <1>a, CommitReads
  <1>1. rows[o].status \in Cancellable
    BY <1>b DEF Cancel, In, GroupInv, Begun, Fits
  <1>2. NoneEarly(rows) /\ (revoked \/ unplaced \/ GoesOut(rows))
    BY <1>b DEF GroupInv, RiderFindsAll, GroupGoesOut, GroupGoesOutAnywhere, NoneEarly,
             GoesOut, Settled
  <1>3. /\ base \in [Order -> Row]
        /\ base[o].status = "CANCELLED" /\ base[o].job = rows[o].job
        /\ \A p \in Order \ {o} : base[p] = rows[p]
    BY WrittenStatuses DEF TypeOK, Row
  <1>4. CASE Stranded(seen, rest) /\ Link(rest, base)
    <2>1. PICK j \in Job :
            rows' = [p \in Order |-> IF p \in rest THEN [base[p] EXCEPT !.job = j] ELSE base[p]]
      BY <1>4 DEF Link
    <2>2. j # 0
      BY SellerOrdersAssumption DEF Job
    <2>3. ASSUME NEW p \in Order
          PROVE  rows'[p].status = base[p].status /\ (p \in rest => rows'[p].job = j)
      BY <1>3, <2>1 DEF Row
    <2>4. ASSUME NEW p \in Order
          PROVE  rows'[p].status \in Pickable \cup {"CANCELLED"}
                 /\ (rows'[p].status = "READY_FOR_PICKUP" => rows'[p].job # 0)
      <3>1. CASE p = o
        BY <1>3, <2>3, <3>1
      <3>2. CASE p \in rest
        BY <1>3, <1>4, <1>b, <2>2, <2>3, <3>2 DEF Stranded
      <3>3. CASE p # o /\ p \notin rest
        BY <1>3, <1>b, <2>3, <3>3 DEF Active
      <3> QED BY <3>1, <3>2, <3>3
    <2> QED BY <2>4 DEF NoneEarly, GoesOut, Settled
  <1>5. CASE /\ rows' = base
             /\ unplaced' = (unplaced \/ Stranded(seen, rest))
    <2>1. NoneEarly(rows')
      BY <1>2, <1>3, <1>5 DEF NoneEarly, Settled
    <2>2. revoked \/ unplaced' \/ GoesOut(rows')
      <3>1. CASE rest = {}
        BY <1>3, <1>5, <1>b, <3>1 DEF GoesOut, Active
      <3>2. CASE rest \cap Linked(seen) # {}
        <4>1. \A p \in Order : rows[p].status \in Settled
          BY <1>2, <1>b, <3>2 DEF NoneEarly, Linked, Active
        <4>2. rows[o].status \in Pickable
          BY <1>1, <4>1, StatusParts DEF Settled
        <4> QED BY <1>2, <1>3, <1>5, <4>2 DEF GoesOut
      <3>3. CASE \E p \in rest : seen[p].status \notin Pickable
        BY <1>3, <1>5, <1>b, <3>3 DEF GoesOut, Active
      <3>4. CASE Stranded(seen, rest) \/ unplaced
        BY <1>5, <3>4
      <3> QED BY <3>1, <3>2, <3>3, <3>4 DEF Stranded
    <2> QED BY <2>1, <2>2
  <1> QED BY <1>4, <1>5 DEF Cancel

\* A handover or a delivery, which met nobody.
LEMMA SavesGroup ==
    ASSUME TypeOK, NoneEarly(rows), NEW f \in [Order -> Row], NEW S \in SUBSET Order, S # {},
           \A p \in Order : f[p].status = rows[p].status /\ f[p].job = rows[p].job,
           NEW status \in Fulfilled, NEW code, Saves(f, S, status, code)
    PROVE  NoneEarly(rows') /\ GoesOut(rows')
  <1>1. rows' = [p \in Order |->
                  IF p \in S
                  THEN [f[p] EXCEPT !.status = status, !.deducted = TRUE, !.codes = @ \ {code}]
                  ELSE rows[p]]
    BY DEF Saves
  <1>2. ASSUME NEW p \in Order
        PROVE  /\ rows'[p].job = rows[p].job
               /\ rows'[p].status = IF p \in S THEN status ELSE rows[p].status
    BY <1>1 DEF Row
  <1>3. NoneEarly(rows')
    BY <1>2 DEF NoneEarly, Settled
  <1>4. GoesOut(rows')
    BY <1>2 DEF GoesOut, Pickable, Fulfilled
  <1> QED BY <1>3, <1>4

\* The ends of the transactions.
LEMMA FinishGroup ==
    ASSUME TypeOK, GroupInv, NEW o \in Order, Finish(o)
    PROVE  GroupInv'
  <1>1. ASSUME NEW S, Commits(o, S),
               ~met' /\ ~early' => NoneEarly(rows') /\ (revoked \/ unplaced' \/ GoesOut(rows'))
        PROVE  GroupInv'
    <2>1. (\A p \in Order : tx'[p] \in {tx[p], Idle}) /\ UNCHANGED revoked
      BY <1>1 DEF Commits, TypeOK
    <2> QED BY <1>1, <2>1, GroupStep
  <1>2. CASE Ready(o)
    <2>1. PICK S : Commits(o, S)
      BY <1>2 DEF Ready
    <2> QED BY <1>1, <1>2, <2>1, ReadyGroup
  <1>3. CASE Cancel(o)
    <2>1. PICK S : Commits(o, S)
      BY <1>3 DEF Cancel
    <2> QED BY <1>1, <1>3, <2>1, CancelGroup
  <1>4. ASSUME NEW kind \in {"pickup", "deliver"}, In(o, kind),
               NEW S \in SUBSET Order, o \in S \/ tx[o].seen[o].status \notin Fits[kind],
               Commits(o, S), NEW status \in Fulfilled, NEW code,
               Saves(tx[o].seen, S, status, code)
        PROVE  GroupInv'
    <2>1. tx[o].seen \in [Order -> Row]
      BY <1>4, SeenType DEF Kind
    <2>2. o \in S
      BY <1>4 DEF In, GroupInv, Begun
    <2>3. ASSUME ~met', ~early'
          PROVE  NoneEarly(rows') /\ GoesOut(rows')
      <3>1. ~met /\ ~early
            /\ \A p \in Order : /\ tx[o].seen[p].status = rows[p].status
                                /\ tx[o].seen[p].job = rows[p].job
        BY <1>4, <2>3, CommitReads
      <3>2. NoneEarly(rows)
        BY <3>1 DEF GroupInv, RiderFindsAll, NoneEarly, Settled
      <3> QED BY <1>4, <2>1, <2>2, <3>1, <3>2, SavesGroup
    <2> QED BY <1>1, <1>4, <2>3
  <1>5. CASE VerifyPickup(o)
    <2> DEFINE seen == tx[o].seen
               group == {p \in Active(seen) : seen[p].status # "DELIVERED"}
    <2>1. In(o, "pickup") /\ Commits(o, group) /\ Saves(seen, group, "HANDED_OVER", "pickup")
      BY <1>5 DEF VerifyPickup
    <2>2. o \in group \/ seen[o].status \notin Fits["pickup"]
      BY DEF Fits, Active, Pickable
    <2>3. group \in SUBSET Order /\ "HANDED_OVER" \in Fulfilled
      BY DEF Active, Fulfilled
    <2> QED BY <1>4, <2>1, <2>2, <2>3
  <1>6. CASE VerifyDelivery(o)
    <2> DEFINE seen == tx[o].seen
    <2>1. /\ In(o, "deliver") /\ Commits(o, Active(seen))
          /\ Saves(seen, Active(seen), "DELIVERED", "drop")
      BY <1>6 DEF VerifyDelivery
    <2>2. o \in Active(seen) \/ seen[o].status \notin Fits["deliver"]
      BY DEF Fits, Active
    <2>3. Active(seen) \in SUBSET Order /\ "DELIVERED" \in Fulfilled
      BY DEF Active, Fulfilled
    <2> QED BY <1>4, <2>1, <2>2, <2>3
  <1>7. CASE Abort(o)
    <2>1. tx' = [tx EXCEPT ![o] = Idle] /\ UNCHANGED <<rows, met, early, revoked, unplaced>>
      BY <1>7 DEF Abort, history
    <2>2. \A p \in Order : tx'[p] \in {tx[p], Idle}
      BY <2>1 DEF TypeOK
    <2>3. met \/ early \/ NoneEarly(rows)
      BY DEF GroupInv, RiderFindsAll, NoneEarly, Settled
    <2>4. met \/ early \/ revoked \/ unplaced \/ GoesOut(rows)
      BY DEF GroupInv, GroupGoesOut, GroupGoesOutAnywhere, GoesOut
    <2> QED BY <2>1, <2>2, <2>3, <2>4, GroupStep
  <1> QED BY <1>2, <1>3, <1>5, <1>6, <1>7 DEF Finish

\* The rider's acceptance.
LEMMA AcceptGroup ==
    ASSUME TypeOK, GroupInv, (\E j \in Job : AcceptReads(j)) \/ Accept \/ AbortAccept
    PROVE  GroupInv'
  <1> USE DEF history
  <1>a. met \/ early \/ NoneEarly(rows)
    BY DEF GroupInv, RiderFindsAll, NoneEarly, Settled
  <1>b. met \/ early \/ revoked \/ unplaced \/ GoesOut(rows)
    BY DEF GroupInv, GroupGoesOut, GroupGoesOutAnywhere, GoesOut
  <1>1. ASSUME NEW j \in Job, AcceptReads(j)
        PROVE  GroupInv'
    <2>1. UNCHANGED <<rows, tx, met, early, revoked, unplaced>>
      BY <1>1 DEF AcceptReads
    <2> QED BY <1>a, <1>b, <2>1, GroupStep
  <1>2. CASE Accept
    <2> DEFINE seen == accepting.seen
               mine == {o \in Order : /\ seen[o].job = accepting.job
                                      /\ seen[o].status \in {"READY_FOR_PICKUP", "PACKED", "NEW"}}
    <2>1. /\ rows' = [o \in Order |-> IF o \in mine THEN [rows[o] EXCEPT !.status = "ASSIGNED"]
                                                    ELSE rows[o]]
          /\ UNCHANGED <<tx, early, revoked, unplaced>> /\ (met' = (met \/ Outdated(seen)))
          /\ accepting.job \in Job
      BY <1>2 DEF Accept, TypeOK, Acceptance
    <2>2. \A p \in Order : tx'[p] \in {tx[p], Idle}
      BY <2>1
    <2>3. ASSUME ~met', ~early'
          PROVE  NoneEarly(rows') /\ (revoked \/ unplaced \/ GoesOut(rows'))
      <3>1. ~met /\ ~early
            /\ \A p \in Order : seen[p].status = rows[p].status /\ seen[p].job = rows[p].job
        BY <2>1, <2>3 DEF Outdated
      <3>2. NoneEarly(rows) /\ (revoked \/ unplaced \/ GoesOut(rows))
        BY <1>a, <1>b, <3>1
      <3>3. ASSUME NEW p \in Order
            PROVE  /\ rows'[p].job = rows[p].job
                   /\ rows'[p].status = IF p \in mine THEN "ASSIGNED" ELSE rows[p].status
        BY <2>1 DEF TypeOK, Row
      <3>4. ASSUME NEW p \in mine
            PROVE  rows[p].status = "READY_FOR_PICKUP"
        <4>1. rows[p].job # 0
          BY <2>1, <3>1 DEF Job
        <4>2. rows[p].status \in Settled
          BY <3>2, <4>1 DEF NoneEarly
        <4> QED BY <3>1, <4>2 DEF Settled, Pickable, Fulfilled
      <3>5. NoneEarly(rows')
        BY <3>2, <3>3 DEF NoneEarly, Settled, Pickable
      <3>6. GoesOut(rows) => GoesOut(rows')
        BY <3>3, <3>4 DEF GoesOut, Pickable
      <3> QED BY <3>2, <3>5, <3>6
    <2> QED BY <2>1, <2>2, <2>3, GroupStep
  <1>3. CASE AbortAccept
    <2>1. UNCHANGED <<rows, tx, met, early, revoked, unplaced>>
      BY <1>3 DEF AbortAccept
    <2> QED BY <1>a, <1>b, <2>1, GroupStep
  <1> QED BY <1>1, <1>2, <1>3

LEMMA GroupInvariant == Spec => []GroupInv
  <1>1. Init => GroupInv
    <2> SUFFICES ASSUME Init PROVE GroupInv
      OBVIOUS
    <2>1. \A o \in Order : rows[o].job = 0 /\ rows[o].status = "NEW" /\ tx[o] = Idle
      BY DEF Init
    <2> QED BY <2>1 DEF GroupInv, RiderFindsAll, GroupGoesOut, GroupGoesOutAnywhere, Begun
  <1>2. TypeOK /\ GroupInv /\ [Next]_vars => GroupInv'
    <2> SUFFICES ASSUME TypeOK, GroupInv, [Next]_vars PROVE GroupInv'
      OBVIOUS
    <2>1. CASE UNCHANGED vars
      BY <2>1 DEF vars, history, GroupInv, RiderFindsAll, GroupGoesOut, GroupGoesOutAnywhere, Begun
    <2>2. CASE Next
      BY <2>2, RequestGroup, FinishGroup, AcceptGroup DEF Next
    <2> QED BY <2>1, <2>2
  <1> QED BY <1>1, <1>2, TypeCorrect, PTL DEF Spec

\* A rider is called only when every order of the group is packed, unless a
\* retry calls him early or two requests of the group met.
THEOREM RiderFindsAllCorrect == Spec => []RiderFindsAll
  <1>1. GroupInv => RiderFindsAll
    BY DEF GroupInv
  <1> QED BY <1>1, GroupInvariant, PTL

\* A group whose orders are all ready or cancelled has its job, whichever
\* request was last, with the exceptions GroupGoesOut names.
THEOREM GroupGoesOutCorrect == Spec => []GroupGoesOut
  <1>1. GroupInv => GroupGoesOut
    BY DEF GroupInv
  <1> QED BY <1>1, GroupInvariant, PTL
=============================================================================
