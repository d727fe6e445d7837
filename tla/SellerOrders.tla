---------------------------- MODULE SellerOrders ----------------------------
(***************************************************************************)
(* The seller orders of one delivery group, from intake to delivery: each  *)
(* is another seller's part of a customer's order, packed and marked ready *)
(* by that seller, and one rider fetches them all (views_seller_hub.py,    *)
(* views_warehouse_portal.py, views_marketplace_integration.py).           *)
(*                                                                         *)
(* A request locks the row of its own order until its transaction ends,    *)
(* reads the other orders of the group without a lock, and may write them  *)
(* from that reading when it commits.  The database lets a transaction     *)
(* write a row only while no other one has it locked, and ends one of two  *)
(* transactions that wait for each other.                                  *)
(***************************************************************************)
EXTENDS Integers

CONSTANTS
    Order,    \* the orders of the group; each has a seller and a product of its own
    OnHand,   \* pieces of each product in stock at intake
    Others,   \* pieces of each product reserved for orders outside the group
    MaxJobs   \* bound: delivery jobs created for the group

ASSUME SellerOrdersAssumption ==
    /\ OnHand \in Nat /\ Others \in Nat /\ Others < OnHand
    /\ MaxJobs \in Nat

Job == 1..MaxJobs

VARIABLES
    rows,       \* [Order -> Row], as committed
    onHand,     \* [Order -> Nat], on_hand_qty of the order's product
    reserved,   \* [Order -> Nat], reserved_qty of the order's product
    jobs,       \* [Job -> the state of the delivery job]
    tx,         \* [Order -> the transaction that has locked the order's row]
    accepting,  \* the rider's acceptance in progress
    retrying,   \* orders a dispatch retry has read and not yet written
    placed,     \* orders whose warehouse is active and has coordinates
    stale,      \* history: orders written from a reading that was outdated
    met,        \* history: a transaction committed on an outdated reading
    early,      \* history: a retry gave an order a job of its own
    revoked,    \* history: the marketplace cancelled an order
    unplaced    \* history: a cancellation knew no warehouse for the orders left

stock == <<onHand, reserved>>
history == <<stale, met, early, revoked, unplaced>>
vars == <<rows, stock, jobs, tx, accepting, retrying, placed, history>>

\* ALLOWED_TRANSITIONS up to READY_FOR_PICKUP has one way forward.
Following == [NEW |-> "ACCEPTED", ACCEPTED |-> "PICKING", PICKING |-> "PACKED"]
Pickable == {"READY_FOR_PICKUP", "ASSIGNED"}
Fulfilled == {"HANDED_OVER", "DELIVERED"}
Cancellable == {"NEW", "ACCEPTED", "PICKING", "PACKED"} \cup Pickable
Status == Cancellable \cup Fulfilled \cup {"CANCELLED"}

Row == [status : Status, job : 0..MaxJobs, deducted : BOOLEAN,
        codes : SUBSET {"pickup", "drop"}]  \* OTPs issued and not used
JobState == {"none", "open", "begun", "done"}
Kind == {"ready", "cancel", "pickup", "deliver"}
Tx == [kind : Kind, seen : [Order -> Row]]
Acceptance == [job : Job, seen : [Order -> Row]]
Idle == [kind |-> "idle"]

\* The jobs to which the rows f point have been created.
Made(f) == \A o \in Order : f[o].job # 0 => jobs[f[o].job] # "none"

TypeOK ==
    /\ rows \in [Order -> Row] /\ Made(rows)
    /\ onHand \in [Order -> Nat] /\ reserved \in [Order -> Nat]
    /\ jobs \in [Job -> JobState]
    /\ tx \in [Order -> Tx \cup {Idle}]
    /\ \A o \in Order : tx[o] # Idle => Made(tx[o].seen)
    /\ accepting \in Acceptance \cup {Idle}
    /\ retrying \subseteq Order /\ placed \subseteq Order /\ stale \subseteq Order
    /\ met \in BOOLEAN /\ early \in BOOLEAN /\ revoked \in BOOLEAN /\ unplaced \in BOOLEAN

\* Intake has created the orders of the checkout and reserved their pieces.
Init ==
    /\ rows = [o \in Order |-> [status |-> "NEW", job |-> 0, deducted |-> FALSE, codes |-> {}]]
    /\ onHand = [o \in Order |-> OnHand]
    /\ reserved = [o \in Order |-> Others + 1]
    /\ jobs = [j \in Job |-> "none"]
    /\ tx = [o \in Order |-> Idle] /\ accepting = Idle /\ retrying = {}
    /\ placed = Order
    /\ stale = {} /\ met = FALSE /\ early = FALSE /\ revoked = FALSE /\ unplaced = FALSE

---------------------------------------------------------------------------
(* Locks, stock and jobs *)

Unlocked(S) == \A o \in S : tx[o] = Idle

Less(n) == IF n > 0 THEN n - 1 ELSE 0

\* _deduct_inventory_for_order, of each order of S.
Deduct(S) ==
    /\ onHand' = [o \in Order |-> IF o \in S THEN Less(onHand[o]) ELSE onHand[o]]
    /\ reserved' = [o \in Order |-> IF o \in S THEN Less(reserved[o]) ELSE reserved[o]]

\* _release_inventory_reservations.
Release(o) ==
    /\ reserved' = [reserved EXCEPT ![o] = Less(@)]
    /\ UNCHANGED onHand

Mutant_LinkUnsaved(S, base) ==
    \E j \in Job :
        /\ jobs[j] = "none" /\ \A k \in Job : k < j => jobs[k] # "none"
        /\ rows' = [o \in Order |-> IF o \in S THEN [base[o] EXCEPT !.job = j] ELSE base[o]]
        /\ UNCHANGED jobs

\* A new delivery job, of the orders of S; the other rows are as in base.
Link(S, base) ==
    \E j \in Job :
        /\ jobs[j] = "none" /\ \A k \in Job : k < j => jobs[k] # "none"
        /\ jobs' = [jobs EXCEPT ![j] = "open"]
        /\ rows' = [o \in Order |-> IF o \in S THEN [base[o] EXCEPT !.job = j] ELSE base[o]]

JobBecomes(j, state) ==
    jobs' = IF j = 0 THEN jobs ELSE [jobs EXCEPT ![j] = state]

\* No acceptance has locked the job's row.
JobUnlocked(j) == accepting # Idle => accepting.job # j

\* A reading no longer agrees with the rows.
Outdated(seen) ==
    \E o \in Order : <<seen[o].status, seen[o].job>> # <<rows[o].status, rows[o].job>>
Overwritten(seen, S) ==
    {o \in S : <<seen[o].status, seen[o].deducted>> # <<rows[o].status, rows[o].deducted>>}

---------------------------------------------------------------------------
(* Requests about one order only *)

\* accept, start_picking, mark_packed.
Advance(o) ==
    /\ Unlocked({o}) /\ rows[o].status \in DOMAIN Following
    /\ rows' = [rows EXCEPT ![o].status = Following[@]]
    /\ UNCHANGED <<stock, jobs, tx, accepting, retrying, placed, history>>

\* The marketplace cancels: it does not look at the rest of the group.
Revoke(o) ==
    /\ Unlocked({o}) /\ rows[o].status \in Cancellable
    /\ rows' = [rows EXCEPT ![o].status = "CANCELLED"]
    /\ Release(o)
    /\ revoked' = TRUE
    /\ UNCHANGED <<jobs, tx, accepting, retrying, placed, stale, met, early, unplaced>>

Mutant_Conclude(o, to) ==
    /\ Unlocked({o})
    /\ rows[o].status \in IF to = "HANDED_OVER" THEN Pickable ELSE Pickable \cup {"HANDED_OVER"}
    /\ rows' = [rows EXCEPT ![o].status = to, ![o].deducted = TRUE]
    /\ Deduct({o})
    /\ UNCHANGED <<tx, accepting, retrying, placed, history>>

\* What an administrator hands over or delivers alone is deducted once.
Conclude(o, to) ==
    /\ Unlocked({o})
    /\ rows[o].status \in IF to = "HANDED_OVER" THEN Pickable ELSE Pickable \cup {"HANDED_OVER"}
    /\ rows' = [rows EXCEPT ![o].status = to, ![o].deducted = TRUE]
    /\ Deduct({o} \ {p \in Order : rows[p].deducted})
    /\ UNCHANGED <<tx, accepting, retrying, placed, history>>

\* admin-override: the job moves with the order.
Override(o, to) ==
    /\ Conclude(o, to) /\ JobUnlocked(rows[o].job)
    /\ JobBecomes(rows[o].job, IF to = "HANDED_OVER" THEN "begun" ELSE "done")

\* transition handover or deliver by a superuser: the job stays.
Handover(o, to) ==
    /\ to = "DELIVERED" => rows[o].status = "HANDED_OVER"
    /\ Conclude(o, to) /\ UNCHANGED jobs

\* The rider, or an administrator for him, arrives: a code for all orders of
\* the group that are not cancelled.  Reading and writing them is one step, as
\* the code is all it writes.
Arrive(o, code) ==
    LET group == {p \in Order : rows[p].status # "CANCELLED"} IN
    /\ Unlocked(group)
    /\ rows[o].status \in IF code = "pickup" THEN Pickable ELSE {"HANDED_OVER"}
    /\ rows' = [p \in Order |-> IF p \in group THEN [rows[p] EXCEPT !.codes = @ \cup {code}]
                                               ELSE rows[p]]
    /\ UNCHANGED <<stock, jobs, tx, accepting, retrying, placed, history>>

---------------------------------------------------------------------------
(* Requests that read the group *)

MayBegin(o, kind) ==
    \/ kind = "ready" /\ rows[o].status = "PACKED" /\ o \in placed
    \/ kind = "cancel" /\ rows[o].status \in Cancellable
    \/ kind = "pickup" /\ rows[o].status \in Pickable /\ "pickup" \in rows[o].codes
    \/ kind = "deliver" /\ rows[o].status = "HANDED_OVER" /\ "drop" \in rows[o].codes

\* The order's row is locked and checked, the group is read.
Begin(o, kind) ==
    /\ Unlocked({o}) /\ MayBegin(o, kind)
    /\ tx' = [tx EXCEPT ![o] = [kind |-> kind, seen |-> rows]]
    /\ UNCHANGED <<rows, stock, jobs, accepting, retrying, placed, history>>

\* The process dies, or the database ends a transaction that waits in a circle.
Abort(o) ==
    /\ tx[o] # Idle
    /\ tx' = [tx EXCEPT ![o] = Idle]
    /\ UNCHANGED <<rows, stock, jobs, accepting, retrying, placed, history>>

In(o, kind) == tx[o] # Idle /\ tx[o].kind = kind

\* The transaction of o ends; it has written the orders of S.
Commits(o, S) ==
    /\ Unlocked(S \ {o})
    /\ tx' = [tx EXCEPT ![o] = Idle]
    /\ met' = (met \/ Outdated(tx[o].seen))
    /\ UNCHANGED <<accepting, retrying, placed, early, revoked>>

Active(seen) == {p \in Order : seen[p].status # "CANCELLED"}

Mutant_Waiting(seen, o) ==
    {p \in Active(seen) \ {o} : seen[p].status \notin Pickable \cup Fulfilled \cup {"PACKED"}}

\* not_ready: the other orders for which the group waits.
Waiting(seen, o) ==
    {p \in Active(seen) \ {o} : seen[p].status \notin Pickable \cup Fulfilled}

Linked(seen) == {p \in Active(seen) : seen[p].job # 0}

\* mark_ready: the last one to be ready makes the group's job, or takes the
\* one an order of the group has.
Ready(o) ==
    LET seen == tx[o].seen
        base == [rows EXCEPT ![o].status = "READY_FOR_PICKUP"]
    IN  /\ In(o, "ready")
        /\ \/ /\ Waiting(seen, o) # {}
              /\ Commits(o, {o})
              /\ rows' = base /\ UNCHANGED jobs
           \/ /\ Waiting(seen, o) = {} /\ Linked(seen) = {}
              /\ Commits(o, Active(seen))
              /\ Link(Active(seen), base)
           \/ /\ Waiting(seen, o) = {}
              /\ Commits(o, {o})
              /\ \E p \in Linked(seen) : rows' = [base EXCEPT ![o].job = seen[p].job]
              /\ UNCHANGED jobs
        /\ UNCHANGED <<stock, stale, unplaced>>

\* The orders left are ready, and nobody has called a rider for them.
Stranded(seen, rest) ==
    /\ rest # {} /\ rest \cap Linked(seen) = {}
    /\ \A p \in rest : seen[p].status \in Pickable

Mutant_CancelAlone(o) ==
    /\ In(o, "cancel") /\ Commits(o, {o})
    /\ rows' = [rows EXCEPT ![o].status = "CANCELLED"]
    /\ Release(o)
    /\ UNCHANGED <<jobs, stale, unplaced>>

\* A rider is called from the warehouse of one of the orders left, or from that
\* of the operator who cancels; without one the order is cancelled all the same.
Cancel(o) ==
    LET seen == tx[o].seen
        rest == Active(seen) \ {o}
        base == [rows EXCEPT ![o].status = "CANCELLED"]
    IN  /\ In(o, "cancel")
        /\ \/ /\ Stranded(seen, rest) /\ (rest \cup {o}) \cap placed # {}
              /\ Commits(o, rest) /\ Link(rest, base)
              /\ UNCHANGED unplaced
           \/ /\ Stranded(seen, rest) => ~(rest \cup {o} \subseteq placed)
              /\ Commits(o, {o}) /\ rows' = base /\ UNCHANGED jobs
              /\ unplaced' = (unplaced \/ Stranded(seen, rest))
        /\ Release(o)
        /\ UNCHANGED stale

\* Every order of S becomes status, as a whole row; what the reading says is
\* not deducted yet is deducted.
Saves(seen, S, status, code) ==
    /\ rows' = [p \in Order |->
                  IF p \in S
                  THEN [seen[p] EXCEPT !.status = status, !.deducted = TRUE, !.codes = @ \ {code}]
                  ELSE rows[p]]
    /\ Deduct({p \in S : ~seen[p].deducted})
    /\ stale' = stale \cup Overwritten(seen, S)
    /\ UNCHANGED unplaced

\* verify-pickup-otp: the orders of the group, whatever their status is.
VerifyPickup(o) ==
    LET seen == tx[o].seen
        group == {p \in Active(seen) : seen[p].status # "DELIVERED"}
    IN  /\ In(o, "pickup") /\ Commits(o, group)
        /\ Saves(seen, group, "HANDED_OVER", "pickup")
        /\ JobBecomes(seen[o].job, "begun")

\* verify-delivery-otp.
VerifyDelivery(o) ==
    LET seen == tx[o].seen IN
    /\ In(o, "deliver") /\ Commits(o, Active(seen))
    /\ Saves(seen, Active(seen), "DELIVERED", "drop")
    /\ JobBecomes(seen[o].job, "done")

---------------------------------------------------------------------------
(* The rider's acceptance and the seller's retry *)

\* The job's row is locked, its orders are read.
AcceptReads(j) ==
    /\ accepting = Idle /\ jobs[j] = "open"
    /\ accepting' = [job |-> j, seen |-> rows]
    /\ UNCHANGED <<rows, stock, jobs, tx, retrying, placed, history>>

Accept ==
    LET seen == accepting.seen
        mine == {o \in Order : /\ seen[o].job = accepting.job
                               /\ seen[o].status \in {"READY_FOR_PICKUP", "PACKED", "NEW"}}
    IN  /\ accepting # Idle /\ Unlocked(mine)
        /\ rows' = [o \in Order |-> IF o \in mine THEN [rows[o] EXCEPT !.status = "ASSIGNED"]
                                                  ELSE rows[o]]
        /\ jobs' = [jobs EXCEPT ![accepting.job] = "begun"]
        /\ accepting' = Idle
        /\ stale' = stale \cup Overwritten(seen, mine)
        /\ met' = (met \/ Outdated(seen))
        /\ UNCHANGED <<stock, tx, retrying, placed, early, revoked, unplaced>>

AbortAccept ==
    /\ accepting # Idle
    /\ accepting' = Idle
    /\ UNCHANGED <<rows, stock, jobs, tx, retrying, placed, history>>

\* retry-dispatch makes a job for an order that has none, outside a
\* transaction and without a look at the group.
RetryReads(o) ==
    /\ o \notin retrying /\ o \in placed
    /\ rows[o].status = "READY_FOR_PICKUP" /\ rows[o].job = 0
    /\ retrying' = retrying \cup {o}
    /\ UNCHANGED <<rows, stock, jobs, tx, accepting, placed, history>>

Retry(o) ==
    /\ o \in retrying /\ Unlocked({o})
    /\ Link({o}, rows)
    /\ retrying' = retrying \ {o}
    /\ early' = TRUE
    /\ UNCHANGED <<stock, tx, accepting, placed, stale, met, revoked, unplaced>>

\* An administrator assigns the seller another warehouse, deactivates the one
\* it has or changes its coordinates.
Relocate(o) ==
    /\ placed' = IF o \in placed THEN placed \ {o} ELSE placed \cup {o}
    /\ UNCHANGED <<rows, stock, jobs, tx, accepting, retrying, history>>

---------------------------------------------------------------------------
Request(o) ==
    \/ Advance(o) \/ Revoke(o)
    \/ \E to \in Fulfilled : Override(o, to) \/ Handover(o, to)
    \/ \E code \in {"pickup", "drop"} : Arrive(o, code)
    \/ \E kind \in Kind : Begin(o, kind)
    \/ RetryReads(o) \/ Retry(o) \/ Relocate(o)

Finish(o) == Ready(o) \/ Cancel(o) \/ VerifyPickup(o) \/ VerifyDelivery(o) \/ Abort(o)

Next ==
    \/ \E o \in Order : Request(o) \/ Finish(o)
    \/ \E j \in Job : AcceptReads(j)
    \/ Accept \/ AbortAccept

Spec == Init /\ [][Next]_vars

---------------------------------------------------------------------------
(* Properties *)

Taken(o) == IF rows[o].status \in Fulfilled THEN 1 ELSE 0

\* The stock of a product agrees with its order through every path: it is
\* deducted once when the order goes, its piece stays reserved until then and
\* is given back when the order is cancelled; unless a request has written the
\* order over from a reading that was outdated.
StockMatches ==
    \A o \in Order \ stale :
        /\ onHand[o] = OnHand - Taken(o)
        /\ reserved[o] = Others + (IF rows[o].status \in Cancellable THEN 1 ELSE 0)

\* "Wait for all active sibling sub-orders before creating 1 consolidated
\* dispatch job": when a rider is called, no order of the group is still being
\* packed, unless a retry called him early or two requests met.
RiderFindsAll ==
    \/ met \/ early
    \/ \A o \in Order : rows[o].job = 0
    \/ \A o \in Order : rows[o].status \in Pickable \cup Fulfilled \cup {"CANCELLED"}

\* "check if remaining active siblings are now all READY_FOR_PICKUP and waiting
\* for dispatch": once all orders are ready or cancelled, the ready ones have a
\* job, whoever was last and whatever became of the others, unless two requests
\* met, a retry gave one of them a job of its own or the marketplace cancelled
\* one.  Does not hold (README, section 3).
GroupGoesOutAnywhere ==
    \/ met \/ early \/ revoked
    \/ \E o \in Order : rows[o].status \notin Pickable \cup {"CANCELLED"}
    \/ \A o \in Order : rows[o].status = "READY_FOR_PICKUP" => rows[o].job # 0

\* A group does not wait for nothing: the same, unless a seller cancelled the
\* last order that was not ready while the warehouse of those left was gone.
GroupGoesOut == unplaced \/ GroupGoesOutAnywhere

\* "Guarantees stock deduction happens exactly once during handover": the
\* stock that has gone is at most the order's, without the exception.  Does not
\* hold (README, section 3).
DeductedOnce == \A o \in Order : onHand[o] >= OnHand - 1
=============================================================================
