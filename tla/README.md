# SEVO Vendor: a TLA+ model of dispatch, money, orders and the web client

SEVO Vendor is the workforce side of a home-services marketplace. A Django back
end (`src/backend`) shares one PostgreSQL database with a separate Customer
application, and its processes (HTTP workers, a dispatch loop and half a dozen
periodic commands) work on the same rows. The web client (`src/frontend`, React)
is single-threaded, but its handlers suspend at every `await`, and several tabs
share one storage. This directory models the parts in which such actors race for a
job, for money, for stock or for the truth about what a page shows, checks the
models with TLC and proves every safety property the runs check with TLAPS, for any
values of the parameters. What is only model-checked is liveness.

`PROJECT.json` maps every definition to the lines it translates, and lists the
components, runs, mutants, hazards and theorems this file refers to.

## 1. Inventory

### Modelled

| Part | State it keeps | Operations | Module |
|---|---|---|---|
| Job state machine (`service_requests/state_machine.py`, `models.py`) | `ServiceRequest.status`, the `EmployeeJob` rows of the job | `apply_transition`, `ServiceRequest.save` | `ServiceRequestStates`, `Dispatch` |
| Automatic dispatch (`services/automatic_dispatch.py`) | `WorkforceDispatchState`, `WorkforceJobOffer` | `dispatch_job` (claim, evaluate, finalise), `dispatch_pending_jobs`, `expire_and_reassign_offers` | `Dispatch` |
| Offers and cancellations (`workforce_api/views.py`) | offers, `assigned_employee` | accept, reject, cancel assignment, technician / customer / administrator cancel, transitions | `Dispatch` |
| Workload (`services/workload.py`) | `Employee.current_availability` | `get_employee_active_job`, `reconcile_employee_availability`, `supersede_other_offers_for_employee` | `Dispatch` |
| No-show detection (`detect_job_no_shows.py`) | none | lists jobs nobody arrived at and takes the technician off | `Dispatch` |
| Settlement (`services/commission.py`) | `WalletLedgerEntry` | `settle_completed_job`, `release_due_holds`, `clawback_job` | `WalletLedger` |
| Withdrawals and RazorpayX (`services/withdrawals.py`, `services/payouts.py`) | `WithdrawalRequest` | request, execute, retry after activation, payout webhook | `WalletLedger` |
| Employee wallet (`vendor_wallet`) | `EmployeeWallet` and its transactions and withdrawals | mirror of a settlement, release after T+7, withdraw, cancel, process / complete / fail, adjust, freeze | `EmployeeWallet`, `AuditedAccount` |
| Seller orders of a delivery group (`views_seller_hub.py`, `views_warehouse_portal.py`, `views_marketplace_integration.py`) | `SellerOrder`, `SellerProduct` quantities, the delivery job | seller and warehouse transitions, ready, cancel, pickup and drop arrival and codes, override, marketplace cancellation, acceptance, dispatch retry | `SellerOrders` |
| Outboxes towards the Customer application (`seller_order_outbox.py`, `customer_webhook.py`) | `SellerOrderStatusOutbox`, `WorkforceOutboundWebhook` rows; what each sender has read | record, thread after the commit, sweep, post, save, retry | `Outbox`, `AtLeastOnce` |
| Session of the web client (`client.js`, `authTokens.js`, `AuthProvider.jsx`) | tokens in `localStorage` and each tab's `sessionStorage`, the user shown | `apiRequest`, silent refresh, `refreshProfile`, login, logout, messages between tabs | `Session` |
| Realtime stream (`useRealtimeStream.js`, the stream view and event log of the server) | the `EventSource`, its timers and references; the event rows | connect, ticket, errors and reconnection, disabling, unmounting; write, wake, query, rotate | `EventStream` |
| List of active jobs (`EmployeeRuntimeProvider.jsx`, handlers of the dashboard and of the jobs page) | `activeJobs`, the fetches under way | `refreshActiveJobs`, polls and events, accept, decline, cancel, finish | `ActiveJobs` |
| Pre-service gates (`EmployeeDashboardPage.jsx`, verification endpoints in `views.py`) | `preServiceState`, the verification row, the job's status | arrival, code, selfie, automatic start, polls and list refreshes | `PreService` |
| Product editor (`SellerProductEditorPage.jsx`, the variant-group and product endpoints) | option tags, rows, `actionLoading`; groups and products | tags, rows, photo uploads, saving in batch, retrying | `ProductEditor` |

How they interact. A job enters through the shared table. The dispatch loop claims
it, ranks technicians without holding a lock, and writes a wave of offers. An
acceptance, in an HTTP worker, takes the job and closes every competing offer,
including those the same technician holds of other jobs, whose dispatch then starts
again inside the same transaction. Progress goes through `apply_transition`, which
also writes the `EmployeeJob` rows and, when the job closes, the dispatch state. The
end of a job calls `settle_completed_job`, which credits the company's or
technician's `WalletAccount` ledger and mirrors the earning into the
`EmployeeWallet`, a second system with balances of its own. The two are two modules
that share one thing: a settlement commits both or neither. `WalletLedger` has the
mirror as one of the reasons for which `SettleRollsBack` happens, `EmployeeWallet`
has the ledger as one of the reasons for `MirrorRollsBack`.

Seller transitions and job transitions write an event for the Customer application in
the same transaction. `Outbox` models what becomes of such an event, and takes that it
is written as its input.

A checkout becomes several seller orders with one delivery group. When the last of
them is ready a delivery job is created, which is a job like any other for
`Dispatch`; its acceptance writes the orders back (`SellerOrders!Accept`). The
client's five modules are layers that share little state: every request goes
through the session; the stream tells the list of active jobs to fetch; the list
selects the job the pre-service panel shows. Each module therefore has what the
next layer gives it as an input: `ActiveJobs` has realtime events that may come or
not, `PreService` has a list that is refreshed now and again (`Sync`).

### What is hard here

- **Rows read without a lock and written later.** Nearly all of the difficult
  behaviour has this one cause: phase 2 of a dispatch, `apply_transition` on a copy,
  `clawback_job`, the administrator's withdrawal views, the settlement mirror.
- **Processes that die** between a claim and its result, or between a payout and the
  commit that records it.
- **Handlers that interleave at an `await`.** They go on with the state of the render
  in which they were made, while answers arrive out of the order of their requests:
  the gates of one job are shown for another, a fetch begun before an acceptance ends
  after it, a save works on rows the seller has edited since.
- **Several tabs.** Each has an access token of its own and shares the refresh token;
  storage events and `LOGOUT_SYNC` arrive later, between any two steps.
- **Groups read without a lock.** A seller's request locks its own order and decides
  from what it reads of its siblings.
- **Clocks**: offers expire while they are being accepted, a claim goes stale while
  its owner still works, a payout call times out after it was accepted.
- **Senders that work on copies.** A thread and a sweep may post one outbox event at
  once, and each saves its own copy of the row over the other's.
- **Two systems without a common transaction**: RazorpayX, whose events come late,
  repeatedly and in any order; the Customer application, which writes `cancelled`
  by itself and may or may not say so.
- **Periodic repair**: what a lost step leaves behind is only put right by a sweep.

`PROJECT.json` lists the hazards one by one, at the line where each bites, with the
property that would catch it, or the reason why none does yet.

### Not modelled

On the server: cash reconciliation, quotations and invoices, time tracking,
reservations of service parts, stops and exceptions of logistics trips (planned, section 5); pricing and tax
(arithmetic without state), onboarding and KYC (sequential forms), positions and
geofences (read-only), reports. The Redis stream hands job ids to `dispatch_job`;
`Dispatch` lets any worker start on any job at any time, which covers a lost, late
or repeated message.

On the client: the API functions (`workforceService.js` and its like format a URL
and pass the answer on; their requests are steps of the modules above), the seller's
catalogue, inventory and order pages, the warehouse and administration pages (tables
that fetch, filter and send one request per button), the onboarding wizard (a form
saved as a draft), maps, public pages, the mobile applications. Of these, the
catalogue page does not order the answers of quick filter changes
(`SellerCatalogUploadsPage.jsx:184`); a module for it would have one property.
`src/vendor` is an earlier copy of the same service.

## 2. Modules

### `ServiceRequestStates`

`ALLOWED_TRANSITIONS` as a function from statuses to sets, and the status groups
that dispatch and workload read. It has no variables; every module that moves a job
extends it.

### `Dispatch`

`job[j]` is everything the database has about job `j`: status, assignee, the offer
of each technician, the dispatch state, the `EmployeeJob` rows, and the declines on
record. One action is one transaction, or one statement where the code commits after
each. In particular

- `dispatch_job` is `Claim`, `Evaluate`, `Finalize` for a `worker`, with any other
  step in between, as phase 2 holds no lock. Called inside another transaction (an
  acceptance that supersedes offers, a cancellation) it is `DispatchOutcomes`, one
  step. `TurnAway` is phase 1 when it returns early, which also writes.
- `expire_and_reassign_offers` is one `ExpireOffer` per offer, and for the recovery of
  stuck waves the three statements `SweepLists`, `SweepChecks`, `SweepResets`.
- `Accept` and `Reject` lock the rows and are one step each; `AcceptTooLate` is the
  acceptance during which the offer runs out, as the view reads the clock twice.
- `TransitionReads` / `AdminReads` / `NoShowReads` copy a job into `request`, and
  `RequestWrites` writes what was decided from the copy: those requests take no lock.
  `SuperuserReads` is the same for a superuser, whom `apply_transition` asks neither for
  the table nor for its gates (`state_machine.py:102`, `108`), on any job
  (`views.py:3499`). `resumed` is history: the jobs such a write made active that were
  not.
- `reconcile_employee_availability` is one step inside a transaction that holds the
  rows (accept, cancel assignment, technician and customer cancel). After a transition,
  an administrator's cancellation or a presence view (`views.py:2935-2967`) it is
  not: `ReadsEmployee`, `LooksUp` and `ReconcileSaves` are its read, its lookup and its save
  (`workload.py:169-191`), with any other step in between. `overtaken` is history:
  the technicians whose acceptance came between such a lookup and its save.
- `Pending` is the sweep's query (`automatic_dispatch.py:2425-2433`): jobs with
  coordinates (`located`, chosen in `Init`) and a date that has not passed
  (`window` is not `"past"`). `SweepFinds` and `MarksExpired` are its handling of a job
  whose window has closed, an update by id after the row was read. A job without
  coordinates can still be claimed by the other callers of `dispatch_job`, which then
  mark it unassigned (`Unplaced`) and find no candidate.
- `Lookups` is `get_employee_active_job`, which, when it falls back to an
  unordered query, may end on any matching row, and `HealedBy` is the repair it does
  on the way.

Clocks are `window` (before, in and after the job's hours, and after its date) and
three flags: `live` (the wave has not expired), `fresh` (the claim is under
120 s old) and `due` (the retry time has come). A wave has one expiry for all of its
offers, so one flag is enough. The ranking of technicians is any wave of up to
`WaveSize` candidates without history of the job: skills, documents, distance and
cash limits only remove candidates, and the empty wave is among the choices. Who is
allowed to call a view, notifications, and the evidence a transition demands (photos,
geofence, code of the customer) are inputs or left out. Technicians are online
throughout, and one who is a superuser and accepts against the table is not modelled.
A cancellation inside a transaction also reads availability before it looks up the
active job; what a step in between could leave is what the presence views' unlocked
steps leave as well.

### `WalletLedger`

`credit[j]` holds the `JOB_CREDIT` rows of job `j`, oldest first, for nothing but the
unique key of the mirror prevents a second. The other kinds of rows differ in number
only and are counted. `request[w]` is a `WithdrawalRequest` with the number of its
debits and refunds. Transactions are READ COMMITTED: `SettleReads` / `SettleWrites`
and `ClawbackReads` / `ClawbackWrites` are two steps each, and `executor` holds what
`execute_withdrawal` has in memory while it talks to RazorpayX. A withdrawal is
checked, created and carried out in one transaction, so its row appears at the end
and disappears if the process dies (`Crash`) although RazorpayX may have the payout.
RazorpayX is the external part: it decides each payout once, may reverse a payout it
made, and may send any event any number of times in any order (`events` is a set that
never shrinks). The mock mode, which needs `DEBUG`, and the registration of bank
accounts are left out, as is `net_cod_commission_payable`, which nothing calls.

### `AuditedAccount`, `EmployeeWallet`

`AuditedAccount` is the abstract specification: a balance that is a cached aggregate
of a ledger, changes by what is posted in the same step, and is never negative. That
is what `reconcile_wallets` audits. `EmployeeWallet` is the wallet in detail: the
services that lock the wallet row are one step, the settlement's mirror and the
administrator's views, which do not lock what they check, are two. `AvailableIsAudited`
is `AuditedAccount`'s `Spec` under the mapping `balance <- wallet.available`,
`posted <- LedgerAvailable`, where the ledger is summed the way `reconcile_wallets`
sums it. `database` is a variable that never changes: the same code behaves
differently on the two databases of the settings, and both are explored.

### `SellerOrders`

One order per seller, one product and one piece each. A request that locks its order
is two steps, `Begin` (lock the row, read the group) and `Ready`, `Cancel`,
`VerifyPickup` or `VerifyDelivery` (write from that reading and commit), or `Abort`;
requests that look at their own order only are one step, and so is an arrival, which
writes nothing of the group but codes. `Unlocked` is what PostgreSQL makes a
transaction wait for before it may write another order's row. `Accept` is the sync
at a rider's acceptance, which holds the job's row and not the orders'.

Abstracted: intake (all orders of the checkout exist before the first is packed);
quantities other than one piece; batches, stock movements, audit rows and outbox
events; attempts and expiry of codes; the dispatch of the job, which is
`Dispatch`'s. Who calls is an input: an administrator passes the rider's checks
too. The warehouse's transition endpoint is the same transition. `placed` are the
orders whose seller has an active warehouse with coordinates: marking ready and the retry
need it, and a cancellation that finds none commits without calling a rider
(`views_seller_hub.py:3934-3935`); `Relocate` is what an administrator does to
warehouses meanwhile. `retry-dispatch`
is an endpoint that the client exports (`workforceService.js:1775`) and no page
calls. The histories `stale`, `met`, `early`, `revoked` and `unplaced` record what the
exceptions of the properties speak of and influence nothing.

### `AtLeastOnce`, `Outbox`

`AtLeastOnce` is the abstract specification: an event that was sent is heard, perhaps
often, or given up, and neither side waits for ever. `Outbox` is the code of both
outboxes for one order or booking; `queue` says which, is chosen in `Init` and never
changes, so that what differs (which rows the thread takes, the order of the sweep,
refusals, whether a success is counted) stands next to what does not. A `Sender` is
the thread of an event or a sweep. It copies rows (`ThreadReads`, `Sweep`), posts from
a copy (`Post`), and saves what it makes of the answer (`Save`); no step locks a row.
`state` abstracts status and `next_retry_at`: "waiting" and "due" are the row with a
retry time that has not, or has, come ("PENDING" in the seller's table, "FAILED" in the
other after a try), "dropped" the one with no retry. A dropped webhook can come back:
a thread that posts it late, or a copy with fewer tries saved over it (`Resume`).
Records of one order are in commit order, as every caller has updated the order's row
before it counts the sequence. `Post` with an answer other than an acceptance leaves
open whether the receiver got the event. Left out: the payload, the lengths of the
backoff, the batch limits of 50 and 25 rows, and an insertion that fails because the
outbox table is missing (the change then commits without an event). `posts` and
`refused` are histories.

### `Session`

What a handler does between two awaits is one step. A token is its owner and its
expiry time. `StartCall` chooses the bearer as `authTokens.js` does, `Settle` is
the answer of a request in all its forms: accepted; 401 with a refresh to join or to
start; 401 that ends the session; the two requests of a profile refresh.
`RefreshAhead` is the refresh before expiry. Cookies are abstracted: a request
without a token may be accepted or refused until the last token has expired. Left
out: the refresh token's copy in `sessionStorage` (always written with the other),
the bootstrap timer behind `isReady`, the context's `token` (which a silent refresh
leaves old, and only displays use), and sign-up, which logs in like `Login`. Bearers are
refused only once they have expired, so a request that is refused a second time after its
refresh (`client.js:168-175`) does not occur.

### `EventStream`

`attempts` counts the `connect()` calls by what they await, `timer` is the one in
the reference and `strays` are timers no reference holds; a callback made while the
stream was enabled keeps that value, so that only `mounted` is checked anew. On the
server `Write` wakes the streams when a row is saved, `Commit` makes it visible,
later and in any order, `Query` sends what has committed above the cursor, `Rotate`
ends a stream. Left out: lengths of the backoff, the 15-second stability timer, the
history that filters duplicates, exceptions thrown inside `connect()`, and the limit
of 50 events a query, which the run cannot reach.

### `ActiveJobs`

`fetches` are the fetches of the list under way, oldest first, and `newest` tells
whether the last has the newest generation; `inFlight` is the reference by which
later refreshes join, which also a superseded fetch clears at its end. `told` is what
an answer told the technician of a job, dropped when the server changes it. The
handlers of the two pages differ in what they refresh and are separate actions.
Left out: sending positions, the offer's sound and modal, the cache behind the first
list other than as its initial value.

### `PreService`

The endpoints read the verification row and save all of it (`ReadRow`, then
`SaveArrival`, `SavePhoto`, ...), then `EnsureStarted` decides from the row it reads
anew. `made` are the jobs that have a row. The views of the arrival and of the selfie
make an empty one; the code's view makes one in which the arrival is passed, before it
looks at the code (`views.py:10099-10104`; `MakesRow`), which `waived` records. A WORK job
made from an inspection gets a copy of the inspection's row, when its quotation is
converted (`quotation_service.py:621-639`) or by the starter (`views.py:290-311`);
`works` says which jobs are made so and is chosen in `Init`. The starter reads
`otp_verified` into the row as well: `verified` is that field of the job.

A `Call` carries `base`, the `preServiceState` its handler closed over (for the
camera, that of the submission). At most one request of a kind is in flight; that
`actionLoading` disables buttons is not modelled, so more requests meet than in the
page. The guard of the automatic start is held until the reloads after the answer end
(`Reloaded`). A late starter may revive a job that has ended meanwhile, as in the code.
What the office moves by hand (administrators' and superusers' transitions) is not part
of the module. `passed`, `waived` and `clean` are histories.

### `ProductEditor`

Batch mode, for a new family. A save keeps the rows of its click and goes through
`FindGroup`, `InsertGroup` and one `CreateProduct` per row; the table stays editable,
and `actionLoading` is one flag that saves and uploads set and clear. A photo is
present or not, prices are valid, an SKU defaults to the option's name, the shared
photos are chosen before the table is filled in. Left out: editing one product, adding
a sibling, the category picker, text fields. `wanted` and `crossed` are histories.

## 3. Runs

`MCDispatch`, `MCWalletLedger` and `MCEmployeeWallet` add symmetry sets and
the amounts. Passing runs:

| Run | Question | Instance |
|---|---|---|
| `dispatch_race` | Do two workers, the answers of technicians, a superuser and a cancelling customer leave one wave, no offer of a taken job, no new offer of a cancelled one, and a status that follows the table of transitions, but for the writers that do not ask it? | 1 job, 2 technicians, 2 workers, 1 slow request, one day |
| `dispatch_twojobs` | Does a technician ever get a second active job, or read available with one, but for jobs that a late status write makes active again and acceptances that overtake a recomputation? | 2 jobs, 1 technician, 1 worker, 1 slow request (move, administrator, presence), a customer |
| `dispatch_live` | Does every offer end, every claim the sweep can see, every backoff, also if a worker is killed and the day ends? | 1 job, 2 technicians, 1 worker, 1 crash, 1 administrator's or no-show request at a time |
| `wallet_ledger` | Are refunds covered and payouts debited, does money move with payouts only, does each process credit a job once at most, does every credit go from held to released or clawed back only as it should, do holds end? | 1 job, 1 withdrawal, 2 processes on each side |
| `employee_wallet_audit` | Does the wallet implement the audited account; does money of a dead withdrawal come back; is the pending balance backed? | 2 payments, 2 withdrawals, 2 handlers |
| `session_tabs` | Does a session survive expiry, lost answers and several tabs until someone leaves it, and is it gone everywhere then? | 2 tabs, 1 user, two calls at once in one tab and one in the other, 2 moves of the user, 1 lost answer |
| `stream_live` | Is there one stream at most, does it always come back, and is an event missed for ever? | 3 events, 2 failures, 1 expiry, 3 toggles |
| `jobs_list` | Does an old answer undo what was confirmed, and does the list become the server's? | 2 jobs, 2 fetches at once, 1 move of the server, 2 acts of the technician, 1 loss |
| `preservice_gates` | Does work start only when somebody stands behind each of the job's three gates, and does it start when they are passed? | 2 jobs in a row, 2 calls at once, 1 loss, 3 submissions |
| `editor_family` | Is what the page reports as created what the rows said, and is an option lost or created twice? | 3 options (one taken elsewhere), 2 saves, 1 upload, 1 lost request, 1 edit |
| `orders_group` | Do stock, rider and group agree when requests of two sellers meet? | 2 orders, 3 pieces on hand with 1 reserved elsewhere, 2 jobs |
| `outbox_delivery` | Do both outboxes deliver at least once, and give up only after all their tries, when senders save old copies and die? | 2 events, their threads, 1 sweep, 2 tries, 1 crash |

Why the instances are large enough, and what they do not show:

- A race over one row needs two processes that hold an old copy and one that changes
  it meanwhile. `dispatch_race` has two workers, and the requests of technicians and
  the customer beside them; a third worker could only repeat what a second does. It
  has `WaveSize` 1 with two technicians, so that a second open offer is a violation.
  A superuser moves jobs to `confirmed`, which is against the table from every status
  but `draft` and `new_request` and makes an ended job one that dispatch takes up again.
  The no-show command and the administrator, who need the table, are in `dispatch_live`.
- `SameDay` (`dispatch_race`) leaves out what the end of the day adds: no more claims by
  the sweep. `InHours` (`dispatch_twojobs`) also leaves out what the end of a job's hours
  adds: no more claims at all. The theorems have neither bound.
- `MaxCrashes` is 1 in `dispatch_live`: a second crash has the effect of the first,
  later.
- `MaxPayouts` bounds the payouts of a request RazorpayX has yet to decide,
  `MaxRefunds` and `MaxClawbacks` the rows of a kind. With `MaxRefunds` 2 a second refund of a
  request, the thing to rule out, is possible. `MaxPayouts` 1 allows a second attempt
  after the first is decided, not two that are open at once; the theorems below have
  no such limit. In the ledger's run there is one job and one withdrawal: the sums in
  `Balance` and `WithdrawnToday` are over one element there, and no property speaks of
  the sums.
- `MaxAvailable` stops an administrator from crediting for ever.
- Amounts are small numbers. `employee_wallet_audit` has an adjustment smaller than a
  withdrawal, so that balances between zero and one withdrawal occur.
- `dispatch_twojobs`: two jobs are what a second active job needs; `on_hold` is a
  status in which a job counts as work though nobody travels or repairs, and which the
  list in the accept view itself (`MayAccept`) leaves out; the customer's cancellation
  is the step between the read and the write of a move. The one slow request is a move,
  an administrator's cancellation or a presence view; what two of them do to each other is covered by the theorems of
  section 4.
- `session_tabs`: two tabs and two calls in one of them give every way of sharing or
  not sharing a refresh; `MaxClock` 2 lets the access token expire once while the
  refresh token is good, and then that too. Two moves of the user beside the initial
  state (logged in or not) are a login and a logout, or a reload at any point of them.
  With one user no token can belong to someone else: that two accounts alternate in
  one browser is not explored.
- `stream_live`: three events can commit in an order other than that of their ids
  around a query; two failures and three toggles let a timer, a stray timer and a
  running `connect()` exist together.
- `jobs_list`: two fetches are what "superseded" needs; the second job is the one
  whose request forces the fetch that overtakes.
- `preservice_gates`: with two jobs the gates of the first can be shown for the second;
  three submissions pass the gates of one of them; two calls meet pairwise.
- `editor_family`: three options leave two in the table when one is refused, which
  is what a batch retry needs. The properties also hold with `MaxEdits` 2.
- `orders_group`: a second job is needed for a duplicate call of a rider. Three orders
  with `MaxJobs` 1 are too many states to exhaust; random simulation of 30 million
  states found no violation.
- `outbox_delivery`: the thread of an event and one sweep are two senders of one row,
  which is what saving an old copy needs. `MaxTries` is 2, not 5 or 10: one failure is
  retried and the second gives up, and the two senders can each make the last try. The
  theorems of section 4 hold for any number.
- `TypeOK` of `Dispatch`, `WalletLedger`, `EventStream`, `Session`, `ActiveJobs` and `ProductEditor` was
  checked in their instances and is proved (section 4), for which reason the cfgs of
  those runs leave it out: their other properties say more.
- Symmetry is used in the runs without liveness only.

Deadlock is checked in the dispatch and employee wallet runs, where some clock, sweep
or request is always enabled. It is not checked where the system may stop: a ledger
whose jobs are all settled and withdrawals decided, a group that is delivered, a page
that is closed, an outbox that is empty, or a run whose bounds are used up.

### Statements of the repository that do not hold

`Dispatch!RedispatchAfterCancel` and `Outbox!InOrder` fail without any race; the others
need requests that meet, a seller without a warehouse, or the end of a day. The definitions stay in the modules, so that each can be
checked by giving its constants and naming it in a cfg; TLC refutes every one.

| Definition | What the repository says | What happens | Instance |
|---|---|---|---|
| `Dispatch!RedispatchAfterCancel` | cancelling an assignment "triggers automatic redispatch" (`views.py:5343-5350`) | acceptance left the dispatch state `ASSIGNED`, which nothing resets: the dispatch called returns at once and the sweep skips the job for ever | 1 job, 2 technicians, 1 worker, `WaveSize` 1, no requests, `FairSpec` |
| `Outbox!InOrder` | "reliable, ordered, at-least-once" (`seller_order_outbox.py:5`, `models.py:5110`) | an event whose post failed waits for its retry, while the later events of its order are posted and heard first | `outbox_delivery`'s without the crash |
| `Dispatch!OneActiveJobAlways` | "Hard Single Active Job Rule" (`views.py:5156`) | a status write decided on before the customer cancelled makes the job active again; its technician had been released, and has accepted another | `dispatch_twojobs`'s |
| `Dispatch!ActiveReadsBusyAlways` | `reconcile_employee_availability` "authoritatively calculates and synchronizes" availability "based on active workload" (`workload.py:158`) | a presence view looks for an active job between a cancellation and the next acceptance, finds none, and saves `available` after the acceptance | `dispatch_twojobs`'s |
| `Dispatch!ClaimsEndAlways` | "Recovered stale claim" (`automatic_dispatch.py:1966`) | the sweep, which has to find the job again, passes over jobs without coordinates and of an earlier date (`automatic_dispatch.py:2425-2433`): a claim left before midnight stays | `dispatch_live`'s |
| `Dispatch!CompletedStays` | "Completed jobs cannot be cancelled." (`views.py:5936`) | a request that read the job before its completion writes `cancelled` over it | 1 job, 2 technicians, 1 worker, 2 handlers, `WaveSize` 1, `Requests` {move, admin}, progress in_progress, proof_submitted, completed |
| `Dispatch!DeclinedNeverReoffered` | a technician who declined "must NEVER receive it again" (`automatic_dispatch.py:1285`) | a worker whose claim had gone stale creates the wave it evaluated before the decline | 1 job, 1 technician, 2 workers, `WaveSize` 1 |
| `WalletLedger!ReleasedNeverChanges` | "the original entry is never mutated after release" (`commission.py:421`) | a clawback that read the entry while held overwrites it after its release | one of each |
| `WalletLedger!SuccessIsDebited` | debited when RazorpayX "has actually accepted the payout" (`payouts.py:224`) | a call that times out after the acceptance marks the request `FAILED`; it is then paid, and never debited | one of each |
| `EmployeeWallet!CompletedIsNotReturned` | `CANCELLED` is terminal, "only from REQUESTED" (`vendor_wallet/models.py:363`, `constants.py:60`) | the administrator's view checks an old copy and overwrites the cancellation; the withdrawal is completed, paid and returned | 1 payment, 1 withdrawal, 1 handler, `Amounts` and `Adjustments` {2} |
| `SellerOrders!DeductedOnce` | "Guarantees stock deduction happens exactly once during handover" (`models.py:4919`), "single idempotent stock deduction" (`views_seller_hub.py:4205`) | the pickup of one order reads its sibling; an administrator's override hands the sibling over and deducts; the pickup commits and deducts the sibling again | `orders_group`'s |
| `SellerOrders!GroupGoesOutAnywhere` | a cancellation "check[s] if remaining active siblings are now all READY_FOR_PICKUP and waiting for dispatch" (`views_seller_hub.py:3923`) | the seller left lost the warehouse after marking ready; the cancellation that makes the group complete creates no job (`views_seller_hub.py:3935`), and no later transition looks again | `orders_group`'s |
| `EventStream!OffIsOff` | the effect "Depends SOLELY on `enabled`" (`useRealtimeStream.js:375`) | a `connect()` under way keeps the `enabled` it closed over, and the next effect run sets `isMountedRef` again: it opens a stream after the disabling | 1 event, 1 failure, 1 expiry, 2 toggles |
| `PreService!StartsWithItsOwnGates` | "Cannot start work yet. Still required: location check-in, customer OTP, technician selfie" (`views.py:333-341`) | the dashboard shows the arrival of the last job for the next one and offers the code's form; the code's view makes the missing row with the arrival in it, and code and selfie then start the job | `preservice_gates`'s |
| `PreService!LastGateStarts` | "whichever gate finishes last is the one that starts the job" (`views.py:277`) | two submissions read the verification row before either saves it; the later save loses the other's gate and neither starts the job | 1 job, 2 calls, no loss, 2 submissions |
| `ActiveJobs!EventuallyCurrent` under `Spec` | "Guarantees job offers appear within ≤30s" (`EmployeeRuntimeProvider.jsx:447`) | a superseded fetch clears the reference of its successor (line 336), so that on a network slower than the poll every poll starts a fetch that supersedes the last, and none is ever shown | `jobs_list`'s with `Spec` |

`jobs_list` checks `EventuallyCurrent` under `QuickSpec`, which adds the
network quick enough that now and again a fetch ends before the next poll: an
assumption about the network, not about the code's scheduling.

The exceptions in `OneActiveJob`, `ActiveReadsBusy`, `StockMatches`, `RiderFindsAll`,
`GroupGoesOut`, `StartsWithItsGates`, `StartsWhenPassed` and `ClaimsEnd` are the same
facts from the other side. They name what goes wrong (a job made active by a late write,
an acceptance that overtook a recomputation, a row written from an outdated reading, two
transactions that met, a retry, a warehouse that was gone, a row made by the code's view,
two submissions that met, a job the sweep does not see), and the properties say that
nothing else does. Where a hazard is exactly such an exception, its entry in
`PROJECT.json` says so. In the same way
`StatusByTable` is what remains of `CompletedStays` (who may write a status against the
table: a superuser, a request with an older copy, and three writers that leave ended jobs
alone), `CreditLifecycle` what remains of `ReleasedNeverChanges` (only a clawback that
read the credit held), and `MoneyFollowsPayouts` is the direction of `SuccessIsDebited`
that holds: there may be a payout without a debit, never a debit without a payout.

### Seen while modelling

Kept here because they are the code as modelled, and a reader would otherwise take
them for mistakes of the model, or because they lie beside what is modelled. The
file names are abbreviated: DP is `EmployeeDashboardPage.jsx`, RT
`EmployeeRuntimeProvider.jsx`, PE `SellerProductEditorPage.jsx`.

- A 409 `EMPLOYEE_ALREADY_BUSY` is handled as an offer somebody else took (DP:1160).
- `refreshActiveJobs` keeps the user id of the first render (RT:271).
- Two buttons pass their click event where the handler expects a job (DP:3471, DP:3429).
- An automatic clock-in that was refused is not tried again (DP:513).
- The remaining time to cancel is computed from another job's `otp_verified` (DP:434).
- Verify-arrival writes a status it read earlier (`views.py:10025`), and the starter
  revives a job cancelled after it was read (`views.py:366`).
- Adding a sibling reads `data.id`, although the answer is `{message, product}` (PE:2630).
- After a partial failure the tags and rows differ in position, and removing a tag
  removes another option's row (PE:1611, PE:2298); the answer of a photo upload goes to
  the row now at its position (PE:1861); a row added during a save is dropped
  (PE:2298); a single refused row cannot be retried, as a batch needs two (PE:1941).
  `NoOptionLost` leaves out options entered while a save runs for this reason.
- A superuser's transition skips the table and its gates (`state_machine.py:102`, `108`)
  and needs no assignment (`views.py:3499`): it can reopen a completed job, which dispatch
  then offers again.
- `refreshProfile` without a token awaits nothing: it runs to its end, which clears the
  reference (`AuthProvider.jsx:161`), before its promise is stored there (line 59). The
  reference stays set, and unforced refreshes of that tab return the old promise until
  a forced one, which every login makes (`AuthProvider.jsx:242-272`), or a reload.
- The late end of a logout clears the user of a login made meanwhile (`AuthProvider.jsx:293`).
- A dispatch refuses a job that is completed or cancelled and no other
  (`automatic_dispatch.py:1852`, `automatic_dispatch.py:2126`), and writes `unassigned`
  without asking the table (`automatic_dispatch.py:2142`): a job nobody holds that reads
  accepted, in progress or unable to complete is sent out again.
- A delivery by override completes the job, so that a sibling that becomes ready later
  is linked to a job that is done. Cancelling counts siblings in `READY_FOR_PICKUP` and
  `ASSIGNED` as ready, marking ready counts those handed over and delivered too.

### Fairness

- `Dispatch!FairSpec`: `dispatch_pending_workforce_jobs --loop` runs a pass every few
  seconds under systemd with `Restart=always`, and `dispatch_worker` one every 30 s,
  so that a sweep that can pick, expire or reset does so in the end; a call that has
  started runs on unless its process is killed; clocks go on. Nobody has to answer an
  offer, accept, or bring a job further. The pass takes at most 50 jobs
  (`automatic_dispatch.py:2459`); weak fairness per job assumes that fewer wait.
- `WalletLedger!FairSpec`: `release_wallet_holds --loop` passes every 900 s
  (`--interval`), and the hold ends. Settlements, clawbacks and RazorpayX are under no
  obligation.
- `EmployeeWallet` has no liveness property: on PostgreSQL its release command is
  refused by Django (a `select_for_update` queryset evaluated outside a transaction,
  `release_wallet_settlements.py:119`), and so "earnings become available" is not true there.
- `Session`: requests and refreshes are answered, storage events and messages arrive,
  time passes, and a page makes a request again (pages poll). Logins, logouts,
  reloads and refreshes ahead of time are under no obligation.
- `EventStream`: requests are answered, timers fire, the server accepts a connection,
  queries, and ends every stream at its maximal age; what was sent arrives. Failures
  and expiries are bounded, which stands for "not for ever".
- `ActiveJobs`: fetches and requests end, the polls (intervals) and the debounce timer
  fire, the code after an `await` runs. `Quick` is strong fairness of the
  newest fetch's two steps, see above. Realtime events may be lost.
- `PreService`: requests are served and their answers handled, the poll and the
  refresh of the list happen. No technician has to try anything.
- `Outbox`: a sender that lives goes on (its POST has a timeout), retry times come, and
  the sweep runs. The webhooks' sweep is part of `dispatch_pending_workforce_jobs --loop`, kept up by
  systemd. The seller's is `process_seller_order_outbox --poll`, which the repository
  has but starts in no unit: where nobody starts it, an event whose first post fails is
  not posted again. A thread is under no obligation.
- `ProductEditor` and `SellerOrders` have safety properties only: a seller may leave,
  a group may wait for a seller who never packs.

## 4. Proofs

The theorems hold for any number of jobs, technicians, processes and withdrawals and
any amounts, for any number of orders and delivery jobs, of events, sweeps and
tries, of tabs, requests, fetches and options, given the named assumptions on the
constants (`DispatchAssumption`:
the set of technicians is finite, the wave size positive, ...;
`WalletLedgerAssumption`: amounts and rates are natural numbers, and finitely many
processes settle;
`SellerOrdersAssumption`: the pieces on hand exceed those reserved elsewhere; `OutboxAssumption`: there is at least one try, and
sweeps are not threads; `PreServiceAssumption`: there is a job;
`StreamAssumption`: the bounds are numbers;
`EmployeeWalletAssumption`: payments and withdrawals are finitely many, amounts
positive; `SessionAssumption`: every tab has a first slot, and "no user" and "no token"
are neither; that the bounds of `ActiveJobs` are numbers is needed for its types only,
and the assumption of `ProductEditor` not at all). TLC evaluates the assumptions in
every run.

`Dispatch_proofs`. `TakenJobHasNoOffer` and `OneWave` are about one row, but not
inductive without the type of what processes hold, nor without a bound on the waves
workers carry. `IInv` is: every row is `Sound` (typed, no offer if taken, one wave at
most), and every process holds something well formed, in particular a wave of at most
`WaveSize` technicians. Most statements are `Calm`: they add no offer and give the
job to nobody, and calm statements compose (`CalmChain`), keep rows sound
(`CalmKeepsSound`), and make no offer of a cancelled job. Two are not calm, the
acceptance (`SoundAccepted`) and the last phase of a dispatch (`SoundFinalised`), and
each leaves its row sound whatever it was before. `StepFollows` puts the actions
together; from it come `TypeCorrect`, `NoOfferOfTakenJobs`, `OneWaveAtMost` and, from
the same lemma, the action property `NoOfferOfCancelledJobs`.

In its second part, `OneActiveJob` and `ActiveReadsBusy` are inductive beside `IInv`.
Statements let a row rest if they make nobody active on it (`Rests`); rest composes
through healing, superseding and a dispatch inside a transaction, and only an
acceptance and a status write from a copy do not rest. The acceptance is excluded by
its own lookup, which finds an active job if there is one (`LookupFinds`); the write
adds its job to `resumed`. For `ActiveReadsBusy`, a step inside a transaction either
leaves availability alone or sets it from a lookup in the table it writes, healed rows
included (`ReconciledKeeps`). A recomputation in three statements saves what an earlier
table said, so a third part is needed, `NobodyFreed`: nobody who works is about to be
freed. A lookup finds whoever works, so it does not make such a request; after it, only an
acceptance gives somebody work, which `overtaken` remembers, or a late write, which `resumed`
does. `WorkInv` is the three together; from it come `OneActiveJobAtMost` and
`ActiveReadBusy`.

The third part is the safety behind `ClaimsEnd`. The sweep passes over a job that has an
open offer; a claim left by a dead process would stay for ever on a row that reads
`DISPATCHING` and is offered at the same time. `ClearOfOffers` says no row is: a claim is
made only where no offer is open (`ClearClaimed`), and the phase that opens a wave,
perhaps another worker's, takes the claim away (`ClearFinalised`). `StaleClaimsPicked`
concludes that the sweep picks every stale claim of the jobs its query returns
(`Pending`: dispatchable, held by nobody, with coordinates and a date that has not
passed). Of other jobs nothing is claimed (`ClaimsEndAlways`).

The fourth part is about statuses. `ByTable` names the writers that go against the
table, and the proof is that there are no others, in whatever combination a step makes
them: an acceptance heals rows, takes one, closes offers of others and dispatches them,
all in one transaction. A dispatch from inside `Finalize` writes a status on a row
nobody holds only (`FinalisedSends`), so do a dispatch inside another transaction and a
supersession, which begin with one (`DispatchSends`, `SupersededSends`), healing leaves
statuses alone (`HealedByTable`), and what is left of each step is one row
(`StepByTable`). A request may write over any status, but not any target: `Checked`,
which is inductive beside `IInv`, says that its target follows by the table from the status it read,
unless a superuser asked. `StatusFollowsTable` is the action property;
`FinalStatusStays` is what it means for an ended job: whatever runs late, only a
superuser's request, or one that read the job while it had not ended, takes it out of
completed or cancelled. That one which read an ended job does not follows from
`Checked`: the table allows nothing from there.

`WalletLedger_proofs`. `RefundsCovered` is not inductive: a repeated attempt starts
from a row it read earlier, and its debit could land on a row that was refunded
meanwhile. `IInv` adds what excludes that. `Covered`: a row no payout was recorded in is
untouched, `SUCCESS` needs an event, and otherwise refunds are covered, strictly while
`PROCESSING`. `ExecutorOK`: a first attempt has its id to itself, and a retry exists
only after credentials were added. `CallerOK` keeps the index of a clawback inside the
rows of its job, for `ClawedBackFinal`. From it come `TypeCorrect`, `RefundsAreCovered`,
`PayoutsAreDebited` and `ClawbacksAreFinal`.

The second part is about credits. Nothing prevents two settlements of one job from both
writing a credit, so the bound is on those who may still: `CreditedOncePerReader` counts
the credits with the processes that are settling the job, and it is inductive because a
process joins them only while there is no credit, and leaves them when it writes
(`Settlements`, `BoundKept`). `CreditSteps` takes each step of the ledger through the life
of a credit; from it come `CreditsAreBounded` and `CreditsLive`.

The third part relates the money of a request to what RazorpayX did. `TraceInv` is
inductive beside `IInv`: a process that holds an accepted payout holds one RazorpayX
still knows of (`AcceptedKept`, `PayoutsRemain`), a debit is recorded by such a process
only, and a refund by a webhook that told of a failure and only on a row that is linked
to a debit (`RowsMove`). `MoneyFollows` concludes it: for any number of executors,
crashes, timeouts and repeated events, the wallet is debited for payouts RazorpayX
accepted only, and given back only what was debited and has failed.

`SellerOrders_proofs`. `TypeOK` is inductive once it says that the job a row points
to exists (`Made`), also for rows as a transaction has seen them: jobs are created and
never go back to `"none"` (`Grow`).
`StockMatches` needs two more parts. Requests deduct when the row's flag says they
have not, so the flag has to agree with the status (`Deducted`); and an order that is
being marked ready or cancelled stays one with a reservation until the commit, since
nobody else may write its locked row (`Held`). The exception `stale` is what makes this inductive for the siblings:
they are compared at the commit, and one that differs is an order the
property no longer speaks of. `StockInv` is the three together.
`RiderFindsAll` and `GroupGoesOut` are proved with `Begun`: a transaction read its own
order in a status from which its kind may start, which still is the order's when it
commits without having met anybody. The argument is then about the last order: as long as
nothing met, no retry called a rider early, the marketplace revoked nothing and no
cancellation missed a warehouse, the
request that makes the group complete sees it complete and links all ready orders,
and an order that has a job belongs to a group in which nobody is still packing, so
a late `Ready` never finds a job of its siblings. `GroupInv` is the three together. From these come
`TypeCorrect`, `StockCorrect`, `RiderFindsAllCorrect` and `GroupGoesOutCorrect`.

`Outbox_proofs`. That an event is given up late is not inductive, since what decides
is the count in a copy. `RowsOK`, `CopiesOK` and `AnswersOK` bound the counts in rows,
in copies and in answers not yet saved by the posts that have failed: saving a copy
over a newer row can lower the count, never raise it above them. `CopiesOK` also says
that nobody has a copy without tries left before the event's thread has read the row,
which keeps the counts typed. `IInv` is the four together with `TypeOK`. From it come
`TypeCorrect`, `GivenUpLateCorrect` and `ImplementsAtLeastOnce`: every step is a
step of `AtLeastOnce` or a stutter. That the refinement also has the liveness of
`AtLeastOnce` is checked by the run only.

`EventStream_proofs`. Neither `OneSource` nor `Hushed` is inductive: what excludes a
second source is that `connect()` has closed the first one before it awaits, and that
one `connect()` runs at a time. `OneAttempt` says both, and `SourceInv` adds to it the
types of the variables the source depends on (`HookTyped`, without the event log,
which no step of the hook needs). `TypeCorrect` needs more than types: that the stray
timers are bounded is `FewStrays` (a refresh is awaited only while the token is
expired and the ref is empty, so each failure forgets at most one timer), and that
what the server sends stays a sequence of events of the log rests on the order of a
query being one of its rows (`OrderExists`). From these come `OneSourceCorrect`,
`HushedCorrect` and `TypeCorrect`.

Two more theorems are about the stream. `WayBackCorrect` is the safety behind
`Reconnects`: while the stream is enabled, mounted and has a token, something will open a
source again (`Way`: a source, the timer in the ref, a running `connect()` or a refresh
of `onerror`), so no failure leaves the hook with nothing; beside `SourceInv` it is
inductive. `HearsForwardCorrect` is about the id at which the next stream begins: an
event the stream tells of is always beyond the last one, so none is heard twice. It
needs `WireAhead`, that what was sent and not yet heard is in the order of its ids,
between that id and the server's cursor; the order is what the query's is
(`InOrderSorted`). Neither theorem says that nothing is skipped: an event that commits
after a later one is, and only the fetch after a reconnection shows it
(`NothingMissed`).

The last part is about `Session`, as an instance with variables of its own
(`Client`), whose assumption is the hypothesis `ClientBounds` of each statement.
`SessionKept` is not inductive: a request that was sent before anybody logged in could
be refused afterwards and take the new tokens with it. `Stays` excludes it: before the
first login there is no token, no user and no request at all (`Nobody`), from then
until a logout or the expiry of the refresh token both tokens are there
(`Everybody`), and while nobody has logged out no tab waits for a `LOGOUT_SYNC`. And
`CallsOK` says that a retry carries a token that is still good, so the server does not
refuse it. `SessionInv` is both with the types. From it come `SessionTypeCorrect` and
`SessionKeptCorrect`. `NobodyWaitsInVainCorrect` is the safety behind `GoneIsGone`: a
request in a tab waits for a token refresh only while one runs there, and in a tab that
shows a user `profiling` is set only while one of the two requests of a profile refresh
is under way (`Flows`). In a tab that shows nobody it may stay set, to a refresh that
found no token (section 3); the login that shows a user there forces a new one, which
is what makes `Flows` inductive.

`PreService_proofs`. `StartsWithItsGates` is an action property: a job begins to be
worked on in `EnsureStarted` only (`OnlyTheStarter`), which reads the row anew.
`GateInv` makes that enough: the verification row tells only of gates somebody stands
behind (`Vouched`: passed at the job or at one of the inspections it was made from, or the
arrival of a row the code's view made), `otp_verified` only of a code given at the
job itself (`ServerOK`), and so do the rows that requests carry between their reading
and their saving (`CallsOK`), which is why saving one over a newer one loses gates but
invents none. A copy of an inspection's row is vouched for since the inspection's
lineage is part of the job's. What the dashboard believes does not occur in it.
`TypeCorrect` adds `ClockOK`: `isClockingInRef` is set exactly while a start or its
reloads run.
`GatesAreKeptCorrect` is the other direction, and the safety behind `StartsWhenPassed`:
the row of a job has every gate the job passed (`NoneLost`), unless two submissions met
or an answer was lost or shown for another job. Its invariant `KeptInv` says that then one
request at a time has read the row of its job and has it as it is (`Fresh`), so what it
saves is the row with one gate more, and that a row that is not made is empty
(`RowsMade`), so that making it from an inspection's, or with the arrival, loses nothing.

Its last part is about `ActiveJobs`, again as an instance (`List`). `ToldStands` is an
action property about late answers: at most one of the fetches that run may still be
shown, the newest, and it is yet to be read or was read after everything the
technician was told (`NewestCurrent`), because each handler that tells something forces
a fetch. What was told is what the server holds (`TellsTruth`), and a job that was
told to be accepted is no offer on the screen and awaits no answer about its offer
(`AcceptedStays`). `JobsInv` is these with `Shaped`; it bounds nothing, so the theorem
`ToldStandsCorrect` holds for any number of fetches in flight. `Kept` adds the bounds,
the flags and `inFlight => newest`: whichever fetch ends clears the reference, and one
that supersedes sets it for itself. From it come `ListTypeCorrect` and
`JoinsTheNewestCorrect`, the safety behind `EventuallyCurrent`: the reference that makes
refreshes join and polls wait is never left set by a fetch that is not the newest.

`ProductEditor_proofs`. That the page tells the truth is about a loop of requests over
rows that are edited meanwhile. `Sound` says of each loop that every row behind it which
was not refused is a product as the loop asked for it (`Created`), that a loop which has
told its success has no other rows, and that what the seller wanted is a product or
still a row of the loop. `LoopsOK` is that for all saves. For `NoOptionLost` the rows
that were refused must reach the table again: `Kept` numbers them anew, and `Ranks`
shows that the numbering leaves none out. `GroupsOK` says that, unless saves met, one
loop runs at a time and the first row of it is sent while no group exists; `Single`,
that an option is in a group once. From these come `ToldFamilyCorrect`,
`NoOptionLostCorrect` and `OneFamilyCorrect`. `TypeCorrect` needs that no loop sends a row
before it has a group (`Housed`), since a product's type says that its group exists
(`Catalogue`).

`EmployeeWallet_proofs`. `OverIsReturned` is proved from `OverHasRow`, which says which
reversal each status comes with: the save of a view may put one status over the other,
but a status that ends the withdrawal is only ever written together with its own row.
`HandlersOK` says that a view acts on the withdrawal it read and that what a settlement
read is an amount. For `PendingIsBacked`, `MirrorsBacked`: on PostgreSQL no row ever
leaves the pending ledger (the release command is refused), so whatever balance a
settlement has read, however old, is within it and still is with the row it adds; on
SQLite the old reading is refused and balance and ledger move together. `WalletInv` is
all of them with `TypeOK`. From it come `TypeCorrect`, `OverIsReturnedAlways` and
`PendingBacked`.

The second part is the refinement of `AuditedAccount`. The ledger is a sum over the rows
of a set, and the one thing needed of it is that changing one row changes the sum by as
much (`NetSumChanges`). A sum over a finite set is a fold in an order of its own choice.
`NetSumIs` gives the function the fold computes, and `PickInduction`, an induction over
the subsets of the withdrawals (about a set of sets instead of a predicate, and so
within reach), carries the change from the row to the sum. Then each action is shown
to conform: it moves the balance by what it posts and leaves it above zero (`Audited`,
one lemma per service), where a withdrawal not yet requested has posted nothing
(`Unrequested`). `AuditInv` is `WalletInv` with that and `Solvent`. From it come
`AvailableAudited`, which names the abstract specification itself, since it has no
fairness, and its consequence `BalanceIsLedger`.

All the inductive invariants were checked with TLC before they were proved.

Only model-checked: the liveness properties, since fairness and ENABLED are outside what
the provers do (`OffersEnd`, `ClaimsEnd` and `RetriesHappen` of `Dispatch`, `HoldsEnd`
of `WalletLedger`, `GoneIsGone` of `Session`, `Reconnects` and `NothingMissed` of
`EventStream`, `EventuallyCurrent` of `ActiveJobs`, `StartsWhenPassed` of `PreService`,
and the liveness half of `DeliversAtLeastOnce`). Theorems prove the safety that most
of them rest on, that nothing is ever left in a state from which no step leads on:
`StaleClaimsPicked` (`ClaimsEnd`), `CreditsLive` (`HoldsEnd`), `NobodyWaitsInVainCorrect`
(`GoneIsGone`), `WayBackCorrect` (`Reconnects` and, with the fetch that follows a
reconnection, `NothingMissed`), `JoinsTheNewestCorrect` (`EventuallyCurrent`) and
`GatesAreKeptCorrect` (`StartsWhenPassed`). That the steps which remain are taken is
what the runs show. `RetriesHappen` has no such theorem: two workers can leave a job that
waits for its retry with an offer open, which the sweep takes up only when the offer has
ended, and that it ends is `OffersEnd`, liveness again.

The other way round, these theorems (but for `CreditsLive`), `FinalStatusStays`, `HearsForwardCorrect`,
`ClawbacksAreFinal` and `BalanceIsLedger` state what no cfg lists, since
a run asks one question and they came with the proofs. Each was model-checked in
the instance of its module's run before it was proved.

## 5. Plan

1. **Core, done.** `ServiceRequestStates`, `Dispatch`, `WalletLedger`,
   `AuditedAccount`, `EmployeeWallet`, their runs and their proofs, the refinement of
   `AuditedAccount` included.
2. **Client and seller orders, done.** `Session`, `EventStream`, `ActiveJobs`,
   `PreService`, `ProductEditor`, `SellerOrders` and `Outbox`, and their proofs.
3. **Safety behind the liveness, done** for what section 4 lists. Not stated: that
   nothing stops an offer from expiring (`OffersEnd`) and a row from being posted again
   (`DeliversAtLeastOnce`).
4. **Model more of the server.** `CashReconciliation` (cash collected, deposits and
   their approval, the daily comparison) beside `WalletLedger`; `Quotation` (revisions,
   approval by the customer against a new revision by the technician) on
   `ServiceRequestStates`; `TimeTracking` (shifts, breaks, automatic clock-out);
   `Reservations` (stock of service parts held, released on expiry, consumed); the
   lock order of dispatch, acceptance and cancellation, for deadlock. Of the client, the catalogue page's fetches.
