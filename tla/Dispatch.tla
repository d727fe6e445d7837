------------------------------ MODULE Dispatch ------------------------------
(***************************************************************************)
(* Automatic dispatch of a job to technicians: the two-phase claim of      *)
(* automatic_dispatch.dispatch_job run by several workers, the sweep that  *)
(* expires offers and recovers stuck waves, and the technician, customer   *)
(* and administrator requests that race with them.                         *)
(*                                                                         *)
(* job[j] gathers the rows a job owns: its ServiceRequest (status,         *)
(* assigned, window, located), its latest WorkforceJobOffer per technician *)
(* (offer, live), its WorkforceDispatchState (dstate, fresh, due) and its  *)
(* EmployeeJob rows (empJob).  Clocks are three flags an environment step  *)
(* turns over: live (expires_at of the current wave is ahead), fresh       *)
(* (locked_at is under 120 s old), due (retry_at has come, or is null).    *)
(***************************************************************************)
EXTENDS ServiceRequestStates, FiniteSets, Naturals

CONSTANTS
    Jobs,             \* ServiceRequest rows
    Emps,             \* technicians, all online, of one company
    Workers,          \* processes that call dispatch_job
    Handlers,         \* processes that serve requests without a row lock
    WaveSize,         \* get_wave_size: the most technicians one wave reaches
    ProgressStatuses, \* statuses that technicians and superusers move jobs to
    LogisticsJobs,    \* jobs of a logistics category
    Requests,         \* requests met besides the answers of technicians to offers
    MaxCrashes,       \* bound: worker processes killed in a behaviour
    None              \* a null foreign key

ASSUME DispatchAssumption ==
    /\ IsFiniteSet(Emps)
    /\ WaveSize \in Nat \ {0}
    /\ ProgressStatuses \subseteq JobStatuses
    /\ LogisticsJobs \subseteq Jobs
    /\ Requests \subseteq {"move", "customer", "sync", "admin", "noshow",
                      "superuser", "presence"}
    /\ MaxCrashes \in Nat
    /\ None \notin Emps \cup Jobs

VARIABLES
    job,      \* [Jobs -> JobRow]
    avail,    \* Employee.current_availability
    worker,   \* what each dispatching process holds between its transactions
    sweeper,  \* expire_and_reassign_offers between two of its statements
    request,  \* the copy of a job each such process works on
    crashes,
    resumed,  \* history: jobs that a status write, not an acceptance, made active
    overtaken \* history: technicians whose acceptance committed after a request had
              \* looked for their active job in vain and before it saves the result

vars == <<job, avail, worker, sweeper, request, crashes, resumed, overtaken>>

OfferStatus == {"none", "OFFERED", "ACCEPTED", "REJECTED", "EXPIRED",
                "SUPERSEDED_BY_ACCEPTANCE", "CANCELLED"}
\* Offers that bar their technician from another offer of the same job.
Excluding == {"OFFERED", "ACCEPTED", "REJECTED", "EXPIRED", "CANCELLED"}

DispatchStatus == {"NONE", "NEVER_ATTEMPTED", "DISPATCHING", "RETRY_SCHEDULED",
                   "OFFER_ACTIVE", "ASSIGNED", "CANCELLED", "COMPLETED",
                   "EXPIRED"}

JobRow == [ status   : JobStatuses,
            assigned : Emps \cup {None},
            window   : {"future", "open", "closed", "past"},
            located  : BOOLEAN,       \* has coordinates
            offer    : [Emps -> OfferStatus],
            live     : BOOLEAN,
            dstate   : DispatchStatus,
            fresh    : BOOLEAN,
            due      : BOOLEAN,
            empJob   : [Emps -> JobStatuses \cup {"none", "employee_cancelled"}],
            declined : SUBSET Emps,   \* EMPLOYEE_JOB_DECLINED events
            spent    : SUBSET Emps ]  \* older rows with an Excluding status

IdleWorker == [pc |-> "idle", job |-> None, wave |-> {}]
IdleSweeper == [pc |-> "idle", job |-> None]
NoRequest == [kind |-> "none", job |-> None, read |-> "draft", target |-> "draft",
              assigned |-> None]

\* A request that writes a status, and what it then does about its technician:
\* from the status write to the read of the Employee row, to the lookup of
\* the active job, and to the save of what the lookup asks for.
Moving == {"move", "admin", "noshow", "superuser"}
Reconciling == {"reconcile", "readsFree", "readsBusy", "frees", "occupies"}

TypeOK ==
    /\ job \in [Jobs -> JobRow]
    /\ avail \in [Emps -> {"available", "busy"}]
    /\ worker \in [Workers -> [pc : {"idle", "claimed", "evaluated", "expiring"},
                               job : Jobs \cup {None},
                               wave : SUBSET Emps]]
    /\ sweeper \in [pc : {"idle", "listed", "decided"}, job : Jobs \cup {None}]
    /\ request \in [Handlers -> [kind : {"none"} \cup Moving \cup Reconciling,
                                 job : Jobs \cup {None}, read : JobStatuses,
                                 target : JobStatuses,
                                 assigned : Emps \cup {None}]]
    /\ crashes \in 0..MaxCrashes
    /\ resumed \subseteq Jobs /\ overtaken \subseteq Emps

NewJob(located) ==
          [ status |-> "confirmed", assigned |-> None, window |-> "future",
            located |-> located,
            offer |-> [e \in Emps |-> "none"], live |-> FALSE,
            dstate |-> "NONE", fresh |-> FALSE, due |-> TRUE,
            empJob |-> [e \in Emps |-> "none"], declined |-> {}, spent |-> {} ]

Init ==
    /\ job \in [Jobs -> {NewJob(TRUE), NewJob(FALSE)}]
    /\ avail = [e \in Emps |-> "available"]
    /\ worker = [w \in Workers |-> IdleWorker]
    /\ sweeper = IdleSweeper
    /\ request = [h \in Handlers |-> NoRequest]
    /\ crashes = 0 /\ resumed = {} /\ overtaken = {}

-----------------------------------------------------------------------------
(***************************************************************************)
(* What one statement does to the rows of a job.                           *)
(***************************************************************************)

Offered(r) == {e \in Emps : r.offer[e] = "OFFERED"}
OpenOffers(r) == IF r.live THEN Offered(r) ELSE {}

\* Every OFFERED row of the technicians in S gets status s.
CloseOffers(r, S, s) ==
    [r EXCEPT !.offer = [e \in Emps |->
                 IF e \in S /\ @[e] = "OFFERED" THEN s ELSE @[e]],
              !.live = @ /\ ~ Offered(r) \subseteq S]

\* UPDATE of the dispatch state, which needs the row to exist; retry_at and
\* locked_at become null.
SetState(r, s) ==
    IF r.dstate = "NONE" THEN r
    ELSE [r EXCEPT !.dstate = s, !.fresh = FALSE, !.due = TRUE]

\* The reset to NEVER_ATTEMPTED leaves retry_at alone; only a scheduled retry
\* looks at it.
ResetState(r) ==
    IF r.dstate = "NONE" THEN r
    ELSE [r EXCEPT !.dstate = "NEVER_ATTEMPTED", !.fresh = FALSE, !.due = TRUE]

\* What apply_transition writes on rows r: the status, then the status of every EmployeeJob
\* of the job, whoever it belongs to; a closing status also closes the dispatch
\* state, in ServiceRequest.save.
Moved(r, target) ==
    LET synced == IF target = "redispatching" THEN "employee_cancelled" ELSE target
        moved == [r EXCEPT
                   !.status = target,
                   !.empJob = [e \in Emps |->
                                 IF @[e] = "none" THEN "none" ELSE synced]]
    IN IF target \in ClosingStatuses
       THEN SetState(moved, IF target = "completed" THEN "COMPLETED"
                                                    ELSE "CANCELLED")
       ELSE moved

\* The status read is the status written over: the caller holds the row lock.
ApplyTransition(r, target) == IF r.status = target THEN r ELSE Moved(r, target)

-----------------------------------------------------------------------------
(***************************************************************************)
(* The three phases of dispatch_job, as functions of the rows they read.   *)
(***************************************************************************)

Underway(r) ==
    /\ r.status \in {"accepted", "on_the_way", "arrived", "in_progress"}
    /\ r.assigned # None

\* Phase 1 first marks a job without coordinates unassigned, or fails where the
\* table forbids it.
Unplaceable(r) == ~ r.located /\ ~ CanTransition(r.status, "unassigned")

Unplaced(r) ==
    IF r.located \/ Unplaceable(r) THEN r ELSE ApplyTransition(r, "unassigned")

\* Mutant: a claim never grows stale.
ClaimableUnlessClaimed(r, force) ==
    /\ r.status \notin {"completed", "cancelled"}
    /\ ~ Underway(r)
    /\ r.window = "open"
    /\ OpenOffers(r) = {} /\ ~ Unplaceable(r)
    /\ r.dstate \notin {"DISPATCHING", "ASSIGNED", "COMPLETED", "CANCELLED"}
    /\ r.dstate = "EXPIRED" => force
    /\ r.dstate = "RETRY_SCHEDULED" => force \/ r.due

\* Mutant: only a forced call passes a scheduled retry.
ClaimableUnlessRetry(r, force) ==
    ClaimableUnlessClaimed(r, force) /\ (r.dstate = "RETRY_SCHEDULED" => force)

\* Phase 1 reaches its claim.
Claimable(r, force) ==
    /\ r.status \notin {"completed", "cancelled"}
    /\ ~ Underway(r)
    /\ r.window = "open"
    /\ OpenOffers(r) = {} /\ ~ Unplaceable(r)
    /\ ~ (r.dstate = "DISPATCHING" /\ r.fresh)
    /\ r.dstate \notin {"ASSIGNED", "COMPLETED", "CANCELLED"}
    /\ r.dstate = "EXPIRED" => force
    /\ r.dstate = "RETRY_SCHEDULED" => force \/ r.due

Claimed(r) ==
    [Unplaced(r) EXCEPT !.dstate = "DISPATCHING", !.fresh = TRUE, !.due = TRUE]

\* Phase 1 returns early: the dispatch state is brought in line with the job.
TurnedAway(r) ==
    IF r.status = "completed" THEN SetState(r, "COMPLETED")
    ELSE IF r.status = "cancelled" THEN SetState(r, "CANCELLED")
    ELSE IF Underway(r) THEN SetState(r, "ASSIGNED")
    ELSE IF r.window = "future" THEN r
    ELSE IF r.window \in {"closed", "past"} THEN SetState(r, "EXPIRED")
    ELSE IF OpenOffers(r) # {} THEN SetState(r, "OFFER_ACTIVE")
    ELSE Unplaced(r)

\* Phase 2: the gates that look at a technician (skills, documents, GPS, cash)
\* are outside the model, so any technicians without history of this job may
\* rank first.  Nobody is near a job without coordinates.
Waves(r, excluded) ==
    LET candidates == {e \in Emps \ excluded :
                         /\ r.located
                         /\ e \notin r.declined \cup r.spent
                         /\ r.offer[e] \notin Excluding}
    IN {wave \in SUBSET candidates : Cardinality(wave) <= WaveSize}

RetryLater(r) ==
    [r EXCEPT !.dstate = "RETRY_SCHEDULED", !.fresh = FALSE, !.due = FALSE]

\* Mutant: the offers of an earlier wave are left open.
NewWaveKeepsOffers(r, wave) ==
    ApplyTransition([r EXCEPT
        !.offer = [e \in Emps |-> IF e \in wave THEN "OFFERED" ELSE @[e]],
        !.live = TRUE, !.dstate = "OFFER_ACTIVE", !.fresh = FALSE, !.due = TRUE],
        "unassigned")

NewWave(r, wave) ==
    LET swept == CloseOffers(r, Emps, "EXPIRED")
        offered ==
          [swept EXCEPT
            !.offer = [e \in Emps |-> IF e \in wave THEN "OFFERED" ELSE @[e]],
            !.spent = @ \cup {e \in wave : swept.offer[e] \in Excluding},
            !.live = TRUE, !.dstate = "OFFER_ACTIVE", !.fresh = FALSE,
            !.due = TRUE]
    IN IF r.status \in {"draft", "new_request", "confirmed", "requested",
                        "received", "searching"}
       THEN IF CanTransition(r.status, "unassigned")
            THEN ApplyTransition(offered, "unassigned") ELSE r
       ELSE offered

\* Mutant: the job is not looked at again after the evaluation.
FinalisedUnchecked(r, wave) ==
    IF r.assigned # None THEN SetState(r, "ASSIGNED")
    ELSE IF wave = {} THEN RetryLater([r EXCEPT !.status = "unassigned"])
    ELSE NewWave(r, wave)

\* Phase 3, under the locks of the dispatch state and of the job.
Finalised(r, wave) ==
    IF r.status \in {"completed", "cancelled"}
    THEN SetState(r, IF r.status = "completed" THEN "COMPLETED" ELSE "CANCELLED")
    ELSE IF r.assigned # None THEN SetState(r, "ASSIGNED")
    ELSE IF wave = {} THEN RetryLater([r EXCEPT !.status = "unassigned"])
    ELSE NewWave(r, wave)

\* dispatch_job called inside another transaction: all three phases on the rows
\* that transaction has already changed.
DispatchOutcomes(r, excluded) ==
    IF ~ Claimable(r, FALSE) THEN {TurnedAway(r)}
    ELSE {Finalised(Claimed(r), wave) : wave \in Waves(r, excluded)}

\* A caller that swallows its exceptions also keeps the retry they schedule.
DispatchOrRetry(r, excluded) ==
    DispatchOutcomes(r, excluded)
      \cup (IF Claimable(r, FALSE) THEN {RetryLater(Claimed(r))} ELSE {})

-----------------------------------------------------------------------------
(***************************************************************************)
(* Workload: get_employee_active_job and reconcile_employee_availability   *)
(* on the table of jobs f.  The fallback on EmployeeJob looks at one row   *)
(* of an unordered query, so every row it could be is an answer; a row of  *)
(* a closed job it stumbles on is healed.                                  *)
(***************************************************************************)

\* The jobs the lookup may end on, None when no row matches.
Seen(f, e) ==
    LET occupied == {j \in Jobs : f[j].assigned = e /\ f[j].status \in WorkloadOccupied}
        rows == {j \in Jobs : f[j].empJob[e] \in ActiveEmployeeJob}
    IN IF occupied # {} THEN occupied ELSE IF rows # {} THEN rows ELSE {None}

\* Mutant: an inspection that waits for its quotation does not count as work.
IsActiveOnSite(f, j) ==
    j # None /\ f[j].status \in {"accepted", "on_the_way", "arrived", "in_progress"}

IsActive(f, j) == j # None /\ f[j].status \in WorkloadOccupied

\* The lookups that ended on the jobs in K leave this table.
Healed(f, K) ==
    [j \in Jobs |->
        IF j \in K /\ f[j].status \in ClosingStatuses
        THEN [f[j] EXCEPT !.empJob = [e \in Emps |->
                 IF @[e] = "none" THEN "none" ELSE f[j].status]]
        ELSE f[j]]

\* One lookup for each technician in S.
Lookups(f, S) == {seen \in [S -> Jobs \cup {None}] : \A e \in S : seen[e] \in Seen(f, e)}

\* reconcile_employee_availability of the technicians looked up, inside the
\* transaction of the caller; the others keep their availability.
Availability(f, seen) ==
    [e \in Emps |-> IF e \notin DOMAIN seen THEN avail[e]
                    ELSE IF IsActive(f, seen[e]) THEN "busy" ELSE "available"]

HealedBy(f, seen) == Healed(f, {seen[e] : e \in DOMAIN seen})

-----------------------------------------------------------------------------
(***************************************************************************)
(* Dispatching workers.                                                    *)
(***************************************************************************)

\* Phase 1, for any caller: the sweep, a view, the commit hook of a rejection
\* (which forces past the backoff; the technician it excludes has just been
\* recorded as declining).
Claim(w, j, force) ==
    /\ worker[w].pc = "idle"
    /\ Claimable(job[j], force)
    /\ job' = [job EXCEPT ![j] = Claimed(@)]
    /\ worker' = [worker EXCEPT ![w] = [IdleWorker EXCEPT !.pc = "claimed", !.job = j]]
    /\ UNCHANGED <<avail, sweeper, request, crashes, resumed, overtaken>>

TurnAway(w, j, force) ==
    /\ worker[w].pc = "idle"
    /\ ~ Claimable(job[j], force)
    /\ job' = [job EXCEPT ![j] = TurnedAway(@)]
    /\ UNCHANGED <<avail, worker, sweeper, request, crashes, resumed, overtaken>>

\* Phase 2 reads the offers of the job without a lock.
Evaluate(w) ==
    /\ worker[w].pc = "claimed"
    /\ \E wave \in Waves(job[worker[w].job], {}) :
          worker' = [worker EXCEPT ![w].pc = "evaluated", ![w].wave = wave]
    /\ UNCHANGED <<job, avail, sweeper, request, crashes, resumed, overtaken>>

\* Phase 2 raises: a retry is scheduled if the job still reads DISPATCHING.
EvaluateFails(w) ==
    /\ worker[w].pc = "claimed"
    /\ LET j == worker[w].job
       IN job' = [job EXCEPT ![j] = IF @.dstate = "DISPATCHING" THEN RetryLater(@) ELSE @]
    /\ worker' = [worker EXCEPT ![w] = IdleWorker]
    /\ UNCHANGED <<avail, sweeper, request, crashes, resumed, overtaken>>

Finalize(w) ==
    /\ worker[w].pc = "evaluated"
    /\ job' = [job EXCEPT ![worker[w].job] = Finalised(@, worker[w].wave)]
    /\ worker' = [worker EXCEPT ![w] = IdleWorker]
    /\ UNCHANGED <<avail, sweeper, request, crashes, resumed, overtaken>>

\* The process dies between its transactions; its claim stays on the row.
Crash(w) ==
    /\ worker[w].pc # "idle"
    /\ crashes < MaxCrashes
    /\ crashes' = crashes + 1
    /\ worker' = [worker EXCEPT ![w] = IdleWorker]
    /\ UNCHANGED <<job, avail, sweeper, request, resumed, overtaken>>

-----------------------------------------------------------------------------
(***************************************************************************)
(* expire_and_reassign_offers.                                             *)
(***************************************************************************)

\* Mutant: only the offers of the wave the dispatch state knows of are swept.
ExpireOfferOfWave(j, e) ==
    /\ job[j].offer[e] = "OFFERED" /\ ~ job[j].live
    /\ job[j].dstate = "OFFER_ACTIVE"
    /\ job' = [job EXCEPT ![j] = ResetState(CloseOffers(@, {e}, "EXPIRED"))]
    /\ UNCHANGED <<avail, worker, sweeper, request, crashes, resumed, overtaken>>

\* One transaction per offer that has expired or whose job is past its date: the
\* row is locked and read again, and the job's dispatch state is reset when no
\* open offer is left.
ExpireOffer(j, e) ==
    /\ job[j].offer[e] = "OFFERED"
    /\ ~ job[j].live \/ job[j].window = "past"
    /\ LET r == CloseOffers(job[j], {e}, "EXPIRED")
       IN job' = [job EXCEPT ![j] = IF OpenOffers(r) = {} THEN ResetState(r) ELSE r]
    /\ UNCHANGED <<avail, worker, sweeper, request, crashes, resumed, overtaken>>

\* Recovery of stuck waves: the jobs in OFFER_ACTIVE are listed, then each is
\* checked for open offers, then its state is reset, in three statements.
SweepLists(j) ==
    /\ sweeper.pc = "idle"
    /\ job[j].dstate = "OFFER_ACTIVE"
    /\ sweeper' = [pc |-> "listed", job |-> j]
    /\ UNCHANGED <<job, avail, worker, request, crashes, resumed, overtaken>>

SweepChecks ==
    /\ sweeper.pc = "listed"
    /\ sweeper' = IF OpenOffers(job[sweeper.job]) = {}
                  THEN [sweeper EXCEPT !.pc = "decided"] ELSE IdleSweeper
    /\ UNCHANGED <<job, avail, worker, request, crashes, resumed, overtaken>>

SweepResets ==
    /\ sweeper.pc = "decided"
    /\ job' = [job EXCEPT ![sweeper.job] = ResetState(@)]
    /\ sweeper' = IdleSweeper
    /\ UNCHANGED <<avail, worker, request, crashes, resumed, overtaken>>

-----------------------------------------------------------------------------
(***************************************************************************)
(* dispatch_pending_jobs, with the calls of dispatch_job it makes.         *)
(***************************************************************************)

\* Its query: jobs with coordinates whose date has not passed, ...
Pending(r) ==
    r.status \in Dispatchable /\ r.assigned = None /\ r.located /\ r.window # "past"

\* ... but those whose dispatch state or open offers leave nothing to do.
SweepPicks(r) ==
    /\ Pending(r)
    /\ r.dstate \notin {"OFFER_ACTIVE", "ASSIGNED", "CANCELLED", "COMPLETED", "EXPIRED"}
    /\ ~ (r.dstate = "DISPATCHING" /\ r.fresh)
    /\ OpenOffers(r) = {}

\* A job found after its window closed is marked expired in a later statement,
\* whatever has become of it.
SweepFinds(w, j) ==
    /\ worker[w].pc = "idle"
    /\ SweepPicks(job[j]) /\ job[j].window = "closed"
    /\ worker' = [worker EXCEPT ![w] = [IdleWorker EXCEPT !.pc = "expiring", !.job = j]]
    /\ UNCHANGED <<job, avail, sweeper, request, crashes, resumed, overtaken>>

MarksExpired(w) ==
    /\ worker[w].pc = "expiring"
    /\ job' = [job EXCEPT ![worker[w].job] = SetState(@, "EXPIRED")]
    /\ worker' = [worker EXCEPT ![w] = IdleWorker]
    /\ UNCHANGED <<avail, sweeper, request, crashes, resumed, overtaken>>

\* A job held for its window or its retry is left alone.
SweepDispatches(w, j) ==
    \/ SweepFinds(w, j)
    \/ /\ SweepPicks(job[j]) /\ job[j].window = "open"
       /\ job[j].dstate = "RETRY_SCHEDULED" => job[j].due
       /\ Claim(w, j, FALSE)

-----------------------------------------------------------------------------
(***************************************************************************)
(* Requests of a technician.                                               *)
(***************************************************************************)

\* The checks of WorkforceJobAcceptOfferView that come before the clock is read
\* for the second time.
MayAccept(e, j) ==
    LET r == job[j]
    IN /\ ~ (r.assigned = e /\ r.status \in ActiveWorkload)
       /\ ~ (/\ r.assigned \notin {None, e}
             /\ r.status \in {"accepted", "on_the_way", "arrived",
                              "in_progress", "completed"})
       /\ r.window = "open"
       /\ r.offer[e] \notin {"REJECTED", "SUPERSEDED_BY_ACCEPTANCE"}
       /\ r.offer[e] = "OFFERED" => r.live
       /\ r.offer[e] = "OFFERED" \/ r.empJob[e] # "none" \/ r.assigned = e
       /\ \A k \in Jobs \ {j} :
            ~ (/\ job[k].assigned = e
               /\ job[k].status \in {"accepted", "on_the_way", "en_route", "arrived",
                                     "service_started", "in_progress",
                                     "proof_submitted"})

\* Mutant: the other technicians' offers stay open.
AcceptedAlone(r, e) ==
    LET won == [r EXCEPT !.offer[e] = IF @ = "OFFERED" THEN "ACCEPTED" ELSE @,
                         !.assigned = e]
    IN [SetState(ApplyTransition(won, "accepted"), "ASSIGNED")
          EXCEPT !.empJob[e] = "accepted"]

\* The accepted job: offer, assignment, status, dispatch state, the other
\* technicians' offers, and the winner's EmployeeJob.
Accepted(r, e) ==
    LET won == [r EXCEPT !.offer[e] = IF @ = "OFFERED" THEN "ACCEPTED" ELSE @,
                         !.assigned = e]
        closed == CloseOffers(SetState(ApplyTransition(won, "accepted"), "ASSIGNED"),
                              Emps \ {e}, "SUPERSEDED_BY_ACCEPTANCE")
    IN [closed EXCEPT !.empJob[e] = "accepted"]

\* The winner's offers of other jobs are superseded, and a job left without an
\* open offer is dispatched again in the same transaction.
Superseded(r, e) ==
    IF r.offer[e] # "OFFERED" THEN {r}
    ELSE LET rest == CloseOffers(r, {e}, "SUPERSEDED_BY_ACCEPTANCE")
         IN IF OpenOffers(rest) # {} THEN {rest}
            ELSE DispatchOrRetry(ResetState(rest), {})

\* Mutant: the technician is not marked busy.
AcceptUnmarked(e, j) ==
    /\ MayAccept(e, j)
    /\ CanTransition(job[j].status, "accepted")
    /\ job' = [k \in Jobs |-> IF k = j THEN Accepted(job[k], e)
                              ELSE CloseOffers(job[k], {e}, "SUPERSEDED_BY_ACCEPTANCE")]
    /\ UNCHANGED <<avail, worker, sweeper, request, crashes, resumed, overtaken>>

\* A request has found e without an active job and has yet to save that.
Frees(h, e) == request[h].kind = "frees" /\ request[h].assigned = e

\* get_employee_active_job ends on nothing that is active but j.
Accept(e, j) ==
    /\ MayAccept(e, j)
    /\ CanTransition(job[j].status, "accepted")
    /\ \E seen \in Lookups(job, {e}) :
          /\ ~ IsActive(job, seen[e]) \/ seen[e] = j
          /\ LET table == HealedBy(job, seen)
                 rest(k) == IF k = j THEN {Accepted(table[j], e)} ELSE Superseded(table[k], e)
             IN \E rows \in [Jobs -> UNION {rest(k) : k \in Jobs}] :
                   /\ \A k \in Jobs : rows[k] \in rest(k)
                   /\ job' = rows
    /\ avail' = [avail EXCEPT ![e] = "busy"]
    /\ overtaken' = IF \E h \in Handlers : Frees(h, e)
                    THEN overtaken \cup {e} ELSE overtaken \ {e}
    /\ UNCHANGED <<worker, sweeper, request, crashes, resumed>>

\* The offer runs out between the two clock readings of the view.
AcceptTooLate(e, j) ==
    /\ MayAccept(e, j)
    /\ job[j].offer[e] = "OFFERED"
    /\ \E seen \in Lookups(job, {e}) :
          /\ ~ IsActive(job, seen[e]) \/ seen[e] = j
          /\ LET table == HealedBy(job, seen)
                 late == CloseOffers([table[j] EXCEPT !.live = FALSE], {e}, "EXPIRED")
             IN \E row \in DispatchOutcomes(late, {}) : job' = [table EXCEPT ![j] = row]
    /\ UNCHANGED <<avail, worker, sweeper, request, crashes, resumed, overtaken>>

\* WorkforceJobRejectOfferView; the dispatch it hooks to its commit is a Claim.
Reject(e, j) ==
    /\ job[j].offer[e] = "OFFERED" /\ job[j].live
    /\ LET r == CloseOffers(job[j], {e}, "REJECTED")
           released == IF OpenOffers(r) = {} THEN ResetState(r) ELSE r
       IN job' = [job EXCEPT ![j] =
                   [released EXCEPT
                     !.declined = @ \cup {e},
                     !.assigned = IF @ = e THEN None ELSE @,
                     !.empJob[e] = IF @ = "completed" THEN @ ELSE "none"]]
    /\ UNCHANGED <<avail, worker, sweeper, request, crashes, resumed, overtaken>>

RejectTooLate(e, j) ==
    /\ job[j].offer[e] = "OFFERED" /\ ~ job[j].live
    /\ job' = [job EXCEPT ![j] = CloseOffers(@, {e}, "EXPIRED")]
    /\ UNCHANGED <<avail, worker, sweeper, request, crashes, resumed, overtaken>>

\* The technician is assigned, directly or through an EmployeeJob row.
HoldsAssignment(e, j) ==
    \/ job[j].assigned = e
    \/ job[j].empJob[e] \notin {"none", "cancelled", "employee_cancelled"}

\* WorkforceJobCancelAssignmentView, which dispatches inside its transaction.
CancelAssignment(e, j) ==
    /\ HoldsAssignment(e, j)
    /\ job[j].status \in {"accepted", "on_the_way"}
    /\ LET left == ApplyTransition([job[j] EXCEPT !.assigned = None], "redispatching")
           closed == [left EXCEPT !.offer[e] = IF @ = "ACCEPTED" THEN "CANCELLED" ELSE @]
           table == [job EXCEPT ![j] = closed]
       IN \E seen \in Lookups(table, {e}) :
             /\ avail' = Availability(table, seen)
             /\ \E row \in DispatchOutcomes(closed, {e}) :
                   job' = [HealedBy(table, seen) EXCEPT ![j] = row]
    /\ UNCHANGED <<worker, sweeper, request, crashes, resumed, overtaken>>

\* WorkforceJobTechnicianCancelView: only a logistics job releases its technician.
TechnicianCancel(e, j) ==
    /\ HoldsAssignment(e, j)
    /\ job[j].status \in {"accepted", "on_the_way", "en_route"}
    /\ LET r == job[j]
           left == [r EXCEPT
                     !.assigned = None, !.status = "confirmed",
                     !.offer[e] = IF @ = "none" THEN @ ELSE "CANCELLED",
                     !.empJob[e] = IF @ = "none" THEN @ ELSE "cancelled"]
           table == [job EXCEPT ![j] = left]
       IN \E seen \in Lookups(table, IF j \in LogisticsJobs THEN {e} ELSE {}) :
             /\ avail' = Availability(table, seen)
             /\ \E row \in DispatchOrRetry(left, {e}) :
                   job' = [HealedBy(table, seen) EXCEPT ![j] = row]
    /\ UNCHANGED <<worker, sweeper, request, crashes, resumed, overtaken>>

-----------------------------------------------------------------------------
(***************************************************************************)
(* Cancellation by the customer.                                           *)
(***************************************************************************)

\* The Customer application, another process on the same tables, writes the
\* status alone; its call to this application may come later or never.
CustomerWritesCancelled(j) ==
    /\ job[j].status \notin ClosingStatuses
    /\ job' = [job EXCEPT ![j].status = "cancelled"]
    /\ UNCHANGED <<avail, worker, sweeper, request, crashes, resumed, overtaken>>

\* WorkforceJobCustomerCancelSyncView and _finalize_customer_cancellation.
CustomerCancelSync(j) ==
    /\ CanTransition(job[j].status, "cancelled")
    /\ LET r == ApplyTransition(job[j], "cancelled")
           held == {e \in Emps : r.empJob[e] # "none" \/ r.assigned = e}
           closed == SetState(CloseOffers(r, Emps, "CANCELLED"), "CANCELLED")
           table == [job EXCEPT ![j] =
                      [closed EXCEPT !.empJob = [e \in Emps |->
                         IF @[e] \in {"none", "completed"} THEN @[e] ELSE "cancelled"]]]
       IN \E seen \in Lookups(table, held) :
             /\ avail' = Availability(table, seen)
             /\ job' = HealedBy(table, seen)
    /\ UNCHANGED <<worker, sweeper, request, crashes, resumed, overtaken>>

-----------------------------------------------------------------------------
(***************************************************************************)
(* Requests that read the job without a lock, check the transition on what *)
(* they read and then write the new status.                                *)
(***************************************************************************)

\* WorkforceJobTransitionView and the endpoints like it: whoever is assigned or
\* has an EmployeeJob of the job, whatever its status, moves the job on.
TransitionReads(h, e, j, target) ==
    /\ request[h] = NoRequest
    /\ job[j].assigned = e \/ job[j].empJob[e] # "none"
    /\ target \in AllowedTransitions[job[j].status]
    /\ request' = [request EXCEPT ![h] = [kind |-> "move", job |-> j,
                   read |-> job[j].status, target |-> target, assigned |-> job[j].assigned]]
    /\ UNCHANGED <<job, avail, worker, sweeper, crashes, resumed, overtaken>>

\* The same view, or the next one, asked by a superuser, whom apply_transition asks
\* neither for the table nor for its gates.
SuperuserReads(h, j, target) ==
    /\ request[h] = NoRequest
    /\ target # job[j].status
    /\ request' = [request EXCEPT ![h] = [kind |-> "superuser", job |-> j,
                   read |-> job[j].status, target |-> target, assigned |-> job[j].assigned]]
    /\ UNCHANGED <<job, avail, worker, sweeper, crashes, resumed, overtaken>>

\* WorkforceJobAdminCancelView.
AdminReads(h, j) ==
    /\ request[h] = NoRequest
    /\ job[j].status # "completed"
    /\ "cancelled" \in AllowedTransitions[job[j].status]
    /\ request' = [request EXCEPT ![h] = [kind |-> "admin", job |-> j,
                   read |-> job[j].status, target |-> "cancelled",
                   assigned |-> job[j].assigned]]
    /\ UNCHANGED <<job, avail, worker, sweeper, crashes, resumed, overtaken>>

\* detect_job_no_shows lists the jobs nobody has arrived at; it takes the
\* technician off its copy before it moves the job.
NoShowReads(h, j) ==
    /\ request[h] = NoRequest
    /\ job[j].assigned # None
    /\ job[j].status \in {"assigned", "accepted", "on_the_way", "en_route"}
    /\ request' = [request EXCEPT ![h] = [kind |-> "noshow", job |-> j,
                   read |-> job[j].status, target |-> "redispatching",
                   assigned |-> None]]
    /\ UNCHANGED <<job, avail, worker, sweeper, crashes, resumed, overtaken>>

\* The job that a write makes active: one that was parked (follow_up_required),
\* or was completed or cancelled after it was read.
Resumes(q) ==
    {j \in Jobs : /\ j = q.job /\ q.target \in WorkloadOccupied
                  /\ job[j].status \notin WorkloadOccupied}

\* The technician reconciled, in the statements below, is the one read.  The offers
\* an administrator's request looks for have a status no offer ever has, so every
\* offer stays as it is; the dispatch that follows a no-show is a Claim.
RequestWrites(h) ==
    /\ request[h].kind \in Moving
    /\ LET q == request[h]
           r == job[q.job]
           released == IF q.kind = "noshow" THEN [r EXCEPT !.assigned = None] ELSE r
           ends == q.target \in ClosingStatuses \cup {"redispatching"}
       IN /\ job' = [job EXCEPT ![q.job] = Moved(released, q.target)]
          /\ request' = [request EXCEPT ![h] =
                IF ends /\ q.assigned # None
                THEN [NoRequest EXCEPT !.kind = "reconcile", !.assigned = q.assigned]
                ELSE NoRequest]
    /\ resumed' = resumed \cup Resumes(request[h])
    /\ UNCHANGED <<avail, worker, sweeper, crashes, overtaken>>

\* reconcile_employee_availability outside a transaction reads the Employee row, ...
Reads(e) == [NoRequest EXCEPT !.kind = IF avail[e] = "busy" THEN "readsBusy" ELSE "readsFree",
                              !.assigned = e]

ReadsEmployee(h) ==
    /\ request[h].kind = "reconcile"
    /\ request' = [request EXCEPT ![h] = Reads(@.assigned)]
    /\ UNCHANGED <<job, avail, worker, sweeper, crashes, resumed, overtaken>>

\* The presence views, and others of the back end, begin with that read.
Presence(h, e) ==
    /\ request[h] = NoRequest
    /\ request' = [request EXCEPT ![h] = Reads(e)]
    /\ UNCHANGED <<job, avail, worker, sweeper, crashes, resumed, overtaken>>

\* ... looks for an active job, ...
LooksUp(h) ==
    /\ request[h].kind \in {"readsFree", "readsBusy"}
    /\ LET e == request[h].assigned
           wasBusy == request[h].kind = "readsBusy"
       IN \E seen \in Lookups(job, {e}) :
             /\ job' = HealedBy(job, seen)
             /\ request' = [request EXCEPT ![h] =
                   IF wasBusy <=> IsActive(job, seen[e]) THEN NoRequest
                   ELSE [@ EXCEPT !.kind = IF wasBusy THEN "frees" ELSE "occupies"]]
    /\ UNCHANGED <<avail, worker, sweeper, crashes, resumed, overtaken>>

\* ... and saves the availability if it differs from the one read.
ReconcileSaves(h) ==
    /\ request[h].kind \in {"frees", "occupies"}
    /\ avail' = [avail EXCEPT ![request[h].assigned] =
                   IF request[h].kind = "frees" THEN "available" ELSE "busy"]
    /\ request' = [request EXCEPT ![h] = NoRequest]
    /\ UNCHANGED <<job, worker, sweeper, crashes, resumed, overtaken>>

-----------------------------------------------------------------------------
(***************************************************************************)
(* Clocks.                                                                 *)
(***************************************************************************)

WindowMoves(j) ==
    /\ \/ job[j].window = "future" /\ job' = [job EXCEPT ![j].window = "open"]
       \/ job[j].window = "open"   /\ job' = [job EXCEPT ![j].window = "closed"]
       \/ job[j].window \in {"open", "closed"} /\ job' = [job EXCEPT ![j].window = "past"]
    /\ UNCHANGED <<avail, worker, sweeper, request, crashes, resumed, overtaken>>

WaveExpires(j) ==
    /\ job[j].live /\ Offered(job[j]) # {}
    /\ job' = [job EXCEPT ![j].live = FALSE]
    /\ UNCHANGED <<avail, worker, sweeper, request, crashes, resumed, overtaken>>

ClaimAges(j) ==
    /\ job[j].fresh
    /\ job' = [job EXCEPT ![j].fresh = FALSE]
    /\ UNCHANGED <<avail, worker, sweeper, request, crashes, resumed, overtaken>>

RetryFallsDue(j) ==
    /\ ~ job[j].due
    /\ job' = [job EXCEPT ![j].due = TRUE]
    /\ UNCHANGED <<avail, worker, sweeper, request, crashes, resumed, overtaken>>

-----------------------------------------------------------------------------
WorkerStep(w) ==
    Evaluate(w) \/ EvaluateFails(w) \/ Finalize(w) \/ MarksExpired(w)

TechnicianStep(e, j) ==
    \/ Accept(e, j) \/ AcceptTooLate(e, j)
    \/ Reject(e, j) \/ RejectTooLate(e, j)
    \/ CancelAssignment(e, j) \/ TechnicianCancel(e, j)

Next ==
    \/ \E w \in Workers : WorkerStep(w) \/ Crash(w)
    \/ \E w \in Workers, j \in Jobs :
          \/ SweepFinds(w, j)
          \/ \E force \in BOOLEAN : Claim(w, j, force) \/ TurnAway(w, j, force)
    \/ \E e \in Emps, j \in Jobs : TechnicianStep(e, j) \/ ExpireOffer(j, e)
    \/ \E j \in Jobs : SweepLists(j)
    \/ SweepChecks \/ SweepResets
    \/ \E j \in Jobs : \/ "customer" \in Requests /\ CustomerWritesCancelled(j)
                       \/ "sync" \in Requests /\ CustomerCancelSync(j)
    \/ \E h \in Handlers :
          \/ /\ "move" \in Requests
             /\ \E e \in Emps, j \in Jobs, target \in ProgressStatuses :
                   TransitionReads(h, e, j, target)
          \/ "admin" \in Requests /\ \E j \in Jobs : AdminReads(h, j)
          \/ "noshow" \in Requests /\ \E j \in Jobs : NoShowReads(h, j)
          \/ /\ "superuser" \in Requests
             /\ \E j \in Jobs, target \in ProgressStatuses : SuperuserReads(h, j, target)
          \/ "presence" \in Requests /\ \E e \in Emps : Presence(h, e)
          \/ RequestWrites(h) \/ ReadsEmployee(h) \/ LooksUp(h) \/ ReconcileSaves(h)
    \/ \E j \in Jobs :
          WindowMoves(j) \/ WaveExpires(j) \/ ClaimAges(j) \/ RetryFallsDue(j)

Spec == Init /\ [][Next]_vars

\* dispatch_worker sweeps every 30 s, a call that has started runs on unless
\* its process is killed, and clocks advance.  Nobody has to answer an offer,
\* cancel a job or bring it further.
Fairness ==
    /\ \A w \in Workers : WF_vars(WorkerStep(w))
    /\ \A j \in Jobs :
          /\ WF_vars(\E w \in Workers : SweepDispatches(w, j))
          /\ WF_vars(SweepLists(j))
          /\ WF_vars(WaveExpires(j)) /\ WF_vars(ClaimAges(j)) /\ WF_vars(RetryFallsDue(j))
          /\ \A e \in Emps : WF_vars(ExpireOffer(j, e))
    /\ WF_vars(SweepChecks) /\ WF_vars(SweepResets)

FairSpec == Spec /\ Fairness

-----------------------------------------------------------------------------
(***************************************************************************)
(* Properties.                                                             *)
(***************************************************************************)

\* Once a technician holds a job nobody can still be offered it: acceptance
\* supersedes every competing offer and no dispatch that was under way meanwhile
\* adds one (README: row locks prevent double assignment).
TakenJobHasNoOffer ==
    \A j \in Jobs : job[j].assigned # None => Offered(job[j]) = {}

\* At most one wave of a job is open, whichever of the processes that evaluated
\* it finish: the last one expires the offers of the others.
OneWave ==
    \A j \in Jobs : Cardinality(Offered(job[j])) <= WaveSize

\* A dispatch that was under way when the job was cancelled makes no offer of it.
CancelledGetsNoOffer ==
    [][\A j \in Jobs : job[j].status = "cancelled"
          => Offered(job'[j]) \subseteq Offered(job[j])]_vars

\* A request writes on job j the status it decided on when it read the job: one
\* the table allowed from there, unless a superuser asked.
WrittenOver(j) ==
    \E h \in Handlers :
        /\ request[h].job = j /\ request'[h] # request[h]
        /\ job'[j].status = request[h].target
        /\ \/ request[h].target \in AllowedTransitions[request[h].read]
           \/ request[h].kind = "superuser"

\* The status of job j stays or changes along the table, or one of the five writers
\* changes it that do not ask the table, or ask it about an old copy: a superuser;
\* a request that read the job earlier; the technician's cancellation, with the
\* dispatch inside it; the dispatch, of a job nobody holds; the Customer application.
ByTable(j) ==
    LET s == job[j].status
        t == job'[j].status
    IN \/ CanTransition(s, t)
       \/ WrittenOver(j)
       \/ s \in {"accepted", "on_the_way", "en_route"} /\ t \in {"confirmed", "unassigned"}
       \/ /\ s \notin {"completed", "cancelled"} /\ job[j].assigned = None
          /\ t = "unassigned"
       \/ s \notin ClosingStatuses /\ t = "cancelled"

\* "Authoritative state machine" (state_machine.py:91): nothing else changes a status
\* against the table, and only the first two of the five take a job out of
\* completed or cancelled.
StatusByTable == [][\A j \in Jobs : ByTable(j)]_vars

\* The technician has the job, and it is active.
Works(e, j) == job[j].assigned = e /\ job[j].status \in WorkloadOccupied

\* A technician with an active job reads busy, whatever became of the other jobs
\* they were offered, refused or cancelled and whichever requests recompute their
\* availability meanwhile.  Two exceptions: a status write that makes a job active
\* again does not look at its technician, and a request that looked for an active
\* job before the acceptance saves what it found after it.
ActiveReadsBusy ==
    \A j \in Jobs \ resumed, e \in Emps \ overtaken : Works(e, j) => avail[e] = "busy"

\* The second exception left out.  Does not hold (README, section 3).
ActiveReadsBusyAlways ==
    \A j \in Jobs \ resumed, e \in Emps : Works(e, j) => avail[e] = "busy"

\* "Hard Single Active Job Rule" (views.py:5156): two acceptances by the same
\* technician, of two jobs, never both succeed, and nothing else gives them a
\* second active job but a status write that makes one active again.
OneActiveJob ==
    \A e \in Emps : \A j, k \in Jobs \ resumed :
        Works(e, j) /\ Works(e, k) => j = k

\* The rule without the exception.  Does not hold (README, section 3).
OneActiveJobAlways ==
    \A e \in Emps : \A j, k \in Jobs : Works(e, j) /\ Works(e, k) => j = k

\* A technician who declined a job is never offered it again: does not hold
\* (README, section 3).
DeclinedNeverReoffered ==
    \A j \in Jobs : Offered(job[j]) \cap job[j].declined = {}

\* A completed job is never cancelled, also by a request that read it earlier:
\* does not hold.
CompletedStays ==
    [][\A j \in Jobs : job[j].status = "completed" => job'[j].status = "completed"]_vars

\* Every offer ends: taken, refused, withdrawn or expired by the sweep.
OffersEnd ==
    \A j \in Jobs, e \in Emps :
        job[j].offer[e] = "OFFERED" ~> job[j].offer[e] # "OFFERED"

\* A job that the sweep may still dispatch is never left claimed by a process that
\* died.
ClaimsEnd ==
    \A j \in Jobs :
        job[j].dstate = "DISPATCHING" /\ Pending(job[j])
          ~> job[j].dstate # "DISPATCHING" \/ ~ Pending(job[j])

\* The same of every job nobody holds: does not hold, as the sweep passes over jobs
\* of an earlier date.
ClaimsEndAlways ==
    \A j \in Jobs :
        job[j].dstate = "DISPATCHING" /\ job[j].assigned = None
          ~> job[j].dstate # "DISPATCHING" \/ job[j].assigned # None

\* A job for which nobody was found is tried again for as long as its window is
\* open.
RetriesHappen ==
    \A j \in Jobs :
        job[j].dstate = "RETRY_SCHEDULED" /\ Pending(job[j])
          ~> \/ job[j].dstate = "DISPATCHING" \/ ~ Pending(job[j])
             \/ job[j].window = "closed"

\* A job whose technician withdrew goes back to dispatch: does not hold.
RedispatchAfterCancel ==
    \A j \in Jobs :
        job[j].status = "redispatching"
          ~> \/ job[j].dstate \in {"DISPATCHING", "OFFER_ACTIVE", "RETRY_SCHEDULED"}
             \/ job[j].status # "redispatching" \/ job[j].window = "closed"
=============================================================================
