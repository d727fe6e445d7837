--------------------------- MODULE Dispatch_proofs ---------------------------
(***************************************************************************)
(* Theorems of Dispatch, for any number of jobs, technicians, workers and  *)
(* requests: its type invariant, and the properties its runs check of the  *)
(* offers, the assignment, the technician's active work and the status of  *)
(* a job; and that no claim of a dead process is passed over by the sweep. *)
(*                                                                         *)
(* The argument is about one row at a time.  Most statements are calm:     *)
(* they open no offer and hand the job to nobody.  Two are not, an         *)
(* acceptance and the last phase of a dispatch, and each leaves the row    *)
(* sound by itself.                                                        *)
(***************************************************************************)
EXTENDS Dispatch, FiniteSetTheorems, TLAPS

\* What holds of every row between two steps.
Sound(r) ==
    /\ r \in JobRow
    /\ r.assigned # None => Offered(r) = {}
    /\ Cardinality(Offered(r)) <= WaveSize

\* q may follow r without another look at the offers or at the assignment.
Calm(q, r) ==
    /\ q \in JobRow
    /\ q.assigned \in {r.assigned, None}
    /\ Offered(q) \subseteq Offered(r)

-----------------------------------------------------------------------------
(***************************************************************************)
(* The transition table, of which the proofs need a few entries.           *)
(***************************************************************************)

\* The statuses the code writes by name are statuses of the table.
LEMMA WrittenStatuses ==
    {"draft", "confirmed", "unassigned", "accepted", "redispatching",
     "completed", "cancelled", "unable_to_complete"} \subseteq JobStatuses
  BY DEF JobStatuses, AllowedTransitions

\* Nothing leads out of a cancelled job.
LEMMA CancelledIsFinal ==
    ASSUME NEW s, CanTransition("cancelled", s)
    PROVE  s = "cancelled"
  BY DEF CanTransition, AllowedTransitions

-----------------------------------------------------------------------------
(***************************************************************************)
(* Calm statements.                                                        *)
(***************************************************************************)

\* A row that does not change is calm.
LEMMA CalmSelf ==
    ASSUME NEW r \in JobRow
    PROVE  Calm(r, r)
  BY DEF Calm

\* Calm statements compose.
LEMMA CalmChain ==
    ASSUME NEW p, NEW q, NEW r, Calm(p, q), Calm(q, r)
    PROVE  Calm(p, r)
  BY DEF Calm

\* A calm statement leaves a sound row sound.
LEMMA CalmKeepsSound ==
    ASSUME NEW r, NEW q, Sound(r), Calm(q, r)
    PROVE  Sound(q)
<1>1. IsFiniteSet(Offered(r))
  BY FS_Subset, DispatchAssumption DEF Offered
<1>2. /\ Cardinality(Offered(q)) <= Cardinality(Offered(r))
      /\ Cardinality(Offered(q)) \in Nat
      /\ Cardinality(Offered(r)) \in Nat
  BY <1>1, FS_Subset, FS_CardinalityType DEF Calm
<1>3. Cardinality(Offered(q)) <= WaveSize
  BY <1>2, DispatchAssumption DEF Sound
<1> QED
  BY <1>3 DEF Sound, Calm

\* Writing the dispatch state is calm.
LEMMA CalmSetState ==
    ASSUME NEW r \in JobRow, NEW s \in DispatchStatus
    PROVE  Calm(SetState(r, s), r)
  BY DEF SetState, Calm, JobRow, Offered

\* So is its reset by the sweep or a rejection,
LEMMA CalmResetState ==
    ASSUME NEW r \in JobRow
    PROVE  Calm(ResetState(r), r)
  BY DEF ResetState, Calm, JobRow, Offered, DispatchStatus

\* and the scheduling of a retry.
LEMMA CalmRetryLater ==
    ASSUME NEW r \in JobRow
    PROVE  Calm(RetryLater(r), r)
  BY DEF RetryLater, Calm, JobRow, Offered, DispatchStatus

\* Closing offers, whosever they are, opens none.
LEMMA CalmCloseOffers ==
    ASSUME NEW r \in JobRow, NEW S, NEW s \in OfferStatus \ {"OFFERED"}
    PROVE  Calm(CloseOffers(r, S, s), r)
<1> DEFINE offer == [e \in Emps |->
                       IF e \in S /\ r.offer[e] = "OFFERED" THEN s ELSE r.offer[e]]
           live == r.live /\ ~ Offered(r) \subseteq S
<1>1. /\ offer \in [Emps -> OfferStatus]
      /\ \A e \in Emps : offer[e] = "OFFERED" => r.offer[e] = "OFFERED"
  BY DEF JobRow
<1>2. live \in BOOLEAN
  OBVIOUS
<1>3. CloseOffers(r, S, s) = [r EXCEPT !.offer = offer, !.live = live]
  BY DEF CloseOffers, JobRow
<1> HIDE DEF offer, live
<1> QED
  BY <1>1, <1>2, <1>3 DEF Calm, JobRow, Offered

\* apply_transition writes the status and the EmployeeJob rows, and may close the
\* dispatch state: all calm.
LEMMA CalmMoved ==
    ASSUME NEW r \in JobRow, NEW target \in JobStatuses
    PROVE  Calm(Moved(r, target), r)
<1> DEFINE synced == IF target = "redispatching" THEN "employee_cancelled" ELSE target
           empJob == [e \in Emps |->
                        IF r.empJob[e] = "none" THEN "none" ELSE synced]
           moved == [r EXCEPT !.status = target, !.empJob = empJob]
<1>1. Calm(moved, r)
  <2>1. empJob \in [Emps -> JobStatuses \cup {"none", "employee_cancelled"}]
    BY DEF JobRow
  <2> HIDE DEF empJob
  <2> QED
    BY <2>1 DEF Calm, JobRow, Offered
<1>3. Moved(r, target) \in {moved, SetState(moved, "COMPLETED"),
                            SetState(moved, "CANCELLED")}
  BY DEF Moved, JobRow
<1> HIDE DEF moved
<1>2. ASSUME NEW s \in DispatchStatus
      PROVE  Calm(SetState(moved, s), r)
  BY <1>1, CalmSetState, CalmChain DEF Calm
<1> QED
  BY <1>1, <1>2, <1>3 DEF DispatchStatus

\* The transition of a caller that holds the row lock is calm.
LEMMA CalmApplyTransition ==
    ASSUME NEW r \in JobRow, NEW target \in JobStatuses
    PROVE  Calm(ApplyTransition(r, target), r)
  BY CalmMoved, CalmSelf DEF ApplyTransition

\* Marking a job without coordinates unassigned is calm, and never brings a cancelled
\* job back.
LEMMA CalmUnplaced ==
    ASSUME NEW r \in JobRow
    PROVE  /\ Calm(Unplaced(r), r)
           /\ r.status = "cancelled" => Unplaced(r) = r
<1>1. Calm(Unplaced(r), r)
  BY CalmSelf, CalmApplyTransition, WrittenStatuses DEF Unplaced
<1>2. ASSUME r.status = "cancelled", ~ r.located
      PROVE  Unplaceable(r)
  BY <1>2, CancelledIsFinal DEF Unplaceable
<1> QED
  BY <1>1, <1>2 DEF Unplaced

\* So is the claim of phase 1,
LEMMA CalmClaimed ==
    ASSUME NEW r \in JobRow
    PROVE  /\ Calm(Claimed(r), r)
           /\ Claimed(r).status = Unplaced(r).status
<1> DEFINE u == Unplaced(r)
<1>1. Calm(u, r) /\ u \in JobRow
  BY CalmUnplaced DEF Calm
<1>2. Claimed(r) = [u EXCEPT !.dstate = "DISPATCHING", !.fresh = TRUE, !.due = TRUE]
  BY DEF Claimed
<1> HIDE DEF u
<1>3. Calm(Claimed(r), u) /\ Claimed(r).status = u.status
  BY <1>1, <1>2 DEF Calm, JobRow, Offered, DispatchStatus
<1> QED
  BY <1>1, <1>3, CalmChain DEF u

\* and a call that phase 1 turns away.
LEMMA CalmTurnedAway ==
    ASSUME NEW r \in JobRow
    PROVE  Calm(TurnedAway(r), r)
  BY CalmSelf, CalmSetState, CalmUnplaced DEF TurnedAway, DispatchStatus

\* Healing a row by a lookup is calm.
LEMMA CalmHealed ==
    ASSUME NEW f, NEW K, NEW k \in Jobs, f[k] \in JobRow
    PROVE  Calm(Healed(f, K)[k], f[k])
<1>1. f[k].status \in JobStatuses
  BY DEF JobRow
<1>2. Calm([f[k] EXCEPT !.empJob = [e \in Emps |->
               IF @[e] = "none" THEN "none" ELSE f[k].status]], f[k])
  BY <1>1 DEF Calm, JobRow, Offered
<1> QED
  BY <1>2, CalmSelf DEF Healed

-----------------------------------------------------------------------------
(***************************************************************************)
(* The last phase of a dispatch.                                           *)
(***************************************************************************)

\* A wave small enough to be opened.
IsWave(wave) == wave \subseteq Emps /\ Cardinality(wave) <= WaveSize

\* Whatever phase 2 ranks is a wave.
LEMMA SmallWaves ==
    ASSUME NEW r, NEW excluded, NEW wave \in Waves(r, excluded)
    PROVE  IsWave(wave)
  BY DEF Waves, IsWave

\* A new wave replaces the one before it: its technicians hold the only open
\* offers of the job.
LEMMA SoundNewWave ==
    ASSUME NEW r, Sound(r), r.assigned = None, NEW wave, IsWave(wave)
    PROVE  Sound(NewWave(r, wave))
<1> DEFINE swept == CloseOffers(r, Emps, "EXPIRED")
           offer == [e \in Emps |-> IF e \in wave THEN "OFFERED" ELSE swept.offer[e]]
           spent == swept.spent \cup {e \in wave : swept.offer[e] \in Excluding}
           offered == [swept EXCEPT
              !.offer = offer, !.spent = spent, !.live = TRUE,
              !.dstate = "OFFER_ACTIVE", !.fresh = FALSE, !.due = TRUE]
<1>1. swept \in JobRow /\ swept.assigned = None
  BY CalmCloseOffers DEF Calm, Sound, OfferStatus
<1>2. \A e \in Emps : swept.offer[e] # "OFFERED"
  BY DEF CloseOffers, Sound, JobRow
<1>7. NewWave(r, wave) \in {offered, ApplyTransition(offered, "unassigned"), r}
  BY <1>1 DEF NewWave, JobRow
<1> HIDE DEF swept
<1>8. /\ offer \in [Emps -> OfferStatus] /\ spent \subseteq Emps
      /\ \A e \in Emps : offer[e] = "OFFERED" <=> e \in wave
  BY <1>1, <1>2 DEF JobRow, OfferStatus, IsWave
<1> HIDE DEF offer, spent
<1>3. offered \in JobRow /\ offered.assigned = None /\ offered.offer = offer
  BY <1>1, <1>8 DEF JobRow, DispatchStatus
<1> HIDE DEF offered
<1>4. Offered(offered) = wave
  BY <1>3, <1>8 DEF Offered, IsWave
<1>5. Sound(offered)
  BY <1>3, <1>4 DEF Sound, IsWave
<1>6. Sound(ApplyTransition(offered, "unassigned"))
  BY <1>3, <1>5, CalmApplyTransition, CalmKeepsSound, WrittenStatuses
<1> QED
  BY <1>5, <1>6, <1>7

\* Phase 3 on a sound row: it opens a wave only for a job that nobody holds and
\* that is not cancelled.
LEMMA SoundFinalised ==
    ASSUME NEW r, Sound(r), NEW wave, IsWave(wave)
    PROVE  /\ Sound(Finalised(r, wave))
           /\ r.status = "cancelled" => Calm(Finalised(r, wave), r)
<1>0. r \in JobRow
  BY DEF Sound
<1>1. \A s \in DispatchStatus : Calm(SetState(r, s), r)
  BY <1>0, CalmSetState
<1>2. CASE r.status \in {"completed", "cancelled"} \/ r.assigned # None
  BY <1>1, <1>2, CalmKeepsSound DEF Finalised, DispatchStatus
<1>3. CASE r.status \notin {"completed", "cancelled"} /\ r.assigned = None /\ wave = {}
  <2>1. [r EXCEPT !.status = "unassigned"] \in JobRow
        /\ Calm([r EXCEPT !.status = "unassigned"], r)
    BY <1>0, WrittenStatuses DEF JobRow, Calm, Offered
  <2>2. Calm(RetryLater([r EXCEPT !.status = "unassigned"]), r)
    BY <2>1, CalmRetryLater, CalmChain
  <2> QED
    BY <1>3, <2>2, CalmKeepsSound DEF Finalised
<1>4. CASE r.status \notin {"completed", "cancelled"} /\ r.assigned = None /\ wave # {}
  BY <1>4, SoundNewWave DEF Finalised
<1> QED
  BY <1>2, <1>3, <1>4

\* dispatch_job inside another transaction.
LEMMA SoundDispatch ==
    ASSUME NEW r, Sound(r), NEW excluded, NEW q \in DispatchOrRetry(r, excluded)
    PROVE  /\ Sound(q)
           /\ r.status = "cancelled" => Calm(q, r)
<1>0. r \in JobRow
  BY DEF Sound
<1>1. CASE q = TurnedAway(r)
  BY <1>0, <1>1, CalmTurnedAway, CalmKeepsSound
<1>2. /\ Calm(Claimed(r), r) /\ Sound(Claimed(r)) /\ Claimed(r) \in JobRow
      /\ r.status = "cancelled" => Claimed(r).status = "cancelled"
  <2>1. Calm(Claimed(r), r)
    BY <1>0, CalmClaimed
  <2>2. r.status = "cancelled" => Claimed(r).status = "cancelled"
    BY <1>0, CalmClaimed, CalmUnplaced
  <2> QED
    BY <2>1, <2>2, CalmKeepsSound DEF Calm
<1>3. ASSUME NEW wave \in Waves(r, excluded), q = Finalised(Claimed(r), wave)
      PROVE  /\ Sound(q)
             /\ r.status = "cancelled" => Calm(q, r)
  BY <1>2, <1>3, SmallWaves, SoundFinalised, CalmChain
<1>4. CASE q = RetryLater(Claimed(r))
  BY <1>2, <1>4, CalmRetryLater, CalmChain, CalmKeepsSound
<1> QED
  BY <1>1, <1>3, <1>4 DEF DispatchOrRetry, DispatchOutcomes

\* The same without the retry of a swallowed exception.
LEMMA SoundDispatchOutcomes ==
    ASSUME NEW r, Sound(r), NEW excluded, NEW q \in DispatchOutcomes(r, excluded)
    PROVE  /\ Sound(q)
           /\ r.status = "cancelled" => Calm(q, r)
  BY SoundDispatch DEF DispatchOrRetry

-----------------------------------------------------------------------------
(***************************************************************************)
(* Acceptance.                                                             *)
(***************************************************************************)

\* The accepted job is left without an open offer.
LEMMA SoundAccepted ==
    ASSUME NEW r, Sound(r), NEW e \in Emps
    PROVE  Sound(Accepted(r, e)) /\ Offered(Accepted(r, e)) = {}
<1> DEFINE won == [r EXCEPT !.offer[e] = IF @ = "OFFERED" THEN "ACCEPTED" ELSE @,
                            !.assigned = e]
           marked == SetState(ApplyTransition(won, "accepted"), "ASSIGNED")
           closed == CloseOffers(marked, Emps \ {e}, "SUPERSEDED_BY_ACCEPTANCE")
<1>1. won \in JobRow /\ won.offer[e] # "OFFERED"
  BY DEF Sound, JobRow, OfferStatus
<1>2. Calm(marked, won)
  <2>1. Calm(ApplyTransition(won, "accepted"), won)
    BY <1>1, WrittenStatuses, CalmApplyTransition
  <2>2. Calm(marked, ApplyTransition(won, "accepted"))
    BY <2>1, CalmSetState DEF Calm, DispatchStatus
  <2> QED
    BY <2>1, <2>2, CalmChain
<1>3. marked \in JobRow /\ marked.offer[e] # "OFFERED"
  BY <1>1, <1>2 DEF Calm, Offered
<1>4. closed \in JobRow
  BY <1>3, CalmCloseOffers DEF Calm, OfferStatus
<1>5. \A d \in Emps : closed.offer[d] # "OFFERED"
  BY <1>3 DEF CloseOffers, JobRow
<1>6. Accepted(r, e) = [closed EXCEPT !.empJob[e] = "accepted"]
  BY DEF Accepted
<1> HIDE DEF closed
<1>7. Accepted(r, e) \in JobRow /\ Offered(Accepted(r, e)) = {}
  BY <1>4, <1>5, <1>6, WrittenStatuses DEF JobRow, Offered
<1> QED
  BY <1>7, FS_EmptySet, DispatchAssumption DEF Sound

\* The offers of the winner's other jobs are closed and those jobs dispatched
\* again, each soundly.
LEMMA SoundSuperseded ==
    ASSUME NEW r, Sound(r), NEW e, NEW q \in Superseded(r, e)
    PROVE  /\ Sound(q)
           /\ r.status = "cancelled" => Calm(q, r)
<1> DEFINE rest == CloseOffers(r, {e}, "SUPERSEDED_BY_ACCEPTANCE")
<1>0. r \in JobRow
  BY DEF Sound
<1>1. Calm(rest, r) /\ rest \in JobRow /\ rest.status = r.status
  <2>1. Calm(rest, r)
    BY <1>0, CalmCloseOffers DEF OfferStatus
  <2>2. rest.status = r.status
    BY <1>0 DEF CloseOffers, JobRow
  <2> QED
    BY <2>1, <2>2 DEF Calm
<1>2. Calm(ResetState(rest), r) /\ ResetState(rest) \in JobRow
      /\ ResetState(rest).status = r.status
  <2>1. Calm(ResetState(rest), rest)
    BY <1>1, CalmResetState
  <2>2. ResetState(rest).status = rest.status
    BY <1>1 DEF ResetState, JobRow
  <2> HIDE DEF rest
  <2> QED
    BY <1>1, <2>1, <2>2, CalmChain DEF Calm
<1>3. CASE q = r
  BY <1>0, <1>3, CalmSelf
<1>4. CASE q = rest
  BY <1>1, <1>4, CalmKeepsSound
<1>5. CASE q \in DispatchOrRetry(ResetState(rest), {})
  BY <1>2, <1>5, CalmKeepsSound, SoundDispatch, CalmChain
<1> QED
  BY <1>3, <1>4, <1>5 DEF Superseded

-----------------------------------------------------------------------------
(***************************************************************************)
(* The inductive invariant.  A wave chosen in phase 2 is opened in phase 3 *)
(* whatever happened meanwhile, so it says of the workers that what they   *)
(* hold is a wave, and of every row that it is sound.                      *)
(***************************************************************************)

\* What a worker may hold between two of its transactions.
Held == [pc : {"idle", "claimed", "evaluated", "expiring"}, job : Jobs \cup {None},
         wave : {wave \in SUBSET Emps : IsWave(wave)}]

\* What a request that works on a copy may hold.
Copies == [kind : {"none"} \cup Moving \cup Reconciling, job : Jobs \cup {None},
           read : JobStatuses, target : JobStatuses, assigned : Emps \cup {None}]

\* What processes hold between two steps.
ProcessesOK ==
    /\ avail \in [Emps -> {"available", "busy"}]
    /\ worker \in [Workers -> Held]
    /\ sweeper \in [pc : {"idle", "listed", "decided"}, job : Jobs \cup {None}]
    /\ request \in [Handlers -> Copies]
    /\ crashes \in 0..MaxCrashes
    /\ resumed \subseteq Jobs /\ overtaken \subseteq Emps

IInv ==
    /\ job \in [Jobs -> JobRow]
    /\ \A j \in Jobs : Sound(job[j])
    /\ ProcessesOK

\* What a step does to the rows of the jobs.
RowsFollow ==
    /\ job' \in [Jobs -> JobRow]
    /\ \A j \in Jobs : /\ Sound(job'[j])
                       /\ job[j].status = "cancelled" => Calm(job'[j], job[j])

\* A step that replaces one row.
LEMMA OneRowFollows ==
    ASSUME IInv, NEW j, NEW q, job' = [job EXCEPT ![j] = q],
           j \in Jobs => /\ Sound(q)
                         /\ job[j].status = "cancelled" => Calm(q, job[j])
    PROVE  RowsFollow
<1>1. /\ job \in [Jobs -> JobRow]
      /\ \A k \in Jobs : Sound(job[k]) /\ Calm(job[k], job[k])
  BY CalmSelf DEF IInv
<1>2. \A k \in Jobs : Sound(job'[k]) /\ (job[k].status = "cancelled" => Calm(job'[k], job[k]))
  BY <1>1
<1>3. job' \in [Jobs -> JobRow]
  BY <1>1 DEF Sound
<1> QED
  BY <1>2, <1>3 DEF RowsFollow

\* A step that replaces one row by a calm one.
LEMMA CalmRowFollows ==
    ASSUME IInv, NEW j, NEW q, job' = [job EXCEPT ![j] = q],
           j \in Jobs => Calm(q, job[j])
    PROVE  RowsFollow
  BY OneRowFollows, CalmKeepsSound DEF IInv

\* A step that lets lookups heal rows of a table and then replaces row j by q.
LEMMA HealedRowFollows ==
    ASSUME IInv, NEW j \in Jobs, NEW p, NEW q, NEW K,
           Calm(p, job[j]), Sound(q), job[j].status = "cancelled" => Calm(q, job[j]),
           \/ job' = Healed([job EXCEPT ![j] = p], K)
           \/ job' = [Healed([job EXCEPT ![j] = p], K) EXCEPT ![j] = q]
    PROVE  RowsFollow
<1> DEFINE table == [job EXCEPT ![j] = p]
<1>1. /\ job \in [Jobs -> JobRow]
      /\ \A k \in Jobs : Sound(job[k]) /\ Calm(job[k], job[k])
  BY CalmSelf DEF IInv
<1>2. \A k \in Jobs : Calm(table[k], job[k]) /\ table[k] \in JobRow
  BY <1>1 DEF Calm
<1> HIDE DEF table
<1>3. \A k \in Jobs : Calm(Healed(table, K)[k], job[k])
  BY <1>2, CalmHealed, CalmChain
<1>4. DOMAIN Healed(table, K) = Jobs
      /\ Healed(table, K) = [k \in Jobs |-> Healed(table, K)[k]]
  BY DEF Healed
<1>5. \A k \in Jobs : Sound(Healed(table, K)[k])
  BY <1>1, <1>3, CalmKeepsSound
<1>6. CASE job' = Healed(table, K)
  BY <1>3, <1>4, <1>5, <1>6 DEF RowsFollow, Sound
<1>7. CASE job' = [Healed(table, K) EXCEPT ![j] = q]
  <2> HIDE DEF Healed
  <2>1. \A k \in Jobs : job'[k] = IF k = j THEN q ELSE Healed(table, K)[k]
    BY <1>4, <1>7
  <2>2. job' = [k \in Jobs |-> job'[k]]
    BY <1>4, <1>7
  <2> QED
    BY <1>3, <1>5, <2>1, <2>2 DEF RowsFollow, Sound
<1> QED
  BY <1>6, <1>7 DEF table

-----------------------------------------------------------------------------
(***************************************************************************)
(* Steps of the workers and of the sweep.                                  *)
(***************************************************************************)

\* What the invariant says of one row.
LEMMA RowsAreRows ==
    ASSUME IInv, NEW j \in Jobs
    PROVE  job[j] \in JobRow /\ Sound(job[j])
  BY DEF IInv

\* A step that touches no row.
LEMMA SameRowsFollow ==
    ASSUME IInv, UNCHANGED job
    PROVE  RowsFollow
  BY CalmSelf DEF IInv, RowsFollow

\* Phases 2 and 3 of dispatch_job, and the death of a worker.
LEMMA WorkerFollows ==
    ASSUME IInv, NEW w \in Workers, WorkerStep(w) \/ Crash(w)
    PROVE  RowsFollow
<1>1. CASE Evaluate(w) \/ Crash(w)
  BY <1>1, SameRowsFollow DEF Evaluate, Crash
<1>2. CASE EvaluateFails(w)
  <2> DEFINE j == worker[w].job
             q == IF job[j].dstate = "DISPATCHING" THEN RetryLater(job[j]) ELSE job[j]
  <2>1. job' = [job EXCEPT ![j] = q]
    BY <1>2 DEF EvaluateFails
  <2>2. j \in Jobs => Calm(q, job[j])
    BY RowsAreRows, CalmRetryLater, CalmSelf
  <2> QED
    BY <2>1, <2>2, CalmRowFollows
<1>3. CASE Finalize(w)
  <2> DEFINE j == worker[w].job
             q == Finalised(job[j], worker[w].wave)
  <2>1. job' = [job EXCEPT ![j] = q]
    BY <1>3 DEF Finalize
  <2>2. IsWave(worker[w].wave)
    BY DEF IInv, ProcessesOK, Held
  <2>3. j \in Jobs => Sound(q) /\ (job[j].status = "cancelled" => Calm(q, job[j]))
    BY <2>2, RowsAreRows, SoundFinalised
  <2> QED
    BY <2>1, <2>3, OneRowFollows
<1>4. CASE MarksExpired(w)
  <2> DEFINE j == worker[w].job
  <2>1. job' = [job EXCEPT ![j] = SetState(job[j], "EXPIRED")]
    BY <1>4 DEF MarksExpired
  <2>2. j \in Jobs => Calm(SetState(job[j], "EXPIRED"), job[j])
    BY RowsAreRows, CalmSetState DEF DispatchStatus
  <2> QED
    BY <2>1, <2>2, CalmRowFollows
<1> QED
  BY <1>1, <1>2, <1>3, <1>4 DEF WorkerStep

\* What a call of dispatch_job does to the rows.
LEMMA CallWrites ==
    ASSUME NEW w \in Workers, NEW j \in Jobs, NEW force \in BOOLEAN
    PROVE  /\ SweepFinds(w, j) => UNCHANGED job
           /\ Claim(w, j, force) => /\ Claimable(job[j], force)
                                    /\ job' = [job EXCEPT ![j] = Claimed(job[j])]
           /\ TurnAway(w, j, force) => job' = [job EXCEPT ![j] = TurnedAway(job[j])]
           /\ SweepFinds(w, j) \/ Claim(w, j, force) \/ TurnAway(w, j, force)
                  => UNCHANGED <<avail, request, resumed, overtaken>>
<1>1. SweepFinds(w, j) => UNCHANGED <<job, avail, request, resumed, overtaken>>
  BY DEF SweepFinds
<1>2. Claim(w, j, force) => /\ Claimable(job[j], force)
                            /\ job' = [job EXCEPT ![j] = Claimed(job[j])]
                            /\ UNCHANGED <<avail, request, resumed, overtaken>>
  BY DEF Claim
<1>3. TurnAway(w, j, force) => /\ job' = [job EXCEPT ![j] = TurnedAway(job[j])]
                               /\ UNCHANGED <<avail, request, resumed, overtaken>>
  BY DEF TurnAway
<1> QED
  BY <1>1, <1>2, <1>3

\* Phase 1 of dispatch_job, and a job the sweep finds too late.
LEMMA CallFollows ==
    ASSUME IInv, NEW w \in Workers, NEW j \in Jobs, NEW force \in BOOLEAN,
           SweepFinds(w, j) \/ Claim(w, j, force) \/ TurnAway(w, j, force)
    PROVE  RowsFollow
<1>0. CASE SweepFinds(w, j)
  BY <1>0, SameRowsFollow DEF SweepFinds
<1>1. Calm(Claimed(job[j]), job[j]) /\ Calm(TurnedAway(job[j]), job[j])
  BY RowsAreRows, CalmClaimed, CalmTurnedAway
<1> QED
  BY <1>0, <1>1, CalmRowFollows DEF Claim, TurnAway

\* The sweep of expired offers and stuck waves.
LEMMA SweepFollows ==
    ASSUME IInv,
           \/ \E j \in Jobs : SweepLists(j) \/ \E e \in Emps : ExpireOffer(j, e)
           \/ SweepChecks \/ SweepResets
    PROVE  RowsFollow
<1>1. CASE SweepChecks \/ \E j \in Jobs : SweepLists(j)
  BY <1>1, SameRowsFollow DEF SweepChecks, SweepLists
<1>2. ASSUME NEW j \in Jobs, NEW e \in Emps, ExpireOffer(j, e)
      PROVE  RowsFollow
  <2> DEFINE r == CloseOffers(job[j], {e}, "EXPIRED")
             q == IF OpenOffers(r) = {} THEN ResetState(r) ELSE r
  <2>1. job' = [job EXCEPT ![j] = q]
    BY <1>2 DEF ExpireOffer
  <2>2. Calm(r, job[j]) /\ r \in JobRow
    BY RowsAreRows, CalmCloseOffers DEF OfferStatus, Calm
  <2>3. Calm(ResetState(r), job[j])
    BY <2>2, CalmResetState, CalmChain
  <2> QED
    BY <2>1, <2>2, <2>3, CalmRowFollows
<1>3. CASE SweepResets
  <2> DEFINE j == sweeper.job
  <2>1. job' = [job EXCEPT ![j] = ResetState(job[j])]
    BY <1>3 DEF SweepResets
  <2>2. j \in Jobs => Calm(ResetState(job[j]), job[j])
    BY RowsAreRows, CalmResetState
  <2> QED
    BY <2>1, <2>2, CalmRowFollows
<1> QED
  BY <1>1, <1>2, <1>3

\* Time running out on a wave is calm.
LEMMA CalmExpired ==
    ASSUME NEW r \in JobRow
    PROVE  /\ Calm([r EXCEPT !.live = FALSE], r)
           /\ [r EXCEPT !.live = FALSE].status = r.status
  BY DEF Calm, JobRow, Offered

\* The clocks.
LEMMA ClockFollows ==
    ASSUME IInv, NEW j \in Jobs,
           WindowMoves(j) \/ WaveExpires(j) \/ ClaimAges(j) \/ RetryFallsDue(j)
    PROVE  RowsFollow
<1>1. /\ \A x \in {"open", "closed", "past"} : Calm([job[j] EXCEPT !.window = x], job[j])
      /\ Calm([job[j] EXCEPT !.live = FALSE], job[j])
      /\ Calm([job[j] EXCEPT !.fresh = FALSE], job[j])
      /\ Calm([job[j] EXCEPT !.due = TRUE], job[j])
  BY RowsAreRows DEF Calm, JobRow, Offered
<1> QED
  BY <1>1, CalmRowFollows DEF WindowMoves, WaveExpires, ClaimAges, RetryFallsDue

-----------------------------------------------------------------------------
(***************************************************************************)
(* Steps of technicians.                                                   *)
(***************************************************************************)

\* Rows healed by a lookup before anything else happens.
LEMMA HealedRows ==
    ASSUME IInv, NEW K
    PROVE  \A k \in Jobs : /\ Sound(Healed(job, K)[k])
                           /\ Healed(job, K)[k] \in JobRow
                           /\ Calm(Healed(job, K)[k], job[k])
                           /\ Healed(job, K)[k].status = job[k].status
<1> SUFFICES ASSUME NEW k \in Jobs
             PROVE  /\ Sound(Healed(job, K)[k])
                    /\ Healed(job, K)[k] \in JobRow
                    /\ Calm(Healed(job, K)[k], job[k])
                    /\ Healed(job, K)[k].status = job[k].status
  OBVIOUS
<1>1. Calm(Healed(job, K)[k], job[k])
  BY RowsAreRows, CalmHealed
<1>2. Healed(job, K)[k].status = job[k].status
  BY RowsAreRows DEF Healed, JobRow
<1> QED
  BY <1>1, <1>2, RowsAreRows, CalmKeepsSound DEF Calm

\* Acceptance: the job taken, the jobs superseded, the rows the lookup healed.
LEMMA AcceptFollows ==
    ASSUME IInv, NEW e \in Emps, NEW j \in Jobs, Accept(e, j)
    PROVE  RowsFollow
<1>1. PICK K :
        \E rows : /\ DOMAIN rows = Jobs
                  /\ rows = [k \in Jobs |-> rows[k]]
                  /\ \A k \in Jobs : rows[k] \in IF k = j THEN {Accepted(Healed(job, K)[j], e)}
                                                 ELSE Superseded(Healed(job, K)[k], e)
                  /\ job' = rows
  <2>1. PICK seen \in Lookups(job, {e}) :
          LET table == HealedBy(job, seen)
              rest(k) == IF k = j THEN {Accepted(table[j], e)} ELSE Superseded(table[k], e)
          IN \E rows \in [Jobs -> UNION {rest(k) : k \in Jobs}] :
                /\ \A k \in Jobs : rows[k] \in rest(k)
                /\ job' = rows
    BY DEF Accept
  <2> WITNESS {seen[d] : d \in DOMAIN seen}
  <2> HIDE DEF HealedBy, Healed
  <2> QED
    BY <2>1 DEF HealedBy
<1>2. job' = [k \in Jobs |-> job'[k]]
  BY <1>1
<1>3. \A k \in Jobs : job'[k] \in IF k = j THEN {Accepted(Healed(job, K)[j], e)}
                                  ELSE Superseded(Healed(job, K)[k], e)
  BY <1>1
<1>4. \A k \in Jobs : Sound(job'[k]) /\ (job[k].status = "cancelled" => Calm(job'[k], job[k]))
  <2> SUFFICES ASSUME NEW k \in Jobs
               PROVE  Sound(job'[k]) /\ (job[k].status = "cancelled" => Calm(job'[k], job[k]))
    OBVIOUS
  <2> DEFINE h == Healed(job, K)[k]
  <2>1. Sound(h) /\ Calm(h, job[k]) /\ h.status = job[k].status
    BY HealedRows
  <2> HIDE DEF h
  <2>2. CASE k = j
    <3>1. job[k].status # "cancelled"
      BY <2>2, CancelledIsFinal DEF Accept
    <3>2. job'[k] = Accepted(h, e)
      BY <1>3, <2>2 DEF h
    <3> QED
      BY <2>1, <3>1, <3>2, SoundAccepted
  <2>3. CASE k # j
    <3>1. job'[k] \in Superseded(h, e)
      BY <1>3, <2>3 DEF h
    <3> QED
      BY <2>1, <3>1, SoundSuperseded, CalmChain
  <2> QED
    BY <2>2, <2>3
<1> QED
  BY <1>2, <1>4 DEF RowsFollow, Sound

\* An acceptance that comes too late dispatches the job again.
LEMMA AcceptTooLateFollows ==
    ASSUME IInv, NEW e \in Emps, NEW j \in Jobs, AcceptTooLate(e, j)
    PROVE  RowsFollow
<1>1. PICK seen \in Lookups(job, {e}) :
        LET table == HealedBy(job, seen)
            late == CloseOffers([table[j] EXCEPT !.live = FALSE], {e}, "EXPIRED")
        IN \E row \in DispatchOutcomes(late, {}) : job' = [table EXCEPT ![j] = row]
  BY DEF AcceptTooLate
<1> DEFINE K == {seen[d] : d \in DOMAIN seen}
           table == Healed(job, K)
           stale == [table[j] EXCEPT !.live = FALSE]
           late == CloseOffers(stale, {e}, "EXPIRED")
<1>2. PICK row \in DispatchOutcomes(late, {}) : job' = [table EXCEPT ![j] = row]
  BY <1>1 DEF HealedBy
<1>3. /\ \A k \in Jobs : Sound(table[k]) /\ table[k] \in JobRow /\ Calm(table[k], job[k])
      /\ table[j].status = job[j].status
      /\ DOMAIN table = Jobs
  BY HealedRows DEF Healed
<1> HIDE DEF table
<1>4. Calm(stale, table[j]) /\ stale \in JobRow /\ stale.status = job[j].status
  BY <1>3, CalmExpired DEF Calm
<1> HIDE DEF stale
<1>5. Calm(late, stale) /\ late.status = stale.status
  <2>1. Calm(late, stale)
    BY <1>4, CalmCloseOffers DEF OfferStatus
  <2> QED
    BY <2>1, <1>4 DEF CloseOffers, JobRow
<1> HIDE DEF late
<1>6. Calm(late, job[j]) /\ Sound(late)
  BY <1>3, <1>4, <1>5, CalmChain, CalmKeepsSound
<1>7. Sound(row) /\ (job[j].status = "cancelled" => Calm(row, job[j]))
  BY <1>4, <1>5, <1>6, SoundDispatchOutcomes, CalmChain
<1>8. \A k \in Jobs : job'[k] = IF k = j THEN row ELSE table[k]
  BY <1>2, <1>3
<1>9. job' = [k \in Jobs |-> job'[k]]
  BY <1>2, <1>3
<1> QED
  BY <1>3, <1>7, <1>8, <1>9 DEF RowsFollow, Sound

\* A rejection, in time or too late.
LEMMA RejectFollows ==
    ASSUME IInv, NEW e \in Emps, NEW j \in Jobs, Reject(e, j) \/ RejectTooLate(e, j)
    PROVE  RowsFollow
<1>1. CASE RejectTooLate(e, j)
  <2>1. Calm(CloseOffers(job[j], {e}, "EXPIRED"), job[j])
    BY RowsAreRows, CalmCloseOffers DEF OfferStatus
  <2> QED
    BY <1>1, <2>1, CalmRowFollows DEF RejectTooLate
<1>2. CASE Reject(e, j)
  <2> DEFINE r == CloseOffers(job[j], {e}, "REJECTED")
             released == IF OpenOffers(r) = {} THEN ResetState(r) ELSE r
             q == [released EXCEPT
                    !.declined = @ \cup {e},
                    !.assigned = IF @ = e THEN None ELSE @,
                    !.empJob[e] = IF @ = "completed" THEN @ ELSE "none"]
  <2>1. Calm(r, job[j]) /\ r \in JobRow
    BY RowsAreRows, CalmCloseOffers DEF OfferStatus, Calm
  <2>2. Calm(released, job[j]) /\ released \in JobRow
    BY <2>1, CalmResetState, CalmChain DEF Calm
  <2>3. job' = [job EXCEPT ![j] = q]
    BY <1>2 DEF Reject
  <2> HIDE DEF released
  <2>4. Calm(q, released)
    BY <2>2, WrittenStatuses DEF Calm, JobRow, Offered
  <2>5. Calm(q, job[j])
    BY <2>2, <2>4, CalmChain
  <2> QED
    BY <2>3, <2>5, CalmRowFollows
<1> QED
  BY <1>1, <1>2

\* A cancelled assignment, with the dispatch inside it.
LEMMA CancelAssignmentFollows ==
    ASSUME IInv, NEW e \in Emps, NEW j \in Jobs, CancelAssignment(e, j)
    PROVE  RowsFollow
<1> DEFINE free == [job[j] EXCEPT !.assigned = None]
           left == ApplyTransition(free, "redispatching")
           closed == [left EXCEPT !.offer[e] = IF @ = "ACCEPTED" THEN "CANCELLED" ELSE @]
<1>1. PICK K : \E row \in DispatchOutcomes(closed, {e}) :
                  job' = [Healed([job EXCEPT ![j] = closed], K) EXCEPT ![j] = row]
  <2>1. PICK seen : \E row \in DispatchOutcomes(closed, {e}) :
                  job' = [HealedBy([job EXCEPT ![j] = closed], seen) EXCEPT ![j] = row]
    BY DEF CancelAssignment
  <2> QED
    BY <2>1 DEF HealedBy
<1>2. PICK row \in DispatchOutcomes(closed, {e}) :
        job' = [Healed([job EXCEPT ![j] = closed], K) EXCEPT ![j] = row]
  BY <1>1
<1>3. Calm(free, job[j]) /\ free \in JobRow
  BY RowsAreRows DEF Calm, JobRow, Offered
<1> HIDE DEF free
<1>4. Calm(left, free) /\ left \in JobRow
  BY <1>3, CalmApplyTransition, WrittenStatuses DEF Calm
<1> HIDE DEF left
<1>5. Calm(closed, left)
  BY <1>4 DEF Calm, JobRow, Offered, OfferStatus
<1> HIDE DEF closed
<1>6. Calm(closed, job[j]) /\ Sound(closed)
  BY <1>3, <1>4, <1>5, CalmChain, CalmKeepsSound, RowsAreRows
<1>7. Sound(row)
  BY <1>6, SoundDispatchOutcomes
<1>8. job[j].status # "cancelled"
  BY DEF CancelAssignment
<1> QED
  BY <1>2, <1>6, <1>7, <1>8, HealedRowFollows

\* A technician's cancellation, with the dispatch inside it.
LEMMA TechnicianCancelFollows ==
    ASSUME IInv, NEW e \in Emps, NEW j \in Jobs, TechnicianCancel(e, j)
    PROVE  RowsFollow
<1> DEFINE left == [job[j] EXCEPT
                     !.assigned = None, !.status = "confirmed",
                     !.offer[e] = IF @ = "none" THEN @ ELSE "CANCELLED",
                     !.empJob[e] = IF @ = "none" THEN @ ELSE "cancelled"]
<1>1. PICK K : \E row \in DispatchOrRetry(left, {e}) :
                  job' = [Healed([job EXCEPT ![j] = left], K) EXCEPT ![j] = row]
  <2>1. PICK seen : \E row \in DispatchOrRetry(left, {e}) :
                  job' = [HealedBy([job EXCEPT ![j] = left], seen) EXCEPT ![j] = row]
    BY DEF TechnicianCancel
  <2> QED
    BY <2>1 DEF HealedBy
<1>2. PICK row \in DispatchOrRetry(left, {e}) :
        job' = [Healed([job EXCEPT ![j] = left], K) EXCEPT ![j] = row]
  BY <1>1
<1>3. Calm(left, job[j])
  <2>1. job[j] \in JobRow
    BY RowsAreRows
  <2>2. left \in JobRow
    BY <2>1, WrittenStatuses DEF JobRow, OfferStatus
  <2>3. left.assigned = None /\ \A d \in Emps : left.offer[d] \in {job[j].offer[d], "CANCELLED"}
    BY <2>1 DEF JobRow
  <2> QED
    BY <2>2, <2>3 DEF Calm, Offered
<1> HIDE DEF left
<1>4. Sound(left)
  BY <1>3, CalmKeepsSound, RowsAreRows
<1>5. Sound(row)
  BY <1>4, SoundDispatch
<1>6. job[j].status # "cancelled"
  BY DEF TechnicianCancel
<1> QED
  BY <1>2, <1>3, <1>5, <1>6, HealedRowFollows

-----------------------------------------------------------------------------
(***************************************************************************)
(* Steps of customers and of the requests that work on a copy.             *)
(***************************************************************************)

\* The two writes of a cancellation by the customer.
LEMMA CustomerFollows ==
    ASSUME IInv, NEW j \in Jobs, CustomerWritesCancelled(j) \/ CustomerCancelSync(j)
    PROVE  RowsFollow
<1>1. CASE CustomerWritesCancelled(j)
  <2>1. Calm([job[j] EXCEPT !.status = "cancelled"], job[j])
    BY RowsAreRows, WrittenStatuses DEF Calm, JobRow, Offered
  <2> QED
    BY <1>1, <2>1, CalmRowFollows DEF CustomerWritesCancelled
<1>2. CASE CustomerCancelSync(j)
  <2> DEFINE r == ApplyTransition(job[j], "cancelled")
             closed == SetState(CloseOffers(r, Emps, "CANCELLED"), "CANCELLED")
             q == [closed EXCEPT !.empJob = [d \in Emps |->
                     IF @[d] \in {"none", "completed"} THEN @[d] ELSE "cancelled"]]
  <2>1. PICK K : job' = Healed([job EXCEPT ![j] = q], K)
    <3>1. PICK seen : job' = HealedBy([job EXCEPT ![j] = q], seen)
      BY <1>2 DEF CustomerCancelSync
    <3> QED
      BY <3>1 DEF HealedBy
  <2>2. Calm(r, job[j]) /\ r \in JobRow
    BY RowsAreRows, CalmApplyTransition, WrittenStatuses DEF Calm
  <2> HIDE DEF r
  <2>3. Calm(closed, r) /\ closed \in JobRow
    <3>1. Calm(CloseOffers(r, Emps, "CANCELLED"), r)
      BY <2>2, CalmCloseOffers DEF OfferStatus
    <3>2. Calm(closed, CloseOffers(r, Emps, "CANCELLED"))
      BY <3>1, CalmSetState DEF Calm, DispatchStatus
    <3> QED
      BY <3>1, <3>2, CalmChain DEF Calm
  <2> HIDE DEF closed
  <2>4. Calm(q, closed)
    BY <2>3, WrittenStatuses DEF Calm, JobRow, Offered
  <2> HIDE DEF q
  <2>5. Calm(q, job[j]) /\ Sound(q)
    BY <2>2, <2>3, <2>4, CalmChain, CalmKeepsSound, RowsAreRows
  <2> QED
    BY <2>1, <2>5, HealedRowFollows
<1> QED
  BY <1>1, <1>2

\* The reads of a job by the requests that write its status later.
CopiesJob(h, j) ==
    \/ AdminReads(h, j) \/ NoShowReads(h, j)
    \/ \E target \in ProgressStatuses : SuperuserReads(h, j, target)
    \/ \E e \in Emps, target \in ProgressStatuses : TransitionReads(h, e, j, target)

\* They change no row.
LEMMA RequestReadsFollow ==
    ASSUME IInv, NEW h \in Handlers, NEW j \in Jobs, CopiesJob(h, j)
    PROVE  RowsFollow
  BY SameRowsFollow
     DEF CopiesJob, AdminReads, NoShowReads, SuperuserReads, TransitionReads

\* The statements of a reconciliation outside a transaction.
Reconciliation(h) ==
    \/ ReadsEmployee(h) \/ LooksUp(h) \/ ReconcileSaves(h)
    \/ \E e \in Emps : Presence(h, e)

\* They touch rows by the lookup only.
LEMMA ReconciliationFollows ==
    ASSUME IInv, NEW h \in Handlers, Reconciliation(h)
    PROVE  RowsFollow
<1>1. CASE LooksUp(h)
  <2>1. PICK K : job' = Healed(job, K)
    <3>1. PICK seen : job' = HealedBy(job, seen)
      BY <1>1 DEF LooksUp
    <3> QED
      BY <3>1 DEF HealedBy
  <2> QED
    BY <2>1, HealedRows DEF RowsFollow, Healed
<1>2. CASE ~ LooksUp(h)
  BY <1>2, SameRowsFollow DEF Reconciliation, ReadsEmployee, ReconcileSaves, Presence
<1> QED
  BY <1>1, <1>2

\* Writing a status from a copy is calm, however old the copy.
LEMMA RequestWritesFollows ==
    ASSUME IInv, NEW h \in Handlers, RequestWrites(h)
    PROVE  RowsFollow
<1> DEFINE j == request[h].job
           r == IF request[h].kind = "noshow" THEN [job[j] EXCEPT !.assigned = None]
                                              ELSE job[j]
           q == Moved(r, request[h].target)
<1>1. job' = [job EXCEPT ![j] = q]
  BY DEF RequestWrites
<1>2. request[h].target \in JobStatuses /\ j \in Jobs \cup {None}
  BY DEF IInv, ProcessesOK, Copies
<1>3. CASE j \in Jobs
  <2>1. Calm(r, job[j]) /\ r \in JobRow
    BY <1>3, RowsAreRows DEF Calm, JobRow, Offered
  <2> HIDE DEF r
  <2>2. Calm(q, job[j])
    BY <1>2, <2>1, CalmMoved, CalmChain
  <2> QED
    BY <1>1, <2>2, CalmRowFollows
<1>4. CASE j \notin Jobs
  BY <1>1, <1>4, CalmRowFollows
<1> QED
  BY <1>3, <1>4

-----------------------------------------------------------------------------
(***************************************************************************)
(* The theorems.                                                           *)
(***************************************************************************)

\* Every step leaves every row sound, and opens no offer of a cancelled job.
LEMMA StepFollows ==
    ASSUME IInv, [Next]_vars
    PROVE  RowsFollow
<1>1. CASE UNCHANGED vars
  BY <1>1, SameRowsFollow DEF vars
<1>2. ASSUME NEW w \in Workers, WorkerStep(w) \/ Crash(w)
      PROVE  RowsFollow
  BY <1>2, WorkerFollows
<1>3. ASSUME NEW w \in Workers, NEW j \in Jobs, NEW force \in BOOLEAN,
             SweepFinds(w, j) \/ Claim(w, j, force) \/ TurnAway(w, j, force)
      PROVE  RowsFollow
  BY <1>3, CallFollows
<1>4. ASSUME NEW e \in Emps, NEW j \in Jobs, TechnicianStep(e, j) \/ ExpireOffer(j, e)
      PROVE  RowsFollow
  BY <1>4, AcceptFollows, AcceptTooLateFollows, RejectFollows, CancelAssignmentFollows,
     TechnicianCancelFollows, SweepFollows DEF TechnicianStep
<1>5. CASE (\E j \in Jobs : SweepLists(j)) \/ SweepChecks \/ SweepResets
  BY <1>5, SweepFollows
<1>6. ASSUME NEW j \in Jobs, CustomerWritesCancelled(j) \/ CustomerCancelSync(j)
      PROVE  RowsFollow
  BY <1>6, CustomerFollows
<1>7. ASSUME NEW h \in Handlers, NEW j \in Jobs, CopiesJob(h, j)
      PROVE  RowsFollow
  BY <1>7, RequestReadsFollow
<1>8. ASSUME NEW h \in Handlers, RequestWrites(h) \/ Reconciliation(h)
      PROVE  RowsFollow
  BY <1>8, RequestWritesFollows, ReconciliationFollows
<1>9. ASSUME NEW j \in Jobs,
             WindowMoves(j) \/ WaveExpires(j) \/ ClaimAges(j) \/ RetryFallsDue(j)
      PROVE  RowsFollow
  BY <1>9, ClockFollows
<1> QED
  BY <1>1, <1>2, <1>3, <1>4, <1>5, <1>6, <1>7, <1>8, <1>9
     DEF Next, CopiesJob, Reconciliation

\* A process between two calls holds nothing.
LEMMA IdleProcesses ==
    /\ IdleWorker \in Held
    /\ IdleSweeper \in [pc : {"idle", "listed", "decided"}, job : Jobs \cup {None}]
    /\ NoRequest \in Copies
<1>1. IsWave({})
  BY FS_EmptySet, DispatchAssumption DEF IsWave
<1> QED
  BY <1>1, WrittenStatuses DEF Held, IdleWorker, IdleSweeper, Copies, NoRequest

\* A reconciled availability is one of the two values.
LEMMA AvailabilityTyped ==
    ASSUME IInv, NEW f, NEW seen
    PROVE  Availability(f, seen) \in [Emps -> {"available", "busy"}]
  BY DEF IInv, ProcessesOK, Availability

\* Every step leaves the processes what they may hold.
LEMMA StepKeepsProcesses ==
    ASSUME IInv, [Next]_vars
    PROVE  ProcessesOK'
<1> USE DEF ProcessesOK
<1>0. ProcessesOK
  BY DEF IInv
<1>1. CASE UNCHANGED vars
  BY <1>0, <1>1 DEF vars
<1>2. ASSUME NEW w \in Workers, WorkerStep(w) \/ Crash(w)
      PROVE  ProcessesOK'
  <2>1. CASE Evaluate(w)
    <3>1. PICK wave \in Waves(job[worker[w].job], {}) :
            worker' = [worker EXCEPT ![w].pc = "evaluated", ![w].wave = wave]
      BY <2>1 DEF Evaluate
    <3>2. IsWave(wave)
      BY SmallWaves
    <3>3. worker' \in [Workers -> Held]
      BY <1>0, <3>1, <3>2 DEF Held, IsWave
    <3> QED
      BY <1>0, <2>1, <3>3 DEF Evaluate
  <2>2. CASE EvaluateFails(w)
    BY <1>0, <2>2, IdleProcesses DEF EvaluateFails
  <2>3. CASE Finalize(w)
    BY <1>0, <2>3, IdleProcesses DEF Finalize
  <2>4. CASE Crash(w)
    <3>1. crashes' \in 0..MaxCrashes
      BY <1>0, <2>4, DispatchAssumption DEF Crash
    <3> QED
      BY <1>0, <2>4, <3>1, IdleProcesses DEF Crash
  <2>5. CASE MarksExpired(w)
    BY <1>0, <2>5, IdleProcesses DEF MarksExpired
  <2> QED
    BY <1>2, <2>1, <2>2, <2>3, <2>4, <2>5 DEF WorkerStep
<1>3. ASSUME NEW w \in Workers, NEW j \in Jobs, NEW force \in BOOLEAN,
             SweepFinds(w, j) \/ Claim(w, j, force) \/ TurnAway(w, j, force)
      PROVE  ProcessesOK'
  <2>1. \A pc \in {"claimed", "expiring"} : [IdleWorker EXCEPT !.pc = pc, !.job = j] \in Held
    BY IdleProcesses DEF Held
  <2> QED
    BY <1>0, <1>3, <2>1 DEF SweepFinds, Claim, TurnAway
<1>4. ASSUME NEW e \in Emps, NEW j \in Jobs, TechnicianStep(e, j)
      PROVE  ProcessesOK'
  <2>1. CASE Accept(e, j)
    <3>1. avail' \in [Emps -> {"available", "busy"}]
      BY <1>0, <2>1 DEF Accept
    <3>2. UNCHANGED <<worker, sweeper, request, crashes, resumed>> /\ overtaken' \subseteq Emps
      BY <1>0, <2>1 DEF Accept
    <3> QED
      BY <1>0, <3>1, <3>2
  <2>2. CASE AcceptTooLate(e, j)
    BY <1>0, <2>2 DEF AcceptTooLate
  <2>3. CASE Reject(e, j) \/ RejectTooLate(e, j)
    BY <1>0, <2>3 DEF Reject, RejectTooLate
  <2>4. CASE CancelAssignment(e, j)
    <3>1. \E f, seen : avail' = Availability(f, seen)
      BY <2>4 DEF CancelAssignment
    <3>2. UNCHANGED <<worker, sweeper, request, crashes, resumed, overtaken>>
      BY <2>4 DEF CancelAssignment
    <3> QED
      BY <1>0, <3>1, <3>2, AvailabilityTyped
  <2>5. CASE TechnicianCancel(e, j)
    <3>1. \E f, seen : avail' = Availability(f, seen)
      BY <2>5 DEF TechnicianCancel
    <3>2. UNCHANGED <<worker, sweeper, request, crashes, resumed, overtaken>>
      BY <2>5 DEF TechnicianCancel
    <3> QED
      BY <1>0, <3>1, <3>2, AvailabilityTyped
  <2> QED
    BY <1>4, <2>1, <2>2, <2>3, <2>4, <2>5 DEF TechnicianStep
<1>5. ASSUME NEW e \in Emps, NEW j \in Jobs, ExpireOffer(j, e)
      PROVE  ProcessesOK'
  BY <1>0, <1>5 DEF ExpireOffer
<1>6. CASE (\E j \in Jobs : SweepLists(j)) \/ SweepChecks \/ SweepResets
  <2>1. sweeper' \in [pc : {"idle", "listed", "decided"}, job : Jobs \cup {None}]
    BY <1>0, <1>6, IdleProcesses DEF SweepLists, SweepChecks, SweepResets
  <2>2. UNCHANGED <<avail, worker, request, crashes, resumed, overtaken>>
    BY <1>6 DEF SweepLists, SweepChecks, SweepResets
  <2> QED
    BY <1>0, <2>1, <2>2
<1>7. ASSUME NEW j \in Jobs, CustomerWritesCancelled(j) \/ CustomerCancelSync(j)
      PROVE  ProcessesOK'
  <2>1. CASE CustomerWritesCancelled(j)
    BY <1>0, <2>1 DEF CustomerWritesCancelled
  <2>2. CASE CustomerCancelSync(j)
    <3>1. \E f, seen : avail' = Availability(f, seen)
      BY <2>2 DEF CustomerCancelSync
    <3>2. UNCHANGED <<worker, sweeper, request, crashes, resumed, overtaken>>
      BY <2>2 DEF CustomerCancelSync
    <3> QED
      BY <1>0, <3>1, <3>2, AvailabilityTyped
  <2> QED
    BY <1>7, <2>1, <2>2
<1>8. ASSUME NEW h \in Handlers, NEW j \in Jobs, CopiesJob(h, j)
      PROVE  ProcessesOK'
  <2>1. job[j].assigned \in Emps \cup {None} /\ job[j].status \in JobStatuses
    BY DEF IInv, JobRow
  <2>2. \E r \in Copies : request' = [request EXCEPT ![h] = r]
    <3>1. ASSUME NEW kind \in Moving, NEW read \in JobStatuses, NEW target \in JobStatuses,
                 NEW d \in Emps \cup {None}
          PROVE  [kind |-> kind, job |-> j, read |-> read, target |-> target,
                  assigned |-> d] \in Copies
      BY DEF Copies
    <3>2. CASE AdminReads(h, j)
      BY <2>1, <3>1, <3>2, WrittenStatuses DEF AdminReads, Moving
    <3>3. CASE NoShowReads(h, j)
      BY <2>1, <3>1, <3>3, WrittenStatuses DEF NoShowReads, Moving
    <3>4. ASSUME NEW e \in Emps, NEW target \in ProgressStatuses, TransitionReads(h, e, j, target)
          PROVE  \E r \in Copies : request' = [request EXCEPT ![h] = r]
      BY <2>1, <3>1, <3>4, DispatchAssumption DEF TransitionReads, Moving
    <3>5. ASSUME NEW target \in ProgressStatuses, SuperuserReads(h, j, target)
          PROVE  \E r \in Copies : request' = [request EXCEPT ![h] = r]
      BY <2>1, <3>1, <3>5, DispatchAssumption DEF SuperuserReads, Moving
    <3> QED
      BY <1>8, <3>2, <3>3, <3>4, <3>5 DEF CopiesJob
  <2>3. UNCHANGED <<avail, worker, sweeper, crashes, resumed, overtaken>>
    BY <1>8 DEF CopiesJob, AdminReads, NoShowReads, SuperuserReads, TransitionReads
  <2> QED
    BY <1>0, <2>2, <2>3
<1>9. ASSUME NEW h \in Handlers, RequestWrites(h)
      PROVE  ProcessesOK'
  <2>1. \E r \in Copies : request' = [request EXCEPT ![h] = r]
    <3>1. request[h].assigned \in Emps \cup {None}
      BY <1>0 DEF Copies
    <3>2. [NoRequest EXCEPT !.kind = "reconcile", !.assigned = request[h].assigned] \in Copies
      BY <3>1, IdleProcesses DEF Copies, Reconciling
    <3> QED
      BY <1>9, <3>2, IdleProcesses DEF RequestWrites
  <2>2. /\ UNCHANGED <<avail, worker, sweeper, crashes, overtaken>>
        /\ resumed' \subseteq Jobs
    BY <1>0, <1>9 DEF RequestWrites, Resumes
  <2> QED
    BY <1>0, <2>1, <2>2
<1>11. ASSUME NEW h \in Handlers, Reconciliation(h)
       PROVE  ProcessesOK'
  <2>1. \E r \in Copies : request' = [request EXCEPT ![h] = r]
    <3>0. request[h] \in Copies /\ DOMAIN request = Handlers
      BY <1>0
    <3>1. ASSUME NEW e \in Emps \cup {None}
          PROVE  Reads(e) \in Copies
      BY <3>1, IdleProcesses DEF Reads, Copies, Reconciling
    <3>2. CASE ReadsEmployee(h) \/ \E e \in Emps : Presence(h, e)
      BY <3>0, <3>1, <3>2 DEF ReadsEmployee, Presence, Copies
    <3>3. \A kind \in Reconciling : [request[h] EXCEPT !.kind = kind] \in Copies
      BY <3>0 DEF Copies
    <3>4. CASE LooksUp(h)
      <4>1. \E kind \in {"frees", "occupies"} :
               request' \in {[request EXCEPT ![h] = NoRequest],
                             [request EXCEPT ![h] = [@ EXCEPT !.kind = kind]]}
        BY <3>4 DEF LooksUp
      <4> QED
        BY <3>0, <3>3, <4>1, IdleProcesses DEF Reconciling
    <3>5. CASE ReconcileSaves(h)
      BY <3>5, IdleProcesses DEF ReconcileSaves
    <3> QED
      BY <1>11, <3>2, <3>4, <3>5 DEF Reconciliation
  <2>2. avail' \in [Emps -> {"available", "busy"}]
    BY <1>0, <1>11 DEF Reconciliation, ReadsEmployee, LooksUp, ReconcileSaves, Presence
  <2>3. UNCHANGED <<worker, sweeper, crashes, resumed, overtaken>>
    BY <1>11 DEF Reconciliation, ReadsEmployee, LooksUp, ReconcileSaves, Presence
  <2> QED
    BY <1>0, <2>1, <2>2, <2>3
<1>10. ASSUME NEW j \in Jobs,
              WindowMoves(j) \/ WaveExpires(j) \/ ClaimAges(j) \/ RetryFallsDue(j)
       PROVE  ProcessesOK'
  BY <1>0, <1>10 DEF WindowMoves, WaveExpires, ClaimAges, RetryFallsDue
<1> QED
  BY <1>1, <1>2, <1>3, <1>4, <1>5, <1>6, <1>7, <1>8, <1>9, <1>10, <1>11
     DEF Next, CopiesJob, Reconciliation

\* The inductive invariant: rows are sound, and what workers hold is a wave.
THEOREM Invariance == Spec => []IInv
<1>1. Init => IInv
  <2> SUFFICES ASSUME Init PROVE IInv
    OBVIOUS
  <2>1. ASSUME NEW b \in BOOLEAN
        PROVE  /\ NewJob(b) \in JobRow
               /\ Offered(NewJob(b)) = {} /\ NewJob(b).assigned = None
    BY WrittenStatuses DEF NewJob, JobRow, Offered, OfferStatus, DispatchStatus
  <2>2. \A b \in BOOLEAN : Sound(NewJob(b))
    BY <2>1, FS_EmptySet, DispatchAssumption DEF Sound
  <2>3. ProcessesOK
    BY IdleProcesses, DispatchAssumption DEF Init, ProcessesOK
  <2> QED
    BY <2>1, <2>2, <2>3 DEF IInv, Init
<1>2. IInv /\ [Next]_vars => IInv'
  BY StepFollows, StepKeepsProcesses DEF IInv, RowsFollow
<1> QED
  BY <1>1, <1>2, PTL DEF Spec

\* Every variable has its type, for every value of the constants.
THEOREM TypeCorrect == Spec => []TypeOK
<1>1. IInv => TypeOK
  BY DEF IInv, ProcessesOK, TypeOK, Held, Copies
<1> QED
  BY <1>1, Invariance, PTL

\* A job held by a technician is offered to nobody, however many workers
\* evaluate it while it is accepted.
THEOREM NoOfferOfTakenJobs == Spec => []TakenJobHasNoOffer
<1>1. IInv => TakenJobHasNoOffer
  BY DEF IInv, Sound, TakenJobHasNoOffer
<1> QED
  BY <1>1, Invariance, PTL

\* Workers that evaluated a job at the same time leave one wave of offers.
THEOREM OneWaveAtMost == Spec => []OneWave
<1>1. IInv => OneWave
  BY DEF IInv, Sound, OneWave
<1> QED
  BY <1>1, Invariance, PTL

\* No step of any process makes an offer of a cancelled job.
THEOREM NoOfferOfCancelledJobs == Spec => CancelledGetsNoOffer
<1>1. IInv /\ [Next]_vars =>
        [\A j \in Jobs : job[j].status = "cancelled"
            => Offered(job'[j]) \subseteq Offered(job[j])]_vars
  BY StepFollows DEF RowsFollow, Calm
<1> QED
  BY <1>1, Invariance, PTL DEF Spec, CancelledGetsNoOffer

-----------------------------------------------------------------------------
(***************************************************************************)
(* Who has active work.  No technician is given a second active job, and   *)
(* one who has an active job reads busy, except for jobs that a status     *)
(* write made active again and for acceptances that a lookup missed.       *)
(*                                                                         *)
(* An acceptance apart, statements let a row rest: they make nobody active *)
(* on it.                                                                  *)
(***************************************************************************)

\* q may follow r without a look at who has active work.
Rests(q, r) ==
    q.assigned # None /\ q.status \in WorkloadOccupied
        => q.assigned = r.assigned /\ r.status \in WorkloadOccupied

\* The technician and the status stay.
Keeps(q, r) == q.assigned = r.assigned /\ q.status = r.status

-----------------------------------------------------------------------------
(***************************************************************************)
(* What statements do to a row.                                            *)
(***************************************************************************)

\* Statements that let a row rest compose.
LEMMA RestsChain ==
    ASSUME NEW p, NEW q, NEW r, Rests(p, q), Rests(q, r)
    PROVE  Rests(p, r)
  BY DEF Rests

LEMMA KeepsRests ==
    ASSUME NEW q, NEW r, Keeps(q, r)
    PROVE  Rests(q, r)
  BY DEF Keeps, Rests

\* The dispatch state and the offers say nothing of the technician.
LEMMA RowKept ==
    ASSUME NEW r \in JobRow
    PROVE  /\ \A s : Keeps(SetState(r, s), r)
           /\ Keeps(ResetState(r), r) /\ Keeps(RetryLater(r), r)
           /\ \A S, s : Keeps(CloseOffers(r, S, s), r)
<1>1. \A s : Keeps(SetState(r, s), r)
  BY DEF SetState, Keeps, JobRow
<1>2. Keeps(ResetState(r), r) /\ Keeps(RetryLater(r), r)
  BY DEF ResetState, RetryLater, Keeps, JobRow
<1>3. \A S, s : Keeps(CloseOffers(r, S, s), r)
  BY DEF CloseOffers, Keeps, JobRow
<1> QED
  BY <1>1, <1>2, <1>3

\* A transition writes the status and leaves the technician.
LEMMA RowMoved ==
    ASSUME NEW r \in JobRow, NEW target \in JobStatuses
    PROVE  /\ Moved(r, target).assigned = r.assigned
           /\ Moved(r, target).status = target
           /\ ApplyTransition(r, target).assigned = r.assigned
           /\ ApplyTransition(r, target).status = target
<1> DEFINE synced == IF target = "redispatching" THEN "employee_cancelled" ELSE target
           empJob == [e \in Emps |->
                        IF r.empJob[e] = "none" THEN "none" ELSE synced]
           moved == [r EXCEPT !.status = target, !.empJob = empJob]
<1>1. moved \in JobRow /\ moved.assigned = r.assigned /\ moved.status = target
  <2>1. empJob \in [Emps -> JobStatuses \cup {"none", "employee_cancelled"}]
    BY DEF JobRow
  <2> HIDE DEF empJob
  <2> QED
    BY <2>1 DEF JobRow
<1>2. Moved(r, target) \in {moved, SetState(moved, "COMPLETED"),
                            SetState(moved, "CANCELLED")}
  BY DEF Moved, JobRow
<1> HIDE DEF moved
<1>3. Moved(r, target).assigned = r.assigned /\ Moved(r, target).status = target
  BY <1>1, <1>2, RowKept DEF Keeps
<1> QED
  BY <1>3 DEF ApplyTransition

\* A job without coordinates is marked with a status at which nobody works.
LEMMA UnplacedRests ==
    ASSUME NEW r \in JobRow
    PROVE  Rests(Unplaced(r), r)
  BY RowMoved, WrittenStatuses DEF Unplaced, Rests, WorkloadOccupied

\* Phase 1 lets the row rest, whether it claims the job or turns the call away.
LEMMA CallRests ==
    ASSUME NEW r \in JobRow
    PROVE  Rests(Claimed(r), r) /\ Rests(TurnedAway(r), r)
<1> DEFINE u == Unplaced(r)
<1>1. u \in JobRow /\ Rests(u, r)
  BY CalmUnplaced, UnplacedRests DEF Calm
<1>2. Claimed(r) = [u EXCEPT !.dstate = "DISPATCHING", !.fresh = TRUE, !.due = TRUE]
  BY DEF Claimed
<1>3. TurnedAway(r) \in {r, u} \cup {SetState(r, s) : s \in DispatchStatus}
  BY DEF TurnedAway, DispatchStatus
<1> HIDE DEF u
<1>4. Keeps(Claimed(r), u)
  BY <1>1, <1>2 DEF Keeps, JobRow
<1>5. Keeps(r, r)
  BY DEF Keeps
<1> QED
  BY <1>1, <1>3, <1>4, <1>5, RowKept, KeepsRests, RestsChain

\* The last phase of a dispatch leaves a technician who has the job alone, and
\* gives the job to nobody.
LEMMA FinalisedRests ==
    ASSUME NEW r \in JobRow, NEW wave, IsWave(wave)
    PROVE  Rests(Finalised(r, wave), r)
<1>1. CASE r.status \in {"completed", "cancelled"} \/ r.assigned # None
  BY <1>1, RowKept, KeepsRests DEF Finalised
<1>2. CASE r.status \notin {"completed", "cancelled"} /\ r.assigned = None /\ wave = {}
  <2>1. [r EXCEPT !.status = "unassigned"] \in JobRow
        /\ [r EXCEPT !.status = "unassigned"].assigned = None
    BY <1>2, WrittenStatuses DEF JobRow
  <2> QED
    BY <1>2, <2>1, RowKept DEF Finalised, Keeps, Rests
<1>3. CASE r.status \notin {"completed", "cancelled"} /\ r.assigned = None /\ wave # {}
  <2> DEFINE swept == CloseOffers(r, Emps, "EXPIRED")
             offer == [e \in Emps |-> IF e \in wave THEN "OFFERED" ELSE swept.offer[e]]
             spent == swept.spent \cup {e \in wave : swept.offer[e] \in Excluding}
             offered == [swept EXCEPT
                !.offer = offer, !.spent = spent, !.live = TRUE,
                !.dstate = "OFFER_ACTIVE", !.fresh = FALSE, !.due = TRUE]
  <2>1. swept \in JobRow /\ swept.assigned = None
    BY <1>3, CalmCloseOffers, RowKept DEF Calm, OfferStatus, Keeps
  <2>2. NewWave(r, wave) \in {r, offered, ApplyTransition(offered, "unassigned")}
    BY <2>1 DEF NewWave, JobRow
  <2> HIDE DEF swept
  <2>5. offer \in [Emps -> OfferStatus] /\ spent \subseteq Emps
    BY <2>1 DEF JobRow, OfferStatus, IsWave
  <2> HIDE DEF offer, spent
  <2>3. offered \in JobRow /\ offered.assigned = None
    BY <2>1, <2>5 DEF JobRow, DispatchStatus
  <2> HIDE DEF offered
  <2>4. NewWave(r, wave).assigned = None
    BY <1>3, <2>2, <2>3, RowMoved, WrittenStatuses
  <2> QED
    BY <1>3, <2>4 DEF Finalised, Rests
<1> QED
  BY <1>1, <1>2, <1>3

\* So does a whole dispatch inside another transaction,
LEMMA DispatchRests ==
    ASSUME NEW r \in JobRow, NEW excluded, NEW q \in DispatchOrRetry(r, excluded)
    PROVE  Rests(q, r)
<1>1. CASE q = TurnedAway(r)
  BY <1>1, CallRests
<1>2. Claimed(r) \in JobRow /\ Rests(Claimed(r), r)
  BY CalmClaimed, CallRests DEF Calm
<1>3. ASSUME NEW wave \in Waves(r, excluded), q = Finalised(Claimed(r), wave)
      PROVE  Rests(q, r)
  BY <1>2, <1>3, SmallWaves, FinalisedRests, RestsChain
<1>4. CASE q = RetryLater(Claimed(r))
  BY <1>2, <1>4, RowKept, KeepsRests, RestsChain
<1> QED
  BY <1>1, <1>3, <1>4 DEF DispatchOrRetry, DispatchOutcomes

\* and what an acceptance does to the other jobs that were offered.
LEMMA SupersededRests ==
    ASSUME NEW r \in JobRow, NEW e, NEW q \in Superseded(r, e)
    PROVE  Rests(q, r)
<1> DEFINE rest == CloseOffers(r, {e}, "SUPERSEDED_BY_ACCEPTANCE")
<1>1. rest \in JobRow /\ Rests(rest, r)
  BY CalmCloseOffers, RowKept, KeepsRests DEF Calm, OfferStatus
<1>2. q \in {r, rest} \cup DispatchOrRetry(ResetState(rest), {})
  BY DEF Superseded
<1> HIDE DEF rest
<1>3. ResetState(rest) \in JobRow /\ Rests(ResetState(rest), r)
  BY <1>1, CalmResetState, RowKept, KeepsRests, RestsChain DEF Calm
<1> QED
  BY <1>1, <1>2, <1>3, DispatchRests, RestsChain DEF Rests

\* The accepted job is the winner's.
LEMMA AcceptedIsWinners ==
    ASSUME NEW r \in JobRow, NEW e \in Emps
    PROVE  Accepted(r, e).assigned = e
<1> DEFINE won == [r EXCEPT !.offer[e] = IF @ = "OFFERED" THEN "ACCEPTED" ELSE @,
                            !.assigned = e]
           marked == SetState(ApplyTransition(won, "accepted"), "ASSIGNED")
           closed == CloseOffers(marked, Emps \ {e}, "SUPERSEDED_BY_ACCEPTANCE")
<1>1. won \in JobRow /\ won.assigned = e
  BY DEF JobRow, OfferStatus
<1> HIDE DEF won
<1>2. marked \in JobRow /\ marked.assigned = e
  <2> DEFINE moved == ApplyTransition(won, "accepted")
  <2>1. moved \in JobRow /\ moved.assigned = e
    BY <1>1, WrittenStatuses, CalmApplyTransition, RowMoved DEF Calm
  <2> HIDE DEF moved
  <2>2. SetState(moved, "ASSIGNED") \in JobRow /\ SetState(moved, "ASSIGNED").assigned = e
    BY <2>1, CalmSetState, RowKept DEF Calm, DispatchStatus, Keeps
  <2> QED
    BY <2>2 DEF moved
<1> HIDE DEF marked
<1>3. closed \in JobRow /\ closed.assigned = e
  BY <1>2, CalmCloseOffers, RowKept DEF Calm, OfferStatus, Keeps
<1>4. Accepted(r, e) = [closed EXCEPT !.empJob[e] = "accepted"]
  BY DEF Accepted, closed, marked, won
<1> HIDE DEF closed
<1> QED
  BY <1>3, <1>4 DEF JobRow
-----------------------------------------------------------------------------
(***************************************************************************)
(* Steps.  RowsRest: an acceptance or a status write apart, nobody becomes *)
(* active.                                                                 *)
(***************************************************************************)

\* f and g are tables of jobs; those in R are not looked at.
TableRests(f, g, R) == \A k \in Jobs \ R : Rests(f[k], g[k])

RowsRest == TableRests(job', job, {})

\* A step that replaces one row.
LEMMA OneRowRests ==
    ASSUME IInv, NEW j, NEW q, job' = [job EXCEPT ![j] = q],
           j \in Jobs => Rests(q, job[j])
    PROVE  RowsRest
  BY DEF IInv, RowsRest, TableRests, Rests

\* A lookup that heals rows of a table.
LEMMA HealedKept ==
    ASSUME NEW f, \A k \in Jobs : f[k] \in JobRow, NEW K
    PROVE  \A k \in Jobs : /\ Healed(f, K)[k] \in JobRow
                           /\ Keeps(Healed(f, K)[k], f[k])
<1>1. \A k \in Jobs : Healed(f, K)[k] \in JobRow
  BY CalmHealed DEF Calm
<1>2. \A k \in Jobs : Keeps(Healed(f, K)[k], f[k])
  BY DEF Healed, Keeps, JobRow
<1> QED
  BY <1>1, <1>2

\* Row j becomes p, lookups heal rows, and row j becomes q.
LEMMA HealedRests ==
    ASSUME IInv, NEW j \in Jobs, NEW p \in JobRow, NEW q, NEW K,
           Rests(q, p),
           \/ job' = Healed([job EXCEPT ![j] = p], K)
           \/ job' = [Healed([job EXCEPT ![j] = p], K) EXCEPT ![j] = q]
    PROVE  TableRests(job', [job EXCEPT ![j] = p], {})
<1> DEFINE table == [job EXCEPT ![j] = p]
<1>1. /\ \A k \in Jobs : table[k] \in JobRow
      /\ table[j] = p
  BY DEF IInv
<1> HIDE DEF table
<1>2. \A k \in Jobs : Rests(Healed(table, K)[k], table[k])
  BY <1>1, HealedKept, KeepsRests
<1>3. DOMAIN Healed(table, K) = Jobs
  BY DEF Healed
<1>4. \A k \in Jobs : Rests(job'[k], table[k])
  <2> HIDE DEF Healed
  <2> QED
    BY <1>1, <1>2, <1>3 DEF table
<1> QED
  BY <1>4 DEF TableRests, table

\* The same against the rows before the step, where p rests.
LEMMA HealedRowsRest ==
    ASSUME IInv, NEW j \in Jobs, NEW p, TableRests(job', [job EXCEPT ![j] = p], {}),
           NEW R, j \in R \/ Rests(p, job[j])
    PROVE  TableRests(job', job, R)
<1>1. ASSUME NEW k \in Jobs \ R PROVE Rests(job'[k], job[k])
  <2>1. Rests(job'[k], [job EXCEPT ![j] = p][k])
    BY <1>1 DEF TableRests
  <2>2. Rests([job EXCEPT ![j] = p][k], job[k])
    BY <1>1 DEF IInv, Rests
  <2> QED
    BY <2>1, <2>2, RestsChain
<1> QED
  BY <1>1 DEF TableRests

\* A step that neither writes availability nor serves a request.
Undisturbed == UNCHANGED <<avail, request, resumed, overtaken>>

\* Dispatching workers, the sweep and the clocks.
LEMMA QuietRests ==
    ASSUME IInv,
           \/ \E w \in Workers : WorkerStep(w) \/ Crash(w)
           \/ \E w \in Workers, j \in Jobs, force \in BOOLEAN :
                 SweepFinds(w, j) \/ Claim(w, j, force) \/ TurnAway(w, j, force)
           \/ \E j \in Jobs : SweepLists(j) \/ \E e \in Emps : ExpireOffer(j, e)
           \/ SweepChecks \/ SweepResets
           \/ \E j \in Jobs : WindowMoves(j) \/ WaveExpires(j) \/ ClaimAges(j)
                               \/ RetryFallsDue(j)
    PROVE  RowsRest /\ Undisturbed
<1>1. ASSUME NEW r \in JobRow
      PROVE  /\ \A s : Rests(SetState(r, s), r)
             /\ Rests(ResetState(r), r) /\ Rests(RetryLater(r), r)
             /\ Rests(Claimed(r), r) /\ Rests(TurnedAway(r), r) /\ Rests(r, r)
             /\ \A x : Rests([r EXCEPT !.window = x], r)
             /\ Rests([r EXCEPT !.live = FALSE], r)
             /\ Rests([r EXCEPT !.fresh = FALSE], r)
             /\ Rests([r EXCEPT !.due = TRUE], r)
  <2>1. /\ \A x : Keeps([r EXCEPT !.window = x], r)
        /\ Keeps([r EXCEPT !.live = FALSE], r)
        /\ Keeps([r EXCEPT !.fresh = FALSE], r)
        /\ Keeps([r EXCEPT !.due = TRUE], r) /\ Keeps(r, r)
    BY DEF Keeps, JobRow
  <2> QED
    BY <2>1, RowKept, CallRests, KeepsRests
<1>2. \A j \in Jobs : job[j] \in JobRow
  BY DEF IInv
<1>3. UNCHANGED job => RowsRest
  BY DEF RowsRest, TableRests, Rests
<1>4. ASSUME NEW w \in Workers, WorkerStep(w) \/ Crash(w)
      PROVE  RowsRest /\ Undisturbed
  <2>1. CASE Evaluate(w) \/ Crash(w)
    BY <1>3, <2>1 DEF Evaluate, Crash, Undisturbed
  <2>2. CASE EvaluateFails(w)
    <3> DEFINE j == worker[w].job
               q == IF job[j].dstate = "DISPATCHING" THEN RetryLater(job[j]) ELSE job[j]
    <3>1. job' = [job EXCEPT ![j] = q] /\ Undisturbed
      BY <2>2 DEF EvaluateFails, Undisturbed
    <3>2. j \in Jobs => Rests(q, job[j])
      BY <1>1, <1>2
    <3> QED
      BY <3>1, <3>2, OneRowRests
  <2>3. CASE Finalize(w)
    <3> DEFINE j == worker[w].job
               q == Finalised(job[j], worker[w].wave)
    <3>1. job' = [job EXCEPT ![j] = q] /\ Undisturbed
      BY <2>3 DEF Finalize, Undisturbed
    <3>2. IsWave(worker[w].wave)
      BY DEF IInv, ProcessesOK, Held
    <3>3. j \in Jobs => Rests(q, job[j])
      BY <1>2, <3>2, FinalisedRests
    <3> QED
      BY <3>1, <3>3, OneRowRests
  <2>4. CASE MarksExpired(w)
    <3> DEFINE j == worker[w].job
    <3>1. job' = [job EXCEPT ![j] = SetState(job[j], "EXPIRED")] /\ Undisturbed
      BY <2>4 DEF MarksExpired, Undisturbed
    <3>2. j \in Jobs => Rests(SetState(job[j], "EXPIRED"), job[j])
      BY <1>1, <1>2
    <3> QED
      BY <3>1, <3>2, OneRowRests
  <2> QED
    BY <1>4, <2>1, <2>2, <2>3, <2>4 DEF WorkerStep
<1>5. ASSUME NEW w \in Workers, NEW j \in Jobs, NEW force \in BOOLEAN,
             SweepFinds(w, j) \/ Claim(w, j, force) \/ TurnAway(w, j, force)
      PROVE  RowsRest /\ Undisturbed
  <2>1. Rests(Claimed(job[j]), job[j]) /\ Rests(TurnedAway(job[j]), job[j])
    BY <1>1, <1>2
  <2>2. Undisturbed
    BY <1>5, CallWrites DEF Undisturbed
  <2>3. RowsRest
    BY <1>3, <1>5, <2>1, CallWrites, OneRowRests
  <2> QED
    BY <2>2, <2>3
<1>6. ASSUME NEW j \in Jobs, NEW e \in Emps, ExpireOffer(j, e)
      PROVE  RowsRest /\ Undisturbed
  <2> DEFINE r == CloseOffers(job[j], {e}, "EXPIRED")
             q == IF OpenOffers(r) = {} THEN ResetState(r) ELSE r
  <2>1. job' = [job EXCEPT ![j] = q] /\ Undisturbed
    BY <1>6 DEF ExpireOffer, Undisturbed
  <2>2. r \in JobRow /\ Rests(r, job[j])
    BY <1>2, CalmCloseOffers, RowKept, KeepsRests DEF OfferStatus, Calm
  <2>3. Rests(ResetState(r), job[j])
    BY <1>1, <2>2, RestsChain
  <2> QED
    BY <2>1, <2>2, <2>3, OneRowRests
<1>7. CASE SweepResets
  <2>1. /\ job' = [job EXCEPT ![sweeper.job] = ResetState(job[sweeper.job])]
        /\ Undisturbed
    BY <1>7 DEF SweepResets, Undisturbed
  <2> QED
    BY <1>1, <1>2, <2>1, OneRowRests
<1>8. CASE SweepChecks \/ \E j \in Jobs : SweepLists(j)
  BY <1>3, <1>8 DEF SweepChecks, SweepLists, Undisturbed
<1>9. ASSUME NEW j \in Jobs,
             WindowMoves(j) \/ WaveExpires(j) \/ ClaimAges(j) \/ RetryFallsDue(j)
      PROVE  RowsRest /\ Undisturbed
  BY <1>1, <1>2, <1>9, OneRowRests
     DEF WindowMoves, WaveExpires, ClaimAges, RetryFallsDue, Undisturbed
<1> QED
  BY <1>4, <1>5, <1>6, <1>7, <1>8, <1>9

-----------------------------------------------------------------------------
(***************************************************************************)
(* The invariant.  A step either leaves availability alone or sets it by a *)
(* lookup in the table it wrote; a reconciliation that comes in three      *)
(* statements saves what its lookup said, so nobody with an active job may *)
(* be about to be freed.                                                   *)
(***************************************************************************)

NobodyFreed ==
    \A h \in Handlers, j \in Jobs \ resumed, e \in Emps \ overtaken :
        Works(e, j) => ~ Frees(h, e)

WorkInv == OneActiveJob /\ ActiveReadsBusy /\ NobodyFreed

WorksIn(f, e, j) == f[j].assigned = e /\ f[j].status \in WorkloadOccupied

\* Who is active on a row that rests was active on it before.
LEMMA StaysActive ==
    ASSUME NEW f, NEW g, NEW R, TableRests(f, g, R), NEW e \in Emps, NEW j \in Jobs \ R,
           WorksIn(f, e, j)
    PROVE  WorksIn(g, e, j)
  BY DispatchAssumption DEF TableRests, Rests, WorksIn

LEMMA AnyRows == ASSUME NEW R, RowsRest PROVE TableRests(job', job, R)
  BY DEF RowsRest, TableRests

\* Nobody gets a second active job by rows that rest.
LEMMA OneStaysOne ==
    ASSUME WorkInv, TableRests(job', job, resumed'), resumed \subseteq resumed'
    PROVE  OneActiveJob'
<1> SUFFICES ASSUME NEW e \in Emps, NEW j \in Jobs \ resumed', NEW k \in Jobs \ resumed',
                    WorksIn(job', e, j), WorksIn(job', e, k)
             PROVE  j = k
  BY DEF OneActiveJob, Works, WorksIn
<1>1. WorksIn(job, e, j) /\ WorksIn(job, e, k)
  BY StaysActive
<1> QED
  BY <1>1 DEF WorkInv, OneActiveJob, Works, WorksIn

\* No request ends a lookup in this step.
NoLookup == \A h \in Handlers, e \in Emps : Frees(h, e)' => Frees(h, e)

\* Nobody with an active job is about to be freed, if nobody was.
LEMMA NobodyStaysFreed ==
    ASSUME WorkInv, TableRests(job', job, resumed'), resumed \subseteq resumed',
           overtaken' = overtaken, NoLookup
    PROVE  NobodyFreed'
<1> SUFFICES ASSUME NEW h \in Handlers, NEW j \in Jobs \ resumed',
                    NEW e \in Emps \ overtaken, WorksIn(job', e, j)
             PROVE  ~ Frees(h, e)'
  BY DEF NobodyFreed, Works, WorksIn
<1>1. WorksIn(job, e, j)
  BY StaysActive
<1> QED
  BY <1>1 DEF WorkInv, NobodyFreed, NoLookup, Works, WorksIn

\* A step that leaves availability alone.
LEMMA QuietKeeps ==
    ASSUME WorkInv, TableRests(job', job, resumed'), resumed \subseteq resumed',
           overtaken' = overtaken, NoLookup, avail' = avail
    PROVE  WorkInv'
<1>1. ASSUME NEW e \in Emps \ overtaken, NEW j \in Jobs \ resumed', WorksIn(job', e, j)
      PROVE  avail'[e] = "busy"
  <2>1. WorksIn(job, e, j)
    BY <1>1, StaysActive
  <2> QED
    BY <1>1, <2>1 DEF WorkInv, ActiveReadsBusy, Works, WorksIn
<1>2. ActiveReadsBusy'
  BY <1>1 DEF ActiveReadsBusy, Works, WorksIn
<1> QED
  BY <1>2, OneStaysOne, NobodyStaysFreed DEF WorkInv

\* The steps of no request are such steps.
LEMMA UndisturbedKeeps ==
    ASSUME WorkInv, RowsRest, Undisturbed
    PROVE  WorkInv'
  BY AnyRows, QuietKeeps DEF Undisturbed, NoLookup, Frees

\* A lookup finds an active job, if there is one.
LEMMA LookupFinds ==
    ASSUME NEW f, NEW S, NEW seen \in Lookups(f, S), NEW e \in S, NEW j \in Jobs,
           WorksIn(f, e, j)
    PROVE  seen[e] \in Jobs /\ WorksIn(f, e, seen[e]) /\ IsActive(f, seen[e])
<1>1. seen[e] \in Seen(f, e)
  BY DEF Lookups
<1>2. seen[e] \in {k \in Jobs : f[k].assigned = e /\ f[k].status \in WorkloadOccupied}
  BY <1>1 DEF Seen, WorksIn
<1> QED
  BY <1>2, DispatchAssumption DEF WorksIn, IsActive

\* A step that reconciles the availability of some technicians.
LEMMA ReconciledKeeps ==
    ASSUME WorkInv, NEW f, NEW S, NEW seen \in Lookups(f, S),
           avail' = Availability(f, seen), UNCHANGED <<request, resumed, overtaken>>,
           TableRests(job', f, {}), TableRests(job', job, resumed')
    PROVE  WorkInv'
<1>1. ASSUME NEW e \in Emps \ overtaken, NEW j \in Jobs \ resumed', WorksIn(job', e, j)
      PROVE  avail'[e] = "busy"
  <2>1. WorksIn(job, e, j) /\ WorksIn(f, e, j)
    BY <1>1, StaysActive
  <2>2. DOMAIN seen = S
    BY DEF Lookups
  <2>3. CASE e \in S
    BY <2>1, <2>2, <2>3, LookupFinds DEF Availability
  <2>4. CASE e \notin S
    <3>1. avail'[e] = avail[e]
      BY <2>2, <2>4 DEF Availability
    <3> QED
      BY <1>1, <2>1, <3>1 DEF WorkInv, ActiveReadsBusy, Works, WorksIn
  <2> QED
    BY <2>3, <2>4
<1>2. ActiveReadsBusy'
  BY <1>1 DEF ActiveReadsBusy, Works, WorksIn
<1> QED
  BY <1>2, OneStaysOne, NobodyStaysFreed DEF WorkInv, NoLookup, Frees

-----------------------------------------------------------------------------
(***************************************************************************)
(* Steps of technicians, of the customer and of requests.                  *)
(***************************************************************************)

\* An acceptance: the lookup has found no other active job, and the winner is
\* marked busy.
LEMMA AcceptKeeps ==
    ASSUME IInv, WorkInv, NEW e \in Emps, NEW j \in Jobs, Accept(e, j)
    PROVE  WorkInv'
<1>1. PICK seen \in Lookups(job, {e}) :
        /\ ~ IsActive(job, seen[e]) \/ seen[e] = j
        /\ LET table == HealedBy(job, seen)
               rest(k) == IF k = j THEN {Accepted(table[j], e)} ELSE Superseded(table[k], e)
           IN \E rows \in [Jobs -> UNION {rest(k) : k \in Jobs}] :
                 /\ \A k \in Jobs : rows[k] \in rest(k)
                 /\ job' = rows
  BY DEF Accept
<1> DEFINE table == HealedBy(job, seen)
<1>2. \A k \in Jobs : job'[k] \in IF k = j THEN {Accepted(table[j], e)}
                                         ELSE Superseded(table[k], e)
  BY <1>1
<1>3. \A k \in Jobs : table[k] \in JobRow /\ Keeps(table[k], job[k])
  BY HealedKept DEF IInv, HealedBy
<1> HIDE DEF table
<1>4. job'[j].assigned = e
  BY <1>2, <1>3, AcceptedIsWinners
<1>5. TableRests(job', job, {j})
  <2> SUFFICES ASSUME NEW k \in Jobs \ {j} PROVE Rests(job'[k], job[k])
    BY DEF TableRests
  <2>1. Rests(job'[k], table[k])
    BY <1>2, <1>3, SupersededRests
  <2> QED
    BY <1>3, <2>1, KeepsRests, RestsChain
<1>6. /\ avail' = [avail EXCEPT ![e] = "busy"] /\ UNCHANGED <<request, resumed>>
      /\ \A d \in Emps \ overtaken' :
            IF d = e THEN \A h \in Handlers : ~ Frees(h, e) ELSE d \notin overtaken
  BY DEF Accept
<1>7. ASSUME NEW d \in Emps, NEW k \in Jobs, WorksIn(job', d, k)
      PROVE  d = e \/ WorksIn(job, d, k)
  <2>1. CASE k = j
    BY <1>4, <1>7, <2>1 DEF WorksIn
  <2>2. CASE k # j
    BY <1>5, <1>7, <2>2, StaysActive
  <2> QED
    BY <2>1, <2>2
<1>8. ASSUME NEW k \in Jobs \ resumed, WorksIn(job', e, k)
      PROVE  k = j \/ j \in resumed
  <2> SUFFICES ASSUME k # j PROVE j \in resumed
    OBVIOUS
  <2>1. WorksIn(job, e, k)
    BY <1>5, <1>8, StaysActive
  <2>2. seen[e] \in Jobs /\ WorksIn(job, e, seen[e]) /\ IsActive(job, seen[e])
    BY <2>1, LookupFinds
  <2>3. WorksIn(job, e, j) /\ seen[e] = j
    BY <1>1, <2>2
  <2> QED
    BY <2>1, <2>3 DEF WorkInv, OneActiveJob, Works, WorksIn
<1>9. OneActiveJob'
  <2> SUFFICES ASSUME NEW d \in Emps, NEW k \in Jobs \ resumed, NEW l \in Jobs \ resumed,
                      WorksIn(job', d, k), WorksIn(job', d, l)
               PROVE  k = l
    BY <1>6 DEF OneActiveJob, Works, WorksIn
  <2>1. CASE d = e /\ (k = j \/ l = j)
    BY <1>8, <2>1
  <2>2. CASE d = e /\ k # j /\ l # j
    <3>1. WorksIn(job, d, k) /\ WorksIn(job, d, l)
      BY <1>5, <2>2, StaysActive
    <3> QED
      BY <3>1 DEF WorkInv, OneActiveJob, Works, WorksIn
  <2>3. CASE d # e
    BY <1>7, <2>3 DEF WorkInv, OneActiveJob, Works, WorksIn
  <2> QED
    BY <2>1, <2>2, <2>3
<1>10. ActiveReadsBusy'
  <2> SUFFICES ASSUME NEW d \in Emps \ overtaken', NEW k \in Jobs \ resumed,
                      WorksIn(job', d, k)
               PROVE  avail'[d] = "busy"
    BY <1>6 DEF ActiveReadsBusy, Works, WorksIn
  <2>1. avail \in [Emps -> {"available", "busy"}]
    BY DEF IInv, ProcessesOK
  <2>2. CASE d = e
    BY <1>6, <2>1, <2>2
  <2>3. CASE d # e
    BY <1>6, <1>7, <2>1, <2>3 DEF WorkInv, ActiveReadsBusy, Works, WorksIn
  <2> QED
    BY <2>2, <2>3
<1>11. NobodyFreed'
  <2> SUFFICES ASSUME NEW h \in Handlers, NEW d \in Emps \ overtaken',
                      NEW k \in Jobs \ resumed, WorksIn(job', d, k)
               PROVE  ~ Frees(h, d)'
    BY <1>6 DEF NobodyFreed, Works, WorksIn
  <2>1. ~ Frees(h, d)
    BY <1>6, <1>7 DEF WorkInv, NobodyFreed, Works, WorksIn
  <2> QED
    BY <1>6, <2>1 DEF Frees
<1> QED
  BY <1>9, <1>10, <1>11 DEF WorkInv

\* The answers to offers that are not acceptances.
LEMMA AnswersKeep ==
    ASSUME IInv, WorkInv, NEW e \in Emps, NEW j \in Jobs,
           AcceptTooLate(e, j) \/ Reject(e, j) \/ RejectTooLate(e, j)
    PROVE  WorkInv'
<1>0. job[j] \in JobRow
  BY DEF IInv
<1>1. CASE AcceptTooLate(e, j)
  <2>1. PICK seen :
          LET table == HealedBy(job, seen)
              late == CloseOffers([table[j] EXCEPT !.live = FALSE], {e}, "EXPIRED")
          IN \E row \in DispatchOutcomes(late, {}) : job' = [table EXCEPT ![j] = row]
    BY <1>1 DEF AcceptTooLate
  <2> DEFINE table == HealedBy(job, seen)
             expired == [table[j] EXCEPT !.live = FALSE]
             late == CloseOffers(expired, {e}, "EXPIRED")
  <2>2. PICK row \in DispatchOutcomes(late, {}) : job' = [table EXCEPT ![j] = row]
    BY <2>1
  <2>3. \A k \in Jobs : table[k] \in JobRow /\ Rests(table[k], job[k])
    BY HealedKept, KeepsRests DEF IInv, HealedBy
  <2>4. DOMAIN table = Jobs
    BY DEF HealedBy, Healed
  <2> HIDE DEF table
  <2>5. expired \in JobRow /\ Keeps(expired, table[j])
    BY <2>3 DEF JobRow, Keeps
  <2> HIDE DEF expired
  <2>6. late \in JobRow /\ Rests(late, table[j])
    BY <2>5, CalmCloseOffers, RowKept, KeepsRests, RestsChain DEF Calm, OfferStatus
  <2> HIDE DEF late
  <2>7. Rests(row, job[j])
    BY <2>2, <2>3, <2>6, DispatchRests, RestsChain DEF DispatchOrRetry
  <2>8. RowsRest
    BY <2>2, <2>3, <2>4, <2>7 DEF RowsRest, TableRests
  <2> QED
    BY <1>1, <2>8, UndisturbedKeeps DEF AcceptTooLate, Undisturbed
<1>2. CASE Reject(e, j)
  <2> DEFINE r == CloseOffers(job[j], {e}, "REJECTED")
             released == IF OpenOffers(r) = {} THEN ResetState(r) ELSE r
             q == [released EXCEPT
                     !.declined = @ \cup {e},
                     !.assigned = IF @ = e THEN None ELSE @,
                     !.empJob[e] = IF @ = "completed" THEN @ ELSE "none"]
  <2>1. job' = [job EXCEPT ![j] = q] /\ Undisturbed
    BY <1>2 DEF Reject, Undisturbed
  <2>2. r \in JobRow /\ Rests(r, job[j])
    BY <1>0, CalmCloseOffers, RowKept, KeepsRests DEF Calm, OfferStatus
  <2> HIDE DEF r
  <2>3. released \in JobRow /\ Rests(released, job[j])
    BY <2>2, CalmResetState, RowKept, KeepsRests, RestsChain DEF Calm
  <2> HIDE DEF released
  <2>4. Rests(q, released)
    BY <2>3 DEF JobRow, Rests
  <2> HIDE DEF q
  <2>5. Rests(q, job[j])
    BY <2>3, <2>4, RestsChain
  <2>6. RowsRest
    BY <2>1, <2>5, OneRowRests
  <2> QED
    BY <2>1, <2>6, UndisturbedKeeps
<1>3. CASE RejectTooLate(e, j)
  <2>1. Rests(CloseOffers(job[j], {e}, "EXPIRED"), job[j])
    BY <1>0, RowKept, KeepsRests
  <2> QED
    BY <1>3, <2>1, OneRowRests, UndisturbedKeeps DEF RejectTooLate, Undisturbed
<1> QED
  BY <1>1, <1>2, <1>3

\* A technician gives the job back.
LEMMA CancelKeeps ==
    ASSUME IInv, WorkInv, NEW e \in Emps, NEW j \in Jobs,
           CancelAssignment(e, j) \/ TechnicianCancel(e, j)
    PROVE  WorkInv'
<1>0. job[j] \in JobRow
  BY DEF IInv
<1>1. ASSUME NEW p \in JobRow, p.assigned = None, NEW row \in DispatchOrRetry(p, {e}),
             NEW S, NEW seen \in Lookups([job EXCEPT ![j] = p], S),
             avail' = Availability([job EXCEPT ![j] = p], seen),
             job' = [HealedBy([job EXCEPT ![j] = p], seen) EXCEPT ![j] = row],
             UNCHANGED <<request, resumed, overtaken>>
      PROVE  WorkInv'
  <2>1. Rests(row, p) /\ Rests(p, job[j])
    BY <1>1, DispatchRests DEF Rests
  <2>2. TableRests(job', [job EXCEPT ![j] = p], {})
    BY <1>1, <2>1, HealedRests DEF HealedBy
  <2>3. TableRests(job', job, resumed')
    BY <2>1, <2>2, HealedRowsRest
  <2> QED
    BY <1>1, <2>2, <2>3, ReconciledKeeps
<1>2. CASE CancelAssignment(e, j)
  <2> DEFINE free == [job[j] EXCEPT !.assigned = None]
             left == ApplyTransition(free, "redispatching")
             closed == [left EXCEPT !.offer[e] = IF @ = "ACCEPTED" THEN "CANCELLED" ELSE @]
  <2>1. free \in JobRow /\ free.assigned = None
    BY <1>0 DEF JobRow
  <2>2. \E seen \in Lookups([job EXCEPT ![j] = closed], {e}) :
          /\ avail' = Availability([job EXCEPT ![j] = closed], seen)
          /\ \E row \in DispatchOutcomes(closed, {e}) :
                job' = [HealedBy([job EXCEPT ![j] = closed], seen) EXCEPT ![j] = row]
    BY <1>2 DEF CancelAssignment
  <2> HIDE DEF free
  <2>3. left \in JobRow /\ left.assigned = None
    BY <2>1, CalmApplyTransition, RowMoved, WrittenStatuses DEF Calm
  <2> HIDE DEF left
  <2>4. closed \in JobRow /\ closed.assigned = None
    BY <2>3 DEF JobRow, OfferStatus
  <2>5. UNCHANGED <<request, resumed, overtaken>>
    BY <1>2 DEF CancelAssignment
  <2> HIDE DEF closed
  <2> QED
    BY <1>1, <2>2, <2>4, <2>5 DEF DispatchOrRetry
<1>3. CASE TechnicianCancel(e, j)
  <2> DEFINE left == [job[j] EXCEPT
                       !.assigned = None, !.status = "confirmed",
                       !.offer[e] = IF @ = "none" THEN @ ELSE "CANCELLED",
                       !.empJob[e] = IF @ = "none" THEN @ ELSE "cancelled"]
             S == IF j \in LogisticsJobs THEN {e} ELSE {}
  <2>1. \E seen \in Lookups([job EXCEPT ![j] = left], S) :
          /\ avail' = Availability([job EXCEPT ![j] = left], seen)
          /\ \E row \in DispatchOrRetry(left, {e}) :
                job' = [HealedBy([job EXCEPT ![j] = left], seen) EXCEPT ![j] = row]
    BY <1>3 DEF TechnicianCancel
  <2>2. left \in JobRow /\ left.assigned = None
    BY <1>0, WrittenStatuses DEF JobRow, OfferStatus
  <2>3. UNCHANGED <<request, resumed, overtaken>>
    BY <1>3 DEF TechnicianCancel
  <2> HIDE DEF left, S
  <2> QED
    BY <1>1, <2>1, <2>2, <2>3
<1> QED
  BY <1>2, <1>3

\* The customer cancels.
LEMMA CustomerKeeps ==
    ASSUME IInv, WorkInv, NEW j \in Jobs,
           CustomerWritesCancelled(j) \/ CustomerCancelSync(j)
    PROVE  WorkInv'
<1>0. job[j] \in JobRow
  BY DEF IInv
<1>1. CASE CustomerWritesCancelled(j)
  <2>1. Rests([job[j] EXCEPT !.status = "cancelled"], job[j])
    BY <1>0 DEF JobRow, Rests, WorkloadOccupied
  <2> QED
    BY <1>1, <2>1, OneRowRests, UndisturbedKeeps DEF CustomerWritesCancelled, Undisturbed
<1>2. CASE CustomerCancelSync(j)
  <2> DEFINE r == ApplyTransition(job[j], "cancelled")
             held == {e \in Emps : r.empJob[e] # "none" \/ r.assigned = e}
             closed == SetState(CloseOffers(r, Emps, "CANCELLED"), "CANCELLED")
             q == [closed EXCEPT !.empJob = [d \in Emps |->
                     IF @[d] \in {"none", "completed"} THEN @[d] ELSE "cancelled"]]
  <2>1. \E seen \in Lookups([job EXCEPT ![j] = q], held) :
          /\ avail' = Availability([job EXCEPT ![j] = q], seen)
          /\ job' = HealedBy([job EXCEPT ![j] = q], seen)
    BY <1>2 DEF CustomerCancelSync
  <2>2. r \in JobRow /\ r.status = "cancelled"
    BY <1>0, CalmApplyTransition, RowMoved, WrittenStatuses DEF Calm
  <2> HIDE DEF r, held
  <2>3. closed \in JobRow /\ closed.status = "cancelled"
    <3> DEFINE shut == CloseOffers(r, Emps, "CANCELLED")
    <3>1. shut \in JobRow /\ shut.status = "cancelled"
      BY <2>2, CalmCloseOffers, RowKept DEF Calm, OfferStatus, Keeps
    <3> HIDE DEF shut
    <3>2. SetState(shut, "CANCELLED") \in JobRow /\ SetState(shut, "CANCELLED").status = "cancelled"
      BY <3>1, CalmSetState, RowKept DEF Calm, DispatchStatus, Keeps
    <3> QED
      BY <3>2 DEF shut
  <2> HIDE DEF closed
  <2>4. q \in JobRow /\ q.status = "cancelled"
    BY <2>3, WrittenStatuses DEF JobRow
  <2> HIDE DEF q
  <2>5. Rests(q, job[j]) /\ Rests(q, q)
    BY <2>4 DEF Rests, WorkloadOccupied
  <2>6. PICK seen \in Lookups([job EXCEPT ![j] = q], held) :
          /\ avail' = Availability([job EXCEPT ![j] = q], seen)
          /\ job' = Healed([job EXCEPT ![j] = q], {seen[d] : d \in DOMAIN seen})
    BY <2>1 DEF HealedBy
  <2>7. TableRests(job', [job EXCEPT ![j] = q], {})
    BY <2>4, <2>5, <2>6, HealedRests
  <2>8. UNCHANGED <<request, resumed, overtaken>>
    BY <1>2 DEF CustomerCancelSync
  <2>9. TableRests(job', job, resumed')
    BY <2>5, <2>7, HealedRowsRest
  <2> QED
    BY <2>6, <2>7, <2>8, <2>9, ReconciledKeeps
<1> QED
  BY <1>1, <1>2

\* A request writes the status it decided on: the job it makes active is resumed.
LEMMA WritesKeep ==
    ASSUME IInv, WorkInv, NEW h \in Handlers, RequestWrites(h)
    PROVE  WorkInv'
<1> DEFINE j == request[h].job
           r == IF request[h].kind = "noshow" THEN [job[j] EXCEPT !.assigned = None]
                                              ELSE job[j]
           q == Moved(r, request[h].target)
<1>1. /\ resumed' = resumed \cup Resumes(request[h])
      /\ job' = [job EXCEPT ![j] = q]
      /\ UNCHANGED <<avail, overtaken>>
  BY DEF RequestWrites
<1>2. request[h].target \in JobStatuses /\ request \in [Handlers -> Copies]
  BY DEF IInv, ProcessesOK, Copies
<1>3. NoLookup
  <2>1. \E n \in {NoRequest, [NoRequest EXCEPT !.kind = "reconcile",
                                              !.assigned = request[h].assigned]} :
           request' = [request EXCEPT ![h] = n]
    BY DEF RequestWrites
  <2>2. /\ NoRequest.kind = "none"
        /\ \A e : [NoRequest EXCEPT !.kind = "reconcile", !.assigned = e].kind = "reconcile"
    BY DEF NoRequest
  <2>3. \A g \in Handlers : \/ request'[g] = request[g]
                            \/ request'[g].kind \in {"none", "reconcile"}
    BY <1>2, <2>1, <2>2
  <2> QED
    BY <2>3 DEF NoLookup, Frees
<1>4. CASE j \in Jobs
  <2>1. r \in JobRow /\ r.assigned \in {job[j].assigned, None}
    <3> HIDE DEF j
    <3>1. job[j] \in JobRow
      BY <1>4 DEF IInv
    <3>2. [job[j] EXCEPT !.assigned = None] \in JobRow
          /\ [job[j] EXCEPT !.assigned = None].assigned = None
      BY <3>1 DEF JobRow
    <3> QED
      BY <3>1, <3>2
  <2> HIDE DEF r
  <2>2. q.assigned = r.assigned /\ q.status = request[h].target
    BY <1>2, <2>1, RowMoved
  <2> HIDE DEF q
  <2>3. j \in resumed' \/ Rests(q, job[j])
    BY <1>1, <1>4, <2>1, <2>2 DEF Resumes, Rests
  <2> HIDE DEF j
  <2>4. TableRests(job', job, resumed')
    BY <1>1, <2>3 DEF IInv, TableRests, Rests
  <2> QED
    BY <1>1, <1>3, <2>4, QuietKeeps
<1>5. CASE j \notin Jobs
  <2>1. job' = job
    BY <1>1, <1>5 DEF IInv
  <2>2. TableRests(job', job, resumed')
    BY <2>1 DEF TableRests, Rests
  <2> HIDE DEF j, q
  <2> QED
    BY <1>1, <1>3, <2>2, QuietKeeps
<1> QED
  BY <1>4, <1>5

\* The statements of a reconciliation.  The lookup finds the technician without an
\* active job only if they have none; an acceptance that follows it is on record.
LEMMA ReconciliationKeeps ==
    ASSUME IInv, WorkInv, NEW h \in Handlers, Reconciliation(h)
    PROVE  WorkInv'
<1>0. /\ request \in [Handlers -> Copies]
      /\ avail \in [Emps -> {"available", "busy"}]
  BY DEF IInv, ProcessesOK
<1>1. CASE ReadsEmployee(h) \/ \E e \in Emps : Presence(h, e)
  <2>1. UNCHANGED <<job, avail, resumed, overtaken>>
    BY <1>1 DEF ReadsEmployee, Presence
  <2>2. NoLookup
    <3>1. \A e : Reads(e).kind # "frees"
      BY DEF Reads, NoRequest
    <3>2. \E e : request' = [request EXCEPT ![h] = Reads(e)]
      BY <1>1 DEF ReadsEmployee, Presence
    <3>3. \A g \in Handlers : request'[g] = request[g] \/ request'[g].kind # "frees"
      BY <1>0, <3>1, <3>2
    <3> QED
      BY <3>3 DEF NoLookup, Frees
  <2>3. RowsRest
    BY <2>1 DEF RowsRest, TableRests, Rests
  <2> QED
    BY <2>1, <2>2, <2>3, AnyRows, QuietKeeps
<1>2. CASE LooksUp(h)
  <2> DEFINE e == request[h].assigned
  <2>1. PICK seen \in Lookups(job, {e}) :
          /\ job' = HealedBy(job, seen)
          /\ \/ request' = [request EXCEPT ![h] = NoRequest]
             \/ request' = [request EXCEPT ![h].kind = "occupies"]
             \/ ~ IsActive(job, seen[e]) /\ request' = [request EXCEPT ![h].kind = "frees"]
    BY <1>2 DEF LooksUp
  <2>2. UNCHANGED <<avail, resumed, overtaken>>
    BY <1>2 DEF LooksUp
  <2>3. RowsRest
    BY <2>1, HealedKept, KeepsRests DEF HealedBy, RowsRest, TableRests, IInv
  <2>4. NobodyFreed'
    <3> SUFFICES ASSUME NEW g \in Handlers, NEW j \in Jobs \ resumed,
                        NEW d \in Emps \ overtaken, WorksIn(job', d, j), Frees(g, d)'
                 PROVE  FALSE
      BY <2>2 DEF NobodyFreed, Works, WorksIn
    <3>1. WorksIn(job, d, j)
      BY <2>3, AnyRows, StaysActive
    <3>2. ~ Frees(g, d)
      BY <3>1 DEF WorkInv, NobodyFreed, Works, WorksIn
    <3>3. g = h /\ d = e /\ ~ IsActive(job, seen[e])
      BY <1>0, <2>1, <3>2 DEF Frees, NoRequest, Copies
    <3> QED
      BY <3>1, <3>3, LookupFinds
  <2>5. OneActiveJob'
    BY <2>2, <2>3, AnyRows, OneStaysOne
  <2>6. ActiveReadsBusy'
    <3> SUFFICES ASSUME NEW j \in Jobs \ resumed, NEW d \in Emps \ overtaken,
                        WorksIn(job', d, j)
                 PROVE  avail[d] = "busy"
      BY <2>2 DEF ActiveReadsBusy, Works, WorksIn
    <3>1. WorksIn(job, d, j)
      BY <2>3, AnyRows, StaysActive
    <3> QED
      BY <3>1 DEF WorkInv, ActiveReadsBusy, Works, WorksIn
  <2> QED
    BY <2>4, <2>5, <2>6 DEF WorkInv
<1>3. CASE ReconcileSaves(h)
  <2> DEFINE a == request[h].assigned
             value == IF request[h].kind = "frees" THEN "available" ELSE "busy"
  <2>1. /\ avail' = [avail EXCEPT ![a] = value]
        /\ request' = [request EXCEPT ![h] = NoRequest]
        /\ UNCHANGED <<job, resumed, overtaken>>
    BY <1>3 DEF ReconcileSaves
  <2>2. OneActiveJob'
    BY <2>1 DEF WorkInv, OneActiveJob, Works
  <2>3. NobodyFreed'
    BY <1>0, <2>1 DEF WorkInv, NobodyFreed, Works, Frees, NoRequest
  <2>4. ActiveReadsBusy'
    <3> SUFFICES ASSUME NEW j \in Jobs \ resumed, NEW d \in Emps \ overtaken, Works(d, j)
                 PROVE  avail'[d] = "busy"
      BY <2>1 DEF ActiveReadsBusy, Works
    <3>1. avail[d] = "busy" /\ ~ Frees(h, d)
      BY DEF WorkInv, ActiveReadsBusy, NobodyFreed
    <3> QED
      BY <1>0, <2>1, <3>1 DEF Frees
  <2> QED
    BY <2>2, <2>3, <2>4 DEF WorkInv
<1> QED
  BY <1>1, <1>2, <1>3 DEF Reconciliation

-----------------------------------------------------------------------------
(***************************************************************************)
(* The theorems.                                                           *)
(***************************************************************************)

LEMMA WorkInvariant == Spec => []WorkInv
<1>1. Init => WorkInv
  <2> SUFFICES ASSUME Init PROVE WorkInv
    OBVIOUS
  <2>1. \A e \in Emps, j \in Jobs : ~ Works(e, j)
    BY DispatchAssumption DEF Init, NewJob, Works
  <2> QED
    BY <2>1 DEF WorkInv, OneActiveJob, ActiveReadsBusy, NobodyFreed
<1>2. IInv /\ WorkInv /\ [Next]_vars => WorkInv'
  <2> SUFFICES ASSUME IInv, WorkInv, [Next]_vars PROVE WorkInv'
    OBVIOUS
  <2>1. UNCHANGED job => RowsRest
    BY DEF RowsRest, TableRests, Rests
  <2>2. CASE UNCHANGED vars
    BY <2>1, <2>2, UndisturbedKeeps DEF vars, Undisturbed
  <2>3. ASSUME NEW e \in Emps, NEW j \in Jobs, TechnicianStep(e, j)
        PROVE  WorkInv'
    BY <2>3, AcceptKeeps, AnswersKeep, CancelKeeps DEF TechnicianStep
  <2>4. ASSUME NEW h \in Handlers, NEW j \in Jobs, CopiesJob(h, j)
        PROVE  WorkInv'
    <3>1. UNCHANGED <<job, avail, resumed, overtaken>>
      BY <2>4 DEF CopiesJob, AdminReads, NoShowReads, SuperuserReads, TransitionReads
    <3>2. \A r : r.kind \in Moving /\ request' = [request EXCEPT ![h] = r] => NoLookup
      BY DEF IInv, ProcessesOK, NoLookup, Frees, Moving
    <3>3. NoLookup
      BY <2>4, <3>2
         DEF CopiesJob, AdminReads, NoShowReads, SuperuserReads, TransitionReads, Moving
    <3> QED
      BY <2>1, <3>1, <3>3, AnyRows, QuietKeeps
  <2> QED
    BY <2>2, <2>3, <2>4, QuietRests, UndisturbedKeeps, CustomerKeeps, WritesKeep,
       ReconciliationKeeps DEF Next, CopiesJob, Reconciliation
<1> QED
  BY <1>1, <1>2, Invariance, PTL DEF Spec

\* No technician is given a second active job, whatever dispatches, answers and
\* cancellations meet, unless a status write makes a job active again.
THEOREM OneActiveJobAtMost == Spec => []OneActiveJob
<1>1. WorkInv => OneActiveJob
  BY DEF WorkInv
<1> QED
  BY <1>1, WorkInvariant, PTL

\* A technician with an active job reads busy, with the same exception and that of
\* an acceptance between the lookup of a reconciliation and what it saves.
THEOREM ActiveReadBusy == Spec => []ActiveReadsBusy
<1>1. WorkInv => ActiveReadsBusy
  BY DEF WorkInv
<1> QED
  BY <1>1, WorkInvariant, PTL

-----------------------------------------------------------------------------
(***************************************************************************)
(* Claims.  The sweep looks neither at a job with an open offer nor at one *)
(* that somebody claimed a moment ago.  What ClaimsEnd rests on: whoever   *)
(* dispatches the job meanwhile, no offer is open while it reads           *)
(* DISPATCHING, so a claim left by a process that died is picked up.       *)
(***************************************************************************)

ClearOfOffers(r) == r.dstate = "DISPATCHING" => OpenOffers(r) = {}

ClaimsAreClear == \A j \in Jobs : ClearOfOffers(job[j])

StaleClaimsArePicked ==
    \A j \in Jobs : job[j].dstate = "DISPATCHING" /\ ~job[j].fresh /\ Pending(job[j])
                       => SweepPicks(job[j])

\* q has the dispatch state of r, and opens no offer.
Opens(q, r) == q.dstate = r.dstate /\ OpenOffers(q) \subseteq OpenOffers(r)

LEMMA ClearStays ==
    ASSUME NEW r, NEW q, ClearOfOffers(r), Opens(q, r)
    PROVE  ClearOfOffers(q)
  BY DEF ClearOfOffers, Opens

\* No statement but a claim writes DISPATCHING; a row that has no dispatch state yet
\* stays as it is.
LEMMA ClearWritten ==
    ASSUME NEW r \in JobRow, ClearOfOffers(r)
    PROVE  /\ \A s \in DispatchStatus \ {"DISPATCHING"} : ClearOfOffers(SetState(r, s))
           /\ ClearOfOffers(ResetState(r)) /\ ClearOfOffers(RetryLater(r))
<1>1. \A s \in DispatchStatus \ {"DISPATCHING"} : ClearOfOffers(SetState(r, s))
  BY DEF SetState, ClearOfOffers, JobRow
<1>2. ClearOfOffers(ResetState(r)) /\ ClearOfOffers(RetryLater(r))
  BY DEF ResetState, RetryLater, ClearOfOffers, JobRow
<1> QED
  BY <1>1, <1>2

\* Closing offers opens none, and neither does what leaves offers and clock alone.
LEMMA ClearClosed ==
    ASSUME NEW r \in JobRow, ClearOfOffers(r), NEW S, NEW s \in OfferStatus \ {"OFFERED"}
    PROVE  ClearOfOffers(CloseOffers(r, S, s))
<1>1. CloseOffers(r, S, s).dstate = r.dstate
  BY DEF CloseOffers, JobRow
<1>2. CloseOffers(r, S, s).live => r.live
  BY DEF CloseOffers, JobRow
<1>3. Offered(CloseOffers(r, S, s)) \subseteq Offered(r)
  BY CalmCloseOffers DEF Calm
<1> HIDE DEF CloseOffers
<1> QED
  BY <1>1, <1>2, <1>3 DEF ClearOfOffers, OpenOffers

\* A transition opens no offer; it closes the dispatch state or leaves it.
LEMMA ClearMoved ==
    ASSUME NEW r \in JobRow, ClearOfOffers(r), NEW target \in JobStatuses
    PROVE  ClearOfOffers(Moved(r, target)) /\ ClearOfOffers(ApplyTransition(r, target))
<1> DEFINE synced == IF target = "redispatching" THEN "employee_cancelled" ELSE target
           empJob == [e \in Emps |->
                        IF r.empJob[e] = "none" THEN "none" ELSE synced]
           moved == [r EXCEPT !.status = target, !.empJob = empJob]
<1>3. Moved(r, target) \in {moved, SetState(moved, "COMPLETED"),
                            SetState(moved, "CANCELLED")}
  BY DEF Moved, JobRow
<1>0. empJob \in [Emps -> JobStatuses \cup {"none", "employee_cancelled"}]
  BY DEF JobRow
<1> HIDE DEF empJob
<1>1. moved \in JobRow
  BY <1>0 DEF JobRow
<1>2. Opens(moved, r)
  BY DEF Opens, OpenOffers, Offered, JobRow
<1> HIDE DEF moved
<1>4. ClearOfOffers(Moved(r, target))
  BY <1>1, <1>2, <1>3, ClearStays, ClearWritten DEF DispatchStatus
<1> QED
  BY <1>4 DEF ApplyTransition

\* A call turned away claims nothing, and marking a job unassigned leaves its clock.
LEMMA ClearTurnedAway ==
    ASSUME NEW r \in JobRow, ClearOfOffers(r)
    PROVE  ClearOfOffers(Unplaced(r)) /\ ClearOfOffers(TurnedAway(r))
<1>1. ClearOfOffers(Unplaced(r))
  BY ClearMoved, WrittenStatuses DEF Unplaced
<1> QED
  BY <1>1, ClearWritten DEF TurnedAway, DispatchStatus

LEMMA UnplacedOpensNone ==
    ASSUME NEW r \in JobRow
    PROVE  Unplaced(r) \in JobRow /\ OpenOffers(Unplaced(r)) \subseteq OpenOffers(r)
<1>1. Unplaced(r) \in JobRow /\ Offered(Unplaced(r)) \subseteq Offered(r)
  BY CalmUnplaced DEF Calm
<1>2. Moved(r, "unassigned").live = r.live
  BY DEF Moved, ClosingStatuses, JobRow
<1>3. Unplaced(r).live = r.live
  BY <1>2 DEF Unplaced, ApplyTransition
<1> QED
  BY <1>1, <1>3 DEF OpenOffers

LEMMA ClearHealed ==
    ASSUME NEW f, NEW K, NEW k \in Jobs, f[k] \in JobRow, ClearOfOffers(f[k])
    PROVE  ClearOfOffers(Healed(f, K)[k])
<1>1. Opens(Healed(f, K)[k], f[k])
  BY DEF Healed, Opens, OpenOffers, Offered, JobRow
<1> QED
  BY <1>1, ClearStays

\* A claim is made only where no offer is open.
LEMMA ClearClaimed ==
    ASSUME NEW r \in JobRow, OpenOffers(r) = {}
    PROVE  ClearOfOffers(Claimed(r))
<1> DEFINE u == Unplaced(r)
<1>1. u \in JobRow /\ OpenOffers(u) = {}
  BY UnplacedOpensNone
<1>2. Claimed(r) = [u EXCEPT !.dstate = "DISPATCHING", !.fresh = TRUE, !.due = TRUE]
  BY DEF Claimed
<1> HIDE DEF u
<1>3. OpenOffers(Claimed(r)) = OpenOffers(u)
  BY <1>1, <1>2 DEF OpenOffers, Offered, JobRow
<1> QED
  BY <1>1, <1>3 DEF ClearOfOffers

\* The last phase that opens a wave also takes the claim away.
LEMMA ClearFinalised ==
    ASSUME NEW r \in JobRow, ClearOfOffers(r), NEW wave, IsWave(wave)
    PROVE  ClearOfOffers(Finalised(r, wave))
<1>1. CASE r.status \in {"completed", "cancelled"} \/ r.assigned # None
  BY <1>1, ClearWritten DEF Finalised, DispatchStatus
<1>2. CASE r.status \notin {"completed", "cancelled"} /\ r.assigned = None /\ wave = {}
  <2>1. RetryLater([r EXCEPT !.status = "unassigned"]).dstate = "RETRY_SCHEDULED"
    BY DEF RetryLater, JobRow
  <2> QED
    BY <1>2, <2>1 DEF Finalised, ClearOfOffers
<1>3. CASE r.status \notin {"completed", "cancelled"} /\ r.assigned = None /\ wave # {}
  <2> DEFINE swept == CloseOffers(r, Emps, "EXPIRED")
             offer == [e \in Emps |-> IF e \in wave THEN "OFFERED" ELSE swept.offer[e]]
             spent == swept.spent \cup {e \in wave : swept.offer[e] \in Excluding}
             offered == [swept EXCEPT
                !.offer = offer, !.spent = spent, !.live = TRUE,
                !.dstate = "OFFER_ACTIVE", !.fresh = FALSE, !.due = TRUE]
  <2>1. swept \in JobRow
    BY CalmCloseOffers DEF Calm, OfferStatus
  <2>2. NewWave(r, wave) \in {r, offered, ApplyTransition(offered, "unassigned")}
    BY <2>1 DEF NewWave, JobRow
  <2> HIDE DEF swept
  <2>0. offer \in [Emps -> OfferStatus] /\ spent \subseteq Emps
    BY <2>1 DEF JobRow, OfferStatus, IsWave
  <2> HIDE DEF offer, spent
  <2>3. offered \in JobRow /\ offered.dstate = "OFFER_ACTIVE"
    BY <2>0, <2>1 DEF JobRow, DispatchStatus
  <2> HIDE DEF offered
  <2>4. ClearOfOffers(offered)
    BY <2>3 DEF ClearOfOffers
  <2>5. ClearOfOffers(NewWave(r, wave))
    BY <2>2, <2>3, <2>4, ClearMoved, WrittenStatuses
  <2> QED
    BY <1>3, <2>5 DEF Finalised
<1> QED
  BY <1>1, <1>2, <1>3

\* dispatch_job inside another transaction.
LEMMA ClearDispatch ==
    ASSUME NEW r \in JobRow, ClearOfOffers(r), NEW excluded,
           NEW q \in DispatchOrRetry(r, excluded)
    PROVE  ClearOfOffers(q)
<1>1. CASE q = TurnedAway(r)
  BY <1>1, ClearTurnedAway
<1>2. CASE Claimable(r, FALSE)
  <2>1. Claimed(r) \in JobRow /\ ClearOfOffers(Claimed(r))
    BY <1>2, CalmClaimed, ClearClaimed DEF Calm, Claimable
  <2>2. \/ \E wave \in Waves(r, excluded) : q = Finalised(Claimed(r), wave)
        \/ q = RetryLater(Claimed(r))
    BY <1>2 DEF DispatchOrRetry, DispatchOutcomes
  <2> QED
    BY <2>1, <2>2, SmallWaves, ClearFinalised, ClearWritten
<1>3. ~Claimable(r, FALSE) => q = TurnedAway(r)
  BY DEF DispatchOrRetry, DispatchOutcomes
<1> QED
  BY <1>1, <1>2, <1>3

LEMMA ClearDispatchOutcomes ==
    ASSUME NEW r \in JobRow, ClearOfOffers(r), NEW excluded,
           NEW q \in DispatchOutcomes(r, excluded)
    PROVE  ClearOfOffers(q)
  BY ClearDispatch DEF DispatchOrRetry

LEMMA ClearSuperseded ==
    ASSUME NEW r \in JobRow, ClearOfOffers(r), NEW e, NEW q \in Superseded(r, e)
    PROVE  ClearOfOffers(q)
<1> DEFINE rest == CloseOffers(r, {e}, "SUPERSEDED_BY_ACCEPTANCE")
<1>1. rest \in JobRow /\ ClearOfOffers(rest)
  BY CalmCloseOffers, ClearClosed DEF Calm, OfferStatus
<1>2. q \in {r, rest} \cup DispatchOrRetry(ResetState(rest), {})
  BY DEF Superseded
<1> HIDE DEF rest
<1>3. ResetState(rest) \in JobRow /\ ClearOfOffers(ResetState(rest))
  BY <1>1, CalmResetState, ClearWritten DEF Calm
<1> QED
  BY <1>1, <1>2, <1>3, ClearDispatch

\* The accepted job has no open offer at all.
LEMMA ClearAccepted ==
    ASSUME NEW r, Sound(r), NEW e \in Emps
    PROVE  ClearOfOffers(Accepted(r, e))
  BY SoundAccepted DEF ClearOfOffers, OpenOffers

-----------------------------------------------------------------------------
\* Steps

\* A step that replaces one row.
LEMMA OneRowClear ==
    ASSUME IInv, ClaimsAreClear, NEW j, NEW q, job' = [job EXCEPT ![j] = q],
           j \in Jobs => ClearOfOffers(q)
    PROVE  ClaimsAreClear'
<1>1. \A k \in Jobs : job'[k] = IF k = j THEN q ELSE job[k]
  BY DEF IInv
<1> QED
  BY <1>1 DEF ClaimsAreClear

\* Row j becomes p, lookups heal rows, and row j may become q.
LEMMA HealedClear ==
    ASSUME IInv, ClaimsAreClear, NEW j \in Jobs, NEW p \in JobRow, NEW q, NEW K,
           ClearOfOffers(p), ClearOfOffers(q),
           \/ job' = Healed([job EXCEPT ![j] = p], K)
           \/ job' = [Healed([job EXCEPT ![j] = p], K) EXCEPT ![j] = q]
    PROVE  ClaimsAreClear'
<1> DEFINE table == [job EXCEPT ![j] = p]
<1>1. \A k \in Jobs : table[k] \in JobRow /\ ClearOfOffers(table[k])
  <2>1. \A k \in Jobs : table[k] = IF k = j THEN p ELSE job[k]
    BY DEF IInv
  <2> HIDE DEF table
  <2> QED
    BY <2>1 DEF IInv, ClaimsAreClear
<1> HIDE DEF table
<1>2. \A k \in Jobs : ClearOfOffers(Healed(table, K)[k])
  BY <1>1, ClearHealed
<1>3. DOMAIN Healed(table, K) = Jobs
  BY DEF Healed
<1>4. \A k \in Jobs : job'[k] \in {q, Healed(table, K)[k]}
  <2> HIDE DEF Healed
  <2> QED
    BY <1>3 DEF table
<1>5. \A k \in Jobs : ClearOfOffers(job'[k])
  BY <1>2, <1>4
<1> QED
  BY <1>5 DEF ClaimsAreClear

\* Dispatching workers, the sweep and the clocks.
LEMMA QuietClear ==
    ASSUME IInv, ClaimsAreClear,
           \/ \E w \in Workers : WorkerStep(w) \/ Crash(w)
           \/ \E w \in Workers, j \in Jobs, force \in BOOLEAN :
                 SweepFinds(w, j) \/ Claim(w, j, force) \/ TurnAway(w, j, force)
           \/ \E j \in Jobs : SweepLists(j) \/ \E e \in Emps : ExpireOffer(j, e)
           \/ SweepChecks \/ SweepResets
           \/ \E j \in Jobs : WindowMoves(j) \/ WaveExpires(j) \/ ClaimAges(j)
                               \/ RetryFallsDue(j)
    PROVE  ClaimsAreClear'
<1>1. \A j \in Jobs : job[j] \in JobRow /\ ClearOfOffers(job[j])
  BY DEF IInv, ClaimsAreClear
<1>2. UNCHANGED job => ClaimsAreClear'
  BY DEF ClaimsAreClear
<1>3. ASSUME NEW w \in Workers, WorkerStep(w) \/ Crash(w) PROVE ClaimsAreClear'
  <2>1. CASE Evaluate(w) \/ Crash(w)
    BY <1>2, <2>1 DEF Evaluate, Crash
  <2>2. CASE EvaluateFails(w)
    <3> DEFINE j == worker[w].job
               q == IF job[j].dstate = "DISPATCHING" THEN RetryLater(job[j]) ELSE job[j]
    <3>1. job' = [job EXCEPT ![j] = q]
      BY <2>2 DEF EvaluateFails
    <3>2. j \in Jobs => ClearOfOffers(q)
      BY <1>1, ClearWritten
    <3> QED
      BY <3>1, <3>2, OneRowClear
  <2>3. CASE Finalize(w)
    <3> DEFINE j == worker[w].job
               q == Finalised(job[j], worker[w].wave)
    <3>1. job' = [job EXCEPT ![j] = q]
      BY <2>3 DEF Finalize
    <3>2. IsWave(worker[w].wave)
      BY DEF IInv, ProcessesOK, Held
    <3>3. j \in Jobs => ClearOfOffers(q)
      BY <1>1, <3>2, ClearFinalised
    <3> QED
      BY <3>1, <3>3, OneRowClear
  <2>4. CASE MarksExpired(w)
    <3> DEFINE j == worker[w].job
    <3>1. job' = [job EXCEPT ![j] = SetState(job[j], "EXPIRED")]
      BY <2>4 DEF MarksExpired
    <3>2. j \in Jobs => ClearOfOffers(SetState(job[j], "EXPIRED"))
      BY <1>1, ClearWritten DEF DispatchStatus
    <3> QED
      BY <3>1, <3>2, OneRowClear
  <2> QED
    BY <1>3, <2>1, <2>2, <2>3, <2>4 DEF WorkerStep
<1>4. ASSUME NEW w \in Workers, NEW j \in Jobs, NEW force \in BOOLEAN,
             SweepFinds(w, j) \/ Claim(w, j, force) \/ TurnAway(w, j, force)
      PROVE  ClaimsAreClear'
  <2>1. CASE Claim(w, j, force)
    <3>1. OpenOffers(job[j]) = {}
      BY <2>1, CallWrites DEF Claimable
    <3>2. ClearOfOffers(Claimed(job[j]))
      BY <1>1, <3>1, ClearClaimed
    <3> QED
      BY <2>1, <3>2, CallWrites, OneRowClear
  <2>2. CASE TurnAway(w, j, force)
    BY <1>1, <2>2, CallWrites, ClearTurnedAway, OneRowClear
  <2>3. CASE SweepFinds(w, j)
    BY <1>2, <2>3, CallWrites
  <2> QED
    BY <1>4, <2>1, <2>2, <2>3
<1>5. ASSUME NEW j \in Jobs, NEW e \in Emps, ExpireOffer(j, e) PROVE ClaimsAreClear'
  <2> DEFINE r == CloseOffers(job[j], {e}, "EXPIRED")
             q == IF OpenOffers(r) = {} THEN ResetState(r) ELSE r
  <2>1. job' = [job EXCEPT ![j] = q]
    BY <1>5 DEF ExpireOffer
  <2>2. r \in JobRow /\ ClearOfOffers(r)
    BY <1>1, CalmCloseOffers, ClearClosed DEF OfferStatus, Calm
  <2>3. ClearOfOffers(ResetState(r))
    BY <2>2, ClearWritten
  <2> QED
    BY <2>1, <2>2, <2>3, OneRowClear
<1>6. CASE SweepResets
  <2>1. job' = [job EXCEPT ![sweeper.job] = ResetState(job[sweeper.job])]
    BY <1>6 DEF SweepResets
  <2> QED
    BY <1>1, <2>1, ClearWritten, OneRowClear
<1>7. CASE SweepChecks \/ \E j \in Jobs : SweepLists(j)
  BY <1>2, <1>7 DEF SweepChecks, SweepLists
<1>8. ASSUME NEW j \in Jobs,
             WindowMoves(j) \/ WaveExpires(j) \/ ClaimAges(j) \/ RetryFallsDue(j)
      PROVE  ClaimsAreClear'
  <2>1. /\ \A x : Opens([job[j] EXCEPT !.window = x], job[j])
        /\ Opens([job[j] EXCEPT !.live = FALSE], job[j])
        /\ Opens([job[j] EXCEPT !.fresh = FALSE], job[j])
        /\ Opens([job[j] EXCEPT !.due = TRUE], job[j])
    BY <1>1 DEF Opens, OpenOffers, Offered, JobRow
  <2>2. \E q : job' = [job EXCEPT ![j] = q] /\ Opens(q, job[j])
    BY <1>8, <2>1 DEF WindowMoves, WaveExpires, ClaimAges, RetryFallsDue
  <2> QED
    BY <1>1, <2>2, ClearStays, OneRowClear
<1> QED
  BY <1>3, <1>4, <1>5, <1>6, <1>7, <1>8

\* Acceptance: the job taken, the jobs superseded, the rows the lookup healed.
LEMMA AcceptClear ==
    ASSUME IInv, ClaimsAreClear, NEW e \in Emps, NEW j \in Jobs, Accept(e, j)
    PROVE  ClaimsAreClear'
<1>1. PICK K : \E rows :
         /\ \A k \in Jobs : rows[k] \in IF k = j THEN {Accepted(Healed(job, K)[j], e)}
                                        ELSE Superseded(Healed(job, K)[k], e)
         /\ job' = rows
  <2>1. PICK seen \in Lookups(job, {e}) :
          LET table == HealedBy(job, seen)
              rest(k) == IF k = j THEN {Accepted(table[j], e)} ELSE Superseded(table[k], e)
          IN \E rows \in [Jobs -> UNION {rest(k) : k \in Jobs}] :
                /\ \A k \in Jobs : rows[k] \in rest(k)
                /\ job' = rows
    BY DEF Accept
  <2> WITNESS {seen[d] : d \in DOMAIN seen}
  <2> HIDE DEF HealedBy, Healed
  <2> QED
    BY <2>1 DEF HealedBy
<1>2. \A k \in Jobs : job'[k] \in IF k = j THEN {Accepted(Healed(job, K)[j], e)}
                                  ELSE Superseded(Healed(job, K)[k], e)
  BY <1>1
<1>3. \A k \in Jobs : /\ Healed(job, K)[k] \in JobRow /\ Sound(Healed(job, K)[k])
                      /\ ClearOfOffers(Healed(job, K)[k])
  BY HealedRows, ClearHealed DEF IInv, ClaimsAreClear
<1> HIDE DEF Healed
<1>4. \A k \in Jobs : ClearOfOffers(job'[k])
  BY <1>2, <1>3, ClearAccepted, ClearSuperseded
<1> QED
  BY <1>4 DEF ClaimsAreClear

LEMMA AcceptTooLateClear ==
    ASSUME IInv, ClaimsAreClear, NEW e \in Emps, NEW j \in Jobs, AcceptTooLate(e, j)
    PROVE  ClaimsAreClear'
<1>1. PICK seen \in Lookups(job, {e}) :
        LET table == HealedBy(job, seen)
            late == CloseOffers([table[j] EXCEPT !.live = FALSE], {e}, "EXPIRED")
        IN \E row \in DispatchOutcomes(late, {}) : job' = [table EXCEPT ![j] = row]
  BY DEF AcceptTooLate
<1> DEFINE K == {seen[d] : d \in DOMAIN seen}
           table == Healed(job, K)
           stale == [table[j] EXCEPT !.live = FALSE]
           late == CloseOffers(stale, {e}, "EXPIRED")
<1>2. PICK row \in DispatchOutcomes(late, {}) : job' = [table EXCEPT ![j] = row]
  BY <1>1 DEF HealedBy
<1>3. /\ \A k \in Jobs : table[k] \in JobRow /\ ClearOfOffers(table[k])
      /\ DOMAIN table = Jobs
  BY HealedRows, ClearHealed DEF Healed, IInv, ClaimsAreClear
<1> HIDE DEF table
<1>4. stale \in JobRow /\ ClearOfOffers(stale)
  <2>1. stale \in JobRow
    BY <1>3, CalmExpired DEF Calm
  <2>2. stale.live = FALSE
    BY <1>3 DEF JobRow
  <2> QED
    BY <2>1, <2>2 DEF ClearOfOffers, OpenOffers
<1> HIDE DEF stale
<1>5. late \in JobRow /\ ClearOfOffers(late)
  BY <1>4, CalmCloseOffers, ClearClosed DEF OfferStatus, Calm
<1> HIDE DEF late
<1>6. ClearOfOffers(row)
  BY <1>5, ClearDispatchOutcomes
<1>7. \A k \in Jobs : job'[k] = IF k = j THEN row ELSE table[k]
  BY <1>2, <1>3
<1> QED
  BY <1>3, <1>6, <1>7 DEF ClaimsAreClear

\* A rejection, in time or too late.
LEMMA RejectClear ==
    ASSUME IInv, ClaimsAreClear, NEW e \in Emps, NEW j \in Jobs,
           Reject(e, j) \/ RejectTooLate(e, j)
    PROVE  ClaimsAreClear'
<1>0. job[j] \in JobRow /\ ClearOfOffers(job[j])
  BY DEF IInv, ClaimsAreClear
<1>1. CASE RejectTooLate(e, j)
  <2>1. ClearOfOffers(CloseOffers(job[j], {e}, "EXPIRED"))
    BY <1>0, ClearClosed DEF OfferStatus
  <2> QED
    BY <1>1, <2>1, OneRowClear DEF RejectTooLate
<1>2. CASE Reject(e, j)
  <2> DEFINE r == CloseOffers(job[j], {e}, "REJECTED")
             released == IF OpenOffers(r) = {} THEN ResetState(r) ELSE r
             q == [released EXCEPT
                    !.declined = @ \cup {e},
                    !.assigned = IF @ = e THEN None ELSE @,
                    !.empJob[e] = IF @ = "completed" THEN @ ELSE "none"]
  <2>1. r \in JobRow /\ ClearOfOffers(r)
    BY <1>0, CalmCloseOffers, ClearClosed DEF OfferStatus, Calm
  <2> HIDE DEF r
  <2>2. released \in JobRow /\ ClearOfOffers(released)
    BY <2>1, CalmResetState, ClearWritten DEF Calm
  <2>3. job' = [job EXCEPT ![j] = q]
    BY <1>2 DEF Reject, r
  <2> HIDE DEF released
  <2>4. Opens(q, released)
    BY <2>2 DEF Opens, OpenOffers, Offered, JobRow
  <2>5. ClearOfOffers(q)
    BY <2>2, <2>4, ClearStays
  <2> QED
    BY <2>3, <2>5, OneRowClear
<1> QED
  BY <1>1, <1>2

\* A cancelled assignment, with the dispatch inside it.
LEMMA CancelAssignmentClear ==
    ASSUME IInv, ClaimsAreClear, NEW e \in Emps, NEW j \in Jobs, CancelAssignment(e, j)
    PROVE  ClaimsAreClear'
<1> DEFINE free == [job[j] EXCEPT !.assigned = None]
           left == ApplyTransition(free, "redispatching")
           closed == [left EXCEPT !.offer[e] = IF @ = "ACCEPTED" THEN "CANCELLED" ELSE @]
<1>1. PICK K : \E row \in DispatchOutcomes(closed, {e}) :
                  job' = [Healed([job EXCEPT ![j] = closed], K) EXCEPT ![j] = row]
  <2>1. PICK seen : \E row \in DispatchOutcomes(closed, {e}) :
                  job' = [HealedBy([job EXCEPT ![j] = closed], seen) EXCEPT ![j] = row]
    BY DEF CancelAssignment
  <2> QED
    BY <2>1 DEF HealedBy
<1>2. PICK row \in DispatchOutcomes(closed, {e}) :
        job' = [Healed([job EXCEPT ![j] = closed], K) EXCEPT ![j] = row]
  BY <1>1
<1>3. free \in JobRow /\ ClearOfOffers(free)
  <2>1. Opens(free, job[j])
    BY RowsAreRows DEF Opens, OpenOffers, Offered, JobRow
  <2>2. free \in JobRow
    BY RowsAreRows DEF JobRow
  <2> QED
    BY <2>1, <2>2, ClearStays DEF ClaimsAreClear
<1> HIDE DEF free
<1>4. left \in JobRow /\ ClearOfOffers(left)
  BY <1>3, CalmApplyTransition, ClearMoved, WrittenStatuses DEF Calm
<1> HIDE DEF left
<1>5. closed \in JobRow /\ ClearOfOffers(closed)
  <2>1. closed \in JobRow
    BY <1>4 DEF JobRow, OfferStatus
  <2>2. Opens(closed, left)
    BY <1>4 DEF Opens, OpenOffers, Offered, JobRow
  <2> QED
    BY <1>4, <2>1, <2>2, ClearStays
<1> HIDE DEF closed
<1>6. ClearOfOffers(row)
  BY <1>5, ClearDispatchOutcomes
<1> QED
  BY <1>2, <1>5, <1>6, HealedClear

\* A technician's cancellation, with the dispatch inside it.
LEMMA TechnicianCancelClear ==
    ASSUME IInv, ClaimsAreClear, NEW e \in Emps, NEW j \in Jobs, TechnicianCancel(e, j)
    PROVE  ClaimsAreClear'
<1> DEFINE left == [job[j] EXCEPT
                     !.assigned = None, !.status = "confirmed",
                     !.offer[e] = IF @ = "none" THEN @ ELSE "CANCELLED",
                     !.empJob[e] = IF @ = "none" THEN @ ELSE "cancelled"]
<1>1. PICK K : \E row \in DispatchOrRetry(left, {e}) :
                  job' = [Healed([job EXCEPT ![j] = left], K) EXCEPT ![j] = row]
  <2>1. PICK seen : \E row \in DispatchOrRetry(left, {e}) :
                  job' = [HealedBy([job EXCEPT ![j] = left], seen) EXCEPT ![j] = row]
    BY DEF TechnicianCancel
  <2> QED
    BY <2>1 DEF HealedBy
<1>2. PICK row \in DispatchOrRetry(left, {e}) :
        job' = [Healed([job EXCEPT ![j] = left], K) EXCEPT ![j] = row]
  BY <1>1
<1>3. left \in JobRow /\ ClearOfOffers(left)
  <2>0. job[j] \in JobRow
    BY RowsAreRows
  <2>1. left \in JobRow
    BY <2>0, WrittenStatuses DEF JobRow, OfferStatus
  <2>2. left.dstate = job[j].dstate /\ left.live = job[j].live
    BY <2>0 DEF JobRow
  <2>3. \A d \in Emps : left.offer[d] \in {job[j].offer[d], "CANCELLED"}
    BY <2>0 DEF JobRow
  <2>4. Opens(left, job[j])
    BY <2>2, <2>3 DEF Opens, OpenOffers, Offered
  <2> QED
    BY <2>1, <2>4, ClearStays DEF ClaimsAreClear
<1> HIDE DEF left
<1>4. ClearOfOffers(row)
  BY <1>3, ClearDispatch
<1> QED
  BY <1>2, <1>3, <1>4, HealedClear

\* The two writes of a cancellation by the customer.
LEMMA CustomerClear ==
    ASSUME IInv, ClaimsAreClear, NEW j \in Jobs,
           CustomerWritesCancelled(j) \/ CustomerCancelSync(j)
    PROVE  ClaimsAreClear'
<1>0. job[j] \in JobRow /\ ClearOfOffers(job[j])
  BY DEF IInv, ClaimsAreClear
<1>1. CASE CustomerWritesCancelled(j)
  <2>1. Opens([job[j] EXCEPT !.status = "cancelled"], job[j])
    BY <1>0 DEF Opens, OpenOffers, Offered, JobRow
  <2> QED
    BY <1>0, <1>1, <2>1, ClearStays, OneRowClear DEF CustomerWritesCancelled
<1>2. CASE CustomerCancelSync(j)
  <2> DEFINE r == ApplyTransition(job[j], "cancelled")
             closed == SetState(CloseOffers(r, Emps, "CANCELLED"), "CANCELLED")
             q == [closed EXCEPT !.empJob = [d \in Emps |->
                     IF @[d] \in {"none", "completed"} THEN @[d] ELSE "cancelled"]]
  <2>1. PICK K : job' = Healed([job EXCEPT ![j] = q], K)
    <3>1. PICK seen : job' = HealedBy([job EXCEPT ![j] = q], seen)
      BY <1>2 DEF CustomerCancelSync
    <3> QED
      BY <3>1 DEF HealedBy
  <2>2. r \in JobRow /\ ClearOfOffers(r)
    BY <1>0, CalmApplyTransition, ClearMoved, WrittenStatuses DEF Calm
  <2> HIDE DEF r
  <2>3. closed \in JobRow /\ ClearOfOffers(closed)
    <3> DEFINE c == CloseOffers(r, Emps, "CANCELLED")
    <3>1. c \in JobRow /\ ClearOfOffers(c)
      BY <2>2, CalmCloseOffers, ClearClosed DEF OfferStatus, Calm
    <3> HIDE DEF c
    <3>2. SetState(c, "CANCELLED") \in JobRow /\ ClearOfOffers(SetState(c, "CANCELLED"))
      BY <3>1, CalmSetState, ClearWritten DEF Calm, DispatchStatus
    <3> QED
      BY <3>2 DEF c
  <2> HIDE DEF closed
  <2>4. q \in JobRow
    BY <2>3, WrittenStatuses DEF JobRow
  <2>5. Opens(q, closed)
    BY <2>3 DEF Opens, OpenOffers, Offered, JobRow
  <2> HIDE DEF q
  <2>6. ClearOfOffers(q)
    BY <2>3, <2>5, ClearStays
  <2> QED
    BY <2>1, <2>4, <2>6, HealedClear
<1> QED
  BY <1>1, <1>2

\* Writing a status from a copy, however old the copy.
LEMMA WritesClear ==
    ASSUME IInv, ClaimsAreClear, NEW h \in Handlers, RequestWrites(h)
    PROVE  ClaimsAreClear'
<1> DEFINE j == request[h].job
           r == IF request[h].kind = "noshow" THEN [job[j] EXCEPT !.assigned = None]
                                              ELSE job[j]
           q == Moved(r, request[h].target)
<1>1. job' = [job EXCEPT ![j] = q]
  BY DEF RequestWrites
<1>2. request[h].target \in JobStatuses
  BY DEF IInv, ProcessesOK, Copies
<1>3. ASSUME j \in Jobs PROVE ClearOfOffers(q)
  <2>0. job[j] \in JobRow /\ ClearOfOffers(job[j])
    BY <1>3 DEF IInv, ClaimsAreClear
  <2>1. [job[j] EXCEPT !.assigned = None] \in JobRow
    BY <2>0 DEF JobRow
  <2>2. Opens([job[j] EXCEPT !.assigned = None], job[j])
    BY <2>0 DEF Opens, OpenOffers, Offered, JobRow
  <2>3. r \in JobRow /\ ClearOfOffers(r)
    BY <2>0, <2>1, <2>2, ClearStays
  <2> HIDE DEF r
  <2> QED
    BY <1>2, <2>3, ClearMoved
<1> QED
  BY <1>1, <1>3, OneRowClear

\* The lookup of a reconciliation may heal rows.
LEMMA ReconciliationClear ==
    ASSUME IInv, ClaimsAreClear, NEW h \in Handlers, Reconciliation(h)
    PROVE  ClaimsAreClear'
<1>1. UNCHANGED job \/ \E K : job' = Healed(job, K)
  BY DEF Reconciliation, ReadsEmployee, LooksUp, ReconcileSaves, Presence, HealedBy
<1>2. \A K : \A k \in Jobs : ClearOfOffers(Healed(job, K)[k])
  BY ClearHealed DEF IInv, ClaimsAreClear
<1> QED
  BY <1>1, <1>2 DEF ClaimsAreClear

LEMMA StepClear ==
    ASSUME IInv, ClaimsAreClear, [Next]_vars
    PROVE  ClaimsAreClear'
<1>1. UNCHANGED job => ClaimsAreClear'
  BY DEF ClaimsAreClear
<1>2. CASE UNCHANGED vars
  BY <1>1, <1>2 DEF vars
<1>3. ASSUME NEW e \in Emps, NEW j \in Jobs, TechnicianStep(e, j) PROVE ClaimsAreClear'
  BY <1>3, AcceptClear, AcceptTooLateClear, RejectClear, CancelAssignmentClear,
     TechnicianCancelClear DEF TechnicianStep
<1>4. ASSUME NEW h \in Handlers, NEW j \in Jobs, CopiesJob(h, j) PROVE ClaimsAreClear'
  BY <1>1, <1>4 DEF CopiesJob, AdminReads, NoShowReads, SuperuserReads, TransitionReads
<1> QED
  BY <1>2, <1>3, <1>4, QuietClear, CustomerClear, WritesClear, ReconciliationClear
     DEF Next, CopiesJob, Reconciliation

\* A claim that a dead process left is taken up by the sweep, on every job the sweep's
\* query returns (one with coordinates whose date has not passed): the job has no open
\* offer, whatever the other workers and the technicians did to it meanwhile
\* (dispatch_pending_jobs, dispatch_job).
THEOREM StaleClaimsPicked == Spec => []StaleClaimsArePicked
<1>1. Init => ClaimsAreClear
  <2> SUFFICES ASSUME Init, NEW j \in Jobs PROVE ClearOfOffers(job[j])
    BY DEF ClaimsAreClear
  <2>1. \A b : NewJob(b).dstate = "NONE"
    BY DEF NewJob
  <2>2. job[j].dstate = "NONE"
    BY <2>1 DEF Init
  <2> QED
    BY <2>2 DEF ClearOfOffers
<1>2. IInv /\ ClaimsAreClear /\ [Next]_vars => ClaimsAreClear'
  BY StepClear
<1>3. ClaimsAreClear => StaleClaimsArePicked
  BY DEF ClaimsAreClear, ClearOfOffers, StaleClaimsArePicked, SweepPicks
<1> QED
  BY <1>1, <1>2, <1>3, Invariance, PTL DEF Spec

-----------------------------------------------------------------------------
(***************************************************************************)
(* The table of transitions.  Statements keep the status of their row,     *)
(* send a job that nobody holds out again, or ask the table.               *)
(***************************************************************************)

\* q may follow r: the status stays, or a dispatch marked the job unassigned, as the
\* table allows or as nobody holds the job.
Sends(q, r) ==
    \/ q.status = r.status
    \/ /\ q.status = "unassigned"
       /\ \/ CanTransition(r.status, "unassigned")
          \/ r.status \notin {"completed", "cancelled"} /\ r.assigned = None

RowsByTable == \A j \in Jobs : ByTable(j)

LEMMA SendsByTable ==
    ASSUME NEW j, Sends(job'[j], job[j])
    PROVE  ByTable(j)
  BY DEF Sends, ByTable, CanTransition

LEMMA KeptSends ==
    ASSUME NEW q, NEW r, NEW p, Keeps(q, r), Sends(p, q)
    PROVE  Sends(p, r)
  BY DEF Keeps, Sends

LEMMA KeepsSends ==
    ASSUME NEW q, NEW r, Keeps(q, r)
    PROVE  Sends(q, r)
  BY DEF Keeps, Sends

LEMMA SendsChain ==
    ASSUME NEW p, NEW q, NEW r, Sends(p, q), Sends(q, r), q.assigned = r.assigned
    PROVE  Sends(p, r)
  BY DEF Sends

\* The first phase marks only a job without coordinates, where the table allows it.
LEMMA CallSends ==
    ASSUME NEW r \in JobRow
    PROVE  /\ Sends(Claimed(r), r) /\ Claimed(r).assigned = r.assigned
           /\ Sends(TurnedAway(r), r)
<1> DEFINE u == Unplaced(r)
<1>1. u \in JobRow /\ Sends(u, r) /\ u.assigned = r.assigned
  <2>1. u \in JobRow
    BY CalmUnplaced DEF Calm
  <2> QED
    BY <2>1, RowMoved, WrittenStatuses DEF Unplaced, Unplaceable, Sends
<1>2. Claimed(r) = [u EXCEPT !.dstate = "DISPATCHING", !.fresh = TRUE, !.due = TRUE]
  BY DEF Claimed
<1>3. TurnedAway(r) \in {r, u} \cup {SetState(r, s) : s \in DispatchStatus}
  BY DEF TurnedAway, DispatchStatus
<1> HIDE DEF u
<1>4. Claimed(r).status = u.status /\ Claimed(r).assigned = u.assigned
  BY <1>1, <1>2 DEF JobRow
<1>5. \A s : Sends(SetState(r, s), r)
  BY RowKept, KeepsSends
<1> QED
  BY <1>1, <1>3, <1>4, <1>5 DEF Sends

\* The last phase of a dispatch: what it writes, it writes on a job nobody holds.
LEMMA FinalisedSends ==
    ASSUME NEW r \in JobRow, NEW wave, IsWave(wave)
    PROVE  Sends(Finalised(r, wave), r)
<1>1. CASE r.status \in {"completed", "cancelled"} \/ r.assigned # None
  BY <1>1, RowKept, KeepsSends DEF Finalised
<1>2. CASE r.status \notin {"completed", "cancelled"} /\ r.assigned = None /\ wave = {}
  <2>1. [r EXCEPT !.status = "unassigned"] \in JobRow
        /\ [r EXCEPT !.status = "unassigned"].status = "unassigned"
    BY <1>2, WrittenStatuses DEF JobRow
  <2> QED
    BY <1>2, <2>1, RowKept DEF Finalised, Keeps, Sends
<1>3. CASE r.status \notin {"completed", "cancelled"} /\ r.assigned = None /\ wave # {}
  <2> DEFINE swept == CloseOffers(r, Emps, "EXPIRED")
             offer == [e \in Emps |-> IF e \in wave THEN "OFFERED" ELSE swept.offer[e]]
             spent == swept.spent \cup {e \in wave : swept.offer[e] \in Excluding}
             offered == [swept EXCEPT
                !.offer = offer, !.spent = spent, !.live = TRUE,
                !.dstate = "OFFER_ACTIVE", !.fresh = FALSE, !.due = TRUE]
  <2>1. swept \in JobRow /\ swept.status = r.status
    BY <1>3, CalmCloseOffers, RowKept DEF Calm, OfferStatus, Keeps
  <2>2. NewWave(r, wave) \in {r, offered, ApplyTransition(offered, "unassigned")}
    BY <2>1 DEF NewWave, JobRow
  <2> HIDE DEF swept
  <2>0. offer \in [Emps -> OfferStatus] /\ spent \subseteq Emps
    BY <2>1 DEF JobRow, OfferStatus, IsWave
  <2> HIDE DEF offer, spent
  <2>3. offered \in JobRow /\ offered.status = r.status
    BY <2>0, <2>1 DEF JobRow, DispatchStatus
  <2> HIDE DEF offered
  <2>4. NewWave(r, wave).status \in {r.status, "unassigned"}
    BY <1>3, <2>2, <2>3, RowMoved, WrittenStatuses
  <2> QED
    BY <1>3, <2>4 DEF Finalised, Sends
<1> QED
  BY <1>1, <1>2, <1>3

\* So does a dispatch inside another transaction,
LEMMA DispatchSends ==
    ASSUME NEW r \in JobRow, NEW excluded, NEW q \in DispatchOrRetry(r, excluded)
    PROVE  Sends(q, r)
<1>1. CASE q = TurnedAway(r)
  BY <1>1, CallSends
<1>2. Claimed(r) \in JobRow
  BY CalmClaimed DEF Calm
<1>3. ASSUME NEW wave \in Waves(r, excluded), q = Finalised(Claimed(r), wave)
      PROVE  Sends(q, r)
  BY <1>2, <1>3, SmallWaves, FinalisedSends, CallSends, SendsChain
<1>4. CASE q = RetryLater(Claimed(r))
  BY <1>2, <1>4, RowKept, KeepsSends, CallSends, SendsChain
<1> QED
  BY <1>1, <1>3, <1>4 DEF DispatchOrRetry, DispatchOutcomes

\* and what an acceptance does to the other jobs that were offered.
LEMMA SupersededSends ==
    ASSUME NEW r \in JobRow, NEW e, NEW q \in Superseded(r, e)
    PROVE  Sends(q, r)
<1> DEFINE rest == CloseOffers(r, {e}, "SUPERSEDED_BY_ACCEPTANCE")
<1>1. rest \in JobRow /\ Keeps(rest, r)
  BY CalmCloseOffers, RowKept DEF Calm, OfferStatus
<1>2. q \in {r, rest} \cup DispatchOrRetry(ResetState(rest), {})
  BY DEF Superseded
<1> HIDE DEF rest
<1>3. ResetState(rest) \in JobRow /\ Keeps(ResetState(rest), r)
  BY <1>1, CalmResetState, RowKept DEF Calm, Keeps
<1>4. Sends(r, r) /\ Sends(rest, r)
  BY <1>1 DEF Keeps, Sends
<1> QED
  BY <1>2, <1>3, <1>4, DispatchSends, KeptSends

\* The accepted job reads accepted.
LEMMA AcceptedReads ==
    ASSUME NEW r \in JobRow, NEW e \in Emps
    PROVE  Accepted(r, e).status = "accepted"
<1> DEFINE won == [r EXCEPT !.offer[e] = IF @ = "OFFERED" THEN "ACCEPTED" ELSE @,
                            !.assigned = e]
           moved == ApplyTransition(won, "accepted")
           marked == SetState(moved, "ASSIGNED")
           closed == CloseOffers(marked, Emps \ {e}, "SUPERSEDED_BY_ACCEPTANCE")
<1>1. won \in JobRow
  BY DEF JobRow, OfferStatus
<1> HIDE DEF won
<1>2. moved \in JobRow /\ moved.status = "accepted"
  BY <1>1, WrittenStatuses, CalmApplyTransition, RowMoved DEF Calm
<1> HIDE DEF moved
<1>3. marked \in JobRow /\ marked.status = "accepted"
  BY <1>2, CalmSetState, RowKept DEF Calm, DispatchStatus, Keeps
<1> HIDE DEF marked
<1>4. closed \in JobRow /\ closed.status = "accepted"
  BY <1>3, CalmCloseOffers, RowKept DEF Calm, OfferStatus, Keeps
<1>5. Accepted(r, e) = [closed EXCEPT !.empJob[e] = "accepted"]
  BY DEF Accepted, closed, marked, moved, won
<1> HIDE DEF closed
<1> QED
  BY <1>4, <1>5 DEF JobRow

-----------------------------------------------------------------------------
(***************************************************************************)
(* Steps.                                                                  *)
(***************************************************************************)

LEMMA OneRowByTable ==
    ASSUME IInv, NEW j, NEW q, job' = [job EXCEPT ![j] = q],
           j \in Jobs => Sends(q, job[j])
    PROVE  RowsByTable
<1>1. ASSUME NEW k \in Jobs PROVE Sends(job'[k], job[k])
  <2>1. job'[k] = IF k = j THEN q ELSE job[k]
    BY DEF IInv
  <2> QED
    BY <2>1 DEF Sends
<1> QED
  BY <1>1, SendsByTable DEF RowsByTable

\* Row j becomes p, lookups heal rows, and row j may become q: the rows of the other
\* jobs keep their status.
LEMMA HealedByTable ==
    ASSUME IInv, NEW j \in Jobs, NEW p \in JobRow, NEW q, NEW K, Sends(q, p),
           \/ job' = Healed([job EXCEPT ![j] = p], K)
           \/ job' = [Healed([job EXCEPT ![j] = p], K) EXCEPT ![j] = q],
           Sends(job'[j], p) => ByTable(j)
    PROVE  RowsByTable
<1> DEFINE table == [job EXCEPT ![j] = p]
<1>1. /\ \A k \in Jobs : table[k] = IF k = j THEN p ELSE job[k]
      /\ \A k \in Jobs : table[k] \in JobRow
  BY DEF IInv
<1> HIDE DEF table
<1>2. \A k \in Jobs : Keeps(Healed(table, K)[k], table[k])
  BY <1>1, HealedKept
<1>3. DOMAIN Healed(table, K) = Jobs
  BY DEF Healed
<1>4. /\ \A k \in Jobs \ {j} : job'[k] = Healed(table, K)[k]
      /\ job'[j] \in {q, Healed(table, K)[j]}
  <2> HIDE DEF Healed
  <2> QED
    BY <1>3 DEF table
<1> HIDE DEF Healed
<1>5. \A k \in Jobs \ {j} : Sends(job'[k], job[k])
  BY <1>1, <1>2, <1>4, KeepsSends
<1>6. Sends(job'[j], p)
  BY <1>1, <1>2, <1>4, KeepsSends
<1> QED
  BY <1>5, <1>6, SendsByTable DEF RowsByTable

\* Dispatching workers, the sweep and the clocks.
LEMMA QuietByTable ==
    ASSUME IInv,
           \/ \E w \in Workers : WorkerStep(w) \/ Crash(w)
           \/ \E w \in Workers, j \in Jobs, force \in BOOLEAN :
                 SweepFinds(w, j) \/ Claim(w, j, force) \/ TurnAway(w, j, force)
           \/ \E j \in Jobs : SweepLists(j) \/ \E e \in Emps : ExpireOffer(j, e)
           \/ SweepChecks \/ SweepResets
           \/ \E j \in Jobs : WindowMoves(j) \/ WaveExpires(j) \/ ClaimAges(j)
                               \/ RetryFallsDue(j)
    PROVE  RowsByTable
<1>1. ASSUME NEW r \in JobRow
      PROVE  /\ \A s : Sends(SetState(r, s), r)
             /\ Sends(ResetState(r), r) /\ Sends(RetryLater(r), r)
             /\ Sends(Claimed(r), r) /\ Sends(TurnedAway(r), r) /\ Sends(r, r)
             /\ \A x : Sends([r EXCEPT !.window = x], r)
             /\ Sends([r EXCEPT !.live = FALSE], r)
             /\ Sends([r EXCEPT !.fresh = FALSE], r)
             /\ Sends([r EXCEPT !.due = TRUE], r)
  <2>1. /\ \A x : Keeps([r EXCEPT !.window = x], r)
        /\ Keeps([r EXCEPT !.live = FALSE], r)
        /\ Keeps([r EXCEPT !.fresh = FALSE], r)
        /\ Keeps([r EXCEPT !.due = TRUE], r) /\ Keeps(r, r)
    BY DEF Keeps, JobRow
  <2> QED
    BY <2>1, RowKept, CallSends, KeepsSends
<1>2. \A j \in Jobs : job[j] \in JobRow
  BY DEF IInv
<1>3. UNCHANGED job => RowsByTable
  BY SendsByTable DEF RowsByTable, Sends
<1>4. ASSUME NEW w \in Workers, WorkerStep(w) \/ Crash(w) PROVE RowsByTable
  <2>1. CASE Evaluate(w) \/ Crash(w)
    BY <1>3, <2>1 DEF Evaluate, Crash
  <2>2. CASE EvaluateFails(w)
    <3> DEFINE j == worker[w].job
               q == IF job[j].dstate = "DISPATCHING" THEN RetryLater(job[j]) ELSE job[j]
    <3>1. job' = [job EXCEPT ![j] = q]
      BY <2>2 DEF EvaluateFails
    <3>2. j \in Jobs => Sends(q, job[j])
      BY <1>1, <1>2
    <3> QED
      BY <3>1, <3>2, OneRowByTable
  <2>3. CASE Finalize(w)
    <3> DEFINE j == worker[w].job
               q == Finalised(job[j], worker[w].wave)
    <3>1. job' = [job EXCEPT ![j] = q]
      BY <2>3 DEF Finalize
    <3>2. IsWave(worker[w].wave)
      BY DEF IInv, ProcessesOK, Held
    <3>3. j \in Jobs => Sends(q, job[j])
      BY <1>2, <3>2, FinalisedSends
    <3> QED
      BY <3>1, <3>3, OneRowByTable
  <2>4. CASE MarksExpired(w)
    <3> DEFINE j == worker[w].job
    <3>1. job' = [job EXCEPT ![j] = SetState(job[j], "EXPIRED")]
      BY <2>4 DEF MarksExpired
    <3>2. j \in Jobs => Sends(SetState(job[j], "EXPIRED"), job[j])
      BY <1>1, <1>2
    <3> QED
      BY <3>1, <3>2, OneRowByTable
  <2> QED
    BY <1>4, <2>1, <2>2, <2>3, <2>4 DEF WorkerStep
<1>5. ASSUME NEW w \in Workers, NEW j \in Jobs, NEW force \in BOOLEAN,
             SweepFinds(w, j) \/ Claim(w, j, force) \/ TurnAway(w, j, force)
      PROVE  RowsByTable
  <2>1. Sends(Claimed(job[j]), job[j]) /\ Sends(TurnedAway(job[j]), job[j])
    BY <1>1, <1>2
  <2> QED
    BY <1>3, <1>5, <2>1, CallWrites, OneRowByTable
<1>6. ASSUME NEW j \in Jobs, NEW e \in Emps, ExpireOffer(j, e) PROVE RowsByTable
  <2> DEFINE r == CloseOffers(job[j], {e}, "EXPIRED")
             q == IF OpenOffers(r) = {} THEN ResetState(r) ELSE r
  <2>1. job' = [job EXCEPT ![j] = q]
    BY <1>6 DEF ExpireOffer
  <2>2. r \in JobRow /\ Keeps(r, job[j])
    BY <1>2, CalmCloseOffers, RowKept DEF OfferStatus, Calm
  <2>3. Sends(r, job[j]) /\ Sends(ResetState(r), job[j])
    BY <1>1, <2>2, KeptSends
  <2> QED
    BY <2>1, <2>3, OneRowByTable
<1>7. CASE SweepResets
  <2>1. job' = [job EXCEPT ![sweeper.job] = ResetState(job[sweeper.job])]
    BY <1>7 DEF SweepResets
  <2> QED
    BY <1>1, <1>2, <2>1, OneRowByTable
<1>8. CASE SweepChecks \/ \E j \in Jobs : SweepLists(j)
  BY <1>3, <1>8 DEF SweepChecks, SweepLists
<1>9. ASSUME NEW j \in Jobs,
             WindowMoves(j) \/ WaveExpires(j) \/ ClaimAges(j) \/ RetryFallsDue(j)
      PROVE  RowsByTable
  BY <1>1, <1>2, <1>9, OneRowByTable DEF WindowMoves, WaveExpires, ClaimAges, RetryFallsDue
<1> QED
  BY <1>4, <1>5, <1>6, <1>7, <1>8, <1>9

\* Acceptance asks the table about the job taken; the jobs superseded may be sent out.
LEMMA AcceptByTable ==
    ASSUME IInv, NEW e \in Emps, NEW j \in Jobs, Accept(e, j)
    PROVE  RowsByTable
<1>1. PICK K : \E rows :
         /\ \A k \in Jobs : rows[k] \in IF k = j THEN {Accepted(Healed(job, K)[j], e)}
                                        ELSE Superseded(Healed(job, K)[k], e)
         /\ job' = rows
  <2>1. PICK seen \in Lookups(job, {e}) :
          LET table == HealedBy(job, seen)
              rest(k) == IF k = j THEN {Accepted(table[j], e)} ELSE Superseded(table[k], e)
          IN \E rows \in [Jobs -> UNION {rest(k) : k \in Jobs}] :
                /\ \A k \in Jobs : rows[k] \in rest(k)
                /\ job' = rows
    BY DEF Accept
  <2> WITNESS {seen[d] : d \in DOMAIN seen}
  <2> HIDE DEF HealedBy, Healed
  <2> QED
    BY <2>1 DEF HealedBy
<1>2. \A k \in Jobs : job'[k] \in IF k = j THEN {Accepted(Healed(job, K)[j], e)}
                                  ELSE Superseded(Healed(job, K)[k], e)
  BY <1>1
<1>3. \A k \in Jobs : Healed(job, K)[k] \in JobRow /\ Keeps(Healed(job, K)[k], job[k])
  BY HealedKept DEF IInv
<1>4. CanTransition(job[j].status, "accepted")
  BY DEF Accept
<1> HIDE DEF Healed
<1>5. job'[j].status = "accepted"
  BY <1>2, <1>3, AcceptedReads
<1>6. \A k \in Jobs \ {j} : Sends(job'[k], job[k])
  BY <1>2, <1>3, SupersededSends, KeptSends
<1>7. ByTable(j)
  BY <1>4, <1>5 DEF ByTable
<1> QED
  BY <1>6, <1>7, SendsByTable DEF RowsByTable

LEMMA AcceptTooLateByTable ==
    ASSUME IInv, NEW e \in Emps, NEW j \in Jobs, AcceptTooLate(e, j)
    PROVE  RowsByTable
<1>1. PICK seen \in Lookups(job, {e}) :
        LET table == HealedBy(job, seen)
            late == CloseOffers([table[j] EXCEPT !.live = FALSE], {e}, "EXPIRED")
        IN \E row \in DispatchOutcomes(late, {}) : job' = [table EXCEPT ![j] = row]
  BY DEF AcceptTooLate
<1> DEFINE K == {seen[d] : d \in DOMAIN seen}
           table == Healed(job, K)
           stale == [table[j] EXCEPT !.live = FALSE]
           late == CloseOffers(stale, {e}, "EXPIRED")
<1>2. PICK row \in DispatchOutcomes(late, {}) : job' = [table EXCEPT ![j] = row]
  BY <1>1 DEF HealedBy
<1>3. /\ \A k \in Jobs : table[k] \in JobRow /\ Keeps(table[k], job[k])
      /\ DOMAIN table = Jobs
  BY HealedKept DEF Healed, IInv
<1> HIDE DEF table
<1>4. stale \in JobRow /\ Keeps(stale, job[j])
  BY <1>3, CalmExpired DEF Calm, Keeps, JobRow
<1> HIDE DEF stale
<1>5. late \in JobRow /\ Keeps(late, job[j])
  BY <1>4, CalmCloseOffers, RowKept DEF OfferStatus, Calm, Keeps
<1> HIDE DEF late
<1>6. Sends(row, job[j])
  BY <1>2, <1>5, DispatchSends, KeptSends DEF DispatchOrRetry
<1>7. \A k \in Jobs : job'[k] = IF k = j THEN row ELSE table[k]
  BY <1>2, <1>3
<1> QED
  BY <1>3, <1>6, <1>7, KeepsSends, SendsByTable DEF RowsByTable

\* A rejection, in time or too late.
LEMMA RejectByTable ==
    ASSUME IInv, NEW e \in Emps, NEW j \in Jobs, Reject(e, j) \/ RejectTooLate(e, j)
    PROVE  RowsByTable
<1>0. job[j] \in JobRow
  BY RowsAreRows
<1>1. CASE RejectTooLate(e, j)
  BY <1>0, <1>1, RowKept, KeepsSends, OneRowByTable DEF RejectTooLate
<1>2. CASE Reject(e, j)
  <2> DEFINE r == CloseOffers(job[j], {e}, "REJECTED")
             released == IF OpenOffers(r) = {} THEN ResetState(r) ELSE r
             q == [released EXCEPT
                    !.declined = @ \cup {e},
                    !.assigned = IF @ = e THEN None ELSE @,
                    !.empJob[e] = IF @ = "completed" THEN @ ELSE "none"]
  <2>1. r \in JobRow /\ r.status = job[j].status
    BY <1>0, CalmCloseOffers, RowKept DEF OfferStatus, Calm, Keeps
  <2> HIDE DEF r
  <2>2. released \in JobRow /\ released.status = job[j].status
    BY <2>1, CalmResetState, RowKept DEF Calm, Keeps
  <2>3. job' = [job EXCEPT ![j] = q]
    BY <1>2 DEF Reject, r
  <2> HIDE DEF released
  <2>4. q.status = job[j].status
    BY <2>2 DEF JobRow
  <2> HIDE DEF q
  <2> QED
    BY <2>3, <2>4, OneRowByTable DEF Sends
<1> QED
  BY <1>1, <1>2

\* A cancelled assignment: redispatching, or what the dispatch inside it makes of that.
LEMMA CancelAssignmentByTable ==
    ASSUME IInv, NEW e \in Emps, NEW j \in Jobs, CancelAssignment(e, j)
    PROVE  RowsByTable
<1> DEFINE free == [job[j] EXCEPT !.assigned = None]
           left == ApplyTransition(free, "redispatching")
           closed == [left EXCEPT !.offer[e] = IF @ = "ACCEPTED" THEN "CANCELLED" ELSE @]
<1>1. PICK K : \E row \in DispatchOutcomes(closed, {e}) :
                  job' = [Healed([job EXCEPT ![j] = closed], K) EXCEPT ![j] = row]
  <2>1. PICK seen : \E row \in DispatchOutcomes(closed, {e}) :
                  job' = [HealedBy([job EXCEPT ![j] = closed], seen) EXCEPT ![j] = row]
    BY DEF CancelAssignment
  <2> QED
    BY <2>1 DEF HealedBy
<1>2. PICK row \in DispatchOutcomes(closed, {e}) :
        job' = [Healed([job EXCEPT ![j] = closed], K) EXCEPT ![j] = row]
  BY <1>1
<1>3. free \in JobRow
  BY RowsAreRows DEF JobRow
<1> HIDE DEF free
<1>4. left \in JobRow /\ left.status = "redispatching"
  BY <1>3, CalmApplyTransition, RowMoved, WrittenStatuses DEF Calm
<1> HIDE DEF left
<1>5. closed \in JobRow /\ closed.status = "redispatching"
  BY <1>4 DEF JobRow, OfferStatus
<1> HIDE DEF closed
<1>6. Sends(row, closed)
  BY <1>2, <1>5, DispatchSends DEF DispatchOrRetry
<1>7. job[j].status \in {"accepted", "on_the_way"}
  BY DEF CancelAssignment
<1>8. ASSUME Sends(job'[j], closed) PROVE ByTable(j)
  <2>1. job'[j].status \in {"redispatching", "unassigned"}
    BY <1>5, <1>8 DEF Sends
  <2>2. CanTransition(job[j].status, "redispatching")
    BY <1>7 DEF CanTransition, AllowedTransitions
  <2> QED
    BY <1>7, <2>1, <2>2 DEF ByTable
<1> QED
  BY <1>2, <1>5, <1>6, <1>8, HealedByTable

\* A technician's cancellation writes confirmed, and dispatches.
LEMMA TechnicianCancelByTable ==
    ASSUME IInv, NEW e \in Emps, NEW j \in Jobs, TechnicianCancel(e, j)
    PROVE  RowsByTable
<1> DEFINE left == [job[j] EXCEPT
                     !.assigned = None, !.status = "confirmed",
                     !.offer[e] = IF @ = "none" THEN @ ELSE "CANCELLED",
                     !.empJob[e] = IF @ = "none" THEN @ ELSE "cancelled"]
<1>1. PICK K : \E row \in DispatchOrRetry(left, {e}) :
                  job' = [Healed([job EXCEPT ![j] = left], K) EXCEPT ![j] = row]
  <2>1. PICK seen : \E row \in DispatchOrRetry(left, {e}) :
                  job' = [HealedBy([job EXCEPT ![j] = left], seen) EXCEPT ![j] = row]
    BY DEF TechnicianCancel
  <2> QED
    BY <2>1 DEF HealedBy
<1>2. PICK row \in DispatchOrRetry(left, {e}) :
        job' = [Healed([job EXCEPT ![j] = left], K) EXCEPT ![j] = row]
  BY <1>1
<1>3. left \in JobRow /\ left.status = "confirmed"
  <2>1. job[j] \in JobRow
    BY RowsAreRows
  <2> QED
    BY <2>1, WrittenStatuses DEF JobRow, OfferStatus
<1> HIDE DEF left
<1>4. Sends(row, left)
  BY <1>3, DispatchSends
<1>5. job[j].status \in {"accepted", "on_the_way", "en_route"}
  BY DEF TechnicianCancel
<1>6. Sends(job'[j], left) => ByTable(j)
  BY <1>3, <1>5 DEF Sends, ByTable
<1> QED
  BY <1>2, <1>3, <1>4, <1>6, HealedByTable

\* The two writes of a cancellation by the customer.
LEMMA CustomerByTable ==
    ASSUME IInv, NEW j \in Jobs, CustomerWritesCancelled(j) \/ CustomerCancelSync(j)
    PROVE  RowsByTable
<1>0. job[j] \in JobRow
  BY RowsAreRows
<1>1. CASE CustomerWritesCancelled(j)
  <2> DEFINE q == [job[j] EXCEPT !.status = "cancelled"]
  <2>1. job' = [job EXCEPT ![j] = q] /\ job[j].status \notin ClosingStatuses
    BY <1>1 DEF CustomerWritesCancelled
  <2>2. q.status = "cancelled"
    BY <1>0 DEF JobRow
  <2> HIDE DEF q
  <2>3. \A k \in Jobs : job'[k] = IF k = j THEN q ELSE job[k]
    BY <2>1 DEF IInv
  <2>4. \A k \in Jobs \ {j} : Sends(job'[k], job[k])
    BY <2>3 DEF Sends
  <2>5. ByTable(j)
    BY <2>1, <2>2, <2>3 DEF ByTable
  <2> QED
    BY <2>4, <2>5, SendsByTable DEF RowsByTable
<1>2. CASE CustomerCancelSync(j)
  <2> DEFINE r == ApplyTransition(job[j], "cancelled")
             c == CloseOffers(r, Emps, "CANCELLED")
             closed == SetState(c, "CANCELLED")
             q == [closed EXCEPT !.empJob = [d \in Emps |->
                     IF @[d] \in {"none", "completed"} THEN @[d] ELSE "cancelled"]]
  <2>1. PICK K : job' = Healed([job EXCEPT ![j] = q], K)
    <3>1. PICK seen : job' = HealedBy([job EXCEPT ![j] = q], seen)
      BY <1>2 DEF CustomerCancelSync
    <3> QED
      BY <3>1 DEF HealedBy
  <2>2. r \in JobRow /\ r.status = "cancelled"
    BY <1>0, CalmApplyTransition, RowMoved, WrittenStatuses DEF Calm
  <2> HIDE DEF r
  <2>3. c \in JobRow /\ c.status = "cancelled"
    BY <2>2, CalmCloseOffers, RowKept DEF OfferStatus, Calm, Keeps
  <2> HIDE DEF c
  <2>4. closed \in JobRow /\ closed.status = "cancelled"
    BY <2>3, CalmSetState, RowKept DEF Calm, DispatchStatus, Keeps
  <2> HIDE DEF closed
  <2>5. q \in JobRow /\ q.status = "cancelled"
    BY <2>4, WrittenStatuses DEF JobRow
  <2> HIDE DEF q
  <2>6. CanTransition(job[j].status, "cancelled")
    BY <1>2 DEF CustomerCancelSync
  <2>7. Sends(job'[j], q) => ByTable(j)
    BY <2>5, <2>6, CancelledIsFinal DEF Sends, ByTable
  <2>8. Sends(q, q)
    BY DEF Sends
  <2> QED
    BY <2>1, <2>5, <2>7, <2>8, HealedByTable
<1> QED
  BY <1>1, <1>2

\* A request that has read a job asked the table about what it read, or a superuser sent
\* it.
Checked ==
    \A h \in Handlers :
        request[h].kind \in Moving \ {"superuser"}
            => request[h].target \in AllowedTransitions[request[h].read]

\* Writing a status from a copy, however old the copy.
LEMMA WritesByTable ==
    ASSUME IInv, Checked, NEW h \in Handlers, RequestWrites(h)
    PROVE  RowsByTable
<1> DEFINE j == request[h].job
           r == IF request[h].kind = "noshow" THEN [job[j] EXCEPT !.assigned = None]
                                              ELSE job[j]
           q == Moved(r, request[h].target)
<1>1. job' = [job EXCEPT ![j] = q]
  BY DEF RequestWrites
<1>2. request[h].target \in JobStatuses /\ DOMAIN request = Handlers
  BY DEF IInv, ProcessesOK, Copies
<1>3. request'[h] # request[h] /\ request[h].kind \in Moving
  <2>1. /\ NoRequest.kind = "none"
        /\ \A e : [NoRequest EXCEPT !.kind = "reconcile", !.assigned = e].kind = "reconcile"
    BY DEF NoRequest
  <2>2. request'[h].kind \in {"none", "reconcile"}
    BY <1>2, <2>1 DEF RequestWrites
  <2> QED
    BY <2>2 DEF RequestWrites, Moving
<1>4. CASE j \in Jobs
  <2>0. job[j] \in JobRow
    BY <1>4 DEF IInv
  <2>1. r \in JobRow
    BY <2>0 DEF JobRow
  <2> HIDE DEF r
  <2>2. q.status = request[h].target
    BY <1>2, <2>1, RowMoved
  <2> HIDE DEF q
  <2>3. job'[j].status = request[h].target
    BY <1>1, <1>4, <2>2 DEF IInv
  <2>4. ByTable(j)
    BY <1>3, <2>3 DEF ByTable, WrittenOver, Checked
  <2> HIDE DEF j
  <2>5. \A k \in Jobs \ {j} : job'[k] = job[k]
    BY <1>1 DEF IInv
  <2> QED
    BY <2>4, <2>5, SendsByTable DEF RowsByTable, Sends
<1>5. CASE j \notin Jobs
  <2> HIDE DEF j, q
  <2>1. UNCHANGED job
    BY <1>1, <1>5 DEF IInv
  <2> QED
    BY <2>1, SendsByTable DEF RowsByTable, Sends
<1> QED
  BY <1>4, <1>5

\* Every copy of a job is checked when it is made.
LEMMA StepChecked ==
    ASSUME IInv, Checked, [Next]_vars
    PROVE  Checked'
<1>0. request \in [Handlers -> Copies]
  BY DEF IInv, ProcessesOK
<1>1. UNCHANGED request => Checked'
  BY DEF Checked
<1>2. ASSUME NEW h \in Handlers, NEW r, request' = [request EXCEPT ![h] = r],
             r.kind \in Moving \ {"superuser"} => r.target \in AllowedTransitions[r.read]
      PROVE  Checked'
  <2>1. \A g \in Handlers : request'[g] = IF g = h THEN r ELSE request[g]
    BY <1>0, <1>2
  <2> QED
    BY <1>2, <2>1 DEF Checked
<1>3. ASSUME NEW h \in Handlers, NEW j \in Jobs, CopiesJob(h, j)
      PROVE  Checked'
  <2>1. CASE AdminReads(h, j)
    BY <1>2, <2>1 DEF AdminReads
  <2>2. CASE NoShowReads(h, j)
    <3>1. "redispatching" \in AllowedTransitions[job[j].status]
      BY <2>2 DEF NoShowReads, AllowedTransitions
    <3> QED
      BY <1>2, <2>2, <3>1 DEF NoShowReads
  <2>3. ASSUME NEW target \in ProgressStatuses, SuperuserReads(h, j, target)
        PROVE  Checked'
    BY <1>2, <2>3 DEF SuperuserReads
  <2>4. ASSUME NEW e \in Emps, NEW target \in ProgressStatuses, TransitionReads(h, e, j, target)
        PROVE  Checked'
    BY <1>2, <2>4 DEF TransitionReads
  <2> QED
    BY <1>3, <2>1, <2>2, <2>3, <2>4 DEF CopiesJob
<1>4. ASSUME NEW h \in Handlers, RequestWrites(h) \/ Reconciliation(h)
      PROVE  Checked'
  <2>0. /\ NoRequest.kind \notin Moving
        /\ \A e : /\ [NoRequest EXCEPT !.kind = "reconcile", !.assigned = e].kind \notin Moving
                 /\ Reads(e).kind \notin Moving
        /\ \A kind \in {"frees", "occupies"} :
               [request[h] EXCEPT !.kind = kind].kind \notin Moving
    BY <1>0 DEF Reads, NoRequest, Copies, Moving
  <2>1. CASE RequestWrites(h)
    <3>1. request' \in {[request EXCEPT ![h] = NoRequest],
                        [request EXCEPT ![h] = [NoRequest EXCEPT
                            !.kind = "reconcile", !.assigned = request[h].assigned]]}
      BY <2>1 DEF RequestWrites
    <3> QED
      BY <1>2, <2>0, <3>1
  <2>2. CASE ReadsEmployee(h) \/ \E e \in Emps : Presence(h, e)
    <3>1. \E e : request' = [request EXCEPT ![h] = Reads(e)]
      BY <2>2 DEF ReadsEmployee, Presence
    <3> QED
      BY <1>2, <2>0, <3>1
  <2>3. CASE LooksUp(h)
    <3>1. request' \in {[request EXCEPT ![h] = NoRequest],
                        [request EXCEPT ![h] = [request[h] EXCEPT !.kind = "frees"]],
                        [request EXCEPT ![h] = [request[h] EXCEPT !.kind = "occupies"]]}
      BY <2>3 DEF LooksUp
    <3> QED
      BY <1>2, <2>0, <3>1
  <2>4. CASE ReconcileSaves(h)
    <3>1. request' = [request EXCEPT ![h] = NoRequest]
      BY <2>4 DEF ReconcileSaves
    <3> QED
      BY <1>2, <2>0, <3>1
  <2> QED
    BY <1>4, <2>1, <2>2, <2>3, <2>4 DEF Reconciliation
<1>5. ASSUME NEW w \in Workers, WorkerStep(w) \/ Crash(w)
      PROVE  UNCHANGED request
  BY <1>5 DEF WorkerStep, Evaluate, EvaluateFails, Finalize, MarksExpired, Crash
<1>6. ASSUME NEW e \in Emps, NEW j \in Jobs, TechnicianStep(e, j)
      PROVE  UNCHANGED request
  BY <1>6 DEF TechnicianStep, Accept, AcceptTooLate, Reject, RejectTooLate,
              CancelAssignment, TechnicianCancel
<1>7. ASSUME NEW j \in Jobs, CustomerWritesCancelled(j) \/ CustomerCancelSync(j)
      PROVE  UNCHANGED request
  BY <1>7 DEF CustomerWritesCancelled, CustomerCancelSync
<1>8. CASE UNCHANGED vars
  BY <1>1, <1>8 DEF vars
<1> QED
  BY <1>1, <1>3, <1>4, <1>5, <1>6, <1>7, <1>8, QuietRests
     DEF Next, CopiesJob, Reconciliation, Undisturbed

\* A lookup leaves every status.
LEMMA ReconciliationByTable ==
    ASSUME IInv, NEW h \in Handlers, Reconciliation(h)
    PROVE  RowsByTable
<1>1. UNCHANGED job \/ \E K : job' = Healed(job, K)
  BY DEF Reconciliation, ReadsEmployee, LooksUp, ReconcileSaves, Presence, HealedBy
<1>2. \A K : \A k \in Jobs : Keeps(Healed(job, K)[k], job[k])
  BY HealedKept DEF IInv
<1>3. \A k \in Jobs : Sends(job'[k], job[k])
  BY <1>1, <1>2, KeepsSends DEF Sends
<1> QED
  BY <1>3, SendsByTable DEF RowsByTable

LEMMA StepByTable ==
    ASSUME IInv, Checked, [Next]_vars
    PROVE  RowsByTable
<1>1. UNCHANGED job => RowsByTable
  BY SendsByTable DEF RowsByTable, Sends
<1>2. CASE UNCHANGED vars
  BY <1>1, <1>2 DEF vars
<1>3. ASSUME NEW e \in Emps, NEW j \in Jobs, TechnicianStep(e, j) PROVE RowsByTable
  BY <1>3, AcceptByTable, AcceptTooLateByTable, RejectByTable, CancelAssignmentByTable,
     TechnicianCancelByTable DEF TechnicianStep
<1>4. ASSUME NEW h \in Handlers, NEW j \in Jobs, CopiesJob(h, j) PROVE RowsByTable
  BY <1>1, <1>4 DEF CopiesJob, AdminReads, NoShowReads, SuperuserReads, TransitionReads
<1> QED
  BY <1>2, <1>3, <1>4, QuietByTable, CustomerByTable, WritesByTable,
     ReconciliationByTable DEF Next, CopiesJob, Reconciliation

\* Copies stay checked.
LEMMA CopiesChecked == Spec => []Checked
<1>1. Init => Checked
  BY DEF Init, Checked, NoRequest, Moving
<1>2. IInv /\ Checked /\ [Next]_vars => Checked'
  BY StepChecked
<1> QED
  BY <1>1, <1>2, Invariance, PTL DEF Spec

\* The status of a job changes along the table of state_machine.py, whoever changes it,
\* apart from the writers StatusByTable names.
THEOREM StatusFollowsTable == Spec => StatusByTable
<1>1. IInv /\ Checked /\ [Next]_vars => [\A j \in Jobs : ByTable(j)]_vars
  BY StepByTable DEF RowsByTable
<1> QED
  BY <1>1, Invariance, CopiesChecked, PTL DEF Spec, StatusByTable

\* Request q may take job j out of completed or cancelled: a superuser sent it
\* (state_machine.py:102), or it decided while the job had not ended (views.py:5936
\* and the other callers of apply_transition without a lock).
Reopens(j, q) ==
    /\ q.job = j
    /\ q.kind = "superuser" \/ q.read \notin {"completed", "cancelled"}

\* What ends a job, ends it for all but such requests.
FinalUnlessReopened ==
    [][\A j \in Jobs :
          /\ job[j].status \in {"completed", "cancelled"}
          /\ job'[j].status # job[j].status
          => \E h \in Handlers : /\ Reopens(j, request[h]) /\ request'[h] # request[h]
                                 /\ job'[j].status = request[h].target]_vars

\* A job that is completed or cancelled stays so unless one of those two requests
\* writes it: no dispatch, answer of a technician, sweep or cancellation takes it up
\* again.
THEOREM FinalStatusStays == Spec => FinalUnlessReopened
<1>1. ASSUME NEW s \in {"completed", "cancelled"}, NEW t, CanTransition(s, t)
      PROVE  s = t
  BY <1>1 DEF CanTransition, AllowedTransitions
<1>2. ASSUME IInv, Checked, [Next]_vars, NEW j \in Jobs,
             job[j].status \in {"completed", "cancelled"}, job'[j].status # job[j].status
      PROVE  \E h \in Handlers : /\ Reopens(j, request[h]) /\ request'[h] # request[h]
                                 /\ job'[j].status = request[h].target
  <2>1. WrittenOver(j)
    BY <1>1, <1>2, StepByTable DEF RowsByTable, ByTable, ClosingStatuses
  <2>2. PICK h \in Handlers : /\ request[h].job = j /\ request'[h] # request[h]
                              /\ job'[j].status = request[h].target
                              /\ \/ request[h].target \in AllowedTransitions[request[h].read]
                                 \/ request[h].kind = "superuser"
    BY <2>1 DEF WrittenOver
  <2>3. AllowedTransitions["completed"] = {} /\ AllowedTransitions["cancelled"] = {}
    BY DEF AllowedTransitions
  <2> QED
    BY <2>2, <2>3 DEF Reopens
<1>3. IInv /\ Checked /\ [Next]_vars =>
        [\A j \in Jobs :
          /\ job[j].status \in {"completed", "cancelled"}
          /\ job'[j].status # job[j].status
          => \E h \in Handlers : /\ Reopens(j, request[h]) /\ request'[h] # request[h]
                                 /\ job'[j].status = request[h].target]_vars
  BY <1>2
<1> QED
  BY <1>3, Invariance, CopiesChecked, PTL DEF Spec, FinalUnlessReopened

=============================================================================
