----------------------------- MODULE PreService -----------------------------
(***************************************************************************)
(* Starting a job: the three gates the server keeps for it (arrival, the   *)
(* customer's code, the technician's selfie), the endpoints that pass them *)
(* and start the work, and the dashboard that shows the gates and starts   *)
(* the work by itself when it believes all are passed                      *)
(* (EmployeeDashboardPage.jsx).                                            *)
(*                                                                         *)
(* The endpoints read the verification row, change it and save all of it   *)
(* without a lock.  The dashboard keeps one preServiceState for whatever   *)
(* job is selected, and a handler adds its gate to the state it had when   *)
(* the request was made.                                                   *)
(*                                                                         *)
(* Two gates need not be passed at the job itself.  The code's view makes a *)
(* missing row with the arrival in it, before it looks at the code; and a   *)
(* job made from an inspection gets a copy of the inspection's row.         *)
(* The requests are the technician's; what the office moves by hand is not  *)
(* part of the module.                                                     *)
(***************************************************************************)
EXTENDS FiniteSets, Integers

CONSTANTS
    MaxJob,     \* bound: jobs the technician gets, one after the other
    MaxCalls,   \* bound: requests in flight at once
    MaxFaults,  \* bound: requests or answers that are lost
    MaxTries    \* bound: gates the technician tries to pass

ASSUME PreServiceAssumption ==
    /\ MaxJob \in Nat \ {0} /\ MaxCalls \in Nat \ {0}
    /\ MaxFaults \in Nat /\ MaxTries \in Nat

Job == 1..MaxJob
Gates == {"geo", "otp", "photo"}
Submits == {"arrive", "otp", "photo"}
Fetches == {"fetch1", "fetch2"}
Slot == Submits \cup Fetches \cup {"auto", "start", "poll"}

VARIABLES
    current,   \* the job assigned to the technician
    status,    \* [Job -> Status]
    made,      \* jobs that have a verification row
    row,       \* [Job -> the gates of its verification row]
    verified,  \* jobs whose own otp_verified is set
    works,     \* WORK jobs, made from the inspection that is the job before
    clocked,   \* the technician has an open TimeLog
    calls,     \* [Slot -> Call], the requests in flight
    shown,     \* the selected job, its status and timeTracking, as fetched
    gates,     \* preServiceState
    clocking,  \* isClockingInRef
    passed,    \* history: the gates each job has passed
    waived,    \* history: jobs whose row the code's view has made
    clean,     \* history: no submission met another one, nothing was lost, and
               \* the dashboard never showed the gates of another job
    budget

server == <<current, status, made, row, verified, works, clocked>>
client == <<shown, gates, clocking>>
history == <<passed, waived>>
vars == <<server, calls, client, history, clean, budget>>

Status == {"way", "arrived", "working", "over"}
Open == {"way", "arrived"}
Call == [job : Job, pc : {"sent", "read", "saved", "ok", "no", "reload"},
         row : SUBSET Gates,   \* the row as read
         was : Status,         \* the job's status as read
         base : SUBSET Gates]  \* preServiceState as the handler closed over it
Idle == [pc |-> "idle"]

TypeOK ==
    /\ current \in Job /\ status \in [Job -> Status]
    /\ made \subseteq Job /\ row \in [Job -> SUBSET Gates]
    /\ verified \subseteq Job /\ works \subseteq Job \ {1}
    /\ clocked \in BOOLEAN
    /\ calls \in [Slot -> Call \cup {Idle}]
    /\ shown \in [job : Job, status : Status, in : BOOLEAN]
    /\ gates \subseteq Gates /\ clocking \in BOOLEAN
    /\ clocking <=> calls["start"] # Idle
    /\ passed \in [Job -> SUBSET Gates] /\ waived \subseteq Job /\ clean \in BOOLEAN
    /\ budget \in [faults : 0..MaxFaults, tries : 0..MaxTries]

Init ==
    /\ current = 1 /\ status = [j \in Job |-> "way"]
    /\ made = {} /\ row = [j \in Job |-> {}] /\ verified = {}
    /\ works \in SUBSET (Job \ {1}) /\ clocked = FALSE
    /\ calls = [s \in Slot |-> Idle]
    /\ shown = [job |-> 1, status |-> "way", in |-> FALSE]
    /\ gates = {} /\ clocking = FALSE
    /\ passed = [j \in Job |-> {}] /\ waived = {} /\ clean = TRUE
    /\ budget = [faults |-> MaxFaults, tries |-> MaxTries]

Busy == {s \in Slot : calls[s] # Idle}
Request(j) == [job |-> j, pc |-> "sent", row |-> {}, was |-> "way", base |-> {}]

Spend(what) ==
    /\ budget[what] > 0
    /\ budget' = [budget EXCEPT ![what] = @ - 1]

---------------------------------------------------------------------------
(* The server *)

(* A job without a row takes that of its inspection, if there is one.      *)
Inherits(j) == j \in works \ made /\ j - 1 \in made

Synced(j, gs) == gs \cup (IF j \in verified THEN {"otp"} ELSE {})

GatesOf(j) == Synced(j, IF Inherits(j) THEN row[j - 1] ELSE row[j])

Mutant_CompleteWithoutSelfie(j) == {"geo", "otp"} \subseteq GatesOf(j)

Complete(j) == GatesOf(j) = Gates

(* Two requests that change the row meet.                                  *)
Meets(s) == \E o \in (Submits \cup {"auto"}) \ {s} : calls[o] # Idle

(* A request that is done keeps what its handler needs of it.              *)
Done(c, pc) == [c EXCEPT !.pc = pc, !.row = {}, !.was = "way"]

Advance(s, c) == calls' = [calls EXCEPT ![s] = c]

(* A view looks the job up, checks whose it is and reads the row; where    *)
(* there is none, the arrival's and the photo's views make an empty one.   *)
ReadRow(s) ==
    LET c == calls[s]
        mayRead == /\ c.job = current
                   /\ s = "arrive" => status[c.job] \in Open
    IN  /\ s \in {"arrive", "photo", "start"} /\ c # Idle /\ c.pc = "sent"
        /\ Advance(s, IF ~mayRead THEN Done(c, "no")
                      ELSE [c EXCEPT !.pc = IF s = "start" THEN "saved" ELSE "read",
                                     !.row = IF s = "start" THEN {} ELSE row[c.job],
                                     !.was = IF s = "arrive" THEN @ ELSE status[c.job]])
        /\ made' = made \cup (IF mayRead /\ s # "start" THEN {c.job} ELSE {})
        /\ clean' = (clean /\ ~Meets(s))
        /\ UNCHANGED <<current, status, row, verified, works, clocked, client,
                       history, budget>>

(* The code's view makes a missing row with the arrival in it, when a code  *)
(* was set at the booking.                                                  *)
MakesRow(c) ==
    /\ made' = made \cup {c.job}
    /\ IF c.job \in made THEN UNCHANGED <<row, waived>>
       ELSE /\ row' = [row EXCEPT ![c.job] = {"geo"}]
            /\ waived' = waived \cup {c.job}

(* Then it starts the job if the code is known already, or compares it: a   *)
(* wrong or expired code is refused, and the row stays made.                *)
ReadOtp ==
    LET c == calls["otp"] IN
    /\ c # Idle /\ c.pc = "sent"
    /\ \/ /\ Advance("otp", Done(c, "no"))
          /\ UNCHANGED <<made, row, waived>>
       \/ /\ c.job = current /\ MakesRow(c)
          /\ IF "otp" \in row[c.job]
             THEN Advance("otp", [c EXCEPT !.pc = "saved", !.was = status[c.job]])
             ELSE \/ Advance("otp", Done(c, "no"))
                  \/ Advance("otp", [c EXCEPT !.pc = "read", !.row = row'[c.job],
                                              !.was = status[c.job]])
    /\ clean' = (clean /\ ~Meets("otp"))
    /\ UNCHANGED <<current, status, verified, works, clocked, client, passed, budget>>

Saves(j, newRow, gate) ==
    /\ row' = [row EXCEPT ![j] = newRow]
    /\ passed' = [passed EXCEPT ![j] = @ \cup {gate}]
    /\ UNCHANGED <<current, made, works, clocked, client, waived, clean, budget>>

(* An arrival issues a new code where the row's is used up or expired: the  *)
(* row forgets a code that only the row knew of.                            *)
SaveArrival ==
    LET c == calls["arrive"] IN
    /\ c # Idle /\ c.pc = "read"
    /\ Saves(c.job, Synced(c.job, (c.row \ {"otp"}) \cup {"geo"}), "geo")
    /\ status' = [status EXCEPT ![c.job] = "arrived"]
    /\ Advance("arrive", Done(c, "ok"))
    /\ UNCHANGED verified

SaveOtp ==
    LET c == calls["otp"] IN
    /\ c # Idle /\ c.pc = "read"
    /\ Saves(c.job, c.row \cup {"otp"}, "otp")
    /\ verified' = verified \cup {c.job}
    /\ Advance("otp", [c EXCEPT !.pc = "saved", !.row = {}])
    /\ UNCHANGED status

Mutant_PhotoReplacesRow ==
    LET c == calls["photo"] IN
    /\ c # Idle /\ c.pc = "read"
    /\ Saves(c.job, {"photo"}, "photo")
    /\ Advance("photo", Done(c, "ok"))
    /\ UNCHANGED <<status, verified>>

(* The photo view calls the starter only if its own row is complete.       *)
SavePhoto ==
    LET c == calls["photo"]
        newRow == Synced(c.job, c.row \cup {"photo"})
    IN  /\ c # Idle /\ c.pc = "read"
        /\ Saves(c.job, newRow, "photo")
        /\ Advance("photo", IF newRow = Gates THEN [c EXCEPT !.pc = "saved", !.row = {}]
                                              ELSE Done(c, "ok"))
        /\ UNCHANGED <<status, verified>>

(* ensure_job_started reads the row anew, makes a missing one from the     *)
(* inspection's, and moves the job on from the status its view has read.   *)
EnsureStarted(s) ==
    LET c == calls[s]
        starts == Complete(c.job)
    IN  /\ c # Idle /\ c.pc = "saved"
        /\ made' = made \cup (IF Inherits(c.job) THEN {c.job} ELSE {})
        /\ row' = [row EXCEPT ![c.job] = GatesOf(c.job)]
        /\ clocked' = (clocked \/ starts)
        /\ status' = IF starts /\ c.was # "working"
                     THEN [status EXCEPT ![c.job] = "working"] ELSE status
        /\ Advance(s, Done(c, IF s = "start" /\ ~starts THEN "no" ELSE "ok"))
        /\ UNCHANGED <<current, verified, works, client, history, clean, budget>>

(* The position updates bring the technician inside the geofence.          *)
AutoArrive ==
    /\ status[current] = "way" /\ calls["auto"] = Idle
    /\ Cardinality(Busy) < MaxCalls
    /\ Advance("auto", [Request(current) EXCEPT !.pc = "read", !.row = row[current]])
    /\ made' = made \cup {current}
    /\ clean' = (clean /\ ~Meets("auto"))
    /\ UNCHANGED <<current, status, row, verified, works, clocked, client, history, budget>>

SaveAutoArrival ==
    LET c == calls["auto"] IN
    /\ c # Idle
    /\ \E kept \in {c.row, c.row \ {"otp"}} :
          Saves(c.job, Synced(c.job, kept \cup {"geo"}), "geo")
    /\ status' = [status EXCEPT ![c.job] = "arrived"]
    /\ Advance("auto", Idle)
    /\ UNCHANGED verified

ReadStatus(s) ==
    LET c == calls[s] IN
    /\ s \in Fetches \cup {"poll"} /\ c # Idle /\ c.pc = "sent"
    /\ Advance(s, IF c.job = current
                  THEN [c EXCEPT !.pc = "ok", !.row = row[c.job]]
                  ELSE Done(c, "no"))
    /\ UNCHANGED <<server, client, history, clean, budget>>

(* The job ends or is taken away; a completed one closes the TimeLog.  When *)
(* the quotation of an inspection is converted, the WORK job gets a copy of *)
(* its row at once.                                                         *)
NextJob ==
    /\ current < MaxJob /\ calls["auto"] = Idle
    /\ status' = [status EXCEPT ![current] = "over"]
    /\ current' = current + 1
    /\ clocked' \in {clocked, FALSE}
    /\ IF Inherits(current + 1)
       THEN /\ made' = made \cup {current + 1}
            /\ row' = [row EXCEPT ![current + 1] = row[current]]
       ELSE UNCHANGED <<made, row>>
    /\ UNCHANGED <<verified, works, calls, client, history, clean, budget>>

---------------------------------------------------------------------------
(* The dashboard *)

Tries(s) ==
    /\ calls[s] = Idle /\ Cardinality(Busy) < MaxCalls
    /\ shown.status \in Open
    /\ Spend("tries")
    /\ Advance(s, [Request(shown.job) EXCEPT
                      !.base = IF s = "arrive" THEN {} ELSE gates])
    /\ UNCHANGED <<server, client, history, clean>>

TryArrive == "geo" \notin gates /\ Tries("arrive")

TryOtp == "geo" \in gates /\ "otp" \notin gates /\ Tries("otp")

TryPhoto == "geo" \in gates /\ "photo" \notin gates /\ Tries("photo")

Poll ==
    /\ calls["poll"] = Idle /\ Cardinality(Busy) < MaxCalls
    /\ shown.status \in Open /\ "geo" \notin gates
    /\ Advance("poll", [Request(shown.job) EXCEPT !.was = shown.status])
    /\ UNCHANGED <<server, client, history, clean, budget>>

(* What the dashboard shows after an answer about a job, with the calls    *)
(* that are left, and what it starts: the effect starts the selected job   *)
(* when what it depends on has changed and all gates seem passed; else the *)
(* handler may start its own job, mine.  isClockingInRef lets one start    *)
(* run at a time, and a start it keeps back is not made up for.            *)
Render(about, g, sh, left, mine) ==
    LET effect == /\ (g # gates \/ sh # shown)
                  /\ sh.status \in Open /\ ~sh.in /\ g = Gates
        job == IF effect THEN {sh.job} ELSE mine
        free == left["start"] = Idle
    IN  /\ gates' = g /\ shown' = sh
        /\ calls' = IF free /\ job # {}
                    THEN [left EXCEPT !["start"] = Request(CHOOSE j \in job : TRUE)]
                    ELSE left
        /\ clocking' = (~free \/ job # {})
        /\ clean' = (clean /\ about = shown.job
                       /\ (sh.job = shown.job \/ gates = {}))
        /\ UNCHANGED <<server, history, budget>>

Without(s) == [calls EXCEPT ![s] = Idle]

Mutant_RefusedKeepsRef(s) ==
    /\ calls[s] # Idle /\ calls[s].pc = "no"
    /\ calls' = Without(s)
    /\ UNCHANGED <<server, shown, gates, clocking, history, clean, budget>>

Refused(s) ==
    /\ calls[s] # Idle /\ calls[s].pc = "no"
    /\ calls' = Without(s)
    /\ clocking' = (clocking /\ s # "start")
    /\ UNCHANGED <<server, shown, gates, history, clean, budget>>

Answered(s) == calls[s] # Idle /\ calls[s].pc = "ok"

ArriveAnswered ==
    /\ Answered("arrive")
    /\ Render(calls["arrive"].job, gates \cup {"geo"},
              [shown EXCEPT !.status = "arrived"], Without("arrive"), {})

OtpAnswered ==
    LET c == calls["otp"]
        now == c.base \cup {"otp"}
    IN  /\ Answered("otp")
        /\ Render(c.job, now, shown, Without("otp"),
                  IF now = Gates THEN {c.job} ELSE {})

PhotoAnswered ==
    LET c == calls["photo"]
        now == c.base \cup {"photo"}
    IN  /\ Answered("photo")
        /\ Render(c.job, now, shown, Without("photo"),
                  IF now = Gates THEN {c.job} ELSE {})

(* The guard stays set until the reloads after the answer are done.        *)
StartAnswered ==
    LET c == calls["start"] IN
    /\ Answered("start")
    /\ Render(c.job, gates, [shown EXCEPT !.status = "working", !.in = clocked],
              [calls EXCEPT !["start"] = Done(c, "reload")], {})

Reloaded ==
    /\ calls["start"] # Idle /\ calls["start"].pc = "reload"
    /\ calls' = Without("start") /\ clocking' = FALSE
    /\ UNCHANGED <<server, shown, gates, history, clean, budget>>

(* The poll's answer counts if the selection and the gate are as they were. *)
PollAnswered ==
    LET c == calls["poll"]
        counts == /\ shown.job = c.job /\ shown.status = c.was
                  /\ "geo" \notin gates /\ "geo" \in c.row
    IN  /\ Answered("poll")
        /\ IF counts THEN Render(c.job, c.row, [shown EXCEPT !.status = "arrived"],
                              Without("poll"), {})
                     ELSE Render(shown.job, gates, shown, Without("poll"), {})

(* The fetch made at a selection counts whatever is selected now.          *)
FetchAnswered(s) ==
    /\ s \in Fetches /\ Answered(s)
    /\ Render(calls[s].job, calls[s].row, shown, Without(s), {})

(* A refresh of the list shows the job as the server has it; a new job or  *)
(* a new status makes the dashboard fetch its gates.                       *)
Sync ==
    LET now == [job |-> current, status |-> status[current], in |-> clocked]
        changed == now.job # shown.job \/ now.status # shown.status
    IN  /\ now # shown
        /\ Cardinality(Busy) < MaxCalls
        /\ \E s \in Fetches :
             /\ calls[s] = Idle
             /\ Render(shown.job, gates, now,
                       IF changed /\ now.status # "over"
                       THEN [calls EXCEPT ![s] = Request(current)] ELSE calls, {})

Lost(s) ==
    /\ s # "auto" /\ calls[s] # Idle /\ calls[s].pc \in {"sent", "ok"}
    /\ Spend("faults")
    /\ calls' = Without(s)
    /\ clocking' = (clocking /\ s # "start")
    /\ clean' = FALSE
    /\ UNCHANGED <<server, shown, gates, history>>

---------------------------------------------------------------------------
Serve(s) ==
    \/ ReadRow(s) \/ EnsureStarted(s) \/ ReadStatus(s)
    \/ s = "arrive" /\ SaveArrival
    \/ s = "otp" /\ (ReadOtp \/ SaveOtp)
    \/ s = "photo" /\ SavePhoto
    \/ s = "auto" /\ SaveAutoArrival

Handle(s) ==
    \/ Refused(s) \/ FetchAnswered(s)
    \/ s = "arrive" /\ ArriveAnswered
    \/ s = "otp" /\ OtpAnswered
    \/ s = "photo" /\ PhotoAnswered
    \/ s = "start" /\ (StartAnswered \/ Reloaded)
    \/ s = "poll" /\ PollAnswered

Next ==
    \/ \E s \in Slot : Serve(s) \/ Handle(s) \/ Lost(s)
    \/ AutoArrive \/ NextJob \/ TryArrive \/ TryOtp \/ TryPhoto \/ Poll \/ Sync

(* Requests end, the polls and the refreshes of the list run; whether the  *)
(* technician tries or arrives is up to him.                               *)
Fairness ==
    /\ \A s \in Slot : WF_vars(Serve(s)) /\ WF_vars(Handle(s))
    /\ WF_vars(Poll) /\ WF_vars(Sync)

Spec == Init /\ [][Next]_vars /\ Fairness

---------------------------------------------------------------------------
(* The job itself and the inspections it was made from.                    *)
Lineage(j) == {k \in 1..j : (k + 1)..j \subseteq works}

(* What stands behind the gates of a job: what it or its inspection has     *)
(* passed, and the arrival where the code's view made the row.              *)
Vouched(j) ==
    {g \in Gates : \E k \in Lineage(j) : g \in passed[k] \/ (g = "geo" /\ k \in waived)}

(* A technician starts work on a job only when somebody stands behind each  *)
(* of its gates, even when the dashboard asks for it on the strength of     *)
(* another job's gates: the selfie and the code were given at this job or   *)
(* at its inspection; so was the arrival, unless the code's view made the   *)
(* row.                                                                     *)
StartsWithItsGates ==
    [][\A j \in Job : status[j] # "working" /\ status'[j] = "working"
                        => Gates \subseteq Vouched(j)]_vars

(* "Cannot start work yet. Still required: location check-in, customer OTP, *)
(* technician selfie" (views.py:333-341): each of them at this job.  Does   *)
(* not hold (README, section 3).                                           *)
StartsWithItsOwnGates ==
    [][\A j \in Job : status[j] # "working" /\ status'[j] = "working"
                        => passed[j] = Gates]_vars

(* A job that has passed its gates is started, whichever gate was passed   *)
(* last, unless it goes, two submissions met, a request was lost or the    *)
(* dashboard showed the gates of another job.                              *)
StartsWhenPassed ==
    \A j \in Job : (passed[j] = Gates /\ current = j)
                     ~> (status[j] = "working" \/ current # j \/ ~clean)

(* "whichever gate finishes last is the one that starts the job": the same  *)
(* without the exceptions.  Does not hold (README, section 3).             *)
LastGateStarts ==
    \A j \in Job : (passed[j] = Gates /\ current = j)
                     ~> (status[j] = "working" \/ current # j)
=============================================================================
