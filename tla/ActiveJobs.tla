----------------------------- MODULE ActiveJobs -----------------------------
(***************************************************************************)
(* The technician's list of offers and active jobs: the provider that      *)
(* fetches it (EmployeeRuntimeProvider.jsx) and the handlers of the        *)
(* dashboard and the jobs page that accept, decline, cancel and finish a   *)
(* job, against a server that offers and withdraws jobs meanwhile.         *)
(*                                                                         *)
(* A fetch of the list is superseded when a newer one starts; its answer   *)
(* is then discarded, but its end still clears the reference by which      *)
(* later refreshes join the fetch that runs.                               *)
(***************************************************************************)
EXTENDS Integers, Sequences, SequencesExt

CONSTANTS
    Jobs,
    MaxInFlight,  \* bound: fetches of the list that run at once
    MaxMoves,     \* bound: what the server and the other actors do
    MaxActs,      \* bound: what the technician does, hiding the page included
    MaxFaults     \* bound: requests or answers that are lost

ASSUME ActiveJobsAssumption ==
    /\ MaxInFlight \in Nat \ {0} /\ MaxMoves \in Nat /\ MaxActs \in Nat
    /\ MaxFaults \in Nat

(* What the server holds for this technician; a job that is over is never  *)
(* offered again.                                                          *)
Held == {"none", "offer", "mine", "over"}
Row == {"none", "offer", "mine"}
Listed(h) == IF h = "over" THEN "none" ELSE h
Lists == [Jobs -> Row]

VARIABLES
    server,    \* [Jobs -> Held]
    shown,     \* activeJobs: the row of each job
    fetches,   \* the fetches that run, oldest first
    newest,    \* the last of fetches has the newest generation
    inFlight,  \* inFlightActiveJobsPromiseRef is set
    timer,     \* a realtime event is on its way, or waits in debounceTimerRef
    watching,  \* online with the page visible: the polls run
    acts,      \* [Jobs -> Act]: the request about a job
    again,     \* a handler has yet to make its second forced refresh
    told,      \* what an answer has told the technician of a job, while true
    budget

vars == <<server, shown, fetches, newest, inFlight, timer, watching,
          acts, again, told, budget>>
list == <<shown, fetches, newest, inFlight>>

Fetch == [read : BOOLEAN, rows : Lists]
Blank == [j \in Jobs |-> "none"]

Kind == {"accept", "decline", "cancel", "finish"}
Page == {"dashboard", "jobs"}
Act == [kind : Kind, page : Page, pc : {"sent", "done", "taken", "busy", "refused"}]
NoAct == [kind |-> "none"]

TypeOK ==
    /\ server \in [Jobs -> Held] /\ shown \in Lists
    /\ fetches \in Seq(Fetch) /\ Len(fetches) <= MaxInFlight
    /\ newest \in BOOLEAN /\ inFlight \in BOOLEAN
    /\ (inFlight \/ newest) => fetches # <<>>
    /\ timer \in BOOLEAN /\ watching \in BOOLEAN
    /\ acts \in [Jobs -> Act \cup {NoAct}] /\ again \in BOOLEAN
    /\ told \in [Jobs -> {"nothing", "none", "mine"}]
    /\ budget \in [moves : 0..MaxMoves, acts : 0..MaxActs, faults : 0..MaxFaults]

Asked == [read |-> FALSE, rows |-> Blank]

(* The provider mounts: the list of the cache, and the first fetch.        *)
Init ==
    /\ server \in [Jobs -> {"none", "offer"}]
    /\ shown \in {Blank, server}
    /\ fetches = <<Asked>> /\ newest = TRUE /\ inFlight = TRUE
    /\ timer = FALSE /\ watching = TRUE
    /\ acts = [j \in Jobs |-> NoAct] /\ again = FALSE
    /\ told = [j \in Jobs |-> "nothing"]
    /\ budget = [moves |-> MaxMoves, acts |-> MaxActs, faults |-> MaxFaults]

Spend(what) ==
    /\ budget[what] > 0
    /\ budget' = [budget EXCEPT ![what] = @ - 1]

---------------------------------------------------------------------------
(* refreshActiveJobs *)

Refresh(force) ==
    IF inFlight /\ ~force THEN UNCHANGED <<fetches, newest, inFlight>>
    ELSE /\ Len(fetches) < MaxInFlight
         /\ fetches' = Append(fetches, Asked)
         /\ newest' = TRUE /\ inFlight' = TRUE

ServerReads(i) ==
    /\ ~fetches[i].read
    /\ fetches' = [fetches EXCEPT ![i] =
                     [read |-> TRUE, rows |-> [j \in Jobs |-> Listed(server[j])]]]
    /\ UNCHANGED <<server, shown, newest, inFlight, timer, watching, acts,
                   again, told, budget>>

Mutant_NeverStale(i) == TRUE

IsNewest(i) == newest /\ i = Len(fetches)

(* The `finally` of a fetch, superseded or not.                            *)
Ended(i) ==
    /\ fetches' = RemoveAt(fetches, i)
    /\ newest' = (newest /\ i # Len(fetches))
    /\ inFlight' = FALSE

Answered(i) ==
    /\ fetches[i].read
    /\ shown' = IF IsNewest(i) THEN fetches[i].rows ELSE shown
    /\ Ended(i)
    /\ UNCHANGED <<server, timer, watching, acts, again, told, budget>>

Mutant_FailureKeepsRef(i) ==
    /\ Spend("faults")
    /\ fetches' = RemoveAt(fetches, i) /\ newest' = (newest /\ i # Len(fetches))
    /\ UNCHANGED <<server, shown, inFlight, timer, watching, acts, again, told>>

Failed(i) ==
    /\ Spend("faults")
    /\ Ended(i)
    /\ UNCHANGED <<server, shown, timer, watching, acts, again, told>>

(* The polls of 6 s and 30 s.                                              *)
Poll ==
    /\ watching /\ ~inFlight
    /\ Refresh(FALSE)
    /\ UNCHANGED <<server, shown, timer, watching, acts, again, told, budget>>

Hide ==
    /\ watching /\ Spend("acts")
    /\ watching' = FALSE
    /\ UNCHANGED <<server, list, timer, acts, again, told>>

(* Back online, or the page visible again.                                 *)
Show ==
    /\ ~watching /\ watching' = TRUE
    /\ Refresh(FALSE)
    /\ UNCHANGED <<server, shown, timer, acts, again, told, budget>>

TimerFires ==
    /\ timer /\ timer' = FALSE
    /\ Refresh(FALSE)
    /\ UNCHANGED <<server, shown, watching, acts, again, told, budget>>

RefreshAgain ==
    /\ again /\ again' = FALSE
    /\ Refresh(TRUE)
    /\ UNCHANGED <<server, shown, timer, watching, acts, told, budget>>

---------------------------------------------------------------------------
(* The server: dispatch, the other technicians and the administrators *)

HasJob == \E j \in Jobs : server[j] = "mine"

(* The realtime event of a change may get lost.                            *)
Becomes(j, h) ==
    /\ server' = [server EXCEPT ![j] = h]
    /\ told' = [told EXCEPT ![j] = "nothing"]
    /\ timer' \in {timer, TRUE}

ServerMoves(j) ==
    /\ \/ server[j] = "none" /\ Becomes(j, "offer")
       \/ server[j] = "offer" /\ Becomes(j, "none")
       \/ server[j] = "none" /\ ~HasJob /\ Becomes(j, "mine")
       \/ server[j] = "mine" /\ \E h \in {"none", "over"} : Becomes(j, h)
    /\ Spend("moves")
    /\ UNCHANGED <<list, watching, acts, again>>

Answer(j, pc) == acts' = [acts EXCEPT ![j].pc = pc]

ServerAccepts(j) ==
    /\ acts[j] # NoAct /\ acts[j].kind = "accept" /\ acts[j].pc = "sent"
    /\ IF server[j] # "offer"
       THEN Answer(j, "taken") /\ UNCHANGED <<server, told, timer>>
       ELSE IF HasJob
       THEN Answer(j, "busy") /\ UNCHANGED <<server, told, timer>>
       ELSE Answer(j, "done") /\ Becomes(j, "mine")
    /\ UNCHANGED <<list, watching, again, budget>>

ServerReleases(j) ==
    /\ acts[j] # NoAct /\ acts[j].kind # "accept" /\ acts[j].pc = "sent"
    /\ \/ /\ server[j] = IF acts[j].kind = "decline" THEN "offer" ELSE "mine"
          /\ Becomes(j, IF acts[j].kind = "finish" THEN "over" ELSE "none")
          /\ Answer(j, "done")
       \/ Answer(j, "refused") /\ UNCHANGED <<server, told, timer>>
    /\ UNCHANGED <<list, watching, again, budget>>

---------------------------------------------------------------------------
(* What the technician does *)

Ask(j, kind, page) ==
    /\ acts[j] = NoAct /\ Spend("acts")
    /\ acts' = [acts EXCEPT ![j] = [kind |-> kind, page |-> page, pc |-> "sent"]]

Accept(j) ==
    /\ shown[j] = "offer"
    /\ \E page \in Page : Ask(j, "accept", page)
    /\ UNCHANGED <<server, list, timer, watching, again, told>>

(* The row goes before the server is asked.                                *)
Decline(j) ==
    /\ shown[j] = "offer"
    /\ \E page \in Page : Ask(j, "decline", page)
    /\ shown' = [shown EXCEPT ![j] = "none"]
    /\ UNCHANGED <<server, fetches, newest, inFlight, timer, watching,
                   again, told>>

Cancel(j) ==
    /\ shown[j] = "mine"
    /\ Ask(j, "cancel", "dashboard")
    /\ UNCHANGED <<server, list, timer, watching, again, told>>

(* The customer's payment code, the cash or the last photo ends the job.   *)
Finish(j) ==
    /\ shown[j] = "mine"
    /\ Ask(j, "finish", "dashboard")
    /\ UNCHANGED <<server, list, timer, watching, again, told>>

Over(j) == acts' = [acts EXCEPT ![j] = NoAct]

(* An answer tells the technician something that is true while the server  *)
(* does not change the job again.                                          *)
Told(j, row) ==
    told' = [told EXCEPT ![j] = IF Listed(server[j]) = row THEN row ELSE "nothing"]

AcceptedOnDashboard(j) ==
    /\ acts[j] = [kind |-> "accept", page |-> "dashboard", pc |-> "done"]
    /\ shown' = IF shown[j] = "none" THEN shown ELSE [shown EXCEPT ![j] = "mine"]
    /\ Told(j, "mine")
    /\ Refresh(TRUE) /\ Over(j)
    /\ UNCHANGED <<server, timer, watching, again, budget>>

(* Any 409 takes the row away, the answer "busy" included, with no         *)
(* refresh; NO_ACTIVE_OFFER is a 400 and leaves it.                        *)
NotAcceptedOnDashboard(j) ==
    /\ acts[j] # NoAct /\ acts[j].kind = "accept" /\ acts[j].page = "dashboard"
    /\ \/ acts[j].pc \in {"taken", "busy"} /\ shown' = [shown EXCEPT ![j] = "none"]
       \/ acts[j].pc = "taken" /\ UNCHANGED shown
    /\ Over(j)
    /\ UNCHANGED <<server, fetches, newest, inFlight, timer, watching,
                   again, told, budget>>

(* The jobs page goes to the dashboard, whose first load is not forced;    *)
(* when the offer is gone it refreshes, when the technician is busy not.   *)
AcceptAnsweredOnJobsPage(j) ==
    /\ acts[j] # NoAct /\ acts[j].kind = "accept" /\ acts[j].page = "jobs"
    /\ \/ acts[j].pc = "done" /\ Refresh(FALSE)
       \/ acts[j].pc = "taken" /\ Refresh(TRUE)
       \/ acts[j].pc = "busy" /\ UNCHANGED <<fetches, newest, inFlight>>
    /\ Over(j)
    /\ UNCHANGED <<server, shown, timer, watching, again, told, budget>>

DeclineAnswered(j) ==
    /\ acts[j] # NoAct /\ acts[j].kind = "decline"
    /\ \/ acts[j].pc = "done" /\ Told(j, "none")
       \/ acts[j].pc = "refused" /\ UNCHANGED told
    /\ Refresh(TRUE) /\ Over(j)
    /\ UNCHANGED <<server, shown, timer, watching, again, budget>>

(* reconcileOfferRemoved or reconcileJobCompleted, and two refreshes.      *)
Released(j, kind) ==
    /\ acts[j] # NoAct /\ acts[j].kind = kind /\ acts[j].pc = "done"
    /\ shown' = [shown EXCEPT ![j] = "none"]
    /\ Told(j, "none")
    /\ Refresh(TRUE) /\ again' = TRUE /\ Over(j)
    /\ UNCHANGED <<server, timer, watching, budget>>

Cancelled(j) == Released(j, "cancel")

Finished(j) == Released(j, "finish")

NotReleased(j) ==
    /\ acts[j] # NoAct /\ acts[j].kind \in {"cancel", "finish"}
    /\ acts[j].pc = "refused" /\ Over(j)
    /\ UNCHANGED <<server, list, timer, watching, again, told, budget>>

(* The request or its answer is lost: only a decline refreshes.            *)
Lost(j) ==
    /\ acts[j] # NoAct /\ Spend("faults")
    /\ IF acts[j].kind = "decline" THEN Refresh(TRUE)
                                   ELSE UNCHANGED <<fetches, newest, inFlight>>
    /\ Over(j)
    /\ UNCHANGED <<server, shown, timer, watching, again, told>>

---------------------------------------------------------------------------
Fetching(i) == ServerReads(i) \/ Answered(i) \/ Failed(i)

Served(j) == ServerAccepts(j) \/ ServerReleases(j)

Handled(j) ==
    \/ AcceptedOnDashboard(j) \/ NotAcceptedOnDashboard(j)
    \/ AcceptAnsweredOnJobsPage(j) \/ DeclineAnswered(j)
    \/ Cancelled(j) \/ Finished(j) \/ NotReleased(j) \/ Lost(j)

Next ==
    \/ \E i \in DOMAIN fetches : Fetching(i)
    \/ Poll \/ Hide \/ Show \/ TimerFires \/ RefreshAgain
    \/ \E j \in Jobs :
         \/ ServerMoves(j) \/ Served(j)
         \/ Accept(j) \/ Decline(j) \/ Cancel(j) \/ Finish(j) \/ Handled(j)

(* Fetches and requests come to an end, the polls and the timer fire, the  *)
(* code after an await runs.  The server's moves, the technician and the   *)
(* realtime events are under no obligation.                                *)
Fairness ==
    /\ \A i \in 1..MaxInFlight : WF_vars(i \in DOMAIN fetches /\ Fetching(i))
    /\ WF_vars(Poll) /\ WF_vars(TimerFires) /\ WF_vars(RefreshAgain)
    /\ \A j \in Jobs : WF_vars(Served(j)) /\ WF_vars(Handled(j))

Spec == Init /\ [][Next]_vars /\ Fairness

(* A network quick enough that now and again a fetch runs to its end       *)
(* before a poll can supersede it.                                         *)
Quick ==
    LET last == Len(fetches) IN
    /\ SF_vars(newest /\ ServerReads(last))
    /\ SF_vars(newest /\ (Answered(last) \/ Failed(last)))

QuickSpec == Spec /\ Quick

---------------------------------------------------------------------------
(* A refresh that joins the fetch in flight, and a poll that is held up by *)
(* it, wait for an answer that will be shown: the reference is never left  *)
(* behind by a fetch that is over or superseded.                           *)
JoinsTheNewest == inFlight => newest /\ fetches # <<>>

(* A job the technician was told is declined, cancelled or finished, and   *)
(* that has left the list, does not come back, and one that was told to be *)
(* accepted stays accepted, until the server changes it: no answer of a    *)
(* fetch that was made before undoes what a handler has confirmed.         *)
ToldStands ==
    [][\A j \in Jobs :
         told[j] # "nothing" /\ told'[j] = told[j] /\ shown[j] = told[j]
           => shown'[j] = shown[j]]_vars

(* While the technician is online with the page visible the list ends up   *)
(* as the server has it, whatever events, answers and fetches were lost.   *)
EventuallyCurrent ==
    <>[]watching => <>[](\A j \in Jobs : shown[j] = Listed(server[j]))
=============================================================================
