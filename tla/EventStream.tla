---------------------------- MODULE EventStream ----------------------------
(***************************************************************************)
(* The realtime stream of the technician's application: the hook that      *)
(* keeps one EventSource open (useRealtimeStream.js), the server's stream  *)
(* of the event log (WorkforceRealtimeStreamView) and the log itself,      *)
(* whose rows wake the streams when they are saved, before they commit.    *)
(*                                                                         *)
(* connect() and onerror run to their next await without interruption; the *)
(* steps below are what runs between two awaits.  A callback made while    *)
(* the stream was enabled keeps that value of `enabled`, so the checks of  *)
(* `enabled` after an await compare nothing: only `mounted` is read anew.  *)
(***************************************************************************)
EXTENDS FiniteSetsExt, Integers, Sequences

CONSTANTS
    MaxEvents,   \* bound: rows written to the event log
    MaxFaults,   \* bound: connections and refreshes that fail
    MaxExpiries, \* bound: times the access token expires
    MaxToggles   \* bound: times the stream is enabled or disabled

ASSUME StreamAssumption ==
    /\ MaxEvents \in Nat /\ MaxFaults \in Nat
    /\ MaxExpiries \in Nat /\ MaxToggles \in Nat

Event == 1..MaxEvents
Ping == 0

VARIABLES
    enabled, mounted,  \* the hook's argument; the component is mounted
    token,             \* the access token in storage
    granted,           \* the server still accepts the refresh token
    attempts,          \* the connect() calls that run, by what they await
    mending,           \* an onerror awaits a token refresh
    timer, strays,     \* the reconnect timer held in the ref, and forgotten ones
    source, leaked,    \* the EventSource in the ref; one is open and not in it
    shown,             \* connectionState
    reconnecting,      \* wasReconnectingRef
    lastEvent,         \* lastEventIdRef, 0 for none
    caught,            \* events the application has heard of
    wire,              \* what the server has sent on the source
    cursor, awake,     \* the server's stream: last_id, has_pending_events
    written, committed,  \* the event log
    budget             \* what is left of the bounds

client == <<enabled, mounted, attempts, mending, timer, strays, source, leaked,
            shown, reconnecting, lastEvent, caught>>
server == <<wire, cursor, awake>>
log == <<written, committed>>
auth == <<token, granted>>
vars == <<client, server, log, auth, budget>>

TypeOK ==
    /\ enabled \in BOOLEAN /\ mounted \in BOOLEAN
    /\ token \in {"valid", "expired", "none"} /\ granted \in BOOLEAN
    /\ attempts \in [refresh : 0..1, ticket : 0..1]
    /\ mending \in 0..1
    /\ timer \in BOOLEAN /\ strays \in 0..MaxFaults
    /\ source \in {"none", "connecting", "open"} /\ leaked \in BOOLEAN
    /\ shown \in {"DISCONNECTED", "CONNECTING", "CONNECTED", "RECONNECTING"}
    /\ reconnecting \in BOOLEAN
    /\ lastEvent \in 0..MaxEvents /\ caught \subseteq Event
    /\ wire \in Seq(0..MaxEvents)
    /\ cursor \in 0..MaxEvents /\ awake \in BOOLEAN
    /\ written \in 0..MaxEvents /\ committed \subseteq 1..written
    /\ budget \in [faults : 0..MaxFaults, expiries : 0..MaxExpiries,
                   toggles : 0..MaxToggles]

Init ==
    /\ enabled = FALSE /\ mounted = TRUE
    /\ token = "valid" /\ granted = TRUE
    /\ attempts = [refresh |-> 0, ticket |-> 0] /\ mending = 0
    /\ timer = FALSE /\ strays = 0
    /\ source = "none" /\ leaked = FALSE
    /\ shown = "DISCONNECTED" /\ reconnecting = FALSE
    /\ lastEvent = 0 /\ caught = {}
    /\ wire = <<>> /\ cursor = 0 /\ awake = FALSE
    /\ written = 0 /\ committed = {}
    /\ budget = [faults |-> MaxFaults, expiries |-> MaxExpiries,
                 toggles |-> MaxToggles]

---------------------------------------------------------------------------
(* Pieces of the hook *)

(* closeConnection: the timer the ref holds and the source in the ref. *)
Closed == timer' = FALSE /\ source' = "none" /\ wire' = <<>>

(* connect() runs once at a time, and not when a source is open. *)
Connecting == attempts.refresh + attempts.ticket > 0

Mutant_UnguardedConnect == mounted /\ source # "open"

MayConnect == mounted /\ ~Connecting /\ source # "open"

(* connect() with the token t, when it may run: it closes what there is    *)
(* and awaits a token or a ticket.                                         *)
Connect(t) ==
    /\ Closed
    /\ attempts' = CASE t = "valid" -> [attempts EXCEPT !.ticket = @ + 1]
                      [] t = "expired" -> [attempts EXCEPT !.refresh = @ + 1]
                      [] t = "none" -> attempts
    /\ shown' = IF t = "none" THEN "DISCONNECTED" ELSE shown

Refreshing == attempts.refresh > 0 \/ mending > 0

Spend(what) == budget[what] > 0 /\ budget' = [budget EXCEPT ![what] = @ - 1]

---------------------------------------------------------------------------
(* The component *)

(* `enabled` changes: the cleanup of the effect closes what there is, the  *)
(* effect connects.                                                        *)
Enable ==
    /\ mounted /\ ~enabled /\ Spend("toggles")
    /\ enabled' = TRUE
    /\ IF ~Connecting THEN Connect(token)
       ELSE Closed /\ UNCHANGED <<attempts, shown>>
    /\ UNCHANGED <<mounted, mending, strays, leaked, reconnecting, lastEvent,
                   caught, cursor, awake, log, auth>>

Disable ==
    /\ mounted /\ enabled /\ Spend("toggles")
    /\ enabled' = FALSE
    /\ Closed
    /\ shown' = "DISCONNECTED"
    /\ UNCHANGED <<mounted, attempts, mending, strays, leaked, reconnecting,
                   lastEvent, caught, cursor, awake, log, auth>>

Unmount ==
    /\ mounted /\ Spend("toggles")
    /\ mounted' = FALSE
    /\ Closed
    /\ UNCHANGED <<enabled, attempts, mending, strays, leaked, shown, reconnecting,
                   lastEvent, caught, cursor, awake, log, auth>>

Mutant_OpensUnmounted ==
    /\ attempts.ticket > 0
    /\ attempts' = [attempts EXCEPT !.ticket = @ - 1]
    /\ source' = "connecting" /\ wire' = <<>>
    /\ shown' = IF shown = "DISCONNECTED" THEN "CONNECTING" ELSE "RECONNECTING"
    /\ UNCHANGED <<enabled, mounted, mending, timer, strays, leaked, reconnecting,
                   lastEvent, caught, cursor, awake, log, auth, budget>>

(* The answer to the request for a ticket, a good one or not: the source   *)
(* is opened, with the ticket or with the token in its URL.                *)
TicketAnswered ==
    /\ attempts.ticket > 0
    /\ attempts' = [attempts EXCEPT !.ticket = @ - 1]
    /\ IF mounted
       THEN /\ source' = "connecting"
            /\ leaked' = (leaked \/ source # "none")
            /\ wire' = <<>>
            /\ shown' = IF shown = "DISCONNECTED" THEN "CONNECTING"
                        ELSE "RECONNECTING"
       ELSE shown' = "DISCONNECTED" /\ UNCHANGED <<source, leaked, wire>>
    /\ UNCHANGED <<enabled, mounted, mending, timer, strays, reconnecting,
                   lastEvent, caught, cursor, awake, log, auth, budget>>

Mutant_ForgetsToReconcile ==
    /\ source' = "none" /\ wire' = <<>>
    /\ timer' = (token = "valid")
    /\ mending' = IF token = "expired" THEN 1 ELSE mending
    /\ shown' = IF token = "none" THEN "DISCONNECTED" ELSE "RECONNECTING"
    /\ UNCHANGED <<enabled, mounted, attempts, strays, leaked, reconnecting,
                   lastEvent, caught, cursor, awake, log, auth>>

(* onerror: the source is closed; a good token means a timer, an expired   *)
(* one a refresh, none that the session is over.                           *)
Errored ==
    /\ source' = "none" /\ wire' = <<>>
    /\ reconnecting' = TRUE
    /\ timer' = (token = "valid")
    /\ mending' = IF token = "expired" THEN 1 ELSE mending
    /\ shown' = IF token = "none" THEN "DISCONNECTED" ELSE "RECONNECTING"
    /\ UNCHANGED <<enabled, mounted, attempts, strays, leaked, lastEvent, caught,
                   cursor, awake, log, auth>>

(* A reconnect timer fires: the one in the ref, or one the ref forgot. *)
TimerFires ==
    /\ timer
    /\ IF MayConnect THEN Connect(token)
       ELSE timer' = FALSE /\ UNCHANGED <<source, wire, attempts, shown>>
    /\ UNCHANGED <<enabled, mounted, mending, strays, leaked, reconnecting,
                   lastEvent, caught, cursor, awake, log, auth, budget>>

StrayFires ==
    /\ strays > 0 /\ strays' = strays - 1
    /\ IF MayConnect THEN Connect(token)
       ELSE UNCHANGED <<timer, source, wire, attempts, shown>>
    /\ UNCHANGED <<enabled, mounted, mending, leaked, reconnecting,
                   lastEvent, caught, cursor, awake, log, auth, budget>>

---------------------------------------------------------------------------
(* The refresh of the token that connect(), onerror or both await *)

(* connect() goes on to its ticket, onerror connects unless somebody does. *)
RefreshAnswered ==
    /\ Refreshing /\ granted
    /\ token' = "valid" /\ mending' = 0
    /\ CASE attempts.refresh > 0 ->
              /\ attempts' = [refresh |-> 0,
                              ticket |-> attempts.ticket
                                         + (IF mounted THEN attempts.refresh ELSE 0)]
              /\ shown' = IF mounted THEN shown ELSE "DISCONNECTED"
              /\ UNCHANGED <<timer, source, wire>>
         [] attempts.refresh = 0 /\ MayConnect -> Connect("valid")
         [] OTHER -> UNCHANGED <<timer, source, wire, attempts, shown>>
    /\ UNCHANGED <<enabled, mounted, strays, leaked, reconnecting, lastEvent,
                   caught, cursor, awake, log, granted, budget>>

RefreshRefused ==
    /\ Refreshing /\ ~granted
    /\ token' = "none" /\ mending' = 0
    /\ attempts' = [attempts EXCEPT !.refresh = 0]
    /\ shown' = "DISCONNECTED"
    /\ UNCHANGED <<enabled, mounted, timer, strays, source, leaked, reconnecting,
                   lastEvent, caught, server, log, granted, budget>>

Mutant_LostAndNoTimer ==
    /\ Refreshing /\ Spend("faults")
    /\ mending' = 0
    /\ attempts' = [attempts EXCEPT !.refresh = 0]
    /\ UNCHANGED <<enabled, mounted, timer, strays, source, leaked, shown,
                   reconnecting, lastEvent, caught, server, log, auth>>

(* Each of those that wait sets a timer; the ref holds the last. *)
RefreshLost ==
    LET waiting == mending + attempts.refresh IN
    /\ waiting > 0 /\ Spend("faults")
    /\ mending' = 0
    /\ attempts' = [attempts EXCEPT !.refresh = 0]
    /\ timer' = TRUE
    /\ strays' = strays + waiting - (IF timer THEN 0 ELSE 1)
    /\ UNCHANGED <<enabled, mounted, source, leaked, shown, reconnecting,
                   lastEvent, caught, server, log, auth>>

(* The token expires; another request of the page refreshes it; the user   *)
(* logs out; the server stops accepting the refresh token.                 *)
Expire ==
    /\ token = "valid" /\ Spend("expiries")
    /\ token' = "expired"
    /\ UNCHANGED <<client, server, log, granted>>

RefreshedElsewhere ==
    /\ token = "expired" /\ ~Refreshing
    /\ token' = IF granted THEN "valid" ELSE "none"
    /\ UNCHANGED <<client, server, log, granted, budget>>

SessionEnds ==
    /\ token # "none" /\ ~Refreshing
    /\ token' = "none"
    /\ UNCHANGED <<client, server, log, granted, budget>>

Revoke ==
    /\ granted
    /\ granted' = FALSE
    /\ UNCHANGED <<client, server, log, token, budget>>

---------------------------------------------------------------------------
(* The server's stream *)

(* A stream starts after the last event the client names, or after the     *)
(* newest there is, and reads the log once unasked.                        *)
Accept ==
    /\ source = "connecting"
    /\ source' = "open" /\ wire' = <<Ping>>
    /\ cursor' = IF lastEvent > 0 THEN lastEvent ELSE Max(committed \cup {0})
    /\ awake' = TRUE
    /\ UNCHANGED <<enabled, mounted, attempts, mending, timer, strays, leaked, shown,
                   reconnecting, lastEvent, caught, log, auth, budget>>

Fail == source # "none" /\ Spend("faults") /\ Errored

(* After 55 s the server ends a stream, which the client sees as an error. *)
Rotate ==
    /\ source = "open" /\ wire = <<>>
    /\ Errored
    /\ UNCHANGED budget

(* The rows of a set by their ids. *)
InOrder(rows) ==
    CHOOSE s \in [1..Cardinality(rows) -> rows] :
        \A i, j \in DOMAIN s : i < j => s[i] < s[j]

(* The stream reads what has committed beyond its cursor and sends it. *)
Query ==
    LET found == {e \in committed : e > cursor} IN
    /\ source = "open" /\ awake
    /\ awake' = FALSE
    /\ wire' = wire \o InOrder(found)
    /\ cursor' = Max(found \cup {cursor})
    /\ UNCHANGED <<client, log, auth, budget>>

(* A row is saved inside a transaction, and wakes the stream there. *)
Write ==
    /\ written < MaxEvents
    /\ written' = written + 1
    /\ awake' = (awake \/ source = "open")
    /\ UNCHANGED <<client, wire, cursor, committed, auth, budget>>

Commit(e) ==
    /\ e <= written /\ e \notin committed
    /\ committed' = committed \cup {e}
    /\ UNCHANGED <<client, server, written, auth, budget>>

---------------------------------------------------------------------------
(* What the client hears *)

(* The first thing of a stream: after an error the application is told to  *)
(* fetch anew what it shows.                                               *)
HearPing ==
    /\ source = "open" /\ wire # <<>> /\ Head(wire) = Ping
    /\ wire' = Tail(wire)
    /\ shown' = "CONNECTED"
    /\ reconnecting' = FALSE
    /\ caught' = IF reconnecting THEN caught \cup committed ELSE caught
    /\ UNCHANGED <<enabled, mounted, attempts, mending, timer, strays, source, leaked,
                   lastEvent, cursor, awake, log, auth, budget>>

HearEvent ==
    /\ source = "open" /\ wire # <<>> /\ Head(wire) # Ping
    /\ wire' = Tail(wire)
    /\ shown' = "CONNECTED"
    /\ lastEvent' = Head(wire)
    /\ caught' = caught \cup {Head(wire)}
    /\ UNCHANGED <<enabled, mounted, attempts, mending, timer, strays, source, leaked,
                   reconnecting, cursor, awake, log, auth, budget>>

Hear == HearPing \/ HearEvent
RefreshSettles == RefreshAnswered \/ RefreshRefused

Next ==
    \/ Enable \/ Disable \/ Unmount
    \/ TicketAnswered \/ TimerFires \/ StrayFires
    \/ RefreshSettles \/ RefreshLost
    \/ Expire \/ RefreshedElsewhere \/ SessionEnds \/ Revoke
    \/ Accept \/ Fail \/ Rotate \/ Query \/ Hear
    \/ Write \/ \E e \in Event : Commit(e)

(* Requests are answered, timers fire, what was sent arrives, and the      *)
(* server ends every stream in the end.                                    *)
Fairness ==
    /\ WF_vars(TicketAnswered) /\ WF_vars(RefreshSettles)
    /\ WF_vars(TimerFires) /\ WF_vars(StrayFires)
    /\ WF_vars(Accept) /\ WF_vars(Query) /\ WF_vars(Hear) /\ WF_vars(Rotate)

Spec == Init /\ [][Next]_vars /\ Fairness

---------------------------------------------------------------------------
(* Properties *)

(* There is one source: connect() never opens one beside another, whoever  *)
(* calls it -- the effect, a timer, a forgotten timer, an onerror -- and   *)
(* whatever it awaits meanwhile.                                           *)
OneSource == ~leaked

(* A component that is gone keeps no stream: what was under way when it    *)
(* was unmounted opens none.                                               *)
Hushed == ~mounted => source = "none"

(* The stream comes back, again and again, after failures, expired tokens  *)
(* and toggles, until the session is over.                                 *)
Reconnects ==
    (<>[](enabled /\ mounted))
        => []<>(shown = "CONNECTED" \/ token = "none")

(* Nothing that commits is missed for ever, even an event that woke the    *)
(* stream before it committed or that committed after a later one: what a  *)
(* stream skips, the fetch after the next reconnection shows.              *)
NothingMissed ==
    (<>[](enabled /\ mounted))
        => <>[](token = "none" \/ committed \subseteq caught)

(* A stream that was disabled stays closed until it is enabled: does not   *)
(* hold (README, section 3).                                               *)
OffIsOff == [][~enabled => source' \in {source, "none"}]_vars

=============================================================================
