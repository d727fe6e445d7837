-------------------------- MODULE EventStream_proofs --------------------------
(***************************************************************************)
(* EventStream: the hook never opens a source beside another, and none     *)
(* after it was unmounted, for any number of events, failures, expiries    *)
(* and toggles; its type invariant, which says that a failure leaves at    *)
(* most one forgotten timer behind; that there is always a way back to a   *)
(* source; and that no event is heard twice.  And the session beside it:   *)
(* it is kept until somebody leaves it, and no request waits in vain.      *)
(***************************************************************************)
EXTENDS EventStream, FiniteSetTheorems, WellFoundedInduction, TLAPS

\* What the source depends on is typed; the event log does not matter.
HookTyped ==
    /\ enabled \in BOOLEAN /\ mounted \in BOOLEAN
    /\ token \in {"valid", "expired", "none"}
    /\ attempts \in [refresh : 0..1, ticket : 0..1]
    /\ mending \in 0..1
    /\ source \in {"none", "connecting", "open"} /\ leaked \in BOOLEAN

\* One connect() runs at a time, and it closed the source before it awaits.
OneAttempt ==
    /\ attempts.refresh + attempts.ticket <= 1
    /\ Connecting => source = "none"

SourceInv == HookTyped /\ OneAttempt /\ OneSource /\ Hushed

hook == <<enabled, mounted, token, attempts, mending, source, leaked>>

LEMMA Starts == Init => SourceInv
  <1> SUFFICES ASSUME Init PROVE SourceInv
    OBVIOUS
  <1>1. /\ enabled = FALSE /\ mounted = TRUE /\ token = "valid"
        /\ attempts = [refresh |-> 0, ticket |-> 0] /\ mending = 0
        /\ source = "none" /\ leaked = FALSE
    BY DEF Init
  <1>2. HookTyped
    <2>1. enabled \in BOOLEAN /\ mounted \in BOOLEAN /\ leaked \in BOOLEAN
      BY <1>1, Zenon
    <2>2. attempts \in [refresh : 0..1, ticket : 0..1] /\ mending \in 0..1
      BY <1>1
    <2> QED BY <1>1, <2>1, <2>2 DEF HookTyped
  <1>3. OneAttempt /\ OneSource /\ Hushed
    BY <1>1 DEF OneAttempt, Connecting, OneSource, Hushed
  <1> QED BY <1>2, <1>3 DEF SourceInv

\* A step that leaves the hook alone.
LEMMA HookUnchanged == ASSUME SourceInv, UNCHANGED hook PROVE SourceInv'
  <1>1. /\ enabled' = enabled /\ mounted' = mounted /\ token' = token
        /\ attempts' = attempts /\ mending' = mending
        /\ source' = source /\ leaked' = leaked
    BY DEF hook
  <1>2. HookTyped'
    BY <1>1 DEF SourceInv, HookTyped
  <1>3. OneAttempt' /\ OneSource' /\ Hushed'
    BY <1>1 DEF SourceInv, OneAttempt, Connecting, OneSource, Hushed
  <1> QED BY <1>2, <1>3 DEF SourceInv

\* A step that closes the source, and opens no attempt.
LEMMA ClosingKeeps ==
    ASSUME SourceInv, source' = "none", leaked' = leaked,
           enabled' \in BOOLEAN, mounted' \in BOOLEAN, mending' \in 0..1,
           token' \in {"valid", "expired", "none"},
           attempts' \in [refresh : 0..1, ticket : 0..1],
           attempts'.refresh + attempts'.ticket <= 1
    PROVE  SourceInv'
  BY DEF SourceInv, HookTyped, OneAttempt, Connecting, OneSource, Hushed

\* connect(), called when none runs, runs alone.
LEMMA ConnectAlone ==
    ASSUME SourceInv, ~Connecting, NEW t \in {"valid", "expired", "none"}, Connect(t)
    PROVE  /\ source' = "none"
           /\ attempts' \in [refresh : 0..1, ticket : 0..1]
           /\ attempts'.refresh + attempts'.ticket <= 1
  <1>1. /\ attempts \in [refresh : 0..1, ticket : 0..1]
        /\ attempts.refresh = 0 /\ attempts.ticket = 0
    BY DEF SourceInv, HookTyped, Connecting
  <1>2. source' = "none"
    BY DEF Connect, Closed
  <1>3. CASE t = "valid"
    <2>1. attempts' = [attempts EXCEPT !.ticket = 1]
      BY <1>1, <1>3 DEF Connect
    <2> QED BY <1>1, <1>2, <2>1
  <1>4. CASE t = "expired"
    <2>1. attempts' = [attempts EXCEPT !.refresh = 1]
      BY <1>1, <1>4 DEF Connect
    <2> QED BY <1>1, <1>2, <2>1
  <1>5. CASE t = "none"
    <2>1. attempts' = attempts
      BY <1>5 DEF Connect
    <2> QED BY <1>1, <1>2, <2>1
  <1> QED BY <1>3, <1>4, <1>5 DEF Connect

---------------------------------------------------------------------------
\* The steps that open, close or may open the source.

\* enabled, mounted and unmounted: the cleanup of the effect closes the source.
LEMMA ComponentKeeps ==
    ASSUME SourceInv, Enable \/ Disable \/ Unmount PROVE SourceInv'
  <1>1. /\ enabled' \in BOOLEAN /\ mounted' \in BOOLEAN /\ leaked' = leaked
        /\ mending' \in 0..1 /\ token' \in {"valid", "expired", "none"}
    BY DEF Enable, Disable, Unmount, auth, SourceInv, HookTyped
  <1>2. /\ attempts \in [refresh : 0..1, ticket : 0..1]
        /\ attempts.refresh + attempts.ticket <= 1
    BY DEF SourceInv, HookTyped, OneAttempt
  <1>3. /\ source' = "none" /\ attempts' \in [refresh : 0..1, ticket : 0..1]
        /\ attempts'.refresh + attempts'.ticket <= 1
    <2>1. CASE Enable /\ ~Connecting
      <3>1. Connect(token) /\ token \in {"valid", "expired", "none"}
        BY <2>1 DEF Enable, SourceInv, HookTyped
      <3> QED BY <2>1, <3>1, ConnectAlone
    <2>2. CASE Enable /\ Connecting
      BY <1>2, <2>2 DEF Enable, Closed
    <2>3. CASE Disable \/ Unmount
      BY <1>2, <2>3 DEF Disable, Unmount, Closed
    <2> QED BY <2>1, <2>2, <2>3
  <1> QED BY <1>1, <1>3, ClosingKeeps

\* A source is opened while no other is open, as connect() has closed it and
\* no other attempt ran meanwhile.
LEMMA TicketKeeps == ASSUME SourceInv, TicketAnswered PROVE SourceInv'
  <1>1. /\ attempts.ticket > 0 /\ attempts' = [attempts EXCEPT !.ticket = @ - 1]
        /\ enabled' = enabled /\ mounted' = mounted /\ token' = token
        /\ mending' = mending
    BY DEF TicketAnswered, auth
  <1>2. /\ attempts \in [refresh : 0..1, ticket : 0..1]
        /\ attempts.refresh + attempts.ticket <= 1
    BY DEF SourceInv, HookTyped, OneAttempt
  <1>3. source = "none"
    BY <1>1, <1>2 DEF SourceInv, OneAttempt, Connecting
  <1>4. /\ attempts' \in [refresh : 0..1, ticket : 0..1]
        /\ attempts'.refresh = 0 /\ attempts'.ticket = 0
    BY <1>1, <1>2
  <1>5. CASE mounted
    <2>1. source' = "connecting" /\ leaked' = (leaked \/ source # "none")
      BY <1>5 DEF TicketAnswered
    <2>2. leaked' = FALSE
      BY <1>3, <2>1 DEF SourceInv, OneSource
    <2>3. HookTyped'
      BY <1>1, <1>4, <2>1, <2>2 DEF SourceInv, HookTyped
    <2>4. OneAttempt' /\ OneSource' /\ Hushed'
      BY <1>1, <1>4, <1>5, <2>2 DEF OneAttempt, Connecting, OneSource, Hushed
    <2> QED BY <2>3, <2>4 DEF SourceInv
  <1>6. CASE ~mounted
    <2>1. source' = "none" /\ leaked' = leaked
      BY <1>3, <1>6 DEF TicketAnswered
    <2> QED BY <1>1, <1>4, <2>1, ClosingKeeps DEF SourceInv, HookTyped
  <1> QED BY <1>5, <1>6

\* A timer connects only if nobody does.
LEMMA TimersKeep == ASSUME SourceInv, TimerFires \/ StrayFires PROVE SourceInv'
  <1>1. /\ enabled' = enabled /\ mounted' = mounted /\ token' = token
        /\ mending' = mending /\ leaked' = leaked
    BY DEF TimerFires, StrayFires, auth
  <1>2. CASE MayConnect
    <2>1. Connect(token) /\ ~Connecting /\ token \in {"valid", "expired", "none"}
      BY <1>2 DEF TimerFires, StrayFires, MayConnect, SourceInv, HookTyped
    <2> QED BY <1>1, <2>1, ConnectAlone, ClosingKeeps DEF SourceInv, HookTyped
  <1>3. CASE ~MayConnect
    <2>1. source' = source /\ attempts' = attempts
      BY <1>3 DEF TimerFires, StrayFires
    <2> QED BY <1>1, <2>1, HookUnchanged DEF hook
  <1> QED BY <1>2, <1>3

\* What awaited a refresh goes on: an attempt to its ticket, an onerror to a
\* connect() of its own, unless one runs.
LEMMA RefreshKeeps ==
    ASSUME SourceInv, RefreshSettles \/ RefreshLost PROVE SourceInv'
  <1>1. /\ enabled' = enabled /\ mounted' = mounted /\ leaked' = leaked
        /\ mending' = 0 /\ token' \in {"valid", "expired", "none"}
    BY DEF RefreshSettles, RefreshAnswered, RefreshRefused, RefreshLost, auth,
           SourceInv, HookTyped
  <1>2. /\ attempts \in [refresh : 0..1, ticket : 0..1]
        /\ attempts.refresh + attempts.ticket <= 1
        /\ enabled \in BOOLEAN /\ mounted \in BOOLEAN
    BY DEF SourceInv, HookTyped, OneAttempt
  <1>3. ASSUME source' = source,
               attempts' \in [refresh : 0..1, ticket : 0..1],
               attempts'.refresh + attempts'.ticket <= 1,
               attempts'.refresh + attempts'.ticket > 0
                  => attempts.refresh + attempts.ticket > 0
        PROVE  SourceInv'
    <2>1. HookTyped'
      BY <1>1, <1>3 DEF SourceInv, HookTyped
    <2>2. OneAttempt' /\ OneSource' /\ Hushed'
      BY <1>1, <1>3 DEF SourceInv, OneAttempt, Connecting, OneSource, Hushed
    <2> QED BY <2>1, <2>2 DEF SourceInv
  <1>4. CASE RefreshRefused \/ RefreshLost
    <2>1. source' = source /\ attempts' = [attempts EXCEPT !.refresh = 0]
      BY <1>4 DEF RefreshRefused, RefreshLost
    <2> QED BY <1>2, <1>3, <2>1
  <1>5. CASE RefreshAnswered /\ attempts.refresh > 0
    <2>1. /\ source' = source
          /\ attempts' = [refresh |-> 0,
                          ticket |-> attempts.ticket
                                     + (IF mounted THEN attempts.refresh ELSE 0)]
      BY <1>5 DEF RefreshAnswered
    <2> QED BY <1>2, <1>3, <1>5, <2>1
  <1>6. CASE RefreshAnswered /\ attempts.refresh = 0 /\ MayConnect
    <2>1. Connect("valid") /\ ~Connecting
      BY <1>6 DEF RefreshAnswered, MayConnect
    <2>2. /\ source' = "none" /\ attempts' \in [refresh : 0..1, ticket : 0..1]
          /\ attempts'.refresh + attempts'.ticket <= 1
      BY <2>1, ConnectAlone
    <2> QED BY <1>1, <1>2, <2>2, ClosingKeeps
  <1>7. CASE RefreshAnswered /\ attempts.refresh = 0 /\ ~MayConnect
    <2>1. source' = source /\ attempts' = attempts
      BY <1>7 DEF RefreshAnswered
    <2> QED BY <1>2, <1>3, <2>1
  <1>8. RefreshAnswered => attempts.refresh > 0 \/ attempts.refresh = 0
    BY <1>2
  <1> QED BY <1>4, <1>5, <1>6, <1>7, <1>8 DEF RefreshSettles

\* An error, also the end of a stream by the server, closes the source.
LEMMA ErrorsKeep == ASSUME SourceInv, Fail \/ Rotate PROVE SourceInv'
  <1>1. Errored
    BY DEF Fail, Rotate
  <1>2. /\ source' = "none" /\ leaked' = leaked /\ attempts' = attempts
        /\ enabled' = enabled /\ mounted' = mounted /\ token' = token
        /\ mending' = IF token = "expired" THEN 1 ELSE mending
    BY <1>1 DEF Errored, auth
  <1> QED BY <1>2, ClosingKeeps DEF SourceInv, HookTyped, OneAttempt

\* The server opens what connects.
LEMMA AcceptKeeps == ASSUME SourceInv, Accept PROVE SourceInv'
  <1>1. /\ source = "connecting" /\ source' = "open" /\ leaked' = leaked
        /\ attempts' = attempts /\ enabled' = enabled /\ mounted' = mounted
        /\ token' = token /\ mending' = mending
    BY DEF Accept, auth
  <1>2. HookTyped'
    BY <1>1 DEF SourceInv, HookTyped
  <1>3. OneAttempt' /\ OneSource' /\ Hushed'
    BY <1>1 DEF SourceInv, OneAttempt, Connecting, OneSource, Hushed
  <1> QED BY <1>2, <1>3 DEF SourceInv

\* Tokens come and go without the hook.
LEMMA TokensKeep ==
    ASSUME SourceInv, Expire \/ RefreshedElsewhere \/ SessionEnds PROVE SourceInv'
  <1>1. /\ source' = source /\ leaked' = leaked /\ attempts' = attempts
        /\ enabled' = enabled /\ mounted' = mounted /\ mending' = mending
        /\ token' \in {"valid", "expired", "none"}
    BY DEF Expire, RefreshedElsewhere, SessionEnds, client
  <1>2. HookTyped'
    BY <1>1 DEF SourceInv, HookTyped
  <1>3. OneAttempt' /\ OneSource' /\ Hushed'
    BY <1>1 DEF SourceInv, OneAttempt, Connecting, OneSource, Hushed
  <1> QED BY <1>2, <1>3 DEF SourceInv

LEMMA SourceInvariant == Spec => []SourceInv
  <1>1. SourceInv /\ [Next]_vars => SourceInv'
    <2> SUFFICES ASSUME SourceInv, [Next]_vars PROVE SourceInv'
      OBVIOUS
    <2>1. CASE UNCHANGED vars
      BY <2>1, HookUnchanged DEF vars, client, auth, hook
    <2>2. CASE \/ Revoke \/ Query \/ Hear \/ Write \/ \E e \in Event : Commit(e)
      <3>1. UNCHANGED hook
        BY <2>2 DEF Revoke, Query, Hear, HearPing, HearEvent, Write, Commit,
                    client, auth, hook
      <3> QED BY <3>1, HookUnchanged
    <2> QED BY <2>1, <2>2, ComponentKeeps, TicketKeeps, TimersKeep, RefreshKeeps,
               ErrorsKeep, AcceptKeeps, TokensKeep DEF Next
  <1> QED BY <1>1, Starts, PTL DEF Spec

\* There is never a second source, whichever of the effect, the timers and the
\* onerror calls connect(), and whatever it awaits.
THEOREM OneSourceCorrect == Spec => []OneSource
  <1>1. SourceInv => OneSource
    BY DEF SourceInv
  <1> QED BY <1>1, SourceInvariant, PTL

\* What was under way when the component was unmounted opens no source.
THEOREM HushedCorrect == Spec => []Hushed
  <1>1. SourceInv => Hushed
    BY DEF SourceInv
  <1> QED BY <1>1, SourceInvariant, PTL

---------------------------------------------------------------------------
(***************************************************************************)
(* The ids of the log: the greatest of a set, and a set in order.          *)
(***************************************************************************)

\* Every set of naturals that is not empty has a least element.
LEMMA LeastNatural ==
    ASSUME NEW T \in SUBSET Nat, T # {}
    PROVE  \E x \in T : \A y \in T : x <= y
  <1> DEFINE R == OpToRel(<, Nat)
  <1>1. IsWellFoundedOn(R, Nat)
    BY NatLessThanWellFounded
  <1>2. \A x, y \in Nat : y < x => <<y, x>> \in R
    BY DEF OpToRel
  <1> HIDE DEF R
  <1>3. \E x \in T : \A y \in T : ~(<<y, x>> \in R)
    BY <1>1, WFMin, Zenon
  <1>4. PICK x \in T : \A y \in T : ~(<<y, x>> \in R)
    BY <1>3
  <1>5. \A y \in T : x \in Nat /\ y \in Nat /\ ~(y < x)
    BY <1>2, <1>4
  <1> QED BY <1>5

\* Ids have a greatest.
LEMMA MaxIsIn ==
    ASSUME NEW n \in Nat, NEW S \in SUBSET (0..n), S # {}
    PROVE  Max(S) \in S /\ \A y \in S : Max(S) >= y
  <1> DEFINE U == {u \in Nat : \A y \in S : y <= u}
  <1>1. n \in U
    OBVIOUS
  <1>2. PICK u \in U : \A v \in U : u <= v
    <2>1. U \in SUBSET Nat /\ U # {}
      BY <1>1
    <2> HIDE DEF U
    <2> QED BY <2>1, LeastNatural
  <1>3. u \in S
    <2> SUFFICES ASSUME u \notin S PROVE FALSE
      OBVIOUS
    <2>1. \A y \in S : y <= u - 1 /\ u - 1 \in Nat
      BY <1>2
    <2>2. u - 1 \in U
      BY <2>1
    <2> QED BY <1>2, <2>2
  <1>4. \E x \in S : \A y \in S : x >= y
    BY <1>3
  <1> QED BY <1>4 DEF Max

\* A set of ids can be put in order: a least bound of a set that cannot would
\* not be least.
LEMMA OrderExists ==
    ASSUME NEW m \in Nat, NEW S \in SUBSET (1..m)
    PROVE  \E s \in [1..Cardinality(S) -> S] :
               \A i, j \in DOMAIN s : i < j => s[i] < s[j]
  <1> DEFINE Increasing(A) == \E s \in [1..Cardinality(A) -> A] :
                                 \A i, j \in DOMAIN s : i < j => s[i] < s[j]
             B == {k \in Nat : \E A \in SUBSET (1..k) : ~Increasing(A)}
  <1> SUFFICES ASSUME m \in B PROVE FALSE
    OBVIOUS
  <1>1. PICK k \in B : \A l \in B : k <= l
    <2>1. B \in SUBSET Nat /\ B # {}
      OBVIOUS
    <2> HIDE DEF B
    <2> QED BY <2>1, LeastNatural
  <1>2. PICK A \in SUBSET (1..k) : ~Increasing(A)
    BY <1>1
  <1>3. A # {}
    <2> SUFFICES ASSUME A = {} PROVE Increasing(A)
      BY <1>2
    <2>1. Cardinality(A) = 0
      BY FS_EmptySet
    <2>2. <<>> \in [1..0 -> A] /\ DOMAIN <<>> = {}
      OBVIOUS
    <2> QED BY <2>1, <2>2
  <1> HIDE DEF Increasing
  <1>4. k \in Nat /\ k # 0 /\ k - 1 \in Nat
    <2>1. k \in Nat
      BY <1>1
    <2>2. k # 0
      <3> SUFFICES ASSUME k = 0 PROVE A = {}
        BY <1>3
      <3>1. 1..k = {}
        OBVIOUS
      <3> QED BY <1>2, <3>1
    <2> QED BY <2>1, <2>2
  <1>5. k - 1 \notin B
    <2> HIDE DEF B
    <2> QED BY <1>1, <1>4
  <1>6. k \in A
    <2> SUFFICES ASSUME k \notin A PROVE FALSE
      OBVIOUS
    <2>1. A \in SUBSET (1..(k - 1))
      BY <1>4
    <2> QED BY <1>2, <1>4, <1>5, <2>1
  <1> DEFINE R == A \ {k}
             c == Cardinality(R)
  <1>7. R \in SUBSET (1..(k - 1))
    BY <1>4
  <1>8. IsFiniteSet(A) /\ IsFiniteSet(R)
    <2>1. IsFiniteSet(1..k)
      BY <1>4, FS_Interval
    <2>2. IsFiniteSet(A)
      BY <2>1, FS_Subset
    <2> QED BY <2>2, FS_RemoveElement
  <1>9. c \in Nat /\ Cardinality(A) = c + 1
    <2>1. c = Cardinality(A) - 1 /\ Cardinality(A) \in Nat /\ c \in Nat
      BY <1>6, <1>8, FS_RemoveElement, FS_CardinalityType
    <2> QED BY <2>1
  <1>10. PICK r \in [1..c -> R] : \A i, j \in DOMAIN r : i < j => r[i] < r[j]
    BY <1>4, <1>5, <1>7 DEF Increasing
  <1> DEFINE s == [i \in 1..(c + 1) |-> IF i <= c THEN r[i] ELSE k]
  <1> HIDE DEF R, c
  <1>11. s \in [1..(c + 1) -> A]
    BY <1>6, <1>9, <1>10 DEF R
  <1>12. \A i \in 1..c : r[i] \in 1..(k - 1)
    BY <1>7, <1>10
  <1>13. ASSUME NEW i \in 1..(c + 1), NEW j \in 1..(c + 1), i < j
         PROVE  s[i] < s[j]
    <2>1. i \in 1..c /\ s[i] = r[i]
      BY <1>9, <1>13
    <2>2. CASE j <= c
      <3>1. j \in 1..c /\ s[j] = r[j]
        BY <1>9, <2>2
      <3>2. DOMAIN r = 1..c
        BY <1>10
      <3> HIDE DEF s
      <3> QED BY <2>1, <3>1, <3>2, <1>10, <1>13
    <2>3. CASE j = c + 1
      <3>1. s[j] = k
        BY <1>9, <2>3
      <3> HIDE DEF s
      <3> QED BY <1>4, <1>12, <2>1, <3>1
    <2> QED BY <1>9, <2>2, <2>3
  <1>14. DOMAIN s = 1..(c + 1)
    OBVIOUS
  <1> HIDE DEF s
  <1>15. Increasing(A)
    BY <1>9, <1>11, <1>13, <1>14 DEF Increasing
  <1> QED BY <1>2, <1>15

\* What the stream sends is a sequence of the rows it found.
LEMMA InOrderType ==
    ASSUME NEW m \in Nat, NEW S \in SUBSET (1..m)
    PROVE  InOrder(S) \in Seq(S)
  <1>1. InOrder(S) \in [1..Cardinality(S) -> S]
    BY OrderExists DEF InOrder
  <1>2. Cardinality(S) \in Nat
    <2>1. IsFiniteSet(1..m)
      BY FS_Interval
    <2>2. IsFiniteSet(S)
      BY <2>1, FS_Subset
    <2> QED BY <2>2, FS_CardinalityType
  <1> QED BY <1>1, <1>2

---------------------------------------------------------------------------
(***************************************************************************)
(* Types                                                                   *)
(***************************************************************************)

\* A refresh is awaited only while the token is expired and the ref holds no
\* timer, so one that is lost forgets at most one timer.
FewStrays ==
    /\ strays + budget.faults <= MaxFaults
    /\ Refreshing => token = "expired" /\ ~timer

TimersTyped ==
    /\ timer \in BOOLEAN /\ strays \in Nat
    /\ budget \in [faults : 0..MaxFaults, expiries : 0..MaxExpiries,
                   toggles : 0..MaxToggles]
    /\ FewStrays

ShownTyped ==
    /\ granted \in BOOLEAN /\ reconnecting \in BOOLEAN
    /\ shown \in {"DISCONNECTED", "CONNECTING", "CONNECTED", "RECONNECTING"}

LogTyped ==
    /\ lastEvent \in 0..MaxEvents /\ caught \subseteq Event
    /\ wire \in Seq(0..MaxEvents)
    /\ cursor \in 0..MaxEvents /\ awake \in BOOLEAN
    /\ written \in 0..MaxEvents /\ committed \subseteq 1..written

LEMMA TypesFromParts ==
    HookTyped /\ TimersTyped /\ ShownTyped /\ LogTyped => TypeOK
  <1> SUFFICES ASSUME HookTyped, TimersTyped, ShownTyped, LogTyped PROVE TypeOK
    OBVIOUS
  <1>1. strays \in 0..MaxFaults
    BY StreamAssumption DEF TimersTyped, FewStrays
  <1> QED BY <1>1 DEF TypeOK, HookTyped, TimersTyped, ShownTyped, LogTyped

LEMMA SpendLess ==
    ASSUME TimersTyped, NEW what \in {"faults", "expiries", "toggles"}, Spend(what)
    PROVE  /\ budget' \in [faults : 0..MaxFaults, expiries : 0..MaxExpiries,
                           toggles : 0..MaxToggles]
           /\ budget'.faults = IF what = "faults" THEN budget.faults - 1
                               ELSE budget.faults
           /\ what = "faults" => budget.faults > 0
  BY StreamAssumption DEF TimersTyped, Spend

\* Refreshing, by what the hook awaits.
LEMMA RefreshingMeans ==
    ASSUME HookTyped
    PROVE  Refreshing <=> (attempts.refresh = 1 \/ mending = 1)
  BY DEF HookTyped, Refreshing

\* A step that spends no fault, forgets no timer and awaits no new refresh.
LEMMA TimersRest ==
    ASSUME TimersTyped, timer' \in BOOLEAN, strays' \in Nat, strays' <= strays,
           budget' \in [faults : 0..MaxFaults, expiries : 0..MaxExpiries,
                       toggles : 0..MaxToggles],
           budget'.faults <= budget.faults,
           Refreshing' => token' = "expired" /\ ~timer'
    PROVE  TimersTyped'
  <1>1. strays' + budget'.faults <= MaxFaults
    BY StreamAssumption DEF TimersTyped, FewStrays
  <1> QED BY <1>1 DEF TimersTyped, FewStrays

LEMMA ConnectTimers ==
    ASSUME SourceInv, TimersTyped, Connect(token), ~Connecting,
           mending' = mending, token' = token
    PROVE  timer' = FALSE /\ (Refreshing' => token' = "expired" /\ ~timer')
  <1>1. timer' = FALSE
    BY DEF Connect, Closed
  <1>2. Refreshing' => token' = "expired"
    <2>1. CASE token = "expired"
      BY <2>1
    <2>2. CASE token # "expired"
      <3>1. ~Refreshing
        BY <2>2 DEF TimersTyped, FewStrays
      <3>2. /\ attempts \in [refresh : 0..1, ticket : 0..1] /\ mending \in 0..1
            /\ attempts.refresh = 0 /\ mending = 0
        BY <3>1, RefreshingMeans DEF SourceInv, HookTyped, Connecting
      <3>3. attempts'.refresh = 0
        BY <2>2, <3>2 DEF Connect, SourceInv, HookTyped
      <3> QED BY <3>2, <3>3 DEF Refreshing
    <2> QED BY <2>1, <2>2
  <1> QED BY <1>1, <1>2

LEMMA ComponentTimers ==
    ASSUME SourceInv, TimersTyped, Enable \/ Disable \/ Unmount
    PROVE  TimersTyped'
  <1>1. strays' = strays /\ mending' = mending /\ token' = token /\ timer' = FALSE
    BY DEF Enable, Disable, Unmount, auth, Closed, Connect
  <1>2. Spend("toggles")
    BY DEF Enable, Disable, Unmount
  <1>3. /\ budget' \in [faults : 0..MaxFaults, expiries : 0..MaxExpiries,
                        toggles : 0..MaxToggles]
        /\ budget'.faults = budget.faults /\ budget.faults \in Nat
    BY <1>2, SpendLess DEF TimersTyped
  <1>4. Refreshing' => token' = "expired" /\ ~timer'
    <2>1. CASE Enable /\ ~Connecting
      BY <1>1, <2>1, ConnectTimers DEF Enable
    <2>2. CASE attempts' = attempts
      BY <1>1, <2>2 DEF Refreshing, TimersTyped, FewStrays
    <2> QED BY <2>1, <2>2 DEF Enable, Disable, Unmount
  <1>5. strays' \in Nat /\ strays' <= strays /\ budget'.faults <= budget.faults
    BY <1>1, <1>3 DEF TimersTyped
  <1>6. timer' \in BOOLEAN
    BY <1>1, Zenon
  <1> QED BY <1>3, <1>4, <1>5, <1>6, TimersRest

LEMMA TimersTimers ==
    ASSUME SourceInv, TimersTyped, TimerFires \/ StrayFires
    PROVE  TimersTyped'
  <1>1. mending' = mending /\ token' = token /\ budget' = budget
    BY DEF TimerFires, StrayFires, auth
  <1>2. strays' \in Nat /\ strays' <= strays
    BY DEF TimerFires, StrayFires, TimersTyped
  <1>3. timer' \in BOOLEAN /\ (Refreshing' => token' = "expired" /\ ~timer')
    <2>1. CASE MayConnect
      <3>1. Connect(token) /\ ~Connecting
        BY <2>1 DEF TimerFires, StrayFires, MayConnect
      <3>2. timer' = FALSE /\ (Refreshing' => token' = "expired" /\ ~timer')
        BY <1>1, <3>1, ConnectTimers
      <3> QED BY <3>2, Zenon
    <2>2. CASE ~MayConnect
      <3>1. attempts' = attempts /\ timer' \in {timer, FALSE}
        BY <2>2 DEF TimerFires, StrayFires
      <3>2. timer \in BOOLEAN /\ (Refreshing => token = "expired" /\ ~timer)
        BY DEF TimersTyped, FewStrays
      <3>3. timer' \in BOOLEAN
        BY <3>1, <3>2, Zenon
      <3>4. Refreshing' = Refreshing
        BY <1>1, <3>1 DEF Refreshing
      <3>5. timer' = timer \/ timer' = FALSE
        BY <3>1
      <3>6. ~timer => ~timer'
        BY <3>5, Zenon
      <3> QED BY <1>1, <3>2, <3>3, <3>4, <3>6
    <2> QED BY <2>1, <2>2
  <1> QED BY <1>1, <1>2, <1>3, TimersRest DEF TimersTyped

\* A refresh that ends leaves none behind; a lost one forgets at most one timer.
LEMMA RefreshTimers ==
    ASSUME SourceInv, TimersTyped, RefreshSettles \/ RefreshLost
    PROVE  TimersTyped'
  <1>1. /\ attempts \in [refresh : 0..1, ticket : 0..1] /\ mending \in 0..1
        /\ timer \in BOOLEAN /\ strays \in Nat
    BY DEF SourceInv, HookTyped, TimersTyped
  <1>2. mending' = 0 /\ attempts'.refresh = 0
    BY <1>1 DEF RefreshSettles, RefreshAnswered, RefreshRefused, RefreshLost, Connect
  <1>3. ~Refreshing'
    BY <1>2 DEF Refreshing
  <1>4. CASE RefreshSettles
    <2>1. strays' = strays /\ budget' = budget /\ timer' \in BOOLEAN
      BY <1>1, <1>4 DEF RefreshSettles, RefreshAnswered, RefreshRefused, Connect, Closed
    <2> QED BY <1>3, <2>1, TimersRest DEF TimersTyped
  <1>5. CASE RefreshLost
    <2>1. Refreshing
      BY <1>1, <1>5 DEF RefreshLost, Refreshing
    <2>2. timer = FALSE
      BY <2>1 DEF TimersTyped, FewStrays
    <2>3. timer' = TRUE /\ strays' = strays + mending + attempts.refresh - 1
      BY <1>1, <1>5, <2>2 DEF RefreshLost
    <2>4. mending + attempts.refresh > 0
      BY <1>5 DEF RefreshLost
    <2>5. /\ budget' \in [faults : 0..MaxFaults, expiries : 0..MaxExpiries,
                          toggles : 0..MaxToggles]
          /\ budget'.faults = budget.faults - 1 /\ budget.faults \in Nat
      <3>1. Spend("faults")
        BY <1>5 DEF RefreshLost
      <3> QED BY <3>1, SpendLess DEF TimersTyped
    <2>6. strays + budget.faults <= MaxFaults
      BY DEF TimersTyped, FewStrays
    <2>7. strays' \in Nat /\ strays' + budget'.faults <= MaxFaults
      BY <1>1, <2>3, <2>4, <2>5, <2>6, StreamAssumption
    <2> QED BY <1>3, <2>3, <2>5, <2>7 DEF TimersTyped, FewStrays
  <1> QED BY <1>4, <1>5

LEMMA ErrorsTimers == ASSUME SourceInv, TimersTyped, Fail \/ Rotate PROVE TimersTyped'
  <1>1. Errored
    BY DEF Fail, Rotate
  <1>2. /\ timer' = (token = "valid") /\ strays' = strays /\ token' = token
        /\ attempts' = attempts
        /\ mending' = IF token = "expired" THEN 1 ELSE mending
    BY <1>1 DEF Errored, auth
  <1>3. Refreshing' => token' = "expired" /\ ~timer'
    BY <1>2 DEF Refreshing, TimersTyped, FewStrays
  <1>4. /\ budget' \in [faults : 0..MaxFaults, expiries : 0..MaxExpiries,
                        toggles : 0..MaxToggles]
        /\ budget'.faults <= budget.faults
    <2>1. CASE Fail
      <3>1. Spend("faults")
        BY <2>1 DEF Fail
      <3>2. budget.faults \in Nat
        BY DEF TimersTyped
      <3> QED BY <3>1, <3>2, SpendLess
    <2>2. CASE Rotate
      BY <2>2 DEF Rotate, TimersTyped
    <2> QED BY <2>1, <2>2
  <1>5. timer' \in BOOLEAN
    BY <1>2, Zenon
  <1> QED BY <1>2, <1>3, <1>4, <1>5, TimersRest DEF TimersTyped

\* The token changes only while no refresh is awaited.
LEMMA TokensTimers ==
    ASSUME SourceInv, TimersTyped, Expire \/ RefreshedElsewhere \/ SessionEnds
    PROVE  TimersTyped'
  <1>1. timer' = timer /\ strays' = strays /\ attempts' = attempts /\ mending' = mending
    BY DEF Expire, RefreshedElsewhere, SessionEnds, client
  <1>2. ~Refreshing
    BY DEF Expire, RefreshedElsewhere, SessionEnds, TimersTyped, FewStrays
  <1>3. ~Refreshing'
    BY <1>1, <1>2 DEF Refreshing
  <1>4. /\ budget' \in [faults : 0..MaxFaults, expiries : 0..MaxExpiries,
                        toggles : 0..MaxToggles]
        /\ budget'.faults <= budget.faults
    <2>1. CASE Expire
      <3>1. Spend("expiries")
        BY <2>1 DEF Expire
      <3> QED BY <3>1, SpendLess DEF TimersTyped
    <2>2. CASE RefreshedElsewhere \/ SessionEnds
      BY <2>2 DEF RefreshedElsewhere, SessionEnds, TimersTyped
    <2> QED BY <2>1, <2>2
  <1> QED BY <1>1, <1>3, <1>4, TimersRest DEF TimersTyped

\* The other steps leave the timers, the refreshes and the bounds alone.
LEMMA OthersTimers ==
    ASSUME SourceInv, TimersTyped,
           \/ UNCHANGED vars
           \/ TicketAnswered \/ Accept \/ Revoke \/ Query \/ Hear \/ Write
           \/ \E e \in Event : Commit(e)
    PROVE  TimersTyped'
  <1>1. /\ timer' = timer /\ strays' = strays /\ mending' = mending
        /\ token' = token /\ budget' = budget
    BY DEF TicketAnswered, Accept, Revoke, Query, Hear, HearPing, HearEvent, Write,
           Commit, vars, client, auth
  <1>2. attempts'.refresh = attempts.refresh
    BY DEF TicketAnswered, Accept, Revoke, Query, Hear, HearPing, HearEvent, Write,
           Commit, vars, client, SourceInv, HookTyped
  <1>3. Refreshing' = Refreshing
    BY <1>1, <1>2 DEF Refreshing
  <1> QED BY <1>1, <1>3, TimersRest DEF TimersTyped, FewStrays

\* What the hook shows and whether it reconnects.
LEMMA ShownKeeps == ASSUME ShownTyped, SourceInv, [Next]_vars PROVE ShownTyped'
  <1>1. granted' \in BOOLEAN
    <2>1. CASE UNCHANGED granted
      BY <2>1 DEF ShownTyped
    <2>2. CASE Revoke
      BY <2>2 DEF Revoke
    <2> QED
      BY <2>1, <2>2
      DEF Next, vars, auth, Enable, Disable, Unmount, TicketAnswered, TimerFires,
          StrayFires, RefreshSettles, RefreshAnswered, RefreshRefused, RefreshLost,
          Expire, RefreshedElsewhere, SessionEnds, Accept, Fail, Rotate, Errored,
          Query, Hear, HearPing, HearEvent, Write, Commit
  <1>2. reconnecting' \in BOOLEAN
    <2>1. CASE UNCHANGED reconnecting
      BY <2>1 DEF ShownTyped
    <2>2. CASE Errored \/ HearPing
      BY <2>2 DEF Errored, HearPing
    <2> QED
      BY <2>1, <2>2
      DEF Next, vars, client, Enable, Disable, Unmount, TicketAnswered, TimerFires,
          StrayFires, RefreshSettles, RefreshAnswered, RefreshRefused, RefreshLost,
          Expire, RefreshedElsewhere, SessionEnds, Revoke, Accept, Fail, Rotate,
          Query, Hear, HearEvent, Write, Commit
  <1>3. shown' \in {"DISCONNECTED", "CONNECTING", "CONNECTED", "RECONNECTING"}
    <2>1. CASE UNCHANGED shown
      BY <2>1 DEF ShownTyped
    <2>2. ASSUME NEW t, Connect(t) PROVE shown' \in {shown, "DISCONNECTED"}
      BY <2>2 DEF Connect
    <2>3. CASE Enable \/ TimerFires \/ StrayFires \/ RefreshAnswered
      <3>1. shown' \in {shown, "DISCONNECTED"}
        BY <2>2, <2>3 DEF Enable, TimerFires, StrayFires, RefreshAnswered
      <3> QED BY <3>1 DEF ShownTyped
    <2>4. CASE \/ Disable \/ TicketAnswered \/ RefreshRefused \/ Errored \/ Hear
      BY <2>4 DEF Disable, TicketAnswered, RefreshRefused, Errored, Hear, HearPing,
                  HearEvent
    <2> QED
      BY <2>1, <2>3, <2>4
      DEF Next, vars, client, Unmount, RefreshSettles, RefreshLost,
          Expire, RefreshedElsewhere, SessionEnds, Revoke, Accept, Fail, Rotate,
          Query, Write, Commit
  <1> QED BY <1>1, <1>2, <1>3 DEF ShownTyped

---------------------------------------------------------------------------
\* The log, the server's stream and what it has sent.

\* What sequences are over.
LEMMA SequenceOf ==
    ASSUME NEW S
    PROVE  /\ <<>> \in Seq(S)
           /\ \A x \in S : <<x>> \in Seq(S)
           /\ \A T \in SUBSET S : \A s \in Seq(T) : s \in Seq(S)
           /\ \A s \in Seq(S) : s # <<>> => Head(s) \in S /\ Tail(s) \in Seq(S)
  <1>1. \A x \in S : <<x>> \in Seq(S)
    OBVIOUS
  <1>2. \A T \in SUBSET S : \A s \in Seq(T) : s \in Seq(S)
    OBVIOUS
  <1>3. \A s \in Seq(S) : s # <<>> => Head(s) \in S /\ Tail(s) \in Seq(S)
    OBVIOUS
  <1> QED BY <1>1, <1>2, <1>3

\* A step that leaves the log alone, and forgets what was sent or not.
LEMMA LogRests ==
    ASSUME LogTyped, UNCHANGED <<lastEvent, caught, cursor, awake, log>>,
           wire' \in {wire, <<>>}
    PROVE  LogTyped'
  <1>1. wire' \in Seq(0..MaxEvents)
    <2>1. wire \in Seq(0..MaxEvents) /\ <<>> \in Seq(0..MaxEvents)
      BY SequenceOf DEF LogTyped
    <2> QED BY <2>1, Zenon
  <1> QED BY <1>1 DEF LogTyped, log

LEMMA AcceptLog == ASSUME LogTyped, Accept PROVE LogTyped'
  <1>1. /\ wire' = <<0>> /\ awake' = TRUE
        /\ cursor' = IF lastEvent > 0 THEN lastEvent ELSE Max(committed \cup {0})
        /\ lastEvent' = lastEvent /\ caught' = caught
        /\ written' = written /\ committed' = committed
    BY DEF Accept, log, Ping
  <1>2. /\ lastEvent \in 0..MaxEvents
        /\ committed \cup {0} \in SUBSET (0..MaxEvents)
    BY StreamAssumption DEF LogTyped
  <1>3. Max(committed \cup {0}) \in 0..MaxEvents
    <2>1. Max(committed \cup {0}) \in committed \cup {0}
      BY <1>2, MaxIsIn, StreamAssumption
    <2> QED BY <1>2, <2>1
  <1>4. cursor' \in 0..MaxEvents
    BY <1>1, <1>2, <1>3
  <1>5. wire' \in Seq(0..MaxEvents)
    <2>1. 0 \in 0..MaxEvents
      BY StreamAssumption
    <2>2. \A x \in 0..MaxEvents : <<x>> \in Seq(0..MaxEvents)
      BY SequenceOf, Zenon
    <2> QED BY <1>1, <2>1, <2>2, Zenon
  <1> QED BY <1>1, <1>4, <1>5 DEF LogTyped

LEMMA QueryLog == ASSUME LogTyped, Query PROVE LogTyped'
  <1> DEFINE found == {e \in committed : e > cursor}
  <1>1. /\ wire' = wire \o InOrder(found) /\ awake' = FALSE
        /\ cursor' = Max(found \cup {cursor})
        /\ lastEvent' = lastEvent /\ caught' = caught
        /\ written' = written /\ committed' = committed
    BY DEF Query, client, log
  <1>2. /\ found \in SUBSET (1..MaxEvents)
        /\ found \cup {cursor} \in SUBSET (0..MaxEvents)
    <2>1. 1..written \subseteq 1..MaxEvents
      BY StreamAssumption DEF LogTyped
    <2>2. found \subseteq 1..MaxEvents
      BY <2>1 DEF LogTyped
    <2>3. cursor \in 0..MaxEvents
      BY DEF LogTyped
    <2> HIDE DEF found
    <2> QED BY <2>2, <2>3
  <1> HIDE DEF found
  <1>3. cursor' \in 0..MaxEvents
    <2>1. Max(found \cup {cursor}) \in found \cup {cursor}
      BY <1>2, MaxIsIn, StreamAssumption
    <2> QED BY <1>1, <1>2, <2>1
  <1>4. wire' \in Seq(0..MaxEvents)
    <2>1. InOrder(found) \in Seq(found)
      BY <1>2, InOrderType, StreamAssumption
    <2>2. InOrder(found) \in Seq(0..MaxEvents)
      <3>1. found \in SUBSET (0..MaxEvents)
        BY <1>2
      <3> QED BY <2>1, <3>1, SequenceOf
    <2>3. wire \in Seq(0..MaxEvents)
      BY DEF LogTyped
    <2> QED BY <1>1, <2>2, <2>3
  <1> QED BY <1>1, <1>3, <1>4 DEF LogTyped

LEMMA HearLog == ASSUME LogTyped, Hear PROVE LogTyped'
  <1>1. /\ wire # <<>> /\ wire' = Tail(wire) /\ cursor' = cursor /\ awake' = awake
        /\ written' = written /\ committed' = committed
    BY DEF Hear, HearPing, HearEvent, log
  <1>2. wire \in Seq(0..MaxEvents)
    BY DEF LogTyped
  <1>3. wire' \in Seq(0..MaxEvents) /\ Head(wire) \in 0..MaxEvents
    BY <1>1, <1>2, SequenceOf
  <1>4. lastEvent' \in 0..MaxEvents /\ caught' \subseteq Event
    <2>1. CASE HearPing
      <3>1. /\ lastEvent' = lastEvent
            /\ caught' = caught \/ caught' = caught \cup committed
        BY <2>1 DEF HearPing
      <3>2. committed \subseteq Event
        BY StreamAssumption DEF LogTyped, Event
      <3> QED BY <3>1, <3>2 DEF LogTyped
    <2>2. CASE HearEvent
      <3>1. /\ lastEvent' = Head(wire) /\ caught' = caught \cup {Head(wire)}
            /\ Head(wire) # 0
        BY <2>2 DEF HearEvent, Ping
      <3>2. Head(wire) \in Event
        BY <1>3, <3>1, StreamAssumption DEF Event
      <3> QED BY <1>3, <3>1, <3>2 DEF LogTyped
    <2> QED BY <2>1, <2>2 DEF Hear
  <1> QED BY <1>1, <1>3, <1>4 DEF LogTyped

LEMMA WriteLog ==
    ASSUME LogTyped, Write \/ \E e \in Event : Commit(e) PROVE LogTyped'
  <1>1. /\ wire' = wire /\ cursor' = cursor /\ lastEvent' = lastEvent
        /\ caught' = caught
    BY DEF Write, Commit, client, server
  <1>2. CASE Write
    <2>1. /\ written' = written + 1 /\ written < MaxEvents /\ committed' = committed
          /\ awake' = (awake \/ source = "open")
      BY <1>2 DEF Write
    <2>2. written' \in 0..MaxEvents /\ committed' \subseteq 1..written'
      BY <2>1, StreamAssumption DEF LogTyped
    <2>3. awake' \in BOOLEAN
      BY <2>1, Zenon
    <2> QED BY <1>1, <2>2, <2>3 DEF LogTyped
  <1>3. CASE \E e \in Event : Commit(e)
    <2>1. PICK e \in Event : Commit(e)
      BY <1>3
    <2>2. /\ e <= written /\ committed' = committed \cup {e} /\ written' = written
          /\ awake' = awake
      BY <2>1 DEF Commit, server
    <2> QED BY <1>1, <2>2, StreamAssumption DEF LogTyped, Event
  <1> QED BY <1>2, <1>3

LEMMA LogKeeps == ASSUME LogTyped, [Next]_vars PROVE LogTyped'
  <1>1. ASSUME NEW t, Connect(t) PROVE wire' = <<>>
    BY <1>1 DEF Connect, Closed
  <1>2. CASE \/ Enable \/ Disable \/ Unmount \/ TicketAnswered \/ TimerFires
             \/ StrayFires \/ RefreshSettles \/ RefreshLost \/ Fail \/ Rotate
    <2>1. UNCHANGED <<lastEvent, caught, cursor, awake, log>>
      BY <1>2 DEF Enable, Disable, Unmount, TicketAnswered, TimerFires, StrayFires,
                  RefreshSettles, RefreshAnswered, RefreshRefused, RefreshLost, Fail,
                  Rotate, Errored, server
    <2>2. wire' \in {wire, <<>>}
      BY <1>1, <1>2
      DEF Enable, Disable, Unmount, TicketAnswered, TimerFires, StrayFires,
          RefreshSettles, RefreshAnswered, RefreshRefused, RefreshLost, Fail,
          Rotate, Errored, Closed, server
    <2> QED BY <2>1, <2>2, LogRests
  <1>3. CASE Expire \/ RefreshedElsewhere \/ SessionEnds \/ Revoke \/ UNCHANGED vars
    BY <1>3, LogRests DEF Expire, RefreshedElsewhere, SessionEnds, Revoke, vars,
                          client, server
  <1> QED BY <1>2, <1>3, AcceptLog, QueryLog, HearLog, WriteLog DEF Next

TypeInv == SourceInv /\ TimersTyped /\ ShownTyped /\ LogTyped

\* Every variable keeps its type: what the client heard are events of the log,
\* and a failure leaves at most one forgotten timer.
THEOREM TypeCorrect == Spec => []TypeOK
  <1>1. Init => TypeInv
    <2> SUFFICES ASSUME Init PROVE TypeInv
      OBVIOUS
    <2>1. TimersTyped
      <3>1. /\ strays = 0 /\ timer = FALSE /\ mending = 0 /\ attempts.refresh = 0
            /\ budget = [faults |-> MaxFaults, expiries |-> MaxExpiries,
                         toggles |-> MaxToggles]
        BY DEF Init
      <3>2. timer \in BOOLEAN
        BY <3>1, Zenon
      <3> QED BY <3>1, <3>2, StreamAssumption DEF TimersTyped, FewStrays, Refreshing
    <2>2. ShownTyped
      BY DEF Init, ShownTyped
    <2>3. LogTyped
      <3>1. /\ lastEvent = 0 /\ caught = {} /\ wire = <<>> /\ cursor = 0
            /\ awake = FALSE /\ written = 0 /\ committed = {}
        BY DEF Init
      <3>2. awake \in BOOLEAN
        BY <3>1, Zenon
      <3> QED BY <3>1, <3>2, StreamAssumption DEF LogTyped
    <2> QED BY <2>1, <2>2, <2>3, Starts DEF TypeInv
  <1>2. TypeInv /\ [Next]_vars /\ SourceInv' => TypeInv'
    <2> SUFFICES ASSUME SourceInv, TimersTyped, ShownTyped, LogTyped, [Next]_vars,
                        SourceInv'
                 PROVE  TypeInv'
      BY DEF TypeInv
    <2>1. TimersTyped'
      BY ComponentTimers, TimersTimers, RefreshTimers, ErrorsTimers, TokensTimers,
         OthersTimers DEF Next
    <2> QED BY <2>1, ShownKeeps, LogKeeps DEF TypeInv
  <1>3. TypeInv => TypeOK
    BY TypesFromParts DEF TypeInv, SourceInv
  <1> QED BY <1>1, <1>2, <1>3, SourceInvariant, PTL DEF Spec

-----------------------------------------------------------------------------
(***************************************************************************)
(* The safety that Reconnects rests on.                                    *)
(***************************************************************************)

\* What will open a source again, or already has.
Way == source # "none" \/ timer \/ Connecting \/ mending > 0

WayBack == enabled /\ mounted /\ token # "none" => Way

LEMMA WayKept ==
    ASSUME Way, UNCHANGED <<timer, attempts, mending>>, source # "none" => source' # "none"
    PROVE  Way'
  BY DEF Way, Connecting

LEMMA ConnectIsWay ==
    ASSUME HookTyped, NEW t \in {"valid", "expired"}, Connect(t)
    PROVE  Way'
  <1>1. /\ attempts \in [refresh : 0..1, ticket : 0..1]
        /\ \/ attempts' = [attempts EXCEPT !.ticket = @ + 1]
           \/ attempts' = [attempts EXCEPT !.refresh = @ + 1]
    BY DEF HookTyped, Connect
  <1> QED BY <1>1 DEF Way, Connecting

\* The hook gives a connection up only when it is disabled, unmounted or logged out.
LEMMA HookKeepsWay ==
    ASSUME SourceInv, WayBack,
           \/ Enable \/ Disable \/ Unmount \/ TicketAnswered \/ TimerFires \/ StrayFires
           \/ RefreshSettles \/ RefreshLost \/ Fail \/ Rotate
    PROVE  WayBack'
  <1> SUFFICES ASSUME enabled', mounted', token' # "none" PROVE Way'
    BY DEF WayBack
  <1> USE DEF SourceInv
  <1>1. CASE Enable
    <2>1. token' = token /\ token \in {"valid", "expired"} /\ mending' = mending
      BY <1>1 DEF Enable, auth, HookTyped
    <2>2. CASE Connecting
      BY <1>1, <2>2 DEF Enable, Way, Connecting
    <2>3. CASE ~Connecting
      BY <1>1, <2>1, <2>3, ConnectIsWay DEF Enable
    <2> QED BY <2>2, <2>3
  <1>2. CASE Disable \/ Unmount
    BY <1>2 DEF Disable, Unmount
  <1>3. CASE TicketAnswered
    BY <1>3 DEF TicketAnswered, Way
  <1>4. CASE TimerFires \/ StrayFires
    <2>1. token' = token /\ token \in {"valid", "expired"} /\ mounted /\ mending' = mending
      BY <1>4 DEF TimerFires, StrayFires, auth, HookTyped
    <2>2. CASE MayConnect
      BY <1>4, <2>1, <2>2, ConnectIsWay DEF TimerFires, StrayFires
    <2>3. CASE ~MayConnect
      <3>1. (Connecting \/ source = "open") /\ attempts' = attempts /\ source' = source
        BY <1>4, <2>1, <2>3 DEF TimerFires, StrayFires, MayConnect
      <3> QED BY <3>1 DEF Way, Connecting
    <2> QED BY <2>2, <2>3
  <1>5. CASE RefreshAnswered
    <2>1. mounted /\ attempts \in [refresh : 0..1, ticket : 0..1]
      BY <1>5 DEF RefreshAnswered, HookTyped
    <2>2. CASE attempts.refresh > 0
      <3>1. attempts' = [refresh |-> 0, ticket |-> attempts.ticket + attempts.refresh]
        BY <1>5, <2>1, <2>2 DEF RefreshAnswered
      <3> QED BY <2>1, <2>2, <3>1 DEF Way, Connecting
    <2>3. CASE attempts.refresh = 0 /\ MayConnect
      BY <1>5, <2>3, ConnectIsWay DEF RefreshAnswered
    <2>4. CASE attempts.refresh = 0 /\ ~MayConnect
      <3>1. (Connecting \/ source = "open") /\ attempts' = attempts /\ source' = source
        BY <1>5, <2>1, <2>4 DEF RefreshAnswered, MayConnect
      <3> QED BY <3>1 DEF Way, Connecting
    <2> QED BY <2>1, <2>2, <2>3, <2>4
  <1>6. CASE RefreshRefused
    BY <1>6 DEF RefreshRefused
  <1>7. CASE RefreshLost
    BY <1>7 DEF RefreshLost, Way
  <1>8. CASE Fail \/ Rotate
    <2>1. Errored /\ token' = token /\ token \in {"valid", "expired"}
      BY <1>8 DEF Fail, Rotate, Errored, auth, HookTyped
    <2>2. CASE token = "valid"
      <3>1. timer' = (token = "valid")
        BY <2>1 DEF Errored
      <3>2. timer'
        BY <2>2, <3>1
      <3> QED BY <3>2 DEF Way
    <2>3. CASE token = "expired"
      BY <2>1, <2>3 DEF Errored, Way
    <2> QED BY <2>1, <2>2, <2>3
  <1> QED BY <1>1, <1>2, <1>3, <1>4, <1>5, <1>6, <1>7, <1>8 DEF RefreshSettles

LEMMA OthersKeepWay ==
    ASSUME SourceInv, WayBack,
           \/ Expire \/ RefreshedElsewhere \/ SessionEnds \/ Revoke
           \/ Accept \/ Query \/ Hear \/ Write \/ \E e \in Event : Commit(e)
           \/ UNCHANGED vars
    PROVE  WayBack'
  <1> SUFFICES ASSUME enabled', mounted', token' # "none" PROVE Way'
    BY DEF WayBack
  <1>1. /\ UNCHANGED <<enabled, mounted, timer, attempts, mending>>
        /\ source # "none" => source' # "none"
    BY DEF Expire, RefreshedElsewhere, SessionEnds, Revoke, Accept, Query, Hear, HearPing,
       HearEvent, Write, Commit, client, vars
  <1>2. token # "none"
    BY DEF Expire, RefreshedElsewhere, SessionEnds, Revoke, Accept, Query, Hear, HearPing,
       HearEvent, Write, Commit, auth, vars
  <1> QED BY <1>1, <1>2, WayKept DEF WayBack

\* While the stream is wanted there is always something that will open it again, or
\* a source that will end: no loss and no order of answers leaves the hook with nothing.
THEOREM WayBackCorrect == Spec => []WayBack
  <1>1. Init => WayBack
    BY DEF Init, WayBack
  <1>2. SourceInv /\ WayBack /\ [Next]_vars => WayBack'
    BY HookKeepsWay, OthersKeepWay DEF Next
  <1> QED BY <1>1, <1>2, SourceInvariant, PTL DEF Spec

-----------------------------------------------------------------------------
(***************************************************************************)
(* What the application hears moves forward: lastEventId is where the next *)
(* stream begins, and the server's cursor is beyond all it has sent.       *)
(***************************************************************************)

\* No event is heard that the stream has told of already, across reconnections,
\* lost connections and rows that commit out of order.
HearsForward == [][HearEvent => Head(wire) > lastEvent]_vars

\* What is sent on one source is in the order of its ids, the ping first.
WireAhead ==
    /\ source # "open" => wire = <<>>
    /\ source = "open" => lastEvent <= cursor
    /\ \A i \in 1..Len(wire) : /\ wire[i] <= cursor
                               /\ wire[i] = Ping \/ wire[i] > lastEvent
    /\ \A i, j \in 1..Len(wire) : i < j => wire[i] < wire[j]

LEMMA InOrderSorted ==
    ASSUME NEW m \in Nat, NEW S \in SUBSET (1..m)
    PROVE  /\ \A i \in 1..Len(InOrder(S)) : InOrder(S)[i] \in S
           /\ \A i, j \in 1..Len(InOrder(S)) : i < j => InOrder(S)[i] < InOrder(S)[j]
  <1>1. /\ InOrder(S) \in [1..Cardinality(S) -> S]
        /\ \A i, j \in DOMAIN InOrder(S) : i < j => InOrder(S)[i] < InOrder(S)[j]
    BY OrderExists DEF InOrder
  <1>2. InOrder(S) \in Seq(S)
    BY InOrderType
  <1> HIDE DEF InOrder
  <1>3. DOMAIN InOrder(S) = 1..Len(InOrder(S))
    BY <1>2
  <1> QED BY <1>1, <1>3

LEMMA ElementOf == ASSUME NEW S, NEW s \in Seq(S), NEW i \in 1..Len(s) PROVE s[i] \in S
  OBVIOUS

LEMMA WireRests ==
    ASSUME WireAhead, UNCHANGED <<source, wire, cursor, lastEvent>>
    PROVE  WireAhead'
  BY DEF WireAhead

LEMMA WireEmptied ==
    ASSUME wire' = <<>>, source' # "open"
    PROVE  WireAhead'
  <1>1. Len(wire') = 0 /\ 1..0 = {}
    OBVIOUS
  <1> QED BY <1>1 DEF WireAhead

LEMMA AcceptAhead == ASSUME LogTyped, Accept PROVE WireAhead'
  <1>1. /\ wire' = <<0>> /\ source' = "open" /\ lastEvent' = lastEvent
        /\ cursor' = IF lastEvent > 0 THEN lastEvent ELSE Max(committed \cup {0})
    BY DEF Accept, log, Ping
  <1>2. lastEvent' \in Nat /\ cursor' \in Nat /\ (lastEvent > 0 => cursor' = lastEvent)
    <2>1. lastEvent \in 0..MaxEvents /\ cursor' \in 0..MaxEvents
      BY <1>1, AcceptLog DEF LogTyped
    <2> QED BY <1>1, <2>1
  <1>3. lastEvent' <= cursor'
    BY <1>1, <1>2
  <1>4. Len(wire') = 1 /\ wire'[1] = 0
    BY <1>1
  <1>5. \A i \in 1..Len(wire') : i = 1
    BY <1>4
  <1>6. \A i \in 1..Len(wire') : wire'[i] <= cursor' /\ wire'[i] = Ping
    BY <1>2, <1>4, <1>5 DEF Ping
  <1>7. \A i, j \in 1..Len(wire') : ~(i < j)
    BY <1>5
  <1> QED BY <1>1, <1>3, <1>6, <1>7 DEF WireAhead

LEMMA QueryAhead == ASSUME LogTyped, WireAhead, Query PROVE WireAhead'
  <1> DEFINE found == {e \in committed : e > cursor}
             more == InOrder(found)
  <1>1. /\ wire' = wire \o more /\ cursor' = Max(found \cup {cursor})
        /\ source = "open" /\ source' = source /\ lastEvent' = lastEvent
    BY DEF Query, client
  <1>2. /\ found \in SUBSET (1..MaxEvents)
        /\ found \cup {cursor} \in SUBSET (0..MaxEvents)
        /\ cursor \in 0..MaxEvents /\ lastEvent \in 0..MaxEvents
    <2>1. 1..written \subseteq 1..MaxEvents
      BY StreamAssumption DEF LogTyped
    <2>2. found \subseteq 1..MaxEvents
      BY <2>1 DEF LogTyped
    <2>3. cursor \in 0..MaxEvents /\ lastEvent \in 0..MaxEvents
      BY DEF LogTyped
    <2> HIDE DEF found
    <2> QED BY <2>2, <2>3
  <1>3. \A e \in found : e > cursor
    OBVIOUS
  <1> HIDE DEF found
  <1>4. /\ cursor' \in 0..MaxEvents
        /\ \A y \in found \cup {cursor} : cursor' >= y
    <2>1. /\ Max(found \cup {cursor}) \in found \cup {cursor}
          /\ \A y \in found \cup {cursor} : Max(found \cup {cursor}) >= y
      BY <1>2, MaxIsIn, StreamAssumption
    <2> QED BY <1>1, <1>2, <2>1
  <1>5. /\ more \in Seq(0..MaxEvents)
        /\ \A i \in 1..Len(more) : more[i] \in found
        /\ \A i, j \in 1..Len(more) : i < j => more[i] < more[j]
    <2>1. more \in Seq(found)
      BY <1>2, InOrderType, StreamAssumption
    <2>2. found \in SUBSET (0..MaxEvents)
      BY <1>2
    <2>3. more \in Seq(0..MaxEvents)
      BY <2>1, <2>2, SequenceOf
    <2> QED BY <1>2, <2>3, InOrderSorted, StreamAssumption
  <1> HIDE DEF more
  <1>6. wire \in Seq(0..MaxEvents)
    BY DEF LogTyped
  <1> DEFINE n == Len(wire)
  <1>7. /\ n \in Nat /\ Len(more) \in Nat /\ Len(wire') = n + Len(more)
        /\ \A i \in 1..n : wire'[i] = wire[i]
        /\ \A i \in 1..Len(wire') : i \notin 1..n =>
              i - n \in 1..Len(more) /\ wire'[i] = more[i - n]
    BY <1>1, <1>5, <1>6
  <1>8. \A i \in 1..n : /\ wire[i] \in 0..MaxEvents /\ wire[i] <= cursor
                        /\ wire[i] = Ping \/ wire[i] > lastEvent
    BY <1>6, ElementOf DEF WireAhead
  <1>9. \A i \in 1..Len(more) : /\ more[i] \in 0..MaxEvents /\ more[i] > cursor
                                /\ more[i] <= cursor'
    BY <1>2, <1>3, <1>4, <1>5
  <1>10. lastEvent <= cursor /\ cursor <= cursor'
    BY <1>1, <1>2, <1>4 DEF WireAhead
  <1>11. \A i \in 1..Len(wire') : /\ wire'[i] <= cursor'
                                  /\ wire'[i] = Ping \/ wire'[i] > lastEvent'
    <2> SUFFICES ASSUME NEW i \in 1..Len(wire')
                 PROVE  wire'[i] <= cursor' /\ (wire'[i] = Ping \/ wire'[i] > lastEvent)
      BY <1>1
    <2>1. CASE i \in 1..n
      BY <1>2, <1>4, <1>7, <1>8, <1>10, <2>1
    <2>2. CASE i \notin 1..n
      BY <1>2, <1>4, <1>7, <1>9, <1>10, <2>2
    <2> QED BY <2>1, <2>2
  <1>12. \A i, j \in 1..Len(wire') : i < j => wire'[i] < wire'[j]
    <2> SUFFICES ASSUME NEW i \in 1..Len(wire'), NEW j \in 1..Len(wire'), i < j
                 PROVE  wire'[i] < wire'[j]
      OBVIOUS
    <2>1. CASE i \in 1..n /\ j \in 1..n
      BY <1>7, <2>1 DEF WireAhead
    <2>2. CASE i \in 1..n /\ j \notin 1..n
      <3>1. wire'[i] = wire[i] /\ wire'[j] = more[j - n] /\ j - n \in 1..Len(more)
        BY <1>7, <2>2
      <3>2. wire[i] <= cursor /\ wire[i] \in Nat
        BY <1>8, <2>2
      <3>3. more[j - n] > cursor /\ more[j - n] \in Nat
        BY <1>9, <3>1
      <3> QED BY <1>2, <3>1, <3>2, <3>3
    <2>3. CASE i \notin 1..n /\ j \notin 1..n
      <3>1. /\ wire'[i] = more[i - n] /\ wire'[j] = more[j - n]
            /\ i - n \in 1..Len(more) /\ j - n \in 1..Len(more)
        BY <1>7, <2>3
      <3>2. i - n < j - n
        BY <1>7
      <3> QED BY <1>5, <3>1, <3>2
    <2>4. ~(i \notin 1..n /\ j \in 1..n)
      BY <1>7
    <2> QED BY <2>1, <2>2, <2>3, <2>4
  <1>13. lastEvent' <= cursor'
    BY <1>1, <1>2, <1>4, <1>10
  <1> QED BY <1>1, <1>11, <1>12, <1>13 DEF WireAhead

\* The first of what was sent is the smallest of it.
LEMMA HearAhead == ASSUME LogTyped, WireAhead, Hear PROVE WireAhead'
  <1>1. /\ source = "open" /\ source' = source /\ wire # <<>> /\ wire' = Tail(wire)
        /\ cursor' = cursor /\ lastEvent' \in {lastEvent, Head(wire)}
        /\ HearPing => lastEvent' = lastEvent
        /\ HearEvent => Head(wire) # Ping
    BY DEF Hear, HearPing, HearEvent
  <1>2. /\ wire \in Seq(0..MaxEvents) /\ cursor \in 0..MaxEvents
        /\ lastEvent \in 0..MaxEvents
    BY DEF LogTyped
  <1>3. /\ Len(wire) \in Nat /\ Len(wire) >= 1 /\ Head(wire) = wire[1]
        /\ Len(wire') = Len(wire) - 1
        /\ \A i \in 1..Len(wire') : i + 1 \in 1..Len(wire) /\ wire'[i] = wire[i + 1]
    BY <1>1, <1>2
  <1>4. \A i \in 1..Len(wire) : wire[i] \in 0..MaxEvents
    BY <1>2, ElementOf
  <1>5. \A i \in 1..Len(wire') : /\ wire[1] < wire[i + 1]
                                 /\ wire[i + 1] <= cursor
                                 /\ wire[i + 1] = Ping \/ wire[i + 1] > lastEvent
    <2> SUFFICES ASSUME NEW i \in 1..Len(wire')
                 PROVE  /\ wire[1] < wire[i + 1] /\ wire[i + 1] <= cursor
                        /\ wire[i + 1] = Ping \/ wire[i + 1] > lastEvent
      OBVIOUS
    <2>1. 1 \in 1..Len(wire) /\ i + 1 \in 1..Len(wire) /\ 1 < i + 1
      BY <1>3
    <2> QED BY <2>1 DEF WireAhead
  <1>6. \A i \in 1..Len(wire') : /\ wire'[i] <= cursor'
                                 /\ wire'[i] = Ping \/ wire'[i] > lastEvent'
    BY <1>1, <1>3, <1>5
  <1>7. \A i, j \in 1..Len(wire') : i < j => wire'[i] < wire'[j]
    <2> SUFFICES ASSUME NEW i \in 1..Len(wire'), NEW j \in 1..Len(wire'), i < j
                 PROVE  wire'[i] < wire'[j]
      OBVIOUS
    <2>1. i + 1 \in 1..Len(wire) /\ j + 1 \in 1..Len(wire) /\ i + 1 < j + 1
      BY <1>3
    <2> QED BY <1>3, <2>1 DEF WireAhead
  <1>8. lastEvent' <= cursor'
    <2>1. lastEvent <= cursor /\ wire[1] <= cursor
      BY <1>1, <1>3 DEF WireAhead
    <2> QED BY <1>1, <1>3, <2>1
  <1> QED BY <1>1, <1>6, <1>7, <1>8 DEF WireAhead

LEMMA StepAhead == ASSUME SourceInv, LogTyped, WireAhead, [Next]_vars PROVE WireAhead'
  <1>1. ASSUME NEW t, Connect(t) PROVE wire' = <<>> /\ source' # "open"
    BY <1>1 DEF Connect, Closed
  <1>2. CASE \/ Enable \/ Disable \/ Unmount \/ TicketAnswered \/ TimerFires
             \/ StrayFires \/ RefreshSettles \/ RefreshLost \/ Fail \/ Rotate
    <2>1. UNCHANGED <<lastEvent, cursor>>
      BY <1>2 DEF Enable, Disable, Unmount, TicketAnswered, TimerFires, StrayFires,
                  RefreshSettles, RefreshAnswered, RefreshRefused, RefreshLost, Fail,
                  Rotate, Errored, server
    <2>2. \/ UNCHANGED <<source, wire>>
          \/ wire' = <<>> /\ source' # "open"
      BY <1>1, <1>2
      DEF Enable, Disable, Unmount, TicketAnswered, TimerFires, StrayFires,
          RefreshSettles, RefreshAnswered, RefreshRefused, RefreshLost, Fail,
          Rotate, Errored, Closed, server
    <2> QED BY <2>1, <2>2, WireRests, WireEmptied
  <1>3. CASE \/ Expire \/ RefreshedElsewhere \/ SessionEnds \/ Revoke
             \/ Write \/ UNCHANGED vars \/ \E e \in Event : Commit(e)
    <2>1. UNCHANGED <<source, wire, cursor, lastEvent>>
      BY <1>3 DEF Expire, RefreshedElsewhere, SessionEnds, Revoke, Write, Commit, vars,
                  client, server
    <2> QED BY <2>1, WireRests
  <1>4. CASE Accept \/ Query \/ Hear
    BY <1>4, AcceptAhead, QueryAhead, HearAhead
  <1> QED BY <1>2, <1>3, <1>4 DEF Next

\* The technician's application hears an event of the stream once at most, and what it
\* hears moves forward.
THEOREM HearsForwardCorrect == Spec => HearsForward
  <1>1. Init => LogTyped /\ WireAhead
    <2> SUFFICES ASSUME Init PROVE LogTyped /\ WireAhead
      OBVIOUS
    <2>1. wire = <<>> /\ Len(<<>>) = 0 /\ 1..0 = {} /\ source = "none"
      BY DEF Init
    <2>2. WireAhead
      BY <2>1 DEF WireAhead
    <2>3. LogTyped
      <3>1. <<>> \in Seq(0..MaxEvents)
        BY SequenceOf
      <3>2. /\ lastEvent = 0 /\ caught = {} /\ wire = <<>> /\ cursor = 0 /\ awake = FALSE
            /\ written = 0 /\ committed = {}
        BY DEF Init
      <3>3. 0 \in 0..MaxEvents /\ {} \subseteq Event /\ {} \subseteq 1..0
        BY StreamAssumption
      <3> QED BY <3>1, <3>2, <3>3 DEF LogTyped
    <2> QED BY <2>2, <2>3
  <1>2. SourceInv /\ LogTyped /\ WireAhead /\ [Next]_vars => LogTyped' /\ WireAhead'
    BY LogKeeps, StepAhead
  <1>3. LogTyped /\ WireAhead /\ HearEvent => Head(wire) > lastEvent
    <2> SUFFICES ASSUME LogTyped, WireAhead, HearEvent PROVE Head(wire) > lastEvent
      OBVIOUS
    <2>1. wire \in Seq(0..MaxEvents) /\ wire # <<>> /\ Head(wire) # Ping
      BY DEF LogTyped, HearEvent
    <2>2. 1 \in 1..Len(wire) /\ Head(wire) = wire[1]
      BY <2>1
    <2> QED BY <2>1, <2>2 DEF WireAhead
  <1>4. LogTyped /\ WireAhead /\ [Next]_vars => [HearEvent => Head(wire) > lastEvent]_vars
    BY <1>3
  <1> QED BY <1>1, <1>2, <1>4, SourceInvariant, PTL DEF Spec, HearsForward

-----------------------------------------------------------------------------
(***************************************************************************)
(* The session the hook's tokens belong to (Session): type correctness,    *)
(* and that nobody is logged out by accident, for any number of tabs,      *)
(* accounts and requests.  The module is an instance here, next to the     *)
(* hook, with parameters and variables of its own; its assumption on the   *)
(* parameters is the hypothesis ClientBounds.                              *)
(***************************************************************************)
CONSTANTS Tabs, Users, Slots, Narrow, MaxClock, MaxLost, MaxHeard, MaxMoves, NoUser, NoToken

VARIABLES store, tab, events, goodbye, clock, faults, moves, history

Client == INSTANCE Session WITH MaxFaults <- MaxLost, MaxEvents <- MaxHeard

ClientBounds ==
    /\ MaxClock \in Nat \ {0} /\ MaxLost \in Nat /\ MaxHeard \in Nat \ {0}
    /\ MaxMoves \in Nat \ {0} /\ 1 \in Slots /\ Slots \subseteq Nat
    /\ NoUser \notin Users /\ NoToken \notin [user : Users, exp : 1..MaxClock]

-----------------------------------------------------------------------------
(***************************************************************************)
(* The invariant of the session.                                           *)
(***************************************************************************)

\* BOOLEAN, which the SMT solver does not see into.
Truth == BOOLEAN

CallRow == [pc : {"idle", "sent", "waiting", "retried"}, bearer : Client!MaybeToken,
            profile : Truth, me : Client!MaybeUser]

TabRow == [user : Client!MaybeUser, session : Client!MaybeToken,
           refreshing : Client!MaybeUser,
           profiling : Truth, closing : Truth, calls : [Slots -> CallRow]]

StoreRow == [access : Client!MaybeToken, refresh : Client!MaybeUser,
             cached : Client!MaybeUser]

TabsTyped == tab \in [Tabs -> TabRow]

EventsTyped ==
    /\ events \in [Tabs -> Seq(Client!MaybeToken)]
    /\ \A t \in Tabs : Len(events[t]) <= MaxHeard

CountersTyped == clock \in 0..MaxClock /\ faults \in 0..MaxLost /\ moves \in 0..MaxMoves

Typed ==
    /\ store \in StoreRow
    /\ TabsTyped
    /\ EventsTyped
    /\ goodbye \subseteq Tabs
    /\ CountersTyped
    /\ history \in [entered : Truth, left : Truth]

\* A retry carries a token that is still good, and the first request of a profile
\* refresh carries a token: its owner is who the answer is about.  Nobody else knows
\* a user that is not shown.
CallOK(call) ==
    /\ call.pc = "retried" => call.bearer # NoToken /\ ~Client!Expired(call.bearer)
    /\ call.profile /\ call.me = NoUser => call.bearer # NoToken
    /\ call.me # NoUser => call.profile

CallsOK == \A t \in Tabs, s \in Slots : CallOK(tab[t].calls[s])

\* Before anyone logs in there is nothing to log out from: no tokens, no user on
\* any screen and no request whose answer could take tokens away.
Pristine(row) ==
    /\ row.user = NoUser /\ row.refreshing = NoUser
    /\ \A s \in Slots : row.calls[s].pc = "idle"

Nobody ==
    /\ store.access = NoToken /\ store.refresh = NoUser
    /\ \A t \in Tabs : Pristine(tab[t])

Everybody == store.access # NoToken /\ store.refresh # NoUser

Stays ==
    ~history.left =>
        /\ goodbye = {}
        /\ ~history.entered => Nobody
        /\ history.entered /\ clock < MaxClock => Everybody

SessionInv == Typed /\ CallsOK /\ Stays

-----------------------------------------------------------------------------
(***************************************************************************)
(* Tokens, the store and the storage events.                               *)
(***************************************************************************)

LEMMA Nones == NoToken \in Client!MaybeToken /\ NoUser \in Client!MaybeUser
  BY DEF Client!MaybeToken, Client!MaybeUser

LEMMA Truths == TRUE \in Truth /\ FALSE \in Truth
  BY DEF Truth

LEMMA TruthConj == ASSUME NEW p, NEW q PROVE (p /\ ~q) \in Truth
  BY Zenon DEF Truth

LEMMA Idles ==
    ASSUME ClientBounds
    PROVE  Client!Idle \in CallRow /\ Client!Idle.pc = "idle" /\ CallOK(Client!Idle)
  BY Truths DEF ClientBounds, Client!Idle, CallRow, Client!MaybeToken, Client!MaybeUser,
     CallOK

LEMMA RowTyped ==
    ASSUME ClientBounds, Typed, NEW t \in Tabs
    PROVE  /\ tab[t] \in TabRow
           /\ tab[t].user \in Client!MaybeUser /\ tab[t].session \in Client!MaybeToken
           /\ tab[t].refreshing \in Client!MaybeUser
           /\ \A s \in Slots : /\ tab[t].calls[s] \in CallRow
                               /\ tab[t].calls[s].bearer \in Client!MaybeToken
                               /\ tab[t].calls[s].me \in Client!MaybeUser
                               /\ tab[t].calls[s].profile \in Truth
  BY DEF Typed, TabsTyped, TabRow, CallRow

LEMMA StoreTyped ==
    ASSUME ClientBounds, Typed
    PROVE  /\ store.access \in Client!MaybeToken /\ store.refresh \in Client!MaybeUser
           /\ store.cached \in Client!MaybeUser
  BY DEF Typed, StoreRow

LEMMA ChosenTyped ==
    ASSUME ClientBounds, Typed, NEW t \in Tabs
    PROVE  /\ Client!ChosenToken(t) \in Client!MaybeToken
           /\ store.access = NoToken => Client!ChosenToken(t) = NoToken
  <1>1. Client!ChosenToken(t) = store.access \/ Client!ChosenToken(t) = tab[t].session
    BY DEF Client!ChosenToken
  <1>2. store.access = NoToken => Client!ChosenToken(t) = NoToken
    BY DEF Client!ChosenToken
  <1> QED BY <1>1, <1>2, RowTyped, StoreTyped

LEMMA FreshTyped ==
    ASSUME ClientBounds, Typed, NEW u \in Users, clock < MaxClock
    PROVE  /\ Client!Fresh(u) \in Client!MaybeToken /\ Client!Fresh(u) # NoToken
           /\ ~Client!Expired(Client!Fresh(u))
           /\ u # NoUser /\ u \in Client!MaybeUser
  <1>1. clock \in Nat /\ clock + 1 \in 1..MaxClock
    BY DEF ClientBounds, Typed, CountersTyped
  <1>2. Client!Fresh(u) \in Client!AccessToken
    BY <1>1 DEF Client!Fresh, Client!AccessToken
  <1>3. ~Client!Expired(Client!Fresh(u))
    BY <1>1 DEF Client!Fresh, Client!Expired
  <1> QED BY <1>2, <1>3 DEF ClientBounds, Client!MaybeToken, Client!MaybeUser,
     Client!AccessToken

LEMMA Writes ==
    ASSUME ClientBounds, Typed
    PROVE  /\ Client!Cleared \in StoreRow
           /\ \A c \in Client!MaybeUser : /\ [Client!Cleared EXCEPT !.cached = c] \in StoreRow
                                   /\ [store EXCEPT !.cached = c] \in StoreRow
                                   /\ [store EXCEPT !.cached = c].access = store.access
                                   /\ [store EXCEPT !.cached = c].refresh = store.refresh
  BY DEF Typed, StoreRow, Client!Cleared, Client!MaybeToken, Client!MaybeUser

LEMMA Stores ==
    ASSUME ClientBounds, Typed, NEW u \in Users, clock < MaxClock
    PROVE  /\ Client!StoreWith(u) \in StoreRow
           /\ Client!StoreWith(u).access # NoToken /\ Client!StoreWith(u).refresh # NoUser
  <1>1. /\ Client!Fresh(u) \in Client!MaybeToken /\ Client!Fresh(u) # NoToken
        /\ u # NoUser /\ u \in Client!MaybeUser
    BY FreshTyped
  <1> HIDE DEF Client!Fresh
  <1> QED BY <1>1 DEF Typed, StoreRow, Client!StoreWith

LEMMA Hears ==
    ASSUME ClientBounds, Typed, NEW t \in Tabs, NEW mark \in Client!MaybeToken,
           Client!RoomForEvents(t),
           events' = Client!EventsAfter(t, mark)
    PROVE  EventsTyped'
  <1>1. /\ events \in [Tabs -> Seq(Client!MaybeToken)]
        /\ \A o \in Tabs : Len(events[o]) <= MaxHeard
        /\ MaxHeard \in Nat
    BY DEF ClientBounds, Typed, EventsTyped
  <1>2. ASSUME NEW o \in Tabs
        PROVE  /\ events'[o] \in Seq(Client!MaybeToken) /\ Len(events'[o]) <= MaxHeard
    <2>1. CASE o # t /\ store.access # mark
      <3>1. events'[o] = Append(events[o], mark)
        BY <2>1 DEF Client!EventsAfter
      <3>2. events[o] \in Seq(Client!MaybeToken) /\ Len(events[o]) < MaxHeard
        BY <1>1, <2>1 DEF Client!RoomForEvents
      <3> QED BY <1>1, <3>1, <3>2
    <2>2. CASE ~(o # t /\ store.access # mark)
      <3>1. events'[o] = events[o]
        BY <2>2 DEF Client!EventsAfter
      <3> QED BY <1>1, <3>1
    <2> QED BY <2>1, <2>2
  <1>3. events' \in [Tabs -> Seq(Client!MaybeToken)]
    <2>1. events' = [o \in Tabs |-> events'[o]]
      BY DEF Client!EventsAfter
    <2> QED BY <1>2, <2>1
  <1> QED BY <1>2, <1>3 DEF EventsTyped
-----------------------------------------------------------------------------
(***************************************************************************)
(* What a step does to a tab.                                              *)
(***************************************************************************)

\* Only the tab t changes.
Moves(t) == TabsTyped' /\ \A o \in Tabs : o # t => tab'[o] = tab[o]

LEMMA RowMoves ==
    ASSUME ClientBounds, TabsTyped, NEW t \in Tabs, NEW r \in TabRow,
           tab' = [tab EXCEPT ![t] = r]
    PROVE  Moves(t) /\ tab'[t] = r
  BY DEF TabsTyped, Moves

\* What the step leaves alone stays in order.
LEMMA CallsKept ==
    ASSUME ClientBounds, CallsOK, UNCHANGED clock, NEW t \in Tabs, Moves(t),
           \A s \in Slots : \/ tab'[t].calls[s] = tab[t].calls[s]
                            \/ CallOK(tab'[t].calls[s])
    PROVE  CallsOK'
  BY DEF CallsOK, CallOK, Client!Expired, Moves

\* A request is sent, with the token that the tab chooses or that of a login.
LEMMA CallSent ==
    ASSUME ClientBounds, TabsTyped, NEW t \in Tabs, NEW s \in Slots, NEW c \in CallRow,
           NEW x \in Client!MaybeToken,
           tab' = [tab EXCEPT ![t].session = x, ![t].calls[s] = c]
    PROVE  /\ TabsTyped' /\ \A o \in Tabs \ {t} : tab'[o] = tab[o]
           /\ tab'[t].user = tab[t].user /\ tab'[t].refreshing = tab[t].refreshing
           /\ tab'[t].calls = [tab[t].calls EXCEPT ![s] = c]
  BY Truths DEF TabsTyped, TabRow

LEMMA ProfileEdit ==
    ASSUME ClientBounds, NEW f \in [Tabs -> TabRow], NEW t \in Tabs, NEW s \in Slots,
           NEW c \in CallRow, NEW x \in Client!MaybeToken
    PROVE  [f EXCEPT ![t].session = x, ![t].profiling = TRUE, ![t].calls[s] = c]
              \in [Tabs -> TabRow]
  BY Truths DEF TabRow

LEMMA ProfileSent ==
    ASSUME ClientBounds, TabsTyped, NEW t \in Tabs, NEW s \in Slots, NEW c \in CallRow,
           NEW x \in Client!MaybeToken,
           tab' = [tab EXCEPT ![t].session = x, ![t].profiling = TRUE, ![t].calls[s] = c]
    PROVE  /\ TabsTyped' /\ \A o \in Tabs \ {t} : tab'[o] = tab[o]
           /\ tab'[t].user = tab[t].user /\ tab'[t].refreshing = tab[t].refreshing
           /\ tab'[t].calls = [tab[t].calls EXCEPT ![s] = c]
  BY Truths DEF TabsTyped, TabRow

\* What is sent, in a slot that was free, to be found in order afterwards.
LEMMA SlotTaken ==
    ASSUME ClientBounds, Typed, CallsOK, UNCHANGED clock, NEW t \in Tabs, NEW s \in Slots,
           NEW c \in CallRow, CallOK(c), TabsTyped',
           \A o \in Tabs \ {t} : tab'[o] = tab[o],
           tab'[t].calls = [tab[t].calls EXCEPT ![s] = c]
    PROVE  /\ Moves(t) /\ CallsOK'
           /\ tab'[t].calls[s] = c
           /\ \A o \in Slots : o # s => tab'[t].calls[o] = tab[t].calls[o]
  <1>1. Moves(t)
    BY DEF Moves
  <1>2. \A o \in Slots : tab'[t].calls[o] = IF o = s THEN c ELSE tab[t].calls[o]
    BY DEF Typed, TabsTyped, TabRow
  <1>3. CallsOK'
    BY <1>1, <1>2, CallsKept
  <1> QED BY <1>1, <1>2, <1>3

\* Calls have ended.
LEMMA EndedRow ==
    ASSUME ClientBounds, TabsTyped, NEW t \in Tabs, NEW done, NEW u \in Client!MaybeUser
    PROVE  /\ Client!Ended(t, done, u) \in TabRow
           /\ Client!Ended(t, done, u).user = u
           /\ Client!Ended(t, done, u).refreshing = tab[t].refreshing
           /\ \A s \in Slots : Client!Ended(t, done, u).calls[s] =
                                  IF s \in done THEN Client!Idle ELSE tab[t].calls[s]
  <1> DEFINE p == tab[t].profiling /\ ~ \E s \in done : tab[t].calls[s].profile
             c == [s \in Slots |-> IF s \in done THEN Client!Idle ELSE tab[t].calls[s]]
  <1>1. p \in Truth
    BY TruthConj
  <1>2. c \in [Slots -> CallRow]
    BY Idles DEF TabsTyped, TabRow
  <1>3. Client!Ended(t, done, u) = [tab[t] EXCEPT !.user = u, !.profiling = p, !.calls = c]
    BY DEF Client!Ended, TabsTyped, TabRow
  <1>4. \A s \in Slots : c[s] = IF s \in done THEN Client!Idle ELSE tab[t].calls[s]
    OBVIOUS
  <1> HIDE DEF p, c
  <1>5. /\ Client!Ended(t, done, u) \in TabRow /\ Client!Ended(t, done, u).user = u
        /\ Client!Ended(t, done, u).refreshing = tab[t].refreshing
        /\ Client!Ended(t, done, u).calls = c
    BY <1>1, <1>2, <1>3 DEF TabsTyped, TabRow
  <1> QED BY <1>4, <1>5

LEMMA TypedKept ==
    ASSUME ClientBounds, Typed, UNCHANGED clock, store' \in StoreRow, TabsTyped',
           EventsTyped',
           goodbye' \subseteq Tabs, UNCHANGED history,
           UNCHANGED faults \/ (faults > 0 /\ faults' = faults - 1),
           UNCHANGED moves \/ (moves > 0 /\ moves' = moves - 1)
    PROVE  Typed'
  <1>1. faults' \in 0..MaxLost /\ moves' \in 0..MaxMoves
    BY DEF ClientBounds, Typed, CountersTyped
  <1> QED BY <1>1 DEF Typed, CountersTyped

\* The tokens stay, and a tab on which nobody was logged in has nobody still.
LEMMA StaysKept ==
    ASSUME ClientBounds, SessionInv, UNCHANGED <<clock, history>>, NEW t \in Tabs, Moves(t),
           goodbye' \subseteq goodbye,
           store'.access = store.access, store'.refresh = store.refresh,
           store.access = NoToken /\ Pristine(tab[t]) => Pristine(tab'[t])
    PROVE  Stays'
  <1>1. Nobody => Nobody'
    <2>1. ASSUME Nobody, NEW o \in Tabs
          PROVE  Pristine(tab'[o])
      <3>1. CASE o = t
        BY <2>1, <3>1 DEF Nobody
      <3>2. CASE o # t
        <4>1. Pristine(tab[o]) /\ tab'[o] = tab[o]
          BY <2>1, <3>2 DEF Nobody, Moves
        <4> QED BY <4>1
      <3> QED BY <3>1, <3>2
    <2>2. ASSUME NEW o \in Tabs, Pristine(tab'[o])
          PROVE  Pristine(tab[o])'
      BY <2>2 DEF Pristine
    <2> QED BY <2>1, <2>2 DEF Nobody
  <1>2. Everybody => Everybody'
    BY DEF Everybody
  <1> QED BY <1>1, <1>2 DEF SessionInv, Stays

\* The tokens go only when someone has logged out or the refresh token is old.
LEMMA StaysOver ==
    ASSUME ClientBounds, SessionInv, UNCHANGED <<clock, goodbye, history>>, ~Nobody,
           ~Everybody \/ ~(clock < MaxClock)
    PROVE  Stays'
  BY DEF SessionInv, Stays
-----------------------------------------------------------------------------
(***************************************************************************)
(* Requests.                                                               *)
(***************************************************************************)

LEMMA SentTyped ==
    ASSUME ClientBounds, Typed, NEW t \in Tabs, NEW known \in Client!MaybeUser,
           NEW profile \in Truth,
           profile /\ known = NoUser => Client!ChosenToken(t) # NoToken,
           known # NoUser => profile
    PROVE  /\ Client!Sent(t, profile, known) \in CallRow
           /\ CallOK(Client!Sent(t, profile, known))
  <1>1. Client!ChosenToken(t) \in Client!MaybeToken
    BY ChosenTyped
  <1> HIDE DEF Client!ChosenToken
  <1> QED BY <1>1 DEF Client!Sent, CallRow, CallOK

LEMMA StartProfileKeeps ==
    ASSUME ClientBounds, SessionInv, NEW t \in Tabs, NEW s \in Slots,
           Client!StartProfile(t, s)
    PROVE  SessionInv'
  <1> USE DEF SessionInv
  <1>1. /\ moves > 0 /\ moves' = moves - 1
        /\ UNCHANGED <<events, goodbye, clock, faults, history>>
    BY DEF Client!StartProfile
  <1>2. CASE Client!ChosenToken(t) = NoToken
    <2>1. /\ store' = [store EXCEPT !.cached = NoUser]
          /\ tab' = [tab EXCEPT ![t].user = NoUser, ![t].session = NoToken,
                                ![t].profiling = TRUE]
      BY <1>2 DEF Client!StartProfile
    <2>2. /\ Moves(t)
          /\ tab'[t].user = NoUser /\ tab'[t].refreshing = tab[t].refreshing
          /\ tab'[t].calls = tab[t].calls
      BY <2>1, Truths DEF Typed, TabsTyped, TabRow, Moves, Client!MaybeUser, Client!MaybeToken
    <2>3. NoUser \in Client!MaybeUser
      BY DEF Client!MaybeUser
    <2>4. /\ store' \in StoreRow /\ store'.access = store.access
          /\ store'.refresh = store.refresh
      BY <2>1, <2>3, Writes
    <2>5. EventsTyped' /\ TabsTyped'
      BY <1>1, <2>2 DEF Typed, EventsTyped, Moves
    <2>6. Typed'
      BY <1>1, <2>4, <2>5, TypedKept DEF Typed
    <2>7. CallsOK'
      BY <1>1, <2>2, CallsKept
    <2>8. Stays'
      BY <1>1, <2>2, <2>4, StaysKept DEF Pristine
    <2> QED BY <2>6, <2>7, <2>8
  <1>3. CASE Client!ChosenToken(t) # NoToken
    <2> DEFINE c == Client!Sent(t, TRUE, NoUser)
    <2>1. /\ tab' = [tab EXCEPT ![t].session = Client!ChosenToken(t), ![t].profiling = TRUE,
                                ![t].calls[s] = c]
          /\ UNCHANGED store
      BY <1>3 DEF Client!StartProfile
    <2>2. c \in CallRow /\ CallOK(c)
      BY <1>3, SentTyped, Truths DEF Client!MaybeUser
    <2>3. Client!ChosenToken(t) \in Client!MaybeToken /\ store.access # NoToken
      BY <1>3, ChosenTyped
    <2> HIDE DEF c
    <2>4. /\ TabsTyped' /\ \A o \in Tabs \ {t} : tab'[o] = tab[o]
          /\ tab'[t].calls = [tab[t].calls EXCEPT ![s] = c]
      BY <2>1, <2>2, <2>3, ProfileSent DEF Typed
    <2>5. Moves(t) /\ CallsOK'
      BY <1>1, <2>2, <2>4, SlotTaken
    <2>6. Typed'
      BY <1>1, <2>1, <2>4, TypedKept DEF Typed, EventsTyped
    <2>7. Stays'
      BY <1>1, <2>1, <2>3, <2>5, StaysKept
    <2> QED BY <2>5, <2>6, <2>7
  <1> QED BY <1>2, <1>3

LEMMA StartCallKeeps ==
    ASSUME ClientBounds, SessionInv, NEW t \in Tabs, NEW s \in Slots, Client!StartCall(t, s)
    PROVE  SessionInv'
  <1> USE DEF SessionInv
  <1> DEFINE c == Client!Sent(t, FALSE, NoUser)
  <1>1. /\ tab[t].user # NoUser
        /\ tab' = [tab EXCEPT ![t].session = Client!ChosenToken(t), ![t].calls[s] = c]
        /\ UNCHANGED <<store, events, goodbye, clock, faults, moves, history>>
    BY DEF Client!StartCall
  <1>2. c \in CallRow /\ CallOK(c)
    BY SentTyped, Truths DEF Client!MaybeUser
  <1>3. Client!ChosenToken(t) \in Client!MaybeToken
    BY ChosenTyped
  <1> HIDE DEF c
  <1>4. /\ TabsTyped' /\ \A o \in Tabs \ {t} : tab'[o] = tab[o]
        /\ tab'[t].calls = [tab[t].calls EXCEPT ![s] = c]
    BY <1>1, <1>2, <1>3, CallSent DEF Typed
  <1>5. Moves(t) /\ CallsOK'
    BY <1>1, <1>2, <1>4, SlotTaken
  <1>6. Typed'
    BY <1>1, <1>4, TypedKept DEF Typed, EventsTyped
  <1>7. ~Pristine(tab[t])
    BY <1>1 DEF Pristine
  <1>8. Stays'
    BY <1>1, <1>5, <1>7, StaysKept
  <1> QED BY <1>5, <1>6, <1>8

\* A call ends, and the user of the tab is who it says.
LEMMA EndKeeps ==
    ASSUME ClientBounds, SessionInv, NEW t \in Tabs, NEW s \in Slots,
           NEW u \in Client!MaybeUser,
           tab[t].calls[s].pc # "idle",
           tab' = [tab EXCEPT ![t] = Client!Ended(t, {s}, u)],
           UNCHANGED store \/ \E c \in Client!MaybeUser : store' = [store EXCEPT !.cached = c],
           UNCHANGED <<events, goodbye, clock, moves, history>>,
           UNCHANGED faults \/ (faults > 0 /\ faults' = faults - 1)
    PROVE  SessionInv'
  <1> USE DEF SessionInv
  <1>1. /\ Client!Ended(t, {s}, u) \in TabRow
        /\ \A o \in Slots : Client!Ended(t, {s}, u).calls[o] =
                               IF o \in {s} THEN Client!Idle ELSE tab[t].calls[o]
    BY EndedRow DEF Typed
  <1>2. Moves(t) /\ tab'[t] = Client!Ended(t, {s}, u)
    BY <1>1, RowMoves DEF Typed
  <1>3. /\ store' \in StoreRow /\ store'.access = store.access
        /\ store'.refresh = store.refresh
    BY Writes DEF Typed
  <1>4. Typed'
    BY <1>2, <1>3, TypedKept DEF Typed, EventsTyped, Moves
  <1>5. CallsOK'
    BY <1>1, <1>2, Idles, CallsKept
  <1>6. ~Pristine(tab[t])
    BY DEF Pristine
  <1>7. Stays'
    BY <1>2, <1>3, <1>6, StaysKept
  <1> QED BY <1>4, <1>5, <1>7

LEMMA AnswerAcceptedKeeps ==
    ASSUME ClientBounds, SessionInv, NEW t \in Tabs, NEW s \in Slots,
           Client!AnswerAccepted(t, s)
    PROVE  SessionInv'
  <1> USE DEF SessionInv
  <1> DEFINE call == tab[t].calls[s]
  <1>1. /\ call.pc # "idle"
        /\ UNCHANGED <<events, goodbye, clock, faults, moves, history>>
    BY DEF Client!AnswerAccepted
  <1>2. /\ call.me \in Client!MaybeUser /\ call.bearer \in Client!MaybeToken
        /\ tab[t].user \in Client!MaybeUser
    BY RowTyped
  <1>3. CASE /\ call.profile /\ call.me = NoUser
             /\ tab' = [tab EXCEPT ![t].session = Client!ChosenToken(t),
                                   ![t].calls[s] = Client!Sent(t, TRUE, call.bearer.user)]
             /\ UNCHANGED store
    <2> DEFINE c == Client!Sent(t, TRUE, call.bearer.user)
    <2>1. call.bearer # NoToken
      BY <1>3 DEF CallsOK, CallOK
    <2>2. call.bearer.user \in Users
      BY <1>2, <2>1 DEF Client!MaybeToken, Client!AccessToken
    <2>3. c \in CallRow /\ CallOK(c)
      BY <2>2, SentTyped, Truths DEF ClientBounds, Client!MaybeUser
    <2>4. Client!ChosenToken(t) \in Client!MaybeToken
      BY ChosenTyped
    <2>5. tab' = [tab EXCEPT ![t].session = Client!ChosenToken(t), ![t].calls[s] = c]
      BY <1>3
    <2> HIDE DEF c
    <2>6. /\ TabsTyped' /\ \A o \in Tabs \ {t} : tab'[o] = tab[o]
          /\ tab'[t].calls = [tab[t].calls EXCEPT ![s] = c]
      BY <2>3, <2>4, <2>5, CallSent DEF Typed
    <2>7. Moves(t) /\ CallsOK'
      BY <1>1, <2>3, <2>6, SlotTaken
    <2>8. Typed'
      BY <1>1, <1>3, <2>6, TypedKept DEF Typed, EventsTyped
    <2>9. ~Pristine(tab[t])
      BY <1>1 DEF Pristine
    <2>10. Stays'
      BY <1>1, <1>3, <2>7, <2>9, StaysKept
    <2> QED BY <2>7, <2>8, <2>10
  <1>4. CASE /\ tab' = [tab EXCEPT ![t] = Client!Ended(t, {s}, call.me)]
             /\ store' = [store EXCEPT !.cached = call.me]
    BY <1>1, <1>2, <1>4, EndKeeps
  <1>5. CASE /\ tab' = [tab EXCEPT ![t] = Client!Ended(t, {s}, tab[t].user)]
             /\ UNCHANGED store
    BY <1>1, <1>2, <1>5, EndKeeps
  <1> QED BY <1>3, <1>4, <1>5 DEF Client!AnswerAccepted

LEMMA AnswerLostKeeps ==
    ASSUME ClientBounds, SessionInv, NEW t \in Tabs, NEW s \in Slots,
           Client!AnswerLost(t, s)
    PROVE  SessionInv'
  <1> DEFINE call == tab[t].calls[s]
  <1>1. /\ call.pc # "idle" /\ faults > 0 /\ faults' = faults - 1
        /\ UNCHANGED <<events, goodbye, clock, moves, history>>
    BY DEF Client!AnswerLost
  <1>2. call.me \in Client!MaybeUser /\ tab[t].user \in Client!MaybeUser
    BY RowTyped DEF SessionInv
  <1>3. \/ /\ tab' = [tab EXCEPT ![t] = Client!Ended(t, {s}, call.me)]
           /\ store' = [store EXCEPT !.cached = call.me]
        \/ /\ tab' = [tab EXCEPT ![t] = Client!Ended(t, {s}, tab[t].user)]
           /\ UNCHANGED store
    BY DEF Client!AnswerLost
  <1>4. CASE /\ tab' = [tab EXCEPT ![t] = Client!Ended(t, {s}, call.me)]
             /\ store' = [store EXCEPT !.cached = call.me]
    BY <1>1, <1>2, <1>4, EndKeeps
  <1>5. CASE /\ tab' = [tab EXCEPT ![t] = Client!Ended(t, {s}, tab[t].user)]
             /\ UNCHANGED store
    BY <1>1, <1>2, <1>5, EndKeeps
  <1> QED BY <1>3, <1>4, <1>5

LEMMA AnswerUnauthorizedKeeps ==
    ASSUME ClientBounds, SessionInv, NEW t \in Tabs, NEW s \in Slots,
           Client!AnswerUnauthorized(t, s)
    PROVE  SessionInv'
  <1> USE DEF SessionInv
  <1> DEFINE v == IF tab[t].refreshing # NoUser THEN tab[t].refreshing ELSE store.refresh
             c == [tab[t].calls[s] EXCEPT !.pc = "waiting"]
  <1>1. /\ tab[t].calls[s].pc = "sent"
        /\ tab' = [tab EXCEPT ![t].calls[s].pc = "waiting", ![t].refreshing = v]
        /\ UNCHANGED <<store, events, goodbye, clock, faults, moves, history>>
    BY DEF Client!AnswerUnauthorized
  <1>2. v \in Client!MaybeUser
    BY RowTyped, StoreTyped
  <1> HIDE DEF v
  <1>3. c \in CallRow /\ c.pc = "waiting" /\ c.profile = tab[t].calls[s].profile
        /\ c.me = tab[t].calls[s].me /\ c.bearer = tab[t].calls[s].bearer
    BY DEF Typed, TabsTyped, TabRow, CallRow
  <1>4. CallOK(c)
    BY <1>3 DEF CallsOK, CallOK
  <1>5. /\ TabsTyped' /\ \A o \in Tabs \ {t} : tab'[o] = tab[o]
        /\ tab'[t].calls = [tab[t].calls EXCEPT ![s] = c]
    BY <1>1, <1>2, <1>3 DEF Typed, TabsTyped, TabRow
  <1> HIDE DEF c
  <1>6. Moves(t) /\ CallsOK'
    BY <1>1, <1>3, <1>4, <1>5, SlotTaken
  <1>7. Typed'
    BY <1>1, <1>5, TypedKept DEF Typed, EventsTyped
  <1>8. ~Pristine(tab[t])
    BY <1>1 DEF Pristine
  <1>9. Stays'
    BY <1>1, <1>6, <1>8, StaysKept
  <1> QED BY <1>6, <1>7, <1>9

\* The tokens go: a call that ends the session, or the refresh that was refused.
LEMMA SessionOver ==
    ASSUME ClientBounds, SessionInv, NEW t \in Tabs, NEW r \in TabRow,
           tab' = [tab EXCEPT ![t] = r],
           \A s \in Slots : r.calls[s] = tab[t].calls[s] \/ r.calls[s] = Client!Idle,
           store' \in StoreRow, Client!RoomForEvents(t),
           events' = Client!EventsAfter(t, NoToken),
           UNCHANGED <<goodbye, clock, faults, moves, history>>,
           ~Nobody, ~Everybody \/ ~(clock < MaxClock)
    PROVE  SessionInv'
  <1> USE DEF SessionInv
  <1>1. Moves(t) /\ tab'[t] = r
    BY RowMoves DEF Typed
  <1>2. EventsTyped'
    BY Hears DEF Client!MaybeToken
  <1>3. Typed'
    BY <1>1, <1>2, TypedKept DEF Typed, Moves
  <1>4. CallsOK'
    BY <1>1, Idles, CallsKept
  <1>5. Stays'
    BY StaysOver
  <1> QED BY <1>3, <1>4, <1>5

LEMMA AnswerEndsSessionKeeps ==
    ASSUME ClientBounds, SessionInv, NEW t \in Tabs, NEW s \in Slots,
           Client!AnswerEndsSession(t, s)
    PROVE  SessionInv'
  <1> DEFINE call == tab[t].calls[s]
             e == Client!Ended(t, {s}, call.me)
             r == [e EXCEPT !.session = NoToken]
  <1>1. /\ Client!MayRefuse(call.bearer) /\ Client!RoomForEvents(t)
        /\ \/ call.pc = "retried"
           \/ call.pc = "sent" /\ tab[t].refreshing = NoUser /\ store.refresh = NoUser
        /\ tab' = [tab EXCEPT ![t] = r]
        /\ store' = [Client!Cleared EXCEPT !.cached = IF call.profile THEN call.me ELSE @]
        /\ events' = Client!EventsAfter(t, NoToken)
        /\ UNCHANGED <<goodbye, clock, faults, moves, history>>
    BY DEF Client!AnswerEndsSession
  <1>2. call.me \in Client!MaybeUser
    BY RowTyped DEF SessionInv
  <1>3. /\ e \in TabRow
        /\ \A o \in Slots : e.calls[o] = IF o \in {s} THEN Client!Idle ELSE tab[t].calls[o]
    BY <1>2, EndedRow DEF SessionInv, Typed
  <1>4. ~(call.pc = "retried")
    BY <1>1 DEF SessionInv, CallsOK, CallOK, Client!MayRefuse
  <1>5. ~Everybody
    BY <1>1, <1>4 DEF Everybody
  <1>6. ~Nobody
    BY <1>1 DEF Nobody, Pristine
  <1>7. store' \in StoreRow
    BY <1>1, <1>2, Writes DEF SessionInv, Typed, StoreRow, Client!Cleared,
       Client!MaybeToken, Client!MaybeUser
  <1> HIDE DEF e
  <1>8. r \in TabRow /\ r.calls = e.calls
    BY <1>3, Nones DEF TabRow
  <1> HIDE DEF r
  <1>9. \A o \in Slots : r.calls[o] = tab[t].calls[o] \/ r.calls[o] = Client!Idle
    BY <1>3, <1>8
  <1> QED BY <1>1, <1>5, <1>6, <1>7, <1>8, <1>9, SessionOver

LEMMA AheadKeeps ==
    ASSUME ClientBounds, SessionInv, NEW t \in Tabs, Client!RefreshAhead(t)
    PROVE  SessionInv'
  <1> USE DEF SessionInv
  <1>1. tab[t].user # NoUser /\ UNCHANGED <<goodbye, clock, faults, moves, history>>
    BY DEF Client!RefreshAhead
  <1>2. ~Pristine(tab[t]) /\ ~Nobody
    BY <1>1 DEF Nobody, Pristine
  <1>3. CASE store.refresh # NoUser
    <2>1. tab' = [tab EXCEPT ![t].refreshing = store.refresh] /\ UNCHANGED <<store, events>>
      BY <1>3 DEF Client!RefreshAhead
    <2>2. Moves(t) /\ tab'[t].calls = tab[t].calls
      BY <2>1, StoreTyped DEF Typed, TabsTyped, TabRow, Moves
    <2>3. Typed'
      BY <1>1, <2>1, <2>2, TypedKept DEF Typed, EventsTyped, Moves
    <2>4. CallsOK'
      BY <1>1, <2>2, CallsKept
    <2>5. Stays'
      BY <1>1, <1>2, <2>1, <2>2, StaysKept
    <2> QED BY <2>3, <2>4, <2>5
  <1>4. CASE store.refresh = NoUser
    <2> DEFINE r == [tab[t] EXCEPT !.user = NoUser, !.session = NoToken]
    <2>1. /\ Client!RoomForEvents(t)
          /\ tab' = [tab EXCEPT ![t].user = NoUser, ![t].session = NoToken]
          /\ store' = Client!Cleared
          /\ events' = Client!EventsAfter(t, NoToken)
      BY <1>4 DEF Client!RefreshAhead
    <2>2. r \in TabRow /\ r.calls = tab[t].calls /\ tab' = [tab EXCEPT ![t] = r]
      BY <2>1 DEF Typed, TabsTyped, TabRow, Client!MaybeUser, Client!MaybeToken
    <2> HIDE DEF r
    <2>3. ~Everybody
      BY <1>4 DEF Everybody
    <2> QED BY <1>1, <1>2, <2>1, <2>2, <2>3, Writes, SessionOver
  <1> QED BY <1>3, <1>4

LEMMA WaitingSlots == ASSUME NEW t PROVE Client!Waiting(t) \in SUBSET Slots
  BY DEF Client!Waiting

LEMMA RefreshAnsweredKeeps ==
    ASSUME ClientBounds, SessionInv, NEW t \in Tabs, Client!RefreshAnswered(t)
    PROVE  SessionInv'
  <1> USE DEF SessionInv
  <1> DEFINE u == tab[t].refreshing
             x == Client!Fresh(u)
             k == [s \in Slots |-> IF s \in Client!Waiting(t)
                     THEN [tab[t].calls[s] EXCEPT !.pc = "retried", !.bearer = x]
                     ELSE tab[t].calls[s]]
  <1>1. /\ u # NoUser /\ clock < MaxClock /\ Client!RoomForEvents(t)
        /\ store' = Client!StoreWith(u)
        /\ events' = Client!EventsAfter(t, x)
        /\ UNCHANGED <<goodbye, clock, faults, moves, history>>
    BY DEF Client!RefreshAnswered, Client!RefreshAccepted
  <1>2. u \in Users
    BY <1>1, RowTyped DEF Client!MaybeUser
  <1>3. x \in Client!MaybeToken /\ x # NoToken /\ ~Client!Expired(x)
    BY <1>1, <1>2, FreshTyped
  <1>4. tab' = [tab EXCEPT ![t].session = x, ![t].refreshing = NoUser, ![t].calls = k]
    BY DEF Client!RefreshAnswered, Typed, TabsTyped, TabRow
  <1> HIDE DEF x
  <1>5. ASSUME NEW s \in Slots
        PROVE  k[s] \in CallRow /\ (k[s] = tab[t].calls[s] \/ CallOK(k[s]))
    <2>1. tab[t].calls[s] \in CallRow
      BY RowTyped
    <2>2. [tab[t].calls[s] EXCEPT !.pc = "retried", !.bearer = x] \in CallRow
      BY <1>3, <2>1 DEF CallRow
    <2>3. CallOK([tab[t].calls[s] EXCEPT !.pc = "retried", !.bearer = x])
      <3>1. tab[t].calls[s].me # NoUser => tab[t].calls[s].profile
        BY DEF CallsOK, CallOK
      <3>2. /\ [tab[t].calls[s] EXCEPT !.pc = "retried", !.bearer = x].me = tab[t].calls[s].me
            /\ [tab[t].calls[s] EXCEPT !.pc = "retried", !.bearer = x].profile
                  = tab[t].calls[s].profile
            /\ [tab[t].calls[s] EXCEPT !.pc = "retried", !.bearer = x].bearer = x
        BY <2>1 DEF CallRow
      <3> QED BY <1>3, <3>1, <3>2, Zenon DEF CallOK
    <2> QED BY <2>1, <2>2, <2>3
  <1>6. k \in [Slots -> CallRow]
    BY <1>5
  <1> HIDE DEF k, u
  <1>7. /\ Moves(t) /\ tab'[t].calls = k
    BY <1>3, <1>4, <1>6 DEF Typed, TabsTyped, TabRow, Moves, Client!MaybeUser
  <1>8. store' \in StoreRow /\ Everybody'
    BY <1>1, <1>2, Stores DEF Everybody
  <1>9. Typed'
    BY <1>1, <1>3, <1>7, <1>8, Hears, TypedKept DEF Typed, Moves
  <1>10. CallsOK'
    BY <1>1, <1>5, <1>7, CallsKept
  <1>11. Stays'
    <2>1. ~Nobody
      BY <1>1 DEF Nobody, Pristine, u
    <2> QED BY <1>1, <1>8, <2>1 DEF Stays
  <1> QED BY <1>9, <1>10, <1>11

\* Who is shown when calls have failed.
LEMMA WhoTyped ==
    ASSUME ClientBounds, Typed, NEW t \in Tabs
    PROVE  \A u \in Client!ShownAfterFailure(t, NoUser) : u \in Client!MaybeUser
  <1>1. \A s \in Client!Waiting(t) : tab[t].calls[s].me \in Client!MaybeUser
    BY RowTyped DEF Client!Waiting
  <1> QED BY <1>1 DEF Client!ShownAfterFailure, Client!MaybeUser

LEMMA RefreshRefusedKeeps ==
    ASSUME ClientBounds, SessionInv, NEW t \in Tabs, Client!RefreshRefused(t)
    PROVE  SessionInv'
  <1> USE DEF SessionInv
  <1>1. /\ tab[t].refreshing # NoUser /\ ~(clock < MaxClock) /\ Client!RoomForEvents(t)
        /\ events' = Client!EventsAfter(t, NoToken)
        /\ UNCHANGED <<goodbye, clock, faults, moves, history>>
    BY DEF Client!RefreshRefused, Client!RefreshAccepted
  <1>2. PICK u \in Client!ShownAfterFailure(t, NoUser) :
          /\ tab' = [tab EXCEPT ![t] = [Client!Ended(t, Client!Waiting(t), u) EXCEPT
                                          !.session = NoToken, !.refreshing = NoUser]]
          /\ store' = [Client!Cleared EXCEPT !.cached =
                         IF \E s \in Client!Waiting(t) : tab[t].calls[s].profile THEN u ELSE @]
    BY DEF Client!RefreshRefused
  <1>3. u \in Client!MaybeUser
    BY WhoTyped
  <1> DEFINE e == Client!Ended(t, Client!Waiting(t), u)
             r == [e EXCEPT !.session = NoToken, !.refreshing = NoUser]
  <1>4. /\ e \in TabRow
        /\ \A s \in Slots : e.calls[s] = IF s \in Client!Waiting(t) THEN Client!Idle
                                        ELSE tab[t].calls[s]
    BY <1>3, EndedRow DEF Typed
  <1>5. store' \in StoreRow
    <2>1. store' = [Client!Cleared EXCEPT !.cached = u] \/ store' = Client!Cleared
      BY <1>2 DEF Client!Cleared, Typed, StoreRow
    <2> QED BY <1>3, <2>1, Writes
  <1>6. tab' = [tab EXCEPT ![t] = r]
    BY <1>2
  <1> HIDE DEF e
  <1>7. r \in TabRow /\ r.calls = e.calls
    BY <1>4, Nones DEF TabRow
  <1> HIDE DEF r
  <1>8. \A s \in Slots : r.calls[s] = tab[t].calls[s] \/ r.calls[s] = Client!Idle
    BY <1>4, <1>7
  <1>9. ~Nobody
    BY <1>1 DEF Nobody, Pristine
  <1> QED BY <1>1, <1>5, <1>6, <1>7, <1>8, <1>9, SessionOver

LEMMA RefreshLostKeeps ==
    ASSUME ClientBounds, SessionInv, NEW t \in Tabs, Client!RefreshLost(t)
    PROVE  SessionInv'
  <1> USE DEF SessionInv
  <1> DEFINE known == {tab[t].calls[s].me : s \in Client!Waiting(t)} \ {NoUser}
  <1>1. /\ tab[t].refreshing # NoUser /\ faults > 0 /\ faults' = faults - 1
        /\ UNCHANGED <<events, goodbye, clock, moves, history>>
    BY DEF Client!RefreshLost
  <1>2. PICK u \in IF known = {} THEN {tab[t].user} ELSE known :
          /\ tab' = [tab EXCEPT ![t] = [Client!Ended(t, Client!Waiting(t), u) EXCEPT
                                           !.refreshing = NoUser]]
          /\ store' = [store EXCEPT !.cached = IF known = {} THEN @ ELSE u]
    BY DEF Client!RefreshLost
  <1>3. u \in Client!MaybeUser
    <2>1. \A s \in Client!Waiting(t) : tab[t].calls[s].me \in Client!MaybeUser
      BY RowTyped DEF Client!Waiting
    <2>2. tab[t].user \in Client!MaybeUser
      BY RowTyped
    <2> QED BY <1>2, <2>1, <2>2
  <1>4. PICK c \in Client!MaybeUser : store' = [store EXCEPT !.cached = c]
    BY <1>2, <1>3, StoreTyped DEF Typed, StoreRow
  <1> HIDE DEF known
  <1> DEFINE e == Client!Ended(t, Client!Waiting(t), u)
             r == [e EXCEPT !.refreshing = NoUser]
  <1>5. /\ e \in TabRow
        /\ \A s \in Slots : e.calls[s] = IF s \in Client!Waiting(t) THEN Client!Idle
                                        ELSE tab[t].calls[s]
    BY <1>3, EndedRow DEF Typed
  <1>6. tab' = [tab EXCEPT ![t] = r]
    BY <1>2
  <1> HIDE DEF e
  <1>7. r \in TabRow /\ r.calls = e.calls
    BY <1>5, Nones DEF TabRow
  <1> HIDE DEF r
  <1>8. Moves(t) /\ tab'[t] = r
    BY <1>6, <1>7, RowMoves DEF Typed
  <1>9. /\ store' \in StoreRow /\ store'.access = store.access
        /\ store'.refresh = store.refresh
    BY <1>4, Writes
  <1>10. Typed'
    BY <1>1, <1>8, <1>9, TypedKept DEF Typed, EventsTyped, Moves
  <1>11. CallsOK'
    BY <1>1, <1>5, <1>7, <1>8, Idles, CallsKept
  <1>12. ~Pristine(tab[t])
    BY <1>1 DEF Pristine
  <1>13. Stays'
    BY <1>1, <1>8, <1>9, <1>12, StaysKept
  <1> QED BY <1>10, <1>11, <1>13

-----------------------------------------------------------------------------
(***************************************************************************)
(* The user, and time.                                                     *)
(***************************************************************************)

LEMMA LoginKeeps ==
    ASSUME ClientBounds, SessionInv, NEW t \in Tabs, NEW u \in Users, NEW s \in Slots,
           Client!Login(t, u, s)
    PROVE  SessionInv'
  <1> USE DEF SessionInv
  <1> DEFINE x == Client!Fresh(u)
             c == [pc |-> "sent", bearer |-> x, profile |-> TRUE, me |-> NoUser]
  <1>1. /\ clock < MaxClock /\ moves > 0 /\ moves' = moves - 1 /\ Client!RoomForEvents(t)
        /\ store' = Client!StoreWith(u)
        /\ events' = Client!EventsAfter(t, x)
        /\ tab' = [tab EXCEPT ![t].user = u, ![t].session = x,
                              ![t].profiling = TRUE, ![t].calls[s] = c]
        /\ history' = [history EXCEPT !.entered = TRUE]
        /\ UNCHANGED <<goodbye, clock, faults>>
    BY DEF Client!Login
  <1>2. x \in Client!MaybeToken /\ x # NoToken /\ u \in Client!MaybeUser
    BY <1>1, FreshTyped
  <1> HIDE DEF x
  <1>3. c \in CallRow /\ CallOK(c)
    BY <1>2, Truths, Nones DEF CallRow, CallOK
  <1> HIDE DEF c
  <1>4. /\ TabsTyped' /\ \A o \in Tabs \ {t} : tab'[o] = tab[o]
        /\ tab'[t].calls = [tab[t].calls EXCEPT ![s] = c]
    <2> DEFINE f == [tab EXCEPT ![t].user = u]
    <2>1. f \in [Tabs -> TabRow]
      BY <1>2 DEF Typed, TabsTyped, TabRow
    <2>2. tab' = [f EXCEPT ![t].session = x, ![t].profiling = TRUE, ![t].calls[s] = c]
      BY <1>1 DEF Typed, TabsTyped, TabRow
    <2>3. \A o \in Tabs \ {t} : tab'[o] = tab[o]
      BY <1>1 DEF Typed, TabsTyped, TabRow
    <2>4. tab'[t].calls = [tab[t].calls EXCEPT ![s] = c]
      BY <1>1 DEF Typed, TabsTyped, TabRow
    <2> HIDE DEF f
    <2>5. [f EXCEPT ![t].session = x, ![t].profiling = TRUE, ![t].calls[s] = c]
             \in [Tabs -> TabRow]
      BY <1>2, <1>3, <2>1, ProfileEdit
    <2>6. TabsTyped'
      BY <2>2, <2>5, Zenon DEF TabsTyped
    <2> QED BY <2>3, <2>4, <2>6
  <1>5. CallsOK'
    BY <1>1, <1>3, <1>4, SlotTaken
  <1>6. store' \in StoreRow /\ Everybody'
    BY <1>1, Stores DEF Everybody
  <1>7. EventsTyped'
    BY <1>1, <1>2, Hears
  <1>8. /\ history' \in [entered : Truth, left : Truth]
        /\ history'.entered /\ history'.left = history.left
    BY <1>1, Truths DEF Typed
  <1>9. CountersTyped'
    BY <1>1 DEF ClientBounds, Typed, CountersTyped
  <1>10. Typed'
    BY <1>1, <1>4, <1>6, <1>7, <1>8, <1>9 DEF Typed
  <1>11. Stays'
    BY <1>1, <1>6, <1>8 DEF Stays
  <1> QED BY <1>5, <1>10, <1>11

LEMMA LogoutKeeps ==
    ASSUME ClientBounds, SessionInv, NEW t \in Tabs, Client!Logout(t)
    PROVE  SessionInv'
  <1> USE DEF SessionInv
  <1>1. /\ moves > 0 /\ moves' = moves - 1 /\ Client!RoomForEvents(t)
        /\ store' = Client!Cleared
        /\ events' = Client!EventsAfter(t, NoToken)
        /\ tab' = [tab EXCEPT ![t].session = NoToken, ![t].closing = TRUE]
        /\ goodbye' = goodbye \cup (Tabs \ {t})
        /\ history' = [history EXCEPT !.left = TRUE]
        /\ UNCHANGED <<clock, faults>>
    BY DEF Client!Logout
  <1>2. Moves(t) /\ tab'[t].calls = tab[t].calls
    BY <1>1, Truths, Nones DEF Typed, TabsTyped, TabRow, Moves
  <1>3. EventsTyped' /\ store' \in StoreRow
    BY <1>1, Hears, Nones, Writes
  <1>4. history' \in [entered : Truth, left : Truth] /\ history'.left
    BY <1>1, Truths DEF Typed
  <1>5. CountersTyped'
    BY <1>1 DEF ClientBounds, Typed, CountersTyped
  <1>6. Typed'
    BY <1>1, <1>2, <1>3, <1>4, <1>5 DEF Typed, Moves
  <1>7. CallsOK'
    BY <1>1, <1>2, CallsKept
  <1>8. Stays'
    BY <1>4 DEF Stays
  <1> QED BY <1>6, <1>7, <1>8

LEMMA LogoutAnsweredKeeps ==
    ASSUME ClientBounds, SessionInv, NEW t \in Tabs, Client!LogoutAnswered(t)
    PROVE  SessionInv'
  <1> USE DEF SessionInv
  <1>1. /\ tab' = [tab EXCEPT ![t].user = NoUser, ![t].closing = FALSE]
        /\ store' = [store EXCEPT !.cached = NoUser]
        /\ UNCHANGED <<events, goodbye, clock, faults, moves, history>>
    BY DEF Client!LogoutAnswered
  <1>2. /\ Moves(t) /\ tab'[t].calls = tab[t].calls
        /\ tab'[t].user = NoUser /\ tab'[t].refreshing = tab[t].refreshing
    BY <1>1, Truths, Nones DEF Typed, TabsTyped, TabRow, Moves
  <1>3. /\ store' \in StoreRow /\ store'.access = store.access
        /\ store'.refresh = store.refresh
    BY <1>1, Nones, Writes
  <1>4. Typed'
    BY <1>1, <1>2, <1>3, TypedKept DEF Typed, EventsTyped, Moves
  <1>5. CallsOK'
    BY <1>1, <1>2, CallsKept
  <1>6. Stays'
    BY <1>1, <1>2, <1>3, StaysKept DEF Pristine
  <1> QED BY <1>4, <1>5, <1>6

LEMMA LogoutHeardKeeps ==
    ASSUME ClientBounds, SessionInv, NEW t \in Tabs, Client!LogoutHeard(t)
    PROVE  SessionInv'
  <1> USE DEF SessionInv
  <1>1. /\ t \in goodbye /\ goodbye' = goodbye \ {t} /\ Client!RoomForEvents(t)
        /\ store' = Client!Cleared
        /\ events' = Client!EventsAfter(t, NoToken)
        /\ tab' = [tab EXCEPT ![t].user = NoUser, ![t].session = NoToken]
        /\ UNCHANGED <<clock, faults, moves, history>>
    BY DEF Client!LogoutHeard
  <1>2. Moves(t) /\ tab'[t].calls = tab[t].calls
    BY <1>1, Nones DEF Typed, TabsTyped, TabRow, Moves
  <1>3. EventsTyped' /\ store' \in StoreRow
    BY <1>1, Hears, Nones, Writes
  <1>4. Typed'
    BY <1>1, <1>2, <1>3, TypedKept DEF Typed, Moves
  <1>5. CallsOK'
    BY <1>1, <1>2, CallsKept
  <1>6. Stays'
    BY <1>1 DEF Stays
  <1> QED BY <1>4, <1>5, <1>6

LEMMA StorageHeardKeeps ==
    ASSUME ClientBounds, SessionInv, NEW t \in Tabs, Client!StorageHeard(t)
    PROVE  SessionInv'
  <1> USE DEF SessionInv
  <1>1. /\ events[t] # <<>>
        /\ tab' = [tab EXCEPT ![t].session = Head(events[t])]
        /\ events' = [events EXCEPT ![t] = Tail(@)]
        /\ UNCHANGED <<store, goodbye, clock, faults, moves, history>>
    BY DEF Client!StorageHeard
  <1>2. events[t] \in Seq(Client!MaybeToken)
    BY DEF Typed, EventsTyped
  <1>3. /\ Head(events[t]) \in Client!MaybeToken /\ Tail(events[t]) \in Seq(Client!MaybeToken)
        /\ Len(Tail(events[t])) <= Len(events[t])
        /\ Len(events[t]) \in Nat /\ Len(Tail(events[t])) \in Nat
    BY <1>1, <1>2
  <1>4. EventsTyped'
    <2>1. \A o \in Tabs : events'[o] = IF o = t THEN Tail(events[t]) ELSE events[o]
      BY <1>1 DEF Typed, EventsTyped
    <2>2. events' \in [Tabs -> Seq(Client!MaybeToken)]
      BY <1>1, <1>3 DEF Typed, EventsTyped
    <2>3. ASSUME NEW o \in Tabs
          PROVE  Len(events'[o]) <= MaxHeard
      <3>1. Len(events[o]) <= MaxHeard /\ Len(events[t]) <= MaxHeard /\ MaxHeard \in Nat
        BY DEF ClientBounds, Typed, EventsTyped
      <3>2. CASE o = t
        <4> DEFINE rest == Tail(events[t])
        <4>1. events'[o] = rest
          BY <2>1, <3>2
        <4>2. Len(rest) <= Len(events[t]) /\ Len(rest) \in Nat /\ Len(events[t]) \in Nat
          BY <1>3
        <4> HIDE DEF rest
        <4> QED BY <3>1, <4>1, <4>2
      <3>3. CASE o # t
        BY <2>1, <3>1, <3>3
      <3> QED BY <3>2, <3>3
    <2> QED BY <2>2, <2>3 DEF EventsTyped
  <1>5. /\ Moves(t) /\ tab'[t].calls = tab[t].calls
        /\ tab'[t].user = tab[t].user /\ tab'[t].refreshing = tab[t].refreshing
    BY <1>1, <1>3 DEF Typed, TabsTyped, TabRow, Moves
  <1>6. Typed'
    BY <1>1, <1>4, <1>5, TypedKept DEF Typed, Moves
  <1>7. CallsOK'
    BY <1>1, <1>5, CallsKept
  <1>8. Stays'
    BY <1>1, <1>5, StaysKept DEF Pristine
  <1> QED BY <1>6, <1>7, <1>8

LEMMA ReloadKeeps ==
    ASSUME ClientBounds, SessionInv, NEW t \in Tabs, Client!Reload(t)
    PROVE  SessionInv'
  <1> USE DEF SessionInv
  <1> DEFINE x == Client!ChosenToken(t)
             c == Client!Sent(t, TRUE, NoUser)
             k == [o \in Slots |-> IF o = 1 /\ x # NoToken THEN c ELSE Client!Idle]
             u == IF x = NoToken THEN NoUser ELSE store.cached
             r == [user |-> u, session |-> x, refreshing |-> NoUser,
                   profiling |-> TRUE, closing |-> FALSE, calls |-> k]
  <1>1. /\ moves > 0 /\ moves' = moves - 1
        /\ tab' = [tab EXCEPT ![t] = r]
        /\ store' = [store EXCEPT !.cached = IF x = NoToken THEN NoUser ELSE @]
        /\ events' = [events EXCEPT ![t] = <<>>]
        /\ goodbye' = goodbye \ {t}
        /\ UNCHANGED <<clock, faults, history>>
    BY DEF Client!Reload
  <1>2. /\ x \in Client!MaybeToken /\ u \in Client!MaybeUser
        /\ (store.access = NoToken => x = NoToken)
    BY ChosenTyped, StoreTyped, Nones
  <1>3. x # NoToken => c \in CallRow /\ CallOK(c)
    BY SentTyped, Truths, Nones
  <1>4. PICK v \in Client!MaybeUser : store' = [store EXCEPT !.cached = v]
    BY <1>1, StoreTyped, Nones DEF Typed, StoreRow
  <1> HIDE DEF x, c
  <1>5. /\ k \in [Slots -> CallRow]
        /\ \A o \in Slots : CallOK(k[o])
        /\ x = NoToken => \A o \in Slots : k[o].pc = "idle"
    BY <1>3, Idles
  <1> HIDE DEF k, u
  <1>7. r \in TabRow /\ r.calls = k /\ r.user = u /\ r.refreshing = NoUser
    BY <1>2, <1>5, Truths, Nones DEF TabRow
  <1> HIDE DEF r
  <1>8. Moves(t) /\ tab'[t] = r
    BY <1>1, <1>7, RowMoves DEF Typed
  <1>9. /\ store' \in StoreRow /\ store'.access = store.access
        /\ store'.refresh = store.refresh
    BY <1>4, Writes
  <1>10. EventsTyped'
    <2>1. <<>> \in Seq(Client!MaybeToken) /\ Len(<<>>) = 0
      OBVIOUS
    <2> QED BY <1>1, <2>1 DEF ClientBounds, Typed, EventsTyped
  <1>11. Typed'
    BY <1>1, <1>8, <1>9, <1>10, TypedKept DEF Typed, Moves
  <1>12. CallsOK'
    BY <1>1, <1>5, <1>7, <1>8, CallsKept
  <1>13. store.access = NoToken => Pristine(tab'[t])
    BY <1>2, <1>5, <1>7, <1>8 DEF Pristine, u
  <1>14. Stays'
    BY <1>1, <1>8, <1>9, <1>13, StaysKept
  <1> QED BY <1>11, <1>12, <1>14

LEMMA TickKeeps ==
    ASSUME ClientBounds, SessionInv, Client!Tick
    PROVE  SessionInv'
  <1> USE DEF SessionInv
  <1>1. /\ clock < MaxClock /\ clock' = clock + 1
        /\ \A t \in Tabs, s \in Slots : tab[t].calls[s].pc # "retried"
        /\ UNCHANGED <<store, tab, events, goodbye, faults, moves, history>>
    BY DEF Client!Tick
  <1>2. CountersTyped' /\ (clock' < MaxClock => clock < MaxClock)
    BY <1>1 DEF ClientBounds, Typed, CountersTyped
  <1>3. Typed'
    BY <1>1, <1>2 DEF Typed, TabsTyped, EventsTyped
  <1>4. CallsOK'
    BY <1>1 DEF CallsOK, CallOK
  <1>5. Stays'
    BY <1>1, <1>2 DEF Stays, Nobody, Everybody, Pristine
  <1> QED BY <1>3, <1>4, <1>5

LEMMA SessionStarts == ASSUME ClientBounds PROVE Client!Init => SessionInv
  <1> SUFFICES ASSUME Client!Init PROVE SessionInv
    OBVIOUS
  <1>1. PICK u \in Client!MaybeUser :
          LET mark == IF u = NoUser THEN NoToken ELSE [user |-> u, exp |-> 1] IN
          /\ store = [access |-> mark, refresh |-> u, cached |-> u]
          /\ tab = [t \in Tabs |->
                      [user |-> u, session |-> mark, refreshing |-> NoUser,
                       profiling |-> u = NoUser, closing |-> FALSE,
                       calls |-> [s \in Slots |-> Client!Idle]]]
          /\ history = [entered |-> u # NoUser, left |-> FALSE]
          /\ moves = IF u = NoUser THEN MaxMoves ELSE MaxMoves - 1
    BY DEF Client!Init
  <1>2. /\ events = [t \in Tabs |-> <<>>] /\ goodbye = {} /\ clock = 0 /\ faults = MaxLost
    BY DEF Client!Init
  <1> DEFINE mark == IF u = NoUser THEN NoToken ELSE [user |-> u, exp |-> 1]
             k == [s \in Slots |-> Client!Idle]
             p == u = NoUser
             r == [user |-> u, session |-> mark, refreshing |-> NoUser,
                   profiling |-> p, closing |-> FALSE, calls |-> k]
             e == u # NoUser
  <1>3. /\ store = [access |-> mark, refresh |-> u, cached |-> u]
        /\ tab = [t \in Tabs |-> r]
        /\ history = [entered |-> e, left |-> FALSE]
    BY <1>1
  <1>4. mark \in Client!MaybeToken /\ (u # NoUser => mark # NoToken)
        /\ (u = NoUser => mark = NoToken)
    <2>1. CASE u = NoUser
      BY <2>1, Nones
    <2>2. CASE u # NoUser
      <3>1. 1 \in 1..MaxClock /\ u \in Users
        BY <2>2 DEF ClientBounds, Client!MaybeUser
      <3>2. mark \in Client!AccessToken
        BY <2>2, <3>1 DEF Client!AccessToken
      <3> QED BY <2>2, <3>2 DEF ClientBounds, Client!MaybeToken, Client!AccessToken
    <2> QED BY <2>1, <2>2
  <1>5. k \in [Slots -> CallRow] /\ \A s \in Slots : k[s] = Client!Idle
    BY Idles
  <1>6. e \in Truth /\ p \in Truth
    BY Zenon DEF Truth
  <1>7. moves \in 0..MaxMoves
    BY <1>1 DEF ClientBounds
  <1> HIDE DEF mark, k, p
  <1>8. /\ r \in TabRow /\ r.user = u /\ r.refreshing = NoUser /\ r.calls = k
    BY <1>4, <1>5, <1>6, Truths, Nones DEF TabRow
  <1> HIDE DEF r
  <1>9. TabsTyped
    BY <1>3, <1>8 DEF TabsTyped
  <1>10. EventsTyped
    <2>1. <<>> \in Seq(Client!MaybeToken) /\ Len(<<>>) = 0
      OBVIOUS
    <2> QED BY <1>2, <2>1 DEF ClientBounds, EventsTyped
  <1>11. CountersTyped
    BY <1>2, <1>7 DEF ClientBounds, CountersTyped
  <1>12. store \in StoreRow
    BY <1>3, <1>4 DEF StoreRow
  <1>13. history.left = FALSE /\ history.entered = e
    BY <1>3
  <1>14. history \in [entered : Truth, left : Truth]
    <2> HIDE DEF e
    <2> QED BY <1>3, <1>6, Truths
  <1>15. Typed
    BY <1>2, <1>9, <1>10, <1>11, <1>12, <1>14 DEF Typed
  <1>16. CallsOK
    BY <1>3, <1>5, <1>8, Idles DEF CallsOK
  <1>17. Stays
    <2>1. u # NoUser => Everybody
      BY <1>3, <1>4 DEF Everybody
    <2>2. u = NoUser => Nobody
      BY <1>3, <1>4, <1>5, <1>8, Idles DEF Nobody, Pristine
    <2> QED BY <1>2, <1>13, <2>1, <2>2 DEF Stays
  <1> QED BY <1>15, <1>16, <1>17 DEF SessionInv

LEMMA SessionStep ==
    ASSUME ClientBounds, SessionInv, [Client!Next]_Client!vars
    PROVE  SessionInv'
  <1>1. ASSUME NEW t \in Tabs, NEW s \in Slots,
               \/ Client!StartProfile(t, s) \/ Client!StartCall(t, s)
               \/ Client!Settle(t, s) \/ Client!AnswerLost(t, s)
               \/ \E u \in Users : Client!Login(t, u, s)
        PROVE  SessionInv'
    BY <1>1, StartProfileKeeps, StartCallKeeps, AnswerAcceptedKeeps,
       AnswerUnauthorizedKeeps, AnswerEndsSessionKeeps, AnswerLostKeeps, LoginKeeps
       DEF Client!Settle
  <1>2. ASSUME NEW t \in Tabs,
               \/ Client!Reload(t) \/ Client!RefreshAhead(t)
               \/ Client!RefreshSettles(t) \/ Client!RefreshLost(t)
               \/ Client!Logout(t) \/ Client!LogoutAnswered(t)
               \/ Client!LogoutHeard(t) \/ Client!StorageHeard(t)
        PROVE  SessionInv'
    BY <1>2, ReloadKeeps, AheadKeeps, RefreshAnsweredKeeps, RefreshRefusedKeeps,
       RefreshLostKeeps, LogoutKeeps, LogoutAnsweredKeeps, LogoutHeardKeeps,
       StorageHeardKeeps DEF Client!RefreshSettles
  <1>3. CASE UNCHANGED Client!vars
    BY <1>3 DEF Client!vars, SessionInv, Typed, TabsTyped, EventsTyped, CountersTyped,
       CallsOK,
       CallOK, Client!Expired, Stays, Nobody, Everybody, Pristine
  <1> QED BY <1>1, <1>2, <1>3, TickKeeps DEF Client!Next

LEMMA SessionAlways ==
    ASSUME ClientBounds
    PROVE  Client!Spec => []SessionInv
  <1>1. SessionInv /\ [Client!Next]_Client!vars => SessionInv'
    BY SessionStep
  <1> QED BY <1>1, SessionStarts, PTL DEF Client!Spec

LEMMA TypedIsTypeOK ==
    ASSUME ClientBounds
    PROVE  SessionInv => Client!TypeOK
  <1>1. SessionInv => Typed
    BY DEF SessionInv
  <1>2. /\ TabRow = Client!TabState
        /\ [entered : Truth, left : Truth] = [entered : BOOLEAN, left : BOOLEAN]
    BY Zenon DEF Client!TabState, TabRow, Client!Call, CallRow, Truth
  <1>3. SessionInv => /\ tab \in [Tabs -> Client!TabState]
                      /\ history \in [entered : BOOLEAN, left : BOOLEAN]
    BY <1>1, <1>2, Zenon DEF Typed, TabsTyped
  <1>4. SessionInv => \A t \in Tabs : /\ events[t] \in Seq(Client!MaybeToken)
                                     /\ Len(events[t]) <= MaxHeard
    BY <1>1 DEF Typed, EventsTyped
  <1> QED BY <1>1, <1>3, <1>4, Zenon DEF Typed, CountersTyped, StoreRow, Client!TypeOK

\* Every variable of Session keeps its type.
THEOREM SessionTypeCorrect ==
    ASSUME ClientBounds
    PROVE  Client!Spec => []Client!TypeOK
  BY SessionAlways, TypedIsTypeOK, PTL

\* Nobody is logged out by accident.
THEOREM SessionKeptCorrect ==
    ASSUME ClientBounds
    PROVE  Client!Spec => []Client!SessionKept
  <1>1. SessionInv => Client!SessionKept
    BY DEF SessionInv, Stays, Everybody, Client!SessionKept
  <1> QED BY <1>1, SessionAlways, PTL

-----------------------------------------------------------------------------
(***************************************************************************)
(* Nobody waits in vain.                                                   *)
(***************************************************************************)

RowFlows(r) ==
    /\ \A s \in Slots : r.calls[s].pc = "waiting" => r.refreshing # NoUser
    /\ r.profiling /\ r.user # NoUser
          => \E s \in Slots : r.calls[s].pc # "idle" /\ r.calls[s].profile

Flows == \A t \in Tabs : RowFlows(tab[t])

\* Only the tab t changes, to a row that flows.
LEMMA FlowsMove ==
    ASSUME Flows, TabsTyped, NEW t \in Tabs, NEW r, tab' = [tab EXCEPT ![t] = r], RowFlows(r)
    PROVE  Flows'
  <1>1. \A o \in Tabs : tab'[o] = IF o = t THEN r ELSE tab[o]
    BY DEF TabsTyped
  <1>2. ASSUME NEW o \in Tabs
        PROVE  RowFlows(tab'[o])
    BY <1>1, <1>2 DEF Flows
  <1>3. \A o \in Tabs : RowFlows(tab[o])' <=> RowFlows(tab'[o])
    BY DEF RowFlows
  <1> QED BY <1>2, <1>3 DEF Flows

\* A tab whose user, calls, refresh and profile refresh stay flows on.
LEMMA SameFlow ==
    ASSUME NEW r, NEW q, RowFlows(r), q.calls = r.calls, q.refreshing = r.refreshing,
           q.profiling = r.profiling, q.user = r.user
    PROVE  RowFlows(q)
  BY DEF RowFlows

\* A request is sent: it waits for nothing.
LEMMA SentFlows ==
    ASSUME ClientBounds, Typed, Flows, NEW t \in Tabs, NEW s \in Slots, NEW x,
           NEW c, c.pc = "sent",
           tab[t].calls[s].profile => c.profile \/ tab[t].calls[s].pc = "idle",
           tab' = [tab EXCEPT ![t].session = x, ![t].calls[s] = c]
    PROVE  Flows'
  <1> DEFINE k == [tab[t].calls EXCEPT ![s] = c]
             r == [tab[t] EXCEPT !.session = x, !.calls = k]
  <1>1. tab[t].calls \in [Slots -> CallRow] /\ tab[t] \in TabRow
    BY DEF Typed, TabsTyped, TabRow
  <1>2. tab' = [tab EXCEPT ![t] = r]
    BY <1>1 DEF TabRow, Typed, TabsTyped
  <1>3. /\ r.calls = k /\ r.refreshing = tab[t].refreshing
        /\ r.profiling = tab[t].profiling /\ r.user = tab[t].user
    BY <1>1 DEF TabRow
  <1>4. \A o \in Slots : k[o] = IF o = s THEN c ELSE tab[t].calls[o]
    BY <1>1
  <1> HIDE DEF k, r
  <1>5. \A o \in Slots : r.calls[o].pc = "waiting" => r.refreshing # NoUser
    BY <1>3, <1>4 DEF Flows, RowFlows
  <1>6. ASSUME r.profiling, r.user # NoUser
        PROVE  \E o \in Slots : r.calls[o].pc # "idle" /\ r.calls[o].profile
    <2>1. PICK o \in Slots : tab[t].calls[o].pc # "idle" /\ tab[t].calls[o].profile
      BY <1>3, <1>6 DEF Flows, RowFlows
    <2>2. r.calls[o].pc # "idle" /\ r.calls[o].profile
      BY <1>3, <1>4, <2>1
    <2> QED BY <2>2
  <1>7. RowFlows(r)
    BY <1>5, <1>6 DEF RowFlows
  <1> QED BY <1>2, <1>7, FlowsMove DEF Typed

\* A profile refresh is sent.
LEMMA ProfileFlows ==
    ASSUME ClientBounds, Typed, Flows, NEW t \in Tabs, NEW s \in Slots, NEW x, NEW u,
           NEW c, c.pc = "sent", c.profile,
           \/ tab' = [tab EXCEPT ![t].session = x, ![t].profiling = TRUE, ![t].calls[s] = c]
           \/ tab' = [tab EXCEPT ![t].user = u, ![t].session = x, ![t].profiling = TRUE,
                                 ![t].calls[s] = c]
    PROVE  Flows'
  <1> DEFINE k == [tab[t].calls EXCEPT ![s] = c]
  <1>1. tab[t].calls \in [Slots -> CallRow] /\ tab[t] \in TabRow
    BY DEF Typed, TabsTyped, TabRow
  <1>2. PICK r : /\ tab' = [tab EXCEPT ![t] = r]
                 /\ r.calls = k /\ r.refreshing = tab[t].refreshing
    <2>1. CASE tab' = [tab EXCEPT ![t].session = x, ![t].profiling = TRUE, ![t].calls[s] = c]
      <3> DEFINE r == [tab[t] EXCEPT !.session = x, !.profiling = TRUE, !.calls = k]
      <3>1. tab' = [tab EXCEPT ![t] = r]
        BY <1>1, <2>1 DEF TabRow, Typed, TabsTyped
      <3>2. r.calls = k /\ r.refreshing = tab[t].refreshing
        BY <1>1 DEF TabRow
      <3> HIDE DEF r, k
      <3> QED BY <3>1, <3>2
    <2>2. CASE tab' = [tab EXCEPT ![t].user = u, ![t].session = x, ![t].profiling = TRUE,
                                  ![t].calls[s] = c]
      <3> DEFINE r == [tab[t] EXCEPT !.user = u, !.session = x, !.profiling = TRUE,
                                     !.calls = k]
      <3>1. tab' = [tab EXCEPT ![t] = r]
        BY <1>1, <2>2 DEF TabRow, Typed, TabsTyped
      <3>2. r.calls = k /\ r.refreshing = tab[t].refreshing
        BY <1>1 DEF TabRow
      <3> HIDE DEF r, k
      <3> QED BY <3>1, <3>2
    <2> QED BY <2>1, <2>2
  <1>3. \A o \in Slots : k[o] = IF o = s THEN c ELSE tab[t].calls[o]
    BY <1>1
  <1> HIDE DEF k
  <1>4. RowFlows(r)
    BY <1>2, <1>3 DEF Flows, RowFlows
  <1> QED BY <1>2, <1>4, FlowsMove DEF Typed

\* Calls end, those that waited only with the refresh they waited for.  Who is shown
\* changes only with a profile refresh among them.
LEMMA EndedFlows ==
    ASSUME ClientBounds, Typed, Flows, NEW t \in Tabs, NEW done, NEW u \in Client!MaybeUser,
           u \in {tab[t].user, NoUser} \/ \E s \in done : tab[t].calls[s].profile
    PROVE  /\ RowFlows(Client!Ended(t, done, u))
           /\ Client!Waiting(t) \subseteq done =>
                 \A s \in Slots : Client!Ended(t, done, u).calls[s].pc # "waiting"
  <1> DEFINE p == tab[t].profiling /\ ~ \E s \in done : tab[t].calls[s].profile
             e == Client!Ended(t, done, u)
  <1>1. /\ e.refreshing = tab[t].refreshing /\ e.user = u
        /\ \A s \in Slots : e.calls[s] = IF s \in done THEN Client!Idle ELSE tab[t].calls[s]
    BY EndedRow DEF Typed
  <1>2. e.profiling = p
    BY DEF Client!Ended, Typed, TabsTyped, TabRow
  <1>3. Client!Idle.pc = "idle"
    BY DEF Client!Idle
  <1> HIDE DEF e
  <1>4. ASSUME e.profiling, e.user # NoUser
        PROVE  \E s \in Slots : e.calls[s].pc # "idle" /\ e.calls[s].profile
    <2>1. tab[t].profiling /\ \A s \in done : ~tab[t].calls[s].profile
      BY <1>2, <1>4, Zenon
    <2>2. PICK s \in Slots : tab[t].calls[s].pc # "idle" /\ tab[t].calls[s].profile
      BY <1>1, <1>4, <2>1 DEF Flows, RowFlows
    <2>3. s \notin done
      BY <2>1, <2>2
    <2> QED BY <1>1, <2>2, <2>3
  <1>5. \A s \in Slots : e.calls[s].pc = "waiting" => e.refreshing # NoUser
    BY <1>1, <1>3 DEF Flows, RowFlows
  <1>6. Client!Waiting(t) \subseteq done => \A s \in Slots : e.calls[s].pc # "waiting"
    BY <1>1, <1>3 DEF Client!Waiting
  <1> QED BY <1>4, <1>5, <1>6 DEF RowFlows, e

\* The refresh ends, and nobody waits for it any more.
LEMMA RefreshEnds ==
    ASSUME ClientBounds, Typed, Flows, NEW t \in Tabs, NEW e \in TabRow, RowFlows(e),
           \A s \in Slots : e.calls[s].pc # "waiting",
           \/ tab' = [tab EXCEPT ![t] = [e EXCEPT !.refreshing = NoUser]]
           \/ tab' = [tab EXCEPT ![t] = [e EXCEPT !.session = NoToken, !.refreshing = NoUser]]
    PROVE  Flows'
  <1>1. PICK r : /\ tab' = [tab EXCEPT ![t] = r]
                 /\ r.calls = e.calls /\ r.profiling = e.profiling /\ r.user = e.user
    <2>1. /\ [e EXCEPT !.refreshing = NoUser].calls = e.calls
          /\ [e EXCEPT !.refreshing = NoUser].profiling = e.profiling
          /\ [e EXCEPT !.refreshing = NoUser].user = e.user
          /\ [e EXCEPT !.session = NoToken, !.refreshing = NoUser].calls = e.calls
          /\ [e EXCEPT !.session = NoToken, !.refreshing = NoUser].profiling = e.profiling
          /\ [e EXCEPT !.session = NoToken, !.refreshing = NoUser].user = e.user
      BY DEF TabRow
    <2> QED BY <2>1
  <1>2. RowFlows(r)
    BY <1>1 DEF RowFlows
  <1> QED BY <1>1, <1>2, FlowsMove DEF Typed

\* What waited is retried.
LEMMA AnsweredFlows ==
    ASSUME ClientBounds, Typed, Flows, NEW t \in Tabs, Client!RefreshAnswered(t)
    PROVE  Flows'
  <1> DEFINE x == Client!Fresh(tab[t].refreshing)
             k == [s \in Slots |-> IF s \in Client!Waiting(t)
                     THEN [tab[t].calls[s] EXCEPT !.pc = "retried", !.bearer = x]
                     ELSE tab[t].calls[s]]
             r == [tab[t] EXCEPT !.session = x, !.refreshing = NoUser, !.calls = k]
  <1>1. tab' = [tab EXCEPT ![t] = r]
    BY DEF Client!RefreshAnswered, Typed, TabsTyped, TabRow
  <1>2. r.calls = k /\ r.profiling = tab[t].profiling /\ r.user = tab[t].user
    BY DEF Typed, TabsTyped, TabRow
  <1>3. ASSUME NEW s \in Slots
        PROVE  /\ k[s].pc # "waiting"
               /\ tab[t].calls[s].pc # "idle" => k[s].pc # "idle"
               /\ tab[t].calls[s].profile => k[s].profile
    BY RowTyped DEF CallRow, Client!Waiting
  <1> HIDE DEF k, r
  <1>4. RowFlows(r)
    BY <1>2, <1>3 DEF Flows, RowFlows
  <1> QED BY <1>1, <1>4, FlowsMove DEF Typed

\* A first 401 waits for the refresh that runs, or for the one it begins.
LEMMA UnauthorizedFlows ==
    ASSUME ClientBounds, Typed, Flows, NEW t \in Tabs, NEW s \in Slots,
           Client!AnswerUnauthorized(t, s)
    PROVE  Flows'
  <1> DEFINE v == IF tab[t].refreshing # NoUser THEN tab[t].refreshing ELSE store.refresh
             c == [tab[t].calls[s] EXCEPT !.pc = "waiting"]
             k == [tab[t].calls EXCEPT ![s] = c]
             r == [tab[t] EXCEPT !.calls = k, !.refreshing = v]
  <1>1. tab[t].calls[s].pc = "sent" /\ v # NoUser
    BY DEF Client!AnswerUnauthorized
  <1>2. tab' = [tab EXCEPT ![t] = r]
    BY DEF Client!AnswerUnauthorized, Typed, TabsTyped, TabRow
  <1>3. /\ r.calls = k /\ r.refreshing = v /\ r.profiling = tab[t].profiling
        /\ r.user = tab[t].user
    BY DEF Typed, TabsTyped, TabRow
  <1>4. \A o \in Slots : k[o] = IF o = s THEN c ELSE tab[t].calls[o]
    BY DEF Typed, TabsTyped, TabRow
  <1>5. c.pc = "waiting" /\ c.profile = tab[t].calls[s].profile
    BY RowTyped DEF CallRow
  <1> HIDE DEF v, c, k, r
  <1>6. RowFlows(r)
    BY <1>1, <1>3, <1>4, <1>5 DEF Flows, RowFlows
  <1> QED BY <1>2, <1>6, FlowsMove DEF Typed

\* A page loaded anew has nothing in flight but its first profile refresh.
LEMMA ReloadFlows ==
    ASSUME ClientBounds, Typed, Flows, NEW t \in Tabs, Client!Reload(t)
    PROVE  Flows'
  <1> DEFINE x == Client!ChosenToken(t)
             c == Client!Sent(t, TRUE, NoUser)
             k == [o \in Slots |-> IF o = 1 /\ x # NoToken THEN c ELSE Client!Idle]
             u == IF x = NoToken THEN NoUser ELSE store.cached
             r == [user |-> u, session |-> x, refreshing |-> NoUser,
                   profiling |-> TRUE, closing |-> FALSE, calls |-> k]
  <1>1. tab' = [tab EXCEPT ![t] = r]
    BY DEF Client!Reload
  <1>2. c.pc = "sent" /\ c.profile /\ Client!Idle.pc = "idle" /\ 1 \in Slots
    BY DEF Client!Sent, Client!Idle, ClientBounds
  <1>a. u # NoUser => x # NoToken
    OBVIOUS
  <1> HIDE DEF x, c, u
  <1>3. /\ \A o \in Slots : k[o].pc # "waiting"
        /\ x # NoToken => k[1].pc # "idle" /\ k[1].profile
    BY <1>2
  <1> HIDE DEF k
  <1>5. r.calls = k /\ r.user = u
    OBVIOUS
  <1> HIDE DEF r
  <1>6. RowFlows(r)
    BY <1>2, <1>3, <1>a, <1>5 DEF RowFlows
  <1> QED BY <1>1, <1>6, FlowsMove DEF Typed

\* The edits of a tab that leave its requests alone and may forget its user.
LEMMA EditFlows ==
    ASSUME ClientBounds, Typed, Flows, NEW t \in Tabs, NEW x, NEW b,
           \/ tab' = [tab EXCEPT ![t].user = NoUser, ![t].session = x]
           \/ tab' = [tab EXCEPT ![t].user = NoUser, ![t].session = x, ![t].profiling = TRUE]
           \/ tab' = [tab EXCEPT ![t].session = x, ![t].closing = b]
           \/ tab' = [tab EXCEPT ![t].user = NoUser, ![t].closing = b]
           \/ tab' = [tab EXCEPT ![t].session = x]
    PROVE  Flows'
  <1>1. \A o \in Tabs : /\ tab'[o].calls = tab[o].calls
                        /\ tab'[o].refreshing = tab[o].refreshing
                        /\ \/ tab'[o].user = NoUser
                           \/ /\ tab'[o].user = tab[o].user
                              /\ tab'[o].profiling = tab[o].profiling
    <2>1. tab \in [Tabs -> TabRow]
      BY DEF Typed, TabsTyped
    <2>2. CASE tab' = [tab EXCEPT ![t].user = NoUser, ![t].session = x]
      BY <2>1, <2>2 DEF TabRow
    <2>3. CASE tab' = [tab EXCEPT ![t].user = NoUser, ![t].session = x, ![t].profiling = TRUE]
      <3> DEFINE r == [tab[t] EXCEPT !.user = NoUser, !.session = x, !.profiling = TRUE]
      <3>1. tab' = [tab EXCEPT ![t] = r]
        BY <2>1, <2>3 DEF TabRow
      <3>2. r.calls = tab[t].calls /\ r.refreshing = tab[t].refreshing /\ r.user = NoUser
        BY <2>1 DEF TabRow
      <3> HIDE DEF r
      <3> QED BY <2>1, <3>1, <3>2
    <2>4. CASE tab' = [tab EXCEPT ![t].session = x, ![t].closing = b]
      BY <2>1, <2>4 DEF TabRow
    <2>5. CASE tab' = [tab EXCEPT ![t].user = NoUser, ![t].closing = b]
      BY <2>1, <2>5 DEF TabRow
    <2>6. CASE tab' = [tab EXCEPT ![t].session = x]
      BY <2>1, <2>6 DEF TabRow
    <2> QED BY <2>2, <2>3, <2>4, <2>5, <2>6
  <1> QED BY <1>1 DEF Flows, RowFlows

\* The event stream refreshes ahead of time.
LEMMA AheadFlows ==
    ASSUME ClientBounds, Typed, Flows, NEW t \in Tabs, Client!RefreshAhead(t)
    PROVE  Flows'
  <1>1. CASE store.refresh # NoUser
    <2>1. tab' = [tab EXCEPT ![t].refreshing = store.refresh]
      BY <1>1 DEF Client!RefreshAhead
    <2>2. \A o \in Tabs : /\ tab'[o].calls = tab[o].calls
                          /\ tab'[o].refreshing \in {tab[o].refreshing, store.refresh}
                          /\ tab'[o].profiling = tab[o].profiling
                          /\ tab'[o].user = tab[o].user
      BY <2>1 DEF Typed, TabsTyped, TabRow
    <2> QED BY <1>1, <2>2 DEF Flows, RowFlows
  <1>2. CASE store.refresh = NoUser
    BY <1>2, EditFlows DEF Client!RefreshAhead
  <1> QED BY <1>1, <1>2

\* Requests end, alone or with the refresh they waited for.
LEMMA AnswersFlow ==
    ASSUME ClientBounds, Typed, CallsOK, Flows, NEW t \in Tabs, NEW s \in Slots,
           \/ Client!AnswerAccepted(t, s) \/ Client!AnswerLost(t, s)
           \/ Client!AnswerEndsSession(t, s)
    PROVE  Flows'
  <1> DEFINE call == tab[t].calls[s]
  <1>1. /\ call.me \in Client!MaybeUser /\ tab[t].user \in Client!MaybeUser
        /\ call.me # NoUser => call.profile
    BY RowTyped DEF CallsOK, CallOK
  <1>2. CASE tab' = [tab EXCEPT ![t].session = Client!ChosenToken(t),
                                ![t].calls[s] = Client!Sent(t, TRUE, call.bearer.user)]
    <2> DEFINE c == Client!Sent(t, TRUE, call.bearer.user)
    <2>1. c.pc = "sent" /\ c.profile
      BY DEF Client!Sent
    <2> HIDE DEF c
    <2>2. tab' = [tab EXCEPT ![t].session = Client!ChosenToken(t), ![t].calls[s] = c]
      BY <1>2 DEF c
    <2> QED BY <2>1, <2>2, SentFlows
  <1>3. ASSUME NEW u \in Client!MaybeUser,
               u \in {tab[t].user, NoUser} \/ call.profile,
               \/ tab' = [tab EXCEPT ![t] = Client!Ended(t, {s}, u)]
               \/ tab' = [tab EXCEPT ![t] = [Client!Ended(t, {s}, u) EXCEPT !.session = NoToken]]
        PROVE  Flows'
    <2> DEFINE e == Client!Ended(t, {s}, u)
               r == [e EXCEPT !.session = NoToken]
    <2>1. e \in TabRow /\ RowFlows(e)
      BY <1>3, EndedRow, EndedFlows DEF Typed
    <2>2. tab' = [tab EXCEPT ![t] = e] \/ tab' = [tab EXCEPT ![t] = r]
      BY <1>3
    <2> HIDE DEF e
    <2>3. r.calls = e.calls /\ r.refreshing = e.refreshing /\ r.profiling = e.profiling
          /\ r.user = e.user
      BY <2>1 DEF TabRow
    <2> HIDE DEF r
    <2>4. RowFlows(r)
      BY <2>1, <2>3, SameFlow
    <2> QED BY <2>1, <2>2, <2>4, FlowsMove DEF Typed
  <1>4. CASE Client!AnswerAccepted(t, s)
    BY <1>1, <1>2, <1>3, <1>4 DEF Client!AnswerAccepted
  <1>5. CASE Client!AnswerLost(t, s)
    BY <1>1, <1>3, <1>5 DEF Client!AnswerLost
  <1>6. CASE Client!AnswerEndsSession(t, s)
    BY <1>1, <1>3, <1>6 DEF Client!AnswerEndsSession
  <1> QED BY <1>4, <1>5, <1>6

LEMMA RefusalsFlow ==
    ASSUME ClientBounds, Typed, CallsOK, Flows, NEW t \in Tabs,
           Client!RefreshRefused(t) \/ Client!RefreshLost(t)
    PROVE  Flows'
  <1>1. ASSUME NEW u \in Client!MaybeUser,
               u \in {tab[t].user, NoUser}
                 \/ \E s \in Client!Waiting(t) : tab[t].calls[s].profile,
               \/ tab' = [tab EXCEPT ![t] = [Client!Ended(t, Client!Waiting(t), u) EXCEPT
                                             !.refreshing = NoUser]]
               \/ tab' = [tab EXCEPT ![t] = [Client!Ended(t, Client!Waiting(t), u) EXCEPT
                                             !.session = NoToken, !.refreshing = NoUser]]
        PROVE  Flows'
    <2> DEFINE e == Client!Ended(t, Client!Waiting(t), u)
    <2>1. /\ e \in TabRow /\ RowFlows(e)
          /\ \A s \in Slots : e.calls[s].pc # "waiting"
      BY <1>1, EndedRow, EndedFlows DEF Typed
    <2>2. \/ tab' = [tab EXCEPT ![t] = [e EXCEPT !.refreshing = NoUser]]
          \/ tab' = [tab EXCEPT ![t] = [e EXCEPT !.session = NoToken, !.refreshing = NoUser]]
      BY <1>1
    <2> HIDE DEF e
    <2> QED BY <2>1, <2>2, RefreshEnds
  <1>2. CASE Client!RefreshRefused(t)
    <2>1. PICK u \in Client!ShownAfterFailure(t, NoUser) :
            tab' = [tab EXCEPT ![t] = [Client!Ended(t, Client!Waiting(t), u) EXCEPT
                                          !.session = NoToken, !.refreshing = NoUser]]
      BY <1>2 DEF Client!RefreshRefused
    <2>2. u \in Client!MaybeUser
      BY WhoTyped
    <2>3. u = NoUser \/ \E s \in Client!Waiting(t) : tab[t].calls[s].profile
      BY DEF Client!ShownAfterFailure
    <2> QED BY <1>1, <2>1, <2>2, <2>3
  <1>3. CASE Client!RefreshLost(t)
    <2> DEFINE known == {tab[t].calls[s].me : s \in Client!Waiting(t)} \ {NoUser}
    <2>1. PICK u \in IF known = {} THEN {tab[t].user} ELSE known :
            tab' = [tab EXCEPT ![t] = [Client!Ended(t, Client!Waiting(t), u) EXCEPT
                                             !.refreshing = NoUser]]
      BY <1>3 DEF Client!RefreshLost
    <2>2. \A s \in Client!Waiting(t) : tab[t].calls[s].me \in Client!MaybeUser
      BY RowTyped DEF Client!Waiting
    <2>3. tab[t].user \in Client!MaybeUser
      BY RowTyped
    <2>4. u \in Client!MaybeUser
      BY <2>1, <2>2, <2>3
    <2>5. u = tab[t].user \/ \E s \in Client!Waiting(t) : tab[t].calls[s].profile
      <3>1. CASE u \in known
        BY <3>1 DEF CallsOK, CallOK, Client!Waiting
      <3>2. CASE u = tab[t].user
        BY <3>2
      <3> QED BY <2>1, <3>1, <3>2
    <2> QED BY <1>1, <2>1, <2>4, <2>5
  <1> QED BY <1>2, <1>3

\* Requests begin.
LEMMA StartsFlow ==
    ASSUME ClientBounds, Typed, Flows, NEW t \in Tabs, NEW s \in Slots,
           \/ Client!StartProfile(t, s) \/ Client!StartCall(t, s)
           \/ \E u \in Users : Client!Login(t, u, s)
    PROVE  Flows'
  <1>1. tab[t].calls[s].pc = "idle"
    BY DEF Client!StartProfile, Client!StartCall, Client!Login, Client!FreeSlot, Client!Busy
  <1>2. CASE Client!StartProfile(t, s)
    <2>1. CASE Client!ChosenToken(t) = NoToken
      <3>1. tab' = [tab EXCEPT ![t].user = NoUser, ![t].session = NoToken,
                               ![t].profiling = TRUE]
        BY <1>2, <2>1 DEF Client!StartProfile
      <3> QED BY <3>1, EditFlows
    <2>2. CASE Client!ChosenToken(t) # NoToken
      <3> DEFINE c == Client!Sent(t, TRUE, NoUser)
      <3>1. c.pc = "sent" /\ c.profile
        BY DEF Client!Sent
      <3>2. tab' = [tab EXCEPT ![t].session = Client!ChosenToken(t), ![t].profiling = TRUE,
                               ![t].calls[s] = c]
        BY <1>2, <2>2 DEF Client!StartProfile
      <3> HIDE DEF c
      <3> QED BY <3>1, <3>2, ProfileFlows
    <2> QED BY <2>1, <2>2
  <1>3. CASE Client!StartCall(t, s)
    <2> DEFINE c == Client!Sent(t, FALSE, NoUser)
    <2>1. c.pc = "sent"
      BY DEF Client!Sent
    <2>2. tab' = [tab EXCEPT ![t].session = Client!ChosenToken(t), ![t].calls[s] = c]
      BY <1>3 DEF Client!StartCall
    <2> HIDE DEF c
    <2> QED BY <1>1, <2>1, <2>2, SentFlows
  <1>4. ASSUME NEW u \in Users, Client!Login(t, u, s)
        PROVE  Flows'
    <2> DEFINE c == [pc |-> "sent", bearer |-> Client!Fresh(u), profile |-> TRUE, me |-> NoUser]
    <2>1. c.pc = "sent" /\ c.profile
      OBVIOUS
    <2>2. tab' = [tab EXCEPT ![t].user = u, ![t].session = Client!Fresh(u),
                             ![t].profiling = TRUE, ![t].calls[s] = c]
      BY <1>4 DEF Client!Login
    <2> HIDE DEF c
    <2> QED BY <2>1, <2>2, ProfileFlows
  <1> QED BY <1>2, <1>3, <1>4

LEMMA StepFlows ==
    ASSUME ClientBounds, Typed, CallsOK, Flows, [Client!Next]_Client!vars
    PROVE  Flows'
  <1>1. ASSUME NEW t \in Tabs, NEW s \in Slots,
               \/ Client!StartProfile(t, s) \/ Client!StartCall(t, s)
               \/ Client!Settle(t, s) \/ Client!AnswerLost(t, s)
               \/ \E u \in Users : Client!Login(t, u, s)
        PROVE  Flows'
    BY <1>1, StartsFlow, AnswersFlow, UnauthorizedFlows DEF Client!Settle
  <1>2. ASSUME NEW t \in Tabs,
               \/ Client!Logout(t) \/ Client!LogoutAnswered(t)
               \/ Client!LogoutHeard(t) \/ Client!StorageHeard(t)
        PROVE  Flows'
    <2>1. CASE Client!Logout(t)
      <3>1. tab' = [tab EXCEPT ![t].session = NoToken, ![t].closing = TRUE]
        BY <2>1 DEF Client!Logout
      <3> QED BY <3>1, EditFlows
    <2>2. CASE Client!LogoutAnswered(t)
      <3>1. tab' = [tab EXCEPT ![t].user = NoUser, ![t].closing = FALSE]
        BY <2>2 DEF Client!LogoutAnswered
      <3> QED BY <3>1, EditFlows
    <2>3. CASE Client!LogoutHeard(t)
      <3>1. tab' = [tab EXCEPT ![t].user = NoUser, ![t].session = NoToken]
        BY <2>3 DEF Client!LogoutHeard
      <3> QED BY <3>1, EditFlows
    <2>4. CASE Client!StorageHeard(t)
      <3>1. tab' = [tab EXCEPT ![t].session = Head(events[t])]
        BY <2>4 DEF Client!StorageHeard
      <3> QED BY <3>1, EditFlows
    <2> QED BY <1>2, <2>1, <2>2, <2>3, <2>4
  <1>3. ASSUME NEW t \in Tabs,
               \/ Client!Reload(t) \/ Client!RefreshAhead(t)
               \/ Client!RefreshSettles(t) \/ Client!RefreshLost(t)
        PROVE  Flows'
    BY <1>3, ReloadFlows, AheadFlows, AnsweredFlows, RefusalsFlow DEF Client!RefreshSettles
  <1>4. CASE Client!Tick \/ UNCHANGED Client!vars
    BY <1>4 DEF Client!Tick, Client!vars, Flows, RowFlows
  <1> QED BY <1>1, <1>2, <1>3, <1>4 DEF Client!Next

\* In no tab does a request wait for a token refresh that is over, and a tab that shows
\* a user never keeps its profile from being refreshed by a refresh that has ended:
\* whatever is refused, lost, forced or reloaded, each request in flight can still be
\* answered.  (A tab that shows nobody may keep it so: its reference is set to a refresh
\* that found no token and was over before it was stored.)
THEOREM NobodyWaitsInVainCorrect ==
    ASSUME ClientBounds
    PROVE  Client!Spec => []Client!NobodyWaitsInVain
  <1>1. Client!Init => Flows
    <2> SUFFICES ASSUME Client!Init PROVE Flows
      OBVIOUS
    <2>1. \A t \in Tabs : /\ tab[t].profiling => tab[t].user = NoUser
                          /\ \A s \in Slots : tab[t].calls[s] = Client!Idle
      <3>1. PICK u \in Client!MaybeUser : \E mark :
              tab = [t \in Tabs |->
                       [user |-> u, session |-> mark, refreshing |-> NoUser,
                        profiling |-> u = NoUser, closing |-> FALSE,
                        calls |-> [s \in Slots |-> Client!Idle]]]
        BY DEF Client!Init
      <3>2. PICK mark :
              tab = [t \in Tabs |->
                       [user |-> u, session |-> mark, refreshing |-> NoUser,
                        profiling |-> u = NoUser, closing |-> FALSE,
                        calls |-> [s \in Slots |-> Client!Idle]]]
        BY <3>1
      <3>3. ASSUME NEW t \in Tabs
            PROVE  /\ tab[t].profiling = (u = NoUser) /\ tab[t].user = u
                   /\ tab[t].calls = [s \in Slots |-> Client!Idle]
        BY <3>2, Zenon
      <3> QED BY <3>3
    <2> QED BY <2>1 DEF Flows, RowFlows, Client!Idle
  <1>2. SessionInv /\ Flows /\ [Client!Next]_Client!vars => Flows'
    BY StepFlows DEF SessionInv
  <1>3. Flows => Client!NobodyWaitsInVain
    BY DEF Flows, RowFlows, Client!NobodyWaitsInVain, Client!Waiting, Client!Busy
  <1> QED BY <1>1, <1>2, <1>3, SessionAlways, PTL DEF Client!Spec
=============================================================================
