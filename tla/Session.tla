------------------------------ MODULE Session ------------------------------
(***************************************************************************)
(* The login session of the web client: the tokens in localStorage and in  *)
(* every tab's sessionStorage (authTokens.js), the fetch client with its   *)
(* silent refresh (client.js) and the provider that shows the user         *)
(* (AuthProvider.jsx), in several tabs of one browser.                     *)
(*                                                                         *)
(* A handler runs to its next await without interruption, so what follows  *)
(* an answer up to the next request is one step; between two awaits the    *)
(* user, the other tabs and the server act.  An access token is its owner  *)
(* and its expiry time, a refresh token is its owner: the server reissues  *)
(* it unchanged and it outlives every access token.                        *)
(***************************************************************************)
EXTENDS FiniteSets, Integers, Sequences

CONSTANTS
    Tabs,       \* browser tabs
    Users,      \* accounts
    Slots,      \* bound: apiRequest calls a tab has in flight
    Narrow,     \* bound: tabs that have one call in flight
    MaxClock,   \* bound: at this time the refresh tokens have expired, too
    MaxFaults,  \* bound: answers lost to a 5xx or to the network
    MaxEvents,  \* bound: storage events waiting for a tab
    MaxMoves,   \* bound: what the user does (log in or out, reload, open a page
                \* that refreshes the profile), all tabs together
    NoUser, NoToken

ASSUME SessionAssumption ==
    /\ MaxClock \in Nat \ {0} /\ MaxFaults \in Nat /\ MaxEvents \in Nat \ {0}
    /\ MaxMoves \in Nat \ {0} /\ 1 \in Slots /\ Slots \subseteq Nat
    /\ NoUser \notin Users /\ NoToken \notin [user : Users, exp : 1..MaxClock]

VARIABLES
    store,    \* localStorage, shared by the tabs
    tab,      \* [Tabs -> TabState]
    events,   \* [Tabs -> Seq(Token)]: storage events on their way to a tab
    goodbye,  \* tabs a LOGOUT_SYNC message is on its way to
    clock, faults, moves,
    history   \* did anyone log in, did anyone log out

vars == <<store, tab, events, goodbye, clock, faults, moves, history>>

AccessToken == [user : Users, exp : 1..MaxClock]
MaybeToken == AccessToken \cup {NoToken}
MaybeUser == Users \cup {NoUser}

(* A request in flight.  me is the user a profile refresh has fetched and  *)
(* not shown yet; the refresh then asks for the onboarding profile.        *)
Call == [pc : {"idle", "sent", "waiting", "retried"}, bearer : MaybeToken,
         profile : BOOLEAN, me : MaybeUser]
Idle == [pc |-> "idle", bearer |-> NoToken, profile |-> FALSE, me |-> NoUser]

TabState == [user : MaybeUser,            \* AuthProvider: the user shown
             session : MaybeToken,        \* the sessionStorage access token
             refreshing : MaybeUser,      \* client.js: inFlightRefreshPromise
             profiling : BOOLEAN,         \* inFlightRefreshRef is set
             closing : BOOLEAN,           \* logout awaits the server
             calls : [Slots -> Call]]

TypeOK ==
    /\ store \in [access : MaybeToken, refresh : MaybeUser,
                  cached : MaybeUser]
    /\ tab \in [Tabs -> TabState]
    /\ \A t \in Tabs : events[t] \in Seq(MaybeToken) /\ Len(events[t]) <= MaxEvents
    /\ goodbye \subseteq Tabs
    /\ clock \in 0..MaxClock /\ faults \in 0..MaxFaults /\ moves \in 0..MaxMoves
    /\ history \in [entered : BOOLEAN, left : BOOLEAN]

(* Nobody is logged in, or somebody logged in before the tabs were opened. *)
(* A tab opened without a token has asked for the profile (StartProfile).  *)
Init ==
    /\ \E u \in MaybeUser :
         LET token == IF u = NoUser THEN NoToken ELSE [user |-> u, exp |-> 1] IN
         /\ store = [access |-> token, refresh |-> u, cached |-> u]
         /\ tab = [t \in Tabs |->
                     [user |-> u, session |-> token, refreshing |-> NoUser,
                      profiling |-> u = NoUser, closing |-> FALSE,
                      calls |-> [s \in Slots |-> Idle]]]
         /\ history = [entered |-> u # NoUser, left |-> FALSE]
         /\ moves = IF u = NoUser THEN MaxMoves ELSE MaxMoves - 1
    /\ events = [t \in Tabs |-> <<>>]
    /\ goodbye = {}
    /\ clock = 0 /\ faults = MaxFaults

---------------------------------------------------------------------------
(* Tokens *)

Expired(token) == token.exp <= clock

Fresh(u) == [user |-> u, exp |-> clock + 1]

RefreshAccepted == clock < MaxClock

(* getAccessToken: the token a tab uses; it is also left in its session. *)
ChosenToken(t) ==
    LET mine == tab[t].session
        shared == store.access
    IN  IF \/ shared = NoToken
           \/ mine = NoToken
           \/ Expired(mine) /\ ~Expired(shared)
           \/ shared.exp >= mine.exp
        THEN shared
        ELSE mine

(* The server looks at the bearer token and, when there is none, at its    *)
(* cookie, which may or may not be good until the last token has expired.  *)
MayAccept(bearer) == IF bearer = NoToken THEN clock < MaxClock ELSE ~Expired(bearer)
MayRefuse(bearer) == bearer # NoToken => Expired(bearer)

(* Every other tab hears of the change of a localStorage item. *)
EventsAfter(t, token) ==
    [o \in Tabs |-> IF o # t /\ store.access # token
                    THEN Append(events[o], token) ELSE events[o]]

RoomForEvents(t) == \A o \in Tabs \ {t} : Len(events[o]) < MaxEvents

(* setAuthTokens and clearAuthTokens, as they leave localStorage. *)
StoreWith(u) == [store EXCEPT !.access = Fresh(u), !.refresh = u]

Cleared == [store EXCEPT !.access = NoToken, !.refresh = NoUser]

Busy(t) == {s \in Slots : tab[t].calls[s].pc # "idle"}

(* The slot the next call of a tab takes: slots are alike, so the first.   *)
FreeSlot(t, s) ==
    /\ s \notin Busy(t) /\ \A o \in Slots : o < s => o \in Busy(t)
    /\ t \in Narrow => Busy(t) = {}

Sent(t, isProfile, known) ==
    [pc |-> "sent", bearer |-> ChosenToken(t), profile |-> isProfile, me |-> known]

(* The state of a tab when the calls of done have ended.  The profile call *)
(* that ends last, if any, decides who is shown.                           *)
Ended(t, done, shown) ==
    [tab[t] EXCEPT
        !.user = shown,
        !.profiling = @ /\ ~\E s \in done : tab[t].calls[s].profile,
        !.calls = [s \in Slots |-> IF s \in done THEN Idle ELSE @[s]]]

---------------------------------------------------------------------------
(* Requests *)

(* refreshProfile: one at a time unless forced; without a token it only    *)
(* forgets the user, awaits nothing, and so clears the reference before it *)
(* is set: it stays set, to a refresh that is over.                        *)
StartProfile(t, s) ==
    /\ FreeSlot(t, s) /\ ~tab[t].profiling
    /\ moves > 0 /\ moves' = moves - 1
    /\ IF ChosenToken(t) = NoToken
       THEN /\ store' = [store EXCEPT !.cached = NoUser]
            /\ tab' = [tab EXCEPT ![t].user = NoUser, ![t].session = NoToken,
                                  ![t].profiling = TRUE]
       ELSE /\ tab' = [tab EXCEPT ![t].session = ChosenToken(t),
                                  ![t].profiling = TRUE,
                                  ![t].calls[s] = Sent(t, TRUE, NoUser)]
            /\ UNCHANGED store
    /\ UNCHANGED <<events, goodbye, clock, faults, history>>

(* A request of a page; the pages poll as long as a user is shown. *)
StartCall(t, s) ==
    /\ FreeSlot(t, s) /\ tab[t].user # NoUser
    /\ \A o \in Busy(t) : tab[t].calls[o].profile
    /\ tab' = [tab EXCEPT ![t].session = ChosenToken(t),
                          ![t].calls[s] = Sent(t, FALSE, NoUser)]
    /\ UNCHANGED <<store, events, goodbye, clock, faults, moves, history>>

(* The answer is good: a profile refresh goes on to its second request and *)
(* shows its user after that one.                                          *)
AnswerAccepted(t, s) ==
    LET call == tab[t].calls[s] IN
    /\ call.pc \in {"sent", "retried"} /\ MayAccept(call.bearer)
    /\ \/ /\ call.profile /\ call.me = NoUser
          /\ tab' = [tab EXCEPT ![t].session = ChosenToken(t),
                                ![t].calls[s] = Sent(t, TRUE, call.bearer.user)]
          /\ UNCHANGED store
       \/ /\ call.profile /\ call.me # NoUser
          /\ tab' = [tab EXCEPT ![t] = Ended(t, {s}, call.me)]
          /\ store' = [store EXCEPT !.cached = call.me]
       \/ /\ ~call.profile
          /\ tab' = [tab EXCEPT ![t] = Ended(t, {s}, tab[t].user)]
          /\ UNCHANGED store
    /\ UNCHANGED <<events, goodbye, clock, faults, moves, history>>

(* The server is down or the network is: nothing is forgotten, and a       *)
(* profile refresh shows what it knows.                                    *)
AnswerLost(t, s) ==
    LET call == tab[t].calls[s] IN
    /\ call.pc \in {"sent", "retried"} /\ faults > 0
    /\ faults' = faults - 1
    /\ IF call.me # NoUser
       THEN /\ tab' = [tab EXCEPT ![t] = Ended(t, {s}, call.me)]
            /\ store' = [store EXCEPT !.cached = call.me]
       ELSE /\ tab' = [tab EXCEPT ![t] = Ended(t, {s}, tab[t].user)]
            /\ UNCHANGED store
    /\ UNCHANGED <<events, goodbye, clock, moves, history>>

(* A first 401 joins the refresh in flight or begins one. *)
AnswerUnauthorized(t, s) ==
    LET call == tab[t].calls[s] IN
    /\ call.pc = "sent" /\ MayRefuse(call.bearer)
    /\ tab[t].refreshing # NoUser \/ store.refresh # NoUser
    /\ tab' = [tab EXCEPT ![t].calls[s].pc = "waiting",
                          ![t].refreshing = IF @ # NoUser THEN @ ELSE store.refresh]
    /\ UNCHANGED <<store, events, goodbye, clock, faults, moves, history>>

Mutant_EndsSilently(t, s) ==
    LET call == tab[t].calls[s] IN
    /\ MayRefuse(call.bearer) /\ RoomForEvents(t)
    /\ \/ call.pc = "retried"
       \/ call.pc = "sent" /\ tab[t].refreshing = NoUser /\ store.refresh = NoUser
    /\ tab' = [tab EXCEPT ![t] =
                [Ended(t, {s}, tab[t].user) EXCEPT !.session = NoToken]]
    /\ store' = Cleared
    /\ events' = EventsAfter(t, NoToken)
    /\ UNCHANGED <<goodbye, clock, faults, moves, history>>

(* The session is over: a first 401 with nothing to refresh from, or a 401 *)
(* to the retry.  The tokens go, and the user; a profile refresh that knew *)
(* its user shows it all the same.                                         *)
AnswerEndsSession(t, s) ==
    LET call == tab[t].calls[s] IN
    /\ MayRefuse(call.bearer) /\ RoomForEvents(t)
    /\ \/ call.pc = "retried"
       \/ call.pc = "sent" /\ tab[t].refreshing = NoUser /\ store.refresh = NoUser
    /\ tab' = [tab EXCEPT ![t] = [Ended(t, {s}, call.me) EXCEPT !.session = NoToken]]
    /\ store' = [Cleared EXCEPT !.cached = IF call.profile THEN call.me ELSE @]
    /\ events' = EventsAfter(t, NoToken)
    /\ UNCHANGED <<goodbye, clock, faults, moves, history>>

(* apiRefreshToken called ahead of the expiry, by the event stream. *)
RefreshAhead(t) ==
    /\ tab[t].refreshing = NoUser /\ tab[t].user # NoUser
    /\ tab[t].session # NoToken /\ Expired(tab[t].session)
    /\ IF store.refresh # NoUser
       THEN /\ tab' = [tab EXCEPT ![t].refreshing = store.refresh]
            /\ UNCHANGED <<store, events>>
       ELSE /\ RoomForEvents(t)
            /\ tab' = [tab EXCEPT ![t].user = NoUser, ![t].session = NoToken]
            /\ store' = Cleared
            /\ events' = EventsAfter(t, NoToken)
    /\ UNCHANGED <<goodbye, clock, faults, moves, history>>

Waiting(t) == {s \in Slots : tab[t].calls[s].pc = "waiting"}

(* The refresh is answered with new tokens: they are stored, whatever      *)
(* happened meanwhile, and every waiting call is retried.                  *)
RefreshAnswered(t) ==
    LET u == tab[t].refreshing IN
    /\ u # NoUser /\ RefreshAccepted /\ RoomForEvents(t)
    /\ store' = StoreWith(u)
    /\ events' = EventsAfter(t, Fresh(u))
    /\ tab' = [tab EXCEPT
                ![t].session = Fresh(u), ![t].refreshing = NoUser,
                ![t].calls = [s \in Slots |->
                    IF s \in Waiting(t)
                    THEN [@[s] EXCEPT !.pc = "retried", !.bearer = Fresh(u)]
                    ELSE @[s]]]
    /\ UNCHANGED <<goodbye, clock, faults, moves, history>>

(* Who is shown when the waiting calls have failed: a profile refresh      *)
(* shows the user it knows, one that knows none forgets the user on a 401. *)
ShownAfterFailure(t, otherwise) ==
    LET last == {s \in Waiting(t) : tab[t].calls[s].profile}
        known == {tab[t].calls[s].me : s \in last}
    IN  IF known = {} THEN {otherwise} ELSE known

(* The refresh token is refused: the tokens and the user go. *)
RefreshRefused(t) ==
    /\ tab[t].refreshing # NoUser /\ ~RefreshAccepted /\ RoomForEvents(t)
    /\ \E shown \in ShownAfterFailure(t, NoUser) :
         /\ tab' = [tab EXCEPT ![t] = [Ended(t, Waiting(t), shown) EXCEPT
                                         !.session = NoToken, !.refreshing = NoUser]]
         /\ store' = [Cleared EXCEPT !.cached =
                        IF \E s \in Waiting(t) : tab[t].calls[s].profile THEN shown ELSE @]
    /\ events' = EventsAfter(t, NoToken)
    /\ UNCHANGED <<goodbye, clock, faults, moves, history>>

Mutant_LostRefreshClears(t) ==
    /\ tab[t].refreshing # NoUser /\ faults > 0 /\ RoomForEvents(t)
    /\ faults' = faults - 1
    /\ tab' = [tab EXCEPT ![t] = [Ended(t, Waiting(t), NoUser) EXCEPT
                                    !.session = NoToken, !.refreshing = NoUser]]
    /\ store' = Cleared
    /\ events' = EventsAfter(t, NoToken)
    /\ UNCHANGED <<goodbye, clock, moves, history>>

(* The refresh answers 5xx or not at all: the tokens stay, the calls that  *)
(* waited fail.                                                            *)
RefreshLost(t) ==
    /\ tab[t].refreshing # NoUser /\ faults > 0
    /\ faults' = faults - 1
    /\ LET known == {tab[t].calls[s].me : s \in Waiting(t)} \ {NoUser} IN
       \E shown \in IF known = {} THEN {tab[t].user} ELSE known :
         /\ tab' = [tab EXCEPT ![t] = [Ended(t, Waiting(t), shown) EXCEPT
                                         !.refreshing = NoUser]]
         /\ store' = [store EXCEPT !.cached = IF known = {} THEN @ ELSE shown]
    /\ UNCHANGED <<events, goodbye, clock, moves, history>>

---------------------------------------------------------------------------
(* The user *)

(* login: the tokens are stored, the user is shown, and a forced profile   *)
(* refresh begins beside any other.                                        *)
Login(t, u, s) ==
    /\ tab[t].user = NoUser /\ clock < MaxClock
    /\ moves > 0 /\ moves' = moves - 1
    /\ FreeSlot(t, s) /\ RoomForEvents(t)
    /\ store' = StoreWith(u)
    /\ events' = EventsAfter(t, Fresh(u))
    /\ tab' = [tab EXCEPT ![t].user = u, ![t].session = Fresh(u),
                          ![t].profiling = TRUE,
                          ![t].calls[s] = [pc |-> "sent", bearer |-> Fresh(u),
                                           profile |-> TRUE, me |-> NoUser]]
    /\ history' = [history EXCEPT !.entered = TRUE]
    /\ UNCHANGED <<goodbye, clock, faults>>

(* logout: the tokens go at once, the other tabs are told, the user is     *)
(* forgotten after the server has answered.                                *)
Logout(t) ==
    /\ tab[t].user # NoUser /\ ~tab[t].closing /\ RoomForEvents(t)
    /\ moves > 0 /\ moves' = moves - 1
    /\ store' = Cleared
    /\ events' = EventsAfter(t, NoToken)
    /\ tab' = [tab EXCEPT ![t].session = NoToken, ![t].closing = TRUE]
    /\ goodbye' = goodbye \cup (Tabs \ {t})
    /\ history' = [history EXCEPT !.left = TRUE]
    /\ UNCHANGED <<clock, faults>>

LogoutAnswered(t) ==
    /\ tab[t].closing
    /\ tab' = [tab EXCEPT ![t].user = NoUser, ![t].closing = FALSE]
    /\ store' = [store EXCEPT !.cached = NoUser]
    /\ UNCHANGED <<events, goodbye, clock, faults, moves, history>>

LogoutHeard(t) ==
    /\ t \in goodbye /\ RoomForEvents(t)
    /\ goodbye' = goodbye \ {t}
    /\ store' = Cleared
    /\ events' = EventsAfter(t, NoToken)
    /\ tab' = [tab EXCEPT ![t].user = NoUser, ![t].session = NoToken]
    /\ UNCHANGED <<clock, faults, moves, history>>

StorageHeard(t) ==
    /\ events[t] # <<>>
    /\ tab' = [tab EXCEPT ![t].session = Head(events[t])]
    /\ events' = [events EXCEPT ![t] = Tail(@)]
    /\ UNCHANGED <<store, goodbye, clock, faults, moves, history>>

(* The page is loaded again: what the tab had in memory and in flight is   *)
(* gone, the cached user is shown if there is a token, the profile asked.  *)
Reload(t) ==
    LET token == ChosenToken(t) IN
    /\ moves > 0 /\ moves' = moves - 1
    /\ tab' = [tab EXCEPT ![t] =
         [user |-> IF token = NoToken THEN NoUser ELSE store.cached,
          session |-> token, refreshing |-> NoUser,
          profiling |-> TRUE, closing |-> FALSE,
          calls |-> [o \in Slots |->
             IF o = 1 /\ token # NoToken THEN Sent(t, TRUE, NoUser) ELSE Idle]]]
    /\ store' = [store EXCEPT !.cached = IF token = NoToken THEN NoUser ELSE @]
    /\ events' = [events EXCEPT ![t] = <<>>]
    /\ goodbye' = goodbye \ {t}
    /\ UNCHANGED <<clock, faults, history>>

(* Time passes.  A retry is answered long before its new token expires.    *)
Tick ==
    /\ clock < MaxClock
    /\ \A t \in Tabs, s \in Slots : tab[t].calls[s].pc # "retried"
    /\ clock' = clock + 1
    /\ UNCHANGED <<store, tab, events, goodbye, faults, moves, history>>

Settle(t, s) ==
    AnswerAccepted(t, s) \/ AnswerUnauthorized(t, s) \/ AnswerEndsSession(t, s)

RefreshSettles(t) == RefreshAnswered(t) \/ RefreshRefused(t)

Next ==
    \/ Tick
    \/ \E t \in Tabs :
         \/ Reload(t) \/ RefreshAhead(t) \/ RefreshSettles(t) \/ RefreshLost(t)
         \/ Logout(t) \/ LogoutAnswered(t) \/ LogoutHeard(t) \/ StorageHeard(t)
         \/ \E s \in Slots :
              \/ StartProfile(t, s) \/ StartCall(t, s)
              \/ Settle(t, s) \/ AnswerLost(t, s)
              \/ \E u \in Users : Login(t, u, s)

(* Requests are answered, messages between tabs arrive, pages poll and     *)
(* time passes.                                                            *)
Fairness ==
    /\ WF_vars(Tick)
    /\ \A t \in Tabs :
         /\ WF_vars(RefreshSettles(t)) /\ WF_vars(LogoutAnswered(t))
         /\ WF_vars(LogoutHeard(t)) /\ WF_vars(StorageHeard(t))
         /\ WF_vars(\E s \in Slots : StartCall(t, s))
         /\ \A s \in Slots : WF_vars(Settle(t, s))

Spec == Init /\ [][Next]_vars /\ Fairness

---------------------------------------------------------------------------
(* Properties *)

(* Nobody is logged out by accident: as long as no one has logged out and  *)
(* the refresh token is good, the tokens stay, whatever expires, whatever  *)
(* answer is lost, in whatever tab, in whatever order the answers come.    *)
SessionKept ==
    history.entered /\ ~history.left /\ clock < MaxClock
        => store.access # NoToken /\ store.refresh # NoUser

(* No request waits for ever: one that waits for a refresh has one under   *)
(* way in its tab, and a tab that shows a user and has                     *)
(* inFlightRefreshRef set, and so starts no further profile refresh, has   *)
(* one in flight, whatever was forced, refused, lost or reloaded.  A tab   *)
(* that shows nobody may have it set to a refresh that is over.            *)
NobodyWaitsInVain ==
    \A t \in Tabs :
        /\ Waiting(t) # {} => tab[t].refreshing # NoUser
        /\ tab[t].profiling /\ tab[t].user # NoUser
              => \E s \in Busy(t) : tab[t].calls[s].profile

(* A session that is gone for good is gone from every screen: no tab goes  *)
(* on showing a user when there are no tokens any more.                    *)
GoneIsGone ==
    (<>[](store.access = NoToken)) => <>[](\A t \in Tabs : tab[t].user = NoUser)

=============================================================================
