------------------------------- MODULE Outbox -------------------------------
(***************************************************************************)
(* The two outboxes towards the customer application: the status events of *)
(* a seller order (seller_order_outbox.py) and the webhooks of a booking   *)
(* (customer_webhook.py), of one order or booking.                         *)
(*                                                                         *)
(* The event is a row written in the transaction of the change it reports. *)
(* After the commit a thread posts it; a sweep posts the rows that are due.*)
(* Nobody locks a row: a sender posts from the copy it read, and saves     *)
(* what it makes of the answer over whatever the row has become meanwhile. *)
(* The sweep reads its whole batch before it posts the first row.          *)
(***************************************************************************)
EXTENDS Integers

CONSTANTS
    MaxEvents,   \* bound: events of the order or booking
    Sweepers,    \* processes that run the sweep
    MaxTries,    \* _MAX_RETRY_ATTEMPTS, MAX_WEBHOOK_ATTEMPTS
    MaxCrashes   \* bound: processes killed

ASSUME OutboxAssumption ==
    /\ MaxEvents \in Nat /\ MaxTries \in Nat \ {0} /\ MaxCrashes \in Nat
    /\ Sweepers \cap 1..MaxEvents = {}

Event == 1..MaxEvents   \* in the order of their commits, which is sequence's
Thread == Event         \* the thread started after the commit of the event

VARIABLES
    queue,     \* which outbox this is
    rows,      \* [Event -> Row]
    threads,   \* threads that have not read their row yet
    todo,      \* [Sender -> copies of the rows it has yet to post]
    posted,    \* [Sender -> the copy it has posted and the answer]
    heard,     \* history: events the customer application has received
    posts,     \* history: failed posts of an event, up to MaxTries
    refused,   \* history: events it answered with 400 or 422
    crashes

vars == <<queue, rows, threads, todo, posted, heard, posts, refused, crashes>>
history == <<heard, posts, refused>>

Sender == Thread \cup Sweepers

(* In the seller's outbox a row that waits for its retry is PENDING with a *)
(* next_retry_at, in the other FAILED with one; "dropped" is FAILED without.*)
State == {"none", "due", "waiting", "delivered", "dropped"}
Row == [state : State, tries : 0..MaxTries + 1]
Copy == [event : Event, tries : 0..MaxTries]
Answer == {"yes", "no", "refused"}
Answered == [copy : Copy, answer : Answer]
NoAnswer == [answer |-> "none"]
Written == {e \in Event : rows[e].state # "none"}

TypeOK ==
    /\ queue \in {"orders", "webhooks"}
    /\ rows \in [Event -> Row] /\ threads \subseteq Thread
    /\ todo \in [Sender -> SUBSET Copy]
    /\ posted \in [Sender -> Answered \cup {NoAnswer}]
    /\ \A e \in Event : rows[e].state = "waiting" => rows[e].tries \in 1..MaxTries - 1
    /\ heard \subseteq Event /\ refused \subseteq Event
    /\ posts \in [Event -> 0..MaxTries] /\ crashes \in 0..MaxCrashes

Init ==
    /\ queue \in {"orders", "webhooks"}
    /\ rows = [e \in Event |-> [state |-> "none", tries |-> 0]]
    /\ threads = {}
    /\ todo = [s \in Sender |-> {}] /\ posted = [s \in Sender |-> NoAnswer]
    /\ heard = {} /\ posts = [e \in Event |-> 0] /\ refused = {}
    /\ crashes = 0

---------------------------------------------------------------------------
(* The change commits with its event, and the thread is started.  Changes  *)
(* of one order come one after the other: each has updated the order's row.*)
Record(e) ==
    /\ rows[e].state = "none" /\ \A f \in Event : f < e => f \in Written
    /\ rows' = [rows EXCEPT ![e].state = "due"]
    /\ threads' = threads \cup {e}
    /\ UNCHANGED <<queue, todo, posted, history, crashes>>

Copied(e) == [event |-> e, tries |-> rows[e].tries]

(* The thread leaves a row alone that is not PENDING (orders), or that is  *)
(* DELIVERED (webhooks).                                                   *)
ThreadTakes(e) ==
    \/ rows[e].state \in {"due", "waiting"}
    \/ queue = "webhooks" /\ rows[e].state = "dropped"

ThreadReads(e) ==
    /\ e \in threads
    /\ threads' = threads \ {e}
    /\ todo' = [todo EXCEPT ![e] = IF ThreadTakes(e) THEN {Copied(e)} ELSE {}]
    /\ UNCHANGED <<queue, rows, posted, history, crashes>>

(* The sweep misses what no thread has tried. *)
Mutant_DueAfterATry == {e \in Event : rows[e].state = "due" /\ rows[e].tries > 0}

Due == {e \in Event : rows[e].state = "due"}

Sweep(s) ==
    /\ todo[s] = {} /\ posted[s] = NoAnswer /\ Due # {}
    /\ todo' = [todo EXCEPT ![s] = {Copied(e) : e \in Due}]
    /\ UNCHANGED <<queue, rows, threads, posted, history, crashes>>

(* The seller's sweep posts in the order in which the rows were created,   *)
(* the other in that of next_retry_at.                                     *)
Following(s, c) ==
    /\ c \in todo[s]
    /\ queue = "orders" => \A d \in todo[s] : c.event <= d.event

(* The POST: accepted; refused as malformed; failed or timed out, in which *)
(* case the customer application may have received it.                     *)
Post(s) ==
    \E c \in todo[s], a \in Answer :
        LET e == c.event IN
        /\ posted[s] = NoAnswer /\ Following(s, c)
        /\ todo' = [todo EXCEPT ![s] = @ \ {c}]
        /\ posted' = [posted EXCEPT ![s] = [copy |-> c, answer |-> a]]
        /\ heard' \in (IF a = "yes" THEN {} ELSE {heard})
                         \cup (IF a = "refused" THEN {} ELSE {heard \cup {e}})
        /\ refused' = IF a = "refused" THEN refused \cup {e} ELSE refused
        /\ posts' = IF a = "yes" \/ posts[e] = MaxTries THEN posts
                                                        ELSE [posts EXCEPT ![e] = @ + 1]
        /\ UNCHANGED <<queue, rows, threads, crashes>>

(* What a sender writes after a success; only the webhooks count it.       *)
Succeeded(c) ==
    [state |-> "delivered",
     tries |-> IF queue = "webhooks" THEN c.tries + 1 ELSE rows[c.event].tries]

Mutant_TriesOnceMore(c, a) ==
    [state |-> IF c.tries >= MaxTries \/ (queue = "orders" /\ a = "refused")
               THEN "dropped" ELSE "waiting",
     tries |-> c.tries + 1]

(* Every answer but an acceptance is taken for a refusal. *)
Mutant_DropsAtOnce(c, a) ==
    [state |-> IF c.tries + 1 >= MaxTries \/ queue = "orders" THEN "dropped" ELSE "waiting",
     tries |-> c.tries + 1]

(* ... and after a failure, from the number of tries it had read.          *)
FailedWith(c, a) ==
    [state |-> IF c.tries + 1 >= MaxTries \/ (queue = "orders" /\ a = "refused")
               THEN "dropped" ELSE "waiting",
     tries |-> c.tries + 1]

Save(s) ==
    LET c == posted[s].copy
        a == posted[s].answer
    IN  /\ posted[s] # NoAnswer
        /\ rows' = [rows EXCEPT ![c.event] =
                      IF a = "yes" THEN Succeeded(c) ELSE FailedWith(c, a)]
        /\ posted' = [posted EXCEPT ![s] = NoAnswer]
        /\ UNCHANGED <<queue, threads, todo, history, crashes>>

(* next_retry_at has come. *)
RetryFallsDue(e) ==
    /\ rows[e].state = "waiting"
    /\ rows' = [rows EXCEPT ![e].state = "due"]
    /\ UNCHANGED <<queue, threads, todo, posted, history, crashes>>

(* A process is killed: its threads are daemons, its sweep starts anew.    *)
Crash(s) ==
    /\ crashes < MaxCrashes /\ crashes' = crashes + 1
    /\ s \in threads \/ todo[s] # {} \/ posted[s] # NoAnswer
    /\ threads' = threads \ {s}
    /\ todo' = [todo EXCEPT ![s] = {}]
    /\ posted' = [posted EXCEPT ![s] = NoAnswer]
    /\ UNCHANGED <<queue, rows, history>>

Next ==
    \/ \E e \in Event : Record(e) \/ ThreadReads(e) \/ RetryFallsDue(e)
    \/ \E s \in Sweepers : Sweep(s)
    \/ \E s \in Sender : Post(s) \/ Save(s) \/ Crash(s)

(* The sweeps run (--poll, --loop), time passes, and a sender that lives   *)
(* goes on: its POST has a timeout.                                        *)
Fairness ==
    /\ \A s \in Sweepers : WF_vars(Sweep(s))
    /\ \A s \in Sender : WF_vars(Post(s)) /\ WF_vars(Save(s))
    /\ \A e \in Event : WF_vars(RetryFallsDue(e))

Spec == Init /\ [][Next]_vars /\ Fairness

---------------------------------------------------------------------------
(* Properties *)

(* An event is given up only after MaxTries posts have failed, or one was  *)
(* refused, whoever posted them and whatever copies were saved over one    *)
(* another.                                                                *)
GivenUpLate ==
    \A e \in Event : rows[e].state = "dropped"
        => posts[e] = MaxTries \/ (queue = "orders" /\ e \in refused)

(* "Guarantees at-least-once delivery": both outboxes implement it, liveness *)
(* included, with senders that save old copies over new ones and die.      *)
Promise == INSTANCE AtLeastOnce WITH
    sent <- Written,
    dropped <- {e \in Event : rows[e].state = "dropped"}
DeliversAtLeastOnce == Promise!Spec

(* "reliable, ordered": the first delivery of an event comes after that of *)
(* the events before it, unless these were given up.  Does not hold        *)
(* (README, section 3).                                                    *)
InOrder ==
    queue = "orders" =>
        \A e \in heard, f \in Event : f < e => f \in heard \/ rows[f].state = "dropped"
=============================================================================
