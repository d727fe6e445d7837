---------------------------- MODULE AtLeastOnce ----------------------------
(***************************************************************************)
(* What both outboxes promise: "at-least-once delivery".  An event that    *)
(* was sent is heard, perhaps many times, or given up.                     *)
(***************************************************************************)
CONSTANT Event

VARIABLES
    sent,     \* events committed to the outbox
    heard,    \* events the other side has heard at least once
    dropped   \* events given up, for the time being

vars == <<sent, heard, dropped>>

Init == sent = {} /\ heard = {} /\ dropped = {}

Send(e) ==
    /\ sent' = sent \cup {e}
    /\ UNCHANGED <<heard, dropped>>

Deliver(e) ==
    /\ e \in sent
    /\ heard' = heard \cup {e}
    /\ UNCHANGED <<sent, dropped>>

GiveUp(e) ==
    /\ e \in sent
    /\ dropped' = dropped \cup {e}
    /\ UNCHANGED <<sent, heard>>

Resume(e) ==
    /\ dropped' = dropped \ {e}
    /\ UNCHANGED <<sent, heard>>

Next == \E e \in Event : Send(e) \/ Deliver(e) \/ GiveUp(e) \/ Resume(e)

(* Nothing that was sent waits for ever. *)
Settle(e) == e \notin heard \cup dropped /\ (Deliver(e) \/ GiveUp(e))

Spec == Init /\ [][Next]_vars /\ \A e \in Event : WF_vars(Settle(e))
=============================================================================
