---------------------------- MODULE Outbox_proofs ----------------------------
(***************************************************************************)
(* Outbox: type correctness, that an event is given up only after all its  *)
(* tries, and that every step is a step or a stutter of AtLeastOnce, for   *)
(* any number of events, sweeps, tries and crashes.                        *)
(***************************************************************************)
EXTENDS Outbox, TLAPS

USE OutboxAssumption

\* n of the posts of e have failed, as far as they are counted.
Reached(e, n) == n <= posts[e] \/ posts[e] = MaxTries

\* The copies s holds, and what it may save of the one it posted.
InHand(s) == todo[s] \cup (IF posted[s] = NoAnswer THEN {} ELSE {posted[s].copy})

CopiesOK ==
    \A s \in Sender : \A c \in InHand(s) :
        /\ c.event \in Written
        /\ Reached(c.event, c.tries)
        /\ c.event \in threads => c.tries < MaxTries

AnswersOK ==
    \A s \in Sender : posted[s] # NoAnswer =>
        /\ posted[s].answer # "yes"
              => Reached(posted[s].copy.event, posted[s].copy.tries + 1)
        /\ posted[s].answer = "refused" => posted[s].copy.event \in refused

RowsOK ==
    \A e \in Event :
        /\ rows[e].state \in {"none", "due"} => rows[e].tries < MaxTries
        /\ e \in threads => e \in Written /\ rows[e].tries <= MaxTries
        /\ rows[e].state # "delivered" => Reached(e, rows[e].tries)

IInv == TypeOK /\ RowsOK /\ CopiesOK /\ AnswersOK /\ GivenUpLate

---------------------------------------------------------------------------
\* Initially nothing was written.
LEMMA Starts == Init => IInv
  BY DEF Init, IInv, TypeOK, RowsOK, CopiesOK, AnswersOK, GivenUpLate, Row, State,
         Event, Sender, Thread, InHand, Reached, Written

\* What a sender has in hand is a copy.
LEMMA CopiesAreCopies ==
    ASSUME TypeOK, NEW s \in Sender
    PROVE  /\ InHand(s) \subseteq Copy
           /\ posted[s] # NoAnswer => posted[s] \in Answered /\ posted[s].copy \in InHand(s)
  BY DEF TypeOK, InHand, Answered

\* What a sender saves of a copy it has posted is a row that counts no more
\* tries than were made, and that gives up only when all were, or one was refused.
LEMMA SavedRow ==
    ASSUME IInv, NEW s \in Sender, posted[s] # NoAnswer,
           NEW row, row = IF posted[s].answer = "yes"
                          THEN Succeeded(posted[s].copy)
                          ELSE FailedWith(posted[s].copy, posted[s].answer)
    PROVE  LET e == posted[s].copy.event IN
           /\ e \in Written /\ row \in Row
           /\ row.state \in {"waiting", "delivered", "dropped"}
           /\ row.state = "waiting" => row.tries \in 1..MaxTries - 1
           /\ row.state # "delivered" => Reached(e, row.tries)
           /\ row.state = "dropped"
                => posts[e] = MaxTries \/ (queue = "orders" /\ e \in refused)
           /\ e \in threads => row.tries <= MaxTries
  <1> DEFINE c == posted[s].copy
             a == posted[s].answer
  <1>1. /\ posted[s] \in Answered /\ c \in InHand(s) /\ c \in Copy /\ a \in Answer
    BY CopiesAreCopies DEF IInv, Answered
  <1>2. /\ c.event \in Event /\ c.tries \in 0..MaxTries
    BY <1>1 DEF Copy
  <1>3. /\ c.event \in Written /\ Reached(c.event, c.tries)
        /\ c.event \in threads => c.tries < MaxTries
        /\ c.event \in threads => rows[c.event].tries <= MaxTries
    BY <1>1, <1>2 DEF IInv, CopiesOK, RowsOK
  <1>4. /\ rows[c.event] \in Row /\ posts[c.event] \in 0..MaxTries
    BY <1>2 DEF IInv, TypeOK
  <1>5. CASE a = "yes"
    <2>1. row.state = "delivered" /\ row \in Row
      BY <1>2, <1>4, <1>5 DEF Succeeded, Row, State
    <2>2. c.event \in threads => row.tries <= MaxTries
      BY <1>2, <1>3, <1>4, <1>5 DEF Succeeded, Row
    <2> QED BY <1>3, <2>1, <2>2
  <1>6. CASE a # "yes"
    <2>1. row = FailedWith(c, a)
      BY <1>6
    <2>2. /\ row \in Row /\ row.tries = c.tries + 1
          /\ row.state \in {"waiting", "dropped"}
          /\ row.state = "waiting" => c.tries + 1 < MaxTries
          /\ row.state = "dropped"
                => c.tries + 1 >= MaxTries \/ (queue = "orders" /\ a = "refused")
      BY <1>2, <2>1 DEF FailedWith, Row, State
    <2>3. /\ Reached(c.event, c.tries + 1)
          /\ a = "refused" => c.event \in refused
      BY <1>6 DEF IInv, AnswersOK
    <2>4. c.tries + 1 >= MaxTries => posts[c.event] = MaxTries
      BY <1>2, <1>4, <2>3 DEF Reached
    <2> QED BY <1>2, <1>3, <2>2, <2>3, <2>4
  <1> QED BY <1>5, <1>6

---------------------------------------------------------------------------
\* Every action keeps the invariant.

LEMMA RecordKeeps ==
    ASSUME IInv, NEW e \in Event, Record(e) PROVE IInv'
  <1>1. /\ rows' = [rows EXCEPT ![e].state = "due"] /\ threads' = threads \cup {e}
        /\ rows[e].state = "none" /\ rows \in [Event -> Row]
        /\ UNCHANGED <<queue, todo, posted, heard, posts, refused, crashes>>
    BY DEF Record, history, IInv, TypeOK
  <1>2. rows' \in [Event -> Row]
    BY <1>1 DEF Row, State
  <1>3. \A f \in Event : f # e => rows'[f] = rows[f]
    BY <1>1
  <1>4. rows'[e].state = "due" /\ rows'[e].tries = rows[e].tries
    BY <1>1 DEF Row
  <1>5. TypeOK'
    BY <1>1, <1>2, <1>3, <1>4 DEF IInv, TypeOK, Thread
  <1>6. Written \subseteq Written'
    BY <1>3, <1>4 DEF Written
  <1>7. RowsOK'
    <2>1. \A f \in Event : f # e => (f \in threads' <=> f \in threads)
      BY <1>1
    <2>2. rows[e].tries < MaxTries /\ rows[e].tries \in Nat /\ Reached(e, rows[e].tries)
      BY <1>1 DEF IInv, RowsOK, Row
    <2>3. e \in Written'
      BY <1>4 DEF Written
    <2> QED BY <1>1, <1>3, <1>4, <1>6, <2>1, <2>2, <2>3 DEF IInv, RowsOK, Reached
  <1>8. CopiesOK'
    <2> SUFFICES ASSUME NEW s \in Sender, NEW c \in InHand(s)
                 PROVE  /\ c.event \in Written' /\ Reached(c.event, c.tries)
                        /\ c.event \in threads' => c.tries < MaxTries
      BY <1>1 DEF CopiesOK, InHand, Reached
    <2>1. /\ c.event \in Written /\ Reached(c.event, c.tries)
          /\ c.event \in threads => c.tries < MaxTries
      BY DEF IInv, CopiesOK
    <2>2. c.event # e
      BY <1>1, <2>1 DEF Written
    <2> QED BY <1>1, <1>6, <2>1, <2>2
  <1>9. AnswersOK'
    BY <1>1 DEF IInv, AnswersOK, Reached
  <1>10. GivenUpLate'
    BY <1>1, <1>3, <1>4 DEF IInv, GivenUpLate
  <1> QED BY <1>5, <1>7, <1>8, <1>9, <1>10 DEF IInv

\* What s has in hand next it had, or has just copied from a row.
LEMMA NewCopies ==
    ASSUME IInv, NEW s \in Sender, NEW new,
           new \subseteq Copy,
           todo' = [todo EXCEPT ![s] = new], posted' = posted, posts' = posts,
           refused' = refused, rows' = rows, threads' \subseteq threads,
           \A c \in new : /\ c.event \in Written /\ Reached(c.event, c.tries)
                          /\ c.event \in threads' => c.tries < MaxTries
    PROVE  /\ todo' \in [Sender -> SUBSET Copy]
           /\ RowsOK' /\ CopiesOK' /\ AnswersOK'
  <1>1. todo' \in [Sender -> SUBSET Copy]
    BY DEF IInv, TypeOK
  <1>2. RowsOK'
    BY DEF IInv, RowsOK, Written, Reached
  <1>3. CopiesOK'
    <2> SUFFICES ASSUME NEW r \in Sender, NEW c \in InHand(r)'
                 PROVE  /\ c.event \in Written /\ Reached(c.event, c.tries)
                        /\ c.event \in threads' => c.tries < MaxTries
      BY DEF CopiesOK, Written, Reached
    <2>1. c \in InHand(r) \/ c \in new
      BY DEF InHand, IInv, TypeOK
    <2> QED BY <2>1 DEF IInv, CopiesOK
  <1>4. AnswersOK'
    BY DEF IInv, AnswersOK, Reached
  <1> QED BY <1>1, <1>2, <1>3, <1>4

LEMMA ThreadReadsKeeps ==
    ASSUME IInv, NEW e \in Event, ThreadReads(e) PROVE IInv'
  <1> DEFINE new == IF ThreadTakes(e) THEN {Copied(e)} ELSE {}
  <1>1. /\ e \in threads /\ threads' = threads \ {e} /\ e \in Sender
        /\ todo' = [todo EXCEPT ![e] = new]
        /\ UNCHANGED <<queue, rows, posted, heard, posts, refused, crashes>>
    BY DEF ThreadReads, history, Sender, Thread
  <1>2. /\ rows[e] \in Row /\ e \in Written /\ rows[e].tries <= MaxTries
        /\ rows[e].state # "delivered" => Reached(e, rows[e].tries)
    BY <1>1 DEF IInv, TypeOK, RowsOK
  <1>3. ThreadTakes(e) => rows[e].state # "delivered"
    BY DEF ThreadTakes
  <1>4. /\ Copied(e).event = e /\ Copied(e).tries = rows[e].tries
        /\ Copied(e) \in Copy
    BY <1>2 DEF Copied, Copy, Row
  <1>5. /\ todo' \in [Sender -> SUBSET Copy]
        /\ RowsOK' /\ CopiesOK' /\ AnswersOK'
    <2> HIDE DEF new
    <2>1. /\ new \subseteq Copy
          /\ \A c \in new : /\ c.event \in Written /\ Reached(c.event, c.tries)
                            /\ c.event \in threads' => c.tries < MaxTries
      BY <1>1, <1>2, <1>3, <1>4 DEF new
    <2> QED BY <1>1, <2>1, NewCopies
  <1>6. TypeOK' /\ GivenUpLate'
    BY <1>1, <1>5 DEF IInv, TypeOK, GivenUpLate
  <1> QED BY <1>5, <1>6 DEF IInv

LEMMA SweepKeeps ==
    ASSUME IInv, NEW s \in Sweepers, Sweep(s) PROVE IInv'
  <1> DEFINE new == {Copied(e) : e \in Due}
  <1>1. /\ todo' = [todo EXCEPT ![s] = new] /\ s \in Sender
        /\ UNCHANGED <<queue, rows, threads, posted, heard, posts, refused, crashes>>
    BY DEF Sweep, history, Sender
  <1>2. ASSUME NEW e \in Due
        PROVE  /\ Copied(e) \in Copy /\ Copied(e).event \in Written
               /\ Reached(Copied(e).event, Copied(e).tries)
               /\ Copied(e).tries < MaxTries
    <2>1. /\ e \in Event /\ rows[e].state = "due" /\ rows[e] \in Row
      BY DEF Due, IInv, TypeOK
    <2>2. /\ rows[e].tries < MaxTries /\ Reached(e, rows[e].tries)
      BY <2>1 DEF IInv, RowsOK
    <2> QED BY <2>1, <2>2 DEF Copied, Copy, Row, Written
  <1>3. /\ todo' \in [Sender -> SUBSET Copy]
        /\ RowsOK' /\ CopiesOK' /\ AnswersOK'
    <2>1. /\ new \subseteq Copy
          /\ \A c \in new : /\ c.event \in Written /\ Reached(c.event, c.tries)
                            /\ c.tries < MaxTries
      BY <1>2
    <2> HIDE DEF new
    <2> QED BY <1>1, <2>1, NewCopies
  <1>4. TypeOK' /\ GivenUpLate'
    BY <1>1, <1>3 DEF IInv, TypeOK, GivenUpLate
  <1> QED BY <1>3, <1>4 DEF IInv

LEMMA PostKeeps ==
    ASSUME IInv, NEW s \in Sender, Post(s) PROVE IInv'
  <1> DEFINE LaterReached(f, n) == n <= posts'[f] \/ posts'[f] = MaxTries
  <1>1. PICK c \in todo[s], a \in Answer :
            /\ posted[s] = NoAnswer
            /\ todo' = [todo EXCEPT ![s] = @ \ {c}]
            /\ posted' = [posted EXCEPT ![s] = [copy |-> c, answer |-> a]]
            /\ heard' \in (IF a = "yes" THEN {} ELSE {heard})
                             \cup (IF a = "refused" THEN {} ELSE {heard \cup {c.event}})
            /\ refused' = IF a = "refused" THEN refused \cup {c.event} ELSE refused
            /\ posts' = IF a = "yes" \/ posts[c.event] = MaxTries THEN posts
                                            ELSE [posts EXCEPT ![c.event] = @ + 1]
            /\ UNCHANGED <<queue, rows, threads, crashes>>
    BY DEF Post
  <1>2. /\ c \in Copy /\ c \in InHand(s) /\ c.event \in Event /\ c.tries \in 0..MaxTries
    BY <1>1 DEF IInv, TypeOK, InHand, Copy
  <1>3. /\ c.event \in Written /\ Reached(c.event, c.tries)
        /\ c.event \in threads => c.tries < MaxTries
    BY <1>2 DEF IInv, CopiesOK
  <1>4. /\ posts' \in [Event -> 0..MaxTries]
        /\ \A f \in Event : posts[f] <= posts'[f] /\ posts[f] \in 0..MaxTries
    <2>1. posts \in [Event -> 0..MaxTries]
      BY DEF IInv, TypeOK
    <2>2. posts[c.event] \in 0..MaxTries
      BY <1>2, <2>1
    <2> QED BY <1>1, <1>2, <2>1, <2>2
  <1>5. \A f \in Event, n \in Nat : Reached(f, n) => LaterReached(f, n)
    BY <1>4 DEF Reached
  <1>6. a # "yes" => LaterReached(c.event, c.tries + 1)
    <2> SUFFICES ASSUME a # "yes" PROVE LaterReached(c.event, c.tries + 1)
      OBVIOUS
    <2>1. CASE posts[c.event] = MaxTries
      BY <1>1, <2>1 DEF Reached
    <2>2. CASE posts[c.event] # MaxTries
      <3>1. posts'[c.event] = posts[c.event] + 1
        BY <1>1, <1>2, <2>2 DEF IInv, TypeOK
      <3>2. c.tries <= posts[c.event]
        BY <1>3, <2>2 DEF Reached
      <3> QED BY <1>2, <1>4, <3>1, <3>2 DEF Reached
    <2> QED BY <2>1, <2>2
  <1>7. /\ posted'[s] = [copy |-> c, answer |-> a] /\ posted'[s] # NoAnswer
        /\ \A r \in Sender : r # s => posted'[r] = posted[r]
        /\ \A r \in Sender : todo'[r] \subseteq todo[r]
        /\ refused \subseteq refused'
        /\ a = "refused" => c.event \in refused'
    <2>1. posted \in [Sender -> Answered \cup {NoAnswer}] /\ todo \in [Sender -> SUBSET Copy]
      BY DEF IInv, TypeOK
    <2>2. [copy |-> c, answer |-> a] # NoAnswer
      BY DEF NoAnswer, Answer
    <2> QED BY <1>1, <2>1, <2>2
  <1>8. TypeOK'
    <2>1. [copy |-> c, answer |-> a] \in Answered
      BY <1>2 DEF Answered
    <2> HIDE DEF Answered
    <2>2. heard' \subseteq Event /\ refused' \subseteq Event
      BY <1>1, <1>2 DEF IInv, TypeOK
    <2>3. /\ todo' \in [Sender -> SUBSET Copy]
          /\ posted' \in [Sender -> Answered \cup {NoAnswer}]
      BY <1>1, <2>1 DEF IInv, TypeOK
    <2> QED BY <1>1, <1>4, <2>2, <2>3 DEF IInv, TypeOK
  <1>9. RowsOK'
    <2>1. \A f \in Event : rows[f].tries \in Nat
      BY DEF IInv, TypeOK, Row
    <2>2. UNCHANGED <<rows, threads>>
      BY <1>1
    <2> QED BY <1>5, <2>1, <2>2 DEF IInv, RowsOK, Written, Reached
  <1>10. CopiesOK'
    <2> SUFFICES ASSUME NEW r \in Sender, NEW d \in InHand(r)'
                 PROVE  /\ d.event \in Written' /\ LaterReached(d.event, d.tries)
                        /\ d.event \in threads' => d.tries < MaxTries
      BY DEF CopiesOK, Reached
    <2>1. d \in InHand(r)
      BY <1>1, <1>2, <1>7 DEF InHand
    <2>2. d \in Copy
      BY <2>1, CopiesAreCopies DEF IInv
    <2>3. /\ d.event \in Written /\ Reached(d.event, d.tries)
          /\ d.event \in threads => d.tries < MaxTries
      BY <2>1 DEF IInv, CopiesOK
    <2> QED BY <1>1, <1>5, <2>2, <2>3 DEF Copy, Written
  <1>11. AnswersOK'
    <2> SUFFICES ASSUME NEW r \in Sender, posted'[r] # NoAnswer,
                        NEW d, d = posted'[r].copy, NEW b, b = posted'[r].answer
                 PROVE  /\ b # "yes" => LaterReached(d.event, d.tries + 1)
                        /\ b = "refused" => d.event \in refused'
      BY DEF AnswersOK, Reached
    <2>1. CASE r = s
      <3>1. b = a /\ d = c
        BY <1>7, <2>1
      <3> QED BY <1>6, <1>7, <3>1
    <2>2. CASE r # s
      <3>1. posted[r] # NoAnswer /\ d = posted[r].copy /\ b = posted[r].answer
        BY <1>7, <2>2
      <3>2. d \in Copy
        BY <3>1, CopiesAreCopies DEF IInv, Answered
      <3>3. /\ b # "yes" => Reached(d.event, d.tries + 1)
            /\ b = "refused" => d.event \in refused
        BY <3>1 DEF IInv, AnswersOK
      <3>4. d.event \in Event /\ d.tries + 1 \in Nat
        BY <3>2 DEF Copy
      <3> QED BY <1>5, <1>7, <3>3, <3>4
    <2> QED BY <2>1, <2>2
  <1>12. GivenUpLate'
    <2>1. \A f \in Event : posts[f] = MaxTries => posts'[f] = MaxTries
      BY <1>4
    <2> QED BY <1>1, <1>7, <2>1 DEF IInv, GivenUpLate
  <1> QED BY <1>8, <1>9, <1>10, <1>11, <1>12 DEF IInv

LEMMA SaveKeeps ==
    ASSUME IInv, NEW s \in Sender, Save(s) PROVE IInv'
  <1> DEFINE e == posted[s].copy.event
             row == IF posted[s].answer = "yes"
                    THEN Succeeded(posted[s].copy)
                    ELSE FailedWith(posted[s].copy, posted[s].answer)
  <1>1. /\ posted[s] # NoAnswer
        /\ rows' = [rows EXCEPT ![e] = row]
        /\ posted' = [posted EXCEPT ![s] = NoAnswer]
        /\ UNCHANGED <<queue, threads, todo, heard, posts, refused, crashes>>
    BY DEF Save, history
  <1>2. /\ e \in Written /\ row \in Row
        /\ row.state \in {"waiting", "delivered", "dropped"}
        /\ row.state = "waiting" => row.tries \in 1..MaxTries - 1
        /\ row.state # "delivered" => Reached(e, row.tries)
        /\ row.state = "dropped"
             => posts[e] = MaxTries \/ (queue = "orders" /\ e \in refused)
        /\ e \in threads => row.tries <= MaxTries
    BY <1>1, SavedRow
  <1>3. /\ e \in Event /\ rows \in [Event -> Row]
    BY <1>2 DEF Written, IInv, TypeOK
  <1> HIDE DEF e, row
  <1>4. /\ rows' \in [Event -> Row] /\ rows'[e] = row
        /\ \A f \in Event : f # e => rows'[f] = rows[f]
    BY <1>1, <1>2, <1>3
  <1>5. TypeOK'
    <2>1. posted' \in [Sender -> Answered \cup {NoAnswer}]
      BY <1>1 DEF IInv, TypeOK
    <2>2. \A f \in Event : rows'[f].state = "waiting" => rows'[f].tries \in 1..MaxTries - 1
      BY <1>2, <1>4 DEF IInv, TypeOK
    <2> QED BY <1>1, <1>4, <2>1, <2>2 DEF IInv, TypeOK
  <1>6. Written' = Written
    BY <1>2, <1>4 DEF Written
  <1>7. RowsOK'
    <2> SUFFICES ASSUME NEW f \in Event
                 PROVE  /\ rows'[f].state \in {"none", "due"} => rows'[f].tries < MaxTries
                        /\ f \in threads => f \in Written /\ rows'[f].tries <= MaxTries
                        /\ rows'[f].state # "delivered" => Reached(f, rows'[f].tries)
      BY <1>1, <1>6 DEF RowsOK, Reached
    <2>1. CASE f = e
      BY <1>2, <1>4, <2>1
    <2>2. CASE f # e
      BY <1>4, <2>2 DEF IInv, RowsOK
    <2> QED BY <2>1, <2>2
  <1>8. \A r \in Sender : InHand(r)' \subseteq InHand(r)
    BY <1>1 DEF InHand, IInv, TypeOK
  <1>9. CopiesOK'
    BY <1>1, <1>6, <1>8 DEF IInv, CopiesOK, Reached
  <1>10. AnswersOK'
    <2>1. \A r \in Sender : posted'[r] # NoAnswer => posted'[r] = posted[r]
      BY <1>1 DEF IInv, TypeOK
    <2> QED BY <1>1, <2>1 DEF IInv, AnswersOK, Reached
  <1>11. GivenUpLate'
    <2> SUFFICES ASSUME NEW f \in Event, rows'[f].state = "dropped"
                 PROVE  posts[f] = MaxTries \/ (queue = "orders" /\ f \in refused)
      BY <1>1 DEF GivenUpLate
    <2>1. CASE f = e
      BY <1>2, <1>4, <2>1
    <2>2. CASE f # e
      BY <1>4, <2>2 DEF IInv, GivenUpLate
    <2> QED BY <2>1, <2>2
  <1> QED BY <1>5, <1>7, <1>9, <1>10, <1>11 DEF IInv

LEMMA RetryKeeps ==
    ASSUME IInv, NEW e \in Event, RetryFallsDue(e) PROVE IInv'
  <1>1. /\ rows[e].state = "waiting" /\ rows' = [rows EXCEPT ![e].state = "due"]
        /\ rows \in [Event -> Row]
        /\ UNCHANGED <<queue, threads, todo, posted, heard, posts, refused, crashes>>
    BY DEF RetryFallsDue, history, IInv, TypeOK
  <1>2. /\ rows' \in [Event -> Row]
        /\ \A f \in Event : rows'[f].tries = rows[f].tries
        /\ \A f \in Event : f # e => rows'[f] = rows[f]
        /\ rows'[e].state = "due"
    BY <1>1 DEF Row, State
  <1>3. rows[e].tries \in 1..MaxTries - 1
    BY <1>1 DEF IInv, TypeOK
  <1>4. TypeOK'
    BY <1>1, <1>2 DEF IInv, TypeOK
  <1>5. Written' = Written
    BY <1>1, <1>2 DEF Written
  <1>6. RowsOK'
    <2> SUFFICES ASSUME NEW f \in Event
                 PROVE  /\ rows'[f].state \in {"none", "due"} => rows'[f].tries < MaxTries
                        /\ f \in threads => f \in Written /\ rows'[f].tries <= MaxTries
                        /\ rows'[f].state # "delivered" => Reached(f, rows'[f].tries)
      BY <1>1, <1>5 DEF RowsOK, Reached
    <2>1. CASE f = e
      BY <1>1, <1>2, <1>3, <2>1 DEF IInv, RowsOK
    <2>2. CASE f # e
      BY <1>2, <2>2 DEF IInv, RowsOK
    <2> QED BY <2>1, <2>2
  <1>7. CopiesOK' /\ AnswersOK'
    BY <1>1, <1>5 DEF IInv, CopiesOK, AnswersOK, InHand, Reached
  <1>8. GivenUpLate'
    BY <1>1, <1>2 DEF IInv, GivenUpLate
  <1> QED BY <1>4, <1>6, <1>7, <1>8 DEF IInv

LEMMA CrashKeeps ==
    ASSUME IInv, NEW s \in Sender, Crash(s) PROVE IInv'
  <1>1. /\ crashes < MaxCrashes /\ crashes' = crashes + 1
        /\ threads' = threads \ {s}
        /\ todo' = [todo EXCEPT ![s] = {}]
        /\ posted' = [posted EXCEPT ![s] = NoAnswer]
        /\ UNCHANGED <<queue, rows, heard, posts, refused>>
    BY DEF Crash, history
  <1>2. TypeOK'
    <2>1. crashes' \in 0..MaxCrashes
      BY <1>1 DEF IInv, TypeOK
    <2> QED BY <1>1, <2>1 DEF IInv, TypeOK
  <1>3. RowsOK'
    BY <1>1 DEF IInv, RowsOK, Written, Reached
  <1>4. \A r \in Sender : InHand(r)' \subseteq InHand(r)
    BY <1>1 DEF InHand, IInv, TypeOK
  <1>5. CopiesOK'
    BY <1>1, <1>4 DEF IInv, CopiesOK, Written, Reached
  <1>6. AnswersOK'
    <2>1. \A r \in Sender : posted'[r] # NoAnswer => posted'[r] = posted[r]
      BY <1>1 DEF IInv, TypeOK
    <2> QED BY <1>1, <2>1 DEF IInv, AnswersOK, Reached
  <1>7. GivenUpLate'
    BY <1>1 DEF IInv, GivenUpLate
  <1> QED BY <1>2, <1>3, <1>5, <1>6, <1>7 DEF IInv

LEMMA StepKeeps == IInv /\ [Next]_vars => IInv'
  <1> SUFFICES ASSUME IInv, [Next]_vars PROVE IInv'
    OBVIOUS
  <1>1. CASE UNCHANGED vars
    BY <1>1 DEF vars, IInv, TypeOK, RowsOK, CopiesOK, AnswersOK, GivenUpLate,
                Written, InHand, Reached
  <1>2. CASE Next
    BY <1>2, RecordKeeps, ThreadReadsKeeps, SweepKeeps, PostKeeps, SaveKeeps,
       RetryKeeps, CrashKeeps DEF Next
  <1> QED BY <1>1, <1>2

LEMMA Invariant == Spec => []IInv
  BY Starts, StepKeeps, PTL DEF Spec

\* The rows, the copies of them and the answers are what their types say: a
\* row that waits for its retry has tries left (FailedWith).
THEOREM TypeCorrect == Spec => []TypeOK
  <1>1. IInv => TypeOK
    BY DEF IInv
  <1> QED BY <1>1, Invariant, PTL

\* No event is given up before its last try has failed or it was refused,
\* however many senders save old copies of its row.
THEOREM GivenUpLateCorrect == Spec => []GivenUpLate
  <1>1. IInv => GivenUpLate
    BY DEF IInv
  <1> QED BY <1>1, Invariant, PTL

---------------------------------------------------------------------------
\* A save changes what is given up in the saved event only.
LEMMA SaveSettles ==
    ASSUME IInv, NEW s \in Sender, Save(s)
    PROVE  Promise!Next \/ UNCHANGED Promise!vars
  <1> DEFINE row == IF posted[s].answer = "yes"
                    THEN Succeeded(posted[s].copy)
                    ELSE FailedWith(posted[s].copy, posted[s].answer)
  <1>a. /\ posted[s] # NoAnswer /\ heard' = heard
        /\ rows' = [rows EXCEPT ![posted[s].copy.event] = row]
    BY DEF Save, history
  <1>b. /\ posted[s].copy.event \in Written /\ posted[s].copy.event \in Event
        /\ row.state \in {"waiting", "delivered", "dropped"}
    BY <1>a, SavedRow DEF Written
  <1> HIDE DEF row
  <1>1. PICK e \in Event : e = posted[s].copy.event
    BY <1>b
  <1>2. e \in Written /\ rows' = [rows EXCEPT ![e] = row]
    BY <1>a, <1>b, <1>1
  <1>3. /\ rows'[e] = row /\ \A f \in Event : f # e => rows'[f] = rows[f]
    BY <1>2 DEF IInv, TypeOK
  <1>4. Written' = Written
    BY <1>b, <1>2, <1>3 DEF Written
  <1>5. CASE row.state = "dropped"
    <2>1. {f \in Event : rows'[f].state = "dropped"}
            = {f \in Event : rows[f].state = "dropped"} \cup {e}
      BY <1>3, <1>5
    <2>2. Promise!GiveUp(e)
      BY <1>a, <1>2, <1>4, <2>1 DEF Promise!GiveUp
    <2> QED BY <2>2 DEF Promise!Next
  <1>6. CASE row.state # "dropped"
    <2>1. {f \in Event : rows'[f].state = "dropped"}
            = {f \in Event : rows[f].state = "dropped"} \ {e}
      BY <1>3, <1>6
    <2>2. Promise!Resume(e)
      BY <1>a, <1>4, <2>1 DEF Promise!Resume
    <2> QED BY <2>2 DEF Promise!Next
  <1> QED BY <1>5, <1>6

\* A post delivers an event that was written, or is not heard.
LEMMA PostDelivers ==
    ASSUME IInv, NEW s \in Sender, Post(s)
    PROVE  Promise!Next \/ UNCHANGED Promise!vars
  <1>1. PICK c \in todo[s] :
            /\ heard' = heard \/ heard' = heard \cup {c.event}
            /\ rows' = rows
    BY DEF Post
  <1>2. c.event \in Written /\ c.event \in Event
    BY DEF IInv, CopiesOK, InHand, Written
  <1>3. /\ Written' = Written
        /\ {f \in Event : rows'[f].state = "dropped"} = {f \in Event : rows[f].state = "dropped"}
    BY <1>1 DEF Written
  <1>4. CASE heard' = heard
    BY <1>3, <1>4 DEF Promise!vars
  <1>5. CASE heard' = heard \cup {c.event}
    <2>1. Promise!Deliver(c.event)
      BY <1>2, <1>3, <1>5 DEF Promise!Deliver
    <2> QED BY <1>2, <2>1 DEF Promise!Next
  <1> QED BY <1>1, <1>4, <1>5

\* Recording an event sends it.
LEMMA RecordSends ==
    ASSUME IInv, NEW e \in Event, Record(e) PROVE Promise!Next
  <1>1. /\ rows' = [rows EXCEPT ![e].state = "due"] /\ heard' = heard
        /\ rows[e].state = "none" /\ rows \in [Event -> Row]
    BY DEF Record, history, IInv, TypeOK
  <1>2. /\ rows'[e].state = "due"
        /\ \A f \in Event : f # e => rows'[f] = rows[f]
    BY <1>1 DEF Row
  <1>3. /\ Written' = Written \cup {e}
        /\ {f \in Event : rows'[f].state = "dropped"} = {f \in Event : rows[f].state = "dropped"}
    BY <1>1, <1>2 DEF Written
  <1>4. Promise!Send(e)
    BY <1>1, <1>3 DEF Promise!Send
  <1> QED BY <1>4 DEF Promise!Next

\* What is sent, heard and given up is left alone by the other steps.
LEMMA Stutters ==
    ASSUME IInv, UNCHANGED heard,
           UNCHANGED rows \/ \E e \in Event : RetryFallsDue(e)
    PROVE  UNCHANGED Promise!vars
  <1>1. CASE UNCHANGED rows
    BY <1>1 DEF Promise!vars, Written
  <1>2. ASSUME NEW e \in Event, RetryFallsDue(e)
        PROVE  UNCHANGED Promise!vars
    <2>1. /\ rows[e].state = "waiting" /\ rows' = [rows EXCEPT ![e].state = "due"]
          /\ rows \in [Event -> Row]
      BY <1>2 DEF RetryFallsDue, IInv, TypeOK
    <2>2. /\ rows'[e].state = "due"
          /\ \A f \in Event : f # e => rows'[f] = rows[f]
      BY <2>1 DEF Row
    <2>3. /\ Written' = Written
          /\ {f \in Event : rows'[f].state = "dropped"} = {f \in Event : rows[f].state = "dropped"}
      BY <2>1, <2>2 DEF Written
    <2> QED BY <2>3 DEF Promise!vars
  <1> QED BY <1>1, <1>2

\* Both outboxes do what AtLeastOnce allows, for any number of events, sweeps,
\* tries and crashes; that they do it in the end, the run checks.
THEOREM ImplementsAtLeastOnce ==
    Spec => Promise!Init /\ [][Promise!Next]_(Promise!vars)
  <1>1. Init => Promise!Init
    BY DEF Init, Promise!Init, Written
  <1>2. IInv /\ [Next]_vars => [Promise!Next]_(Promise!vars)
    <2> SUFFICES ASSUME IInv, [Next]_vars
                 PROVE  Promise!Next \/ UNCHANGED Promise!vars
      OBVIOUS
    <2>1. CASE UNCHANGED vars
      BY <2>1, Stutters DEF vars
    <2>2. ASSUME NEW e \in Event, Record(e) \/ ThreadReads(e) \/ RetryFallsDue(e)
          PROVE  Promise!Next \/ UNCHANGED Promise!vars
      BY <2>2, RecordSends, Stutters DEF ThreadReads, RetryFallsDue, history
    <2>3. ASSUME NEW s \in Sweepers, Sweep(s)
          PROVE  UNCHANGED Promise!vars
      BY <2>3, Stutters DEF Sweep, history
    <2>4. ASSUME NEW s \in Sender, Post(s) \/ Save(s) \/ Crash(s)
          PROVE  Promise!Next \/ UNCHANGED Promise!vars
      <3>1. Crash(s) => UNCHANGED <<rows, heard>>
        BY DEF Crash, history
      <3> QED BY <2>4, <3>1, PostDelivers, SaveSettles, Stutters
    <2> QED BY <2>1, <2>2, <2>3, <2>4 DEF Next
  <1> QED BY <1>1, <1>2, Invariant, PTL DEF Spec
=============================================================================
