-------------------------- MODULE PreService_proofs --------------------------
(***************************************************************************)
(* PreService: type correctness, and that work on a job starts only when   *)
(* somebody stands behind each of its three gates, for any number of jobs, *)
(* requests in flight, losses and submissions; and that isClockingInRef is *)
(* set exactly while a start runs, and that no gate passed is lost.  And   *)
(* the list of jobs beside it.                                             *)
(***************************************************************************)
EXTENDS PreService, SequenceTheorems, TLAPS

Handlers == Submits \cup {"auto"}   \* requests that save the row they read

\* What stands behind the gates of each job.
Vouches == [j \in Job |-> Vouched(j)]

\* c is a request of slot s whose row tells of gates vouched for in v.
CallOK(s, c, v) == c = Idle \/ (c \in Call /\ c.row \subseteq v[c.job])

CallsOK(cs, v) == cs \in [Slot -> Call \cup {Idle}] /\ \A s \in Slot : CallOK(s, cs[s], v)

\* The verification row tells of gates that are vouched for, and otp_verified of
\* a code that was given at the job.
ServerOK == \A j \in Job : /\ row[j] \subseteq Vouched(j)
                           /\ j \in verified <=> "otp" \in passed[j]

Shown == [job : Job, status : Status, in : BOOLEAN]

Typed ==
    /\ current \in Job /\ status \in [Job -> Status]
    /\ made \subseteq Job /\ row \in [Job -> SUBSET Gates]
    /\ verified \subseteq Job /\ works \subseteq Job \ {1}
    /\ clocked \in BOOLEAN /\ shown \in Shown /\ gates \subseteq Gates
    /\ passed \in [Job -> SUBSET Gates] /\ waived \subseteq Job

GateInv == Typed /\ ServerOK /\ CallsOK(calls, Vouches)

---------------------------------------------------------------------------
\* What stands behind a job's gates

\* A job vouches for itself.
LEMMA VouchedOwn ==
    ASSUME NEW j \in Job, passed[j] \in SUBSET Gates
    PROVE  /\ passed[j] \subseteq Vouched(j) /\ Vouched(j) \subseteq Gates
           /\ j \in waived => "geo" \in Vouched(j)
  <1>1. j \in Lineage(j)
    BY DEF Lineage, Job
  <1> QED BY <1>1 DEF Vouched, Gates

\* An inspection vouches for the job that was made from it.
LEMMA VouchedParent ==
    ASSUME NEW j \in Job, j \in works, 1 \notin works, PreServiceAssumption
    PROVE  j - 1 \in Job /\ Vouched(j - 1) \subseteq Vouched(j)
  <1>1. j \in Int /\ j # 1 /\ j - 1 \in Job
    BY DEF Job, PreServiceAssumption
  <1>2. Lineage(j - 1) \subseteq Lineage(j)
    <2> SUFFICES ASSUME NEW k \in Lineage(j - 1) PROVE k \in Lineage(j)
      OBVIOUS
    <2>1. k \in 1..(j - 1) /\ (k + 1)..(j - 1) \subseteq works
      BY DEF Lineage
    <2>2. \A i \in (k + 1)..j : i = j \/ i \in (k + 1)..(j - 1)
      BY <1>1, <2>1
    <2>3. k \in 1..j
      BY <1>1, <2>1
    <2> QED BY <2>1, <2>2, <2>3 DEF Lineage
  <1> QED BY <1>1, <1>2 DEF Vouched

\* What is vouched for stays so.
LEMMA VouchedStays ==
    ASSUME NEW j \in Job, PreServiceAssumption, works' = works, waived \subseteq waived',
           \A k \in Job : passed[k] \subseteq passed'[k]
    PROVE  Vouched(j) \subseteq Vouched(j)'
  <1>1. \A k \in Lineage(j) : k \in Job
    BY DEF Lineage, Job, PreServiceAssumption
  <1>2. Lineage(j)' = Lineage(j)
    BY DEF Lineage
  <1> QED BY <1>1, <1>2 DEF Vouched

\* The gates a job is started on are vouched for.
LEMMA GatesVouched ==
    ASSUME GateInv, PreServiceAssumption, NEW j \in Job
    PROVE  GatesOf(j) \subseteq Vouched(j) /\ GatesOf(j) \subseteq Gates
  <1>1. /\ passed[j] \subseteq Vouched(j) /\ Vouched(j) \subseteq Gates
        /\ row[j] \subseteq Vouched(j) /\ (j \in verified => "otp" \in passed[j])
    BY VouchedOwn DEF GateInv, Typed, ServerOK
  <1>2. Inherits(j) => row[j - 1] \subseteq Vouched(j)
    <2> SUFFICES ASSUME Inherits(j) PROVE row[j - 1] \subseteq Vouched(j)
      OBVIOUS
    <2>1. j \in works /\ 1 \notin works
      BY DEF Inherits, GateInv, Typed
    <2>2. j - 1 \in Job /\ Vouched(j - 1) \subseteq Vouched(j)
      BY <2>1, VouchedParent
    <2> QED BY <2>2 DEF GateInv, ServerOK
  <1> QED BY <1>1, <1>2 DEF GatesOf, Synced

---------------------------------------------------------------------------
\* Requests

LEMMA IdleIsNoCall == Idle \notin Call
  BY DEF Idle, Call

\* A request made now has read nothing.
LEMMA NewRequest ==
    ASSUME NEW j \in Job, NEW s, NEW p, NEW b \in SUBSET Gates, NEW w \in Status
    PROVE  /\ CallOK(s, Request(j), p)
           /\ CallOK(s, [Request(j) EXCEPT !.base = b], p)
           /\ CallOK(s, [Request(j) EXCEPT !.was = w], p)
  BY DEF CallOK, Request, Call, Status

\* Putting a request into a slot, while gates may be passed.
LEMMA Advanced ==
    ASSUME NEW cs, NEW p \in [Job -> SUBSET Gates], NEW q \in [Job -> SUBSET Gates],
           CallsOK(cs, p), \A j \in Job : p[j] \subseteq q[j],
           NEW s \in Slot, NEW c, CallOK(s, c, q)
    PROVE  CallsOK([cs EXCEPT ![s] = c], q)
  <1>1. cs \in [Slot -> Call \cup {Idle}] /\ \A r \in Slot : CallOK(r, cs[r], p)
    BY DEF CallsOK
  <1>2. [cs EXCEPT ![s] = c] \in [Slot -> Call \cup {Idle}]
    BY <1>1 DEF CallOK
  <1>3. ASSUME NEW r \in Slot PROVE CallOK(r, [cs EXCEPT ![s] = c][r], q)
    <2>1. CASE r = s
      BY <1>1, <2>1
    <2>2. CASE r # s
      <3>1. [cs EXCEPT ![s] = c][r] = cs[r] /\ CallOK(r, cs[r], p)
        BY <1>1, <2>2
      <3>2. cs[r] \in Call => cs[r].job \in Job
        BY DEF Call
      <3> QED BY <3>1, <3>2 DEF CallOK
    <2> QED BY <2>1, <2>2
  <1> QED BY <1>2, <1>3 DEF CallsOK

\* What a handler keeps of a request that is done.
LEMMA DoneIsCall ==
    ASSUME NEW s, NEW c \in Call, NEW p,
           NEW r \in {"sent", "read", "saved", "ok", "no", "reload"}
    PROVE  CallOK(s, Done(c, r), p)
  BY DEF CallOK, Done, Call, Status

---------------------------------------------------------------------------
LEMMA Starts == ASSUME PreServiceAssumption, Init PROVE GateInv
  <1>1. 1 \in Job
    BY DEF Job, PreServiceAssumption
  <1>2. Typed
    BY <1>1 DEF Init, Typed, Shown, Status, Gates
  <1>3. ServerOK
    BY DEF Init, ServerOK
  <1>4. CallsOK(calls, Vouches)
    BY DEF Init, CallsOK, CallOK
  <1> QED BY <1>2, <1>3, <1>4 DEF GateInv

\* A step of the history, of the rows and of one request.
LEMMA GateStep ==
    ASSUME GateInv, PreServiceAssumption, Typed', UNCHANGED works,
           waived \subseteq waived', \A k \in Job : passed[k] \subseteq passed'[k],
           \A k \in Job : /\ row'[k] \subseteq Vouched(k)'
                          /\ k \in verified' <=> "otp" \in passed'[k],
           \/ calls' = calls
           \/ \E s \in Slot : \E c : calls' = [calls EXCEPT ![s] = c] /\ CallOK(s, c, Vouches')
    PROVE  GateInv'
  <1>1. \A j \in Job : Vouches[j] \subseteq Vouches'[j]
    BY VouchedStays DEF Vouches
  <1>2. \A j \in Job : passed[j] \in SUBSET Gates /\ passed'[j] \in SUBSET Gates
    BY DEF GateInv, Typed
  <1>3. Vouches \in [Job -> SUBSET Gates] /\ Vouches' \in [Job -> SUBSET Gates]
    BY DEF Vouches, Vouched
  <1>4. CallsOK(calls', Vouches')
    <2>1. CASE calls' = calls
      <3>1. \A s \in Slot : calls[s] \in Call => calls[s].job \in Job
        BY DEF Call
      <3>2. CallsOK(calls, Vouches)
        BY DEF GateInv
      <3> QED BY <1>1, <2>1, <3>1, <3>2 DEF CallsOK, CallOK
    <2>2. CASE calls' # calls
      <3>1. PICK s \in Slot : \E c : calls' = [calls EXCEPT ![s] = c] /\ CallOK(s, c, Vouches')
        BY <2>2
      <3>2. PICK c : calls' = [calls EXCEPT ![s] = c] /\ CallOK(s, c, Vouches')
        BY <3>1
      <3>3. CallsOK(calls, Vouches)
        BY DEF GateInv
      <3>4. CallsOK([calls EXCEPT ![s] = c], Vouches')
        BY <1>1, <1>3, <3>2, <3>3, Advanced
      <3> QED BY <3>2, <3>4
    <2> QED BY <2>1, <2>2
  <1>5. ServerOK'
    BY DEF ServerOK
  <1> QED BY <1>4, <1>5 DEF GateInv, CallsOK, CallOK

\* A step that changes requests only.
LEMMA CallsStep ==
    ASSUME GateInv,
           UNCHANGED <<current, status, made, row, verified, works, clocked, history>>,
           shown' \in Shown, gates' \subseteq Gates,
           CallsOK(calls', Vouches)
    PROVE  GateInv'
  <1>1. Vouches' = Vouches /\ \A j \in Job : Vouched(j)' = Vouched(j)
    BY DEF Vouches, Vouched, Lineage, history
  <1> QED BY <1>1 DEF GateInv, Typed, ServerOK, CallsOK, CallOK, history

---------------------------------------------------------------------------
\* The server

\* What a request in slot s is, if there is one.
LEMMA CallIn ==
    ASSUME GateInv, NEW s \in Slot, calls[s] # Idle
    PROVE  /\ calls[s] \in Call /\ calls[s].job \in Job
           /\ calls[s].row \subseteq Vouched(calls[s].job)
           /\ calls[s].row \subseteq Gates
  BY DEF GateInv, CallsOK, CallOK, Call, Vouches

\* A request of the server that only advances, perhaps making an empty row.
LEMMA AdvanceKeeps ==
    ASSUME GateInv, NEW s \in Slot, NEW c, Advance(s, c), CallOK(s, c, Vouches),
           UNCHANGED <<current, status, row, verified, works, clocked, client, history>>,
           made' \subseteq Job
    PROVE  GateInv'
  <1>1. Vouches \in [Job -> SUBSET Gates]
    BY DEF Vouches, Vouched
  <1>2. CallsOK(calls', Vouches)
    BY <1>1, Advanced DEF GateInv, Advance
  <1>3. Vouches' = Vouches /\ \A j \in Job : Vouched(j)' = Vouched(j)
    BY DEF Vouches, Vouched, Lineage, history
  <1> QED BY <1>2, <1>3 DEF GateInv, Typed, ServerOK, CallsOK, CallOK, history, client

\* A row is saved: its gates were vouched for, and one more is.
LEMMA SaveKeeps ==
    ASSUME GateInv, PreServiceAssumption, NEW s \in Slot, NEW j \in Job, NEW g \in Gates,
           NEW newRow, newRow \subseteq Vouched(j) \cup {g},
           Saves(j, newRow, g), NEW c, Advance(s, c), CallOK(s, c, Vouches'),
           status' \in [Job -> Status],
           IF g = "otp" THEN verified' = verified \cup {j} ELSE verified' = verified
    PROVE  GateInv'
  <1>1. /\ row' = [row EXCEPT ![j] = newRow]
        /\ passed' = [passed EXCEPT ![j] = @ \cup {g}]
        /\ UNCHANGED <<current, made, works, clocked, client, waived>>
    BY DEF Saves
  <1>2. newRow \in SUBSET Gates
    BY DEF Vouched
  <1>3. /\ row' \in [Job -> SUBSET Gates] /\ row'[j] = newRow
        /\ passed' \in [Job -> SUBSET Gates] /\ passed'[j] = passed[j] \cup {g}
        /\ \A k \in Job : k # j => row'[k] = row[k] /\ passed'[k] = passed[k]
    BY <1>1, <1>2 DEF GateInv, Typed
  <1>4. verified' \subseteq Job
    BY DEF GateInv, Typed
  <1>5. Typed'
    BY <1>1, <1>3, <1>4 DEF GateInv, Typed, client
  <1>6. \A k \in Job : passed[k] \subseteq passed'[k]
    BY <1>3
  <1>7. \A k \in Job : Vouched(k) \subseteq Vouched(k)'
    BY <1>1, <1>6, VouchedStays
  <1>8. g \in Vouched(j)'
    <2>1. g \in passed'[j] /\ j \in Lineage(j)'
      BY <1>3 DEF Lineage, Job
    <2> QED BY <2>1 DEF Vouched
  <1>9. \A k \in Job : row'[k] \subseteq Vouched(k)'
    <2> SUFFICES ASSUME NEW k \in Job PROVE row'[k] \subseteq Vouched(k)'
      OBVIOUS
    <2>1. CASE k = j
      BY <1>3, <1>7, <1>8, <2>1
    <2>2. CASE k # j
      BY <1>3, <1>7, <2>2 DEF GateInv, ServerOK
    <2> QED BY <2>1, <2>2
  <1>10. \A k \in Job : k \in verified' <=> "otp" \in passed'[k]
    <2>1. \A k \in Job : k \in verified <=> "otp" \in passed[k]
      BY DEF GateInv, ServerOK
    <2> QED BY <1>3, <2>1
  <1> QED BY <1>1, <1>5, <1>6, <1>9, <1>10, GateStep DEF Advance

\* The row that a view reads, or makes.
LEMMA ReadKeeps ==
    ASSUME GateInv, NEW s \in Slot, ReadRow(s) \/ ReadStatus(s) PROVE GateInv'
  <1> DEFINE c == calls[s]
  <1>1. /\ c \in Call /\ c.job \in Job /\ status[c.job] \in Status
        /\ row[c.job] \subseteq Gates /\ row[c.job] \subseteq Vouches[c.job]
    <2>1. c \in Call /\ c.job \in Job
      BY CallIn DEF ReadRow, ReadStatus
    <2> QED BY <2>1 DEF GateInv, Typed, ServerOK, Vouches
  <1>2. /\ UNCHANGED <<current, status, row, verified, works, clocked, client, history>>
        /\ made' \subseteq Job
    BY <1>1 DEF ReadRow, ReadStatus, server, GateInv, Typed
  <1>3. CallOK(s, Done(c, "no"), Vouches)
    BY <1>1, DoneIsCall
  <1>4. CASE ReadRow(s)
    <2> DEFINE read == [c EXCEPT !.pc = IF s = "start" THEN "saved" ELSE "read",
                                 !.row = IF s = "start" THEN {} ELSE row[c.job],
                                 !.was = IF s = "arrive" THEN @ ELSE status[c.job]]
    <2>1. Advance(s, read) \/ Advance(s, Done(c, "no"))
      BY <1>4 DEF ReadRow
    <2>2. CallOK(s, read, Vouches)
      <3>1. /\ read \in Call /\ read.job = c.job
            /\ read.row = IF s = "start" THEN {} ELSE row[c.job]
        BY <1>1 DEF Call
      <3> HIDE DEF read, c
      <3> QED BY <1>1, <3>1 DEF CallOK
    <2> HIDE DEF read, c
    <2> QED BY <1>2, <1>3, <2>1, <2>2, AdvanceKeeps
  <1>5. CASE ReadStatus(s)
    <2> DEFINE told == [c EXCEPT !.pc = "ok", !.row = row[c.job]]
    <2>1. Advance(s, told) \/ Advance(s, Done(c, "no"))
      BY <1>5 DEF ReadStatus
    <2>2. CallOK(s, told, Vouches)
      <3>1. told \in Call /\ told.job = c.job /\ told.row = row[c.job]
        BY <1>1 DEF Call
      <3> HIDE DEF told, c
      <3> QED BY <1>1, <3>1 DEF CallOK
    <2> HIDE DEF told, c
    <2> QED BY <1>2, <1>3, <2>1, <2>2, AdvanceKeeps
  <1> QED BY <1>4, <1>5

\* The row that the code's view makes is vouched for: the arrival is waived.
LEMMA OtpReadKeeps ==
    ASSUME GateInv, PreServiceAssumption, ReadOtp PROVE GateInv'
  <1> DEFINE c == calls["otp"]
             known == [c EXCEPT !.pc = "saved", !.was = status[c.job]]
             read == [c EXCEPT !.pc = "read", !.row = row'[c.job], !.was = status[c.job]]
  <1>1. "otp" \in Slot /\ c # Idle
    BY DEF Slot, Submits, ReadOtp
  <1>2. /\ c \in Call /\ c.job \in Job /\ c.row \subseteq Vouched(c.job)
        /\ status[c.job] \in Status
    BY <1>1, CallIn DEF GateInv, Typed
  <1>3. /\ UNCHANGED <<current, status, verified, works, clocked, client, passed>>
        /\ \/ Advance("otp", Done(c, "no")) /\ UNCHANGED <<made, row, waived>>
           \/ /\ MakesRow(c)
              /\ Advance("otp", Done(c, "no")) \/ Advance("otp", known) \/ Advance("otp", read)
    BY Zenon DEF ReadOtp
  <1>4. /\ row' = row /\ waived' = waived
        \/ /\ row' = [row EXCEPT ![c.job] = {"geo"}] /\ waived' = waived \cup {c.job}
    BY <1>3 DEF MakesRow
  <1>5. made' \subseteq Job
    BY <1>2, <1>3 DEF MakesRow, GateInv, Typed
  <1>6. /\ row' \in [Job -> SUBSET Gates] /\ waived' \subseteq Job /\ waived \subseteq waived'
        /\ \A k \in Job : \/ row'[k] = row[k]
                          \/ row'[k] = {"geo"} /\ k \in waived'
    BY <1>2, <1>4 DEF GateInv, Typed, Gates
  <1>7. Typed'
    BY <1>3, <1>5, <1>6 DEF GateInv, Typed, client
  <1>8. \A k \in Job : Vouched(k) \subseteq Vouched(k)'
    BY <1>3, <1>6, VouchedStays
  <1>9. \A k \in Job : row'[k] \subseteq Vouched(k)'
    <2> SUFFICES ASSUME NEW k \in Job PROVE row'[k] \subseteq Vouched(k)'
      OBVIOUS
    <2>1. CASE row'[k] = row[k]
      BY <1>8, <2>1 DEF GateInv, ServerOK
    <2>2. CASE row'[k] = {"geo"} /\ k \in waived'
      <3>1. k \in Lineage(k)' /\ "geo" \in Gates
        BY DEF Lineage, Job, Gates
      <3>2. "geo" \in Vouched(k)'
        BY <2>2, <3>1 DEF Vouched
      <3> QED BY <2>2, <3>2
    <2> QED BY <1>6, <2>1, <2>2
  <1>10. /\ CallOK("otp", Done(c, "no"), Vouches')
         /\ CallOK("otp", known, Vouches') /\ CallOK("otp", read, Vouches')
    <2>1. CallOK("otp", Done(c, "no"), Vouches')
      BY <1>2, DoneIsCall
    <2>2. /\ known \in Call /\ known.job = c.job /\ known.row = c.row
      BY <1>2 DEF Call
    <2>3. /\ read \in Call /\ read.job = c.job /\ read.row = row'[c.job]
      BY <1>2, <1>6 DEF Call
    <2>4. \A k \in Job : /\ Vouches'[k] = Vouched(k)' /\ row'[k] \subseteq Vouches'[k]
                         /\ Vouched(k) \subseteq Vouches'[k]
      BY <1>8, <1>9 DEF Vouches
    <2>5. row'[c.job] \subseteq Vouches'[c.job] /\ c.row \subseteq Vouches'[c.job]
      BY <1>2, <2>4
    <2> HIDE DEF known, read, c
    <2> QED BY <1>2, <2>1, <2>2, <2>3, <2>4, <2>5 DEF CallOK
  <1>11. \E d : calls' = [calls EXCEPT !["otp"] = d] /\ CallOK("otp", d, Vouches')
    <2> HIDE DEF c, known, read
    <2> QED BY <1>3, <1>10 DEF Advance
  <1>12. \A k \in Job : /\ passed[k] \subseteq passed'[k]
                        /\ k \in verified' <=> "otp" \in passed'[k]
    BY <1>3 DEF GateInv, ServerOK
  <1> HIDE DEF c, known, read
  <1> QED BY <1>1, <1>3, <1>6, <1>7, <1>9, <1>11, <1>12, GateStep

LEMMA SavesKeep ==
    ASSUME GateInv, PreServiceAssumption,
           NEW s \in Slot, \/ s = "arrive" /\ SaveArrival
                           \/ s = "otp" /\ SaveOtp
                           \/ s = "photo" /\ SavePhoto
                           \/ s = "auto" /\ SaveAutoArrival
    PROVE  GateInv'
  <1> DEFINE c == calls[s]
             d == [c EXCEPT !.pc = "saved", !.row = {}]
  <1>1. c # Idle
    BY DEF SaveArrival, SaveOtp, SavePhoto, SaveAutoArrival
  <1>2. /\ c \in Call /\ c.job \in Job /\ c.row \subseteq Vouched(c.job)
    BY <1>1, CallIn
  <1>3. /\ CallOK(s, Done(c, "ok"), Vouches') /\ CallOK(s, d, Vouches')
        /\ CallOK(s, Idle, Vouches')
    <2>1. CallOK(s, Done(c, "ok"), Vouches')
      BY <1>2, DoneIsCall
    <2>2. d \in Call /\ d.row = {}
      BY <1>2 DEF Call
    <2> HIDE DEF d, c
    <2> QED BY <2>1, <2>2 DEF CallOK
  <1>4. status' \in [Job -> Status]
    BY DEF SaveArrival, SaveOtp, SavePhoto, SaveAutoArrival, GateInv, Typed, Status
  <1>5. \A gs : Synced(c.job, gs) \subseteq gs \cup Vouched(c.job)
    <2>1. c.job \in verified => "otp" \in Vouched(c.job)
      BY <1>2, VouchedOwn DEF GateInv, Typed, ServerOK
    <2> QED BY <2>1 DEF Synced
  <1>6. "geo" \in Gates /\ "otp" \in Gates /\ "photo" \in Gates
    BY DEF Gates
  <1>7. \E g \in Gates : \E newRow : /\ newRow \subseteq Vouched(c.job) \cup {g}
                                     /\ Saves(c.job, newRow, g)
                                     /\ IF g = "otp"
                                        THEN verified' = verified \cup {c.job}
                                        ELSE verified' = verified
    <2>1. CASE s = "arrive" /\ SaveArrival
      <3>1. /\ Saves(c.job, Synced(c.job, (c.row \ {"otp"}) \cup {"geo"}), "geo")
            /\ verified' = verified
        BY <2>1 DEF SaveArrival
      <3>2. Synced(c.job, (c.row \ {"otp"}) \cup {"geo"}) \subseteq Vouched(c.job) \cup {"geo"}
        BY <1>2, <1>5
      <3> HIDE DEF c
      <3> QED BY <1>6, <3>1, <3>2
    <2>2. CASE s = "otp" /\ SaveOtp
      <3>1. /\ Saves(c.job, c.row \cup {"otp"}, "otp") /\ verified' = verified \cup {c.job}
        BY <2>2 DEF SaveOtp
      <3>2. c.row \cup {"otp"} \subseteq Vouched(c.job) \cup {"otp"}
        BY <1>2
      <3> HIDE DEF c
      <3> QED BY <1>6, <3>1, <3>2
    <2>3. CASE s = "photo" /\ SavePhoto
      <3>1. /\ Saves(c.job, Synced(c.job, c.row \cup {"photo"}), "photo")
            /\ verified' = verified
        BY <2>3 DEF SavePhoto
      <3>2. Synced(c.job, c.row \cup {"photo"}) \subseteq Vouched(c.job) \cup {"photo"}
        BY <1>2, <1>5
      <3> HIDE DEF c
      <3> QED BY <1>6, <3>1, <3>2
    <2>4. CASE s = "auto" /\ SaveAutoArrival
      <3>1. PICK kept \in {c.row, c.row \ {"otp"}} :
                Saves(c.job, Synced(c.job, kept \cup {"geo"}), "geo")
        BY <2>4 DEF SaveAutoArrival
      <3>2. Synced(c.job, kept \cup {"geo"}) \subseteq Vouched(c.job) \cup {"geo"}
        BY <1>2, <1>5
      <3>3. verified' = verified
        BY <2>4 DEF SaveAutoArrival
      <3> HIDE DEF c
      <3> QED BY <1>6, <3>1, <3>2, <3>3
    <2> QED BY <2>1, <2>2, <2>3, <2>4
  <1>8. Advance(s, Done(c, "ok")) \/ Advance(s, d) \/ Advance(s, Idle)
    BY DEF SaveArrival, SaveOtp, SavePhoto, SaveAutoArrival
  <1> HIDE DEF c, d
  <1> QED BY <1>2, <1>3, <1>4, <1>7, <1>8, SaveKeeps

\* The starter, and the step that changes which job is current.
LEMMA StartKeeps ==
    ASSUME GateInv, PreServiceAssumption, NEW s \in Slot, EnsureStarted(s) PROVE GateInv'
  <1> DEFINE c == calls[s]
             d == Done(c, IF s = "start" /\ ~Complete(c.job) THEN "no" ELSE "ok")
  <1>1. /\ c # Idle /\ Advance(s, d)
        /\ status' \in {status, [status EXCEPT ![c.job] = "working"]}
        /\ clocked' = (clocked \/ Complete(c.job))
        /\ made' \subseteq made \cup {c.job}
        /\ row' = [row EXCEPT ![c.job] = GatesOf(c.job)]
        /\ UNCHANGED <<current, verified, works, client, history>>
    BY DEF EnsureStarted
  <1>2. c \in Call /\ c.job \in Job /\ CallOK(s, d, Vouches')
    BY <1>1, CallIn, DoneIsCall
  <1>3. GatesOf(c.job) \subseteq Vouched(c.job) /\ GatesOf(c.job) \subseteq Gates
    BY <1>2, GatesVouched
  <1> HIDE DEF c, d
  <1>4. clocked' \in BOOLEAN /\ status' \in [Job -> Status] /\ made' \subseteq Job
    BY <1>1, <1>2 DEF GateInv, Typed, Status
  <1>5. /\ row' \in [Job -> SUBSET Gates]
        /\ \A k \in Job : row'[k] = row[k] \/ (k = c.job /\ row'[k] = GatesOf(k))
    BY <1>1, <1>2, <1>3 DEF GateInv, Typed
  <1>6. Typed'
    BY <1>1, <1>4, <1>5 DEF GateInv, Typed, client, history
  <1>7. \A k \in Job : Vouched(k)' = Vouched(k)
    BY <1>1 DEF Vouched, Lineage, history
  <1>8. \A k \in Job : /\ row'[k] \subseteq Vouched(k)'
                       /\ k \in verified' <=> "otp" \in passed'[k]
    BY <1>1, <1>3, <1>5, <1>7 DEF GateInv, ServerOK, history
  <1>9. waived' = waived /\ passed' = passed /\ works' = works
    BY <1>1 DEF history
  <1> QED BY <1>1, <1>2, <1>6, <1>8, <1>9, GateStep DEF Advance

LEMMA AutoKeeps == ASSUME GateInv, AutoArrive PROVE GateInv'
  <1> DEFINE c == [Request(current) EXCEPT !.pc = "read", !.row = row[current]]
  <1>1. /\ Advance("auto", c) /\ "auto" \in Slot
        /\ UNCHANGED <<current, status, row, verified, works, clocked, client, history>>
    BY DEF AutoArrive, Slot
  <1>2. /\ current \in Job /\ row[current] \subseteq Gates
        /\ row[current] \subseteq Vouches[current] /\ made' \subseteq Job
    BY DEF GateInv, Typed, ServerOK, Vouches, AutoArrive
  <1>3. c \in Call /\ c.job = current /\ c.row = row[current]
    BY <1>2 DEF Call, Request, Status
  <1> HIDE DEF c
  <1>4. CallOK("auto", c, Vouches)
    BY <1>2, <1>3 DEF CallOK
  <1> QED BY <1>1, <1>2, <1>4, AdvanceKeeps

LEMMA NextJobKeeps == ASSUME PreServiceAssumption, GateInv, NextJob PROVE GateInv'
  <1> DEFINE j == current + 1
  <1>1. /\ current' = j /\ current < MaxJob
        /\ status' = [status EXCEPT ![current] = "over"]
        /\ clocked' \in {clocked, FALSE}
        /\ UNCHANGED <<verified, works, calls, client, history>>
    BY DEF NextJob
  <1>2. j \in Job /\ j - 1 = current
    BY <1>1 DEF GateInv, Typed, Job, PreServiceAssumption
  <1>3. \/ row' = row /\ made' = made
        \/ /\ Inherits(j) /\ row' = [row EXCEPT ![j] = row[current]]
           /\ made' = made \cup {j}
    BY DEF NextJob
  <1>4. Inherits(j) => row[current] \subseteq Vouched(j) /\ row[current] \subseteq Gates
    <2> SUFFICES ASSUME Inherits(j)
                 PROVE  row[current] \subseteq Vouched(j) /\ row[current] \subseteq Gates
      OBVIOUS
    <2>1. GatesOf(j) \subseteq Vouched(j) /\ GatesOf(j) \subseteq Gates
      BY <1>2, GatesVouched
    <2> HIDE DEF j
    <2> QED BY <1>2, <2>1 DEF GatesOf, Synced
  <1>5. status' \in [Job -> Status] /\ clocked' \in BOOLEAN /\ made' \subseteq Job
    BY <1>1, <1>2, <1>3 DEF GateInv, Typed, Status
  <1> HIDE DEF j
  <1>6. /\ row' \in [Job -> SUBSET Gates]
        /\ \A k \in Job : row'[k] = row[k] \/ row'[k] \subseteq Vouched(k)
    BY <1>2, <1>3, <1>4 DEF GateInv, Typed
  <1>7. Typed'
    BY <1>1, <1>2, <1>5, <1>6 DEF GateInv, Typed, client, history
  <1>8. \A k \in Job : Vouched(k)' = Vouched(k)
    BY <1>1 DEF Vouched, Lineage, history
  <1>9. \A k \in Job : /\ row'[k] \subseteq Vouched(k)'
                       /\ k \in verified' <=> "otp" \in passed'[k]
    BY <1>1, <1>6, <1>8 DEF GateInv, ServerOK, history
  <1>10. waived' = waived /\ passed' = passed /\ works' = works
    BY <1>1 DEF history
  <1> QED BY <1>1, <1>7, <1>9, <1>10, GateStep

---------------------------------------------------------------------------
\* The dashboard

LEMMA TriesKeep ==
    ASSUME GateInv, TryArrive \/ TryOtp \/ TryPhoto \/ Poll PROVE GateInv'
  <1>1. shown.job \in Job /\ gates \in SUBSET Gates /\ shown.status \in Status
    BY DEF GateInv, Typed, Shown
  <1>2. ASSUME NEW s \in Submits, Tries(s) PROVE GateInv'
    <2>1. PICK b \in SUBSET Gates : Advance(s, [Request(shown.job) EXCEPT !.base = b])
      BY <1>1, <1>2 DEF Tries
    <2>2. s \in Slot
      BY DEF Slot
    <2>3. CallOK(s, [Request(shown.job) EXCEPT !.base = b], Vouches)
      BY <1>1, <2>2, NewRequest
    <2>4. UNCHANGED <<current, status, made, row, verified, works, clocked, client, history>>
      BY <1>2 DEF Tries, server
    <2> QED BY <2>1, <2>2, <2>3, <2>4, AdvanceKeeps DEF GateInv, Typed
  <1>3. CASE Poll
    <2>1. /\ Advance("poll", [Request(shown.job) EXCEPT !.was = shown.status])
          /\ UNCHANGED <<current, status, made, row, verified, works, clocked, client, history>>
      BY <1>3 DEF Poll, server
    <2>2. "poll" \in Slot
      BY DEF Slot
    <2>3. CallOK("poll", [Request(shown.job) EXCEPT !.was = shown.status], Vouches)
      BY <1>1, <2>2, NewRequest
    <2> QED BY <2>1, <2>2, <2>3, AdvanceKeeps DEF GateInv, Typed
  <1>4. "arrive" \in Submits /\ "otp" \in Submits /\ "photo" \in Submits
    BY DEF Submits
  <1> QED BY <1>2, <1>3, <1>4 DEF TryArrive, TryOtp, TryPhoto

LEMMA FreedSlot ==
    ASSUME GateInv, NEW s \in Slot PROVE CallsOK(Without(s), Vouches)
  <1>1. CallOK(s, Idle, Vouches)
    BY DEF CallOK
  <1>2. Vouches \in [Job -> SUBSET Gates]
    BY DEF Vouches, Vouched
  <1> QED BY <1>1, <1>2, Advanced DEF Without, GateInv

\* What is shown after an answer is what an answer or the list said; a start it
\* causes is a request about a job, and no more than that.
LEMMA RenderKeeps ==
    ASSUME GateInv, NEW about, NEW g \in SUBSET Gates, NEW sh,
           sh \in Shown, NEW left, CallsOK(left, Vouches),
           NEW mine \in SUBSET Job, Render(about, g, sh, left, mine)
    PROVE  GateInv'
  <1> DEFINE effect == /\ (g # gates \/ sh # shown)
                       /\ sh.status \in Open /\ ~sh.in /\ g = Gates
             job == IF effect THEN {sh.job} ELSE mine
             chosen == CHOOSE j \in job : TRUE
  <1>1. /\ gates' = g /\ shown' = sh
        /\ calls' = IF left["start"] = Idle /\ job # {}
                    THEN [left EXCEPT !["start"] = Request(chosen)] ELSE left
        /\ UNCHANGED <<current, status, made, row, verified, works, clocked, history>>
    BY DEF Render, server
  <1>2. job \subseteq Job
    BY DEF Shown
  <1> HIDE DEF job
  <1>3. job # {} => chosen \in Job
    BY <1>2
  <1>4. "start" \in Slot
    BY DEF Slot
  <1> HIDE DEF chosen
  <1>5. CallsOK(calls', Vouches)
    <2>1. CASE left["start"] = Idle /\ job # {}
      <3>1. CallOK("start", Request(chosen), Vouches)
        BY <1>3, <1>4, <2>1, NewRequest DEF Status
      <3>2. Vouches \in [Job -> SUBSET Gates]
        BY DEF Vouches, Vouched
      <3> QED BY <1>1, <1>4, <2>1, <3>1, <3>2, Advanced
    <2>2. CASE ~(left["start"] = Idle /\ job # {})
      BY <1>1, <2>2
    <2> QED BY <2>1, <2>2
  <1> QED BY <1>1, <1>5, CallsStep

LEMMA HandleKeeps ==
    ASSUME GateInv, NEW s \in Slot, Handle(s) \/ Lost(s) PROVE GateInv'
  <1>1. /\ shown \in Shown /\ gates \in SUBSET Gates /\ clocked \in BOOLEAN
        /\ CallsOK(Without(s), Vouches)
    BY FreedSlot DEF GateInv, Typed
  <1>2. ASSUME calls[s] # Idle
        PROVE  /\ calls[s].job \in Job /\ calls[s].base \in SUBSET Gates
               /\ calls[s].row \in SUBSET Gates
    BY <1>2, CallIn DEF Call
  <1>3. CASE Refused(s) \/ Lost(s)
    <2>1. /\ calls' = Without(s)
          /\ UNCHANGED <<current, status, made, row, verified, works, clocked,
                         shown, gates, history>>
      BY <1>3 DEF Refused, Lost, server
    <2> QED BY <1>1, <2>1, CallsStep
  <1>4. CASE FetchAnswered(s)
    <2>1. /\ calls[s] # Idle
          /\ Render(calls[s].job, calls[s].row, shown, Without(s), {})
      BY <1>4 DEF FetchAnswered, Answered
    <2> QED BY <1>1, <1>2, <2>1, RenderKeeps
  <1>5. CASE s = "arrive" /\ ArriveAnswered
    <2> DEFINE sh == [shown EXCEPT !.status = "arrived"]
               g == gates \cup {"geo"}
    <2>1. Render(calls[s].job, g, sh, Without(s), {})
      BY <1>5 DEF ArriveAnswered
    <2>2. g \in SUBSET Gates /\ sh \in Shown
      BY <1>1 DEF Gates, Shown, Status
    <2> HIDE DEF sh, g
    <2> QED BY <1>1, <2>1, <2>2, RenderKeeps
  <1>6. CASE (s = "otp" /\ OtpAnswered) \/ (s = "photo" /\ PhotoAnswered)
    <2>1. PICK gate \in {"otp", "photo"} :
              LET now == calls[s].base \cup {gate} IN
              /\ calls[s] # Idle
              /\ Render(calls[s].job, now, shown, Without(s),
                        IF now = Gates THEN {calls[s].job} ELSE {})
      BY <1>6 DEF OtpAnswered, PhotoAnswered, Answered
    <2> DEFINE now == calls[s].base \cup {gate}
               mine == IF now = Gates THEN {calls[s].job} ELSE {}
    <2>2. now \in SUBSET Gates /\ mine \in SUBSET Job
      BY <1>2, <2>1 DEF Gates
    <2>3. Render(calls[s].job, now, shown, Without(s), mine)
      BY <2>1
    <2> HIDE DEF now, mine
    <2> QED BY <1>1, <2>2, <2>3, RenderKeeps
  <1>7. CASE s = "start" /\ StartAnswered
    <2> DEFINE sh == [shown EXCEPT !.status = "working", !.in = clocked]
               left == [calls EXCEPT !["start"] = Done(calls["start"], "reload")]
    <2>1. Render(calls[s].job, gates, sh, left, {}) /\ calls[s] # Idle
      BY <1>7 DEF StartAnswered, Answered
    <2>2. sh \in Shown
      BY <1>1 DEF Shown, Status
    <2>3. CallsOK(left, Vouches)
      <3>1. Vouches \in [Job -> SUBSET Gates]
        BY DEF Vouches, Vouched
      <3>2. CallOK("start", Done(calls["start"], "reload"), Vouches)
        BY <1>7, <2>1, CallIn, DoneIsCall
      <3> QED BY <1>7, <3>1, <3>2, Advanced DEF GateInv
    <2> HIDE DEF sh, left
    <2> QED BY <1>1, <2>1, <2>2, <2>3, RenderKeeps
  <1>9. CASE s = "start" /\ Reloaded
    <2>1. /\ calls' = Without(s)
          /\ UNCHANGED <<current, status, made, row, verified, works, clocked,
                         shown, gates, history>>
      BY <1>9 DEF Reloaded, server
    <2> QED BY <1>1, <2>1, CallsStep
  <1>8. CASE s = "poll" /\ PollAnswered
    <2> DEFINE sh == [shown EXCEPT !.status = "arrived"]
    <2>1. /\ calls[s] # Idle
          /\ \/ Render(calls[s].job, calls[s].row, sh, Without(s), {})
             \/ Render(shown.job, gates, shown, Without(s), {})
      BY <1>8 DEF PollAnswered, Answered
    <2>2. sh \in Shown
      BY <1>1 DEF Shown, Status
    <2> HIDE DEF sh
    <2> QED BY <1>1, <1>2, <2>1, <2>2, RenderKeeps
  <1> QED BY <1>3, <1>4, <1>5, <1>6, <1>7, <1>8, <1>9 DEF Handle

LEMMA SyncKeeps == ASSUME GateInv, Sync PROVE GateInv'
  <1> DEFINE now == [job |-> current, status |-> status[current], in |-> clocked]
  <1>1. PICK s \in Fetches :
            \/ Render(shown.job, gates, now, calls, {})
            \/ Render(shown.job, gates, now, [calls EXCEPT ![s] = Request(current)], {})
    BY DEF Sync
  <1>2. /\ now \in Shown /\ current \in Job
        /\ gates \in SUBSET Gates /\ CallsOK(calls, Vouches)
    BY DEF GateInv, Typed, Shown
  <1>3. s \in Slot
    BY DEF Slot
  <1>4. CallOK(s, Request(current), Vouches)
    BY <1>2, <1>3, NewRequest DEF Status
  <1>5. CallsOK([calls EXCEPT ![s] = Request(current)], Vouches)
    <2>1. Vouches \in [Job -> SUBSET Gates]
      BY DEF Vouches, Vouched
    <2> QED BY <1>2, <1>3, <1>4, <2>1, Advanced
  <1> HIDE DEF now
  <1> QED BY <1>1, <1>2, <1>5, RenderKeeps

---------------------------------------------------------------------------
LEMMA GateInvariant == Spec => []GateInv
  <1>1. GateInv /\ [Next]_vars => GateInv'
    <2> SUFFICES ASSUME GateInv, [Next]_vars PROVE GateInv'
      OBVIOUS
    <2>1. CASE UNCHANGED vars
      <3>1. Vouches' = Vouches /\ \A j \in Job : Vouched(j)' = Vouched(j)
        BY <2>1 DEF vars, server, history, Vouches, Vouched, Lineage
      <3> QED BY <2>1, <3>1 DEF vars, server, client, history, GateInv, Typed, ServerOK,
                                CallsOK, CallOK
    <2>2. ASSUME NEW s \in Slot, Serve(s) PROVE GateInv'
      BY <2>2, ReadKeeps, OtpReadKeeps, SavesKeep, StartKeeps, PreServiceAssumption DEF Serve
    <2> QED BY <2>1, <2>2, HandleKeeps, TriesKeep, AutoKeeps, NextJobKeeps, SyncKeeps,
               PreServiceAssumption DEF Next
  <1> QED BY <1>1, Starts, PreServiceAssumption, PTL DEF Spec

\* A job's status becomes "working" by the starter only.
LEMMA OnlyTheStarter ==
    ASSUME GateInv, Next, NEW j \in Job, status[j] # "working", status'[j] = "working"
    PROVE  \E s \in Slot : EnsureStarted(s) /\ calls[s].job = j /\ Complete(j)
  <1>1. status \in [Job -> Status]
    BY DEF GateInv, Typed
  <1>2. status' # status
    OBVIOUS
  <1>3. ASSUME NEW g, NEW sh, NEW about, NEW left, NEW mine,
               Render(about, g, sh, left, mine)
        PROVE  FALSE
    BY <1>2, <1>3 DEF Render, server
  <1>4. ~(NextJob \/ SaveArrival \/ SaveAutoArrival)
    BY <1>1 DEF NextJob, SaveArrival, SaveAutoArrival
  <1>5. ASSUME NEW s \in Slot PROVE ~(Handle(s) \/ Lost(s))
    BY <1>2, <1>3 DEF Handle, Lost, Refused, FetchAnswered, ArriveAnswered,
                      OtpAnswered, PhotoAnswered, StartAnswered, Reloaded, PollAnswered, server
  <1>6. ~Sync
    BY <1>3 DEF Sync
  <1>7. ~(AutoArrive \/ TryArrive \/ TryOtp \/ TryPhoto \/ Poll)
    BY <1>2 DEF AutoArrive, TryArrive, TryOtp, TryPhoto, Tries, Poll, server
  <1>8. PICK s \in Slot : Serve(s)
    BY <1>4, <1>5, <1>6, <1>7 DEF Next
  <1>9. EnsureStarted(s)
    BY <1>2, <1>4, <1>8 DEF Serve, ReadRow, ReadOtp, ReadStatus, SaveOtp, SavePhoto, server
  <1> QED BY <1>1, <1>9 DEF EnsureStarted

\* A technician starts work on a job only when somebody stands behind each of its
\* gates, whatever rows were saved over one another, made or copied, and whatever
\* the dashboard believed.
THEOREM StartsWithItsGatesCorrect == Spec => StartsWithItsGates
  <1>1. GateInv /\ [Next]_vars
          => [\A j \in Job : status[j] # "working" /\ status'[j] = "working"
                                => Gates \subseteq Vouched(j)]_vars
    <2> SUFFICES ASSUME GateInv, Next, NEW j \in Job,
                        status[j] # "working", status'[j] = "working"
                 PROVE  Gates \subseteq Vouched(j)
      OBVIOUS
    <2>1. Complete(j)
      BY OnlyTheStarter
    <2>2. GatesOf(j) \subseteq Vouched(j)
      BY GatesVouched, PreServiceAssumption
    <2> QED BY <2>1, <2>2 DEF Complete
  <1> QED BY <1>1, GateInvariant, PTL DEF Spec, StartsWithItsGates

---------------------------------------------------------------------------
(***************************************************************************)
(* Types: isClockingInRef is set exactly while a start runs.               *)
(***************************************************************************)

ClockOK == clocking = (calls["start"] # Idle)

CountersOK ==
    /\ clean \in BOOLEAN
    /\ budget \in [faults : 0..MaxFaults, tries : 0..MaxTries]

LEMMA CallIsNotIdle == \A c \in Call : c # Idle
  BY DEF Idle, Call

\* A request that advances is still one, and only the render starts a start.
LEMMA AdvanceClock ==
    ASSUME GateInv, ClockOK, NEW s \in Slot, NEW c, Advance(s, c),
           c # Idle, s = "start" => calls[s] # Idle, clocking' = clocking
    PROVE  ClockOK'
  <1>1. calls' = [calls EXCEPT ![s] = c] /\ calls \in [Slot -> Call \cup {Idle}]
    BY DEF Advance, GateInv, CallsOK
  <1>2. "start" \in Slot
    BY DEF Slot
  <1>3. (calls'["start"] # Idle) <=> (calls["start"] # Idle)
    BY <1>1, <1>2
  <1> QED BY <1>3 DEF ClockOK

LEMMA DoneIsNotIdle ==
    ASSUME NEW c \in Call, NEW r \in {"sent", "read", "saved", "ok", "no", "reload"}
    PROVE  Done(c, r) # Idle /\ Done(c, r) \in Call
  BY DEF Done, Call, Idle, Status

LEMMA ServeClock ==
    ASSUME GateInv, ClockOK, NEW s \in Slot, Serve(s) PROVE ClockOK'
  <1>1. clocking' = clocking /\ calls[s] \in Call /\ calls[s] # Idle
    BY CallIn DEF Serve, ReadRow, ReadOtp, EnsureStarted, ReadStatus, SaveArrival, SaveOtp,
                  SavePhoto, SaveAutoArrival, Saves, client
  <1> DEFINE c == calls[s]
  <1>2. ASSUME NEW d \in Call, Advance(s, d) PROVE ClockOK'
    BY <1>1, <1>2, CallIsNotIdle, AdvanceClock
  <1>3. ASSUME NEW r \in {"sent", "read", "saved", "ok", "no"}, Advance(s, Done(c, r))
        PROVE  ClockOK'
    BY <1>1, <1>3, DoneIsNotIdle, AdvanceClock
  <1>4. /\ \A j \in Job : row[j] \in SUBSET Gates /\ status[j] \in Status
        /\ c.job \in Job
    BY <1>1 DEF GateInv, Typed, Call
  <1>5. CASE ReadRow(s)
    <2> DEFINE read == [c EXCEPT !.pc = IF s = "start" THEN "saved" ELSE "read",
                                 !.row = IF s = "start" THEN {} ELSE row[c.job],
                                 !.was = IF s = "arrive" THEN @ ELSE status[c.job]]
    <2>1. Advance(s, read) \/ Advance(s, Done(c, "no"))
      BY <1>5 DEF ReadRow
    <2>2. read \in Call
      BY <1>1, <1>4 DEF Call
    <2> HIDE DEF read, c
    <2> QED BY <1>2, <1>3, <2>1, <2>2
  <1>11. CASE s = "otp" /\ ReadOtp
    <2> DEFINE known == [c EXCEPT !.pc = "saved", !.was = status[c.job]]
               read == [c EXCEPT !.pc = "read", !.row = row'[c.job], !.was = status[c.job]]
    <2>1. \/ Advance(s, Done(c, "no"))
          \/ Advance(s, known)
          \/ Advance(s, read) /\ MakesRow(c)
      BY <1>11, Zenon DEF ReadOtp
    <2>2. MakesRow(c) => row'[c.job] \in SUBSET Gates
      BY <1>4 DEF MakesRow, GateInv, Typed, Gates
    <2>3. known \in Call /\ (MakesRow(c) => read \in Call)
      BY <1>1, <1>4, <2>2 DEF Call
    <2> HIDE DEF known, read, c
    <2> QED BY <1>2, <1>3, <2>1, <2>3
  <1>6. CASE ReadStatus(s)
    <2>1. [c EXCEPT !.pc = "ok", !.row = row[c.job]] \in Call
      BY <1>1, <1>4 DEF Call
    <2> QED BY <1>2, <1>3, <1>6, <2>1 DEF ReadStatus
  <1>7. CASE EnsureStarted(s)
    BY <1>3, <1>7 DEF EnsureStarted
  <1>8. CASE (s = "otp" /\ SaveOtp) \/ (s = "photo" /\ SavePhoto)
    <2>1. [c EXCEPT !.pc = "saved", !.row = {}] \in Call
      BY <1>1 DEF Call
    <2> QED BY <1>2, <1>3, <1>8, <2>1 DEF SaveOtp, SavePhoto
  <1>9. CASE s = "arrive" /\ SaveArrival
    BY <1>3, <1>9 DEF SaveArrival
  <1>10. CASE s = "auto" /\ SaveAutoArrival
    <2>1. calls' = [calls EXCEPT !["auto"] = Idle] /\ calls \in [Slot -> Call \cup {Idle}]
      BY <1>10 DEF SaveAutoArrival, Advance, GateInv, CallsOK
    <2>2. calls'["start"] = calls["start"]
      BY <2>1 DEF Slot
    <2> QED BY <1>1, <2>2 DEF ClockOK
  <1> QED BY <1>5, <1>6, <1>7, <1>8, <1>9, <1>10, <1>11 DEF Serve

\* What the technician and the polls ask is no start.
LEMMA AskClock ==
    ASSUME GateInv, ClockOK, AutoArrive \/ TryArrive \/ TryOtp \/ TryPhoto \/ Poll
    PROVE  ClockOK'
  <1>1. PICK s \in Slot \ {"start"}, d \in Call : Advance(s, d)
    <2>1. /\ current \in Job /\ shown.job \in Job /\ shown.status \in Status
          /\ gates \in SUBSET Gates /\ row[current] \in SUBSET Gates
      BY DEF GateInv, Typed, Shown, Gates
    <2>2. CASE AutoArrive
      <3>1. [Request(current) EXCEPT !.pc = "read", !.row = row[current]] \in Call
        BY <2>1 DEF Request, Call, Status
      <3> QED BY <2>2, <3>1 DEF AutoArrive, Slot
    <2>3. CASE Poll
      <3>1. [Request(shown.job) EXCEPT !.was = shown.status] \in Call
        BY <2>1 DEF Request, Call
      <3> QED BY <2>3, <3>1 DEF Poll, Slot
    <2>4. ASSUME NEW s \in Submits, Tries(s)
          PROVE  \E r \in Slot \ {"start"}, d \in Call : Advance(r, d)
      <3>1. [Request(shown.job) EXCEPT !.base = IF s = "arrive" THEN {} ELSE gates] \in Call
        BY <2>1 DEF Request, Call, Status
      <3>2. s \in Slot \ {"start"}
        BY DEF Slot, Submits
      <3> QED BY <2>4, <3>1, <3>2 DEF Tries
    <2>5. "arrive" \in Submits /\ "otp" \in Submits /\ "photo" \in Submits
      BY DEF Submits
    <2> QED BY <2>2, <2>3, <2>4, <2>5 DEF TryArrive, TryOtp, TryPhoto
  <1>2. clocking' = clocking
    BY DEF AutoArrive, TryArrive, TryOtp, TryPhoto, Tries, Poll, client
  <1> QED BY <1>1, <1>2, CallIsNotIdle, AdvanceClock

\* A render sets the ref when it starts a start or keeps one back.
LEMMA RenderClock ==
    ASSUME NEW about, NEW g, NEW sh, NEW left, left \in [Slot -> Call \cup {Idle}],
           NEW mine, Render(about, g, sh, left, mine)
    PROVE  ClockOK'
  <1> DEFINE effect == /\ (g # gates \/ sh # shown)
                       /\ sh.status \in Open /\ ~sh.in /\ g = Gates
             job == IF effect THEN {sh.job} ELSE mine
             request == Request(CHOOSE j \in job : TRUE)
             free == left["start"] = Idle
  <1>1. /\ calls' = IF free /\ job # {} THEN [left EXCEPT !["start"] = request] ELSE left
        /\ clocking' = (~free \/ job # {})
    BY DEF Render
  <1>2. request # Idle
    BY DEF Request, Idle
  <1> HIDE DEF job, request
  <1>3. (calls'["start"] # Idle) <=> (~free \/ job # {})
    BY <1>1, <1>2 DEF Slot
  <1> QED BY <1>1, <1>3 DEF ClockOK

LEMMA HandleClock ==
    ASSUME GateInv, ClockOK, NEW s \in Slot, Handle(s) \/ Lost(s) PROVE ClockOK'
  <1>1. calls \in [Slot -> Call \cup {Idle}] /\ Without(s) \in [Slot -> Call \cup {Idle}]
    BY DEF GateInv, CallsOK, Without
  <1>2. CASE Refused(s) \/ Lost(s)
    <2>1. calls' = Without(s) /\ clocking' = (clocking /\ s # "start")
      BY <1>2 DEF Refused, Lost
    <2>2. (calls'["start"] # Idle) <=> (calls["start"] # Idle /\ s # "start")
      BY <1>1, <2>1 DEF Without, Slot
    <2> QED BY <2>1, <2>2, Zenon DEF ClockOK
  <1>3. ASSUME NEW about, NEW g, NEW sh, NEW mine, Render(about, g, sh, Without(s), mine)
        PROVE  ClockOK'
    BY <1>1, <1>3, RenderClock
  <1>4. CASE s = "start" /\ StartAnswered
    <2> DEFINE left == [calls EXCEPT !["start"] = Done(calls["start"], "reload")]
    <2>1. calls["start"] \in Call
      BY <1>4, CallIn DEF StartAnswered, Answered
    <2>2. left \in [Slot -> Call \cup {Idle}]
      BY <1>1, <2>1, DoneIsNotIdle
    <2>3. PICK about, g, sh, mine : Render(about, g, sh, left, mine)
      BY <1>4, Zenon DEF StartAnswered
    <2> HIDE DEF left
    <2> QED BY <2>2, <2>3, RenderClock
  <1>5. CASE s = "start" /\ Reloaded
    <2>1. calls' = Without("start") /\ clocking' = FALSE
      BY <1>5 DEF Reloaded
    <2>2. calls'["start"] = Idle
      BY <1>1, <2>1 DEF Without, Slot
    <2> QED BY <2>1, <2>2, Zenon DEF ClockOK
  <1> QED BY <1>2, <1>3, <1>4, <1>5, Zenon DEF Handle, FetchAnswered, ArriveAnswered,
                           OtpAnswered, PhotoAnswered, PollAnswered

LEMMA SyncClock == ASSUME GateInv, Sync PROVE ClockOK'
  <1>1. PICK left, sh : /\ left \in [Slot -> Call \cup {Idle}]
                        /\ Render(shown.job, gates, sh, left, {})
    <2>1. calls \in [Slot -> Call \cup {Idle}] /\ Request(current) \in Call
      BY DEF GateInv, CallsOK, Typed, Request, Call, Status
    <2>2. \A s \in Fetches :
              [calls EXCEPT ![s] = Request(current)] \in [Slot -> Call \cup {Idle}]
      BY <2>1
    <2> QED BY <2>1, <2>2 DEF Sync
  <1> QED BY <1>1, RenderClock

LEMMA SpendLess ==
    ASSUME CountersOK, NEW what \in {"faults", "tries"}, Spend(what)
    PROVE  budget' \in [faults : 0..MaxFaults, tries : 0..MaxTries]
  BY PreServiceAssumption DEF CountersOK, Spend

LEMMA CountersKeep == ASSUME CountersOK, [Next]_vars PROVE CountersOK'
  <1>1. \/ UNCHANGED budget \/ Spend("faults") \/ Spend("tries")
    BY DEF Next, vars, Serve, ReadRow, ReadOtp, EnsureStarted, ReadStatus, SaveArrival, SaveOtp,
           SavePhoto, SaveAutoArrival, Saves, Handle, Refused, FetchAnswered, ArriveAnswered,
           OtpAnswered, PhotoAnswered, StartAnswered, Reloaded, PollAnswered, Render, Lost,
           AutoArrive, NextJob, TryArrive, TryOtp, TryPhoto, Tries, Poll, Sync
  <1>2. clean' = clean \/ clean' = FALSE
    <2>1. ASSUME NEW about, NEW g, NEW sh, NEW left, NEW mine,
                 Render(about, g, sh, left, mine)
          PROVE  clean' = clean \/ clean' = FALSE
      BY <2>1, Zenon DEF Render, CountersOK
    <2>2. ASSUME NEW s, ReadRow(s) PROVE clean' = clean \/ clean' = FALSE
      BY <2>2, Zenon DEF ReadRow, CountersOK
    <2>4. CASE ReadOtp
      BY <2>4, Zenon DEF ReadOtp, CountersOK
    <2>3. CASE AutoArrive
      BY <2>3, Zenon DEF AutoArrive, CountersOK
    <2> QED
      BY <2>1, <2>2, <2>3, <2>4
      DEF Next, vars, Serve, EnsureStarted, ReadStatus, SaveArrival, SaveOtp,
          SavePhoto, SaveAutoArrival, Saves, Handle, Refused, FetchAnswered, ArriveAnswered,
          OtpAnswered, PhotoAnswered, StartAnswered, Reloaded, PollAnswered, Lost,
          NextJob, TryArrive, TryOtp, TryPhoto, Tries, Poll, Sync
  <1>3. clean' \in BOOLEAN
    BY <1>2, Zenon DEF CountersOK
  <1>4. budget' \in [faults : 0..MaxFaults, tries : 0..MaxTries]
    BY <1>1, SpendLess DEF CountersOK
  <1> QED BY <1>3, <1>4 DEF CountersOK

\* Every variable keeps its type, and isClockingInRef is set exactly while a
\* start runs: no handler leaves it set, none clears it under a running start.
THEOREM TypeCorrect == Spec => []TypeOK
  <1>1. Init => ClockOK /\ CountersOK
    <2> SUFFICES ASSUME Init PROVE ClockOK /\ CountersOK
      OBVIOUS
    <2>1. calls["start"] = Idle /\ clocking = FALSE /\ clean = TRUE
      BY DEF Init, Slot
    <2>2. ClockOK
      BY <2>1, Zenon DEF ClockOK
    <2>3. clean \in BOOLEAN
      BY <2>1, Zenon
    <2>4. budget \in [faults : 0..MaxFaults, tries : 0..MaxTries]
      BY PreServiceAssumption DEF Init
    <2> QED BY <2>2, <2>3, <2>4 DEF CountersOK
  <1>2. GateInv /\ ClockOK /\ [Next]_vars => ClockOK'
    <2> SUFFICES ASSUME GateInv, ClockOK, [Next]_vars PROVE ClockOK'
      OBVIOUS
    <2>1. CASE NextJob \/ UNCHANGED vars
      <3>1. clocking' = clocking /\ calls' = calls
        BY <2>1 DEF NextJob, vars, client
      <3> QED BY <3>1 DEF ClockOK
    <2> QED BY <2>1, ServeClock, HandleClock, AskClock, SyncClock DEF Next
  <1>3. GateInv /\ ClockOK /\ CountersOK => TypeOK
    <2> SUFFICES ASSUME GateInv, ClockOK, CountersOK PROVE TypeOK
      OBVIOUS
    <2>1. clocking \in BOOLEAN /\ (clocking <=> calls["start"] # Idle)
      BY Zenon DEF ClockOK
    <2> QED BY <2>1 DEF TypeOK, GateInv, Typed, Shown, CallsOK, CountersOK
  <1> QED BY <1>1, <1>2, <1>3, CountersKeep, GateInvariant, PTL DEF Spec

-----------------------------------------------------------------------------
(***************************************************************************)
(* The safety that StartsWhenPassed rests on: no gate is lost.             *)
(***************************************************************************)

Reading(s) == calls[s] # Idle /\ calls[s].pc = "read"

\* One request at a time has read the row of its job, and has it as it is.
Fresh == \A s, o \in Handlers : Reading(s) => /\ calls[s].row = row[calls[s].job]
                                              /\ Reading(o) => o = s

\* The row of a job has every gate that the job has passed.
NoneLost == \A j \in Job : passed[j] \subseteq row[j]

GatesAreKept == clean => NoneLost

AutoReads == calls["auto"] # Idle => calls["auto"].pc = "read"

\* Without a row there is nothing in it, and no handler has read it.
RowsMade ==
    /\ verified \subseteq made /\ \A j \in Job \ made : row[j] = {}
    /\ \A s \in Handlers : Reading(s) => calls[s].job \in made

KeptInv == AutoReads /\ RowsMade /\ (clean => Fresh /\ NoneLost)

\* A step by which no handler comes to have read, and no row loses a gate; the
\* rows that handlers have read are as they were.
QuietRows ==
    /\ UNCHANGED <<verified, passed>> /\ made \subseteq made'
    /\ \A j \in Job \ made' : row'[j] = row[j]
    /\ clean => \A j \in Job : /\ row[j] \subseteq row'[j]
                               /\ j \in made => row'[j] = row[j]

LEMMA QuietKeeps ==
    ASSUME KeptInv, GateInv, QuietRows, clean' => clean, AutoReads',
           \A s \in Handlers : Reading(s)' => calls'[s] = calls[s]
    PROVE  KeptInv'
  <1>1. RowsMade'
    BY DEF KeptInv, RowsMade, QuietRows, Reading
  <1>2. ASSUME clean' PROVE Fresh'
    <2>1. \A s \in Handlers :
             Reading(s)' => Reading(s) /\ calls[s].job \in made /\ made \subseteq Job
      BY DEF Reading, KeptInv, RowsMade, GateInv, Typed
    <2>2. \A j \in made : made \subseteq Job => row'[j] = row[j]
      BY <1>2 DEF QuietRows
    <2> QED BY <1>2, <2>1, <2>2 DEF KeptInv, Fresh
  <1>3. ASSUME clean' PROVE NoneLost'
    BY <1>3 DEF KeptInv, NoneLost, QuietRows
  <1> QED BY <1>1, <1>2, <1>3 DEF KeptInv

LEMMA NoRows ==
    ASSUME UNCHANGED <<row, verified, passed>>, made \subseteq made' PROVE QuietRows
  BY DEF QuietRows

\* A step of one request that does not read.
LEMMA OneQuiet ==
    ASSUME KeptInv, NEW s \in Slot, NEW c, Advance(s, c), GateInv,
           QuietRows, clean' => clean,
           s \in Handlers => c = Idle \/ (c.pc # "read" /\ s # "auto")
    PROVE  KeptInv'
  <1>1. /\ calls \in [Slot -> Call \cup {Idle}]
        /\ calls' = [calls EXCEPT ![s] = c] /\ Handlers \subseteq Slot /\ "auto" \in Handlers
    BY DEF GateInv, CallsOK, Advance, Handlers, Slot
  <1>2. \A o \in Handlers : calls'[o] = IF o = s THEN c ELSE calls[o]
    BY <1>1
  <1>3. AutoReads'
    BY <1>1, <1>2 DEF KeptInv, AutoReads
  <1>4. \A o \in Handlers : Reading(o)' => calls'[o] = calls[o]
    BY <1>2 DEF Reading
  <1> QED BY <1>3, <1>4, QuietKeeps

\* A request reads the row while no other does, and makes a missing one.
LEMMA OneReads ==
    ASSUME KeptInv, GateInv, NEW s \in Handlers, NEW c, Advance(s, c),
           QuietRows, clean' => clean /\ ~Meets(s),
           c # Idle, c.pc = "read", c.row = row'[c.job], c.job \in made'
    PROVE  KeptInv'
  <1>1. /\ calls \in [Slot -> Call \cup {Idle}]
        /\ calls' = [calls EXCEPT ![s] = c] /\ Handlers \subseteq Slot /\ "auto" \in Handlers
    BY DEF GateInv, CallsOK, Advance, Handlers, Slot
  <1>2. \A o \in Handlers : calls'[o] = IF o = s THEN c ELSE calls[o]
    BY <1>1
  <1>3. AutoReads'
    BY <1>1, <1>2 DEF KeptInv, AutoReads
  <1>4. ASSUME clean' PROVE Fresh'
    <2>1. \A o \in Handlers : o # s => calls[o] = Idle
      BY <1>4 DEF Meets, Handlers
    <2> QED BY <1>2, <2>1 DEF Fresh, Reading
  <1>5. ASSUME clean' PROVE NoneLost'
    BY <1>5 DEF KeptInv, NoneLost, QuietRows
  <1>6. RowsMade'
    BY <1>2 DEF KeptInv, RowsMade, QuietRows, Reading
  <1> QED BY <1>3, <1>4, <1>5, <1>6 DEF KeptInv

\* A request that has read saves the row with its gate, and loses none that the
\* job has passed.
LEMMA OneSaves ==
    ASSUME KeptInv, GateInv, NEW s \in Handlers, Reading(s), NEW c, Advance(s, c),
           c = Idle \/ (c.pc # "read" /\ s # "auto"),
           NEW g \in Gates, NEW newRow,
           Saves(calls[s].job, newRow, g),
           calls[s].row \ {"otp"} \subseteq newRow, g \in newRow,
           calls[s].job \in verified => "otp" \in newRow,
           IF g = "otp" THEN verified' = verified \cup {calls[s].job} ELSE verified' = verified
    PROVE  KeptInv'
  <1> DEFINE j == calls[s].job
  <1>1. /\ calls \in [Slot -> Call \cup {Idle}] /\ s \in Slot
        /\ calls' = [calls EXCEPT ![s] = c] /\ Handlers \subseteq Slot /\ "auto" \in Handlers
    BY DEF GateInv, CallsOK, Advance, Handlers, Slot
  <1>2. \A o \in Handlers : calls'[o] = IF o = s THEN c ELSE calls[o]
    BY <1>1
  <1>3. j \in Job /\ j \in made
    BY <1>1, CallIn DEF Reading, KeptInv, RowsMade
  <1>4. /\ row \in [Job -> SUBSET Gates] /\ passed \in [Job -> SUBSET Gates]
        /\ row' = [row EXCEPT ![j] = newRow] /\ made' = made /\ clean' = clean
        /\ passed' = [passed EXCEPT ![j] = @ \cup {g}]
    BY DEF GateInv, Typed, Saves
  <1>5. AutoReads'
    BY <1>1, <1>2 DEF KeptInv, AutoReads
  <1>6. ASSUME clean' PROVE Fresh'
    <2>1. \A o \in Handlers : Reading(o) => o = s
      BY <1>4, <1>6 DEF KeptInv, Fresh
    <2>2. \A o \in Handlers : ~Reading(o)'
      BY <1>2, <2>1 DEF Reading
    <2> QED BY <2>2 DEF Fresh
  <1>7. ASSUME clean' PROVE NoneLost'
    <2>1. /\ calls[s].row = row[j] /\ \A k \in Job : passed[k] \subseteq row[k]
          /\ "otp" \in passed[j] => j \in verified
      BY <1>3, <1>4, <1>7 DEF KeptInv, Fresh, NoneLost, GateInv, ServerOK
    <2> SUFFICES ASSUME NEW k \in Job PROVE passed'[k] \subseteq row'[k]
      BY DEF NoneLost
    <2>2. CASE k # j
      BY <1>3, <1>4, <2>1, <2>2
    <2>3. CASE k = j
      <3>1. row'[k] = newRow /\ passed'[k] = passed[k] \cup {g}
        BY <1>3, <1>4, <2>3
      <3> QED BY <2>1, <2>3, <3>1
    <2> QED BY <2>2, <2>3
  <1>8. RowsMade'
    <2>1. \A o \in Handlers : Reading(o)' => Reading(o) /\ calls'[o] = calls[o]
      BY <1>2 DEF Reading
    <2> QED BY <1>3, <1>4, <2>1 DEF KeptInv, RowsMade
  <1> QED BY <1>5, <1>6, <1>7, <1>8 DEF KeptInv

LEMMA DoneIsOver == \A c \in Call, r \in {"sent", "saved", "ok", "no", "reload"} : Done(c, r).pc = r
  BY DEF Done, Call

LEMMA ServeKept ==
    ASSUME KeptInv, GateInv, NEW s \in Slot, Serve(s) PROVE KeptInv'
  <1> DEFINE c == calls[s]
             e == [c EXCEPT !.pc = "saved", !.row = {}]
  <1>1. c \in Call /\ c # Idle
    BY CallIn DEF Serve, ReadRow, ReadOtp, EnsureStarted, ReadStatus, SaveArrival, SaveOtp,
                  SavePhoto, SaveAutoArrival
  <1>2. s = "auto" => c.pc = "read"
    BY <1>1 DEF KeptInv, AutoReads
  <1>3. c.job \in Job /\ e.pc = "saved" /\ Done(c, "ok").pc = "ok" /\ Done(c, "no").pc = "no"
    BY <1>1, DoneIsOver DEF Call
  <1>4. CASE ReadRow(s)
    <2> DEFINE was == IF s = "arrive" THEN c.was ELSE status[c.job]
               read == [c EXCEPT !.pc = "read", !.row = row[c.job], !.was = was]
               saved == [c EXCEPT !.pc = "saved", !.row = {}, !.was = was]
    <2>1. /\ s \in Submits \cup {"start"} /\ s # "auto"
          /\ UNCHANGED <<row, verified, passed>> /\ made \subseteq made'
          /\ (clean' => clean /\ ~Meets(s))
      BY <1>2, <1>4 DEF ReadRow, history, Submits
    <2>2. \/ Advance(s, read) /\ s # "start" /\ c.job \in made'
          \/ Advance(s, saved) \/ Advance(s, Done(c, "no"))
      <3> DEFINE mayRead == c.job = current /\ (s = "arrive" => status[c.job] \in Open)
                 seen == [c EXCEPT !.pc = IF s = "start" THEN "saved" ELSE "read",
                                   !.row = IF s = "start" THEN {} ELSE row[c.job],
                                   !.was = IF s = "arrive" THEN @ ELSE status[c.job]]
      <3>1. /\ Advance(s, IF ~mayRead THEN Done(c, "no") ELSE seen)
            /\ made' = made \cup (IF mayRead /\ s # "start" THEN {c.job} ELSE {})
        BY <1>4 DEF ReadRow
      <3>2. seen = IF s = "start" THEN saved ELSE read
        OBVIOUS
      <3> HIDE DEF mayRead, seen, read, saved
      <3> QED BY <3>1, <3>2
    <2>3. saved.pc = "saved"
      BY <1>1 DEF Call
    <2>4. /\ read.pc = "read" /\ read.row = row[read.job] /\ read # Idle
          /\ read.job = c.job
      BY <1>1 DEF Call, Idle
    <2>7. QuietRows
      BY <2>1, NoRows
    <2> HIDE DEF read, saved, c
    <2>5. CASE Advance(s, read) /\ s # "start" /\ c.job \in made'
      <3>1. s \in Handlers /\ row' = row
        BY <2>1, <2>5 DEF Handlers
      <3> QED BY <2>1, <2>4, <2>5, <2>7, <3>1, OneReads
    <2>6. CASE Advance(s, saved) \/ Advance(s, Done(c, "no"))
      BY <1>3, <2>1, <2>3, <2>6, <2>7, OneQuiet
    <2> QED BY <2>2, <2>5, <2>6
  <1>5. CASE s = "otp" /\ ReadOtp
    <2> DEFINE known == [c EXCEPT !.pc = "saved", !.was = status[c.job]]
               read == [c EXCEPT !.pc = "read", !.row = row'[c.job], !.was = status[c.job]]
    <2>1. /\ (clean' => clean /\ ~Meets(s)) /\ UNCHANGED <<verified, passed>>
          /\ \/ MakesRow(c)
             \/ UNCHANGED <<made, row, waived>> /\ Advance(s, Done(c, "no"))
          /\ \/ Advance(s, Done(c, "no"))
             \/ Advance(s, known)
             \/ Advance(s, read) /\ MakesRow(c)
      BY <1>5, Zenon DEF ReadOtp
    <2>2. QuietRows
      <3>1. CASE MakesRow(c)
        <4>1. /\ made' = made \cup {c.job}
              /\ c.job \in made => row' = row
              /\ c.job \notin made => row' = [row EXCEPT ![c.job] = {"geo"}] /\ row[c.job] = {}
          BY <1>3, <3>1 DEF MakesRow, KeptInv, RowsMade
        <4> HIDE DEF c
        <4> QED BY <1>3, <2>1, <4>1 DEF QuietRows, GateInv, Typed
      <3>2. CASE UNCHANGED <<made, row, waived>>
        BY <2>1, <3>2, NoRows
      <3> QED BY <2>1, <3>1, <3>2
    <2>3. MakesRow(c) => c.job \in made'
      BY DEF MakesRow
    <2>4. /\ known.pc = "saved" /\ read.pc = "read" /\ read.job = c.job
          /\ read.row = row'[c.job] /\ read # Idle /\ s \in Handlers /\ s # "auto"
      BY <1>1, <1>5 DEF Call, Idle, Handlers, Submits
    <2> HIDE DEF known, read, c
    <2>5. CASE Advance(s, read) /\ MakesRow(c)
      BY <2>1, <2>2, <2>3, <2>4, <2>5, OneReads
    <2>6. CASE Advance(s, known) \/ Advance(s, Done(c, "no"))
      BY <1>3, <2>1, <2>2, <2>4, <2>6, OneQuiet
    <2> QED BY <2>1, <2>5, <2>6
  <1>6. CASE EnsureStarted(s)
    <2>1. PICK r \in {"ok", "no"} : Advance(s, Done(c, r))
      BY <1>6 DEF EnsureStarted
    <2>2. /\ UNCHANGED <<verified, passed, clean>> /\ s # "auto"
          /\ made' = made \cup (IF Inherits(c.job) THEN {c.job} ELSE {})
          /\ row' = [row EXCEPT ![c.job] = GatesOf(c.job)]
      BY <1>1, <1>2, <1>6 DEF EnsureStarted, history
    <2>3. /\ row \in [Job -> SUBSET Gates] /\ made \subseteq Job
          /\ \A j \in Job : row'[j] = IF j = c.job THEN GatesOf(c.job) ELSE row[j]
      BY <1>3, <2>2 DEF GateInv, Typed
    <2>4. QuietRows
      <3>1. CASE Inherits(c.job)
        <4>1. row[c.job] = {} /\ c.job \notin made
          BY <1>3, <3>1 DEF Inherits, KeptInv, RowsMade
        <4> HIDE DEF c
        <4> QED BY <2>2, <2>3, <3>1, <4>1 DEF QuietRows
      <3>2. CASE ~Inherits(c.job)
        <4>1. GatesOf(c.job) = row[c.job] \cup (IF c.job \in verified THEN {"otp"} ELSE {})
          BY <3>2 DEF GatesOf, Synced
        <4>2. c.job \in verified => c.job \in made /\ (clean => "otp" \in row[c.job])
          BY <1>3 DEF KeptInv, RowsMade, NoneLost, GateInv, ServerOK
        <4> HIDE DEF c
        <4>3. made' = made
          BY <2>2, <3>2
        <4>4. row'[c.job] # row[c.job] => c.job \in made /\ ~clean
          BY <1>3, <2>3, <4>1, <4>2
        <4> QED BY <2>2, <2>3, <4>3, <4>4 DEF QuietRows
      <3> QED BY <3>1, <3>2
    <2>5. Done(c, r).pc = r
      BY <1>1, DoneIsOver
    <2> HIDE DEF c
    <2> QED BY <2>1, <2>2, <2>4, <2>5, OneQuiet
  <1>7. CASE ReadStatus(s)
    <2>1. s \notin Handlers /\ UNCHANGED <<row, verified, passed, made, clean>>
      BY <1>7 DEF ReadStatus, server, history, Handlers, Fetches, Submits
    <2>2. PICK d : Advance(s, d)
      BY <1>7 DEF ReadStatus
    <2> QED BY <2>1, <2>2, NoRows, OneQuiet
  <1>8. \A gs :
          gs \subseteq Synced(c.job, gs) /\ (c.job \in verified => "otp" \in Synced(c.job, gs))
    BY DEF Synced
  <1>9. "geo" \in Gates /\ "otp" \in Gates /\ "photo" \in Gates
    BY DEF Gates
  <1>10. CASE s = "arrive" /\ SaveArrival
    <2> DEFINE new == Synced(c.job, (c.row \ {"otp"}) \cup {"geo"})
    <2>1. /\ Reading(s) /\ Saves(c.job, new, "geo")
          /\ Advance(s, Done(c, "ok")) /\ verified' = verified
          /\ s \in Handlers /\ s # "auto"
      BY <1>10 DEF SaveArrival, Reading, Handlers, Submits
    <2>2. /\ c.row \ {"otp"} \subseteq new /\ "geo" \in new
          /\ (c.job \in verified => "otp" \in new)
      BY <1>8
    <2> HIDE DEF new
    <2> QED BY <1>3, <1>9, <2>1, <2>2, OneSaves
  <1>11. CASE s = "otp" /\ SaveOtp
    <2>1. /\ Reading(s) /\ Saves(c.job, c.row \cup {"otp"}, "otp")
          /\ Advance(s, e) /\ verified' = verified \cup {c.job}
          /\ s \in Handlers /\ s # "auto"
      BY <1>11 DEF SaveOtp, Reading, Handlers, Submits
    <2> HIDE DEF e
    <2> QED BY <1>3, <1>9, <2>1, OneSaves
  <1>12. CASE s = "photo" /\ SavePhoto
    <2> DEFINE new == Synced(c.job, c.row \cup {"photo"})
               d == IF new = Gates THEN e ELSE Done(c, "ok")
    <2>1. /\ Reading(s) /\ Saves(c.job, new, "photo")
          /\ Advance(s, d) /\ verified' = verified
          /\ s \in Handlers /\ s # "auto"
      BY <1>12 DEF SavePhoto, Reading, Handlers, Submits
    <2>2. d.pc \in {"saved", "ok"}
      BY <1>3
    <2>3. /\ c.row \ {"otp"} \subseteq new /\ "photo" \in new
          /\ (c.job \in verified => "otp" \in new)
      BY <1>8
    <2> HIDE DEF new, d, e
    <2> QED BY <1>9, <2>1, <2>2, <2>3, OneSaves
  <1>13. CASE s = "auto" /\ SaveAutoArrival
    <2>1. PICK kept \in {c.row, c.row \ {"otp"}} :
              Saves(c.job, Synced(c.job, kept \cup {"geo"}), "geo")
      BY <1>13 DEF SaveAutoArrival
    <2> DEFINE new == Synced(c.job, kept \cup {"geo"})
    <2>2. /\ Reading(s) /\ Saves(c.job, new, "geo")
          /\ Advance(s, Idle) /\ verified' = verified /\ s \in Handlers
      BY <1>1, <1>2, <1>13, <2>1 DEF SaveAutoArrival, Reading, Handlers
    <2>3. /\ c.row \ {"otp"} \subseteq new /\ "geo" \in new
          /\ (c.job \in verified => "otp" \in new)
      BY <1>8
    <2> HIDE DEF new
    <2> QED BY <1>9, <2>2, <2>3, OneSaves
  <1> QED BY <1>4, <1>5, <1>6, <1>7, <1>10, <1>11, <1>12, <1>13 DEF Serve

LEMMA RequestIsSent ==
    /\ \A j : Request(j).pc = "sent"
    /\ \A j, b : [Request(j) EXCEPT !.base = b].pc = "sent"
    /\ \A j, w : [Request(j) EXCEPT !.was = w].pc = "sent"
  BY DEF Request

LEMMA AskKept ==
    ASSUME KeptInv, GateInv, AutoArrive \/ TryArrive \/ TryOtp \/ TryPhoto \/ Poll
    PROVE  KeptInv'
  <1>1. CASE AutoArrive
    <2> DEFINE c == [Request(current) EXCEPT !.pc = "read", !.row = row[current]]
    <2>1. /\ Advance("auto", c) /\ (clean' => clean /\ ~Meets("auto"))
          /\ UNCHANGED <<row, verified, passed>> /\ made' = made \cup {current}
      BY <1>1 DEF AutoArrive, history
    <2>2. /\ c.pc = "read" /\ c.row = row[c.job] /\ c # Idle /\ "auto" \in Handlers
          /\ c.job = current
      BY DEF Request, Idle, Handlers
    <2>3. QuietRows
      BY <2>1, NoRows
    <2> HIDE DEF c
    <2> QED BY <2>1, <2>2, <2>3, OneReads
  <1>2. ASSUME NEW s \in Submits, Tries(s) PROVE KeptInv'
    <2>1. PICK b : Advance(s, [Request(shown.job) EXCEPT !.base = b])
      BY <1>2 DEF Tries
    <2>2. UNCHANGED <<row, verified, passed, made, clean>> /\ s \in Slot /\ s # "auto"
      BY <1>2 DEF Tries, server, history, Slot, Submits
    <2> QED BY <2>1, <2>2, RequestIsSent, NoRows, OneQuiet
  <1>3. CASE Poll
    <2>1. PICK d : Advance("poll", d)
      BY <1>3 DEF Poll
    <2>2. /\ UNCHANGED <<row, verified, passed, made, clean>>
          /\ "poll" \in Slot /\ "poll" \notin Handlers
      BY <1>3 DEF Poll, server, history, Slot, Handlers, Submits
    <2> QED BY <2>1, <2>2, NoRows, OneQuiet
  <1>4. "arrive" \in Submits /\ "otp" \in Submits /\ "photo" \in Submits
    BY DEF Submits
  <1> QED BY <1>1, <1>2, <1>3, <1>4 DEF TryArrive, TryOtp, TryPhoto

\* What an answer causes reads nothing: a start, or a fetch.
LEMMA RenderKept ==
    ASSUME KeptInv, GateInv, NEW about, NEW g, NEW sh, NEW left \in [Slot -> Call \cup {Idle}],
           NEW mine, Render(about, g, sh, left, mine),
           \A s \in Handlers : left[s] = calls[s] \/ (left[s] = Idle /\ s # "auto")
    PROVE  KeptInv'
  <1>1. UNCHANGED <<row, verified, passed, made>> /\ (clean' => clean)
    BY DEF Render, server, history
  <1>2. \E d : calls' = [left EXCEPT !["start"] = d] \/ calls' = left
    BY DEF Render
  <1>3. \A s \in Handlers : calls'[s] = left[s]
    BY <1>2 DEF Handlers, Submits, Slot
  <1>4. AutoReads'
    BY <1>3 DEF KeptInv, AutoReads, Handlers
  <1>5. \A s \in Handlers : Reading(s)' => calls'[s] = calls[s]
    BY <1>3 DEF Reading
  <1> QED BY <1>1, <1>4, <1>5, NoRows, QuietKeeps

LEMMA HandleKept ==
    ASSUME KeptInv, GateInv, NEW s \in Slot, Handle(s) \/ Lost(s) PROVE KeptInv'
  <1>1. /\ calls \in [Slot -> Call \cup {Idle}] /\ Without(s) \in [Slot -> Call \cup {Idle}]
        /\ \A o \in Slot : Without(s)[o] = IF o = s THEN Idle ELSE calls[o]
        /\ Handlers \subseteq Slot
    BY DEF GateInv, CallsOK, Without, Handlers, Slot
  <1>2. s # "auto"
    BY DEF KeptInv, AutoReads, Handle, Lost, Refused, FetchAnswered, Fetches
  <1>3. \A o \in Handlers : Without(s)[o] = calls[o] \/ (Without(s)[o] = Idle /\ o # "auto")
    BY <1>1, <1>2
  <1>4. CASE Refused(s) \/ Lost(s)
    <2>1. /\ calls' = Without(s) /\ UNCHANGED <<row, verified, passed, made>>
          /\ (clean' => clean)
      BY <1>4 DEF Refused, Lost, server, history
    <2>2. Advance(s, Idle)
      BY <2>1 DEF Advance, Without
    <2> QED BY <2>1, <2>2, NoRows, OneQuiet
  <1>5. ASSUME NEW about, NEW g, NEW sh, NEW mine, Render(about, g, sh, Without(s), mine)
        PROVE  KeptInv'
    BY <1>1, <1>3, <1>5, RenderKept
  <1>6. CASE s = "start" /\ StartAnswered
    <2> DEFINE left == [calls EXCEPT !["start"] = Done(calls["start"], "reload")]
    <2>1. calls["start"] \in Call
      BY <1>6, CallIn DEF StartAnswered, Answered
    <2>2. left \in [Slot -> Call \cup {Idle}] /\ \A o \in Handlers : left[o] = calls[o]
      BY <1>1, <2>1, DoneIsNotIdle DEF Handlers, Submits
    <2>3. PICK about, g, sh, mine : Render(about, g, sh, left, mine)
      BY <1>6, Zenon DEF StartAnswered
    <2> HIDE DEF left
    <2> QED BY <2>2, <2>3, RenderKept
  <1>7. CASE s = "start" /\ Reloaded
    <2>1. /\ calls' = Without(s) /\ UNCHANGED <<row, verified, passed, made, clean>>
      BY <1>7 DEF Reloaded, server, history
    <2>2. Advance(s, Idle)
      BY <2>1 DEF Advance, Without
    <2> QED BY <1>2, <2>1, <2>2, NoRows, OneQuiet
  <1> QED BY <1>4, <1>5, <1>6, <1>7, Zenon DEF Handle, FetchAnswered, ArriveAnswered,
                           OtpAnswered, PhotoAnswered, PollAnswered

LEMMA SyncKept == ASSUME KeptInv, GateInv, Sync PROVE KeptInv'
  <1>1. PICK left, sh : /\ left \in [Slot -> Call \cup {Idle}]
                        /\ \A s \in Handlers : left[s] = calls[s]
                        /\ Render(shown.job, gates, sh, left, {})
    <2>1. calls \in [Slot -> Call \cup {Idle}] /\ Request(current) \in Call
      BY DEF GateInv, CallsOK, Typed, Request, Call, Status
    <2>2. \A s \in Fetches :
              /\ [calls EXCEPT ![s] = Request(current)] \in [Slot -> Call \cup {Idle}]
              /\ \A o \in Handlers : [calls EXCEPT ![s] = Request(current)][o] = calls[o]
      BY <2>1 DEF Handlers, Submits, Fetches, Slot
    <2> QED BY <2>1, <2>2 DEF Sync
  <1> QED BY <1>1, RenderKept

\* Unless two submissions met or an answer was lost or shown for another job, the server
\* has every gate a job has passed in its row: no row is saved over a newer one.
THEOREM GatesAreKeptCorrect == Spec => []GatesAreKept
  <1>1. Init => KeptInv
    <2> SUFFICES ASSUME Init PROVE KeptInv
      OBVIOUS
    <2>1. \A s \in Slot : calls[s] = Idle
      BY DEF Init
    <2>2. AutoReads /\ Fresh
      BY <2>1 DEF AutoReads, Fresh, Reading, Handlers, Slot
    <2>3. NoneLost
      BY DEF Init, NoneLost
    <2>4. RowsMade
      BY <2>1 DEF Init, RowsMade, Reading, Handlers, Slot
    <2> QED BY <2>2, <2>3, <2>4 DEF KeptInv
  <1>2. GateInv /\ KeptInv /\ [Next]_vars => KeptInv'
    <2> SUFFICES ASSUME GateInv, KeptInv, [Next]_vars PROVE KeptInv'
      OBVIOUS
    <2>1. CASE UNCHANGED vars
      <3>1. UNCHANGED <<row, verified, made, passed, calls, clean>>
        BY <2>1 DEF vars, server, history
      <3> QED BY <3>1 DEF KeptInv, AutoReads, RowsMade, Fresh, Reading, NoneLost
    <2>2. CASE NextJob
      <3> DEFINE j == current + 1
      <3>1. /\ UNCHANGED <<verified, passed, calls, clean>>
            /\ \/ row' = row /\ made' = made
               \/ /\ j \notin made /\ row' = [row EXCEPT ![j] = row[current]]
                  /\ made' = made \cup {j}
        BY <2>2 DEF NextJob, history, Inherits
      <3>2. row \in [Job -> SUBSET Gates] /\ \A k \in Job : k \notin made => row[k] = {}
        BY DEF GateInv, Typed, KeptInv, RowsMade
      <3> HIDE DEF j
      <3>3. QuietRows
        BY <3>1, <3>2 DEF QuietRows
      <3>4. AutoReads'
        BY <3>1 DEF KeptInv, AutoReads
      <3> QED BY <3>1, <3>3, <3>4, QuietKeeps
    <2> QED BY <2>1, <2>2, ServeKept, HandleKept, AskKept, SyncKept DEF Next
  <1>3. KeptInv => GatesAreKept
    BY DEF KeptInv, GatesAreKept
  <1> QED BY <1>1, <1>2, <1>3, GateInvariant, PTL DEF Spec

-----------------------------------------------------------------------------
(***************************************************************************)
(* The technician's list of jobs (ActiveJobs), in the same application: no *)
(* late answer undoes what a handler was told.  The module is an instance  *)
(* here, next to the gates, with parameters and variables of its own; the  *)
(* proof needs no assumption on them.                                      *)
(***************************************************************************)
CONSTANTS Jobs, MaxInFlight, MaxMoves, MaxActs, MaxLost

VARIABLES held, onScreen, fetches, newest, inFlight, timer, watching, acts, again, told, left

List == INSTANCE ActiveJobs
            WITH MaxFaults <- MaxLost, server <- held, shown <- onScreen, budget <- left

-----------------------------------------------------------------------------
(***************************************************************************)
(* The invariant of the list.                                              *)
(***************************************************************************)

\* BOOLEAN, which the SMT solver does not see into.
Truth == BOOLEAN

FetchRow == [read : Truth, rows : List!Lists]

ActRow == List!Act \cup {List!NoAct}

Shaped ==
    /\ held \in [Jobs -> List!Held] /\ onScreen \in List!Lists
    /\ fetches \in Seq(FetchRow) /\ (newest => fetches # <<>>)
    /\ acts \in [Jobs -> ActRow]
    /\ told \in [Jobs -> {"nothing", "none", "mine"}]

\* What the technician was told of a job is what the server holds.
TellsTruth == \A j \in Jobs : told[j] # "nothing" => List!Listed(held[j]) = told[j]

\* The fetch that may still be shown was read after that, or is yet to be read.
Current(fetch) == fetch.read => \A j \in Jobs : told[j] # "nothing" => fetch.rows[j] = told[j]

NewestCurrent == newest => Current(fetches[Len(fetches)])

\* A job that was told to be accepted is no offer on the screen any more, and no
\* answer to an earlier acceptance or decline of it is awaited.
AcceptedStays ==
    \A j \in Jobs : told[j] = "mine" =>
        /\ onScreen[j] # "offer"
        /\ acts[j].kind \notin {"accept", "decline"}

JobsInv == Shaped /\ TellsTruth /\ NewestCurrent /\ AcceptedStays

Stands ==
    \A j \in Jobs :
        told[j] # "nothing" /\ told'[j] = told[j] /\ onScreen[j] = told[j]
            => onScreen'[j] = onScreen[j]

Good == JobsInv' /\ Stands

-----------------------------------------------------------------------------
(***************************************************************************)
(* Fetches.                                                                *)
(***************************************************************************)

LEMMA Truths == TRUE \in Truth /\ FALSE \in Truth
  BY DEF Truth

FetchesShaped == fetches \in Seq(FetchRow) /\ (newest => fetches # <<>>)

\* The newest fetch is the one it was, or yet to be read.
Newer == newest' => \/ ~fetches'[Len(fetches')].read
                    \/ newest /\ fetches'[Len(fetches')] = fetches[Len(fetches)]

LEMMA AskedShaped == List!Asked \in FetchRow /\ ~List!Asked.read
  BY Truths DEF List!Asked, FetchRow, List!Lists, List!Row, List!Blank

LEMMA RefreshKeeps ==
    ASSUME Shaped, NEW force, List!Refresh(force)
    PROVE  /\ FetchesShaped' /\ Newer
           /\ force => newest' /\ ~fetches'[Len(fetches')].read
  <1>1. CASE UNCHANGED <<fetches, newest, inFlight>> /\ inFlight /\ ~force
    BY <1>1 DEF Shaped, FetchesShaped, Newer
  <1>2. CASE fetches' = Append(fetches, List!Asked) /\ newest' = TRUE
    <2>1. fetches \in Seq(FetchRow) /\ List!Asked \in FetchRow /\ ~List!Asked.read
      BY AskedShaped DEF Shaped
    <2> HIDE DEF List!Asked
    <2>2. /\ fetches' \in Seq(FetchRow) /\ fetches' # <<>>
          /\ fetches'[Len(fetches')] = List!Asked
      BY <1>2, <2>1
    <2>3. newest'
      BY <1>2
    <2> QED BY <2>1, <2>2, <2>3 DEF FetchesShaped, Newer
  <1> QED BY <1>1, <1>2 DEF List!Refresh

LEMMA RemoveAtLast ==
    ASSUME NEW S, NEW s \in Seq(S), NEW i \in 1..Len(s)
    PROVE  /\ List!RemoveAt(s, i) \in Seq(S)
           /\ i # Len(s) => /\ List!RemoveAt(s, i) # <<>>
                            /\ List!RemoveAt(s, i)[Len(List!RemoveAt(s, i))] = s[Len(s)]
  <1> DEFINE a == SubSeq(s, 1, i - 1)
             b == SubSeq(s, i + 1, Len(s))
  <1>1. a \in Seq(S) /\ Len(a) = i - 1 /\ b \in Seq(S) /\ Len(b) = Len(s) - i
    BY SubSeqProperties
  <1>2. i # Len(s) => b[Len(s) - i] = s[Len(s)]
    BY SubSeqProperties
  <1>3. List!RemoveAt(s, i) = a \o b
    BY DEF List!RemoveAt
  <1> HIDE DEF a, b
  <1>4. /\ a \o b \in Seq(S) /\ Len(a \o b) = Len(s) - 1
        /\ i # Len(s) => (a \o b)[Len(s) - 1] = b[Len(s) - i]
    <2>1. /\ a \o b \in Seq(S) /\ Len(a \o b) = Len(a) + Len(b)
          /\ \A k \in 1 .. Len(a) + Len(b) :
                (a \o b)[k] = IF k <= Len(a) THEN a[k] ELSE b[k - Len(a)]
      BY <1>1, ConcatProperties
    <2>2. /\ Len(a) + Len(b) = Len(s) - 1 /\ (Len(s) - 1) - Len(a) = Len(s) - i
          /\ i # Len(s) => /\ Len(s) - 1 \in 1 .. Len(a) + Len(b)
                           /\ ~(Len(s) - 1 <= Len(a))
      BY <1>1
    <2> QED BY <2>1, <2>2
  <1>5. i # Len(s) => a \o b # <<>>
    BY <1>4
  <1> QED BY <1>2, <1>3, <1>4, <1>5

LEMMA EndedKeeps ==
    ASSUME Shaped, NEW i \in DOMAIN fetches, List!Ended(i)
    PROVE  FetchesShaped' /\ Newer
  <1>1. fetches \in Seq(FetchRow) /\ i \in 1..Len(fetches)
    BY DEF Shaped
  <1>2. fetches' = List!RemoveAt(fetches, i) /\ (newest' <=> newest /\ i # Len(fetches))
    BY DEF List!Ended
  <1>3. /\ fetches' \in Seq(FetchRow)
        /\ i # Len(fetches) => /\ fetches' # <<>>
                              /\ fetches'[Len(fetches')] = fetches[Len(fetches)]
    BY <1>1, <1>2, RemoveAtLast
  <1> QED BY <1>2, <1>3 DEF FetchesShaped, Newer

LEMMA FetchReadKeeps ==
    ASSUME JobsInv, NEW i \in DOMAIN fetches, List!ServerReads(i)
    PROVE  Good
  <1> DEFINE rows == [j \in Jobs |-> List!Listed(held[j])]
             f == [read |-> TRUE, rows |-> rows]
  <1>1. /\ fetches' = [fetches EXCEPT ![i] = f]
        /\ UNCHANGED <<held, onScreen, newest, acts, told>>
    BY DEF List!ServerReads
  <1>2. rows \in List!Lists /\ \A j \in Jobs : rows[j] = List!Listed(held[j])
    BY DEF JobsInv, Shaped, List!Lists, List!Row, List!Listed, List!Held
  <1> HIDE DEF rows
  <1>3. f \in FetchRow /\ f.rows = rows
    BY <1>2, Truths DEF FetchRow
  <1> HIDE DEF f
  <1>4. /\ fetches \in Seq(FetchRow) /\ i \in 1 .. Len(fetches)
        /\ fetches' \in Seq(FetchRow) /\ Len(fetches') = Len(fetches)
        /\ \A k \in 1 .. Len(fetches) : fetches'[k] = IF k = i THEN f ELSE fetches[k]
    BY <1>1, <1>3 DEF JobsInv, Shaped
  <1>5. Shaped'
    BY <1>1, <1>4 DEF JobsInv, Shaped
  <1>6. Current(f)
    BY <1>2, <1>3 DEF JobsInv, TellsTruth, Current
  <1>7. NewestCurrent'
    <2>1. SUFFICES ASSUME newest', fetches'[Len(fetches')].read
                   PROVE  \A j \in Jobs : told[j] # "nothing" =>
                              fetches'[Len(fetches')].rows[j] = told[j]
      BY <1>1 DEF NewestCurrent, Current
    <2>2. newest /\ Len(fetches) \in 1 .. Len(fetches)
      BY <1>1, <1>4, <2>1 DEF JobsInv, Shaped
    <2>3. fetches'[Len(fetches')] = IF Len(fetches) = i THEN f ELSE fetches[Len(fetches)]
      BY <1>4, <2>2
    <2>4. Current(fetches[Len(fetches)])
      BY <2>2 DEF JobsInv, NewestCurrent
    <2> QED BY <1>6, <2>1, <2>3, <2>4 DEF Current
  <1>8. TellsTruth' /\ AcceptedStays' /\ Stands
    BY <1>1 DEF JobsInv, TellsTruth, AcceptedStays, Stands
  <1> QED BY <1>5, <1>7, <1>8 DEF Good, JobsInv

\* What a step may tell, and show.
LEMMA Tells ==
    ASSUME JobsInv, held' \in [Jobs -> List!Held], onScreen' \in List!Lists,
           FetchesShaped', Newer,
           acts' \in [Jobs -> ActRow], told' \in [Jobs -> {"nothing", "none", "mine"}],
           \A k \in Jobs :
               \/ told'[k] = "nothing"
               \/ told'[k] = told[k] /\ held'[k] = held[k]
               \/ List!Listed(held'[k]) = told'[k] /\ newest' /\ ~fetches'[Len(fetches')].read,
           AcceptedStays', Stands
    PROVE  Good
  <1>1. Shaped'
    BY DEF Shaped, FetchesShaped
  <1>2. TellsTruth'
    BY DEF JobsInv, TellsTruth
  <1>3. NewestCurrent'
    BY DEF JobsInv, NewestCurrent, Newer, Current
  <1> QED BY <1>1, <1>2, <1>3 DEF Good, JobsInv

LEMMA FetchesRest ==
    ASSUME JobsInv, UNCHANGED <<fetches, newest>>
    PROVE  FetchesShaped' /\ Newer
  BY DEF JobsInv, Shaped, FetchesShaped, Newer

LEMMA AnsweredKeeps ==
    ASSUME JobsInv, NEW i \in DOMAIN fetches, List!Answered(i)
    PROVE  Good
  <1>1. /\ fetches[i].read
        /\ onScreen' = IF List!IsNewest(i) THEN fetches[i].rows ELSE onScreen
        /\ List!Ended(i) /\ UNCHANGED <<held, acts, told>>
    BY DEF List!Answered
  <1>2. FetchesShaped' /\ Newer
    BY <1>1, EndedKeeps DEF JobsInv
  <1>3. fetches[i].rows \in List!Lists
    <2>1. fetches[i] \in FetchRow
      BY DEF JobsInv, Shaped
    <2> QED BY <2>1 DEF FetchRow
  <1>4. List!IsNewest(i) => \A j \in Jobs : told[j] # "nothing" => onScreen'[j] = told[j]
    BY <1>1 DEF JobsInv, NewestCurrent, Current, List!IsNewest
  <1>5. AcceptedStays' /\ Stands
    BY <1>1, <1>4 DEF JobsInv, AcceptedStays, Stands
  <1> QED BY <1>1, <1>2, <1>3, <1>5, Tells DEF JobsInv, Shaped

\* A step that leaves what is shown and told alone.
LEMMA OnlyFetches ==
    ASSUME JobsInv, FetchesShaped', Newer, UNCHANGED <<held, onScreen, acts, told>>
    PROVE  Good
  <1>1. AcceptedStays' /\ Stands
    BY DEF JobsInv, AcceptedStays, Stands
  <1> QED BY <1>1, Tells DEF JobsInv, Shaped

LEMMA FailedKeeps ==
    ASSUME JobsInv, NEW i \in DOMAIN fetches, List!Failed(i)
    PROVE  Good
  <1>1. FetchesShaped' /\ Newer
    BY EndedKeeps DEF List!Failed, JobsInv
  <1> QED BY <1>1, OnlyFetches DEF List!Failed

LEMMA RefreshingKeeps ==
    ASSUME JobsInv,
           List!Poll \/ List!Show \/ List!TimerFires \/ List!RefreshAgain \/ List!Hide
    PROVE  Good
  <1>1. UNCHANGED <<held, onScreen, acts, told>>
    BY DEF List!Poll, List!Show, List!TimerFires, List!RefreshAgain, List!Hide, List!list
  <1>2. \/ List!Refresh(TRUE) \/ List!Refresh(FALSE) \/ UNCHANGED <<fetches, newest>>
    BY DEF List!Poll, List!Show, List!TimerFires, List!RefreshAgain, List!Hide, List!list
  <1>3. FetchesShaped' /\ Newer
    BY <1>2, RefreshKeeps, FetchesRest DEF JobsInv
  <1> QED BY <1>1, <1>3, OnlyFetches

-----------------------------------------------------------------------------
(***************************************************************************)
(* The server and the technician.                                          *)
(***************************************************************************)

LEMMA ActKinds ==
    /\ List!NoAct.kind = "none" /\ List!NoAct \in ActRow
    /\ \A a \in ActRow : a # List!NoAct => a \in List!Act
  BY DEF List!NoAct, ActRow

LEMMA AnswerShaped ==
    ASSUME JobsInv, NEW j \in Jobs, acts[j] # List!NoAct,
           NEW pc \in {"sent", "done", "taken", "busy", "refused"}, List!Answer(j, pc)
    PROVE  /\ acts' \in [Jobs -> ActRow]
           /\ \A k \in Jobs : acts'[k].kind = acts[k].kind
  <1>1. acts \in [Jobs -> ActRow] /\ acts[j] \in List!Act
    BY ActKinds DEF JobsInv, Shaped
  <1> DEFINE a == [acts[j] EXCEPT !.pc = pc]
  <1>2. a \in List!Act /\ a.kind = acts[j].kind
    BY <1>1 DEF List!Act
  <1>3. acts' = [acts EXCEPT ![j] = a]
    BY DEF List!Answer
  <1> HIDE DEF a
  <1>4. \A k \in Jobs : acts'[k] = IF k = j THEN a ELSE acts[k]
    BY <1>1, <1>3
  <1>5. acts' \in [Jobs -> ActRow]
    BY <1>1, <1>2, <1>3 DEF ActRow
  <1> QED BY <1>2, <1>4, <1>5

LEMMA BecomesKeeps ==
    ASSUME JobsInv, NEW j \in Jobs, NEW h \in List!Held, List!Becomes(j, h),
           acts' \in [Jobs -> ActRow], \A k \in Jobs : acts'[k].kind = acts[k].kind,
           UNCHANGED <<onScreen, fetches, newest>>
    PROVE  Good
  <1>1. FetchesShaped' /\ Newer
    BY FetchesRest
  <1>2. /\ held' \in [Jobs -> List!Held] /\ told' \in [Jobs -> {"nothing", "none", "mine"}]
        /\ \A k \in Jobs : /\ told'[k] = IF k = j THEN "nothing" ELSE told[k]
                           /\ k # j => held'[k] = held[k]
    BY DEF List!Becomes, JobsInv, Shaped
  <1>3. AcceptedStays' /\ Stands
    BY <1>2 DEF JobsInv, AcceptedStays, Stands
  <1> QED BY <1>1, <1>2, <1>3, Tells DEF JobsInv, Shaped

LEMMA ActsKeep ==
    ASSUME JobsInv, acts' \in [Jobs -> ActRow],
           \A k \in Jobs : acts'[k].kind = acts[k].kind \/ acts'[k] = List!NoAct,
           UNCHANGED <<held, onScreen, told>>, FetchesShaped', Newer
    PROVE  Good
  <1>1. AcceptedStays' /\ Stands
    BY ActKinds DEF JobsInv, AcceptedStays, Stands
  <1> QED BY <1>1, Tells DEF JobsInv, Shaped

LEMMA ServerMovesKeeps ==
    ASSUME JobsInv, NEW j \in Jobs, List!ServerMoves(j)
    PROVE  Good
  <1>1. PICK h \in List!Held : List!Becomes(j, h)
    BY DEF List!ServerMoves, List!Held
  <1>2. UNCHANGED <<onScreen, fetches, newest, acts>>
    BY DEF List!ServerMoves, List!list
  <1> QED BY <1>1, <1>2, BecomesKeeps DEF JobsInv, Shaped

LEMMA ServedKeeps ==
    ASSUME JobsInv, NEW j \in Jobs, List!Served(j)
    PROVE  Good
  <1>1. acts[j] # List!NoAct /\ UNCHANGED <<onScreen, fetches, newest>>
    BY DEF List!Served, List!ServerAccepts, List!ServerReleases, List!list
  <1>2. PICK pc \in {"sent", "done", "taken", "busy", "refused"} :
          /\ List!Answer(j, pc)
          /\ \/ UNCHANGED <<held, told>>
             \/ \E h \in List!Held : List!Becomes(j, h)
    BY DEF List!Served, List!ServerAccepts, List!ServerReleases, List!Held
  <1>3. acts' \in [Jobs -> ActRow] /\ \A k \in Jobs : acts'[k].kind = acts[k].kind
    BY <1>1, <1>2, AnswerShaped
  <1>4. CASE UNCHANGED <<held, told>>
    BY <1>1, <1>3, <1>4, ActsKeep, FetchesRest
  <1>5. CASE \E h \in List!Held : List!Becomes(j, h)
    BY <1>1, <1>3, <1>5, BecomesKeeps
  <1> QED BY <1>2, <1>4, <1>5

\* A request about a job that is shown: of an offer an acceptance or a decline, and
\* the offer may go from the list.
LEMMA AskKeeps ==
    ASSUME JobsInv, NEW j \in Jobs,
           List!Accept(j) \/ List!Decline(j) \/ List!Cancel(j) \/ List!Finish(j)
    PROVE  Good
  <1>1. PICK kind \in List!Kind, page \in List!Page :
          /\ List!Ask(j, kind, page)
          /\ kind \in {"accept", "decline"} => onScreen[j] = "offer"
    BY DEF List!Accept, List!Decline, List!Cancel, List!Finish, List!Kind, List!Page
  <1>2. UNCHANGED <<held, fetches, newest, told>>
    BY DEF List!Accept, List!Decline, List!Cancel, List!Finish, List!list
  <1>3. \/ UNCHANGED onScreen
        \/ onScreen[j] = "offer" /\ onScreen' = [onScreen EXCEPT ![j] = "none"]
    BY DEF List!Accept, List!Decline, List!Cancel, List!Finish, List!list
  <1> DEFINE a == [kind |-> kind, page |-> page, pc |-> "sent"]
  <1>4. a \in List!Act /\ a.kind = kind
    BY DEF List!Act
  <1>5. acts' = [acts EXCEPT ![j] = a]
    BY <1>1 DEF List!Ask
  <1> HIDE DEF a
  <1>6. /\ acts' \in [Jobs -> ActRow]
        /\ \A k \in Jobs : acts'[k] = IF k = j THEN a ELSE acts[k]
    BY <1>4, <1>5 DEF JobsInv, Shaped, ActRow
  <1>7. /\ onScreen' \in List!Lists
        /\ \A k \in Jobs : onScreen'[k] = onScreen[k] \/ onScreen[k] = "offer"
    BY <1>3 DEF JobsInv, Shaped, List!Lists, List!Row
  <1>8. \A k \in Jobs : onScreen'[k] = "offer" => onScreen[k] = "offer"
    BY <1>3 DEF JobsInv, Shaped, List!Lists
  <1>9. AcceptedStays'
    BY <1>1, <1>2, <1>4, <1>6, <1>8 DEF JobsInv, AcceptedStays
  <1>10. Stands
    BY <1>7 DEF JobsInv, Shaped, Stands
  <1>11. FetchesShaped' /\ Newer
    BY <1>2, FetchesRest
  <1> QED BY <1>2, <1>6, <1>7, <1>9, <1>10, <1>11, Tells DEF JobsInv, Shaped

LEMMA OverShaped ==
    ASSUME JobsInv, NEW j \in Jobs, List!Over(j)
    PROVE  /\ acts' \in [Jobs -> ActRow]
           /\ \A k \in Jobs : acts'[k] = IF k = j THEN List!NoAct ELSE acts[k]
  <1>1. List!NoAct \in ActRow /\ acts \in [Jobs -> ActRow]
    BY ActKinds DEF JobsInv, Shaped
  <1> HIDE DEF List!NoAct
  <1> QED BY <1>1 DEF List!Over

\* An answer tells something, and the list is refreshed.
LEMMA ToldKeeps ==
    ASSUME JobsInv, NEW j \in Jobs, NEW arow \in {"none", "mine"}, List!Told(j, arow),
           List!Over(j),
           List!Refresh(TRUE), UNCHANGED held,
           onScreen' \in List!Lists, \A k \in Jobs : k # j => onScreen'[k] = onScreen[k],
           arow = "mine" => onScreen'[j] # "offer",
           told[j] = arow /\ onScreen[j] = arow => onScreen'[j] = arow
    PROVE  Good
  <1>1. FetchesShaped' /\ Newer /\ newest' /\ ~fetches'[Len(fetches')].read
    BY RefreshKeeps DEF JobsInv
  <1>2. /\ told' \in [Jobs -> {"nothing", "none", "mine"}]
        /\ \A k \in Jobs : k # j => told'[k] = told[k]
        /\ \/ told'[j] = "nothing"
           \/ told'[j] = arow /\ List!Listed(held[j]) = arow
    BY DEF List!Told, JobsInv, Shaped
  <1>3. AcceptedStays'
    BY <1>2, OverShaped, ActKinds DEF JobsInv, AcceptedStays
  <1>4. Stands
    BY <1>2 DEF Stands
  <1>5. acts' \in [Jobs -> ActRow]
    BY OverShaped
  <1> QED BY <1>1, <1>2, <1>3, <1>4, <1>5, Tells DEF JobsInv, Shaped

LEMMA AcceptedKeeps ==
    ASSUME JobsInv, NEW j \in Jobs, List!AcceptedOnDashboard(j)
    PROVE  Good
  <1>1. /\ onScreen' = IF onScreen[j] = "none" THEN onScreen
                     ELSE [onScreen EXCEPT ![j] = "mine"]
        /\ List!Told(j, "mine") /\ List!Refresh(TRUE) /\ List!Over(j) /\ UNCHANGED held
    BY DEF List!AcceptedOnDashboard
  <1>2. /\ onScreen' \in List!Lists /\ \A k \in Jobs : k # j => onScreen'[k] = onScreen[k]
        /\ onScreen'[j] \in {"none", "mine"} /\ (onScreen[j] = "mine" => onScreen'[j] = "mine")
    BY <1>1 DEF JobsInv, Shaped, List!Lists, List!Row
  <1> QED BY <1>1, <1>2, ToldKeeps

LEMMA ReleasedKeeps ==
    ASSUME JobsInv, NEW j \in Jobs, NEW kind, List!Released(j, kind)
    PROVE  Good
  <1>1. /\ onScreen' = [onScreen EXCEPT ![j] = "none"]
        /\ List!Told(j, "none") /\ List!Refresh(TRUE) /\ List!Over(j) /\ UNCHANGED held
    BY DEF List!Released
  <1>2. /\ onScreen' \in List!Lists /\ \A k \in Jobs : k # j => onScreen'[k] = onScreen[k]
        /\ onScreen'[j] = "none"
    BY <1>1 DEF JobsInv, Shaped, List!Lists, List!Row
  <1> QED BY <1>1, <1>2, ToldKeeps

LEMMA OverKeeps ==
    ASSUME JobsInv, NEW j \in Jobs, List!Over(j), UNCHANGED <<held, onScreen, told>>,
           FetchesShaped', Newer
    PROVE  Good
  <1>1. /\ acts' \in [Jobs -> ActRow]
        /\ \A k \in Jobs : acts'[k].kind = acts[k].kind \/ acts'[k] = List!NoAct
    BY OverShaped
  <1> QED BY <1>1, ActsKeep

LEMMA DeclinedKeeps ==
    ASSUME JobsInv, NEW j \in Jobs, List!DeclineAnswered(j)
    PROVE  Good
  <1>1. List!Refresh(TRUE) /\ List!Over(j) /\ UNCHANGED <<held, onScreen>>
    BY DEF List!DeclineAnswered
  <1>2. CASE List!Told(j, "none")
    BY <1>1, <1>2, ToldKeeps DEF JobsInv, Shaped
  <1>3. CASE UNCHANGED told
    BY <1>1, <1>3, RefreshKeeps, OverKeeps DEF JobsInv
  <1> QED BY <1>2, <1>3 DEF List!DeclineAnswered

\* The arow goes with a 409: the job was an offer until then, as far as the
\* technician was told.
LEMMA NotAcceptedKeeps ==
    ASSUME JobsInv, NEW j \in Jobs, List!NotAcceptedOnDashboard(j)
    PROVE  Good
  <1>1. /\ acts[j].kind = "accept" /\ List!Over(j)
        /\ UNCHANGED <<held, fetches, newest, told>>
    BY DEF List!NotAcceptedOnDashboard
  <1>2. onScreen' = [onScreen EXCEPT ![j] = "none"] \/ UNCHANGED onScreen
    BY DEF List!NotAcceptedOnDashboard
  <1>3. told[j] # "mine"
    BY <1>1 DEF JobsInv, AcceptedStays
  <1>4. /\ onScreen' \in List!Lists /\ \A k \in Jobs : k # j => onScreen'[k] = onScreen[k]
        /\ onScreen'[j] = "none" \/ onScreen'[j] = onScreen[j]
    BY <1>2 DEF JobsInv, Shaped, List!Lists, List!Row
  <1>5. AcceptedStays'
    BY <1>1, <1>3, <1>4, OverShaped, ActKinds DEF JobsInv, AcceptedStays
  <1>6. Stands
    BY <1>3, <1>4 DEF JobsInv, Shaped, Stands
  <1>7. FetchesShaped' /\ Newer
    BY <1>1, FetchesRest
  <1> QED BY <1>1, <1>4, <1>5, <1>6, <1>7, OverShaped, Tells DEF JobsInv, Shaped

LEMMA HandledKeeps ==
    ASSUME JobsInv, NEW j \in Jobs, List!Handled(j)
    PROVE  Good
  <1>1. CASE List!AcceptAnsweredOnJobsPage(j) \/ List!NotReleased(j) \/ List!Lost(j)
    <2>1. List!Over(j) /\ UNCHANGED <<held, onScreen, told>>
      BY <1>1 DEF List!AcceptAnsweredOnJobsPage, List!NotReleased, List!Lost, List!list
    <2>2. List!Refresh(TRUE) \/ List!Refresh(FALSE) \/ UNCHANGED <<fetches, newest>>
      BY <1>1 DEF List!AcceptAnsweredOnJobsPage, List!NotReleased, List!Lost, List!list
    <2>3. FetchesShaped' /\ Newer
      BY <2>2, RefreshKeeps, FetchesRest DEF JobsInv
    <2> QED BY <2>1, <2>3, OverKeeps
  <1> QED BY <1>1, AcceptedKeeps, NotAcceptedKeeps, DeclinedKeeps, ReleasedKeeps
          DEF List!Handled, List!Cancelled, List!Finished

LEMMA JobsStart == List!Init => JobsInv
  <1> SUFFICES ASSUME List!Init PROVE JobsInv
    OBVIOUS
  <1>1. /\ held \in [Jobs -> {"none", "offer"}] /\ onScreen \in {List!Blank, held}
        /\ fetches = <<List!Asked>> /\ acts = [j \in Jobs |-> List!NoAct]
        /\ told = [j \in Jobs |-> "nothing"]
    BY DEF List!Init
  <1>2. fetches \in Seq(FetchRow) /\ fetches # <<>> /\ ~fetches[Len(fetches)].read
    <2> HIDE DEF List!Asked
    <2> QED BY <1>1, AskedShaped
  <1>3. acts \in [Jobs -> ActRow]
    BY <1>1, ActKinds
  <1>4. Shaped
    BY <1>1, <1>2, <1>3 DEF Shaped, List!Held, List!Lists, List!Row, List!Blank
  <1>5. TellsTruth /\ AcceptedStays
    BY <1>1 DEF TellsTruth, AcceptedStays
  <1>6. NewestCurrent
    BY <1>2 DEF NewestCurrent, Current
  <1> QED BY <1>4, <1>5, <1>6 DEF JobsInv

LEMMA JobsStep ==
    ASSUME JobsInv, [List!Next]_List!vars
    PROVE  Good
  <1>1. CASE UNCHANGED List!vars
    BY <1>1, FetchesRest, OnlyFetches DEF List!vars
  <1>2. ASSUME NEW i \in DOMAIN fetches, List!Fetching(i)
        PROVE  Good
    BY <1>2, FetchReadKeeps, AnsweredKeeps, FailedKeeps DEF List!Fetching
  <1> QED BY <1>1, <1>2, RefreshingKeeps, ServerMovesKeeps, ServedKeeps, AskKeeps,
             HandledKeeps DEF List!Next

\* No answer of a fetch that was made before undoes what a handler has confirmed.
THEOREM ToldStandsCorrect == List!Spec => List!ToldStands
  <1>1. JobsInv /\ [List!Next]_List!vars => JobsInv' /\ [Stands]_List!vars
    BY JobsStep DEF Good
  <1> QED BY <1>1, JobsStart, PTL DEF List!Spec, List!ToldStands, Stands
-----------------------------------------------------------------------------
(***************************************************************************)
(* The fetches are few and well kept: the type invariant of ActiveJobs,    *)
(* and that the reference by which refreshes join a fetch is set only      *)
(* while the newest fetch runs.                                            *)
(***************************************************************************)
ListBounds ==
    /\ MaxInFlight \in Nat \ {0} /\ MaxMoves \in Nat /\ MaxActs \in Nat
    /\ MaxLost \in Nat

Flags ==
    /\ newest \in Truth /\ inFlight \in Truth
    /\ timer \in Truth /\ watching \in Truth /\ again \in Truth

FewFetches == Len(fetches) <= MaxInFlight /\ (inFlight => newest)

Budgeted == left \in [moves : 0..MaxMoves, acts : 0..MaxActs, faults : 0..MaxLost]

Kept == Flags /\ FewFetches /\ Budgeted

LEMMA SpentOnce ==
    ASSUME ListBounds, Budgeted, NEW what \in {"moves", "acts", "faults"}, List!Spend(what)
    PROVE  Budgeted'
  <1>1. /\ left[what] > 0 /\ left' = [left EXCEPT ![what] = @ - 1]
    BY DEF List!Spend
  <1>2. left = [moves |-> left.moves, acts |-> left.acts, faults |-> left.faults]
        /\ left.moves \in 0..MaxMoves /\ left.acts \in 0..MaxActs /\ left.faults \in 0..MaxLost
    BY DEF Budgeted
  <1>3. CASE what = "moves"
    BY <1>1, <1>2, <1>3 DEF Budgeted, ListBounds
  <1>4. CASE what = "acts"
    BY <1>1, <1>2, <1>4 DEF Budgeted, ListBounds
  <1>5. CASE what = "faults"
    BY <1>1, <1>2, <1>5 DEF Budgeted, ListBounds
  <1> QED BY <1>3, <1>4, <1>5

LEMMA RemovedIsShorter ==
    ASSUME NEW S, NEW s \in Seq(S), NEW i \in 1..Len(s)
    PROVE  Len(List!RemoveAt(s, i)) = Len(s) - 1
  <1> DEFINE a == SubSeq(s, 1, i - 1)
             b == SubSeq(s, i + 1, Len(s))
  <1>1. a \in Seq(S) /\ Len(a) = i - 1 /\ b \in Seq(S) /\ Len(b) = Len(s) - i
    BY SubSeqProperties
  <1>2. List!RemoveAt(s, i) = a \o b
    BY DEF List!RemoveAt
  <1> HIDE DEF a, b
  <1>3. Len(a \o b) = Len(a) + Len(b)
    BY <1>1, ConcatProperties
  <1> QED BY <1>1, <1>2, <1>3

LEMMA FlagsKeep ==
    ASSUME Flags, [List!Next]_List!vars
    PROVE  Flags'
  <1>1. CASE UNCHANGED List!vars
    BY <1>1, Zenon DEF List!vars, Flags
  <1> DEFINE Fetched == newest' \in Truth /\ inFlight' \in Truth
             Rest == timer' \in Truth /\ watching' \in Truth /\ again' \in Truth
  <1>2. ASSUME NEW force, List!Refresh(force) PROVE Fetched
    BY <1>2, Truths, Zenon DEF List!Refresh, Flags
  <1>3. ASSUME UNCHANGED <<newest, inFlight>> PROVE Fetched
    BY <1>3, Zenon DEF Flags
  <1>4. ASSUME NEW i \in DOMAIN fetches, List!Ended(i) PROVE Fetched
    BY <1>4, Zenon DEF List!Ended, Flags, Truth
  <1>5. ASSUME NEW i \in DOMAIN fetches, List!Fetching(i) PROVE Flags'
    <2>1. Fetched
      BY <1>3, <1>4, <1>5, Zenon DEF List!Fetching, List!ServerReads, List!Answered, List!Failed
    <2>2. UNCHANGED <<timer, watching, again>>
      BY <1>5, Zenon DEF List!Fetching, List!ServerReads, List!Answered, List!Failed
    <2> QED BY <2>1, <2>2, Zenon DEF Flags
  <1>6. ASSUME List!Poll \/ List!Hide \/ List!Show \/ List!TimerFires \/ List!RefreshAgain
        PROVE  Flags'
    <2>1. Fetched
      BY <1>2, <1>3, <1>6, Zenon
         DEF List!Poll, List!Hide, List!Show, List!TimerFires, List!RefreshAgain, List!list
    <2>2. Rest
      BY <1>6, Truths, Zenon
         DEF List!Poll, List!Hide, List!Show, List!TimerFires, List!RefreshAgain, Flags
    <2> QED BY <2>1, <2>2, Zenon DEF Flags
  <1>7. ASSUME NEW j \in Jobs, NEW h, List!Becomes(j, h) PROVE timer' \in Truth
    BY <1>7, Truths, Zenon DEF List!Becomes, Flags
  <1>8. ASSUME NEW j \in Jobs, List!ServerMoves(j) \/ List!Served(j) PROVE Flags'
    <2>1. UNCHANGED <<newest, inFlight, watching, again>>
      BY <1>8, Zenon DEF List!ServerMoves, List!Served, List!ServerAccepts,
                         List!ServerReleases, List!list
    <2>2. UNCHANGED timer \/ \E h \in List!Held : List!Becomes(j, h)
      BY <1>8 DEF List!ServerMoves, List!Served, List!ServerAccepts, List!ServerReleases, List!Held
    <2> QED BY <1>7, <2>1, <2>2, Zenon DEF Flags
  <1>9. ASSUME NEW j \in Jobs, List!Accept(j) \/ List!Decline(j) \/ List!Cancel(j) \/ List!Finish(j)
        PROVE  Flags'
    BY <1>9, Zenon DEF List!Accept, List!Decline, List!Cancel, List!Finish, List!list, Flags
  <1>10. ASSUME NEW j \in Jobs, List!Handled(j) PROVE Flags'
    <2>1. Fetched
      BY <1>2, <1>3, <1>10, Zenon
         DEF List!Handled, List!AcceptedOnDashboard, List!NotAcceptedOnDashboard,
             List!AcceptAnsweredOnJobsPage, List!DeclineAnswered, List!Cancelled, List!Finished,
             List!Released, List!NotReleased, List!Lost, List!list
    <2>2. Rest
      BY <1>10, Truths, Zenon
         DEF List!Handled, List!AcceptedOnDashboard, List!NotAcceptedOnDashboard,
             List!AcceptAnsweredOnJobsPage, List!DeclineAnswered, List!Cancelled, List!Finished,
             List!Released, List!NotReleased, List!Lost, Flags
    <2> QED BY <2>1, <2>2, Zenon DEF Flags
  <1> QED BY <1>1, <1>5, <1>6, <1>8, <1>9, <1>10, Zenon DEF List!Next

LEMMA FewKeep ==
    ASSUME ListBounds, Shaped, FewFetches, [List!Next]_List!vars
    PROVE  FewFetches'
  <1>1. fetches \in Seq(FetchRow) /\ MaxInFlight \in Nat
    BY DEF Shaped, ListBounds
  <1>2. ASSUME NEW force, List!Refresh(force) PROVE FewFetches'
    <2>1. CASE UNCHANGED <<fetches, newest, inFlight>>
      BY <2>1 DEF FewFetches
    <2>2. CASE Len(fetches) < MaxInFlight /\ fetches' = Append(fetches, List!Asked) /\ newest'
      <3> HIDE DEF List!Asked
      <3> QED BY <1>1, <2>2 DEF FewFetches
    <2> QED BY <1>2, <2>1, <2>2 DEF List!Refresh
  <1>3. ASSUME UNCHANGED <<fetches, newest, inFlight>> PROVE FewFetches'
    BY <1>3 DEF FewFetches
  <1>4. ASSUME NEW i \in DOMAIN fetches, List!Ended(i) PROVE FewFetches'
    <2>1. i \in 1..Len(fetches) /\ fetches' = List!RemoveAt(fetches, i) /\ ~inFlight'
      BY <1>1, <1>4 DEF List!Ended
    <2>2. Len(fetches') = Len(fetches) - 1
      BY <1>1, <2>1, RemovedIsShorter
    <2> QED BY <1>1, <2>1, <2>2 DEF FewFetches
  <1>5. ASSUME NEW i \in DOMAIN fetches, List!ServerReads(i) PROVE FewFetches'
    <2>1. Len(fetches') = Len(fetches) /\ UNCHANGED <<newest, inFlight>>
      BY <1>1, <1>5 DEF List!ServerReads
    <2> QED BY <2>1 DEF FewFetches
  <1>6. CASE UNCHANGED List!vars
    BY <1>3, <1>6 DEF List!vars
  <1>7. ASSUME NEW i \in DOMAIN fetches, List!Fetching(i) PROVE FewFetches'
    BY <1>4, <1>5, <1>7 DEF List!Fetching, List!Answered, List!Failed
  <1>8. ASSUME List!Poll \/ List!Hide \/ List!Show \/ List!TimerFires \/ List!RefreshAgain
        PROVE  FewFetches'
    BY <1>2, <1>3, <1>8
       DEF List!Poll, List!Hide, List!Show, List!TimerFires, List!RefreshAgain, List!list
  <1>9. ASSUME NEW j \in Jobs,
               \/ List!ServerMoves(j) \/ List!Served(j)
               \/ List!Accept(j) \/ List!Decline(j) \/ List!Cancel(j) \/ List!Finish(j)
        PROVE  FewFetches'
    BY <1>3, <1>9 DEF List!ServerMoves, List!Served, List!ServerAccepts, List!ServerReleases,
                      List!Accept, List!Decline, List!Cancel, List!Finish, List!list
  <1>10. ASSUME NEW j \in Jobs, List!Handled(j) PROVE FewFetches'
    BY <1>2, <1>3, <1>10
       DEF List!Handled, List!AcceptedOnDashboard, List!NotAcceptedOnDashboard,
           List!AcceptAnsweredOnJobsPage, List!DeclineAnswered, List!Cancelled, List!Finished,
           List!Released, List!NotReleased, List!Lost, List!list
  <1> QED BY <1>6, <1>7, <1>8, <1>9, <1>10 DEF List!Next

LEMMA BudgetKeeps ==
    ASSUME ListBounds, Budgeted, [List!Next]_List!vars
    PROVE  Budgeted'
  <1>1. ASSUME UNCHANGED left \/ \E what \in {"moves", "acts", "faults"} : List!Spend(what)
        PROVE  Budgeted'
    BY <1>1, SpentOnce DEF Budgeted
  <1>2. CASE UNCHANGED List!vars
    BY <1>1, <1>2 DEF List!vars
  <1>3. ASSUME NEW i \in DOMAIN fetches, List!Fetching(i) PROVE Budgeted'
    BY <1>1, <1>3 DEF List!Fetching, List!ServerReads, List!Answered, List!Failed
  <1>4. ASSUME List!Poll \/ List!Hide \/ List!Show \/ List!TimerFires \/ List!RefreshAgain
        PROVE  Budgeted'
    BY <1>1, <1>4 DEF List!Poll, List!Hide, List!Show, List!TimerFires, List!RefreshAgain
  <1>5. ASSUME NEW j \in Jobs,
               \/ List!ServerMoves(j) \/ List!Served(j)
               \/ List!Accept(j) \/ List!Decline(j) \/ List!Cancel(j) \/ List!Finish(j)
        PROVE  Budgeted'
    BY <1>1, <1>5 DEF List!ServerMoves, List!Served, List!ServerAccepts, List!ServerReleases,
                      List!Accept, List!Decline, List!Cancel, List!Finish, List!Ask
  <1>6. ASSUME NEW j \in Jobs, List!Handled(j) PROVE Budgeted'
    BY <1>1, <1>6
       DEF List!Handled, List!AcceptedOnDashboard, List!NotAcceptedOnDashboard,
           List!AcceptAnsweredOnJobsPage, List!DeclineAnswered, List!Cancelled, List!Finished,
           List!Released, List!NotReleased, List!Lost
  <1> QED BY <1>2, <1>3, <1>4, <1>5, <1>6 DEF List!Next

LEMMA ListAlways ==
    ASSUME ListBounds
    PROVE  List!Spec => [](JobsInv /\ Kept)
  <1>1. List!Init => Kept
    <2> SUFFICES ASSUME List!Init PROVE Kept
      OBVIOUS
    <2>1. Flags
      BY Truths, Zenon DEF List!Init, Flags
    <2>2. Len(fetches) = 1 /\ newest
      <3> HIDE DEF List!Asked
      <3> QED BY DEF List!Init
    <2>3. FewFetches
      BY <2>2 DEF ListBounds, FewFetches
    <2>4. Budgeted
      BY DEF List!Init, ListBounds, Budgeted
    <2> QED BY <2>1, <2>3, <2>4 DEF Kept
  <1>2. JobsInv /\ Kept /\ [List!Next]_List!vars => JobsInv' /\ Kept'
    BY JobsStep, FlagsKeep, FewKeep, BudgetKeeps, Zenon DEF Good, JobsInv, Kept
  <1> QED BY <1>1, <1>2, JobsStart, PTL DEF List!Spec

\* Every variable of ActiveJobs keeps its type, whatever is fetched, lost, asked and
\* answered.
THEOREM ListTypeCorrect == ASSUME ListBounds PROVE List!Spec => []List!TypeOK
  <1>1. JobsInv /\ Kept => List!TypeOK
    <2> SUFFICES ASSUME JobsInv, Kept PROVE List!TypeOK
      OBVIOUS
    <2>1. FetchRow = List!Fetch
      BY Zenon DEF FetchRow, Truth, List!Fetch
    <2>2. /\ newest \in BOOLEAN /\ inFlight \in BOOLEAN
          /\ timer \in BOOLEAN /\ watching \in BOOLEAN /\ again \in BOOLEAN
      BY Zenon DEF Kept, Flags, Truth
    <2>3. /\ held \in [Jobs -> List!Held] /\ onScreen \in List!Lists
          /\ fetches \in Seq(FetchRow) /\ Len(fetches) <= MaxInFlight
          /\ (inFlight \/ newest) => fetches # <<>>
      BY DEF Kept, FewFetches, JobsInv, Shaped
    <2>4. /\ acts \in [Jobs -> List!Act \cup {List!NoAct}]
          /\ told \in [Jobs -> {"nothing", "none", "mine"}]
          /\ left \in [moves : 0..MaxMoves, acts : 0..MaxActs, faults : 0..MaxLost]
      BY Zenon DEF Kept, Budgeted, JobsInv, Shaped, ActRow
    <2> QED BY <2>1, <2>2, <2>3, <2>4, Zenon DEF List!TypeOK
  <1> QED BY <1>1, ListAlways, PTL

\* A refresh that joins a fetch, and a poll that is held up by one, wait for an answer
\* that will be shown.
THEOREM JoinsTheNewestCorrect == ASSUME ListBounds PROVE List!Spec => []List!JoinsTheNewest
  <1>1. JobsInv /\ Kept => List!JoinsTheNewest
    BY DEF Kept, FewFetches, JobsInv, Shaped, List!JoinsTheNewest
  <1> QED BY <1>1, ListAlways, PTL
=============================================================================
