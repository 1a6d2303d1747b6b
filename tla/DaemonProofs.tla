---------------------------- MODULE DaemonProofs ----------------------------
(***************************************************************************)
(* Proofs about the daemon process around its store, for every value of    *)
(* the constants: how it schedules index work (IndexScheduler), what its   *)
(* maintenance remembers from one run to the next (Maintenance), and how   *)
(* one of several processes comes to own the store (DaemonLifecycle).  The *)
(* three share no state here; each section has its own invariant.          *)
(*                                                                         *)
(* Scheduling.  BacklogAttended says that somebody will see to the         *)
(* entries; it is not inductive, because it does not say who.  A request   *)
(* that ends without asking for a pass (AnswerDelete) may do so only       *)
(* because its own entry is published: so the invariant has each entry,    *)
(* from the cursor on, worked on by the request that committed it, or all  *)
(* of them left to a pass or to a trigger of one (BacklogInv).             *)
(***************************************************************************)
EXTENDS IndexScheduler, FiniteSetTheorems, TLAPS

Begun == {r \in Request : request[r].step # "new"}
CountInv == tail <= MaxBacklog + Cardinality(Begun)

Working(r) ==
    /\ request[r].step \in {"committed", "wave", "draining", "failed", "partial"}
    /\ request[r].kind # "purge"
BacklogInv ==
    phase = "up" /\ ~refused /\ ~missed =>
        \/ pass \/ immediate \/ timer
        \/ \A s \in (cursor + 1)..tail : \E r \in Request : Working(r) /\ request[r].sequence = s

ClosedInv == (closed => ~immediate /\ ~timer) /\ (phase = "closed" => ~pass)

Inv == TypeOK /\ CountInv /\ OneTrigger /\ ClosedInv /\ BacklogInv
-----------------------------------------------------------------------------
\* scheduleIndexing leaves a pass or the immediate behind, unless the daemon closes.
LEMMA Schedules ==
    ASSUME Inv, scheduleIndexing
    PROVE  /\ immediate' \in BOOLEAN /\ timer' \in BOOLEAN /\ OneTrigger'
           /\ closed => UNCHANGED timers
           /\ ~closed => immediate' \/ pass
BY DEF Inv, TypeOK, OneTrigger, scheduleIndexing, timers

\* scheduleIndexRetry leaves a timer or the immediate behind.
LEMMA Retries ==
    ASSUME Inv, scheduleIndexRetry
    PROVE  /\ immediate' \in BOOLEAN /\ timer' \in BOOLEAN /\ OneTrigger'
           /\ closed => UNCHANGED timers
           /\ ~closed => immediate' \/ timer'
BY DEF Inv, TypeOK, OneTrigger, scheduleIndexRetry, timers

LEMMA JoinedType == TypeOK => Joined \in Drains
BY DEF TypeOK, Joined, StartDrain, Drains

\* Requests that end or go on without a commit leave the count alone.
LEMMA CountStays ==
    ASSUME SchedulerAssumption, Inv, tail' = tail, Begun \subseteq Begun'
    PROVE  CountInv' /\ tail' \in 0..(MaxBacklog + Cardinality(Request))
<1>1. IsFiniteSet(Request) /\ Begun' \subseteq Request /\ MaxBacklog \in Nat /\ tail \in Nat
  BY DEF SchedulerAssumption, Inv, TypeOK, Begun
<1>2. IsFiniteSet(Begun') /\ Cardinality(Begun') \in Nat /\ Cardinality(Begun') <= Cardinality(Request)
      /\ Cardinality(Request) \in Nat
  BY <1>1, FS_Subset, FS_CardinalityType
<1>3. Cardinality(Begun) <= Cardinality(Begun') /\ Cardinality(Begun) \in Nat
  BY <1>2, FS_Subset, FS_CardinalityType
<1>4. QED
  BY <1>1, <1>2, <1>3 DEF Inv, CountInv

\* A commit begins a request that was new.
LEMMA CountGrows ==
    ASSUME SchedulerAssumption, Inv, NEW r \in Request, r \notin Begun,
           Begun' = Begun \union {r}, tail' = tail + 1
    PROVE  CountInv' /\ tail' \in 0..(MaxBacklog + Cardinality(Request))
<1>1. IsFiniteSet(Request) /\ Begun \subseteq Request /\ MaxBacklog \in Nat /\ tail \in Nat
  BY DEF SchedulerAssumption, Inv, TypeOK, Begun
<1>2. IsFiniteSet(Begun) /\ Cardinality(Begun) \in Nat /\ Cardinality(Request) \in Nat
  BY <1>1, FS_Subset, FS_CardinalityType
<1>3. Cardinality(Begun') = Cardinality(Begun) + 1
  BY <1>2, FS_AddElement
<1>4. Begun' \subseteq Request
  BY DEF Begun
<1>5. Cardinality(Begun') <= Cardinality(Request)
  BY <1>1, <1>4, FS_Subset
<1>6. QED
  BY <1>1, <1>2, <1>3, <1>5 DEF Inv, CountInv
-----------------------------------------------------------------------------
(***************************************************************************)
(* Requests.                                                               *)
(***************************************************************************)
\* A request that goes on: its new record keeps the kind and the sequence.
LEMMA RequestFrame ==
    ASSUME SchedulerAssumption, Inv, NEW r \in Request, UNCHANGED queue,
           request' \in [Request -> Requests],
           \A x \in Request \ {r} : request'[x] = request[x],
           request'[r].sequence = request[r].sequence, request'[r].step # "new"
    PROVE  /\ CountInv' /\ tail' \in 0..(MaxBacklog + Cardinality(Request))
           /\ cursor' \in 0..tail' /\ leased' \in BOOLEAN
           /\ \A x \in Request : request'[x].sequence <= tail'
<1>1. tail' = tail /\ cursor' = cursor /\ leased' = leased
  BY DEF queue
<1>2. Begun \subseteq Begun'
  BY DEF Begun
<1>3. \A x \in Request : request'[x].sequence = request[x].sequence
  OBVIOUS
<1>4. QED
  BY <1>1, <1>2, <1>3, CountStays DEF Inv, TypeOK

\* Who keeps working on its entry keeps the backlog attended.
LEMMA WorkingFrame ==
    ASSUME Inv, UNCHANGED <<tail, pass, timers, phase, refused, missed>>,
           cursor' \in Nat, cursor <= cursor',
           \A x \in Request : Working(x) /\ request[x].sequence > cursor' =>
                                Working(x)' /\ request'[x].sequence = request[x].sequence
    PROVE  BacklogInv'
<1> SUFFICES ASSUME phase = "up", ~refused, ~missed, ~pass, ~immediate, ~timer,
                    NEW s \in (cursor' + 1)..tail
             PROVE  \E r \in Request : Working(r)' /\ request'[r].sequence = s
  BY DEF BacklogInv, timers
<1>1. cursor \in Nat /\ tail \in Nat /\ cursor' \in Nat /\ cursor <= cursor'
  BY DEF Inv, TypeOK
<1> DEFINE next == cursor'
<1>2. s \in (cursor + 1)..tail /\ s > next
  <2>1. s \in (next + 1)..tail /\ next \in Nat /\ cursor <= next
    BY <1>1
  <2> HIDE DEF next
  <2>2. QED
    BY <1>1, <2>1
<1>3. PICK r \in Request : Working(r) /\ request[r].sequence = s
  BY <1>2 DEF Inv, BacklogInv
<1>4. QED
  BY <1>2, <1>3

LEMMA CommitStep ==
    ASSUME SchedulerAssumption, Inv, NEW r \in Request, Commit(r) PROVE Inv'
<1>0. /\ TypeOK /\ OneTrigger /\ ClosedInv /\ BacklogInv /\ request \in [Request -> Requests]
      /\ ForegroundWaves \in Nat /\ cursor \in Nat /\ tail \in Nat /\ cursor <= tail
  BY DEF Inv, TypeOK, SchedulerAssumption
<1>1. PICK kind \in {"small", "large", "delete"} :
        request' = [request EXCEPT ![r] = [kind |-> kind, step |-> "committed",
                                           sequence |-> tail + 1, waves |-> 0]]
  BY DEF Commit
<1>2. /\ tail' = tail + 1 /\ request[r].step = "new" /\ phase = "up"
      /\ UNCHANGED <<cursor, leased, drain, pass, immediate, timer, phase, faults, refused, missed>>
  BY DEF Commit, timers
<1>3. /\ request' \in [Request -> Requests]
      /\ request'[r].step = "committed" /\ request'[r].kind # "purge"
      /\ request'[r].sequence = tail + 1
      /\ \A x \in Request \ {r} : request'[x] = request[x]
  BY <1>0, <1>1 DEF Requests
<1>4. CountInv' /\ tail' \in 0..(MaxBacklog + Cardinality(Request))
  <2>1. Begun' = Begun \union {r} /\ r \notin Begun
    BY <1>2, <1>3 DEF Begun
  <2>2. QED
    BY <1>2, <2>1, CountGrows
<1>5. \A x \in Request : request'[x].sequence <= tail'
  <2> SUFFICES ASSUME NEW x \in Request PROVE request'[x].sequence <= tail'
    OBVIOUS
  <2>1. request[x].sequence \in Nat /\ request[x].sequence <= tail
    BY <1>0 DEF TypeOK, Requests
  <2>2. QED
    BY <1>0, <1>2, <1>3, <2>1
<1>6. TypeOK'
  BY <1>0, <1>2, <1>3, <1>4, <1>5 DEF TypeOK
<1>7. OneTrigger' /\ ClosedInv'
  BY <1>0, <1>2 DEF OneTrigger, ClosedInv, closed
<1>8. BacklogInv'
  <2> SUFFICES ASSUME ~refused, ~missed, ~pass, ~immediate, ~timer, NEW s \in (cursor + 1)..(tail + 1)
               PROVE  \E x \in Request : Working(x)' /\ request'[x].sequence = s
    BY <1>2 DEF BacklogInv
  <2>1. CASE s = tail + 1
    BY <1>3, <2>1 DEF Working
  <2>2. CASE s # tail + 1
    <3>1. PICK x \in Request : Working(x) /\ request[x].sequence = s
      BY <1>0, <1>2, <2>2 DEF BacklogInv
    <3>2. x # r
      BY <1>2, <3>1 DEF Working
    <3>3. QED
      BY <1>3, <3>1, <3>2 DEF Working
  <2>3. QED
    BY <2>1, <2>2
<1>9. QED
  BY <1>4, <1>6, <1>7, <1>8 DEF Inv

\* A request that is answered asks for a pass.
LEMMA AnsweredStep ==
    ASSUME SchedulerAssumption, Inv, NEW r \in Request, LeaveToBackground(r) \/ Answer(r)
    PROVE  Inv'
<1>0. /\ TypeOK /\ ClosedInv /\ request \in [Request -> Requests]
      /\ cursor \in 0..tail /\ leased \in BOOLEAN
  BY DEF Inv, TypeOK
<1>1. /\ Step(r, "done") /\ scheduleIndexing
      /\ UNCHANGED <<tail, cursor, leased, drain, pass, phase, faults, refused, missed>>
  BY DEF LeaveToBackground, Answer, queue
<1>2. /\ request' \in [Request -> Requests] /\ request'[r].step # "new"
      /\ \A x \in Request \ {r} : request'[x] = request[x]
      /\ request'[r].sequence = request[r].sequence
  BY <1>0, <1>1 DEF Step, Requests
<1>3. /\ CountInv' /\ tail' \in 0..(MaxBacklog + Cardinality(Request))
      /\ cursor' \in 0..tail' /\ leased' \in BOOLEAN
      /\ \A x \in Request : request'[x].sequence <= tail'
  BY <1>1, <1>2, RequestFrame DEF queue
<1>4. TypeOK'
  BY <1>0, <1>1, <1>2, <1>3, Schedules DEF TypeOK
<1>5. OneTrigger' /\ ClosedInv'
  BY <1>0, <1>1, Schedules DEF ClosedInv, closed, timers
<1>6. BacklogInv'
  BY <1>1, Schedules DEF BacklogInv, closed
<1>7. QED
  BY <1>3, <1>4, <1>5, <1>6 DEF Inv

\* The other steps of a request leave pass and triggers alone.
LEMMA RequestStep ==
    ASSUME SchedulerAssumption, Inv, NEW r \in Request,
           \/ PublishNow(r) \/ Wave(r) \/ AnswerDelete(r) \/ ResumeDelete(r) \/ DrainForPurge(r)
    PROVE  Inv'
<1>0. /\ TypeOK /\ ClosedInv /\ OneTrigger /\ request \in [Request -> Requests]
      /\ cursor \in 0..tail /\ leased \in BOOLEAN /\ ForegroundWaves \in Nat
      /\ request[r] \in Requests /\ tail \in Nat
  BY DEF Inv, TypeOK, SchedulerAssumption
<1>1. UNCHANGED <<tail, cursor, leased, pass, immediate, timer, phase, faults, refused, missed>>
  BY DEF PublishNow, Wave, AnswerDelete, ResumeDelete, DrainForPurge, queue, timers
<1>2. drain' = drain \/ drain' = Joined
  BY DEF PublishNow, Wave, AnswerDelete, ResumeDelete, DrainForPurge
<1>3. drain' \in Drains
  BY <1>0, <1>2, JoinedType DEF TypeOK
<1>4. /\ request' \in [Request -> Requests] /\ request'[r].step # "new"
      /\ \A x \in Request \ {r} : request'[x] = request[x]
      /\ request'[r].sequence = request[r].sequence
      /\ Working(r) /\ request[r].sequence > cursor => Working(r)'
  <2>1. CASE PublishNow(r)
    BY <1>0, <2>1 DEF PublishNow, Step, Requests, Working
  <2>2. CASE Wave(r)
    <3>1. request[r].waves + 1 \in 0..ForegroundWaves
      BY <1>0, <2>2 DEF Wave, Requests
    <3>2. request' = [request EXCEPT ![r].step = "draining", ![r].waves = request[r].waves + 1]
      BY <1>0, <2>2 DEF Wave, Requests
    <3>3. QED
      BY <1>0, <3>1, <3>2 DEF Requests, Working
  <2>3. CASE AnswerDelete(r)
    <3>1. CASE Step(r, "partial")
      BY <1>0, <2>3, <3>1 DEF Step, Requests, Working
    <3>2. CASE cursor >= request[r].sequence /\ Step(r, "done")
      <4>1. ~(request[r].sequence > cursor)
        BY <1>0, <3>2 DEF Requests
      <4>2. QED
        BY <1>0, <3>2, <4>1 DEF Step, Requests, Working
    <3>3. QED
      BY <2>3, <3>1, <3>2 DEF AnswerDelete
  <2>4. CASE ResumeDelete(r)
    <3>1. 0 \in 0..ForegroundWaves
      BY <1>0
    <3>2. QED
      BY <1>0, <2>4, <3>1 DEF ResumeDelete, Requests, Working
  <2>5. CASE DrainForPurge(r)
    BY <1>0, <2>5 DEF DrainForPurge, Requests, Working
  <2>6. QED
    BY <2>1, <2>2, <2>3, <2>4, <2>5
<1>5. /\ CountInv' /\ tail' \in 0..(MaxBacklog + Cardinality(Request))
      /\ cursor' \in 0..tail' /\ leased' \in BOOLEAN
      /\ \A x \in Request : request'[x].sequence <= tail'
  BY <1>1, <1>4, RequestFrame DEF queue
<1>6. TypeOK'
  BY <1>0, <1>1, <1>3, <1>4, <1>5 DEF TypeOK
<1>7. OneTrigger' /\ ClosedInv'
  BY <1>0, <1>1 DEF OneTrigger, ClosedInv, closed
<1>8. BacklogInv'
  <2>1. \A x \in Request : Working(x) /\ request[x].sequence > cursor' =>
                             Working(x)' /\ request'[x].sequence = request[x].sequence
    BY <1>1, <1>4 DEF Working
  <2>2. cursor' \in Nat /\ cursor <= cursor'
    BY <1>0, <1>1
  <2>3. QED
    BY <1>1, <2>1, <2>2, WorkingFrame DEF timers
<1>9. QED
  BY <1>5, <1>6, <1>7, <1>8 DEF Inv
-----------------------------------------------------------------------------
(***************************************************************************)
(* The shared drain.                                                       *)
(***************************************************************************)
Results == {"limit", "deadline", "busy", "retryable", "fatal", "idle"}

\* What the end of a drain does to the requests that wait for it: who is not answered in
\* this turn has still to ask for a pass.
LEMMA SettledRequests ==
    ASSUME Inv, NEW result \in Results, Settle(result)
    PROVE  /\ request' \in [Request -> Requests]
           /\ \A r \in Request : request'[r].sequence = request[r].sequence
           /\ Begun \subseteq Begun'
           /\ ~pass => \A r \in Request : Working(r) => Working(r)'
<1>0. request \in [Request -> Requests]
  BY DEF Inv, TypeOK
<1>1. PICK answered \in SUBSET Waiting :
        /\ pass \/ answered = {}
        /\ request' = [r \in Request |->
             IF r \notin Waiting THEN request[r]
             ELSE [request[r] EXCEPT !.step = IF r \in answered THEN "done"
                                              ELSE Resumed(r, result)]]
  BY DEF Settle
<1>2. ASSUME NEW r \in Request
      PROVE  /\ request'[r] \in Requests /\ request'[r].sequence = request[r].sequence
             /\ request[r].step # "new" => request'[r].step # "new"
             /\ ~pass /\ Working(r) => Working(r)'
  <2>1. request[r] \in Requests
    BY <1>0
  <2>2. CASE r \notin Waiting
    <3>1. request'[r] = request[r]
      BY <1>1, <2>2
    <3>2. QED
      BY <2>1, <3>1 DEF Requests, Working
  <2>3. CASE r \in Waiting
    <3> DEFINE next == IF r \in answered THEN "done" ELSE Resumed(r, result)
    <3>1. /\ next \in {"done", "failed", "wave", "draining"}
          /\ ~pass /\ request[r].kind # "purge" => next \in {"failed", "wave"}
      BY <1>1 DEF Resumed
    <3>2. request'[r] = [request[r] EXCEPT !.step = next]
      BY <1>1, <2>3
    <3> HIDE DEF next
    <3>3. QED
      BY <2>1, <3>1, <3>2 DEF Requests, Working
  <2>4. QED
    BY <2>2, <2>3
<1>3. request' \in [Request -> Requests]
  BY <1>1, <1>2
<1>4. QED
  BY <1>2, <1>3 DEF Begun

LEMMA SettleStep ==
    ASSUME SchedulerAssumption, Inv, NEW result \in Results, Settle(result), UNCHANGED queue,
           faults' \in 0..MaxFaults, missed' \in BOOLEAN, missed => missed',
           result = "idle" /\ pass /\ cursor < tail => missed'
    PROVE  Inv'
<1>0. /\ TypeOK /\ ClosedInv /\ OneTrigger /\ request \in [Request -> Requests]
      /\ cursor \in 0..tail /\ leased \in BOOLEAN /\ tail \in Nat
      /\ phase \in {"boot", "warm", "ready", "up", "closing", "closed"}
      /\ pass \in BOOLEAN /\ refused \in BOOLEAN /\ immediate \in BOOLEAN /\ timer \in BOOLEAN
  BY DEF Inv, TypeOK
<1>1. /\ PassGoesOn(result)
      /\ drain' \in {StartDrain, NoDrain}
      /\ phase' = IF phase = "warm" THEN "ready" ELSE phase
      /\ tail' = tail /\ cursor' = cursor /\ leased' = leased
  BY DEF Settle, queue
<1>2. /\ phase' \in {"boot", "warm", "ready", "up", "closing", "closed"}
      /\ closed' = closed /\ (phase' = "closed" => phase = "closed")
      /\ (phase' = "up" => phase = "up")
  BY <1>0, <1>1 DEF closed
<1>3. /\ CountInv' /\ tail' \in 0..(MaxBacklog + Cardinality(Request))
      /\ \A x \in Request : request'[x].sequence <= tail'
  BY <1>0, <1>1, SettledRequests, CountStays DEF TypeOK
<1>4. /\ pass' \in BOOLEAN /\ refused' \in BOOLEAN /\ immediate' \in BOOLEAN /\ timer' \in BOOLEAN
      /\ OneTrigger' /\ (pass' => pass) /\ (closed => UNCHANGED timers)
  <2>1. CASE ~pass \/ Again(result)
    BY <1>0, <1>1, <2>1 DEF PassGoesOn, timers, OneTrigger
  <2>2. CASE pass /\ ~Again(result)
    <3>1. CASE result \in {"busy", "retryable"}
      BY <1>0, <1>1, <2>2, <3>1, Retries DEF PassGoesOn
    <3>2. CASE result \notin {"busy", "retryable"}
      BY <1>0, <1>1, <2>2, <3>2 DEF PassGoesOn, timers, OneTrigger
    <3>3. QED
      BY <3>1, <3>2
  <2>3. QED
    BY <2>1, <2>2
<1>5. drain' \in Drains
  <2>1. StartDrain \in Drains /\ NoDrain \in Drains
    BY DEF StartDrain, NoDrain, Drains
  <2>2. QED
    BY <1>1, <2>1
<1>6. TypeOK'
  BY <1>0, <1>1, <1>2, <1>3, <1>4, <1>5, SettledRequests DEF TypeOK
<1>7. ClosedInv'
  BY <1>0, <1>2, <1>4 DEF ClosedInv, timers
<1>8. BacklogInv'
  <2> SUFFICES ASSUME phase = "up", ~refused', ~missed', ~pass', ~immediate', ~timer',
                      NEW s \in (cursor + 1)..tail
               PROVE  \E r \in Request : Working(r)' /\ request'[r].sequence = s
    BY <1>1, <1>2 DEF BacklogInv
  <2>0. ~closed /\ ~missed
    BY DEF closed
  <2>1. ~pass
    <3> SUFFICES ASSUME pass PROVE FALSE
      OBVIOUS
    <3>1. ~Again(result) /\ pass
      BY <1>0, <1>1 DEF PassGoesOn
    <3>2. result \in {"busy", "retryable", "fatal", "idle"}
      BY <2>0, <3>1 DEF Again, Results
    <3>3. result \notin {"busy", "retryable"}
      BY <1>0, <1>1, <2>0, <3>1, Retries DEF PassGoesOn
    <3>4. result # "fatal"
      BY <1>0, <1>1, <3>1 DEF PassGoesOn
    <3>5. cursor < tail
      BY <1>0
    <3>6. QED
      BY <3>1, <3>2, <3>3, <3>4, <3>5
  <2>2. ~refused /\ ~immediate /\ ~timer
    BY <1>0, <1>1, <2>1 DEF PassGoesOn, timers
  <2>3. PICK r \in Request : Working(r) /\ request[r].sequence = s
    BY <2>0, <2>1, <2>2 DEF Inv, BacklogInv
  <2>4. QED
    BY <2>1, <2>3, SettledRequests
<1>9. QED
  BY <1>3, <1>4, <1>6, <1>7, <1>8 DEF Inv

LEMMA WorkerStep == ASSUME SchedulerAssumption, Inv, Worker PROVE Inv'
<1>0. /\ TypeOK /\ ClosedInv /\ OneTrigger /\ cursor \in 0..tail /\ leased \in BOOLEAN
      /\ tail \in Nat /\ drain \in Drains /\ faults \in 0..MaxFaults /\ missed \in BOOLEAN
      /\ MaxFaults \in Nat
  BY DEF Inv, TypeOK, SchedulerAssumption
<1>1. CASE PublishHead \/ FindEmpty
  <2>1. /\ UNCHANGED <<tail, leased, request, pass, immediate, timer, phase, faults, refused, missed>>
        /\ cursor' \in 0..tail /\ cursor <= cursor'
    BY <1>0, <1>1 DEF PublishHead, FindEmpty, queue, timers
  <2>2. drain' \in Drains
    BY <1>0, <1>1 DEF PublishHead, FindEmpty, Drains
  <2>3. TypeOK' /\ OneTrigger' /\ ClosedInv'
    BY <1>0, <2>1, <2>2 DEF TypeOK, OneTrigger, ClosedInv, closed
  <2>4. CountInv'
    BY <2>1 DEF Inv, CountInv, Begun
  <2>5. BacklogInv'
    <3>1. \A x \in Request : Working(x) /\ request[x].sequence > cursor' =>
                               Working(x)' /\ request'[x].sequence = request[x].sequence
      BY <2>1 DEF Working
    <3>2. cursor' \in Nat
      BY <2>1
    <3>3. QED
      BY <2>1, <3>1, <3>2, WorkingFrame DEF timers
  <2>6. QED
    BY <2>3, <2>4, <2>5 DEF Inv
<1>2. CASE DrainStops
  <2>1. PICK result \in {"limit", "deadline"} : Settle(result)
    BY <1>2 DEF DrainStops
  <2>2. UNCHANGED <<queue, faults, missed>>
    BY <1>2 DEF DrainStops
  <2>3. result \in Results /\ result # "idle"
    BY DEF Results
  <2>4. QED
    BY <1>0, <2>1, <2>2, <2>3, SettleStep
<1>3. CASE DrainBusy
  <2>1. Settle("busy") /\ UNCHANGED <<queue, faults, missed>>
    BY <1>3 DEF DrainBusy
  <2>2. "busy" \in Results
    BY DEF Results
  <2>3. QED
    BY <1>0, <2>1, <2>2, SettleStep
<1>4. CASE DrainFails
  <2>1. PICK result \in Failures : Settle(result)
    BY <1>4 DEF DrainFails
  <2>2. UNCHANGED <<queue, missed>> /\ faults' \in 0..MaxFaults
    BY <1>0, <1>4 DEF DrainFails
  <2>3. result \in Results /\ result # "idle"
    BY DEF Results, Failures
  <2>4. QED
    BY <1>0, <2>1, <2>2, <2>3, SettleStep
<1>5. CASE DrainIdle
  <2>1. Settle("idle") /\ UNCHANGED <<queue, faults>> /\ missed' = (missed \/ (pass /\ cursor < tail))
    BY <1>5 DEF DrainIdle
  <2>2. "idle" \in Results
    BY DEF Results
  <2>3. missed' \in BOOLEAN /\ (missed => missed') /\ (pass /\ cursor < tail => missed')
    BY <2>1
  <2>4. faults' \in 0..MaxFaults
    BY <1>0, <2>1
  <2>5. QED
    BY <2>1, <2>2, <2>3, <2>4, SettleStep
<1>6. QED
  BY <1>1, <1>2, <1>3, <1>4, <1>5 DEF Worker
-----------------------------------------------------------------------------
(***************************************************************************)
(* The pass, its triggers and the process.                                 *)
(***************************************************************************)
LEMMA TriggerStep ==
    ASSUME Inv, FireImmediate \/ FireTimer \/ search PROVE Inv'
<1>0. /\ TypeOK /\ ClosedInv /\ OneTrigger /\ pass \in BOOLEAN
      /\ immediate \in BOOLEAN /\ timer \in BOOLEAN /\ drain \in Drains
  BY DEF Inv, TypeOK
<1>1. /\ UNCHANGED <<tail, cursor, leased, request, phase, faults>>
      /\ refused' \in BOOLEAN /\ missed' \in BOOLEAN
  BY DEF FireImmediate, FireTimer, search, StartPass, queue, Inv, TypeOK
<1>2. /\ pass' \in BOOLEAN /\ immediate' \in BOOLEAN /\ timer' \in BOOLEAN
      /\ OneTrigger' /\ ClosedInv' /\ (~closed => pass' \/ immediate')
  <2>1. CASE FireImmediate
    BY <1>0, <1>1, <2>1 DEF FireImmediate, StartPass, OneTrigger, ClosedInv, closed
  <2>2. CASE FireTimer
    BY <1>0, <1>1, <2>2 DEF FireTimer, OneTrigger, ClosedInv, closed
  <2>3. CASE search
    BY <1>0, <1>1, <2>3 DEF search, StartPass, OneTrigger, ClosedInv, closed, timers
  <2>4. QED
    BY <2>1, <2>2, <2>3
<1>3. drain' = drain \/ drain' = Joined
  BY DEF FireImmediate, FireTimer, search, StartPass
<1>4. TypeOK'
  BY <1>0, <1>1, <1>2, <1>3, JoinedType DEF TypeOK
<1>5. CountInv'
  BY <1>1 DEF Inv, CountInv, Begun
<1>6. BacklogInv'
  BY <1>1, <1>2 DEF BacklogInv, closed
<1>7. QED
  BY <1>2, <1>4, <1>5, <1>6 DEF Inv

LEMMA ProcessStep ==
    ASSUME Inv, LeaseExpires \/ Boot \/ Ready \/ Close \/ Closed PROVE Inv'
<1>0. /\ TypeOK /\ ClosedInv /\ OneTrigger /\ pass \in BOOLEAN
      /\ immediate \in BOOLEAN /\ timer \in BOOLEAN /\ drain \in Drains /\ leased \in BOOLEAN
      /\ phase \in {"boot", "warm", "ready", "up", "closing", "closed"}
  BY DEF Inv, TypeOK
<1>1. UNCHANGED <<tail, cursor, request, pass, faults, refused, missed>>
  BY DEF LeaseExpires, Boot, Ready, Close, Closed, queue
<1>2. leased' \in BOOLEAN
  BY <1>0 DEF LeaseExpires, Boot, Ready, Close, Closed, queue
<1>3. drain' \in Drains
  BY <1>0 DEF LeaseExpires, Boot, Ready, Close, Closed, StartDrain, Drains
<1>4. /\ immediate' \in BOOLEAN /\ timer' \in BOOLEAN /\ OneTrigger' /\ ClosedInv'
      /\ phase' \in {"boot", "warm", "ready", "up", "closing", "closed"}
      /\ phase' = "up" => \/ phase = "up" /\ UNCHANGED timers
                          \/ immediate' \/ pass
  <2>1. CASE LeaseExpires \/ Boot
    BY <1>0, <1>1, <2>1 DEF LeaseExpires, Boot, OneTrigger, ClosedInv, closed, timers
  <2>2. CASE Ready
    BY <1>0, <1>1, <2>2, Schedules DEF Ready, ClosedInv, closed
  <2>3. CASE Close
    BY <1>0, <1>1, <2>3 DEF Close, OneTrigger, ClosedInv, closed
  <2>4. CASE Closed
    BY <1>0, <1>1, <2>4 DEF Closed, OneTrigger, ClosedInv, closed, timers
  <2>5. QED
    BY <2>1, <2>2, <2>3, <2>4
<1>5. TypeOK'
  BY <1>0, <1>1, <1>2, <1>3, <1>4 DEF TypeOK
<1>6. CountInv'
  BY <1>1 DEF Inv, CountInv, Begun
<1>7. BacklogInv'
  BY <1>1, <1>4 DEF Inv, BacklogInv, Working, timers
<1>8. QED
  BY <1>4, <1>5, <1>6, <1>7 DEF Inv
-----------------------------------------------------------------------------
LEMMA Initially == ASSUME SchedulerAssumption, Init PROVE Inv
<1>1. Begun = {} /\ tail \in 0..MaxBacklog /\ MaxBacklog \in Nat
  BY DEF Begun, Init, NewRequest, SchedulerAssumption
<1>2. Cardinality(Begun) = 0 /\ Cardinality(Request) \in Nat
  BY <1>1, FS_EmptySet, FS_CardinalityType DEF SchedulerAssumption
<1>3. NewRequest \in Requests /\ NewRequest.sequence = 0 /\ NoDrain \in Drains
  BY DEF NewRequest, Requests, NoDrain, Drains, SchedulerAssumption
<1>4. TypeOK
  <2>1. request \in [Request -> Requests] /\ \A r \in Request : request[r].sequence = 0
    BY <1>3 DEF Init
  <2>2. tail \in 0..(MaxBacklog + Cardinality(Request)) /\ cursor \in 0..tail /\ 0 <= tail
    BY <1>1, <1>2 DEF Init
  <2>3. leased \in BOOLEAN /\ faults \in 0..MaxFaults /\ drain \in Drains
    BY <1>3 DEF Init, SchedulerAssumption
  <2>4. QED
    BY <2>1, <2>2, <2>3 DEF Init, TypeOK
<1>5. CountInv
  BY <1>1, <1>2 DEF CountInv
<1>6. OneTrigger /\ ClosedInv /\ BacklogInv
  BY DEF Init, OneTrigger, ClosedInv, closed, BacklogInv
<1>7. QED
  BY <1>4, <1>5, <1>6 DEF Inv

LEMMA NextStep == ASSUME SchedulerAssumption, Inv, [Next]_vars PROVE Inv'
<1>1. ASSUME NEW r \in Request, Commit(r) \/ DrainForPurge(r) \/ GoOn(r) PROVE Inv'
  BY <1>1, CommitStep, AnsweredStep, RequestStep DEF GoOn
<1>2. CASE UNCHANGED vars
  BY <1>2 DEF vars, queue, timers, Inv, TypeOK, CountInv, Begun, OneTrigger, ClosedInv, closed,
              BacklogInv, Working
<1>3. QED
  BY <1>1, <1>2, WorkerStep, TriggerStep, ProcessStep DEF Next

\* Each entry from the cursor on is worked on by the request that committed it, or all are
\* left to a pass or a trigger of one (continueIndexing, scheduleIndexRetry, close).
THEOREM Inductive == ASSUME SchedulerAssumption PROVE Spec => []Inv
<1>1. Init => Inv
  BY Initially
<1>2. Inv /\ [Next]_vars => Inv'
  BY NextStep
<1>3. QED
  BY <1>1, <1>2, PTL DEF Spec

\* Every variable keeps its type.
THEOREM TypeCorrect == ASSUME SchedulerAssumption PROVE Spec => []TypeOK
<1>1. Inv => TypeOK
  BY DEF Inv
<1>2. QED
  BY <1>1, Inductive, PTL

\* The immediate and the retry timer of the pass are never armed together
\* (scheduleIndexing, scheduleIndexRetry).
THEOREM OneTriggerHolds == ASSUME SchedulerAssumption PROVE Spec => []OneTrigger
<1>1. Inv => OneTrigger
  BY DEF Inv
<1>2. QED
  BY <1>1, Inductive, PTL

\* A closed daemon has neither a pass nor a trigger of one (close).
THEOREM ClosedIsQuietHolds == ASSUME SchedulerAssumption PROVE Spec => []ClosedIsQuiet
<1>1. Inv => ClosedIsQuiet
  BY DEF Inv, ClosedInv, ClosedIsQuiet, closed
<1>2. QED
  BY <1>1, Inductive, PTL

\* While the daemon is up and no failure was final, entries not yet published are attended
\* to, unless a pass ended without seeing them (continueIndexing, scheduleIndexRetry).
THEOREM BacklogAttendedHolds == ASSUME SchedulerAssumption PROVE Spec => []BacklogAttended
<1>1. ASSUME Inv, phase = "up", cursor < tail, ~refused, ~missed PROVE Attended
  <2>1. tail \in (cursor + 1)..tail
    BY <1>1 DEF Inv, TypeOK
  <2>2. QED
    BY <1>1, <2>1 DEF Inv, BacklogInv, Working, Attended
<1>2. Inv => BacklogAttended
  BY <1>1 DEF BacklogAttended
<1>3. QED
  BY <1>2, Inductive, PTL

\* The four together, for every number of requests, failures and entries that wait.
THEOREM IndexingAttendedHolds == ASSUME SchedulerAssumption PROVE Spec => []IndexingAttended
BY TypeCorrect, OneTriggerHolds, ClosedIsQuietHolds, BacklogAttendedHolds, PTL
   DEF IndexingAttended
-----------------------------------------------------------------------------
(***************************************************************************)
(* Maintenance.  What a run remembers is not inductive by itself.          *)
(* ModeAgrees looks at rest only, so ModeInv follows the flows that write  *)
(* the mode, step by step: unless two of them wrote different modes, they  *)
(* agree, and the disk holds what one of them wrote or what is remembered. *)
(* DeletionsRemembered counts the keys of finished runs only, so           *)
(* AccountInv bounds what the run in progress has counted, and OwedInv     *)
(* says where each owed key is when a compaction is asked for, while it    *)
(* runs and when the sizes RocksDB reports tell that it is over: the       *)
(* count may be reset by that report only, and the report implies that     *)
(* nothing of what it settles is still owed.                               *)
(***************************************************************************)
CONSTANTS Admission, Level, MaxRetentionWaves, CompactionDeletedKeys, CompactionReclaimable,
          MaxDeletions, MaxGrowth, MaxWriteFaults
VARIABLES free, stored, lastEmergencyMode, flow, waves, deleted, counted, pending, before, size,
          started, loopClosed, deletions, growth, loopFaults, owed, lost, crossed

M == INSTANCE Maintenance WITH MaxFaults <- MaxWriteFaults, closed <- loopClosed, faults <- loopFaults

RunSteps == {"idle", "write", "written", "synced", "wave", "account", "compact"}
AdmissionSteps == {"idle", "write", "written", "synced", "admitted", "refused"}
Sizes == [live : Nat, garbage : Nat, backlog : 0..1]

\* What TypeOK leaves open.
Types ==
    /\ flow \in [M!Flow -> [step : RunSteps \union AdmissionSteps, level : M!AnyLevel]]
    /\ pending \in [deletedKeys : Nat, total : Nat, garbage : Nat, backlog : 0..1]
    /\ size \in Sizes /\ before \in Sizes
    /\ deletions \in Nat /\ lost \in Nat /\ crossed \in BOOLEAN

\* As long as no two flows wrote different modes, the flows that write agree, and the disk
\* holds what a flow has written or what is remembered.
ModeInv ==
    ~crossed =>
      /\ \A f, g \in M!Flow : M!Writing(f) /\ M!Writing(g) => flow[f].level = flow[g].level
      /\ \A f \in M!Flow : flow[f].step = "written" => stored = M!Mode(flow[f].level)
      /\ \/ \E f \in M!Flow : flow[f].step = "written"
         \/ lastEmergencyMode = "none" \/ stored = lastEmergencyMode

\* The count of the run in progress.
AccountInv ==
    /\ counted + deleted <= deletions
    /\ flow[M!Run].step \notin {"wave", "account"} => deleted = 0 /\ waves = 0
    /\ M!At("wave") => waves < MaxRetentionWaves

\* Keys deleted since RocksDB last compacted are counted, even when those of the last
\* request are settled: no compaction followed it yet, or they are counted besides.
OwedInv ==
    /\ counted + deleted + lost >= owed
    /\ pending # M!NoPending /\ M!Reclaimed(pending, size) =>
         owed + pending.deletedKeys <= counted + deleted + lost
    /\ M!At("compact") /\ M!Reclaimed(M!Baseline(before, 0), size) => owed = 0

LoopInv == M!TypeOK /\ Types /\ ModeInv /\ AccountInv /\ OwedInv
-----------------------------------------------------------------------------
LEMMA FlowFacts ==
    ASSUME M!MaintenanceAssumption
    PROVE  /\ M!Run \in M!Flow /\ Level \subseteq M!AnyLevel
           /\ \A a \in Admission : a \in M!Flow /\ a # M!Run
           /\ \A f \in M!Flow : f = M!Run \/ f \in Admission
BY DEF M!MaintenanceAssumption, M!Flow

\* What is true of the sizes that RocksDB reports, as long as it did not compact.
LEMMA ReclaimedGrows ==
    ASSUME NEW from \in [deletedKeys : Nat, total : Nat, garbage : Nat, backlog : 0..1],
           NEW s \in Sizes, NEW t \in Sizes,
           t.live >= s.live, t.garbage >= s.garbage, t.backlog >= s.backlog,
           ~M!Reclaimed(from, s)
    PROVE  ~M!Reclaimed(from, t)
BY DEF M!Reclaimed, M!Total, Sizes

LEMMA BaselineFacts ==
    ASSUME NEW s \in Sizes, NEW keys \in Nat
    PROVE  /\ M!Baseline(s, keys) \in [deletedKeys : Nat, total : Nat, garbage : Nat, backlog : 0..1]
           /\ M!Baseline(s, keys).deletedKeys = keys
           /\ ~M!Reclaimed(M!Baseline(s, keys), s)
           /\ \A t : M!Reclaimed(M!Baseline(s, keys), t) <=> M!Reclaimed(M!Baseline(s, 0), t)
BY DEF M!Baseline, M!Reclaimed, M!Total, Sizes

\* A flow that takes a snapshot, writes, fails or ends; its mode is not the run's business.
FlowChange(f) ==
    /\ flow' \in [M!Flow -> [step : RunSteps \union AdmissionSteps, level : M!AnyLevel]]
    /\ \A g \in M!Flow : g # f => flow'[g] = flow[g]

LEMMA SnapshotStep ==
    ASSUME M!MaintenanceAssumption, LoopInv, NEW f \in M!Flow, M!Snapshot(f), ~M!Writing(f), stored' = stored
    PROVE  /\ FlowChange(f) /\ flow'[f].step \in {"synced", "write"} /\ ModeInv'
           /\ crossed' \in BOOLEAN /\ lastEmergencyMode' = lastEmergencyMode
<1>a. /\ flow \in [M!Flow -> [step : RunSteps \union AdmissionSteps, level : M!AnyLevel]]
      /\ free \in M!AnyLevel /\ crossed \in BOOLEAN
  BY FlowFacts DEF LoopInv, Types, M!TypeOK
<1>1. /\ flow' = [flow EXCEPT ![f] = [step |-> IF M!InSync(free) THEN "synced" ELSE "write",
                                      level |-> free]]
      /\ crossed' = (crossed \/ /\ ~M!InSync(free)
                                /\ \E g \in M!Flow \ {f} : M!Writing(g) /\ flow[g].level # free)
      /\ lastEmergencyMode' = lastEmergencyMode
  BY DEF M!Snapshot
<1>2. /\ flow'[f] = [step |-> IF M!InSync(free) THEN "synced" ELSE "write", level |-> free]
      /\ \A g \in M!Flow : g # f => flow'[g] = flow[g]
  BY <1>1, <1>a
<1>3. FlowChange(f) /\ flow'[f].step \in {"synced", "write"} /\ flow'[f].level = free
  <2>1. flow'[f].step \in {"synced", "write"} /\ flow'[f].level = free
    BY <1>2
  <2>2. flow' \in [M!Flow -> [step : RunSteps \union AdmissionSteps, level : M!AnyLevel]]
    BY <1>1, <1>a DEF RunSteps
  <2>3. QED
    BY <1>2, <2>1, <2>2 DEF FlowChange
<1>4. ModeInv'
  <2> SUFFICES ASSUME ~crossed'
               PROVE  /\ \A g, h \in M!Flow :
                               M!Writing(g)' /\ M!Writing(h)' => flow'[g].level = flow'[h].level
                      /\ \A g \in M!Flow : flow'[g].step = "written" => stored = M!Mode(flow'[g].level)
                      /\ \/ \E g \in M!Flow : flow'[g].step = "written"
                         \/ lastEmergencyMode = "none" \/ stored = lastEmergencyMode
    BY <1>1 DEF ModeInv, M!Mode
  <2>1. /\ ~crossed
        /\ ~M!InSync(free) => \A g \in M!Flow \ {f} : M!Writing(g) => flow[g].level = free
    BY <1>1
  <2>2. M!Writing(f)' => ~M!InSync(free)
    BY <1>2 DEF M!Writing
  <2>3. /\ \A g, h \in M!Flow : M!Writing(g) /\ M!Writing(h) => flow[g].level = flow[h].level
        /\ \A g \in M!Flow : flow[g].step = "written" => stored = M!Mode(flow[g].level)
        /\ \/ \E g \in M!Flow : flow[g].step = "written"
           \/ lastEmergencyMode = "none" \/ stored = lastEmergencyMode
    BY <2>1 DEF LoopInv, ModeInv
  <2>4. \A g \in M!Flow : g # f => (M!Writing(g)' <=> M!Writing(g))
    BY <1>2 DEF M!Writing
  <2>5. ~(flow[f].step = "written") /\ ~(flow'[f].step = "written")
    BY <1>3 DEF M!Writing
  <2>6. QED
    BY <1>2, <1>3, <2>1, <2>2, <2>3, <2>4, <2>5
<1>5. QED
  BY <1>1, <1>3, <1>4, <1>a

\* The write of a mode, and remembering it.
LEMMA WriteStep ==
    ASSUME M!MaintenanceAssumption, LoopInv, NEW f \in M!Flow, M!setEmergencyMode(f) \/ M!RememberMode(f)
    PROVE  /\ FlowChange(f) /\ ModeInv'
           /\ flow[f].step \in {"write", "written"} /\ flow'[f].step \in {"written", "synced"}
           /\ stored' \in {"none", "on", "off"} /\ lastEmergencyMode' \in {"none", "on", "off"}
<1>a. /\ flow \in [M!Flow -> [step : RunSteps \union AdmissionSteps, level : M!AnyLevel]]
      /\ stored \in {"none", "on", "off"} /\ lastEmergencyMode \in {"none", "on", "off"}
  BY DEF LoopInv, Types, M!TypeOK
<1>b. \A level : M!Mode(level) \in {"on", "off"}
  BY DEF M!Mode
<1>1. CASE M!setEmergencyMode(f)
  <2>1. /\ flow[f].step = "write" /\ stored' = M!Mode(flow[f].level)
        /\ flow' = [flow EXCEPT ![f].step = "written"]
        /\ lastEmergencyMode' = lastEmergencyMode /\ crossed' = crossed
    BY <1>1 DEF M!setEmergencyMode
  <2>2. /\ flow'[f] = [flow[f] EXCEPT !.step = "written"] /\ FlowChange(f)
    BY <2>1, <1>a DEF FlowChange, RunSteps
  <2>3. flow'[f].step = "written" /\ flow'[f].level = flow[f].level
    BY <2>2, <1>a
  <2>4. \A g \in M!Flow : (M!Writing(g)' <=> M!Writing(g)) /\ flow'[g].level = flow[g].level
    BY <2>1, <2>2, <2>3 DEF M!Writing, FlowChange
  <2>5. \A g \in M!Flow : flow'[g].step = "written" => M!Writing(g)
    BY <2>4 DEF M!Writing
  <2>6. M!Writing(f)
    BY <2>1 DEF M!Writing
  <2>7. ModeInv'
    BY <2>1, <2>3, <2>4, <2>5, <2>6 DEF LoopInv, ModeInv, M!Mode
  <2>8. QED
    BY <1>a, <1>b, <2>1, <2>2, <2>3, <2>7
<1>2. CASE M!RememberMode(f)
  <2>1. /\ flow[f].step = "written" /\ lastEmergencyMode' = M!Mode(flow[f].level)
        /\ flow' = [flow EXCEPT ![f].step = "synced"]
        /\ stored' = stored /\ crossed' = crossed
    BY <1>2 DEF M!RememberMode
  <2>2. /\ flow'[f] = [flow[f] EXCEPT !.step = "synced"] /\ FlowChange(f)
    BY <2>1, <1>a DEF FlowChange, RunSteps
  <2>3. flow'[f].step = "synced"
    BY <2>2, <1>a
  <2>4. \A g \in M!Flow : M!Writing(g)' => M!Writing(g) /\ flow'[g] = flow[g]
    BY <2>2, <2>3 DEF M!Writing, FlowChange
  <2>5. \A g \in M!Flow : flow'[g].step = "written" => flow'[g] = flow[g]
    BY <2>2, <2>3 DEF FlowChange
  <2>6. ModeInv'
    BY <2>1, <2>4, <2>5 DEF LoopInv, ModeInv, M!Mode
  <2>7. QED
    BY <1>a, <1>b, <2>1, <2>2, <2>3, <2>6
<1>3. QED
  BY <1>1, <1>2

\* A flow that ends or goes on elsewhere leaves the mode alone.
LEMMA ModeFrame ==
    ASSUME LoopInv, NEW f \in M!Flow, FlowChange(f), ~M!Writing(f)', flow[f].step # "written",
           UNCHANGED M!emergency
    PROVE  ModeInv'
<1>1. \A g \in M!Flow : M!Writing(g)' => g # f /\ flow'[g] = flow[g] /\ M!Writing(g)
  BY DEF FlowChange, M!Writing
<1>2. \A g \in M!Flow : flow'[g].step = "written" => flow'[g] = flow[g]
  BY DEF FlowChange, M!Writing
<1>3. \A g \in M!Flow : flow[g].step = "written" => flow'[g].step = "written"
  BY DEF FlowChange
<1>4. crossed' = crossed /\ stored' = stored /\ lastEmergencyMode' = lastEmergencyMode
  BY DEF M!emergency
<1>5. QED
  BY <1>1, <1>2, <1>3, <1>4 DEF LoopInv, ModeInv, M!Mode

\* The steps of the flows of TypeOK.
LEMMA FlowTypes ==
    ASSUME M!MaintenanceAssumption, LoopInv, NEW f \in M!Flow, FlowChange(f),
           f = M!Run => flow'[f].step \in RunSteps,
           f # M!Run => flow'[f].step \in AdmissionSteps
    PROVE  /\ \A g \in M!Flow : flow'[g].level \in M!AnyLevel
           /\ flow'[M!Run].step \in RunSteps
           /\ \A a \in Admission : flow'[a].step \in AdmissionSteps
<1>1. \A g \in M!Flow : flow'[g].level \in M!AnyLevel
  BY DEF FlowChange
<1>2. flow'[M!Run].step \in RunSteps
  BY FlowFacts DEF FlowChange, LoopInv, M!TypeOK, RunSteps
<1>3. \A a \in Admission : flow'[a].step \in AdmissionSteps
  BY FlowFacts DEF FlowChange, LoopInv, M!TypeOK, AdmissionSteps
<1>4. QED
  BY <1>1, <1>2, <1>3
-----------------------------------------------------------------------------
\* The steps of admissions, and of the run before it deletes and counts.
LEMMA FlowStep ==
    ASSUME M!MaintenanceAssumption, LoopInv, NEW f \in M!Flow, FlowChange(f), ModeInv',
           UNCHANGED <<free, M!run, M!accounts, M!engine, M!daemon, M!ghosts>>,
           stored' \in {"none", "on", "off"}, lastEmergencyMode' \in {"none", "on", "off"},
           crossed' \in BOOLEAN,
           f = M!Run => flow'[f].step \in {"write", "written", "synced"}
                      /\ flow[f].step \in {"idle", "write", "written"},
           f # M!Run => flow'[f].step \in AdmissionSteps
    PROVE  LoopInv'
<1>1. /\ \A g \in M!Flow : flow'[g].level \in M!AnyLevel
      /\ flow'[M!Run].step \in RunSteps
      /\ \A a \in Admission : flow'[a].step \in AdmissionSteps
  BY FlowTypes DEF RunSteps
<1>2. UNCHANGED <<free, waves, deleted, counted, pending, before, size, growth, started, loopClosed,
                  deletions, owed, lost>>
  BY DEF M!run, M!accounts, M!engine, M!daemon, M!ghosts
<1>3. M!TypeOK'
  BY <1>1, <1>2 DEF LoopInv, M!TypeOK, RunSteps, AdmissionSteps
<1>4. Types'
  BY <1>2 DEF LoopInv, Types, FlowChange
<1>5. \/ flow'[M!Run] = flow[M!Run]
      \/ /\ flow'[M!Run].step \in {"write", "written", "synced"}
         /\ flow[M!Run].step \in {"idle", "write", "written"}
  BY FlowFacts DEF FlowChange
<1>6. AccountInv'
  BY <1>2, <1>5 DEF LoopInv, AccountInv, M!At
<1>7. OwedInv'
  BY <1>2, <1>5 DEF LoopInv, OwedInv, M!At, M!Reclaimed, M!Total, M!NoPending, M!Baseline
<1>8. QED
  BY <1>3, <1>4, <1>6, <1>7 DEF LoopInv

LEMMA AdmissionStepInv ==
    ASSUME M!MaintenanceAssumption, LoopInv, NEW a \in Admission,
           M!checkAdmission(a) \/ M!AdmissionStep(a) \/ M!AdmissionFails(a)
    PROVE  LoopInv'
<1>a. a \in M!Flow /\ a # M!Run
  BY FlowFacts
<1>b. /\ flow \in [M!Flow -> [step : RunSteps \union AdmissionSteps, level : M!AnyLevel]]
      /\ stored \in {"none", "on", "off"} /\ lastEmergencyMode \in {"none", "on", "off"}
      /\ crossed \in BOOLEAN
  BY DEF LoopInv, Types, M!TypeOK
<1>1. CASE M!checkAdmission(a)
  <2>1. M!Snapshot(a) /\ ~M!Writing(a) /\ stored' = stored
        /\ UNCHANGED <<free, M!run, M!accounts, M!engine, M!daemon, M!ghosts>>
    BY <1>1 DEF M!checkAdmission, M!Writing
  <2>2. /\ FlowChange(a) /\ flow'[a].step \in {"synced", "write"} /\ ModeInv'
        /\ crossed' \in BOOLEAN /\ lastEmergencyMode' = lastEmergencyMode
    BY <1>a, <2>1, SnapshotStep
  <2>3. QED
    BY <1>a, <1>b, <2>1, <2>2, FlowStep DEF AdmissionSteps
<1>2. CASE M!setEmergencyMode(a) \/ M!RememberMode(a)
  <2>1. UNCHANGED <<free, crossed, M!run, M!accounts, M!engine, M!daemon, M!ghosts>>
    BY <1>2 DEF M!setEmergencyMode, M!RememberMode
  <2>2. QED
    BY <1>a, <1>b, <1>2, <2>1, WriteStep, FlowStep DEF AdmissionSteps
<1>3. CASE M!Admit(a) \/ M!AdmissionFails(a)
  <2>1. UNCHANGED <<free, M!emergency, M!run, M!accounts, M!engine, M!daemon, M!ghosts>>
    BY <1>3 DEF M!Admit, M!AdmissionFails
  <2>2. /\ flow[a].step # "written"
        /\ FlowChange(a) /\ flow'[a].step \in {"idle", "admitted", "refused"}
    <3>1. CASE M!Admit(a)
      <4> DEFINE verdict == [M!Idle EXCEPT !.step =
                   IF flow[a].level \in {"critical", "reserve"} THEN "refused" ELSE "admitted"]
      <4>1. flow' = [flow EXCEPT ![a] = verdict] /\ flow[a].step = "synced"
        BY <3>1 DEF M!Admit
      <4>2. verdict \in [step : {"refused", "admitted"}, level : M!AnyLevel]
        BY DEF M!Idle, M!AnyLevel
      <4> HIDE DEF verdict
      <4>3. QED
        BY <1>a, <1>b, <4>1, <4>2 DEF FlowChange, AdmissionSteps
    <3>2. CASE M!AdmissionFails(a)
      BY <1>a, <1>b, <3>2 DEF M!AdmissionFails, FlowChange, AdmissionSteps
    <3>3. QED
      BY <1>3, <3>1, <3>2
  <2>3. ~M!Writing(a)'
    BY <2>2 DEF M!Writing
  <2>4. ModeInv'
    BY <1>a, <2>1, <2>2, <2>3, ModeFrame
  <2>5. stored' = stored /\ lastEmergencyMode' = lastEmergencyMode /\ crossed' = crossed
    BY <2>1 DEF M!emergency
  <2>6. QED
    BY <1>a, <1>b, <2>1, <2>2, <2>4, <2>5, FlowStep DEF AdmissionSteps
<1>4. QED
  BY <1>1, <1>2, <1>3 DEF M!AdmissionStep

LEMMA RunWrites ==
    ASSUME M!MaintenanceAssumption, LoopInv, M!Trigger \/ M!setEmergencyMode(M!Run) \/ M!RememberMode(M!Run)
    PROVE  LoopInv'
<1>a. M!Run \in M!Flow
  BY FlowFacts
<1>b. /\ stored \in {"none", "on", "off"} /\ lastEmergencyMode \in {"none", "on", "off"}
      /\ crossed \in BOOLEAN
  BY DEF LoopInv, Types, M!TypeOK
<1>1. CASE M!Trigger
  <2>1. /\ M!Snapshot(M!Run) /\ flow[M!Run].step = "idle" /\ ~M!Writing(M!Run) /\ stored' = stored
        /\ UNCHANGED <<free, M!run, M!accounts, M!engine, M!daemon, M!ghosts>>
    BY <1>1 DEF M!Trigger, M!Writing
  <2>2. /\ FlowChange(M!Run) /\ flow'[M!Run].step \in {"synced", "write"} /\ ModeInv'
        /\ crossed' \in BOOLEAN /\ lastEmergencyMode' = lastEmergencyMode
    BY <1>a, <2>1, SnapshotStep
  <2>3. QED
    BY <1>a, <1>b, <2>1, <2>2, FlowStep
<1>2. CASE M!setEmergencyMode(M!Run) \/ M!RememberMode(M!Run)
  <2>1. UNCHANGED <<free, crossed, M!run, M!accounts, M!engine, M!daemon, M!ghosts>>
    BY <1>2 DEF M!setEmergencyMode, M!RememberMode
  <2>2. QED
    BY <1>a, <1>b, <1>2, <2>1, WriteStep, FlowStep
<1>3. QED
  BY <1>1, <1>2
-----------------------------------------------------------------------------
(***************************************************************************)
(* The run deletes, counts and asks for a compaction.                      *)
(***************************************************************************)
\* The mode and the types after a step of the run that is past the emergency mode.
LEMMA RunMoves ==
    ASSUME M!MaintenanceAssumption, LoopInv, NEW step \in {"idle", "wave", "account", "compact"},
           M!To(step), UNCHANGED M!emergency, flow[M!Run].step # "written"
    PROVE  /\ FlowChange(M!Run) /\ flow'[M!Run].step = step /\ ModeInv'
           /\ \A g \in M!Flow : flow'[g].level \in M!AnyLevel
           /\ flow'[M!Run].step \in RunSteps
           /\ \A a \in Admission : flow'[a].step \in AdmissionSteps
<1>a. /\ flow \in [M!Flow -> [step : RunSteps \union AdmissionSteps, level : M!AnyLevel]]
      /\ M!Run \in M!Flow
  BY FlowFacts DEF LoopInv, Types
<1> DEFINE next == IF step = "idle" THEN M!Idle ELSE [flow[M!Run] EXCEPT !.step = step]
<1>1. flow' = [flow EXCEPT ![M!Run] = next]
  BY DEF M!To
<1>2. next \in [step : RunSteps \union AdmissionSteps, level : M!AnyLevel] /\ next.step = step
  BY <1>a DEF M!Idle, M!AnyLevel, RunSteps
<1> HIDE DEF next
<1>3. FlowChange(M!Run) /\ flow'[M!Run].step = step
  BY <1>1, <1>2, <1>a DEF FlowChange
<1>4. step \in RunSteps /\ ~M!Writing(M!Run)'
  BY <1>3 DEF RunSteps, M!Writing
<1>5. ModeInv'
  BY <1>a, <1>3, <1>4, ModeFrame
<1>6. QED
  BY <1>a, <1>3, <1>4, <1>5, FlowTypes

\* What deletions do to the sizes and to what is owed.
LEMMA Deletes ==
    ASSUME M!MaintenanceAssumption, LoopInv, NEW n \in 0..1, M!Delete(n)
    PROVE  /\ size' \in Sizes /\ size'.garbage \in 0..deletions'
           /\ deletions' = deletions + n /\ owed' = owed + n
           /\ owed' \in 0..deletions' /\ deletions' \in Nat
           /\ M!Reclaimed(pending, size') => M!Reclaimed(pending, size)
<1>a. /\ size \in Sizes /\ deletions \in Nat /\ owed \in 0..deletions
      /\ size.garbage \in 0..deletions
      /\ pending \in [deletedKeys : Nat, total : Nat, garbage : Nat, backlog : 0..1]
  BY DEF LoopInv, Types, M!TypeOK
<1>1. PICK backlog \in {size.backlog, 1} :
        size' = [size EXCEPT !.garbage = @ + n, !.backlog = backlog]
  BY DEF M!Delete
<1>2. /\ size' \in Sizes /\ size'.live = size.live /\ size'.garbage = size.garbage + n
      /\ size'.backlog >= size.backlog
  <2>1. size.live \in Nat /\ size.garbage \in Nat /\ size.backlog \in 0..1 /\ backlog \in 0..1
    BY <1>a DEF Sizes
  <2>2. size' = [live |-> size.live, garbage |-> size.garbage + n, backlog |-> backlog]
    BY <1>a, <1>1 DEF Sizes
  <2>3. backlog >= size.backlog /\ size.garbage + n \in Nat
    BY <2>1
  <2>4. QED
    BY <2>1, <2>2, <2>3 DEF Sizes
<1>3. deletions' = deletions + n /\ owed' = owed + n
  BY DEF M!Delete
<1>4. size'.live >= size.live /\ size'.garbage >= size.garbage
  BY <1>a, <1>2 DEF Sizes
<1>5. ~M!Reclaimed(pending, size) => ~M!Reclaimed(pending, size')
  BY <1>a, <1>2, <1>4, ReclaimedGrows
<1>6. QED
  BY <1>a, <1>2, <1>3, <1>5

LEMMA CleanupStep ==
    ASSUME M!MaintenanceAssumption, LoopInv, M!AuxiliaryCleanup
    PROVE  LoopInv'
<1>a. /\ flow[M!Run].step = "synced" /\ deleted = 0 /\ waves = 0
      /\ UNCHANGED <<free, M!emergency, M!accounts, loopClosed>> /\ UNCHANGED waves
  BY DEF M!AuxiliaryCleanup, M!At, LoopInv, AccountInv, M!Forget
<1>b. /\ counted \in 0..deletions /\ deletions \in Nat /\ lost \in Nat /\ owed \in 0..deletions
      /\ pending.deletedKeys \in Nat /\ pending.deletedKeys <= counted
      /\ MaxRetentionWaves \in Nat \ {0}
  BY DEF LoopInv, M!TypeOK, Types, M!MaintenanceAssumption
<1>c. /\ counted \in Nat /\ counted <= deletions /\ owed \in Nat /\ lost \in Nat
      /\ deletions \in Nat
  BY <1>b
<1>d. counted' = counted /\ counted' \in Nat
  BY <1>a, <1>c DEF M!accounts
<1>1. PICK n \in 0..1 :
        /\ M!Delete(n)
        /\ \/ started /\ deleted' = n /\ M!To("wave") /\ UNCHANGED <<started, lost>>
           \/ ~started /\ M!Forget /\ M!To("idle") /\ started' = TRUE /\ lost' = lost + n
  BY DEF M!AuxiliaryCleanup
<1>2. PICK step \in {"wave", "idle"} :
        /\ M!To(step)
        /\ step = "wave" => started /\ started' = started /\ deleted' = n /\ lost' = lost
        /\ step = "idle" => started' = TRUE /\ deleted' = 0 /\ lost' = lost + n
  BY <1>1 DEF M!Forget
<1>3. /\ size' \in Sizes /\ size'.garbage \in 0..deletions'
      /\ deletions' = deletions + n /\ owed' = owed + n
      /\ owed' \in 0..deletions' /\ deletions' \in Nat
      /\ M!Reclaimed(pending, size') => M!Reclaimed(pending, size)
  BY <1>1, Deletes
<1>4. /\ FlowChange(M!Run) /\ flow'[M!Run].step = step /\ ModeInv'
      /\ \A g \in M!Flow : flow'[g].level \in M!AnyLevel
      /\ flow'[M!Run].step \in RunSteps
      /\ \A a \in Admission : flow'[a].step \in AdmissionSteps
  BY <1>a, <1>2, RunMoves
<1>5. /\ deleted' \in Nat /\ deleted' <= n /\ lost' \in Nat /\ deleted' + lost' = lost + n
      /\ n \in Nat /\ started' \in BOOLEAN
  <2>1. started \in BOOLEAN /\ n \in Nat /\ lost \in Nat
    BY <1>b DEF LoopInv, M!TypeOK
  <2>2. CASE step = "wave"
    BY <1>2, <2>1, <2>2
  <2>3. CASE step = "idle"
    BY <1>2, <2>1, <2>3
  <2>4. QED
    BY <2>2, <2>3
<1>6. /\ counted' = counted /\ pending' = pending /\ before' = before /\ waves' = 0
      /\ free' = free /\ stored' = stored /\ lastEmergencyMode' = lastEmergencyMode
      /\ crossed' = crossed /\ loopClosed' = loopClosed
  BY <1>a DEF M!accounts, M!emergency
<1>7. M!TypeOK'
  BY <1>b, <1>3, <1>4, <1>5, <1>6 DEF LoopInv, M!TypeOK, RunSteps, AdmissionSteps
<1>8. Types'
  BY <1>3, <1>4, <1>5, <1>6 DEF LoopInv, Types, FlowChange
<1>9. AccountInv'
  <2>1. counted' + deleted' <= deletions'
    <3>1. CASE step = "wave"
      BY <1>c, <1>d, <1>2, <1>3, <3>1
    <3>2. CASE step = "idle"
      BY <1>c, <1>d, <1>2, <1>3, <3>2
    <3>3. QED
      BY <3>1, <3>2
  <2>2. step = "idle" => deleted' = 0
    BY <1>2
  <2>3. waves' = 0 /\ 0 < MaxRetentionWaves
    BY <1>b, <1>6
  <2>4. QED
    BY <1>4, <2>1, <2>2, <2>3 DEF AccountInv, M!At
<1>10. OwedInv'
  <2>1. counted + lost >= owed /\ (pending # M!NoPending /\ M!Reclaimed(pending, size) =>
          owed + pending.deletedKeys <= counted + lost)
    BY <1>a, <1>b DEF LoopInv, OwedInv
  <2>2. ~M!At("compact")'
    BY <1>4 DEF M!At
  <2>3. counted' + deleted' + lost' = counted + lost + n
    <3>1. CASE step = "wave"
      BY <1>c, <1>d, <1>2, <3>1
    <3>2. CASE step = "idle"
      BY <1>c, <1>d, <1>2, <3>2
    <3>3. QED
      BY <3>1, <3>2
  <2>4. counted' + deleted' + lost' >= owed'
    BY <1>b, <1>3, <2>1, <2>3
  <2>5. (pending # M!NoPending /\ M!Reclaimed(pending, size))'
        => pending # M!NoPending /\ M!Reclaimed(pending, size)
    BY <1>3, <1>6 DEF M!Reclaimed, M!Total, M!NoPending
  <2>6. (pending # M!NoPending /\ M!Reclaimed(pending, size))' =>
          owed' + pending'.deletedKeys <= counted' + deleted' + lost'
    BY <1>b, <1>3, <1>6, <2>1, <2>3, <2>5
  <2>7. QED
    BY <2>2, <2>4, <2>6 DEF OwedInv
<1>11. QED
  BY <1>4, <1>7, <1>8, <1>9, <1>10 DEF LoopInv

LEMMA WaveStep ==
    ASSUME M!MaintenanceAssumption, LoopInv, M!RetentionWave
    PROVE  LoopInv'
<1>a. /\ flow[M!Run].step = "wave" /\ UNCHANGED <<free, M!emergency, M!accounts, growth, M!daemon, lost>>
      /\ waves < MaxRetentionWaves /\ waves \in Nat /\ MaxRetentionWaves \in Nat
  BY DEF M!RetentionWave, M!At, LoopInv, AccountInv, M!TypeOK, M!MaintenanceAssumption
<1>b. /\ counted \in Nat /\ deletions \in Nat /\ lost \in Nat /\ owed \in Nat /\ deleted \in Nat
      /\ pending.deletedKeys \in Nat /\ pending.deletedKeys <= counted
      /\ counted + deleted <= deletions
  BY DEF LoopInv, M!TypeOK, Types, AccountInv
<1>1. PICK n \in 0..1, more \in BOOLEAN :
        /\ M!Delete(n)
        /\ deleted' = deleted + n
        /\ waves' = waves + 1
        /\ M!To(IF more /\ waves' < MaxRetentionWaves THEN "wave" ELSE "account")
  BY DEF M!RetentionWave
<1>2. PICK step \in {"wave", "account"} :
        M!To(step) /\ (step = "wave" => waves + 1 < MaxRetentionWaves)
  BY <1>1
<1>3. /\ size' \in Sizes /\ size'.garbage \in 0..deletions'
      /\ deletions' = deletions + n /\ owed' = owed + n
      /\ owed' \in 0..deletions' /\ deletions' \in Nat
      /\ M!Reclaimed(pending, size') => M!Reclaimed(pending, size)
  BY <1>1, Deletes
<1>4. /\ FlowChange(M!Run) /\ flow'[M!Run].step = step /\ ModeInv'
      /\ \A g \in M!Flow : flow'[g].level \in M!AnyLevel
      /\ flow'[M!Run].step \in RunSteps
      /\ \A a \in Admission : flow'[a].step \in AdmissionSteps
  BY <1>a, <1>2, RunMoves
<1>5. /\ counted' = counted /\ pending' = pending /\ before' = before
      /\ free' = free /\ stored' = stored /\ lastEmergencyMode' = lastEmergencyMode
      /\ crossed' = crossed /\ loopClosed' = loopClosed /\ started' = started /\ lost' = lost
  BY <1>a DEF M!accounts, M!emergency, M!daemon
<1>6. /\ waves' \in 0..MaxRetentionWaves /\ deleted' \in 0..deletions' /\ counted' \in 0..deletions'
      /\ counted' + deleted' <= deletions'
  <2>1. /\ waves + 1 \in 0..MaxRetentionWaves
        /\ deleted + n \in 0..(deletions + n) /\ counted \in 0..(deletions + n)
        /\ counted + (deleted + n) <= deletions + n
    BY <1>a, <1>b
  <2>2. QED
    BY <1>1, <1>3, <1>5, <2>1
<1>7. M!TypeOK'
  BY <1>3, <1>4, <1>5, <1>6 DEF LoopInv, M!TypeOK, RunSteps, AdmissionSteps
<1>8. Types'
  BY <1>3, <1>4, <1>5 DEF LoopInv, Types, FlowChange
<1>9. AccountInv'
  BY <1>1, <1>2, <1>4, <1>6 DEF AccountInv, M!At
<1>10. OwedInv'
  <2>1. counted + deleted + lost >= owed /\ (pending # M!NoPending /\ M!Reclaimed(pending, size) =>
          owed + pending.deletedKeys <= counted + deleted + lost)
    BY DEF LoopInv, OwedInv
  <2>2. counted + (deleted + n) + lost >= owed + n
    BY <1>b, <2>1
  <2>3. pending # M!NoPending /\ M!Reclaimed(pending, size) =>
          (owed + n) + pending.deletedKeys <= counted + (deleted + n) + lost
    BY <1>b, <2>1
  <2>4. (pending # M!NoPending /\ M!Reclaimed(pending, size))'
        => pending # M!NoPending /\ M!Reclaimed(pending, size)
    BY <1>3, <1>5 DEF M!Reclaimed, M!Total, M!NoPending
  <2>5. ~M!At("compact")'
    BY <1>4 DEF M!At
  <2>6. QED
    BY <1>1, <1>3, <1>5, <2>2, <2>3, <2>4, <2>5 DEF OwedInv
<1>11. QED
  BY <1>4, <1>7, <1>8, <1>9, <1>10 DEF LoopInv

LEMMA FailStep ==
    ASSUME M!MaintenanceAssumption, LoopInv, M!RunFails
    PROVE  LoopInv'
<1>a. /\ flow[M!Run].step \in {"write", "synced", "wave"} /\ M!To("idle")
      /\ UNCHANGED <<free, M!emergency, M!accounts, M!engine, M!daemon, deletions, owed>>
      /\ lost' = lost + deleted /\ waves' = 0 /\ deleted' = 0
  BY DEF M!RunFails, M!Forget
<1>b. /\ counted \in Nat /\ deletions \in Nat /\ lost \in Nat /\ owed \in Nat /\ deleted \in Nat
      /\ pending.deletedKeys \in Nat /\ MaxRetentionWaves \in Nat
      /\ counted + deleted <= deletions
  BY DEF LoopInv, M!TypeOK, Types, AccountInv, M!MaintenanceAssumption
<1>1. /\ FlowChange(M!Run) /\ flow'[M!Run].step = "idle" /\ ModeInv'
      /\ \A g \in M!Flow : flow'[g].level \in M!AnyLevel
      /\ flow'[M!Run].step \in RunSteps
      /\ \A a \in Admission : flow'[a].step \in AdmissionSteps
  BY <1>a, RunMoves
<1>2. /\ counted' = counted /\ pending' = pending /\ before' = before /\ size' = size
      /\ free' = free /\ stored' = stored /\ lastEmergencyMode' = lastEmergencyMode
      /\ crossed' = crossed /\ loopClosed' = loopClosed /\ started' = started
      /\ deletions' = deletions /\ owed' = owed
  BY <1>a DEF M!accounts, M!emergency, M!daemon, M!engine
<1>3. 0 \in 0..deletions /\ 0 \in 0..MaxRetentionWaves /\ lost + deleted \in Nat /\ counted + 0 <= deletions
  BY <1>b
<1>4. M!TypeOK'
  BY <1>a, <1>1, <1>2, <1>3 DEF LoopInv, M!TypeOK, RunSteps, AdmissionSteps
<1>5. Types'
  BY <1>a, <1>1, <1>2, <1>3 DEF LoopInv, Types, FlowChange
<1>6. AccountInv'
  BY <1>a, <1>1, <1>2, <1>3 DEF AccountInv, M!At
<1>7. OwedInv'
  <2>1. counted + deleted + lost >= owed /\ (pending # M!NoPending /\ M!Reclaimed(pending, size) =>
          owed + pending.deletedKeys <= counted + deleted + lost)
    BY DEF LoopInv, OwedInv
  <2>2. counted + 0 + (lost + deleted) >= owed
    BY <1>b, <2>1
  <2>3. pending # M!NoPending /\ M!Reclaimed(pending, size) =>
          owed + pending.deletedKeys <= counted + 0 + (lost + deleted)
    BY <1>b, <2>1
  <2>4. (pending # M!NoPending /\ M!Reclaimed(pending, size))'
        => pending # M!NoPending /\ M!Reclaimed(pending, size)
    BY <1>2 DEF M!Reclaimed, M!Total, M!NoPending
  <2>5. ~M!At("compact")'
    BY <1>1 DEF M!At
  <2>6. QED
    BY <1>a, <1>2, <2>2, <2>3, <2>4, <2>5 DEF OwedInv
<1>8. QED
  BY <1>1, <1>4, <1>5, <1>6, <1>7 DEF LoopInv

\* What a compaction since the last request leaves in the count covers what is owed.
LEMMA AccountStep ==
    ASSUME M!MaintenanceAssumption, LoopInv, M!Account
    PROVE  LoopInv'
<1> DEFINE observed == pending # M!NoPending /\ M!Reclaimed(pending, size)
           sum      == counted + deleted
           count    == IF observed THEN M!SettledCount(sum) ELSE sum
<1>a. /\ flow[M!Run].step = "account" /\ counted' = count /\ waves' = 0 /\ deleted' = 0
      /\ pending' = IF observed THEN M!NoPending ELSE pending
      /\ UNCHANGED <<free, M!emergency, M!engine, M!daemon, M!ghosts>>
  BY DEF M!Account, M!At, M!Forget
<1>b. /\ counted \in Nat /\ deletions \in Nat /\ lost \in Nat /\ owed \in Nat /\ deleted \in Nat
      /\ pending.deletedKeys \in Nat /\ pending.deletedKeys <= counted /\ MaxRetentionWaves \in Nat
      /\ counted + deleted <= deletions /\ size \in Sizes /\ before \in Sizes
      /\ pending \in [deletedKeys : Nat, total : Nat, garbage : Nat, backlog : 0..1]
  BY DEF LoopInv, M!TypeOK, Types, AccountInv, M!MaintenanceAssumption
<1>1. PICK step \in {"idle", "compact"} :
        M!To(step) /\ (step = "compact" => before' = size) /\ (step = "idle" => before' = before)
  BY DEF M!Account
<1>2. /\ FlowChange(M!Run) /\ flow'[M!Run].step = step /\ ModeInv'
      /\ \A g \in M!Flow : flow'[g].level \in M!AnyLevel
      /\ flow'[M!Run].step \in RunSteps
      /\ \A a \in Admission : flow'[a].step \in AdmissionSteps
  BY <1>a, <1>1, RunMoves
<1>3. /\ size' = size /\ free' = free /\ stored' = stored /\ lastEmergencyMode' = lastEmergencyMode
      /\ crossed' = crossed /\ loopClosed' = loopClosed /\ started' = started
      /\ deletions' = deletions /\ owed' = owed /\ lost' = lost
  BY <1>a DEF M!emergency, M!daemon, M!engine, M!ghosts
<1>4. /\ count \in Nat /\ count <= deletions
      /\ ~observed => count = sum
      /\ count + lost >= owed
  <2>1. sum \in Nat /\ sum <= deletions /\ sum + lost >= owed
    BY <1>b DEF LoopInv, OwedInv
  <2>2. CASE ~observed
    BY <2>1, <2>2
  <2>3. CASE observed
    <3>1. owed + pending.deletedKeys <= sum + lost
      BY <2>3 DEF LoopInv, OwedInv
    <3>2. CASE sum > pending.deletedKeys
      <4>1. count = sum - pending.deletedKeys
        BY <2>3, <3>2 DEF M!SettledCount
      <4> HIDE DEF sum, count, observed
      <4>2. QED
        BY <1>b, <2>1, <2>3, <3>1, <3>2, <4>1
    <3>3. CASE ~(sum > pending.deletedKeys)
      <4>1. count = 0
        BY <2>3, <3>3 DEF M!SettledCount
      <4> HIDE DEF sum, count, observed
      <4>2. QED
        BY <1>b, <2>1, <2>3, <3>1, <3>3, <4>1
    <3>4. QED
      BY <3>2, <3>3
  <2>4. QED
    BY <2>2, <2>3
<1>5. /\ pending' \in [deletedKeys : Nat, total : Nat, garbage : Nat, backlog : 0..1]
      /\ pending'.deletedKeys <= count
  <2>1. CASE observed
    BY <1>a, <1>4, <2>1 DEF M!NoPending
  <2>2. CASE ~observed
    BY <1>a, <1>b, <1>4, <2>2
  <2>3. QED
    BY <2>1, <2>2
<1> HIDE DEF count
<1>6. count \in 0..deletions /\ 0 \in 0..deletions /\ 0 \in 0..MaxRetentionWaves /\ count + 0 <= deletions
  BY <1>b, <1>4
<1>7. M!TypeOK'
  BY <1>a, <1>2, <1>3, <1>5, <1>6 DEF LoopInv, M!TypeOK, RunSteps, AdmissionSteps
<1>8. Types'
  BY <1>a, <1>b, <1>1, <1>2, <1>3, <1>5 DEF LoopInv, Types, FlowChange
<1>9. AccountInv'
  BY <1>a, <1>1, <1>2, <1>3, <1>6 DEF LoopInv, AccountInv, M!At
<1>10. OwedInv'
  <2>1. count + 0 + lost >= owed
    BY <1>b, <1>4
  <2>2. (pending # M!NoPending /\ M!Reclaimed(pending, size))' => ~observed /\ pending' = pending
    BY <1>a, <1>3 DEF M!Reclaimed, M!Total, M!NoPending
  <2>3. ~observed /\ pending' = pending => ~(pending # M!NoPending /\ M!Reclaimed(pending, size))'
    BY <1>3 DEF M!Reclaimed, M!Total, M!NoPending
  <2>4. (M!At("compact") /\ M!Reclaimed(M!Baseline(before, 0), size))' => FALSE
    <3>1. M!At("compact")' => before' = size
      BY <1>1, <1>2 DEF M!At
    <3>2. ~M!Reclaimed(M!Baseline(size, 0), size)
      BY <1>b, BaselineFacts
    <3>3. QED
      BY <1>3, <3>1, <3>2 DEF M!Reclaimed, M!Total, M!Baseline
  <2>5. QED
    BY <1>a, <1>3, <2>1, <2>2, <2>3, <2>4 DEF OwedInv
<1>11. QED
  BY <1>2, <1>7, <1>8, <1>9, <1>10 DEF LoopInv

\* A request whose compaction is seen before the answer settles nothing that is owed; one
\* that only flushed leaves a baseline that nothing has reclaimed since.
LEMMA CompactStep ==
    ASSUME M!MaintenanceAssumption, LoopInv, M!CompactScheduled \/ M!CompactFails
    PROVE  LoopInv'
<1>a. /\ flow[M!Run].step = "compact" /\ M!To("idle") /\ before' = M!NoSize
      /\ UNCHANGED <<free, M!emergency, M!run, M!engine, M!daemon, M!ghosts>>
      /\ deleted = 0 /\ waves = 0
  BY DEF M!CompactScheduled, M!CompactFails, M!At, LoopInv, AccountInv
<1>b. /\ counted \in Nat /\ deletions \in Nat /\ lost \in Nat /\ owed \in Nat
      /\ counted <= deletions /\ size \in Sizes
      /\ pending \in [deletedKeys : Nat, total : Nat, garbage : Nat, backlog : 0..1]
      /\ pending.deletedKeys <= counted /\ MaxRetentionWaves \in Nat
  BY DEF LoopInv, M!TypeOK, Types, M!MaintenanceAssumption
<1>1. /\ FlowChange(M!Run) /\ flow'[M!Run].step = "idle" /\ ModeInv'
      /\ \A g \in M!Flow : flow'[g].level \in M!AnyLevel
      /\ flow'[M!Run].step \in RunSteps
      /\ \A a \in Admission : flow'[a].step \in AdmissionSteps
  BY <1>a, RunMoves
<1>2. /\ waves' = 0 /\ deleted' = 0 /\ size' = size /\ lost' = lost /\ owed' = owed
      /\ deletions' = deletions /\ free' = free /\ started' = started /\ loopClosed' = loopClosed
      /\ stored' = stored /\ lastEmergencyMode' = lastEmergencyMode /\ crossed' = crossed
  BY <1>a DEF M!run, M!engine, M!ghosts, M!daemon, M!emergency
<1>3. counted + lost >= owed /\ (M!Reclaimed(M!Baseline(before, 0), size) => owed = 0)
      /\ (pending # M!NoPending /\ M!Reclaimed(pending, size) =>
            owed + pending.deletedKeys <= counted + lost)
  <2>1. counted + 0 + lost >= owed /\ (M!Reclaimed(M!Baseline(before, 0), size) => owed = 0)
        /\ (pending # M!NoPending /\ M!Reclaimed(pending, size) =>
              owed + pending.deletedKeys <= counted + 0 + lost)
    BY <1>a DEF LoopInv, OwedInv, M!At
  <2>2. QED
    BY <1>b, <2>1
<1>4. /\ counted' \in Nat /\ counted' <= deletions /\ counted' + lost >= owed
      /\ pending' \in [deletedKeys : Nat, total : Nat, garbage : Nat, backlog : 0..1]
      /\ pending'.deletedKeys <= counted'
      /\ pending' # M!NoPending /\ M!Reclaimed(pending', size) =>
           owed + pending'.deletedKeys <= counted' + lost
  <2>1. CASE M!CompactScheduled /\ M!Reclaimed(M!Baseline(before, 0), size)
    <3>1. counted' = 0 /\ pending' = M!NoPending
      BY <2>1 DEF M!CompactScheduled
    <3>2. QED
      BY <1>b, <1>3, <2>1, <3>1 DEF M!NoPending
  <2>2. CASE M!CompactScheduled /\ ~M!Reclaimed(M!Baseline(before, 0), size) /\ pending = M!NoPending
    <3>1. counted' = counted /\ pending' = M!Baseline(size, counted)
      BY <2>2 DEF M!CompactScheduled
    <3>2. QED
      BY <1>b, <1>3, <3>1, BaselineFacts
  <2>3. CASE counted' = counted /\ pending' = pending
    BY <1>b, <1>3, <2>3
  <2>4. QED
    BY <2>1, <2>2, <2>3 DEF M!CompactScheduled, M!CompactFails
<1>c. PICK c \in Nat : c = counted'
  BY <1>4
<1>5. 0 \in 0..MaxRetentionWaves /\ 0 \in 0..deletions /\ counted' \in 0..deletions
      /\ counted' + 0 <= deletions /\ M!NoSize \in Sizes
  <2>1. c <= deletions
    BY <1>4, <1>c
  <2>2. c \in 0..deletions /\ c + 0 <= deletions /\ 0 \in 0..deletions
    BY <1>b, <2>1
  <2>3. 0 \in 0..MaxRetentionWaves /\ M!NoSize \in Sizes
    BY <1>b DEF M!NoSize, Sizes
  <2>4. QED
    BY <1>c, <2>2, <2>3
<1>6. M!TypeOK'
  BY <1>1, <1>2, <1>4, <1>5 DEF LoopInv, M!TypeOK, RunSteps, AdmissionSteps
<1>7. Types'
  BY <1>a, <1>1, <1>2, <1>4, <1>5 DEF LoopInv, Types, FlowChange
<1>8. AccountInv'
  BY <1>1, <1>2, <1>5 DEF AccountInv, M!At
<1>9. OwedInv'
  <2>1. counted' + 0 + lost >= owed
        /\ (pending' # M!NoPending /\ M!Reclaimed(pending', size) =>
              owed + pending'.deletedKeys <= counted' + 0 + lost)
    <3>1. c + 0 + lost = c + lost
      BY <1>b
    <3>2. QED
      BY <1>4, <1>c, <3>1
  <2>2. ~M!At("compact")' /\ (M!Reclaimed(pending, size)' <=> M!Reclaimed(pending', size))
        /\ ((pending # M!NoPending)' <=> pending' # M!NoPending)
    BY <1>1, <1>2 DEF M!At, M!Reclaimed, M!Total, M!NoPending
  <2>3. QED
    BY <1>2, <2>1, <2>2 DEF OwedInv
<1>10. QED
  BY <1>1, <1>6, <1>7, <1>8, <1>9 DEF LoopInv

LEMMA SurroundingsStep ==
    ASSUME M!MaintenanceAssumption, LoopInv, M!DiskChanges \/ M!Close
    PROVE  LoopInv'
<1>1. /\ UNCHANGED <<M!emergency, flow, M!run, M!accounts, M!engine, M!ghosts>>
      /\ free' = free \/ free' \in Level
      /\ started' = started /\ loopClosed' \in BOOLEAN
  BY DEF M!DiskChanges, M!Close, M!daemon, LoopInv, M!TypeOK
<1>2. UNCHANGED <<stored, lastEmergencyMode, crossed, waves, deleted, counted, pending, before,
                  size, growth, deletions, owed, lost>>
  BY <1>1 DEF M!emergency, M!run, M!accounts, M!engine, M!ghosts
<1>3. M!TypeOK'
  BY <1>1, <1>2 DEF LoopInv, M!TypeOK
<1>4. Types'
  BY <1>1, <1>2 DEF LoopInv, Types
<1>5. ModeInv'
  BY <1>1, <1>2 DEF LoopInv, ModeInv, M!Writing, M!Mode
<1>6. AccountInv' /\ OwedInv'
  BY <1>1, <1>2 DEF LoopInv, AccountInv, OwedInv, M!At, M!Reclaimed, M!Total, M!NoPending, M!Baseline
<1>7. QED
  BY <1>3, <1>4, <1>5, <1>6 DEF LoopInv

\* RocksDB grows and compacts: the count covers what is owed all the same.
LEMMA EngineStep ==
    ASSUME M!MaintenanceAssumption, LoopInv, M!Grow \/ M!EngineCompacts
    PROVE  LoopInv'
<1>a. /\ size \in Sizes /\ before \in Sizes /\ size.garbage \in 0..deletions /\ deletions \in Nat
      /\ counted \in Nat /\ deleted \in Nat /\ lost \in Nat /\ owed \in 0..deletions
      /\ pending.deletedKeys \in Nat /\ pending.deletedKeys <= counted
      /\ pending \in [deletedKeys : Nat, total : Nat, garbage : Nat, backlog : 0..1]
  BY DEF LoopInv, M!TypeOK, Types
<1>1. /\ UNCHANGED <<free, M!emergency, flow, M!run, M!accounts, M!daemon>>
      /\ deletions' = deletions /\ lost' = lost
  BY DEF M!Grow, M!EngineCompacts, M!ghosts
<1>2. UNCHANGED <<stored, lastEmergencyMode, crossed, waves, deleted, counted, pending, before,
                  started, loopClosed>>
  BY <1>1 DEF M!emergency, M!run, M!accounts, M!daemon
<1>3. /\ size' \in Sizes /\ size'.garbage \in 0..deletions /\ owed' \in 0..deletions
      /\ \/ owed' = owed /\ size'.live >= size.live /\ size'.garbage >= size.garbage
                         /\ size'.backlog >= size.backlog
         \/ owed' = 0
  <2>1. CASE M!Grow
    <3>1. owed' = owed /\ size' = [size EXCEPT !.live = @ + 1]
      BY <2>1 DEF M!Grow, M!ghosts
    <3>2. size' = [live |-> size.live + 1, garbage |-> size.garbage, backlog |-> size.backlog]
          /\ size.live \in Nat /\ size.garbage \in Nat /\ size.backlog \in 0..1
      BY <1>a, <3>1 DEF Sizes
    <3>3. size.live + 1 \in Nat /\ size.live + 1 >= size.live
          /\ size.garbage >= size.garbage /\ size.backlog >= size.backlog
      BY <3>2
    <3>4. QED
      BY <1>a, <3>1, <3>2, <3>3 DEF Sizes
  <2>2. CASE M!EngineCompacts
    <3>1. PICK garbage \in 0..size.garbage, backlog \in 0..size.backlog :
            size' = [size EXCEPT !.garbage = garbage, !.backlog = backlog]
      BY <2>2 DEF M!EngineCompacts
    <3>2. owed' = 0
      BY <2>2 DEF M!EngineCompacts
    <3>3. size' = [live |-> size.live, garbage |-> garbage, backlog |-> backlog]
          /\ size.live \in Nat /\ size.garbage \in Nat /\ size.backlog \in 0..1
      BY <1>a, <3>1 DEF Sizes
    <3>4. garbage \in Nat /\ backlog \in 0..1 /\ garbage \in 0..deletions /\ 0 \in 0..deletions
      BY <1>a, <3>3
    <3>5. QED
      BY <3>2, <3>3, <3>4 DEF Sizes
  <2>3. QED
    BY <2>1, <2>2
<1>4. M!TypeOK'
  BY <1>1, <1>2, <1>3 DEF LoopInv, M!TypeOK
<1>5. Types'
  BY <1>1, <1>2, <1>3 DEF LoopInv, Types
<1>6. ModeInv'
  BY <1>1, <1>2 DEF LoopInv, ModeInv, M!Writing, M!Mode
<1>7. AccountInv'
  BY <1>1, <1>2 DEF LoopInv, AccountInv, M!At
<1>8. OwedInv'
  <2>1. /\ M!Reclaimed(pending, size)' <=> M!Reclaimed(pending, size')
        /\ M!Reclaimed(M!Baseline(before, 0), size)' <=> M!Reclaimed(M!Baseline(before, 0), size')
        /\ M!At("compact")' <=> M!At("compact")
        /\ (pending # M!NoPending)' <=> pending # M!NoPending
    BY <1>1, <1>2 DEF M!Reclaimed, M!Total, M!Baseline, M!At, M!NoPending
  <2>2. CASE owed' = 0
    <3>1. counted + deleted + lost >= 0 /\ 0 + pending.deletedKeys <= counted + deleted + lost
      BY <1>a
    <3>2. QED
      BY <1>1, <1>2, <2>2, <3>1 DEF OwedInv
  <2>3. CASE owed' = owed /\ size'.live >= size.live /\ size'.garbage >= size.garbage
             /\ size'.backlog >= size.backlog
    <3>1. /\ ~M!Reclaimed(pending, size) => ~M!Reclaimed(pending, size')
      BY <1>a, <1>3, <2>3, ReclaimedGrows
    <3>2. ~M!Reclaimed(M!Baseline(before, 0), size) => ~M!Reclaimed(M!Baseline(before, 0), size')
      <4>1. M!Baseline(before, 0) \in [deletedKeys : Nat, total : Nat, garbage : Nat, backlog : 0..1]
        BY <1>a, BaselineFacts
      <4>2. QED
        BY <1>a, <1>3, <2>3, <4>1, ReclaimedGrows
    <3>3. QED
      BY <1>1, <1>2, <2>1, <2>3, <3>1, <3>2 DEF LoopInv, OwedInv
  <2>4. QED
    BY <1>3, <2>2, <2>3
<1>9. QED
  BY <1>4, <1>5, <1>6, <1>7, <1>8 DEF LoopInv
-----------------------------------------------------------------------------
LEMMA InitInv == M!MaintenanceAssumption /\ M!Init => LoopInv
<1> SUFFICES ASSUME M!MaintenanceAssumption, M!Init PROVE LoopInv
  OBVIOUS
<1>0. /\ flow = [f \in M!Flow |-> M!Idle] /\ \A f \in M!Flow : flow[f] = M!Idle
      /\ M!Run \in M!Flow /\ Admission \subseteq M!Flow
  BY FlowFacts DEF M!Init
<1>1. M!Idle \in [step : RunSteps \union AdmissionSteps, level : M!AnyLevel]
      /\ M!Idle.step = "idle" /\ M!Idle.level \in M!AnyLevel
  BY DEF M!Idle, RunSteps, M!AnyLevel
<1>2. M!NoSize \in Sizes /\ M!NoPending.deletedKeys = 0
      /\ M!NoPending \in [deletedKeys : Nat, total : Nat, garbage : Nat, backlog : 0..1]
  BY DEF M!NoSize, Sizes, M!NoPending
<1>3. MaxRetentionWaves \in Nat /\ 0 \in 0..MaxRetentionWaves
  BY DEF M!MaintenanceAssumption
<1>4. M!TypeOK
  <2>1. /\ free \in Level /\ stored \in {"none", "on", "off"} /\ lastEmergencyMode = "none"
        /\ waves = 0 /\ deleted = 0 /\ counted = 0 /\ pending = M!NoPending /\ owed = 0
        /\ size.garbage = 0 /\ started = FALSE /\ loopClosed = FALSE /\ deletions = 0
    BY DEF M!Init, M!NoSize
  <2>2. /\ \A f \in M!Flow : flow[f].level \in M!AnyLevel /\ flow[f].step = "idle"
        /\ 0 \in 0..0 /\ 0 <= 0
    BY <1>0, <1>1
  <2>3. /\ flow[M!Run].step = "idle" /\ \A a \in Admission : flow[a].step = "idle"
    BY <1>0, <2>2
  <2>4. QED
    BY <1>2, <1>3, <2>1, <2>2, <2>3 DEF M!TypeOK
<1>5. Types
  BY <1>0, <1>1, <1>2 DEF M!Init, Types
<1>6. ModeInv
  BY <1>0, <1>1 DEF M!Init, ModeInv, M!Writing
<1>7. AccountInv /\ OwedInv
  BY <1>0, <1>1 DEF M!Init, AccountInv, OwedInv, M!At
<1>8. QED
  BY <1>4, <1>5, <1>6, <1>7 DEF LoopInv

LEMMA Stutter == ASSUME LoopInv, UNCHANGED M!vars PROVE LoopInv'
<1>1. UNCHANGED <<free, stored, lastEmergencyMode, crossed, flow, waves, deleted, counted, pending,
                  before, size, started, loopClosed, deletions, owed, lost>>
  BY DEF M!vars, M!emergency, M!run, M!accounts, M!engine, M!daemon, M!ghosts
<1>2. M!TypeOK' /\ Types'
  BY <1>1 DEF LoopInv, M!TypeOK, Types
<1>3. ModeInv'
  BY <1>1 DEF LoopInv, ModeInv, M!Writing, M!Mode
<1>4. AccountInv' /\ OwedInv'
  BY <1>1 DEF LoopInv, AccountInv, OwedInv, M!At, M!Reclaimed, M!Total, M!NoPending, M!Baseline
<1>5. QED
  BY <1>2, <1>3, <1>4 DEF LoopInv

LEMMA StepInv == M!MaintenanceAssumption /\ LoopInv /\ [M!Next]_(M!vars) => LoopInv'
<1> SUFFICES ASSUME M!MaintenanceAssumption, LoopInv, [M!Next]_(M!vars) PROVE LoopInv'
  OBVIOUS
<1>1. CASE M!Trigger \/ M!setEmergencyMode(M!Run) \/ M!RememberMode(M!Run)
  BY <1>1, RunWrites
<1>2. CASE M!AuxiliaryCleanup
  BY <1>2, CleanupStep
<1>3. CASE M!RetentionWave
  BY <1>3, WaveStep
<1>4. CASE M!Account
  BY <1>4, AccountStep
<1>5. CASE M!CompactScheduled \/ M!CompactFails
  BY <1>5, CompactStep
<1>6. CASE M!RunFails
  BY <1>6, FailStep
<1>7. CASE \E a \in Admission : M!checkAdmission(a) \/ M!AdmissionStep(a) \/ M!AdmissionFails(a)
  BY <1>7, AdmissionStepInv
<1>8. CASE M!DiskChanges \/ M!Close
  BY <1>8, SurroundingsStep
<1>9. CASE M!Grow \/ M!EngineCompacts
  BY <1>9, EngineStep
<1>10. CASE UNCHANGED M!vars
  BY <1>10, Stutter
<1>11. QED
  BY <1>1, <1>2, <1>3, <1>4, <1>5, <1>6, <1>7, <1>8, <1>9, <1>10 DEF M!Next, M!RunStep

LEMMA InvImplies == M!MaintenanceAssumption /\ LoopInv => M!MaintenanceRemembers
<1> SUFFICES ASSUME M!MaintenanceAssumption, LoopInv PROVE M!MaintenanceRemembers
  OBVIOUS
<1>1. M!ModeAgrees
  <2>1. (\E f \in M!Flow : flow[f].step = "written") => \E f \in M!Flow : M!Writing(f)
    BY DEF M!Writing
  <2>2. QED
    BY <2>1 DEF LoopInv, ModeInv, M!ModeAgrees
<1>2. M!DeletionsRemembered
  <2>1. counted \in Nat /\ lost \in Nat /\ owed \in Nat
    BY DEF LoopInv, M!TypeOK, Types
  <2>2. M!At("idle") => counted + 0 + lost >= owed
    BY DEF LoopInv, OwedInv, AccountInv, M!At
  <2>3. QED
    BY <2>1, <2>2 DEF M!DeletionsRemembered
<1>3. QED
  BY <1>1, <1>2 DEF LoopInv, M!MaintenanceRemembers

\* For every number of admissions, waves and failed writes and every threshold: at rest, the mode
\* the daemon remembers is the one on the disk, unless two flows wrote different ones at a time,
\* and the keys deleted since RocksDB last compacted are counted, but for those of failed runs
\* (runOnce, synchronizeEmergencyMode).
THEOREM MaintenanceRemembersHolds ==
    ASSUME M!MaintenanceAssumption PROVE M!Spec => []M!MaintenanceRemembers
<1>1. M!Init => LoopInv
  BY InitInv
<1>2. LoopInv /\ [M!Next]_(M!vars) => LoopInv'
  BY StepInv
<1>3. LoopInv => M!MaintenanceRemembers
  BY InvImplies
<1>4. QED
  BY <1>1, <1>2, <1>3, PTL DEF M!Spec
-----------------------------------------------------------------------------
(***************************************************************************)
(* The processes behind one store.  The store and the socket are free for  *)
(* the one that gets the lock, because each process that has one of them   *)
(* has the lock as well, from before it opens the store until after it     *)
(* closed it (OwnerInv).  What a worker signals is a process it once       *)
(* reached (WorkerInv), at whatever step that process is by then.          *)
(***************************************************************************)
CONSTANTS Process, Old, Launcher, MaxCrashes, None
VARIABLES proc, handled, killed, lock, store, listening, path, marker, launcher, crashes

L == INSTANCE DaemonLifecycle WITH Worker <- Launcher, worker <- launcher

\* The steps of a process that was given the lock and did not fail.
Owning == {"store", "prepare", "clear", "listen", "up"} \union L!Closing

OwnerInv ==
    /\ \A p \in Process : proc[p] \in Owning => lock = p
    /\ \A p \in store :
         lock = p /\ proc[p] \in {"prepare", "clear", "listen", "up", "drain", "fail"}
    /\ \A p \in listening : proc[p] = "up"

WorkerInv ==
    \A w \in Launcher :
        /\ launcher[w].step = "connected" => launcher[w].daemon \in Process
        /\ launcher[w].step \in {"link", "read", "remove", "signal"} => launcher[w].daemon \in Old

LifeInv == L!TypeOK /\ OwnerInv /\ WorkerInv

\* What a step may do to the process it is about, when the others stay as they are.
Others(p) == \A q \in Process \ {p} : proc'[q] = proc[q]
Kept(p) == \/ lock' = lock
           \/ lock = None /\ lock' = p
           \/ lock = p /\ lock' = None
-----------------------------------------------------------------------------
LEMMA Steps ==
    /\ L!Starting = {"lock", "store", "prepare", "clear", "listen"}
    /\ L!Failing = {"fail", "failCheck", "failUnlink"}
    /\ L!Closing = {"drain", "check", "unlink"}
BY DEF L!Starting, L!Failing, L!Closing

\* OwnerInv is about each process alone, but for the lock, which passes only from nobody
\* to a process or back.
LEMMA OwnerFrame ==
    ASSUME L!LifecycleAssumption, LifeInv, NEW p \in Process, Others(p), Kept(p),
           proc' \in [Process -> L!Starting \union L!Failing \union L!Closing
                                   \union {"unborn", "up", "gone"}],
           store' \ {p} = store \ {p}, listening' \ {p} = listening \ {p},
           proc'[p] \in Owning => lock' = p,
           p \in store' => /\ lock' = p
                           /\ proc'[p] \in {"prepare", "clear", "listen", "up", "drain", "fail"},
           p \in listening' => proc'[p] = "up"
    PROVE  OwnerInv'
<1>0. OwnerInv /\ L!TypeOK /\ None \notin Process
  BY DEF LifeInv, L!LifecycleAssumption
<1>1. \A q \in Process \ {p} : lock = q => lock' = q
  BY <1>0 DEF Kept
<1>2. \A q \in Process : proc'[q] \in Owning => lock' = q
  BY <1>0, <1>1 DEF OwnerInv, Others
<1>3. ASSUME NEW q \in store'
      PROVE  lock' = q /\ proc'[q] \in {"prepare", "clear", "listen", "up", "drain", "fail"}
  BY <1>0, <1>1 DEF OwnerInv, Others, L!TypeOK
<1>4. ASSUME NEW q \in listening' PROVE proc'[q] = "up"
  BY <1>0 DEF OwnerInv, Others, L!TypeOK
<1>5. QED
  BY <1>2, <1>3, <1>4 DEF OwnerInv

\* A step of a daemon that takes no other part.
LEMMA DaemonStep ==
    ASSUME L!LifecycleAssumption, LifeInv, NEW p \in Process, L!Daemon(p) \/ L!IdleShutdown(p)
    PROVE  L!TypeOK' /\ OwnerInv'
<1>0. /\ L!TypeOK /\ OwnerInv /\ None \notin Process
      /\ proc[p] \in L!Starting \union L!Failing \union L!Closing \union {"unborn", "up", "gone"}
  BY DEF LifeInv, L!TypeOK, L!LifecycleAssumption
<1>1. CASE L!AcquireLock(p)
  <2>1. p \notin store /\ p \notin listening
    BY <1>0, <1>1 DEF L!AcquireLock, OwnerInv
  <2>2. L!TypeOK' /\ Others(p) /\ Kept(p) /\ UNCHANGED <<store, listening>>
        /\ \/ proc'[p] = "store" /\ lock' = p
           \/ proc'[p] = "fail" /\ lock' = lock
    BY <1>0, <1>1, Steps DEF L!AcquireLock, L!Goto, L!Unchanged, L!TypeOK, Others, Kept
  <2>3. QED
    BY <2>1, <2>2, OwnerFrame, Steps DEF L!TypeOK, Owning
<1>2. CASE L!OpenStore(p)
  <2>1. lock = p /\ p \notin listening /\ p \notin store
    BY <1>0, <1>2 DEF L!OpenStore, OwnerInv, Owning
  <2>2. L!TypeOK' /\ Others(p) /\ Kept(p) /\ UNCHANGED <<lock, listening>>
        /\ \/ proc'[p] = "prepare" /\ store' = store \union {p}
           \/ proc'[p] = "fail" /\ store' = store
    BY <1>0, <1>2, Steps DEF L!OpenStore, L!Goto, L!Unchanged, L!TypeOK, Others, Kept
  <2>3. QED
    BY <2>1, <2>2, OwnerFrame, Steps DEF L!TypeOK, Owning
<1>3. CASE L!PrepareSocket(p)
  <2>1. lock = p /\ p \notin listening
    BY <1>0, <1>3 DEF L!PrepareSocket, OwnerInv, Owning
  <2>2. L!TypeOK' /\ Others(p) /\ Kept(p) /\ UNCHANGED L!files
        /\ proc'[p] \in {"listen", "fail", "clear"}
    BY <1>0, <1>3, Steps DEF L!PrepareSocket, L!Goto, L!Unchanged, L!files, L!TypeOK, Others, Kept
  <2>3. QED
    BY <2>1, <2>2, OwnerFrame, Steps DEF L!TypeOK, Owning, L!files
<1>4. CASE L!Listen(p)
  <2>1. lock = p /\ p \notin listening
    BY <1>0, <1>4 DEF L!Listen, OwnerInv, Owning
  <2>2. L!TypeOK' /\ Others(p) /\ Kept(p) /\ UNCHANGED <<lock, store>>
        /\ \/ proc'[p] = "fail" /\ listening' = listening
           \/ proc'[p] = "up" /\ listening' = listening \union {p}
    BY <1>0, <1>4, Steps DEF L!Listen, L!Goto, L!Unchanged, L!TypeOK, Others, Kept
  <2>3. QED
    BY <2>1, <2>2, OwnerFrame, Steps DEF L!TypeOK, Owning
<1>5. CASE L!CloseStore(p)
  <2>1. p \notin listening /\ (proc[p] = "drain" => lock = p)
    BY <1>0, <1>5, Steps DEF L!CloseStore, OwnerInv, Owning
  <2>2. L!TypeOK' /\ Others(p) /\ Kept(p) /\ UNCHANGED <<lock, listening>>
        /\ store' = store \ {p}
        /\ \/ proc'[p] = "failCheck"
           \/ proc[p] = "drain" /\ proc'[p] = "check"
    BY <1>0, <1>5, Steps DEF L!CloseStore, L!Goto, L!Unchanged, L!TypeOK, Others, Kept
  <2>3. QED
    BY <2>1, <2>2, OwnerFrame, Steps DEF L!TypeOK, Owning
<1>6. CASE L!CheckSocket(p)
  <2>1. p \notin listening /\ p \notin store /\ (proc[p] = "check" => lock = p)
    BY <1>0, <1>6, Steps DEF L!CheckSocket, OwnerInv, Owning
  <2>2. L!TypeOK' /\ Others(p) /\ Kept(p) /\ UNCHANGED <<store, listening>>
        /\ \/ proc'[p] = "failUnlink" /\ UNCHANGED lock
           \/ proc[p] = "check" /\ proc'[p] = "unlink" /\ UNCHANGED lock
           \/ proc'[p] = "gone"
    BY <1>0, <1>6, Steps DEF L!CheckSocket, L!Quit, L!Goto, L!Unchanged, L!files, L!TypeOK, Others, Kept
  <2>3. QED
    BY <2>1, <2>2, OwnerFrame, Steps DEF L!TypeOK, Owning
<1>7. CASE L!RemoveSocket(p)
  <2>1. p \notin listening /\ p \notin store
    BY <1>0, <1>7 DEF L!RemoveSocket, OwnerInv
  <2>2. L!TypeOK' /\ Others(p) /\ Kept(p) /\ UNCHANGED <<store, listening>> /\ proc'[p] = "gone"
    BY <1>0, <1>7, Steps DEF L!RemoveSocket, L!Quit, L!Goto, L!Unchanged, L!TypeOK, Others, Kept
  <2>3. QED
    BY <2>1, <2>2, OwnerFrame, Steps DEF L!TypeOK, Owning
<1>8. CASE L!IdleShutdown(p)
  <2>1. lock = p
    BY <1>0, <1>8 DEF L!IdleShutdown, OwnerInv, Owning
  <2>2. L!TypeOK' /\ Others(p) /\ Kept(p) /\ UNCHANGED <<lock, store>> /\ proc'[p] = "drain"
        /\ listening' = listening \ {p}
    BY <1>0, <1>8, Steps DEF L!IdleShutdown, L!StopListening, L!Goto, L!Unchanged, L!TypeOK, Others, Kept
  <2>3. QED
    BY <2>1, <2>2, OwnerFrame, Steps DEF L!TypeOK, Owning
<1>9. QED
  BY <1>1, <1>2, <1>3, <1>4, <1>5, <1>6, <1>7, <1>8 DEF L!Daemon

\* The types of what a signal and a death change.
DaemonTypes ==
    /\ proc \in [Process -> L!Starting \union L!Failing \union L!Closing
                             \union {"unborn", "up", "gone"}]
    /\ handled \subseteq Process /\ killed \subseteq handled
    /\ lock \in Process \union {None} /\ path \in Process \union {None}
    /\ store \subseteq Process /\ listening \subseteq Process

LEMMA DieStep ==
    ASSUME L!LifecycleAssumption, LifeInv, NEW p \in Process, L!Die(p)
    PROVE  /\ proc' \in [Process -> L!Starting \union L!Failing \union L!Closing
                                     \union {"unborn", "up", "gone"}]
           /\ lock' \in Process \union {None} /\ path' \in Process \union {None}
           /\ store' \subseteq Process /\ listening' \subseteq Process
           /\ OwnerInv'
<1>0. L!TypeOK
  BY DEF LifeInv
<1>1. /\ proc' \in [Process -> L!Starting \union L!Failing \union L!Closing
                               \union {"unborn", "up", "gone"}]
      /\ lock' \in Process \union {None} /\ path' \in Process \union {None}
      /\ store' \subseteq Process /\ listening' \subseteq Process
      /\ Others(p) /\ Kept(p) /\ proc'[p] = "gone"
      /\ store' = store \ {p} /\ listening' = listening \ {p}
  BY <1>0 DEF L!Die, L!Goto, L!TypeOK, Others, Kept
<1>2. OwnerInv'
  BY <1>1, OwnerFrame, Steps DEF Owning
<1>3. QED
  BY <1>1, <1>2

\* A signal finds the process at any step, or gone.
LEMMA TerminateStep ==
    ASSUME L!LifecycleAssumption, LifeInv, NEW p \in Process, L!Terminate(p)
    PROVE  DaemonTypes' /\ OwnerInv'
<1>0. L!TypeOK /\ OwnerInv
  BY DEF LifeInv
<1>1. CASE proc[p] = "up" /\ L!StopListening(p) /\ handled' = handled \union {p} /\ UNCHANGED killed
  <2>1. lock = p
    BY <1>0, <1>1 DEF OwnerInv, Owning
  <2>2. DaemonTypes' /\ Others(p) /\ Kept(p) /\ UNCHANGED <<lock, store>> /\ proc'[p] = "drain"
        /\ listening' = listening \ {p}
    BY <1>0, <1>1, Steps DEF L!StopListening, L!Goto, L!TypeOK, DaemonTypes, Others, Kept
  <2>3. QED
    BY <2>1, <2>2, OwnerFrame, Steps DEF DaemonTypes, Owning
<1>2. CASE UNCHANGED <<proc, L!files>> /\ handled' \subseteq Process /\ killed' \subseteq handled'
  BY <1>0, <1>2 DEF L!files, L!TypeOK, DaemonTypes, OwnerInv
<1>3. CASE L!Die(p) /\ killed' = killed \union ({p} \intersect handled) /\ UNCHANGED handled
  BY <1>0, <1>3, DieStep DEF L!TypeOK, DaemonTypes
<1>4. \/ proc[p] = "up" /\ L!StopListening(p) /\ handled' = handled \union {p} /\ UNCHANGED killed
      \/ UNCHANGED <<proc, L!files>> /\ handled' \subseteq Process /\ killed' \subseteq handled'
      \/ L!Die(p) /\ killed' = killed \union ({p} \intersect handled) /\ UNCHANGED handled
  BY <1>0 DEF L!Terminate, L!TypeOK
<1>5. QED
  BY <1>1, <1>2, <1>3, <1>4

LEMMA CrashStep ==
    ASSUME L!LifecycleAssumption, LifeInv, NEW p \in Process, L!Crash(p)
    PROVE  L!TypeOK' /\ OwnerInv'
<1>1. L!Die(p) /\ crashes' \in 0..MaxCrashes /\ UNCHANGED <<handled, killed, marker, launcher>>
  BY DEF L!Crash, LifeInv, L!TypeOK, L!LifecycleAssumption
<1>2. QED
  BY <1>1, DieStep DEF LifeInv, L!TypeOK
-----------------------------------------------------------------------------
Claiming == {"link", "read", "remove", "signal"}
Records == [step : {"want", "away", "connected", "link", "read", "remove", "signal", "restart",
                    "failed"},
            daemon : Process \union {None}, attempt : {1, 2}, signalled : SUBSET Old]
WorkerTypes == launcher \in [Launcher -> Records]

\* What a worker does to its own record.
LEMMA WorkerFrame ==
    ASSUME WorkerInv, NEW w \in Launcher, \A v \in Launcher \ {w} : launcher'[v] = launcher[v],
           launcher'[w].step = "connected" => launcher'[w].daemon \in Process,
           launcher'[w].step \in Claiming => launcher'[w].daemon \in Old
    PROVE  WorkerInv'
BY DEF WorkerInv, Claiming

LEMMA ToFrame ==
    ASSUME WorkerInv, WorkerTypes, NEW w \in Launcher,
           NEW s \in {"want", "away", "read", "remove", "signal", "restart", "failed"}, L!To(w, s),
           s \in Claiming => launcher[w].daemon \in Old
    PROVE  WorkerInv' /\ WorkerTypes'
<1>1. WorkerTypes' /\ \A v \in Launcher \ {w} : launcher'[v] = launcher[v]
  BY DEF L!To, WorkerTypes, Records
<1>2. launcher'[w].step = s /\ launcher'[w].daemon = launcher[w].daemon
  BY DEF L!To, WorkerTypes, Records
<1>3. QED
  BY <1>1, <1>2, WorkerFrame

LEMMA LauncherStep ==
    ASSUME L!LifecycleAssumption, LifeInv, NEW w \in Launcher, L!Client(w)
    PROVE  WorkerInv' /\ WorkerTypes'
<1>0. /\ WorkerInv /\ WorkerTypes
      /\ path \in Process \union {None} /\ Old \subseteq Process
      /\ launcher[w].step \in Claiming => launcher[w].daemon \in Old
  BY DEF LifeInv, L!TypeOK, L!LifecycleAssumption, WorkerTypes, Records, WorkerInv, Claiming
<1>1. CASE L!Connect(w)
  <2>1. CASE L!To(w, "away")
    BY <1>0, <2>1, ToFrame DEF Claiming
  <2>2. CASE path # None /\ launcher' = [launcher EXCEPT ![w].daemon = path, ![w].step = "connected"]
    <3> DEFINE f == [launcher EXCEPT ![w].daemon = path]
    <3>0. /\ f \in [Launcher -> Records] /\ \A v \in Launcher \ {w} : f[v] = launcher[v]
          /\ f[w].daemon = path
      BY <1>0 DEF WorkerTypes, Records
    <3>f. launcher' = [f EXCEPT ![w].step = "connected"]
      BY <2>2
    <3> HIDE DEF f
    <3>1. /\ WorkerTypes' /\ \A v \in Launcher \ {w} : launcher'[v] = launcher[v]
          /\ launcher'[w].step = "connected" /\ launcher'[w].daemon = path
      BY <3>0, <3>f DEF WorkerTypes, Records
    <3>2. QED
      BY <1>0, <2>2, <3>1, WorkerFrame DEF Claiming
  <2>3. CASE \E s \in {"away", "link"} : path \in Old /\
                launcher' = [launcher EXCEPT ![w].daemon = path, ![w].attempt = 1, ![w].step = s]
    <3>1. PICK s \in {"away", "link"} : path \in Old /\
                launcher' = [launcher EXCEPT ![w].daemon = path, ![w].attempt = 1, ![w].step = s]
      BY <2>3
    <3> DEFINE f == [launcher EXCEPT ![w].daemon = path]
               g == [f EXCEPT ![w].attempt = 1]
    <3>a. /\ f \in [Launcher -> Records] /\ \A v \in Launcher \ {w} : f[v] = launcher[v]
          /\ f[w].daemon = path
      BY <1>0 DEF WorkerTypes, Records
    <3>b. launcher' = [g EXCEPT ![w].step = s]
      BY <3>1
    <3> HIDE DEF f
    <3>c. /\ g \in [Launcher -> Records] /\ \A v \in Launcher \ {w} : g[v] = launcher[v]
          /\ g[w].daemon = path
      BY <3>a DEF Records
    <3> HIDE DEF g
    <3>2. /\ WorkerTypes' /\ \A v \in Launcher \ {w} : launcher'[v] = launcher[v]
          /\ launcher'[w].step = s /\ launcher'[w].daemon = path
      BY <3>b, <3>c DEF WorkerTypes, Records
    <3>3. QED
      BY <1>0, <3>1, <3>2, WorkerFrame
  <2>4. QED
    BY <1>1, <2>1, <2>2, <2>3 DEF L!Connect
<1>2. CASE \E s \in {"want", "failed"} :
             launcher' = [launcher EXCEPT ![w].step = s, ![w].daemon = None]
  <2>1. PICK s \in {"want", "failed"} :
          launcher' = [launcher EXCEPT ![w].step = s, ![w].daemon = None]
    BY <1>2
  <2> DEFINE f == [launcher EXCEPT ![w].step = s]
  <2>a. /\ f \in [Launcher -> Records] /\ \A v \in Launcher \ {w} : f[v] = launcher[v]
        /\ f[w].step = s
    BY <1>0 DEF WorkerTypes, Records
  <2>b. launcher' = [f EXCEPT ![w].daemon = None]
    BY <2>1
  <2> HIDE DEF f
  <2>2. /\ WorkerTypes' /\ \A v \in Launcher \ {w} : launcher'[v] = launcher[v]
        /\ launcher'[w].step = s
    BY <2>a, <2>b DEF WorkerTypes, Records
  <2>3. QED
    BY <1>0, <2>2, WorkerFrame DEF Claiming
<1>3. CASE L!Disconnect(w) \/ L!Link(w) \/ L!ReadMarker(w) \/ L!Restarted(w)
  BY <1>0, <1>2, <1>3, ToFrame DEF L!Disconnect, L!Link, L!ReadMarker, L!Restarted, Claiming
<1>4. CASE L!RemoveMarker(w)
  <2>1. PICK s \in {"link", "away"} :
          launcher' = [launcher EXCEPT ![w].attempt = 2, ![w].step = s]
    BY <1>4 DEF L!RemoveMarker
  <2> DEFINE f == [launcher EXCEPT ![w].attempt = 2]
  <2>a. /\ f \in [Launcher -> Records] /\ \A v \in Launcher \ {w} : f[v] = launcher[v]
        /\ f[w].daemon = launcher[w].daemon
    BY <1>0 DEF WorkerTypes, Records
  <2>b. launcher' = [f EXCEPT ![w].step = s]
    BY <2>1
  <2> HIDE DEF f
  <2>2. /\ WorkerTypes' /\ \A v \in Launcher \ {w} : launcher'[v] = launcher[v]
        /\ launcher'[w].step = s /\ launcher'[w].daemon = launcher[w].daemon
    BY <2>a, <2>b DEF WorkerTypes, Records
  <2>3. launcher[w].daemon \in Old
    BY <1>0, <1>4 DEF L!RemoveMarker, Claiming
  <2>4. QED
    BY <1>0, <2>2, <2>3, WorkerFrame
<1>5. CASE L!SignalOld(w)
  <2>1. launcher[w].daemon \in Old
    BY <1>0, <1>5 DEF L!SignalOld, Claiming
  <2>2. launcher' = [launcher EXCEPT ![w].step = "away",
                                 ![w].signalled = @ \union {launcher[w].daemon}]
    BY <1>5 DEF L!SignalOld
  <2> DEFINE f == [launcher EXCEPT ![w].step = "away"]
             o == f[w].signalled \union {launcher[w].daemon}
  <2>a. /\ f \in [Launcher -> Records] /\ \A v \in Launcher \ {w} : f[v] = launcher[v]
        /\ f[w].step = "away"
    BY <1>0 DEF WorkerTypes, Records
  <2>b. launcher' = [f EXCEPT ![w].signalled = o]
    BY <1>0, <2>2 DEF WorkerTypes
  <2>c. o \in SUBSET Old
    BY <2>1, <2>a DEF Records
  <2> HIDE DEF f, o
  <2>3. /\ WorkerTypes' /\ \A v \in Launcher \ {w} : launcher'[v] = launcher[v]
        /\ launcher'[w].step = "away"
    BY <2>a, <2>b, <2>c DEF WorkerTypes, Records
  <2>4. QED
    BY <1>0, <2>3, WorkerFrame DEF Claiming
<1>6. CASE L!AskShutdown(w)
  <2>1. L!To(w, "restart")
    BY <1>6 DEF L!AskShutdown, L!To
  <2>2. QED
    BY <1>0, <2>1, ToFrame DEF Claiming
<1>7. QED
  BY <1>1, <1>2, <1>3, <1>4, <1>5, <1>6 DEF L!Client, L!Launch, L!Again, L!DeadlineOver

LEMMA MarkerStep ==
    ASSUME L!LifecycleAssumption, LifeInv, NEW w \in Launcher, L!Client(w)
    PROVE  marker' \in {{}} \union {{m} : m \in [target : Process, fresh : BOOLEAN]}
<1>1. marker \in {{}} \union {{m} : m \in [target : Process, fresh : BOOLEAN]}
  BY DEF LifeInv, L!TypeOK
<1>2. CASE L!Link(w)
  <2>1. launcher[w].daemon \in Process
    BY <1>2 DEF L!Link, LifeInv, WorkerInv, L!LifecycleAssumption
  <2>2. QED
    BY <1>1, <1>2, <2>1 DEF L!Link
<1>3. CASE ~L!Link(w)
  <2>1. marker' = marker \/ marker' = {}
    BY <1>3 DEF L!Client, L!Connect, L!Launch, L!Again, L!DeadlineOver, L!Disconnect, L!ReadMarker,
                L!RemoveMarker, L!SignalOld, L!AskShutdown, L!Restarted
  <2>2. QED
    BY <1>1, <2>1
<1>4. QED
  BY <1>2, <1>3

\* What a worker does to the daemons: launch one, or signal one it reached.
LEMMA ClientStep ==
    ASSUME L!LifecycleAssumption, LifeInv, NEW w \in Launcher, L!Client(w)
    PROVE  DaemonTypes' /\ OwnerInv' /\ crashes' = crashes
<1>0. L!TypeOK /\ OwnerInv /\ DaemonTypes
  BY DEF LifeInv, L!TypeOK, DaemonTypes
<1>1. CASE L!WithoutProcesses
  BY <1>0, <1>1 DEF L!WithoutProcesses, L!files, DaemonTypes, OwnerInv
<1>2. CASE L!Launch(w)
  <2>1. PICK p \in Process : proc[p] = "unborn" /\ L!Goto(p, "lock")
    BY <1>2 DEF L!Launch
  <2>2. UNCHANGED <<handled, killed, lock, store, listening, path, crashes>>
    BY <1>2 DEF L!Launch, L!files
  <2>3. p \notin store /\ p \notin listening
    BY <1>0, <2>1 DEF OwnerInv
  <2>4. DaemonTypes' /\ Others(p) /\ Kept(p) /\ proc'[p] = "lock"
    BY <1>0, <2>1, <2>2, Steps DEF L!Goto, DaemonTypes, Others, Kept
  <2>5. QED
    BY <2>2, <2>3, <2>4, OwnerFrame, Steps DEF DaemonTypes, Owning
<1>3. CASE L!SignalOld(w)
  <2>1. launcher[w].daemon \in Process /\ L!Terminate(launcher[w].daemon) /\ crashes' = crashes
    BY <1>3 DEF L!SignalOld, LifeInv, WorkerInv, L!LifecycleAssumption
  <2>2. QED
    BY <2>1, TerminateStep
<1>4. CASE L!AskShutdown(w)
  <2> DEFINE p == launcher[w].daemon
  <2>1. /\ p \in Process /\ crashes' = crashes /\ proc[p] = "up"
        /\ \/ L!StopListening(p) /\ UNCHANGED <<handled, killed>>
           \/ L!Terminate(p)
    BY <1>4 DEF L!AskShutdown, LifeInv, WorkerInv
  <2>2. CASE L!StopListening(p) /\ UNCHANGED <<handled, killed>>
    <3>1. lock = p
      BY <1>0, <2>1 DEF OwnerInv, Owning
    <3>2. DaemonTypes' /\ Others(p) /\ Kept(p) /\ UNCHANGED <<lock, store>>
          /\ proc'[p] = "drain" /\ listening' = listening \ {p}
      BY <1>0, <2>1, <2>2, Steps DEF L!StopListening, L!Goto, DaemonTypes, Others, Kept
    <3>3. QED
      BY <2>1, <3>1, <3>2, OwnerFrame, Steps DEF DaemonTypes, Owning
  <2>3. QED
    BY <2>1, <2>2, TerminateStep
<1>5. QED
  BY <1>1, <1>2, <1>3, <1>4 DEF L!Client, L!Connect, L!Again, L!DeadlineOver, L!Disconnect, L!Link,
     L!ReadMarker, L!RemoveMarker, L!Restarted
-----------------------------------------------------------------------------
LEMMA LifeInitially == ASSUME L!LifecycleAssumption, L!Init PROVE LifeInv
<1>0. PICK p \in Process, up \in BOOLEAN, stale \in BOOLEAN :
         /\ proc = [q \in Process |-> IF q # p THEN "unborn" ELSE IF up THEN "up"
                                      ELSE IF stale THEN "gone" ELSE "unborn"]
         /\ lock = IF up THEN p ELSE None
         /\ store = IF up THEN {p} ELSE {}
         /\ listening = store
         /\ path = IF up \/ stale THEN p ELSE None
         /\ marker \in {{}} \union {{[target |-> q, fresh |-> FALSE]} : q \in Process \ {p}}
  BY DEF L!Init
<1>1. L!TypeOK
  <2>1. marker \in {{}} \union {{m} : m \in [target : Process, fresh : BOOLEAN]}
    BY <1>0
  <2>2. launcher \in [Launcher -> Records]
    <3>1. L!NewWorker \in Records
      BY DEF L!NewWorker, Records
    <3>2. QED
      BY <3>1 DEF L!Init
  <2>3. /\ proc \in [Process -> {"unborn", "up", "gone"}]
        /\ lock \in Process \union {None} /\ path \in Process \union {None}
        /\ store \subseteq Process /\ listening \subseteq Process
    BY <1>0
  <2>4. handled = {} /\ killed = {} /\ crashes = 0 /\ 0 \in 0..MaxCrashes
    BY DEF L!Init, L!LifecycleAssumption
  <2>5. QED
    BY <2>1, <2>2, <2>3, <2>4 DEF L!TypeOK, Records
<1>2. OwnerInv
  <2>1. \A q \in Process : proc[q] \in Owning => lock = q
    BY <1>0, Steps DEF Owning
  <2>2. CASE up
    <3>1. store = {p} /\ listening = {p} /\ lock = p /\ proc[p] = "up"
      BY <1>0, <2>2
    <3>2. QED
      BY <2>1, <3>1 DEF OwnerInv
  <2>3. CASE ~up
    <3>1. store = {} /\ listening = {}
      BY <1>0, <2>3
    <3>2. QED
      BY <2>1, <3>1 DEF OwnerInv
  <2>4. QED
    BY <2>2, <2>3
<1>3. WorkerInv
  BY DEF L!Init, WorkerInv, L!NewWorker
<1>4. QED
  BY <1>1, <1>2, <1>3 DEF LifeInv

LEMMA LifeStep == ASSUME L!LifecycleAssumption, LifeInv, [L!Next]_(L!vars) PROVE LifeInv'
<1>0. L!TypeOK /\ OwnerInv /\ WorkerInv
  BY DEF LifeInv
<1>1. ASSUME NEW p \in Process, L!Daemon(p) \/ L!IdleShutdown(p) \/ L!Crash(p) PROVE LifeInv'
  <2>1. L!TypeOK' /\ OwnerInv'
    BY <1>1, DaemonStep, CrashStep
  <2>2. launcher' = launcher
    BY <1>1 DEF L!Daemon, L!IdleShutdown, L!Crash, L!AcquireLock, L!OpenStore, L!PrepareSocket, L!Listen,
                L!CloseStore, L!CheckSocket, L!RemoveSocket, L!Unchanged
  <2>3. QED
    BY <1>0, <2>1, <2>2 DEF LifeInv, WorkerInv
<1>2. ASSUME NEW w \in Launcher, L!Client(w) PROVE LifeInv'
  <2>1. L!TypeOK'
    BY <1>0, <1>2, LauncherStep, MarkerStep, ClientStep DEF L!TypeOK, DaemonTypes, WorkerTypes,
                                                          Records
  <2>2. QED
    BY <1>2, <2>1, LauncherStep, ClientStep DEF LifeInv
<1>3. CASE L!MarkerExpires
  <2>1. UNCHANGED <<proc, handled, killed, lock, store, listening, path, crashes, launcher>>
    BY <1>3 DEF L!MarkerExpires, L!WithoutProcesses, L!files
  <2>2. PICK m \in [target : Process, fresh : BOOLEAN] : marker = {m}
    BY <1>0, <1>3 DEF L!TypeOK, L!MarkerExpires
  <2>3. marker' = {[m EXCEPT !.fresh = FALSE]}
    BY <1>3, <2>2 DEF L!MarkerExpires
  <2>4. QED
    BY <1>0, <2>1, <2>2, <2>3 DEF LifeInv, L!TypeOK, OwnerInv, WorkerInv
<1>4. CASE UNCHANGED L!vars
  BY <1>0, <1>4 DEF L!vars, L!files, LifeInv, L!TypeOK, OwnerInv, WorkerInv
<1>5. QED
  BY <1>1, <1>2, <1>3, <1>4 DEF L!Next

\* Whoever dies, loses the race for the lock, is signalled or closes, each process that has
\* the store open or the socket bound has the lock (server.js, worker.js).
THEOREM LifeInductive == ASSUME L!LifecycleAssumption PROVE L!Spec => []LifeInv
<1>1. L!Init => LifeInv
  BY LifeInitially
<1>2. LifeInv /\ [L!Next]_(L!vars) => LifeInv'
  BY LifeStep
<1>3. QED
  BY <1>1, <1>2, PTL DEF L!Spec

\* Every variable keeps its type.
THEOREM LifeTypeCorrect == ASSUME L!LifecycleAssumption PROVE L!Spec => []L!TypeOK
<1>1. LifeInv => L!TypeOK
  BY DEF LifeInv
<1>2. QED
  BY <1>1, LifeInductive, PTL

\* The store is open, and the socket served, only under the lock (server.js).
THEOREM OwnedByOneHolds == ASSUME L!LifecycleAssumption PROVE L!Spec => []L!OwnedByOne
<1>1. LifeInv => L!OwnedByOne
  BY DEF LifeInv, L!TypeOK, OwnerInv, L!OwnedByOne, Owning
<1>2. QED
  BY <1>1, LifeInductive, PTL

\* While a daemon listens only a process that was refused the lock takes its socket away
\* (prepareSocket, releaseResources).
THEOREM SocketTakenByLoserHolds == ASSUME L!LifecycleAssumption PROVE L!Spec => L!SocketTakenByLoser
<1>1. ASSUME L!LifecycleAssumption, LifeInv, [L!Next]_(L!vars), NEW p \in listening \intersect listening',
             path = p, path' # p
      PROVE  \E q \in Process : q # lock /\ proc[q] = "failUnlink"
  <2>0. L!TypeOK /\ OwnerInv /\ p \in Process /\ proc[p] = "up" /\ lock = p
    BY <1>1 DEF LifeInv, L!TypeOK, OwnerInv, Owning
  <2>1. \A q \in Process : proc[q] \in Owning => q = p
    BY <2>0 DEF OwnerInv
  <2>2. \A q \in Process : ~L!StopListening(q) \/ proc[q] # "up"
    BY <1>1, <2>1 DEF L!StopListening, Owning
  <2>3. ASSUME NEW q \in Process, L!Daemon(q) \/ L!IdleShutdown(q)
        PROVE  q # lock /\ proc[q] = "failUnlink"
    <3>1. ~L!Listen(q)
      BY <2>0, <2>1, Steps DEF L!Listen, Owning
    <3>2. ~L!IdleShutdown(q)
      BY <2>2 DEF L!IdleShutdown
    <3>3. L!RemoveSocket(q)
      BY <1>1, <2>3, <3>1, <3>2 DEF L!Daemon, L!AcquireLock, L!OpenStore, L!PrepareSocket, L!CloseStore,
                                    L!CheckSocket, L!Quit, L!files
    <3>4. QED
      BY <2>0, <2>1, <3>3, Steps DEF L!RemoveSocket, Owning
  <2>4. \A q \in Process : ~L!Crash(q)
    BY <1>1 DEF L!Crash, L!Die
  <2>5. \A q \in Process : ~L!Terminate(q)
    BY <1>1, <2>2 DEF L!Terminate, L!Die, L!files
  <2>6. \A w \in Launcher : ~L!Client(w)
    <3>1. ASSUME NEW w \in Launcher, L!AskShutdown(w) \/ L!SignalOld(w) PROVE FALSE
      <4>1. launcher[w].daemon \in Process
        BY <1>1, <3>1 DEF L!AskShutdown, L!SignalOld, LifeInv, WorkerInv, L!LifecycleAssumption
      <4>2. QED
        BY <2>2, <2>5, <3>1, <4>1 DEF L!AskShutdown, L!SignalOld
    <3>2. QED
      BY <1>1, <3>1 DEF L!Client, L!Connect, L!Launch, L!Again, L!DeadlineOver, L!Disconnect, L!Link,
                        L!ReadMarker, L!RemoveMarker, L!Restarted, L!WithoutProcesses, L!files
  <2>7. ~L!MarkerExpires /\ ~UNCHANGED L!vars
    BY <1>1 DEF L!MarkerExpires, L!WithoutProcesses, L!files, L!vars
  <2>8. QED
    BY <1>1, <2>3, <2>4, <2>6, <2>7 DEF L!Next
<1>2. ASSUME L!LifecycleAssumption PROVE LifeInv /\ [L!Next]_(L!vars) =>
        [\A p \in listening \intersect listening' :
           path = p /\ path' # p => \E q \in Process : q # lock /\ proc[q] = "failUnlink"]_(L!vars)
  BY <1>1, <1>2
<1>3. QED
  BY <1>2, LifeInductive, PTL DEF L!Spec, L!SocketTakenByLoser
=============================================================================
