--------------------------- MODULE IndexScheduler ---------------------------
(***************************************************************************)
(* When the daemon drains the index outbox (src/daemon/operations.js).     *)
(*                                                                         *)
(* All indexing goes through one shared drain of the index worker          *)
(* (drainPromise).  A small admission gives it up to four waves before the *)
(* request is answered; everything else is left to one background pass     *)
(* (idleDrainPromise), which drains until the outbox is idle.  The pass is *)
(* started by an immediate, after a retryable failure by a timer, or by a  *)
(* search.  close() cancels both and waits for what still runs.  Delays    *)
(* (indexRetryAttempt) are left out: a timer fires some time.              *)
(*                                                                         *)
(* One action is one turn of the event loop.  What the worker does for one *)
(* entry is module Outbox; here an entry is published, fails, or is found  *)
(* under the lease of a process that is gone.                              *)
(***************************************************************************)
EXTENDS Naturals, FiniteSets

CONSTANTS
    Request,       \* requests the daemon gets
    ForegroundWaves,   \* drains a request waits for (publishIndexSequence)
    MaxBacklog,    \* bound: entries found at startup
    MaxFaults      \* bound: failures of the index worker

VARIABLES
    tail,          \* entries committed
    cursor,        \* entries published
    leased,        \* the head is under the lease of a dead process
    request,       \* [Request -> step, sequence and waves of its handler]
    drain,         \* drainPromise
    pass,          \* idleDrainPromise is set
    immediate,     \* indexImmediate is set
    timer,         \* indexRetryTimer is set
    phase,         \* of the process: "boot", "warm", "ready", "up", "closing", "closed"
    faults,        \* failures injected so far
    refused,       \* the last pass met a failure that is not retryable
    missed         \* the last pass ended idle although an entry was there already

queue == <<tail, cursor, leased>>
timers == <<immediate, timer>>
vars == <<queue, request, drain, pass, timers, phase, faults, refused, missed>>

NoDrain    == [step |-> "none",  moved |-> FALSE, single |-> FALSE]
StartDrain == [step |-> "claim", moved |-> FALSE, single |-> FALSE]

NewRequest == [kind |-> "none", step |-> "new", sequence |-> 0, waves |-> 0]

Init ==
    /\ tail \in 0..MaxBacklog
    /\ cursor = 0
    /\ leased \in {l \in BOOLEAN : l => tail > 0}
    /\ request = [r \in Request |-> NewRequest]
    /\ drain = NoDrain
    /\ pass = FALSE
    /\ immediate = FALSE
    /\ timer = FALSE
    /\ phase = "boot"
    /\ faults = 0
    /\ refused = FALSE
    /\ missed = FALSE
-----------------------------------------------------------------------------
closed == phase \in {"closing", "closed"}

scheduleIndexing ==
    IF closed \/ immediate \/ pass
      THEN UNCHANGED timers
      ELSE immediate' = TRUE /\ timer' = FALSE

scheduleIndexRetryNever ==  \* mutant: the failed pass is not repeated
    UNCHANGED timers

\* Called when the failed pass is over.
scheduleIndexRetry ==
    IF closed \/ timer \/ immediate
      THEN UNCHANGED timers
      ELSE timer' = TRUE /\ UNCHANGED immediate

\* Joins the drain that runs, whatever it has read already.
Joined == IF drain.step = "none" THEN StartDrain ELSE drain

\* continueIndexing
StartPass ==
    IF closed \/ pass
      THEN UNCHANGED <<pass, drain, refused, missed>>
      ELSE pass' = TRUE /\ drain' = Joined /\ refused' = FALSE /\ missed' = FALSE

FireImmediate ==
    /\ immediate
    /\ immediate' = FALSE
    /\ StartPass
    /\ UNCHANGED <<queue, request, timer, phase, faults>>

FireTimer ==
    /\ timer
    /\ IF closed \/ immediate \/ pass THEN immediate' = immediate ELSE immediate' = TRUE
    /\ timer' = FALSE
    /\ UNCHANGED <<queue, request, drain, pass, phase, faults, refused, missed>>

\* A search request starts a pass of its own accord.
search ==
    /\ phase = "up"
    /\ StartPass
    /\ UNCHANGED <<queue, request, timers, phase, faults>>
-----------------------------------------------------------------------------
(***************************************************************************)
(* Requests.                                                               *)
(***************************************************************************)
Step(r, step) == request' = [request EXCEPT ![r].step = step]

\* The canonical commit of an admission, or of the index delete of an expiry.
Commit(r) ==
    /\ phase = "up"
    /\ request[r].step = "new"
    /\ tail' = tail + 1
    /\ \E kind \in {"small", "large", "delete"} :
         request' = [request EXCEPT ![r] = [kind |-> kind, step |-> "committed",
                                            sequence |-> tail + 1, waves |-> 0]]
    /\ UNCHANGED <<cursor, leased, drain, pass, timers, phase, faults, refused, missed>>

\* publishAdmissionIndex: a large admission, or one behind a backlog, does not wait.
LeaveToBackground(r) ==
    /\ request[r].step = "committed"
    /\ \/ request[r].kind = "large"
       \/ request[r].kind = "small" /\ cursor + 1 # request[r].sequence
    /\ Step(r, "done")
    /\ scheduleIndexing
    /\ UNCHANGED <<queue, drain, pass, phase, faults, refused, missed>>

PublishNow(r) ==
    /\ request[r].step = "committed"
    /\ \/ request[r].kind = "delete"
       \/ request[r].kind = "small" /\ cursor + 1 = request[r].sequence
    /\ Step(r, "wave")
    /\ UNCHANGED <<queue, drain, pass, timers, phase, faults, refused, missed>>

\* publishIndexSequence: another wave, unless the entry is published.
Wave(r) ==
    /\ request[r].step = "wave"
    /\ cursor < request[r].sequence
    /\ request[r].waves < ForegroundWaves
    /\ request' = [request EXCEPT ![r].step = "draining", ![r].waves = @ + 1]
    /\ drain' = Joined
    /\ UNCHANGED <<queue, pass, timers, phase, faults, refused, missed>>

\* The answer of a put schedules the pass, whatever became of the waves.
Answer(r) ==
    /\ \/ request[r].step = "failed"
       \/ /\ request[r].step = "wave"
          /\ cursor >= request[r].sequence \/ request[r].waves = ForegroundWaves
    /\ request[r].kind = "small"
    /\ Step(r, "done")
    /\ scheduleIndexing
    /\ UNCHANGED <<queue, drain, pass, phase, faults, refused, missed>>

\* A retention wave goes on with the canonical cleanup, or leaves it to a later wave.
AnswerDelete(r) ==
    /\ request[r].step \in {"wave", "failed"}
    /\ request[r].kind = "delete"
    /\ \/ cursor >= request[r].sequence /\ Step(r, "done")
       \/ /\ cursor < request[r].sequence
          /\ request[r].step = "failed" \/ request[r].waves = ForegroundWaves
          /\ Step(r, "partial")
    /\ UNCHANGED <<queue, drain, pass, timers, phase, faults, refused, missed>>

\* The next retention wave takes up the cleanup again.
ResumeDelete(r) ==
    /\ phase = "up"
    /\ request[r].step = "partial"
    /\ request' = [request EXCEPT ![r].step = "wave", ![r].waves = 0]
    /\ UNCHANGED <<queue, drain, pass, timers, phase, faults, refused, missed>>

\* The redaction of a project drains until idle before it purges (drainIndexUntilIdle).
DrainForPurge(r) ==
    /\ phase = "up"
    /\ request[r].step = "new"
    /\ request' = [request EXCEPT ![r].kind = "purge", ![r].step = "draining"]
    /\ drain' = Joined
    /\ UNCHANGED <<queue, pass, timers, phase, faults, refused, missed>>
-----------------------------------------------------------------------------
(***************************************************************************)
(* The shared drain, and what follows from its result.                     *)
(***************************************************************************)
Waiting == {r \in Request : request[r].step = "draining"}
Failures == {"retryable", "fatal"}

\* drainIndexUntilIdle goes round again.
Again(result) == result \in {"limit", "deadline"} /\ ~closed

Resumed(r, result) ==
    IF request[r].kind # "purge" THEN IF result \in Failures THEN "failed" ELSE "wave"
    ELSE IF Again(result) THEN "draining" ELSE "done"

\* The end of the background pass, or its next round.
PassGoesOn(result) ==
    \/ /\ ~pass \/ Again(result)
       /\ UNCHANGED <<pass, timers, refused>>
    \/ /\ pass /\ ~Again(result)
       /\ pass' = FALSE
       /\ IF result \in {"busy", "retryable"}
            THEN scheduleIndexRetry
            ELSE UNCHANGED timers
       /\ refused' = (refused \/ result = "fatal")

\* Everyone who waits goes on in the turn that settles the drain.  A put whose drain
\* failed may ask for a pass while the failed pass is still there: that asks for nothing.
Settle(result) ==
    LET early == {r \in Waiting : request[r].kind = "small" /\ result \in Failures}
    IN  /\ \E answered \in SUBSET early :
             /\ pass \/ answered = {}
             /\ request' = [r \in Request |->
                  IF r \notin Waiting THEN request[r]
                  ELSE [request[r] EXCEPT !.step = IF r \in answered THEN "done"
                                                   ELSE Resumed(r, result)]]
        /\ PassGoesOn(result)
        /\ drain' = IF /\ Again(result)
                       /\ pass \/ \E r \in Waiting : request[r].kind = "purge"
                      THEN StartDrain ELSE NoDrain
        /\ phase' = IF phase = "warm" THEN "ready" ELSE phase

\* The claim finds the head free.
PublishHead ==
    /\ drain.step = "claim"
    /\ ~(drain.single /\ drain.moved)
    /\ cursor < tail
    /\ ~leased
    /\ cursor' = cursor + 1
    /\ drain' = [drain EXCEPT !.moved = TRUE]
    /\ UNCHANGED <<tail, leased, request, pass, timers, phase, faults, refused, missed>>

\* Its entry limit or its time is up.
DrainStops ==
    /\ drain.step = "claim"
    /\ drain.moved
    /\ \E result \in {"limit", "deadline"} : Settle(result)
    /\ UNCHANGED <<queue, faults, missed>>

DrainBusy ==
    /\ drain.step = "claim"
    /\ cursor < tail
    /\ leased
    /\ Settle("busy")
    /\ UNCHANGED <<queue, faults, missed>>

DrainFails ==
    /\ drain.step = "claim"
    /\ cursor < tail
    /\ ~leased
    /\ faults < MaxFaults
    /\ faults' = faults + 1
    /\ \E result \in Failures : Settle(result)
    /\ UNCHANGED <<queue, missed>>

\* The claim reads no entry at the cursor; its transaction still has to end.
FindEmpty ==
    /\ drain.step = "claim"
    /\ ~(drain.single /\ drain.moved)
    /\ cursor = tail
    /\ drain' = [drain EXCEPT !.step = "empty"]
    /\ UNCHANGED <<queue, request, pass, timers, phase, faults, refused, missed>>

DrainIdle ==
    /\ drain.step = "empty"
    /\ Settle("idle")
    /\ missed' = (missed \/ (pass /\ cursor < tail))
    /\ UNCHANGED <<queue, faults>>

LeaseExpires ==
    /\ leased
    /\ leased' = FALSE
    /\ UNCHANGED <<tail, cursor, request, drain, pass, timers, phase, faults, refused, missed>>
-----------------------------------------------------------------------------
(***************************************************************************)
(* The process.                                                            *)
(***************************************************************************)
\* initialize(): one entry before readiness, unless the head is large.
Boot ==
    /\ phase = "boot"
    /\ \/ phase' = "warm" /\ drain' = [StartDrain EXCEPT !.single = TRUE]
       \/ phase' = "ready" /\ UNCHANGED drain
    /\ UNCHANGED <<queue, request, pass, timers, faults, refused, missed>>

Ready ==
    /\ phase = "ready"
    /\ phase' = "up"
    /\ scheduleIndexing
    /\ UNCHANGED <<queue, request, drain, pass, faults, refused, missed>>

Close ==
    /\ phase = "up"
    /\ phase' = "closing"
    /\ immediate' = FALSE
    /\ timer' = FALSE
    /\ UNCHANGED <<queue, request, drain, pass, faults, refused, missed>>

\* Maintenance and the models are closed; the pass and the drain are awaited.
Closed ==
    /\ phase = "closing"
    /\ ~pass
    /\ drain.step = "none"
    /\ phase' = "closed"
    /\ UNCHANGED <<queue, request, drain, pass, timers, faults, refused, missed>>

GoOn(r) ==
    \/ LeaveToBackground(r) \/ PublishNow(r) \/ Wave(r)
    \/ Answer(r) \/ AnswerDelete(r) \/ ResumeDelete(r)

Worker == PublishHead \/ DrainStops \/ DrainBusy \/ DrainFails \/ FindEmpty \/ DrainIdle

Next ==
    \/ \E r \in Request : Commit(r) \/ DrainForPurge(r) \/ GoOn(r)
    \/ Worker
    \/ FireImmediate \/ FireTimer \/ search
    \/ LeaseExpires
    \/ Boot \/ Ready \/ Close \/ Closed

Spec == Init /\ [][Next]_vars

\* The event loop runs what is due: handlers, the worker, immediates and timers; leases
\* run out; the daemon starts, and once closing goes on to the end.  Nobody has to send
\* a request, to search, or to close.
Fairness ==
    /\ \A r \in Request : WF_vars(GoOn(r))
    /\ WF_vars(Worker)
    /\ WF_vars(FireImmediate) /\ WF_vars(FireTimer) /\ WF_vars(LeaseExpires)
    /\ WF_vars(Boot) /\ WF_vars(Ready) /\ WF_vars(Closed)

FairSpec == Spec /\ Fairness
-----------------------------------------------------------------------------
SchedulerAssumption ==
    /\ IsFiniteSet(Request)
    /\ ForegroundWaves \in Nat /\ MaxBacklog \in Nat /\ MaxFaults \in Nat

Requests == [kind : {"none", "small", "large", "delete", "purge"},
             step : {"new", "committed", "wave", "draining", "failed", "partial", "done"},
             sequence : Nat, waves : 0..ForegroundWaves]
Drains == [step : {"none", "claim", "empty"}, moved : BOOLEAN, single : BOOLEAN]

TypeOK ==
    /\ tail \in 0..(MaxBacklog + Cardinality(Request))
    /\ cursor \in 0..tail
    /\ leased \in BOOLEAN
    /\ request \in [Request -> Requests] /\ \A r \in Request : request[r].sequence <= tail
    /\ drain \in Drains
    /\ pass \in BOOLEAN
    /\ immediate \in BOOLEAN
    /\ timer \in BOOLEAN
    /\ phase \in {"boot", "warm", "ready", "up", "closing", "closed"}
    /\ faults \in 0..MaxFaults
    /\ refused \in BOOLEAN
    /\ missed \in BOOLEAN

\* No two triggers of the pass are armed together: scheduleIndexing cancels the timer,
\* and a retry is not armed beside an immediate.
OneTrigger == ~(immediate /\ timer)

\* A closed daemon starts nothing any more, although passes, timers and requests that
\* were under way when close() began have ended since.
ClosedIsQuiet == phase = "closed" => ~pass /\ ~immediate /\ ~timer

\* Somebody will see to the entries not yet published: the pass, a trigger of it, or a
\* request that has yet to drain or to schedule it.
Attended ==
    \/ pass \/ immediate \/ timer
    \/ \E r \in Request : request[r].step \in {"committed", "wave", "draining", "failed", "partial"}

\* While the daemon is up entries are attended to, except after a pass that met a final
\* failure, or that did not see them any more when it ended.
BacklogAttended == phase = "up" /\ cursor < tail => Attended \/ refused \/ missed

\* Entries not yet published are attended to by one trigger at most, and by none once the
\* daemon is closed.
IndexingAttended == TypeOK /\ OneTrigger /\ ClosedIsQuiet /\ BacklogAttended

\* The same without the exception, as the code says: the background worker "will publish
\* both after the canonical acknowledgement has returned".
NothingMissed == phase = "up" /\ cursor < tail /\ ~refused => Attended

\* A backlog is worked off in the end, without another request, unless the daemon closes,
\* or a pass meets a final failure (refused) or ends without seeing an entry that was
\* committed meanwhile (missed): the code then leaves it to the next pass, which the next
\* put or search starts and for which the same holds again.
EventuallyIndexed == cursor < tail ~> cursor = tail \/ closed \/ refused \/ missed

\* A put is answered whatever the backlog and the failures.
PutsAnswered ==
    \A r \in Request :
        request[r].kind = "small" ~> request[r].step = "done"
=============================================================================
