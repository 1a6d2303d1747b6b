------------------------------- MODULE Watchdog -------------------------------
(***************************************************************************)
(* The watchdog of the daemon (src/daemon/watchdog.js, its worker thread   *)
(* watchdog-worker.js and watchdog-state.js).  The main loop advances a    *)
(* shared counter and posts messages; the worker looks at the counter at   *)
(* intervals, logs that the loop stands still, once for each time, and has *)
(* a sample taken.  It ends nothing.                                       *)
(*                                                                         *)
(* Time is that of the clock: the loop, the worker or both may do nothing  *)
(* while it passes, as when the machine sleeps.  Of the log only what the  *)
(* properties are about is kept.                                           *)
(***************************************************************************)
EXTENDS Naturals, Sequences

CONSTANTS
    Threshold,     \* stallThresholdMs
    MaxGap,        \* maxInspectionGapMs
    SampleEvery,   \* time between two samples
    Horizon,       \* bound: time
    MaxRequests    \* bound: requests

\* maxInspectionGapMs is the greater of the threshold and eight intervals.
WatchdogAssumption == Threshold \in Nat \ {0} /\ MaxGap \in Nat /\ MaxGap >= Threshold

VARIABLES
    now,
    heartbeat, beatAt,    \* the counter; when the loop advanced it last
    closed,               \* the main thread closed the watchdog
    started, running,     \* requests so far; those the main thread executes
    inbox,                \* messages to the worker
    watch,                \* the state of the inspection
    activeRequests,       \* the requests the worker knows of
    sample,               \* a sample is in flight; when the last one was begun
    stopped,              \* the worker closed its log
    stalls,               \* stalls logged: the counter, since when it stood, when it was logged
    afterwards,           \* something was logged after the log was closed
    looks                 \* first and last inspection since the loop advanced, without a gap
                          \* between them (no step reads this, the stalls and afterwards)

mainVars == <<heartbeat, beatAt, closed, started, running>>
workerVars == <<watch, activeRequests, sample, stopped, stalls, afterwards, looks>>
vars == <<now, inbox, mainVars, workerVars>>

createWatchdogState(beat, time) ==
    [heartbeat |-> beat, heartbeatAt |-> time, inspectedAt |-> time, stallReported |-> FALSE]

Init ==
    /\ now = SampleEvery \* no sample is so young that it forbids the first
    /\ heartbeat = 0 /\ beatAt = now
    /\ closed = FALSE /\ started = 0 /\ running = {}
    /\ inbox = <<>>
    /\ watch = createWatchdogState(0, now)
    /\ activeRequests = {}
    /\ sample = [inFlight |-> FALSE, at |-> 0]
    /\ stopped = FALSE /\ stalls = <<>> /\ afterwards = FALSE /\ looks = <<>>
-----------------------------------------------------------------------------
(***************************************************************************)
(* Time, and the main thread.  A loop that stands still takes no step.     *)
(***************************************************************************)
Tick == now < Horizon /\ now' = now + 1 /\ UNCHANGED <<inbox, mainVars, workerVars>>

Beat ==
    /\ ~closed /\ beatAt < now
    /\ heartbeat' = heartbeat + 1 /\ beatAt' = now /\ looks' = <<>>
    /\ UNCHANGED <<now, inbox, closed, started, running, watch, activeRequests, sample, stopped,
                   stalls, afterwards>>

Post(message) == inbox' = Append(inbox, message)

requestStarted ==
    /\ ~closed /\ started < MaxRequests
    /\ started' = started + 1 /\ running' = running \cup {started'}
    /\ Post([type |-> "request-start", token |-> started'])
    /\ UNCHANGED <<now, heartbeat, beatAt, closed, workerVars>>

\* After close nothing is posted.
requestFinished(token) ==
    /\ token \in running /\ running' = running \ {token}
    /\ IF closed THEN UNCHANGED inbox ELSE Post([type |-> "request-finish", token |-> token])
    /\ UNCHANGED <<now, heartbeat, beatAt, closed, started, workerVars>>

close ==
    /\ ~closed /\ closed' = TRUE
    /\ Post([type |-> "shutdown"])
    /\ UNCHANGED <<now, heartbeat, beatAt, started, running, workerVars>>
-----------------------------------------------------------------------------
(***************************************************************************)
(* The worker.                                                             *)
(***************************************************************************)
Logs == afterwards' = (afterwards \/ stopped)

\* inspectWatchdogState: a gap between two inspections means that the worker itself stood
\* still, which says nothing of the loop.
Gap == now - watch.inspectedAt > MaxGap
Stalled ==
    /\ heartbeat = watch.heartbeat
    /\ now - watch.heartbeatAt >= Threshold /\ ~watch.stallReported

inspectHeartbeat ==
    /\ ~stopped /\ watch.inspectedAt < now
    /\ IF Gap THEN watch' = createWatchdogState(heartbeat, now)
       ELSE watch' = IF heartbeat # watch.heartbeat THEN createWatchdogState(heartbeat, now)
                     ELSE [watch EXCEPT !.inspectedAt = now,
                                        !.stallReported = @ \/ Stalled]
    /\ IF ~Gap /\ Stalled
         THEN /\ stalls' = Append(stalls, [heartbeat |-> heartbeat, since |-> watch.heartbeatAt, at |-> now])
              /\ sample' = IF sample.inFlight \/ now - sample.at < SampleEvery THEN sample
                           ELSE [inFlight |-> TRUE, at |-> now]
         ELSE UNCHANGED <<stalls, sample>>
    /\ IF Gap \/ Stalled THEN Logs ELSE UNCHANGED afterwards
    /\ looks' = IF Gap \/ looks = <<>> THEN <<now, now>> ELSE <<looks[1], now>>
    /\ UNCHANGED <<now, inbox, mainVars, activeRequests, stopped>>

Receive ==
    /\ inbox # <<>> /\ ~stopped
    /\ inbox' = Tail(inbox)
    /\ LET message == Head(inbox)
       IN  CASE message.type = "request-start" ->
                  /\ activeRequests' = activeRequests \cup {message.token}
                  /\ UNCHANGED <<stopped, afterwards>>
             [] message.type = "request-finish" ->
                  /\ activeRequests' = activeRequests \ {message.token}
                  /\ UNCHANGED <<stopped, afterwards>>
             [] OTHER -> stopped' = TRUE /\ Logs /\ UNCHANGED activeRequests
    /\ UNCHANGED <<now, mainVars, watch, sample, stalls, looks>>

\* The process that takes the sample ends or fails; after the shutdown nothing is logged of it.
SampleEnds ==
    /\ sample.inFlight /\ sample' = [sample EXCEPT !.inFlight = FALSE]
    /\ IF stopped THEN UNCHANGED afterwards ELSE Logs
    /\ UNCHANGED <<now, inbox, mainVars, watch, activeRequests, stopped, stalls, looks>>

Next ==
    \/ Tick \/ Beat \/ requestStarted \/ close
    \/ \E token \in running : requestFinished(token)
    \/ inspectHeartbeat \/ Receive \/ SampleEnds

Spec == Init /\ [][Next]_vars
-----------------------------------------------------------------------------
TypeOK ==
    /\ now \in Nat /\ heartbeat \in Nat /\ beatAt <= now
    /\ running \subseteq 1..started /\ activeRequests \subseteq 1..started
    /\ watch.heartbeat <= heartbeat /\ watch.inspectedAt <= now

\* A stall is logged once, and once more only after a gap in the inspections that came after
\* it; and the loop did not advance for as long as the log says (inspectWatchdogState: the
\* beat it counts from is seen late, never early).
StallsReal ==
    /\ \A i, j \in DOMAIN stalls : i < j /\ stalls[i].heartbeat = stalls[j].heartbeat
         => stalls[j].since > stalls[i].at + MaxGap
    /\ \A i \in DOMAIN stalls : stalls[i].at - stalls[i].since >= Threshold
    /\ stalls # <<>> /\ stalls[Len(stalls)].heartbeat = heartbeat
         => beatAt <= stalls[Len(stalls)].since

\* A loop that stands still is noticed when it has been looked at for the time of the threshold
\* without a gap, also when it stands still anew (inspectHeartbeat).
StallsNoticed ==
    looks # <<>> /\ looks[2] - looks[1] >= Threshold
        => \E i \in DOMAIN stalls : stalls[i].heartbeat = heartbeat

\* The requests the worker knows of are those of the main thread, when it has read its
\* messages; it logs nothing once its log is closed (shuttingDown).
RequestsKnown ==
    /\ ~closed /\ inbox = <<>> => activeRequests = running
    /\ ~afterwards
=============================================================================
