---------------------------- MODULE DaemonClient ----------------------------
(*************************************************************************)
(* The synchronous client of the daemon: a host thread that blocks in    *)
(* Atomics.wait (sync-bridge.js), the worker thread that does its work   *)
(* one message after another (worker.js), the socket client it uses      *)
(* (store-client.js), and as much of the daemon as decides what becomes  *)
(* of a request: outcomes are remembered per request id until the        *)
(* process ends, a closing process refuses connections and ends when its *)
(* handlers have.  Calls are numbered; the request id of a call is its   *)
(* number, with the number of repetitions after a blocking-io error.     *)
(*************************************************************************)
EXTENDS Integers, Sequences, FiniteSets

CONSTANTS
    MaxCalls,     \* bound: calls of the host, restarts included
    MaxTimeouts,  \* bound: waits of the host that run out
    MaxFaults,    \* bound: lost connections, timers, io errors and crashes
    MaxPid        \* bound: daemon processes

VARIABLES
    host,     \* the bridge: what its caller waits for, and whether it still works
    signal,   \* the shared word the host waits on
    port,     \* responses posted by the worker
    worker,   \* the worker thread: its queue and the message it works on
    link,     \* the process the client is connected to, 0 for none
    daemon,   \* the process that owns the store
    launched, \* a daemon has been spawned that has not started
    effects,  \* history: the executions, in order
    results,  \* history: the answers the callers got
    timeouts, faults

vars == <<host, signal, port, worker, link, daemon, launched, effects, results, timeouts, faults>>
-----------------------------------------------------------------------------
Idle == [pc |-> "idle", id |-> 0, kind |-> "none", attempt |-> 0, old |-> 0, reconnecting |-> FALSE]
NewWorker == [live |-> TRUE, queue |-> <<>>, task |-> Idle]
Rid == [call : 1..MaxCalls, attempt : 0..2]
Outcome == {"running", "ok", "io"}
Process(pid) == [pid |-> pid, state |-> "up", inbox |-> <<>>, outcomes |-> [r \in {} |-> "ok"]]

Init ==
    /\ host = [state |-> "ready", id |-> 0, kind |-> "none", spurious |-> FALSE]
    /\ signal = 0 /\ port = <<>> /\ worker = NewWorker
    /\ link = 1 /\ daemon = Process(1) /\ launched = FALSE
    /\ effects = <<>> /\ results = <<>> /\ timeouts = 0 /\ faults = 0

Fault == faults < MaxFaults /\ faults' = faults + 1
Task == worker.task
-----------------------------------------------------------------------------
(* The bridge.                                                           *)

\* mutant: the word is not reset before the message is posted
PrepareStale(kind) ==
    /\ host.id < MaxCalls
    /\ host' = [host EXCEPT !.state = "posting", !.id = @ + 1, !.kind = kind]
    /\ UNCHANGED signal

Prepare(kind) ==
    /\ host.id < MaxCalls
    /\ host' = [host EXCEPT !.state = "posting", !.id = @ + 1, !.kind = kind]
    /\ signal' = 0

Request ==
    /\ host.state = "ready" /\ Prepare("request")
    /\ UNCHANGED <<port, worker, link, daemon, launched, effects, results, timeouts, faults>>

\* mutant: a bridge whose worker was given up goes on with a new worker, and restarts nothing
Resume ==
    \/ /\ host.state = "ready" /\ Prepare("restart")
       /\ UNCHANGED <<port, worker>>
    \/ /\ host.state = "failed" /\ Prepare("request")
       /\ port' = <<>> /\ worker' = NewWorker

\* A bridge whose worker was given up gets a new one first.
Restart ==
    \/ /\ host.state = "ready" /\ Prepare("restart")
       /\ UNCHANGED <<port, worker>>
    \/ /\ host.state = "failed" /\ Prepare("initialize")
       /\ port' = <<>> /\ worker' = NewWorker

DoRestart ==
    /\ Restart
    /\ link' = IF host.state = "failed" THEN 0 ELSE link
    /\ UNCHANGED <<daemon, launched, effects, results, timeouts, faults>>

Post ==
    /\ host.state = "posting"
    /\ worker' = [worker EXCEPT !.queue = Append(@, [id |-> host.id, kind |-> host.kind])]
    /\ host' = [host EXCEPT !.state = "waiting"]
    /\ UNCHANGED <<signal, port, link, daemon, launched, effects, results, timeouts, faults>>

\* The wait is over: the response must be there, and be that of this call.
Receive ==
    /\ host.state = "waiting" /\ signal # 0
    /\ IF port = <<>> \/ Head(port).id # host.id
       THEN /\ host' = [host EXCEPT !.state = "failed", !.spurious = TRUE]
            /\ worker' = [worker EXCEPT !.live = FALSE]
            /\ UNCHANGED <<signal, port, results>>
       ELSE /\ port' = Tail(port)
            /\ results' = Append(results, [call |-> host.id, answer |-> Head(port)])
            /\ UNCHANGED worker
            /\ CASE host.kind = "initialize" /\ Head(port).ok /\ host.id < MaxCalls -> Prepare("restart")
                 [] host.kind = "initialize" /\ ~Head(port).ok ->
                        host' = [host EXCEPT !.state = "closed"] /\ UNCHANGED signal
                 [] OTHER -> host' = [host EXCEPT !.state = "ready"] /\ UNCHANGED signal
    /\ UNCHANGED <<link, daemon, launched, effects, timeouts, faults>>

Timeout ==
    /\ host.state = "waiting" /\ signal = 0 /\ timeouts < MaxTimeouts
    /\ timeouts' = timeouts + 1
    /\ host' = [host EXCEPT !.state = "failed"]
    /\ worker' = [worker EXCEPT !.live = FALSE]
    /\ UNCHANGED <<signal, port, link, daemon, launched, effects, results, faults>>
-----------------------------------------------------------------------------
(* The worker.                                                           *)

Working(pc) == worker.live /\ Task.pc = pc
Goto(pc) == worker' = [worker EXCEPT !.task.pc = pc]

Take ==
    /\ Working("idle") /\ worker.queue # <<>>
    /\ worker' = [worker EXCEPT !.queue = Tail(@),
                      !.task = [Idle EXCEPT !.pc = "connect", !.id = Head(worker.queue).id, !.kind = Head(worker.queue).kind]]
    /\ UNCHANGED <<host, signal, port, link, daemon, launched, effects, results, timeouts, faults>>

\* The response is posted before the word is published.
Respond(ok, value) ==
    /\ port' = Append(port, [id |-> Task.id, ok |-> ok, value |-> value])
    /\ signal' = Task.id
    /\ worker' = [worker EXCEPT !.task = Idle]

NextPc == CASE Task.kind = "request" -> "send"
            [] Task.kind = "restart" /\ Task.old = 0 -> "shutdown"
            [] OTHER -> "ready"

\* ensureClient: use the open connection, connect, or launch a daemon and try again.
Ensure ==
    /\ Working("connect") /\ Goto(NextPc)
    /\ \/ daemon.state # "down" /\ link = daemon.pid /\ UNCHANGED link
       \/ daemon.state = "up" /\ link' = daemon.pid
    /\ UNCHANGED <<host, signal, port, daemon, launched, effects, results, timeouts, faults>>

Unreachable == daemon.state = "down" \/ (daemon.state = "closing" /\ link # daemon.pid)

Launch ==
    /\ Working("connect") /\ Unreachable /\ ~launched
    /\ link' = 0 /\ launched' = TRUE
    /\ UNCHANGED <<host, signal, port, worker, daemon, effects, results, timeouts, faults>>

\* The deadline of ensureClient passes.
GiveUp ==
    /\ Working("connect") /\ Unreachable /\ Fault
    /\ link' = 0 /\ Respond(FALSE, 0)
    /\ UNCHANGED <<host, daemon, launched, effects, results, timeouts>>

Send ==
    /\ Working("send") /\ link = daemon.pid
    /\ daemon' = IF daemon.state = "up"
                 THEN [daemon EXCEPT !.inbox = Append(@, [call |-> Task.id, attempt |-> Task.attempt])]
                 ELSE daemon
    /\ Goto("sent")
    /\ UNCHANGED <<host, signal, port, link, launched, effects, results, timeouts, faults>>

\* An outcome of this request arrives.
Answer ==
    /\ Working("sent") /\ link = daemon.pid
    /\ LET rid == [call |-> Task.id, attempt |-> Task.attempt] IN
       /\ rid \in DOMAIN daemon.outcomes /\ daemon.outcomes[rid] # "running"
       /\ \/ daemon.outcomes[rid] = "ok" /\ Respond(TRUE, Task.id)
          \/ daemon.outcomes[rid] = "io" /\ Task.attempt = 2 /\ Respond(FALSE, 0)
          \/ /\ daemon.outcomes[rid] = "io" /\ Task.attempt < 2
             /\ worker' = [worker EXCEPT !.task.pc = "send", !.task.attempt = @ + 1]
             /\ UNCHANGED <<signal, port>>
    /\ UNCHANGED <<host, link, daemon, launched, effects, results, timeouts, faults>>

\* The connection is lost, or the timer of the request runs out: connect again, with the same
\* request id, or give up at the deadline.
Resend == worker' = [worker EXCEPT !.task = [@ EXCEPT !.pc = "connect", !.attempt = 0, !.reconnecting = TRUE]]

Lost ==
    /\ worker.live /\ Task.pc \in {"send", "sent"} /\ link' = 0
    /\ IF link = daemon.pid /\ daemon.state # "down" THEN Fault ELSE UNCHANGED faults
    /\ Resend
    /\ UNCHANGED <<host, signal, port, daemon, launched, effects, results, timeouts>>

Ready ==
    /\ Working("ready")
    /\ Respond(Task.kind = "initialize" \/ link # Task.old, 0)
    /\ UNCHANGED <<host, link, daemon, launched, effects, results, timeouts, faults>>

\* restartDaemon: ask the process to shut down, by request or by signal, and wait for another.
Shutdown ==
    /\ Working("shutdown")
    /\ worker' = [worker EXCEPT !.task.pc = "leaving", !.task.old = link]
    /\ daemon' = IF link = daemon.pid /\ daemon.state = "up" THEN [daemon EXCEPT !.state = "closing"] ELSE daemon
    /\ link' = 0
    /\ UNCHANGED <<host, signal, port, launched, effects, results, timeouts, faults>>

\* The connection is refused, or another process answers.  (A process asked to close listens no
\* more before it answers.)
Leaving ==
    /\ Working("leaving")
    /\ Goto("connect")
    /\ UNCHANGED <<host, signal, port, link, daemon, launched, effects, results, timeouts, faults>>
-----------------------------------------------------------------------------
(* The daemon.                                                           *)

\* A line is read; a known id is not executed again.
Read ==
    /\ daemon.state = "up" /\ daemon.inbox # <<>>
    /\ LET rid == Head(daemon.inbox) IN
       daemon' = [daemon EXCEPT !.inbox = Tail(@),
                     !.outcomes = IF rid \in DOMAIN @ THEN @
                                  ELSE [r \in DOMAIN @ \cup {rid} |-> IF r = rid THEN "running" ELSE @[r]]]
    /\ UNCHANGED <<host, signal, port, worker, link, launched, effects, results, timeouts, faults>>

Running == {r \in DOMAIN daemon.outcomes : daemon.outcomes[r] = "running"}

Execute ==
    /\ daemon.state # "down"
    /\ \E rid \in Running :
       \/ /\ daemon' = [daemon EXCEPT !.outcomes[rid] = "ok"]
          /\ effects' = Append(effects, [call |-> rid.call, pid |-> daemon.pid])
          /\ UNCHANGED faults
       \/ /\ Fault /\ UNCHANGED effects
          /\ daemon' = [daemon EXCEPT !.outcomes[rid] = "io"]
    /\ UNCHANGED <<host, signal, port, worker, link, launched, results, timeouts>>

Exit ==
    /\ daemon.state = "closing" /\ Running = {}
    /\ daemon' = [daemon EXCEPT !.state = "down", !.inbox = <<>>]
    /\ UNCHANGED <<host, signal, port, worker, link, launched, effects, results, timeouts, faults>>

Crash ==
    /\ daemon.state # "down" /\ Fault
    /\ daemon' = [daemon EXCEPT !.state = "down", !.inbox = <<>>, !.outcomes = [r \in {} |-> "ok"]]
    /\ UNCHANGED <<host, signal, port, worker, link, launched, effects, results, timeouts>>

\* A spawned process gets the lock of the store, or ends.
Start ==
    /\ launched /\ launched' = FALSE
    /\ IF daemon.state = "down" /\ daemon.pid < MaxPid THEN daemon' = Process(daemon.pid + 1) ELSE UNCHANGED daemon
    /\ UNCHANGED <<host, signal, port, worker, link, effects, results, timeouts, faults>>
-----------------------------------------------------------------------------
Host == Request \/ DoRestart \/ Post \/ Receive \/ Timeout
Worker == Take \/ Ensure \/ Launch \/ GiveUp \/ Send \/ Answer \/ Lost \/ Ready \/ Shutdown \/ Leaving
Daemon == Read \/ Execute \/ Exit \/ Crash \/ Start
Next == Host \/ Worker \/ Daemon

Spec == Init /\ [][Next]_vars
-----------------------------------------------------------------------------
\* The types of the variables.
TypeOK ==
    /\ host.state \in {"ready", "posting", "waiting", "failed", "closed"} /\ host.id \in 0..MaxCalls
    /\ host.kind \in {"none", "request", "restart", "initialize"} /\ host.spurious \in BOOLEAN
    /\ signal \in 0..MaxCalls /\ link \in 0..MaxPid /\ launched \in BOOLEAN
    /\ \A i \in DOMAIN port : port[i].id \in 1..MaxCalls /\ port[i].ok \in BOOLEAN
    /\ worker.live \in BOOLEAN /\ Task.id \in 0..MaxCalls /\ Task.attempt \in 0..2
    /\ Task.pc \in {"idle", "connect", "send", "sent", "ready", "shutdown", "leaving"}
    /\ daemon.pid \in 1..MaxPid /\ daemon.state \in {"up", "closing", "down"}
    /\ DOMAIN daemon.outcomes \subseteq Rid
    /\ \A r \in DOMAIN daemon.outcomes : daemon.outcomes[r] \in Outcome

\* Nothing but a wait that ran out makes the bridge unusable, a caller that is told of success
\* is told of its own request, and that request was executed before (call, respond).
OwnAnswer ==
    /\ ~host.spurious
    /\ \A i \in DOMAIN results :
         results[i].answer.ok /\ results[i].answer.value # 0 =>
             /\ results[i].answer.value = results[i].call
             /\ \E j \in DOMAIN effects : effects[j].call = results[i].call

\* A process executes a call once, and no call takes effect after a later one has: not even one
\* the host stopped waiting for, whose worker it gave up (request, call, restartDaemon).
EffectsInOrder ==
    \A i, j \in DOMAIN effects : i < j =>
        /\ effects[i].call <= effects[j].call
        /\ effects[i].call = effects[j].call => effects[i].pid # effects[j].pid
=============================================================================
