---------------------------- MODULE DaemonServer ----------------------------
(***************************************************************************)
(* The socket server of the daemon (src/daemon/server.js): connections,    *)
(* one request line at a time on each, the table of request outcomes that  *)
(* makes a repeated request id idempotent, the budget for responses in     *)
(* memory, idle shutdown and the ordered close.                            *)
(*                                                                         *)
(* A line is a request id with a content.  Sizes are in units: a response  *)
(* reserves FullFrame units before its handler is called and keeps what it *)
(* needs, 1 or FullFrame, once it is encoded.  Handlers are module         *)
(* Admission and its kind; here a handler runs and ends.                   *)
(***************************************************************************)
EXTENDS Naturals, Sequences, FiniteSets, SequencesExt

CONSTANTS
    Conn,              \* 1..n, sockets in the order in which they connect
    Line,              \* request lines, [id, content]
    MaxConnections,
    MaxQueued,         \* lines queued behind the one in progress
    MaxReplayOutcomes,
    MaxActiveRequests,
    FullFrame,         \* units of the largest response
    OutputBudget,      \* units for all responses
    MaxLines           \* bound: lines received

VARIABLES
    phase,             \* "up", "draining", "ending", "closed"
    conn,              \* [Conn -> state of the socket]
    queue,             \* [Conn -> lines waiting]
    paused,            \* sockets paused because of their queue
    active,            \* [Conn -> the line in progress: step and line]
    outcomes,          \* request outcomes, oldest first
    running,           \* [Line -> handlers called that have not ended]
    activeRequests,
    reserved,          \* [Conn -> units its response holds]
    unflushed,         \* [Conn -> units written and not yet taken by the peer]
    waiters,           \* sockets waiting for a reservation
    idleTimer,
    overdue,           \* shutdownSocketDrainMs is over
    storeOpen,
    received

input == <<queue, paused, received>>
output == <<reserved, unflushed, waiters>>
table == <<outcomes, running, activeRequests>>
vars == <<phase, conn, input, active, table, output, idleTimer, overdue, storeOpen>>

NoRequest == [id |-> "none", content |-> "none"]

\* of: the line whose outcome is the answer.
NoLine == [step |-> "none", line |-> NoRequest, answer |-> "none", of |-> NoRequest]

Init ==
    /\ phase = "up"
    /\ conn = [c \in Conn |-> "new"]
    /\ queue = [c \in Conn |-> <<>>]
    /\ paused = {}
    /\ active = [c \in Conn |-> NoLine]
    /\ outcomes = <<>>
    /\ running = [line \in Line |-> 0]
    /\ activeRequests = 0
    /\ reserved = [c \in Conn |-> 0]
    /\ unflushed = [c \in Conn |-> 0]
    /\ waiters = <<>>
    /\ idleTimer = TRUE
    /\ overdue = FALSE
    /\ storeOpen = TRUE
    /\ received = 0
-----------------------------------------------------------------------------
Open(c) == conn[c] \in {"shake", "ready", "ending", "ended"}
Connections == {c \in Conn : Open(c)}
Rejecting == {c \in Conn : conn[c] = "rejecting"}
Inflight == {c \in Conn : active[c].step # "none"}

Idle ==
    /\ phase = "up"
    /\ Connections = {} /\ Rejecting = {} /\ Inflight = {}
    /\ activeRequests = 0

\* scheduleIdleShutdown, called when a socket closes and when tracked work settles.
ScheduleIdle == idleTimer' = (idleTimer \/ Idle')

-----------------------------------------------------------------------------
(***************************************************************************)
(* The sockets' buffers, as a record: what an operation of this section    *)
(* makes of them is applied by Apply.                                      *)
(***************************************************************************)
Buffers == [queue |-> queue, paused |-> paused, active |-> active, reserved |-> reserved,
            unflushed |-> unflushed, waiters |-> waiters]

Apply(b) ==
    /\ queue' = b.queue
    /\ paused' = b.paused
    /\ active' = b.active
    /\ reserved' = b.reserved
    /\ unflushed' = b.unflushed
    /\ waiters' = b.waiters

Sum(f) == FoldFunction(+, 0, f)

\* tryReserveOutputBytes: one frame is the limit of the connection.
Fits(b, c) ==
    /\ b.reserved[c] + b.unflushed[c] = 0
    /\ Sum(b.reserved) + Sum(b.unflushed) + FullFrame <= OutputBudget

Granted(b, c) ==
    [b EXCEPT !.reserved[c] = FullFrame,
              !.active[c].step = IF b.active[c].answer = "farewell" THEN "respond" ELSE "execute"]

\* acquireOutputReservation
Acquire(b, c) ==
    IF Fits(b, c) THEN Granted(b, c)
                  ELSE [b EXCEPT !.waiters = Append(@, c), !.active[c].step = "wait"]

\* wakeOutputWaiters: in order, and nobody waits behind one that does not fit.
Woken(b) ==
    LET Wake(acc, c) == IF Fits(acc, c) THEN Granted(acc, c)
                                        ELSE [acc EXCEPT !.waiters = Append(@, c)]
    IN  FoldLeft(Wake, [b EXCEPT !.waiters = <<>>], b.waiters)

WithLine(b, c, line, answer) ==
    Acquire([b EXCEPT !.active[c] = [step |-> "wait", line |-> line, answer |-> answer,
                                     of |-> NoRequest]], c)

\* startNextLine, or the farewell of terminateConnection once the line in progress is done.
Started(b, c) ==
    CASE conn[c] = "ready" /\ phase = "up" /\ b.queue[c] # <<>> ->
           WithLine([b EXCEPT !.queue[c] = Tail(@)], c, Head(b.queue[c]), "none")
      [] conn[c] = "ending" -> WithLine(b, c, NoRequest, "farewell")
      [] OTHER -> b

PauseAt == IF MaxQueued > 1 THEN MaxQueued \div 2 ELSE 1
ResumeAt == PauseAt \div 2

Resumed(b, c) ==
    IF conn[c] = "ready" /\ phase = "up" /\ Len(b.queue[c]) <= ResumeAt
      THEN [b EXCEPT !.paused = @ \ {c}] ELSE b

\* The line in progress is done.
Completed(b, c) == Started(Resumed([b EXCEPT !.active[c] = NoLine], c), c)

\* discardBufferedInput
Discarded(b, c) == [b EXCEPT !.queue[c] = <<>>]
-----------------------------------------------------------------------------
(***************************************************************************)
(* Connections and their lines.                                            *)
(***************************************************************************)
Connect(c) ==
    /\ phase = "up"
    /\ conn[c] = "new" /\ \A d \in 1..(c - 1) : conn[d] # "new"
    /\ idleTimer' = FALSE
    /\ conn' = [conn EXCEPT ![c] =
                  IF Cardinality(Connections) < MaxConnections THEN "shake"
                  ELSE IF Cardinality(Rejecting) < MaxConnections THEN "rejecting" ELSE "gone"]
    /\ UNCHANGED <<phase, input, active, table, output, overdue, storeOpen>>

\* The refusal of a connection too many is sent, or times out.
Reject(c) ==
    /\ conn[c] = "rejecting"
    /\ conn' = [conn EXCEPT ![c] = "gone"]
    /\ UNCHANGED <<phase, input, active, table, output, overdue, storeOpen>>
    /\ ScheduleIdle

Handshake(c) ==
    /\ phase = "up"
    /\ conn[c] = "shake"
    /\ conn' = [conn EXCEPT ![c] = "ready"]
    /\ UNCHANGED <<phase, input, active, table, output, idleTimer, overdue, storeOpen>>

\* terminateConnection: what is queued is dropped, the line in progress is not.
Terminate(c) ==
    /\ conn' = [conn EXCEPT ![c] = "ending"]
    /\ Apply(IF active[c].step = "none"
               THEN WithLine(Discarded(Buffers, c), c, NoRequest, "farewell")
               ELSE Discarded(Buffers, c))

\* The handshake is refused, or comes too late.
HandshakeFails(c) ==
    /\ conn[c] = "shake"
    /\ Terminate(c)
    /\ UNCHANGED <<phase, received, table, idleTimer, overdue, storeOpen>>

Behind(c) == IF active[c].step = "none" THEN Len(queue[c]) ELSE Len(queue[c]) + 1

\* A line arrives.  Too many behind the one in progress end the connection.
Receive(c, line) ==
    LET arrived == [Buffers EXCEPT !.queue[c] = Append(@, line)]
        started == IF active[c].step = "none" THEN Started(arrived, c) ELSE arrived
    IN  /\ phase = "up"
        /\ conn[c] = "ready"
        /\ c \notin paused
        /\ received < MaxLines
        /\ received' = received + 1
        /\ IF Behind(c) > MaxQueued
             THEN Terminate(c)
             ELSE /\ Apply([started EXCEPT !.paused = IF Len(started.queue[c]) >= PauseAt
                                                        THEN @ \union {c} ELSE @])
                  /\ UNCHANGED conn
        /\ UNCHANGED <<phase, table, idleTimer, overdue, storeOpen>>

\* releaseSocketOutput: a reservation still in the hands of a handler is kept.
Closed(b, c) ==
    LET dropped == b.active[c].step \in {"wait", "flush"} \/ b.active[c].answer = "farewell"
    IN  [b EXCEPT !.queue[c] = <<>>,
                  !.unflushed[c] = 0,
                  !.waiters = SelectSeq(@, LAMBDA w : w # c),
                  !.paused = @ \ {c},
                  !.reserved[c] = IF dropped THEN 0 ELSE @,
                  !.active[c] = IF dropped THEN NoLine ELSE @]

\* The peer closes, or its socket fails.
PeerCloses(c) ==
    /\ Open(c)
    /\ conn' = [conn EXCEPT ![c] = "gone"]
    /\ Apply(Woken(Closed(Buffers, c)))
    /\ UNCHANGED <<phase, received, table, overdue, storeOpen>>
    /\ ScheduleIdle
-----------------------------------------------------------------------------
(***************************************************************************)
(* Requests.                                                               *)
(***************************************************************************)
Entry(line) == [line |-> line, settled |-> FALSE]
Known(id) == {i \in DOMAIN outcomes : outcomes[i].line.id = id}

TrimmedAny(entries, target) ==  \* mutant: also drops what is in progress
    IF Len(entries) <= target THEN entries ELSE SubSeq(entries, Len(entries) - target + 1, Len(entries))

\* trimRequestOutcomes: the oldest settled entries go.
Trimmed(entries, target) ==
    LET excess  == IF Len(entries) > target THEN Len(entries) - target ELSE 0
        settled == SelectSeq([i \in DOMAIN entries |-> i], LAMBDA i : entries[i].settled)
        victims == {settled[j] : j \in 1..(IF excess < Len(settled) THEN excess ELSE Len(settled))}
    IN  [j \in 1..(Len(entries) - Cardinality(victims)) |->
           entries[CHOOSE i \in DOMAIN entries \ victims :
                     Cardinality({k \in DOMAIN entries \ victims : k <= i}) = j]]

Respond(c, answer) == active' = [active EXCEPT ![c].step = "respond", ![c].answer = answer]

\* The outcome of an entry, now or when it settles.
Await(c, entry) ==
    active' = [active EXCEPT ![c].step = IF entry.settled THEN "respond" ELSE "join",
                             ![c].answer = "outcome",
                             ![c].of = entry.line]

\* executeRequest, for an id in the table.
Replay(c) ==
    \E i \in Known(active[c].line.id) :
        /\ IF outcomes[i].line # active[c].line
             THEN Respond(c, "conflict")
             ELSE Await(c, outcomes[i])
        /\ UNCHANGED table

\* executeRequest, for a new id: the handler is called unless a limit is reached.
Dispatch(c) ==
    LET line    == active[c].line
        trimmed == Trimmed(outcomes, MaxReplayOutcomes - 1)
    IN  /\ Known(line.id) = {}
        /\ IF Len(trimmed) >= MaxReplayOutcomes \/ activeRequests >= MaxActiveRequests
             THEN /\ Respond(c, "busy")
                  /\ outcomes' = trimmed
                  /\ UNCHANGED <<running, activeRequests>>
             ELSE /\ Await(c, Entry(line))
                  /\ outcomes' = Append(trimmed, Entry(line))
                  /\ running' = [running EXCEPT ![line] = @ + 1]
                  /\ activeRequests' = activeRequests + 1

Execute(c) ==
    /\ active[c].step = "execute"
    /\ Replay(c) \/ Dispatch(c)
    /\ UNCHANGED <<phase, conn, input, output, idleTimer, overdue, storeOpen>>

\* The handler ends.  Its outcome is settled, and may make older ones too many bytes.
HandlerEnds(line) ==
    LET settled == [i \in DOMAIN outcomes |->
                      IF outcomes[i].line = line /\ ~outcomes[i].settled
                        THEN [outcomes[i] EXCEPT !.settled = TRUE]
                        ELSE outcomes[i]]
    IN  /\ running[line] > 0
        /\ running' = [running EXCEPT ![line] = @ - 1]
        /\ activeRequests' = activeRequests - 1
        /\ \E target \in {0, MaxReplayOutcomes} : outcomes' = Trimmed(settled, target)
        /\ active' = [c \in Conn |->
                        IF active[c].step = "join" /\ active[c].of = line
                          THEN [active[c] EXCEPT !.step = "respond"]
                          ELSE active[c]]
        /\ UNCHANGED <<phase, conn, input, output, idleTimer, overdue, storeOpen>>

\* writeFrame: the encoded response keeps what it needs of the reservation, until the
\* peer has taken it; a full socket buffer also holds up the connection.
Write(c) ==
    /\ active[c].step = "respond"
    /\ IF Open(c)
         THEN \E size \in {1, FullFrame}, full \in BOOLEAN :
                LET sent == [Buffers EXCEPT !.reserved[c] = 0, !.unflushed[c] = size]
                IN  IF active[c].answer = "farewell"
                      THEN /\ conn' = [conn EXCEPT ![c] = "ended"]
                           /\ Apply([Woken(sent) EXCEPT !.active[c] = NoLine])
                      ELSE /\ UNCHANGED conn
                           /\ Apply(IF full THEN [Woken(sent) EXCEPT !.active[c].step = "flush"]
                                            ELSE Completed(Woken(sent), c))
         ELSE /\ Apply([Woken([Buffers EXCEPT !.reserved[c] = 0]) EXCEPT !.active[c] = NoLine])
              /\ UNCHANGED conn
    /\ UNCHANGED <<phase, received, table, overdue, storeOpen>>
    /\ ScheduleIdle

\* The peer takes what was written.
Flush(c) ==
    LET taken == Woken([Buffers EXCEPT !.unflushed[c] = 0])
    IN  /\ Open(c)
        /\ unflushed[c] > 0
        /\ Apply(IF active[c].step = "flush" THEN Completed(taken, c) ELSE taken)
        /\ UNCHANGED <<phase, conn, received, table, idleTimer, overdue, storeOpen>>
-----------------------------------------------------------------------------
(***************************************************************************)
(* The end.                                                                *)
(***************************************************************************)
\* close(), by a signal or a shutdown request.
BeginClose ==
    /\ phase = "up"
    /\ phase' = "draining"
    /\ idleTimer' = FALSE
    /\ conn' = [c \in Conn |-> IF conn[c] = "rejecting" THEN "gone" ELSE conn[c]]
    /\ UNCHANGED <<input, active, table, output, overdue, storeOpen>>

Close == BeginClose

IdleShutdown ==
    /\ idleTimer
    /\ IF Idle THEN BeginClose
               ELSE idleTimer' = FALSE /\ UNCHANGED <<phase, conn, input, active, table, output,
                                                      overdue, storeOpen>>

\* Everything in flight has settled: the sockets are ended.
Drained ==
    /\ phase = "draining"
    /\ Inflight = {}
    /\ phase' = "ending"
    /\ UNCHANGED <<conn, input, active, table, output, idleTimer, overdue, storeOpen>>

\* forceSocketDrain destroys the sockets that are left.
DrainDeadline ==
    /\ phase \in {"draining", "ending"}
    /\ ~overdue
    /\ overdue' = TRUE
    /\ conn' = [c \in Conn |-> IF Open(c) THEN "gone" ELSE conn[c]]
    /\ Apply(Woken(FoldSet(LAMBDA c, b : Closed(b, c), Buffers, Connections)))
    /\ UNCHANGED <<phase, received, table, idleTimer, storeOpen>>

\* releaseResources: the runtime, then the store, then the lock.
Release ==
    /\ phase = "ending"
    /\ Connections = {}
    /\ phase' = "closed"
    /\ storeOpen' = FALSE
    /\ UNCHANGED <<conn, input, active, table, output, idleTimer, overdue>>

Server(c) == Execute(c) \/ Write(c) \/ Reject(c)
Handler == \E line \in Line : HandlerEnds(line)
Ending == Drained \/ DrainDeadline \/ Release

Next ==
    \/ \E c \in Conn :
         \/ Connect(c) \/ Handshake(c) \/ HandshakeFails(c) \/ PeerCloses(c) \/ Flush(c)
         \/ \E line \in Line : Receive(c, line)
         \/ Server(c)
    \/ Handler
    \/ Close \/ IdleShutdown \/ Ending

Spec == Init /\ [][Next]_vars

\* The server goes on, every handler ends, and while the server is up its peers read what
\* they are sent.
Fairness ==
    /\ \A c \in Conn : WF_vars(Server(c))
    /\ \A line \in Line : WF_vars(HandlerEnds(line))
    /\ \A c \in Conn : WF_vars(phase = "up" /\ Flush(c))
    /\ WF_vars(Ending) /\ WF_vars(IdleShutdown)

FairSpec == Spec /\ Fairness

-----------------------------------------------------------------------------
TypeOK ==
    /\ phase \in {"up", "draining", "ending", "closed"}
    /\ conn \in [Conn -> {"new", "shake", "ready", "ending", "ended", "rejecting", "gone"}]
    /\ \A c \in Conn : queue[c] \in Seq(Line) /\ Len(queue[c]) <= MaxQueued + 1
    /\ paused \subseteq Conn
    /\ \A c \in Conn : active[c].step \in {"none", "wait", "execute", "join", "respond", "flush"}
    /\ Len(outcomes) <= MaxReplayOutcomes
    /\ running \in [Line -> Nat]
    /\ activeRequests \in 0..MaxActiveRequests
    /\ reserved \in [Conn -> {0, FullFrame}]
    /\ unflushed \in [Conn -> {0, 1, FullFrame}]
    /\ \A c \in Conn : c \in Range(waiters) <=> active[c].step = "wait"
    /\ idleTimer \in BOOLEAN /\ overdue \in BOOLEAN /\ storeOpen \in BOOLEAN

\* An id is executed by one handler at a time, however often it is sent again, over
\* whatever connections, and whatever was trimmed from the table meanwhile.
OneExecution ==
    /\ \A l, m \in Line : l.id = m.id /\ running[l] > 0 /\ running[m] > 0 => l = m
    /\ \A l \in Line : running[l] <= 1
    /\ activeRequests = Sum(running)

\* A request is answered with the outcome of its own content.
AnswersMatch ==
    \A c \in Conn : active[c].answer = "outcome" => active[c].of = active[c].line

\* The responses in memory stay within the budget, those of closed sockets included, and
\* nobody waits for a reservation that would fit: no release forgets to wake.
OutputAccounted ==
    /\ Sum(reserved) + Sum(unflushed) <= OutputBudget
    /\ \A c \in Range(waiters) : ~Fits(Buffers, c)
    /\ \A c \in Conn : reserved[c] > 0 => active[c].step \in {"execute", "join", "respond"}

\* A socket paused because of its queue will be resumed: there is a line in progress.
PausedProgresses == \A c \in paused : conn[c] = "ready" /\ phase = "up" => active[c].step # "none"

\* The store is open as long as a handler works on it.
StoreOpenInUse == Sum(running) > 0 => storeOpen

\* The timer of an idle daemon is armed, whatever was the last thing to end.
IdleArmed == Idle => idleTimer

\* close() comes to its end although peers neither read nor close.
CloseCompletes == phase = "draining" ~> phase = "closed"

\* A line is answered, unless its peer goes or the server closes.
Answered == \A c \in Conn :
    active[c].step # "none" ~> active[c].step = "none" \/ active[c].answer # "none" \/ phase # "up"
=============================================================================
