------------------------------ MODULE Reranker ------------------------------
(***************************************************************************)
(* The local cross-encoder reranker (semantic/reranker.js) and the client  *)
(* of its process (semantic/reranker-client.js, reranker-process.js).      *)
(*                                                                         *)
(* A rerank is a request to a forked process; it ends with scores, with a  *)
(* refusal, with a timeout, or because the client was closed under it.     *)
(* All of a settlement and of the code behind the await of score() runs    *)
(* before the next event, so one action is one event: a call, a message    *)
(* of the process, a timer, an exit.  What is not atomic is the wait for   *)
(* the exit of a killed process.  Processes are numbered; 0 is no client.  *)
(***************************************************************************)
EXTENDS Naturals, FiniteSets

CONSTANTS Request,                  \* the calls of rerank
          MaxConsecutiveTimeouts,   \* timeouts in a row that latch
          MaxProcesses              \* bound: processes forked

VARIABLES
    call,          \* [Request -> state of the call]
    installed,     \* the files of the model are in the cache
    unavailable, closed, timeouts,
    client,        \* the process of the current client, 0 when there is none
    pending,       \* requests the current client waits for
    process,       \* [1..MaxProcesses -> state]
    inbox,         \* <<process, request>>: messages a process still works on
    idleTimer,     \* the idle timer is armed
    waitsFor,      \* [Request -> process whose exit the call awaits, or 0]
    inFlightAtIdle \* history: the idle timer closed a client with a request

vars == <<call, installed, unavailable, closed, timeouts, client, pending,
          process, inbox, idleTimer, waitsFor, inFlightAtIdle>>

Process == 1 .. MaxProcesses
CallState == {"new", "scoring", "stopping", "fused", "reranked"}

Init ==
    /\ call = [r \in Request |-> "new"]
    /\ installed \in BOOLEAN
    /\ unavailable = FALSE /\ closed = FALSE /\ timeouts = 0
    /\ client = 0 /\ pending = {}
    /\ process = [p \in Process |-> "none"]
    /\ inbox = {} /\ idleTimer = FALSE
    /\ waitsFor = [r \in Request |-> 0]
    /\ inFlightAtIdle = FALSE

(***************************************************************************)
(* Closing a client: the first close kills its process and waits for the   *)
(* exit; every request it still waits for is rejected.                     *)
(***************************************************************************)
CloseProcess ==
    IF client # 0 /\ process[client] = "up"
    THEN process' = [process EXCEPT ![client] = "killed"]
    ELSE IF client # 0 /\ process[client] = "dead"
    THEN process' = [process EXCEPT ![client] = "gone"]
    ELSE UNCHANGED process

\* The call that closes a process that still runs returns at its exit; the
\* others that the close rejects return the order they were given.
Rejected(r, rs) ==
    /\ call' = [q \in Request |->
                 IF q = r /\ client # 0 /\ process[client] = "up"
                 THEN "stopping"
                 ELSE IF q \in rs \union {r} THEN "fused" ELSE call[q]]
    /\ waitsFor' = [waitsFor EXCEPT ![r] =
                     IF client # 0 /\ process[client] = "up" THEN client ELSE 0]

\* #terminateClient after a failure that latches.
Latch(r) ==
    /\ unavailable' = TRUE
    /\ idleTimer' = FALSE
    /\ CloseProcess
    /\ Rejected(r, pending)
    /\ pending' = {}

(***************************************************************************)
(* rerank: what is off, empty or not installed keeps the fused order; a    *)
(* request starts the process when there is none.                          *)
(***************************************************************************)
Skip(r) ==
    /\ call[r] = "new"
    /\ unavailable \/ closed \/ ~installed
    /\ call' = [call EXCEPT ![r] = "fused"]
    /\ UNCHANGED <<installed, unavailable, closed, timeouts, client, pending,
                   process, inbox, idleTimer, waitsFor, inFlightAtIdle>>

Free == {p \in Process : process[p] = "none"}
Ask(r) ==
    /\ call[r] = "new"
    /\ ~unavailable /\ ~closed /\ installed
    /\ \/ client # 0 /\ process[client] = "up" /\ UNCHANGED <<client, process>>
       \/ /\ client = 0 /\ Free # {}
          /\ LET p == CHOOSE q \in Free : \A o \in Free : q <= o
             IN client' = p /\ process' = [process EXCEPT ![p] = "up"]
    /\ call' = [call EXCEPT ![r] = "scoring"]
    /\ pending' = pending \union {r}
    /\ inbox' = inbox \union {<<client', r>>}
    /\ UNCHANGED <<installed, unavailable, closed, timeouts, idleTimer,
                   waitsFor, inFlightAtIdle>>

\* The channel of a process that died while idle: send reports an error.
AskDead(r) ==
    /\ call[r] = "new"
    /\ ~unavailable /\ ~closed /\ installed
    /\ client # 0 /\ process[client] = "dead"
    /\ Latch(r)
    /\ UNCHANGED <<installed, closed, timeouts, client, inbox, inFlightAtIdle>>

(***************************************************************************)
(* What the process answers: scores, too few of them, or a refusal.  An    *)
(* answer whose request timed out or was rejected is dropped.              *)
(***************************************************************************)
Due(r) == r \in pending /\ <<client, r>> \in inbox
Answer(r) ==
    /\ Due(r)
    /\ process[client] = "up"
    /\ inbox' = inbox \ {<<client, r>>}
    /\ pending' = pending \ {r}
    /\ call' = [call EXCEPT ![r] = "reranked"]
    /\ timeouts' = 0
    /\ idleTimer' = TRUE
    /\ UNCHANGED <<installed, unavailable, closed, client, process, waitsFor,
                   inFlightAtIdle>>

Mismatch(r) ==
    /\ Due(r) /\ process[client] = "up"
    /\ inbox' = inbox \ {<<client, r>>}
    /\ timeouts' = 0
    /\ Latch(r)
    /\ UNCHANGED <<installed, closed, client, inFlightAtIdle>>

Refuse(r) ==
    /\ Due(r) /\ process[client] = "up"
    /\ inbox' = inbox \ {<<client, r>>}
    /\ Latch(r)
    /\ UNCHANGED <<installed, closed, timeouts, client, inFlightAtIdle>>

LateAnswer(p, r) ==
    /\ <<p, r>> \in inbox
    /\ p # client \/ r \notin pending
    /\ process[p] \in {"up", "killed"}
    /\ inbox' = inbox \ {<<p, r>>}
    /\ UNCHANGED <<call, installed, unavailable, closed, timeouts, client,
                   pending, process, idleTimer, waitsFor, inFlightAtIdle>>

(***************************************************************************)
(* Timers.  A timeout counts; so many in a row latch.  The idle timer was  *)
(* armed by the last success and does not look at what is pending.         *)
(***************************************************************************)
Timeout(r) ==
    /\ r \in pending
    /\ timeouts + 1 < MaxConsecutiveTimeouts
    /\ timeouts' = timeouts + 1
    /\ pending' = pending \ {r}
    /\ call' = [call EXCEPT ![r] = "fused"]
    /\ UNCHANGED <<installed, unavailable, closed, client, process, inbox,
                   idleTimer, waitsFor, inFlightAtIdle>>

TimeoutLatches(r) ==
    /\ r \in pending
    /\ timeouts + 1 >= MaxConsecutiveTimeouts
    /\ timeouts' = timeouts + 1
    /\ Latch(r)
    /\ UNCHANGED <<installed, closed, client, inbox, inFlightAtIdle>>

\* A rejection by the close of the idle timer is no timeout: it latches.  The
\* client was cleared first, so nothing is left to terminate.
IdleClose ==
    /\ idleTimer
    /\ idleTimer' = FALSE
    /\ IF client = 0 \/ closed \/ unavailable
       THEN UNCHANGED <<call, unavailable, client, pending, process,
                        inFlightAtIdle>>
       ELSE /\ client' = 0
            /\ CloseProcess
            /\ unavailable' = (pending # {})
            /\ inFlightAtIdle' = (pending # {})
            /\ call' = [r \in Request |->
                         IF r \in pending THEN "fused" ELSE call[r]]
            /\ pending' = {}
    /\ UNCHANGED <<installed, closed, timeouts, inbox, waitsFor>>

(***************************************************************************)
(* Processes end.  The exit of a process nobody closed rejects what is     *)
(* pending, and the first rejection latches.                               *)
(***************************************************************************)
Crash ==
    /\ client # 0 /\ process[client] = "up"
    /\ process' = [process EXCEPT ![client] = IF pending = {} THEN "dead" ELSE "gone"]
    /\ inbox' = {m \in inbox : m[1] # client}
    /\ unavailable' = (unavailable \/ pending # {})
    /\ idleTimer' = (idleTimer /\ pending = {})
    /\ call' = [r \in Request |-> IF r \in pending THEN "fused" ELSE call[r]]
    /\ pending' = {}
    /\ UNCHANGED <<installed, closed, timeouts, client, waitsFor, inFlightAtIdle>>

Exit(p) ==
    /\ process[p] = "killed"
    /\ process' = [process EXCEPT ![p] = "gone"]
    /\ inbox' = {m \in inbox : m[1] # p}
    /\ call' = [r \in Request |-> IF waitsFor[r] = p THEN "fused" ELSE call[r]]
    /\ waitsFor' = [r \in Request |-> IF waitsFor[r] = p THEN 0 ELSE waitsFor[r]]
    /\ UNCHANGED <<installed, unavailable, closed, timeouts, client, pending,
                   idleTimer, inFlightAtIdle>>

\* close of the reranker, by the daemon that stops; install puts the model there.
\* The calls the close rejects find a client already terminated.
Close ==
    /\ ~closed
    /\ closed' = TRUE
    /\ idleTimer' = FALSE
    /\ CloseProcess
    /\ unavailable' = (unavailable \/ pending # {})
    /\ call' = [r \in Request |-> IF r \in pending THEN "fused" ELSE call[r]]
    /\ pending' = {}
    /\ UNCHANGED <<installed, timeouts, client, inbox, waitsFor, inFlightAtIdle>>

Install ==
    /\ ~installed
    /\ installed' = TRUE
    /\ UNCHANGED <<call, unavailable, closed, timeouts, client, pending, process,
                   inbox, idleTimer, waitsFor, inFlightAtIdle>>

Next ==
    \/ \E r \in Request : \/ Skip(r) \/ Ask(r) \/ AskDead(r) \/ Answer(r)
                          \/ Mismatch(r) \/ Refuse(r) \/ Timeout(r)
                          \/ TimeoutLatches(r)
    \/ \E p \in Process, r \in Request : LateAnswer(p, r)
    \/ IdleClose \/ Crash \/ Close \/ Install
    \/ \E p \in Process : Exit(p)

\* Calls are made, timers fire and a killed process exits.
Fairness ==
    /\ \A r \in Request : WF_vars(Skip(r) \/ Ask(r) \/ AskDead(r))
    /\ \A r \in Request : WF_vars(Timeout(r) \/ TimeoutLatches(r))
    /\ \A p \in Process : WF_vars(Exit(p))
    /\ WF_vars(IdleClose)

Spec == Init /\ [][Next]_vars /\ Fairness

-----------------------------------------------------------------------------
\* The shape of the state, and what each part of it implies.
RerankerTypeOK ==
    /\ call \in [Request -> CallState]
    /\ timeouts \in 0 .. MaxConsecutiveTimeouts
    /\ client \in 0 .. MaxProcesses
    /\ pending = {r \in Request : call[r] = "scoring"}
    /\ waitsFor \in [Request -> 0 .. MaxProcesses]
    /\ process \in [Process -> {"none", "up", "dead", "killed", "gone"}]

\* No forked process is left behind: one that still runs is the one of the
\* current client, and a reranker that is latched or closed has none.
NoProcessLeft ==
    /\ \A p \in Process : process[p] \in {"up", "dead"} => p = client
    /\ unavailable \/ closed =>
         \A p \in Process : process[p] \notin {"up", "dead"}

\* A call that waits for scores waits for the process that is asked, or for a
\* timeout; none hangs on a client that was dropped, and nobody waits for the
\* exit of a process that nobody killed.
NobodyHangs ==
    /\ pending # {} => client # 0 /\ process[client] = "up"
    /\ \A r \in Request :
         (call[r] = "stopping") = (waitsFor[r] # 0 /\ process[waitsFor[r]] = "killed")

RerankerSound == NoProcessLeft /\ NobodyHangs

\* Every call returns: with the reranked order or the one it was given.
Reranks == \A r \in Request :
    call[r] \in {"scoring", "stopping"} ~> call[r] \in {"fused", "reranked"}

\* Reranking stops for good only for a failure of the model: a crash, a
\* refusal, malformed scores, or so many timeouts in a row; never because the
\* idle process was let go.
LatchedForCause == ~inFlightAtIdle
=============================================================================
