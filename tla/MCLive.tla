------------------------------- MODULE MCLive --------------------------------
(***************************************************************************)
(* What must happen in the end, in the parts that promise it, each checked *)
(* on its own in one run: retention, the scheduling of the index pass, the  *)
(* server and the model processes.  A fair action is one of the part that  *)
(* runs.  Retention is the part whose module is extended.                  *)
(***************************************************************************)
EXTENDS Retention

CONSTANTS w1, k1, k2, a, b, s, c1, r1, x, y, m1, m2

VARIABLES
    part,
    S_tail, S_cursor, S_leased, S_request, S_drain, S_pass, S_immediate, S_timer, S_phase,
    S_faults, S_refused, S_missed,
    D_phase, D_conn, D_queue, D_paused, D_active, D_outcomes, D_running, D_activeRequests,
    D_reserved, D_unflushed, D_waiters, D_idleTimer, D_overdue, D_storeOpen, D_received,
    K_call, K_installed, K_unavailable, K_closed, K_timeouts, K_client, K_pending,
    K_process, K_inbox, K_idleTimer, K_waitsFor, K_inFlightAtIdle,
    M_embed, M_thread, M_channel, M_foreground, M_background, M_running, M_results,
    M_overtaken

\* b replaces a; both own the chunk k1, a also the source message k2.
Versions == [d \in {a, b} |->
    IF d = a THEN [session |-> s, payloads |-> {k1, k2}, prior |-> None, expiresAt |-> 1,
                   ephemeral |-> FALSE]
             ELSE [session |-> s, payloads |-> {k1}, prior |-> a, expiresAt |-> 1,
                   ephemeral |-> TRUE]]
Lines == {[id |-> k1, content |-> x], [id |-> k1, content |-> y]}

LivePhaseOf == [p \in {k1, k2} |-> IF p = k1 THEN "chunks" ELSE "source-messages"]
retentionVars == vars

S == INSTANCE IndexScheduler WITH
    Request <- {r1}, ForegroundWaves <- 1, MaxBacklog <- 1, MaxFaults <- 1, tail <- S_tail,
    cursor <- S_cursor, leased <- S_leased, request <- S_request, drain <- S_drain,
    pass <- S_pass, immediate <- S_immediate, timer <- S_timer, phase <- S_phase,
    faults <- S_faults, refused <- S_refused, missed <- S_missed
schedulerVars ==
    <<S_tail, S_cursor, S_leased, S_request, S_drain, S_pass, S_immediate, S_timer,
      S_phase, S_faults, S_refused, S_missed>>

D == INSTANCE DaemonServer WITH
    Conn <- 1..2, Line <- Lines, MaxConnections <- 2, MaxQueued <- 1,
    MaxReplayOutcomes <- 1, MaxActiveRequests <- 2, FullFrame <- 2, OutputBudget <- 3,
    MaxLines <- 2, phase <- D_phase, conn <- D_conn, queue <- D_queue, paused <- D_paused,
    active <- D_active, outcomes <- D_outcomes, running <- D_running,
    activeRequests <- D_activeRequests, reserved <- D_reserved, unflushed <- D_unflushed,
    waiters <- D_waiters, idleTimer <- D_idleTimer, overdue <- D_overdue,
    storeOpen <- D_storeOpen, received <- D_received
serverVars ==
    <<D_phase, D_conn, D_queue, D_paused, D_active, D_outcomes, D_running,
      D_activeRequests, D_reserved, D_unflushed, D_waiters, D_idleTimer, D_overdue,
      D_storeOpen, D_received>>

K == INSTANCE Reranker WITH
    Request <- {m1, m2}, MaxConsecutiveTimeouts <- 2, MaxProcesses <- 2, call <- K_call,
    installed <- K_installed, unavailable <- K_unavailable, closed <- K_closed,
    timeouts <- K_timeouts, client <- K_client, pending <- K_pending, process <- K_process,
    inbox <- K_inbox, idleTimer <- K_idleTimer, waitsFor <- K_waitsFor,
    inFlightAtIdle <- K_inFlightAtIdle
rerankerVars ==
    <<K_call, K_installed, K_unavailable, K_closed, K_timeouts, K_client, K_pending,
      K_process, K_inbox, K_idleTimer, K_waitsFor, K_inFlightAtIdle>>

M == INSTANCE Embedder WITH
    Query <- {m1}, Batch <- {m2}, embed <- M_embed, thread <- M_thread,
    channel <- M_channel, foreground <- M_foreground, background <- M_background,
    running <- M_running, results <- M_results, overtaken <- M_overtaken
embedderVars ==
    <<M_embed, M_thread, M_channel, M_foreground, M_background, M_running, M_results,
      M_overtaken>>

\* Where a part waits that is not the one to be checked (retention has one initial state).
schedulerParked == S_tail = 0 /\ S!Init
serverParked == D!Init
rerankerParked == K_installed = TRUE /\ K!Init
embedderParked == M!Init

LiveInit ==
    /\ part \in {"retention", "scheduler", "server", "reranker", "embedder"}
    /\ Init
    /\ IF part = "scheduler" THEN S!Init ELSE schedulerParked
    /\ IF part = "server" THEN D!Init ELSE serverParked
    /\ IF part = "reranker" THEN K!Init ELSE rerankerParked
    /\ IF part = "embedder" THEN M!Init ELSE embedderParked

retentionNext == part = "retention" /\ Next
    /\ UNCHANGED <<part, schedulerVars, serverVars, rerankerVars, embedderVars>>
schedulerNext == part = "scheduler" /\ S!Next
    /\ UNCHANGED <<part, retentionVars, serverVars, rerankerVars, embedderVars>>
serverNext == part = "server" /\ D!Next
    /\ UNCHANGED <<part, retentionVars, schedulerVars, rerankerVars, embedderVars>>
rerankerNext == part = "reranker" /\ K!Next
    /\ UNCHANGED <<part, retentionVars, schedulerVars, serverVars, embedderVars>>
embedderNext == part = "embedder" /\ M!Next
    /\ UNCHANGED <<part, retentionVars, schedulerVars, serverVars, rerankerVars>>

LiveNext ==
    \/ retentionNext \/ schedulerNext \/ serverNext
    \/ rerankerNext \/ embedderNext

liveVars == <<part, retentionVars, schedulerVars, serverVars, rerankerVars,
            embedderVars>>

LiveSpec == LiveInit /\ [][LiveNext]_liveVars

\* The fairness of each part, as its module states it, while it is the part that runs.
In(one) == part = one

Client1 == Lose(c1) \/ CommitAdmit(c1) \/ CommitPin(c1) \/ CommitLease(c1) \/ CommitRenew(c1)
RetentionFairness ==
    /\ WF_retentionVars(In("retention") /\ Client1)
    /\ WF_retentionVars(In("retention") /\ WaveStep(w1))
    /\ \A d \in {a, b} :
         /\ SF_retentionVars(In("retention") /\ Pick(w1, "due") /\ task'[w1].doc = d)
         /\ WF_retentionVars(In("retention") /\ IndexDelete(d))
         /\ WF_retentionVars(In("retention") /\ ReclaimMetadata(d))
    /\ WF_retentionVars(In("retention") /\ Tick)
SchedulerFairness ==
    /\ WF_schedulerVars(In("scheduler") /\ S!GoOn(r1))
    /\ WF_schedulerVars(In("scheduler") /\ S!Worker)
    /\ WF_schedulerVars(In("scheduler") /\ S!FireImmediate)
    /\ WF_schedulerVars(In("scheduler") /\ S!FireTimer)
    /\ WF_schedulerVars(In("scheduler") /\ S!LeaseExpires)
    /\ WF_schedulerVars(In("scheduler") /\ S!Boot)
    /\ WF_schedulerVars(In("scheduler") /\ S!Ready)
    /\ WF_schedulerVars(In("scheduler") /\ S!Closed)
ServerFairness ==
    /\ \A c \in 1..2 : /\ WF_serverVars(In("server") /\ D!Server(c))
                      /\ WF_serverVars(In("server") /\ D_phase = "up" /\ D!Flush(c))
    /\ \A line \in Lines : WF_serverVars(In("server") /\ D!HandlerEnds(line))
    /\ WF_serverVars(In("server") /\ D!Ending)
    /\ WF_serverVars(In("server") /\ D!IdleShutdown)
RerankerFairness ==
    /\ \A r \in {m1, m2} :
         /\ WF_rerankerVars(In("reranker") /\ (K!Skip(r) \/ K!Ask(r) \/ K!AskDead(r)))
         /\ WF_rerankerVars(In("reranker") /\ (K!Timeout(r) \/ K!TimeoutLatches(r)))
    /\ \A p \in 1..2 : WF_rerankerVars(In("reranker") /\ K!Exit(p))
    /\ WF_rerankerVars(In("reranker") /\ K!IdleClose)
EmbedderFairness ==
    /\ \A r \in {m1, m2} : WF_embedderVars(In("embedder") /\ M!Timeout(r))
    /\ WF_embedderVars(In("embedder") /\ M!Receive)

LiveFairness ==
    /\ RetentionFairness /\ SchedulerFairness
    /\ ServerFairness /\ RerankerFairness /\ EmbedderFairness

LiveFairSpec == LiveSpec /\ LiveFairness
-----------------------------------------------------------------------------
\* A backlog is worked off, unless the daemon closes, a failure is final or a pass ends
\* without seeing an entry that was committed meanwhile (IndexScheduler.EventuallyIndexed);
\* a put and a line are answered, a server that drains closes, and who waits for a model
\* process is told something (scheduleIndexing, StoreDaemon.close, LocalReranker.rerank,
\* LocalEmbedder.embed).
DaemonProgresses == S!EventuallyIndexed /\ S!PutsAnswered /\ D!Answered /\ D!CloseCompletes
    /\ K!Reranks /\ M!Embeds

=============================================================================
