----------------------------- MODULE MCSessions ------------------------------
(***************************************************************************)
(* What stands before the daemon, each part checked on its own in one run: *)
(* the window of a Pi session, the documents its archive client protects,  *)
(* the checkpoints of the catalogue, the bridge to the daemon, the         *)
(* processes that may be that daemon, the log they share, and the SQLite   *)
(* archive used without a daemon.  The window is the part whose module is  *)
(* extended; the others are instances.                                     *)
(***************************************************************************)
EXTENDS EpochWindow, TLC

CONSTANTS x, y, z, h1, h2, w1, w2, p0, p1, None

VARIABLES
    part,
    P_physical, P_tracked, P_context, P_task, P_handoff, P_clean, P_syncs, P_faults,
    K_store, K_writer, K_leases, K_attempts, K_faults, K_damage,
    B_host, B_signal, B_port, B_worker, B_link, B_daemon, B_launched, B_effects, B_results,
    B_timeouts, B_faults,
    L_proc, L_handled, L_killed, L_lock, L_store, L_listening, L_path, L_marker, L_worker,
    L_crashes,
    Q_documents, Q_order, Q_lastSequence, Q_messages, Q_legacy, Q_accounted, Q_recalled,
    Q_baseline, Q_policy, Q_leases, Q_cutoff, Q_client, Q_calls, Q_lapses,
    J_files, J_active, J_previous, J_lock, J_old, J_proc, J_fd, J_written, J_olds, J_faults,
    J_stolen

Sym == Permutations({h1, h2}) \union Permutations({w1, w2})

windowVars == vars

P == INSTANCE ArchiveProtection WITH
    Doc <- {1, 2, 3}, ShardSize <- 1, MaxSyncs <- 3, MaxFaults <- 1,
    physical <- P_physical, tracked <- P_tracked, context <- P_context, task <- P_task,
    handoff <- P_handoff, clean <- P_clean, syncs <- P_syncs, faults <- P_faults
protectionVars ==
    <<P_physical, P_tracked, P_context, P_task, P_handoff, P_clean, P_syncs, P_faults>>

K == INSTANCE CheckpointPublication WITH
    Checkpoint <- {<< <<x, x>> >>, << <<x>>, <<y>> >>}, Writer <- {w1, w2}, OtherPart <- z,
    MaxAttempts <- 2, MaxFaults <- 1, MaxDamage <- 1, store <- K_store, writer <- K_writer,
    leases <- K_leases, attempts <- K_attempts, faults <- K_faults, damage <- K_damage
catalogueVars ==
    <<K_store, K_writer, K_leases, K_attempts, K_faults, K_damage>>

B == INSTANCE DaemonClient WITH
    MaxCalls <- 4, MaxTimeouts <- 2, MaxFaults <- 1, MaxPid <- 3, host <- B_host,
    signal <- B_signal, port <- B_port, worker <- B_worker, link <- B_link,
    daemon <- B_daemon, launched <- B_launched, effects <- B_effects, results <- B_results,
    timeouts <- B_timeouts, faults <- B_faults
bridgeVars ==
    <<B_host, B_signal, B_port, B_worker, B_link, B_daemon, B_launched, B_effects,
      B_results, B_timeouts, B_faults>>

L == INSTANCE DaemonLifecycle WITH
    Process <- {p0, p1}, Old <- {p0}, Worker <- {w1, w2}, MaxCrashes <- 1, None <- None,
    proc <- L_proc, handled <- L_handled, killed <- L_killed, lock <- L_lock,
    store <- L_store, listening <- L_listening, path <- L_path, marker <- L_marker,
    worker <- L_worker, crashes <- L_crashes
launchVars ==
    <<L_proc, L_handled, L_killed, L_lock, L_store, L_listening, L_path, L_marker,
      L_worker, L_crashes>>

\* Two turns of a session and, between them, a decision taken from the first; clients with
\* different limits.
Q == INSTANCE SqliteArchive WITH
    Client <- {p0, p1}, MaxBytes <- (p0 :> 3 @@ p1 :> 2), TargetBytes <- (p0 :> 2 @@ p1 :> 1),
    Doc <- {1, 2, 3}, Size <- {1}, Kind <- <<"turn", "decision-candidate", "turn">>,
    SessionOf <- <<x, x, x>>, SourceOf <- <<0, 1, 0>>, MinTurns <- 1, Ages <- {2, 4},
    Contexts <- {[sessions |-> {}, docs |-> {}], [sessions |-> {x}, docs |-> {1}]},
    MaxSequence <- 4, MaxCalls <- 2, MaxLapses <- 1, documents <- Q_documents,
    order <- Q_order, lastSequence <- Q_lastSequence, messages <- Q_messages,
    legacy <- Q_legacy, accounted <- Q_accounted, recalled <- Q_recalled,
    baseline <- Q_baseline, policy <- Q_policy, leases <- Q_leases, cutoff <- Q_cutoff,
    client <- Q_client, calls <- Q_calls, lapses <- Q_lapses
sqliteVars ==
    <<Q_documents, Q_order, Q_lastSequence, Q_messages, Q_legacy, Q_accounted, Q_recalled,
      Q_baseline, Q_policy, Q_leases, Q_cutoff, Q_client, Q_calls, Q_lapses>>

J == INSTANCE DaemonLog WITH
    Process <- {p0, p1}, None <- None, Limit <- 2, MaxRecords <- 5, MaxOld <- 2,
    MaxFaults <- 1, files <- J_files, active <- J_active, previous <- J_previous,
    lock <- J_lock, old <- J_old, proc <- J_proc, fd <- J_fd, written <- J_written,
    olds <- J_olds, faults <- J_faults, stolen <- J_stolen
logVars ==
    <<J_files, J_active, J_previous, J_lock, J_old, J_proc, J_fd, J_written, J_olds,
      J_faults, J_stolen>>

ASSUME SessionAssumption == WindowAssumption
ASSUME LaunchAssumption == L!LifecycleAssumption

\* Where a part waits that is not the one to be checked (the window has one initial state).
protectionParked == P!Init
catalogueParked == K!Init /\ DOMAIN K_store = {}
bridgeParked == B!Init
launchParked == L!Init /\ L_listening = {} /\ L_path = None /\ L_marker = {}
sqliteParked == Q!Init /\ DOMAIN Q_documents = {}
logParked == J!Init

SessionsInit ==
    /\ part \in {"window", "protection", "catalogue", "bridge", "launch", "sqlite", "log"}
    /\ Init
    /\ IF part = "protection" THEN P!Init ELSE protectionParked
    /\ IF part = "catalogue" THEN K!Init ELSE catalogueParked
    /\ IF part = "bridge" THEN B!Init ELSE bridgeParked
    /\ IF part = "launch" THEN L!Init ELSE launchParked
    /\ IF part = "sqlite" THEN Q!Init ELSE sqliteParked
    /\ IF part = "log" THEN J!Init ELSE logParked

windowNext == part = "window" /\ Next
    /\ UNCHANGED <<part, protectionVars, catalogueVars, bridgeVars, launchVars, sqliteVars, logVars>>
protectionNext == part = "protection" /\ P!Next
    /\ UNCHANGED <<part, windowVars, catalogueVars, bridgeVars, launchVars, sqliteVars, logVars>>
catalogueNext == part = "catalogue" /\ K!Next
    /\ UNCHANGED <<part, windowVars, protectionVars, bridgeVars, launchVars, sqliteVars, logVars>>
bridgeNext == part = "bridge" /\ B!Next
    /\ UNCHANGED <<part, windowVars, protectionVars, catalogueVars, launchVars, sqliteVars, logVars>>
launchNext == part = "launch" /\ L!Next
    /\ UNCHANGED <<part, windowVars, protectionVars, catalogueVars, bridgeVars, sqliteVars, logVars>>
sqliteNext == part = "sqlite" /\ Q!Next
    /\ UNCHANGED <<part, windowVars, protectionVars, catalogueVars, bridgeVars, launchVars, logVars>>
logNext == part = "log" /\ J!Next
    /\ UNCHANGED <<part, windowVars, protectionVars, catalogueVars, bridgeVars, launchVars, sqliteVars>>

SessionsNext ==
    \/ windowNext \/ protectionNext \/ catalogueNext \/ bridgeNext \/ launchNext \/ sqliteNext
    \/ logNext

sessionsVars ==
    <<part, windowVars, protectionVars, catalogueVars, bridgeVars, launchVars, sqliteVars,
      logVars>>

SessionsSpec == SessionsInit /\ [][SessionsNext]_sessionsVars
-----------------------------------------------------------------------------
\* The text the provider has seen does not change: the prefix of a request is that of the one
\* before until a rotation, if that one was sent with a state that is persisted, and the hint
\* of a message is never replaced while the message stays in the window (prepareContext).  The
\* SQLite archive grows only within the least limit of its clients, and a prune takes nothing
\* that is leased, nor anything before its turn (put, prune).
NothingTakenBack ==
    /\ PrefixKept /\ HintHolds
    /\ Q!CapKept /\ Q!ProtectedKept /\ Q!PrunedRightly

\* What the session protects stays protected while shards are replaced, none of the shards is
\* lost track of, and a published catalogue is whole and reads back exactly
\* (syncPolicyLeases, publishCheckpoint, readCheckpoint).  The tables of the SQLite archive
\* agree, whatever version of the program wrote last (its triggers).
ArchiveKept ==
    /\ part = "protection" => P!TypeOK /\ P!KeptThroughout /\ P!NothingLeaks
    /\ part = "catalogue" => K!TypeOK /\ K!PublishedWhole /\ K!ReadExact
    /\ part = "sqlite" => Q!TypeOK /\ Q!TablesAgree

\* A synchronous call gets the answer to itself, calls take effect in their order, and one
\* daemon at a time has the store open (SyncBridge, DaemonClientWorker, StoreDaemon).  The log
\* of the launches stays bounded, with the newest records in it (appendDaemonLog).
CallsSound ==
    /\ part = "bridge" => B!TypeOK /\ B!OwnAnswer /\ B!EffectsInOrder
    /\ part = "launch" => L!TypeOK /\ L!OwnedByOne
    /\ part = "log" => J!TypeOK /\ J!OneAppends /\ J!NewestKept /\ J!SizeBounded

=============================================================================
