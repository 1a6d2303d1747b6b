------------------------------ MODULE MCDaemon -------------------------------
(***************************************************************************)
(* The parts of the daemon around its store, each checked on its own in    *)
(* one run: part names the one whose steps are taken, the others stay      *)
(* where they start.  Maintenance is there twice, once for the accounting  *)
(* of deletions and once for the emergency mode; the upgrade of the        *)
(* derived view and the handover from SQLite are there on more than one    *)
(* instance.  The scheduling of index work is the part whose module is     *)
(* extended.                                                               *)
(***************************************************************************)
EXTENDS IndexScheduler

CONSTANTS r1, r2, k1, k2, x, y, a1, q1, q2, e1, e2, None

VARIABLES
    part,
    A_free, A_stored, A_lastEmergencyMode, A_flow, A_waves, A_deleted, A_counted,
    A_pending, A_before, A_size, A_started, A_closed, A_deletions, A_growth, A_faults,
    A_owed, A_lost, A_crossed,
    E_free, E_stored, E_lastEmergencyMode, E_flow, E_waves, E_deleted, E_counted,
    E_pending, E_before, E_size, E_started, E_closed, E_deletions, E_growth, E_faults,
    E_owed, E_lost, E_crossed,
    D_phase, D_conn, D_queue, D_paused, D_active, D_outcomes, D_running, D_activeRequests,
    D_reserved, D_unflushed, D_waiters, D_idleTimer, D_overdue, D_storeOpen, D_received,
    V_manifest, V_marker, V_history, V_outbox, V_ordinal, V_assigned, V_retiredOnly,
    V_tombstone, V_active, V_view, V_runtime, V_fresh, V_migration, V_cutover, V_tick,
    V_olders, V_stops, V_purges, V_behind,
    U_manifest, U_marker, U_history, U_outbox, U_ordinal, U_assigned, U_retiredOnly,
    U_tombstone, U_active, U_view, U_runtime, U_fresh, U_migration, U_cutover, U_tick,
    U_olders, U_stops, U_purges, U_behind,
    T_manifest, T_marker, T_history, T_outbox, T_ordinal, T_assigned, T_retiredOnly,
    T_tombstone, T_active, T_view, T_runtime, T_fresh, T_migration, T_cutover, T_tick,
    T_olders, T_stops, T_purges, T_behind,
    G_sqlite, G_adapter, G_backend, G_ckpt, G_failures, G_dest, G_seal, G_marker, G_exec,
    G_job, G_writes, G_strays, G_faults, G_crashes,
    Y_sqlite, Y_adapter, Y_backend, Y_ckpt, Y_failures, Y_dest, Y_seal, Y_marker, Y_exec,
    Y_job, Y_writes, Y_strays, Y_faults, Y_crashes,
    H_now, H_heartbeat, H_beatAt, H_closed, H_started, H_running, H_inbox, H_watch,
    H_activeRequests, H_sample, H_stopped, H_stalls, H_afterwards, H_looks

Lines == {[id |-> k1, content |-> x], [id |-> k1, content |-> y], [id |-> k2, content |-> x]}

schedulerVars == vars

A == INSTANCE Maintenance WITH
    Admission <- {}, Level <- {"ample"}, MaxRetentionWaves <- 2,
    CompactionDeletedKeys <- 2, CompactionReclaimable <- 2, MaxDeletions <- 3,
    MaxGrowth <- 1, MaxFaults <- 1, free <- A_free, stored <- A_stored,
    lastEmergencyMode <- A_lastEmergencyMode, flow <- A_flow, waves <- A_waves,
    deleted <- A_deleted, counted <- A_counted, pending <- A_pending, before <- A_before,
    size <- A_size, started <- A_started, closed <- A_closed, deletions <- A_deletions,
    growth <- A_growth, faults <- A_faults, owed <- A_owed, lost <- A_lost,
    crossed <- A_crossed
accountingVars ==
    <<A_free, A_stored, A_lastEmergencyMode, A_flow, A_waves, A_deleted, A_counted,
      A_pending, A_before, A_size, A_started, A_closed, A_deletions, A_growth, A_faults,
      A_owed, A_lost, A_crossed>>

E == INSTANCE Maintenance WITH
    Admission <- {a1}, Level <- {"critical", "reserve", "ample", "unknown"},
    MaxRetentionWaves <- 1, CompactionDeletedKeys <- 2, CompactionReclaimable <- 2,
    MaxDeletions <- 0, MaxGrowth <- 0, MaxFaults <- 1, free <- E_free, stored <- E_stored,
    lastEmergencyMode <- E_lastEmergencyMode, flow <- E_flow, waves <- E_waves,
    deleted <- E_deleted, counted <- E_counted, pending <- E_pending, before <- E_before,
    size <- E_size, started <- E_started, closed <- E_closed, deletions <- E_deletions,
    growth <- E_growth, faults <- E_faults, owed <- E_owed, lost <- E_lost,
    crossed <- E_crossed
emergencyVars ==
    <<E_free, E_stored, E_lastEmergencyMode, E_flow, E_waves, E_deleted, E_counted,
      E_pending, E_before, E_size, E_started, E_closed, E_deletions, E_growth, E_faults,
      E_owed, E_lost, E_crossed>>

D == INSTANCE DaemonServer WITH
    Conn <- 1..3, Line <- Lines, MaxConnections <- 2, MaxQueued <- 1,
    MaxReplayOutcomes <- 1, MaxActiveRequests <- 2, FullFrame <- 2, OutputBudget <- 4,
    MaxLines <- 3, phase <- D_phase, conn <- D_conn, queue <- D_queue, paused <- D_paused,
    active <- D_active, outcomes <- D_outcomes, running <- D_running,
    activeRequests <- D_activeRequests, reserved <- D_reserved, unflushed <- D_unflushed,
    waiters <- D_waiters, idleTimer <- D_idleTimer, overdue <- D_overdue,
    storeOpen <- D_storeOpen, received <- D_received
serverVars ==
    <<D_phase, D_conn, D_queue, D_paused, D_active, D_outcomes, D_running,
      D_activeRequests, D_reserved, D_unflushed, D_waiters, D_idleTimer, D_overdue,
      D_storeOpen, D_received>>

V == INSTANCE DerivedView WITH
    Doc <- {1}, MaxVersion <- 3, PageSize <- 1, OlderMayInterrupt <- FALSE, MaxOlder <- 1,
    MaxStops <- 1, MaxPurges <- 0, manifest <- V_manifest, marker <- V_marker,
    history <- V_history, outbox <- V_outbox, ordinal <- V_ordinal, assigned <- V_assigned,
    retiredOnly <- V_retiredOnly, tombstone <- V_tombstone, active <- V_active,
    view <- V_view, runtime <- V_runtime, fresh <- V_fresh, migration <- V_migration,
    cutover <- V_cutover, tick <- V_tick, olders <- V_olders, stops <- V_stops,
    purges <- V_purges, behind <- V_behind
viewVars ==
    <<V_manifest, V_marker, V_history, V_outbox, V_ordinal, V_assigned, V_retiredOnly,
      V_tombstone, V_active, V_view, V_runtime, V_fresh, V_migration, V_cutover, V_tick,
      V_olders, V_stops, V_purges, V_behind>>

U == INSTANCE DerivedView WITH
    Doc <- {1}, MaxVersion <- 2, PageSize <- 1, OlderMayInterrupt <- FALSE, MaxOlder <- 0,
    MaxStops <- 1, MaxPurges <- 1, manifest <- U_manifest, marker <- U_marker,
    history <- U_history, outbox <- U_outbox, ordinal <- U_ordinal, assigned <- U_assigned,
    retiredOnly <- U_retiredOnly, tombstone <- U_tombstone, active <- U_active,
    view <- U_view, runtime <- U_runtime, fresh <- U_fresh, migration <- U_migration,
    cutover <- U_cutover, tick <- U_tick, olders <- U_olders, stops <- U_stops,
    purges <- U_purges, behind <- U_behind
purgedVars ==
    <<U_manifest, U_marker, U_history, U_outbox, U_ordinal, U_assigned, U_retiredOnly,
      U_tombstone, U_active, U_view, U_runtime, U_fresh, U_migration, U_cutover, U_tick,
      U_olders, U_stops, U_purges, U_behind>>

T == INSTANCE DerivedView WITH
    Doc <- {1}, MaxVersion <- 2, PageSize <- 1, OlderMayInterrupt <- TRUE,
    MaxOlder <- 2, MaxStops <- 3, MaxPurges <- 0, manifest <- T_manifest,
    marker <- T_marker, history <- T_history, outbox <- T_outbox, ordinal <- T_ordinal,
    assigned <- T_assigned, retiredOnly <- T_retiredOnly, tombstone <- T_tombstone,
    active <- T_active, view <- T_view, runtime <- T_runtime, fresh <- T_fresh,
    migration <- T_migration, cutover <- T_cutover, tick <- T_tick, olders <- T_olders,
    stops <- T_stops, purges <- T_purges, behind <- T_behind
interruptedVars ==
    <<T_manifest, T_marker, T_history, T_outbox, T_ordinal, T_assigned, T_retiredOnly,
      T_tombstone, T_active, T_view, T_runtime, T_fresh, T_migration, T_cutover, T_tick,
      T_olders, T_stops, T_purges, T_behind>>

G == INSTANCE Migration WITH
    Adapter <- {a1}, Request <- {q1}, Execution <- {e1}, MaxRows <- 3, BatchSize <- 2,
    MaxWrites <- 1, MaxStray <- 1, MaxFaults <- 1, MaxCrashes <- 1, None <- None,
    sqlite <- G_sqlite, adapter <- G_adapter, backend <- G_backend, ckpt <- G_ckpt,
    failures <- G_failures, dest <- G_dest, seal <- G_seal, marker <- G_marker,
    exec <- G_exec, job <- G_job, writes <- G_writes, strays <- G_strays,
    faults <- G_faults, crashes <- G_crashes
handoverVars ==
    <<G_sqlite, G_adapter, G_backend, G_ckpt, G_failures, G_dest, G_seal, G_marker, G_exec,
      G_job, G_writes, G_strays, G_faults, G_crashes>>

Y == INSTANCE Migration WITH
    Adapter <- {a1}, Request <- {q1, q2}, Execution <- {e1, e2}, MaxRows <- 1,
    BatchSize <- 2, MaxWrites <- 0, MaxStray <- 0, MaxFaults <- 0, MaxCrashes <- 1,
    None <- None, sqlite <- Y_sqlite, adapter <- Y_adapter, backend <- Y_backend,
    ckpt <- Y_ckpt, failures <- Y_failures, dest <- Y_dest, seal <- Y_seal,
    marker <- Y_marker, exec <- Y_exec, job <- Y_job, writes <- Y_writes,
    strays <- Y_strays, faults <- Y_faults, crashes <- Y_crashes
replaysVars ==
    <<Y_sqlite, Y_adapter, Y_backend, Y_ckpt, Y_failures, Y_dest, Y_seal, Y_marker, Y_exec,
      Y_job, Y_writes, Y_strays, Y_faults, Y_crashes>>

H == INSTANCE Watchdog WITH
    Threshold <- 2, MaxGap <- 3, SampleEvery <- 2, Horizon <- 9, MaxRequests <- 1,
    now <- H_now, heartbeat <- H_heartbeat, beatAt <- H_beatAt, closed <- H_closed,
    started <- H_started, running <- H_running, inbox <- H_inbox, watch <- H_watch,
    activeRequests <- H_activeRequests, sample <- H_sample, stopped <- H_stopped,
    stalls <- H_stalls, afterwards <- H_afterwards, looks <- H_looks
watchdogVars ==
    <<H_now, H_heartbeat, H_beatAt, H_closed, H_started, H_running, H_inbox, H_watch,
      H_activeRequests, H_sample, H_stopped, H_stalls, H_afterwards, H_looks>>

ASSUME IndexingAssumption == SchedulerAssumption
ASSUME MaintenanceAssumption == A!MaintenanceAssumption /\ E!MaintenanceAssumption
ASSUME HandoverAssumption == G!MigrationAssumption /\ Y!MigrationAssumption
ASSUME WatchdogAssumption == H!WatchdogAssumption

\* Where a part waits that is not the one to be checked.
schedulerParked == Init /\ tail = 0
accountingParked == A!Init /\ A_stored = "none"
emergencyParked == E!Init /\ E_stored = "none" /\ E_free = "ample"
serverParked == D!Init
viewParked == V!Init
purgedParked == U!Init
interruptedParked == T!Init
handoverParked == G!Init /\ G_sqlite.exists = FALSE
replaysParked == Y!Init /\ Y_sqlite.exists = FALSE
watchdogParked == H!Init

DaemonInit ==
    /\ part \in {"scheduler", "accounting", "emergency", "server", "view", "purged", "interrupted", "handover", "replays", "watchdog"}
    /\ IF part = "scheduler" THEN Init ELSE schedulerParked
    /\ IF part = "accounting" THEN A!Init ELSE accountingParked
    /\ IF part = "emergency" THEN E!Init ELSE emergencyParked
    /\ IF part = "server" THEN D!Init ELSE serverParked
    /\ IF part = "view" THEN V!Init ELSE viewParked
    /\ IF part = "purged" THEN U!Init ELSE purgedParked
    /\ IF part = "interrupted" THEN T!Init ELSE interruptedParked
    /\ IF part = "handover" THEN G!Init ELSE handoverParked
    /\ IF part = "replays" THEN Y!Init ELSE replaysParked
    /\ IF part = "watchdog" THEN H!Init ELSE watchdogParked

schedulerNext == part = "scheduler" /\ Next
    /\ UNCHANGED <<part, accountingVars, emergencyVars, serverVars, viewVars, purgedVars, interruptedVars, handoverVars, replaysVars, watchdogVars>>
accountingNext == part = "accounting" /\ A!Next
    /\ UNCHANGED <<part, schedulerVars, emergencyVars, serverVars, viewVars, purgedVars, interruptedVars, handoverVars, replaysVars, watchdogVars>>
emergencyNext == part = "emergency" /\ E!Next
    /\ UNCHANGED <<part, schedulerVars, accountingVars, serverVars, viewVars, purgedVars, interruptedVars, handoverVars, replaysVars, watchdogVars>>
serverNext == part = "server" /\ D!Next
    /\ UNCHANGED <<part, schedulerVars, accountingVars, emergencyVars, viewVars, purgedVars, interruptedVars, handoverVars, replaysVars, watchdogVars>>
viewNext == part = "view" /\ V!Next
    /\ UNCHANGED <<part, schedulerVars, accountingVars, emergencyVars, serverVars, purgedVars, interruptedVars, handoverVars, replaysVars, watchdogVars>>
purgedNext == part = "purged" /\ U!Next
    /\ UNCHANGED <<part, schedulerVars, accountingVars, emergencyVars, serverVars, viewVars, interruptedVars, handoverVars, replaysVars, watchdogVars>>
interruptedNext == part = "interrupted" /\ T!Next
    /\ UNCHANGED <<part, schedulerVars, accountingVars, emergencyVars, serverVars, viewVars, purgedVars, handoverVars, replaysVars, watchdogVars>>
handoverNext == part = "handover" /\ G!Next
    /\ UNCHANGED <<part, schedulerVars, accountingVars, emergencyVars, serverVars, viewVars, purgedVars, interruptedVars, replaysVars, watchdogVars>>
replaysNext == part = "replays" /\ Y!Next
    /\ UNCHANGED <<part, schedulerVars, accountingVars, emergencyVars, serverVars, viewVars, purgedVars, interruptedVars, handoverVars, watchdogVars>>
watchdogNext == part = "watchdog" /\ H!Next
    /\ UNCHANGED <<part, schedulerVars, accountingVars, emergencyVars, serverVars, viewVars, purgedVars, interruptedVars, handoverVars, replaysVars>>

DaemonNext ==
    \/ schedulerNext \/ accountingNext \/ emergencyNext \/ serverNext \/ viewNext \/ purgedNext \/ interruptedNext \/ handoverNext \/ replaysNext \/ watchdogNext

daemonVars == <<part, schedulerVars, accountingVars, emergencyVars, serverVars, viewVars, purgedVars, interruptedVars, handoverVars, replaysVars, watchdogVars>>

DaemonSpec == DaemonInit /\ [][DaemonNext]_daemonVars
-----------------------------------------------------------------------------
\* Deletions are remembered until a compaction is seen, and the recorded emergency mode is
\* the remembered one (runOnce, synchronizeEmergencyMode).
MaintenanceRemembers ==
    /\ part = "accounting" => A!MaintenanceRemembers
    /\ part = "emergency" => E!MaintenanceRemembers

\* One execution per request id, whose outcome answers its own content only; the output budget
\* is kept, nobody waits for what is free, a paused socket will be resumed, an idle daemon has
\* its timer armed, and no handler works on a closed store (StoreDaemon).  The watchdog notices
\* every stall of its loop, once, and no other (inspectWatchdogState).
ServerSound ==
    /\ part = "server" => D!TypeOK /\ D!OneExecution /\ D!AnswersMatch /\ D!OutputAccounted
                          /\ D!PausedProgresses /\ D!StoreOpenInUse /\ D!IdleArmed
    /\ part = "watchdog" => H!TypeOK /\ H!StallsReal /\ H!StallsNoticed /\ H!RequestsKnown

\* The derived view is caught up with what an older daemon left before it serves, unless
\* that daemon wrote while an upgrade was unfinished; ordinals keep their meaning, and what
\* is held against a cutover is really wrong (upgradeDerivedView, verifyDerivedView).
DerivedViewSound ==
    /\ part = "view" => V!TypeOK /\ V!DriftReconciled /\ V!MismatchesReal
                        /\ V!OrdinalsStable
    /\ part = "purged" => U!TypeOK /\ U!DriftReconciled /\ U!MismatchesReal
                          /\ U!OrdinalsStable
    /\ part = "interrupted" => T!TypeOK /\ T!DriftReconciled /\ T!MismatchesReal
                               /\ T!OrdinalsStable

\* One of the two stores has the authority, and what a request was told is in it: no row, no
\* write and no replay is lost between them (migrateSqliteArchive, retainSqliteAuthority).
HandoverSound ==
    /\ part = "handover" => G!HandoverSound
    /\ part = "replays" => Y!HandoverSound

\* What cannot be taken back is right when it is done: a cutover is verified over all it covers,
\* and the seal leaves nothing behind (runPostingStorageMaintenance, commitCanonical).
NoWayBack == V!CutoverVerified /\ U!CutoverVerified /\ T!CutoverVerified
    /\ G!NothingLeftBehind /\ Y!NothingLeftBehind

=============================================================================
