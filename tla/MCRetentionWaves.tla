------------------------- MODULE MCRetentionWaves ---------------------------
(***************************************************************************)
(* Retention twice: two waves that clean a version and its successor, and  *)
(* one version that a client protects and renews while a wave expires it   *)
(* on schedule, early or by redaction.  part names the one whose steps are *)
(* taken.  Both ask the library whether the index delete is published,     *)
(* which answers yes wherever the daemon's own check does, and more often. *)
(***************************************************************************)
EXTENDS MCRetention

VARIABLES
    part,
    O_now, O_admitted, O_retired, O_kept, O_owners, O_stored, O_tombstone, O_current,
    O_queue, O_cleanup, O_copies, O_pins, O_leases, O_heartbeats, O_txn, O_pc, O_task,
    O_left, O_restarts

OneManifest == [d \in {a} |-> [session |-> s, payloads |-> {k}, prior |-> None, expiresAt |-> 1,
                                ephemeral |-> TRUE]]

One == INSTANCE Retention WITH
    Doc <- {a}, Payload <- {k}, Session <- {s}, Manifest <- OneManifest,
    PhaseOf <- [p \in {k} |-> "chunks"], Client <- {c1}, Runner <- {r1},
    Operations <- {"pin", "lease", "renew", "heartbeat", "due", "forced", "redact"},
    DaemonPublishes <- FALSE, Ttl <- 1, MaxTime <- 2, MaxGeneration <- 1,
    StepsPerWave <- 10, MaxRestarts <- 1, None <- None, now <- O_now,
    admitted <- O_admitted, retired <- O_retired, kept <- O_kept, owners <- O_owners,
    stored <- O_stored, tombstone <- O_tombstone, current <- O_current, queue <- O_queue,
    cleanup <- O_cleanup, copies <- O_copies, pins <- O_pins, leases <- O_leases,
    heartbeats <- O_heartbeats, txn <- O_txn, pc <- O_pc, task <- O_task, left <- O_left,
    restarts <- O_restarts
oneVars ==
    <<O_now, O_admitted, O_retired, O_kept, O_owners, O_stored, O_tombstone, O_current,
      O_queue, O_cleanup, O_copies, O_pins, O_leases, O_heartbeats, O_txn, O_pc, O_task,
      O_left, O_restarts>>

WavesInit == part \in {"shared", "one"} /\ Init /\ One!Init

WavesNext ==
    \/ part = "shared" /\ Next /\ UNCHANGED <<part, oneVars>>
    \/ part = "one" /\ One!Next /\ UNCHANGED <<part, vars>>

WavesSpec == WavesInit /\ [][WavesNext]_<<part, vars, oneVars>>
-----------------------------------------------------------------------------
\* A pin, a lease, a protected session or a renewal that came first keeps the version
\* (beginExpiry, isDocumentProtected, bumpGuard); and whatever they do, a cleanup that was begun
\* is found again.
ProtectedStay == One!ProtectionHonoured /\ []One!WaysBackKept
=============================================================================
