----------------------------- MODULE Migration -----------------------------
(***************************************************************************)
(* The handover of an archive from SQLite to RocksDB (migration/,          *)
(* archive/backend-authority.js, commitCanonicalAdmission of               *)
(* daemon/operations.js).                                                  *)
(*                                                                         *)
(* The adapters are processes of their own that select a backend when they *)
(* start; the operator runs the copy and the verification, each of which   *)
(* holds the exclusive side of the daemon's write barrier until it ends;   *)
(* the daemon admits documents, each admission reading the gate before it  *)
(* takes the shared side.  A crash of the daemon ends what it was doing    *)
(* between two transactions.                                               *)
(*                                                                         *)
(* A row of SQLite is its content, and its place is its ordering key.  A   *)
(* fingerprint of the corpus is the rows, one of the files the rows and a  *)
(* stamp, because SQLite also writes what is no document.                  *)
(***************************************************************************)
EXTENDS Naturals, Sequences, FiniteSets

CONSTANTS
    Adapter,    \* Pi and MCP processes with the same archive configured
    Request,    \* documents that RocksDB clients want to store
    Execution,  \* executions of such a request in the daemon
    MaxRows,    \* rows SQLite ever has
    BatchSize,  \* rows between two checkpoints of the copy
    MaxWrites,  \* other writes to the SQLite files
    MaxStray,   \* writes of a process the operator forgot to stop
    MaxFaults,  \* rows whose copy fails
    MaxCrashes, \* crashes of the daemon
    None

VARIABLES
    sqlite,   \* the SQLite files
    adapter,  \* what an adapter is doing: "stopped", "claimed", "sqlite" or "rocks"
    backend,  \* the backend authority record
    ckpt,     \* the checkpoint of the source, and the phase of the status
    failures, \* rows with a durable failure
    dest,     \* the migrated documents and source records in RocksDB
    seal,     \* the authority write of the source
    marker,   \* what the idempotency marker of a request remembers
    exec,     \* the executions of requests
    job,      \* the copy or the verification that is running
    writes, strays, faults, crashes

vars == <<sqlite, adapter, backend, ckpt, failures, dest, seal, marker, exec, job,
          writes, strays, faults, crashes>>
bounds == <<writes, strays, faults, crashes>>

Row == 1..MaxRows
Content == {1, 2}
Corpus == UNION {[1..n -> Content] : n \in 0..MaxRows}
Retired == 3

NoBackend == [of |-> None, reason |-> None, request |-> None, at |-> None]
SqliteClaim == [of |-> "sqlite", reason |-> "selection", request |-> None, at |-> None]
FreshInstall == [of |-> "rocksdb", reason |-> "fresh-install", request |-> None, at |-> None]
NoCheckpoint == [phase |-> "not-started", stable |-> 0, count |-> 0, failed |-> 0,
                 completed |-> FALSE, files |-> None, corpus |-> None, verified |-> None]
NoJob == [pc |-> "idle", snap |-> None, through |-> 0, batch |-> 0, passed |-> FALSE]
NoExecution == [pc |-> "idle", request |-> None, attempt |-> 1, transitions |-> {},
                fresh |-> FALSE, state |-> None, seals |-> FALSE, stored |-> FALSE]

Started == ckpt.phase # "not-started"
\* The migrated documents in the order of their keys; a gap ends them.
Copied == LET n == Cardinality({r \in Row : dest[r] # 0}) IN [r \in 1..n |-> dest[r]]

Init ==
    /\ \E n \in 0..1 : sqlite = [exists |-> n = 1, rows |-> [i \in 1..n |-> 1], stamp |-> 0]
    /\ adapter = [a \in Adapter |-> "stopped"]
    /\ backend = NoBackend /\ ckpt = NoCheckpoint /\ seal = None
    /\ failures = {} /\ dest = [r \in Row |-> 0]
    /\ marker = [q \in Request |-> None]
    /\ exec = [e \in Execution |-> NoExecution]
    /\ job = NoJob
    /\ writes = 0 /\ strays = 0 /\ faults = 0 /\ crashes = 0

\* The exclusive side of the barrier.
Exclusive == job.pc = "idle"

\* rollbackEligible: the verified corpus is still what SQLite holds.
Eligible ==
    /\ ckpt.phase = "offline-ready" /\ ckpt.verified # None /\ ckpt.verified = ckpt.corpus
    /\ sqlite.exists /\ sqlite.rows = ckpt.verified

\* readMigrationStatus: a seal overrides the recorded phase, a changed source blocks it.
Phase ==
    IF seal # None THEN "rocksdb-authority"
    ELSE IF ckpt.phase = "offline-ready" /\ ~Eligible THEN "blocked" ELSE ckpt.phase

-----------------------------------------------------------------------------
(* The adapters. *)

\* mutant: the verified phase counts as selectable whoever owns the authority.
ClaimAnyway(a) ==
    /\ adapter[a] = "stopped" /\ Exclusive
    /\ backend.of = "sqlite" \/ Phase \in {"not-started", "offline-ready", "rocksdb-authority"}
    /\ backend' = IF backend = NoBackend THEN SqliteClaim ELSE backend
    /\ adapter' = [adapter EXCEPT ![a] = "claimed"]
    /\ UNCHANGED <<sqlite, ckpt, failures, dest, seal, marker, exec, job, bounds>>

\* claimSqliteBackend, before the adapter opens SQLite for writing.
Claim(a) ==
    /\ adapter[a] = "stopped" /\ Exclusive
    /\ backend.of # "rocksdb" /\ Phase # "rocksdb-authority"
    /\ backend.of = "sqlite" \/ Phase \in {"not-started", "offline-ready"}
    /\ backend' = IF backend = NoBackend THEN SqliteClaim ELSE backend
    /\ adapter' = [adapter EXCEPT ![a] = "claimed"]
    /\ UNCHANGED <<sqlite, ckpt, failures, dest, seal, marker, exec, job, bounds>>

Open(a) ==
    /\ adapter[a] = "claimed"
    /\ adapter' = [adapter EXCEPT ![a] = "sqlite"]
    /\ sqlite' = [sqlite EXCEPT !.exists = TRUE]
    /\ UNCHANGED <<backend, ckpt, failures, dest, seal, marker, exec, job, bounds>>

Written ==
    \/ \E c \in Content :
         /\ Len(sqlite.rows) < MaxRows
         /\ sqlite' = [sqlite EXCEPT !.rows = Append(@, c)]
    \/ \E r \in DOMAIN sqlite.rows : sqlite' = [sqlite EXCEPT !.rows[r] = 3 - @]
    \/ sqlite' = [sqlite EXCEPT !.stamp = @ + 1]
Write(a) ==
    /\ adapter[a] = "sqlite" /\ writes < MaxWrites /\ writes' = writes + 1 /\ Written
    /\ UNCHANGED <<adapter, backend, ckpt, failures, dest, seal, marker, exec, job, strays,
                   faults, crashes>>
\* A writer of SQLite that the operator's assertion forgot.
StrayWrite ==
    /\ sqlite.exists /\ strays < MaxStray /\ strays' = strays + 1 /\ Written
    /\ UNCHANGED <<adapter, backend, ckpt, failures, dest, seal, marker, exec, job, writes,
                   faults, crashes>>

\* activateRocksBackend.
Activate(a) ==
    /\ adapter[a] = "stopped" /\ Exclusive /\ backend.of # "sqlite"
    /\ IF backend.of = "rocksdb"
         THEN /\ sqlite.exists =>
                   backend.reason = "migration-authority" /\ Phase = "rocksdb-authority"
              /\ UNCHANGED backend
       ELSE IF sqlite.exists THEN Phase = "offline-ready" /\ UNCHANGED backend
       ELSE /\ Phase = "not-started"
            /\ backend' = FreshInstall
    /\ adapter' = [adapter EXCEPT ![a] = "rocks"]
    /\ UNCHANGED <<sqlite, ckpt, failures, dest, seal, marker, exec, job, bounds>>

Stop(a) ==
    /\ adapter[a] # "stopped" /\ adapter' = [adapter EXCEPT ![a] = "stopped"]
    /\ UNCHANGED <<sqlite, backend, ckpt, failures, dest, seal, marker, exec, job, bounds>>

-----------------------------------------------------------------------------
(* The copy. *)

ClearSqlite == IF backend.of = "sqlite" THEN NoBackend ELSE backend

\* revalidateCheckpoint: the covered prefix of the source is what was migrated.
PrefixIntact ==
    /\ ckpt.stable <= Len(sqlite.rows) /\ ckpt.count = ckpt.stable
    /\ \A r \in 1..ckpt.stable : dest[r] = sqlite.rows[r]

\* startOfflineMigration, up to its loop.  --offline asserts that no process can
\* write SQLite.
StartCopy ==
    /\ Exclusive /\ sqlite.exists
    /\ \A a \in Adapter : adapter[a] \notin {"claimed", "sqlite"}
    /\ backend.of # "rocksdb" /\ Phase # "rocksdb-authority"
    /\ IF Started THEN PrefixIntact
       ELSE (\A q \in Request : marker[q] = None) /\ \A r \in Row : dest[r] = 0
    /\ backend' = ClearSqlite
    /\ ckpt' = [ckpt EXCEPT !.phase = "offline-copy", !.completed = FALSE, !.files = sqlite,
                            !.corpus = None, !.verified = None]
    /\ job' = [NoJob EXCEPT !.pc = "copy", !.snap = sqlite, !.through = ckpt.stable]
    /\ UNCHANGED <<sqlite, adapter, failures, dest, seal, marker, exec, bounds>>

Upcoming == job.through + 1
More == Upcoming <= Len(job.snap.rows)

\* One row is committed under a request identity of its own; repeated with the same
\* content the commit is a duplicate, with another it is refused.
CopyRow ==
    /\ job.pc = "copy" /\ More /\ job.batch < BatchSize
    /\ dest[Upcoming] \in {0, job.snap.rows[Upcoming]}
    /\ dest' = [dest EXCEPT ![Upcoming] = job.snap.rows[Upcoming]]
    /\ job' = [job EXCEPT !.pc = "resolve"]
    /\ UNCHANGED <<sqlite, adapter, backend, ckpt, failures, seal, marker, exec, bounds>>

\* blockOnFailure.
BlockRow ==
    /\ job.pc = "copy" /\ More /\ job.batch < BatchSize
    /\ \/ dest[Upcoming] \notin {0, job.snap.rows[Upcoming]} /\ UNCHANGED faults
       \/ faults < MaxFaults /\ faults' = faults + 1
    /\ failures' = failures \cup {Upcoming}
    /\ ckpt' = [ckpt EXCEPT !.phase = "blocked",
                            !.failed = IF Upcoming \in failures THEN @ ELSE @ + 1]
    /\ job' = NoJob
    /\ UNCHANGED <<sqlite, adapter, backend, dest, seal, marker, exec, writes, strays, crashes>>

\* resolveFailure: the row is gone from the failures when its commit is durable.
Resolve ==
    /\ job.pc = "resolve"
    /\ failures' = failures \ {Upcoming}
    /\ ckpt' = IF Upcoming \in failures
                 THEN [ckpt EXCEPT !.phase = "offline-copy", !.failed = @ - 1] ELSE ckpt
    /\ job' = [job EXCEPT !.pc = "copy", !.through = @ + 1, !.batch = @ + 1]
    /\ UNCHANGED <<sqlite, adapter, backend, dest, seal, marker, exec, bounds>>

\* A batch is covered once all its rows are durable.
CheckpointBatch ==
    /\ job.pc = "copy" /\ job.batch > 0 /\ (job.batch = BatchSize \/ ~More)
    /\ ckpt' = [ckpt EXCEPT !.stable = job.through, !.count = @ + job.batch,
                            !.phase = "offline-copy"]
    /\ job' = [job EXCEPT !.batch = 0]
    /\ UNCHANGED <<sqlite, adapter, backend, failures, dest, seal, marker, exec, bounds>>

\* completeOfflineCopy: the snapshot is still the source; the fingerprint of the corpus
\* is computed from what was migrated.
Complete ==
    /\ job.pc = "copy" /\ job.batch = 0 /\ ~More
    /\ ckpt' = IF job.snap = sqlite
                 THEN [ckpt EXCEPT !.completed = TRUE, !.corpus = Copied, !.files = job.snap,
                                   !.phase = "offline-verification"]
                 ELSE ckpt
    /\ job' = NoJob
    /\ UNCHANGED <<sqlite, adapter, backend, failures, dest, seal, marker, exec, bounds>>

-----------------------------------------------------------------------------
(* The verification. *)

StartVerification ==
    /\ Exclusive /\ sqlite.exists /\ Phase # "rocksdb-authority"
    /\ Started /\ ckpt.completed /\ ckpt.files = sqlite
    /\ job' = [NoJob EXCEPT !.pc = "verify", !.snap = sqlite]
    /\ UNCHANGED <<sqlite, adapter, backend, ckpt, failures, dest, seal, marker, exec, bounds>>

\* Every row against its document and every document against the rows; a source that
\* changed meanwhile is not certified.
Compare ==
    /\ job.pc = "verify"
    /\ job' = IF job.snap # sqlite THEN NoJob
              ELSE [job EXCEPT !.pc = "certify",
                               !.passed = /\ Copied = job.snap.rows
                                          /\ \A q \in Request : marker[q] = None]
    /\ UNCHANGED <<sqlite, adapter, backend, ckpt, failures, dest, seal, marker, exec, bounds>>

Certify ==
    /\ job.pc = "certify"
    /\ ckpt' = IF job.passed THEN [ckpt EXCEPT !.verified = ckpt.corpus, !.phase = "offline-ready"]
               ELSE [ckpt EXCEPT !.verified = None, !.phase = "blocked"]
    /\ job' = NoJob
    /\ UNCHANGED <<sqlite, adapter, backend, failures, dest, seal, marker, exec, bounds>>

-----------------------------------------------------------------------------
(* Admission. *)

Busy(e) == exec[e].pc \in {"gate", "commit"}

\* A client sends a document, for the first time or again.
Send(e, q) ==
    /\ ~Busy(e)
    /\ exec' = [exec EXCEPT ![e] = [NoExecution EXCEPT !.pc = "gate", !.request = q,
                                                       !.stored = marker[q] # None]]
    /\ UNCHANGED <<sqlite, adapter, backend, ckpt, failures, dest, seal, marker, job, bounds>>

End(e, how) == exec' = [exec EXCEPT ![e] = [NoExecution EXCEPT !.pc = how,
                                            !.request = exec[e].request, !.stored = exec[e].stored]]
Plan(e, transitions, fresh, state, seals) ==
    exec' = [exec EXCEPT ![e].pc = "commit", ![e].transitions = transitions,
                         ![e].fresh = fresh, ![e].state = state, ![e].seals = seals]

Authority(e, reason) ==
    [of |-> "rocksdb", reason |-> reason, request |-> exec[e].request,
     at |-> <<e, exec[e].attempt>>]
Seal(e) == [request |-> exec[e].request, at |-> <<e, exec[e].attempt>>]

\* mutant: seals a migration that was started, verified or not.
GateUnready(e) ==
    /\ exec[e].pc = "gate"
    /\ IF backend.of = "sqlite" THEN End(e, "blocked")
       ELSE IF Phase = "not-started"
         THEN IF backend.of = "rocksdb"
                THEN Plan(e, {b \in {backend} : b.reason = "direct"
                                                /\ b.request = exec[e].request},
                          FALSE, None, FALSE)
                ELSE Plan(e, {Authority(e, "direct")}, TRUE, None, TRUE)
       ELSE IF Phase = "rocksdb-authority"
         THEN Plan(e, IF seal.request = exec[e].request THEN {seal, backend} ELSE {},
                   FALSE, None, FALSE)
       ELSE Plan(e, {Seal(e), Authority(e, "migration-authority")}, FALSE, ckpt, TRUE)
    /\ UNCHANGED <<sqlite, adapter, backend, ckpt, failures, dest, seal, marker, job, bounds>>

\* prepareMigrationAdmission, in a snapshot of its own.
Gate(e) ==
    /\ exec[e].pc = "gate"
    /\ IF backend.of = "sqlite" THEN End(e, "blocked")
       ELSE IF Phase = "not-started"
         THEN IF backend.of = "rocksdb"
                THEN Plan(e, {b \in {backend} : b.reason = "direct"
                                                /\ b.request = exec[e].request},
                          FALSE, None, FALSE)
                ELSE Plan(e, {Authority(e, "direct")}, TRUE, None, TRUE)
       ELSE IF Phase = "rocksdb-authority"
         THEN Plan(e, IF seal.request = exec[e].request THEN {seal, backend} ELSE {},
                   FALSE, None, FALSE)
       ELSE IF Phase = "offline-ready"
         THEN Plan(e, {Seal(e), Authority(e, "migration-authority")}, FALSE, ckpt, TRUE)
       ELSE End(e, "blocked")
    /\ UNCHANGED <<sqlite, adapter, backend, ckpt, failures, dest, seal, marker, job, bounds>>

\* The preconditions and transitions of commitCanonical.
Holds(e) ==
    /\ exec[e].fresh => ~Started /\ backend = NoBackend
    /\ exec[e].state # None => exec[e].state = ckpt
    /\ exec[e].transitions # {} => backend = NoBackend /\ (exec[e].fresh \/ seal = None)

Transition(e) ==
    LET T == exec[e].transitions IN
    /\ backend' = IF T = {} THEN backend ELSE CHOOSE b \in T : "of" \in DOMAIN b
    /\ seal' = IF \E s \in T : "of" \notin DOMAIN s
                 THEN CHOOSE s \in T : "of" \notin DOMAIN s ELSE seal

Commit(e) ==
    /\ exec[e].pc = "commit" /\ Exclusive
    /\ LET q == exec[e].request
           duplicate == marker[q] # None /\ marker[q] = exec[e].transitions
       IN  IF marker[q] = None /\ Holds(e)
             THEN /\ marker' = [marker EXCEPT ![q] = exec[e].transitions]
                  /\ Transition(e) /\ End(e, "stored")
             ELSE /\ UNCHANGED <<marker, backend, seal>>
                  /\ IF duplicate THEN End(e, "stored")
                     ELSE IF (exec[e].seals \/ exec[e].fresh) /\ exec[e].attempt = 1
                       THEN exec' = [exec EXCEPT ![e].pc = "gate", ![e].attempt = 2]
                     ELSE End(e, "refused")
    /\ UNCHANGED <<sqlite, adapter, ckpt, failures, dest, job, bounds>>

\* A wave of retention, or a redaction, reaches a migrated document (migrationRetentionGate).
Retain(r) ==
    /\ Exclusive /\ dest[r] \in Content /\ backend.of # "sqlite"
    /\ Phase \in {"not-started", "rocksdb-authority"}
    /\ dest' = [dest EXCEPT ![r] = Retired]
    /\ UNCHANGED <<sqlite, adapter, backend, ckpt, failures, seal, marker, exec, job, bounds>>

Crash ==
    /\ crashes < MaxCrashes /\ crashes' = crashes + 1
    /\ job' = NoJob /\ exec' = [e \in Execution |-> NoExecution]
    /\ UNCHANGED <<sqlite, adapter, backend, ckpt, failures, dest, seal, marker, writes,
                   strays, faults>>

Next ==
    \/ \E a \in Adapter : Claim(a) \/ Open(a) \/ Write(a) \/ Activate(a) \/ Stop(a)
    \/ StrayWrite
    \/ StartCopy \/ CopyRow \/ BlockRow \/ Resolve \/ CheckpointBatch \/ Complete
    \/ StartVerification \/ Compare \/ Certify
    \/ \E e \in Execution : (\E q \in Request : Send(e, q)) \/ Gate(e) \/ Commit(e)
    \/ \E r \in Row : Retain(r)
    \/ Crash

Spec == Init /\ [][Next]_vars

-----------------------------------------------------------------------------
(* Properties. *)

Files == [exists : BOOLEAN, rows : Corpus, stamp : Nat]
\* What can be read out of RocksDB, whole or not.
Copies == UNION {[1..n -> {0, Retired} \cup Content] : n \in 0..MaxRows}
Authorities == [of : {"rocksdb"}, reason : {"direct", "migration-authority"},
                request : Request, at : Execution \X {1, 2}]
Seals == [request : Request, at : Execution \X {1, 2}]
Transitions == SUBSET (Authorities \cup Seals)
Checkpoints ==
    [phase : {"not-started", "offline-copy", "offline-verification", "offline-ready", "blocked"},
     stable : 0..MaxRows, count : 0..MaxRows, failed : 0..MaxRows, completed : BOOLEAN,
     files : Files \cup {None}, corpus : Copies \cup {None}, verified : Copies \cup {None}]

Executions ==
    [pc : {"idle", "gate", "commit", "stored", "refused", "blocked"},
     request : Request \cup {None}, attempt : {1, 2}, transitions : Transitions,
     fresh : BOOLEAN, state : Checkpoints \cup {None}, seals : BOOLEAN, stored : BOOLEAN]
Jobs == [pc : {"idle", "copy", "resolve", "verify", "certify"}, snap : Files \cup {None},
         through : 0..MaxRows, batch : 0..MaxRows, passed : BOOLEAN]

TypeOK ==
    /\ sqlite \in Files
    /\ adapter \in [Adapter -> {"stopped", "claimed", "sqlite", "rocks"}]
    /\ backend \in {NoBackend, SqliteClaim, FreshInstall} \cup Authorities
    /\ ckpt \in Checkpoints
    /\ failures \subseteq Row
    /\ dest \in [Row -> {0, Retired} \cup Content]
    /\ seal \in Seals \cup {None}
    /\ marker \in [Request -> {None} \cup Transitions]
    /\ exec \in [Execution -> Executions]
    /\ job \in Jobs
    /\ writes \in Nat /\ strays \in Nat /\ faults \in Nat /\ crashes \in Nat

\* None is a value of its own, unlike any record it stands for.
MigrationAssumption ==
    /\ MaxRows \in Nat \ {0}
    /\ None \notin {"sqlite", "rocksdb", "direct"}
    /\ None \notin Request
    /\ None \notin Seals \cup Checkpoints
    /\ None # {} /\ \A s, t \in Authorities \cup Seals : None # {s, t}

\* There is one writable history: while an adapter may write SQLite it owns the
\* authority, and RocksDB has acknowledged no document (claimSqliteBackend,
\* activateRocksBackend, prepareMigrationAdmission).
OneHistory ==
    \A a \in Adapter : adapter[a] \in {"claimed", "sqlite"} =>
        backend.of = "sqlite" /\ seal = None /\ \A q \in Request : marker[q] = None

\* What is called ready has every row of SQLite in RocksDB as it is now, also when a
\* writer was forgotten (verifyOfflineMigration, readMigrationStatus).
ReadyIsCopied == Phase = "offline-ready" => Copied = sqlite.rows

\* The first admission that seals the authority leaves nothing behind in SQLite, unless
\* a writer was forgotten (prepareMigrationAdmission, commitCanonical).
NothingLeftBehind ==
    [][seal = None /\ seal' # None /\ strays = 0 => Copied = sqlite.rows]_vars

\* A checkpoint covers rows that are durable, and counts each row and each failure once,
\* wherever the copy stopped and resumed (startOfflineMigration, blockOnFailure).
CheckpointCovers ==
    seal = None /\ Started =>
        /\ \A r \in 1..ckpt.stable : dest[r] # 0
        /\ ckpt.count = ckpt.stable /\ ckpt.failed = Cardinality(failures)

\* A document that was stored is answered as stored when it is sent again, whatever
\* became of the authority (prepareMigrationAdmission).
ReplayIsStored ==
    \A e \in Execution : exec[e].stored => exec[e].pc \notin {"refused", "blocked"}

\* No row, no write and no replay is lost between the two stores (migration/).
HandoverSound == TypeOK /\ OneHistory /\ ReadyIsCopied /\ CheckpointCovers /\ ReplayIsStored
=============================================================================
