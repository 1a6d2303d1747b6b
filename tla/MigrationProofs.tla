-------------------------- MODULE MigrationProofs --------------------------
(***************************************************************************)
(* Proofs about the handover from SQLite to RocksDB, for every set of      *)
(* adapters, requests and executions and for every bound.                  *)
(*                                                                         *)
(* An admission decides in a snapshot (Gate) and commits later, so the     *)
(* properties rest on what cannot change in between.  RocksDB never loses  *)
(* the authority (RocksStays); hence what a request is recorded with is    *)
(* fixed once RocksDB has it (Recorded, MarkerInv), and a repeated request *)
(* plans just that (Replays).  What seals the authority compares the       *)
(* checkpoint it read with the one it finds: ReadyInv says why a           *)
(* checkpoint that is ready and not claimed by SQLite describes the files  *)
(* as they are, whoever verified and wrote before.                         *)
(***************************************************************************)
EXTENDS Migration, FiniteSetTheorems, SequenceTheorems, TLAPS

Rocks == backend.of = "rocksdb"
Copying == job.pc \in {"copy", "resolve"}

\* Who has the authority.  A sealed one was written with its seal, and one without a
\* migration keeps every migration from starting.
AuthorityInv ==
    /\ seal # None => backend \in Authorities /\ backend.reason = "migration-authority"
    /\ Rocks => ~Started \/ seal # None
    /\ job.pc # "idle" => Started /\ seal = None
    /\ \A a \in Adapter : adapter[a] \in {"claimed", "sqlite"} => backend.of = "sqlite"

\* What the marker of a stored request remembers: the authority records it wrote.
Recorded(q) ==
    IF seal = None THEN {b \in {backend} : b.reason = "direct" /\ b.request = q}
    ELSE IF seal.request = q THEN {seal, backend} ELSE {}
MarkerInv ==
    \A q \in Request : marker[q] # None => Rocks /\ marker[q] = Recorded(q)

\* What an execution plans to write: what is recorded already, the first authority of an
\* empty archive, or the seal of a migration that was ready.
Replays(e) == Rocks /\ exec[e].transitions = Recorded(exec[e].request)
ClaimsIt(e) ==
    /\ exec[e].fresh
    /\ \E b \in Authorities : /\ b.reason = "direct" /\ b.request = exec[e].request
                              /\ exec[e].transitions = {b}
SealsIt(e) ==
    /\ ~exec[e].fresh
    /\ exec[e].state \in Checkpoints /\ exec[e].state.phase = "offline-ready"
    /\ \E s \in Seals, b \in Authorities :
         /\ b.reason = "migration-authority" /\ s.request = exec[e].request
         /\ exec[e].transitions = {s, b}
Sound(e) ==
    /\ Busy(e) => exec[e].request \in Request
    /\ exec[e].pc = "commit" => Replays(e) \/ ClaimsIt(e) \/ SealsIt(e)
    /\ exec[e].stored => exec[e].pc \notin {"refused", "blocked"}
    /\ exec[e].stored /\ Busy(e) => marker[exec[e].request] # None
    /\ exec[e].stored /\ exec[e].pc = "commit" => Replays(e)
ExecInv == \A e \in Execution : Sound(e)

\* How far the copy has come, on disk and in the memory of a copy that runs.
CopyInv ==
    /\ ~Started => ckpt.stable = 0 /\ ~ckpt.completed
    /\ ckpt.count = ckpt.stable /\ ckpt.failed = Cardinality(failures)
    /\ \A r \in 1..ckpt.stable : dest[r] # 0
    /\ Copying => /\ job.snap \in Files
                  /\ ~ckpt.completed /\ ckpt.phase # "offline-ready"
                  /\ job.through = ckpt.stable + job.batch
                  /\ job.through <= Len(job.snap.rows)
                  /\ \A r \in 1..job.through : dest[r] # 0
    /\ job.pc = "resolve" => /\ job.through < Len(job.snap.rows)
                             /\ dest[job.through + 1] # 0

\* What was completed, verified and found ready describes RocksDB, and the files too
\* while SQLite has no authority and no writer was forgotten.
ReadyInv ==
    /\ job.pc \in {"verify", "certify"} => job.snap \in Files /\ ckpt.completed
    /\ seal = None /\ ckpt.completed => ckpt.corpus = Copied
    /\ job.pc = "certify" /\ job.passed =>
         /\ Copied = job.snap.rows
         /\ backend.of # "sqlite" /\ strays = 0 => sqlite.rows = job.snap.rows
    /\ ckpt.phase = "offline-ready" =>
         /\ ckpt.completed /\ ckpt.verified = ckpt.corpus
         /\ backend.of # "sqlite" /\ strays = 0 /\ seal = None => sqlite.rows = ckpt.verified

Inv == AuthorityInv /\ MarkerInv /\ ExecInv /\ CopyInv /\ ReadyInv
-----------------------------------------------------------------------------
(***************************************************************************)
(* Rows, copies, authority records.                                        *)
(***************************************************************************)
LEMMA CorpusFacts ==
    ASSUME MigrationAssumption, NEW s \in Corpus
    PROVE  s \in Seq(Content) /\ Len(s) \in 0..MaxRows /\ s \in [1..Len(s) -> Content]
<1>1. PICK n \in 0..MaxRows : s \in [1..n -> Content]
  BY DEF Corpus
<1>2. s \in Seq(Content) /\ Len(s) = n
  BY <1>1, MigrationAssumption DEF MigrationAssumption
<1>3. QED
  BY <1>1, <1>2

LEMMA InCorpus ==
    ASSUME MigrationAssumption, NEW n \in 0..MaxRows, NEW s \in [1..n -> Content]
    PROVE  s \in Corpus
BY DEF Corpus

\* SQLite keeps its rows, whatever it writes.
LEMMA WrittenFiles ==
    ASSUME MigrationAssumption, sqlite \in Files, Written
    PROVE  sqlite' \in Files
<1>1. CASE \E c \in Content : /\ Len(sqlite.rows) < MaxRows
                              /\ sqlite' = [sqlite EXCEPT !.rows = Append(@, c)]
  <2>1. PICK c \in Content : /\ Len(sqlite.rows) < MaxRows
                             /\ sqlite' = [sqlite EXCEPT !.rows = Append(@, c)]
    BY <1>1
  <2>2. sqlite.rows \in Corpus
    BY DEF Files
  <2> DEFINE n == Len(sqlite.rows) + 1
             s == Append(sqlite.rows, c)
  <2>3. n \in 0..MaxRows
    BY <2>1, <2>2, CorpusFacts, MigrationAssumption DEF MigrationAssumption
  <2>4. s \in Seq(Content) /\ Len(s) = n
    BY <2>2, CorpusFacts
  <2>5. s \in [1..n -> Content]
    BY <2>4, LenProperties
  <2>6. s \in Corpus
    BY <2>3, <2>5, InCorpus
  <2>7. QED
    BY <2>1, <2>6 DEF Files
<1>2. CASE \E r \in DOMAIN sqlite.rows : sqlite' = [sqlite EXCEPT !.rows[r] = 3 - @]
  <2>1. PICK r \in DOMAIN sqlite.rows : sqlite' = [sqlite EXCEPT !.rows[r] = 3 - @]
    BY <1>2
  <2>2. sqlite.rows \in Corpus
    BY DEF Files
  <2> DEFINE n == Len(sqlite.rows)
             s == [sqlite.rows EXCEPT ![r] = 3 - @]
  <2>3. n \in 0..MaxRows /\ sqlite.rows \in [1..n -> Content]
    BY <2>2, CorpusFacts
  <2>4. s \in [1..n -> Content]
    BY <2>1, <2>3 DEF Content
  <2>5. s \in Corpus
    BY <2>3, <2>4, InCorpus
  <2>6. QED
    BY <2>1, <2>5 DEF Files
<1>3. CASE sqlite' = [sqlite EXCEPT !.stamp = @ + 1]
  BY <1>3 DEF Files
<1>4. QED
  BY <1>1, <1>2, <1>3 DEF Written

\* What a fingerprint of RocksDB covers.
LEMMA CopiedType ==
    ASSUME MigrationAssumption, dest \in [Row -> {0, Retired} \cup Content]
    PROVE  Copied \in Copies
<1> DEFINE D == {r \in Row : dest[r] # 0}
           n == Cardinality(D)
<1>1. MaxRows \in Nat /\ IsFiniteSet(Row) /\ Cardinality(Row) = MaxRows
  BY FS_Interval, MigrationAssumption DEF Row, MigrationAssumption
<1>2. IsFiniteSet(D) /\ n \in Nat /\ n <= MaxRows
  BY <1>1, FS_Subset, FS_CardinalityType
<1>3. n \in 0..MaxRows
  BY <1>1, <1>2
<1>4. Copied = [r \in 1..n |-> dest[r]]
  BY DEF Copied
<1>5. Copied \in [1..n -> {0, Retired} \cup Content]
  BY <1>1, <1>3, <1>4 DEF Row
<1>6. QED
  BY <1>3, <1>5 DEF Copies

LEMMA FailuresCount ==
    ASSUME MigrationAssumption, failures \subseteq Row
    PROVE  IsFiniteSet(failures) /\ Cardinality(failures) \in 0..MaxRows
<1>1. MaxRows \in Nat /\ IsFiniteSet(Row) /\ Cardinality(Row) = MaxRows
  BY FS_Interval, MigrationAssumption DEF Row, MigrationAssumption
<1>2. QED
  BY <1>1, FS_Subset, FS_CardinalityType

\* An authority and a seal can be told apart.
LEMMA Kinds ==
    /\ \A b \in Authorities : "of" \in DOMAIN b
    /\ \A s \in Seals : "of" \notin DOMAIN s
BY DEF Authorities, Seals

\* None stands for none of them.
LEMMA NotNone ==
    ASSUME MigrationAssumption
    PROVE  /\ None # "rocksdb" /\ None # "sqlite" /\ None # "direct"
           /\ NoBackend.of # "rocksdb" /\ NoBackend.of # "sqlite"
           /\ \A b \in Authorities : b.of = "rocksdb"
           /\ \A c \in Checkpoints : c # None
           /\ \A s \in Seals : s # None
           /\ \A b \in Authorities : {b} # None
           /\ \A s \in Seals, b \in Authorities : {s, b} # None
           /\ {} # None
<1>1. \A b \in Authorities : {b} = {b, b}
  OBVIOUS
<1>2. \A b \in Authorities : {b} # None
  BY <1>1, MigrationAssumption DEF MigrationAssumption
<1>3. QED
  BY <1>2, MigrationAssumption DEF MigrationAssumption, NoBackend, Authorities
-----------------------------------------------------------------------------
(***************************************************************************)
(* Types.                                                                  *)
(***************************************************************************)
\* The steps that no request takes part in.
OtherStep ==
    \/ \E a \in Adapter : Claim(a) \/ Open(a) \/ Write(a) \/ Activate(a) \/ Stop(a)
    \/ StrayWrite
    \/ StartCopy \/ CopyRow \/ BlockRow \/ Resolve \/ CheckpointBatch \/ Complete
    \/ StartVerification \/ Compare \/ Certify
    \/ \E r \in Row : Retain(r)

LEMMA StepCases ==
    ASSUME [Next]_vars
    PROVE  \/ OtherStep
           \/ \E e \in Execution : (\E q \in Request : Send(e, q)) \/ Gate(e) \/ Commit(e)
           \/ Crash \/ UNCHANGED vars
BY DEF Next, OtherStep

\* Rows the copy is at.
LEMMA CopyAt ==
    ASSUME MigrationAssumption, TypeOK, Inv, Copying
    PROVE  /\ job.snap \in Files /\ job.snap.rows \in Corpus
           /\ Len(job.snap.rows) \in 0..MaxRows
           /\ job.snap.rows \in [1..Len(job.snap.rows) -> Content]
           /\ (More => Upcoming \in Row /\ Upcoming <= Len(job.snap.rows) /\ job.batch < MaxRows
                       /\ job.snap.rows[Upcoming] \in Content)
           /\ (job.pc = "resolve" => More)
           /\ ckpt.count + job.batch = job.through
<1>1. job.snap \in Files /\ job.snap.rows \in Corpus
  BY DEF Inv, CopyInv, Files
<1>2. Len(job.snap.rows) \in 0..MaxRows /\ job.snap.rows \in [1..Len(job.snap.rows) -> Content]
  BY <1>1, CorpusFacts
<1>3. /\ job.through \in 0..MaxRows /\ job.batch \in 0..MaxRows
      /\ ckpt.stable \in 0..MaxRows /\ ckpt.count \in 0..MaxRows
      /\ MaxRows \in Nat
  BY MigrationAssumption DEF TypeOK, Checkpoints, Jobs, MigrationAssumption
<1>4. /\ job.through = ckpt.stable + job.batch /\ ckpt.count = ckpt.stable
      /\ job.pc = "resolve" => job.through < Len(job.snap.rows)
  BY DEF Inv, CopyInv
<1> DEFINE n == Len(job.snap.rows)
<1>5. n \in Nat /\ n <= MaxRows /\ (More => Upcoming \in Nat /\ 1 <= Upcoming /\ Upcoming <= n)
  BY <1>2, <1>3 DEF More, Upcoming
<1>6. (More => Upcoming \in 1..n /\ Upcoming \in Row) /\ (job.pc = "resolve" => More)
  BY <1>3, <1>4, <1>5 DEF More, Upcoming, Row
<1>7. More => job.batch < MaxRows
  BY <1>3, <1>4, <1>5 DEF More, Upcoming
<1>8. ckpt.count + job.batch = job.through
  BY <1>4
<1>9. More => job.snap.rows[Upcoming] \in Content
  BY <1>2, <1>6
<1>10. QED
  BY <1>1, <1>2, <1>5, <1>6, <1>7, <1>8, <1>9

LEMMA AdapterTypes ==
    ASSUME MigrationAssumption, TypeOK, Inv, NEW a \in Adapter,
           Claim(a) \/ Open(a) \/ Write(a) \/ Activate(a) \/ Stop(a)
    PROVE  TypeOK'
<1>1. CASE Claim(a)
  BY <1>1 DEF TypeOK, Claim, bounds
<1>2. CASE Open(a)
  BY <1>2 DEF TypeOK, Open, bounds, Files
<1>3. CASE Write(a)
  <2>1. sqlite' \in Files
    BY <1>3, WrittenFiles DEF TypeOK, Write
  <2>2. QED
    BY <1>3, <2>1 DEF TypeOK, Write
<1>4. CASE Activate(a)
  BY <1>4 DEF TypeOK, Activate, bounds
<1>5. CASE Stop(a)
  BY <1>5 DEF TypeOK, Stop, bounds
<1>6. QED
  BY <1>1, <1>2, <1>3, <1>4, <1>5

LEMMA CopyTypes ==
    ASSUME MigrationAssumption, TypeOK, Inv,
           StartCopy \/ CopyRow \/ BlockRow \/ Resolve \/ CheckpointBatch \/ Complete
    PROVE  TypeOK'
<1>a. /\ ckpt \in Checkpoints /\ MaxRows \in Nat
      /\ ckpt.stable \in 0..MaxRows /\ ckpt.count \in 0..MaxRows /\ ckpt.failed \in 0..MaxRows
      /\ job.through \in 0..MaxRows /\ job.batch \in 0..MaxRows
  BY MigrationAssumption DEF TypeOK, Checkpoints, Jobs, MigrationAssumption
<1>b. ckpt.failed = Cardinality(failures)
  BY DEF Inv, CopyInv
<1>1. CASE StartCopy
  <2>1. ckpt' \in Checkpoints
    BY <1>1, <1>a DEF StartCopy, Checkpoints, TypeOK
  <2>2. job' \in Jobs
    <3>1. job' = [pc |-> "copy", snap |-> sqlite, through |-> ckpt.stable, batch |-> 0,
                  passed |-> FALSE]
      BY <1>1 DEF StartCopy, NoJob
    <3>2. sqlite \in Files /\ 0 \in 0..MaxRows
      BY <1>a DEF TypeOK
    <3>3. QED
      BY <3>1, <3>2, <1>a DEF Jobs
  <2>3. backend' \in {NoBackend, SqliteClaim, FreshInstall} \cup Authorities
    BY <1>1 DEF StartCopy, ClearSqlite, TypeOK
  <2>4. QED
    BY <1>1, <2>1, <2>2, <2>3 DEF StartCopy, TypeOK, bounds
<1>2. CASE CopyRow
  <2>1. Upcoming \in Row /\ job.snap.rows[Upcoming] \in Content
    BY <1>2, CopyAt, <1>a DEF CopyRow, Copying, Row, Upcoming
  <2>2. job' \in Jobs
    BY <1>2 DEF CopyRow, TypeOK, Jobs
  <2>3. QED
    BY <1>2, <2>1, <2>2 DEF CopyRow, TypeOK, bounds
<1>3. CASE BlockRow
  <2>1. Upcoming \in Row
    BY <1>3, CopyAt DEF BlockRow, Copying
  <2>2. failures' \subseteq Row
    BY <1>3, <2>1 DEF BlockRow, TypeOK
  <2>3. /\ IsFiniteSet(failures)
        /\ Cardinality(failures') = IF Upcoming \in failures THEN Cardinality(failures)
                                    ELSE Cardinality(failures) + 1
    BY <1>3, FailuresCount, FS_AddElement DEF BlockRow, TypeOK
  <2>4. Cardinality(failures') \in 0..MaxRows
    <3>1. IsFiniteSet(Row) /\ Cardinality(Row) = MaxRows
      BY FS_Interval, <1>a DEF Row
    <3>2. Cardinality(failures') \in Nat /\ Cardinality(failures') <= MaxRows
      BY <2>2, <3>1, FS_Subset, FS_CardinalityType
    <3>3. QED
      BY <3>2, <1>a
  <2>5. ckpt'.failed = Cardinality(failures')
    BY <1>3, <1>b, <2>3, <1>a DEF BlockRow, Checkpoints
  <2>6. ckpt' \in Checkpoints
    BY <1>3, <1>a, <2>4, <2>5 DEF BlockRow, Checkpoints
  <2>7. job' \in Jobs /\ faults' \in Nat
    BY <1>3, <1>a DEF BlockRow, NoJob, Jobs, TypeOK
  <2>8. QED
    BY <1>3, <2>2, <2>6, <2>7 DEF BlockRow, TypeOK
<1>4. CASE Resolve
  <2>1. More /\ Upcoming \in Row /\ job.batch < MaxRows /\ Upcoming <= MaxRows
    BY <1>4, CopyAt, <1>a DEF Resolve, Copying, Row
  <2>2. /\ IsFiniteSet(failures) /\ Cardinality(failures) \in 0..MaxRows
        /\ Upcoming \in failures => Cardinality(failures) # 0
    BY FailuresCount, FS_EmptySet DEF TypeOK
  <2>3. Upcoming \in failures => ckpt.failed - 1 \in 0..MaxRows
    BY <1>a, <1>b, <2>2
  <2>4. ckpt' \in Checkpoints
    BY <1>4, <1>a, <2>3 DEF Resolve, Checkpoints
  <2>5. job.through + 1 \in 0..MaxRows /\ job.batch + 1 \in 0..MaxRows
    BY <1>a, <2>1 DEF Upcoming
  <2>6. job' \in Jobs
    BY <1>4, <2>5 DEF Resolve, TypeOK, Jobs
  <2>7. failures' \subseteq Row
    BY <1>4 DEF Resolve, TypeOK
  <2>8. QED
    BY <1>4, <2>4, <2>6, <2>7 DEF Resolve, TypeOK, bounds
<1>5. CASE CheckpointBatch
  <2>1. ckpt' \in Checkpoints
    BY <1>5, <1>a, CopyAt DEF CheckpointBatch, Checkpoints, Copying
  <2>2. job' \in Jobs
    BY <1>5, <1>a DEF CheckpointBatch, TypeOK, Jobs
  <2>3. QED
    BY <1>5, <2>1, <2>2 DEF CheckpointBatch, TypeOK, bounds
<1>6. CASE Complete
  <2>1. job.snap \in Files /\ Copied \in Copies
    BY <1>6, CopyAt, CopiedType DEF Complete, Copying, TypeOK
  <2>2. ckpt' \in Checkpoints
    BY <1>6, <1>a, <2>1 DEF Complete, Checkpoints
  <2>3. job' \in Jobs
    BY <1>6, <1>a DEF Complete, NoJob, Jobs
  <2>4. QED
    BY <1>6, <2>2, <2>3 DEF Complete, TypeOK, bounds
<1>7. QED
  BY <1>1, <1>2, <1>3, <1>4, <1>5, <1>6

LEMMA OtherTypes == ASSUME MigrationAssumption, TypeOK, Inv, OtherStep PROVE TypeOK'
<1>a. MaxRows \in Nat /\ ckpt \in Checkpoints
  BY MigrationAssumption DEF TypeOK, MigrationAssumption
<1>1. CASE StrayWrite
  <2>1. sqlite' \in Files
    BY <1>1, WrittenFiles DEF TypeOK, StrayWrite
  <2>2. QED
    BY <1>1, <2>1 DEF TypeOK, StrayWrite
<1>2. CASE StartVerification
  <2>1. job' \in Jobs
    <3>1. job' = [pc |-> "verify", snap |-> sqlite, through |-> 0, batch |-> 0, passed |-> FALSE]
      BY <1>2 DEF StartVerification, NoJob
    <3>2. sqlite \in Files /\ 0 \in 0..MaxRows
      BY <1>a DEF TypeOK
    <3>3. QED
      BY <3>1, <3>2 DEF Jobs
  <2>2. QED
    BY <1>2, <2>1 DEF TypeOK, StartVerification, bounds
<1>3. CASE Compare
  <2>1. job' \in Jobs
    <3> DEFINE P == Copied = job.snap.rows /\ \A q \in Request : marker[q] = None
    <3>1. NoJob \in Jobs
      BY <1>a DEF NoJob, Jobs
    <3>2. job \in Jobs
      BY DEF TypeOK
    <3>3. P \in BOOLEAN
      OBVIOUS
    <3>4. job' = NoJob \/ job' = [job EXCEPT !.pc = "certify", !.passed = P]
      BY <1>3 DEF Compare
    <3> HIDE DEF P
    <3>5. [job EXCEPT !.pc = "certify", !.passed = P] \in Jobs
      BY <3>2, <3>3 DEF Jobs
    <3>6. QED
      BY <3>1, <3>4, <3>5
  <2>2. QED
    BY <1>3, <2>1 DEF TypeOK, Compare, bounds
<1>4. CASE Certify
  <2>1. ckpt' \in Checkpoints
    BY <1>4, <1>a DEF Certify, Checkpoints
  <2>2. job' \in Jobs
    BY <1>4, <1>a DEF Certify, NoJob, Jobs
  <2>3. QED
    BY <1>4, <2>1, <2>2 DEF TypeOK, Certify, bounds
<1>5. CASE \E r \in Row : Retain(r)
  BY <1>5 DEF TypeOK, Retain, bounds
<1>6. QED
  BY <1>1, <1>2, <1>3, <1>4, <1>5, AdapterTypes, CopyTypes DEF OtherStep

\* A request execution keeps its type however it goes on.
LEMMA ExecutionTypes ==
    ASSUME MigrationAssumption, TypeOK, NEW e \in Execution
    PROVE  /\ NoExecution \in Executions
           /\ \A how \in {"stored", "refused", "blocked"} :
                End(e, how) => exec' \in [Execution -> Executions]
           /\ \A T \in Transitions, fresh, seals \in BOOLEAN, state \in Checkpoints \cup {None} :
                Plan(e, T, fresh, state, seals) => exec' \in [Execution -> Executions]
<1>1. {} \in Transitions
  BY DEF Transitions
<1>2. NoExecution \in Executions
  BY <1>1 DEF NoExecution, Executions
<1>3. exec \in [Execution -> Executions] /\ exec[e] \in Executions
  BY DEF TypeOK
<1>4. ASSUME NEW how \in {"stored", "refused", "blocked"}, End(e, how)
      PROVE  exec' \in [Execution -> Executions]
  <2> DEFINE x == [NoExecution EXCEPT !.pc = how, !.request = exec[e].request,
                                      !.stored = exec[e].stored]
  <2>1. x \in Executions
    BY <1>2, <1>3 DEF Executions
  <2>2. exec' = [exec EXCEPT ![e] = x]
    BY <1>4 DEF End
  <2> HIDE DEF x
  <2>3. QED
    BY <1>3, <2>1, <2>2
<1>5. ASSUME NEW T \in Transitions, NEW fresh \in BOOLEAN, NEW seals \in BOOLEAN,
             NEW state \in Checkpoints \cup {None}, Plan(e, T, fresh, state, seals)
      PROVE  exec' \in [Execution -> Executions]
  BY <1>3, <1>5 DEF Plan, Executions
<1>6. QED
  BY <1>2, <1>4, <1>5

\* What the phase says of the checkpoint and of the authority.
LEMMA PhaseFacts ==
    ASSUME MigrationAssumption, TypeOK, Inv
    PROVE  /\ Phase = "rocksdb-authority" <=> seal # None
           /\ Phase = "not-started" => seal = None /\ ~Started
           /\ Phase = "offline-ready" => /\ seal = None /\ ckpt.phase = "offline-ready"
                                         /\ Started /\ sqlite.rows = ckpt.verified
           /\ seal # None => Rocks /\ backend \in Authorities
           /\ Rocks => Phase \in {"not-started", "rocksdb-authority"}
<1>1. ckpt.phase \in {"not-started", "offline-copy", "offline-verification", "offline-ready",
                      "blocked"}
  BY DEF TypeOK, Checkpoints
<1>2. seal # None => Rocks /\ backend \in Authorities
  BY NotNone DEF Inv, AuthorityInv, Rocks
<1>3. Rocks => ~Started \/ seal # None
  BY DEF Inv, AuthorityInv
<1>4. QED
  BY <1>1, <1>2, <1>3 DEF Phase, Eligible, Started

\* The backend record, case by case.
LEMMA BackendCases ==
    ASSUME MigrationAssumption, TypeOK
    PROVE  /\ Rocks <=> backend = FreshInstall \/ backend \in Authorities
           /\ backend.of = "sqlite" <=> backend = SqliteClaim
           /\ backend.reason = "direct" => backend \in Authorities
           /\ backend = NoBackend => ~Rocks /\ backend.of # "sqlite"
           /\ FreshInstall.of = "rocksdb" /\ SqliteClaim.of = "sqlite"
<1>1. backend \in {NoBackend, SqliteClaim, FreshInstall} \cup Authorities
  BY DEF TypeOK
<1>2. /\ FreshInstall.of = "rocksdb" /\ SqliteClaim.of = "sqlite" /\ NoBackend.of = None
      /\ FreshInstall.reason = "fresh-install" /\ SqliteClaim.reason = "selection"
      /\ NoBackend.reason = None
  BY DEF FreshInstall, SqliteClaim, NoBackend
<1>3. QED
  BY <1>1, <1>2, NotNone DEF Rocks

\* What a commit does: nothing to the authority, or one of three admissions.
Unwritten(e) ==
    /\ UNCHANGED <<marker, backend, seal>>
    /\ \/ marker[exec[e].request] = exec[e].transitions /\ End(e, "stored")
       \/ exec' = [exec EXCEPT ![e].pc = "gate", ![e].attempt = 2]
       \/ marker[exec[e].request] # exec[e].transitions /\ End(e, "refused")
       \/ marker[exec[e].request] = None /\ End(e, "refused")
Ordinary(e) ==
    /\ Replays(e) /\ exec[e].transitions = {} /\ UNCHANGED <<backend, seal>>
Claiming(e) ==
    \E b \in Authorities :
      /\ ~Started /\ backend = NoBackend /\ seal = None
      /\ b.reason = "direct" /\ b.request = exec[e].request /\ exec[e].transitions = {b}
      /\ backend' = b /\ seal' = None
Sealing(e) ==
    \E s \in Seals, b \in Authorities :
      /\ ckpt.phase = "offline-ready" /\ backend = NoBackend /\ seal = None
      /\ b.reason = "migration-authority" /\ s.request = exec[e].request
      /\ exec[e].transitions = {s, b}
      /\ backend' = b /\ seal' = s

LEMMA CommitCases ==
    ASSUME MigrationAssumption, TypeOK, Inv, NEW e \in Execution, Commit(e)
    PROVE  /\ exec[e].request \in Request /\ Exclusive
           /\ \/ Unwritten(e)
              \/ /\ marker[exec[e].request] = None /\ End(e, "stored")
                 /\ marker' = [marker EXCEPT ![exec[e].request] = exec[e].transitions]
                 /\ Ordinary(e) \/ Claiming(e) \/ Sealing(e)
<1> DEFINE q == exec[e].request
           T == exec[e].transitions
<1>1. q \in Request /\ Exclusive /\ (Replays(e) \/ ClaimsIt(e) \/ SealsIt(e))
  BY DEF Commit, Inv, ExecInv, Sound, Busy
<1>2. seal # None => Rocks
  BY PhaseFacts
<1>3. backend = NoBackend => ~Rocks
  BY BackendCases
<1>4. CASE ~(marker[q] = None /\ Holds(e))
  BY <1>1, <1>4 DEF Commit, Unwritten
<1>5. CASE marker[q] = None /\ Holds(e)
  <2>1. /\ marker' = [marker EXCEPT ![q] = T] /\ Transition(e) /\ End(e, "stored")
    BY <1>5 DEF Commit
  <2>2. CASE Replays(e)
    <3>1. T = {}
      BY <1>3, <1>5, <2>2 DEF Holds, Replays
    <3>2. UNCHANGED <<backend, seal>>
      BY <2>1, <3>1 DEF Transition
    <3>3. QED
      BY <1>1, <1>5, <2>1, <2>2, <3>1, <3>2 DEF Ordinary
  <2>3. CASE ClaimsIt(e)
    <3>1. PICK b \in Authorities : b.reason = "direct" /\ b.request = q /\ T = {b}
      BY <2>3 DEF ClaimsIt
    <3>2. ~Started /\ backend = NoBackend /\ seal = None
      BY <1>2, <1>3, <1>5, <2>3 DEF Holds, ClaimsIt
    <3>3. backend' = b
      BY <2>1, <3>1, Kinds DEF Transition
    <3>4. seal' = seal
      BY <2>1, <3>1, Kinds DEF Transition
    <3>5. Claiming(e)
      BY <3>1, <3>2, <3>3, <3>4 DEF Claiming
    <3>6. QED
      BY <1>1, <1>5, <2>1, <3>5
  <2>4. CASE SealsIt(e)
    <3>1. PICK s \in Seals, b \in Authorities :
            b.reason = "migration-authority" /\ s.request = q /\ T = {s, b}
      BY <2>4 DEF SealsIt
    <3>2. exec[e].state = ckpt /\ ckpt.phase = "offline-ready"
      BY <1>5, <2>4, NotNone DEF Holds, SealsIt
    <3>3. backend = NoBackend /\ seal = None
      BY <1>2, <1>3, <1>5, <3>1 DEF Holds
    <3>4. backend' = b
      BY <2>1, <3>1, Kinds DEF Transition
    <3>5. seal' = s
      BY <2>1, <3>1, Kinds DEF Transition
    <3>6. Sealing(e)
      BY <3>1, <3>2, <3>3, <3>4, <3>5 DEF Sealing
    <3>7. QED
      BY <1>1, <1>5, <2>1, <3>6
  <2>5. QED
    BY <1>1, <2>2, <2>3, <2>4
<1>6. QED
  BY <1>4, <1>5

Sent(q) == [NoExecution EXCEPT !.pc = "gate", !.request = q, !.stored = marker[q] # None]

LEMMA SendStep ==
    ASSUME NEW e, NEW q, Send(e, q)
    PROVE  /\ exec' = [exec EXCEPT ![e] = Sent(q)]
           /\ UNCHANGED <<sqlite, adapter, backend, ckpt, failures, dest, seal, marker, job,
                          bounds>>
BY DEF Send, Sent

LEMMA GateTypes ==
    ASSUME MigrationAssumption, TypeOK, Inv, NEW e \in Execution, Gate(e)
    PROVE  exec' \in [Execution -> Executions]
<1> DEFINE q == exec[e].request
<1>1. q \in Request /\ <<e, exec[e].attempt>> \in Execution \X {1, 2}
  BY DEF Gate, Inv, ExecInv, Sound, Busy, TypeOK, Executions
<1>2. /\ Authority(e, "direct") \in Authorities
      /\ Authority(e, "migration-authority") \in Authorities /\ Seal(e) \in Seals
  BY <1>1 DEF Authority, Seal, Authorities, Seals
<1>3. /\ {Authority(e, "direct")} \in Transitions
      /\ {Seal(e), Authority(e, "migration-authority")} \in Transitions
      /\ {} \in Transitions
  BY <1>2 DEF Transitions
<1>4. {b \in {backend} : b.reason = "direct" /\ b.request = q} \in Transitions
  BY BackendCases DEF Transitions
<1>5. seal # None => {seal, backend} \in Transitions
  BY PhaseFacts DEF TypeOK, Transitions
<1>6. ckpt \in Checkpoints
  BY DEF TypeOK
<1>7. CASE End(e, "blocked")
  BY <1>7, ExecutionTypes
<1>8. CASE Plan(e, {b \in {backend} : b.reason = "direct" /\ b.request = q}, FALSE, None, FALSE)
  BY <1>4, <1>8, ExecutionTypes
<1>9. CASE Plan(e, {Authority(e, "direct")}, TRUE, None, TRUE)
  BY <1>3, <1>9, ExecutionTypes
<1>10. CASE seal # None /\ Plan(e, IF seal.request = q THEN {seal, backend} ELSE {},
                                FALSE, None, FALSE)
  <2>1. (IF seal.request = q THEN {seal, backend} ELSE {}) \in Transitions
    BY <1>3, <1>5, <1>10
  <2>2. QED
    BY <1>10, <2>1, ExecutionTypes
<1>11. CASE Plan(e, {Seal(e), Authority(e, "migration-authority")}, FALSE, ckpt, TRUE)
  BY <1>3, <1>6, <1>11, ExecutionTypes
<1>12. QED
  BY <1>7, <1>8, <1>9, <1>10, <1>11, PhaseFacts DEF Gate

LEMMA RequestTypes ==
    ASSUME MigrationAssumption, TypeOK, Inv, NEW e \in Execution,
           (\E q \in Request : Send(e, q)) \/ Gate(e) \/ Commit(e)
    PROVE  TypeOK'
<1>1. CASE \E q \in Request : Send(e, q)
  <2>1. PICK q \in Request : Send(e, q)
    BY <1>1
  <2>2. (marker[q] # None) \in BOOLEAN
    OBVIOUS
  <2>3. Sent(q) \in Executions
    BY <2>2, ExecutionTypes DEF Executions, Sent
  <2>4. exec' = [exec EXCEPT ![e] = Sent(q)]
    BY <2>1, SendStep
  <2>5. exec' \in [Execution -> Executions]
    BY <2>3, <2>4 DEF TypeOK
  <2>6. UNCHANGED <<sqlite, adapter, backend, ckpt, failures, dest, seal, marker, job, bounds>>
    BY <2>1, SendStep
  <2>7. QED
    BY <2>5, <2>6 DEF TypeOK, bounds
<1>2. CASE Gate(e)
  <2>1. exec' \in [Execution -> Executions]
    BY <1>2, GateTypes
  <2>2. QED
    BY <1>2, <2>1 DEF Gate, TypeOK, bounds
<1>3. CASE Commit(e)
  <2>1. exec[e] \in Executions
    BY DEF TypeOK
  <2>2. exec' \in [Execution -> Executions]
    <3>1. CASE exec' = [exec EXCEPT ![e].pc = "gate", ![e].attempt = 2]
      BY <2>1, <3>1 DEF TypeOK, Executions
    <3>2. QED
      BY <1>3, <3>1, CommitCases, ExecutionTypes DEF Unwritten
  <2>3. marker' \in [Request -> {None} \cup Transitions]
    <3>1. exec[e].transitions \in Transitions
      BY <2>1 DEF Executions
    <3>2. marker \in [Request -> {None} \cup Transitions]
      BY DEF TypeOK
    <3>3. UNCHANGED marker \/ marker' = [marker EXCEPT ![exec[e].request] = exec[e].transitions]
      BY <1>3, CommitCases DEF Unwritten
    <3>4. QED
      BY <3>1, <3>2, <3>3
  <2>4. /\ backend' \in {NoBackend, SqliteClaim, FreshInstall} \cup Authorities
        /\ seal' \in Seals \cup {None}
    BY <1>3, CommitCases DEF Unwritten, Ordinary, Claiming, Sealing, TypeOK
  <2>5. QED
    BY <1>3, <2>2, <2>3, <2>4 DEF Commit, TypeOK, bounds
<1>4. QED
  BY <1>1, <1>2, <1>3

LEMMA TypeStep == ASSUME MigrationAssumption, TypeOK, Inv, [Next]_vars PROVE TypeOK'
<1>1. CASE Crash
  <2>1. NoJob \in Jobs
    BY MigrationAssumption DEF NoJob, Jobs, MigrationAssumption
  <2>2. exec' \in [Execution -> Executions]
    <3>1. {} \in Transitions
      BY DEF Transitions
    <3>2. NoExecution \in Executions
      BY <3>1 DEF NoExecution, Executions
    <3>3. QED
      BY <1>1, <3>2 DEF Crash
  <2>3. QED
    BY <1>1, <2>1, <2>2 DEF Crash, TypeOK
<1>2. CASE UNCHANGED vars
  BY <1>2 DEF vars, TypeOK
<1>3. QED
  BY <1>1, <1>2, OtherTypes, RequestTypes, StepCases
-----------------------------------------------------------------------------
(***************************************************************************)
(* Authority, markers and executions.                                      *)
(***************************************************************************)
\* Who selects SQLite has it, and who selects RocksDB takes it from nobody.
LEMMA SelectionStep ==
    ASSUME MigrationAssumption, TypeOK, Inv, NEW a \in Adapter
    PROVE  /\ Claim(a) => backend' = SqliteClaim /\ seal = None
           /\ Activate(a) => \/ backend' = backend
                             \/ backend = NoBackend /\ backend' = FreshInstall /\ seal = None
                                /\ ~Started
<1>1. ASSUME Claim(a) PROVE backend' = SqliteClaim /\ seal = None
  <2>1. backend \in {NoBackend, SqliteClaim}
    BY <1>1, BackendCases DEF Claim, Rocks, TypeOK
  <2>2. seal = None
    BY <1>1, PhaseFacts DEF Claim
  <2>3. QED
    BY <1>1, <2>1, <2>2 DEF Claim
<1>2. ASSUME Activate(a)
      PROVE  \/ backend' = backend
             \/ backend = NoBackend /\ backend' = FreshInstall /\ seal = None /\ ~Started
  <2>1. CASE backend.of = "rocksdb"
    BY <1>2, <2>1 DEF Activate
  <2>2. CASE backend.of # "rocksdb"
    <3>1. backend = NoBackend
      BY <1>2, <2>2, BackendCases DEF Activate, Rocks, TypeOK
    <3>2. QED
      BY <1>2, <2>2, <3>1, PhaseFacts DEF Activate
  <2>3. QED
    BY <2>1, <2>2
<1>3. QED
  BY <1>1, <1>2

LEMMA OtherFrame ==
    ASSUME MigrationAssumption, TypeOK, Inv, OtherStep
    PROVE  UNCHANGED <<seal, marker, exec>> /\ (Rocks => backend' = backend)
<1>1. ASSUME NEW a \in Adapter, Claim(a)
      PROVE  UNCHANGED <<seal, marker, exec>> /\ (Rocks => backend' = backend)
  BY <1>1 DEF Claim, Rocks
<1>2. ASSUME NEW a \in Adapter, Activate(a)
      PROVE  UNCHANGED <<seal, marker, exec>> /\ (Rocks => backend' = backend)
  BY <1>2 DEF Activate, Rocks
<1>3. ASSUME NEW a \in Adapter, Open(a) \/ Write(a) \/ Stop(a)
      PROVE  UNCHANGED <<seal, marker, exec>> /\ (Rocks => backend' = backend)
  BY <1>3 DEF Open, Write, Stop
<1>4. CASE StartCopy
  BY <1>4 DEF StartCopy, Rocks
<1>5. CASE CopyRow \/ BlockRow \/ Resolve \/ CheckpointBatch \/ Complete
  BY <1>5 DEF CopyRow, BlockRow, Resolve, CheckpointBatch, Complete
<1>6. CASE StrayWrite \/ StartVerification \/ Compare \/ Certify \/ \E r \in Row : Retain(r)
  BY <1>6 DEF StrayWrite, StartVerification, Compare, Certify, Retain
<1>7. QED
  BY <1>1, <1>2, <1>3, <1>4, <1>5, <1>6 DEF OtherStep

\* A request takes part in nothing else.
LEMMA RequestFrame ==
    ASSUME MigrationAssumption, TypeOK, Inv, NEW e \in Execution,
           (\E q \in Request : Send(e, q)) \/ Gate(e) \/ Commit(e)
    PROVE  /\ UNCHANGED <<sqlite, adapter, ckpt, failures, dest, job, strays>>
           /\ ~Commit(e) => UNCHANGED <<backend, seal, marker>>
BY SendStep DEF Gate, Commit, bounds

\* RocksDB keeps the authority.
LEMMA RocksStays ==
    ASSUME MigrationAssumption, TypeOK, Inv, [Next]_vars
    PROVE  /\ Rocks => backend' = backend /\ seal' = seal /\ Rocks'
           /\ \A q \in Request : marker[q] # None => marker'[q] = marker[q]
<1>1. CASE OtherStep
  BY <1>1, OtherFrame DEF Rocks
<1>2. ASSUME NEW e \in Execution, (\E q \in Request : Send(e, q)) \/ Gate(e) \/ Commit(e)
      PROVE  /\ Rocks => backend' = backend /\ seal' = seal
             /\ \A q \in Request : marker[q] # None => marker'[q] = marker[q]
  <2>1. CASE Commit(e)
    <3>1. /\ exec[e].request \in Request
          /\ \/ Unwritten(e)
             \/ /\ marker[exec[e].request] = None
                /\ marker' = [marker EXCEPT ![exec[e].request] = exec[e].transitions]
                /\ Ordinary(e) \/ Claiming(e) \/ Sealing(e)
      BY <2>1, CommitCases
    <3>2. Rocks => UNCHANGED <<backend, seal>>
      BY <3>1, BackendCases DEF Unwritten, Ordinary, Claiming, Sealing
    <3>3. \A q \in Request : marker[q] # None => marker'[q] = marker[q]
      BY <3>1 DEF Unwritten, TypeOK
    <3>4. QED
      BY <3>2, <3>3
  <2>2. CASE ~Commit(e)
    BY <1>2, <2>2, RequestFrame
  <2>3. QED
    BY <2>1, <2>2
<1>3. CASE Crash \/ UNCHANGED vars
  BY <1>3 DEF Crash, vars, Rocks
<1>4. QED
  BY <1>1, <1>2, <1>3, StepCases DEF Rocks

LEMMA AuthorityStep ==
    ASSUME MigrationAssumption, TypeOK, Inv, [Next]_vars PROVE AuthorityInv'
<1>0. /\ AuthorityInv
      /\ seal # None => Rocks /\ backend \in Authorities
      /\ Rocks => ~Started \/ seal # None
      /\ job.pc # "idle" => Started /\ seal = None /\ ~Rocks
  BY PhaseFacts DEF Inv, AuthorityInv
<1>1. ASSUME NEW a \in Adapter, Claim(a) PROVE AuthorityInv'
  <2>1. backend' = SqliteClaim /\ seal' = None /\ UNCHANGED <<ckpt, job>> /\ Exclusive
    BY <1>1, SelectionStep DEF Claim
  <2>2. SqliteClaim.of = "sqlite"
    BY DEF SqliteClaim
  <2>3. QED
    BY <2>1, <2>2 DEF AuthorityInv, Rocks, Started, Exclusive
<1>2. ASSUME NEW a \in Adapter, Open(a) \/ Write(a) \/ Stop(a) PROVE AuthorityInv'
  <2>1. UNCHANGED <<backend, seal, ckpt, job>>
    BY <1>2 DEF Open, Write, Stop
  <2>2. \A x \in Adapter :
          adapter'[x] \in {"claimed", "sqlite"} => adapter[x] \in {"claimed", "sqlite"}
    BY <1>2 DEF Open, Write, Stop, TypeOK
  <2>3. QED
    BY <1>0, <2>1, <2>2 DEF AuthorityInv, Rocks, Started
<1>3. ASSUME NEW a \in Adapter, Activate(a) PROVE AuthorityInv'
  <2>1. UNCHANGED <<seal, ckpt, job>> /\ Exclusive
    BY <1>3 DEF Activate
  <2>2. \A x \in Adapter :
          adapter'[x] \in {"claimed", "sqlite"} => adapter[x] \in {"claimed", "sqlite"}
    BY <1>3 DEF Activate, TypeOK
  <2>3. CASE backend' = backend
    BY <1>0, <2>1, <2>2, <2>3 DEF AuthorityInv, Rocks, Started
  <2>4. CASE backend = NoBackend /\ backend' = FreshInstall /\ seal = None /\ ~Started
    <3>1. \A x \in Adapter : adapter'[x] \notin {"claimed", "sqlite"}
      BY <1>0, <2>2, <2>4, BackendCases DEF AuthorityInv
    <3>2. QED
      BY <2>1, <2>4, <3>1 DEF AuthorityInv, Rocks, Started, Exclusive
  <2>5. QED
    BY <1>3, <2>3, <2>4, SelectionStep
<1>4. CASE StartCopy
  <2>1. /\ \A x \in Adapter : adapter'[x] \notin {"claimed", "sqlite"}
        /\ seal' = None /\ ckpt'.phase = "offline-copy" /\ backend'.of # "rocksdb"
    <3>1. ckpt'.phase = "offline-copy"
      BY <1>4 DEF StartCopy, TypeOK, Checkpoints
    <3>2. seal' = None
      BY <1>4, PhaseFacts DEF StartCopy
    <3>3. backend'.of # "rocksdb"
      BY <1>4, NotNone DEF StartCopy, ClearSqlite
    <3>4. QED
      BY <1>4, <3>1, <3>2, <3>3 DEF StartCopy
  <2>2. QED
    BY <2>1 DEF AuthorityInv, Rocks, Started
<1>5. CASE CopyRow \/ BlockRow \/ Resolve \/ CheckpointBatch \/ Complete \/ Compare \/ Certify
  <2>1. job.pc # "idle" /\ UNCHANGED <<backend, seal, adapter>>
    BY <1>5 DEF CopyRow, BlockRow, Resolve, CheckpointBatch, Complete, Compare, Certify
  <2>2. Started'
    BY <1>0, <1>5, <2>1 DEF CopyRow, BlockRow, Resolve, CheckpointBatch, Complete, Compare,
                            Certify, Started, TypeOK, Checkpoints
  <2>3. QED
    BY <1>0, <2>1, <2>2 DEF AuthorityInv, Rocks
<1>6. CASE StartVerification
  <2>1. seal = None /\ Started
    BY <1>6, PhaseFacts DEF StartVerification
  <2>2. UNCHANGED <<backend, seal, adapter, ckpt>>
    BY <1>6 DEF StartVerification
  <2>3. QED
    BY <1>0, <2>1, <2>2 DEF AuthorityInv, Rocks, Started
<1>7. CASE StrayWrite \/ (\E r \in Row : Retain(r)) \/ UNCHANGED vars
  BY <1>0, <1>7 DEF StrayWrite, Retain, vars, AuthorityInv, Rocks, Started
<1>8. CASE Crash
  <2>1. UNCHANGED <<backend, seal, adapter, ckpt>> /\ job'.pc = "idle"
    BY <1>8 DEF Crash, NoJob
  <2>2. QED
    BY <1>0, <2>1 DEF AuthorityInv, Rocks, Started
<1>9. ASSUME NEW e \in Execution, (\E q \in Request : Send(e, q)) \/ Gate(e) \/ Commit(e)
      PROVE  AuthorityInv'
  <2>1. UNCHANGED <<adapter, ckpt, job>>
    BY <1>9, RequestFrame
  <2>2. CASE UNCHANGED <<backend, seal>>
    BY <1>0, <2>1, <2>2 DEF AuthorityInv, Rocks, Started
  <2>3. CASE Exclusive /\ Claiming(e)
    <3>1. ~Started /\ seal' = None /\ backend = NoBackend
      BY <2>3 DEF Claiming
    <3>2. \A x \in Adapter : adapter[x] \notin {"claimed", "sqlite"}
      BY <1>0, <3>1, BackendCases DEF AuthorityInv
    <3>3. QED
      BY <2>1, <2>3, <3>1, <3>2 DEF AuthorityInv, Rocks, Started, Exclusive
  <2>4. CASE Exclusive /\ Sealing(e)
    <3>1. /\ backend = NoBackend /\ seal' # None
          /\ backend' \in Authorities /\ backend'.reason = "migration-authority"
      BY <2>4, NotNone DEF Sealing
    <3>2. \A x \in Adapter : adapter[x] \notin {"claimed", "sqlite"}
      BY <1>0, <3>1, BackendCases DEF AuthorityInv
    <3>3. QED
      BY <2>1, <2>4, <3>1, <3>2 DEF AuthorityInv, Rocks, Started, Exclusive
  <2>5. CASE Commit(e)
    BY <2>2, <2>3, <2>4, <2>5, CommitCases DEF Unwritten, Ordinary
  <2>6. CASE ~Commit(e)
    BY <1>9, <2>2, <2>6, RequestFrame
  <2>7. QED
    BY <2>5, <2>6
<1>10. QED
  BY <1>1, <1>2, <1>3, <1>4, <1>5, <1>6, <1>7, <1>8, <1>9, StepCases DEF OtherStep

LEMMA MarkerStep ==
    ASSUME MigrationAssumption, TypeOK, Inv, [Next]_vars PROVE MarkerInv'
<1> SUFFICES ASSUME NEW q \in Request, marker'[q] # None
             PROVE  Rocks' /\ marker'[q] = Recorded(q)'
  BY DEF MarkerInv
<1>1. CASE marker[q] # None
  <2>1. Rocks /\ marker[q] = Recorded(q)
    BY <1>1 DEF Inv, MarkerInv
  <2>2. Rocks' /\ marker'[q] = marker[q] /\ UNCHANGED <<backend, seal>>
    BY <1>1, <2>1, RocksStays
  <2>3. QED
    BY <2>1, <2>2 DEF Recorded
<1>2. CASE marker[q] = None
  <2>1. PICK e \in Execution : Commit(e)
    <3>1. CASE OtherStep
      BY <1>2, <3>1, OtherFrame
    <3>2. CASE Crash \/ UNCHANGED vars
      BY <1>2, <3>2 DEF Crash, vars
    <3>3. QED
      BY <1>2, <3>1, <3>2, StepCases, RequestFrame
  <2>2. /\ exec[e].request = q /\ marker'[q] = exec[e].transitions
        /\ Ordinary(e) \/ Claiming(e) \/ Sealing(e)
    BY <1>2, <2>1, CommitCases DEF Unwritten, TypeOK
  <2>3. CASE Ordinary(e)
    <3>1. Rocks /\ exec[e].transitions = Recorded(q) /\ UNCHANGED <<backend, seal>>
      BY <2>2, <2>3 DEF Ordinary, Replays
    <3>2. QED
      BY <2>2, <3>1 DEF Recorded, Rocks
  <2>4. CASE Claiming(e)
    <3>1. PICK b \in Authorities :
            /\ b.reason = "direct" /\ b.request = q /\ exec[e].transitions = {b}
            /\ backend' = b /\ seal' = None
      BY <2>2, <2>4 DEF Claiming
    <3>2. QED
      BY <2>2, <3>1, NotNone DEF Recorded, Rocks
  <2>5. CASE Sealing(e)
    <3>1. PICK s \in Seals, b \in Authorities :
            s.request = q /\ exec[e].transitions = {s, b} /\ backend' = b /\ seal' = s
      BY <2>2, <2>5 DEF Sealing
    <3>2. QED
      BY <2>2, <3>1, NotNone DEF Recorded, Rocks
  <2>6. QED
    BY <2>2, <2>3, <2>4, <2>5
<1>3. QED
  BY <1>1, <1>2

\* An execution that does nothing is not disturbed by the step of another.
LEMMA SoundStays ==
    ASSUME MigrationAssumption, TypeOK, Inv, [Next]_vars, NEW e \in Execution, exec'[e] = exec[e]
    PROVE  Sound(e)'
<1>1. Sound(e)
  BY DEF Inv, ExecInv
<1>2. Busy(e)' <=> Busy(e)
  BY DEF Busy
<1>3. Replays(e) => Replays(e)'
  <2>1. Rocks => Rocks' /\ UNCHANGED <<backend, seal>>
    BY RocksStays
  <2>2. QED
    BY <2>1 DEF Replays, Recorded
<1>4. (ClaimsIt(e) => ClaimsIt(e)') /\ (SealsIt(e) => SealsIt(e)')
  BY DEF ClaimsIt, SealsIt
<1>5. Busy(e) /\ marker[exec[e].request] # None => marker'[exec[e].request] # None
  BY <1>1, RocksStays DEF Sound
<1>6. QED
  BY <1>1, <1>2, <1>3, <1>4, <1>5 DEF Sound

\* What the gate plans is one of the three, and for a stored request what is recorded.
LEMMA GateStep ==
    ASSUME MigrationAssumption, TypeOK, Inv, NEW e \in Execution, Gate(e)
    PROVE  Sound(e)'
<1> DEFINE q == exec[e].request
<1>1. /\ exec[e] \in Executions /\ exec \in [Execution -> Executions]
      /\ q \in Request /\ <<e, exec[e].attempt>> \in Execution \X {1, 2}
      /\ exec[e].stored => marker[q] # None
  BY DEF Gate, Inv, ExecInv, Sound, Busy, TypeOK, Executions
<1>2. UNCHANGED <<backend, seal, marker, ckpt>>
  BY DEF Gate
<1>3. marker[q] # None => Rocks
  BY <1>1 DEF Inv, MarkerInv
<1>4. /\ Authority(e, "direct") \in Authorities /\ Authority(e, "direct").reason = "direct"
      /\ Authority(e, "direct").request = q
      /\ Authority(e, "migration-authority") \in Authorities
      /\ Authority(e, "migration-authority").reason = "migration-authority"
      /\ Seal(e) \in Seals /\ Seal(e).request = q
  BY <1>1 DEF Authority, Seal, Authorities, Seals
<1>5. ASSUME NEW T, NEW fresh, NEW state, NEW seals, Plan(e, T, fresh, state, seals)
      PROVE  /\ exec'[e].pc = "commit" /\ exec'[e].transitions = T /\ exec'[e].fresh = fresh
             /\ exec'[e].state = state /\ exec'[e].request = q
             /\ exec'[e].stored = exec[e].stored
  BY <1>1, <1>5 DEF Plan, Executions
<1>6. CASE ~exec[e].stored /\ End(e, "blocked")
  <2>1. exec'[e].pc = "blocked" /\ exec'[e].stored = exec[e].stored
    BY <1>1, <1>6 DEF End, NoExecution
  <2>2. QED
    BY <1>6, <2>1 DEF Sound, Busy
<1>7. CASE \E T : Rocks /\ T = Recorded(q) /\ Plan(e, T, FALSE, None, FALSE)
  <2>1. PICK T : Rocks /\ T = Recorded(q) /\ Plan(e, T, FALSE, None, FALSE)
    BY <1>7
  <2>2. exec'[e].transitions = Recorded(q)' /\ exec'[e].request = q /\ Rocks'
    BY <1>2, <1>5, <2>1 DEF Recorded, Rocks
  <2>3. Replays(e)'
    BY <2>2 DEF Replays
  <2>4. QED
    BY <1>1, <1>2, <1>5, <2>1, <2>3 DEF Sound, Busy
<1>8. CASE ~exec[e].stored /\ Plan(e, {Authority(e, "direct")}, TRUE, None, TRUE)
  <2>1. ClaimsIt(e)'
    BY <1>4, <1>5, <1>8 DEF ClaimsIt
  <2>2. QED
    BY <1>1, <1>5, <1>8, <2>1 DEF Sound, Busy
<1>9. CASE /\ ~exec[e].stored /\ ckpt.phase = "offline-ready"
           /\ Plan(e, {Seal(e), Authority(e, "migration-authority")}, FALSE, ckpt, TRUE)
  <2>1. ckpt \in Checkpoints
    BY DEF TypeOK
  <2>2. SealsIt(e)'
    <3>1. /\ exec'[e].transitions = {Seal(e), Authority(e, "migration-authority")}
          /\ exec'[e].fresh = FALSE /\ exec'[e].state = ckpt /\ exec'[e].request = q
      BY <1>5, <1>9
    <3>2. \E s \in Seals, b \in Authorities :
            /\ b.reason = "migration-authority" /\ s.request = q
            /\ exec'[e].transitions = {s, b}
      BY <1>4, <3>1
    <3>3. QED
      BY <1>9, <2>1, <3>1, <3>2 DEF SealsIt
  <2>3. QED
    BY <1>1, <1>5, <1>9, <2>2 DEF Sound, Busy
<1>10. CASE backend.of = "sqlite"
  <2>1. ~Rocks /\ End(e, "blocked")
    BY <1>10 DEF Gate, Rocks
  <2>2. QED
    BY <1>1, <1>3, <1>6, <2>1
<1>11. CASE backend.of # "sqlite" /\ Phase = "not-started"
  <2>1. CASE Rocks
    <3>1. seal = None
      BY <1>11, PhaseFacts
    <3>2. Plan(e, {b \in {backend} : b.reason = "direct" /\ b.request = q}, FALSE, None, FALSE)
      BY <1>11, <2>1 DEF Gate, Rocks
    <3>3. QED
      BY <1>7, <2>1, <3>1, <3>2 DEF Recorded
  <2>2. CASE ~Rocks
    BY <1>1, <1>3, <1>8, <1>11, <2>2 DEF Gate, Rocks
  <2>3. QED
    BY <2>1, <2>2
<1>12. CASE backend.of # "sqlite" /\ Phase = "rocksdb-authority"
  <2>1. seal # None /\ Rocks
    BY <1>12, PhaseFacts
  <2>2. Plan(e, IF seal.request = q THEN {seal, backend} ELSE {}, FALSE, None, FALSE)
    BY <1>12 DEF Gate
  <2>3. QED
    BY <1>7, <2>1, <2>2 DEF Recorded
<1>13. CASE backend.of # "sqlite" /\ Phase \notin {"not-started", "rocksdb-authority"}
  <2>1. ~Rocks /\ ~exec[e].stored
    BY <1>1, <1>3, <1>13, PhaseFacts
  <2>2. Phase = "offline-ready" => ckpt.phase = "offline-ready"
    BY PhaseFacts
  <2>3. \/ End(e, "blocked")
        \/ /\ Phase = "offline-ready"
           /\ Plan(e, {Seal(e), Authority(e, "migration-authority")}, FALSE, ckpt, TRUE)
    BY <1>13 DEF Gate
  <2>4. QED
    BY <1>6, <1>9, <2>1, <2>2, <2>3
<1>14. QED
  BY <1>10, <1>11, <1>12, <1>13

LEMMA ExecStep ==
    ASSUME MigrationAssumption, TypeOK, Inv, [Next]_vars PROVE ExecInv'
<1> SUFFICES ASSUME NEW x \in Execution PROVE Sound(x)'
  BY DEF ExecInv
<1>1. CASE OtherStep \/ UNCHANGED vars
  <2>1. exec' = exec
    BY <1>1, OtherFrame DEF vars
  <2>2. QED
    BY <2>1, SoundStays
<1>2. CASE Crash
  <2>1. exec'[x] = NoExecution
    BY <1>2 DEF Crash
  <2>2. QED
    BY <2>1 DEF Sound, Busy, NoExecution
<1>3. ASSUME NEW e \in Execution, Gate(e) PROVE Sound(x)'
  <2>1. x # e => exec'[x] = exec[x]
    <3>1. ASSUME NEW how, End(e, how) PROVE x # e => exec'[x] = exec[x]
      BY <3>1 DEF End, TypeOK
    <3>2. ASSUME NEW T, NEW fresh, NEW state, NEW seals, Plan(e, T, fresh, state, seals)
          PROVE  x # e => exec'[x] = exec[x]
      BY <3>2 DEF Plan, TypeOK
    <3>3. QED
      BY <1>3, <3>1, <3>2 DEF Gate
  <2>2. QED
    BY <1>3, <2>1, SoundStays, GateStep
<1>4. ASSUME NEW e \in Execution, NEW q \in Request, Send(e, q) PROVE Sound(x)'
  <2>1. exec' = [exec EXCEPT ![e] = Sent(q)] /\ UNCHANGED marker
    BY <1>4, SendStep
  <2>2. x # e => exec'[x] = exec[x]
    BY <2>1 DEF TypeOK
  <2>3. ASSUME x = e PROVE Sound(x)'
    <3>1. exec'[x] = Sent(q)
      BY <2>1, <2>3 DEF TypeOK
    <3>2. Sent(q).pc = "gate" /\ Sent(q).request = q /\ (Sent(q).stored <=> marker[q] # None)
      BY DEF Sent, NoExecution
    <3>3. QED
      BY <2>1, <3>1, <3>2 DEF Sound, Busy
  <2>4. QED
    BY <2>2, <2>3, SoundStays
<1>5. ASSUME NEW e \in Execution, Commit(e) PROVE Sound(x)'
  <2>1. exec \in [Execution -> Executions] /\ exec[e] \in Executions
    BY DEF TypeOK
  <2>2. x # e => exec'[x] = exec[x]
    BY <1>5, <2>1 DEF Commit, End
  <2>3. ASSUME x = e PROVE Sound(x)'
    <3>1. /\ exec[e].request \in Request /\ exec[e].pc = "commit"
          /\ exec[e].stored => marker[exec[e].request] # None /\ Replays(e)
      BY <1>5 DEF Commit, Inv, ExecInv, Sound, Busy
    <3>2. exec[e].stored => marker[exec[e].request] = exec[e].transitions
      BY <3>1 DEF Inv, MarkerInv, Replays
    <3>3. CASE End(e, "stored")
      <4>1. exec'[e].pc = "stored"
        BY <2>1, <3>3 DEF End, NoExecution
      <4>2. QED
        BY <2>3, <4>1 DEF Sound, Busy
    <3>4. CASE End(e, "refused") /\ ~exec[e].stored
      <4>1. exec'[e].pc = "refused" /\ exec'[e].stored = exec[e].stored
        BY <2>1, <3>4 DEF End, NoExecution
      <4>2. QED
        BY <2>3, <3>4, <4>1 DEF Sound, Busy
    <3>5. CASE UNCHANGED marker /\ exec' = [exec EXCEPT ![e].pc = "gate", ![e].attempt = 2]
      <4>1. /\ exec'[e].pc = "gate" /\ exec'[e].stored = exec[e].stored
            /\ exec'[e].request = exec[e].request
        BY <2>1, <3>5 DEF Executions
      <4>2. QED
        BY <2>3, <3>1, <3>5, <4>1 DEF Sound, Busy
    <3>6. QED
      BY <1>5, <3>1, <3>2, <3>3, <3>4, <3>5, CommitCases DEF Unwritten
  <2>4. QED
    BY <2>2, <2>3, SoundStays
<1>6. QED
  BY <1>1, <1>2, <1>3, <1>4, <1>5, StepCases
-----------------------------------------------------------------------------
(***************************************************************************)
(* The copy and the verification.                                          *)
(***************************************************************************)
\* Steps that leave the copy alone, on disk and in memory.
LEMMA CopyFrame ==
    ASSUME MigrationAssumption, TypeOK, Inv, [Next]_vars
    PROVE  \/ UNCHANGED <<ckpt, failures, dest, job>>
           \/ StartCopy \/ CopyRow \/ BlockRow \/ Resolve \/ CheckpointBatch \/ Complete
           \/ StartVerification \/ Compare \/ Certify
           \/ \E r \in Row : Retain(r)
           \/ Crash
<1>1. ASSUME NEW a \in Adapter, Claim(a) \/ Open(a) \/ Write(a) \/ Activate(a) \/ Stop(a)
      PROVE  UNCHANGED <<ckpt, failures, dest, job>>
  BY <1>1 DEF Claim, Open, Write, Activate, Stop
<1>2. CASE StrayWrite
  BY <1>2 DEF StrayWrite
<1>3. CASE UNCHANGED vars
  BY <1>3 DEF vars
<1>4. QED
  BY <1>1, <1>2, <1>3, StepCases, RequestFrame DEF OtherStep

LEMMA CopyStep ==
    ASSUME MigrationAssumption, TypeOK, Inv, [Next]_vars PROVE CopyInv'
<1>a. /\ CopyInv /\ ckpt \in Checkpoints /\ job \in Jobs
      /\ dest \in [Row -> {0, Retired} \cup Content] /\ MaxRows \in Nat
      /\ ckpt.stable \in 0..MaxRows /\ ckpt.count \in 0..MaxRows /\ ckpt.failed \in 0..MaxRows
      /\ job.through \in 0..MaxRows /\ job.batch \in 0..MaxRows
  BY MigrationAssumption DEF Inv, TypeOK, Checkpoints, Jobs, MigrationAssumption
<1>b. /\ ckpt.count = ckpt.stable /\ ckpt.failed = Cardinality(failures)
      /\ \A r \in 1..ckpt.stable : dest[r] # 0
      /\ ~Started => ckpt.stable = 0 /\ ~ckpt.completed
  BY <1>a DEF CopyInv
<1>c. job.pc # "idle" => Started
  BY DEF Inv, AuthorityInv
<1>d. IsFiniteSet(failures) /\ Cardinality(failures) \in Nat
  BY FailuresCount, <1>a DEF TypeOK
<1>1. CASE UNCHANGED <<ckpt, failures, dest, job>>
  BY <1>a, <1>1 DEF CopyInv, Copying, Started
<1>2. CASE StartCopy
  <2>1. sqlite \in Files /\ sqlite.rows \in Corpus /\ Len(sqlite.rows) \in 0..MaxRows
    BY CorpusFacts DEF TypeOK, Files
  <2>2. ckpt.stable <= Len(sqlite.rows)
    BY <1>2, <1>a, <1>b, <2>1 DEF StartCopy, PrefixIntact
  <2>3. /\ job'.pc = "copy" /\ job'.snap = sqlite /\ job'.through = ckpt.stable /\ job'.batch = 0
        /\ UNCHANGED <<failures, dest>>
    BY <1>2 DEF StartCopy, NoJob
  <2>4. /\ ckpt'.phase = "offline-copy" /\ ~ckpt'.completed
        /\ ckpt'.stable = ckpt.stable /\ ckpt'.count = ckpt.count /\ ckpt'.failed = ckpt.failed
    BY <1>2, <1>a DEF StartCopy, Checkpoints
  <2>5. ckpt'.stable + job'.batch = ckpt.stable
    BY <1>a, <2>3, <2>4
  <2>6. QED
    BY <1>b, <2>1, <2>2, <2>3, <2>4, <2>5 DEF CopyInv, Copying, Started
<1>3. CASE CopyRow
  <2>1. Upcoming \in Row /\ job.snap.rows[Upcoming] # 0 /\ Upcoming <= Len(job.snap.rows)
        /\ Len(job.snap.rows) \in Nat
    BY <1>3, CopyAt DEF CopyRow, Copying, Content
  <2>2. /\ dest' = [dest EXCEPT ![Upcoming] = job.snap.rows[Upcoming]]
        /\ UNCHANGED <<ckpt, failures>>
        /\ job'.pc = "resolve" /\ job'.snap = job.snap /\ job'.through = job.through
        /\ job'.batch = job.batch
    BY <1>3, <1>a DEF CopyRow, Jobs
  <2>3. \A r \in Row : dest[r] # 0 => dest'[r] # 0
    BY <1>a, <2>1, <2>2
  <2>4. 1..ckpt.stable \subseteq Row /\ 1..job.through \subseteq Row
    BY <1>a DEF Row
  <2>5. dest'[job.through + 1] # 0 /\ job.through < Len(job.snap.rows)
    BY <1>a, <2>1, <2>2 DEF Upcoming
  <2>6. Copying
    BY <1>3 DEF CopyRow, Copying
  <2>7. QED
    BY <1>a, <1>b, <2>2, <2>3, <2>4, <2>5, <2>6 DEF CopyInv, Copying, Started
<1>4. CASE BlockRow
  <2>1. failures' = failures \cup {Upcoming} /\ UNCHANGED dest /\ job'.pc = "idle"
    BY <1>4 DEF BlockRow, NoJob
  <2>2. /\ ckpt'.phase = "blocked" /\ ckpt'.stable = ckpt.stable /\ ckpt'.count = ckpt.count
        /\ ckpt'.failed = IF Upcoming \in failures THEN ckpt.failed ELSE ckpt.failed + 1
    BY <1>4, <1>a DEF BlockRow, Checkpoints
  <2>3. ckpt'.failed = Cardinality(failures')
    <3>1. Cardinality(failures') = IF Upcoming \in failures THEN Cardinality(failures)
                                   ELSE Cardinality(failures) + 1
      BY <1>d, <2>1, FS_AddElement
    <3>2. QED
      BY <1>b, <2>2, <3>1
  <2>4. QED
    BY <1>b, <2>1, <2>2, <2>3 DEF CopyInv, Copying, Started
<1>5. CASE Resolve
  <2>1. /\ Upcoming \in Row /\ Upcoming <= Len(job.snap.rows)
        /\ dest[Upcoming] # 0
        /\ job.snap \in Files /\ ~ckpt.completed /\ ckpt.phase # "offline-ready"
        /\ job.through = ckpt.stable + job.batch /\ \A r \in 1..job.through : dest[r] # 0
    BY <1>5, <1>a, CopyAt DEF Resolve, Copying, CopyInv, Upcoming
  <2>2. /\ failures' = failures \ {Upcoming} /\ UNCHANGED dest
        /\ job'.pc = "copy" /\ job'.snap = job.snap /\ job'.through = Upcoming
        /\ job'.batch = job.batch + 1
    BY <1>5, <1>a DEF Resolve, Jobs, Upcoming
  <2>3. /\ ckpt'.stable = ckpt.stable /\ ckpt'.count = ckpt.count /\ ~ckpt'.completed
        /\ ckpt'.failed = IF Upcoming \in failures THEN ckpt.failed - 1 ELSE ckpt.failed
        /\ ckpt'.phase \notin {"not-started", "offline-ready"}
    BY <1>5, <1>a, <1>c, <2>1 DEF Resolve, Checkpoints, Started
  <2>4. ckpt'.failed = Cardinality(failures')
    <3>1. CASE Upcoming \in failures
      BY <1>b, <1>d, <2>2, <2>3, <3>1, FS_RemoveElement
    <3>2. CASE Upcoming \notin failures
      BY <1>b, <2>2, <2>3, <3>2
    <3>3. QED
      BY <3>1, <3>2
  <2>5. \A r \in 1..job'.through : dest[r] # 0
    <3> SUFFICES ASSUME NEW r \in 1..job'.through PROVE dest[r] # 0
      OBVIOUS
    <3>1. r \in 1..job.through \/ r = Upcoming
      BY <1>a, <2>2 DEF Upcoming
    <3>2. QED
      BY <2>1, <3>1
  <2>6. job'.through = ckpt'.stable + job'.batch
    BY <1>a, <2>1, <2>2, <2>3 DEF Upcoming
  <2>7. QED
    BY <1>b, <2>1, <2>2, <2>3, <2>4, <2>5, <2>6 DEF CopyInv, Copying, Started
<1>6. CASE CheckpointBatch
  <2>1. /\ job.snap \in Files /\ ~ckpt.completed
        /\ job.through <= Len(job.snap.rows) /\ \A r \in 1..job.through : dest[r] # 0
        /\ ckpt.count + job.batch = job.through
    BY <1>6, <1>a, CopyAt DEF CheckpointBatch, Copying, CopyInv
  <2>2. /\ job'.pc = "copy" /\ job'.snap = job.snap /\ job'.through = job.through
        /\ job'.batch = 0 /\ UNCHANGED <<failures, dest>>
    BY <1>6, <1>a DEF CheckpointBatch, Jobs
  <2>3. /\ ckpt'.stable = job.through /\ ckpt'.count = ckpt.count + job.batch
        /\ ckpt'.failed = ckpt.failed /\ ckpt'.phase = "offline-copy" /\ ~ckpt'.completed
    BY <1>6, <1>a, <2>1 DEF CheckpointBatch, Checkpoints
  <2>4. ckpt'.stable + job'.batch = job'.through
    BY <1>a, <2>2, <2>3
  <2>5. QED
    BY <1>b, <2>1, <2>2, <2>3, <2>4 DEF CopyInv, Copying, Started
<1>7. CASE Complete \/ Certify
  <2>1. job'.pc = "idle" /\ UNCHANGED <<failures, dest>> /\ job.pc # "idle"
    BY <1>7 DEF Complete, Certify, NoJob
  <2>2. /\ ckpt'.stable = ckpt.stable /\ ckpt'.count = ckpt.count /\ ckpt'.failed = ckpt.failed
        /\ ckpt'.phase # "not-started"
    BY <1>7, <1>a, <1>c, <2>1 DEF Complete, Certify, Checkpoints, Started
  <2>3. QED
    BY <1>b, <2>1, <2>2 DEF CopyInv, Copying, Started
<1>8. CASE StartVerification \/ Compare \/ Crash
  <2>1. job'.pc \in {"idle", "verify", "certify"} /\ UNCHANGED <<ckpt, failures, dest>>
    <3>1. CASE StartVerification
      BY <3>1 DEF StartVerification, NoJob
    <3>2. CASE Compare
      <4>1. NoJob.pc = "idle" /\ \A P : [job EXCEPT !.pc = "certify", !.passed = P].pc = "certify"
        BY <1>a DEF NoJob, Jobs
      <4>2. QED
        BY <3>2, <4>1 DEF Compare
    <3>3. CASE Crash
      BY <3>3 DEF Crash, NoJob
    <3>4. QED
      BY <1>8, <3>1, <3>2, <3>3
  <2>2. QED
    BY <1>b, <2>1 DEF CopyInv, Copying, Started
<1>9. ASSUME NEW x \in Row, Retain(x) PROVE CopyInv'
  <2>1. /\ dest' = [dest EXCEPT ![x] = Retired] /\ UNCHANGED <<ckpt, failures, job>>
        /\ job.pc = "idle"
    BY <1>9 DEF Retain, Exclusive
  <2>2. \A r \in 1..ckpt.stable : dest'[r] # 0
    <3>1. 1..ckpt.stable \subseteq Row
      BY <1>a DEF Row
    <3>2. QED
      BY <1>a, <1>b, <2>1, <3>1 DEF Retired
  <2>3. QED
    BY <1>b, <2>1, <2>2 DEF CopyInv, Copying, Started
<1>10. QED
  BY <1>1, <1>2, <1>3, <1>4, <1>5, <1>6, <1>7, <1>8, <1>9, CopyFrame

\* The rows of SQLite change only by a write, and a writer that was not forgotten owns
\* the authority.
LEMMA RowsStay ==
    ASSUME MigrationAssumption, TypeOK, Inv, [Next]_vars,
           backend.of # "sqlite", strays' = 0
    PROVE  sqlite'.rows = sqlite.rows /\ strays = 0
<1>0. strays \in Nat /\ \A a \in Adapter : adapter[a] \notin {"claimed", "sqlite"}
  BY DEF TypeOK, Inv, AuthorityInv
<1>1. ASSUME NEW a \in Adapter, Claim(a) \/ Open(a) \/ Write(a) \/ Activate(a) \/ Stop(a)
      PROVE  UNCHANGED <<sqlite, strays>>
  BY <1>0, <1>1 DEF Claim, Open, Write, Activate, Stop, bounds
<1>2. ~StrayWrite
  BY <1>0 DEF StrayWrite
<1>3. CASE StartCopy \/ CopyRow \/ BlockRow \/ Resolve \/ CheckpointBatch \/ Complete
  BY <1>3 DEF StartCopy, CopyRow, BlockRow, Resolve, CheckpointBatch, Complete, bounds
<1>4. CASE StartVerification \/ Compare \/ Certify \/ (\E r \in Row : Retain(r)) \/ Crash
  BY <1>4 DEF StartVerification, Compare, Certify, Retain, Crash, bounds
<1>5. CASE UNCHANGED vars
  BY <1>5 DEF vars
<1>6. QED
  BY <1>1, <1>2, <1>3, <1>4, <1>5, StepCases, RequestFrame DEF OtherStep

\* The authority leaves SQLite only when a copy starts.
LEMMA SqliteStays ==
    ASSUME MigrationAssumption, TypeOK, Inv, [Next]_vars, backend.of = "sqlite", ~StartCopy
    PROVE  backend'.of = "sqlite"
<1>0. backend # NoBackend
  BY BackendCases
<1>1. ASSUME NEW a \in Adapter, Claim(a) \/ Open(a) \/ Write(a) \/ Activate(a) \/ Stop(a)
      PROVE  backend'.of = "sqlite"
  BY <1>0, <1>1, BackendCases, SelectionStep DEF Open, Write, Stop
<1>2. CASE CopyRow \/ BlockRow \/ Resolve \/ CheckpointBatch \/ Complete \/ StrayWrite
  BY <1>2 DEF CopyRow, BlockRow, Resolve, CheckpointBatch, Complete, StrayWrite
<1>3. CASE StartVerification \/ Compare \/ Certify \/ (\E r \in Row : Retain(r)) \/ Crash
  BY <1>3 DEF StartVerification, Compare, Certify, Retain, Crash
<1>4. ASSUME NEW e \in Execution, (\E q \in Request : Send(e, q)) \/ Gate(e) \/ Commit(e)
      PROVE  backend'.of = "sqlite"
  BY <1>0, <1>4, RequestFrame, CommitCases DEF Unwritten, Ordinary, Claiming, Sealing
<1>5. QED
  BY <1>1, <1>2, <1>3, <1>4, StepCases DEF OtherStep, vars

\* What a complete copy put into RocksDB stays until the authority is sealed.
LEMMA CopiedStays ==
    ASSUME MigrationAssumption, TypeOK, Inv, [Next]_vars, ckpt.completed, seal' = None
    PROVE  seal = None /\ dest' = dest /\ Copied' = Copied
<1>1. Started /\ ~Copying
  BY DEF Inv, CopyInv
<1>2. seal = None
  BY <1>1, RocksStays, PhaseFacts
<1>3. \A r \in Row : ~Retain(r)
  BY <1>1, <1>2, PhaseFacts DEF Retain
<1>4. ~CopyRow
  BY <1>1 DEF CopyRow, Copying
<1>5. dest' = dest
  BY <1>3, <1>4, CopyFrame DEF StartCopy, BlockRow, Resolve, CheckpointBatch, Complete,
                               StartVerification, Compare, Certify, Crash
<1>6. QED
  BY <1>2, <1>5 DEF Copied

LEMMA ReadyStep ==
    ASSUME MigrationAssumption, TypeOK, Inv, [Next]_vars PROVE ReadyInv'
<1>a. /\ ReadyInv /\ ckpt \in Checkpoints /\ job \in Jobs
      /\ job.pc \in {"verify", "certify"} => job.snap \in Files /\ ckpt.completed
  BY DEF Inv, TypeOK, ReadyInv
<1>b. job.pc # "idle" => Started /\ seal = None
  BY DEF Inv, AuthorityInv
<1>c. backend.of # "sqlite" /\ strays' = 0 => strays = 0 /\ sqlite'.rows = sqlite.rows
  BY RowsStay
<1>d. backend.of = "sqlite" /\ ~StartCopy => backend'.of = "sqlite"
  BY SqliteStays
<1>e. ckpt.completed /\ seal' = None => seal = None /\ dest' = dest /\ Copied' = Copied
  BY CopiedStays
<1>f. Copying => ~ckpt.completed /\ ckpt.phase # "offline-ready"
  BY DEF Inv, CopyInv
<1>1. CASE UNCHANGED <<ckpt, job>>
  <2>1. ~StartCopy
    <3>1. StartCopy => job.pc = "idle" /\ job'.pc = "copy"
      BY DEF StartCopy, Exclusive, NoJob
    <3>2. QED
      BY <1>1, <3>1
  <2>2. seal' = None /\ ckpt.completed => ckpt.corpus = Copied'
    BY <1>a, <1>e DEF ReadyInv
  <2>3. ASSUME job.pc = "certify", job.passed
        PROVE  /\ Copied' = job.snap.rows
               /\ backend'.of # "sqlite" /\ strays' = 0 => sqlite'.rows = job.snap.rows
    <3>1. ckpt.completed /\ seal = None
      BY <1>a, <1>b, <2>3
    <3>2. seal' = None
      <4>1. ~Exclusive
        BY <2>3 DEF Exclusive
      <4>2. \A e \in Execution : ~Commit(e)
        BY <4>1 DEF Commit
      <4>3. QED
        BY <3>1, <4>2, StepCases, OtherFrame, RequestFrame DEF Crash, vars
    <3>3. Copied' = Copied
      BY <1>e, <3>1, <3>2
    <3>4. QED
      BY <1>a, <1>c, <1>d, <2>1, <2>3, <3>3 DEF ReadyInv
  <2>4. ASSUME ckpt.phase = "offline-ready"
        PROVE  /\ ckpt.completed /\ ckpt.verified = ckpt.corpus
               /\ backend'.of # "sqlite" /\ strays' = 0 /\ seal' = None =>
                    sqlite'.rows = ckpt.verified
    BY <1>a, <1>c, <1>d, <1>e, <2>1, <2>4 DEF ReadyInv
  <2>5. QED
    BY <1>1, <1>a, <2>2, <2>3, <2>4 DEF ReadyInv
<1>2. CASE StartCopy
  <2>1. ~ckpt'.completed /\ ckpt'.phase = "offline-copy" /\ job'.pc = "copy"
    BY <1>2, <1>a DEF StartCopy, Checkpoints, NoJob
  <2>2. QED
    BY <2>1 DEF ReadyInv
<1>3. CASE CopyRow \/ BlockRow \/ Resolve \/ CheckpointBatch
  <2>1. ~ckpt.completed /\ ckpt.phase # "offline-ready"
    BY <1>3, <1>f DEF CopyRow, BlockRow, Resolve, CheckpointBatch, Copying
  <2>2. ~ckpt'.completed /\ ckpt'.phase # "offline-ready"
    BY <1>3, <1>a, <2>1 DEF CopyRow, BlockRow, Resolve, CheckpointBatch, Checkpoints
  <2>3. job'.pc \in {"idle", "copy", "resolve"}
    <3>1. CASE CopyRow
      BY <1>a, <3>1 DEF CopyRow, Jobs
    <3>2. CASE BlockRow
      BY <3>2 DEF BlockRow, NoJob
    <3>3. CASE Resolve
      BY <1>a, <3>3 DEF Resolve, Jobs
    <3>4. CASE CheckpointBatch
      BY <1>a, <3>4 DEF CheckpointBatch, Jobs
    <3>5. QED
      BY <1>3, <3>1, <3>2, <3>3, <3>4
  <2>4. QED
    BY <2>2, <2>3 DEF ReadyInv
<1>4. CASE Complete
  <2>1. job'.pc = "idle" /\ UNCHANGED dest
    BY <1>4 DEF Complete, NoJob
  <2>2. Copied' = Copied
    BY <2>1 DEF Copied
  <2>3. ~ckpt.completed /\ ckpt.phase # "offline-ready"
    BY <1>4, <1>f DEF Complete, Copying
  <2>4. /\ ckpt'.phase # "offline-ready"
        /\ ckpt'.completed => ckpt'.corpus = Copied
    BY <1>4, <1>a, <2>3 DEF Complete, Checkpoints
  <2>5. QED
    BY <2>1, <2>2, <2>4 DEF ReadyInv
<1>5. CASE StartVerification
  <2>1. job'.pc = "verify" /\ job'.snap = sqlite /\ sqlite \in Files /\ ckpt.completed
        /\ UNCHANGED <<ckpt, seal, sqlite, backend, strays>>
    BY <1>5 DEF StartVerification, NoJob, TypeOK, bounds
  <2>2. seal' = None /\ ckpt'.completed => ckpt'.corpus = Copied'
    BY <1>a, <1>e, <2>1 DEF ReadyInv
  <2>3. QED
    BY <1>a, <2>1, <2>2 DEF ReadyInv
<1>6. CASE Compare
  <2>1. /\ UNCHANGED <<ckpt, seal, sqlite, backend, strays, dest>>
        /\ job.pc = "verify"
    BY <1>6 DEF Compare, bounds
  <2>2. Copied' = Copied
    BY <2>1 DEF Copied
  <2>3. \/ job'.pc = "idle"
        \/ /\ job.snap = sqlite /\ job'.pc = "certify" /\ job'.snap = job.snap
           /\ job'.passed => Copied = job.snap.rows
    <3> DEFINE P == Copied = job.snap.rows /\ \A q \in Request : marker[q] = None
    <3>1. \/ job' = NoJob
          \/ job.snap = sqlite /\ job' = [job EXCEPT !.pc = "certify", !.passed = P]
      BY <1>6 DEF Compare
    <3>2. P => Copied = job.snap.rows
      OBVIOUS
    <3>3. P \in BOOLEAN
      OBVIOUS
    <3> HIDE DEF P
    <3>4. ASSUME NEW x, x = [job EXCEPT !.pc = "certify", !.passed = P]
          PROVE  x.pc = "certify" /\ x.snap = job.snap /\ x.passed = P
      BY <1>a, <3>4 DEF Jobs
    <3>5. NoJob.pc = "idle"
      BY DEF NoJob
    <3>6. QED
      BY <3>1, <3>2, <3>4, <3>5
  <2>4. QED
    BY <1>a, <2>1, <2>2, <2>3 DEF ReadyInv
<1>7. CASE Certify
  <2>1. /\ UNCHANGED <<seal, sqlite, backend, strays, dest>> /\ job'.pc = "idle"
        /\ job.pc = "certify"
    BY <1>7 DEF Certify, NoJob, bounds
  <2>2. Copied' = Copied
    BY <2>1 DEF Copied
  <2>3. ckpt.completed /\ seal = None /\ ckpt.corpus = Copied
    BY <1>a, <1>b, <2>1 DEF ReadyInv
  <2>4. /\ ckpt'.completed /\ ckpt'.corpus = ckpt.corpus
        /\ ckpt'.phase = "offline-ready" => job.passed /\ ckpt'.verified = ckpt.corpus
    BY <1>7, <1>a, <2>3 DEF Certify, Checkpoints
  <2>5. job.passed => /\ Copied = job.snap.rows
                      /\ backend.of # "sqlite" /\ strays = 0 => sqlite.rows = job.snap.rows
    BY <1>a, <2>1 DEF ReadyInv
  <2>6. QED
    BY <2>1, <2>2, <2>3, <2>4, <2>5 DEF ReadyInv
<1>8. CASE \E r \in Row : Retain(r)
  <2>1. UNCHANGED <<ckpt, job>>
    BY <1>8 DEF Retain
  <2>2. QED
    BY <1>1, <2>1
<1>9. CASE Crash
  <2>1. UNCHANGED <<ckpt, seal, sqlite, backend, strays, dest>> /\ job'.pc = "idle"
    BY <1>9 DEF Crash, NoJob
  <2>2. Copied' = Copied
    BY <2>1 DEF Copied
  <2>3. QED
    BY <1>a, <2>1, <2>2 DEF ReadyInv
<1>10. QED
  BY <1>1, <1>2, <1>3, <1>4, <1>5, <1>6, <1>7, <1>8, <1>9, CopyFrame
-----------------------------------------------------------------------------
(***************************************************************************)
(* The theorems.                                                           *)
(***************************************************************************)
LEMMA Initially == ASSUME MigrationAssumption, Init PROVE TypeOK /\ Inv
<1>1. MaxRows \in Nat /\ 1 <= MaxRows
  BY MigrationAssumption DEF MigrationAssumption
<1>2. sqlite \in Files
  <2>1. PICK n \in 0..1 : sqlite = [exists |-> n = 1, rows |-> [i \in 1..n |-> 1], stamp |-> 0]
    BY DEF Init
  <2>2. n \in 0..MaxRows /\ [i \in 1..n |-> 1] \in [1..n -> Content]
    BY <1>1 DEF Content
  <2>3. [i \in 1..n |-> 1] \in Corpus
    BY <2>2, InCorpus
  <2> DEFINE x == [i \in 1..n |-> 1]
             b == n = 1
  <2>4. b \in BOOLEAN /\ sqlite = [exists |-> b, rows |-> x, stamp |-> 0]
    BY <2>1
  <2> HIDE DEF x, b
  <2>5. QED
    BY <2>3, <2>4 DEF Files, x
<1>3. ckpt = NoCheckpoint /\ NoCheckpoint \in Checkpoints
  BY <1>1 DEF Init, NoCheckpoint, Checkpoints
<1>4. job = NoJob /\ NoJob \in Jobs
  BY <1>1 DEF Init, NoJob, Jobs
<1>5. exec \in [Execution -> Executions] /\ \A e \in Execution : exec[e] = NoExecution
  <2>1. {} \in Transitions
    BY DEF Transitions
  <2>2. NoExecution \in Executions
    BY <2>1 DEF NoExecution, Executions
  <2>3. QED
    BY <2>2 DEF Init
<1>6. TypeOK
  BY <1>2, <1>3, <1>4, <1>5 DEF Init, TypeOK, Row
<1>7. AuthorityInv
  BY <1>3, <1>4, NotNone DEF Init, AuthorityInv, Rocks, NoJob
<1>8. MarkerInv
  BY DEF Init, MarkerInv
<1>9. ExecInv
  BY <1>5 DEF ExecInv, Sound, Busy, NoExecution
<1>10. CopyInv
  BY <1>1, <1>3, <1>4, FS_EmptySet DEF Init, CopyInv, Copying, NoJob, NoCheckpoint
<1>11. ReadyInv
  BY <1>3, <1>4 DEF ReadyInv, NoJob, NoCheckpoint
<1>12. QED
  BY <1>6, <1>7, <1>8, <1>9, <1>10, <1>11 DEF Inv

\* Every step of an adapter, of the operator, of a request and of retention, and a crash
\* of the daemon, keep the types and the invariant (migration/, operations.js).
THEOREM Inductive == ASSUME MigrationAssumption PROVE Spec => [](TypeOK /\ Inv)
<1>1. Init => TypeOK /\ Inv
  BY Initially
<1>2. TypeOK /\ Inv /\ [Next]_vars => (TypeOK /\ Inv)'
  <2> SUFFICES ASSUME TypeOK, Inv, [Next]_vars PROVE TypeOK' /\ Inv'
    OBVIOUS
  <2>1. TypeOK' /\ AuthorityInv' /\ MarkerInv' /\ ExecInv' /\ CopyInv' /\ ReadyInv'
    BY TypeStep, AuthorityStep, MarkerStep, ExecStep, CopyStep, ReadyStep
  <2>2. QED
    BY <2>1 DEF Inv
<1>3. QED
  BY <1>1, <1>2, PTL DEF Spec

\* There is one writable history (claimSqliteBackend, activateRocksBackend,
\* prepareMigrationAdmission).
THEOREM OneHistoryHolds == ASSUME MigrationAssumption PROVE Spec => []OneHistory
<1>1. TypeOK /\ Inv => OneHistory
  <2> SUFFICES ASSUME TypeOK, Inv, NEW a \in Adapter, adapter[a] \in {"claimed", "sqlite"}
               PROVE  backend.of = "sqlite" /\ seal = None /\ \A q \in Request : marker[q] = None
    BY DEF OneHistory
  <2>1. backend.of = "sqlite" /\ ~Rocks
    BY DEF Inv, AuthorityInv, Rocks
  <2>2. QED
    BY <2>1, PhaseFacts DEF Inv, MarkerInv
<1>2. QED
  BY <1>1, Inductive, PTL

\* What is called ready has every row of SQLite in RocksDB as it is now, also when a
\* writer was forgotten (verifyOfflineMigration, readMigrationStatus).
THEOREM ReadyIsCopiedHolds == ASSUME MigrationAssumption PROVE Spec => []ReadyIsCopied
<1>1. TypeOK /\ Inv => ReadyIsCopied
  <2> SUFFICES ASSUME TypeOK, Inv, Phase = "offline-ready" PROVE Copied = sqlite.rows
    BY DEF ReadyIsCopied
  <2>1. seal = None /\ ckpt.phase = "offline-ready" /\ sqlite.rows = ckpt.verified
    BY PhaseFacts
  <2>2. QED
    BY <2>1 DEF Inv, ReadyInv
<1>2. QED
  BY <1>1, Inductive, PTL

\* The admission that seals the authority leaves no row behind in SQLite, although the
\* gate decided in an earlier snapshot, unless a writer was forgotten
\* (prepareMigrationAdmission, commitCanonical).
THEOREM NothingLeftBehindHolds == ASSUME MigrationAssumption PROVE Spec => NothingLeftBehind
<1>1. TypeOK /\ Inv /\ [Next]_vars =>
        [seal = None /\ seal' # None /\ strays = 0 => Copied = sqlite.rows]_vars
  <2> SUFFICES ASSUME TypeOK, Inv, [Next]_vars, seal = None, seal' # None, strays = 0
               PROVE  Copied = sqlite.rows
    OBVIOUS
  <2>1. PICK e \in Execution : Commit(e)
    BY StepCases, OtherFrame, RequestFrame DEF Crash, vars
  <2>2. Sealing(e)
    BY <2>1, CommitCases DEF Unwritten, Ordinary, Claiming
  <2>3. ckpt.phase = "offline-ready" /\ backend.of # "sqlite"
    BY <2>2, BackendCases DEF Sealing
  <2>4. QED
    BY <2>3 DEF Inv, ReadyInv
<1>2. QED
  BY <1>1, Inductive, PTL DEF Spec, NothingLeftBehind

\* A checkpoint covers rows that are durable, and counts each row and each failure once,
\* wherever the copy stopped and resumed (startOfflineMigration, blockOnFailure).
THEOREM CheckpointCoversHolds == ASSUME MigrationAssumption PROVE Spec => []CheckpointCovers
<1>1. TypeOK /\ Inv => CheckpointCovers
  BY DEF CheckpointCovers, Inv, CopyInv
<1>2. QED
  BY <1>1, Inductive, PTL

\* A document that was stored is answered as stored when it is sent again, whatever
\* became of the authority (prepareMigrationAdmission).
THEOREM ReplayIsStoredHolds == ASSUME MigrationAssumption PROVE Spec => []ReplayIsStored
<1>1. TypeOK /\ Inv => ReplayIsStored
  BY DEF ReplayIsStored, Inv, ExecInv, Sound
<1>2. QED
  BY <1>1, Inductive, PTL

\* No row, no write and no replay is lost between the two stores: all of the above, which
\* is what the run checks on small instances (migration/).
THEOREM HandoverSoundHolds == ASSUME MigrationAssumption PROVE Spec => []HandoverSound
<1>1. OneHistory /\ ReadyIsCopied /\ CheckpointCovers /\ ReplayIsStored /\ TypeOK => HandoverSound
  BY DEF HandoverSound
<1>2. QED
  BY <1>1, Inductive, OneHistoryHolds, ReadyIsCopiedHolds, CheckpointCoversHolds,
     ReplayIsStoredHolds, PTL
=============================================================================
