-------------------------- MODULE RetentionProofs ---------------------------
(***************************************************************************)
(* Proofs about retention: a payload goes with its last owner, a version   *)
(* goes in its order (the index, the records, at last the tombstone), and  *)
(* a protection or a renewal that came first is honoured.                  *)
(*                                                                         *)
(* None of this is inductive, because transactions commit what an earlier  *)
(* snapshot told them.  SnapshotInv says what is still true of the         *)
(* snapshot of a transaction that is not lost: it is exactly here that the *)
(* conflict guards are needed.  DocumentInv ties the records of a version  *)
(* to its tombstone and to the progress of its cleanup, and WaveInv says   *)
(* what a wave that reached a cleanup may rely on although another wave    *)
(* may have finished, and even opened again, the same cleanup.             *)
(*                                                                         *)
(* The last part is about waves that run one at a time: BackInv says that  *)
(* the expiry queue leads back to every cleanup that was interrupted.      *)
(***************************************************************************)
EXTENDS Retention, TLAPS

\* All of a version is there, or nothing.
Whole(d) == kept[d] = OwnPhase /\ \A p \in Manifest[d].payloads : d \in owners[p]
Gone(d)  == kept[d] = {} /\ \A p \in Payload : d \notin owners[p]

\* A cleanup has removed what its earlier phases were for.
Passed(d) ==
    \A i \in 1..10 : i < cleanup[d].phase =>
      /\ Phases[i] \notin kept[d]
      /\ \A p \in Payload : d \in owners[p] => PhaseOf[p] # Phases[i]

Deleted(d) == cleanup[d].deletion \in {"processed", "pruned"}

DocumentInv(d) ==
    /\ d \notin admitted => /\ kept[d] = {} /\ tombstone[d] = "none" /\ d \notin retired
                            /\ cleanup[d].status = "none"
    /\ \A p \in Payload : d \in owners[p] => d \in admitted /\ p \in Manifest[d].payloads
    /\ d \in admitted /\ tombstone[d] = "none" =>
         cleanup[d].status = "none" /\ (Gone(d) \/ (Whole(d) /\ d \notin retired))
    /\ cleanup[d].status = "none" => cleanup[d].deletion = "none"
    /\ cleanup[d].status = "tombstoned" =>
         tombstone[d] # "none" /\ cleanup[d].deletion # "none" /\ Passed(d)
    /\ cleanup[d].status = "complete" =>
         tombstone[d] # "none" /\ cleanup[d].deletion = "none" /\ Gone(d)
DocumentsInv == \A d \in Doc : DocumentInv(d)

PayloadInv == \A p \in Payload : p \in stored <=> owners[p] # {}

\* The first expiry entry of a version is that of its manifest.
QueueInv == \A e \in queue : e.generation = 0 => e.at = Manifest[e.doc].expiresAt

\* What a wave knows of its candidate.
WaveKnows(r) ==
    LET d == task[r].doc
    IN  /\ pc[r] # "idle" =>
             /\ d \in Doc
             /\ task[r].started <= now
             /\ task[r].manifest => d \in admitted
             /\ task[r].mode = "due" =>
                  /\ task[r].at <= task[r].started
                  /\ task[r].generation = 0 => task[r].at = Manifest[d].expiresAt
        /\ pc[r] \in {"publish", "clean"} => cleanup[d].status # "none"
        /\ pc[r] = "clean" => Deleted(d) \/ Gone(d)
WaveInv == \A r \in Runner : WaveKnows(r)

\* Which transactions a process has open, lost or not.
ClientOpen(c) ==
    LET t == txn[c]
    IN  /\ t.op \in {"none", "admit", "pin", "lease", "renew"}
        /\ t.op # "none" => t.doc \in Doc
        /\ t.op = "admit" => /\ t.touched = Manifest[t.doc].payloads
                             /\ Manifest[t.doc].prior \in admitted \cup {None}
RunnerOpen(r) ==
    LET t == txn[r]
    IN  /\ t.op \in {"none", "expire", "enqueue", "unshare"}
        /\ t.op # "none" => t.doc = task[r].doc
        /\ t.op \in {"expire", "enqueue"} => pc[r] = "decide"
        /\ t.op = "unshare" => /\ pc[r] = "clean" /\ left[r] > 0
                               /\ \E p \in Payload : t.touched = {p}
OpenInv == (\A c \in Client : ClientOpen(c)) /\ (\A r \in Runner : RunnerOpen(r))

\* What a snapshot showed, and still is the case unless the transaction is lost.
AdmitSnapshot(c) ==
    txn[c].changed = Manifest[txn[c].doc].payloads \ stored
ExpireSnapshot(r) ==
    LET d == txn[r].doc
    IN  /\ tombstone[d] = "none" /\ d \in admitted
        /\ IsCurrent(d, task[r])
        /\ task[r].mode # "redact" => ~Protected(d, task[r].started)
EnqueueSnapshot(r) ==
    tombstone[txn[r].doc] # "none" /\ cleanup[txn[r].doc].deletion = "none"
UnshareSnapshot(r) ==
    LET d == txn[r].doc
    IN  /\ cleanup[d].status = "tombstoned"
        /\ \A p \in txn[r].touched : d \in owners[p]
        /\ txn[r].changed = {p \in txn[r].touched : owners[p] = {d}}
SnapshotInv ==
    /\ \A c \in Client : Committing(c, "admit") => AdmitSnapshot(c)
    /\ \A r \in Runner : /\ Committing(r, "expire") => ExpireSnapshot(r)
                         /\ Committing(r, "enqueue") => EnqueueSnapshot(r)
                         /\ Committing(r, "unshare") => UnshareSnapshot(r)

Inv == DocumentsInv /\ PayloadInv /\ QueueInv /\ WaveInv /\ OpenInv /\ SnapshotInv
-----------------------------------------------------------------------------
(***************************************************************************)
(* Constants, phases, transactions.                                        *)
(***************************************************************************)
\* The phases of a cleanup: the last one is the expiry record, and every record of a version
\* and every payload it owns has an earlier one.
LEMMA PhaseFacts ==
    /\ Len(Phases) = 10
    /\ \A i \in 1..10 : Phases[i] = "expiry" <=> i = 10
    /\ \A i \in 1..10 : Phases[i] \in OwnPhase \cup SharedPhase <=> i # 10
    /\ \A x \in OwnPhase \cup SharedPhase : \E i \in 1..9 : Phases[i] = x
<1>1. /\ Len(Phases) = 10
      /\ Phases[1] = "windows" /\ Phases[2] = "derived" /\ Phases[3] = "source-messages"
      /\ Phases[4] = "access" /\ Phases[5] = "kind-manifest" /\ Phases[6] = "document"
      /\ Phases[7] = "session-reference" /\ Phases[8] = "chunks"
      /\ Phases[9] = "admission-references" /\ Phases[10] = "expiry"
  BY DEF Phases
<1>2. \A i \in 1..10 : i = 1 \/ i = 2 \/ i = 3 \/ i = 4 \/ i = 5 \/ i = 6 \/ i = 7 \/ i = 8 \/ i = 9 \/ i = 10
  OBVIOUS
<1>3. \A i \in 1..10 : Phases[i] = "expiry" <=> i = 10
  BY <1>1, <1>2
<1>4. \A i \in 1..10 : Phases[i] \in OwnPhase \cup SharedPhase <=> i # 10
  BY <1>1, <1>2 DEF OwnPhase, SharedPhase
<1>5. \A x \in OwnPhase \cup SharedPhase : \E i \in 1..9 : Phases[i] = x
  <2>1. 1 \in 1..9 /\ 2 \in 1..9 /\ 3 \in 1..9 /\ 4 \in 1..9 /\ 5 \in 1..9 /\ 6 \in 1..9
        /\ 7 \in 1..9 /\ 8 \in 1..9 /\ 9 \in 1..9
    OBVIOUS
  <2>2. QED
    BY <1>1, <2>1 DEF OwnPhase, SharedPhase
<1>6. QED
  BY <1>1, <1>3, <1>4, <1>5

\* The manifest of a version.
LEMMA ManifestFacts ==
    ASSUME NEW d \in Doc
    PROVE  /\ Manifest[d].session \in Session /\ Manifest[d].payloads \subseteq Payload
           /\ Manifest[d].prior \in Doc \cup {None} /\ Manifest[d].expiresAt \in Nat
           /\ Manifest[d].expiresAt \in 0..MaxTime /\ d # None
BY RetentionAssumption

LEMMA NoTxnFacts ==
    /\ NoTxn \in Transaction /\ NoTxn.op = "none" /\ NoTxn.doc = None /\ ~NoTxn.lost
    /\ Writes(NoTxn) = {}
BY DEF NoTxn, Transaction, Writes

LEMMA NoTaskFacts == NoTask \in Task /\ NoTask.doc = None
BY RetentionAssumption DEF NoTask, Task

\* A process is a client or a runner.
LEMMA ProcessFacts ==
    /\ \A c \in Client : c \in Process /\ c \notin Runner /\ c # None
    /\ \A r \in Runner : r \in Process /\ r \notin Client /\ r # None
BY RetentionAssumption DEF Process

\* The guards that decisions rest on are among the keys of their transactions.
LEMMA WritesOf ==
    ASSUME NEW t \in Transaction
    PROVE  /\ t.op \in {"admit", "pin", "lease", "renew", "expire", "enqueue"} =>
                DocumentGuard(t.doc) \in Writes(t)
           /\ t.op = "admit" => \A p \in t.touched : PayloadGuard(p) \in Writes(t)
           /\ t.op = "admit" /\ Manifest[t.doc].prior # None =>
                DocumentGuard(Manifest[t.doc].prior) \in Writes(t)
           /\ t.op = "expire" => SessionGuard(Manifest[t.doc].session) \in Writes(t)
           /\ t.op \in {"expire", "enqueue", "unshare"} => CleanupKey(t.doc) \in Writes(t)
           /\ t.op = "unshare" => \A p \in t.touched : PayloadGuard(p) \in Writes(t)
BY DEF Writes, Transaction

\* A commit of some keys loses every open transaction that writes one of them.
LEMMA AfterFacts ==
    ASSUME NEW open \in [Process -> Transaction], NEW keys
    PROVE  /\ After(keys, open) \in [Process -> Transaction]
           /\ \A q \in Process :
                /\ After(keys, open)[q].op = open[q].op
                /\ After(keys, open)[q].doc = open[q].doc
                /\ After(keys, open)[q].touched = open[q].touched
                /\ ~After(keys, open)[q].lost =>
                     /\ After(keys, open)[q] = open[q]
                     /\ \A key \in keys : key \notin Writes(open[q])
<1>1. ASSUME NEW q \in Process
      PROVE  /\ After(keys, open)[q] \in Transaction
             /\ After(keys, open)[q].op = open[q].op
             /\ After(keys, open)[q].doc = open[q].doc
             /\ After(keys, open)[q].touched = open[q].touched
             /\ ~After(keys, open)[q].lost =>
                  /\ After(keys, open)[q] = open[q]
                  /\ \A key \in keys : key \notin Writes(open[q])
  <2> DEFINE hit == open[q].lost \/ Writes(open[q]) \cap keys # {}
  <2>1. hit \in BOOLEAN /\ open[q] \in Transaction
    BY DEF Transaction
  <2>2. After(keys, open)[q] = [open[q] EXCEPT !.lost = hit]
    BY <2>1 DEF After
  <2> HIDE DEF hit
  <2>3. /\ After(keys, open)[q] \in Transaction
        /\ After(keys, open)[q].op = open[q].op
        /\ After(keys, open)[q].doc = open[q].doc
        /\ After(keys, open)[q].touched = open[q].touched
        /\ After(keys, open)[q].lost = hit
    BY <2>1, <2>2 DEF Transaction
  <2>4. ~hit => After(keys, open)[q] = open[q]
    BY <2>1, <2>2 DEF Transaction, hit
  <2>5. ~hit => \A key \in keys : key \notin Writes(open[q])
    BY DEF hit
  <2>6. QED
    BY <2>3, <2>4, <2>5
<1>2. After(keys, open) \in [Process -> Transaction]
  BY <1>1 DEF After
<1>3. QED
  BY <1>1, <1>2
-----------------------------------------------------------------------------
(***************************************************************************)
(* Types.                                                                  *)
(***************************************************************************)
\* The steps that open, close or lose a transaction.
ClientWork(c) ==
    \/ \E d \in Doc : BeginAdmit(c, d)
    \/ \E d \in Doc, op \in {"pin", "lease", "renew"} : BeginProtect(c, op, d)
    \/ CommitAdmit(c) \/ CommitPin(c) \/ CommitLease(c) \/ CommitRenew(c)
    \/ ReleaseLease(c) \/ Lose(c)

RunnerWork(r) == (\E mode \in {"due", "forced", "redact"} : Pick(r, mode)) \/ WaveStep(r)

LEMMA StepCases ==
    ASSUME [Next]_vars
    PROVE  \/ \E c \in Client : ClientWork(c)
           \/ \E r \in Runner : RunnerWork(r)
           \/ Environment
           \/ UNCHANGED vars
<1>1. ASSUME NEW c \in Client, ClientStep(c) \/ Lose(c)
      PROVE  ClientWork(c)
  BY <1>1 DEF ClientStep, ClientWork
<1>2. ASSUME NEW r \in Runner, RunnerStep(r)
      PROVE  RunnerWork(r)
  BY <1>2 DEF RunnerStep, RunnerWork
<1>3. QED
  BY <1>1, <1>2 DEF Next

TxnType  == txn \in [Process -> Transaction]
WaveType ==
    /\ pc \in [Runner -> {"idle", "decide", "publish", "clean"}]
    /\ task \in [Runner -> Task]
    /\ left \in [Runner -> 0..StepsPerWave]
    /\ restarts \in 0..MaxRestarts
RecordType ==
    /\ now \in 0..MaxTime
    /\ admitted \subseteq Doc /\ retired \subseteq Doc
    /\ kept \in [Doc -> SUBSET OwnPhase]
    /\ owners \in [Payload -> SUBSET Doc]
    /\ stored \subseteq Payload
LifeType ==
    /\ tombstone \in [Doc -> Tombstones]
    /\ current \in [Doc -> [generation: Nat, at: Nat]]
    /\ \A e \in queue : e \in [doc: Doc, at: Nat, generation: Nat]
    /\ copies \subseteq Doc
CleanupType ==
    cleanup \in [Doc -> [status: {"none", "tombstoned", "complete"}, phase: 1..10,
                         deletion: {"none", "queued", "processed", "pruned"}]]
ProtectionType ==
    /\ pins \subseteq Doc
    /\ leases \in [Client -> [doc: Doc \cup {None}, until: Nat]]
    /\ heartbeats \in [Session -> Nat]

AllTypes == TxnType /\ WaveType /\ RecordType /\ LifeType /\ CleanupType /\ ProtectionType

LEMMA TypeParts == (TypeOK <=> AllTypes) /\ (TypeOK' <=> AllTypes')
BY PhaseFacts DEF AllTypes, TypeOK, TxnType, WaveType, RecordType, LifeType, CleanupType, ProtectionType

\* The transactions after each kind of step.
LEMMA OpenTyped ==
    ASSUME TxnType, NEW p \in Process, NEW d \in Doc,
           NEW op \in {"admit", "pin", "lease", "renew", "expire", "enqueue", "unshare"},
           NEW touched \in SUBSET Payload, NEW changed \in SUBSET Payload, NEW until \in Nat,
           Open(p, op, d, touched, changed, until)
    PROVE  /\ TxnType'
           /\ txn'[p] = [op |-> op, doc |-> d, lost |-> FALSE,
                         touched |-> touched, changed |-> changed, until |-> until]
           /\ \A q \in Process : q # p => txn'[q] = txn[q]
BY DEF Open, TxnType, Transaction

LEMMA ClosedTyped ==
    ASSUME TxnType, NEW p \in Process, txn' = [txn EXCEPT ![p] = NoTxn]
    PROVE  TxnType' /\ txn'[p] = NoTxn /\ \A q \in Process : q # p => txn'[q] = txn[q]
BY NoTxnFacts DEF TxnType

LEMMA AfterTyped ==
    ASSUME TxnType, NEW keys, txn' = After(keys, txn)
    PROVE  TxnType'
BY AfterFacts DEF TxnType

LEMMA CloseTyped ==
    ASSUME TxnType, NEW p \in Process, Close(p)
    PROVE  TxnType'
<1>1. [txn EXCEPT ![p] = NoTxn] \in [Process -> Transaction]
  BY NoTxnFacts DEF TxnType
<1>2. QED
  BY <1>1, AfterFacts DEF TxnType, Close

\* A client commits a transaction about a version.
LEMMA CommitTyped ==
    ASSUME TxnType, NEW p \in Process, NEW op \in {"admit", "pin", "lease", "renew", "expire",
                                                   "enqueue", "unshare"}, Committing(p, op)
    PROVE  txn[p].until \in Nat /\ txn[p].changed \subseteq Payload /\ txn[p].touched \subseteq Payload
BY DEF TxnType, Committing, Transaction

LEMMA ClientTypes ==
    ASSUME TypeOK, OpenInv, NEW c \in Client, ClientWork(c)
    PROVE  TypeOK'
<1>a. TxnType /\ WaveType /\ RecordType /\ LifeType /\ CleanupType /\ ProtectionType
  BY TypeParts DEF AllTypes
<1>b. c \in Process
  BY ProcessFacts
<1>c. txn[c].op # "none" => txn[c].doc \in Doc
  BY DEF OpenInv, ClientOpen
<1>1. ASSUME NEW d \in Doc, BeginAdmit(c, d)
      PROVE  TypeOK'
  <2>1. Manifest[d].payloads \subseteq Payload
    BY ManifestFacts
  <2>2. TxnType'
    BY <1>1, <1>a, <1>b, <2>1, OpenTyped DEF BeginAdmit
  <2>3. QED
    BY <1>1, <1>a, <2>2, TypeParts
       DEF AllTypes, BeginAdmit, WaveType, RecordType, LifeType, CleanupType, ProtectionType,
           ledger, canonical, lifecycle, protection, wave
<1>2. ASSUME NEW d \in Doc, NEW op \in {"pin", "lease", "renew"}, BeginProtect(c, op, d)
      PROVE  TypeOK'
  <2>1. now + Ttl \in Nat
    BY <1>a, RetentionAssumption DEF RecordType
  <2>2. TxnType'
    BY <1>2, <1>a, <1>b, <2>1, OpenTyped DEF BeginProtect
  <2>3. QED
    BY <1>2, <1>a, <2>2, TypeParts
       DEF AllTypes, BeginProtect, WaveType, RecordType, LifeType, CleanupType, ProtectionType,
           ledger, canonical, lifecycle, protection, wave
<1>3. CASE CommitAdmit(c)
  <2> DEFINE d == txn[c].doc
  <2>1. d \in Doc /\ txn[c].changed \subseteq Payload
    BY <1>3, <1>a, <1>b, <1>c, CommitTyped DEF CommitAdmit, Committing
  <2>2. TxnType'
    BY <1>3, <1>a, <1>b, CloseTyped DEF CommitAdmit
  <2>3. RecordType'
    <3>1. retired' \subseteq Doc
      BY <1>3, <1>a, <2>1, ManifestFacts DEF CommitAdmit, RecordType
    <3>2. QED
      BY <1>3, <1>a, <2>1, <3>1 DEF CommitAdmit, RecordType
  <2>4. LifeType'
    <3>1. tombstone' \in [Doc -> Tombstones]
      BY <1>3, <1>a DEF CommitAdmit, LifeType, Tombstones
    <3>2. [doc |-> d, at |-> Manifest[d].expiresAt, generation |-> 0]
             \in [doc: Doc, at: Nat, generation: Nat]
      BY <2>1, ManifestFacts
    <3>3. \A e \in queue' : e \in [doc: Doc, at: Nat, generation: Nat]
      BY <1>3, <1>a, <3>2 DEF CommitAdmit, LifeType
    <3>4. QED
      BY <1>3, <1>a, <3>1, <3>3 DEF CommitAdmit, LifeType
  <2>5. QED
    BY <1>3, <1>a, <2>2, <2>3, <2>4, TypeParts
       DEF AllTypes, CommitAdmit, WaveType, CleanupType, ProtectionType, protection, wave
<1>4. CASE CommitPin(c)
  <2>1. TxnType' /\ txn[c].doc \in Doc
    BY <1>4, <1>a, <1>b, <1>c, CloseTyped DEF CommitPin, Committing
  <2>2. QED
    BY <1>4, <1>a, <2>1, TypeParts
       DEF AllTypes, CommitPin, WaveType, RecordType, LifeType, CleanupType, ProtectionType,
           ledger, canonical, lifecycle, wave
<1>5. CASE CommitLease(c)
  <2>1. TxnType' /\ txn[c].doc \in Doc /\ txn[c].until \in Nat
    BY <1>5, <1>a, <1>b, <1>c, CloseTyped, CommitTyped DEF CommitLease, Committing
  <2>2. QED
    BY <1>5, <1>a, <2>1, TypeParts
       DEF AllTypes, CommitLease, WaveType, RecordType, LifeType, CleanupType, ProtectionType,
           ledger, canonical, lifecycle, wave
<1>6. CASE CommitRenew(c)
  <2> DEFINE d == txn[c].doc
  <2>1. TxnType' /\ d \in Doc /\ txn[c].until \in Nat
    BY <1>6, <1>a, <1>b, <1>c, CloseTyped, CommitTyped DEF CommitRenew, Committing
  <2>2. current[d].generation + 1 \in Nat
    BY <1>a, <2>1 DEF LifeType
  <2>3. LifeType'
    BY <1>6, <1>a, <2>1, <2>2 DEF CommitRenew, LifeType
  <2>4. QED
    BY <1>6, <1>a, <2>1, <2>3, TypeParts
       DEF AllTypes, CommitRenew, WaveType, RecordType, CleanupType, ProtectionType,
           ledger, canonical, protection, wave
<1>7. CASE ReleaseLease(c)
  BY <1>7, <1>a, TypeParts
     DEF AllTypes, ReleaseLease, NoLease, TxnType, WaveType, RecordType, LifeType, CleanupType,
         ProtectionType, ledger, canonical, lifecycle, wave
<1>8. CASE Lose(c)
  <2>1. TxnType'
    BY <1>8, <1>a, <1>b, ClosedTyped DEF Lose
  <2>2. QED
    BY <1>8, <1>a, <2>1, TypeParts
       DEF AllTypes, Lose, WaveType, RecordType, LifeType, CleanupType, ProtectionType,
           ledger, canonical, lifecycle, protection, wave
<1>9. QED
  BY <1>1, <1>2, <1>3, <1>4, <1>5, <1>6, <1>7, <1>8 DEF ClientWork

LEMMA RunnerTypes ==
    ASSUME TypeOK, OpenInv, WaveInv, NEW r \in Runner, RunnerWork(r)
    PROVE  TypeOK'
<1> DEFINE d == task[r].doc
<1>a. /\ TxnType /\ WaveType /\ RecordType /\ LifeType /\ CleanupType /\ ProtectionType
      /\ task[r] \in Task
  BY TypeParts DEF AllTypes, WaveType
<1>b. r \in Process
  BY ProcessFacts
<1>c. pc[r] # "idle" => d \in Doc
  BY DEF WaveInv, WaveKnows
<1>d. NoTask \in Task
  BY NoTaskFacts
<1>e. StepsPerWave \in Nat /\ 0 \in 0..StepsPerWave /\ left[r] \in 0..StepsPerWave
  BY <1>a, RetentionAssumption DEF WaveType
<1>f. d \in Doc => \A e \in Immediate(r, d) : e \in [doc: Doc, at: Nat, generation: Nat]
  <2>1. task[r].started \in Nat
    BY <1>a, RetentionAssumption DEF Task
  <2>2. d \in Doc => NextGeneration(r, d) \in Nat
    BY <1>a DEF NextGeneration, LifeType, Task
  <2>3. QED
    BY <2>1, <2>2 DEF Immediate
<1>g. d \in Doc => /\ task[r].started \in Nat
                   /\ NextGeneration(r, d) \in Nat
  BY <1>a, RetentionAssumption DEF NextGeneration, LifeType, Task
<1>1. ASSUME NEW mode \in {"due", "forced", "redact"}, Pick(r, mode)
      PROVE  TypeOK'
  <2> DEFINE Found(e) == [mode |-> mode, doc |-> e.doc, at |-> e.at, generation |-> e.generation,
                          started |-> now, manifest |-> "document" \in kept[e.doc],
                          copy |-> e.doc \in copies]
  <2>1. \A e \in Candidate(mode) : e \in [doc: Doc, at: Nat, generation: Nat]
    <3>1. now \in Nat
      BY <1>a, RetentionAssumption DEF RecordType
    <3>2. \A e \in Candidate(mode) : e \in queue \/ \E x \in Doc : e = [doc |-> x, at |-> now, generation |-> 0]
      BY DEF Candidate
    <3>3. QED
      BY <1>a, <3>1, <3>2 DEF LifeType
  <2>2. \A e \in Candidate(mode) : Found(e) \in Task
    BY <1>a, <2>1 DEF Task, RecordType
  <2>3. task' \in [Runner -> Task]
    BY <1>1, <1>a, <2>2 DEF Pick, Task, WaveType
  <2>4. WaveType'
    BY <1>1, <1>a, <2>3 DEF Pick, WaveType
  <2>5. QED
    BY <1>1, <1>a, <2>4, TypeParts
       DEF AllTypes, Pick, TxnType, RecordType, LifeType, CleanupType, ProtectionType,
           ledger, canonical, lifecycle, protection
<1>2. CASE Dismiss(r)
  <2>1. TxnType'
    BY <1>2, <1>a, AfterTyped DEF Dismiss
  <2>2. WaveType' /\ LifeType'
    BY <1>2, <1>a, <1>d DEF Dismiss, WaveType, LifeType, Dequeued
  <2>3. QED
    BY <1>2, <1>a, <2>1, <2>2, TypeParts
       DEF AllTypes, Dismiss, RecordType, CleanupType, ProtectionType, ledger, canonical, protection
<1>3. CASE Resume(r)
  <2>1. TxnType' /\ d \in Doc
    BY <1>3, <1>a, <1>c, AfterTyped DEF Resume
  <2>2. WaveType'
    BY <1>3, <1>a DEF Resume, WaveType
  <2>3. LifeType'
    <3>1. \A e \in queue' : e \in [doc: Doc, at: Nat, generation: Nat]
      BY <1>3, <1>a, <1>f, <2>1 DEF Resume, LifeType
    <3>2. current' \in [Doc -> [generation: Nat, at: Nat]]
      BY <1>3, <1>a, <1>g, <2>1 DEF Resume, LifeType
    <3>3. QED
      BY <1>3, <1>a, <3>1, <3>2 DEF Resume, LifeType
  <2>4. QED
    BY <1>3, <1>a, <2>1, <2>2, <2>3, TypeParts
       DEF AllTypes, Resume, RecordType, CleanupType, ProtectionType, ledger, canonical, protection
<1>4. CASE BeginExpiry(r)
  <2>1. TxnType'
    BY <1>4, <1>a, <1>b, <1>c, OpenTyped DEF BeginExpiry
  <2>2. QED
    BY <1>4, <1>a, <2>1, TypeParts
       DEF AllTypes, BeginExpiry, WaveType, RecordType, LifeType, CleanupType, ProtectionType,
           ledger, canonical, lifecycle, protection, wave
<1>5. CASE CommitExpiry(r)
  <2>1. TxnType' /\ d \in Doc
    BY <1>5, <1>a, <1>b, <1>c, CloseTyped DEF CommitExpiry, Committing, OpenInv, RunnerOpen
  <2>2. WaveType'
    BY <1>5, <1>a DEF CommitExpiry, WaveType
  <2>3. LifeType'
    <3>1. \A e \in queue' : e \in [doc: Doc, at: Nat, generation: Nat]
      BY <1>5, <1>a, <1>f, <2>1 DEF CommitExpiry, LifeType
    <3>2. current' \in [Doc -> [generation: Nat, at: Nat]]
      BY <1>5, <1>a, <1>g, <2>1 DEF CommitExpiry, LifeType
    <3>3. tombstone' \in [Doc -> Tombstones]
      <4>1. Reason(task[r].mode) \in Tombstones
        BY <1>a DEF Reason, Tombstones, Task
      <4>2. QED
        BY <1>5, <1>a, <2>1, <4>1 DEF CommitExpiry, LifeType
    <3>4. QED
      BY <1>5, <1>a, <2>1, <3>1, <3>2, <3>3 DEF CommitExpiry, LifeType
  <2>4. CleanupType'
    BY <1>5, <1>a, <2>1 DEF CommitExpiry, CleanupType
  <2>5. QED
    BY <1>5, <1>a, <2>1, <2>2, <2>3, <2>4, TypeParts
       DEF AllTypes, CommitExpiry, RecordType, ProtectionType, ledger, canonical, protection
<1>6. CASE Lose(r)
  <2>1. TxnType'
    BY <1>6, <1>a, <1>b, ClosedTyped DEF Lose
  <2>2. QED
    BY <1>6, <1>a, <2>1, TypeParts
       DEF AllTypes, Lose, WaveType, RecordType, LifeType, CleanupType, ProtectionType,
           ledger, canonical, lifecycle, protection, wave
<1>7. CASE Fail(r)
  <2>1. TxnType'
    BY <1>7, <1>a, <1>b, ClosedTyped DEF Fail
  <2>2. WaveType'
    BY <1>7, <1>a, <1>d, <1>e DEF Fail, WaveType
  <2>3. QED
    BY <1>7, <1>a, <2>1, <2>2, TypeParts
       DEF AllTypes, Fail, RecordType, LifeType, CleanupType, ProtectionType,
           ledger, canonical, lifecycle, protection
<1>8. CASE Published(r) \/ NotPublished(r) \/ EndWave(r)
  <2>1. WaveType'
    BY <1>8, <1>a, <1>d, <1>e DEF Published, NotPublished, EndWave, WaveType
  <2>2. UNCHANGED <<now, ledger, canonical, lifecycle, protection, txn>>
    BY <1>8 DEF Published, NotPublished, EndWave
  <2>3. QED
    BY <1>a, <2>1, <2>2, TypeParts
       DEF AllTypes, TxnType, RecordType, LifeType, CleanupType, ProtectionType,
           ledger, canonical, lifecycle, protection
<1>9. ASSUME pc[r] = "clean", UsesStep(r), left[r] > 0, UNCHANGED <<pc, task, restarts>>
      PROVE  WaveType'
  <2>1. left[r] - 1 \in 0..StepsPerWave
    BY <1>e, <1>9
  <2>2. QED
    BY <1>9, <1>a, <2>1 DEF UsesStep, WaveType
<1>10. ASSUME d \in Doc, Advance(d), Phases[cleanup[d].phase] \in OwnPhase \cup SharedPhase
       PROVE  CleanupType'
  <2>1. cleanup[d].phase \in 1..10 /\ cleanup[d].phase # 10
    BY <1>10, <1>a, PhaseFacts DEF CleanupType
  <2>2. cleanup[d].phase + 1 \in 1..10
    BY <2>1
  <2>3. QED
    BY <1>10, <1>a, <2>2 DEF Advance, CleanupType
<1>11. CASE CleanOwn(r)
  <2>1. TxnType'
    BY <1>11, <1>a, AfterTyped DEF CleanOwn
  <2>2. d \in Doc /\ WaveType' /\ CleanupType'
    BY <1>11, <1>c, <1>9, <1>10 DEF CleanOwn, Cleaning
  <2>3. RecordType'
    BY <1>11, <1>a, <2>2 DEF CleanOwn, RecordType, ledger
  <2>4. QED
    BY <1>11, <1>a, <2>1, <2>2, <2>3, TypeParts
       DEF AllTypes, CleanOwn, LifeType, ProtectionType, protection
<1>12. CASE SkipShared(r)
  <2>1. TxnType'
    BY <1>12, <1>a, AfterTyped DEF SkipShared
  <2>2. WaveType' /\ CleanupType'
    BY <1>12, <1>c, <1>9, <1>10 DEF SkipShared, Cleaning
  <2>3. QED
    BY <1>12, <1>a, <2>1, <2>2, TypeParts
       DEF AllTypes, SkipShared, RecordType, LifeType, ProtectionType, ledger, canonical, protection
<1>13. CASE BeginUnshare(r)
  <2>1. d \in Doc
    BY <1>13, <1>c DEF BeginUnshare, Cleaning
  <2>2. PICK p \in Payload : Open(r, "unshare", d, {p}, {p} \cap LastOwned(d), 0)
    BY <1>13 DEF BeginUnshare, Owned
  <2>3. {p} \cap LastOwned(d) \in SUBSET Payload /\ {p} \in SUBSET Payload
    OBVIOUS
  <2>4. TxnType'
    BY <1>a, <1>b, <2>1, <2>2, <2>3, OpenTyped
  <2>5. QED
    BY <1>13, <1>a, <2>4, TypeParts
       DEF AllTypes, BeginUnshare, WaveType, RecordType, LifeType, CleanupType, ProtectionType,
           ledger, canonical, lifecycle, protection, wave
<1>14. CASE CommitUnshare(r)
  <2>1. TxnType' /\ d = txn[r].doc /\ pc[r] = "clean" /\ left[r] > 0
    BY <1>14, <1>a, <1>b, CloseTyped DEF CommitUnshare, Committing, OpenInv, RunnerOpen
  <2>2. WaveType'
    BY <1>14, <2>1, <1>9 DEF CommitUnshare
  <2>3. RecordType'
    BY <1>14, <1>a DEF CommitUnshare, RecordType, ledger
  <2>4. QED
    BY <1>14, <1>a, <2>1, <2>2, <2>3, TypeParts
       DEF AllTypes, CommitUnshare, LifeType, CleanupType, ProtectionType, lifecycle, protection
<1>15. CASE Complete(r)
  <2>1. TxnType'
    BY <1>15, <1>a, AfterTyped DEF Complete
  <2>2. d \in Doc /\ WaveType'
    BY <1>15, <1>c, <1>9 DEF Complete, Cleaning
  <2>3. CleanupType'
    BY <1>15, <1>a, <2>2 DEF Complete, NoCleanup, CleanupType
  <2>4. RecordType' /\ LifeType'
    BY <1>15, <1>a, <2>2 DEF Complete, RecordType, LifeType, Dequeued, canonical
  <2>5. QED
    BY <1>15, <1>a, <2>1, <2>2, <2>3, <2>4, TypeParts DEF AllTypes, Complete, ProtectionType, protection
<1>16. QED
  BY <1>1, <1>2, <1>3, <1>4, <1>5, <1>6, <1>7, <1>8, <1>11, <1>12, <1>13, <1>14, <1>15
     DEF RunnerWork, WaveStep

LEMMA EnvironmentTypes ==
    ASSUME TypeOK, Environment
    PROVE  TypeOK'
<1>a. TxnType /\ WaveType /\ RecordType /\ LifeType /\ CleanupType /\ ProtectionType
  BY TypeParts DEF AllTypes
<1>1. ASSUME NEW d \in Doc, IndexDelete(d) \/ Prune(d)
      PROVE  TypeOK'
  <2>1. CleanupType'
    BY <1>1, <1>a DEF IndexDelete, Prune, CleanupType
  <2>2. QED
    BY <1>1, <1>a, <2>1, TypeParts
       DEF AllTypes, IndexDelete, Prune, TxnType, WaveType, RecordType, LifeType, ProtectionType,
           ledger, canonical, protection, wave
<1>2. ASSUME NEW d \in Doc, ReclaimMetadata(d)
      PROVE  TypeOK'
  <2>1. CleanupType' /\ LifeType' /\ RecordType'
    BY <1>2, <1>a
       DEF ReclaimMetadata, NoCleanup, Tombstones, CleanupType, LifeType, RecordType, canonical
  <2>2. QED
    BY <1>2, <1>a, <2>1, TypeParts
       DEF AllTypes, ReclaimMetadata, TxnType, WaveType, ProtectionType, protection, wave
<1>3. ASSUME NEW d \in Doc, Unpin(d)
      PROVE  TypeOK'
  BY <1>3, <1>a, TypeParts
     DEF AllTypes, Unpin, TxnType, WaveType, RecordType, LifeType, CleanupType, ProtectionType,
         ledger, canonical, lifecycle, wave
<1>4. ASSUME NEW s \in Session, Heartbeat(s)
      PROVE  TypeOK'
  <2>1. now + Ttl \in Nat
    BY <1>a, RetentionAssumption DEF RecordType
  <2>2. TxnType' /\ ProtectionType'
    BY <1>4, <1>a, <2>1, AfterTyped DEF Heartbeat, ProtectionType
  <2>3. QED
    BY <1>4, <1>a, <2>2, TypeParts
       DEF AllTypes, Heartbeat, WaveType, RecordType, LifeType, CleanupType,
           ledger, canonical, lifecycle, wave
<1>5. CASE Tick
  <2>1. RecordType'
    BY <1>5, <1>a, RetentionAssumption DEF Tick, RecordType, ledger, canonical
  <2>2. QED
    BY <1>5, <1>a, <2>1, TypeParts
       DEF AllTypes, Tick, TxnType, WaveType, LifeType, CleanupType, ProtectionType,
           lifecycle, protection, wave
<1>6. CASE Restart
  <2>1. TxnType' /\ WaveType'
    BY <1>6, <1>a, NoTxnFacts, NoTaskFacts, RetentionAssumption DEF Restart, TxnType, WaveType
  <2>2. QED
    BY <1>6, <1>a, <2>1, TypeParts
       DEF AllTypes, Restart, RecordType, LifeType, CleanupType, ProtectionType,
           ledger, canonical, lifecycle, protection
<1>7. QED
  BY <1>1, <1>2, <1>3, <1>4, <1>5, <1>6 DEF Environment

LEMMA TypeStep == TypeOK /\ Inv /\ [Next]_vars => TypeOK'
<1>1. ASSUME UNCHANGED vars, TypeOK
      PROVE  TypeOK'
  BY <1>1 DEF vars, ledger, canonical, lifecycle, protection, wave, TypeOK
<1>2. QED
  BY <1>1, StepCases, ClientTypes, RunnerTypes, EnvironmentTypes DEF Inv
-----------------------------------------------------------------------------
(***************************************************************************)
(* The records of a version, its tombstone and its cleanup.                *)
(***************************************************************************)
RecordChange ==
    \/ \E c \in Client : CommitAdmit(c)
    \/ \E r \in Runner : CommitExpiry(r) \/ CleanOwn(r) \/ SkipShared(r) \/ CommitUnshare(r)
                         \/ Complete(r)
    \/ \E d \in Doc : IndexDelete(d) \/ Prune(d) \/ ReclaimMetadata(d)

\* Every other step leaves the records of the versions alone.
LEMMA RecordFrame ==
    ASSUME [Next]_vars, ~RecordChange
    PROVE  UNCHANGED <<ledger, canonical, tombstone, cleanup>>
<1>1. ASSUME NEW c \in Client, ClientWork(c)
      PROVE  UNCHANGED <<ledger, canonical, tombstone, cleanup>>
  BY <1>1 DEF RecordChange, ClientWork, BeginAdmit, BeginProtect, CommitPin, CommitLease,
              CommitRenew, ReleaseLease, Lose, lifecycle
<1>2. ASSUME NEW r \in Runner, RunnerWork(r)
      PROVE  UNCHANGED <<ledger, canonical, tombstone, cleanup>>
  BY <1>2 DEF RecordChange, RunnerWork, WaveStep, Pick, Dismiss, Resume, BeginExpiry, Lose, Fail,
              Published, NotPublished, EndWave, BeginUnshare, lifecycle
<1>3. CASE Environment
  BY <1>3 DEF RecordChange, Environment, Unpin, Heartbeat, Tick, Restart, lifecycle
<1>4. CASE UNCHANGED vars
  BY <1>4 DEF vars, lifecycle
<1>5. QED
  BY <1>1, <1>2, <1>3, <1>4, StepCases

LEMMA DocumentFrame ==
    ASSUME NEW d \in Doc, DocumentInv(d),
           d \in admitted' <=> d \in admitted, d \in retired' <=> d \in retired,
           kept'[d] = kept[d], tombstone'[d] = tombstone[d], cleanup'[d] = cleanup[d],
           \A p \in Payload : d \in owners'[p] <=> d \in owners[p]
    PROVE  DocumentInv(d)'
<1>1. Manifest[d].payloads \subseteq Payload
  BY ManifestFacts
<1>2. /\ Gone(d)' <=> Gone(d)
      /\ Whole(d)' <=> Whole(d)
      /\ Passed(d)' <=> Passed(d)
  BY <1>1 DEF Whole, Gone, Passed
<1>3. QED
  BY <1>2 DEF DocumentInv

\* What the transaction of a wave is about.
LEMMA RunnerTxn ==
    ASSUME TypeOK, Inv, NEW r \in Runner, txn[r].op # "none"
    PROVE  /\ txn[r].doc = task[r].doc /\ task[r].doc \in Doc
           /\ pc[r] = IF txn[r].op = "unshare" THEN "clean" ELSE "decide"
BY DEF Inv, OpenInv, RunnerOpen, WaveInv, WaveKnows

LEMMA CleaningDoc ==
    ASSUME TypeOK, Inv, NEW r \in Runner, NEW phases, Cleaning(r, phases)
    PROVE  /\ task[r].doc \in Doc /\ DocumentInv(task[r].doc)
           /\ cleanup[task[r].doc].status = "tombstoned" /\ cleanup[task[r].doc].phase \in 1..10
           /\ tombstone[task[r].doc] # "none" /\ Passed(task[r].doc)
           /\ task[r].doc \in admitted
           /\ Phases[cleanup[task[r].doc].phase] \in phases
<1>1. task[r].doc \in Doc /\ cleanup[task[r].doc].phase \in 1..10
  BY TypeParts DEF AllTypes, CleanupType, Cleaning, Inv, WaveInv, WaveKnows
<1>2. QED
  BY <1>1 DEF Inv, DocumentsInv, DocumentInv, Cleaning

LEMMA DocumentAdmit ==
    ASSUME TypeOK, Inv, NEW c \in Client, CommitAdmit(c), NEW d \in Doc
    PROVE  DocumentInv(d)'
<1> DEFINE e == txn[c].doc
           prior == Manifest[e].prior
<1>a. /\ e \in Doc /\ e \notin admitted /\ prior \in admitted \cup {None} /\ DocumentInv(d)
      /\ e # None /\ Manifest[e].payloads \subseteq Payload
  BY ManifestFacts DEF CommitAdmit, Committing, Inv, OpenInv, ClientOpen, DocumentsInv
<1>b. /\ admitted' = admitted \cup {e} /\ retired' = retired \cup ({prior} \ {None})
      /\ kept'[d] = IF d = e THEN OwnPhase ELSE kept[d]
      /\ cleanup'[d] = cleanup[d]
      /\ tombstone'[d] = IF d \in Replaced(e) THEN "superseded" ELSE tombstone[d]
      /\ \A p \in Payload : owners'[p] =
            IF p \in Manifest[e].payloads THEN owners[p] \cup {e} ELSE owners[p]
  BY <1>a, TypeParts DEF CommitAdmit, AllTypes, RecordType, LifeType
<1>c. d \in Replaced(e) => d = prior /\ tombstone[d] = "none" /\ "document" \in kept[d]
  BY DEF Replaced
<1>1. CASE d = e
  <2>1. d # prior /\ d \notin retired /\ tombstone[d] = "none" /\ cleanup[d].status = "none"
    BY <1>1, <1>a DEF DocumentInv
  <2>2. cleanup[d].deletion = "none"
    BY <2>1, <1>a DEF DocumentInv
  <2>3. Whole(d)'
    BY <1>1, <1>a, <1>b DEF Whole
  <2>4. \A p \in Payload : d \in owners'[p] => p \in Manifest[d].payloads
    BY <1>1, <1>a, <1>b DEF DocumentInv
  <2>5. QED
    BY <1>1, <1>b, <1>c, <2>1, <2>2, <2>3, <2>4 DEF DocumentInv
<1>2. CASE d # e /\ d # prior
  BY <1>2, <1>a, <1>b, <1>c, DocumentFrame
<1>3. CASE d # e /\ d = prior
  <2>1. /\ d \in admitted /\ d \in admitted'
        /\ \A p \in Payload : d \in owners'[p] <=> d \in owners[p]
    BY <1>3, <1>a, <1>b, ManifestFacts
  <2>2. Gone(d)' <=> Gone(d)
    BY <1>3, <1>b, <2>1 DEF Gone
  <2>3. Passed(d)' <=> Passed(d)
    BY <1>3, <1>b, <2>1 DEF Passed
  <2>4. CASE d \in Replaced(e)
    BY <1>3, <1>a, <1>b, <1>c, <2>1, <2>2, <2>3, <2>4 DEF DocumentInv
  <2>5. CASE d \notin Replaced(e)
    <3>1. tombstone[d] = "none" => "document" \notin kept[d]
      BY <1>3, <1>a, <2>1, <2>5, ManifestFacts DEF Replaced
    <3>2. tombstone[d] = "none" => Gone(d)
      BY <1>a, <2>1, <3>1 DEF DocumentInv, Whole, OwnPhase
    <3>3. QED
      BY <1>3, <1>a, <1>b, <2>1, <2>2, <2>3, <2>5, <3>2 DEF DocumentInv
  <2>6. QED
    BY <2>4, <2>5
<1>4. QED
  BY <1>1, <1>2, <1>3

LEMMA DocumentExpiry ==
    ASSUME TypeOK, Inv, NEW r \in Runner, CommitExpiry(r), NEW d \in Doc
    PROVE  DocumentInv(d)'
<1> DEFINE e == task[r].doc
<1>a. e \in Doc /\ txn[r].doc = e /\ DocumentInv(d) /\ DocumentInv(e)
  BY RunnerTxn DEF CommitExpiry, Committing, Inv, DocumentsInv
<1>b. /\ UNCHANGED <<admitted, retired, kept, owners>>
      /\ d # e => tombstone'[d] = tombstone[d] /\ cleanup'[d] = cleanup[d]
      /\ tombstone'[e] = IF txn[r].op = "expire" THEN Reason(task[r].mode) ELSE tombstone[e]
      /\ cleanup'[e] = [status |-> "tombstoned", phase |-> 1, deletion |-> "queued"]
  BY <1>a, TypeParts DEF CommitExpiry, AllTypes, CleanupType, LifeType, ledger, canonical
<1>1. CASE d # e
  BY <1>1, <1>a, <1>b, DocumentFrame
<1>2. CASE d = e
  <2>1. tombstone'[e] # "none" /\ e \in admitted
    <3>1. CASE Committing(r, "expire")
      <4>1. Reason(task[r].mode) # "none"
        BY TypeParts DEF Reason, AllTypes, WaveType, Task
      <4>2. QED
        BY <1>a, <1>b, <3>1, <4>1 DEF Committing, Inv, SnapshotInv, ExpireSnapshot
    <3>2. CASE Committing(r, "enqueue")
      BY <1>a, <1>b, <3>2 DEF Committing, Inv, SnapshotInv, EnqueueSnapshot, DocumentInv
    <3>3. QED
      BY <3>1, <3>2 DEF CommitExpiry
  <2>2. Passed(d)'
    BY <1>2, <1>b DEF Passed
  <2>3. QED
    BY <1>2, <1>a, <1>b, <2>1, <2>2 DEF DocumentInv
<1>3. QED
  BY <1>1, <1>2

LEMMA DocumentDelete ==
    ASSUME TypeOK, Inv, NEW e \in Doc, IndexDelete(e) \/ Prune(e), NEW d \in Doc
    PROVE  DocumentInv(d)'
<1>a. DocumentInv(d)
  BY DEF Inv, DocumentsInv
<1>b. /\ UNCHANGED <<admitted, retired, kept, owners, tombstone>>
      /\ cleanup[e].deletion # "none"
      /\ d # e => cleanup'[d] = cleanup[d]
      /\ cleanup'[e].status = cleanup[e].status /\ cleanup'[e].phase = cleanup[e].phase
      /\ cleanup'[e].deletion # "none"
  BY TypeParts DEF IndexDelete, Prune, AllTypes, CleanupType, ledger, canonical
<1>1. CASE d # e
  BY <1>1, <1>a, <1>b, DocumentFrame
<1>2. CASE d = e
  <2>1. (Gone(d)' <=> Gone(d)) /\ (Passed(d)' <=> Passed(d)) /\ cleanup[d].status = "tombstoned"
    BY <1>2, <1>a, <1>b, TypeParts DEF Gone, Passed, DocumentInv, AllTypes, CleanupType
  <2>2. QED
    BY <1>2, <1>a, <1>b, <2>1 DEF DocumentInv
<1>3. QED
  BY <1>1, <1>2

\* A phase is over, and the version keeps none of its records.
LEMMA PhasePassed ==
    ASSUME NEW d \in Doc, Passed(d), cleanup[d].phase \in 1..10,
           cleanup'[d].phase = cleanup[d].phase + 1,
           kept'[d] \subseteq kept[d], Phases[cleanup[d].phase] \notin kept'[d],
           \A p \in Payload : d \in owners'[p] => d \in owners[p],
           \A p \in Payload : d \in owners'[p] => PhaseOf[p] # Phases[cleanup[d].phase]
    PROVE  Passed(d)'
<1> SUFFICES ASSUME NEW i \in 1..10, i < cleanup'[d].phase
             PROVE  /\ Phases[i] \notin kept'[d]
                    /\ \A p \in Payload : d \in owners'[p] => PhaseOf[p] # Phases[i]
  BY DEF Passed
<1>1. i < cleanup[d].phase \/ i = cleanup[d].phase
  OBVIOUS
<1>2. CASE i < cleanup[d].phase
  BY <1>2 DEF Passed
<1>3. CASE i = cleanup[d].phase
  BY <1>3
<1>4. QED
  BY <1>1, <1>2, <1>3

LEMMA DocumentClean ==
    ASSUME TypeOK, Inv, NEW r \in Runner, CleanOwn(r) \/ SkipShared(r), NEW d \in Doc
    PROVE  DocumentInv(d)'
<1> DEFINE e == task[r].doc
<1>a. /\ e \in Doc /\ DocumentInv(d) /\ cleanup[e].status = "tombstoned"
      /\ cleanup[e].phase \in 1..10 /\ tombstone[e] # "none" /\ Passed(e) /\ e \in admitted
  BY CleaningDoc DEF CleanOwn, SkipShared, Inv, DocumentsInv
<1>b. /\ UNCHANGED <<admitted, retired, owners, tombstone>>
      /\ d # e => cleanup'[d] = cleanup[d] /\ kept'[d] = kept[d]
      /\ cleanup'[e].status = cleanup[e].status /\ cleanup'[e].deletion = cleanup[e].deletion
      /\ cleanup'[e].phase = cleanup[e].phase + 1
      /\ kept'[e] \subseteq kept[e]
  BY <1>a, TypeParts DEF CleanOwn, SkipShared, Advance, AllTypes, CleanupType, RecordType,
                         ledger, canonical
<1>1. CASE d # e
  BY <1>1, <1>a, <1>b, DocumentFrame
<1>2. CASE d = e
  <2>1. /\ Phases[cleanup[e].phase] \notin kept'[e]
        /\ \A p \in Payload : e \in owners[p] => PhaseOf[p] # Phases[cleanup[e].phase]
    <3>1. CASE CleanOwn(r)
      <4>1. Phases[cleanup[e].phase] \in OwnPhase
        BY <3>1 DEF CleanOwn, Cleaning
      <4>2. \A p \in Payload : PhaseOf[p] # Phases[cleanup[e].phase]
        BY <4>1, RetentionAssumption DEF OwnPhase, SharedPhase
      <4>3. kept'[e] = kept[e] \ {Phases[cleanup[e].phase]}
        BY <1>a, <3>1, TypeParts DEF CleanOwn, AllTypes, RecordType
      <4>4. QED
        BY <4>2, <4>3
    <3>2. CASE SkipShared(r)
      <4>1. Phases[cleanup[e].phase] \in SharedPhase /\ Owned(e) = {} /\ kept' = kept
        BY <3>2 DEF SkipShared, Cleaning, canonical
      <4>2. Phases[cleanup[e].phase] \notin kept[e]
        BY <1>a, <4>1, TypeParts DEF AllTypes, RecordType, OwnPhase, SharedPhase
      <4>3. QED
        BY <4>1, <4>2 DEF Owned
    <3>3. QED
      BY <3>1, <3>2
  <2>2. Passed(d)'
    BY <1>2, <1>a, <1>b, <2>1, PhasePassed
  <2>3. QED
    BY <1>2, <1>a, <1>b, <2>2 DEF DocumentInv
<1>3. QED
  BY <1>1, <1>2

LEMMA DocumentUnshare ==
    ASSUME TypeOK, Inv, NEW r \in Runner, CommitUnshare(r), NEW d \in Doc
    PROVE  DocumentInv(d)'
<1> DEFINE e == txn[r].doc
<1>a. e \in Doc /\ DocumentInv(d) /\ cleanup[e].status = "tombstoned"
  BY RunnerTxn DEF CommitUnshare, Committing, Inv, DocumentsInv, SnapshotInv, UnshareSnapshot
<1>b. /\ UNCHANGED <<admitted, retired, kept, tombstone, cleanup>>
      /\ \A p \in Payload : owners'[p] = IF p \in txn[r].touched THEN owners[p] \ {e} ELSE owners[p]
  BY TypeParts DEF CommitUnshare, AllTypes, RecordType, ledger, lifecycle
<1>1. CASE d # e
  <2>1. \A p \in Payload : d \in owners'[p] <=> d \in owners[p]
    BY <1>1, <1>b
  <2>2. QED
    BY <1>a, <1>b, <2>1, DocumentFrame
<1>2. CASE d = e
  <2>1. \A p \in Payload : d \in owners'[p] => d \in owners[p]
    BY <1>b
  <2>2. Passed(d) => Passed(d)'
    BY <1>b, <2>1 DEF Passed
  <2>3. QED
    BY <1>2, <1>a, <1>b, <2>1, <2>2 DEF DocumentInv
<1>3. QED
  BY <1>1, <1>2

\* When a cleanup is at its last phase, nothing is left of the version.
LEMMA PassedAll ==
    ASSUME TypeOK, NEW d \in Doc, Passed(d), cleanup[d].phase = 10
    PROVE  Gone(d)
<1>a. kept[d] \subseteq OwnPhase
  BY TypeParts DEF AllTypes, RecordType
<1>1. \A i \in 1..9 : i \in 1..10 /\ i < 10
  OBVIOUS
<1>2. \A x \in OwnPhase : x \notin kept[d]
  BY <1>1, PhaseFacts DEF Passed
<1>3. \A p \in Payload : d \notin owners[p]
  <2> SUFFICES ASSUME NEW p \in Payload, d \in owners[p]
               PROVE  FALSE
    OBVIOUS
  <2>1. PhaseOf[p] \in SharedPhase
    BY RetentionAssumption
  <2>2. PICK i \in 1..9 : Phases[i] = PhaseOf[p]
    BY <2>1, PhaseFacts
  <2>3. QED
    BY <1>1, <2>2 DEF Passed
<1>4. QED
  BY <1>a, <1>2, <1>3 DEF Gone

LEMMA DocumentComplete ==
    ASSUME TypeOK, Inv, NEW r \in Runner, Complete(r), NEW d \in Doc
    PROVE  DocumentInv(d)'
<1> DEFINE e == task[r].doc
<1>a. /\ e \in Doc /\ DocumentInv(d) /\ tombstone[e] # "none" /\ e \in admitted
      /\ DocumentInv(e) /\ Gone(e)
  <2>1. /\ e \in Doc /\ tombstone[e] # "none" /\ e \in admitted /\ Passed(e)
        /\ cleanup[e].phase \in 1..10 /\ Phases[cleanup[e].phase] \in {"expiry"}
    BY CleaningDoc DEF Complete
  <2>2. cleanup[e].phase = 10
    BY <2>1, PhaseFacts
  <2>3. QED
    BY <2>1, <2>2, PassedAll DEF Inv, DocumentsInv
<1>b. /\ UNCHANGED <<admitted, kept, owners, tombstone>>
      /\ retired' = retired \cup {e}
      /\ d # e => cleanup'[d] = cleanup[d]
      /\ cleanup'[e].status = "complete" /\ cleanup'[e].deletion = "none"
  BY <1>a, TypeParts DEF Complete, NoCleanup, AllTypes, CleanupType, canonical
<1>1. CASE d # e
  BY <1>1, <1>a, <1>b, DocumentFrame
<1>2. CASE d = e
  <2>1. Gone(d)'
    BY <1>2, <1>a, <1>b DEF Gone
  <2>2. QED
    BY <1>2, <1>a, <1>b, <2>1 DEF DocumentInv
<1>3. QED
  BY <1>1, <1>2

LEMMA DocumentReclaim ==
    ASSUME TypeOK, Inv, NEW e \in Doc, ReclaimMetadata(e), NEW d \in Doc
    PROVE  DocumentInv(d)'
<1>a. DocumentInv(d) /\ Gone(e) /\ e \in admitted
  BY DEF Inv, DocumentsInv, DocumentInv, ReclaimMetadata
<1>b. /\ UNCHANGED <<admitted, kept, owners>>
      /\ retired' = retired \cup {e}
      /\ d # e => cleanup'[d] = cleanup[d] /\ tombstone'[d] = tombstone[d]
      /\ cleanup'[e].status = "none" /\ cleanup'[e].deletion = "none" /\ tombstone'[e] = "none"
  BY TypeParts DEF ReclaimMetadata, NoCleanup, AllTypes, CleanupType, LifeType, canonical
<1>1. CASE d # e
  BY <1>1, <1>a, <1>b, DocumentFrame
<1>2. CASE d = e
  <2>1. Gone(d)'
    BY <1>2, <1>a, <1>b DEF Gone
  <2>2. QED
    BY <1>2, <1>a, <1>b, <2>1 DEF DocumentInv
<1>3. QED
  BY <1>1, <1>2

LEMMA DocumentStep == TypeOK /\ Inv /\ [Next]_vars => DocumentsInv'
<1> SUFFICES ASSUME TypeOK, Inv, [Next]_vars, NEW d \in Doc
             PROVE  DocumentInv(d)'
  BY DEF DocumentsInv
<1>1. CASE ~RecordChange
  <2>1. UNCHANGED <<admitted, retired, kept, owners, tombstone, cleanup>>
    BY <1>1, RecordFrame DEF ledger, canonical
  <2>2. QED
    BY <2>1, DocumentFrame DEF Inv, DocumentsInv
<1>2. CASE RecordChange
  BY <1>2, DocumentAdmit, DocumentExpiry, DocumentDelete, DocumentClean, DocumentUnshare,
     DocumentComplete, DocumentReclaim DEF RecordChange
<1>3. QED
  BY <1>1, <1>2
-----------------------------------------------------------------------------
(***************************************************************************)
(* Payloads and their owners; the expiry queue.                            *)
(***************************************************************************)
LEMMA PayloadStep == TypeOK /\ Inv /\ [Next]_vars => PayloadInv'
<1> SUFFICES ASSUME TypeOK, Inv, [Next]_vars, NEW p \in Payload
             PROVE  p \in stored' <=> owners'[p] # {}
  BY DEF PayloadInv
<1>a. p \in stored <=> owners[p] # {}
  BY DEF Inv, PayloadInv
<1>1. ASSUME NEW c \in Client, CommitAdmit(c)
      PROVE  p \in stored' <=> owners'[p] # {}
  <2>1. /\ stored' = stored \cup (Manifest[txn[c].doc].payloads \ stored)
        /\ owners'[p] = IF p \in Manifest[txn[c].doc].payloads
                        THEN owners[p] \cup {txn[c].doc} ELSE owners[p]
    BY <1>1 DEF CommitAdmit, Inv, SnapshotInv, AdmitSnapshot
  <2>2. QED
    BY <1>a, <2>1
<1>2. ASSUME NEW r \in Runner, CommitUnshare(r)
      PROVE  p \in stored' <=> owners'[p] # {}
  <2> DEFINE d == txn[r].doc
  <2>1. /\ stored' = stored \ {q \in txn[r].touched : owners[q] = {d}}
        /\ owners'[p] = IF p \in txn[r].touched THEN owners[p] \ {d} ELSE owners[p]
        /\ p \in txn[r].touched => d \in owners[p]
    BY <1>2 DEF CommitUnshare, Inv, SnapshotInv, UnshareSnapshot
  <2>2. QED
    BY <1>a, <2>1
<1>3. CASE ~ (\/ \E c \in Client : CommitAdmit(c)
              \/ \E r \in Runner : CommitUnshare(r))
  <2>1. UNCHANGED <<stored, owners>>
    <3>1. CASE RecordChange
      BY <1>3, <3>1 DEF RecordChange, CommitExpiry, CleanOwn, SkipShared, Complete, IndexDelete,
                        Prune, ReclaimMetadata, canonical
    <3>2. CASE ~RecordChange
      BY <3>2, RecordFrame DEF canonical
    <3>3. QED
      BY <3>1, <3>2
  <2>2. QED
    BY <1>a, <2>1
<1>4. QED
  BY <1>1, <1>2, <1>3

QueueChange ==
    \/ \E c \in Client : CommitAdmit(c) \/ CommitRenew(c)
    \/ \E r \in Runner : Dismiss(r) \/ Resume(r) \/ CommitExpiry(r) \/ Complete(r)

LEMMA QueueFrame ==
    ASSUME [Next]_vars, ~QueueChange
    PROVE  UNCHANGED <<queue, current>>
<1>1. ASSUME NEW c \in Client, ClientWork(c)
      PROVE  UNCHANGED <<queue, current>>
  BY <1>1 DEF QueueChange, ClientWork, BeginAdmit, BeginProtect, CommitPin, CommitLease,
              ReleaseLease, Lose, lifecycle
<1>2. ASSUME NEW r \in Runner, RunnerWork(r)
      PROVE  UNCHANGED <<queue, current>>
  BY <1>2 DEF QueueChange, RunnerWork, WaveStep, Pick, BeginExpiry, Lose, Fail, Published,
              NotPublished, EndWave, CleanOwn, SkipShared, BeginUnshare, CommitUnshare, lifecycle
<1>3. CASE Environment
  BY <1>3 DEF Environment, IndexDelete, Prune, ReclaimMetadata, Unpin, Heartbeat, Tick, Restart,
              lifecycle
<1>4. CASE UNCHANGED vars
  BY <1>4 DEF vars, lifecycle
<1>5. QED
  BY <1>1, <1>2, <1>3, <1>4, StepCases

\* Later entries have a generation.
LEMMA ImmediateLater ==
    ASSUME TypeOK, NEW r \in Runner, NEW d \in Doc, NEW e \in Immediate(r, d)
    PROVE  e.generation # 0 /\ e.generation \in Nat
<1>1. task[r].generation \in Nat /\ current[d].generation \in Nat
  BY TypeParts DEF AllTypes, WaveType, Task, LifeType
<1>2. NextGeneration(r, d) \in Nat /\ NextGeneration(r, d) # 0
  BY <1>1 DEF NextGeneration
<1>3. e.generation = NextGeneration(r, d)
  BY DEF Immediate
<1>4. QED
  BY <1>2, <1>3

LEMMA QueueStep == TypeOK /\ Inv /\ [Next]_vars => QueueInv'
<1> SUFFICES ASSUME TypeOK, Inv, [Next]_vars, NEW e \in queue', e.generation = 0
             PROVE  e.at = Manifest[e.doc].expiresAt
  BY DEF QueueInv
<1>a. e \in queue => e.at = Manifest[e.doc].expiresAt
  BY DEF Inv, QueueInv
<1>1. ASSUME NEW c \in Client, CommitAdmit(c)
      PROVE  e.at = Manifest[e.doc].expiresAt
  BY <1>1, <1>a DEF CommitAdmit
<1>2. ASSUME NEW c \in Client, CommitRenew(c)
      PROVE  e.at = Manifest[e.doc].expiresAt
  <2>1. txn[c].doc \in Doc
    BY <1>2 DEF CommitRenew, Committing, Inv, OpenInv, ClientOpen
  <2>2. current[txn[c].doc].generation + 1 # 0
    BY <2>1, TypeParts DEF AllTypes, LifeType
  <2>3. QED
    BY <1>2, <1>a, <2>2 DEF CommitRenew
<1>3. ASSUME NEW r \in Runner, Dismiss(r) \/ Complete(r)
      PROVE  e.at = Manifest[e.doc].expiresAt
  BY <1>3, <1>a DEF Dismiss, Complete, Dequeued
<1>4. ASSUME NEW r \in Runner, Resume(r)
      PROVE  e.at = Manifest[e.doc].expiresAt
  <2>1. task[r].doc \in Doc
    BY <1>4 DEF Resume, Inv, WaveInv, WaveKnows
  <2>2. QED
    BY <1>4, <1>a, <2>1, ImmediateLater DEF Resume
<1>5. ASSUME NEW r \in Runner, CommitExpiry(r)
      PROVE  e.at = Manifest[e.doc].expiresAt
  <2>1. task[r].doc \in Doc
    BY <1>5, RunnerTxn DEF CommitExpiry, Committing
  <2>2. QED
    BY <1>5, <1>a, <2>1, ImmediateLater DEF CommitExpiry
<1>6. CASE ~QueueChange
  BY <1>6, <1>a, QueueFrame
<1>7. QED
  BY <1>1, <1>2, <1>3, <1>4, <1>5, <1>6 DEF QueueChange
-----------------------------------------------------------------------------
(***************************************************************************)
(* Transactions that stay open over a step of another process.             *)
(***************************************************************************)
Survives(q) == txn[q].op # "none" /\ txn'[q].op # "none"

\* What survives a step is the same transaction; unless it is lost, nothing it writes was
\* written.
Spared(q, keys) ==
    /\ txn'[q].op = txn[q].op /\ txn'[q].doc = txn[q].doc /\ txn'[q].touched = txn[q].touched
    /\ ~txn'[q].lost => txn'[q] = txn[q] /\ \A key \in keys : key \notin Writes(txn[q])

LEMMA SparedByClose ==
    ASSUME TypeOK, NEW p \in Process, Close(p), NEW q \in Process, Survives(q)
    PROVE  q # p /\ Spared(q, Writes(txn[p]))
<1> DEFINE open == [txn EXCEPT ![p] = NoTxn]
           keys == Writes(txn[p])
<1>1. open \in [Process -> Transaction] /\ open[p] = NoTxn /\ (q # p => open[q] = txn[q])
  BY NoTxnFacts, TypeParts DEF AllTypes, TxnType
<1>2. txn' = After(keys, open)
  BY DEF Close
<1> HIDE DEF open, keys
<1>3. q # p
  BY <1>1, <1>2, AfterFacts, NoTxnFacts DEF Survives
<1>4. Spared(q, keys)
  BY <1>1, <1>2, <1>3, AfterFacts DEF Spared
<1>5. QED
  BY <1>3, <1>4 DEF keys

LEMMA SparedByAfter ==
    ASSUME TypeOK, NEW keys, txn' = After(keys, txn), NEW q \in Process
    PROVE  Spared(q, keys)
BY AfterFacts, TypeParts DEF AllTypes, TxnType, Spared

LEMMA SparedByOpen ==
    ASSUME TypeOK, NEW p \in Process, txn[p] = NoTxn, NEW op, NEW d, NEW touched, NEW changed,
           NEW until, Open(p, op, d, touched, changed, until), NEW q \in Process, Survives(q)
    PROVE  q # p /\ Spared(q, {})
BY NoTxnFacts, TypeParts DEF AllTypes, TxnType, Open, Survives, Spared

LEMMA SparedByDrop ==
    ASSUME TypeOK, NEW p \in Process, txn' = [txn EXCEPT ![p] = NoTxn], NEW q \in Process, Survives(q)
    PROVE  q # p /\ Spared(q, {})
BY NoTxnFacts, TypeParts DEF AllTypes, TxnType, Survives, Spared

\* The keys that each step writes.
LEMMA ClientKeys ==
    ASSUME TypeOK, Inv, NEW c \in Client, ClientWork(c), NEW q \in Process, Survives(q)
    PROVE  /\ Spared(q, {})
           /\ CommitAdmit(c) \/ CommitPin(c) \/ CommitLease(c) \/ CommitRenew(c) =>
                Spared(q, Writes(txn[c]))
           /\ ReleaseLease(c) \/ q # c
<1>a. c \in Process
  BY ProcessFacts
<1>b. \A keys : Spared(q, keys) => Spared(q, {})
  BY DEF Spared
<1>1. ASSUME NEW d \in Doc, BeginAdmit(c, d)
      PROVE  q # c /\ Spared(q, {})
  BY <1>1, <1>a, SparedByOpen DEF BeginAdmit
<1>2. ASSUME NEW d \in Doc, NEW op \in {"pin", "lease", "renew"}, BeginProtect(c, op, d)
      PROVE  q # c /\ Spared(q, {})
  BY <1>2, <1>a, SparedByOpen DEF BeginProtect
<1>3. ASSUME CommitAdmit(c) \/ CommitPin(c) \/ CommitLease(c) \/ CommitRenew(c)
      PROVE  q # c /\ Spared(q, Writes(txn[c]))
  BY <1>3, <1>a, SparedByClose DEF CommitAdmit, CommitPin, CommitLease, CommitRenew
<1>4. ASSUME ReleaseLease(c)
      PROVE  Spared(q, {})
  BY <1>4 DEF ReleaseLease, Spared
<1>5. ASSUME Lose(c)
      PROVE  q # c /\ Spared(q, {})
  BY <1>5, <1>a, SparedByDrop DEF Lose
<1>6. QED
  BY <1>b, <1>1, <1>2, <1>3, <1>4, <1>5 DEF ClientWork

LEMMA RunnerKeys ==
    ASSUME TypeOK, Inv, NEW r \in Runner, RunnerWork(r), NEW q \in Process, Survives(q)
    PROVE  /\ q # r
           /\ Spared(q, {})
           /\ CommitExpiry(r) \/ CommitUnshare(r) => Spared(q, Writes(txn[r]))
           /\ Resume(r) => Spared(q, GuardsOf(r))
           /\ CleanOwn(r) \/ SkipShared(r) \/ Complete(r) => Spared(q, {CleanupKey(task[r].doc)})
<1>a. r \in Process
  BY ProcessFacts
<1>b. \A keys : Spared(q, keys) => Spared(q, {})
  BY DEF Spared
<1>c. txn[r] = NoTxn => q # r
  BY NoTxnFacts DEF Survives
<1>1. ASSUME CommitExpiry(r) \/ CommitUnshare(r)
      PROVE  q # r /\ Spared(q, Writes(txn[r]))
  BY <1>1, <1>a, SparedByClose DEF CommitExpiry, CommitUnshare
<1>2. ASSUME Dismiss(r) \/ Resume(r)
      PROVE  q # r /\ Spared(q, GuardsOf(r))
  BY <1>2, <1>a, <1>c, SparedByAfter DEF Dismiss, Resume
<1>3. ASSUME CleanOwn(r)
      PROVE  q # r /\ Spared(q, {CleanupKey(task[r].doc)})
  <2> DEFINE keys == {CleanupKey(task[r].doc)} \cup PhaseGuard(task[r].doc)
  <2>1. q # r /\ Spared(q, keys)
    BY <1>3, <1>c, SparedByAfter DEF CleanOwn, Cleaning
  <2>2. QED
    BY <2>1 DEF Spared
<1>4. ASSUME SkipShared(r) \/ Complete(r)
      PROVE  q # r /\ Spared(q, {CleanupKey(task[r].doc)})
  BY <1>4, <1>c, SparedByAfter DEF SkipShared, Complete, Cleaning
<1>5. CASE BeginExpiry(r)
  <2>1. q # r /\ Spared(q, {})
    BY <1>5, <1>a, SparedByOpen DEF BeginExpiry
  <2>2. QED
    BY <1>b, <1>1, <1>2, <1>3, <1>4, <2>1
<1>6. CASE BeginUnshare(r)
  <2>1. PICK p \in Payload :
          Open(r, "unshare", task[r].doc, {p}, {p} \cap LastOwned(task[r].doc), 0)
    BY <1>6 DEF BeginUnshare, Owned
  <2>2. q # r /\ Spared(q, {})
    BY <1>6, <1>a, <2>1, SparedByOpen DEF BeginUnshare, Cleaning
  <2>3. QED
    BY <1>b, <1>1, <1>2, <1>3, <1>4, <2>2
<1>7. CASE Lose(r) \/ Fail(r)
  <2>1. q # r /\ Spared(q, {})
    BY <1>7, <1>a, SparedByDrop DEF Lose, Fail
  <2>2. QED
    BY <1>b, <1>1, <1>2, <1>3, <1>4, <2>1
<1>8. CASE \/ \E mode \in {"due", "forced", "redact"} : Pick(r, mode)
           \/ Published(r) \/ NotPublished(r) \/ EndWave(r)
  <2>1. txn' = txn
    BY <1>8 DEF Pick, Published, NotPublished, EndWave
  <2>2. Spared(q, {})
    BY <2>1 DEF Spared
  <2>3. txn[r].op # "none" => pc[r] \in {"decide", "clean"} /\ ~EndWave(r)
    BY RunnerTxn, NoTxnFacts DEF EndWave
  <2>4. txn[r].op # "none" => FALSE
    <3>1. txn[r].op = "unshare" => txn[r] # NoTxn
      BY NoTxnFacts
    <3>2. QED
      BY <1>8, <2>3 DEF Pick, Published, NotPublished
  <2>5. q # r
    BY <2>4 DEF Survives
  <2>6. QED
    BY <1>b, <1>1, <1>2, <1>3, <1>4, <2>2, <2>5
<1>9. QED
  BY <1>b, <1>1, <1>2, <1>3, <1>4, <1>5, <1>6, <1>7, <1>8 DEF RunnerWork, WaveStep

LEMMA EnvironmentKeys ==
    ASSUME TypeOK, Environment, NEW q \in Process, Survives(q)
    PROVE  /\ ~Restart
           /\ Spared(q, {})
           /\ \A s \in Session : Heartbeat(s) => Spared(q, {SessionGuard(s)})
<1>1. ASSUME NEW s \in Session, Heartbeat(s)
      PROVE  Spared(q, {SessionGuard(s)})
  BY <1>1, SparedByAfter DEF Heartbeat
<1>2. ~Restart
  BY NoTxnFacts DEF Restart, Survives
<1>3. Spared(q, {})
  <2>1. CASE \E s \in Session : Heartbeat(s)
    BY <1>1, <2>1 DEF Spared
  <2>2. CASE txn' = txn
    BY <2>2 DEF Spared
  <2>3. QED
    BY <1>2, <2>1, <2>2 DEF Environment, IndexDelete, Prune, ReclaimMetadata, Unpin, Tick
<1>4. QED
  BY <1>1, <1>2, <1>3

LEMMA SparedStep ==
    ASSUME TypeOK, Inv, [Next]_vars, NEW q \in Process, Survives(q)
    PROVE  Spared(q, {})
<1>1. UNCHANGED vars => Spared(q, {})
  BY DEF vars, Spared
<1>2. QED
  BY <1>1, StepCases, ClientKeys, RunnerKeys, EnvironmentKeys

\* A wave whose transaction stays open does nothing meanwhile.
LEMMA WaveStill ==
    ASSUME TypeOK, Inv, [Next]_vars, NEW r \in Runner, Survives(r)
    PROVE  pc'[r] = pc[r] /\ task'[r] = task[r] /\ left'[r] = left[r]
<1>a. r \in Process
  BY ProcessFacts
<1>1. ASSUME NEW c \in Client, ClientWork(c)
      PROVE  UNCHANGED wave
  BY <1>1 DEF ClientWork, BeginAdmit, BeginProtect, CommitAdmit, CommitPin, CommitLease, CommitRenew,
              ReleaseLease, Lose
<1>2. ASSUME NEW x \in Runner, RunnerWork(x)
      PROVE  pc'[r] = pc[r] /\ task'[r] = task[r] /\ left'[r] = left[r]
  <2>1. x # r
    BY <1>2, <1>a, RunnerKeys
  <2>2. WaveType
    BY TypeParts DEF AllTypes
  <2>3. QED
    BY <1>2, <2>1, <2>2
       DEF RunnerWork, WaveStep, Pick, Dismiss, Resume, BeginExpiry, CommitExpiry, Lose, Fail,
           Published, NotPublished, EndWave, CleanOwn, SkipShared, BeginUnshare, CommitUnshare,
           Complete, UsesStep, wave, WaveType
<1>3. CASE Environment
  BY <1>3, <1>a, EnvironmentKeys
     DEF Environment, IndexDelete, Prune, ReclaimMetadata, Unpin, Heartbeat, Tick, wave
<1>4. QED
  BY <1>1, <1>2, <1>3, StepCases DEF vars, wave

LEMMA AdmittedForward ==
    ASSUME [Next]_vars
    PROVE  admitted \subseteq admitted'
<1>1. CASE RecordChange
  BY <1>1 DEF RecordChange, CommitAdmit, CommitExpiry, CleanOwn, SkipShared, CommitUnshare,
              Complete, IndexDelete, Prune, ReclaimMetadata, ledger
<1>2. CASE ~RecordChange
  BY <1>2, RecordFrame DEF ledger
<1>3. QED
  BY <1>1, <1>2

\* Who opens a transaction, of which kind.
LEMMA Opens ==
    ASSUME TypeOK, Inv, [Next]_vars, NEW q \in Process, txn[q].op = "none", txn'[q].op # "none"
    PROVE  \/ q \in Client /\ \E d \in Doc : BeginAdmit(q, d)
           \/ q \in Client /\ \E d \in Doc, op \in {"pin", "lease", "renew"} : BeginProtect(q, op, d)
           \/ q \in Runner /\ (BeginExpiry(q) \/ BeginUnshare(q))
<1>a. TxnType
  BY TypeParts DEF AllTypes
<1>b. \A keys : txn' # After(keys, txn)
  BY <1>a, AfterFacts DEF TxnType
<1>c. \A p \in Process : txn' # [txn EXCEPT ![p] = NoTxn] /\ ~Close(p)
  <2> SUFFICES ASSUME NEW p \in Process
               PROVE  txn' # [txn EXCEPT ![p] = NoTxn] /\ ~Close(p)
    OBVIOUS
  <2> DEFINE open == [txn EXCEPT ![p] = NoTxn]
  <2>1. open \in [Process -> Transaction] /\ open[q].op = "none"
    BY <1>a, NoTxnFacts DEF TxnType
  <2> HIDE DEF open
  <2>2. txn' # open /\ \A keys : txn' # After(keys, open)
    BY <2>1, AfterFacts
  <2>3. QED
    BY <2>2 DEF open, Close
<1>d. \A p \in Process : \A op, d, touched, changed, until :
        Open(p, op, d, touched, changed, until) => p = q
  BY <1>a DEF Open, TxnType
<1>1. ASSUME NEW c \in Client, ClientWork(c)
      PROVE  /\ q = c
             /\ \/ \E d \in Doc : BeginAdmit(q, d)
                \/ \E d \in Doc, op \in {"pin", "lease", "renew"} : BeginProtect(q, op, d)
  <2>1. c \in Process
    BY ProcessFacts
  <2>2. ~ (CommitAdmit(c) \/ CommitPin(c) \/ CommitLease(c) \/ CommitRenew(c) \/ Lose(c)
           \/ ReleaseLease(c))
    BY <1>c, <2>1 DEF CommitAdmit, CommitPin, CommitLease, CommitRenew, Lose, ReleaseLease
  <2>3. q = c
    BY <1>1, <1>d, <2>1, <2>2 DEF ClientWork, BeginAdmit, BeginProtect
  <2>4. QED
    BY <1>1, <2>2, <2>3 DEF ClientWork
<1>2. ASSUME NEW r \in Runner, RunnerWork(r)
      PROVE  q = r /\ (BeginExpiry(r) \/ BeginUnshare(r))
  <2>1. r \in Process
    BY ProcessFacts
  <2>2. ~ (CommitExpiry(r) \/ CommitUnshare(r) \/ Lose(r) \/ Fail(r))
    BY <1>c, <2>1 DEF CommitExpiry, CommitUnshare, Lose, Fail
  <2>3. ~ (Dismiss(r) \/ Resume(r) \/ CleanOwn(r) \/ SkipShared(r) \/ Complete(r))
    BY <1>b DEF Dismiss, Resume, CleanOwn, SkipShared, Complete
  <2>4. ~ (Published(r) \/ NotPublished(r) \/ EndWave(r)
           \/ \E mode \in {"due", "forced", "redact"} : Pick(r, mode))
    BY DEF Published, NotPublished, EndWave, Pick
  <2>5. BeginExpiry(r) \/ BeginUnshare(r)
    BY <1>2, <2>2, <2>3, <2>4 DEF RunnerWork, WaveStep
  <2>6. q = r
    BY <1>d, <2>1, <2>5 DEF BeginExpiry, BeginUnshare
  <2>7. QED
    BY <2>5, <2>6
<1>3. ~Environment
  BY <1>b, NoTxnFacts
     DEF Environment, IndexDelete, Prune, ReclaimMetadata, Unpin, Heartbeat, Tick, Restart
<1>4. ~UNCHANGED vars
  BY DEF vars
<1>5. QED
  BY <1>1, <1>2, <1>3, <1>4, StepCases

LEMMA Opened ==
    ASSUME TypeOK, NEW p \in Process, NEW op, NEW d, NEW touched, NEW changed, NEW until,
           Open(p, op, d, touched, changed, until)
    PROVE  /\ txn'[p].op = op /\ txn'[p].doc = d /\ txn'[p].touched = touched
           /\ txn'[p].changed = changed
BY TypeParts DEF AllTypes, TxnType, Open

LEMMA OpenStep == TypeOK /\ Inv /\ [Next]_vars => OpenInv'
<1> SUFFICES ASSUME TypeOK, Inv, [Next]_vars
             PROVE  OpenInv'
  OBVIOUS
<1>a. TxnType /\ admitted \subseteq admitted'
  BY AdmittedForward, TypeParts DEF AllTypes
<1>1. ASSUME NEW c \in Client
      PROVE  ClientOpen(c)'
  <2>a. c \in Process /\ c \notin Runner /\ ClientOpen(c)
    BY ProcessFacts DEF Inv, OpenInv
  <2>1. CASE txn'[c].op = "none"
    BY <2>1 DEF ClientOpen
  <2>2. CASE Survives(c)
    <3>1. /\ txn'[c].op = txn[c].op /\ txn'[c].doc = txn[c].doc
          /\ txn'[c].touched = txn[c].touched
      BY <2>a, <2>2, SparedStep DEF Spared
    <3>2. QED
      BY <1>a, <2>a, <3>1 DEF ClientOpen
  <2>3. CASE txn[c].op = "none" /\ txn'[c].op # "none"
    <3>1. CASE \E d \in Doc : BeginAdmit(c, d)
      <4>1. PICK d \in Doc : BeginAdmit(c, d)
        BY <3>1
      <4>2. /\ txn'[c].op = "admit" /\ txn'[c].doc = d
            /\ txn'[c].touched = Manifest[d].payloads
        BY <2>a, <4>1, Opened DEF BeginAdmit
      <4>3. QED
        BY <1>a, <4>1, <4>2 DEF ClientOpen, BeginAdmit
    <3>2. CASE \E d \in Doc, op \in {"pin", "lease", "renew"} : BeginProtect(c, op, d)
      <4>1. PICK d \in Doc, op \in {"pin", "lease", "renew"} : BeginProtect(c, op, d)
        BY <3>2
      <4>2. txn'[c].op = op /\ txn'[c].doc = d
        BY <2>a, <4>1, Opened DEF BeginProtect
      <4>3. QED
        BY <4>2 DEF ClientOpen
    <3>3. QED
      BY <2>a, <2>3, <3>1, <3>2, Opens
  <2>4. QED
    BY <2>1, <2>2, <2>3 DEF Survives
<1>2. ASSUME NEW r \in Runner
      PROVE  RunnerOpen(r)'
  <2>a. r \in Process /\ r \notin Client /\ RunnerOpen(r)
    BY ProcessFacts DEF Inv, OpenInv
  <2>1. CASE txn'[r].op = "none"
    BY <2>1 DEF RunnerOpen
  <2>2. CASE Survives(r)
    <3>1. /\ txn'[r].op = txn[r].op /\ txn'[r].doc = txn[r].doc
          /\ txn'[r].touched = txn[r].touched
      BY <2>a, <2>2, SparedStep DEF Spared
    <3>2. QED
      BY <2>a, <2>2, <3>1, WaveStill DEF RunnerOpen
  <2>3. CASE txn[r].op = "none" /\ txn'[r].op # "none"
    <3>1. CASE BeginExpiry(r)
      <4>1. task[r].doc \in Doc /\ pc' = pc /\ task' = task /\ pc[r] = "decide"
        BY <3>1 DEF BeginExpiry, wave, Inv, WaveInv, WaveKnows
      <4>2. txn'[r].op \in {"expire", "enqueue"} /\ txn'[r].doc = task[r].doc
        BY <2>a, <3>1, Opened DEF BeginExpiry
      <4>3. QED
        BY <4>1, <4>2 DEF RunnerOpen
    <3>2. CASE BeginUnshare(r)
      <4>1. /\ task[r].doc \in Doc /\ UNCHANGED <<pc, task, left>>
            /\ pc[r] = "clean" /\ left[r] > 0
        BY <3>2 DEF BeginUnshare, Cleaning, wave, Inv, WaveInv, WaveKnows
      <4>2. PICK p \in Payload :
              Open(r, "unshare", task[r].doc, {p}, {p} \cap LastOwned(task[r].doc), 0)
        BY <3>2 DEF BeginUnshare, Owned
      <4>3. txn'[r].op = "unshare" /\ txn'[r].doc = task[r].doc /\ txn'[r].touched = {p}
        BY <2>a, <4>2, Opened
      <4>4. QED
        BY <4>1, <4>3 DEF RunnerOpen
    <3>3. QED
      BY <2>a, <2>3, <3>1, <3>2, Opens
  <2>4. QED
    BY <2>1, <2>2, <2>3 DEF Survives
<1>3. QED
  BY <1>1, <1>2 DEF OpenInv
-----------------------------------------------------------------------------
(***************************************************************************)
(* What a wave knows of its candidate, whatever other waves do.            *)
(***************************************************************************)
\* What is gone never comes back.
LEMMA GoneForward ==
    ASSUME TypeOK, Inv, [Next]_vars, NEW d \in Doc, d \in admitted, Gone(d)
    PROVE  Gone(d)'
<1>a. RecordType
  BY TypeParts DEF AllTypes
<1>1. ASSUME NEW c \in Client, CommitAdmit(c)
      PROVE  Gone(d)'
  <2>1. txn[c].doc # d
    BY <1>1 DEF CommitAdmit
  <2>2. QED
    BY <1>1, <1>a, <2>1 DEF CommitAdmit, Gone, RecordType
<1>2. ASSUME NEW r \in Runner, CleanOwn(r)
      PROVE  Gone(d)'
  BY <1>2, <1>a DEF CleanOwn, Gone, RecordType
<1>3. ASSUME NEW r \in Runner, CommitUnshare(r)
      PROVE  Gone(d)'
  BY <1>3, <1>a DEF CommitUnshare, Gone, RecordType
<1>4. CASE RecordChange /\ ~ (\/ \E c \in Client : CommitAdmit(c)
                              \/ \E r \in Runner : CleanOwn(r) \/ CommitUnshare(r))
  <2>1. UNCHANGED <<kept, owners>>
    BY <1>4 DEF RecordChange, CommitExpiry, SkipShared, Complete, IndexDelete, Prune,
                ReclaimMetadata, canonical
  <2>2. QED
    BY <2>1 DEF Gone
<1>5. CASE ~RecordChange
  BY <1>5, RecordFrame DEF canonical, Gone
<1>6. QED
  BY <1>1, <1>2, <1>3, <1>4, <1>5

\* A cleanup that was begun is not forgotten as long as a wave is at it; when it is opened
\* again, it had been complete.
LEMMA CleanupForward ==
    ASSUME TypeOK, Inv, [Next]_vars, NEW r \in Runner, NEW d \in Doc, task[r].doc = d,
           cleanup[d].status # "none"
    PROVE  /\ cleanup'[d].status # "none"
           /\ Deleted(d) \/ Gone(d) => (Deleted(d) \/ Gone(d))'
<1>a. CleanupType /\ d \in admitted /\ DocumentInv(d)
  BY TypeParts DEF AllTypes, Inv, DocumentsInv, DocumentInv
<1>b. Gone(d) => Gone(d)'
  BY <1>a, GoneForward
<1>1. ASSUME NEW x \in Runner, CommitExpiry(x)
      PROVE  /\ cleanup'[d].status # "none"
             /\ Deleted(d) \/ Gone(d) => (Deleted(d) \/ Gone(d))'
  <2>1. task[x].doc = txn[x].doc /\ task[x].doc \in Doc
    BY <1>1, RunnerTxn DEF CommitExpiry, Committing
  <2>2. CASE task[x].doc = d
    <3>1. cleanup'[d].status = "tombstoned"
      BY <1>1, <1>a, <2>1, <2>2 DEF CommitExpiry, CleanupType
    <3>2. ~Committing(x, "expire")
      BY <1>a, <2>1, <2>2 DEF Inv, SnapshotInv, ExpireSnapshot, DocumentInv
    <3>3. cleanup[d].deletion = "none"
      BY <1>1, <2>1, <2>2, <3>2 DEF CommitExpiry, Inv, SnapshotInv, EnqueueSnapshot
    <3>4. cleanup[d].status = "complete"
      BY <1>a, <3>3 DEF DocumentInv, CleanupType
    <3>5. QED
      BY <1>a, <1>b, <3>1, <3>4 DEF DocumentInv
  <2>3. CASE task[x].doc # d
    BY <1>1, <1>a, <1>b, <2>1, <2>3 DEF CommitExpiry, CleanupType, Deleted
  <2>4. QED
    BY <2>2, <2>3
<1>2. ASSUME NEW x \in Runner, CleanOwn(x) \/ SkipShared(x)
      PROVE  /\ cleanup'[d].status # "none"
             /\ Deleted(d) \/ Gone(d) => (Deleted(d) \/ Gone(d))'
  BY <1>2, <1>a, <1>b DEF CleanOwn, SkipShared, Advance, CleanupType, Deleted
<1>3. ASSUME NEW x \in Runner, Complete(x)
      PROVE  /\ cleanup'[d].status # "none"
             /\ Deleted(d) \/ Gone(d) => (Deleted(d) \/ Gone(d))'
  <2>1. CASE task[x].doc = d
    <3>1. cleanup'[d].status = "complete"
      BY <1>3, <1>a, <2>1 DEF Complete, CleanupType, NoCleanup
    <3>2. Gone(d)'
      BY <3>1, DocumentStep DEF DocumentsInv, DocumentInv
    <3>3. QED
      BY <3>1, <3>2
  <2>2. CASE task[x].doc # d
    BY <1>3, <1>a, <1>b, <2>2 DEF Complete, CleanupType, Deleted
  <2>3. QED
    BY <2>1, <2>2
<1>4. ASSUME NEW e \in Doc, IndexDelete(e) \/ Prune(e)
      PROVE  /\ cleanup'[d].status # "none"
             /\ Deleted(d) \/ Gone(d) => (Deleted(d) \/ Gone(d))'
  BY <1>4, <1>a, <1>b DEF IndexDelete, Prune, CleanupType, Deleted
<1>5. ASSUME NEW e \in Doc, ReclaimMetadata(e)
      PROVE  /\ cleanup'[d].status # "none"
             /\ Deleted(d) \/ Gone(d) => (Deleted(d) \/ Gone(d))'
  BY <1>5, <1>a, <1>b DEF ReclaimMetadata, Forgotten, CleanupType, Deleted
<1>6. CASE cleanup' = cleanup
  BY <1>6, <1>b DEF Deleted
<1>7. QED
  <2>1. CASE ~RecordChange
    BY <1>6, <2>1, RecordFrame
  <2>2. CASE RecordChange
    BY <1>1, <1>2, <1>3, <1>4, <1>5, <1>6, <2>2 DEF RecordChange, CommitAdmit, CommitUnshare, lifecycle
  <2>3. QED
    BY <2>1, <2>2

LEMMA NowForward ==
    ASSUME TypeOK, [Next]_vars
    PROVE  now \in Nat /\ now' \in Nat /\ now <= now'
<1>1. now \in Nat
  BY TypeParts, RetentionAssumption DEF AllTypes, RecordType
<1>2. now' = now \/ now' = now + 1
  <2>1. ASSUME NEW c \in Client, ClientWork(c)
        PROVE  now' = now
    BY <2>1 DEF ClientWork, BeginAdmit, BeginProtect, CommitAdmit, CommitPin, CommitLease,
                CommitRenew, ReleaseLease, Lose
  <2>2. ASSUME NEW r \in Runner, RunnerWork(r)
        PROVE  now' = now
    BY <2>2 DEF RunnerWork, WaveStep, Pick, Dismiss, Resume, BeginExpiry, CommitExpiry, Lose, Fail,
                Published, NotPublished, EndWave, CleanOwn, SkipShared, BeginUnshare,
                CommitUnshare, Complete
  <2>3. Environment => now' = now \/ now' = now + 1
    BY DEF Environment, IndexDelete, Prune, ReclaimMetadata, Unpin, Heartbeat, Tick, Restart
  <2>4. QED
    BY <2>1, <2>2, <2>3, StepCases DEF vars
<1>3. QED
  BY <1>1, <1>2

LEMMA WaveKept ==
    ASSUME TypeOK, Inv, [Next]_vars, NEW r \in Runner, pc'[r] = pc[r], task'[r] = task[r]
    PROVE  WaveKnows(r)'
<1>a. /\ WaveKnows(r) /\ admitted \subseteq admitted' /\ task[r].started \in Nat
      /\ now \in Nat /\ now' \in Nat /\ now <= now'
  BY AdmittedForward, NowForward, TypeParts, RetentionAssumption
     DEF Inv, WaveInv, AllTypes, WaveType, Task
<1>b. task[r].started <= now => task[r].started <= now'
  BY <1>a
<1>1. CASE pc[r] \in {"publish", "clean"}
  <2>1. task[r].doc \in Doc /\ cleanup[task[r].doc].status # "none"
    BY <1>1, <1>a DEF WaveKnows
  <2>2. PICK d \in Doc : d = task[r].doc
    BY <2>1
  <2>3. /\ cleanup'[d].status # "none"
        /\ Deleted(d) \/ Gone(d) => (Deleted(d) \/ Gone(d))'
    BY <2>1, <2>2, CleanupForward
  <2>4. QED
    BY <1>a, <1>b, <2>2, <2>3 DEF WaveKnows, Deleted, Gone
<1>2. CASE pc[r] \notin {"publish", "clean"}
  BY <1>2, <1>a, <1>b DEF WaveKnows
<1>3. QED
  BY <1>1, <1>2

LEMMA WaveOwn ==
    ASSUME TypeOK, Inv, [Next]_vars, NEW r \in Runner, RunnerWork(r)
    PROVE  WaveKnows(r)'
<1>a. /\ WaveKnows(r) /\ WaveType /\ CleanupType /\ admitted \subseteq admitted'
      /\ now \in Nat /\ now' \in Nat /\ now <= now'
  BY AdmittedForward, NowForward, TypeParts DEF Inv, WaveInv, AllTypes
<1>1. ASSUME pc'[r] = "idle"
      PROVE  WaveKnows(r)'
  BY <1>1 DEF WaveKnows
<1>2. ASSUME NEW mode \in {"due", "forced", "redact"}, Pick(r, mode)
      PROVE  WaveKnows(r)'
  <2>1. PICK e \in Candidate(mode) :
          task'[r] = [mode |-> mode, doc |-> e.doc, at |-> e.at, generation |-> e.generation,
                      started |-> now, manifest |-> "document" \in kept[e.doc],
                      copy |-> e.doc \in copies]
    BY <1>2, <1>a DEF Pick, WaveType
  <2>2. e.doc \in Doc /\ (mode = "due" => e \in queue /\ e.at <= now)
    <3>1. CASE mode = "due"
      BY <3>1, TypeParts DEF Candidate, AllTypes, LifeType
    <3>2. CASE mode = "forced"
      BY <3>2, TypeParts DEF Candidate, AllTypes, LifeType
    <3>3. CASE mode = "redact"
      BY <3>3 DEF Candidate
    <3>4. QED
      BY <3>1, <3>2, <3>3
  <2>3. "document" \in kept[e.doc] => e.doc \in admitted
    BY <2>2 DEF Inv, DocumentsInv, DocumentInv
  <2>4. mode = "due" /\ e.generation = 0 => e.at = Manifest[e.doc].expiresAt
    BY <2>2 DEF Inv, QueueInv
  <2>5. pc'[r] = "decide" /\ admitted' = admitted
    BY <1>2, <1>a DEF Pick, WaveType, ledger
  <2>6. /\ task'[r].mode = mode /\ task'[r].doc = e.doc /\ task'[r].at = e.at
        /\ task'[r].generation = e.generation /\ task'[r].started = now
        /\ task'[r].manifest => e.doc \in admitted
    <3> DEFINE shown == "document" \in kept[e.doc]
               copied == e.doc \in copies
    <3>1. task'[r] = [mode |-> mode, doc |-> e.doc, at |-> e.at, generation |-> e.generation,
                      started |-> now, manifest |-> shown, copy |-> copied]
      BY <2>1
    <3>2. shown => e.doc \in admitted
      BY <2>3
    <3> HIDE DEF shown, copied
    <3>3. /\ task'[r].mode = mode /\ task'[r].doc = e.doc /\ task'[r].at = e.at
          /\ task'[r].generation = e.generation /\ task'[r].started = now
      BY <3>1
    <3>4. task'[r].manifest = shown
      BY <3>1
    <3>5. QED
      BY <3>2, <3>3, <3>4
  <2>7. QED
    BY <1>a, <2>2, <2>4, <2>5, <2>6 DEF WaveKnows
<1>3. CASE Dismiss(r) \/ Fail(r) \/ NotPublished(r) \/ EndWave(r)
  BY <1>3, <1>1, <1>a DEF Dismiss, Fail, NotPublished, EndWave, WaveType
<1>4. CASE Resume(r)
  <2>1. pc'[r] = "publish" /\ pc[r] = "decide" /\ task' = task /\ cleanup' = cleanup
    BY <1>4, <1>a DEF Resume, WaveType
  <2>2. task[r].doc \in Doc /\ cleanup[task[r].doc].deletion # "none"
    BY <1>4, <1>a, <2>1 DEF Resume, Decision, WaveKnows
  <2>3. cleanup[task[r].doc].status # "none"
    BY <2>2 DEF Inv, DocumentsInv, DocumentInv
  <2>4. task[r].started <= now'
    BY <1>a, <2>1, RetentionAssumption DEF WaveKnows, WaveType, Task
  <2>5. QED
    BY <1>a, <2>1, <2>3, <2>4 DEF WaveKnows
<1>5. CASE CommitExpiry(r)
  <2>1. /\ pc'[r] = "publish" /\ pc[r] = "decide" /\ task' = task /\ task[r].doc \in Doc
        /\ task[r].doc = txn[r].doc
    BY <1>5, <1>a, RunnerTxn DEF CommitExpiry, Committing, WaveType
  <2>2. cleanup'[task[r].doc].status # "none"
    BY <1>5, <1>a, <2>1 DEF CommitExpiry, CleanupType
  <2>3. task[r].started <= now'
    BY <1>a, <2>1, RetentionAssumption DEF WaveKnows, WaveType, Task
  <2>4. QED
    BY <1>a, <2>1, <2>2, <2>3 DEF WaveKnows
<1>6. CASE Published(r)
  <2>1. CASE task[r].mode = "redact"
    BY <1>6, <1>1, <1>a, <2>1 DEF Published, WaveType
  <2>2. CASE task[r].mode # "redact"
    <3>1. /\ pc'[r] = "clean" /\ pc[r] = "publish" /\ task' = task
          /\ UNCHANGED <<cleanup, kept, owners, now>>
      BY <1>6, <1>a, <2>2 DEF Published, WaveType, lifecycle, canonical
    <3>2. task[r].doc \in Doc /\ cleanup[task[r].doc].status # "none"
      BY <1>a, <3>1 DEF WaveKnows
    <3>3. Deleted(task[r].doc) \/ Gone(task[r].doc)
      BY <1>6, <3>2 DEF Published, IsPublished, Deleted, Inv, DocumentsInv, DocumentInv
    <3>4. (Deleted(task[r].doc) \/ Gone(task[r].doc))'
      BY <3>1, <3>3 DEF Deleted, Gone
    <3>5. QED
      BY <1>a, <3>1, <3>2, <3>4 DEF WaveKnows
  <2>3. QED
    BY <2>1, <2>2
<1>7. CASE \/ BeginExpiry(r) \/ Lose(r) \/ CleanOwn(r) \/ SkipShared(r) \/ BeginUnshare(r)
           \/ CommitUnshare(r) \/ Complete(r)
  BY <1>7, WaveKept DEF BeginExpiry, Lose, CleanOwn, SkipShared, BeginUnshare, CommitUnshare,
                        Complete, wave
<1>8. QED
  BY <1>2, <1>3, <1>4, <1>5, <1>6, <1>7 DEF RunnerWork, WaveStep

LEMMA WaveInvStep == TypeOK /\ Inv /\ [Next]_vars => WaveInv'
<1> SUFFICES ASSUME TypeOK, Inv, [Next]_vars, NEW r \in Runner
             PROVE  WaveKnows(r)'
  BY DEF WaveInv
<1>1. ASSUME NEW c \in Client, ClientWork(c)
      PROVE  UNCHANGED wave
  BY <1>1 DEF ClientWork, BeginAdmit, BeginProtect, CommitAdmit, CommitPin, CommitLease,
              CommitRenew, ReleaseLease, Lose
<1>2. ASSUME NEW x \in Runner, RunnerWork(x)
      PROVE  WaveKnows(r)'
  <2>1. CASE x = r
    BY <1>2, <2>1, WaveOwn
  <2>2. CASE x # r
    <3>1. pc'[r] = pc[r] /\ task'[r] = task[r]
      BY <1>2, <2>2, TypeParts
         DEF RunnerWork, WaveStep, Pick, Dismiss, Resume, BeginExpiry, CommitExpiry, Lose, Fail,
             Published, NotPublished, EndWave, CleanOwn, SkipShared, BeginUnshare, CommitUnshare,
             Complete, wave, AllTypes, WaveType
    <3>2. QED
      BY <3>1, WaveKept
  <2>3. QED
    BY <2>1, <2>2
<1>3. CASE Restart
  BY <1>3 DEF Restart, WaveKnows
<1>4. CASE Environment /\ ~Restart
  <2>1. UNCHANGED wave
    BY <1>4 DEF Environment, IndexDelete, Prune, ReclaimMetadata, Unpin, Heartbeat, Tick
  <2>2. QED
    BY <2>1, WaveKept DEF wave
<1>5. CASE UNCHANGED wave
  BY <1>5, WaveKept DEF wave
<1>6. QED
  BY <1>1, <1>2, <1>3, <1>4, <1>5, StepCases DEF vars
-----------------------------------------------------------------------------
(***************************************************************************)
(* Snapshots.                                                              *)
(***************************************************************************)
LEMMA StoredFrame ==
    ASSUME [Next]_vars, ~ \E c \in Client : CommitAdmit(c), ~ \E r \in Runner : CommitUnshare(r)
    PROVE  UNCHANGED <<stored, owners>>
<1>1. CASE RecordChange
  BY <1>1 DEF RecordChange, CommitExpiry, CleanOwn, SkipShared, Complete, IndexDelete, Prune,
              ReclaimMetadata, canonical
<1>2. CASE ~RecordChange
  BY <1>2, RecordFrame DEF canonical
<1>3. QED
  BY <1>1, <1>2

\* A payload and its references change only with its guard.
LEMMA PayloadGuarded ==
    ASSUME TypeOK, Inv, [Next]_vars, NEW q \in Process, Survives(q), ~txn'[q].lost,
           NEW p \in Payload, PayloadGuard(p) \in Writes(txn[q])
    PROVE  (p \in stored' <=> p \in stored) /\ owners'[p] = owners[p]
<1>1. ASSUME NEW c \in Client, CommitAdmit(c)
      PROVE  (p \in stored' <=> p \in stored) /\ owners'[p] = owners[p]
  <2>1. txn[c] \in Transaction /\ txn[c].op = "admit"
    BY <1>1, ProcessFacts, TypeParts DEF AllTypes, TxnType, CommitAdmit, Committing
  <2>2. PayloadGuard(p) \notin Writes(txn[c])
    BY <1>1, ClientKeys DEF ClientWork, Spared
  <2>3. p \notin txn[c].touched
    BY <2>1, <2>2, WritesOf
  <2>4. p \notin Manifest[txn[c].doc].payloads /\ p \notin txn[c].changed
    BY <1>1, <2>1, <2>3 DEF CommitAdmit, Inv, OpenInv, ClientOpen, SnapshotInv, AdmitSnapshot
  <2>5. QED
    BY <1>1, <2>4 DEF CommitAdmit
<1>2. ASSUME NEW r \in Runner, CommitUnshare(r)
      PROVE  (p \in stored' <=> p \in stored) /\ owners'[p] = owners[p]
  <2>1. txn[r] \in Transaction /\ txn[r].op = "unshare"
    BY <1>2, ProcessFacts, TypeParts DEF AllTypes, TxnType, CommitUnshare, Committing
  <2>2. PayloadGuard(p) \notin Writes(txn[r])
    BY <1>2, RunnerKeys DEF RunnerWork, WaveStep, Spared
  <2>3. p \notin txn[r].touched
    BY <2>1, <2>2, WritesOf
  <2>4. p \notin txn[r].changed
    BY <1>2, <2>1, <2>3 DEF CommitUnshare, Inv, SnapshotInv, UnshareSnapshot
  <2>5. QED
    BY <1>2, <2>3, <2>4 DEF CommitUnshare
<1>3. QED
  BY <1>1, <1>2, StoredFrame

LEMMA AdmitSnapshotStep ==
    ASSUME TypeOK, Inv, [Next]_vars, NEW c \in Client, Committing(c, "admit")'
    PROVE  AdmitSnapshot(c)'
<1>a. c \in Process /\ c \notin Runner /\ txn'[c].op = "admit" /\ ~txn'[c].lost
  BY ProcessFacts DEF Committing
<1>1. CASE Survives(c)
  <2> DEFINE P == Manifest[txn[c].doc].payloads
  <2>1. txn'[c] = txn[c] /\ txn[c].op = "admit" /\ txn[c] \in Transaction
    BY <1>a, <1>1, SparedStep, TypeParts DEF Spared, AllTypes, TxnType
  <2>2. txn[c].changed = P \ stored /\ txn[c].touched = P /\ P \subseteq Payload
    <3>1. Committing(c, "admit") /\ txn[c].doc \in Doc
      BY <1>a, <2>1 DEF Committing, Inv, OpenInv, ClientOpen
    <3>2. QED
      BY <2>1, <3>1, ManifestFacts DEF Inv, OpenInv, ClientOpen, SnapshotInv, AdmitSnapshot
  <2>3. \A p \in P : p \in stored' <=> p \in stored
    BY <1>a, <1>1, <2>1, <2>2, WritesOf, PayloadGuarded
  <2>4. QED
    BY <2>1, <2>2, <2>3 DEF AdmitSnapshot
<1>2. CASE txn[c].op = "none"
  <2>1. ~ \E d \in Doc, op \in {"pin", "lease", "renew"} : BeginProtect(c, op, d)
    BY <1>a, Opened DEF BeginProtect
  <2>2. PICK d \in Doc : BeginAdmit(c, d)
    BY <1>a, <1>2, <2>1, Opens
  <2>3. txn'[c].doc = d /\ txn'[c].changed = Manifest[d].payloads \ stored /\ stored' = stored
    BY <1>a, <2>2, Opened DEF BeginAdmit, canonical
  <2>4. QED
    BY <2>3 DEF AdmitSnapshot
<1>3. QED
  BY <1>a, <1>1, <1>2 DEF Survives

\* The tombstone, the expiry and the protection of a version change only with a guard that
\* an expiry of the version writes, too.
LEMMA ExpiryGuarded ==
    ASSUME TypeOK, Inv, [Next]_vars, NEW r \in Runner, Survives(r), ~txn'[r].lost,
           txn[r].op = "expire", NEW d \in Doc, txn[r].doc = d
    PROVE  /\ tombstone'[d] = tombstone[d] /\ current'[d] = current[d]
           /\ \A time : Protected(d, time)' => Protected(d, time)
<1> DEFINE Same == /\ tombstone'[d] = tombstone[d] /\ current'[d] = current[d]
                   /\ \A time : Protected(d, time)' => Protected(d, time)
           Key(k) == k \in Writes(txn[r])
<1>a. /\ r \in Process /\ txn[r] \in Transaction /\ task[r].doc = d
      /\ Key(DocumentGuard(d)) /\ Key(CleanupKey(d)) /\ Key(SessionGuard(Manifest[d].session))
      /\ LifeType /\ ProtectionType
  <2>1. r \in Process /\ txn[r] \in Transaction /\ LifeType /\ ProtectionType
    BY ProcessFacts, TypeParts DEF AllTypes, TxnType
  <2>2. QED
    BY <2>1, WritesOf, RunnerTxn
<1> HIDE DEF Key
<1>b. UNCHANGED protection => \A time : Protected(d, time)' => Protected(d, time)
  BY DEF Protected, protection
<1>1. ASSUME NEW c \in Client, CommitAdmit(c) \/ CommitPin(c) \/ CommitLease(c) \/ CommitRenew(c)
      PROVE  Same
  <2> DEFINE e == txn[c].doc
  <2>1. /\ c \in Process /\ txn[c] \in Transaction /\ e \in Doc
        /\ txn[c].op \in {"admit", "pin", "lease", "renew"}
    BY <1>1, ProcessFacts, TypeParts
       DEF AllTypes, TxnType, CommitAdmit, CommitPin, CommitLease, CommitRenew, Committing,
           Inv, OpenInv, ClientOpen
  <2>2. \A key \in Writes(txn[c]) : ~Key(key)
    BY <1>1, <1>a, ClientKeys DEF ClientWork, Spared, Key
  <2>3. e # d
    BY <1>a, <2>1, <2>2, WritesOf
  <2>4. CASE CommitAdmit(c)
    <3>1. txn[c].op = "admit" /\ d # None
      BY <2>4, ManifestFacts DEF CommitAdmit, Committing
    <3>2. Manifest[e].prior # d
      BY <1>a, <2>1, <2>2, <3>1, WritesOf
    <3>3. d \notin Replaced(e)
      BY <3>2 DEF Replaced
    <3>4. QED
      BY <1>b, <2>4, <3>3 DEF CommitAdmit
  <2>5. CASE CommitPin(c)
    BY <2>3, <2>5 DEF CommitPin, Protected, lifecycle
  <2>6. CASE CommitLease(c)
    BY <1>a, <2>3, <2>6 DEF CommitLease, Protected, ProtectionType, lifecycle
  <2>7. CASE CommitRenew(c)
    BY <1>a, <1>b, <2>3, <2>7 DEF CommitRenew, LifeType
  <2>8. QED
    BY <1>1, <2>4, <2>5, <2>6, <2>7
<1>2. ASSUME NEW c \in Client, ClientWork(c),
             ~ (CommitAdmit(c) \/ CommitPin(c) \/ CommitLease(c) \/ CommitRenew(c))
      PROVE  Same
  <2>1. CASE ReleaseLease(c)
    BY <1>a, <2>1, ManifestFacts DEF ReleaseLease, NoLease, Protected, ProtectionType, lifecycle
  <2>2. CASE ~ReleaseLease(c)
    BY <1>2, <1>b, <2>2 DEF ClientWork, BeginAdmit, BeginProtect, Lose, lifecycle
  <2>3. QED
    BY <2>1, <2>2
<1>3. ASSUME NEW x \in Runner, Resume(x)
      PROVE  Same
  <2>1. ~Key(DocumentGuard(task[x].doc))
    BY <1>3, <1>a, RunnerKeys DEF RunnerWork, WaveStep, Spared, GuardsOf, Key
  <2>2. task[x].doc # d
    BY <1>a, <2>1
  <2>3. QED
    BY <1>3, <1>a, <1>b, <2>2 DEF Resume, LifeType
<1>4. ASSUME NEW x \in Runner, CommitExpiry(x)
      PROVE  Same
  <2>1. txn[x] \in Transaction /\ txn[x].op \in {"expire", "enqueue"} /\ txn[x].doc = task[x].doc
    BY <1>4, ProcessFacts, RunnerTxn, TypeParts DEF AllTypes, TxnType, CommitExpiry, Committing
  <2>2. ~Key(DocumentGuard(task[x].doc))
    BY <1>4, <1>a, <2>1, RunnerKeys, WritesOf DEF RunnerWork, WaveStep, Spared, Key
  <2>3. task[x].doc # d
    BY <1>a, <2>2
  <2>4. QED
    BY <1>4, <1>a, <1>b, <2>3 DEF CommitExpiry, LifeType
<1>5. ASSUME NEW x \in Runner, Complete(x)
      PROVE  Same
  <2>1. ~Key(CleanupKey(task[x].doc))
    BY <1>5, <1>a, RunnerKeys DEF RunnerWork, WaveStep, Spared, Key
  <2>2. task[x].doc # d
    BY <1>a, <2>1
  <2>3. QED
    BY <1>5, <1>a, <1>b, <2>2 DEF Complete, LifeType
<1>6. ASSUME NEW x \in Runner, RunnerWork(x), ~ (Resume(x) \/ CommitExpiry(x) \/ Complete(x))
      PROVE  Same
  BY <1>6, <1>b DEF RunnerWork, WaveStep, Pick, Dismiss, BeginExpiry, Lose, Fail, Published,
                    NotPublished, EndWave, CleanOwn, SkipShared, BeginUnshare, CommitUnshare,
                    lifecycle
<1>7. CASE Environment
  <2>1. ~Restart /\ \A s \in Session : Heartbeat(s) => ~Key(SessionGuard(s))
    BY <1>7, <1>a, EnvironmentKeys DEF Spared, Key
  <2>2. ASSUME NEW s \in Session, Heartbeat(s)
        PROVE  Same
    <3>1. s # Manifest[d].session
      BY <1>a, <2>1, <2>2
    <3>2. QED
      BY <1>a, <2>2, <3>1, ManifestFacts DEF Heartbeat, Protected, ProtectionType, lifecycle
  <2>3. ASSUME NEW e \in Doc, ReclaimMetadata(e)
        PROVE  Same
    BY <1>a, <1>b, <2>3 DEF ReclaimMetadata, Forgotten, LifeType
  <2>4. ASSUME NEW e \in Doc, Unpin(e)
        PROVE  Same
    BY <2>4 DEF Unpin, Protected, lifecycle
  <2>5. ASSUME NEW e \in Doc, IndexDelete(e) \/ Prune(e)
        PROVE  Same
    BY <1>b, <2>5 DEF IndexDelete, Prune
  <2>6. Tick => Same
    BY <1>b DEF Tick, lifecycle
  <2>7. QED
    BY <1>7, <2>1, <2>2, <2>3, <2>4, <2>5, <2>6 DEF Environment
<1>8. CASE UNCHANGED vars
  BY <1>8, <1>b DEF vars, lifecycle
<1>9. QED
  BY <1>1, <1>2, <1>3, <1>4, <1>5, <1>6, <1>7, <1>8, StepCases

\* The tombstone and the cleanup of a version change only with the key of its cleanup; what
\* the index does meanwhile concerns entries that were appended before.
LEMMA CleanupGuarded ==
    ASSUME TypeOK, Inv, [Next]_vars, NEW r \in Runner, Survives(r), ~txn'[r].lost,
           txn[r].op \in {"enqueue", "unshare"}, NEW d \in Doc, txn[r].doc = d
    PROVE  /\ tombstone[d] # "none" => tombstone'[d] # "none"
           /\ cleanup'[d].status = cleanup[d].status
           /\ cleanup[d].deletion = "none" => cleanup'[d].deletion = "none"
<1> DEFINE Same == /\ tombstone[d] # "none" => tombstone'[d] # "none"
                   /\ cleanup'[d].status = cleanup[d].status
                   /\ cleanup[d].deletion = "none" => cleanup'[d].deletion = "none"
           Key(k) == k \in Writes(txn[r])
<1>a. r \in Process /\ Key(CleanupKey(d)) /\ LifeType /\ CleanupType
  <2>1. r \in Process /\ txn[r] \in Transaction /\ LifeType /\ CleanupType
    BY ProcessFacts, TypeParts DEF AllTypes, TxnType
  <2>2. QED
    BY <2>1, WritesOf
<1> HIDE DEF Key
<1>1. ASSUME NEW c \in Client, CommitAdmit(c)
      PROVE  Same
  BY <1>1, <1>a DEF CommitAdmit, LifeType
<1>2. ASSUME NEW x \in Runner, CommitExpiry(x)
      PROVE  Same
  <2>1. txn[x] \in Transaction /\ txn[x].op \in {"expire", "enqueue"} /\ txn[x].doc = task[x].doc
    BY <1>2, ProcessFacts, RunnerTxn, TypeParts DEF AllTypes, TxnType, CommitExpiry, Committing
  <2>2. ~Key(CleanupKey(task[x].doc))
    BY <1>2, <1>a, <2>1, RunnerKeys, WritesOf DEF RunnerWork, WaveStep, Spared, Key
  <2>3. task[x].doc # d
    BY <1>a, <2>2
  <2>4. QED
    BY <1>2, <1>a, <2>3 DEF CommitExpiry, LifeType, CleanupType
<1>3. ASSUME NEW x \in Runner, CleanOwn(x) \/ SkipShared(x) \/ Complete(x)
      PROVE  Same
  <2>1. ~Key(CleanupKey(task[x].doc))
    BY <1>3, <1>a, RunnerKeys DEF RunnerWork, WaveStep, Spared, Key
  <2>2. task[x].doc # d
    BY <1>a, <2>1
  <2>3. QED
    BY <1>3, <1>a, <2>2 DEF CleanOwn, SkipShared, Complete, Advance, CleanupType
<1>4. ASSUME NEW x \in Runner, CommitUnshare(x)
      PROVE  Same
  BY <1>4 DEF CommitUnshare, lifecycle
<1>5. ASSUME NEW e \in Doc, IndexDelete(e) \/ Prune(e)
      PROVE  Same
  <2>1. CASE e = d
    BY <1>5, <1>a, <2>1 DEF IndexDelete, Prune, CleanupType
  <2>2. CASE e # d
    BY <1>5, <1>a, <2>2 DEF IndexDelete, Prune, CleanupType
  <2>3. QED
    BY <2>1, <2>2
<1>6. ASSUME NEW e \in Doc, ReclaimMetadata(e)
      PROVE  Same
  BY <1>6, <1>a DEF ReclaimMetadata, Forgotten, LifeType, CleanupType
<1>7. CASE ~RecordChange
  BY <1>7, RecordFrame
<1>8. QED
  BY <1>1, <1>2, <1>3, <1>4, <1>5, <1>6, <1>7 DEF RecordChange

LEMMA ExpireSnapshotStep ==
    ASSUME TypeOK, Inv, [Next]_vars, NEW r \in Runner, Committing(r, "expire")'
    PROVE  ExpireSnapshot(r)'
<1>a. r \in Process /\ r \notin Client /\ txn'[r].op = "expire" /\ ~txn'[r].lost
  BY ProcessFacts DEF Committing
<1>1. CASE Survives(r)
  <2>1. txn'[r] = txn[r] /\ Committing(r, "expire")
    BY <1>a, <1>1, SparedStep DEF Spared, Committing
  <2>2. PICK d \in Doc : d = txn[r].doc
    BY <2>1 DEF Committing, Inv, OpenInv, RunnerOpen, WaveInv, WaveKnows
  <2>3. /\ tombstone'[d] = tombstone[d] /\ current'[d] = current[d]
        /\ \A time : Protected(d, time)' => Protected(d, time)
    BY <1>a, <1>1, <2>1, <2>2, ExpiryGuarded DEF Committing
  <2>4. task'[r] = task[r] /\ admitted \subseteq admitted'
    BY <1>1, WaveStill, AdmittedForward
  <2>5. /\ tombstone[d] = "none" /\ d \in admitted /\ IsCurrent(d, task[r])
        /\ task[r].mode # "redact" => ~Protected(d, task[r].started)
    BY <2>1, <2>2 DEF Inv, SnapshotInv, ExpireSnapshot
  <2>6. IsCurrent(d, task[r])'
    BY <2>3, <2>4, <2>5 DEF IsCurrent
  <2>7. (task[r].mode # "redact" => ~Protected(d, task[r].started))'
    <3>1. PICK time : time = task[r].started
      OBVIOUS
    <3>2. task'[r].started = time /\ task'[r].mode = task[r].mode
      BY <2>4, <3>1
    <3>3. task[r].mode # "redact" => ~Protected(d, time)'
      BY <2>3, <2>5, <3>1
    <3>4. QED
      BY <3>2, <3>3 DEF Protected
  <2>8. QED
    BY <2>1, <2>2, <2>3, <2>4, <2>5, <2>6, <2>7 DEF ExpireSnapshot
<1>2. CASE txn[r].op = "none"
  <2>1. ~BeginUnshare(r)
    BY <1>a, Opened DEF BeginUnshare
  <2>2. BeginExpiry(r)
    BY <1>a, <1>2, <2>1, Opens
  <2>3. Decision(r) = "expire" /\ txn'[r].doc = task[r].doc
    BY <1>a, <2>2, Opened DEF BeginExpiry
  <2>4. PICK d \in Doc : d = task[r].doc
    BY <2>2 DEF BeginExpiry, Inv, WaveInv, WaveKnows
  <2>5. /\ tombstone[d] = "none" /\ IsCurrent(d, task[r]) /\ task[r].manifest
        /\ ~ (task[r].mode # "redact" /\ Protected(d, task[r].started))
    BY <2>3, <2>4 DEF Decision
  <2>6. d \in admitted
    BY <2>2, <2>4, <2>5 DEF BeginExpiry, Inv, WaveInv, WaveKnows
  <2>7. UNCHANGED <<ledger, lifecycle, protection, wave>>
    BY <2>2 DEF BeginExpiry
  <2>8. IsCurrent(d, task[r])' /\ (task[r].mode # "redact" => ~Protected(d, task[r].started))'
    BY <2>5, <2>7 DEF IsCurrent, Protected, lifecycle, protection, wave
  <2>9. QED
    BY <2>3, <2>4, <2>5, <2>6, <2>7, <2>8 DEF ExpireSnapshot, ledger, lifecycle
<1>3. QED
  BY <1>a, <1>1, <1>2 DEF Survives

LEMMA EnqueueSnapshotStep ==
    ASSUME TypeOK, Inv, [Next]_vars, NEW r \in Runner, Committing(r, "enqueue")'
    PROVE  EnqueueSnapshot(r)'
<1>a. r \in Process /\ r \notin Client /\ txn'[r].op = "enqueue" /\ ~txn'[r].lost
  BY ProcessFacts DEF Committing
<1>1. CASE Survives(r)
  <2>1. txn'[r] = txn[r] /\ Committing(r, "enqueue")
    BY <1>a, <1>1, SparedStep DEF Spared, Committing
  <2>2. PICK d \in Doc : d = txn[r].doc
    BY <2>1 DEF Committing, Inv, OpenInv, RunnerOpen, WaveInv, WaveKnows
  <2>3. tombstone[d] # "none" /\ cleanup[d].deletion = "none"
    BY <2>1, <2>2 DEF Inv, SnapshotInv, EnqueueSnapshot
  <2>4. tombstone'[d] # "none" /\ cleanup'[d].deletion = "none"
    BY <1>a, <1>1, <2>1, <2>2, <2>3, CleanupGuarded DEF Committing
  <2>5. QED
    BY <2>1, <2>2, <2>4 DEF EnqueueSnapshot
<1>2. CASE txn[r].op = "none"
  <2>1. ~BeginUnshare(r)
    BY <1>a, Opened DEF BeginUnshare
  <2>2. BeginExpiry(r)
    BY <1>a, <1>2, <2>1, Opens
  <2>3. Decision(r) = "enqueue" /\ txn'[r].doc = task[r].doc
    BY <1>a, <2>2, Opened DEF BeginExpiry
  <2>4. tombstone[task[r].doc] # "none" /\ cleanup[task[r].doc].deletion = "none"
    BY <2>3 DEF Decision
  <2>5. UNCHANGED <<tombstone, cleanup>>
    BY <2>2 DEF BeginExpiry, lifecycle
  <2>6. QED
    BY <2>3, <2>4, <2>5 DEF EnqueueSnapshot
<1>3. QED
  BY <1>a, <1>1, <1>2 DEF Survives

LEMMA UnshareSnapshotStep ==
    ASSUME TypeOK, Inv, [Next]_vars, NEW r \in Runner, Committing(r, "unshare")'
    PROVE  UnshareSnapshot(r)'
<1>a. r \in Process /\ r \notin Client /\ txn'[r].op = "unshare" /\ ~txn'[r].lost
  BY ProcessFacts DEF Committing
<1>1. CASE Survives(r)
  <2>1. txn'[r] = txn[r] /\ Committing(r, "unshare") /\ txn[r] \in Transaction
    BY <1>a, <1>1, SparedStep, TypeParts DEF Spared, Committing, AllTypes, TxnType
  <2>2. PICK d \in Doc : d = txn[r].doc
    BY <2>1 DEF Committing, Inv, OpenInv, RunnerOpen, WaveInv, WaveKnows
  <2>3. /\ cleanup[d].status = "tombstoned"
        /\ \A p \in txn[r].touched : d \in owners[p]
        /\ txn[r].changed = {p \in txn[r].touched : owners[p] = {d}}
    BY <2>1, <2>2 DEF Inv, SnapshotInv, UnshareSnapshot
  <2>4. cleanup'[d].status = "tombstoned"
    BY <1>a, <1>1, <2>1, <2>2, <2>3, CleanupGuarded DEF Committing
  <2>5. \A p \in txn[r].touched : p \in Payload /\ owners'[p] = owners[p]
    <3>1. \A p \in txn[r].touched : p \in Payload /\ PayloadGuard(p) \in Writes(txn[r])
      BY <2>1, WritesOf DEF Committing, Transaction
    <3>2. QED
      BY <1>a, <1>1, <2>1, <3>1, PayloadGuarded
  <2>6. QED
    BY <2>1, <2>2, <2>3, <2>4, <2>5 DEF UnshareSnapshot
<1>2. CASE txn[r].op = "none"
  <2>1. ~BeginExpiry(r)
    BY <1>a, Opened DEF BeginExpiry
  <2>2. BeginUnshare(r)
    BY <1>a, <1>2, <2>1, Opens
  <2>3. cleanup[task[r].doc].status = "tombstoned" /\ UNCHANGED <<owners, cleanup>>
    BY <2>2 DEF BeginUnshare, Cleaning, canonical, lifecycle
  <2>4. PICK p \in Owned(task[r].doc) :
          Open(r, "unshare", task[r].doc, {p}, {p} \cap LastOwned(task[r].doc), 0)
    BY <2>2 DEF BeginUnshare
  <2>5. p \in Payload /\ task[r].doc \in owners[p]
    BY <2>4 DEF Owned
  <2>6. /\ txn'[r].doc = task[r].doc /\ txn'[r].touched = {p}
        /\ txn'[r].changed = {p} \cap LastOwned(task[r].doc)
    BY <1>a, <2>4, Opened
  <2>7. PICK d : d = task[r].doc
    OBVIOUS
  <2>8. txn'[r].changed = {x \in {p} : owners[x] = {d}}
    BY <2>5, <2>6, <2>7 DEF LastOwned
  <2>9. QED
    BY <2>3, <2>5, <2>6, <2>7, <2>8 DEF UnshareSnapshot
<1>3. QED
  BY <1>a, <1>1, <1>2 DEF Survives
-----------------------------------------------------------------------------
(***************************************************************************)
(* The theorems.                                                           *)
(***************************************************************************)
LEMMA InitInv == Init => TypeOK /\ Inv
<1> SUFFICES ASSUME Init
             PROVE  TypeOK /\ Inv
  OBVIOUS
<1>1. TypeOK
  BY NoTxnFacts, NoTaskFacts, PhaseFacts, RetentionAssumption
     DEF Init, TypeOK, Tombstones, NoLease, NoCleanup
<1>2. DocumentsInv /\ PayloadInv /\ QueueInv
  BY DEF Init, DocumentsInv, DocumentInv, NoCleanup, PayloadInv, QueueInv
<1>3. WaveInv
  BY DEF Init, WaveInv, WaveKnows
<1>4. \A q \in Process : txn[q].op = "none"
  BY NoTxnFacts DEF Init
<1>5. OpenInv /\ SnapshotInv
  BY <1>4, ProcessFacts DEF OpenInv, ClientOpen, RunnerOpen, SnapshotInv, Committing
<1>6. QED
  BY <1>1, <1>2, <1>3, <1>5 DEF Inv

LEMMA InvStep == TypeOK /\ Inv /\ [Next]_vars => (TypeOK /\ Inv)'
<1> SUFFICES ASSUME TypeOK, Inv, [Next]_vars
             PROVE  (TypeOK /\ Inv)'
  OBVIOUS
<1>1. SnapshotInv'
  BY AdmitSnapshotStep, ExpireSnapshotStep, EnqueueSnapshotStep, UnshareSnapshotStep
     DEF SnapshotInv
<1>2. QED
  BY <1>1, TypeStep, DocumentStep, PayloadStep, QueueStep, WaveInvStep, OpenStep DEF Inv

\* What is kept, owned, queued and open agrees at every moment: the records of a version
\* with its tombstone and its cleanup, the snapshot of every transaction that can still
\* commit with what it decides about, a wave with the version it works on (beginExpiry,
\* cleanupCanonicalDocument, commitCanonical and their conflict guards).
THEOREM Inductive == Spec => [](TypeOK /\ Inv)
BY InitInv, InvStep, PTL DEF Spec

\* Every variable keeps its type.
THEOREM TypeCorrect == Spec => []TypeOK
BY Inductive, PTL

\* A version that was not tombstoned has every payload its manifest names, whatever became
\* of the versions it shares them with; no payload outlives its last owner; and a complete
\* cleanup left nothing (cleanupSourceMessagesPhase, cleanupKindManifestPhase,
\* cleanupChunksPhase and commitCanonical, which may run at the same time).
THEOREM OwnersAgreeHolds == Spec => []OwnersAgree
<1>1. ASSUME TypeOK, Inv
      PROVE  OwnersAgree
  <2>a. admitted \subseteq Doc /\ retired \subseteq Doc /\ stored \subseteq Payload
    BY <1>1 DEF TypeOK
  <2>b. DocumentsInv /\ PayloadInv
    BY <1>1 DEF Inv
  <2>1. PayloadIntact
    <3> SUFFICES ASSUME NEW d \in admitted, tombstone[d] = "none", "document" \in kept[d],
                        NEW p \in Manifest[d].payloads
                 PROVE  p \in stored /\ d \in owners[p]
      BY DEF PayloadIntact
    <3>1. d \in Doc /\ p \in Payload
      BY <2>a, ManifestFacts
    <3>2. DocumentInv(d)
      BY <2>b, <3>1 DEF DocumentsInv
    <3>3. d \in owners[p]
      BY <3>1, <3>2 DEF DocumentInv, Gone, Whole
    <3>4. QED
      BY <2>b, <3>1, <3>3 DEF PayloadInv
  <2>2. NoOrphanPayload
    BY <2>a, <2>b DEF NoOrphanPayload, PayloadInv
  <2>3. CompleteIsClean
    <3> SUFFICES ASSUME NEW d \in Doc,
                        cleanup[d].status = "complete" \/ (d \in retired /\ tombstone[d] = "none")
                 PROVE  Gone(d)
      BY DEF CompleteIsClean, Gone
    <3>1. DocumentInv(d)
      BY <2>b DEF DocumentsInv
    <3>2. QED
      BY <3>1 DEF DocumentInv
  <2>4. QED
    BY <2>1, <2>2, <2>3 DEF OwnersAgree
<1>2. QED
  BY <1>1, Inductive, PTL

\* No record and no reference of a version goes before its index delete was published, and
\* its tombstone goes last of all (publishDelete, cleanupCanonicalDocument,
\* cleanupExpiredTombstoneMetadata), although another wave may have finished the same
\* cleanup, or opened it again.
THEOREM DeletionOrderedHolds == Spec => DeletionOrdered
<1> DEFINE Removed(d) == \/ kept'[d] # kept[d] /\ d \in admitted
                         \/ \E p \in Payload : d \in owners[p] \ owners'[p]
           Kept == \A d \in Doc :
                     (kept'[d] # kept[d] /\ d \in admitted) \/ (\E p \in Payload : d \in owners[p] \ owners'[p])
                       => cleanup[d].deletion \in {"processed", "pruned"}
           Final == \A d \in Doc : tombstone[d] # "none" /\ tombstone'[d] # tombstone[d] =>
                      tombstone'[d] = "none" /\ d \in retired' /\ kept[d] = {}
<1>1. ASSUME TypeOK, Inv, [Next]_vars, NEW d \in Doc, Removed(d)
      PROVE  Deleted(d)
  <2>a. RecordType /\ \A r \in Runner : WaveKnows(r)
    BY <1>1, TypeParts DEF AllTypes, Inv, WaveInv
  <2>b. kept' # kept \/ owners' # owners
    BY <1>1
  <2>1. ASSUME NEW c \in Client, CommitAdmit(c)
        PROVE  FALSE
    BY <1>1, <2>1, <2>a DEF CommitAdmit, RecordType
  <2>2. ASSUME NEW r \in Runner, CleanOwn(r)
        PROVE  Deleted(d)
    <3>1. d = task[r].doc /\ kept[d] # {} /\ pc[r] = "clean"
      BY <1>1, <2>2, <2>a DEF CleanOwn, Cleaning, RecordType
    <3>2. QED
      BY <2>a, <3>1 DEF WaveKnows, Gone
  <2>3. ASSUME NEW r \in Runner, CommitUnshare(r)
        PROVE  Deleted(d)
    <3>1. txn[r].op = "unshare"
      BY <2>3 DEF CommitUnshare, Committing
    <3>2. txn[r].doc = task[r].doc /\ pc[r] = "clean"
      BY <1>1, <3>1, RunnerTxn
    <3>3. d = task[r].doc /\ \E p \in Payload : d \in owners[p]
      BY <1>1, <2>3, <2>a, <3>2 DEF CommitUnshare, RecordType
    <3>4. QED
      BY <2>a, <3>2, <3>3 DEF WaveKnows, Gone
  <2>4. CASE ~RecordChange
    BY <1>1, <2>b, <2>4, RecordFrame DEF canonical
  <2>5. CASE RecordChange /\ ~ (\/ \E c \in Client : CommitAdmit(c)
                                \/ \E r \in Runner : CleanOwn(r) \/ CommitUnshare(r))
    BY <2>b, <2>5 DEF RecordChange, CommitExpiry, SkipShared, Complete, IndexDelete, Prune,
                      ReclaimMetadata, canonical
  <2>6. QED
    BY <2>1, <2>2, <2>3, <2>4, <2>5
<1>2. ASSUME TypeOK, Inv, [Next]_vars, NEW d \in Doc, tombstone[d] # "none",
             tombstone'[d] # tombstone[d]
      PROVE  tombstone'[d] = "none" /\ d \in retired' /\ kept[d] = {}
  <2>a. LifeType
    BY <1>2, TypeParts DEF AllTypes
  <2>1. ASSUME NEW c \in Client, CommitAdmit(c)
        PROVE  FALSE
    BY <1>2, <2>1 DEF CommitAdmit, Replaced
  <2>2. ASSUME NEW r \in Runner, CommitExpiry(r)
        PROVE  FALSE
    <3>1. d = task[r].doc /\ txn[r].op = "expire" /\ Committing(r, "expire")
      BY <1>2, <2>2, <2>a DEF CommitExpiry, Committing, LifeType
    <3>2. tombstone[txn[r].doc] = "none"
      BY <1>2, <3>1 DEF Inv, SnapshotInv, ExpireSnapshot
    <3>3. txn[r].doc = d
      BY <1>2, <3>1, RunnerTxn
    <3>4. QED
      BY <1>2, <3>2, <3>3
  <2>3. ASSUME NEW e \in Doc, ReclaimMetadata(e)
        PROVE  tombstone'[d] = "none" /\ d \in retired' /\ kept[d] = {}
    <3>1. e = d /\ cleanup[d].status = "complete"
      BY <1>2, <2>3, <2>a DEF ReclaimMetadata, LifeType
    <3>2. kept[d] = {}
      BY <1>2, <3>1 DEF Inv, DocumentsInv, DocumentInv, Gone
    <3>3. QED
      BY <2>3, <2>a, <3>1, <3>2 DEF ReclaimMetadata, LifeType
  <2>4. CASE ~RecordChange
    BY <1>2, <2>4, RecordFrame
  <2>5. CASE RecordChange /\ ~ (\/ \E c \in Client : CommitAdmit(c)
                                \/ \E r \in Runner : CommitExpiry(r)
                                \/ \E e \in Doc : ReclaimMetadata(e))
    BY <1>2, <2>5 DEF RecordChange, CleanOwn, SkipShared, CommitUnshare, Complete, IndexDelete,
                      Prune, lifecycle
  <2>6. QED
    BY <2>1, <2>2, <2>3, <2>4, <2>5
<1>3. TypeOK /\ Inv /\ [Next]_vars => [Kept]_vars /\ [Final]_vars
  BY <1>1, <1>2 DEF Deleted
<1>4. Spec => [][Kept]_vars /\ [][Final]_vars
  BY <1>3, Inductive, PTL DEF Spec
<1>5. QED
  BY <1>4 DEF DeletionOrdered, IndexDeletedFirst, TombstoneIsFinal

\* A wave never expires what is protected when it commits, and on schedule only what the
\* latest expiry allows: a pin, a lease, a session's protection or a renewal that commits
\* between the snapshot and the commit of beginExpiry wins.
THEOREM ProtectionHolds == Spec => ProtectionHonoured
<1> DEFINE Wins == \A d \in Doc : Expires(d) => ~Protected(d, now)
           Renewed == \A d \in Doc : Expires(d) /\ tombstone'[d] = "expired" =>
                        IF current[d].generation = 0 THEN Manifest[d].expiresAt <= now
                                                     ELSE current[d].at <= now
<1>1. ASSUME TypeOK, Inv, [Next]_vars, NEW d \in Doc, Expires(d)
      PROVE  \E r \in Runner :
               /\ task[r].doc = d /\ task[r].mode # "redact" /\ ExpireSnapshot(r)
               /\ txn[r].doc = d /\ WaveKnows(r) /\ pc[r] # "idle"
               /\ tombstone'[d] = "expired" => task[r].mode = "due"
  <2>a. LifeType
    BY <1>1, TypeParts DEF AllTypes
  <2>b. tombstone[d] = "none" /\ tombstone'[d] \in {"expired", "forced"}
    BY <1>1 DEF Expires
  <2>1. \E r \in Runner : CommitExpiry(r)
    <3>1. ASSUME NEW c \in Client, CommitAdmit(c)
          PROVE  FALSE
      BY <2>b, <3>1 DEF CommitAdmit
    <3>2. ASSUME NEW e \in Doc, ReclaimMetadata(e)
          PROVE  FALSE
      BY <2>a, <2>b, <3>2 DEF ReclaimMetadata, LifeType
    <3>3. RecordChange
      BY <1>1, <2>b, RecordFrame
    <3>4. QED
      BY <2>b, <3>1, <3>2, <3>3 DEF RecordChange, CleanOwn, SkipShared, CommitUnshare, Complete,
                                    IndexDelete, Prune, lifecycle
  <2>2. PICK r \in Runner : CommitExpiry(r)
    BY <2>1
  <2>3. d = task[r].doc /\ txn[r].op = "expire" /\ Committing(r, "expire")
    BY <2>2, <2>a, <2>b DEF CommitExpiry, Committing, LifeType
  <2>4. tombstone'[d] = Reason(task[r].mode)
    BY <2>2, <2>3, <2>a DEF CommitExpiry, LifeType
  <2>5. task[r].mode \in {"due", "forced", "redact"}
    BY <1>1, TypeParts DEF AllTypes, WaveType, Task
  <2>6. task[r].mode # "redact" /\ (tombstone'[d] = "expired" => task[r].mode = "due")
    BY <2>b, <2>4, <2>5 DEF Reason
  <2>7. txn[r].doc = d /\ pc[r] # "idle"
    BY <1>1, <2>3, RunnerTxn
  <2>8. ExpireSnapshot(r) /\ WaveKnows(r)
    BY <1>1, <2>3 DEF Inv, SnapshotInv, WaveInv
  <2>9. QED
    BY <2>3, <2>6, <2>7, <2>8
<1>2. ASSUME TypeOK, Inv, [Next]_vars, NEW d \in Doc, Expires(d)
      PROVE  /\ ~Protected(d, now)
             /\ tombstone'[d] = "expired" =>
                  IF current[d].generation = 0 THEN Manifest[d].expiresAt <= now
                                               ELSE current[d].at <= now
  <2>1. PICK r \in Runner :
          /\ task[r].doc = d /\ task[r].mode # "redact" /\ ExpireSnapshot(r)
          /\ txn[r].doc = d /\ WaveKnows(r) /\ pc[r] # "idle"
          /\ tombstone'[d] = "expired" => task[r].mode = "due"
    BY <1>1, <1>2
  <2>2. /\ now \in Nat /\ task[r].started \in Nat /\ task[r].at \in Nat
        /\ current[d].generation \in Nat /\ current[d].at \in Nat
        /\ heartbeats[Manifest[d].session] \in Nat /\ \A c \in Client : leases[c].until \in Nat
    BY <1>2, TypeParts, ManifestFacts, RetentionAssumption
       DEF AllTypes, RecordType, WaveType, Task, LifeType, ProtectionType
  <2>3. /\ task[r].started <= now /\ IsCurrent(d, task[r]) /\ ~Protected(d, task[r].started)
        /\ task[r].mode = "due" =>
             /\ task[r].at <= task[r].started
             /\ task[r].generation = 0 => task[r].at = Manifest[d].expiresAt
    BY <2>1 DEF ExpireSnapshot, WaveKnows
  <2>4. ~Protected(d, now)
    BY <2>2, <2>3 DEF Protected
  <2>5. ASSUME tombstone'[d] = "expired"
        PROVE  IF current[d].generation = 0 THEN Manifest[d].expiresAt <= now
                                            ELSE current[d].at <= now
    <3>1. task[r].at <= now /\ (task[r].generation = 0 => task[r].at = Manifest[d].expiresAt)
      BY <2>1, <2>2, <2>3, <2>5
    <3>2. QED
      BY <2>3, <3>1 DEF IsCurrent
  <2>6. QED
    BY <2>4, <2>5
<1>3. TypeOK /\ Inv /\ [Next]_vars => [Wins]_vars /\ [Renewed]_vars
  BY <1>2
<1>4. Spec => [][Wins]_vars /\ [][Renewed]_vars
  BY <1>3, Inductive, PTL DEF Spec
<1>5. QED
  BY <1>4 DEF ProtectionHonoured, ProtectionWins, RenewalHonoured
-----------------------------------------------------------------------------
(***************************************************************************)
(* The way back to an interrupted cleanup, with one wave at a time.        *)
(***************************************************************************)
\* A version needs a way back while its records are there, or its cleanup is not finished.
Unfinished(d) ==
    \/ "document" \in kept[d]
    \/ tombstone[d] # "none" /\ cleanup[d].status # "complete"

\* The way back is the entry of the latest expiry: an older one is dropped as stale.
WayBack(d) == Unfinished(d) => \E e \in queue : e.doc = d /\ IsCurrent(d, e)

Begun(d) ==
    /\ d \notin admitted => current[d].generation = 0
    /\ tombstone[d] # "none" /\ cleanup[d].status = "none" => "document" \in kept[d]
    /\ d \in copies => cleanup[d].status = "tombstoned"

\* What the only wave there is has read of its candidate still holds when it decides.
Holding(r) ==
    pc[r] = "decide" =>
      /\ task[r].doc \in admitted
      /\ task[r].manifest <=> "document" \in kept[task[r].doc]
      /\ task[r].manifest \/ task[r].copy => cleanup[task[r].doc].status # "complete"
Deciding(r) ==
    /\ txn[r].op = "expire" => task[r].manifest
    /\ txn[r].op = "enqueue" => task[r].manifest \/ task[r].copy

BackInv ==
    /\ \A d \in Doc : WayBack(d) /\ Begun(d)
    /\ \A r \in Runner : Holding(r) /\ Deciding(r)
    /\ \A e \in queue : e.doc \in admitted
    /\ \A c \in Client : txn[c].op = "renew" => txn[c].doc \in admitted

LEMMA BackFrame ==
    ASSUME NEW d \in Doc, WayBack(d), Begun(d),
           d \in admitted => d \in admitted',
           "document" \in kept'[d] <=> "document" \in kept[d],
           tombstone'[d] = tombstone[d], cleanup'[d].status = cleanup[d].status,
           d \in copies' => d \in copies, current'[d] = current[d],
           \A e \in queue : e.doc = d /\ IsCurrent(d, e) => e \in queue'
    PROVE  WayBack(d)' /\ Begun(d)'
<1>1. Unfinished(d)' => Unfinished(d)
  BY DEF Unfinished
<1>2. \A e : IsCurrent(d, e) => IsCurrent(d, e)'
  BY DEF IsCurrent
<1>3. WayBack(d)'
  BY <1>1, <1>2 DEF WayBack
<1>4. QED
  BY <1>3 DEF Begun

LEMMA BackAdmit ==
    ASSUME TypeOK, Inv, BackInv, NEW c \in Client, CommitAdmit(c), NEW d \in Doc
    PROVE  WayBack(d)' /\ Begun(d)'
<1> DEFINE e == txn[c].doc
<1>a. e \in Doc /\ e \notin admitted /\ DocumentInv(d) /\ WayBack(d) /\ Begun(d)
  BY DEF CommitAdmit, Committing, Inv, OpenInv, ClientOpen, DocumentsInv, BackInv
<1>b. /\ admitted' = admitted \cup {e}
      /\ kept'[d] = IF d = e THEN OwnPhase ELSE kept[d]
      /\ cleanup' = cleanup /\ copies' = copies /\ current' = current
      /\ tombstone'[d] = IF d \in Replaced(e) THEN "superseded" ELSE tombstone[d]
      /\ queue' = queue \cup {[doc |-> e, at |-> Manifest[e].expiresAt, generation |-> 0]}
  BY <1>a, TypeParts DEF CommitAdmit, AllTypes, RecordType, LifeType
<1>c. d \in Replaced(e) => tombstone[d] = "none" /\ "document" \in kept[d]
  BY DEF Replaced
<1>1. CASE d = e
  <2>1. current'[d].generation = 0
    BY <1>1, <1>a, <1>b DEF Begun
  <2>a. PICK first : first = [doc |-> e, at |-> Manifest[e].expiresAt, generation |-> 0]
    OBVIOUS
  <2>2. first \in queue' /\ first.doc = d /\ first.generation = 0
    BY <1>1, <1>b, <2>a
  <2>3. IsCurrent(d, first)'
    BY <2>1, <2>2 DEF IsCurrent
  <2>4. "document" \in kept'[d] /\ d \in admitted'
    BY <1>1, <1>b DEF OwnPhase
  <2>5. WayBack(d)'
    BY <2>2, <2>3 DEF WayBack
  <2>6. QED
    BY <1>a, <1>b, <2>4, <2>5 DEF Begun
<1>2. CASE d # e /\ d \notin Replaced(e)
  BY <1>2, <1>a, <1>b, BackFrame
<1>3. CASE d # e /\ d \in Replaced(e)
  <2>1. Unfinished(d) /\ kept'[d] = kept[d]
    BY <1>3, <1>b, <1>c DEF Unfinished
  <2>2. PICK x \in queue : x.doc = d /\ IsCurrent(d, x)
    BY <1>a, <2>1 DEF WayBack
  <2>3. x \in queue' /\ IsCurrent(d, x)'
    BY <1>b, <2>2 DEF IsCurrent
  <2>4. WayBack(d)'
    BY <2>2, <2>3 DEF WayBack
  <2>5. QED
    BY <1>3, <1>a, <1>b, <1>c, <2>1, <2>4 DEF Begun
<1>4. QED
  BY <1>1, <1>2, <1>3

\* A later entry becomes the way back.
LEMMA BackLater ==
    ASSUME NEW d \in Doc, NEW x \in queue', x.doc = d, current'[d].generation = x.generation,
           current'[d].at = x.at
    PROVE  WayBack(d)'
BY DEF WayBack, IsCurrent

LEMMA BackRenew ==
    ASSUME TypeOK, Inv, BackInv, NEW c \in Client, CommitRenew(c), NEW d \in Doc
    PROVE  WayBack(d)' /\ Begun(d)'
<1> DEFINE e == txn[c].doc
           next == [generation |-> current[e].generation + 1, at |-> txn[c].until]
           later == [doc |-> e, at |-> next.at, generation |-> next.generation]
<1>a. e \in Doc /\ e \in admitted /\ WayBack(d) /\ Begun(d)
  BY DEF CommitRenew, Committing, Inv, OpenInv, ClientOpen, BackInv
<1>b. /\ UNCHANGED <<admitted, kept, tombstone, cleanup, copies>>
      /\ current' = [current EXCEPT ![e] = next]
      /\ queue' = queue \cup {later}
  BY DEF CommitRenew, ledger, canonical
<1>c. current \in [Doc -> [generation: Nat, at: Nat]]
  BY TypeParts DEF AllTypes, LifeType
<1>1. CASE d = e
  <2>1. current'[d] = next
    BY <1>1, <1>b, <1>c
  <2>a. PICK x : x = later
    OBVIOUS
  <2>2. x \in queue' /\ x.doc = d /\ x.generation = next.generation /\ x.at = next.at
    BY <1>1, <1>b, <2>a
  <2>3. WayBack(d)'
    BY <2>1, <2>2, BackLater
  <2>4. QED
    BY <1>1, <1>a, <1>b, <2>3 DEF Begun
<1>2. CASE d # e
  <2>1. current'[d] = current[d]
    BY <1>2, <1>b, <1>c
  <2>2. QED
    BY <1>a, <1>b, <2>1, BackFrame
<1>3. QED
  BY <1>1, <1>2

\* A candidate is dropped only if another entry is the latest, or nothing is left to do.
LEMMA BackDismiss ==
    ASSUME TypeOK, Inv, BackInv, NEW r \in Runner, Dismiss(r), NEW d \in Doc
    PROVE  WayBack(d)' /\ Begun(d)'
<1>a. WayBack(d) /\ Begun(d) /\ Holding(r)
  BY DEF BackInv
<1>b. /\ UNCHANGED <<admitted, kept, tombstone, cleanup, copies, current>>
      /\ pc[r] = "decide" /\ Decision(r) \in {"missing", "stale", "protected"}
      /\ queue' = IF Decision(r) = "protected" THEN queue ELSE Dequeued(r)
  BY DEF Dismiss, ledger, canonical
<1>1. CASE d # task[r].doc \/ Decision(r) = "protected"
  <2>1. \A e \in queue : e.doc = d => e \in queue'
    BY <1>1, <1>b DEF Dequeued
  <2>2. QED
    BY <1>a, <1>b, <2>1, BackFrame
<1>2. CASE d = task[r].doc /\ tombstone[d] = "none" /\ ~IsCurrent(d, task[r])
  <2>1. \A e \in queue : IsCurrent(d, e) => e \in queue'
    BY <1>2, <1>b DEF Dequeued, IsCurrent
  <2>2. QED
    BY <1>a, <1>b, <2>1, BackFrame
<1>3. CASE d = task[r].doc /\ tombstone[d] = "none" /\ IsCurrent(d, task[r]) /\ Decision(r) # "protected"
  <2>1. ~task[r].manifest
    BY <1>3, <1>b DEF Decision
  <2>2. ~Unfinished(d)'
    BY <1>3, <1>a, <1>b, <2>1 DEF Holding, Unfinished
  <2>3. QED
    BY <1>a, <1>b, <2>2 DEF WayBack, Begun
<1>4. CASE d = task[r].doc /\ tombstone[d] # "none" /\ Decision(r) # "protected"
  <2>1. cleanup[d].deletion = "none" /\ ~task[r].manifest
    BY <1>4, <1>b DEF Decision
  <2>2. "document" \notin kept[d]
    BY <1>4, <1>a, <1>b, <2>1 DEF Holding
  <2>3. cleanup[d].status = "complete"
    <3>1. cleanup[d].status \in {"none", "tombstoned", "complete"}
      BY TypeParts DEF AllTypes, CleanupType
    <3>2. QED
      BY <1>4, <1>a, <2>1, <2>2, <3>1 DEF Begun, Inv, DocumentsInv, DocumentInv
  <2>4. ~Unfinished(d)'
    BY <1>b, <2>2, <2>3 DEF Unfinished
  <2>5. QED
    BY <1>a, <1>b, <2>4 DEF WayBack, Begun
<1>5. QED
  BY <1>1, <1>2, <1>3, <1>4

\* The immediate entry of a forced expiry becomes the latest.
LEMMA BackImmediate ==
    ASSUME TypeOK, NEW r \in Runner, NEW d \in Doc, WayBack(d),
           NEW extra, extra = {} \/ extra = Immediate(r, d), queue' = queue \cup extra,
           current' = [current EXCEPT ![d] =
               IF extra = {} THEN @ ELSE [generation |-> NextGeneration(r, d), at |-> task[r].started]],
           Unfinished(d)' => Unfinished(d)
    PROVE  WayBack(d)'
<1>a. current \in [Doc -> [generation: Nat, at: Nat]]
  BY TypeParts DEF AllTypes, LifeType
<1>1. CASE extra = {}
  <2>1. current'[d] = current[d] /\ queue' = queue
    BY <1>1, <1>a
  <2>2. QED
    BY <2>1 DEF WayBack, IsCurrent
<1>2. CASE extra # {}
  <2> DEFINE sooner == [doc |-> d, at |-> task[r].started, generation |-> NextGeneration(r, d)]
  <2>1. extra = {sooner}
    BY <1>2 DEF Immediate
  <2>2. current'[d] = [generation |-> NextGeneration(r, d), at |-> task[r].started]
    BY <1>2, <1>a
  <2>3. sooner \in queue'
    BY <2>1
  <2>4. QED
    BY <2>2, <2>3, BackLater
<1>3. QED
  BY <1>1, <1>2

LEMMA BackResume ==
    ASSUME TypeOK, Inv, BackInv, NEW r \in Runner, Resume(r), NEW d \in Doc
    PROVE  WayBack(d)' /\ Begun(d)'
<1> DEFINE e == task[r].doc
           extra == IF task[r].mode = "forced" THEN Immediate(r, e) ELSE {}
<1>a. /\ WayBack(d) /\ Begun(d) /\ Holding(r) /\ e \in Doc
      /\ current \in [Doc -> [generation: Nat, at: Nat]]
  BY TypeParts DEF BackInv, Resume, Inv, WaveInv, WaveKnows, AllTypes, LifeType
<1>b. /\ UNCHANGED <<admitted, kept, tombstone, cleanup, copies>>
      /\ pc[r] = "decide" /\ queue' = queue \cup extra
      /\ current' = [current EXCEPT ![e] =
           IF extra = {} THEN @ ELSE [generation |-> NextGeneration(r, e), at |-> task[r].started]]
  BY DEF Resume, ledger, canonical
<1>1. CASE d = e
  <2>1. Unfinished(d)' => Unfinished(d)
    BY <1>b DEF Unfinished
  <2>2. extra = {} \/ extra = Immediate(r, d)
    BY <1>1
  <2>3. WayBack(d)'
    BY <1>1, <1>a, <1>b, <2>1, <2>2, BackImmediate
  <2>4. QED
    BY <1>1, <1>a, <1>b, <2>3 DEF Begun, Holding
<1>2. CASE d # e
  <2>1. current'[d] = current[d]
    BY <1>2, <1>a, <1>b
  <2>2. QED
    BY <1>a, <1>b, <2>1, BackFrame
<1>3. QED
  BY <1>1, <1>2

\* What is about to get its tombstone, or its delete entry, has a way back already.
LEMMA BackExpiry ==
    ASSUME TypeOK, Inv, BackInv, NEW r \in Runner, CommitExpiry(r), NEW d \in Doc
    PROVE  WayBack(d)' /\ Begun(d)'
<1> DEFINE e == task[r].doc
           extra == IF task[r].mode = "forced" THEN Immediate(r, e) ELSE {}
<1>a. /\ WayBack(d) /\ Begun(d) /\ WayBack(e) /\ Begun(e) /\ Holding(r) /\ Deciding(r)
      /\ e \in Doc /\ txn[r].doc = e /\ pc[r] = "decide"
      /\ current \in [Doc -> [generation: Nat, at: Nat]]
  BY RunnerTxn, TypeParts DEF BackInv, CommitExpiry, Committing, AllTypes, LifeType
<1>b. /\ UNCHANGED <<admitted, kept>>
      /\ tombstone' = [tombstone EXCEPT ![e] =
                         IF txn[r].op = "expire" THEN Reason(task[r].mode) ELSE @]
      /\ cleanup' = [cleanup EXCEPT ![e] =
                       [status |-> "tombstoned", phase |-> 1, deletion |-> "queued"]]
      /\ copies' = copies \cup {e}
      /\ queue' = queue \cup extra
      /\ current' = [current EXCEPT ![e] =
           IF extra = {} THEN @ ELSE [generation |-> NextGeneration(r, e), at |-> task[r].started]]
  BY DEF CommitExpiry, ledger, canonical
<1>c. tombstone \in [Doc -> Tombstones] /\ CleanupType
  BY TypeParts DEF AllTypes, LifeType
<1>1. CASE d = e
  <2>1. Unfinished(d)
    <3>1. CASE txn[r].op = "expire"
      BY <1>1, <3>1, <1>a DEF Holding, Deciding, Unfinished
    <3>2. CASE txn[r].op = "enqueue"
      <4>1. tombstone[d] # "none"
        BY <1>1, <3>2, <1>a DEF Inv, SnapshotInv, CommitExpiry, Committing, EnqueueSnapshot
      <4>2. cleanup[d].status # "complete"
        BY <1>1, <3>2, <1>a DEF Holding, Deciding
      <4>3. QED
        BY <4>1, <4>2 DEF Unfinished
    <3>3. QED
      BY <3>1, <3>2 DEF CommitExpiry, Committing
  <2>2. extra = {} \/ extra = Immediate(r, d)
    BY <1>1
  <2>3. WayBack(d)'
    BY <1>1, <1>a, <1>b, <2>1, <2>2, BackImmediate
  <2>4. cleanup'[d].status = "tombstoned" /\ d \in admitted'
    BY <1>1, <1>a, <1>b, <1>c DEF CleanupType, Holding
  <2>5. QED
    BY <2>3, <2>4 DEF Begun
<1>2. CASE d # e
  <2>1. current'[d] = current[d] /\ tombstone'[d] = tombstone[d] /\ cleanup'[d] = cleanup[d]
    BY <1>2, <1>a, <1>b, <1>c DEF CleanupType
  <2>2. QED
    BY <1>2, <1>a, <1>b, <2>1, BackFrame
<1>3. QED
  BY <1>1, <1>2

LEMMA BackComplete ==
    ASSUME TypeOK, Inv, BackInv, NEW r \in Runner, Complete(r), NEW d \in Doc
    PROVE  WayBack(d)' /\ Begun(d)'
<1> DEFINE e == task[r].doc
<1>a. /\ WayBack(d) /\ Begun(d) /\ e \in Doc /\ e \in admitted
      /\ CleanupType /\ current \in [Doc -> [generation: Nat, at: Nat]]
  BY CleaningDoc, TypeParts DEF BackInv, Complete, AllTypes, LifeType
<1>b. /\ UNCHANGED <<admitted, kept, tombstone>>
      /\ cleanup' = [cleanup EXCEPT ![e] = [NoCleanup EXCEPT !.status = "complete"]]
      /\ copies' = copies \ {e} /\ queue' = Dequeued(r)
      /\ current' = [current EXCEPT ![e] = [generation |-> 0, at |-> 0]]
  BY DEF Complete, canonical
<1>1. CASE d = e
  <2>1. cleanup'[d].status = "complete"
    BY <1>1, <1>a, <1>b DEF CleanupType, NoCleanup
  <2>2. DocumentInv(d)'
    BY DocumentComplete
  <2>3. kept'[d] = {}
    BY <2>1, <2>2 DEF DocumentInv, Gone
  <2>4. ~Unfinished(d)'
    BY <2>1, <2>3 DEF Unfinished
  <2>5. QED
    BY <1>1, <1>a, <1>b, <2>1, <2>4 DEF WayBack, Begun
<1>2. CASE d # e
  <2>1. current'[d] = current[d] /\ cleanup'[d] = cleanup[d]
    BY <1>2, <1>a, <1>b DEF CleanupType
  <2>2. \A x \in queue : x.doc = d => x \in queue'
    BY <1>2, <1>b DEF Dequeued
  <2>3. QED
    BY <1>2, <1>a, <1>b, <2>1, <2>2, BackFrame
<1>3. QED
  BY <1>1, <1>2

\* The other steps that change the records of a version.
LEMMA BackClean ==
    ASSUME TypeOK, Inv, BackInv, NEW r \in Runner, CleanOwn(r) \/ SkipShared(r) \/ CommitUnshare(r),
           NEW d \in Doc
    PROVE  WayBack(d)' /\ Begun(d)'
<1>a. WayBack(d) /\ Begun(d) /\ CleanupType /\ kept \in [Doc -> SUBSET OwnPhase]
  BY TypeParts DEF BackInv, AllTypes, RecordType
<1>1. CASE CommitUnshare(r)
  <2>1. UNCHANGED <<admitted, kept, tombstone, cleanup, copies, current, queue>>
    BY <1>1 DEF CommitUnshare, ledger, lifecycle
  <2>2. QED
    BY <1>a, <2>1, BackFrame
<1>2. CASE CleanOwn(r) \/ SkipShared(r)
  <2> DEFINE e == task[r].doc
  <2>1. /\ UNCHANGED <<admitted, tombstone, copies, current, queue>>
        /\ cleanup' = [cleanup EXCEPT ![e].phase = @ + 1]
        /\ e \in Doc /\ cleanup[e].status = "tombstoned"
        /\ tombstone[e] # "none"
    BY <1>2, CleaningDoc DEF CleanOwn, SkipShared, Advance, ledger
  <2>2. cleanup'[d].status = cleanup[d].status
    BY <1>a, <2>1 DEF CleanupType
  <2>3. kept'[d] = kept[d] \/ d = e
    BY <1>2, <1>a DEF CleanOwn, SkipShared, canonical
  <2>4. CASE d # e
    BY <1>a, <2>1, <2>2, <2>3, <2>4, BackFrame
  <2>5. CASE d = e
    <3>1. Unfinished(d)
      BY <2>1, <2>5 DEF Unfinished
    <3>2. PICK x \in queue : x.doc = d /\ IsCurrent(d, x)
      BY <1>a, <3>1 DEF WayBack
    <3>3. x \in queue' /\ IsCurrent(d, x)'
      BY <2>1, <3>2 DEF IsCurrent
    <3>4. WayBack(d)'
      BY <3>2, <3>3 DEF WayBack
    <3>5. QED
      BY <1>a, <2>1, <2>2, <2>5, <3>4 DEF Begun
  <2>6. QED
    BY <2>4, <2>5
<1>3. QED
  BY <1>1, <1>2

LEMMA BackEnvironment ==
    ASSUME TypeOK, Inv, BackInv, NEW e \in Doc, IndexDelete(e) \/ Prune(e) \/ ReclaimMetadata(e),
           NEW d \in Doc
    PROVE  WayBack(d)' /\ Begun(d)'
<1>a. WayBack(d) /\ Begun(d) /\ CleanupType /\ tombstone \in [Doc -> Tombstones]
  BY TypeParts DEF BackInv, AllTypes, LifeType
<1>b. UNCHANGED <<admitted, kept, copies, current, queue>>
  BY DEF IndexDelete, Prune, ReclaimMetadata, ledger, canonical
<1>1. CASE IndexDelete(e) \/ Prune(e)
  <2>1. cleanup'[d].status = cleanup[d].status /\ tombstone' = tombstone
    BY <1>1, <1>a DEF IndexDelete, Prune, CleanupType
  <2>2. QED
    BY <1>a, <1>b, <2>1, BackFrame
<1>2. CASE ReclaimMetadata(e)
  <2>1. /\ cleanup' = [cleanup EXCEPT ![e] = NoCleanup]
        /\ tombstone' = [tombstone EXCEPT ![e] = "none"]
        /\ cleanup[e].status = "complete"
    BY <1>2 DEF ReclaimMetadata
  <2>2. CASE d # e
    <3>1. cleanup'[d] = cleanup[d] /\ tombstone'[d] = tombstone[d]
      BY <1>a, <2>1, <2>2 DEF CleanupType
    <3>2. QED
      BY <1>a, <1>b, <3>1, BackFrame
  <2>3. CASE d = e
    <3>1. tombstone'[d] = "none"
      BY <1>a, <2>1, <2>3
    <3>2. kept'[d] = {} /\ d \notin copies'
      BY <1>a, <1>b, <2>1, <2>3 DEF Inv, DocumentsInv, DocumentInv, Gone, Begun
    <3>3. QED
      BY <1>a, <1>b, <3>1, <3>2 DEF WayBack, Unfinished, Begun
  <2>4. QED
    BY <2>2, <2>3
<1>3. QED
  BY <1>1, <1>2

LEMMA CopiesFrame ==
    ASSUME [Next]_vars, ~RecordChange
    PROVE  copies' = copies
<1>1. ASSUME NEW c \in Client, ClientWork(c)
      PROVE  copies' = copies
  BY <1>1 DEF RecordChange, ClientWork, BeginAdmit, BeginProtect, CommitPin, CommitLease,
              CommitRenew, ReleaseLease, Lose, lifecycle
<1>2. ASSUME NEW r \in Runner, RunnerWork(r)
      PROVE  copies' = copies
  BY <1>2 DEF RecordChange, RunnerWork, WaveStep, Pick, Dismiss, Resume, BeginExpiry, Lose, Fail,
              Published, NotPublished, EndWave, BeginUnshare, lifecycle
<1>3. CASE Environment
  BY <1>3 DEF RecordChange, Environment, Unpin, Heartbeat, Tick, Restart, lifecycle
<1>4. CASE UNCHANGED vars
  BY <1>4 DEF vars, lifecycle
<1>5. QED
  BY <1>1, <1>2, <1>3, <1>4, StepCases

LEMMA BackDocuments ==
    ASSUME TypeOK, Inv, BackInv, [Next]_vars, NEW d \in Doc
    PROVE  WayBack(d)' /\ Begun(d)'
<1>1. CASE ~RecordChange /\ ~QueueChange
  <2>1. UNCHANGED <<admitted, kept, tombstone, cleanup, copies, current, queue>>
    BY <1>1, RecordFrame, QueueFrame, CopiesFrame DEF ledger, canonical
  <2>2. QED
    BY <2>1, BackFrame DEF BackInv
<1>2. QED
  BY <1>1, BackAdmit, BackRenew, BackDismiss, BackResume, BackExpiry, BackComplete, BackClean,
     BackEnvironment DEF RecordChange, QueueChange

LEMMA BackQueue ==
    ASSUME TypeOK, Inv, BackInv, [Next]_vars, NEW e \in queue'
    PROVE  e.doc \in admitted'
<1>a. admitted \subseteq admitted' /\ (e \in queue => e.doc \in admitted)
  BY AdmittedForward DEF BackInv
<1>1. ASSUME NEW c \in Client, CommitAdmit(c)
      PROVE  e.doc \in admitted'
  BY <1>1, <1>a DEF CommitAdmit
<1>2. ASSUME NEW c \in Client, CommitRenew(c)
      PROVE  e.doc \in admitted'
  BY <1>2, <1>a DEF CommitRenew, Committing, BackInv
<1>3. ASSUME NEW r \in Runner, Dismiss(r) \/ Complete(r)
      PROVE  e.doc \in admitted'
  BY <1>3, <1>a DEF Dismiss, Complete, Dequeued
<1>4. ASSUME NEW r \in Runner, Resume(r) \/ CommitExpiry(r)
      PROVE  e.doc \in admitted'
  <2>1. pc[r] = "decide"
    BY <1>4, RunnerTxn DEF Resume, CommitExpiry, Committing
  <2>2. task[r].doc \in admitted
    BY <2>1 DEF BackInv, Holding
  <2>3. e \in queue \/ e \in Immediate(r, task[r].doc)
    BY <1>4 DEF Resume, CommitExpiry
  <2>4. QED
    BY <1>a, <2>2, <2>3 DEF Immediate
<1>5. CASE ~QueueChange
  BY <1>5, <1>a, QueueFrame
<1>6. QED
  BY <1>1, <1>2, <1>3, <1>4, <1>5 DEF QueueChange

LEMMA BackRenewals ==
    ASSUME TypeOK, Inv, BackInv, [Next]_vars, NEW c \in Client, txn'[c].op = "renew"
    PROVE  txn'[c].doc \in admitted'
<1>a. c \in Process /\ c \notin Runner /\ admitted \subseteq admitted'
  BY ProcessFacts, AdmittedForward
<1>1. CASE Survives(c)
  BY <1>a, <1>1, SparedStep DEF Spared, BackInv
<1>2. CASE txn[c].op = "none"
  <2>1. ~ \E d \in Doc : BeginAdmit(c, d)
    BY <1>a, Opened DEF BeginAdmit
  <2>2. PICK d \in Doc, op \in {"pin", "lease", "renew"} : BeginProtect(c, op, d)
    BY <1>a, <1>2, <2>1, Opens
  <2>3. txn'[c].doc = d /\ d \in admitted
    BY <1>a, <2>2, Opened DEF BeginProtect
  <2>4. QED
    BY <1>a, <2>3
<1>3. QED
  BY <1>1, <1>2 DEF Survives

\* The only wave there is reads its candidate and decides about it; nobody else touches the
\* records of that version meanwhile.
LEMMA HoldingPick ==
    ASSUME TypeOK, Inv, BackInv, NEW r \in Runner,
           NEW mode \in {"due", "forced", "redact"}, Pick(r, mode)
    PROVE  Holding(r)'
<1>a. WaveType /\ LifeType
  BY TypeParts DEF AllTypes
<1>1. PICK e \in Candidate(mode) :
        task'[r] = [mode |-> mode, doc |-> e.doc, at |-> e.at, generation |-> e.generation,
                    started |-> now, manifest |-> "document" \in kept[e.doc],
                    copy |-> e.doc \in copies]
  BY <1>a DEF Pick, WaveType
<1>2. e.doc \in Doc /\ (e \in queue \/ "document" \in kept[e.doc])
  <2>1. CASE mode \in {"due", "forced"}
    BY <1>a, <2>1 DEF Candidate, LifeType
  <2>2. CASE mode = "redact"
    BY <2>2 DEF Candidate
  <2>3. QED
    BY <2>1, <2>2
<1>3. e.doc \in admitted
  BY <1>2 DEF BackInv, Inv, DocumentsInv, DocumentInv
<1>4. "document" \in kept[e.doc] \/ e.doc \in copies => cleanup[e.doc].status # "complete"
  BY <1>2 DEF BackInv, Begun, Inv, DocumentsInv, DocumentInv, Gone
<1>5. UNCHANGED <<admitted, kept, cleanup>>
  BY DEF Pick, ledger, canonical, lifecycle
<1>6. /\ task'[r].doc = e.doc
      /\ task'[r].manifest <=> "document" \in kept[e.doc]
      /\ task'[r].copy <=> e.doc \in copies
  <2> DEFINE shown == "document" \in kept[e.doc]
             copied == e.doc \in copies
  <2>1. task'[r] = [mode |-> mode, doc |-> e.doc, at |-> e.at, generation |-> e.generation,
                    started |-> now, manifest |-> shown, copy |-> copied]
    BY <1>1
  <2> HIDE DEF shown, copied
  <2>2. task'[r].doc = e.doc /\ task'[r].manifest = shown /\ task'[r].copy = copied
    BY <2>1
  <2>3. QED
    BY <2>2 DEF shown, copied
<1>7. QED
  BY <1>3, <1>4, <1>5, <1>6 DEF Holding

\* A step that leaves the candidate of a wave and its records alone.
LEMMA HoldingFrame ==
    ASSUME NEW r \in Runner, Holding(r), pc'[r] = "decide" => pc[r] = "decide" /\ task'[r] = task[r],
           admitted \subseteq admitted',
           task[r].doc \in admitted =>
             /\ "document" \in kept'[task[r].doc] <=> "document" \in kept[task[r].doc]
             /\ cleanup'[task[r].doc].status = cleanup[task[r].doc].status
                  \/ cleanup'[task[r].doc].status # "complete"
    PROVE  Holding(r)'
<1> SUFFICES ASSUME pc'[r] = "decide"
             PROVE  Holding(r)'
  BY DEF Holding
<1>1. PICK d : d = task[r].doc
  OBVIOUS
<1>2. pc[r] = "decide" /\ task'[r] = task[r] /\ task'[r].doc = d
  BY <1>1
<1>3. d \in admitted /\ d \in admitted' /\ (task[r].manifest <=> "document" \in kept[d])
  BY <1>1, <1>2 DEF Holding
<1>4. "document" \in kept'[d] <=> "document" \in kept[d]
  BY <1>1, <1>3
<1>5. task[r].manifest \/ task[r].copy => cleanup'[d].status # "complete"
  BY <1>1, <1>2, <1>3 DEF Holding
<1>6. task'[r].manifest <=> task[r].manifest
  BY <1>2
<1>7. task'[r].copy <=> task[r].copy
  BY <1>2
<1>8. QED
  BY <1>2, <1>3, <1>4, <1>5, <1>6, <1>7 DEF Holding

\* The steps of a wave after which it decides: it picked, or was deciding before.
LEMMA DecidesStill ==
    ASSUME TypeOK, Inv, NEW r \in Runner, WaveStep(r), pc'[r] = "decide"
    PROVE  /\ pc[r] = "decide" /\ task'[r] = task[r]
           /\ UNCHANGED <<admitted, kept, cleanup>>
<1>a. WaveType
  BY TypeParts DEF AllTypes
<1>1. ~ (Dismiss(r) \/ Resume(r) \/ CommitExpiry(r) \/ Fail(r) \/ Published(r)
         \/ NotPublished(r) \/ EndWave(r))
  BY <1>a DEF Dismiss, Resume, CommitExpiry, Fail, Published, NotPublished, EndWave, WaveType
<1>2. ~ (CleanOwn(r) \/ SkipShared(r) \/ BeginUnshare(r) \/ Complete(r))
  BY DEF CleanOwn, SkipShared, BeginUnshare, Complete, Cleaning, wave
<1>3. ~CommitUnshare(r)
  <2>1. CommitUnshare(r) => pc[r] = "clean"
    BY RunnerTxn DEF CommitUnshare, Committing
  <2>2. QED
    BY <2>1 DEF CommitUnshare
<1>4. BeginExpiry(r) \/ Lose(r)
  BY <1>1, <1>2, <1>3 DEF WaveStep
<1>5. QED
  BY <1>4 DEF BeginExpiry, Lose, wave, ledger, canonical, lifecycle

LEMMA HoldingStep ==
    ASSUME OneWave, TypeOK, Inv, BackInv, [Next]_vars, NEW r \in Runner
    PROVE  Holding(r)'
<1>a. Holding(r) /\ admitted \subseteq admitted' /\ RecordType /\ CleanupType
  BY AdmittedForward, TypeParts DEF BackInv, AllTypes
<1>1. ASSUME NEW c \in Client, ClientWork(c)
      PROVE  Holding(r)'
  <2>1. UNCHANGED wave /\ cleanup' = cleanup
    BY <1>1 DEF ClientWork, BeginAdmit, BeginProtect, CommitAdmit, CommitPin, CommitLease,
                CommitRenew, ReleaseLease, Lose, lifecycle
  <2>2. ASSUME NEW d \in Doc, d \in admitted
        PROVE  kept'[d] = kept[d]
    <3>1. CASE CommitAdmit(c)
      BY <1>a, <2>2, <3>1 DEF CommitAdmit, RecordType
    <3>2. CASE ~CommitAdmit(c)
      BY <1>1, <3>2 DEF ClientWork, BeginAdmit, BeginProtect, CommitPin, CommitLease,
                        CommitRenew, ReleaseLease, Lose, canonical
    <3>3. QED
      BY <3>1, <3>2
  <2>3. QED
    BY <1>a, <2>1, <2>2, HoldingFrame DEF wave, RecordType
<1>2. ASSUME NEW x \in Runner, RunnerWork(x)
      PROVE  Holding(r)'
  <2>1. x = r
    BY DEF OneWave
  <2>2. ASSUME WaveStep(r), pc'[r] = "decide"
        PROVE  Holding(r)'
    <3>1. pc[r] = "decide" /\ task'[r] = task[r] /\ UNCHANGED <<admitted, kept, cleanup>>
      BY <2>2, DecidesStill
    <3>2. QED
      BY <1>a, <3>1, HoldingFrame
  <2>3. pc'[r] # "decide" => Holding(r)'
    BY DEF Holding
  <2>4. QED
    BY <1>2, <2>1, <2>2, <2>3, HoldingPick DEF RunnerWork
<1>3. CASE Environment
  <2>1. CASE Restart
    BY <2>1 DEF Restart, Holding
  <2>2. CASE ~Restart
    <3>1. UNCHANGED <<wave, admitted, kept>>
      BY <1>3, <2>2 DEF Environment, IndexDelete, Prune, ReclaimMetadata, Unpin, Heartbeat, Tick,
                        ledger, canonical
    <3>2. ASSUME NEW d \in Doc
          PROVE  cleanup'[d].status = cleanup[d].status \/ cleanup'[d].status # "complete"
      <4>1. ASSUME NEW e \in Doc, IndexDelete(e) \/ Prune(e)
            PROVE  cleanup'[d].status = cleanup[d].status
        BY <1>a, <4>1 DEF IndexDelete, Prune, CleanupType
      <4>2. ASSUME NEW e \in Doc, ReclaimMetadata(e)
            PROVE  cleanup'[d] = cleanup[d] \/ cleanup'[d].status # "complete"
        BY <1>a, <4>2 DEF ReclaimMetadata, CleanupType, NoCleanup
      <4>3. QED
        BY <1>3, <2>2, <4>1, <4>2 DEF Environment, Unpin, Heartbeat, Tick, lifecycle
    <3>3. QED
      BY <1>a, <3>1, <3>2, HoldingFrame DEF wave, RecordType
  <2>3. QED
    BY <2>1, <2>2
<1>4. CASE UNCHANGED vars
  BY <1>4, <1>a, HoldingFrame DEF vars, wave, ledger, canonical, lifecycle
<1>5. QED
  BY <1>1, <1>2, <1>3, <1>4, StepCases

LEMMA DecidingStep ==
    ASSUME TypeOK, Inv, BackInv, [Next]_vars, NEW r \in Runner
    PROVE  Deciding(r)'
<1>a. r \in Process /\ r \notin Client
  BY ProcessFacts
<1>1. CASE Survives(r)
  <2>1. txn'[r].op = txn[r].op /\ task'[r] = task[r]
    BY <1>a, <1>1, SparedStep, WaveStill DEF Spared
  <2>2. QED
    BY <2>1 DEF BackInv, Deciding
<1>2. CASE txn[r].op = "none" /\ txn'[r].op # "none"
  <2>1. CASE BeginUnshare(r)
    <3>1. txn'[r].op = "unshare"
      BY <1>a, <2>1, Opened DEF BeginUnshare
    <3>2. QED
      BY <3>1 DEF Deciding
  <2>2. CASE BeginExpiry(r)
    <3>1. txn'[r].op = Decision(r) /\ task' = task
      BY <1>a, <2>2, Opened DEF BeginExpiry, wave
    <3>2. Decision(r) = "expire" => task[r].manifest
      BY DEF Decision
    <3>3. Decision(r) = "enqueue" => task[r].manifest \/ task[r].copy
      BY DEF Decision
    <3>4. QED
      BY <3>1, <3>2, <3>3 DEF Deciding
  <2>3. QED
    BY <1>a, <1>2, <2>1, <2>2, Opens
<1>3. CASE txn'[r].op = "none"
  BY <1>3 DEF Deciding
<1>4. QED
  BY <1>1, <1>2, <1>3 DEF Survives

LEMMA BackInit == Init => BackInv
BY NoTxnFacts, ProcessFacts DEF Init, BackInv, WayBack, Begun, Unfinished, Holding, Deciding

LEMMA BackStep == OneWave /\ TypeOK /\ Inv /\ BackInv /\ [Next]_vars => BackInv'
BY BackDocuments, BackQueue, BackRenewals, HoldingStep, DecidingStep DEF BackInv

\* While waves run one at a time, as the daemon runs them (Maintenance), an interrupted cleanup
\* is always found again: the entry of the latest expiry of a version stays in the queue as
\* long as any of its records are there or its tombstone awaits the cleanup, through
\* supersession, renewals, forced expiry, failed transactions and restarts (beginExpiry,
\* ensureImmediateCleanupExpiry, completeCanonicalCleanup).
THEOREM WaysBackHolds == Spec => []WaysBackKept
<1>1. BackInv => CleanupReachable
  BY DEF BackInv, WayBack, Unfinished, CleanupReachable
<1>2. ASSUME OneWave
      PROVE  Spec => []CleanupReachable
  <2>1. TypeOK /\ Inv /\ BackInv /\ [Next]_vars => (TypeOK /\ Inv /\ BackInv)'
    BY <1>2, InvStep, BackStep
  <2>2. Init => TypeOK /\ Inv /\ BackInv
    BY InitInv, BackInit
  <2>3. QED
    BY <1>1, <2>1, <2>2, PTL DEF Spec
<1>3. CASE OneWave
  BY <1>2, <1>3, PTL DEF WaysBackKept
<1>4. CASE ~OneWave
  BY <1>4, PTL DEF WaysBackKept
<1>5. QED
  BY <1>3, <1>4
=============================================================================
