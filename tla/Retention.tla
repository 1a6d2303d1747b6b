------------------------------- MODULE Retention -------------------------------
(***************************************************************************)
(* Semantic expiry of archived document versions (src/rocksdb/retention/,  *)
(* src/retrieval/leases.js, the admission half in src/rocksdb/store.js):   *)
(* a due version that nothing protects gets a tombstone and an ordered     *)
(* index delete; when the delete is published its canonical records are    *)
(* removed phase by phase, and payloads it shares with other versions go   *)
(* with their last owner.                                                  *)
(*                                                                         *)
(* RocksDB transactions are optimistic: they read a snapshot and commit    *)
(* only if no key they WRITE was written since (the callback then runs     *)
(* again).  Reads alone protect nothing, which is why the code bumps a     *)
(* guard record for every decision that depends on records it does not     *)
(* write.  So a transaction whose decision rests on such records is two    *)
(* steps here, its snapshot and its commit, and every commit marks the     *)
(* open transactions it conflicts with as lost.  Transactions that write   *)
(* every key they depend on are one step.                                  *)
(***************************************************************************)
EXTENDS Naturals, Sequences, FiniteSets

CONSTANTS
    Doc,              \* document versions
    Manifest,         \* their immutable manifests
    Payload,          \* chunks, source messages, auxiliary manifests
    PhaseOf,          \* the cleanup phase that removes a payload
    Session,
    Client,           \* flows that admit, pin, lease, protect and renew
    Runner,           \* flows that run a retention wave or a redaction
    Operations,       \* the optional operations that occur
    DaemonPublishes,  \* does publishDelete ask the daemon (publishIndexSequence)?
    Ttl,              \* lifetime of leases and protections
    MaxTime, MaxGeneration, StepsPerWave, MaxRestarts,   \* bounds
    None

SharedPhase == {"source-messages", "kind-manifest", "chunks"}

ASSUME RetentionAssumption ==
    /\ None \notin Doc \cup Client \cup Runner
    /\ Client \cap Runner = {}
    /\ DaemonPublishes \in BOOLEAN
    /\ Operations \subseteq {"pin", "lease", "renew", "heartbeat", "due", "forced", "redact"}
    /\ Ttl \in Nat \ {0} /\ MaxTime \in Nat /\ MaxGeneration \in Nat
    /\ StepsPerWave \in Nat \ {0} /\ MaxRestarts \in Nat
    /\ Manifest \in [Doc -> [session: Session, payloads: SUBSET Payload, prior: Doc \cup {None},
                             expiresAt: 0..MaxTime, ephemeral: BOOLEAN]]
    /\ PhaseOf \in [Payload -> SharedPhase]

\* CLEANUP_PHASES
Phases == <<"windows", "derived", "source-messages", "access", "kind-manifest", "document",
            "session-reference", "chunks", "admission-references", "expiry">>
OwnPhase == {"windows", "derived", "access", "document", "session-reference",
             "admission-references"}

VARIABLES
    now,
    \* The ledger of every document: highestAdmittedVersion and retiredThrough
    admitted, retired,
    \* Canonical records
    kept,        \* the phases whose records of the version are still stored
    owners,      \* references of a payload
    stored,      \* payloads
    \* Lifecycle
    tombstone,   \* the SUPERSESSION record and its reason
    current,     \* expiry-current, generation 0 when there is none
    queue,       \* EXPIRY entries
    cleanup,     \* progress of the cleanup, and the state of its delete entry
    copies,      \* cleanup manifests
    \* Protection
    pins, leases, heartbeats,
    \* Memory of the processes
    txn,         \* open transactions
    pc, task, left,
    restarts

ledger     == <<admitted, retired>>
canonical  == <<kept, owners, stored>>
lifecycle  == <<tombstone, current, queue, cleanup, copies>>
protection == <<pins, leases, heartbeats>>
wave       == <<pc, task, left>>
vars == <<now, ledger, canonical, lifecycle, protection, txn, wave, restarts>>

Process == Client \cup Runner
NoLease == [doc |-> None, until |-> 0]
NoTxn   == [op |-> "none", doc |-> None, lost |-> FALSE, touched |-> {}, changed |-> {}, until |-> 0]
NoTask  == [mode |-> "due", doc |-> None, at |-> 0, generation |-> 0, started |-> 0,
            manifest |-> FALSE, copy |-> FALSE]
NoCleanup == [status |-> "none", phase |-> 1, deletion |-> "none"]
Live(d) == d \in admitted /\ tombstone[d] = "none" /\ d \notin retired

Init ==
    /\ now = 0
    /\ admitted = {} /\ retired = {}
    /\ kept = [d \in Doc |-> {}]
    /\ owners = [p \in Payload |-> {}]
    /\ stored = {}
    /\ tombstone = [d \in Doc |-> "none"]
    /\ current = [d \in Doc |-> [generation |-> 0, at |-> 0]]
    /\ queue = {}
    /\ cleanup = [d \in Doc |-> NoCleanup]
    /\ copies = {}
    /\ pins = {}
    /\ leases = [c \in Client |-> NoLease]
    /\ heartbeats = [s \in Session |-> 0]
    /\ txn = [p \in Process |-> NoTxn]
    /\ pc = [r \in Runner |-> "idle"]
    /\ task = [r \in Runner |-> NoTask]
    /\ left = [r \in Runner |-> 0]
    /\ restarts = 0
-----------------------------------------------------------------------------
(***************************************************************************)
(* Optimistic transactions.                                                *)
(***************************************************************************)
\* Conflict guards (guards.js) and the records that decisions are made about.
DocumentGuard(d) == <<"document", d>>
SessionGuard(s)  == <<"session", s>>
PayloadGuard(p)  == <<"payload", p>>
CleanupKey(d)    == <<"cleanup", d>>

\* mutants: protections do not bump the document guard; admission and cleanup do not
\* bump the payload guards
UnguardedWrites(t) ==
    CASE t.op \in {"admit", "expire"} -> {SessionGuard(Manifest[t.doc].session), CleanupKey(t.doc)}
      [] t.op \in {"enqueue", "unshare"} -> {CleanupKey(t.doc)}
      [] t.op \in {"none", "pin", "lease", "renew"} -> {}

\* The keys an open transaction is going to write.
Writes(t) ==
    LET d == t.doc
    IN  CASE t.op \in {"pin", "lease", "renew"} -> {DocumentGuard(d)}
          [] t.op = "admit" ->
               {DocumentGuard(d), SessionGuard(Manifest[d].session)}
                 \cup {PayloadGuard(p) : p \in t.touched}
                 \cup {DocumentGuard(e) : e \in {Manifest[d].prior} \ {None}}
          [] t.op = "expire" ->
               {DocumentGuard(d), SessionGuard(Manifest[d].session), CleanupKey(d)}
          [] t.op = "enqueue" -> {DocumentGuard(d), CleanupKey(d)}
          [] t.op = "unshare" -> {CleanupKey(d)} \cup {PayloadGuard(p) : p \in t.touched}
          [] t.op = "none" -> {}

\* The transactions left open by a commit of the given keys.
After(keys, open) ==
    [p \in Process |-> [open[p] EXCEPT !.lost = @ \/ Writes(open[p]) \cap keys # {}]]

Open(p, op, d, touched, changed, until) ==
    txn' = [txn EXCEPT ![p] = [op |-> op, doc |-> d, lost |-> FALSE,
                               touched |-> touched, changed |-> changed, until |-> until]]
Committing(p, op) == txn[p].op = op /\ ~txn[p].lost
Close(p) == txn' = After(Writes(txn[p]), [txn EXCEPT ![p] = NoTxn])

\* A lost transaction runs its callback again, with what was read before it; when it
\* has been lost too often, it fails and with it the wave.
Lose(p) ==
    /\ txn[p].lost
    /\ txn' = [txn EXCEPT ![p] = NoTxn]
    /\ UNCHANGED <<now, ledger, canonical, lifecycle, protection, wave, restarts>>

Fail(r) ==
    /\ txn[r].lost
    /\ txn' = [txn EXCEPT ![r] = NoTxn]
    /\ pc' = [pc EXCEPT ![r] = "idle"]
    /\ task' = [task EXCEPT ![r] = NoTask]
    /\ left' = [left EXCEPT ![r] = 0]
    /\ UNCHANGED <<now, ledger, canonical, lifecycle, protection, restarts>>
-----------------------------------------------------------------------------
(***************************************************************************)
(* Admission (commitCanonical as admitDocument uses it): the version, its  *)
(* references and the payloads that are missing, the tombstone of the      *)
(* version it replaces, a first expiry entry.                              *)
(***************************************************************************)
Replaced(d) ==
    {e \in {Manifest[d].prior} \ {None} : tombstone[e] = "none" /\ "document" \in kept[e]}

BeginAdmit(c, d) ==
    /\ txn[c] = NoTxn
    /\ d \notin admitted
    /\ tombstone[d] = "none"
    /\ Manifest[d].prior # None => Manifest[d].prior \in admitted
    /\ Open(c, "admit", d, Manifest[d].payloads, Manifest[d].payloads \ stored, 0)
    /\ UNCHANGED <<now, ledger, canonical, lifecycle, protection, wave, restarts>>

CommitAdmit(c) ==
    LET d == txn[c].doc
    IN  /\ Committing(c, "admit")
        /\ d \notin admitted
        /\ admitted' = admitted \cup {d}
        /\ retired' = retired \cup ({Manifest[d].prior} \ {None})
        /\ kept' = [kept EXCEPT ![d] = OwnPhase]
        /\ stored' = stored \cup txn[c].changed
        /\ owners' = [p \in Payload |->
                        IF p \in Manifest[d].payloads THEN owners[p] \cup {d} ELSE owners[p]]
        /\ tombstone' = [e \in Doc |-> IF e \in Replaced(d) THEN "superseded" ELSE tombstone[e]]
        /\ queue' = queue \cup {[doc |-> d, at |-> Manifest[d].expiresAt, generation |-> 0]}
        /\ Close(c)
        /\ UNCHANGED <<now, current, cleanup, copies, protection, wave, restarts>>
-----------------------------------------------------------------------------
(***************************************************************************)
(* Protection (protection.js, leases.js) and renewal (expiry.js).          *)
(***************************************************************************)
\* pinDocument, createRetrievalLease, renewDocumentExpiry: a snapshot that shows
\* no tombstone.  Only a lease is granted without a look at the ledger.
BeginProtect(c, op, d) ==
    /\ txn[c] = NoTxn
    /\ d \in admitted
    /\ tombstone[d] = "none"
    /\ op # "lease" => d \notin retired
    /\ op = "pin" => d \notin pins
    /\ op = "lease" => leases[c] = NoLease
    /\ op = "renew" => current[d].generation < MaxGeneration /\ now + Ttl <= MaxTime  \* bounds
    /\ Open(c, op, d, {}, {}, now + Ttl)
    /\ UNCHANGED <<now, ledger, canonical, lifecycle, protection, wave, restarts>>

CommitPin(c) ==
    /\ Committing(c, "pin")
    /\ pins' = pins \cup {txn[c].doc}
    /\ Close(c)
    /\ UNCHANGED <<now, ledger, canonical, lifecycle, leases, heartbeats, wave, restarts>>

CommitLease(c) ==
    /\ Committing(c, "lease")
    /\ leases' = [leases EXCEPT ![c] = [doc |-> txn[c].doc, until |-> txn[c].until]]
    /\ Close(c)
    /\ UNCHANGED <<now, ledger, canonical, lifecycle, pins, heartbeats, wave, restarts>>

CommitRenew(c) ==
    LET d == txn[c].doc
        next == [generation |-> current[d].generation + 1, at |-> txn[c].until]
    IN  /\ Committing(c, "renew")
        /\ current' = [current EXCEPT ![d] = next]
        /\ queue' = queue \cup {[doc |-> d, at |-> next.at, generation |-> next.generation]}
        /\ Close(c)
        /\ UNCHANGED <<now, ledger, canonical, tombstone, cleanup, copies, protection, wave, restarts>>

\* protectEvidence for a session: it writes the record it reads.
Heartbeat(s) ==
    /\ "heartbeat" \in Operations
    /\ heartbeats' = [heartbeats EXCEPT ![s] = now + Ttl]
    /\ txn' = After({SessionGuard(s)}, txn)
    /\ UNCHANGED <<now, ledger, canonical, lifecycle, pins, leases, wave, restarts>>

\* unpinDocument, releaseLease and cleanupExpiredLeases: no guard is bumped.
Unpin(d) ==
    /\ d \in pins
    /\ pins' = pins \ {d}
    /\ UNCHANGED <<now, ledger, canonical, lifecycle, leases, heartbeats, txn, wave, restarts>>

ReleaseLease(c) ==
    /\ leases[c] # NoLease
    /\ leases' = [leases EXCEPT ![c] = NoLease]
    /\ UNCHANGED <<now, ledger, canonical, lifecycle, pins, heartbeats, txn, wave, restarts>>

\* isDocumentProtected
Protected(d, time) ==
    \/ d \in pins
    \/ heartbeats[Manifest[d].session] > time
    \/ \E c \in Client : leases[c].doc = d /\ leases[c].until > time
-----------------------------------------------------------------------------
(***************************************************************************)
(* A retention wave (runRetention): it takes an entry from the queue, and  *)
(* reads the manifest and its copy before its transaction.  A redaction    *)
(* (tombstoneDocument) comes with a candidate of its own.                  *)
(***************************************************************************)
Candidate(mode) ==
    CASE mode = "due"    -> {e \in queue : e.at <= now}
      [] mode = "forced" -> {e \in queue : e.at > now /\ Manifest[e.doc].ephemeral
                                             /\ (e.doc \in copies \/ "document" \in kept[e.doc])}
      [] mode = "redact" -> {[doc |-> d, at |-> now, generation |-> 0] :
                               d \in {e \in Doc : "document" \in kept[e]}}

Pick(r, mode) ==
    /\ pc[r] = "idle"
    /\ \E e \in Candidate(mode) :
         task' = [task EXCEPT ![r] =
                    [mode |-> mode, doc |-> e.doc, at |-> e.at, generation |-> e.generation,
                     started |-> now, manifest |-> "document" \in kept[e.doc],
                     copy |-> e.doc \in copies]]
    /\ pc' = [pc EXCEPT ![r] = "decide"]
    /\ UNCHANGED <<now, ledger, canonical, lifecycle, protection, txn, left, restarts>>

\* currentCandidate
IsCurrent(d, entry) ==
    \/ current[d].generation = 0 /\ entry.generation = 0
    \/ current[d].generation = entry.generation /\ current[d].at = entry.at

\* What the callback of beginExpiry decides on its snapshot.
Decision(r) ==
    LET d == task[r].doc
        known == task[r].manifest \/ task[r].copy
        marked == tombstone[d] # "none"
    IN  CASE marked /\ cleanup[d].deletion # "none"            -> "already-tombstoned"
          [] marked /\ cleanup[d].deletion = "none" /\ known   -> "enqueue"
          [] marked /\ cleanup[d].deletion = "none" /\ ~known  -> "missing"
          [] ~marked /\ ~IsCurrent(d, task[r])                 -> "stale"
          [] ~marked /\ IsCurrent(d, task[r]) /\ ~task[r].manifest -> "missing"
          [] ~marked /\ IsCurrent(d, task[r]) /\ task[r].manifest  ->
               IF task[r].mode # "redact" /\ Protected(d, task[r].started)
               THEN "protected" ELSE "expire"

\* The queue without the candidate's own entry, if it came from the queue.
Dequeued(r) ==
    queue \ {e \in queue : e.doc = task[r].doc /\ e.at = task[r].at
                             /\ e.generation = task[r].generation /\ task[r].mode # "redact"}

\* beginExpiry always bumps the guard of the version, and with a manifest its session's.
GuardsOf(r) ==
    {DocumentGuard(task[r].doc)}
      \cup (IF task[r].manifest THEN {SessionGuard(Manifest[task[r].doc].session)} ELSE {})

\* The decisions that write nothing but guards and the candidate.
Dismiss(r) ==
    /\ pc[r] = "decide"
    /\ txn[r] = NoTxn
    /\ Decision(r) \in {"missing", "stale", "protected"}
    /\ queue' = IF Decision(r) = "protected" THEN queue ELSE Dequeued(r)
    /\ txn' = After(GuardsOf(r), txn)
    /\ pc' = [pc EXCEPT ![r] = "idle"]
    /\ task' = [task EXCEPT ![r] = NoTask]
    /\ UNCHANGED <<now, ledger, canonical, tombstone, current, cleanup, copies, protection, left, restarts>>

\* ensureImmediateCleanupExpiry: a forced expiry ahead of time is due at once.
NextGeneration(r, d) ==
    1 + IF task[r].generation > current[d].generation THEN task[r].generation
                                                      ELSE current[d].generation

Immediate(r, d) ==
    IF task[r].at <= task[r].started \/ (current[d].generation > 0 /\ current[d].at <= task[r].started)
    THEN {}
    ELSE {[doc |-> d, at |-> task[r].started, generation |-> NextGeneration(r, d)]}

ResumeDequeued(r) ==  \* mutant: the entry that led to a cleanup is done with
    LET d == task[r].doc
    IN  /\ pc[r] = "decide"
        /\ txn[r] = NoTxn
        /\ Decision(r) = "already-tombstoned"
        /\ txn' = After(GuardsOf(r), txn)
        /\ LET extra == IF task[r].mode = "forced" THEN Immediate(r, d) ELSE {}
           IN  /\ queue' = Dequeued(r) \cup extra
               /\ current' = [current EXCEPT ![d] =
                    IF extra = {} THEN @ ELSE [generation |-> NextGeneration(r, d), at |-> task[r].started]]
        /\ pc' = [pc EXCEPT ![r] = "publish"]
        /\ UNCHANGED <<now, ledger, canonical, tombstone, cleanup, copies, protection, task, left, restarts>>

Resume(r) ==
    LET d == task[r].doc
    IN  /\ pc[r] = "decide"
        /\ txn[r] = NoTxn
        /\ Decision(r) = "already-tombstoned"
        /\ txn' = After(GuardsOf(r), txn)
        /\ LET extra == IF task[r].mode = "forced" THEN Immediate(r, d) ELSE {}
           IN  /\ queue' = queue \cup extra
               /\ current' = [current EXCEPT ![d] =
                    IF extra = {} THEN @ ELSE [generation |-> NextGeneration(r, d), at |-> task[r].started]]
        /\ pc' = [pc EXCEPT ![r] = "publish"]
        /\ UNCHANGED <<now, ledger, canonical, tombstone, cleanup, copies, protection, task, left, restarts>>

BeginExpiry(r) ==
    /\ pc[r] = "decide"
    /\ txn[r] = NoTxn
    /\ Decision(r) \in {"expire", "enqueue"}
    /\ Open(r, Decision(r), task[r].doc, {}, {}, 0)
    /\ UNCHANGED <<now, ledger, canonical, lifecycle, protection, wave, restarts>>

Reason(mode) ==
    CASE mode = "due" -> "expired" [] mode = "forced" -> "forced" [] mode = "redact" -> "redacted"

\* The tombstone, the delete entry of the outbox, the progress record, the copy.
CommitExpiry(r) ==
    LET d == task[r].doc
        extra == IF task[r].mode = "forced" THEN Immediate(r, d) ELSE {}
    IN  /\ \E op \in {"expire", "enqueue"} : Committing(r, op)
        /\ tombstone' = [tombstone EXCEPT ![d] =
                           IF txn[r].op = "expire" THEN Reason(task[r].mode) ELSE @]
        /\ cleanup' = [cleanup EXCEPT ![d] = [status |-> "tombstoned", phase |-> 1, deletion |-> "queued"]]
        /\ copies' = copies \cup {d}
        /\ queue' = queue \cup extra
        /\ current' = [current EXCEPT ![d] =
             IF extra = {} THEN @ ELSE [generation |-> NextGeneration(r, d), at |-> task[r].started]]
        /\ Close(r)
        /\ pc' = [pc EXCEPT ![r] = "publish"]
        /\ UNCHANGED <<now, ledger, canonical, protection, task, left, restarts>>
-----------------------------------------------------------------------------
(***************************************************************************)
(* The index delete (publishDelete), then the cleanup of the canonical     *)
(* records (cleanupCanonicalDocument).                                     *)
(***************************************************************************)
\* The index worker publishes the delete entry; much later its record is pruned.
IndexDelete(d) ==
    /\ cleanup[d].deletion = "queued"
    /\ cleanup' = [cleanup EXCEPT ![d].deletion = "processed"]
    /\ UNCHANGED <<now, ledger, canonical, tombstone, current, queue, copies, protection, txn, wave, restarts>>

Prune(d) ==
    /\ cleanup[d].deletion = "processed"
    /\ cleanup' = [cleanup EXCEPT ![d].deletion = "pruned"]
    /\ UNCHANGED <<now, ledger, canonical, tombstone, current, queue, copies, protection, txn, wave, restarts>>

NotAwaited(d) == TRUE  \* mutant: does not wait for the index

\* isOutboxSequenceProcessed asks for the record of the entry, or the cursor that is past
\* it.  publishIndexSequence, which every wave of the daemon passes as publishIndexDelete,
\* asks for the record only: once that is pruned its answer is no.
IsPublished(d) ==
    \/ cleanup[d].deletion = "processed"
    \/ cleanup[d].deletion = "pruned" /\ ~DaemonPublishes
    \/ cleanup[d].status = "complete"

Published(r) ==
    /\ pc[r] = "publish"
    /\ IsPublished(task[r].doc)
    /\ pc' = [pc EXCEPT ![r] = IF task[r].mode = "redact" THEN "idle" ELSE "clean"]
    /\ left' = [left EXCEPT ![r] = IF task[r].mode = "redact" THEN 0 ELSE StepsPerWave]
    /\ task' = IF task[r].mode = "redact" THEN [task EXCEPT ![r] = NoTask] ELSE task
    /\ UNCHANGED <<now, ledger, canonical, lifecycle, protection, txn, restarts>>

NotPublished(r) ==
    /\ pc[r] = "publish"
    /\ ~IsPublished(task[r].doc)
    /\ pc' = [pc EXCEPT ![r] = "idle"]
    /\ task' = [task EXCEPT ![r] = NoTask]
    /\ UNCHANGED <<now, ledger, canonical, lifecycle, protection, txn, left, restarts>>

\* The wave stops when its work is exhausted or nothing is left to do.
EndWave(r) ==
    /\ pc[r] = "clean"
    /\ txn[r] = NoTxn
    /\ left[r] = 0 \/ cleanup[task[r].doc].status # "tombstoned"
    /\ pc' = [pc EXCEPT ![r] = "idle"]
    /\ task' = [task EXCEPT ![r] = NoTask]
    /\ left' = [left EXCEPT ![r] = 0]
    /\ UNCHANGED <<now, ledger, canonical, lifecycle, protection, txn, restarts>>

\* A cleanup step of a wave that has work left, in the phase of the progress record.
Cleaning(r, phases) ==
    /\ pc[r] = "clean"
    /\ txn[r] = NoTxn
    /\ left[r] > 0
    /\ cleanup[task[r].doc].status = "tombstoned"
    /\ Phases[cleanup[task[r].doc].phase] \in phases

Stay(d) == UNCHANGED cleanup  \* mutant: does not save the progress

Advance(d) == cleanup' = [cleanup EXCEPT ![d].phase = @ + 1]
UsesStep(r) == left' = [left EXCEPT ![r] = @ - 1]

\* The guard that two of the phases bump.
PhaseGuard(d) ==
    CASE Phases[cleanup[d].phase] = "document"          -> {DocumentGuard(d)}
      [] Phases[cleanup[d].phase] = "session-reference" -> {SessionGuard(Manifest[d].session)}
      [] OTHER                                          -> {}

\* cleanupPrefixPhase, cleanupDerivedPhase, cleanupPointPhase and the two phases of
\* references: the records belong to the version alone.
CleanOwn(r) ==
    LET d == task[r].doc
    IN  /\ Cleaning(r, OwnPhase)
        /\ kept' = [kept EXCEPT ![d] = @ \ {Phases[cleanup[d].phase]}]
        /\ Advance(d)
        /\ UsesStep(r)
        /\ txn' = After({CleanupKey(d)} \cup PhaseGuard(d), txn)
        /\ UNCHANGED <<now, ledger, owners, stored, tombstone, current, queue, copies,
                       protection, pc, task, restarts>>

\* The payloads a shared phase still has to remove.
Owned(d) == {p \in Payload : d \in owners[p] /\ PhaseOf[p] = Phases[cleanup[d].phase]}

AnyOwned(d) == Payload  \* mutant: does not look for other owners

\* The payloads no other version owns.
LastOwned(d) == {p \in Payload : owners[p] = {d}}

\* cleanupSourceMessagesPhase, cleanupKindManifestPhase, cleanupChunksPhase: the
\* reference goes, and with the last reference the payload.
SkipShared(r) ==
    /\ Cleaning(r, SharedPhase)
    /\ Owned(task[r].doc) = {}
    /\ Advance(task[r].doc)
    /\ UsesStep(r)
    /\ txn' = After({CleanupKey(task[r].doc)}, txn)
    /\ UNCHANGED <<now, ledger, canonical, tombstone, current, queue, copies, protection, pc, task, restarts>>

BeginUnshare(r) ==
    /\ Cleaning(r, SharedPhase)
    /\ \E p \in Owned(task[r].doc) :
         Open(r, "unshare", task[r].doc, {p}, {p} \cap LastOwned(task[r].doc), 0)
    /\ UNCHANGED <<now, ledger, canonical, lifecycle, protection, wave, restarts>>

CommitUnshare(r) ==
    LET d == txn[r].doc
    IN  /\ Committing(r, "unshare")
        /\ owners' = [p \in Payload |-> IF p \in txn[r].touched THEN owners[p] \ {d} ELSE owners[p]]
        /\ stored' = stored \ txn[r].changed
        /\ UsesStep(r)
        /\ Close(r)
        /\ UNCHANGED <<now, ledger, kept, lifecycle, protection, pc, task, restarts>>

\* completeCanonicalCleanup
Complete(r) ==
    LET d == task[r].doc
    IN  /\ Cleaning(r, {"expiry"})
        /\ cleanup' = [cleanup EXCEPT ![d] = [NoCleanup EXCEPT !.status = "complete"]]
        /\ retired' = retired \cup {d}
        /\ queue' = Dequeued(r)
        /\ current' = [current EXCEPT ![d] = [generation |-> 0, at |-> 0]]
        /\ copies' = copies \ {d}
        /\ txn' = After({CleanupKey(d)}, txn)
        /\ UsesStep(r)
        /\ UNCHANGED <<now, admitted, canonical, tombstone, protection, pc, task, restarts>>

\* cleanupExpiredTombstoneMetadata, 30 days later: no process still remembers the
\* version then.
Forgotten(d) ==
    /\ \A r \in Runner : task[r].doc # d
    /\ \A p \in Process : txn[p].doc # d

ReclaimMetadata(d) ==
    /\ cleanup[d].status = "complete"
    /\ Forgotten(d)
    /\ tombstone' = [tombstone EXCEPT ![d] = "none"]
    /\ cleanup' = [cleanup EXCEPT ![d] = NoCleanup]
    /\ retired' = retired \cup {d}
    /\ UNCHANGED <<now, admitted, canonical, current, queue, copies, protection, txn, wave, restarts>>
-----------------------------------------------------------------------------
Tick ==
    /\ now < MaxTime
    /\ now' = now + 1
    /\ UNCHANGED <<ledger, canonical, lifecycle, protection, txn, wave, restarts>>

\* The daemon stops; what is durable stays.
Restart ==
    /\ restarts < MaxRestarts
    /\ restarts' = restarts + 1
    /\ txn' = [p \in Process |-> NoTxn]
    /\ pc' = [r \in Runner |-> "idle"]
    /\ task' = [r \in Runner |-> NoTask]
    /\ left' = [r \in Runner |-> 0]
    /\ UNCHANGED <<now, ledger, canonical, lifecycle, protection>>

ClientStep(c) ==
    \/ \E d \in Doc : BeginAdmit(c, d)
    \/ \E d \in Doc, op \in {"pin", "lease", "renew"} \cap Operations : BeginProtect(c, op, d)
    \/ CommitAdmit(c) \/ CommitPin(c) \/ CommitLease(c) \/ CommitRenew(c)
    \/ ReleaseLease(c)

\* The steps a wave takes once it has begun.
WaveStep(r) ==
    \/ Dismiss(r) \/ Resume(r) \/ BeginExpiry(r) \/ CommitExpiry(r) \/ Lose(r) \/ Fail(r)
    \/ Published(r) \/ NotPublished(r) \/ EndWave(r)
    \/ CleanOwn(r) \/ SkipShared(r) \/ BeginUnshare(r) \/ CommitUnshare(r) \/ Complete(r)

RunnerStep(r) ==
    \/ \E mode \in {"due", "forced", "redact"} \cap Operations : Pick(r, mode)
    \/ WaveStep(r)

Environment ==
    \/ \E d \in Doc : IndexDelete(d) \/ Prune(d) \/ ReclaimMetadata(d) \/ Unpin(d)
    \/ \E s \in Session : Heartbeat(s)
    \/ Tick \/ Restart

Next ==
    \/ \E c \in Client : ClientStep(c) \/ Lose(c)
    \/ \E r \in Runner : RunnerStep(r)
    \/ Environment

Spec == Init /\ [][Next]_vars

\* Transactions end, waves are scheduled for ever, their cursor brings them to every due entry, and the
\* index worker works.
Fairness ==
    /\ \A c \in Client :
         WF_vars(Lose(c) \/ CommitAdmit(c) \/ CommitPin(c) \/ CommitLease(c) \/ CommitRenew(c))
    /\ \A r \in Runner :
         /\ WF_vars(WaveStep(r))
         /\ \A d \in Doc : SF_vars(Pick(r, "due") /\ task'[r].doc = d)
    /\ \A d \in Doc : WF_vars(IndexDelete(d)) /\ WF_vars(ReclaimMetadata(d))
    /\ WF_vars(Tick)

FairSpec == Spec /\ Fairness
-----------------------------------------------------------------------------
Tombstones == {"none", "superseded", "expired", "forced", "redacted"}

Transaction ==
    [op: {"none", "admit", "pin", "lease", "renew", "expire", "enqueue", "unshare"},
     doc: Doc \cup {None}, lost: BOOLEAN, touched: SUBSET Payload, changed: SUBSET Payload,
     until: Nat]
Task ==
    [mode: {"due", "forced", "redact"}, doc: Doc \cup {None}, at: Nat, generation: Nat,
     started: 0..MaxTime, manifest: BOOLEAN, copy: BOOLEAN]

TypeOK ==
    /\ now \in 0..MaxTime
    /\ admitted \subseteq Doc /\ retired \subseteq Doc
    /\ kept \in [Doc -> SUBSET OwnPhase]
    /\ owners \in [Payload -> SUBSET Doc]
    /\ stored \subseteq Payload
    /\ tombstone \in [Doc -> Tombstones]
    /\ current \in [Doc -> [generation: Nat, at: Nat]]
    /\ \A e \in queue : e \in [doc: Doc, at: Nat, generation: Nat]
    /\ cleanup \in [Doc -> [status: {"none", "tombstoned", "complete"}, phase: 1..Len(Phases),
                            deletion: {"none", "queued", "processed", "pruned"}]]
    /\ copies \subseteq Doc
    /\ pins \subseteq Doc
    /\ leases \in [Client -> [doc: Doc \cup {None}, until: Nat]]
    /\ heartbeats \in [Session -> Nat]
    /\ txn \in [Process -> Transaction]
    /\ pc \in [Runner -> {"idle", "decide", "publish", "clean"}]
    /\ task \in [Runner -> Task]
    /\ left \in [Runner -> 0..StepsPerWave]
    /\ restarts \in 0..MaxRestarts

\* "Pins, active-context protections, and retrieval leases win deletion races": a
\* version that one of them protects is never expired by a wave, however the
\* transactions interleave.
Expires(d) == tombstone[d] = "none" /\ tombstone'[d] \in {"expired", "forced"}
ProtectionWins == [][\A d \in Doc : Expires(d) => ~Protected(d, now)]_vars

\* "Explicitly renewing expiry writes a new generation; stale expiry entries become
\* harmless": a version expires on schedule only after its latest expiry.
RenewalHonoured ==
    [][\A d \in Doc : Expires(d) /\ tombstone'[d] = "expired" =>
         IF current[d].generation = 0 THEN Manifest[d].expiresAt <= now ELSE current[d].at <= now]_vars

\* Both: what protects a version, or postpones its expiry, is honoured to the last moment.
ProtectionHonoured == ProtectionWins /\ RenewalHonoured

\* Shared payloads survive their other owners: as long as a version has not been
\* tombstoned, everything its manifest names is stored and references it.
PayloadIntact ==
    \A d \in admitted : tombstone[d] = "none" /\ "document" \in kept[d] =>
      \A p \in Manifest[d].payloads : p \in stored /\ d \in owners[p]

\* Nothing is left behind: a payload is stored only as long as it has an owner.
NoOrphanPayload == \A p \in stored : owners[p] # {}

\* "Preserve canonical bytes until a later bounded wave publishes the ordered index
\* delete": no record of a version goes before its index delete was published.
IndexDeletedFirst ==
    [][\A d \in Doc :
         (kept'[d] # kept[d] /\ d \in admitted) \/ (\E p \in Payload : d \in owners[p] \ owners'[p])
           => cleanup[d].deletion \in {"processed", "pruned"}]_vars

\* A complete cleanup has removed everything, and what is gone never comes back.
CompleteIsClean ==
    \A d \in Doc : cleanup[d].status = "complete" \/ (d \in retired /\ tombstone[d] = "none") =>
      kept[d] = {} /\ \A p \in Payload : d \notin owners[p]

\* A tombstone is final until its audit horizon: the version stays retired after that.
TombstoneIsFinal ==
    [][\A d \in Doc : tombstone[d] # "none" /\ tombstone'[d] # tombstone[d] =>
         tombstone'[d] = "none" /\ d \in retired' /\ kept[d] = {}]_vars

\* Payloads and their owners agree in both directions, to the end of a cleanup: what two
\* versions share goes with its last owner, then and no sooner (cleanupChunksPhase and the
\* other shared phases, while commitCanonical admits a version that reuses the payload).
OwnersAgree == PayloadIntact /\ NoOrphanPayload /\ CompleteIsClean

\* What is deleted goes in its order: the index, the records, at last the tombstone
\* (publishDelete, cleanupCanonicalDocument, cleanupExpiredTombstoneMetadata).
DeletionOrdered == IndexDeletedFirst /\ TombstoneIsFinal

\* A wave only ever reaches a cleanup through the expiry queue: while a version is
\* tombstoned and its cleanup unfinished, an entry of the queue leads back to it, unless
\* a wave is at it ("Restart resumes interrupted expiry idempotently").
CleanupReachable ==
    \A d \in Doc : tombstone[d] # "none" /\ cleanup[d].status # "complete" =>
      (\E e \in queue : e.doc = d) \/ (\E r \in Runner : task[r].doc = d)

\* A restart finds every cleanup that was begun, if waves run one at a time: a queue entry
\* leads to it, whatever clients do (beginExpiry, runRetention).
OneWave == \A r, q \in Runner : r = q
WaysBackKept == OneWave => CleanupReachable

\* Every tombstone is reclaimed in the end, whatever interrupts the cleanup (resumeCleanup,
\* "Restart resumes interrupted expiry idempotently"), unless the outbox prunes the record
\* of the index delete before the cleanup is complete: the daemon's waves then wait for
\* ever for a publication that has long been (operations.js:1248-1258, 1291).
Reclaimed ==
    \A d \in Doc :
      tombstone[d] # "none" ~> tombstone[d] = "none" \/ [](cleanup[d].deletion = "pruned")
=============================================================================
