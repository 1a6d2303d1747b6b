# TLA+ models of the sliding context window archive

This directory holds TLA+ specifications of the RocksDB archive behind the Pi
sliding-context-window extension, the TLC configurations that check them and
TLAPS proofs of their main invariants. Paths below are relative to the
repository root (`src/rocksdb/outbox.js`, ...).

Run a check with `tlc -workers 2 -config MCOutbox.cfg MCOutbox`, a proof with
`tlapm OutboxProofs.tla`.

## 1. The system and its components

A Pi session (`extensions/pi.ts`), or an MCP client
(`bin/context-window-mcp.js`), keeps a bounded prompt window and archives what
falls out of it. Archiving and recall go through a *daemon client* (a worker
thread with a synchronous bridge) and a local socket to one daemon,
`context-windowd`, which owns a RocksDB store. Within the daemon:

    admission --> canonical records + outbox entry      (one transaction)
    outbox    --> index worker --> derived index records (ordered, asynchronous)
    retention --> expiry tombstone + outbox delete entry --> index delete
              --> removal of canonical records and unshared chunks
    retrieval --> snapshot of the canonical and derived records

| Component | State | Operations | What is hard | Modelled in |
|---|---|---|---|---|
| Index outbox and worker (`rocksdb/outbox.js`, `indexer.js`) | counters, entries, cursor, per-entry state, stage header, tablets, applied and ready markers, publication records | claim, discard legacy, stage, apply, publish, clean up, recover, release | leases that expire under a live worker, takeover under the same generation, crashes between any two transactions, changed plans, pruning | `Outbox`, `OrderedPublication` |
| Write barrier (`store.js` WriteBarrier) | active lease, FIFO of waiters, leases of asynchronous contexts | shared and exclusive runs, reentry, settlement | fairness, reentrancy, descendants that outlive their parent | `WriteBarrier` |
| Admission (`store.js` commitCanonical, `manifests.js`, `guards.js`) | canonical records, idempotency markers, guards, ordinals, subject head | insert, version, supersede, replay | lost updates, retries with another payload, races with retention | `Admission` |
| Retention (`retention/*`, `retrieval/leases.js`) | pins, protections, leases, candidates, tombstones, cleanup progress, chunk references | pin, protect, lease, release, begin expiry, cleanup | a lease taken while expiry begins, shared chunks, index delete before canonical bytes, crash between phases | `Retention` |
| Derived view (`derived-view.js`) | ordinals, tombstones of the overlay, upgrade cursor, cutover record | number, retire, upgrade, verify, cut over | an older daemon that writes in between, pages with admissions in between, a purge | `DerivedView` |
| Index handlers (`index/*`, `derived.js`) | statistics, postings, pointers, layouts, text shards, decisions | prepare, apply, publish, clean, change the layout, look up | statistics of a generation while the next is written, half-rewritten layouts, bounds of a lookup | `LexicalIndex`, `ExactPostings`, `ExactLookup`, `StructuralIndex` |
| Daemon operations (`daemon/operations.js`) | drain promise, retry timer, admission bytes, redaction cursor | admit, schedule, retry, redact | coalescing, lost wakeups, work after close, a redaction over many requests | `IndexScheduler`, `ProjectRedaction` |
| Maintenance (`daemon/maintenance.js`, `project-purge.js`) | deletion count, compaction baseline, emergency mode, sweep | wave, account, compact, purge | two flows write the mode, a request that was only scheduled, an admission during a purge | `Maintenance`, `ProjectRedaction` |
| Daemon server (`daemon/server.js`) | connections, requests in flight, outcome table, output budget, idle timer | accept, dispatch, replay, drain, close | retries on a new connection, drain against new work, a budget released from many places | `DaemonServer`, `DaemonLifecycle` |
| Daemon client (`daemon-client/*`, `store/store-client.js`) | connection, pending calls, upgrade marker | call, time out, reconnect, replace the daemon | a late answer, a lost answer, two daemons | `DaemonClient`, `DaemonLifecycle` |
| Session window (`session/*`, the event handlers of `extensions/pi.ts`) | boundary, gates, protected documents, hints, persisted entries | prepare, rotate, archive, compact, restore | archive calls that fail between memory and disk, a crash after each | `EpochWindow` |
| Archive front ends (`archive/*`) | protection shards, checkpoint documents | protect, release, checkpoint, reconstruct | an owner that changes under failures, an interrupted checkpoint | `ArchiveProtection`, `CheckpointPublication` |
| SQLite archive (`archive/archive.js`) | tables of documents, order, messages and bytes, policies, leases | open, put, recall, prune, protect | several openings with limits of their own, processes of an older version that write through triggers | `SqliteArchive` |
| Migration (`migration/*`, `backend-authority.js`) | authority record, writers, copy checkpoint, gate | select, write, copy, verify, admit, seal, roll back | crash between steps, a writer in the old backend | `Migration` |
| Retrieval (`retrieval/*`) | leases, signed locators | search, gather, recall | documents that die between candidate and answer, budgets, continuation | `ArchiveSearch`, `SourceRanges` |
| Hints (`retrieval/hints.js`, `preflight.js`) | frozen decisions, activity, abandonment and exposure entries | preflight, freeze, copy, correct, sweep | concurrent preflights of one lineage, a sweep from a stale scan | `FrozenHints` |
| Semantic index and models (`semantic/*`) | vectors, metadata, queue; processes and pending requests | embed, save, load, rebuild, remove; rerank | two renames, a rebuild beside removal, timeouts against answers | `SemanticIndex`, `Reranker`, `Embedder` |
| Watchdog (`daemon/watchdog*.js`) | heartbeat, state of the inspection, requests | beat, inspect, report, sample, close | a loop that stands still, a worker that does, a machine that sleeps | `Watchdog` |
| Launch log (`daemon/log-file.js`) | lock, active and previous file | lock, append, rotate | processes that die with the lock, two that take it over | `DaemonLog` |
| Protocol schemas, configuration, presentation, identity | none | parse, format, hash | none | not modelled |

For each component the properties that make it correct stand in section 3 under
its module; `PROJECT.json` lists the hazards with the lines at which they bite
and the properties that would notice.

## 2. Order and plan

The modules were written from the inside out: `Outbox` (every derived record
depends on it), `WriteBarrier`, `Retention`, `Admission`; then what schedules
and serves them (`IndexScheduler`, `Maintenance`, `DaemonServer`, ...), what
stands before the daemon (`EpochWindow`, `ArchiveProtection`, `DaemonClient`,
...), what reads (`LexicalIndex`, `ArchiveSearch`, ...), and last what stands
beside it (`SqliteArchive`, `Watchdog`, `DaemonLog`, `StructuralIndex`). The first four have
a run and proof modules of their own. `Migration` and `EpochWindow` have a proof
module each, `ProjectRedaction` has `RedactionProofs`, and what a daemon process
does beside its store (`IndexScheduler`, `Maintenance`, `DaemonLifecycle`) is
proved in `DaemonProofs`. They and the others are checked by `MCDaemon`,
`MCSessions` and `MCRetrieval`, each part on its own: a constant of the
behaviour, `part`, names the one whose steps are taken. Each of the three extends
one component (`IndexScheduler`, `EpochWindow`, `ProjectRedaction`), so that what
the run checks of it is the very definition a theorem states, and instantiates
the others; `MCLive` extends `Retention` in the same way. The
parts meet through what they promise each other, which is stated where it is
used (the index worker of `IndexScheduler` is `Outbox`, the publication that
`Retention` waits for is `OutboxProofs`' order, and so on).

Proved: all of `WriteBarrier`'s and `Admission`'s safety, `Outbox` with the
refinement of `OrderedPublication`, of `Retention` the agreement of owners, the
order of deletion, the protection of versions and, for one wave at a time, the
way back to each cleanup, all of `Migration`'s safety, the one owner of the store
(`DaemonLifecycle`), that nothing is lost between the timers and passes of
`IndexScheduler`, what `Maintenance` remembers, what `ProjectRedaction` promises
when it is done, and that a session forgets nothing (`EpochWindow`). Of the core
the answers of `DaemonServer` are only model-checked; section 5 ends with what
else is. Section 6 lists what is not modelled.

## 3. Modules

### Outbox

One action per RocksDB transaction, per half of one, or per read outside one. The
memory of a worker is `pc`, `claim`, `plan`, `ordinal`, `agree`, `todo`,
`initialized` and `open`, the transaction it has begun; `faults` and `torn` are
bookkeeping; everything else is durable. `Restart` erases the memory of all workers, `Fail`
throws in any step, `Expire` lets the 30 second lease lapse. Two workers are
real: the API takes a worker id, and `runRetention` without
`publishIndexDelete` creates a worker of its own next to the daemon's
(`retention/cleanup.js:45`); a restarted daemon meets the claims of its
predecessor in any case.

How the code is abstracted:

* RocksDB transactions are optimistic (`guards.js`, and `Retention` below): what a
  transaction writes is validated at its commit, what it only reads is not. A
  transaction that writes the record it decides by is one step: the claim record
  in `Claim`, `Publish`, `Release` and `RecoverClaim`, the ready marker in
  `CleanupTablet`; `CleanupFinal` decides nothing. The stage transactions only
  read it (`assertClaimOwner`, `outbox.js:726-740, 768-775, 814-836, 918-977`) and
  write a tablet, a marker or the header. Each is two steps: `Begin` checks the
  claim and chooses the one record to write (`open`); the commit (`ClearOrphan`,
  `ClearReady`, `DropLegacy`, `PutTablet`, `PutHeader`, `ApplyTablet`, `PutReady`)
  comes at any later time, also when the claim has passed to another worker. A
  commit cancels the transactions that were to write the same record
  (`Committed`), which then begin again. `Unchanged` is the transaction that finds
  its record and writes nothing.
* `torn` names the generations whose header was put by a worker that did not own
  the claim at the commit. The code has no such mark; the properties need it to say
  what they except (below).
* A plan is a model value with a number of tablets; an *atomic* plan has none.
  `prepared` records which tablets of which plan were applied to the derived
  records, `visible` what the publication exposed, `cleaned` which removals ran.
* Time is one bit per claim, `live`; tokens are model values and a fresh one is
  any that no record and no worker remembers (`randomUUID`).
* The scans of recovery are kept apart from the transactions they lead to
  (`todo`), because no fence protects those.
* Left out: metrics, the publishing status copies, `renewOutboxClaim` (exported,
  never called), the scan limit of recovery.

`StageLifecycle` is what the stage records promise. Before the publication a
header finds its tablets (`UntornStageMatches`), and no integrity check fires for
the owner of the claim (`OwnerNeverCorrupt`; a put may meet the late tablet of a
former owner once, and the retry clears it). Both hold whatever former owners
commit late, except for a torn generation. After the publication everything is
cleaned up, and nothing before it (`CleanupExact`). What a torn header leads to is
the finding `outbox_torn`: `StageResumes` without the exception is false, and
`EventuallyPublished` has to except the entry. What is published is whole in any
case (`PublishedComplete`), since the digests of the tablets are compared and the
publication writes the claim record.

### OrderedPublication

What readers may rely on: entries are appended, and become visible in order,
each at once with the whole content of one plan, which then never changes.
`Outbox!Implements` checks that `Outbox` implements it under the mapping
`appended <- counter`, `published <- cursor - 1` and the content of an entry
`<-` the tablets applied under its generation.

### WriteBarrier

`withSharedWrite` and `withExclusiveWrites` of the store with the FIFO barrier
under them. A task is an asynchronous flow that makes one call; the lease of a
call carries the name of the task that acquired it, and a flow spawned by a
callback inherits the lease its parent runs under (`AsyncLocalStorage`). The
parent may await it or not, and the child may make its call at any time, also
after its parent returned: this is how the code meets stale leases.

Each action is a piece of code between two awaits. `Drain` is the whole
synchronous `drain()`, called at the end of every enqueue and every release;
`Run` is the later turn in which the promise of an admitted waiter resolves.
`Settle` (`settleWriteDescendants` finds nothing pending) and `Release` are two
steps because `await` gives up one turn of the event loop between them: flows
that join in this gap are the subject of the finding `barrier_gap`. What
callbacks write, and errors other than the refused upgrade, are left out (a
callback that throws ends its call in the same way).

### Retention

The life of a document version from its admission to the reclamation of its
tombstone. Clients admit, pin, lease, protect and renew; runners carry out
retention waves (`runRetention`) or redactions (`tombstoneDocument`). Two
runners are real: the maintenance loop of the daemon, an explicit request and a
redaction run in one process without excluding each other, they only share the
write barrier.

*Transactions.* rocksdb-js transactions are optimistic: a snapshot is read and
the commit fails, and the callback runs again, if a key it *writes* was written
since. What it only reads is not validated; hence the guard records
(`guards.js`) that decisions bump. The module models that: a transaction whose
decision rests on records it does not write is two steps, `Begin...` reads and
decides, `Commit...` applies the decision unless the transaction is `lost`;
`Writes` names its keys and every commit marks the open transactions it
conflicts with. `Lose` is the retry, `Fail` the end of the retries. Reads made
*before* the transaction (`initialManifest`, `initialCleanupManifest`) are kept
in `task` from `Pick` on, as they are in the code when the callback is retried.
Transactions that write every key they depend on are one step.

| Actions | Code |
|---|---|
| `BeginAdmit`, `CommitAdmit` | `commitCanonical` for one version: missing payloads, references, guards, tombstone of the prior version, first expiry entry |
| `BeginProtect` with `CommitPin`, `CommitLease`, `CommitRenew`; `Heartbeat`, `Unpin`, `ReleaseLease` | `pinDocument`, `createRetrievalLease`, `renewDocumentExpiry`, `protectEvidence`, ... |
| `Pick`, `Decision`, `Dismiss`, `Resume`, `BeginExpiry`, `CommitExpiry` | the loop of `runRetention`, `tombstoneDocument`, `beginExpiry` |
| `IndexDelete`, `Prune`, `Published`, `NotPublished` | what `publishDelete` waits for; index and pruning are `Outbox`'s |
| `CleanOwn`, `SkipShared`, `BeginUnshare`, `CommitUnshare`, `Complete`, `EndWave` | `cleanupCanonicalDocument`, one phase or one reference at a time, bounded by `StepsPerWave` |
| `ReclaimMetadata` | `cleanupExpiredTombstoneMetadata` |

How it is abstracted: a payload is a chunk, a source message or an auxiliary
manifest and knows the phase that removes it; records that belong to one
version only are one element of `kept` per phase. A wave may visit the entries
of the queue in any order (the code follows a persistent cursor). No process
remembers a version for the 30 days after which its tombstone is reclaimed
(`Forgotten`). The guard of a session that an index delete enqueued for a
superseded version bumps, and the guards a release bumps, are left out: they
only cause more retries. The branch of `runRetention` that drops an entry
without any manifest cannot be reached, because a copy of the manifest is
written with every delete entry. Further omissions are in `PROJECT.json`.

### Admission

How versions enter the archive: `putDetailed` of the archive client, which
looks for the head of its document, asks for a version and looks again after a
conflict; the two admission queues of the daemon; the reads of
`admissionSupersession`, `admissionExplicitSupersession` and
`admissionSubjectLive`; and the transaction of `commitCanonical`, for which
those reads are preconditions. The reads run outside the transaction, so each
is a step (`ReadHistory` to `ReadHolder`). The transaction is one step, and so
is each transaction of retention here: each of them writes the guard of every
version it depends on, so that of two that overlap one runs again. (`Retention`
models the two halves of such transactions.)

* The subject key, the explicit target and the time of creation of a payload
  are constants; text and other metadata are the identity of the payload. That
  a payload does not replace a version of its own document is an assumption
  (`ForeignTarget`): the code refuses it whatever the state is.
* Retention expires any version at any time, removes what an admission reads in
  the order of its phases, and at last reclaims the marker.
* `PassAudit`: a tombstone is reclaimed 30 days after its cleanup, and no put
  takes that long. This assumption matters. Without it TLC finds a put that
  read the idempotency marker of a version before retention began with it and
  commits after the marker of its successor was reclaimed.
* Left out: the migration gate, ordinals, the depth bound of a chain of
  replacements, and what the commit writes for the index and the expiry queue
  (`Outbox`, `Retention`). An outcome `bound` stands for a version above
  `MaxVersion`.

### DerivedView

The ordinal overlay of one project and the verification that makes it
authoritative for queries. Before the daemon serves, `ensureDerivedView` pages
through documents, markers, history and retirements; an older daemon, which
knows nothing of the overlay, may have written in between, also between two
pages (`OlderMayInterrupt`). A page of the upgrade and its transaction are one
step, because nothing else writes while a store is opened; a page of the
verification (`ReadDocuments`, `ReadMarkers`, `ReadTombstones`,
`ReadAssignments`) is read in several, between which the daemon admits and
retires.

`DriftReconciled`: a daemon serves only when every version has its ordinal and
a tombstone exactly if it is retired. `OrdinalsStable`: an ordinal is never
reused and the counts are those of the records. `CutoverVerified`: the cutover
is published over an overlay that is right at that moment. `MismatchesReal`:
what only looked wrong because it changed between two reads is forgotten.
An older daemon that interrupts an upgrade may write behind its cursor; what it
writes then (`behind`) is excepted from `DriftReconciled`, and everything else is
right in spite of it. `MismatchesReal` may err when such a document is there. The
three instances of the run `daemon` check both properties; without the exception
the property is `DriftDetected`, which is false (section 7).

### LexicalIndex, ExactPostings, ExactLookup

`LexicalIndex` is the BM25 index of one project: `Prepare` computes a plan from
the rows of the store, `Apply` writes it piece by piece under the next
generation, `Publish` exposes it; cleanup removes rows of retired versions, and
the upgrade rewrites the layout of postings while both go on. A search is a
function of the state, so `StatisticsExact` (the statistics of the published
generation are those of the versions it indexed) and `SearchExact` (exactly the
live versions with the term are found) are invariants. `NeverStuck`: no entry
meets a row its handler refuses for ever.

`ExactPostings` places the anchors of one document into bounded groups of
postings with folded aliases, and compares the result with a definition of what
must be found. `ExactLookup` scans them within its bounds on one snapshot, which
`Init` picks: a lookup that was not cut short missed nothing, and one that was
says so.

### StructuralIndex

What a session said last: its latest question, request, correction, answer or
decision. The rows of a document are written in one step, published in another
and cleaned a table at a time; a lookup runs in one snapshot
(`retrieval/search.js:1404`), so its answer is a function of the state, and the
invariants compare it with the documents themselves for each request of a small
set. `ShownExactly`: every shard that is needed is there, whatever has been
cleaned, and what is shown stands in the document where the answer says.
`NewestConsidered`: the bounds of a scan count living rows, so that dead ones or
the end of a page hide nothing. `AnswersTrue`: when the scan suffices, "not
found" means that nothing was said, and "resolved" that nothing outranks the
answer and no turn of unknown structure is newer. `DecisionsNewest`: the
decisions are the newest ones, those of the session first. `LocatedIfPossible`:
the one pass over the text, which falls back as Knuth, Morris and Pratt do, finds the
messages exactly if they can be placed in order.

Texts are sequences of words, and their limits count words: a word that a shard
cuts in two is not modelled. A request names the published generation. Decisions
have one excerpt each, since the handler reads only those below the limit of one.

### ArchiveSearch, SourceRanges

`ArchiveSearch` is one search, or one gather, at a time: candidates of each mode
(`Words`, `Semantic`, ...), fusion and the removal of near-duplicates, and then
for each candidate a lease, a second look at the document, and the locator.
Documents are published, superseded, expired and forgotten between any two of
these. `SearchSound` joins: the locators returned lead to a document while their
lease lasts, leases that are not returned are released, what was found and is
live is returned, results come tier by tier, and a gather names what it left
out. Documents that nearly repeat a better one are exempt (section 7).

`SourceRanges` is the only place where characters are modelled, because the
property is about bytes: chunks, windows, the range around a match, budgets, the
locators that continue it, and the clipping of what is shown to the budget of the
record (`Rendered`; the envelope is a constant, so that `room` is what it leaves).
A reader follows all locators. `RangesSound`: every range that is answered lies in
the text within the budget, at character boundaries; following the continuations
answers with the whole document (`ReadsOn`), if the budget holds the tokens of a
window or no blanks are between the tokens; what is shown of a range is a part of
it within its room, has the beginning of the match, and all tokens of a match
there is room for (`RenderedHold`). Clipping comes after the locators are
computed, so what is clipped is in no continuation: `WholeSeen` is false
(section 7).

### Watchdog, DaemonLog

`Watchdog` is the main loop with its counter, the worker that looks at it, and
the messages between them; the loop, the worker or both may stand still while
the clock goes on. `StallsReal`: what is logged as a stall was one, and once for
each. `StallsNoticed`: a loop that stands still under uninterrupted inspection is
reported. `RequestsKnown`: the worker knows the requests of the main thread when
it has read its messages, and logs nothing after it closed its log.

`DaemonLog` is the file that every launch appends to, at the grain of calls to
the file system. `OneAppends`: one process at a time, also after one that died
with the lock. `NewestKept`: the two files hold the last records, whole and in
order, wherever a process died. Both exempt a lock that was taken from a process
that works on (`stolen`; section 7). `SizeBounded` holds without exception.

### IndexScheduler

When the outbox is drained: one shared drain, a foreground admission that joins
it for a few waves, and one background pass started by an immediate, a retry
timer or a search. One action is one turn of the event loop; what the worker
does with an entry is `Outbox`. `OneTrigger`: no two triggers are armed
together. `ClosedIsQuiet`: nothing starts after `Closed`. `BacklogAttended`:
while entries are there, a pass runs or is armed, unless a failure was final or
the pass ended before it saw them. With the types the three are
`IndexingAttended`, which is proved. `EventuallyIndexed` and `PutsAnswered` are
the liveness: a backlog is worked off unless the daemon closes, a failure is final
(`refused`), or a pass ended without seeing an entry committed meanwhile
(`missed`), which waits for the next put or search.

### Maintenance, ProjectRedaction

`Maintenance` has one run at a time, and admissions, which also record the
emergency mode. `DeletionsRemembered`: keys deleted since the last compaction
stay in the count although a compaction was scheduled or failed. `ModeAgrees`:
the mode on disk is the remembered one while nobody writes it, except after two
flows wrote different ones at a time. Both are `MaintenanceRemembers`, which is
proved.

`ProjectRedaction` is a redaction of a session or a project in batches with a
cursor that the client carries, beside admissions, expiry and the index worker,
and the sweep that purges a project. `RedactionComplete`: an answer "complete"
means that every document of the scope that lived when it began is retired.
`NothingLeft`: a purged project stays empty until something is admitted.
The check of the purge (`Check`) iterates at most `ScanLimit` manifests of all
projects (100,000 in the code, `project-purge.js:36-37`), of which `Others` belong
to other projects and stand anywhere in the order of the keys; so it may overlook
documents of its own once there are more. `LiveRecordsKept`: the purge takes no
reference of a live document, except of one admitted between its check and its
sweep, or one the check did not come to (`overlooked`), and it comes to every one
unless the archive holds more than the limit. The three are `RedactionFinal`,
which is proved.

### DaemonServer, DaemonLifecycle, DaemonClient

`DaemonServer` is one server with its sockets: lines queue per socket, one runs
at a time, a table of outcomes makes a repeated request id idempotent, and a
budget limits the responses in memory. `OneExecution` (an id has one handler at
a time), `AnswersMatch`, `OutputAccounted` (the budget is kept and nobody waits
for what would fit), `PausedProgresses` (a paused socket will be resumed),
`StoreOpenInUse` (no handler works on a closed store), `IdleArmed`.

`DaemonLifecycle` is the processes behind one store: the lock that the kernel
releases, the socket file that stays behind, the workers that launch, replace
and restart a daemon. `OwnedByOne`: the store is open and the socket served only
under the lock. `SocketTakenByLoser`: a served socket is taken away only by a
process that was refused the lock. Both are proved (section 5).

`DaemonClient` is the synchronous bridge: a host that blocks until its worker
answers or a wait runs out, the worker, the connection and as much of the daemon
as decides what becomes of a request. `OwnAnswer`: a caller told of success is
told of its own request, which was executed. `EffectsInOrder`: no call takes
effect after a later one.

### EpochWindow

One Pi session: the branch of user turns with the entries the extension writes,
the memory that a crash takes, the archive. Preparing a request is a sequence of
steps each of which may fail before or after it took effect; then nothing is
sent. A turn has one tool result, above the base gate or between the two gates;
whether the tokens demand a rotation is a free choice.
`Recoverable`: what the model can no longer see can be recalled. `SentIsLeased`: a
request is sent when all it refers to was protected as far as the session can
know. With the types both are `NothingForgotten`, which is proved. `PrefixKept`:
within an epoch a result keeps the form it was shown in, across a restart too,
if the request that showed it was sent with a boundary and a cutoff that were
persisted. `HintHolds`: a shown hint is never replaced by another one while its
message stays in the window (`left`). `SentIsDurable` is the finding
`session_unsent`: it is what `PrefixKept` has to except.

### ArchiveProtection, CheckpointPublication

`ArchiveProtection` splits a context into shards with an owner each and replaces
them under failures. `KeptThroughout`: what was and stays in the context is
protected at every moment of a change. `NothingLeaks`: every owner in the store
is known to the archive or named in a handoff.

`CheckpointPublication` stores parts, roots and the publication, by content
address, by writers that crash and continue. `PublishedWhole`: a published
checkpoint can be read back whole. `ReadExact`: a root that can be read gives
the bytes of its source.

### SqliteArchive

One archive file, opened by clients with different limits and written by
processes of an older version, which know its first table only; triggers keep
the others in step, and the constructor repairs what an older file lacks. One
action is one transaction. `TablesAgree`: whoever wrote last, each document has
its place, its bytes, and either its messages or the note that it is old.
`ProtectedKept`: only older processes delete what is leased or the newest turn of
its session. `CapKept`: the archive grows only within the least limit of the
clients whose policy is alive. `PrunedRightly`: a prune takes what is recent or
recalled only when nothing else is left, reaches its target unless all that is
left is protected, and takes no more than it needs; a decision goes with its
turn. Search and its tables, statistics and vacuum are left out.

### Migration

The handover from SQLite to RocksDB: adapters that select a backend when they
start and then write SQLite, the operator's copy and verification, the daemon's
admissions with the gate read before the write barrier is taken, retention, and
crashes. `OneHistory`: while an adapter may write SQLite it owns the authority
and RocksDB has acknowledged no document. `ReadyIsCopied`: what is called ready
has every row of SQLite as it is now. `NothingLeftBehind`: the admission that
seals the authority leaves nothing behind in SQLite, unless the operator forgot
a writer (`strays`). `CheckpointCovers` and `ReplayIsStored`: checkpoints count
each row once, and a stored document is answered as stored when it is sent
again. All of them are proved (section 5).

### FrozenHints

For each user message one decision, frozen with the session and copied to those
that descend from it; a preflight queues behind the overlapping ones, searches,
decides and freezes in a transaction that conflicts only on keys both write;
corrections, removals and the sweep run at any time. `HintsAccounted`,
`NotRepeated`, `LeasesEnd`, `RevealedLive`, `FrozenStays` and `OneDecision` are
stated in the module.

### SemanticIndex, Reranker, Embedder

`SemanticIndex` has the vectors of one project: vectors and metadata are renamed
into place one after the other, a project with many dead vectors is rebuilt
beside the live one and swapped in, a purged one is removed. `LoadedWhole`: a
document that counts as embedded is whole, after one interruption. `AllServed`:
each live document has its vectors or is owed them. `ViewIsCurrent` and
`Accounted` say what a mapped file and the reported count are. `RemovedIsGone`: a
removed project is gone from the disk, unless a crash cut the removal short or the
project was being rebuilt meanwhile (`stranded`).

`Reranker` and `Embedder` are clients of a forked process and of a worker thread:
one action is one event. A call gets its own answer once, a process that timed
out too often is asked no more and its calls return (`RerankerSound`,
`Reranks`); a query is not overtaken by background work and no queue sleeps
(`EmbedderSound`, `Embeds`). Model inference is external.

## 4. Runs

| Run | Question | Bounds |
|---|---|---|
| `outbox` | order, wholeness, ownership, staging records, cleanup and pruning; refinement | 2 workers, 3 tokens, plans with 0, 1 and 2 tablets, 2 commits, history of 1, 2 faults |
| `outbox_torn` | finding: a worker that lost its claim writes its header beside the tablets of another | as `outbox` |
| `store` | the barrier: exclusion, counting, no lost wakeup, no overtaking; no nesting of shared and exclusive calls blocks for ever. The outbox: every commit is published after the faults stop | three parts: 4 flows; 1 worker, plans with 1 and 2 tablets, 2 commits, 2 faults; 2 workers, 1 plan of 1 tablet, 1 commit, 2 faults |
| `barrier_gap` | finding: a write joins a settled lease and runs beside an exclusive one | 4 flows |
| `admission` | one live version, one holder of a subject, one replacement of a version, no version admitted twice, every put ends | 2 clients, 3 puts of 5 payloads, 3 documents, 3 versions, 2 attempts, 1 restart |
| `retention` | protections and renewals win every race; an interrupted cleanup stays reachable; a shared chunk goes with its last owner, and nothing before the index delete | two parts: 1 version, 1 client, 1 wave, every operation; 2 versions sharing a chunk, 2 waves |
| `retention_reopened` | finding: a second wave reopens a completed cleanup | 1 version, 2 waves, 1 restart |
| `daemon` | the safety of the parts around the store | ten parts, below |
| `sessions` | the safety of what stands before the daemon | seven parts, below |
| `session_unsent` | finding: a request is sent with a boundary nobody persisted | as `window` below |
| `retrieval` | what is indexed and what is answered, and that nothing of a redacted project is | twelve parts, below |
| `live` | what must happen in the end; with one wave at a time the way back to a cleanup is kept | five parts, below |

The parts of the composed runs, each explored in full:

| Run | Part | Module | Bounds |
|---|---|---|---|
| `daemon` | `scheduler` | `IndexScheduler` | 2 requests, 1 foreground wave, backlog of 1, 1 fault |
| | `accounting`, `emergency` | `Maintenance` | 2 waves, 3 deletions, 1 growth, 1 fault; 1 admission, 4 levels of free space, 1 fault |
| | `server` | `DaemonServer` | 3 sockets of which 2 are let in, queue of 1, 1 remembered outcome, 2 active requests, 3 lines, budget of 4 units |
| | `view`, `purged`, `interrupted` | `DerivedView` | 1 document: 3 versions, 1 older daemon, 1 stop; 2 versions, 1 purge; an older daemon within an upgrade, 3 stops |
| | `handover`, `replays` | `Migration` | 1 adapter, 3 rows, batches of 2, 1 write, 1 forgotten writer, 1 fault, 1 crash; 2 requests, 2 executions, 1 row, 1 crash |
| | `watchdog` | `Watchdog` | threshold 2, longest gap 3, samples 2 apart, 7 units of time, 1 request |
| `sessions` | `window` | `EpochWindow` | 3 turns of which 1 is retained, 2 hints, 1 fault, 1 crash |
| | `protection` | `ArchiveProtection` | 3 documents, shards of 1, 3 changes, 1 fault |
| | `catalogue` | `CheckpointPublication` | 2 checkpoints, 2 writers, 2 attempts, 1 fault, 1 lost document |
| | `bridge` | `DaemonClient` | 4 calls, 2 waits that run out, 1 fault, 3 processes |
| | `launch` | `DaemonLifecycle` | 2 processes, 2 workers, 1 crash |
| | `sqlite` | `SqliteArchive` | 2 turns and a decision of one session, clients with limits 3 and 2, 2 calls, 1 lapse, 4 places |
| | `log` | `DaemonLog` | 2 processes, files of 2 records, 5 records, 2 locks that get old, 1 fault |
| `retrieval` | `versions`, `documents` | `LexicalIndex` | 1 document with 2 versions and 2 terms; 2 documents and 1 term |
| | `anchors`, `exact` | `ExactPostings`, `ExactLookup` | every text of a few anchors; 2 documents |
| | `structural` | `StructuralIndex` | 3 documents of 7, 4 lookups, pages of 2, 3 living and 5 rows of a scan, shards of 2 words |
| | `hints` | `FrozenHints` | 2 sessions, 2 messages, 1 document, 2 calls |
| | `search`, `ranges` | `ArchiveSearch`, `SourceRanges` | 3 documents, limit of 2; every text of a few characters, 4 budgets of tokens and of room |
| | `vectors`, `reranker`, `embedder` | `SemanticIndex`, `Reranker`, `Embedder` | 2 documents, 1 rebuild, 1 purge, 1 fault, 2 crashes; 4 requests, 2 processes; 2 queries, 2 batches |
| | `redaction` | `ProjectRedaction` | 2 documents of 2 sessions and 1 manifest of another project, scan limit of 2, batches and pages of 1, 1 crash |
| `live` | `retention`, `scheduler`, `server`, `reranker`, `embedder` | as named | 2 versions, 1 wave, 2 restarts; otherwise as above or smaller |

For the outbox, two workers and two faults give a takeover and a second failure of
the successor; three tokens are one per worker and one in the record; plans
with zero, one and two tablets give every pairing of an abandoned attempt and a
retry (fewer, as many and more tablets, or none); two commits with a history of
one make pruning reach the predecessor of the entry being published. The parts of
`store` split what liveness needs: with one worker a retry may prepare another plan
than the one that was staged (a restart or a failure between any two steps), with
two a claim is freed by its lease alone. Deadlock
checking is off wherever the work is finite: the system then rests.

For retention, one client and one wave already race in every order, since each
of their transactions is open for any number of steps. The two versions share
one payload, the smallest case in which a reference, but not the payload, must
go. `WaysBackKept` is `CleanupReachable` for one wave at a time: an invariant of
`live` (two versions, two restarts) and a conjunct of `ProtectedStay` in
`retention` (every operation of a client and of a wave). For two waves it is
false, which is the finding `retention_reopened`.

Four flows of the barrier make every pair of calls run, wait behind a third, or
join a fourth. For admission, the three documents share a subject. The five
payloads are two texts of one document, the second of which drops the subject; a
second document that replaces the first version of the first; a third that
replaces the second one (a chain); and a rival that claims the subject and
replaces nothing. Three puts are two that race and one before or after them. The
client makes four attempts; two give every pairing of a conflict with what is
done about it.

In the composed runs one fault and one crash suffice for "fails between any two
steps, then goes on": the code keeps no count of failures except where a bound of
its own is modelled (attempts, foreground waves, timeouts of the reranker).
Five records are two rotations and one more, so that a process can die in a second
one; three documents are more than either limit of `sqlite`; the limits of a scan
in `structural` are all smaller than what three documents can fill.
The instance `interrupted` lets an older daemon in between two steps of an upgrade,
which `view` and `purged` do not; the same properties are checked of all three. In
`redaction` the scan limit is the number of documents of the project, so that one
foreign manifest makes the check overlook one. For the window the bounds keep the
run short; `PrefixKept` and `HintHolds` were also
checked with 4 turns, 3 retained and 3 to a rotation, and with 3 crashes, where
unqualified forms of them fail.

### Fairness

`Outbox` (`store`): every worker keeps taking steps and leases expire. The code justifies it
by `continueIndexing` and `scheduleIndexRetry`, which drain again after
admissions, restarts and retryable errors; an error that is not retryable waits
for the next admission or restart, which the finite number of faults abstracts.

`WriteBarrier` (`store`): every flow that can go on does. `Admission`: the daemon answers
and a client goes on with its attempts while both run; nothing is assumed of
retention or of new puts.

`Retention` (`live`): transactions end, a wave that began goes on, and each due
entry is picked again and again (strong fairness: the entry may leave the due set
and a wave may be busy with another one; the persistent cursor brings the
maintenance loop, a timer that is never cancelled, back to each). The index
worker publishes the delete entry (`store`); nothing is assumed about when the
outbox prunes its record.

`IndexScheduler`, `DaemonServer`, `Reranker`, `Embedder` (`live`): handlers that
run go on, timers and immediates fire, leases of a dead process expire, and a
process or worker answers or exits. Nothing is assumed of clients: no new
request, line or search. A socket's peer reads (`Flush`) only while the server is
up, since a draining one has a deadline (`DrainDeadline`).

## 5. Proofs

What is said about `every` here is for all values of the constants.

### OutboxProofs

`OutboxProofs` proves, for every set of workers, plans and tokens and every
bound: `TypeOK`, `PublishedInOrder`, `SingleOwner`, `HeadClaimable`,
`ProcessedMeansVisible` and the action property `PublicationStable`.

The inductive invariant `IndInv` is needed because none of them is inductive.
A worker that publishes moves the cursor by one only if the entry it owns is
the one at the cursor; an owned entry is at the cursor only because entries
ahead of it were never claimed and entries behind it are processed or pruned
(`StateInv`); pruning stays behind the cursor because a cleanup belongs to a
published entry (`LocalInv`); generations are numbered like entries because
the generation counter advances only with a first claim (`QueueInv`,
`GenerationInv`); and two owners are one because tokens are fresh
(`TokenInv`). Most steps touch neither the queue nor a claim (`QuietStep`,
`QuietFrame`); the seven that do have a lemma each.

Assumptions: the named `ASSUME`s of `Outbox` (a history and a queue of at least
one, plans with finitely many tablets, distinct null values).

On top of `IndInv`, what is staged and applied: `PublishedComplete`,
`StageLifecycle`, and the refinement `Implements` of `OrderedPublication`, in the
second half of the module. `PublishedComplete` says that a published entry shows
every tablet of one plan.
The plan is a worker's memory, the header of the stage, its tablets and the
markers of those applied are on disk, and another worker may take over with
another plan under the same generation, while transactions the former owner has
begun still commit. `StageInv` ties them together, in six parts.

* `RecordInv`: each generation before the cursor is settled (what was applied is
  the whole of what was exposed, and what is left of its stage is what a cleanup
  has not reached), each from the cursor on is pending (a ready marker means that
  all tablets of the header are applied; the header finds its tablets, unless the
  generation is torn).
* `OpenInv`: what an open transaction still knows of the record it is to write.
  Nobody has written it since the begin, or the transaction would have been
  cancelled: that is all the protection a stage transaction has.
* `ApartInv`: a tablet is not put while the same tablet is applied.
* `ReaderInv`: what a worker read stays true until the publication, although it
  lost its claim: the header it resumed, and that its tablets agreed.
* `OwnerInv`: up to the header the owner of the claim finds no marker applied and
  none about to be; what it cleared stays cleared and what it put stays put. Here
  the torn generations enter: a former owner that had come to its header may still
  commit it.
* `CleanerInv`: cleaners work behind the cursor, possibly several at once.

Publication is safe without knowing who wrote the header: `agree` and the ready
marker compare what was applied with it, and `Publish` writes the claim record.
For the refinement, `OutboxImplementsLog` shows that `Publish` by the owner
appends exactly one entry to the published ones, with the content of one plan,
and that every other step leaves the abstract state alone.

### RetentionProofs

For all documents, payloads, clients and waves, any number of waves at once
included: `TypeOK`, `OwnersAgree`, `DeletionOrdered` and `ProtectionHonoured`; and
with one wave at a time `WaysBackKept`.

None is inductive, because transactions commit what an earlier snapshot told
them. `SnapshotInv` says what is still true of the snapshot of a transaction that
is not `lost`, and it is here that the conflict guards of `guards.js` are
needed: the lemmas `PayloadGuarded`, `ExpiryGuarded` and `CleanupGuarded` show
that whatever would make such a snapshot untrue writes a key the transaction
writes too, and so marks it lost. `DocumentInv` ties the records of a version to
its tombstone and the progress of its cleanup: all of it is there (`Whole`), or
none (`Gone`), or what the phases passed so far were for is gone (`Passed`).
`WaveInv` is the weak part on purpose: what a wave at a cleanup may rely on
although another one may have finished the same cleanup, and opened it again.
That includes the state behind the finding `retention_reopened`: a reopened
cleanup is harmless for the bytes (`OwnersAgree`, `DeletionOrdered` hold), it is
only unreachable.

`WaysBackKept` is about an interrupted cleanup: nothing but an entry of the expiry
queue leads back to it, and entries are dropped as stale when they do not name
the latest expiry of their version. `BackInv` says that the entry of the latest
expiry is there (`WayBack`), and that a version nobody began to clean up has the
marker its entry is compared with (`Begun`). The entries are dropped by waves, so
the rest is about the only wave: the entry it holds and what it read of its
candidate are still true when it decides (`Holding`, `Deciding`), since nobody
else begins or finishes a cleanup. With two waves one reads a cleanup that the
other finishes and opens it again after its entry is gone: the finding
`retention_reopened`.

Assumption: `RetentionAssumption`. Only model-checked: `Reclaimed` (liveness).

### WriteBarrierProofs

Proves every safety property of the barrier for every set of flows (it need not
be finite): `TypeOK`, `LeaseExclusion`, `NoLostWakeup` and the action
properties `NoOvertaking` and `Settled`.

`LeaseExclusion` and `NoLostWakeup` speak of the counter, the queue and the
progress of the flows, and the step that could break them is `Drain`, which
grants any number of waiters at once. So the argument has two halves. About
`Drain` alone: the positions it admits are the first `c` of the queue
(`DownwardClosed`, `AdmittedShape`, `DrainShape`); `c` distinct waiters are `c`
tasks (`DistinctCount`); hence, from consistent books and an orderly queue, it
leaves consistent books, an orderly queue and nobody waiting in vain
(`DrainKeeps`), and it grants nobody without those in front (`GrantOrder`).
About the steps: `IndInv` adds to the books that every waiter is queued once
(or a grant would count twice), that an active lease belongs to a flow that
runs or leaves under it (or a flow that joins could become a holder), and that
a flow that joined is registered with its lease until it returns (what
`settleWriteDescendants` relies on). One lemma per action shows that it
establishes the premises of `DrainKeeps` or leaves the books alone
(`SameHolders`, `SameQueue`).

Assumption: `TaskAssumption` (the null value is not a flow). Only
model-checked: `EveryCallReturns` (liveness), and the violated
`WritesExcluded`.

### AdmissionProofs

Proves every safety property of `Admission` for every set of documents,
subjects, clients and payloads and every bound: `TypeOK`, `OneLiveVersion`,
`SubjectResolves`, `OneReplacement`, `ForgottenIsRetired` and the action property
`NeverReadmitted`.

None of them is inductive, because a commit acts on what was read long before.
`IndInv` says what remains of it. A *call* knows (`CallInv`) that its version is
at most one above the highest; that its request was committed before
(`Replayed`) or its version follows the ledger it read (`Followed`); that the
version below its own is not live or will be superseded by it
(`PriorSettled`); and that the holder of its subject is its target, its own
document or dead (`HolderSettled`). Nothing the others do takes this away
(`Progress`, `CallStable`): the ledgers only grow, a version at or below the
highest never comes back, and a request is forgotten only after its version
has a tombstone. The *records* agree (`DataInv`): retention works on versions
with a marker, what a stored version replaced is dead, and the holder of a
subject was admitted. `CommitsSuccessor` is the centre: what passes the checks
of the transaction has the version after the highest one. It could only have
the highest itself if the ledger had forgotten that version or had lost the
marker of its request, which `ForgottenIsRetired` and `StoredInv` exclude.
`CommitsLive` and `CommitStep` derive the properties from it; each read, phase
of retention and step of a queue has a lemma of its own.

Assumptions: `AdmissionAssumption` and `ForeignTarget` of `Admission`. The
period of `PassAudit` enters through `Replayed`. Only model-checked: `PutsEnd`
(liveness).

### MigrationProofs

Proves every safety property of `Migration` for every set of adapters,
requests and executions and every bound: the types, `OneHistory`,
`ReadyIsCopied`, `CheckpointCovers`, `ReplayIsStored` and the action property
`NothingLeftBehind`.

An admission decides in a snapshot (`Gate`) and commits later, so the proof is
about what cannot change in between. RocksDB never loses the authority
(`RocksStays`); so what the marker of a stored request holds is what the records
still say of it (`MarkerInv`), and an execution of that request plans just that
(`Replays` in `ExecInv`), whatever happened to the authority since. What an
execution may write otherwise is the first authority of an empty archive or a
seal; `CommitCases` shows from the preconditions of the commit that the former
finds no migration and the latter finds the checkpoint its gate read. Why that
checkpoint still describes the files is `ReadyInv`, relative to who owns the
authority and to forgotten writers: rows change only under SQLite's authority
(`RowsStay`), it leaves SQLite only when a copy starts (`SqliteStays`), which
takes the readiness back, and what a complete copy put into RocksDB stays until
the seal (`CopiedStays`). `CopyInv` relates the checkpoint to the memory of the
copy that is running, at every place where a crash may stop it.

Assumption: `MigrationAssumption`, a hypothesis of each theorem (at least one row;
the null value is no record, seal or request); the runs evaluate it on both
instances in `MCDaemon`.

### DaemonProofs

Three parts of the daemon process with an invariant each.

*Scheduling.* Proves the types, `OneTrigger`, `ClosedIsQuiet` and `BacklogAttended` for every
set of requests, any backlog at the start and any number of failures.

`BacklogAttended` is not inductive: it says that somebody will see to the
entries, not who. A retention wave ends without asking for a pass
(`AnswerDelete`), and may do so only because its own entry is published; the
other entries must be someone else's. So `BacklogInv` has every entry from the
cursor on worked on by the request that committed it, or all of them left to a
pass or to a trigger. A request that is answered turns the former into the latter
(`Schedules`); the worker only moves the cursor towards the entries
(`WorkingFrame`). The other turning point is the end of a pass (`SettleStep`): it
leaves a timer or an immediate behind (`Retries`), was final, or saw no entry,
and a put whose drain failed may be answered before the pass is over
(`SettledRequests`) only because the pass is still there to leave the trigger. The
bound of the number of entries is an invariant too (`CountInv`: one for each
request that began).

Assumption: `SchedulerAssumption` (finitely many requests, numbers), a
hypothesis of each theorem that `MCDaemon` evaluates.

*Maintenance.* Proves `MaintenanceRemembers` (the types, `ModeAgrees` and
`DeletionsRemembered`) for every number of admissions, waves and failed writes,
every level of free space and every threshold.

Neither is inductive, as both speak of rest only. `ModeInv` follows the flows that
record the emergency mode through their steps: unless two wrote different modes
(`crossed`), those that write agree, one that has written finds its mode on the
disk, and otherwise the disk holds what is remembered. For the count,
`AccountInv` bounds what the run in progress adds to it, and `OwedInv` says that
keys deleted since the last compaction are counted, in the finished runs or in
the one in progress, and what is left of them whenever the sizes that RocksDB
reports show the one that was asked for to be over. The count is reduced by that
report only (`AccountStep`, `CompactStep`), by the keys of the request, and
`ReclaimedGrows` shows that writes and further deletions cannot make the report
look as if a compaction had happened.

Assumption: `MaintenanceAssumption` (the run is no admission, numbers, a wave at
least), evaluated on both instances of `MCDaemon`.

*The processes behind one store.* Proves the types, `OwnedByOne` and the action
property `SocketTakenByLoser` for every set of processes and workers and any number of crashes.

The invariant says of each process alone what its step implies (`OwnerInv`):
from the lock to its release a process that did not fail owns the lock; only
then it has the store, or listens. A process that failed may or may not own the
lock, and that is the case the proof turns on: one that was refused it goes
through the same `releaseResources` as one that failed later. `OwnerFrame`
reduces each step, the signals of workers included, to one process and to a lock
that passes only from nobody or to nobody. `WorkerInv` is what makes a signal
one to a real process: between connecting and signalling a worker remembers a
daemon it once reached.

Assumption: `LifecycleAssumption` (the null value is no process, the old ones are
processes, a bound), a hypothesis of each theorem that `MCSessions` evaluates.

### RedactionProofs

Proves `RedactionFinal` (the types, `RedactionComplete`, `NothingLeft` and
`LiveRecordsKept`) for every number of documents, every batch and page size and
any number of crashes.

The limit of the purge's check and the number of foreign manifests are any numbers.

`RedactionComplete` is what must be true at the end of a walk over any number of
requests, each a batch, made of pages, each of which may be the last thing before
a crash. `WalkInv` says where the documents still to be retired are at each step:
beyond the cursor; while a page is worked on, in it or, if it was full, behind it.
A page is a prefix of what follows the cursor (`PageIsPrefix`), so a document is
never jumped over. The walk finds documents by their references, so it leans on
`LiveInv`: what is live has its reference, or was admitted after the check of a
purge (`exposed`), or was beyond the limit of that check (`overlooked`, which is
empty unless more manifests are stored than it reads), since the check refuses a
project in which it sees a live document, and the sweep takes only references.
`QuietInv` and `SweptInv` are the purge: as long as only it and the index worker act, the drained outbox stays empty and so does
each keyspace that was swept; the worker could write statistics again only for
an entry that the drain would have seen.

Assumption: `RedactionAssumption` (finitely many documents, numbered in the order
of their keys, at least one), evaluated by `MCRetrieval`.

### EpochWindowProofs

Proves `NothingForgotten` (the types, `Recoverable` and `SentIsLeased`) for any
number of turns, failing calls, crashes and navigations, and every size of the
window and of the table of contents.

`Recoverable` speaks of the session as it is now, but a session that restarts,
or goes back in the tree, takes its boundary and its table from an entry written
long before, when another branch followed. So the invariant is about every entry
of the branch: its state was right for the entries up to its own (`StatesOK`),
and of two compactions the later one drops at least as much, all of which is in a
checkpoint (`CompactionsOK`). `Fit` is what a memory restored from there
satisfies. `StoredBefore` is the weakest true thing about a turn before a
boundary: it is in the archive, or a compaction dropped it; the boundary may
outlive the compaction. `JobInv` is about the request in preparation: what leaves
the window is stored before the boundary moves, what is shown as a preview stays
stored until it is sent, and the protection that was refreshed covers all that
is named then, whatever failed in between.

Assumption: `WindowAssumption` (the bounds are numbers), evaluated by
`MCSessions`.

### What stays with TLC

* Liveness: `EventuallyPublished`, `EveryCallReturns`, `PutsEnd`, `Reclaimed`,
  `DaemonProgresses`.
* Of `EpochWindow`, `PrefixKept` and `HintHolds`: action properties over the text of
  two requests, checked on the instances of section 4.
* `DaemonServer` (`ServerSound`): its budget and its table of outcomes are computed
  with folds, whose value for every input would need induction over data.
* `DerivedView` (`DerivedViewSound`) lists its documents with `SetToSortSeq`, which
  is chosen by its properties; that the choice exists is again an induction.
* `Watchdog`, the rest of `sessions` (but `DaemonLifecycle` and `EpochWindow`), and
  the rest of `retrieval` (but `ProjectRedaction`) were not taken on.
  `StructuralIndex` and `ExactLookup` compute with recursive operators, which are out of TLAPS' reach.

## 6. Not modelled

* Protocol, contract and schemas (`store/store-contract*.js`), configuration,
  presentation, identity: parsing, validation and hashing without state.
* Ranking (BM25 scores, importance, simhash distances, fusion weights), the
  tokenizer: what is found is modelled, its order only by tier, save that of
  `StructuralIndex`. Model inference.
* Of the SQLite archive search, gathering and traversal, statistics and vacuum; of
  the watchdog the format of its log and the program that takes a sample.
* Of `extensions/pi.ts` only the event handlers that drive the epoch window; the
  tools and commands, and `bin/`, are left out, except the start of the daemon
  (`DaemonLifecycle`).
* RocksDB itself. A transaction that decides by a record it does not write is two
  steps, a begin and a commit (`Retention`, and the stage transactions of `Outbox`);
  one is a single step where it writes the records it decides by, or their guards
  (`Outbox.Publish` and the other transactions on the claim record, `Admission`).

Some modules define properties that no run checks: `NoLiveRecordPurged`,
`RedactionEnds`, `PostingsDeleted`, `ContextProtected`, `EmergencyRecorded`,
`TriggerStaysArmed`, `CompactionRequested`, `SentIsProtected`, `EmptyStaysEmpty`,
`SettledArchived`, `SocketTakenByLoser`, `ServingReachable`, `ClosesInPeace`,
`DuplicateAnswered`, `LatchedForCause`, `NothingMissed`, `DriftDetected`, `WholeSeen`.
Most are statements that
the code does not keep, and belong to the next section; the others
(`RedactionEnds`, `EmergencyRecorded`, `CompactionRequested`,
`SocketTakenByLoser`) hold on the instances of their modules and are left out of
the runs for time; the last one is proved.

## 7. Where the code and its words differ

Four disagreements have a run of their own that shows them: `outbox_torn`
(`outbox.js:831`), `barrier_gap` (`store.js:764`), `retention_reopened`
(`retention/expiry.js:197`) and `session_unsent` (`session/epoch-window.js:425`);
`PROJECT.json` quotes the statements. The following were met while modelling. The
named properties are violated when added to the run of their module; where none is named the model
follows the code.

* Outbox. `StageResumes` (`outbox_torn`): the claim is only read in the transaction
  that puts a header, so a worker whose claim passes to another one between its
  check and its commit puts its header beside the tablets of the new owner. A stage
  with a header is never cleared (`clearOrphanStageRecords` runs only without one),
  so the entry at the head fails on each retry. `StageLifecycle` and
  `EventuallyPublished` except such a generation, and only it.
* Admission. A put repeated after another one superseded its version is answered
  by a conflict instead of the version it stored (`DuplicateAnswered`).
* Retention. `documentVersions` may protect a stale version from its cache
  (`archive/daemon-archive.js:1271`). The waves of the daemon take an index delete
  for published when its outbox record says so (`operations.js:1248-1258, 1291`);
  once enough later entries are published the record is pruned, and a cleanup that
  is resumed after that stops for ever, although `isOutboxSequenceProcessed` of the
  library would answer from the cursor. `Reclaimed` excepts exactly that.
* Index scheduling. `NothingMissed`: a pass that read an empty outbox and whose
  promise is pending hides an admission from `scheduleIndexing`
  (`daemon/operations.js:462`), although a wave relies on the background worker
  (`operations.js:1263-1265`). This is why `BacklogAttended` and
  `EventuallyIndexed` except entries that a pass did not see.
* Maintenance. A failing wave loses the deletions it counted
  (`TriggerStaysArmed`; `DeletionsRemembered` exempts them); the baseline of a
  pending compaction may never disarm; an admission and the run may write
  different emergency modes at a time (`crossed`, which `ModeAgrees` exempts).
* Project purge. A document admitted between the check and the sweep loses its
  records, and so does a live one behind the first 100,000 manifests of all projects,
  which are all that the check reads (`NoLiveRecordPurged`,
  `project-purge.js:36-37`, against the refusal that lines 72-74 promise).
* Derived view. What an older daemon admits or retires during an unfinished upgrade,
  behind its cursor, is drift that nothing reconciles, since the upgrade goes on from
  the cursor and calls the outbox covered when it ends (`DriftDetected`,
  `derived-view.js:890`; `docs/rocksdb-archive/architecture.md:104` promises that the
  next current daemon detects it).
* Lexical index. Postings of a deleted version outlive its cleanup
  (`PostingsDeleted`; `docs/rocksdb-archive/retention.md:33` and
  `rocksdb/derived.js:40`).
* Exact lookup. Candidates that materialize to nothing suppress the fallback to
  folded terms.
* Search. Near-duplicates are dropped before the second look: if the one that was
  kept is retired meanwhile its live twin is not returned. Leases of neighbours a
  gather does not show stay until they expire. A lease may be taken for a version
  whose manifest is gone.
* Recall. `docs/rocksdb-archive/retrieval.md:179` promises continuation locators
  when adjacent evidence does not fit. What is shown is clipped to the budget
  (`render.js:217-265`) after the locators were computed from the range of the
  answer (`recall.js:547`); what was clipped is in none of them (`WholeSeen`). And
  with a budget below the 900 tokens of a window (`windows.js:10`; budgets from 39 are
  accepted, `render.js:18`) a continuation may cover blanks only and lead to itself
  for ever, so that `ReadsOn` is stated for larger budgets and for texts without
  blanks.
* Server lifecycle. A daemon that lost the lock may remove the socket of the one
  that owns it (`ServingReachable`, `server.js:535`); a slow close is killed by
  the second signal of a worker (`ClosesInPeace`, `daemon-client/worker.js:104`);
  the forced fallback of `restartDaemon` is unreachable (`worker.js:479`).
* Bridge. A call whose wait ran out may take effect after the caller was told
  that it failed (`sync-bridge.js:102`).
* Session. A turn whose timestamp equals the checkpoint's is never archived
  (`SettledArchived`, `epoch-window.js:1655`); `EmptyStaysEmpty`
  (`epoch-window.js:1142`); a request may be sent when protection has lapsed in the
  store (`SentIsProtected`); a passing failure of a verification at restore drops
  the protection of a compaction (`epoch-checkpoint.js:201`). The prefix that
  `README.md:67, 73, 78` call stable has two exceptions, and the properties name
  them. `PrefixKept` excepts what was sent with a boundary or a cutoff nobody had
  persisted (`session_unsent`): a crash takes the boundary back, and a later
  rotation to the same turn may carry over results that were shown whole.
  `HintHolds` excepts a message that left the window since it was sent: its frozen
  hint is removed, and when a step back in the tree or a lost boundary brings it
  back it is asked about anew.
* Archive protection. A shard that fails midway leaves part of a new context
  unprotected (`ContextProtected`, `daemon-archive.js:1369`).
* SQLite archive. `refreshPolicyLease` renews the row of the limits but not the
  leases on documents, which last 24 hours, and an unchanged context calls nothing
  else (`session/epoch-window.js:551`). A put that is refused rolls the renewal
  back but not the memory of it (`nextPolicyRenewalAt`, `archive.js:536`), so that
  the limit of a client may be missing from the table for an hour.
* Launch log. Two processes that find the lock of a dead one may both remove it,
  the second one that of the first (`daemon/log-file.js:187`); `OneAppends` and
  `NewestKept` exempt what follows (`stolen`).
* Watchdog. A stall is reported again after a gap in the inspections, and a sleep of
  the machine between the threshold and the longest gap looks like one.
* Structural index. A lookup in a project or in all of them scans session after
  session in the order of their names, so that its bound of 10,000 rows may leave
  out the newest (`index/structural.js:473`); decisions have keys in the order of
  time for this. `AnswersTrue` is stated for scans that suffice.
* Vectors. After two crashes other vectors of the same number may meet old
  metadata (`semantic/index.js:432`); a removal during a rebuild is undone by its
  final rename (`semantic/index.js:832`), and one that a crash cuts short is not
  taken up again, although `semantic/index.js:826-830` and `operations.js:1453-1456`
  promise that a purged project keeps no vectors; this is why `LoadedWhole` and
  `RemovedIsGone` have their exceptions.
* Reranker. The idle timer closes a client with a request in flight, which counts
  as a failure of the model (`LatchedForCause`, `semantic/reranker.js:250`).
