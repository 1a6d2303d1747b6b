---------------------------- MODULE DerivedView -----------------------------
(***************************************************************************)
(* The ordinal overlay of src/rocksdb/derived-view.js for one project: the *)
(* numbers and tombstones that admissions and retention write, the upgrade *)
(* that every open resumes or starts over (ensureDerivedView), and the     *)
(* verification that ends in the query cutover (verify-cutover in          *)
(* src/rocksdb/posting-storage-maintenance.js).                            *)
(*                                                                         *)
(* An older daemon may serve the store in between, which writes manifests, *)
(* markers and outbox entries but no overlay.  While the store is opened   *)
(* nothing else writes to it, so that the reads of a page of the upgrade   *)
(* and its transaction are one step.  A page of the verification is read   *)
(* in several steps, between which the daemon serves.                      *)
(***************************************************************************)
EXTENDS Integers, Sequences, FiniteSets, SequencesExt

CONSTANTS
    Doc,             \* 1..n, in key order
    MaxVersion,      \* bound: versions of a document
    PageSize,        \* BACKFILL_PAGE_SIZE, and the limit of maintenance
    OlderMayInterrupt,  \* TRUE: an older daemon may serve a store whose upgrade is unfinished
    MaxOlder,        \* bound: openings by an older daemon
    MaxStops,        \* bound: crashes and closings
    MaxPurges        \* bound: purges of the project

Version == 1..MaxVersion
Key == Doc \X Version
Start == <<0, 0>>

VARIABLES
    manifest, marker,   \* sets of keys
    history,            \* [Doc -> [highest, retired]]; highest = 0: none
    outbox,             \* the counter
    ordinal,            \* the reverse assignments: the key of every ordinal
    assigned,           \* [Key -> its ordinal, or 0]
    retiredOnly,        \* keys assigned without a session
    tombstone,          \* set of ordinals
    active,             \* the manifest of the project, or NoActive
    view,               \* the upgrade state
    runtime,            \* "down", "older", "opening", "current"
    fresh,              \* the store has never been opened
    migration,          \* the state of the posting storage migration
    cutover,            \* the query cutover is published
    tick,               \* the page of the verification being read
    olders, stops, purges,
    behind              \* keys an older daemon wrote while an upgrade was unfinished

canonical == <<manifest, marker, history, outbox>>
overlay == <<ordinal, assigned, retiredOnly, tombstone, active>>
bounds == <<olders, stops, purges, behind>>
vars == <<canonical, overlay, view, runtime, fresh, migration, cutover, tick, bounds>>

NoActive == [admitted |-> -1, tombstoned |-> 0]
NoView == [status |-> "none", phase |-> "documents", after |-> Start, within |-> 0,
           watermark |-> 0]
NoTick == [step |-> "idle", page |-> {}, marked |-> {}, bad |-> FALSE, last |-> FALSE]

Init ==
    /\ manifest = {} /\ marker = {}
    /\ history = [d \in Doc |-> [highest |-> 0, retired |-> 0]]
    /\ outbox = 0
    /\ ordinal = <<>>
    /\ assigned = [k \in Key |-> 0]
    /\ retiredOnly = {} /\ tombstone = {}
    /\ active = NoActive
    /\ view = NoView
    /\ runtime = "down"
    /\ fresh = TRUE
    /\ migration = [side |-> "none", after |-> Start, high |-> 0, bad |-> FALSE]
    /\ cutover = FALSE
    /\ tick = NoTick
    /\ olders = 0 /\ stops = 0 /\ purges = 0
    /\ behind = {}

Live(k) == k \in manifest /\ k \notin marker
ProvedRetired(k) == k[2] <= history[k[1]].retired

Before(a, b) == a[1] < b[1] \/ (a[1] = b[1] /\ a[2] < b[2])

\* store.scan(prefix, { limit, after }).
PageOf(keys, after, size) ==
    LET rest == {k \in keys : Before(after, k)} IN
    {k \in rest : Cardinality({j \in rest : Before(j, k)}) < size}

LastOf(page) == CHOOSE k \in page : \A j \in page : ~Before(k, j)

\* What advanceDerivedViewManifest insists on.
WellFormed == active = NoActive \/ active.tombstoned <= active.admitted

\* One transaction assigns ordinals to the keys in "new", marks the ordinals in "dead".
Overlay(new, dead) ==
    LET added == Cardinality(new)
        marked == Cardinality(dead \ tombstone)
        none == active = NoActive
    IN  /\ WellFormed
        /\ ordinal' = ordinal \o SetToSortSeq(new, Before)
        /\ assigned' = [k \in Key |-> IF k \in new
                          THEN Len(ordinal) + 1 + Cardinality({j \in new : Before(j, k)})
                          ELSE assigned[k]]
        /\ tombstone' = tombstone \union dead
        /\ active' = IF new = {} /\ marked = 0 THEN active
                     ELSE [admitted |-> (IF none THEN 0 ELSE active.admitted) + added,
                           tombstoned |-> active.tombstoned + marked]

NumberOf(k, new) ==
    IF k \in new THEN Len(ordinal) + 1 + Cardinality({j \in new : Before(j, k)}) ELSE assigned[k]
-----------------------------------------------------------------------------
(***************************************************************************)
(* Canonical writes, by the current daemon with the overlay and by an      *)
(* older one without.                                                      *)
(***************************************************************************)
AdmitRecords(d, v) ==
    LET replaced == {k \in manifest \ marker : k[1] = d} IN
    /\ v = history[d].highest + 1
    /\ manifest' = manifest \union {<<d, v>>}
    /\ marker' = marker \union replaced
    /\ history' = [history EXCEPT ![d] = [highest |-> v, retired |-> v - 1]]
    /\ outbox' = outbox + 1

\* The upgrade state follows the outbox only in the hands of the current daemon.
Advance == view' = [view EXCEPT !.watermark = outbox + 1]

\* commitCanonical.
Admit(d, v) ==
    /\ runtime = "current"
    /\ AdmitRecords(d, v)
    /\ LET replaced == {k \in manifest \ marker : k[1] = d} IN
       /\ \A k \in replaced : assigned[k] # 0      \* "has no ordinal" refuses the admission
       /\ Overlay({<<d, v>>} \ {k \in Key : assigned[k] # 0}, {assigned[k] : k \in replaced})
    /\ Advance
    /\ UNCHANGED <<retiredOnly, runtime, fresh, migration, cutover, tick, bounds>>

\* beginExpiry: a document without an ordinal is retired without a tombstone.
Expire(k) ==
    /\ runtime = "current"
    /\ Live(k)
    /\ marker' = marker \union {k}
    /\ outbox' = outbox + 1
    /\ Overlay({}, {assigned[k]} \ {0})
    /\ Advance
    /\ UNCHANGED <<manifest, history, retiredOnly, runtime, fresh, migration, cutover, tick, bounds>>

\* What an older daemon writes while an upgrade is unfinished may be behind its cursor.
Leaves(keys) ==
    /\ behind' = IF view.status = "indexing" THEN behind \union keys ELSE behind
    /\ UNCHANGED <<olders, stops, purges>>

OlderAdmit(d, v) ==
    /\ runtime = "older"
    /\ AdmitRecords(d, v)
    /\ Leaves({<<d, v>>} \union {k \in manifest \ marker : k[1] = d})
    /\ UNCHANGED <<overlay, view, runtime, fresh, migration, cutover, tick>>

OlderExpire(k) ==
    /\ runtime = "older"
    /\ Live(k)
    /\ marker' = marker \union {k}
    /\ outbox' = outbox + 1
    /\ Leaves({k})
    /\ UNCHANGED <<manifest, history, overlay, view, runtime, fresh, migration, cutover, tick>>

\* completeCanonicalCleanup, by either.
Clean(k) ==
    /\ runtime \in {"current", "older"}
    /\ k \in manifest /\ k \in marker
    /\ manifest' = manifest \ {k}
    /\ history' = [history EXCEPT ![k[1]].retired =
                     IF k[2] > @ THEN k[2] ELSE @]
    /\ UNCHANGED <<marker, outbox, overlay, view, runtime, fresh, migration, cutover, tick, bounds>>

\* cleanupExpiredTombstoneMetadata, ninety days later: no page is read for so long.
Prune(k) ==
    /\ runtime \in {"current", "older"}
    /\ k \in marker /\ k \notin manifest
    /\ k \notin tick.page
    /\ marker' = marker \ {k}
    /\ UNCHANGED <<manifest, history, outbox, overlay, view, runtime, fresh, migration, cutover,
                   tick, bounds>>

\* purgeProjectRecords: every key that names the project goes, which a reverse
\* assignment, a marker and a history do not.
Purge ==
    /\ runtime = "current"
    /\ purges < MaxPurges
    /\ manifest \subseteq marker
    /\ assigned' = [k \in Key |-> 0]
    /\ tombstone' = {}
    /\ active' = NoActive
    /\ purges' = purges + 1
    /\ UNCHANGED <<canonical, ordinal, retiredOnly, view, runtime, fresh, migration, cutover,
                   tick, olders, stops, behind>>
-----------------------------------------------------------------------------
(***************************************************************************)
(* Opening the store: ensureDerivedView.                                   *)
(***************************************************************************)
Covers == view.status = "complete" /\ view.watermark >= outbox

Open ==
    /\ runtime = "down"
    /\ fresh' = FALSE
    /\ runtime' = IF (view.status = "none" /\ fresh) \/ Covers THEN "current" ELSE "opening"
    /\ view' = IF view.status = "none"
               THEN [NoView EXCEPT !.status = IF fresh THEN "complete" ELSE "indexing"]
               ELSE IF view.status = "complete" /\ ~Covers
               THEN [NoView EXCEPT !.status = "indexing", !.watermark = view.watermark]
               ELSE view
    /\ UNCHANGED <<canonical, overlay, migration, cutover, tick, bounds>>

OpenOlder ==
    /\ runtime = "down"
    /\ olders < MaxOlder
    /\ OlderMayInterrupt \/ view.status # "indexing"
    /\ runtime' = "older"
    /\ fresh' = FALSE
    /\ olders' = olders + 1
    /\ UNCHANGED <<canonical, overlay, view, migration, cutover, tick, stops, purges, behind>>

Stop ==
    /\ runtime # "down"
    /\ stops < MaxStops
    /\ runtime' = "down"
    /\ tick' = NoTick
    /\ stops' = stops + 1
    /\ UNCHANGED <<canonical, overlay, view, fresh, migration, cutover, olders, purges, behind>>

Opening(phase) == runtime = "opening" /\ view.status = "indexing" /\ view.phase = phase
OpeningRest == <<canonical, fresh, migration, cutover, tick, bounds>>

\* transitionReconciliationPhase.
ToPhase(phase) ==
    /\ view' = [view EXCEPT !.phase = phase, !.after = Start, !.within = 0]
    /\ UNCHANGED <<overlay, runtime, OpeningRest>>

\* A page with no key left moves on; another is committed with its cursor.
DocumentPage ==
    /\ Opening("documents")
    /\ LET page == PageOf(manifest, view.after, PageSize)
           new == {k \in page : assigned[k] = 0}
       IN  IF page = {} THEN ToPhase("retired-markers")
           ELSE /\ Overlay(new, {NumberOf(k, new) : k \in new \intersect marker})
                /\ view' = [view EXCEPT !.after = LastOf(page)]
                /\ UNCHANGED <<retiredOnly, runtime, OpeningRest>>

\* materializeRetiredCandidates.
Materialize(candidates) ==
    LET new == {k \in candidates : assigned[k] = 0} IN
    /\ Overlay(new, {NumberOf(k, new) : k \in candidates})
    /\ retiredOnly' = retiredOnly \union new

\* The project of a marker is known from its manifest or from the history.
MarkerPage ==
    /\ Opening("retired-markers")
    /\ LET page == PageOf(marker, view.after, PageSize) IN
       IF page = {} THEN ToPhase("retired-histories")
       ELSE /\ Materialize({k \in page : k \in manifest \/ history[k[1]].highest > 0})
            /\ view' = [view EXCEPT !.after = LastOf(page)]
            /\ UNCHANGED <<runtime, OpeningRest>>

\* mutant: a page ends the history it is a page of
HistoryPageOnce ==
    /\ Opening("retired-histories")
    /\ LET rest == {d \in Doc : history[d].highest > 0 /\ view.after[1] < d} IN
       IF rest = {} THEN ToPhase("retirements")
       ELSE LET d == CHOOSE x \in rest : \A y \in rest : x <= y
                end == IF history[d].retired < PageSize THEN history[d].retired ELSE PageSize
            IN  /\ Materialize({<<d, v>> : v \in 1..end})
                /\ view' = [view EXCEPT !.after = <<d, 0>>]
                /\ UNCHANGED <<runtime, OpeningRest>>

\* One history at a time, PageSize of its versions at a time.
HistoryPage ==
    /\ Opening("retired-histories")
    /\ LET rest == {d \in Doc : history[d].highest > 0 /\ view.after[1] < d} IN
       IF rest = {} THEN ToPhase("retirements")
       ELSE LET d == CHOOSE x \in rest : \A y \in rest : x <= y
                end == IF history[d].retired < view.within + PageSize
                       THEN history[d].retired ELSE view.within + PageSize
                done == end >= history[d].retired
            IN  /\ Materialize({<<d, v>> : v \in {w \in Version : view.within < w /\ w <= end}})
                /\ view' = [view EXCEPT !.after = IF done THEN <<d, 0>> ELSE @,
                                        !.within = IF done THEN 0 ELSE end]
                /\ UNCHANGED <<runtime, OpeningRest>>

\* Every ordinal whose document is retired by now; the last page completes the upgrade.
RetirementPage ==
    /\ Opening("retirements")
    /\ LET first == view.after[1]
           page == {n \in 1..Len(ordinal) : first < n /\ n <= first + PageSize}
           dead == {n \in page \ tombstone : ordinal[n] \in marker \/ ProvedRetired(ordinal[n])}
       IN  IF page = {}
           THEN /\ view' = [view EXCEPT !.status = "complete", !.after = Start,
                                        !.watermark = outbox]
                /\ runtime' = "current"
                /\ UNCHANGED <<overlay, OpeningRest>>
           ELSE /\ dead = {} \/ active # NoActive
                /\ Overlay({}, dead)
                /\ view' = [view EXCEPT !.after = <<first + Cardinality(page), 0>>]
                /\ UNCHANGED <<retiredOnly, runtime, OpeningRest>>
-----------------------------------------------------------------------------
(***************************************************************************)
(* verify-cutover, a page for every tick of maintenance.  A page is read   *)
(* record by record: manifests and assignments, markers, tombstones.       *)
(***************************************************************************)
Serving(step) == runtime = "current" /\ tick.step = step
VerifyRest == <<canonical, overlay, view, runtime, fresh, bounds>>

BeginVerification ==
    /\ Serving("idle")
    /\ migration.side = "none"
    /\ migration' = [side |-> "documents", after |-> Start, high |-> outbox, bad |-> FALSE]
    /\ UNCHANGED <<cutover, tick, VerifyRest>>

ReadDocuments ==
    /\ Serving("idle")
    /\ migration.side = "documents"
    /\ LET page == PageOf(manifest, migration.after, PageSize) IN
       tick' = [step |-> "markers", page |-> page, marked |-> {},
                bad |-> \E k \in page : assigned[k] = 0 \/ k \in retiredOnly,
                last |-> Cardinality(page) < PageSize]
    /\ UNCHANGED <<migration, cutover, VerifyRest>>

ReadMarkers ==
    /\ Serving("markers")
    /\ tick' = [tick EXCEPT !.step = "tombstones", !.marked = @ \union (tick.page \intersect marker)]
    /\ UNCHANGED <<migration, cutover, VerifyRest>>

ReadTombstones ==
    /\ Serving("tombstones")
    /\ tick' = [tick EXCEPT !.step = "persist",
                  !.bad = @ \/ \E k \in tick.page :
                            /\ assigned[k] # 0
                            /\ (k \in tick.marked) # (assigned[k] \in tombstone)]
    /\ UNCHANGED <<migration, cutover, VerifyRest>>

\* mergeCutoverVerification, then persistMigrationState.
PersistDocuments ==
    /\ Serving("persist")
    /\ migration.side = "documents"
    /\ migration' = [migration EXCEPT
                       !.bad = @ \/ tick.bad,
                       !.side = IF tick.last THEN "assignments" ELSE @,
                       !.after = IF tick.last THEN Start ELSE LastOf(tick.page)]
    /\ tick' = NoTick
    /\ UNCHANGED <<cutover, VerifyRest>>

\* An assignment is an orphan when its document has no manifest and it no tombstone.
ReadAssignments ==
    /\ Serving("idle")
    /\ migration.side = "assignments"
    /\ LET first == migration.after[1]
           page == {n \in 1..Len(ordinal) : first < n /\ n <= first + PageSize}
           bad == migration.bad \/ \E n \in page : ordinal[n] \notin manifest /\ n \notin tombstone
       IN  IF Cardinality(page) = PageSize
           THEN /\ migration' = [migration EXCEPT !.bad = bad, !.after = <<first + PageSize, 0>>]
                /\ UNCHANGED tick
           ELSE /\ tick' = [NoTick EXCEPT !.step = "finish", !.bad = bad]
                /\ UNCHANGED migration
    /\ UNCHANGED <<cutover, VerifyRest>>

\* The outbox has moved: everything is verified again.
RestartVerification ==
    /\ Serving("finish")
    /\ outbox # migration.high
    /\ migration' = [side |-> "documents", after |-> Start, high |-> outbox, bad |-> FALSE]
    /\ tick' = NoTick
    /\ UNCHANGED <<cutover, VerifyRest>>

\* ERR_POSTING_CUTOVER_VERIFICATION: nothing is persisted, the next tick is the same.
RefuseCutover ==
    /\ Serving("finish")
    /\ outbox = migration.high
    /\ tick.bad
    /\ tick' = NoTick
    /\ UNCHANGED <<migration, cutover, VerifyRest>>

\* The comparison of the outbox, and the marker put after it.
AcceptCutover ==
    /\ Serving("finish")
    /\ outbox = migration.high
    /\ ~tick.bad
    /\ tick' = [tick EXCEPT !.step = "publish"]
    /\ UNCHANGED <<migration, cutover, VerifyRest>>

PublishCutover ==
    /\ Serving("publish")
    /\ cutover' = TRUE
    /\ tick' = [tick EXCEPT !.step = "grace"]
    /\ UNCHANGED <<migration, VerifyRest>>

PersistGrace ==
    /\ Serving("grace")
    /\ migration' = [migration EXCEPT !.side = "grace", !.after = Start]
    /\ tick' = NoTick
    /\ UNCHANGED <<cutover, VerifyRest>>

Next ==
    \/ \E d \in Doc, v \in Version : Admit(d, v) \/ OlderAdmit(d, v)
    \/ \E k \in Key : Expire(k) \/ OlderExpire(k) \/ Clean(k) \/ Prune(k)
    \/ Purge \/ Open \/ OpenOlder \/ Stop
    \/ DocumentPage \/ MarkerPage \/ HistoryPage \/ RetirementPage
    \/ BeginVerification \/ ReadDocuments \/ ReadMarkers \/ ReadTombstones \/ PersistDocuments
    \/ ReadAssignments \/ RestartVerification \/ RefuseCutover \/ AcceptCutover
    \/ PublishCutover \/ PersistGrace

Spec == Init /\ [][Next]_vars
-----------------------------------------------------------------------------
TypeOK ==
    /\ manifest \subseteq Key /\ marker \subseteq Key /\ retiredOnly \subseteq Key
    /\ history \in [Doc -> [highest : 0..MaxVersion, retired : 0..MaxVersion]]
    /\ outbox \in Nat
    /\ ordinal \in Seq(Key)
    /\ assigned \in [Key -> 0..Len(ordinal)]
    /\ tombstone \subseteq 1..Len(ordinal)
    /\ active \in [admitted : Nat \union {-1}, tombstoned : Nat]
    /\ view \in [status : {"none", "indexing", "complete"},
                 phase : {"documents", "retired-markers", "retired-histories", "retirements"},
                 after : Nat \X Nat, within : 0..MaxVersion, watermark : Nat]
    /\ runtime \in {"down", "older", "opening", "current"}
    /\ migration \in [side : {"none", "documents", "assignments", "grace"},
                      after : Nat \X Nat, high : Nat, bad : BOOLEAN]
    /\ cutover \in BOOLEAN /\ fresh \in BOOLEAN
    /\ tick \in [step : {"idle", "markers", "tombstones", "persist", "finish", "publish", "grace"},
                 page : SUBSET Key, marked : SUBSET Key, bad : BOOLEAN, last : BOOLEAN]

\* What a reader of the overlay sees of a document is what its canonical records say.
RightFor(keys) ==
    \A k \in manifest \intersect keys :
      /\ assigned[k] # 0 /\ k \notin retiredOnly
      /\ (k \in marker) <=> (assigned[k] \in tombstone)
OverlayRight == RightFor(Key)

\* Before the current daemon serves, whatever an older one wrote has been reconciled:
\* every version ever admitted has its ordinal, also one that is cleaned and forgotten,
\* and a tombstone if and only if it is retired (ensureDerivedView; kept by
\* commitCanonical and beginExpiry).  That is so of what was written while no upgrade was
\* unfinished: an upgrade that an older daemon interrupts goes on from its cursor, and
\* calls the outbox covered when it ends (derived-view.js:890).
DriftReconciled == runtime = "current" /\ purges = 0 =>
    /\ RightFor(Key \ behind)
    /\ \A k \in Key \ (manifest \union behind) :
         k[2] <= history[k[1]].highest => assigned[k] \in tombstone

\* The same of all that was written: "the next current daemon detects the drift"
\* (architecture.md:104).  After an interrupted upgrade it does not.
DriftDetected == runtime = "current" /\ purges = 0 => OverlayRight

\* An ordinal is never reused: it stays the ordinal of the version it was allocated to,
\* and a version keeps it.  The counts of the project are those of its records
\* (materializeRetiredCandidates, recordDerivedViewTombstone, commitCanonical).
OrdinalsStable ==
    /\ \A k \in Key : assigned[k] # 0 => ordinal[assigned[k]] = k
    /\ runtime # "down" => LET numbered == {k \in Key : assigned[k] # 0} IN
         IF active = NoActive THEN numbered = {}
         ELSE /\ active.admitted = Cardinality(numbered)
              /\ active.tombstoned = Cardinality({k \in numbered : assigned[k] \in tombstone})

\* The cutover is published only over an overlay that is right, whatever was written
\* between the first page verified and the last (runPostingStorageMaintenance).  A purge
\* takes the overlay of retired documents away: readers then look at the markers.
CutoverVerified ==
    [][cutover' /\ ~cutover /\ purges = 0 => migration.high # outbox \/ OverlayRight]_vars

\* A mismatch that was only an admission or a retirement between two reads is forgotten:
\* what is held against the cutover at an unmoved outbox is really wrong.  A document that
\* was behind the cursor of an interrupted upgrade may have been cleaned since.
MismatchesReal ==
    migration.side \in {"documents", "assignments"} /\ migration.bad /\ outbox = migration.high
        => \/ ~OverlayRight \/ behind # {}
           \/ \E n \in 1..Len(ordinal) : ordinal[n] \notin manifest /\ n \notin tombstone
=============================================================================
