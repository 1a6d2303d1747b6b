----------------------------- MODULE SemanticIndex -----------------------------
(***************************************************************************)
(* The vectors of one project (src/semantic/index.js): documents are       *)
(* embedded one at a time from a queue, the vectors and their metadata are *)
(* renamed into place one after the other, a project with too many dead    *)
(* vectors is built anew beside the live one and swapped in, and a purged  *)
(* project is removed.  A vector is a label <<d, i>> for the i-th batch of *)
(* document d.  A close is a crash that comes between two steps.           *)
(***************************************************************************)
EXTENDS Naturals, Sequences, FiniteSets, SequencesExt

CONSTANTS
    Doc,           \* versions of documents, which are numbers
    Batches,       \* how many batches of spans a document has
    MaxRebuilds,   \* bounds
    MaxPurges,
    MaxFaults,
    MaxCrashes

VARIABLES
    canon,         \* what the archive knows of a document: "none", "live", "retired", "gone"
    owed,          \* admitted, and not yet passed to enqueueDocument
    target,        \* the project directory: index and meta, sets of labels or Absent
    backup,        \* what a swap moved aside
    state,         \* the loaded project
    counted,       \* entryCount
    queue,         \* queued documents, and the Swap of a rebuild
    job,           \* what the head of the queue does
    unavailable, warmed,
    rebuild,       \* a rebuild and the instance that it fills
    removal,       \* removeProject: waits for so many jobs, then deletes
    rebuilds, purges, faults, crashes,
    cut,           \* how often new vectors were renamed into place and their metadata was not
    stranded       \* a removal was cut short, or done while a rebuild was running

disk == <<target, backup>>
bounds == <<rebuilds, purges, faults, crashes>>
history == <<cut, stranded>>
vars == <<canon, owed, disk, state, counted, queue, job, unavailable, warmed, rebuild, removal,
          bounds, history>>

Absent == {<<0, 0>>}
Swap == 0
Labels(D) == UNION {{d} \X (1..Batches[d]) : d \in D}
DocsOf(L) == {l[1] : l \in L}
NoFiles == [index |-> Absent, meta |-> Absent]

Unloaded == [pc |-> "unloaded", meta |-> Absent, has |-> FALSE, viewed |-> FALSE, index |-> {},
             entries |-> {}, docs |-> {}, retired |-> {}]
NoJob == [pc |-> "idle", doc |-> 0, batch |-> 0]
NoRebuild == [pc |-> "none", todo |-> {}, entries |-> {}, docs |-> {}]
NoRemoval == [pc |-> "none", jobs |-> 0]

Init ==
    /\ canon = [d \in Doc |-> "none"] /\ owed = {}
    /\ target = NoFiles /\ backup = NoFiles
    /\ state = Unloaded /\ counted = 0 /\ queue = <<>> /\ job = NoJob
    /\ unavailable = FALSE /\ warmed = FALSE /\ rebuild = NoRebuild /\ removal = NoRemoval
    /\ rebuilds = 0 /\ purges = 0 /\ faults = 0 /\ crashes = 0
    /\ cut = 0 /\ stranded = FALSE

Manifests == {d \in Doc : canon[d] \in {"live", "retired"}}
Live == {d \in Doc : canon[d] = "live"}
Dead(L) == {l \in L : l[1] \notin Live}
Fault == faults < MaxFaults /\ faults' = faults + 1

-----------------------------------------------------------------------------
(* The archive, and what the daemon passes on of it. *)

Admit(d) ==
    /\ canon[d] = "none" /\ removal = NoRemoval
    /\ canon' = [canon EXCEPT ![d] = "live"] /\ owed' = owed \cup {d}
    /\ UNCHANGED <<disk, state, counted, queue, job, unavailable, warmed, rebuild, removal, bounds,
                   history>>

Retire(d) ==
    /\ canon[d] = "live"
    /\ canon' = [canon EXCEPT ![d] = "retired"]
    /\ UNCHANGED <<owed, disk, state, counted, queue, job, unavailable, warmed, rebuild, removal,
                   bounds, history>>

EnqueueDocument(d) ==
    /\ d \in owed /\ owed' = owed \ {d}
    /\ queue' = IF unavailable THEN queue ELSE Append(queue, d)
    /\ UNCHANGED <<canon, disk, state, counted, job, unavailable, warmed, rebuild, removal, bounds,
                   history>>

\* #warmExisting: after a start every manifest is queued, in the order of its key.
Warm ==
    /\ ~warmed /\ warmed' = TRUE
    /\ queue' = IF unavailable THEN queue
                ELSE queue \o SetToSortSeq(Manifests, <)
    /\ UNCHANGED <<canon, owed, disk, state, counted, job, unavailable, rebuild, removal, bounds,
                   history>>

-----------------------------------------------------------------------------
(* Loading a project: the metadata is read, then the vectors are mapped. *)

\* #loadProject, called by a job or by a search
StartLoad ==
    /\ state.pc = "unloaded"
    /\ state' = IF target.meta = Absent THEN [Unloaded EXCEPT !.pc = "loaded"]
                ELSE [Unloaded EXCEPT !.pc = "loading", !.meta = target.meta]

\* A snapshot whose two halves do not have the same size is not used.
Matches(index, meta) == index # Absent /\ Cardinality(index) = Cardinality(meta)

FinishLoad ==
    /\ state.pc = "loading"
    /\ IF Matches(target.index, state.meta)
       THEN /\ state' = [state EXCEPT !.pc = "loaded", !.has = TRUE, !.viewed = TRUE,
                           !.index = target.index, !.entries = state.meta, !.docs = DocsOf(state.meta)]
            /\ counted' = counted + Cardinality(state.meta)
       ELSE state' = [Unloaded EXCEPT !.pc = "loaded"] /\ UNCHANGED counted
    /\ UNCHANGED <<canon, owed, disk, queue, job, unavailable, warmed, rebuild, removal, bounds,
                   history>>

\* search: loads the project; what it finds dead it remembers, and leaves to a rebuild.
Search ==
    /\ ~unavailable
    /\ \/ StartLoad /\ UNCHANGED <<unavailable, faults>>
       \/ /\ state.pc = "loaded" /\ state.has
          /\ state' = [state EXCEPT !.retired = @ \cup Dead(state.entries)]
          /\ UNCHANGED <<unavailable, faults>>
       \/ /\ state.pc = "loaded" /\ state.has /\ Fault
          /\ unavailable' = TRUE /\ UNCHANGED state
    /\ UNCHANGED <<canon, owed, disk, counted, queue, job, warmed, rebuild, removal, rebuilds,
                   purges, crashes, history>>

-----------------------------------------------------------------------------
(* The queue: one job at a time. *)

Done ==
    /\ job' = NoJob /\ queue' = Tail(queue)
    /\ removal' = IF removal.pc = "waiting" THEN [removal EXCEPT !.jobs = @ - 1] ELSE removal

\* A document that cannot be embedded makes the index unavailable until the next start.
Broken == Done /\ unavailable' = TRUE

Kept == UNCHANGED <<canon, owed, warmed, rebuild, rebuilds, purges, crashes, stranded>>
Quietly == UNCHANGED <<disk, counted, cut>> /\ Kept

Begin ==
    /\ job = NoJob /\ queue # <<>> /\ Head(queue) # Swap
    /\ IF unavailable \/ Head(queue) \notin Live
       THEN Done /\ UNCHANGED <<state, unavailable, faults>> /\ Quietly
       ELSE /\ job' = [pc |-> "load", doc |-> Head(queue), batch |-> 1]
            /\ UNCHANGED <<queue, removal, state, unavailable, faults>> /\ Quietly

LoadForJob ==
    /\ job.pc = "load" /\ StartLoad
    /\ UNCHANGED <<job, queue, removal, unavailable, faults>> /\ Quietly

\* A project that is only mapped is loaded into memory before it is changed.
WritableIndex ==
    /\ job.pc = "load" /\ state.pc = "loaded" /\ UNCHANGED faults /\ Quietly
    /\ IF job.doc \in state.docs THEN Done /\ UNCHANGED <<state, unavailable>>
       ELSE IF ~state.viewed
       THEN job' = [job EXCEPT !.pc = "embed"] /\ UNCHANGED <<queue, removal, state, unavailable>>
       ELSE IF target.index = Absent THEN Broken /\ UNCHANGED state
       ELSE /\ job' = [job EXCEPT !.pc = "embed"]
            /\ state' = [state EXCEPT !.viewed = FALSE, !.index = target.index]
            /\ UNCHANGED <<queue, removal, unavailable>>

\* One batch is embedded and added.
Embed ==
    /\ job.pc = "embed" /\ Kept /\ UNCHANGED <<disk, cut>>
    /\ LET label == <<job.doc, job.batch>>
           last == job.batch = Batches[job.doc]
       IN  \/ /\ state' = [state EXCEPT !.has = TRUE, !.index = @ \cup {label},
                             !.entries = @ \cup {label},
                             !.docs = IF last THEN @ \cup {job.doc} ELSE @]
              /\ counted' = counted + 1
              /\ job' = IF last THEN [job EXCEPT !.pc = "index"] ELSE [job EXCEPT !.batch = @ + 1]
              /\ UNCHANGED <<queue, removal, unavailable, faults>>
           \/ Fault /\ Broken /\ UNCHANGED <<state, counted>>

\* #persist: two renames
PersistIndex ==
    /\ job.pc = "index" /\ UNCHANGED <<backup, counted, state, cut>> /\ Kept
    /\ \/ /\ target' = [target EXCEPT !.index = state.index]
          /\ job' = [job EXCEPT !.pc = "meta"] /\ UNCHANGED <<queue, removal, unavailable, faults>>
       \/ Fault /\ Broken /\ UNCHANGED target

PersistMeta ==
    /\ job.pc = "meta" /\ UNCHANGED <<backup, counted, state>> /\ Kept
    /\ \/ /\ target' = [target EXCEPT !.meta = state.entries]
          /\ Done /\ UNCHANGED <<unavailable, faults, cut>>
       \/ Fault /\ Broken /\ cut' = cut + 1 /\ UNCHANGED target

IndexDocument == Begin \/ LoadForJob \/ WritableIndex \/ Embed \/ PersistIndex \/ PersistMeta

-----------------------------------------------------------------------------
(* A project with too many dead vectors is built anew, by an instance of   *)
(* its own.                                                                *)

Unmoved == UNCHANGED <<canon, owed, counted, state, unavailable, warmed, purges, crashes,
                       history>>

\* maintain: never while documents are queued
Maintain ==
    /\ rebuild.pc = "none" /\ queue = <<>> /\ rebuilds < MaxRebuilds
    /\ state.pc = "loaded" /\ state.has /\ Dead(state.entries) # {}
    /\ rebuild' = [NoRebuild EXCEPT !.pc = "first", !.todo = Manifests]
    /\ rebuilds' = rebuilds + 1
    /\ UNCHANGED <<disk, queue, job, removal, faults>> /\ Unmoved

\* enqueueCurrent: one document at a time; what fails ends the rebuild.
RebuildDocument ==
    /\ rebuild.pc \in {"first", "catchup"} /\ rebuild.todo # {}
    /\ \E d \in rebuild.todo :
         /\ \A e \in rebuild.todo : d <= e
         /\ \/ /\ rebuild' = [rebuild EXCEPT !.todo = @ \ {d},
                    !.entries = @ \cup (IF d \in Live THEN Labels({d}) ELSE {}),
                    !.docs = @ \cup ({d} \cap Live)]
               /\ UNCHANGED <<faults, queue, job, removal>>
            \/ /\ Fault /\ d \in Live \ rebuild.docs /\ rebuild' = NoRebuild
               /\ IF rebuild.pc = "catchup" THEN Done ELSE UNCHANGED <<queue, job, removal>>
    /\ UNCHANGED <<disk, rebuilds>> /\ Unmoved

\* The catch-up and the swap wait for their turn in the queue.
QueueFinalize ==
    /\ rebuild.pc = "first" /\ rebuild.todo = {}
    /\ rebuild' = [rebuild EXCEPT !.pc = "queued"] /\ queue' = Append(queue, Swap)
    /\ UNCHANGED <<disk, job, removal, faults, rebuilds>> /\ Unmoved

\* What was admitted since the first pass is embedded before the swap.
\* mutant: the first pass is taken to be enough
CatchUpNot == [rebuild EXCEPT !.pc = "catchup"]
CatchUp == [rebuild EXCEPT !.pc = "catchup", !.todo = Manifests]

Finalize ==
    /\ job = NoJob /\ queue # <<>> /\ Head(queue) = Swap
    /\ job' = [NoJob EXCEPT !.pc = "finalize"] /\ rebuild' = CatchUp
    /\ UNCHANGED <<disk, queue, removal, faults, rebuilds>> /\ Unmoved

MoveAside ==
    /\ rebuild.pc = "catchup" /\ rebuild.todo = {} /\ rebuild' = [rebuild EXCEPT !.pc = "aside"]
    /\ backup' = target /\ target' = NoFiles
    /\ UNCHANGED <<queue, job, removal, faults, rebuilds>> /\ Unmoved

Built == IF rebuild.entries = {} THEN NoFiles
         ELSE [index |-> rebuild.entries, meta |-> rebuild.entries]
MoveIn ==
    /\ rebuild.pc = "aside"
    /\ \/ /\ target' = Built /\ rebuild' = [rebuild EXCEPT !.pc = "moved"]
          /\ UNCHANGED <<backup, faults, queue, job, removal>>
       \/ /\ Fault /\ rebuild' = NoRebuild /\ Done
          /\ target' = backup /\ backup' = NoFiles
    /\ UNCHANGED rebuilds /\ Unmoved

\* The old state is forgotten, so that the next use loads the new snapshot.
Forget ==
    /\ rebuild.pc = "moved" /\ state.pc # "loading"
    /\ state' = Unloaded
    /\ counted' = counted - Cardinality(state.entries)
    /\ backup' = NoFiles /\ rebuild' = NoRebuild /\ Done
    /\ UNCHANGED <<canon, owed, target, unavailable, warmed, purges, crashes, faults, rebuilds,
                   history>>

Rebuild ==
    \/ Maintain \/ RebuildDocument \/ QueueFinalize \/ Finalize \/ MoveAside \/ MoveIn \/ Forget

-----------------------------------------------------------------------------
(* removeProject, once a project is purged: the queue as it stands is      *)
(* awaited, then the project leaves memory and disk.                       *)

AwaitQueue ==
    /\ purges < MaxPurges /\ purges' = purges + 1
    /\ removal.pc = "none" /\ Live = {} /\ Manifests # {} /\ owed = {}
    /\ canon' = [d \in Doc |-> IF canon[d] = "none" THEN "none" ELSE "gone"]
    /\ removal' = [pc |-> "waiting", jobs |-> Len(queue)]
    /\ UNCHANGED <<owed, disk, state, counted, queue, job, unavailable, warmed, rebuild,
                   rebuilds, faults, crashes, history>>

DropState ==
    /\ removal.pc = "waiting" /\ removal.jobs = 0 /\ state.pc # "loading"
    /\ state' = Unloaded /\ removal' = [NoRemoval EXCEPT !.pc = "dropped"]
    /\ stranded' = (stranded \/ rebuild.pc # "none")
    /\ UNCHANGED <<canon, owed, disk, counted, queue, job, unavailable, warmed, rebuild, bounds,
                   cut>>

RemoveDirectory ==
    /\ removal.pc = "dropped" /\ removal' = NoRemoval
    /\ target' = NoFiles
    /\ stranded' = (stranded \/ rebuild.pc # "none")
    /\ UNCHANGED <<canon, owed, backup, state, counted, queue, job, unavailable, warmed, rebuild,
                   bounds, cut>>

RemoveProject == AwaitQueue \/ DropState \/ RemoveDirectory

\* The daemon ends, wherever it was; what was moved aside is never looked at again.
Crash ==
    /\ crashes < MaxCrashes /\ crashes' = crashes + 1
    /\ owed' = {} /\ backup' = NoFiles /\ state' = Unloaded /\ counted' = 0
    /\ queue' = <<>> /\ job' = NoJob /\ unavailable' = FALSE /\ warmed' = FALSE
    /\ rebuild' = NoRebuild /\ removal' = NoRemoval
    /\ cut' = IF job.pc = "meta" THEN cut + 1 ELSE cut
    /\ stranded' = (stranded \/ removal # NoRemoval)
    /\ UNCHANGED <<canon, target, rebuilds, purges, faults>>

Next ==
    \/ \E d \in Doc : Admit(d) \/ Retire(d) \/ EnqueueDocument(d)
    \/ Warm \/ Search \/ FinishLoad \/ IndexDocument \/ Rebuild \/ RemoveProject \/ Crash

Spec == Init /\ [][Next]_vars
-----------------------------------------------------------------------------
TypeOK ==
    /\ canon \in [Doc -> {"none", "live", "retired", "gone"}] /\ owed \subseteq Doc
    /\ \A f \in {target.index, target.meta, backup.index, backup.meta} :
         f # Absent => f \subseteq Labels(Doc)
    /\ state.entries \cup state.index \cup state.retired \subseteq Labels(Doc)
    /\ counted \in Nat /\ \A i \in DOMAIN queue : queue[i] \in Doc \cup {Swap}
    /\ job.pc \in {"idle", "load", "embed", "index", "meta", "finalize"}
    /\ rebuild.pc \in {"none", "first", "queued", "catchup", "aside", "moved"}
    /\ rebuild.pc \in {"aside", "moved"} => job.pc = "finalize"
    /\ removal.pc \in {"none", "waiting", "dropped"} /\ removal.jobs <= Len(queue)

\* A document that counts as embedded is embedded whole, and the vectors belong to the
\* metadata, although they are written in two steps and compared by their number only: as
\* long as not more than one pair was cut between the two.  (After two, other vectors of the
\* same number may meet old metadata; so may those of a rebuild that a removal did not
\* await: #persist, #loadProject.)
LoadedWhole ==
    /\ state.docs # {} => Labels(state.docs) \subseteq state.entries
    /\ cut <= 1 /\ ~stranded => state.index = state.entries

\* Once the queue is worked off, every live document is served: over failed and finished
\* rebuilds, during which documents go on to be admitted, and over restarts.
Served == IF state.pc = "loaded" THEN state.docs
          ELSE IF target.meta # Absent /\ Matches(target.index, target.meta) THEN DocsOf(target.meta)
          ELSE {}
Settled ==
    /\ warmed /\ ~unavailable /\ owed = {} /\ job.pc \in {"idle", "finalize"}
    /\ \A i \in DOMAIN queue : queue[i] = Swap
AllServed == Settled => Live \subseteq Served

\* A project that is only mapped can be loaded to be written: its file is the one that was
\* mapped ("the file cannot change between view() and load()"), except within a swap, and
\* until the project is removed: a search may map the file removeProject is about to delete.
ViewIsCurrent ==
    purges = 0 /\ state.viewed /\ rebuild.pc \notin {"aside", "moved"} => target.index = state.index

\* The number of entries that is reported is the number there is, until a project is removed
\* (removeProject takes its documents off, not its entries), and nothing that search leaves
\* out as retired is live.
Accounted ==
    /\ purges = 0 => counted = Cardinality(state.entries)
    /\ state.retired \cap Labels(Live) = {}

\* "A project purged everywhere else keeps its vectors indefinitely" (removeProject, of the
\* time before it): once a removal is over the project is gone from the disk and does not
\* come back.  Two removals do less: one that a crash cuts short, which nothing takes up
\* again, and one that is over while the project is being rebuilt, for the rebuild is not
\* awaited and moves its vectors in again.
RemovedIsGone ==
    purges > 0 /\ removal = NoRemoval /\ Manifests = {} /\ ~stranded => target = NoFiles
=============================================================================
