-------------------------- MODULE ProjectRedaction --------------------------
(***************************************************************************)
(* Redaction of a session or a project (redact() in                        *)
(* src/daemon/operations.js and src/archive/daemon-archive.js) and the     *)
(* purge of the records keyed by a project (src/rocksdb/project-purge.js), *)
(* beside admissions and the index worker.                                 *)
(*                                                                         *)
(* The client repeats the request with the cursor of the last answer.  A   *)
(* request walks the references of the scope in key order, page by page,   *)
(* retires a batch of documents, and clears hints when no document is      *)
(* left.  After the last batch of a project redaction the outbox is        *)
(* drained, and every keyspace swept.                                      *)
(*                                                                         *)
(* Documents are numbered in the key order of their references, which      *)
(* begins with the session.  Of the records keyed by a project three kinds *)
(* are kept: references, statistics, and hints.  Retention is module       *)
(* Retention: here a document is live or retired.                          *)
(***************************************************************************)
EXTENDS Naturals, Sequences, FiniteSets

CONSTANTS
    Doc,           \* 1..n
    Session,       \* [Doc -> session], in key order
    BatchSize,     \* of the request
    PageSize,      \* of scanPages
    Others,        \* documents of other projects there may be
    ScanLimit,     \* 100_000, of firstUnretiredDocument
    MaxCrashes     \* bound: failures and restarts of the daemon

VARIABLES
    document,      \* [Doc -> "absent", "live", "retired"]
    references, statistics, hints,  \* keyed by the project
    outbox,        \* entries to index
    job,           \* the request, or what the client still has to ask for
    found,         \* live documents of the scope when the redaction began
    quiet,         \* nothing was admitted, hinted at or expired since the redaction began
    swept,         \* the project is purged, and nothing was meanwhile or since
    exposed,       \* documents admitted since the check of the last sweep
    overlooked,    \* live documents a check did not come to
    crashes

records == <<references, statistics, hints>>
vars == <<document, records, outbox, job, found, quiet, swept, exposed, overlooked, crashes>>

Sessions == {Session[d] : d \in Doc}
Project == [whole |-> TRUE, sessions |-> Sessions]
Scope == {Project} \union [whole : {FALSE}, sessions : {{s} : s \in Sessions}]
InScope(d, scope) == Session[d] \in scope.sessions

HintsCursor == Cardinality(Doc) + 1

\* [step, scope, cursor: last reference of the previous request, or HintsCursor,
\*  page: references still to visit, last: visited last, scanned, doomed, keyspace]
NoJob == [step |-> "none", scope |-> Project, cursor |-> 0, page |-> {}, full |-> FALSE,
          last |-> 0, scanned |-> 0, doomed |-> {}, keyspace |-> "references"]

Keyspaces == <<"references", "statistics", "hints">>

Init ==
    /\ document = [d \in Doc |-> "absent"]
    /\ references = {}
    /\ statistics = FALSE
    /\ hints = {}
    /\ outbox = <<>>
    /\ job = NoJob
    /\ found = {}
    /\ quiet = FALSE
    /\ swept = FALSE
    /\ exposed = {}
    /\ overlooked = {}
    /\ crashes = 0
-----------------------------------------------------------------------------
(***************************************************************************)
(* The surroundings.                                                       *)
(***************************************************************************)
Admit(d) ==
    /\ document[d] = "absent"
    /\ document' = [document EXCEPT ![d] = "live"]
    /\ references' = references \union {d}
    /\ outbox' = Append(outbox, d)
    /\ quiet' = FALSE
    /\ swept' = FALSE
    /\ exposed' = IF job.step \in {"verdict", "scan", "delete"} THEN exposed \union {d} ELSE exposed
    /\ UNCHANGED <<statistics, hints, job, found, overlooked, crashes>>

\* A preflight freezes a hint of the document.
Hint(d) ==
    /\ document[d] = "live"
    /\ d \notin hints
    /\ hints' = hints \union {d}
    /\ quiet' = FALSE
    /\ swept' = FALSE
    /\ UNCHANGED <<document, references, statistics, outbox, job, found, exposed, overlooked, crashes>>

\* The worker publishes an index or a delete: both rewrite the statistics of the project.
Publish ==
    /\ outbox # <<>>
    /\ outbox' = Tail(outbox)
    /\ statistics' = TRUE
    /\ UNCHANGED <<document, references, hints, job, found, quiet, swept, exposed, overlooked, crashes>>

Retire(d) ==
    /\ document' = [document EXCEPT ![d] = "retired"]
    /\ outbox' = Append(outbox, d)

\* Retention retires documents of its own accord.
Expire(d) ==
    /\ document[d] = "live"
    /\ Retire(d)
    /\ quiet' = FALSE
    /\ swept' = FALSE
    /\ UNCHANGED <<records, job, found, exposed, overlooked, crashes>>
-----------------------------------------------------------------------------
(***************************************************************************)
(* The request.                                                            *)
(***************************************************************************)
Step(step) == job' = [job EXCEPT !.step = step]

Begin(scope) ==
    /\ job.step = "none"
    /\ job' = [NoJob EXCEPT !.step = "page", !.scope = scope]
    /\ found' = {d \in Doc : InScope(d, scope) /\ document[d] = "live"}
    /\ quiet' = TRUE
    /\ UNCHANGED <<document, records, outbox, swept, exposed, overlooked, crashes>>

\* The client goes on with nextCursor.
Continue ==
    /\ job.step = "more"
    /\ job' = [NoJob EXCEPT !.step = IF job.cursor = HintsCursor THEN "hints" ELSE "page",
                            !.scope = job.scope, !.cursor = job.cursor]
    /\ UNCHANGED <<document, records, outbox, found, quiet, swept, exposed, overlooked, crashes>>

\* The next page of scanPages, from an iterator of its own.
ReadPage ==
    LET rest == {d \in references : InScope(d, job.scope) /\ d > job.last}
        page == {d \in rest : Cardinality({e \in rest : e < d}) < PageSize}
    IN  /\ job.step = "page"
        /\ job' = [job EXCEPT !.step = "record", !.page = page,
                              !.full = Cardinality(page) = PageSize]
        /\ UNCHANGED <<document, records, outbox, found, quiet, swept, exposed, overlooked, crashes>>

First(page) == CHOOSE d \in page : \A e \in page : d <= e

SkipRecord ==
    /\ job.step = "record"
    /\ job.page # {}
    /\ First(job.page) <= job.cursor
    /\ job' = [job EXCEPT !.page = @ \ {First(@)}, !.last = First(job.page)]
    /\ UNCHANGED <<document, records, outbox, found, quiet, swept, exposed, overlooked, crashes>>

\* tombstoneDocument, up to the batch size.  Waiting for its index delete
\* (publishIndexDelete) gives the worker time, and no more.
Tombstone(d) ==
    /\ job.step = "record"
    /\ d \in job.page /\ d = First(job.page) /\ d > job.cursor
    /\ IF job.scanned = BatchSize
         THEN /\ job' = [job EXCEPT !.step = "more", !.cursor = job.last]
              /\ UNCHANGED <<document, outbox>>
         ELSE /\ job' = [job EXCEPT !.page = @ \ {d}, !.last = d, !.scanned = @ + 1]
              /\ IF document[d] = "live" THEN Retire(d) ELSE UNCHANGED <<document, outbox>>
    /\ UNCHANGED <<records, found, quiet, swept, exposed, overlooked, crashes>>

PageDone ==
    /\ job.step = "record"
    /\ job.page = {}
    /\ Step(IF job.full THEN "page" ELSE "hints")
    /\ UNCHANGED <<document, records, outbox, found, quiet, swept, exposed, overlooked, crashes>>

\* clearScopedHints: the hints of one scan, each in a transaction of its own.
clearScopedHints ==
    LET scoped == {d \in hints : InScope(d, job.scope)}
    IN  /\ job.step = "hints"
        /\ \E cleared \in SUBSET scoped :
             /\ Cardinality(cleared) = IF Cardinality(scoped) > BatchSize
                                         THEN BatchSize ELSE Cardinality(scoped)
             /\ hints' = hints \ cleared
             /\ job' = IF cleared = scoped
                         THEN [job EXCEPT !.step = IF job.scope.whole THEN "drain" ELSE "done"]
                         ELSE [job EXCEPT !.step = "more", !.cursor = HintsCursor]
        /\ UNCHANGED <<document, references, statistics, outbox, found, quiet, swept, exposed,
                       overlooked, crashes>>

DrainNot ==  \* mutant: the purge does not wait
    /\ job.step = "drain"
    /\ Step("check")
    /\ UNCHANGED <<document, records, outbox, found, quiet, swept, exposed, overlooked, crashes>>

\* drainIndexUntilIdle
Drain ==
    /\ job.step = "drain"
    /\ outbox = <<>>
    /\ Step("check")
    /\ UNCHANGED <<document, records, outbox, found, quiet, swept, exposed, overlooked, crashes>>

\* firstUnretiredDocument reads the documents there are, one marker after the other: those
\* of all projects, in the order of their ids, and not more than its limit.
Present == {d \in Doc : document[d] # "absent"}
WithinLimit(seen) ==
    /\ seen \subseteq Present
    /\ seen # Present => Cardinality(seen) <= ScanLimit /\ Cardinality(seen) + Others >= ScanLimit
Check ==
    /\ job.step = "check"
    /\ \E seen \in SUBSET Doc :
         /\ WithinLimit(seen)
         /\ job' = [job EXCEPT !.step = "verdict", !.doomed = seen]
         /\ overlooked' = {d \in overlooked \union (Present \ seen) : document[d] = "live"}
    /\ exposed' = {d \in exposed : document[d] = "live"}
    /\ UNCHANGED <<document, records, outbox, found, quiet, swept, crashes>>

Refuse ==
    /\ job.step = "verdict"
    /\ \E d \in job.doomed : document[d] = "live"
    /\ job' = NoJob
    /\ found' = {}
    /\ UNCHANGED <<document, records, outbox, quiet, swept, exposed, overlooked, crashes>>

Clear ==
    /\ job.step = "verdict"
    /\ \A d \in job.doomed : document[d] # "live"
    /\ job' = [job EXCEPT !.step = "scan", !.doomed = {}]
    /\ UNCHANGED <<document, records, outbox, found, quiet, swept, exposed, overlooked, crashes>>

\* One page of one keyspace; its keys are removed afterwards.
Scan ==
    /\ job.step = "scan"
    /\ job' = [job EXCEPT !.step = "delete",
                          !.doomed = CASE job.keyspace = "references" -> references
                                       [] job.keyspace = "statistics" -> {d \in Doc : statistics}
                                       [] job.keyspace = "hints" -> hints]
    /\ UNCHANGED <<document, records, outbox, found, quiet, swept, exposed, overlooked, crashes>>

\* The next keyspace, at once or, when the limit of the call is reached, after another check.
Advance ==
    LET place == CHOOSE i \in 1..Len(Keyspaces) : Keyspaces[i] = job.keyspace
    IN  IF place = Len(Keyspaces)
          THEN job' = [job EXCEPT !.step = "done", !.doomed = {}]
          ELSE \E step \in {"scan", "check"} :
                 job' = [job EXCEPT !.step = step, !.doomed = {}, !.keyspace = Keyspaces[place + 1]]

Delete ==
    /\ job.step = "delete"
    /\ references' = IF job.keyspace = "references" THEN references \ job.doomed ELSE references
    /\ statistics' = (statistics /\ (job.keyspace = "statistics" => job.doomed = {}))
    /\ hints' = IF job.keyspace = "hints" THEN hints \ job.doomed ELSE hints
    /\ Advance
    /\ UNCHANGED <<document, outbox, found, quiet, swept, exposed, overlooked, crashes>>

Finish ==
    /\ job.step = "done"
    /\ job' = NoJob
    /\ found' = {}
    /\ swept' = (swept \/ (job.scope.whole /\ quiet))
    /\ UNCHANGED <<document, records, outbox, quiet, exposed, overlooked, crashes>>

\* The request fails, or the daemon restarts: the client starts over, or does not.
Crash ==
    /\ job.step # "none"
    /\ crashes < MaxCrashes
    /\ crashes' = crashes + 1
    /\ job' = NoJob
    /\ found' = {}
    /\ UNCHANGED <<document, records, outbox, quiet, swept, exposed, overlooked>>

Request ==
    \/ Continue \/ ReadPage \/ SkipRecord \/ (\E d \in Doc : Tombstone(d)) \/ PageDone
    \/ clearScopedHints \/ Drain \/ Check \/ Refuse \/ Clear \/ Scan \/ Delete \/ Finish

Next ==
    \/ \E d \in Doc : Admit(d) \/ Hint(d) \/ Expire(d)
    \/ \E scope \in Scope : Begin(scope)
    \/ Publish \/ Request \/ Crash

Spec == Init /\ [][Next]_vars

\* The request and the worker go on.
FairSpec == Spec /\ WF_vars(Request) /\ WF_vars(Publish)
-----------------------------------------------------------------------------
\* The documents are numbered, in the order of their keys.
RedactionAssumption ==
    /\ IsFiniteSet(Doc) /\ Doc # {} /\ Doc = 1..Cardinality(Doc)
    /\ BatchSize \in Nat /\ PageSize \in Nat /\ MaxCrashes \in Nat
    /\ Others \in Nat /\ ScanLimit \in Nat

TypeOK ==
    /\ document \in [Doc -> {"absent", "live", "retired"}]
    /\ references \subseteq Doc
    /\ statistics \in BOOLEAN
    /\ hints \subseteq Doc
    /\ Len(outbox) <= 2 * Cardinality(Doc)
    /\ job.cursor \in 0..HintsCursor
    /\ job.scanned \in 0..BatchSize
    /\ job.page \subseteq Doc /\ job.doomed \subseteq Doc /\ found \subseteq Doc
    /\ exposed \subseteq Doc /\ overlooked \subseteq Doc

\* A redaction that is answered "complete" has retired every document of its scope that
\* was live when it began, whatever batches, pages and cursors came between: except one
\* whose reference an earlier purge took (LiveRecordsKept), which no redaction finds.
RedactionComplete ==
    job.step \in {"drain", "check", "verdict", "scan", "delete", "done"} =>
        \A d \in found \ (exposed \union overlooked) : document[d] # "live"

\* A purged project has nothing left, and the worker brings nothing back, until something
\* is admitted, or a document the purge did not see expires.
NothingLeft == swept => references = {} /\ ~statistics /\ hints = {}

\* The purge does not take the reference of a live document, except of one admitted
\* between its check and its sweep, or one its check did not come to; and it comes to every
\* document unless the archive holds more than it reads (firstUnretiredDocument).
LiveRecordsKept ==
    /\ \A d \in Doc : document[d] = "live" => d \in references \union exposed \union overlooked
    /\ overlooked # {} => Cardinality(Present) + Others > ScanLimit

\* The three together, whatever the batches, the crashes and the admissions in between
\* (redact, purgeProjectRecords).
RedactionFinal == TypeOK /\ RedactionComplete /\ NothingLeft /\ LiveRecordsKept

\* The same without the exceptions: the purge refuses "while any document version in the
\* project is still readable, so a mis-targeted call cannot delete the index records
\* backing live content".
NoLiveRecordPurged == \A d \in Doc : document[d] = "live" => d \in references

\* A redaction comes to an end, unless hints are frozen again and again while it clears.
RedactionEnds ==
    <>[][\A d \in Doc : ~Hint(d)]_vars => (job.step # "none" ~> job.step = "none")
=============================================================================
