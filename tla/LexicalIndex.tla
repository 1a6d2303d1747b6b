---------------------------- MODULE LexicalIndex ----------------------------
(***************************************************************************)
(* The BM25 index of one project (rocksdb/index/bm25-write.js, bm25-keys.js *)
(* and bm25-search.js), the cleanup of its rows (derived.js, retention/    *)
(* cleanup.js) and the change of their layout                              *)
(* (posting-storage-maintenance.js).                                       *)
(*                                                                         *)
(* The worker takes one entry of the outbox at a time: it prepares a plan  *)
(* for the next generation from the rows of the store, applies the rows in *)
(* pieces, and publishes the generation together with the pointer to the   *)
(* current version of the document.  Searches read a snapshot, so what one *)
(* returns is a function of the state; what the statistics and the         *)
(* postings say of a generation must be so in every state.                 *)
(***************************************************************************)
EXTENDS Naturals, Sequences, FiniteSets, FiniteSetsExt

CONSTANTS
    Doc, MaxVersion,
    Term,
    Windows,    \* the windows of a version, by document and version
    Frequency,  \* of them, those with a term, never more
    MaxGen,     \* entries ever put in the outbox
    None

Version == 1..MaxVersion
Identity == Doc \X Version

VARIABLES
    admitted,   \* the last version of a document
    retired,    \* versions with a tombstone: superseded or expired
    doomed,     \* versions whose deletion is in the outbox or published
    cleaned,    \* versions whose canonical records are gone
    outbox,     \* what remains to be indexed
    published,  \* the published generation
    plan,       \* what the worker has prepared, and what of it is not applied
    current,    \* the pointer to the indexed version of a document
    meta,       \* versions whose document rows exist, and what they count
    corpus, df, \* statistics: the rows of all generations, and the current row
    postings,   \* canonical rows
    copies,     \* the rows of the sessions
    refs,       \* reverse references, by which cleanup finds rows
    layout,     \* "old" daemons write records, "new" ones blocks and locators
    phase       \* of the migration of the layout

vars == <<admitted, retired, doomed, cleaned, outbox, published, plan, current, meta,
          corpus, df, postings, copies, refs, layout, phase>>
archive == <<admitted, retired, doomed, outbox>>
statistics == <<corpus, df>>
rows == <<meta, postings, copies, refs>>

Phases == <<"sessions", "canonical", "cutover", "grace", "references", "complete">>
Generation == 1..MaxGen
Pieces == <<"terms", "postings", "copies", "corpus">>
NoRow == [generation |-> 0, value |-> 0]
NoPlan == [kind |-> None, doc |-> None, version |-> 0, corpus |-> 0, df |-> [t \in {} |-> 0],
           layout |-> None, refs |-> FALSE, left |-> <<>>]

Init ==
    /\ admitted = [d \in Doc |-> 0]
    /\ retired = {} /\ doomed = {} /\ cleaned = {} /\ outbox = <<>>
    /\ published = 0 /\ plan = NoPlan
    /\ current = [d \in Doc |-> 0] /\ meta = {}
    /\ corpus = [rows |-> {}, current |-> NoRow]
    /\ df = [t \in Term |-> [rows |-> {}, current |-> NoRow]]
    /\ postings = {} /\ copies = {} /\ refs = {}
    /\ layout = "old" /\ phase = Phases[1]

-----------------------------------------------------------------------------
(* Reading.                                                                *)

\* latestVersionedRecord
Latest(table, generation) ==
    LET old == {r \in table.rows : r.generation <= generation}
    IN  IF old = {} THEN NoRow
        ELSE CHOOSE r \in old : \A o \in old : o.generation <= r.generation

\* readBm25Statistics: the current row unless a later generation has written it.
StatisticsAt(table, generation) ==
    IF table.current # NoRow /\ table.current.generation <= generation THEN table.current
    ELSE Latest(table, generation)

\* Whether a posting counts in a search: its generation is published, its version is the
\* one indexed, and it is not retired.
Visible(p) ==
    /\ p.generation <= published
    /\ current[p.doc] = p.version
    /\ <<p.doc, p.version>> \notin retired \union cleaned

Canonical(p) == {c \in postings : c.doc = p.doc /\ c.version = p.version
                                 /\ c.generation = p.generation /\ c.term = p.term}

\* scanTermPostings: a session reads its copies, a locator through its canonical row.
ScannedBy(scope, term) ==
    IF scope = "session"
    THEN {p \in copies : p.term = term /\ (p.form = "locator" => Canonical(p) # {})}
    ELSE {p \in postings : p.term = term}

\* searchBm25, the versions it finds; a term no window has is not looked up.
Found(scope, term) ==
    IF published = 0 \/ StatisticsAt(df[term], published).value = 0
       \/ StatisticsAt(corpus, published).value = 0 THEN {}
    ELSE {<<p.doc, p.version>> : p \in {q \in ScannedBy(scope, term) : Visible(q)}}

-----------------------------------------------------------------------------
(* Archiving: what fills the outbox.                                       *)

Generations == published + Len(outbox) + IF plan = NoPlan THEN 0 ELSE 1

\* A new version retires the one before it.
Admit(d) ==
    /\ admitted[d] < MaxVersion /\ Generations < MaxGen
    /\ admitted' = [admitted EXCEPT ![d] = @ + 1]
    /\ retired' = retired \union ({<<d, admitted[d]>>} \intersect Identity)
    /\ outbox' = Append(outbox, [op |-> "index", doc |-> d, version |-> admitted[d] + 1])
    /\ UNCHANGED <<doomed, cleaned, published, plan, current, statistics, rows, layout, phase>>

\* Expiry or redaction of a version.
Expire(d, v) ==
    /\ v <= admitted[d] /\ <<d, v>> \notin doomed /\ Generations < MaxGen
    /\ retired' = retired \union {<<d, v>>} /\ doomed' = doomed \union {<<d, v>>}
    /\ outbox' = Append(outbox, [op |-> "delete", doc |-> d, version |-> v])
    /\ UNCHANGED <<admitted, cleaned, published, plan, current, statistics, rows, layout, phase>>

-----------------------------------------------------------------------------
(* The worker.                                                             *)

\* corpusBefore and termStatisticsBefore
Before(table) == IF table.current # NoRow THEN table.current ELSE Latest(table, published)

Counted(d, v) == Windows[d][v]

\* What a handler refuses for ever, because a row contradicts another.
Refused(entry) ==
    LET d == entry.doc  v == entry.version
        of == current[d]
        taken == IF of = 0 THEN 0 ELSE Counted(d, of)
    IN  \/ Before(corpus).generation > published
        \/ \E t \in Term : Before(df[t]).generation > published
        \/ of # 0 /\ (entry.op = "index" \/ of = v)
             /\ \/ <<d, of>> \notin meta
                \/ Before(corpus).value < taken
                \/ \E t \in Term : Before(df[t]).value < Frequency[d][of][t]

\* The counts of a plan that takes version `out` from the corpus and adds `in`; 0 is none.
Change(d, out, in) ==
    LET part(v, f(_)) == IF v = 0 THEN 0 ELSE f(v)
        windows(v) == Windows[d][v]
        touched == {t \in Term : \E v \in {out, in} \ {0} : Frequency[d][v][t] > 0}
    IN  [corpus |-> Before(corpus).value + part(in, windows) - part(out, windows),
         df |-> [t \in touched |->
            LET freq(v) == Frequency[d][v][t]
            IN  Before(df[t]).value + part(in, freq) - part(out, freq)]]

\* prepareDelete and the prepare of createBm25IndexHandler; a limit of the preparation skips
\* the document.  Whether rows get references is read before anything is prepared.
Planned(entry, kind) ==
    LET d == entry.doc  v == entry.version
        change == IF kind = "index" THEN Change(d, current[d], v) ELSE Change(d, v, 0)
    IN  [kind |-> kind, doc |-> d, version |-> v, corpus |-> change.corpus, df |-> change.df,
         layout |-> layout, refs |-> phase \in {"sessions", "canonical", "cutover"},
         left |-> Pieces]

Prepare ==
    /\ plan = NoPlan /\ outbox # <<>>
    /\ LET entry == Head(outbox)
       IN  /\ ~Refused(entry)
           /\ \/ entry.op = "index" /\ plan' = Planned(entry, "index")
              \/ /\ entry.op = "delete" /\ current[entry.doc] = entry.version
                 /\ plan' = Planned(entry, "delete")
              \/ /\ entry.op = "index" \/ current[entry.doc] # entry.version
                 /\ plan' = [NoPlan EXCEPT !.kind = "nothing"]
    /\ outbox' = Tail(outbox)
    /\ UNCHANGED <<admitted, retired, doomed, cleaned, published, current, statistics, rows,
                   layout, phase>>

Next1 == published + 1
Row(value) == [generation |-> Next1, value |-> value]

\* The tablets of a plan are applied in the order in which it lists the rows.
Apply(piece) ==
    /\ plan.left # <<>> /\ Head(plan.left) = piece
    /\ plan' = [plan EXCEPT !.left = Tail(@)]

\* The statistics of the terms: a row of the generation, and the current one.
WriteTerms ==
    /\ Apply("terms")
    /\ df' = [t \in Term |-> IF t \in DOMAIN plan.df
                THEN [rows |-> df[t].rows \union {Row(plan.df[t])}, current |-> Row(plan.df[t])]
                ELSE df[t]]
    /\ UNCHANGED <<archive, cleaned, published, current, corpus, rows, layout, phase>>

\* The rows of the windows with a term.
Rows(form) ==
    {[doc |-> plan.doc, version |-> plan.version, generation |-> Next1, term |-> t,
      form |-> form] : t \in {u \in Term : Frequency[plan.doc][plan.version][u] > 0}}

\* addDerivedReferences: of what is written, the rows whose payload names the version; a
\* block and a locator are bytes, and name nothing.
Referenced(kind) ==
    IF plan.layout = "old" THEN {[of |-> kind, row |-> p] : p \in Rows("record")}
    ELSE {}

\* documentMetadata and the postings of its windows
WritePostings ==
    /\ Apply("postings")
    /\ IF plan.kind # "index" THEN UNCHANGED <<meta, postings>>
       ELSE /\ meta' = meta \union {<<plan.doc, plan.version>>}
            /\ postings' = postings \union Rows(IF plan.layout = "old" THEN "record" ELSE "block")
    /\ UNCHANGED <<archive, cleaned, published, current, statistics, copies, refs, layout, phase>>

\* The postings of its session
WriteCopies ==
    /\ Apply("copies")
    /\ copies' = IF plan.kind # "index" THEN copies
                 ELSE copies \union Rows(IF plan.layout = "old" THEN "record" ELSE "locator")
    /\ UNCHANGED <<archive, cleaned, published, current, statistics, meta, postings, refs,
                   layout, phase>>

\* The statistics of the corpus, and the references the worker has added to the plan.
WriteCorpus ==
    /\ Apply("corpus")
    /\ corpus' = [rows |-> corpus.rows \union {Row(plan.corpus)}, current |-> Row(plan.corpus)]
    /\ refs' = refs \union
         IF plan.kind # "index" \/ ~plan.refs THEN {} ELSE
           Referenced("posting") \union Referenced("copy")
             \union {[of |-> "meta", row |-> [doc |-> plan.doc, version |-> plan.version]]}
    /\ UNCHANGED <<archive, cleaned, published, current, df, meta, postings, copies, layout, phase>>

\* publishGeneration: the pointer changes with the generation.
Publish ==
    /\ plan # NoPlan /\ plan.left = <<>>
    /\ published' = published + 1
    /\ current' = CASE plan.kind = "index" -> [current EXCEPT ![plan.doc] = plan.version]
                    [] plan.kind = "delete" -> [current EXCEPT ![plan.doc] = 0]
                    [] OTHER -> current
    /\ plan' = NoPlan
    /\ UNCHANGED <<archive, cleaned, statistics, rows, layout, phase>>

-----------------------------------------------------------------------------
(* Cleanup.                                                                *)

\* isOutboxSequenceProcessed
DeletePublished(d, v) ==
    /\ <<d, v>> \in doomed
    /\ ~\E i \in 1..Len(outbox) : outbox[i] = [op |-> "delete", doc |-> d, version |-> v]
    /\ ~(plan.kind = "delete" /\ plan.doc = d /\ plan.version = v)

\* cleanupDerivedPhase, one page: the target goes if it still names the version.
CleanReference(r) ==
    /\ r \in refs /\ refs' = refs \ {r}
    /\ DeletePublished(r.row.doc, r.row.version) /\ <<r.row.doc, r.row.version>> \notin cleaned
    /\ meta' = IF r.of = "meta" THEN meta \ {<<r.row.doc, r.row.version>>} ELSE meta
    /\ postings' = IF r.of = "posting" THEN postings \ {r.row} ELSE postings
    /\ copies' = IF r.of = "copy" THEN copies \ {r.row} ELSE copies
    /\ UNCHANGED <<archive, cleaned, published, plan, current, statistics, layout, phase>>

CleanDocument(d, v) ==
    /\ DeletePublished(d, v) /\ <<d, v>> \notin cleaned
    /\ ~\E r \in refs : r.row.doc = d /\ r.row.version = v
    /\ cleaned' = cleaned \union {<<d, v>>}
    /\ UNCHANGED <<archive, published, plan, current, statistics, rows, layout, phase>>

-----------------------------------------------------------------------------
(* The change of the layout.                                               *)

\* A daemon that writes the new layout starts, and resumes what the old one had prepared.
Upgrade ==
    /\ layout = "old" /\ layout' = "new"
    /\ UNCHANGED <<archive, cleaned, published, plan, current, statistics, rows, phase>>

Records(table) == {p \in table : p.form = "record"}
Rewritten(table, p, form) == (table \ {p}) \union {[p EXCEPT !.form = form]}

\* rewriteBm25SessionPostingLocators leaves the copy of a retired version whose canonical
\* row is gone, and refuses any other without one.
Resolvable(p) == Canonical(p) # {}

RewriteCopy(p) ==
    /\ layout = "new" /\ phase = "sessions" /\ p \in Records(copies) /\ Resolvable(p)
    /\ copies' = Rewritten(copies, p, "locator")
    /\ UNCHANGED <<archive, cleaned, published, plan, current, statistics, meta, postings, refs,
                   layout, phase>>

RewritePosting(p) ==
    /\ layout = "new" /\ phase = "canonical" /\ p \in Records(postings)
    /\ postings' = Rewritten(postings, p, "block")
    /\ UNCHANGED <<archive, cleaned, published, plan, current, statistics, meta, copies, refs,
                   layout, phase>>

Stuck == phase = "sessions" /\ layout = "new"
    /\ \E p \in Records(copies) : p.generation <= published
         /\ \/ ~Resolvable(p) /\ <<p.doc, p.version>> \notin retired
            \/ \E c \in Canonical(p) : c.form # "record"

\* The next phase: no page is left, the ordinal view is verified, the grace is over.
Advance ==
    /\ layout = "new" /\ phase # "complete"
    /\ phase = "sessions" => \A p \in Records(copies) : ~Resolvable(p) \/ p.generation > published
    /\ phase = "canonical" => \A p \in Records(postings) : p.generation > published
    /\ phase = "references" => refs = {}
    /\ \E i \in 1..5 : Phases[i] = phase /\ phase' = Phases[i + 1]
    /\ UNCHANGED <<archive, cleaned, published, plan, current, statistics, rows, layout>>

\* garbageCollectReverseCleanupReferences
DropReference(r) ==
    /\ phase = "references" /\ r \in refs /\ refs' = refs \ {r}
    /\ UNCHANGED <<archive, cleaned, published, plan, current, statistics, meta, postings,
                   copies, layout, phase>>

Next ==
    \/ \E d \in Doc : Admit(d)
    \/ \E d \in Doc, v \in Version : Expire(d, v) \/ CleanDocument(d, v)
    \/ Prepare \/ WriteTerms \/ WritePostings \/ WriteCopies \/ WriteCorpus \/ Publish
    \/ \E r \in refs : CleanReference(r) \/ DropReference(r)
    \/ Upgrade \/ Advance
    \/ \E p \in copies : RewriteCopy(p)
    \/ \E p \in postings : RewritePosting(p)

Spec == Init /\ [][Next]_vars
-----------------------------------------------------------------------------
RowOf(form) == [doc : Doc, version : Version, generation : Generation, term : Term, form : form]

TypeOK ==
    /\ admitted \in [Doc -> 0..MaxVersion] /\ current \in [Doc -> 0..MaxVersion]
    /\ retired \subseteq Identity /\ doomed \subseteq retired /\ cleaned \subseteq doomed
    /\ published \in 0..MaxGen /\ meta \subseteq Identity
    /\ postings \subseteq RowOf({"record", "block"})
    /\ copies \subseteq RowOf({"record", "locator"})
    /\ layout \in {"old", "new"} /\ \E i \in 1..6 : phase = Phases[i]
    /\ plan.left \in {<<>>} \union {SubSeq(Pieces, i, 4) : i \in 1..4}

\* The statistics a search of the published generation reads are those of the versions that
\* generation has indexed, however many replacements and deletions were added up and while
\* the rows of the next one are being written (prepareDelete, corpusBefore,
\* readBm25Statistics).
StatisticsExact ==
    LET indexed == {d \in Doc : current[d] # 0}
    IN  /\ StatisticsAt(corpus, published).value =
             MapThenSumSet(LAMBDA d : Windows[d][current[d]], indexed)
        /\ \A t \in Term : StatisticsAt(df[t], published).value =
             MapThenSumSet(LAMBDA d : Frequency[d][current[d]][t], indexed)

\* A search finds exactly the live indexed versions with the term, in the project and in a
\* session, whatever of the layout has been rewritten and of retired versions been cleaned
\* (searchBm25, resolveSessionPostingLocators).
SearchExact == \A t \in Term, scope \in {"project", "session"} :
    Found(scope, t) = {<<d, current[d]>> : d \in {e \in Doc : current[e] # 0
        /\ <<e, current[e]>> \notin retired /\ Frequency[e][current[e]][t] > 0}}

\* The index never comes to contradict itself: no entry meets a row that makes its handler
\* refuse it for ever, and no copy stops the migration (prepare, rewriteRecords).
NeverStuck ==
    /\ plan = NoPlan /\ outbox # <<>> => ~Refused(Head(outbox))
    /\ ~Stuck

\* retention.md: the posting ranges of a deleted version are deleted.
PostingsDeleted == \A p \in postings \union copies : <<p.doc, p.version>> \notin cleaned
=============================================================================
