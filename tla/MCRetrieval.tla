----------------------------- MODULE MCRetrieval -----------------------------
(***************************************************************************)
(* What retrieval reads, each part checked on its own in one run: the      *)
(* lexical index (twice: two versions, two documents), the exact postings  *)
(* and their lookup, the index of what was said last, the frozen hints, a  *)
(* search and a gather, the ranges of a document, the vectors and the      *)
(* model processes; and the redaction of a project, after which nothing of *)
(* it is to be read any more.  The redaction is the part whose module is   *)
(* extended.                                                               *)
(***************************************************************************)
EXTENDS ProjectRedaction

CONSTANTS s1, s2, k1, k2, r1, r2, r3, r4, q1, q2, b1, b2, None

VARIABLES
    part,
    L_admitted, L_retired, L_doomed, L_cleaned, L_outbox, L_published, L_plan, L_current,
    L_meta, L_corpus, L_df, L_postings, L_copies, L_refs, L_layout, L_phase,
    B_admitted, B_retired, B_doomed, B_cleaned, B_outbox, B_published, B_plan, B_current,
    B_meta, B_corpus, B_df, B_postings, B_copies, B_refs, B_layout, B_phase,
    A_text, A_left, A_groups, A_mutations, A_observed, A_omitted, A_staged,
    E_forms, E_status, E_visible, E_query, E_purpose, E_workLimit, E_phase, E_mode,
    E_anchors, E_before, E_page, E_last, E_physical, E_postingsRead, E_buckets,
    E_truncated, E_candidates, E_expired, E_ranked, E_results,
    H_now, H_doc, H_guard, H_record, H_activity, H_pointer, H_checks, H_exposure,
    H_expiries, H_queue, H_call, H_sweep, H_shown, H_seen,
    V_canon, V_owed, V_target, V_backup, V_state, V_counted, V_queue, V_job, V_unavailable,
    V_warmed, V_rebuild, V_removal, V_rebuilds, V_purges, V_faults, V_crashes, V_cut,
    V_stranded,
    R_call, R_installed, R_unavailable, R_closed, R_timeouts, R_client, R_pending,
    R_process, R_inbox, R_idleTimer, R_waitsFor, R_inFlightAtIdle,
    G_canon, G_indexed, G_leases, G_locators, G_call, G_clock, G_searches,
    W_text, W_chunks, W_windows, W_request, W_open, W_recalled, W_shown, W_seen,
    M_embed, M_thread, M_channel, M_foreground, M_background, M_running, M_results,
    M_overtaken,
    S_docs, S_applied, S_published, S_retired, S_postings, S_shards, S_decisions

\* The versions of a document have different windows and terms.
WindowsOf == [d \in {1, 2} |-> [v \in {1, 2} |-> IF v = 1 THEN d ELSE 1]]
FrequencyOf == [d \in {1, 2} |-> [v \in {1, 2} |-> [t \in {"a", "b"} |->
    IF ((t = "a") = (v = 1)) \/ d = 2 THEN 1 ELSE 0]]]
AncestorsOf == [s \in {s1, s2} |-> IF s = s2 THEN {s1} ELSE {}]
\* Anchors that fold to one term, and one whose case does not matter.
Anchors == {[form |-> "Foo", specific |-> 2, sensitive |-> TRUE],
            [form |-> "foo", specific |-> 1, sensitive |-> TRUE],
            [form |-> "FOO", specific |-> 1, sensitive |-> TRUE],
            [form |-> "c0ffee", specific |-> 2, sensitive |-> FALSE]}
Folded(form) == IF form = "c0ffee" THEN form ELSE "foo"
WindowAt(position) == IF position <= 4 THEN 1 ELSE 2
BucketOf(d) == d
BatchesOf == <<1, 2>>
\* What finds each document, and what is asked.
FoundBy == <<{"exact", "semantic"}, {"lexical", "semantic"}, {"expansion", "structural"}>>
Searches ==
    {[kind |-> "search", scope |-> "project", wide |-> TRUE, related |-> TRUE],
     [kind |-> "gather", scope |-> "session", wide |-> FALSE, related |-> FALSE]}
\* Texts with long characters, blanks and lines, and the budgets they are recalled with.
Archived ==
    [1 .. 2 -> {"w", "W", " ", "n", "."}] \cup [1 .. 4 -> {"W", " ", "."}]
    \cup [1 .. 4 -> {"w", "n", "W"}] \cup [1 .. 5 -> {"w", " "}] \cup {<<>>}
Recalls ==
    {[tokens |-> 1, neighbors |-> 0, expand |-> FALSE, turn |-> FALSE, room |-> 2],
     [tokens |-> 2, neighbors |-> 0, expand |-> FALSE, turn |-> FALSE, room |-> 6],
     [tokens |-> 2, neighbors |-> 1, expand |-> TRUE, turn |-> FALSE, room |-> 3],
     [tokens |-> 3, neighbors |-> 1, expand |-> FALSE, turn |-> TRUE, room |-> 4]}
\* Documents with two messages, with none, with messages that overlap, and decisions.
Said(text, relations, score) == [text |-> text, scores |-> [r \in relations |-> score]]
Document(session, kind, text, messages) ==
    [session |-> session, kind |-> kind, text |-> text, messages |-> messages,
     sourced |-> kind = "decision-candidate"]
Documents ==
    {Document(1, "turn", <<"a", "b", "b", "a">>,
              <<Said(<<"a", "b">>, {"request"}, 40), Said(<<"b", "a">>, {"request", "answer"}, 60)>>),
     Document(2, "turn", <<"a", "a", "a", "b">>,
              <<Said(<<"a", "a", "b">>, {"request", "answer"}, 60)>>),
     Document(1, "turn", <<"a", "b", "a">>,
              <<Said(<<"a", "b">>, {"request"}, 60), Said(<<"b", "a">>, {"request"}, 60)>>),
     Document(4, "turn", <<"b">>, <<Said(<<"b">>, {"request"}, 60)>>),
     Document(1, "turn", <<"a">>, <<>>),
     Document(1, "decision-candidate", <<"b">>, <<>>),
     Document(2, "decision-candidate", <<"b">>, <<>>)}
Asked(relation, terms, lineage, scope, limit) ==
    [relation |-> relation, terms |-> terms, project |-> 1, lineage |-> lineage,
     scope |-> scope, limit |-> limit]
Lookups ==
    {Asked("request", {}, <<1, 2>>, "session", 2), Asked("answer", {"b"}, <<2, 1>>, "session", 1),
     Asked("request", {"a"}, <<1>>, "project", 2), Asked("request", {}, <<1>>, "all", 1)}

\* The documents to redact are of two sessions.
SessionOf == <<1, 2>>
redactionVars == vars
ASSUME ProjectAssumption == RedactionAssumption

L == INSTANCE LexicalIndex WITH
    Doc <- {1}, MaxVersion <- 2, Term <- {"a", "b"}, Windows <- WindowsOf,
    Frequency <- FrequencyOf, MaxGen <- 4, None <- None, admitted <- L_admitted,
    retired <- L_retired, doomed <- L_doomed, cleaned <- L_cleaned, outbox <- L_outbox,
    published <- L_published, plan <- L_plan, current <- L_current, meta <- L_meta,
    corpus <- L_corpus, df <- L_df, postings <- L_postings, copies <- L_copies,
    refs <- L_refs, layout <- L_layout, phase <- L_phase
versionsVars ==
    <<L_admitted, L_retired, L_doomed, L_cleaned, L_outbox, L_published, L_plan, L_current,
      L_meta, L_corpus, L_df, L_postings, L_copies, L_refs, L_layout, L_phase>>

B == INSTANCE LexicalIndex WITH
    Doc <- {1, 2}, MaxVersion <- 1, Term <- {"a"}, Windows <- WindowsOf,
    Frequency <- FrequencyOf, MaxGen <- 4, None <- None, admitted <- B_admitted,
    retired <- B_retired, doomed <- B_doomed, cleaned <- B_cleaned, outbox <- B_outbox,
    published <- B_published, plan <- B_plan, current <- B_current, meta <- B_meta,
    corpus <- B_corpus, df <- B_df, postings <- B_postings, copies <- B_copies,
    refs <- B_refs, layout <- B_layout, phase <- B_phase
documentsVars ==
    <<B_admitted, B_retired, B_doomed, B_cleaned, B_outbox, B_published, B_plan, B_current,
      B_meta, B_corpus, B_df, B_postings, B_copies, B_refs, B_layout, B_phase>>

A == INSTANCE ExactPostings WITH
    Anchor <- Anchors, FoldedForm <- Folded, WindowOf <- WindowAt, MaxAnchors <- 5,
    MatchesPerPosting <- 2, MaxMutations <- 4, text <- A_text, left <- A_left,
    groups <- A_groups, mutations <- A_mutations, observed <- A_observed,
    omitted <- A_omitted, staged <- A_staged
anchorsVars ==
    <<A_text, A_left, A_groups, A_mutations, A_observed, A_omitted, A_staged>>

E == INSTANCE ExactLookup WITH
    Doc <- {1, 2}, Bucket <- BucketOf, Form <- {"Foo", "foo"}, FoldedForm <- Folded,
    Query <- {{"Foo"}, {"Foo", "foo"}}, PageSize <- 1, ScanLimit <- 4, WorkLimits <- {2},
    BucketLimit <- 1, ResultLimit <- 1, forms <- E_forms, status <- E_status,
    visible <- E_visible, query <- E_query, purpose <- E_purpose, workLimit <- E_workLimit,
    phase <- E_phase, mode <- E_mode, anchors <- E_anchors, before <- E_before,
    page <- E_page, last <- E_last, physical <- E_physical, postingsRead <- E_postingsRead,
    buckets <- E_buckets, truncated <- E_truncated, candidates <- E_candidates,
    expired <- E_expired, ranked <- E_ranked, results <- E_results
exactVars ==
    <<E_forms, E_status, E_visible, E_query, E_purpose, E_workLimit, E_phase, E_mode,
      E_anchors, E_before, E_page, E_last, E_physical, E_postingsRead, E_buckets,
      E_truncated, E_candidates, E_expired, E_ranked, E_results>>

H == INSTANCE FrozenHints WITH
    Session <- {s1, s2}, Ancestors <- AncestorsOf, Key <- {k1, k2}, Doc <- {1},
    Call <- {1, 2}, HintBudget <- 1, Budget <- 1, Cooldown <- 1, Inactivity <- 1,
    MaxTime <- 2, None <- None, now <- H_now, doc <- H_doc, guard <- H_guard,
    record <- H_record, activity <- H_activity, pointer <- H_pointer, checks <- H_checks,
    exposure <- H_exposure, expiries <- H_expiries, queue <- H_queue, call <- H_call,
    sweep <- H_sweep, shown <- H_shown, seen <- H_seen
hintsVars ==
    <<H_now, H_doc, H_guard, H_record, H_activity, H_pointer, H_checks, H_exposure,
      H_expiries, H_queue, H_call, H_sweep, H_shown, H_seen>>

V == INSTANCE SemanticIndex WITH
    Doc <- {1, 2}, Batches <- BatchesOf, MaxRebuilds <- 1, MaxPurges <- 1, MaxFaults <- 1,
    MaxCrashes <- 2, canon <- V_canon, owed <- V_owed, target <- V_target,
    backup <- V_backup, state <- V_state, counted <- V_counted, queue <- V_queue,
    job <- V_job, unavailable <- V_unavailable, warmed <- V_warmed, rebuild <- V_rebuild,
    removal <- V_removal, rebuilds <- V_rebuilds, purges <- V_purges, faults <- V_faults,
    crashes <- V_crashes, cut <- V_cut, stranded <- V_stranded
vectorsVars ==
    <<V_canon, V_owed, V_target, V_backup, V_state, V_counted, V_queue, V_job,
      V_unavailable, V_warmed, V_rebuild, V_removal, V_rebuilds, V_purges, V_faults,
      V_crashes, V_cut, V_stranded>>

R == INSTANCE Reranker WITH
    Request <- {r1, r2, r3, r4}, MaxConsecutiveTimeouts <- 2, MaxProcesses <- 2,
    call <- R_call, installed <- R_installed, unavailable <- R_unavailable,
    closed <- R_closed, timeouts <- R_timeouts, client <- R_client, pending <- R_pending,
    process <- R_process, inbox <- R_inbox, idleTimer <- R_idleTimer,
    waitsFor <- R_waitsFor, inFlightAtIdle <- R_inFlightAtIdle
rerankerVars ==
    <<R_call, R_installed, R_unavailable, R_closed, R_timeouts, R_client, R_pending,
      R_process, R_inbox, R_idleTimer, R_waitsFor, R_inFlightAtIdle>>

G == INSTANCE ArchiveSearch WITH
    Doc <- {1, 2, 3}, Archived <- {1, 2}, Found <- FoundBy, InSession <- {1, 2},
    Twins <- {2, 3}, Requests <- Searches, Limit <- 2, Neighbors <- 1, MaxEvidence <- 2,
    Ttl <- 1, MaxTime <- 1, MaxSearches <- 1, canon <- G_canon, indexed <- G_indexed,
    leases <- G_leases, locators <- G_locators, call <- G_call, clock <- G_clock,
    searches <- G_searches
searchVars ==
    <<G_canon, G_indexed, G_leases, G_locators, G_call, G_clock, G_searches>>

W == INSTANCE SourceRanges WITH
    Texts <- Archived, MaxChunkBytes <- 3, MinLineSplit <- 2, WindowTokens <- 2,
    OverlapTokens <- 1, BytesPerToken <- 3, SnippetBytes <- 2, Requests <- Recalls,
    text <- W_text, chunks <- W_chunks, windows <- W_windows, request <- W_request,
    open <- W_open, recalled <- W_recalled, shown <- W_shown, seen <- W_seen
rangesVars ==
    <<W_text, W_chunks, W_windows, W_request, W_open, W_recalled, W_shown, W_seen>>

M == INSTANCE Embedder WITH
    Query <- {q1, q2}, Batch <- {b1, b2}, embed <- M_embed, thread <- M_thread,
    channel <- M_channel, foreground <- M_foreground, background <- M_background,
    running <- M_running, results <- M_results, overtaken <- M_overtaken
embedderVars ==
    <<M_embed, M_thread, M_channel, M_foreground, M_background, M_running, M_results,
      M_overtaken>>

S == INSTANCE StructuralIndex WITH
    Contents <- Documents, ProjectOf <- <<1, 1, 1, 2>>, Relations <- {"request", "answer"},
    Requests <- Lookups, MaxMessages <- 2, SourceScan <- 4, Inline <- 1, Shard <- 2,
    Page <- 2, ScanLimit <- 3, Physical <- 5, MaxDocs <- 3, docs <- S_docs,
    applied <- S_applied, published <- S_published, retired <- S_retired,
    postings <- S_postings, shards <- S_shards, decisions <- S_decisions
structuralVars ==
    <<S_docs, S_applied, S_published, S_retired, S_postings, S_shards, S_decisions>>

\* Where a part waits that is not the one to be checked (the redaction has one initial state).
versionsParked == L!Init
documentsParked == B!Init
anchorsParked == A_text = <<>> /\ A!Init
exactParked == E_forms = [d \in {1, 2} |-> {}] /\ E_status = [d \in {1, 2} |-> "live"]
    /\ E_visible = [d \in {1, 2} |-> FALSE] /\ E_query = {"Foo"} /\ E_purpose = "boost" /\ E_workLimit = 2 /\ E!Init
hintsParked == H!Init
vectorsParked == V!Init
rerankerParked == R_installed = TRUE /\ R!Init
searchParked == G!Init
rangesParked == W_text = <<>> /\ W_request = [tokens |-> 1, neighbors |-> 0, expand |-> FALSE, turn |-> FALSE, room |-> 2] /\ W!Init
embedderParked == M!Init
structuralParked == S!Init

RetrievalInit ==
    /\ part \in {"versions", "documents", "anchors", "exact", "hints", "vectors", "reranker", "search", "ranges", "embedder",
                "structural", "redaction"}
    /\ Init
    /\ IF part = "versions" THEN L!Init ELSE versionsParked
    /\ IF part = "documents" THEN B!Init ELSE documentsParked
    /\ IF part = "anchors" THEN A!Init ELSE anchorsParked
    /\ IF part = "exact" THEN E!Init ELSE exactParked
    /\ IF part = "hints" THEN H!Init ELSE hintsParked
    /\ IF part = "vectors" THEN V!Init ELSE vectorsParked
    /\ IF part = "reranker" THEN R!Init ELSE rerankerParked
    /\ IF part = "search" THEN G!Init ELSE searchParked
    /\ IF part = "ranges" THEN W!Init ELSE rangesParked
    /\ IF part = "embedder" THEN M!Init ELSE embedderParked
    /\ IF part = "structural" THEN S!Init ELSE structuralParked

versionsNext == part = "versions" /\ L!Next
    /\ UNCHANGED <<part, documentsVars, anchorsVars, exactVars, hintsVars, vectorsVars,
            rerankerVars, searchVars, rangesVars, embedderVars, structuralVars, redactionVars>>
documentsNext == part = "documents" /\ B!Next
    /\ UNCHANGED <<part, versionsVars, anchorsVars, exactVars, hintsVars, vectorsVars,
            rerankerVars, searchVars, rangesVars, embedderVars, structuralVars, redactionVars>>
anchorsNext == part = "anchors" /\ A!Next
    /\ UNCHANGED <<part, versionsVars, documentsVars, exactVars, hintsVars, vectorsVars,
            rerankerVars, searchVars, rangesVars, embedderVars, structuralVars, redactionVars>>
exactNext == part = "exact" /\ E!Next
    /\ UNCHANGED <<part, versionsVars, documentsVars, anchorsVars, hintsVars, vectorsVars,
            rerankerVars, searchVars, rangesVars, embedderVars, structuralVars, redactionVars>>
hintsNext == part = "hints" /\ H!Next
    /\ UNCHANGED <<part, versionsVars, documentsVars, anchorsVars, exactVars, vectorsVars,
            rerankerVars, searchVars, rangesVars, embedderVars, structuralVars, redactionVars>>
vectorsNext == part = "vectors" /\ V!Next
    /\ UNCHANGED <<part, versionsVars, documentsVars, anchorsVars, exactVars, hintsVars,
            rerankerVars, searchVars, rangesVars, embedderVars, structuralVars, redactionVars>>
rerankerNext == part = "reranker" /\ R!Next
    /\ UNCHANGED <<part, versionsVars, documentsVars, anchorsVars, exactVars, hintsVars,
            vectorsVars, searchVars, rangesVars, embedderVars, structuralVars, redactionVars>>
searchNext == part = "search" /\ G!Next
    /\ UNCHANGED <<part, versionsVars, documentsVars, anchorsVars, exactVars, hintsVars,
            vectorsVars, rerankerVars, rangesVars, embedderVars, structuralVars, redactionVars>>
rangesNext == part = "ranges" /\ W!Next
    /\ UNCHANGED <<part, versionsVars, documentsVars, anchorsVars, exactVars, hintsVars,
            vectorsVars, rerankerVars, searchVars, embedderVars, structuralVars, redactionVars>>
embedderNext == part = "embedder" /\ M!Next
    /\ UNCHANGED <<part, versionsVars, documentsVars, anchorsVars, exactVars, hintsVars,
            vectorsVars, rerankerVars, searchVars, rangesVars, structuralVars, redactionVars>>
structuralNext == part = "structural" /\ S!Next
    /\ UNCHANGED <<part, versionsVars, documentsVars, anchorsVars, exactVars, hintsVars,
            vectorsVars, rerankerVars, searchVars, rangesVars, embedderVars, redactionVars>>
redactionNext == part = "redaction" /\ Next
    /\ UNCHANGED <<part, versionsVars, documentsVars, anchorsVars, exactVars, hintsVars,
            vectorsVars, rerankerVars, searchVars, rangesVars, embedderVars, structuralVars>>

RetrievalNext ==
    \/ versionsNext \/ documentsNext \/ anchorsNext \/ exactNext
    \/ hintsNext \/ vectorsNext \/ rerankerNext \/ searchNext
    \/ rangesNext \/ embedderNext \/ structuralNext \/ redactionNext

retrievalVars == <<part, versionsVars, documentsVars, anchorsVars, exactVars, hintsVars,
            vectorsVars, rerankerVars, searchVars, rangesVars, embedderVars, structuralVars, redactionVars>>

RetrievalSpec == RetrievalInit /\ [][RetrievalNext]_retrievalVars
-----------------------------------------------------------------------------
\* What the indexes say of the published generation is what was indexed, and they never come
\* to contradict themselves; the anchors of a text are all found or said to be left out, and
\* a lookup that was not cut short missed nothing; what was said last is what the documents
\* say (createBm25IndexHandler, searchBm25, exactMutationsForAnchors, lookupExact,
\* createStructuralIndexHandler, lookupStructural, lookupDecisionEvidence).
IndexesExact ==
    /\ part = "versions" => L!TypeOK /\ L!StatisticsExact /\ L!SearchExact /\ L!NeverStuck
    /\ part = "documents" => B!TypeOK /\ B!StatisticsExact /\ B!SearchExact /\ B!NeverStuck
    /\ part = "anchors" => A!ExactPostingsSound
    /\ part = "exact" => E!ExactLookupSound
    /\ part = "structural" => S!TypeOK /\ S!ShownExactly /\ S!NewestConsidered
                              /\ S!AnswersTrue /\ S!DecisionsNewest /\ S!LocatedIfPossible

\* What is shown, asked for or not: a hint is not repeated, and is accounted for until it is
\* removed or abandoned; a search returns what it found and is live, in order, under a lease
\* that lasts; a recall stays in its budget and shows its match, and the source it answers
\* with leads on through the whole document if the budget holds a window or the text has no
\* blanks (preflightArchive, searchArchive, gatherArchive, recallArchive).
AnswersSound ==
    /\ part = "hints" => H!TypeOK /\ H!HintsAccounted /\ H!NotRepeated /\ H!LeasesEnd
    /\ part = "search" => G!TypeOK /\ G!SearchSound
    /\ part = "ranges" => W!RangesSound

\* The vectors a search may read are whole, unless two writes were cut short, and those of
\* every document are there or owed; a removal that is carried through, and meets no rebuild,
\* leaves none of its project; a request to a model process is answered by its own answer,
\* and the process that timed out too often is asked no more (LocalSemanticIndex,
\* LocalReranker, LocalEmbedder).
SemanticSound ==
    /\ part = "vectors" => V!TypeOK /\ V!LoadedWhole /\ V!AllServed /\ V!ViewIsCurrent
                           /\ V!Accounted /\ V!RemovedIsGone
    /\ part = "reranker" => R!RerankerTypeOK /\ R!RerankerSound
    /\ part = "embedder" => M!EmbedderSound

\* A hint is live when it is frozen, one per message and lineage, and what was frozen stays
\* (freezeHint, preflightArchive).
FrozenRightly == H!RevealedLive /\ H!FrozenStays /\ H!OneDecision

=============================================================================
