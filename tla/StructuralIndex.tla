--------------------------- MODULE StructuralIndex ---------------------------
(***************************************************************************)
(* The index of what was said last (src/rocksdb/index/structural.js and    *)
(* decisions.js): which message of a session was its latest question,      *)
(* request, correction, answer or decision.  A document is indexed by its  *)
(* messages, a turn without any as a whole, a decision under its session,  *)
(* its project and all.  A long text is stored in shards beside its        *)
(* postings, which need all of them.                                       *)
(*                                                                         *)
(* A lookup reads a snapshot, so its answer is a function of the state.    *)
(* Texts are sequences of words.  A document is numbered by its place in   *)
(* the outbox, which is its generation too; it has one version.            *)
(***************************************************************************)
EXTENDS Integers, Sequences, FiniteSets, FiniteSetsExt, SequencesExt

CONSTANTS
    Contents,     \* documents: [session, kind, text, messages, sourced]
    ProjectOf,    \* [session -> project], both numbers
    Relations,    \* those of messages
    Requests,     \* lookups: [relation, terms, project, lineage, scope, limit]
    MaxMessages,  \* MAX_STRUCTURAL_INDEX_MESSAGES
    SourceScan,   \* MAX_STRUCTURAL_SOURCE_SCAN_BYTES_PER_DOCUMENT
    Inline,       \* MAX_INLINE_STRUCTURAL_TEXT_BYTES
    Shard,        \* MAX_STRUCTURAL_TEXT_SHARD_BYTES
    Page,         \* SEARCH_SCAN_PAGE
    ScanLimit,    \* live postings a lookup takes from a prefix
    Physical,     \* postings it reads from a prefix
    MaxDocs       \* bound: documents

VARIABLES
    docs,         \* the documents admitted, in the order of the outbox
    applied,      \* how many of them have their rows written
    published,    \* how many of them are published
    retired,      \* documents with a tombstone
    postings, shards, decisions

vars == <<docs, applied, published, retired, postings, shards, decisions>>
rows == <<postings, shards, decisions>>

Init ==
    /\ docs = <<>> /\ applied = 0 /\ published = 0 /\ retired = {}
    /\ postings = {} /\ shards = {} /\ decisions = {}
-----------------------------------------------------------------------------
(***************************************************************************)
(* Preparation.                                                            *)
(***************************************************************************)
Score(message, relation) ==
    IF relation \in DOMAIN message.scores THEN message.scores[relation] ELSE 0
Indexed(content) ==
    SelectSeq(content.messages, LAMBDA m : \E relation \in Relations : Score(m, relation) > 0)

\* The length of the longest proper prefix of the needle's first n words that ends them.
Border(needle, n) ==
    Max({k \in 0 .. n - 1 : SubSeq(needle, 1, k) = SubSeq(needle, n - k + 1, n)})

RECURSIVE Fallback(_, _, _)
Fallback(needle, matched, word) ==
    IF matched = 0 \/ needle[matched + 1] = word THEN matched
    ELSE Fallback(needle, Border(needle, matched), word)

\* One pass over the text finds the messages in their order, none before the end of the last.
Scanned(text, messages) ==
    LET step(st, i) ==
          IF Len(st.ends) = Len(messages) THEN st ELSE
          LET needle == messages[Len(st.ends) + 1].text
              kept == Fallback(needle, st.matched, text[i])
              matched == IF needle[kept + 1] = text[i] THEN kept + 1 ELSE kept
          IN  IF matched = Len(needle) THEN [ends |-> Append(st.ends, i), matched |-> 0]
              ELSE [st EXCEPT !.matched = matched]
    IN  FoldLeftDomain(LAMBDA st, i : step(st, i), [ends |-> <<>>, matched |-> 0],
                       SubSeq(text, 1, Min({SourceScan, Len(text)})))

Locations(content) ==
    LET messages == Indexed(content)
        ends == Scanned(content.text, messages).ends
    IN  [i \in DOMAIN ends |-> [from |-> ends[i] - Len(messages[i].text), to |-> ends[i]]]

\* A preparation beyond its limits, or with a message that is not found, indexes nothing.
Refused(content) ==
    LET messages == Indexed(content)
    IN  \/ Len(messages) > MaxMessages
        \/ \E i \in DOMAIN messages : messages[i].text = <<>>
        \/ Len(Locations(content)) < Len(messages)

\* splitPostingText
Segments(text) ==
    [n \in 1 .. (Len(text) + Shard - 1) \div Shard |->
       [from |-> (n - 1) * Shard, text |-> SubSeq(text, (n - 1) * Shard + 1, Min({n * Shard, Len(text)}))]]

\* postingStorage: the relations of a message share its shards.
Sharded(text) == Len(text) > Inline

MessagePostings(d, content) ==
    LET messages == Indexed(content) located == Locations(content)
    IN  {[relation |-> relation, doc |-> d, message |-> i, session |-> content.session,
          confidence |-> Score(messages[i], relation), legacy |-> FALSE,
          from |-> located[i].from, to |-> located[i].to,
          text |-> IF Sharded(messages[i].text) THEN <<>> ELSE messages[i].text,
          count |-> IF Sharded(messages[i].text) THEN Len(Segments(messages[i].text)) ELSE 0] :
           <<i, relation>> \in {x \in (DOMAIN messages) \X Relations : Score(messages[x[1]], x[2]) > 0}}

TextShards(d, content) ==
    LET messages == Indexed(content)
    IN  UNION {{[doc |-> d, message |-> i, ordinal |-> n, segment |-> Segments(messages[i].text)[n]] :
                  n \in DOMAIN Segments(messages[i].text)} :
                i \in {j \in DOMAIN messages : Sharded(messages[j].text)}}

Short(content) == Len(content.text) <= Inline

LegacyPostings(d, content) ==
    IF content.kind # "turn" \/ content.messages # <<>> \/ ~Short(content) THEN {}
    ELSE {[relation |-> relation, doc |-> d, message |-> 0, session |-> content.session,
           confidence |-> 0, legacy |-> TRUE, from |-> 0, to |-> Len(content.text),
           text |-> content.text, count |-> 0] : relation \in Relations}

\* createDecisionEvidence, decisionMutation: a decision must name the turn it was taken from.
DecisionRows(d, content) ==
    IF content.kind # "decision-candidate" \/ ~Short(content) \/ ~content.sourced THEN {}
    ELSE {[scope |-> scope, doc |-> d, session |-> content.session, excerpt |-> content.text] :
           scope \in {"session", "project", "all"}}
-----------------------------------------------------------------------------
(***************************************************************************)
(* The worker writes the rows of a document and publishes them later;      *)
(* cleanup removes them later than the tombstone, one table at a time.     *)
(***************************************************************************)
Admit(content) ==
    /\ Len(docs) < MaxDocs /\ docs' = Append(docs, content)
    /\ UNCHANGED <<applied, published, retired, rows>>

Apply ==
    /\ applied = published /\ applied < Len(docs)
    /\ applied' = applied + 1
    /\ LET content == docs[applied']
       IN  IF content.kind = "echo" \/ Refused(content) THEN UNCHANGED rows
           ELSE /\ postings' = postings \cup MessagePostings(applied', content)
                                        \cup LegacyPostings(applied', content)
                /\ shards' = shards \cup TextShards(applied', content)
                /\ decisions' = decisions \cup DecisionRows(applied', content)
    /\ UNCHANGED <<docs, published, retired>>

Publish ==
    /\ published < applied /\ published' = applied
    /\ UNCHANGED <<docs, applied, retired, rows>>

Retire(d) ==
    /\ d \in (DOMAIN docs) \ retired /\ retired' = retired \cup {d}
    /\ UNCHANGED <<docs, applied, published, rows>>

Of(table, d) == {r \in table : r.doc = d}
Clean(d) ==
    /\ d \in retired /\ d <= published
    /\ \/ Of(postings, d) # {} /\ postings' = postings \ Of(postings, d) /\ UNCHANGED <<shards, decisions>>
       \/ Of(shards, d) # {} /\ shards' = shards \ Of(shards, d) /\ UNCHANGED <<postings, decisions>>
       \/ Of(decisions, d) # {} /\ decisions' = decisions \ Of(decisions, d)
          /\ UNCHANGED <<postings, shards>>
    /\ UNCHANGED <<docs, applied, published, retired>>

Next ==
    \/ \E content \in Contents : Admit(content)
    \/ Apply \/ Publish
    \/ \E d \in DOMAIN docs : Retire(d) \/ Clean(d)

Spec == Init /\ [][Next]_vars
-----------------------------------------------------------------------------
(***************************************************************************)
(* Lookup.  A session's postings come newest first; those of a project or  *)
(* of all, one session after another (a project's have numbers in a row).  *)
(***************************************************************************)
Depth(request, session) ==
    IF \E i \in DOMAIN request.lineage : request.lineage[i] = session
      THEN CHOOSE i \in DOMAIN request.lineage : request.lineage[i] = session ELSE 1

InScope(request, session) ==
    CASE request.scope = "all" -> TRUE
      [] request.scope = "project" -> ProjectOf[session] = request.project
      [] OTHER -> ProjectOf[session] = request.project /\ session \in ToSet(request.lineage)

\* scoped, allowedScope
Allowed(request, r) ==
    r.doc <= published /\ r.doc \notin retired /\ InScope(request, r.session)

BySession(p, q) ==
    \/ p.session < q.session
    \/ p.session = q.session /\ (p.doc > q.doc \/ (p.doc = q.doc /\ p.message < q.message))

Within(request) == {s \in DOMAIN ProjectOf : InScope(request, s)}

\* structuralPrefixes, decisionPrefixes: one for each session, or one for all that is in scope.
ScanOrder(request, sorted) ==
    LET of(sessions) == SelectSeq(sorted, LAMBDA r : r.session \in sessions)
    IN  IF request.scope = "session" THEN [i \in DOMAIN request.lineage |-> of({request.lineage[i]})]
        ELSE <<of(Within(request))>>

Scans(request) ==
    ScanOrder(request, SetToSortSeq({p \in postings : p.relation = request.relation}, BySession))
DecisionScans(request) ==
    ScanOrder(request, SetToSortSeq({r \in decisions : r.scope = request.scope},
                                    LAMBDA p, q : p.doc > q.doc))

RECURSIVE Taken(_, _, _, _)
Taken(request, left, live, physical) ==
    LET limit == Min({Page, physical})
        page == SubSeq(left, 1, Min({limit, Len(left)}))
        allowed == {p \in ToSet(page) : Allowed(request, p)}
    IN  IF live <= 0 \/ physical <= 0 THEN {}
        ELSE allowed \cup (IF Len(page) < limit THEN {}
                           ELSE Taken(request, SubSeq(left, limit + 1, Len(left)),
                                      live - Cardinality(allowed), physical - Len(page)))

Considered(request, scans) ==
    UNION {Taken(request, scans[i], Max({request.limit, ScanLimit}), Physical) : i \in DOMAIN scans}

Stored(p) == {s \in shards : s.doc = p.doc /\ s.message = p.message}
Incomplete(p) == p.count > 0 /\ Cardinality(Stored(p)) # p.count

\* postingTextSegments
TextOf(p) ==
    IF p.count = 0 THEN {[from |-> 0, text |-> p.text]} ELSE {s.segment : s \in Stored(p)}
MatchesQuery(text, terms) == terms = {} \/ ToSet(text) \cap terms # {}

\* structuralEligible: the first segment that matches is what is shown.
Eligible(request) ==
    {[of |-> p, segment |-> CHOOSE s \in TextOf(p) : MatchesQuery(s.text, request.terms)
        /\ \A t \in TextOf(p) : MatchesQuery(t.text, request.terms) => s.from <= t.from] :
      p \in {q \in Considered(request, Scans(request)) : \E s \in TextOf(q) : MatchesQuery(s.text, request.terms)}}

\* compareStructural
Better(request, p, q) ==
    \/ p.confidence > q.confidence
    \/ /\ p.confidence = q.confidence
       /\ LET a == Depth(request, p.session)  b == Depth(request, q.session)
          IN  a < b \/ (a = b /\ (p.doc > q.doc \/ (p.doc = q.doc /\ p.message > q.message)))

Ranked(request, eligible) == SetToSortSeq(eligible, LAMBDA a, b : Better(request, a.of, b.of))
FirstOf(seq, n) == SubSeq(seq, 1, Min({n, Len(seq)}))

\* structuralLookupResult
Answer(request) ==
    LET eligible == Eligible(request)
        modern == FirstOf(Ranked(request, {e \in eligible : ~e.of.legacy}), request.limit)
        legacy == Ranked(request, {e \in eligible : e.of.legacy})
        newer == SelectSeq(legacy, LAMBDA e : e.of.doc > modern[1].of.doc)
        combined == IF newer = <<>> THEN modern ELSE <<modern[1], newer[1]>> \o Tail(modern)
        sure == /\ modern[1].of.confidence >= 50 /\ newer = <<>>
                /\ request.scope = "session" /\ Depth(request, modern[1].of.session) = 1
    IN  IF modern = <<>>
          THEN [status |-> IF legacy = <<>> THEN "not-found" ELSE "legacy-fallback",
                results |-> FirstOf(legacy, request.limit)]
          ELSE [status |-> IF sure THEN "resolved" ELSE "ambiguous",
                results |-> FirstOf(combined, request.limit)]

\* lookupDecisionEvidence: the first ones, in the order of the keys.
ByKey(request, p, q) ==
    IF request.scope = "session" /\ Depth(request, p.session) # Depth(request, q.session)
      THEN Depth(request, p.session) < Depth(request, q.session) ELSE p.doc > q.doc
DecisionsFound(request) ==
    FirstOf(SetToSortSeq({r \in Considered(request, DecisionScans(request)) :
                            MatchesQuery(r.excerpt, request.terms)},
                         LAMBDA p, q : ByKey(request, p, q)), request.limit)
-----------------------------------------------------------------------------
TypeOK ==
    /\ \A d \in DOMAIN docs : docs[d] \in Contents
    /\ published <= applied /\ applied <= published + 1 /\ applied <= Len(docs)
    /\ \A r \in postings \cup shards \cup decisions : r.doc <= applied

\* What was said, by the documents themselves.
Statements(request) ==
    UNION {LET content == docs[d]
               texts == IF content.messages = <<>> THEN <<[text |-> content.text]>> ELSE Indexed(content)
           IN  {[of |-> [doc |-> d, message |-> IF content.messages = <<>> THEN 0 ELSE i,
                         session |-> content.session, legacy |-> content.messages = <<>>,
                         confidence |-> IF content.messages = <<>> THEN 0
                                        ELSE Score(texts[i], request.relation)]] :
                  i \in {j \in DOMAIN texts : /\ MatchesQuery(texts[j].text, request.terms)
                                              /\ content.messages = <<>> => content.kind = "turn" /\ Short(content)
                                              /\ content.messages # <<>> => Score(texts[j], request.relation) > 0}} :
            d \in {e \in (1 .. published) \ retired :
                     InScope(request, docs[e].session) /\ docs[e].kind # "echo" /\ ~Refused(docs[e])}}

Live(request, seq) == SelectSeq(seq, LAMBDA p : Allowed(request, p))
Suffices(request, scans) ==
    \A i \in DOMAIN scans : Len(scans[i]) <= Physical /\ Len(Live(request, scans[i])) <= ScanLimit

\* A lookup finds every shard it needs, at whatever point cleanup is (postingTextSegments);
\* what it shows stands in the document where it says (structuralMessageLocations).
ShownExactly ==
    \A request \in Requests :
      /\ \A p \in Considered(request, Scans(request)) : ~Incomplete(p)
      /\ \A e \in Eligible(request) :
           LET from == e.of.from + e.segment.from
           IN  SubSeq(docs[e.of.doc].text, from + 1, from + Len(e.segment.text)) = e.segment.text

\* The newest live postings of a prefix are considered, however many dead ones are between
\* them, and nothing is left out by the end of a page (structuralEligible).
NewestConsidered ==
    \A request \in Requests : \A scans \in {Scans(request), DecisionScans(request)} :
      \A i \in DOMAIN scans : Len(scans[i]) <= Physical =>
        ToSet(FirstOf(Live(request, scans[i]), ScanLimit)) \subseteq Considered(request, scans)

\* When the scan suffices, the answer is what the documents say: not found means that nothing
\* was said, and resolved that nothing in the lineage outranks it and nothing is newer whose
\* messages are not known (structuralLookupResult).
AnswersTrue ==
    \A request \in Requests :
      LET answer == Answer(request)
          said == Statements(request)
          shown == {[doc |-> e.of.doc, message |-> e.of.message] : e \in ToSet(answer.results)}
          Is(s) == [doc |-> s.of.doc, message |-> s.of.message]
          top == answer.results[1].of
          Newer(s) == s.of.legacy /\ s.of.doc > top.doc
          Rank(p) == <<p.confidence, -Depth(request, p.session), p.doc, p.message>>
          Outranks(s) == \E i \in 1..4 : /\ Rank(s.of)[i] > Rank(top)[i]
                                         /\ \A j \in 1 .. i - 1 : Rank(s.of)[j] = Rank(top)[j]
      IN  Suffices(request, Scans(request))
          => /\ answer.status = "not-found" <=> said = {}
             /\ answer.status = "legacy-fallback" => \A s \in said : s.of.legacy
             /\ Cardinality(shown) = Len(answer.results)
             /\ shown \subseteq {Is(s) : s \in said}
             /\ \A s \in said : Is(s) \notin shown =>
                  \/ Len(answer.results) = request.limit
                  \/ s.of.legacy /\ answer.status # "legacy-fallback"
             /\ said # {} => ~\E s \in said : Outranks(s)
             /\ answer.status = "resolved" =>
                  top.session = request.lineage[1] /\ ~\E s \in said : Newer(s)
             /\ answer.status = "ambiguous" /\ request.limit > 1 /\ (\E s \in said : Newer(s))
                  => \E s \in said : Newer(s) /\ Is(s) \in shown

\* The decisions found are the newest ones, of the session before those of its ancestors
\* (decisionLookupWork).
DecisionsNewest ==
    \A request \in Requests :
      LET found == DecisionsFound(request)
          taken == {d \in (1 .. published) \ retired :
                      /\ docs[d].kind = "decision-candidate" /\ docs[d].sourced
                      /\ Short(docs[d]) /\ ~Refused(docs[d])
                      /\ InScope(request, docs[d].session)
                      /\ MatchesQuery(docs[d].text, request.terms)}
          Rank(d) == <<IF request.scope = "session" THEN -Depth(request, docs[d].session) ELSE 0, d>>
          Precedes(d, e) == Rank(d)[1] > Rank(e)[1] \/ (Rank(d)[1] = Rank(e)[1] /\ d > e)
      IN  Suffices(request, DecisionScans(request))
          => /\ \A i \in DOMAIN found : found[i].doc \in taken
             /\ Len(found) = Min({request.limit, Cardinality(taken)})
             /\ \A d \in taken : (\A i \in DOMAIN found : found[i].doc # d) =>
                  \A i \in DOMAIN found : Precedes(found[i].doc, d)

\* Messages that can be placed in their order without overlap, in the part of the text that is
\* scanned, are located (structuralMessageLocations).
RECURSIVE Placeable(_, _)
Placeable(text, messages) ==
    messages = <<>> \/ \E k \in 0 .. Len(text) :
       LET n == Len(Head(messages).text)
       IN  /\ k + n <= Len(text) /\ SubSeq(text, k + 1, k + n) = Head(messages).text
           /\ Placeable(SubSeq(text, k + n + 1, Len(text)), Tail(messages))

LocatedIfPossible ==
    \A d \in DOMAIN docs :
      LET messages == Indexed(docs[d])
      IN  Len(Locations(docs[d])) = Len(messages)
            <=> Placeable(SubSeq(docs[d].text, 1, Min({SourceScan, Len(docs[d].text)})), messages)
=============================================================================
