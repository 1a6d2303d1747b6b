----------------------------- MODULE ExactLookup -----------------------------
(***************************************************************************)
(* The exact tier of a search (rocksdb/index/exact.js: lookupExact and     *)
(* lookupExactAnchorDocuments): the postings of each anchor of the query   *)
(* are scanned newest first, within bounds on records, postings and        *)
(* buckets; folded aliases only when nothing was found as written; then    *)
(* candidates are ranked and read, until there are enough.  All of it runs *)
(* on one snapshot, so the store is a constant of a behaviour: Init picks  *)
(* it.                                                                     *)
(*                                                                         *)
(* Documents are numbers, in the order of their postings' keys (bucket,    *)
(* then identifier).  "gone" is a document whose tombstone and manifest    *)
(* were reclaimed: only the ledger still says that it expired; "replaced"  *)
(* is one that has a newer version and no marker yet.                      *)
(***************************************************************************)
EXTENDS Naturals, Sequences, FiniteSets, SequencesExt, FiniteSetsExt

CONSTANTS Doc,                 \* a set of naturals
          Bucket(_),           \* never lower for a higher document
          Form, FoldedForm(_),
          Query,               \* sets of forms
          PageSize, ScanLimit, WorkLimits, BucketLimit, ResultLimit

VARIABLES
    forms, status, visible,    \* the store: [Doc -> what its text has; ...]
    query, purpose,            \* anchors; "results" or "boost"
    workLimit,
    phase,                     \* "scan", "rank", "read", "done"
    mode, anchors,             \* anchors still to scan in this mode
    before, page, last,        \* cursor, records of the page left, is it the last
    physical, postingsRead, buckets, truncated,
    candidates,                \* <<doc, form, mode>> evidence
    expired,                   \* documents counted as expired
    ranked, results

vars == <<forms, status, visible, query, purpose, workLimit, phase, mode, anchors,
          before, page, last, physical, postingsRead, buckets, truncated, candidates,
          expired, ranked, results>>

Status == {"live", "superseded", "expired", "gone", "replaced"}
NoCursor == 1 + Max(Doc \union {0})

\* planExactQuery: one anchor per form, in a fixed order of preference.
Plan(q) == SetToSeq(q)

Init ==
    /\ forms \in [Doc -> SUBSET Form]
    /\ status \in [Doc -> Status]
    /\ visible \in [Doc -> BOOLEAN]
    /\ query \in Query /\ purpose \in {"results", "boost"}
    /\ workLimit \in WorkLimits
    /\ phase = "scan" /\ mode = "exact" /\ anchors = Plan(query)
    /\ before = NoCursor /\ page = <<>> /\ last = FALSE
    /\ physical = 0 /\ postingsRead = 0 /\ buckets = {} /\ truncated = FALSE
    /\ candidates = {} /\ expired = {} /\ ranked = <<>> /\ results = <<>>

Store == <<forms, status, visible, query, purpose, workLimit>>

-----------------------------------------------------------------------------
(* The postings.                                                           *)

\* The documents with a record under the term of an anchor, in this mode.
Holders(f) == {d \in Doc : IF mode = "exact" THEN f \in forms[d]
                           ELSE \E g \in forms[d] : FoldedForm(g) = FoldedForm(f)}
\* What a record resolves to: itself, or the postings its alias names.
Resolved(f, d) == IF mode = "exact" THEN <<f>>
                  ELSE SetToSeq({g \in forms[d] : FoldedForm(g) = FoldedForm(f)})
Reads(f, d) == IF mode = "exact" THEN 0 ELSE Len(Resolved(f, d))

Spent == postingsRead >= workLimit \/ physical >= ScanLimit

\* The next page of the scan, or the end of it.
NextPage ==
    /\ phase = "scan" /\ anchors # <<>> /\ page = <<>> /\ ~last /\ ~Spent
    /\ LET limit == IF ScanLimit - physical < PageSize THEN ScanLimit - physical
                    ELSE PageSize
           rest == SetToSortSeq({d \in Holders(Head(anchors)) : d < before}, >)
           got == SubSeq(rest, 1, IF Len(rest) < limit THEN Len(rest) ELSE limit)
       IN /\ page' = got
          /\ last' = (Len(got) < limit)
          /\ before' = IF got = <<>> THEN before ELSE got[Len(got)]
    /\ UNCHANGED <<Store, phase, mode, anchors, physical, postingsRead, buckets,
                   truncated, candidates, expired, ranked, results>>

\* The postings of one record.  st carries what they change; a posting over the
\* limits ends the record, one of a retired document is only counted.
Marked(d) == status[d] \in {"superseded", "expired"}
RECURSIVE Taken(_, _, _)
Taken(gs, d, st) ==
    IF gs = <<>> \/ ~visible[d] THEN st
    ELSE IF Marked(d)
    THEN Taken(Tail(gs), d, [st EXCEPT !.expired =
             IF status[d] = "expired" /\ purpose = "results" THEN @ \union {d} ELSE @])
    ELSE IF st.read >= workLimit THEN [st EXCEPT !.truncated = TRUE]
    ELSE IF /\ purpose = "results"
            /\ Bucket(d) \notin st.buckets /\ Cardinality(st.buckets) >= BucketLimit
    THEN [st EXCEPT !.read = @ + 1, !.truncated = TRUE]
    ELSE Taken(Tail(gs), d, [st EXCEPT !.read = @ + 1,
             !.buckets = @ \union {Bucket(d)},
             !.candidates = @ \union {<<d, Head(anchors), mode>>}])

ReadRecord ==
    /\ phase = "scan" /\ anchors # <<>> /\ page # <<>> /\ ~Spent
    /\ LET d == Head(page)
           f == Head(anchors)
           wanted == Reads(f, d)
           room == ScanLimit - physical - 1
           resolved == IF wanted > room THEN SubSeq(Resolved(f, d), 1, room)
                       ELSE Resolved(f, d)
           st == Taken(resolved, d,
                       [read |-> postingsRead, buckets |-> buckets, truncated |-> truncated,
                        candidates |-> candidates, expired |-> expired])
       IN /\ physical' = physical + 1 + (IF wanted > room THEN room ELSE wanted)
          /\ truncated' = (st.truncated \/ wanted > room)
          /\ postingsRead' = st.read /\ buckets' = st.buckets
          /\ candidates' = st.candidates /\ expired' = st.expired
    /\ page' = Tail(page)
    /\ UNCHANGED <<Store, phase, mode, anchors, before, last, ranked, results>>

\* The scan of an anchor ends: at its last page, or at a limit, which also ends
\* the scans of the others.
NextAnchor ==
    /\ phase = "scan" /\ anchors # <<>>
    /\ Spent \/ (page = <<>> /\ last)
    /\ truncated' = (truncated \/ Spent)
    /\ anchors' = IF Spent THEN <<>> ELSE Tail(anchors)
    /\ page' = <<>> /\ last' = FALSE /\ before' = NoCursor
    /\ UNCHANGED <<Store, phase, mode, physical, postingsRead, buckets, candidates,
                   expired, ranked, results>>

\* mutant: folds whatever was found.
FoldAlways ==
    /\ phase = "scan" /\ anchors = <<>>
    /\ IF mode = "exact" /\ postingsRead < workLimit
       THEN mode' = "folded" /\ anchors' = Plan(query) /\ UNCHANGED phase
       ELSE phase' = "rank" /\ UNCHANGED <<mode, anchors>>
    /\ UNCHANGED <<Store, before, page, last, physical, postingsRead, buckets,
                   truncated, candidates, expired, ranked, results>>

\* Folded postings are asked only when nothing was found as written.
Fold ==
    /\ phase = "scan" /\ anchors = <<>>
    /\ IF mode = "exact" /\ candidates = {} /\ postingsRead < workLimit
       THEN mode' = "folded" /\ anchors' = Plan(query) /\ UNCHANGED phase
       ELSE phase' = "rank" /\ UNCHANGED <<mode, anchors>>
    /\ UNCHANGED <<Store, before, page, last, physical, postingsRead, buckets,
                   truncated, candidates, expired, ranked, results>>

-----------------------------------------------------------------------------
(* Candidates.                                                             *)

Evidence(d) == {c[2] : c \in {c \in candidates : c[1] = d}}
\* candidateScore: coverage of the query first, then the newest.
Rank ==
    /\ phase = "rank"
    /\ phase' = IF purpose = "boost" THEN "done" ELSE "read"
    /\ ranked' = SetToSortSeq({c[1] : c \in candidates}, LAMBDA d, e :
         \/ Cardinality(Evidence(d)) > Cardinality(Evidence(e))
         \/ /\ Cardinality(Evidence(d)) = Cardinality(Evidence(e))
            /\ Bucket(d) > Bucket(e)
         \/ /\ Cardinality(Evidence(d)) = Cardinality(Evidence(e))
            /\ Bucket(d) = Bucket(e) /\ d < e)
    /\ UNCHANGED <<Store, mode, anchors, before, page, last, physical, postingsRead,
                   buckets, truncated, candidates, expired, results>>

\* materializeResult: a candidate without a marker may still be no live document.
Materialize ==
    /\ phase = "read"
    /\ IF ranked = <<>> \/ Len(results) = ResultLimit
       THEN phase' = "done" /\ UNCHANGED <<ranked, results, expired>>
       ELSE LET d == Head(ranked)
            IN /\ ranked' = Tail(ranked)
               /\ results' = IF status[d] = "live" THEN Append(results, d) ELSE results
               /\ expired' = IF status[d] = "gone" THEN expired \union {d} ELSE expired
               /\ UNCHANGED phase
    /\ UNCHANGED <<Store, mode, anchors, before, page, last, physical, postingsRead,
                   buckets, truncated, candidates>>

Next == NextPage \/ ReadRecord \/ NextAnchor \/ Fold \/ Rank \/ Materialize
Spec == Init /\ [][Next]_vars

-----------------------------------------------------------------------------
Matches(d) == \E f \in query : f \in forms[d]
MatchesFolded(d) == \E f \in query, g \in forms[d] : FoldedForm(f) = FoldedForm(g)
Found == IF purpose = "boost" THEN {c[1] : c \in candidates} ELSE ToSet(results)
Enough == purpose = "results" /\ Len(results) = ResultLimit

\* The limits are kept: no more records than the scan limit, no more postings and
\* buckets than asked for.
LimitsKept ==
    /\ physical <= ScanLimit /\ postingsRead <= workLimit
    /\ purpose = "results" => Cardinality(buckets) <= BucketLimit

\* Only what the caller may see, what matches and is not retired is found; a
\* folded match is no result next to one as written.
FoundRightly ==
    phase = "done" =>
      /\ \A d \in Found : visible[d] /\ ~Marked(d) /\ MatchesFolded(d)
      /\ purpose = "results" => \A d \in Found : status[d] = "live"
      /\ (\E d \in Found : Matches(d)) => \A d \in Found : Matches(d)

\* A lookup that does not say it was cut short missed nothing: it found every
\* live match as written, or every folded one when nothing matches as written,
\* and it counted what had expired.
Candidate(d) == visible[d] /\ ~Marked(d) /\ Matches(d)
MissedNothing ==
    phase = "done" /\ ~truncated /\ ~Enough =>
      /\ \A d \in Doc : visible[d] /\ status[d] = "live" /\ Matches(d) => d \in Found
      /\ (\A d \in Doc : ~Candidate(d)) =>
           \A d \in Doc : visible[d] /\ status[d] = "live" /\ MatchesFolded(d) => d \in Found
      /\ purpose = "results" => \A d \in Doc :
           visible[d] /\ status[d] \in {"expired", "gone"} /\ Matches(d) => d \in expired

\* A result comes before the ones that match fewer of the anchors.
RankedByCoverage ==
    \A i, j \in DOMAIN results : i < j =>
      Cardinality(Evidence(results[i])) >= Cardinality(Evidence(results[j]))

ExactLookupSound == LimitsKept /\ FoundRightly /\ MissedNothing /\ RankedByCoverage
=============================================================================
