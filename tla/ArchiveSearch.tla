--------------------------- MODULE ArchiveSearch ----------------------------
(***************************************************************************)
(* A search, or a gather: a search whose results are joined by their       *)
(* neighbours in the history and all read at once. The candidates are      *)
(* found and ranked in several snapshots, and each is leased and looked at *)
(* once more before its locator is signed; meanwhile documents are         *)
(* published, superseded, redacted, expired and forgotten. A locator can   *)
(* be recalled while its lease lasts.                                      *)
(*                                                                         *)
(* A document has one version. What finds it, its session and the          *)
(* documents that nearly repeat each other are fixed. A pool is a set of   *)
(* candidates, a document found in two ways being in it twice.             *)
(***************************************************************************)
EXTENDS Integers, FiniteSets, SequencesExt

CONSTANTS
    Doc,             \* numbers, in the order of their creation
    Archived,        \* those that are there and indexed when it begins
    Found,           \* Found[d]: what finds d, of Modes and "expansion"
    InSession,       \* the documents of the session that asks
    Twins,           \* those that nearly repeat each other
    Requests,        \* records of kind, scope, wide and related
    Limit,           \* the results a search returns
    Neighbors,       \* that a gather takes on each side of its first result
    MaxEvidence,
    Ttl,             \* of a lease
    MaxTime, MaxSearches   \* bounds

VARIABLES
    canon,     \* canon[d]: "absent", "live", "superseded", "expired", "forgotten"
    indexed,   \* the documents in the published generation, retired ones too
    leases,    \* the stored leases
    locators,  \* the locators that were returned
    call,      \* the search that runs
    clock, searches

vars == <<canon, indexed, leases, locators, call, clock, searches>>

Modes == {"exact", "structural", "lexical", "semantic"}
Tier(mode) == CASE mode = "exact" -> 3 [] mode = "structural" -> 2 [] OTHER -> 1
Candidate(d, mode) == [doc |-> d, mode |-> mode]
DocsOf(candidates) == {c.doc : c \in ToSet(candidates)}

NoCall == [pc |-> "idle", request |-> [kind |-> "none"], started |-> 0, pool |-> {}, candidates |-> <<>>,
           held |-> {}, results |-> <<>>, side |-> "before", neighbors |-> {},
           evidence |-> {}, truncated |-> FALSE]
At(pc) == call.pc = pc
Request == call.request

\* What one snapshot finds: indexed, not retired, and in the scope.
Allowed(d) == Request.scope = "session" => d \in InSession
Finds(pass) == {Candidate(d, IF pass = "expansion" THEN "lexical" ELSE pass) :
                    d \in {e \in indexed : pass \in Found[e] /\ canon[e] = "live" /\ Allowed(e)}}

(* Of the copies of a document the one of the highest tier stays, and the  *)
(* tiers are in order (fuseCandidates). Scores within a tier are left out: *)
(* of one tier the lexical copy stays.                                     *)
Preferred(c, pool) ==
    \A o \in pool : o.doc = c.doc =>
        Tier(o.mode) < Tier(c.mode) \/ (Tier(o.mode) = Tier(c.mode) /\ ~(c.mode = "semantic" /\ o.mode = "lexical"))
Fused(pool) ==
    SetToSortSeq({c \in pool : Preferred(c, pool)},
        LAMBDA a, b : Tier(a.mode) > Tier(b.mode) \/ (Tier(a.mode) = Tier(b.mode) /\ a.doc < b.doc))

-----------------------------------------------------------------------------
(* The passes.                                                             *)

Go(pc, pool) == call' = [call EXCEPT !.pc = pc, !.pool = pool, !.candidates = Fused(pool)]
Unstored == UNCHANGED <<canon, indexed, leases, locators, clock, searches>>

Ask(request) ==
    /\ At("idle") /\ searches < MaxSearches
    /\ searches' = searches + 1
    /\ call' = [NoCall EXCEPT !.pc = "collect", !.request = request, !.started = clock]
    /\ UNCHANGED <<canon, indexed, leases, locators, clock>>

\* One snapshot: the anchors of the query, its words when they found nothing, and the
\* relation that was asked for (collectCandidates).
Words == IF Finds("exact") = {} THEN Finds("lexical") ELSE {}
Collect ==
    /\ At("collect")
    /\ Go("expand", Finds("exact") \cup Words
                    \cup (IF Request.related THEN Finds("structural") ELSE {}))
    /\ Unstored

(* The evidence of the first pass is weak when no word was found, and may  *)
(* be when one was; an anchor is enough unless the search is to be wide. A *)
(* gather widens only when it is told to (shouldTryExpansion,              *)
(* shouldTrySemantic).                                                     *)
Has(mode) == \E c \in call.pool : c.mode = mode
Weak(judged) == Request.wide \/ (~Has("exact") /\ (~Has("lexical") \/ judged))
\* The words of the best documents are read in one snapshot and sought in the next, and
\* only documents that were not found before are added (broadenWithExpansion).
ChooseTerms ==
    /\ At("expand")
    /\ \E judged \in BOOLEAN :
          call' = [call EXCEPT !.pc =
              IF /\ Request.kind = "search" \/ Request.wide
                 /\ Weak(judged) /\ \E c \in ToSet(call.candidates) : c.mode = "lexical"
              THEN "requery" ELSE "semantic"]
    /\ Unstored
Requery ==
    /\ At("requery")
    /\ Go("semantic", call.pool \cup
           {c \in Finds("expansion") \cup Finds("lexical") : c.doc \notin DocsOf(call.candidates)})
    /\ Unstored

\* The vectors may be of documents that were retired since (broadenWithSemantic).
Semantic ==
    /\ At("semantic")
    /\ \E judged \in BOOLEAN :
          IF Weak(judged) \/ Request.kind = "gather"
          THEN Go("rerank", call.pool \cup
                   {Candidate(d, "semantic") : d \in {e \in indexed : "semantic" \in Found[e] /\ Allowed(e)}})
          ELSE Go("rerank", call.pool)
    /\ Unstored

(* The importance of the documents, the terms of the session and the       *)
(* anchors of the working set move candidates within their tier, and so    *)
(* does the reranker (rankByImportance, applySessionContextBoost,          *)
(* applyWorkingSetBoost, rerankTierOne).                                   *)
Rerank ==
    /\ At("rerank")
    /\ \E order \in {call.candidates,
                     SelectSeq(call.candidates, LAMBDA c : Tier(c.mode) > 1)
                     \o Reverse(SelectSeq(call.candidates, LAMBDA c : Tier(c.mode) = 1))} :
          call' = [call EXCEPT !.pc = "dedupe", !.candidates = order]
    /\ Unstored

\* Of near duplicates the first stays (annotateNearDuplicates).
Deduplicated(candidates) ==
    LET twins == {k \in DOMAIN candidates : candidates[k].doc \in Twins}
    IN  SelectSeq(candidates, LAMBDA c : c.doc \notin Twins
                      \/ \A k \in twins : \E j \in twins : j <= k /\ candidates[j] = c)
Dedupe ==
    /\ At("dedupe")
    /\ call' = [call EXCEPT !.pc = "lease", !.candidates = Deduplicated(@)]
    /\ Unstored

-----------------------------------------------------------------------------
(* The results: a lease, one more look, the locator (locateCandidates).    *)

\* One time is read for all the leases of a search, and one for those of a traversal.
Lease(d) == [doc |-> d, owner |-> searches, expiresAt |-> call.started + Ttl]
Marked(d) == canon[d] \in {"superseded", "expired"}
Active(d) == \E l \in leases : l.doc = d /\ l.expiresAt > clock
Leased(d) == /\ leases' = leases \cup {Lease(d)}
             /\ UNCHANGED <<canon, indexed, locators, clock, searches>>

\* A retired version cannot be leased, one that is gone can (createRetrievalLease).
Foremost == Head(call.candidates).doc
TakeLease ==
    /\ At("lease") /\ call.candidates # <<>>
    /\ IF Marked(Foremost)
       THEN call' = [call EXCEPT !.candidates = Tail(@)] /\ Unstored
       ELSE /\ call' = [call EXCEPT !.pc = "look", !.held = {Lease(Foremost)}]
            /\ Leased(Foremost)

\* The locator is signed, or the lease given back (candidateStillLive).
StillLive(d) == canon[d] = "live" /\ Allowed(d)
Full(results) == Len(results) = Limit
Look ==
    /\ At("look")
    /\ IF StillLive(Foremost)
       THEN call' = [call EXCEPT
                !.pc = IF Full(Append(call.results, Lease(Foremost))) THEN "located" ELSE "lease",
                !.results = Append(@, Lease(Foremost)), !.held = {}, !.candidates = Tail(@)]
       ELSE call' = [call EXCEPT !.pc = "release"]
    /\ Unstored
Release ==
    /\ At("release")
    /\ leases' = leases \ call.held
    /\ call' = [call EXCEPT !.pc = "lease", !.held = {}, !.candidates = Tail(@)]
    /\ UNCHANGED <<canon, indexed, locators, clock, searches>>

Return ==
    /\ At("located") \/ (At("lease") /\ call.candidates = <<>>)
    /\ IF Request.kind = "search" \/ call.results = <<>>
       THEN /\ locators' = locators \cup ToSet(call.results)
            /\ call' = [call EXCEPT !.pc = "idle"]
       ELSE /\ call' = [call EXCEPT !.pc = "traverse"]
            /\ UNCHANGED locators
    /\ UNCHANGED <<canon, indexed, leases, clock, searches>>

-----------------------------------------------------------------------------
(* A gather goes on: the neighbours of the first result, which are leased  *)
(* without another look, and a recall of what there is room for            *)
(* (traverseArchive, gatherArchive).                                       *)

Anchor == Head(call.results).doc
SameSession(d, e) == d \in InSession <=> e \in InSession
Near(side) == {e \in Doc : /\ canon[e] = "live" /\ SameSession(Anchor, e)
                           /\ IF side = "before" THEN e < Anchor ELSE e > Anchor}
Closer(e, side) == {f \in Near(side) : (e < f /\ f < Anchor) \/ (Anchor < f /\ f < e)}
Beside(side) == {e \in Near(side) : Cardinality(Closer(e, side)) < Neighbors}
Hidden(d) == canon[d] \in {"absent", "forgotten"}
Traverse ==
    /\ At("traverse")
    /\ call' = [call EXCEPT !.pc = "neighbors", !.started = clock,
           !.neighbors = IF Hidden(Anchor) THEN {} ELSE Beside(call.side),
           !.truncated = @ \/ (~Hidden(Anchor) /\ Near(call.side) # Beside(call.side))]
    /\ Unstored
TurnAround ==
    /\ At("neighbors") /\ call.neighbors = {} /\ call.side = "before"
    /\ call' = [call EXCEPT !.pc = "traverse", !.side = "after"]
    /\ Unstored
LeaseNeighbor ==
    /\ At("neighbors")
    /\ \E d \in call.neighbors :
          IF Marked(d) THEN call' = [call EXCEPT !.neighbors = @ \ {d}] /\ Unstored
          ELSE /\ call' = [call EXCEPT !.neighbors = @ \ {d}, !.held = @ \cup {Lease(d)}]
               /\ Leased(d)

\* What is neither room for nor found by its recall is said to be left out.
Status(l) ==
    CASE Marked(l.doc) -> canon[l.doc]
      [] canon[l.doc] = "forgotten" -> "retired"
      [] clock >= l.expiresAt \/ l \notin leases -> "lease-expired"
      [] canon[l.doc] = "absent" -> "missing"
      [] OTHER -> "resolved"
Anchors == {l.doc : l \in ToSet(call.results)}
Candidates == ToSet(call.results) \cup {l \in call.held : l.doc \notin Anchors}
Alike == {l \in Candidates : l.doc \in Twins}
Distinct == Cardinality(Candidates \ Alike) + (IF Alike = {} THEN 0 ELSE 1)
Chosen(chosen) ==
    /\ Cardinality(chosen) = IF Distinct < MaxEvidence THEN Distinct ELSE MaxEvidence
    /\ Cardinality(chosen \cap Alike) <= 1
More(chosen) ==
    \/ call.truncated \/ Cardinality(chosen) < Distinct \/ Full(call.results)
    \/ \E l \in chosen : Status(l) # "resolved"
Gather ==
    /\ At("neighbors") /\ call.neighbors = {} /\ call.side = "after"
    /\ \E chosen \in {c \in SUBSET Candidates : Chosen(c)} :
          /\ call' = [call EXCEPT !.pc = "idle", !.truncated = More(chosen),
                                 !.evidence = {l \in chosen : Status(l) = "resolved"}]
          /\ locators' = locators \cup call'.evidence
    /\ UNCHANGED <<canon, indexed, leases, clock, searches>>

-----------------------------------------------------------------------------
(* What goes on beside it.                                                 *)

Step(d, from, to) ==
    /\ canon[d] = from /\ canon' = [canon EXCEPT ![d] = to]
    /\ UNCHANGED <<leases, locators, call, clock, searches>>
Admit(d) == Step(d, "absent", "live") /\ UNCHANGED indexed
Publish(d) ==
    /\ canon[d] = "live" /\ d \notin indexed
    /\ indexed' = indexed \cup {d}
    /\ UNCHANGED <<canon, leases, locators, call, clock, searches>>
\* Another version takes its place, or it is redacted, whoever reads it.
Supersede(d) == Step(d, "live", "superseded") /\ UNCHANGED indexed
\* It expires, unless it is leased (hasActiveDocumentLease reads the newest lease).
Expire(d) == Step(d, "live", "expired") /\ ~Active(d) /\ UNCHANGED indexed
\* Retention removes its postings, then its records and its marker.
Unpublish(d) ==
    /\ Marked(d) /\ d \in indexed
    /\ indexed' = indexed \ {d}
    /\ UNCHANGED <<canon, leases, locators, call, clock, searches>>
Forget(d) == Marked(d) /\ d \notin indexed /\ Step(d, canon[d], "forgotten") /\ UNCHANGED indexed

CleanupExpiredLeases ==
    /\ \E l \in leases : l.expiresAt <= clock
    /\ leases' = {l \in leases : l.expiresAt > clock}
    /\ UNCHANGED <<canon, indexed, locators, call, clock, searches>>
Tick == /\ clock < MaxTime /\ clock' = clock + 1
        /\ UNCHANGED <<canon, indexed, leases, locators, call, searches>>

Init ==
    /\ canon = [d \in Doc |-> IF d \in Archived THEN "live" ELSE "absent"]
    /\ indexed = Archived
    /\ leases = {} /\ locators = {} /\ call = NoCall
    /\ clock = 0 /\ searches = 0

Searching ==
    \/ \E request \in Requests : Ask(request)
    \/ Collect \/ ChooseTerms \/ Requery \/ Semantic \/ Rerank \/ Dedupe
    \/ TakeLease \/ Look \/ Release \/ Return \/ Traverse \/ TurnAround \/ LeaseNeighbor \/ Gather
Meanwhile(d) == Admit(d) \/ Publish(d) \/ Supersede(d) \/ Expire(d) \/ Unpublish(d) \/ Forget(d)
Next == Searching \/ CleanupExpiredLeases \/ Tick \/ \E d \in Doc : Meanwhile(d)
Spec == Init /\ [][Next]_vars

-----------------------------------------------------------------------------
TypeOK ==
    /\ canon \in [Doc -> {"absent", "live", "superseded", "expired", "forgotten"}]
    /\ indexed \subseteq Doc /\ locators \cup leases \subseteq
           [doc : Doc, owner : 1 .. MaxSearches, expiresAt : 0 .. MaxTime + Ttl]

\* A locator of a live document resolves until its lease is over, and no locator is ever
\* one of a document that was not there: what became of it is said (recallSnapshot,
\* hasActiveDocumentLease).
LocatorsKept ==
    \A l \in locators :
        /\ canon[l.doc] = "live" /\ clock < l.expiresAt => Status(l) = "resolved"
        /\ Status(l) = "resolved" => canon[l.doc] = "live"
        /\ Status(l) # "missing"
        /\ clock < l.expiresAt => canon[l.doc] # "expired"

\* The leases a search took are those of its results when it is over: one of a document
\* that was retired meanwhile is given back (locateCandidates).
Finished(kind) == At("idle") /\ Request.kind = kind
LeasesReturned ==
    Finished("search") => {l \in leases : l.owner = searches} \subseteq ToSet(call.results)

\* What one of the passes found is among the results, unless it was retired, is like one
\* that was found, or there are as many as may be returned (searchArchive).
FoundReturned ==
    At("idle") /\ Request.kind # "none" /\ ~Full(call.results) =>
        \A c \in call.pool : canon[c.doc] = "live" /\ c.doc \notin Twins => c.doc \in Anchors

\* An anchor comes before a relation and a relation before what the words say, whatever
\* passes were joined and moved, and one document is one candidate
\* (compareRankedCandidates, LocalReranker).
TiersInOrder ==
    /\ IsInjective([k \in DOMAIN call.candidates |-> call.candidates[k].doc])
    /\ \A j, k \in DOMAIN call.candidates :
           j <= k => Tier(call.candidates[j].mode) >= Tier(call.candidates[k].mode)

\* A live document that a gather found and does not show is said to be left out
\* (gatherArchive: truncated).
GatherTells ==
    Finished("gather") /\ call.results # <<>> /\ ~call.truncated =>
        \A l \in Candidates : canon[l.doc] = "live" /\ l.doc \notin Twins => l \in call.evidence

SearchSound == LocatorsKept /\ LeasesReturned /\ FoundReturned /\ TiersInOrder /\ GatherTells
=============================================================================
