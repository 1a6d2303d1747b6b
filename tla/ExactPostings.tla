---------------------------- MODULE ExactPostings ----------------------------
(***************************************************************************)
(* What the exact handler stages for one document (rocksdb/index/exact.js: *)
(* exactMutationsForAnchors).  The anchors found in the text are placed    *)
(* one by one, the most specific first, each under its term as written     *)
(* and, when its case matters, under its folded term.  A term of a window  *)
(* is a group, cut into postings of so many matches; a document has only   *)
(* so many postings.  A folded posting is an alias: it holds no matches,   *)
(* only the keys of the postings as written that hold them.                *)
(*                                                                         *)
(* An anchor is a record of its form, how specific it is, and whether its  *)
(* case matters; its position in the text is its index.                    *)
(***************************************************************************)
EXTENDS Naturals, Sequences, FiniteSets, SequencesExt, FiniteSetsExt

CONSTANTS Anchor,          \* [form, specific, sensitive]
          FoldedForm(_),   \* the folded term of a form
          WindowOf(_),     \* the window a position falls into
          MaxAnchors,      \* bound: anchors of a text
          MatchesPerPosting,
          MaxMutations

VARIABLES text,        \* the anchors, in the order of the text
          left,        \* positions not placed yet, most specific first
          groups,      \* group key -> positions, in the order they were placed
          mutations,   \* postings begun
          observed,    \* postings asked for
          omitted,     \* matches left out
          staged       \* the postings, once all are placed

vars == <<text, left, groups, mutations, observed, omitted, staged>>

NoPostings == [postings |-> {}, aliases |-> {}, ready |-> FALSE]

\* extractExactAnchors, and the order in which the handler takes its result.
Ranked(t) == SetToSortSeq(DOMAIN t, LAMBDA i, j :
    \/ t[i].specific > t[j].specific
    \/ t[i].specific = t[j].specific /\ i < j)

Init ==
    /\ text \in UNION {[1..n -> Anchor] : n \in 0..MaxAnchors}
    /\ left = Ranked(text)
    /\ groups = <<>>
    /\ mutations = 0 /\ observed = 0 /\ omitted = 0
    /\ staged = NoPostings

\* One match of one mode: it joins its group, which may begin a posting.
Joined(st, key, i) ==
    LET known == IF key \in DOMAIN st.groups THEN st.groups[key] ELSE <<>>
        starts == Len(known) % MatchesPerPosting = 0
    IN IF starts /\ st.mutations = MaxMutations
       THEN [st EXCEPT !.observed = @ + 1, !.omitted = @ + 1]
       ELSE [groups |-> [k \in DOMAIN st.groups \union {key} |->
                          IF k = key THEN Append(known, i) ELSE st.groups[k]],
             mutations |-> st.mutations + (IF starts THEN 1 ELSE 0),
             observed |-> st.observed + (IF starts THEN 1 ELSE 0),
             omitted |-> st.omitted]

Key(mode, i) == [mode |-> mode,
                 term |-> IF mode = "folded" \/ ~text[i].sensitive
                          THEN FoldedForm(text[i].form) ELSE text[i].form,
                 window |-> WindowOf(i)]

Place ==
    /\ left # <<>>
    /\ LET i == Head(left)
           written == Joined([groups |-> groups, mutations |-> mutations,
                              observed |-> observed, omitted |-> omitted],
                             Key("exact", i), i)
           both == IF text[i].sensitive THEN Joined(written, Key("folded", i), i)
                   ELSE written
       IN /\ groups' = both.groups /\ mutations' = both.mutations
          /\ observed' = both.observed /\ omitted' = both.omitted
    /\ left' = Tail(left)
    /\ UNCHANGED <<text, staged>>

\* A group is sorted by position and cut; the cuts are not where it grew.
Cut(s) == [n \in 1 .. (Len(s) + MatchesPerPosting - 1) \div MatchesPerPosting |->
              LET from == (n - 1) * MatchesPerPosting + 1
              IN {s[i] : i \in from .. (IF n * MatchesPerPosting < Len(s)
                                        THEN n * MatchesPerPosting ELSE Len(s))}]
Postings(mode) ==
    UNION {LET cuts == Cut(SetToSortSeq(ToSet(groups[key]), <))
           IN {[key |-> key, segment |-> n, matches |-> cuts[n]] : n \in DOMAIN cuts}
             : key \in {k \in DOMAIN groups : k.mode = mode}}
Targets(p) == {q \in Postings("exact") : q.matches \intersect p.matches # {}}

Stage ==
    /\ left = <<>> /\ ~staged.ready
    /\ staged' = [ready |-> TRUE, postings |-> Postings("exact"),
                  aliases |-> {[posting |-> p, targets |-> Targets(p)]
                                 : p \in Postings("folded")}]
    /\ UNCHANGED <<text, left, groups, mutations, observed, omitted>>

Next == Place \/ Stage
Spec == Init /\ [][Next]_vars

-----------------------------------------------------------------------------
\* No alias points nowhere, whatever was left out: the handler would fail on it
\* at every attempt ("A folded exact posting has no canonical posting target").
AliasesResolve == \A a \in staged.aliases : a.targets # {}

\* The limit is kept by what is staged, not only by the count.
LimitKept == Cardinality(staged.postings) + Cardinality(staged.aliases) <= MaxMutations

\* A match is stored once, under its own term and window.
StoredOnce ==
    /\ \A p, q \in staged.postings : p # q => p.matches \intersect q.matches = {}
    /\ \A p \in staged.postings : \A i \in p.matches : p.key = Key("exact", i)

\* What is not reported as left out is found as it is written, and folded.
FoundUnlessSaid ==
    staged.ready /\ omitted = 0 =>
      \A i \in DOMAIN text :
        /\ \E p \in staged.postings : i \in p.matches
        /\ text[i].sensitive =>
             \E a \in staged.aliases :
               /\ a.posting.key = Key("folded", i)
               /\ \E p \in a.targets : i \in p.matches

ExactPostingsSound == AliasesResolve /\ LimitKept /\ StoredOnce /\ FoundUnlessSaid
=============================================================================
