-------------------------- MODULE RedactionProofs ---------------------------
(***************************************************************************)
(* Proofs about the redaction of a project, for every number of documents, *)
(* every batch and page size and any number of crashes.                    *)
(*                                                                         *)
(* That a complete redaction has retired what it found is not inductive:   *)
(* pages, batches and the cursor of the next request must not pass a live  *)
(* document by.  The invariant says where what is Left stands: behind the  *)
(* cursor, and in the page that was read or, if that page was full, after  *)
(* it (WalkInv).  It finds documents by their references, so it needs that *)
(* live ones have theirs, which the sweep respects as far as its check     *)
(* goes: what is live after the check was admitted since, or lies beyond   *)
(* the documents the check reads (LiveInv, LimitInv).  That a purge stays  *)
(* complete needs that the outbox, once drained, holds nothing that would  *)
(* rewrite what is swept (QuietInv).                                       *)
(***************************************************************************)
EXTENDS ProjectRedaction, FiniteSetTheorems, SequenceTheorems, WellFoundedInduction, TLAPS

Walking  == {"page", "record", "more"}
Sweeping == {"check", "verdict", "scan", "delete"}
Steps == {"none", "hints", "drain", "done"} \union Walking \union Sweeping

Jobs == [step : Steps, scope : Scope, cursor : 0..HintsCursor, page : SUBSET Doc, full : BOOLEAN,
         last : 0..Cardinality(Doc), scanned : 0..BatchSize, doomed : SUBSET Doc,
         keyspace : {"references", "statistics", "hints"}]

Live == {d \in Doc : document[d] = "live"}
Retired == {d \in Doc : document[d] = "retired"}

\* What TypeOK leaves open.
Types ==
    /\ job \in Jobs
    /\ quiet \in BOOLEAN /\ swept \in BOOLEAN /\ crashes \in Nat
    /\ outbox \in Seq(Doc)
    /\ Len(outbox) <= Cardinality(Present) + Cardinality(Retired)

\* What the redaction has still to retire.
Left == (found \ (exposed \union overlooked)) \intersect Live

\* It comes after what was visited, in the page that was read or behind it.
WalkInv ==
    /\ found \subseteq Present
    /\ job.step = "none" => found = {}
    /\ \A d \in found : InScope(d, job.scope)
    /\ job.step \in Walking => \A d \in Left : d > job.cursor
    /\ job.step \in {"page", "record"} => \A d \in Left : d > job.last
    /\ job.step = "record" =>
         \A d \in Left \ job.page : job.full /\ \A e \in job.page : e < d
    /\ job.step \notin Walking => Left = {}

\* What is live once the check is passed was admitted since, or the check did not come to
\* it; that needs more documents than it reads.
LiveInv ==
    /\ Live \subseteq references \union (exposed \union overlooked)
    /\ job.step = "verdict" => Live \subseteq job.doomed \union (exposed \union overlooked)
    /\ job.step \in {"scan", "delete"} => Live \subseteq exposed \union overlooked

LimitInv == overlooked # {} => Cardinality(Present) + Others > ScanLimit

Content(keyspace) ==
    CASE keyspace = "references" -> references
      [] keyspace = "statistics" -> {d \in Doc : statistics}
      [] keyspace = "hints" -> hints

\* The keyspaces swept so far are empty, as long as nothing but the request and the worker
\* changed anything.
QuietInv ==
    /\ job.step \in {"drain"} \union Sweeping => job.scope.whole
    /\ job.step \notin {"done"} \union Sweeping => job.keyspace = "references"
    /\ quiet /\ job.step \in Sweeping =>
         /\ outbox = <<>>
         /\ job.keyspace # "references" => references = {}
         /\ job.keyspace = "hints" => ~statistics
         /\ job.step = "delete" => job.doomed = Content(job.keyspace)
    /\ quiet /\ job.step = "done" /\ job.scope.whole =>
         outbox = <<>> /\ references = {} /\ ~statistics /\ hints = {}

SweptInv ==
    swept => references = {} /\ ~statistics /\ hints = {} /\ outbox = <<>> /\ job.page = {}

Inv == TypeOK /\ Types /\ WalkInv /\ LiveInv /\ LimitInv /\ QuietInv /\ SweptInv
-----------------------------------------------------------------------------
(***************************************************************************)
(* Documents, counted and in order.                                        *)
(***************************************************************************)
LEMMA DocFacts ==
    ASSUME RedactionAssumption
    PROVE  /\ IsFiniteSet(Doc) /\ Cardinality(Doc) \in Nat /\ Doc # {}
           /\ \A d \in Doc : d \in Nat /\ 0 < d /\ d <= Cardinality(Doc)
           /\ HintsCursor = Cardinality(Doc) + 1
<1>1. /\ IsFiniteSet(Doc) /\ Doc # {} /\ Doc = 1..Cardinality(Doc)
      /\ Cardinality(Doc) \in Nat
  BY FS_CardinalityType DEF RedactionAssumption
<1>2. \A d \in Doc : d \in Nat /\ 0 < d /\ d <= Cardinality(Doc)
  BY <1>1
<1>3. QED
  BY <1>1, <1>2 DEF HintsCursor

LEMMA SubsetFacts ==
    ASSUME RedactionAssumption, NEW S, S \subseteq Doc
    PROVE  /\ IsFiniteSet(S) /\ Cardinality(S) \in Nat
           /\ \A T : T \subseteq S => Cardinality(T) <= Cardinality(S)
<1>1. IsFiniteSet(Doc)
  BY DocFacts
<1>2. IsFiniteSet(S) /\ \A T : T \subseteq S => Cardinality(T) <= Cardinality(S)
  BY <1>1, FS_Subset
<1>3. QED
  BY <1>2, FS_CardinalityType

LEMMA LeastNumber ==
    ASSUME NEW T, T \subseteq Nat, T # {}
    PROVE  \E x \in T : \A y \in T : x <= y
<1>1. PICK x \in T : \A y \in T : ~ (<<y, x>> \in OpToRel(<, Nat))
  BY NatLessThanWellFounded, WFMin
<1>2. \A y \in T : ~ (y < x)
  <2>1. \A y \in T : x \in Nat /\ y \in Nat
    OBVIOUS
  <2>2. QED
    BY <1>1, <2>1 DEF OpToRel
<1>3. x \in Nat /\ \A y \in T : y \in Nat
  OBVIOUS
<1>4. QED
  BY <1>2, <1>3

LEMMA FirstOfPage ==
    ASSUME RedactionAssumption, NEW S, S \subseteq Doc, S # {}
    PROVE  First(S) \in S /\ \A d \in S : First(S) <= d
<1>1. S \subseteq Nat
  BY DocFacts
<1>2. \E d \in S : \A e \in S : d <= e
  BY <1>1, LeastNumber
<1>3. QED
  BY <1>2 DEF First

LEMMA LastOfPage ==
    ASSUME RedactionAssumption, NEW S, S \subseteq Doc, S # {}
    PROVE  \E d \in S : \A e \in S : e <= d
<1> DEFINE Above == {x \in Nat : \A e \in S : e <= x}
<1>1. S \subseteq Nat /\ \A e \in S : 0 < e
  BY DocFacts
<1>2. Cardinality(Doc) \in Above
  BY DocFacts
<1>3. PICK x \in Above : \A y \in Above : x <= y
  BY <1>2, LeastNumber
<1>4. x \in S
  <2> SUFFICES ASSUME x \notin S PROVE FALSE
    OBVIOUS
  <2>1. x \in Nat /\ \A e \in S : e < x
    BY <1>1, <1>3
  <2>2. x - 1 \in Nat /\ \A e \in S : e <= x - 1
    <3>1. PICK e \in S : TRUE
      OBVIOUS
    <3>2. \A y \in S : y \in Nat /\ y < x /\ 0 < y
      BY <1>1, <2>1
    <3>3. QED
      BY <2>1, <3>1, <3>2
  <2>3. x <= x - 1
    BY <1>3, <2>2
  <2>4. QED
    BY <2>1, <2>3
<1>5. QED
  BY <1>3, <1>4

\* What is left behind a page comes after all of it, and the page is full.
LEMMA PageIsPrefix ==
    ASSUME RedactionAssumption, NEW rest, rest \subseteq Doc,
           NEW d \in rest, Cardinality({e \in rest : e < d}) >= PageSize
    PROVE  LET page == {x \in rest : Cardinality({e \in rest : e < x}) < PageSize}
           IN  Cardinality(page) = PageSize /\ \A e \in page : e < d
<1> DEFINE Before(x) == {e \in rest : e < x}
           page == {x \in rest : Cardinality(Before(x)) < PageSize}
<1>0. PageSize \in Nat /\ \A x \in rest : x \in Nat
  BY DocFacts DEF RedactionAssumption
<1>a. /\ page \subseteq rest
      /\ \A x \in rest : x \in page <=> Cardinality(Before(x)) < PageSize
      /\ \A x : Before(x) \subseteq rest
      /\ \A x : \A e \in rest : e \in Before(x) <=> e < x
      /\ Cardinality(Before(d)) >= PageSize
  OBVIOUS
<1> SUFFICES Cardinality(page) = PageSize /\ \A e \in page : e < d
  OBVIOUS
<1> HIDE DEF page, Before
<1>1. /\ IsFiniteSet(page) /\ Cardinality(page) \in Nat
      /\ \A x : IsFiniteSet(Before(x)) /\ Cardinality(Before(x)) \in Nat
  <2>1. page \subseteq Doc /\ \A x : Before(x) \subseteq Doc
    BY <1>a
  <2>2. QED
    BY <2>1, SubsetFacts
<1>2. \A e \in page : e < d
  <2> SUFFICES ASSUME NEW e \in page, ~(e < d) PROVE FALSE
    OBVIOUS
  <2>1. Before(d) \subseteq Before(e)
    BY <1>a, <1>0
  <2>2. Cardinality(Before(d)) <= Cardinality(Before(e))
    BY <1>1, <2>1, FS_Subset
  <2>3. QED
    BY <1>a, <1>0, <1>1, <2>2
<1>3. Cardinality(page) <= PageSize
  <2>1. CASE page = {}
    BY <1>a, <1>0, <2>1, FS_EmptySet
  <2>2. CASE page # {}
    <3>1. PICK m \in page : \A e \in page : e <= m
      BY <1>a, <2>2, LastOfPage
    <3>2. page \ {m} \subseteq Before(m)
      BY <1>a, <1>0, <3>1
    <3>3. Cardinality(page \ {m}) <= Cardinality(Before(m))
      BY <1>1, <3>2, FS_Subset
    <3>4. Cardinality(page \ {m}) = Cardinality(page) - 1
      BY <1>1, FS_RemoveElement
    <3>5. QED
      BY <1>a, <1>0, <1>1, <3>3, <3>4
  <2>3. QED
    BY <2>1, <2>2
<1>4. PageSize <= Cardinality(page)
  <2>1. d \in rest \ page /\ rest \ page \subseteq Doc
    BY <1>a, <1>0, <1>1
  <2>2. PICK m \in rest \ page : \A e \in rest \ page : m <= e
    BY <2>1, FirstOfPage
  <2>3. Before(m) \subseteq page
    BY <1>a, <1>0, <2>2
  <2>4. Cardinality(Before(m)) <= Cardinality(page)
    BY <1>1, <2>3, FS_Subset
  <2>5. QED
    BY <1>a, <1>0, <1>1, <2>2, <2>4
<1>5. QED
  BY <1>a, <1>0, <1>1, <1>2, <1>3, <1>4
-----------------------------------------------------------------------------
(***************************************************************************)
(* Types.                                                                  *)
(***************************************************************************)
LEMMA NoJobType ==
    ASSUME RedactionAssumption
    PROVE  /\ NoJob \in Jobs /\ NoJob.step = "none" /\ NoJob.page = {}
           /\ NoJob.keyspace = "references" /\ NoJob.cursor = 0 /\ NoJob.last = 0
<1>1. /\ 0 \in 0..HintsCursor /\ 0 \in 0..Cardinality(Doc) /\ 0 \in 0..BatchSize
      /\ {} \in SUBSET Doc /\ Project \in Scope
  BY DocFacts DEF RedactionAssumption, Scope
<1>2. QED
  BY <1>1 DEF NoJob, Jobs, Steps

\* The records of the job and what it finds; no document changes.
LEMMA JobTypes ==
    ASSUME RedactionAssumption, Inv, UNCHANGED <<document, outbox>>, job' \in Jobs,
           references' \subseteq Doc, statistics' \in BOOLEAN, hints' \subseteq Doc,
           found' \subseteq Doc, exposed' \subseteq Doc, overlooked' \subseteq Doc,
           UNCHANGED overlooked \/ LimitInv',
           quiet' \in BOOLEAN, swept' \in BOOLEAN, crashes' \in Nat
    PROVE  TypeOK' /\ Types' /\ LimitInv'
<1>1. /\ job'.cursor \in 0..HintsCursor /\ job'.scanned \in 0..BatchSize
      /\ job'.page \subseteq Doc /\ job'.doomed \subseteq Doc
  BY DEF Jobs
<1>2. TypeOK'
  BY <1>1 DEF Inv, TypeOK, HintsCursor
<1>3. Types'
  BY DEF Inv, Types, Present, Retired, Jobs, HintsCursor
<1>4. LimitInv'
  BY DEF Inv, LimitInv, Present
<1>5. QED
  BY <1>2, <1>3, <1>4

\* An entry more for a document admitted or retired.
LEMMA CountPresent ==
    ASSUME RedactionAssumption, Inv, NEW d \in Doc,
           \/ /\ document[d] = "absent" /\ document' = [document EXCEPT ![d] = "live"]
           \/ /\ document[d] = "live" /\ document' = [document EXCEPT ![d] = "retired"],
           outbox' = Append(outbox, d)
    PROVE  /\ outbox' \in Seq(Doc) /\ Len(outbox') <= Cardinality(Present') + Cardinality(Retired')
           /\ Len(outbox') <= 2 * Cardinality(Doc)
           /\ document' \in [Doc -> {"absent", "live", "retired"}]
<1>0. document \in [Doc -> {"absent", "live", "retired"}]
  BY DEF Inv, TypeOK
<1>1. outbox \in Seq(Doc) /\ Len(outbox) \in Nat
      /\ Len(outbox) <= Cardinality(Present) + Cardinality(Retired)
  BY DEF Inv, Types
<1>2. outbox' \in Seq(Doc) /\ Len(outbox') = Len(outbox) + 1
  BY <1>1
<1>3. /\ IsFiniteSet(Present) /\ IsFiniteSet(Retired)
      /\ Cardinality(Present) \in Nat /\ Cardinality(Retired) \in Nat
  <2>1. Present \subseteq Doc /\ Retired \subseteq Doc
    BY DEF Present, Retired
  <2>2. QED
    BY <2>1, SubsetFacts
<1>4. document' \in [Doc -> {"absent", "live", "retired"}]
  BY <1>0
<1>5. Cardinality(Present') + Cardinality(Retired') = Cardinality(Present) + Cardinality(Retired) + 1
  <2>1. CASE document[d] = "absent" /\ document' = [document EXCEPT ![d] = "live"]
    <3>1. Present' = Present \union {d} /\ d \notin Present /\ Retired' = Retired
      BY <1>0, <2>1 DEF Present, Retired
    <3>2. Cardinality(Present \union {d}) = Cardinality(Present) + 1
      BY <1>3, <3>1, FS_AddElement
    <3>3. QED
      BY <1>3, <3>1, <3>2
  <2>2. CASE document[d] = "live" /\ document' = [document EXCEPT ![d] = "retired"]
    <3>1. Retired' = Retired \union {d} /\ d \notin Retired /\ Present' = Present
      BY <1>0, <2>2 DEF Present, Retired
    <3>2. Cardinality(Retired \union {d}) = Cardinality(Retired) + 1
      BY <1>3, <3>1, FS_AddElement
    <3>3. QED
      BY <1>3, <3>1, <3>2
  <2>3. QED
    BY <2>1, <2>2
<1>6. /\ Cardinality(Present') \in Nat /\ Cardinality(Retired') \in Nat
      /\ Cardinality(Present') <= Cardinality(Doc) /\ Cardinality(Retired') <= Cardinality(Doc)
  <2>1. Present' \subseteq Doc /\ Retired' \subseteq Doc
    BY DEF Present, Retired
  <2>2. QED
    BY <2>1, SubsetFacts
<1>7. Len(outbox') <= Cardinality(Present') + Cardinality(Retired')
  <2>1. Len(outbox) + 1 <= Cardinality(Present) + Cardinality(Retired) + 1
    BY <1>1, <1>3
  <2>2. QED
    BY <1>2, <1>5, <2>1
<1>8. Len(outbox') <= 2 * Cardinality(Doc)
  <2>1. PICK p \in Nat, q \in Nat, n \in Nat, l \in Nat :
          /\ p = Cardinality(Present') /\ q = Cardinality(Retired') /\ n = Cardinality(Doc)
          /\ l = Len(outbox')
    BY <1>1, <1>2, <1>6, DocFacts
  <2>2. p <= n /\ q <= n /\ l <= p + q
    BY <1>6, <1>7, <2>1
  <2>3. QED
    BY <2>1, <2>2
<1>9. QED
  BY <1>2, <1>4, <1>7, <1>8
-----------------------------------------------------------------------------
(***************************************************************************)
(* The surroundings.                                                       *)
(***************************************************************************)
\* The request stays where it is, and has no more to retire than before.
LEMMA WalkFrame ==
    ASSUME Inv, UNCHANGED <<job, found>>, Present \subseteq Present', Left' \subseteq Left
    PROVE  WalkInv'
BY DEF Inv, WalkInv, InScope

LEMMA AdmitStep ==
    ASSUME RedactionAssumption, Inv, NEW d \in Doc, Admit(d)
    PROVE  Inv'
<1>1. /\ document[d] = "absent" /\ document' = [document EXCEPT ![d] = "live"]
      /\ outbox' = Append(outbox, d) /\ references' = references \union {d}
      /\ quiet' = FALSE /\ swept' = FALSE
      /\ UNCHANGED <<statistics, hints, job, found, overlooked, crashes>>
      /\ exposed' = IF job.step \in {"verdict", "scan", "delete"} THEN exposed \union {d} ELSE exposed
  BY DEF Admit
<1>2. /\ outbox' \in Seq(Doc) /\ Len(outbox') <= Cardinality(Present') + Cardinality(Retired')
      /\ Len(outbox') <= 2 * Cardinality(Doc)
      /\ document' \in [Doc -> {"absent", "live", "retired"}]
  BY <1>1, CountPresent
<1>3. /\ document \in [Doc -> {"absent", "live", "retired"}]
      /\ references \subseteq Doc /\ exposed \subseteq Doc /\ overlooked \subseteq Doc
      /\ found \subseteq Present
  BY DEF Inv, TypeOK, WalkInv
<1>4. Live' = Live \union {d} /\ Present \subseteq Present' /\ d \notin found
  BY <1>1, <1>3 DEF Live, Present
<1>5. TypeOK' /\ Types'
  <2>1. references' \subseteq Doc /\ exposed' \subseteq Doc /\ overlooked' \subseteq Doc
    BY <1>1, <1>3
  <2>2. TypeOK'
    BY <1>1, <1>2, <2>1 DEF Inv, TypeOK, HintsCursor
  <2>3. Types'
    BY <1>1, <1>2 DEF Inv, Types
  <2>4. QED
    BY <2>2, <2>3
<1>6. WalkInv'
  <2>1. Left' \subseteq Left
    BY <1>1, <1>4 DEF Left
  <2>2. QED
    BY <1>1, <1>4, <2>1, WalkFrame
<1>7. LiveInv'
  BY <1>1, <1>4 DEF Inv, LiveInv
<1>8. QuietInv' /\ SweptInv'
  BY <1>1 DEF Inv, QuietInv, SweptInv
<1>9. LimitInv'
  <2>1. Present' \subseteq Doc /\ Present \subseteq Present'
    BY <1>4 DEF Present
  <2>2. /\ Cardinality(Present) \in Nat /\ Cardinality(Present') \in Nat
        /\ Cardinality(Present) <= Cardinality(Present')
    BY <2>1, SubsetFacts
  <2>3. Others \in Nat /\ ScanLimit \in Nat
    BY DEF RedactionAssumption
  <2>4. QED
    BY <1>1, <2>2, <2>3 DEF Inv, LimitInv
<1>10. QED
  BY <1>5, <1>6, <1>7, <1>8, <1>9 DEF Inv

LEMMA HintStep ==
    ASSUME RedactionAssumption, Inv, NEW d \in Doc, Hint(d)
    PROVE  Inv'
<1>1. /\ hints' = hints \union {d} /\ quiet' = FALSE /\ swept' = FALSE
      /\ UNCHANGED <<document, references, statistics, outbox, job, found, exposed, overlooked, crashes>>
  BY DEF Hint
<1>2. TypeOK' /\ Types' /\ LimitInv'
  BY <1>1, JobTypes DEF Inv, TypeOK, Types
<1>3. Live' = Live /\ Left' = Left /\ Present' = Present
  BY <1>1 DEF Live, Left, Present
<1>4. WalkInv'
  BY <1>1, <1>3, WalkFrame
<1>5. LiveInv'
  BY <1>1, <1>3 DEF Inv, LiveInv
<1>6. QuietInv' /\ SweptInv'
  BY <1>1 DEF Inv, QuietInv, SweptInv
<1>7. QED
  BY <1>2, <1>4, <1>5, <1>6 DEF Inv

\* The worker rewrites the statistics only while the outbox has something.
LEMMA PublishStep ==
    ASSUME RedactionAssumption, Inv, Publish
    PROVE  Inv'
<1>1. /\ outbox # <<>> /\ outbox' = Tail(outbox) /\ statistics' = TRUE
      /\ UNCHANGED <<document, references, hints, job, found, quiet, swept, exposed, overlooked, crashes>>
  BY DEF Publish
<1>2. Live' = Live /\ Left' = Left /\ Present' = Present /\ Retired' = Retired
  BY <1>1 DEF Live, Left, Present, Retired
<1>3. TypeOK' /\ Types'
  <2>1. /\ outbox \in Seq(Doc) /\ Len(outbox) <= 2 * Cardinality(Doc)
        /\ Len(outbox) <= Cardinality(Present) + Cardinality(Retired)
    BY DEF Inv, TypeOK, Types
  <2>2. outbox' \in Seq(Doc) /\ Len(outbox') = Len(outbox) - 1 /\ Len(outbox) \in Nat
    BY <1>1, <2>1, HeadTailProperties, LenProperties
  <2>3. Cardinality(Doc) \in Nat /\ Cardinality(Present) \in Nat /\ Cardinality(Retired) \in Nat
    <3>1. Present \subseteq Doc /\ Retired \subseteq Doc
      BY DEF Present, Retired
    <3>2. QED
      BY <3>1, DocFacts, SubsetFacts
  <2>4. Len(outbox) - 1 <= 2 * Cardinality(Doc)
        /\ Len(outbox) - 1 <= Cardinality(Present) + Cardinality(Retired)
    BY <2>1, <2>2, <2>3
  <2>5. TypeOK'
    BY <1>1, <2>2, <2>4 DEF Inv, TypeOK, HintsCursor
  <2>6. Types'
    BY <1>1, <1>2, <2>2, <2>4 DEF Inv, Types
  <2>7. QED
    BY <2>5, <2>6
<1>4. WalkInv'
  BY <1>1, <1>2, WalkFrame
<1>5. LiveInv'
  BY <1>1, <1>2 DEF Inv, LiveInv
<1>6. QuietInv' /\ SweptInv' /\ LimitInv'
  BY <1>1, <1>2 DEF Inv, QuietInv, SweptInv, LimitInv
<1>7. QED
  BY <1>3, <1>4, <1>5, <1>6 DEF Inv

\* What retiring a document does, apart from the job.
LEMMA RetireFacts ==
    ASSUME RedactionAssumption, Inv, NEW d \in Doc, document[d] = "live", Retire(d)
    PROVE  /\ outbox' \in Seq(Doc) /\ Len(outbox') <= Cardinality(Present') + Cardinality(Retired')
           /\ Len(outbox') <= 2 * Cardinality(Doc)
           /\ document' \in [Doc -> {"absent", "live", "retired"}]
           /\ Live' = Live \ {d} /\ Present' = Present
<1>1. document' = [document EXCEPT ![d] = "retired"] /\ outbox' = Append(outbox, d)
  BY DEF Retire
<1>2. document \in [Doc -> {"absent", "live", "retired"}]
  BY DEF Inv, TypeOK
<1>3. Live' = Live \ {d} /\ Present' = Present
  BY <1>1, <1>2 DEF Live, Present
<1>4. QED
  BY <1>1, <1>3, CountPresent

LEMMA ExpireStep ==
    ASSUME RedactionAssumption, Inv, NEW d \in Doc, Expire(d)
    PROVE  Inv'
<1>1. /\ document[d] = "live" /\ Retire(d) /\ quiet' = FALSE /\ swept' = FALSE
      /\ UNCHANGED <<references, statistics, hints, job, found, exposed, overlooked, crashes>>
  BY DEF Expire, records
<1>2. /\ outbox' \in Seq(Doc) /\ Len(outbox') <= Cardinality(Present') + Cardinality(Retired')
      /\ Len(outbox') <= 2 * Cardinality(Doc)
      /\ document' \in [Doc -> {"absent", "live", "retired"}]
      /\ Live' = Live \ {d} /\ Present' = Present
  BY <1>1, RetireFacts
<1>3. TypeOK'
  BY <1>1, <1>2 DEF Inv, TypeOK, HintsCursor
<1>4. Types'
  BY <1>1, <1>2 DEF Inv, Types
<1>5. WalkInv'
  <2>1. Left' \subseteq Left
    BY <1>1, <1>2 DEF Left
  <2>2. QED
    BY <1>1, <1>2, <2>1, WalkFrame
<1>6. LiveInv'
  BY <1>1, <1>2 DEF Inv, LiveInv
<1>7. QuietInv' /\ SweptInv' /\ LimitInv'
  BY <1>1, <1>2 DEF Inv, QuietInv, SweptInv, LimitInv
<1>8. QED
  BY <1>3, <1>4, <1>5, <1>6, <1>7 DEF Inv
-----------------------------------------------------------------------------
(***************************************************************************)
(* The walk over the references.                                           *)
(***************************************************************************)
\* A step of the walk that retires nothing.
LEMMA WalkOn ==
    ASSUME RedactionAssumption, Inv, UNCHANGED <<document, records, outbox, exposed, overlooked, crashes, swept>>,
           quiet' \in BOOLEAN, found' \subseteq Doc,
           job' \in Jobs, job'.step \in Walking \union {"hints", "none"},
           job'.keyspace = "references", swept => job'.page = {},
           WalkInv'
    PROVE  Inv'
<1>1. UNCHANGED <<references, statistics, hints>>
  BY DEF records
<1>2. TypeOK' /\ Types' /\ LimitInv'
  BY <1>1, JobTypes DEF Inv, TypeOK, Types
<1>3. Live' = Live
  BY DEF Live
<1>4. LiveInv'
  BY <1>1, <1>3 DEF Inv, LiveInv, Walking
<1>5. QuietInv'
  BY DEF QuietInv, Walking, Sweeping
<1>6. SweptInv'
  BY <1>1 DEF Inv, SweptInv
<1>7. QED
  BY <1>2, <1>4, <1>5, <1>6 DEF Inv

LEMMA BeginStep ==
    ASSUME RedactionAssumption, Inv, NEW scope \in Scope, Begin(scope)
    PROVE  Inv'
<1>1. /\ job' = [NoJob EXCEPT !.step = "page", !.scope = scope]
      /\ found' = {d \in Doc : InScope(d, scope) /\ document[d] = "live"}
      /\ quiet' = TRUE
      /\ UNCHANGED <<document, records, outbox, exposed, overlooked, crashes, swept>>
  BY DEF Begin
<1>2. /\ job' \in Jobs /\ job'.step = "page" /\ job'.scope = scope /\ job'.page = {}
      /\ job'.cursor = 0 /\ job'.last = 0 /\ job'.keyspace = "references"
  <2>1. job' \in Jobs
    BY <1>1, NoJobType DEF Jobs, Steps, Walking
  <2>2. QED
    BY <1>1, <2>1, NoJobType DEF NoJob
<1>3. found' \subseteq Doc /\ Left' \subseteq Doc /\ found' \subseteq Present'
      /\ \A d \in found' : InScope(d, scope)'
  BY <1>1 DEF Left, Present, Live, InScope
<1>4. \A d \in Left' : d > 0
  BY <1>3, DocFacts
<1>5. WalkInv'
  <2>1. \A d \in found' : InScope(d, job.scope)'
    BY <1>2, <1>3 DEF InScope
  <2>2. QED
    BY <1>2, <1>3, <1>4, <2>1 DEF WalkInv, Walking
<1>6. QED
  BY <1>1, <1>2, <1>3, <1>5, WalkOn DEF Walking

\* The scope of the job stays, and with it what is found.
LEMMA ScopeStays ==
    ASSUME Inv, UNCHANGED <<document, exposed, overlooked, found>>, job'.scope = job.scope, job.step # "none"
    PROVE  /\ Left' = Left /\ Left \subseteq Doc
           /\ found' \subseteq Present' /\ \A d \in found' : InScope(d, job.scope)'
           /\ found' \subseteq Doc
BY DEF Inv, WalkInv, Left, Live, Present, InScope

LEMMA ContinueStep ==
    ASSUME RedactionAssumption, Inv, Continue
    PROVE  Inv'
<1>1. /\ job.step = "more"
      /\ job' = [NoJob EXCEPT !.step = IF job.cursor = HintsCursor THEN "hints" ELSE "page",
                              !.scope = job.scope, !.cursor = job.cursor]
      /\ UNCHANGED <<document, records, outbox, found, quiet, exposed, overlooked, crashes, swept>>
  BY DEF Continue
<1>2. job \in Jobs /\ quiet \in BOOLEAN
  BY DEF Inv, Types
<1>3. /\ job' \in Jobs /\ job'.scope = job.scope /\ job'.page = {}
      /\ job'.step = IF job.cursor = HintsCursor THEN "hints" ELSE "page"
      /\ job'.cursor = job.cursor /\ job'.last = 0 /\ job'.keyspace = "references"
  <2>1. job.scope \in Scope /\ job.cursor \in 0..HintsCursor
    BY <1>2 DEF Jobs
  <2>2. job' \in Jobs
    BY <1>1, <2>1, NoJobType DEF Jobs, Steps, Walking
  <2>3. QED
    BY <1>1, <2>2, NoJobType DEF NoJob
<1>4. /\ Left' = Left /\ Left \subseteq Doc
      /\ found' \subseteq Present' /\ \A d \in found' : InScope(d, job.scope)'
      /\ found' \subseteq Doc
  BY <1>1, <1>3, ScopeStays
<1>5. \A d \in Left : d > job.cursor /\ d > 0 /\ d <= Cardinality(Doc) /\ d \in Nat
  <2>1. \A d \in Left : d > job.cursor
    BY <1>1 DEF Inv, WalkInv, Walking
  <2>2. QED
    BY <1>4, <2>1, DocFacts
<1>6. job.cursor = HintsCursor => Left = {}
  <2>1. Cardinality(Doc) \in Nat /\ HintsCursor = Cardinality(Doc) + 1
    BY DocFacts
  <2>2. QED
    BY <1>5, <2>1
<1>7. WalkInv'
  BY <1>3, <1>4, <1>5, <1>6 DEF WalkInv, Walking
<1>8. QED
  BY <1>1, <1>2, <1>3, <1>4, <1>7, WalkOn DEF Walking

\* Live documents have their reference, so the page has what is left, or is full before it.
LEMMA ReadPageStep ==
    ASSUME RedactionAssumption, Inv, ReadPage
    PROVE  Inv'
<1> DEFINE rest == {d \in references : InScope(d, job.scope) /\ d > job.last}
           page == {d \in rest : Cardinality({e \in rest : e < d}) < PageSize}
<1>1. /\ job.step = "page"
      /\ job' = [job EXCEPT !.step = "record", !.page = page,
                            !.full = Cardinality(page) = PageSize]
      /\ UNCHANGED <<document, records, outbox, found, quiet, exposed, overlooked, crashes, swept>>
  BY DEF ReadPage
<1>2. job \in Jobs /\ quiet \in BOOLEAN /\ references \subseteq Doc
  BY DEF Inv, Types, TypeOK
<1>3. rest \subseteq references /\ page \subseteq rest /\ rest \subseteq Doc
  BY <1>2
<1>4. \A d \in Left : d \in rest
  <2>1. \A d \in Left : d \in references
    BY DEF Inv, LiveInv, Left
  <2>2. \A d \in Left : InScope(d, job.scope) /\ d > job.last
    BY <1>1 DEF Inv, WalkInv, Left
  <2>3. QED
    BY <2>1, <2>2
<1>5. \A d \in Left \ page : Cardinality(page) = PageSize /\ \A e \in page : e < d
  <2> SUFFICES ASSUME NEW d \in Left, d \notin page
               PROVE  Cardinality(page) = PageSize /\ \A e \in page : e < d
    OBVIOUS
  <2>1. d \in rest /\ d \in Nat
    BY <1>3, <1>4, DocFacts
  <2>2. {e \in rest : e < d} \subseteq Doc
    BY <1>3
  <2>3. Cardinality({e \in rest : e < d}) \in Nat /\ PageSize \in Nat
    BY <2>2, SubsetFacts DEF RedactionAssumption
  <2>4. ~(Cardinality({e \in rest : e < d}) < PageSize)
    BY <2>1
  <2>5. Cardinality({e \in rest : e < d}) >= PageSize
    BY <2>3, <2>4
  <2>6. QED
    BY <1>3, <2>1, <2>5, PageIsPrefix
<1> HIDE DEF page, rest
<1>6. /\ job' \in Jobs /\ job'.step = "record" /\ job'.scope = job.scope /\ job'.page = page
      /\ job'.full = (Cardinality(page) = PageSize)
      /\ job'.cursor = job.cursor /\ job'.last = job.last /\ job'.keyspace = job.keyspace
  <2>1. page \in SUBSET Doc /\ (Cardinality(page) = PageSize) \in BOOLEAN
    BY <1>3
  <2>2. QED
    BY <1>1, <1>2, <2>1 DEF Jobs, Steps, Walking
<1>7. /\ Left' = Left /\ Left \subseteq Doc
      /\ found' \subseteq Present' /\ \A d \in found' : InScope(d, job.scope)'
      /\ found' \subseteq Doc
  BY <1>1, <1>6, ScopeStays
<1>8. job.keyspace = "references" /\ \A d \in Left : d > job.cursor /\ d > job.last
  BY <1>1 DEF Inv, WalkInv, QuietInv, Walking, Sweeping
<1>9. WalkInv'
  BY <1>5, <1>6, <1>7, <1>8 DEF WalkInv, Walking
<1>10. swept => job'.page = {}
  BY <1>3, <1>6 DEF Inv, SweptInv
<1>11. QED
  BY <1>1, <1>2, <1>6, <1>7, <1>8, <1>9, <1>10, WalkOn DEF Walking

LEMMA SkipStep ==
    ASSUME RedactionAssumption, Inv, SkipRecord
    PROVE  Inv'
<1> DEFINE first == First(job.page)
<1>1. /\ job.step = "record" /\ job.page # {} /\ first <= job.cursor
      /\ job' = [job EXCEPT !.page = @ \ {first}, !.last = first]
      /\ UNCHANGED <<document, records, outbox, found, quiet, exposed, overlooked, crashes, swept>>
  BY DEF SkipRecord
<1>2. job \in Jobs /\ quiet \in BOOLEAN /\ job.page \subseteq Doc
  BY DEF Inv, Types, Jobs
<1>3. first \in job.page /\ \A d \in job.page : first <= d
  BY <1>1, <1>2, FirstOfPage
<1>4. first \in Nat /\ first \in 0..Cardinality(Doc) /\ job.cursor \in Nat
  BY <1>2, <1>3, DocFacts DEF Jobs
<1> HIDE DEF first
<1>5. /\ job' \in Jobs /\ job'.step = "record" /\ job'.scope = job.scope
      /\ job'.page = job.page \ {first} /\ job'.last = first /\ job'.full = job.full
      /\ job'.cursor = job.cursor /\ job'.keyspace = job.keyspace
  BY <1>1, <1>2, <1>4 DEF Jobs
<1>6. /\ Left' = Left /\ Left \subseteq Doc
      /\ found' \subseteq Present' /\ \A d \in found' : InScope(d, job.scope)'
      /\ found' \subseteq Doc
  BY <1>1, <1>5, ScopeStays
<1>7. /\ job.keyspace = "references" /\ \A d \in Left : d > job.cursor
      /\ \A d \in Left \ job.page : job.full /\ \A e \in job.page : e < d
  BY <1>1 DEF Inv, WalkInv, QuietInv, Walking, Sweeping
<1>8. \A d \in Left : d > first /\ d # first
  <2>1. \A d \in Left : d \in Nat
    BY <1>6, DocFacts
  <2>2. QED
    BY <1>1, <1>4, <1>7, <2>1
<1>9. WalkInv'
  BY <1>5, <1>6, <1>7, <1>8 DEF WalkInv, Walking
<1>10. swept => job'.page = {}
  BY <1>5 DEF Inv, SweptInv
<1>11. QED
  BY <1>1, <1>2, <1>5, <1>6, <1>7, <1>9, <1>10, WalkOn DEF Walking

LEMMA PageDoneStep ==
    ASSUME RedactionAssumption, Inv, PageDone
    PROVE  Inv'
<1>1. /\ job.step = "record" /\ job.page = {}
      /\ job' = [job EXCEPT !.step = IF job.full THEN "page" ELSE "hints"]
      /\ UNCHANGED <<document, records, outbox, found, quiet, exposed, overlooked, crashes, swept>>
  BY DEF PageDone, Step
<1>2. job \in Jobs /\ quiet \in BOOLEAN
  BY DEF Inv, Types
<1>3. /\ job' \in Jobs /\ job'.step = (IF job.full THEN "page" ELSE "hints")
      /\ job'.scope = job.scope /\ job'.page = {} /\ job'.last = job.last
      /\ job'.cursor = job.cursor /\ job'.keyspace = job.keyspace
  BY <1>1, <1>2 DEF Jobs, Steps, Walking
<1>4. /\ Left' = Left /\ Left \subseteq Doc
      /\ found' \subseteq Present' /\ \A d \in found' : InScope(d, job.scope)'
      /\ found' \subseteq Doc
  BY <1>1, <1>3, ScopeStays
<1>5. /\ job.keyspace = "references" /\ \A d \in Left : d > job.cursor /\ d > job.last
      /\ \A d \in Left : job.full
  BY <1>1 DEF Inv, WalkInv, QuietInv, Walking, Sweeping
<1>6. WalkInv'
  BY <1>3, <1>4, <1>5 DEF WalkInv, Walking
<1>7. QED
  BY <1>1, <1>2, <1>3, <1>4, <1>5, <1>6, WalkOn DEF Walking

\* The first document of the page is retired, or left to the next request.
LEMMA TombstoneStep ==
    ASSUME RedactionAssumption, Inv, NEW d \in Doc, Tombstone(d)
    PROVE  Inv'
<1>1. /\ job.step = "record" /\ d \in job.page /\ d = First(job.page) /\ d > job.cursor
      /\ UNCHANGED <<records, found, quiet, swept, exposed, overlooked, crashes>>
  BY DEF Tombstone
<1>2. /\ job \in Jobs /\ quiet \in BOOLEAN /\ job.page \subseteq Doc /\ ~swept
      /\ d \in Nat /\ d \in 0..Cardinality(Doc) /\ \A e \in job.page : d <= e
  <2>1. job \in Jobs /\ quiet \in BOOLEAN /\ job.page \subseteq Doc /\ ~swept
    BY <1>1 DEF Inv, Types, Jobs, SweptInv
  <2>2. QED
    BY <1>1, <2>1, DocFacts, FirstOfPage
<1>3. /\ job.keyspace = "references" /\ \A x \in Left : x > job.cursor /\ x > job.last
      /\ \A x \in Left \ job.page : job.full /\ \A e \in job.page : e < x
      /\ found \subseteq Present /\ \A x \in found : InScope(x, job.scope)
  BY <1>1 DEF Inv, WalkInv, QuietInv, Walking, Sweeping
<1>4. CASE job.scanned = BatchSize
  <2>1. job' = [job EXCEPT !.step = "more", !.cursor = job.last] /\ UNCHANGED <<document, outbox>>
    BY <1>4 DEF Tombstone
  <2>2. job.last \in 0..HintsCursor
    BY <1>2, DocFacts DEF Jobs
  <2>3. /\ job' \in Jobs /\ job'.step = "more" /\ job'.cursor = job.last
        /\ job'.scope = job.scope /\ job'.keyspace = "references"
    BY <1>2, <1>3, <2>1, <2>2 DEF Jobs, Steps, Walking
  <2>4. /\ Left' = Left /\ found' \subseteq Present' /\ \A x \in found' : InScope(x, job.scope)'
        /\ found' \subseteq Doc
    BY <1>1, <2>1, <2>3, ScopeStays
  <2>5. WalkInv'
    BY <1>3, <2>3, <2>4 DEF WalkInv, Walking
  <2>6. QED
    BY <1>1, <1>2, <2>1, <2>3, <2>4, <2>5, WalkOn DEF Walking
<1>5. CASE job.scanned # BatchSize
  <2>1. /\ job' = [job EXCEPT !.page = @ \ {d}, !.last = d, !.scanned = @ + 1]
        /\ IF document[d] = "live" THEN Retire(d) ELSE UNCHANGED <<document, outbox>>
    BY <1>5 DEF Tombstone
  <2>2. /\ job' \in Jobs /\ job'.step = "record" /\ job'.cursor = job.cursor
        /\ job'.page = job.page \ {d} /\ job'.last = d /\ job'.full = job.full
        /\ job'.scope = job.scope /\ job'.keyspace = "references"
    <3>1. job.scanned + 1 \in 0..BatchSize /\ job.page \ {d} \in SUBSET Doc
      BY <1>2, <1>5 DEF Jobs, RedactionAssumption
    <3>2. QED
      BY <1>1, <1>2, <1>3, <2>1, <3>1 DEF Jobs
  <2>3. /\ outbox' \in Seq(Doc) /\ Len(outbox') <= Cardinality(Present') + Cardinality(Retired')
        /\ Len(outbox') <= 2 * Cardinality(Doc)
        /\ document' \in [Doc -> {"absent", "live", "retired"}]
        /\ Live' = Live \ {d} /\ Present' = Present
    <3>1. CASE document[d] = "live"
      BY <2>1, <3>1, RetireFacts
    <3>2. CASE document[d] # "live"
      <4>1. UNCHANGED <<document, outbox>>
        BY <2>1, <3>2
      <4>2. Live' = Live /\ d \notin Live /\ Present' = Present /\ Retired' = Retired
        BY <3>2, <4>1 DEF Live, Present, Retired
      <4>3. QED
        BY <4>1, <4>2 DEF Inv, TypeOK, Types
    <3>3. QED
      BY <3>1, <3>2
  <2>4. UNCHANGED <<references, statistics, hints>>
    BY <1>1 DEF records
  <2>5. TypeOK'
    BY <1>1, <2>2, <2>3, <2>4 DEF Inv, TypeOK, Jobs, HintsCursor
  <2>6. Types'
    BY <1>1, <2>2, <2>3 DEF Inv, Types
  <2>7. Left' = Left \ {d} /\ Left \subseteq Doc
    BY <1>1, <2>3 DEF Left, Live
  <2>8. \A x \in Left' : x > d
    <3>1. \A x \in Left' : x \in Nat /\ x # d
      BY <2>7, DocFacts
    <3>2. \A x \in Left' : x \in job.page \/ d < x
      BY <1>1, <1>3, <2>7
    <3>3. \A x \in job.page : d <= x
      BY <1>2
    <3>4. QED
      BY <1>2, <3>1, <3>2, <3>3
  <2>9. WalkInv'
    <3>1. found' \subseteq Present' /\ \A x \in found' : InScope(x, job.scope)'
      BY <1>1, <1>3, <2>2, <2>3 DEF InScope
    <3>2. \A x \in Left' \ job'.page : job'.full /\ \A e \in job'.page : e < x
      BY <1>3, <2>2, <2>7
    <3>3. QED
      BY <1>3, <2>2, <2>7, <2>8, <3>1, <3>2 DEF WalkInv, Walking
  <2>10. LiveInv'
    BY <1>1, <2>2, <2>3, <2>4 DEF Inv, LiveInv
  <2>11. QuietInv' /\ SweptInv' /\ LimitInv'
    BY <1>1, <1>2, <2>2, <2>3 DEF Inv, QuietInv, SweptInv, LimitInv, Sweeping
  <2>12. QED
    BY <2>5, <2>6, <2>9, <2>10, <2>11 DEF Inv
<1>6. QED
  BY <1>4, <1>5
-----------------------------------------------------------------------------
(***************************************************************************)
(* Hints, the check and the sweep.                                         *)
(***************************************************************************)
\* A step after the walk that leaves documents alone and retires nothing.
LEMMA WalkedFrame ==
    ASSUME Inv, UNCHANGED <<document, found>>, Left' = Left,
           job.step \notin Walking \union {"none"},
           job'.step \notin Walking \union {"none"}, job'.scope = job.scope
    PROVE  WalkInv'
BY DEF Inv, WalkInv, Present, InScope, Walking

LEMMA HintsStep ==
    ASSUME RedactionAssumption, Inv, clearScopedHints
    PROVE  Inv'
<1>1. PICK cleared \in SUBSET hints :
        /\ hints' = hints \ cleared
        /\ \/ job' = [job EXCEPT !.step = IF job.scope.whole THEN "drain" ELSE "done"]
           \/ job' = [job EXCEPT !.step = "more", !.cursor = HintsCursor]
  BY DEF clearScopedHints
<1>2. /\ job.step = "hints"
      /\ UNCHANGED <<document, references, statistics, outbox, found, quiet, swept, exposed, overlooked, crashes>>
  BY DEF clearScopedHints
<1>3. job \in Jobs /\ HintsCursor \in 0..HintsCursor /\ hints \subseteq Doc
  BY DocFacts DEF Inv, Types, TypeOK
<1>4. /\ job' \in Jobs /\ job'.scope = job.scope /\ job'.page = job.page
      /\ job'.keyspace = job.keyspace /\ job'.step \in {"drain", "done", "more"}
      /\ job'.step = "drain" => job.scope.whole
      /\ job'.step = "done" => ~job.scope.whole
  BY <1>1, <1>3 DEF Jobs, Steps, Walking
<1>5. Left = {} /\ job.keyspace = "references"
  BY <1>2 DEF Inv, WalkInv, QuietInv, Walking, Sweeping
<1>6. TypeOK' /\ Types' /\ LimitInv'
  <2>1. hints' \subseteq Doc
    BY <1>1, <1>3
  <2>2. QED
    BY <1>2, <1>4, <2>1, JobTypes DEF Inv, TypeOK, Types
<1>7. Left' = {} /\ Live' = Live /\ Present' = Present
  BY <1>2, <1>5 DEF Left, Live, Present
<1>8. WalkInv'
  BY <1>2, <1>4, <1>7 DEF Inv, WalkInv, InScope
<1>9. LiveInv'
  BY <1>2, <1>4, <1>7 DEF Inv, LiveInv
<1>10. QuietInv'
  BY <1>4, <1>5 DEF QuietInv, Sweeping
<1>11. SweptInv'
  BY <1>1, <1>2, <1>4 DEF Inv, SweptInv
<1>12. QED
  BY <1>6, <1>8, <1>9, <1>10, <1>11 DEF Inv

LEMMA DrainStep ==
    ASSUME RedactionAssumption, Inv, Drain
    PROVE  Inv'
<1>1. /\ job.step = "drain" /\ outbox = <<>> /\ job' = [job EXCEPT !.step = "check"]
      /\ UNCHANGED <<document, references, statistics, hints, outbox, found, quiet, swept, exposed, overlooked,
                     crashes>>
  BY DEF Drain, Step, records
<1>2. job \in Jobs
  BY DEF Inv, Types
<1>3. /\ job' \in Jobs /\ job'.scope = job.scope /\ job'.page = job.page /\ job'.step = "check"
      /\ job'.keyspace = job.keyspace
  BY <1>1, <1>2 DEF Jobs, Steps, Sweeping
<1>4. job.keyspace = "references" /\ job.scope.whole
  BY <1>1 DEF Inv, QuietInv, Sweeping
<1>5. TypeOK' /\ Types' /\ LimitInv'
  BY <1>1, <1>3, JobTypes DEF Inv, TypeOK, Types
<1>6. Left' = Left /\ Live' = Live
  BY <1>1 DEF Left, Live
<1>7. WalkInv'
  BY <1>1, <1>3, <1>6, WalkedFrame DEF Walking
<1>8. LiveInv'
  BY <1>1, <1>3, <1>6 DEF Inv, LiveInv
<1>9. QuietInv'
  BY <1>1, <1>3, <1>4 DEF QuietInv, Sweeping
<1>10. SweptInv'
  BY <1>1, <1>3 DEF Inv, SweptInv
<1>11. QED
  BY <1>5, <1>7, <1>8, <1>9, <1>10 DEF Inv

\* What is live is to be looked at, or beyond what the check reads.
LEMMA CheckStep ==
    ASSUME RedactionAssumption, Inv, Check
    PROVE  Inv'
<1>1. PICK seen \in SUBSET Doc :
        /\ WithinLimit(seen)
        /\ job' = [job EXCEPT !.step = "verdict", !.doomed = seen]
        /\ overlooked' = {d \in overlooked \union (Present \ seen) : document[d] = "live"}
  BY DEF Check
<1>2. /\ job.step = "check"
      /\ exposed' = {d \in exposed : document[d] = "live"}
      /\ UNCHANGED <<document, references, statistics, hints, outbox, found, quiet, swept, crashes>>
  BY DEF Check, records
<1>3. job \in Jobs /\ exposed \subseteq Doc /\ overlooked \subseteq Doc
  BY DEF Inv, Types, TypeOK
<1>4. /\ job' \in Jobs /\ job'.scope = job.scope /\ job'.page = job.page /\ job'.step = "verdict"
      /\ job'.keyspace = job.keyspace /\ job'.doomed = seen
  BY <1>1, <1>3 DEF Jobs, Steps, Sweeping
<1>5. Live' = Live /\ Present' = Present /\ Present \subseteq Doc /\ Live \subseteq Present
  BY <1>2 DEF Live, Present
<1>6. LimitInv'
  <2>1. CASE seen = Present
    BY <1>1, <1>5, <2>1 DEF Inv, LimitInv
  <2>2. CASE seen # Present
    <3>1. /\ seen \subseteq Present /\ IsFiniteSet(Present)
          /\ Cardinality(seen) \in Nat /\ Cardinality(Present) \in Nat
          /\ Cardinality(seen) + Others >= ScanLimit
      BY <1>1, <1>5, <2>2, SubsetFacts DEF WithinLimit
    <3>2. Cardinality(seen) < Cardinality(Present)
      <4>1. /\ Cardinality(seen) <= Cardinality(Present)
            /\ Cardinality(seen) = Cardinality(Present) => seen = Present
        BY <3>1, FS_Subset
      <4>2. QED
        BY <2>2, <3>1, <4>1
    <3>3. Others \in Nat /\ ScanLimit \in Nat
      BY DEF RedactionAssumption
    <3>4. QED
      BY <1>5, <3>1, <3>2, <3>3 DEF LimitInv
  <2>3. QED
    BY <2>1, <2>2
<1>7. TypeOK' /\ Types'
  <2>1. exposed' \subseteq Doc /\ overlooked' \subseteq Doc
    BY <1>1, <1>2, <1>3, <1>5
  <2>2. QED
    BY <1>2, <1>4, <1>6, <2>1, JobTypes DEF Inv, TypeOK, Types
<1>8. /\ Live \subseteq references \union (exposed' \union overlooked')
      /\ Live \subseteq seen \union (exposed' \union overlooked')
  BY <1>1, <1>2 DEF Inv, LiveInv, Live, Present
<1>9. Left = {} /\ Left' = {}
  <2>1. Left = {}
    BY <1>2 DEF Inv, WalkInv, Walking
  <2>2. (exposed \union overlooked) \intersect Live \subseteq exposed' \union overlooked'
    BY <1>1, <1>2 DEF Live
  <2>3. QED
    BY <1>2, <1>5, <2>1, <2>2 DEF Left
<1>10. WalkInv'
  BY <1>2, <1>4, <1>9, WalkedFrame DEF Walking
<1>11. LiveInv'
  BY <1>2, <1>4, <1>5, <1>8 DEF LiveInv
<1>12. QuietInv'
  BY <1>2, <1>4 DEF Inv, QuietInv, Sweeping
<1>13. SweptInv'
  BY <1>2, <1>4 DEF Inv, SweptInv
<1>14. QED
  BY <1>6, <1>7, <1>10, <1>11, <1>12, <1>13 DEF Inv

\* Nothing that was looked at is live: what is live was admitted since, or not looked at.
LEMMA ClearStep ==
    ASSUME RedactionAssumption, Inv, Clear
    PROVE  Inv'
<1>1. /\ job.step = "verdict" /\ \A d \in job.doomed : document[d] # "live"
      /\ job' = [job EXCEPT !.step = "scan", !.doomed = {}]
      /\ UNCHANGED <<document, references, statistics, hints, outbox, found, quiet, swept, exposed, overlooked,
                     crashes>>
  BY DEF Clear, records
<1>2. job \in Jobs
  BY DEF Inv, Types
<1>3. /\ job' \in Jobs /\ job'.scope = job.scope /\ job'.page = job.page /\ job'.step = "scan"
      /\ job'.keyspace = job.keyspace
  BY <1>1, <1>2 DEF Jobs, Steps, Sweeping
<1>4. TypeOK' /\ Types' /\ LimitInv'
  BY <1>1, <1>3, JobTypes DEF Inv, TypeOK, Types
<1>5. Left' = Left /\ Live' = Live
  BY <1>1 DEF Left, Live
<1>6. WalkInv'
  BY <1>1, <1>3, <1>5, WalkedFrame DEF Walking
<1>7. LiveInv'
  <2>1. /\ Live \subseteq exposed \union overlooked
        /\ Live \subseteq references \union (exposed \union overlooked)
    BY <1>1 DEF Inv, LiveInv, Live
  <2>2. QED
    BY <1>1, <1>3, <1>5, <2>1 DEF LiveInv
<1>8. QuietInv'
  BY <1>1, <1>3 DEF Inv, QuietInv, Sweeping
<1>9. SweptInv'
  BY <1>1, <1>3 DEF Inv, SweptInv
<1>10. QED
  BY <1>4, <1>6, <1>7, <1>8, <1>9 DEF Inv

LEMMA ScanStep ==
    ASSUME RedactionAssumption, Inv, Scan
    PROVE  Inv'
<1>1. /\ job.step = "scan" /\ job' = [job EXCEPT !.step = "delete", !.doomed = Content(job.keyspace)]
      /\ UNCHANGED <<document, references, statistics, hints, outbox, found, quiet, swept, exposed, overlooked,
                     crashes>>
  BY DEF Scan, Content, records
<1>2. job \in Jobs /\ Content(job.keyspace) \subseteq Doc
  BY DEF Inv, Types, TypeOK, Jobs, Content
<1>3. /\ job' \in Jobs /\ job'.scope = job.scope /\ job'.page = job.page /\ job'.step = "delete"
      /\ job'.keyspace = job.keyspace /\ job'.doomed = Content(job.keyspace)
  BY <1>1, <1>2 DEF Jobs, Steps, Sweeping
<1>4. TypeOK' /\ Types' /\ LimitInv'
  BY <1>1, <1>3, JobTypes DEF Inv, TypeOK, Types
<1>5. Left' = Left /\ Live' = Live
  BY <1>1 DEF Left, Live
<1>6. WalkInv'
  BY <1>1, <1>3, <1>5, WalkedFrame DEF Walking
<1>7. LiveInv'
  BY <1>1, <1>3, <1>5 DEF Inv, LiveInv
<1>8. QuietInv'
  <2>1. job'.doomed = Content(job.keyspace)'
    BY <1>1, <1>3 DEF Content
  <2>2. QED
    BY <1>1, <1>3, <2>1 DEF Inv, QuietInv, Sweeping
<1>9. SweptInv'
  BY <1>1, <1>3 DEF Inv, SweptInv
<1>10. QED
  BY <1>4, <1>6, <1>7, <1>8, <1>9 DEF Inv

\* The keyspaces in their order.
LEMMA AdvanceFacts ==
    ASSUME job \in Jobs, Advance
    PROVE  /\ job' \in Jobs /\ job'.scope = job.scope /\ job'.page = job.page
           /\ \/ job.keyspace = "hints" /\ job'.step = "done"
              \/ /\ job.keyspace = "references" /\ job'.keyspace = "statistics"
                 /\ job'.step \in {"scan", "check"}
              \/ /\ job.keyspace = "statistics" /\ job'.keyspace = "hints"
                 /\ job'.step \in {"scan", "check"}
<1> DEFINE place == CHOOSE i \in 1..Len(Keyspaces) : Keyspaces[i] = job.keyspace
<1>1. /\ Len(Keyspaces) = 3 /\ Keyspaces[1] = "references" /\ Keyspaces[2] = "statistics"
      /\ Keyspaces[3] = "hints"
  BY DEF Keyspaces
<1>2. place \in 1..3 /\ Keyspaces[place] = job.keyspace
  <2>1. \E i \in 1..Len(Keyspaces) : Keyspaces[i] = job.keyspace
    <3>1. job.keyspace \in {"references", "statistics", "hints"}
      BY DEF Jobs
    <3>2. 1 \in 1..3 /\ 2 \in 1..3 /\ 3 \in 1..3
      OBVIOUS
    <3>3. QED
      BY <1>1, <3>1, <3>2
  <2>2. QED
    BY <1>1, <2>1
<1>3. IF place = Len(Keyspaces)
        THEN job' = [job EXCEPT !.step = "done", !.doomed = {}]
        ELSE \E step \in {"scan", "check"} :
               job' = [job EXCEPT !.step = step, !.doomed = {}, !.keyspace = Keyspaces[place + 1]]
  BY DEF Advance
<1> HIDE DEF place
<1>4. CASE place = 3
  <2>1. job' = [job EXCEPT !.step = "done", !.doomed = {}] /\ job.keyspace = "hints"
    BY <1>1, <1>2, <1>3, <1>4
  <2>2. QED
    BY <2>1 DEF Jobs, Steps
<1>5. CASE place \in 1..2
  <2>1. PICK step \in {"scan", "check"} :
          job' = [job EXCEPT !.step = step, !.doomed = {}, !.keyspace = Keyspaces[place + 1]]
    BY <1>1, <1>3, <1>5
  <2>2. \/ job.keyspace = "references" /\ Keyspaces[place + 1] = "statistics"
        \/ job.keyspace = "statistics" /\ Keyspaces[place + 1] = "hints"
    BY <1>1, <1>2, <1>5
  <2>3. QED
    BY <2>1, <2>2 DEF Jobs, Steps, Sweeping
<1>6. QED
  BY <1>2, <1>4, <1>5

LEMMA DeleteStep ==
    ASSUME RedactionAssumption, Inv, Delete
    PROVE  Inv'
<1>1. /\ job.step = "delete"
      /\ references' = IF job.keyspace = "references" THEN references \ job.doomed ELSE references
      /\ statistics' = (statistics /\ (job.keyspace = "statistics" => job.doomed = {}))
      /\ hints' = IF job.keyspace = "hints" THEN hints \ job.doomed ELSE hints
      /\ UNCHANGED <<document, outbox, found, quiet, swept, exposed, overlooked, crashes>>
  BY DEF Delete
<1>2. job \in Jobs /\ references \subseteq Doc /\ hints \subseteq Doc
  BY DEF Inv, Types, TypeOK
<1>3. /\ job' \in Jobs /\ job'.scope = job.scope /\ job'.page = job.page
      /\ \/ job.keyspace = "hints" /\ job'.step = "done"
         \/ /\ job.keyspace = "references" /\ job'.keyspace = "statistics"
            /\ job'.step \in {"scan", "check"}
         \/ /\ job.keyspace = "statistics" /\ job'.keyspace = "hints"
            /\ job'.step \in {"scan", "check"}
  BY <1>2, AdvanceFacts DEF Delete
<1>4. references' \subseteq references /\ hints' \subseteq hints /\ (statistics' => statistics)
      /\ statistics' \in BOOLEAN
  BY <1>1
<1>5. TypeOK' /\ Types' /\ LimitInv'
  <2>1. references' \subseteq Doc /\ hints' \subseteq Doc
    BY <1>2, <1>4
  <2>2. QED
    BY <1>1, <1>3, <1>4, <2>1, JobTypes DEF Inv, TypeOK, Types
<1>6. Left' = Left /\ Live' = Live
  BY <1>1 DEF Left, Live
<1>7. WalkInv'
  BY <1>1, <1>3, <1>6, WalkedFrame DEF Walking
<1>8. LiveInv'
  <2>1. Live \subseteq exposed \union overlooked
    BY <1>1 DEF Inv, LiveInv
  <2>2. QED
    BY <1>1, <1>3, <1>6, <2>1 DEF LiveInv
<1>9. QuietInv'
  <2>1. job.scope.whole /\ job'.scope.whole
    BY <1>1, <1>3 DEF Inv, QuietInv, Sweeping
  <2>2. SUFFICES ASSUME quiet
                 PROVE  /\ outbox = <<>>
                        /\ job'.step # "delete"
                        /\ job'.step \in {"scan", "check"} /\ job'.keyspace # "references" => references' = {}
                        /\ job'.step \in {"scan", "check"} /\ job'.keyspace = "hints" => ~statistics'
                        /\ job'.step = "done" => references' = {} /\ ~statistics' /\ hints' = {}
    BY <1>1, <1>3, <2>1 DEF QuietInv, Sweeping
  <2>3. /\ outbox = <<>>
        /\ job.keyspace # "references" => references = {}
        /\ job.keyspace = "hints" => ~statistics
        /\ job.doomed = Content(job.keyspace)
    BY <1>1, <2>2 DEF Inv, QuietInv, Sweeping
  <2>4. CASE job.keyspace = "references"
    <3>1. references' = {}
      BY <1>1, <2>3, <2>4 DEF Content
    <3>2. QED
      BY <1>3, <2>3, <2>4, <3>1
  <2>5. CASE job.keyspace = "statistics"
    <3>1. Doc # {}
      BY DocFacts
    <3>2. job.doomed = {d \in Doc : statistics}
      BY <2>3, <2>5 DEF Content
    <3>3. ~statistics'
      BY <1>1, <2>5, <3>1, <3>2
    <3>4. references' = {}
      BY <1>4, <2>3, <2>5
    <3>5. QED
      BY <1>3, <2>3, <2>5, <3>3, <3>4
  <2>6. CASE job.keyspace = "hints"
    <3>1. hints' = {}
      BY <1>1, <2>3, <2>6 DEF Content
    <3>2. references' = {} /\ ~statistics'
      BY <1>4, <2>3, <2>6
    <3>3. QED
      BY <1>3, <2>3, <2>6, <3>1, <3>2
  <2>7. QED
    BY <1>3, <2>4, <2>5, <2>6
<1>10. SweptInv'
  BY <1>1, <1>3, <1>4 DEF Inv, SweptInv
<1>11. QED
  BY <1>5, <1>7, <1>8, <1>9, <1>10 DEF Inv

\* The request is over, one way or another.
LEMMA EndStep ==
    ASSUME RedactionAssumption, Inv, Refuse \/ Finish \/ Crash
    PROVE  Inv'
<1>1. /\ job' = NoJob /\ found' = {}
      /\ UNCHANGED <<document, references, statistics, hints, outbox, quiet, exposed, overlooked>>
      /\ crashes' \in Nat
      /\ swept' = swept \/ (job.step = "done" /\ swept' = (swept \/ (job.scope.whole /\ quiet)))
  BY DEF Refuse, Finish, Crash, records, Inv, Types
<1>2. /\ NoJob \in Jobs /\ NoJob.step = "none" /\ NoJob.page = {} /\ NoJob.keyspace = "references"
  BY NoJobType
<1>3. swept' \in BOOLEAN /\ (swept' => swept \/ (job.step = "done" /\ job.scope.whole /\ quiet))
  BY <1>1 DEF Inv, Types
<1>4. TypeOK' /\ Types' /\ LimitInv'
  BY <1>1, <1>2, <1>3, JobTypes DEF Inv, TypeOK, Types
<1>5. Live' = Live /\ Left' = {} /\ found' \subseteq Present'
  BY <1>1 DEF Left, Live
<1>6. WalkInv'
  BY <1>1, <1>2, <1>5 DEF WalkInv, Walking
<1>7. LiveInv'
  BY <1>1, <1>2, <1>5 DEF Inv, LiveInv
<1>8. QuietInv'
  BY <1>1, <1>2 DEF QuietInv, Sweeping
<1>9. SweptInv'
  BY <1>1, <1>2, <1>3 DEF Inv, SweptInv, QuietInv
<1>10. QED
  BY <1>4, <1>6, <1>7, <1>8, <1>9 DEF Inv
-----------------------------------------------------------------------------
LEMMA Initially == ASSUME RedactionAssumption, Init PROVE Inv
<1>1. /\ document = [d \in Doc |-> "absent"] /\ references = {} /\ statistics = FALSE /\ hints = {}
      /\ outbox = <<>> /\ job = NoJob /\ found = {} /\ quiet = FALSE /\ swept = FALSE
      /\ exposed = {} /\ overlooked = {} /\ crashes = 0
  BY DEF Init
<1>2. /\ NoJob \in Jobs /\ NoJob.step = "none" /\ NoJob.page = {} /\ NoJob.keyspace = "references"
  BY NoJobType
<1>3. Live = {} /\ Left = {}
  BY <1>1 DEF Live, Left
<1>4. <<>> \in Seq(Doc) /\ Len(<<>>) = 0
  BY EmptySeq
<1>5. /\ 0 <= Cardinality(Present) + Cardinality(Retired) /\ 0 <= 2 * Cardinality(Doc)
  <2>1. Present \subseteq Doc /\ Retired \subseteq Doc
    BY DEF Present, Retired
  <2>2. Cardinality(Present) \in Nat /\ Cardinality(Retired) \in Nat /\ Cardinality(Doc) \in Nat
    BY <2>1, SubsetFacts, DocFacts
  <2>3. QED
    BY <2>2
<1>6. TypeOK
  BY <1>1, <1>2, <1>4, <1>5 DEF TypeOK, Jobs
<1>7. Types
  BY <1>1, <1>2, <1>4, <1>5 DEF Types
<1>8. WalkInv /\ LiveInv /\ LimitInv /\ QuietInv /\ SweptInv
  BY <1>1, <1>2, <1>3 DEF WalkInv, LiveInv, LimitInv, QuietInv, SweptInv, Walking, Sweeping
<1>9. QED
  BY <1>6, <1>7, <1>8 DEF Inv

LEMMA Stutters == ASSUME Inv, UNCHANGED vars PROVE Inv'
<1>1. UNCHANGED <<document, references, statistics, hints, outbox, job, found, quiet, swept, exposed, overlooked,
                  crashes>>
  BY DEF vars, records
<1>2. Live' = Live /\ Left' = Left /\ Present' = Present /\ Retired' = Retired
  BY <1>1 DEF Live, Left, Present, Retired
<1>3. TypeOK' /\ Types'
  BY <1>1, <1>2 DEF Inv, TypeOK, Types, HintsCursor
<1>4. WalkInv' /\ LiveInv' /\ LimitInv'
  BY <1>1, <1>2 DEF Inv, WalkInv, LiveInv, LimitInv, InScope
<1>5. QuietInv' /\ SweptInv'
  BY <1>1 DEF Inv, QuietInv, SweptInv, Content
<1>6. QED
  BY <1>3, <1>4, <1>5 DEF Inv

LEMMA NextStep == ASSUME RedactionAssumption, Inv, [Next]_vars PROVE Inv'
<1>1. CASE \E d \in Doc : Admit(d) \/ Hint(d) \/ Expire(d)
  BY <1>1, AdmitStep, HintStep, ExpireStep
<1>2. CASE \E scope \in Scope : Begin(scope)
  BY <1>2, BeginStep
<1>3. CASE Publish
  BY <1>3, PublishStep
<1>4. CASE Continue \/ ReadPage \/ SkipRecord \/ PageDone
  BY <1>4, ContinueStep, ReadPageStep, SkipStep, PageDoneStep
<1>5. CASE \E d \in Doc : Tombstone(d)
  BY <1>5, TombstoneStep
<1>6. CASE clearScopedHints \/ Drain \/ Check \/ Clear \/ Scan \/ Delete
  BY <1>6, HintsStep, DrainStep, CheckStep, ClearStep, ScanStep, DeleteStep
<1>7. CASE Refuse \/ Finish \/ Crash
  BY <1>7, EndStep
<1>8. CASE UNCHANGED vars
  BY <1>8, Stutters
<1>9. QED
  BY <1>1, <1>2, <1>3, <1>4, <1>5, <1>6, <1>7, <1>8 DEF Next, Request

\* The invariant: what is left to retire is ahead of the walk, what is live has its reference,
\* came after the check or lies beyond the documents the check reads, and what was swept
\* stays empty while nobody else writes (redact, firstUnretiredDocument).
THEOREM Inductive == ASSUME RedactionAssumption PROVE Spec => []Inv
<1>1. Init => Inv
  BY Initially
<1>2. Inv /\ [Next]_vars => Inv'
  BY NextStep
<1>3. QED
  BY <1>1, <1>2, PTL DEF Spec

\* A redaction that is answered "complete" has retired what it found, a purged project stays
\* empty, and live documents keep their references, but for those admitted after the check or
\* overlooked by it, which needs an archive of more documents than the check reads (redact,
\* firstUnretiredDocument, purgeProjectRecords): for every number of documents, here and in
\* other projects, every limit, batch and page size and any number of crashes.
THEOREM RedactionFinalHolds == ASSUME RedactionAssumption PROVE Spec => []RedactionFinal
<1>1. Inv => RedactionFinal
  <2> SUFFICES ASSUME Inv PROVE RedactionFinal
    OBVIOUS
  <2>1. RedactionComplete
    <3> SUFFICES ASSUME job.step \in {"drain", "check", "verdict", "scan", "delete", "done"},
                        NEW d \in found \ (exposed \union overlooked), document[d] = "live"
                 PROVE  FALSE
      BY DEF RedactionComplete
    <3>1. d \in Left
      BY DEF Inv, TypeOK, Left, Live
    <3>2. QED
      BY <3>1 DEF Inv, WalkInv, Walking
  <2>2. LiveRecordsKept
    BY DEF Inv, LiveInv, LimitInv, Live, LiveRecordsKept
  <2>3. NothingLeft
    BY DEF Inv, SweptInv, NothingLeft
  <2>4. QED
    BY <2>1, <2>2, <2>3 DEF Inv, RedactionFinal
<1>2. QED
  BY <1>1, Inductive, PTL
=============================================================================
