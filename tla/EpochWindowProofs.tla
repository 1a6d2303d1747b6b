------------------------- MODULE EpochWindowProofs -------------------------
(***************************************************************************)
(* Proofs about the window of a session on its conversation, for any       *)
(* number of turns, failing calls, crashes and navigations, every size of  *)
(* window and table of contents, and every hint.                           *)
(*                                                                         *)
(* That nothing is forgotten is not inductive: a session that restarts, or *)
(* goes back in the tree, takes its boundary from a state that was written *)
(* long before, with another branch after it and other compactions.  So    *)
(* the invariant speaks of every entry of the branch: its state was right  *)
(* for the entries up to its own (StatesOK), a later compaction keeps no   *)
(* more than an earlier one and what each dropped is in a checkpoint       *)
(* (CompactionsOK).  From there a restored session is one its branch can   *)
(* carry (Fit).  A turn before a boundary is in the archive or was dropped *)
(* by a compaction, which is why a boundary may outlive the compaction     *)
(* that makes it meaningless (StoredBefore).                               *)
(*                                                                         *)
(* JobInv says what a request that is being prepared has reached: before   *)
(* the boundary moves, what leaves the window is stored; what it shows as  *)
(* a preview stays stored to the end; and the protection it refreshed      *)
(* still covers what it names when it is sent.                             *)
(***************************************************************************)
EXTENDS EpochWindow, FiniteSetTheorems, SequenceTheorems, TLAPS

StateType == [set : BOOLEAN, boundary : 0..MaxTurns, through : 0..MaxTurns, toc : Seq(Turn),
              mark : 0..MaxTurns, only : SUBSET Turn]
CompactionType == [kept : 0..MaxTurns, entries : SUBSET Doc]
EntryType == [turn : Turn, state : StateType, compaction : CompactionType]
MemType ==
    [alive : BOOLEAN, boundary : 0..MaxTurns, through : 0..MaxTurns, toc : Seq(Turn),
     mark : 0..MaxTurns, only : SUBSET Turn, forced : BOOLEAN, active : SUBSET Doc,
     known : SUBSET Doc, archived : SUBSET Turn, entries : SUBSET Doc,
     frozen : [Turn -> Text], removing : SUBSET Turn, observed : SUBSET Turn,
     reconciled : 0..MaxTurns, leased : SUBSET Doc, signature : SUBSET Doc]
Step == {"idle", "protect", "plan", "rotate", "rebalance", "guard", "persist", "hints",
         "preflight", "compact", "reset"}
JobType ==
    [pc : Step \ {"compact"}, active : SUBSET Turn, retired : SUBSET Turn, changed : BOOLEAN]
      \cup [pc : {"compact"}, active : SUBSET Turn, retired : SUBSET Doc, changed : BOOLEAN]

\* A turn is in a checkpoint of the archive.
Spanned(t, s) == \E d \in s : d.kind = "span" /\ t \in d.of

\* A turn before a boundary is in the archive, or was dropped by a compaction.
StoredBefore(boundary, n, b, s) ==
    \A h \in 1..n : b[h].turn < boundary =>
        \/ TurnDoc(b[h].turn) \in s
        \/ \E j \in 1..n : b[h].turn < b[j].compaction.kept
Newest(b) == IF b = <<>> THEN 0 ELSE b[Len(b)].turn
Bounded(boundary, b, s) == boundary <= Newest(b) /\ StoredBefore(boundary, Len(b), b, s)

\* The branch b over the stored documents s.  Each state was right when it was written, for
\* the entries up to its own: that is what a session finds that goes back to one of them.
Tables(b) == \A i \in 1..Len(b) : Len(b[i].state.toc) <= TocMax
Increasing(b) == \A i, j \in 1..Len(b) : i < j => b[i].turn < b[j].turn
StatesOK(b, s) ==
    \A i \in 1..Len(b) : /\ b[i].state.boundary <= b[i].turn
                         /\ StoredBefore(b[i].state.boundary, i, b, s)
CompactionsOK(b, s) ==
    \A i \in 1..Len(b) :
        /\ b[i].compaction.kept <= b[i].turn
        /\ \A j \in 1..Len(b) : i < j /\ b[j].compaction.kept # 0 =>
              b[i].compaction.kept <= b[j].compaction.kept
        /\ \A h \in 1..Len(b) : b[h].turn < b[i].compaction.kept => Spanned(b[h].turn, s)
BranchOK(b, s) ==
    b \in Seq(EntryType) /\ Tables(b) /\ Increasing(b) /\ StatesOK(b, s) /\ CompactionsOK(b, s)

\* The memory m of a session on the branch b.
Fit(m, b, s) ==
    /\ m \in MemType /\ Len(m.toc) <= TocMax
    /\ m.known \subseteq s
    /\ \A t \in m.archived : TurnDoc(t) \in s
    /\ m.signature \subseteq m.leased
    /\ Bounded(m.boundary, b, s)

\* The turns said are the first ones, and those of the branch are among them.
SaidTurns == {t \in Turn : fate[t] # "unsaid"}
SaidInv ==
    /\ fate \in [Turn -> {"unsaid", "open", "done", "aborted"}]
    /\ SaidTurns = 1..Said
    /\ TurnsOf(branch) \subseteq SaidTurns

\* The rest has its types.
RestTyped ==
    /\ stored \subseteq Doc /\ guarded \subseteq Doc
    /\ rows \in [Turn -> Text]
    /\ faults \in 0..MaxFaults /\ crashes \in 0..MaxCrashes

\* The request that is being prepared.
Showing == {"protect", "plan", "rotate", "guard", "persist", "hints", "preflight"}
Protected == {"plan", "rotate", "persist", "hints", "preflight"}
JobInv ==
    /\ job \in JobType
    /\ job.pc = "idle" => job = Idle
    /\ job.pc # "idle" => mem.alive /\ branch # <<>>
    /\ job.active \subseteq Context
    /\ job.pc \in {"protect", "plan"} => job.active = Window(mem)
    /\ job.pc = "rotate" =>
         job.active # {} /\ \A t \in Window(mem) \ job.active : TurnDoc(t) \in stored
    /\ job.pc \in Showing => Previews(mem, job.active) \subseteq stored
    /\ job.pc \in Protected => Docs(mem) \subseteq mem.leased
    /\ job.pc = "compact" =>
         \E t \in Context : job.active = {t}
                            /\ \A u \in TurnsOf(branch) : u < t => Spanned(u, stored)

SentInv ==
    /\ "form" \in DOMAIN sent
    /\ \A t \in DOMAIN sent.form : sent.form[t] => ToolDoc(t) \in stored

Inv ==
    BranchOK(branch, stored) /\ Fit(mem, branch, stored) /\ SaidInv /\ RestTyped /\ JobInv
    /\ SentInv

-----------------------------------------------------------------------------
(* Order. *)

\* The number of elements up to one of them tells it from the others.
LEMMA RankExists ==
    ASSUME NEW S \in SUBSET Nat, IsFiniteSet(S), NEW i \in 1..Cardinality(S)
    PROVE  \E t \in S : Cardinality({u \in S : u <= t}) = i
<1> DEFINE Upto(t) == {u \in S : u <= t}
           rank == [t \in S |-> Cardinality(Upto(t))]
           N == Cardinality(S)
<1>1. \A t \in S : rank[t] \in 1..N
  <2> SUFFICES ASSUME NEW t \in S PROVE rank[t] \in 1..N
    OBVIOUS
  <2>1. Upto(t) \in SUBSET S /\ t \in Upto(t)
    OBVIOUS
  <2> HIDE DEF Upto
  <2>2. IsFiniteSet(Upto(t)) /\ Cardinality(Upto(t)) \in Nat /\ N \in Nat /\ Cardinality(Upto(t)) <= N
    BY <2>1, FS_Subset, FS_CardinalityType
  <2>3. Cardinality(Upto(t)) # 0
    BY <2>1, <2>2, FS_EmptySet
  <2>4. QED
    BY <2>2, <2>3
<1>2. \A t, u \in S : t # u => rank[t] # rank[u]
  <2>1. ASSUME NEW t \in S, NEW u \in S, t < u PROVE rank[t] # rank[u]
    <3>1. \A v \in S : v <= t => v <= u
      BY <2>1
    <3>a. ~(u <= t) /\ u <= u
      BY <2>1
    <3>2. Upto(t) \in SUBSET Upto(u) /\ Upto(u) \in SUBSET S /\ u \in Upto(u) /\ u \notin Upto(t)
      BY <3>a, <3>1
    <3> HIDE DEF Upto
    <3>3. IsFiniteSet(Upto(u))
      BY <3>2, FS_Subset
    <3>4. Cardinality(Upto(t)) # Cardinality(Upto(u))
      BY <3>2, <3>3, FS_Subset
    <3>5. QED
      BY <3>4
  <2>2. ASSUME NEW t \in S, NEW u \in S, t # u PROVE rank[t] # rank[u]
    <3>1. t < u \/ u < t
      BY <2>2
    <3> HIDE DEF rank
    <3>2. QED
      BY <2>1, <3>1
  <2>3. QED
    BY <2>2
<1> HIDE DEF rank
<1>3. rank \in [S -> 1..N]
  BY <1>1 DEF rank
<1>4. rank \in Injection(S, 1..N)
  BY <1>2, <1>3 DEF Injection, IsInjective
<1>5. N \in Nat /\ IsFiniteSet(1..N) /\ Cardinality(1..N) = N
  BY FS_CardinalityType, FS_Interval
<1>6. rank \in Surjection(S, 1..N)
  BY <1>4, <1>5, FS_Injection
<1>7. \E t \in S : rank[t] = i
  BY <1>6 DEF Surjection
<1>8. QED
  BY <1>7 DEF rank

\* A finite set of numbers that is not empty has a greatest element and a least one.
LEMMA ExtremesExist ==
    ASSUME NEW S \in SUBSET Nat, IsFiniteSet(S), S # {}
    PROVE  /\ \E x \in S : \A y \in S : x >= y
           /\ \E x \in S : \A y \in S : x =< y
<1> DEFINE Upto(t) == {u \in S : u <= t}
<1>1. Cardinality(S) \in Nat /\ Cardinality(S) # 0
  BY FS_CardinalityType, FS_EmptySet
<1>2. PICK t \in S : Cardinality(Upto(t)) = Cardinality(S)
  BY <1>1, RankExists
<1>3. Upto(t) \in SUBSET S
  OBVIOUS
<1>4. Upto(t) = S
  <2> HIDE DEF Upto
  <2>1. QED
    BY <1>2, <1>3, FS_Subset
<1>5. PICK s \in S : Cardinality(Upto(s)) = 1
  BY <1>1, RankExists
<1>6. s \in Upto(s) /\ Upto(s) \in SUBSET S
  OBVIOUS
<1>7. Upto(s) = {s}
  <2> HIDE DEF Upto
  <2>1. IsFiniteSet(Upto(s))
    BY <1>6, FS_Subset
  <2>2. QED
    BY <1>5, <1>6, <2>1, FS_Singleton
<1>8. \A y \in S : s =< y
  <2> SUFFICES ASSUME NEW y \in S, ~(s =< y) PROVE FALSE
    OBVIOUS
  <2>1. y <= s /\ y # s
    OBVIOUS
  <2>2. QED
    BY <1>7, <2>1
<1>9. \A y \in S : t >= y
  <2> SUFFICES ASSUME NEW y \in S PROVE t >= y
    OBVIOUS
  <2>1. y \in Upto(t)
    BY <1>4
  <2>2. QED
    BY <2>1
<1>10. QED
  BY <1>8, <1>9

LEMMA MaxIs ==
    ASSUME NEW S \in SUBSET Nat, IsFiniteSet(S), S # {}
    PROVE  Max(S) \in S /\ \A y \in S : y =< Max(S)
<1>1. Max(S) \in S /\ \A y \in S : Max(S) >= y
  BY ExtremesExist DEF Max
<1>2. QED
  BY <1>1

LEMMA MinIs ==
    ASSUME NEW S \in SUBSET Nat, IsFiniteSet(S), S # {}
    PROVE  Min(S) \in S /\ \A y \in S : Min(S) =< y
BY ExtremesExist DEF Min

LEMMA TurnsFinite ==
    ASSUME WindowAssumption
    PROVE  IsFiniteSet(Turn) /\ Turn \subseteq Nat /\ Cardinality(Turn) = MaxTurns /\ MaxTurns \in Nat
BY FS_Interval DEF WindowAssumption, Turn

\* The least and the greatest of some turns.
LEMMA LeastTurn ==
    ASSUME WindowAssumption, NEW S \in SUBSET Turn, S # {}
    PROVE  /\ Min(S) \in S /\ \A t \in S : Min(S) =< t
           /\ Max(S) \in S /\ \A t \in S : t =< Max(S)
<1>1. IsFiniteSet(S) /\ S \in SUBSET Nat
  BY TurnsFinite, FS_Subset
<1>2. QED
  BY <1>1, MinIs, MaxIs

LEMMA OrderedTurns ==
    ASSUME WindowAssumption, NEW S \in SUBSET Turn
    PROVE  Ordered(S) \in Seq(Turn)
<1>1. IsFiniteSet(S) /\ S \in SUBSET Nat
  BY TurnsFinite, FS_Subset
<1>2. Cardinality(S) \in Nat
  BY <1>1, FS_CardinalityType
<1>3. ASSUME NEW i \in 1..Cardinality(S)
      PROVE  (CHOOSE t \in S : Cardinality({u \in S : u <= t}) = i) \in Turn
  <2>1. \E t \in S : Cardinality({u \in S : u <= t}) = i
    BY <1>1, RankExists
  <2>2. QED
    BY <2>1
<1>4. Ordered(S) \in [1..Cardinality(S) -> Turn]
  BY <1>3 DEF Ordered
<1>5. QED
  BY <1>2, <1>4, SeqDef

\* The table of contents stays one, and within its bound.
LEMMA TocBounded ==
    ASSUME WindowAssumption, mem.toc \in Seq(Turn), NEW S \in SUBSET Turn
    PROVE  ExtendedToc(S) \in Seq(Turn) /\ Len(ExtendedToc(S)) <= TocMax
<1> DEFINE toc == mem.toc \o Ordered(S)
           n == Len(toc)
           from == Max({1, n - TocMax + 1})
<1>1. toc \in Seq(Turn) /\ n \in Nat
  BY OrderedTurns, ConcatProperties, LenProperties
<1>2. TocMax \in Nat
  BY DEF WindowAssumption
<1> HIDE DEF toc, n
<1>3. from \in Nat /\ 1 <= from /\ n - TocMax + 1 <= from
  <2> DEFINE B == {1, n - TocMax + 1}
  <2>1. \E x \in B : \A y \in B : x >= y
    <3>1. n - TocMax + 1 \in Int
      BY <1>1, <1>2
    <3>2. 1 >= n - TocMax + 1 \/ n - TocMax + 1 >= 1
      BY <3>1
    <3>3. QED
      BY <3>1, <3>2
  <2>2. Max(B) \in B /\ \A y \in B : Max(B) >= y
    BY <2>1 DEF Max
  <2>3. QED
    BY <1>1, <1>2, <2>2
<1> HIDE DEF from
<1>4. \A i \in from..n : toc[i] \in Turn
  BY <1>1, <1>3, ElementOfSeq DEF n
<1>5. /\ SubSeq(toc, from, n) \in Seq(Turn)
      /\ Len(SubSeq(toc, from, n)) = IF from <= n THEN n - from + 1 ELSE 0
  BY <1>1, <1>3, <1>4, SubSeqProperties
<1>6. ExtendedToc(S) = SubSeq(toc, from, n)
  BY DEF ExtendedToc, Recent, toc, from, n
<1>7. QED
  BY <1>1, <1>2, <1>3, <1>5, <1>6

-----------------------------------------------------------------------------
(* The calls of the archive. *)

LEMMA DocTypes ==
    /\ \A t \in Turn : TurnDoc(t) \in Doc /\ ToolDoc(t) \in Doc
    /\ \A S \in SUBSET Turn : SpanDoc(S) \in Doc
BY DEF TurnDoc, ToolDoc, SpanDoc, Doc

LEMMA DocsTyped ==
    ASSUME NEW m \in MemType
    PROVE  Docs(m) \subseteq Doc
<1>1. m.toc \in Seq(Turn) /\ m.active \subseteq Doc /\ m.entries \subseteq Doc
  BY DEF MemType
<1>2. \A i \in DOMAIN m.toc : m.toc[i] \in Turn
  BY <1>1
<1>3. QED
  BY <1>1, <1>2, DocTypes DEF Docs

\* What a call of the archive leaves alone in the memory of a session.
Kept(n, m) ==
    /\ n \in MemType
    /\ n.alive = m.alive /\ n.boundary = m.boundary /\ n.through = m.through
    /\ n.toc = m.toc /\ n.active = m.active /\ n.entries = m.entries
    /\ n.archived = m.archived

\* What is stored is known and protected, also by a call that failed half-way.
LEMMA PutAllFacts ==
    ASSUME RestTyped, NEW m \in MemType, NEW D \in SUBSET Doc, NEW o \in PutAll(m, D)
    PROVE  \E E \in SUBSET D :
             /\ Kept(o.mem, m) /\ o.mem.signature = m.signature
             /\ o.mem.known = m.known \cup E /\ o.mem.leased = m.leased \cup E
             /\ stored \cup E \subseteq o.stored /\ o.stored \subseteq stored \cup D
             /\ o.guarded \subseteq Doc
             /\ o.ok \in BOOLEAN /\ (o.ok => E = D)
<1> DEFINE Goal(E) ==
             /\ Kept(o.mem, m) /\ o.mem.signature = m.signature
             /\ o.mem.known = m.known \cup E /\ o.mem.leased = m.leased \cup E
             /\ stored \cup E \subseteq o.stored /\ o.stored \subseteq stored \cup D
             /\ o.guarded \subseteq Doc
             /\ o.ok \in BOOLEAN /\ (o.ok => E = D)
<1>1. ASSUME NEW E \in SUBSET D
      PROVE  /\ Kept(Remember(m, E), m) /\ Remember(m, E).signature = m.signature
             /\ Remember(m, E).known = m.known \cup E /\ Remember(m, E).leased = m.leased \cup E
  <2>1. E \subseteq Doc
    OBVIOUS
  <2>2. Remember(m, E) \in MemType
    BY <2>1 DEF MemType, Remember
  <2>3. QED
    BY <2>2 DEF MemType, Kept, Remember
<1>2. \A E \in SUBSET D : Guard(m, E) \subseteq Doc
  BY DEF Guard, MemType, RestTyped
<1>3. CASE o = [ok |-> TRUE, mem |-> Remember(m, D), stored |-> stored \cup D,
                guarded |-> Guard(m, D)]
  <2>1. /\ o.ok = TRUE /\ o.mem = Remember(m, D) /\ o.stored = stored \cup D
        /\ o.guarded = Guard(m, D) /\ D \in SUBSET D
    BY <1>3
  <2>2. Goal(D)
    BY <1>1, <1>2, <2>1
  <2>3. QED
    BY <2>1, <2>2
<1>4. ASSUME NEW d \in D, o \in PutFailed(m, D, d) PROVE \E E \in SUBSET D : Goal(E)
  <2> DEFINE E == {e \in D : Max(e.of) < Max(d.of)}
  <2>1. E \in SUBSET D
    OBVIOUS
  <2>2. \E x \in {{}, {d}}, g \in {E, E \cup {d}} :
            o = [ok |-> FALSE, mem |-> Remember(m, E), stored |-> stored \cup E \cup x,
                 guarded |-> Guard(m, g)]
    BY <1>4 DEF PutFailed
  <2> HIDE DEF E
  <2>3. PICK x \in {{}, {d}}, g \in {E, E \cup {d}} :
            o = [ok |-> FALSE, mem |-> Remember(m, E), stored |-> stored \cup E \cup x,
                 guarded |-> Guard(m, g)]
    BY <2>2
  <2>4. /\ o.ok = FALSE /\ o.mem = Remember(m, E) /\ o.stored = stored \cup E \cup x
        /\ o.guarded = Guard(m, g) /\ g \in SUBSET D /\ x \in SUBSET D
    BY <2>1, <2>3
  <2>5. Goal(E)
    BY <1>1, <1>2, <2>1, <2>4
  <2>6. QED
    BY <2>1, <2>5
<1>5. \/ o = [ok |-> TRUE, mem |-> Remember(m, D), stored |-> stored \cup D,
              guarded |-> Guard(m, D)]
      \/ \E d \in D : o \in PutFailed(m, D, d)
  BY DEF PutAll
<1>6. QED
  BY <1>3, <1>4, <1>5

LEMMA LeasesTyped ==
    ASSUME NEW m \in MemType, NEW D, D \subseteq Doc
    PROVE  [m EXCEPT !.signature = D, !.leased = D] \in MemType
BY DEF MemType

\* What a refresh names is protected once it succeeded, or was before.
LEMMA RefreshFacts ==
    ASSUME RestTyped, NEW m \in MemType, m.signature \subseteq m.leased, NEW o \in Refresh(m)
    PROVE  /\ Kept(o.mem, m) /\ o.mem.known = m.known
           /\ o.mem.signature \subseteq o.mem.leased
           /\ o.guarded \subseteq Doc
           /\ o.ok \in BOOLEAN /\ (o.ok => Docs(m) \subseteq o.mem.leased)
<1> DEFINE D == Docs(m)
<1>1. D \subseteq Doc
  BY DocsTyped
<1> HIDE DEF D
<1>2. Kept(m, m)
  BY DEF Kept
<1>3. CASE D = m.signature /\ o = [ok |-> TRUE, mem |-> m, guarded |-> guarded]
  BY <1>2, <1>3 DEF RestTyped, D
<1>4. CASE D = m.leased /\ o = [ok |-> TRUE, mem |-> [m EXCEPT !.signature = D], guarded |-> guarded]
  <2>1. o.ok = TRUE /\ o.mem = [m EXCEPT !.signature = D] /\ o.guarded = guarded
    BY <1>4
  <2>2. /\ Kept(o.mem, m) /\ o.mem.known = m.known
        /\ o.mem.signature = D /\ o.mem.leased = m.leased
    BY <1>1, <2>1 DEF Kept, MemType
  <2>3. QED
    BY <1>4, <2>1, <2>2 DEF RestTyped, D
<1>5. CASE o = [ok |-> TRUE, mem |-> [m EXCEPT !.signature = D, !.leased = D], guarded |-> D]
  <2>1. o.ok = TRUE /\ o.mem = [m EXCEPT !.signature = D, !.leased = D] /\ o.guarded = D
    BY <1>5
  <2>a. o.mem \in MemType
    BY <1>1, <2>1, LeasesTyped
  <2>2. /\ Kept(o.mem, m) /\ o.mem.known = m.known
        /\ o.mem.signature = D /\ o.mem.leased = D
    BY <2>1, <2>a DEF Kept, MemType
  <2>3. QED
    BY <1>1, <2>1, <2>2 DEF D
<1>6. ASSUME NEW g \in {guarded, D}, o = [ok |-> FALSE, mem |-> m, guarded |-> g]
      PROVE  /\ Kept(o.mem, m) /\ o.mem.known = m.known
             /\ o.mem.signature \subseteq o.mem.leased
             /\ o.guarded \subseteq Doc
             /\ o.ok \in BOOLEAN /\ (o.ok => Docs(m) \subseteq o.mem.leased)
  BY <1>1, <1>2, <1>6 DEF RestTyped
<1>7. \/ D = m.signature /\ o = [ok |-> TRUE, mem |-> m, guarded |-> guarded]
      \/ D = m.leased /\ o = [ok |-> TRUE, mem |-> [m EXCEPT !.signature = D], guarded |-> guarded]
      \/ o = [ok |-> TRUE, mem |-> [m EXCEPT !.signature = D, !.leased = D], guarded |-> D]
      \/ \E g \in {guarded, D} : o = [ok |-> FALSE, mem |-> m, guarded |-> g]
  BY DEF Refresh, D
<1>8. QED
  BY <1>3, <1>4, <1>5, <1>6, <1>7

-----------------------------------------------------------------------------
(* The branch: its turns, and what its compactions dropped. *)

\* Entry by entry.
LEMMA BranchTyped ==
    ASSUME WindowAssumption, NEW b \in Seq(EntryType)
    PROVE  /\ Len(b) \in Nat /\ DOMAIN b = 1..Len(b)
           /\ b # <<>> <=> Len(b) \in 1..Len(b)
           /\ \A i \in 1..Len(b) :
                /\ b[i] \in EntryType /\ b[i].turn \in Turn /\ b[i].turn \in Nat
                /\ b[i].state \in StateType /\ b[i].compaction \in CompactionType
                /\ b[i].state.boundary \in 0..MaxTurns /\ b[i].state.boundary \in Nat
                /\ b[i].compaction.kept \in 0..MaxTurns /\ b[i].compaction.kept \in Nat
                /\ b[i].compaction.entries \subseteq Doc
<1>1. Len(b) \in Nat /\ DOMAIN b = 1..Len(b)
  OBVIOUS
<1>2. \A i \in 1..Len(b) : b[i] \in EntryType
  BY ElementOfSeq
<1>3. b # <<>> <=> Len(b) \in 1..Len(b)
  BY <1>1, EmptySeq
<1>4. (\A t \in Turn : t \in Nat) /\ \A k \in 0..MaxTurns : k \in Nat
  BY TurnsFinite
<1>5. ASSUME NEW i \in 1..Len(b)
      PROVE  /\ b[i] \in EntryType /\ b[i].turn \in Turn
             /\ b[i].state \in StateType /\ b[i].compaction \in CompactionType
             /\ b[i].state.boundary \in 0..MaxTurns
             /\ b[i].compaction.kept \in 0..MaxTurns
             /\ b[i].compaction.entries \subseteq Doc
  BY <1>2 DEF EntryType, StateType, CompactionType
<1>6. QED
  BY <1>1, <1>3, <1>4, <1>5

LEMMA IndexSets ==
    ASSUME NEW n \in Nat, NEW I \in SUBSET (1..n), I # {}
    PROVE  Max(I) \in I /\ \A i \in I : i =< Max(I)
<1>1. IsFiniteSet(1..n)
  BY FS_Interval
<1>2. I \in SUBSET Nat
  OBVIOUS
<1>3. IsFiniteSet(I)
  BY <1>1, FS_Subset
<1>4. QED
  BY <1>2, <1>3, MaxIs

\* The last compaction is one of the branch, and kept the most recent turn.
LEMMA LastKept ==
    ASSUME WindowAssumption, NEW b \in Seq(EntryType), NEW s, CompactionsOK(b, s)
    PROVE  /\ LastCompaction(b) \in CompactionType /\ LastCompaction(b).kept \in Nat
           /\ \/ LastCompaction(b) = NoCompaction
              \/ \E j \in 1..Len(b) : LastCompaction(b) = b[j].compaction
           /\ \A j \in 1..Len(b) : b[j].compaction.kept <= LastCompaction(b).kept
<1> DEFINE n == Len(b)
           I == {i \in DOMAIN b : b[i].compaction.kept # 0}
<1>1. n \in Nat /\ DOMAIN b = 1..n
  BY BranchTyped
<1>2. \A i \in 1..n : b[i].compaction \in CompactionType /\ b[i].compaction.kept \in Nat
  BY BranchTyped
<1>3. \A i \in 1..n : i \notin I => b[i].compaction.kept = 0
  BY <1>1
<1>4. I \in SUBSET (1..n)
  BY <1>1
<1>5. \A i \in I : b[i].compaction.kept # 0
  OBVIOUS
<1>6. LastCompaction(b) = IF I = {} THEN NoCompaction ELSE b[Max(I)].compaction
  BY DEF LastCompaction
<1>7. ASSUME NEW i \in 1..n, NEW j \in I, i < j
      PROVE  b[i].compaction.kept <= b[j].compaction.kept
  BY <1>1, <1>4, <1>5, <1>7 DEF CompactionsOK
<1> HIDE DEF I, n
<1>8. CASE I = {}
  <2>1. NoCompaction \in CompactionType /\ NoCompaction.kept = 0
    <3>1. 0 \in 0..MaxTurns
      BY DEF WindowAssumption
    <3>2. QED
      BY <3>1 DEF NoCompaction, CompactionType
  <2>2. QED
    BY <1>2, <1>3, <1>6, <1>8, <2>1 DEF n
<1>9. CASE I # {}
  <2>1. Max(I) \in I /\ \A i \in I : i =< Max(I)
    BY <1>1, <1>4, <1>9, IndexSets
  <2>2. Max(I) \in 1..n
    BY <1>4, <2>1
  <2>3. LastCompaction(b) = b[Max(I)].compaction
    BY <1>6, <1>9
  <2>4. ASSUME NEW j \in 1..n PROVE b[j].compaction.kept <= b[Max(I)].compaction.kept
    <3>1. CASE j \in I
      <4>1. j = Max(I) \/ j < Max(I)
        BY <2>1, <2>2, <3>1
      <4>2. QED
        BY <1>2, <1>7, <2>1, <2>2, <4>1
    <3>2. CASE j \notin I
      BY <1>2, <1>3, <2>2, <3>2
    <3>3. QED
      BY <3>1, <3>2
  <2>5. QED
    BY <1>2, <2>2, <2>3, <2>4 DEF n
<1>10. QED
  BY <1>8, <1>9

\* The context is what no compaction dropped, and what one dropped is in a checkpoint.
LEMMA ContextFacts ==
    ASSUME WindowAssumption, NEW b \in Seq(EntryType), NEW s, CompactionsOK(b, s)
    PROVE  /\ ContextOf(b) \subseteq TurnsOf(b) /\ TurnsOf(b) \subseteq Turn
           /\ TurnsOf(b) = {b[h].turn : h \in 1..Len(b)}
           /\ \A h \in 1..Len(b) :
                b[h].turn \in ContextOf(b) <=>
                  \A j \in 1..Len(b) : b[j].compaction.kept <= b[h].turn
           /\ \A t \in TurnsOf(b) \ ContextOf(b) : Spanned(t, s)
<1> DEFINE n == Len(b)
           last == LastCompaction(b).kept
<1>1. n \in Nat /\ DOMAIN b = 1..n
  BY BranchTyped
<1>2. \A i \in 1..n : /\ b[i].turn \in Turn /\ b[i].turn \in Nat
                      /\ b[i].compaction.kept \in Nat
  BY BranchTyped
<1>3. TurnsOf(b) = {b[h].turn : h \in 1..n}
  BY <1>1 DEF TurnsOf
<1>4. ContextOf(b) = {t \in TurnsOf(b) : t >= last}
  BY DEF ContextOf
<1>5. /\ last \in Nat
      /\ last = 0 \/ \E j \in 1..n : last = b[j].compaction.kept
      /\ \A j \in 1..n : b[j].compaction.kept <= last
  BY LastKept DEF NoCompaction
<1>6. \A h, j \in 1..n : b[h].turn < b[j].compaction.kept => Spanned(b[h].turn, s)
  BY <1>1 DEF CompactionsOK
<1> HIDE DEF last, n
<1>7. TurnsOf(b) \subseteq Turn
  BY <1>2, <1>3
<1>8. ASSUME NEW h \in 1..n
      PROVE  b[h].turn \in ContextOf(b) <=>
                \A j \in 1..n : b[j].compaction.kept <= b[h].turn
  <2>1. b[h].turn \in TurnsOf(b)
    BY <1>3
  <2>2. b[h].turn \in ContextOf(b) <=> last <= b[h].turn
    BY <1>2, <1>4, <1>5, <2>1
  <2>3. QED
    BY <1>2, <1>5, <2>2
<1>9. ASSUME NEW t \in TurnsOf(b), t \notin ContextOf(b) PROVE Spanned(t, s)
  <2>1. PICK h \in 1..n : b[h].turn = t
    BY <1>3
  <2>2. PICK j \in 1..n : ~(b[j].compaction.kept <= t)
    BY <1>8, <1>9, <2>1
  <2>3. QED
    BY <1>2, <1>6, <2>1, <2>2
<1>10. QED
  BY <1>3, <1>4, <1>7, <1>8, <1>9 DEF n

\* More documents stored take nothing away.
LEMMA MoreStored ==
    ASSUME NEW b, NEW s, NEW r, s \subseteq r
    PROVE  /\ BranchOK(b, s) => BranchOK(b, r)
           /\ \A boundary : Bounded(boundary, b, s) => Bounded(boundary, b, r)
           /\ \A m : Fit(m, b, s) => Fit(m, b, r)
           /\ \A t : Spanned(t, s) => Spanned(t, r)
<1>1. \A t : Spanned(t, s) => Spanned(t, r)
  BY DEF Spanned
<1>2. \A boundary, n : StoredBefore(boundary, n, b, s) => StoredBefore(boundary, n, b, r)
  BY DEF StoredBefore
<1>3. \A boundary : Bounded(boundary, b, s) => Bounded(boundary, b, r)
  BY <1>2 DEF Bounded
<1>4. \A m : Fit(m, b, s) => Fit(m, b, r)
  BY <1>3 DEF Fit
<1>5. BranchOK(b, s) => BranchOK(b, r)
  BY <1>1, <1>2 DEF BranchOK, StatesOK, CompactionsOK
<1>6. QED
  BY <1>1, <1>3, <1>4, <1>5

\* A change of the states of the entries leaves the context, and what is said of it.
LEMMA EntriesSame ==
    ASSUME WindowAssumption, NEW b \in Seq(EntryType), NEW c \in Seq(EntryType), NEW s,
           Increasing(b), CompactionsOK(b, s), Len(c) = Len(b),
           \A i \in 1..Len(b) : c[i].turn = b[i].turn /\ c[i].compaction = b[i].compaction
    PROVE  /\ Increasing(c) /\ CompactionsOK(c, s)
           /\ ContextOf(c) = ContextOf(b) /\ TurnsOf(c) = TurnsOf(b) /\ Newest(c) = Newest(b)
           /\ c = <<>> <=> b = <<>>
           /\ \A boundary, n : n \in 0..Len(b) /\ StoredBefore(boundary, n, b, s) =>
                                 StoredBefore(boundary, n, c, s)
<1> DEFINE n == Len(b)
<1>1. n \in Nat /\ DOMAIN b = 1..n /\ DOMAIN c = 1..n /\ Len(c) = n
  BY BranchTyped
<1>2. \A i \in 1..n : c[i].turn = b[i].turn /\ c[i].compaction = b[i].compaction
  OBVIOUS
<1>3. TurnsOf(c) = TurnsOf(b)
  BY <1>1, <1>2 DEF TurnsOf
<1>4. c = <<>> <=> b = <<>>
  BY <1>1, EmptySeq
<1>5. Newest(c) = Newest(b)
  <2>1. b # <<>> => n \in 1..n
    BY BranchTyped
  <2>2. QED
    BY <1>1, <1>2, <1>4, <2>1 DEF Newest
<1>6. Increasing(c)
  BY <1>1, <1>2 DEF Increasing
<1>7. CompactionsOK(c, s)
  BY <1>1, <1>2 DEF CompactionsOK
<1>8. LastCompaction(c) = LastCompaction(b)
  <2> DEFINE I == {i \in DOMAIN b : b[i].compaction.kept # 0}
             J == {i \in DOMAIN c : c[i].compaction.kept # 0}
  <2>1. J = I
    BY <1>1, <1>2
  <2>2. I \in SUBSET (1..n)
    BY <1>1
  <2>3. I # {} => Max(I) \in 1..n
    <3> HIDE DEF I
    <3>1. QED
      BY <1>1, <2>2, IndexSets
  <2>4. /\ LastCompaction(b) = IF I = {} THEN NoCompaction ELSE b[Max(I)].compaction
        /\ LastCompaction(c) = IF J = {} THEN NoCompaction ELSE c[Max(J)].compaction
    BY DEF LastCompaction
  <2> HIDE DEF I, J
  <2>5. QED
    BY <1>2, <2>1, <2>3, <2>4
<1>9. ContextOf(c) = ContextOf(b)
  BY <1>3, <1>8 DEF ContextOf
<1>10. ASSUME NEW boundary, NEW k \in 0..n, StoredBefore(boundary, k, b, s)
       PROVE  StoredBefore(boundary, k, c, s)
  <2>1. \A i \in 1..k : i \in 1..n
    BY <1>1
  <2>2. QED
    BY <1>2, <1>10, <2>1 DEF StoredBefore
<1>11. QED
  BY <1>3, <1>4, <1>5, <1>6, <1>7, <1>9, <1>10

\* The branch c is b with another state, or another compaction, at its last entry.
WithState(c, b, e) ==
    /\ c = [i \in DOMAIN b |-> c[i]]
    /\ \A i \in DOMAIN b : c[i] = IF i = Len(b) THEN [b[i] EXCEPT !.state = e] ELSE b[i]
WithCompaction(c, b, e) ==
    /\ c = [i \in DOMAIN b |-> c[i]]
    /\ \A i \in DOMAIN b : c[i] = IF i = Len(b) THEN [b[i] EXCEPT !.compaction = e] ELSE b[i]

LEMMA Exchanged ==
    ASSUME NEW b, NEW e
    PROVE  /\ WithState([b EXCEPT ![Len(b)].state = e], b, e)
           /\ WithCompaction([b EXCEPT ![Len(b)].compaction = e], b, e)
BY DEF WithState, WithCompaction

\* The branch c is as good as b, also to each session on it.
AsGood(c, b, s) ==
    /\ BranchOK(c, s)
    /\ \A m : Fit(m, b, s) => Fit(m, c, s)
    /\ b # <<>> => c # <<>>

\* The state of a session goes to the last entry.
LEMMA PersistOK ==
    ASSUME WindowAssumption, NEW b, NEW s, BranchOK(b, s), NEW m, Fit(m, b, s),
           NEW c, WithState(c, b, StateOf(m))
    PROVE  AsGood(c, b, s) /\ TurnsOf(c) = TurnsOf(b) /\ ContextOf(c) = ContextOf(b)
<1> DEFINE n == Len(b)
<1>1. b \in Seq(EntryType) /\ n \in Nat /\ DOMAIN b = 1..n
  BY BranchTyped DEF BranchOK
<1>2. \A i \in 1..n : b[i] \in EntryType /\ b[i].turn \in Nat
  BY <1>1, BranchTyped
<1>3. /\ StateOf(m) \in StateType /\ StateOf(m).boundary = m.boundary
      /\ Len(StateOf(m).toc) <= TocMax /\ Bounded(m.boundary, b, s)
  BY DEF StateOf, StateType, Fit, MemType
<1> HIDE DEF n
<1>4. \A i \in 1..n : c[i] = IF i = n THEN [b[i] EXCEPT !.state = StateOf(m)] ELSE b[i]
  BY <1>1 DEF n, WithState
<1>5. /\ DOMAIN c = 1..n
      /\ \A i \in 1..n : /\ c[i] \in EntryType
                         /\ c[i].turn = b[i].turn /\ c[i].compaction = b[i].compaction
                         /\ c[i].state = IF i = n THEN StateOf(m) ELSE b[i].state
  <2>1. ASSUME NEW i \in 1..n
        PROVE  /\ c[i] \in EntryType
               /\ c[i].turn = b[i].turn /\ c[i].compaction = b[i].compaction
               /\ c[i].state = IF i = n THEN StateOf(m) ELSE b[i].state
    <3>1. CASE i = n
      <4>1. c[i] = [b[i] EXCEPT !.state = StateOf(m)] /\ b[i] \in EntryType
        BY <1>2, <1>4, <3>1
      <4>2. QED
        BY <1>3, <3>1, <4>1 DEF EntryType
    <3>2. CASE i # n
      <4>1. c[i] = b[i] /\ b[i] \in EntryType
        BY <1>2, <1>4, <3>2
      <4>2. QED
        BY <3>2, <4>1
    <3>3. QED
      BY <3>1, <3>2
  <2>2. DOMAIN c = 1..n
    BY <1>1 DEF WithState
  <2>3. QED
    BY <2>1, <2>2
<1>6. c \in Seq(EntryType) /\ Len(c) = n
  <2>1. c = [i \in 1..n |-> c[i]]
    BY <1>1 DEF WithState
  <2>2. c \in [1..n -> EntryType]
    BY <1>5, <2>1
  <2>3. QED
    BY <1>1, <2>2, SeqDef, LenProperties
<1>7. /\ Increasing(c) /\ CompactionsOK(c, s)
      /\ ContextOf(c) = ContextOf(b) /\ TurnsOf(c) = TurnsOf(b) /\ Newest(c) = Newest(b)
      /\ c = <<>> <=> b = <<>>
      /\ \A boundary, k : k \in 0..n /\ StoredBefore(boundary, k, b, s) =>
                            StoredBefore(boundary, k, c, s)
  <2>1. Increasing(b) /\ CompactionsOK(b, s)
    BY DEF BranchOK
  <2>2. /\ Len(c) = Len(b)
        /\ \A i \in 1..Len(b) : c[i].turn = b[i].turn /\ c[i].compaction = b[i].compaction
    BY <1>5, <1>6 DEF n
  <2>3. /\ Increasing(c) /\ CompactionsOK(c, s)
        /\ ContextOf(c) = ContextOf(b) /\ TurnsOf(c) = TurnsOf(b) /\ Newest(c) = Newest(b)
        /\ c = <<>> <=> b = <<>>
        /\ \A boundary, k : k \in 0..Len(b) /\ StoredBefore(boundary, k, b, s) =>
                               StoredBefore(boundary, k, c, s)
    BY <1>1, <1>6, <2>1, <2>2, EntriesSame
  <2>4. QED
    BY <2>3 DEF n
<1>8. \A boundary : Bounded(boundary, b, s) => Bounded(boundary, c, s)
  <2>1. n \in 0..n
    BY <1>1
  <2>2. QED
    BY <1>6, <1>7, <2>1 DEF Bounded, n
<1>9. \A k : Fit(k, b, s) => Fit(k, c, s)
  BY <1>8 DEF Fit
<1>10. Tables(c)
  BY <1>3, <1>5, <1>6 DEF BranchOK, Tables, n
<1>11. StatesOK(c, s)
  <2> SUFFICES ASSUME NEW i \in 1..n
               PROVE  c[i].state.boundary <= c[i].turn /\ StoredBefore(c[i].state.boundary, i, c, s)
    BY <1>6 DEF StatesOK
  <2>1. i \in 0..n
    BY <1>1
  <2>2. CASE i = n
    <3>1. b # <<>>
      BY <1>1, <2>2, BranchTyped DEF n
    <3>2. m.boundary <= b[n].turn /\ StoredBefore(m.boundary, n, b, s)
      BY <1>3, <3>1 DEF Bounded, Newest, n
    <3>3. StoredBefore(m.boundary, i, c, s)
      BY <1>7, <2>1, <2>2, <3>2
    <3>4. c[i].state.boundary = m.boundary /\ c[i].turn = b[n].turn
      BY <1>3, <1>5, <2>2
    <3>5. QED
      BY <3>2, <3>3, <3>4
  <2>3. CASE i # n
    <3>1. b[i].state.boundary <= b[i].turn /\ StoredBefore(b[i].state.boundary, i, b, s)
      BY DEF BranchOK, StatesOK, n
    <3>2. QED
      BY <1>5, <1>7, <2>1, <2>3, <3>1
  <2>4. QED
    BY <2>2, <2>3
<1>12. QED
  BY <1>6, <1>7, <1>9, <1>10, <1>11 DEF BranchOK, AsGood

\* A new turn, later than those of the branch.
LEMMA AppendOK ==
    ASSUME WindowAssumption, NEW b, NEW s, BranchOK(b, s), NEW t \in Turn,
           \A i \in 1..Len(b) : b[i].turn < t,
           NEW c \in Seq(EntryType), Len(c) = Len(b) + 1,
           \A i \in 1..Len(b) : c[i] = b[i],
           c[Len(b) + 1] = Entry(t)
    PROVE  AsGood(c, b, s) /\ TurnsOf(c) = TurnsOf(b) \cup {t}
<1> DEFINE n == Len(b)
<1>1. b \in Seq(EntryType) /\ n \in Nat /\ DOMAIN b = 1..n
  BY BranchTyped DEF BranchOK
<1>2. /\ Entry(t) \in EntryType /\ Entry(t).turn = t
      /\ Entry(t).state.boundary = 0 /\ Entry(t).state.toc = <<>>
      /\ Entry(t).compaction.kept = 0
  <2>1. 0 \in 0..MaxTurns /\ <<>> \in Seq(Turn)
    BY EmptySeq DEF WindowAssumption
  <2>2. QED
    BY <2>1 DEF Entry, EntryType, StateType, CompactionType, NoState, NoCompaction
<1>3. /\ c \in Seq(EntryType) /\ Len(c) = n + 1
      /\ \A i \in 1..n : c[i] = b[i]
      /\ c[n + 1] = Entry(t)
  OBVIOUS
<1>4. 0 <= TocMax /\ Len(<<>>) = 0 /\ t \in Nat /\ 1 <= t
  BY DEF WindowAssumption, Turn
<1>5. /\ \A i \in 1..(n + 1) : i \in 1..n \/ i = n + 1
      /\ \A i \in 1..n : i \in 1..(n + 1) /\ i # n + 1
      /\ n + 1 \in 1..(n + 1)
  BY <1>1
<1>6. \A i \in 1..n : /\ b[i].turn \in Nat /\ b[i].turn < t
                      /\ b[i].compaction.kept \in Nat /\ b[i].state.boundary \in Nat
  BY <1>1, BranchTyped
<1> HIDE DEF n
<1>7. Tables(c)
  BY <1>2, <1>3, <1>4, <1>5 DEF BranchOK, Tables, n
<1>8. Increasing(c)
  <2> SUFFICES ASSUME NEW i \in 1..(n + 1), NEW j \in 1..(n + 1), i < j PROVE c[i].turn < c[j].turn
    BY <1>3 DEF Increasing
  <2>1. i \in 1..n
    BY <1>1
  <2>2. CASE j \in 1..n
    BY <1>3, <2>1, <2>2 DEF BranchOK, Increasing, n
  <2>3. CASE j = n + 1
    BY <1>2, <1>3, <1>6, <2>1, <2>3
  <2>4. QED
    BY <1>5, <2>2, <2>3
<1>9. ASSUME NEW boundary, NEW k \in 0..n, StoredBefore(boundary, k, b, s)
      PROVE  StoredBefore(boundary, k, c, s)
  <2>1. \A i \in 1..k : i \in 1..n
    BY <1>1
  <2>2. \A i \in 1..k : c[i] = b[i]
    BY <1>3, <2>1
  <2>3. QED
    BY <1>9, <2>2 DEF StoredBefore
<1>10. StatesOK(c, s)
  <2> SUFFICES ASSUME NEW i \in 1..(n + 1)
               PROVE  c[i].state.boundary <= c[i].turn /\ StoredBefore(c[i].state.boundary, i, c, s)
    BY <1>3 DEF StatesOK
  <2>1. CASE i \in 1..n
    <3>1. b[i].state.boundary <= b[i].turn /\ StoredBefore(b[i].state.boundary, i, b, s)
      BY <2>1 DEF BranchOK, StatesOK, n
    <3>2. i \in 0..n
      BY <1>1, <2>1
    <3>3. QED
      BY <1>3, <1>9, <2>1, <3>1, <3>2
  <2>2. CASE i = n + 1
    <3>1. c[i].state.boundary = 0 /\ c[i].turn = t
      BY <1>2, <1>3, <2>2
    <3>2. \A h \in 1..i : c[h].turn \in Nat
      BY <1>2, <1>3, <1>4, <1>5, <1>6, <2>2
    <3>3. ASSUME NEW h \in 1..i PROVE ~(c[h].turn < 0)
      <4>1. c[h].turn \in Nat
        BY <3>2
      <4> QED
        BY <4>1
    <3>4. StoredBefore(0, i, c, s)
      BY <3>3 DEF StoredBefore
    <3>5. QED
      BY <1>4, <3>1, <3>4
  <2>3. QED
    BY <1>5, <2>1, <2>2
<1>11. CompactionsOK(c, s)
  <2> SUFFICES ASSUME NEW i \in 1..(n + 1)
               PROVE  /\ c[i].compaction.kept <= c[i].turn
                      /\ \A j \in 1..(n + 1) : i < j /\ c[j].compaction.kept # 0 =>
                            c[i].compaction.kept <= c[j].compaction.kept
                      /\ \A h \in 1..(n + 1) : c[h].turn < c[i].compaction.kept =>
                            Spanned(c[h].turn, s)
    BY <1>3 DEF CompactionsOK
  <2>1. CASE i = n + 1
    <3>1. c[i].compaction.kept = 0 /\ c[i].turn = t
      BY <1>2, <1>3, <2>1
    <3>2. \A h \in 1..(n + 1) : c[h].turn \in Nat
      BY <1>2, <1>3, <1>4, <1>5, <1>6
    <3>3. \A j \in 1..(n + 1) : ~(i < j)
      BY <1>1, <2>1
    <3>4. ASSUME NEW h \in 1..(n + 1) PROVE ~(c[h].turn < c[i].compaction.kept)
      <4>1. c[h].turn \in Nat
        BY <3>2
      <4> QED
        BY <3>1, <4>1
    <3>5. c[i].compaction.kept <= c[i].turn
      BY <1>4, <3>1
    <3>6. QED
      BY <3>3, <3>4, <3>5
  <2>2. CASE i \in 1..n
    <3>1. /\ b[i].compaction.kept <= b[i].turn
          /\ \A j \in 1..n : i < j /\ b[j].compaction.kept # 0 =>
                b[i].compaction.kept <= b[j].compaction.kept
          /\ \A h \in 1..n : b[h].turn < b[i].compaction.kept => Spanned(b[h].turn, s)
      BY <2>2 DEF BranchOK, CompactionsOK, n
    <3>2. c[i] = b[i]
      BY <1>3, <2>2
    <3>3. ASSUME NEW j \in 1..(n + 1), i < j, c[j].compaction.kept # 0
          PROVE  c[i].compaction.kept <= c[j].compaction.kept
      <4>1. j \in 1..n
        BY <1>2, <1>3, <1>5, <3>3
      <4>2. QED
        BY <1>3, <3>1, <3>2, <3>3, <4>1
    <3>4. ASSUME NEW h \in 1..(n + 1), c[h].turn < c[i].compaction.kept
          PROVE  Spanned(c[h].turn, s)
      <4>1. CASE h \in 1..n
        BY <1>3, <3>1, <3>2, <3>4, <4>1
      <4>2. CASE h = n + 1
        BY <1>2, <1>3, <1>4, <1>6, <2>2, <3>1, <3>2, <3>4, <4>2
      <4>3. QED
        BY <1>5, <4>1, <4>2
    <3>5. QED
      BY <3>1, <3>2, <3>3, <3>4
  <2>3. QED
    BY <1>5, <2>1, <2>2
<1>12. ASSUME NEW m, Fit(m, b, s) PROVE Fit(m, c, s)
  <2>1. Bounded(m.boundary, b, s) /\ m.boundary \in Nat
    BY <1>12, TurnsFinite DEF Fit, MemType
  <2>2. Newest(c) = t
    <3>1. c # <<>>
      BY <1>1, <1>3, EmptySeq
    <3>2. QED
      BY <1>2, <1>3, <3>1 DEF Newest
  <2>3. m.boundary < t
    <3>1. CASE b = <<>>
      BY <1>4, <2>1, <3>1 DEF Bounded, Newest
    <3>2. CASE b # <<>>
      <4>1. n \in 1..n
        BY <1>1, <3>2, BranchTyped DEF n
      <4>2. QED
        BY <1>4, <1>6, <2>1, <3>2, <4>1 DEF Bounded, Newest, n
    <3>3. QED
      BY <3>1, <3>2
  <2>4. StoredBefore(m.boundary, n + 1, c, s)
    <3> SUFFICES ASSUME NEW h \in 1..(n + 1), c[h].turn < m.boundary
                 PROVE  \/ TurnDoc(c[h].turn) \in s
                        \/ \E j \in 1..(n + 1) : c[h].turn < c[j].compaction.kept
      BY DEF StoredBefore
    <3>1. h \in 1..n
      BY <1>2, <1>3, <1>4, <1>5, <2>1, <2>3
    <3>2. \/ TurnDoc(b[h].turn) \in s
          \/ \E j \in 1..n : b[h].turn < b[j].compaction.kept
      BY <1>3, <2>1, <3>1 DEF Bounded, StoredBefore, n
    <3>3. QED
      BY <1>3, <1>5, <3>1, <3>2
  <2>5. Bounded(m.boundary, c, s)
    BY <1>3, <1>4, <2>1, <2>2, <2>3, <2>4 DEF Bounded
  <2>6. QED
    BY <1>12, <2>5 DEF Fit
<1>13. TurnsOf(c) = TurnsOf(b) \cup {t}
  <2>1. DOMAIN c = 1..(n + 1)
    BY <1>3, BranchTyped
  <2>2. TurnsOf(c) = {c[i].turn : i \in 1..(n + 1)} /\ TurnsOf(b) = {b[i].turn : i \in 1..n}
    BY <1>1, <2>1 DEF TurnsOf
  <2>3. QED
    BY <1>2, <1>3, <1>5, <2>2
<1>14. c # <<>>
  BY <1>1, <1>3, EmptySeq
<1>15. QED
  BY <1>3, <1>7, <1>8, <1>10, <1>11, <1>12, <1>13, <1>14 DEF BranchOK, AsGood

LEMMA Persisting ==
    ASSUME WindowAssumption, NEW s, BranchOK(branch, s), NEW m, Fit(m, branch, s)
    PROVE  /\ AsGood(Persisted(m), branch, s) /\ TurnsOf(Persisted(m)) = TurnsOf(branch)
           /\ ContextOf(Persisted(m)) = Context
<1>1. WithState(Persisted(m), branch, StateOf(m))
  BY Exchanged DEF Persisted
<1>2. /\ AsGood(Persisted(m), branch, s) /\ TurnsOf(Persisted(m)) = TurnsOf(branch)
      /\ ContextOf(Persisted(m)) = ContextOf(branch)
  BY <1>1, PersistOK
<1>3. QED
  BY <1>2 DEF Context

\* Going back to an earlier entry.
LEMMA PrefixOK ==
    ASSUME WindowAssumption, NEW b, NEW s, BranchOK(b, s), NEW n \in 1..Len(b),
           NEW c, c = SubSeq(b, 1, n)
    PROVE  BranchOK(c, s) /\ TurnsOf(c) \subseteq TurnsOf(b)
<1>1. b \in Seq(EntryType) /\ Len(b) \in Nat /\ DOMAIN b = 1..Len(b)
  BY BranchTyped DEF BranchOK
<1>2. n \in Nat /\ \A i \in 1..n : i \in 1..Len(b)
  BY <1>1
<1>3. c \in Seq(EntryType) /\ Len(c) = n /\ \A i \in 1..n : c[i] = b[i]
  <2>1. \A i \in 1..n : b[i] \in EntryType
    BY <1>1, <1>2, ElementOfSeq
  <2>2. QED
    BY <1>1, <1>2, <2>1, SubSeqProperties
<1>4. Tables(c) /\ Increasing(c)
  BY <1>2, <1>3 DEF BranchOK, Tables, Increasing
<1>5. StatesOK(c, s)
  <2> SUFFICES ASSUME NEW i \in 1..n
               PROVE  c[i].state.boundary <= c[i].turn /\ StoredBefore(c[i].state.boundary, i, c, s)
    BY <1>3 DEF StatesOK
  <2>1. b[i].state.boundary <= b[i].turn /\ StoredBefore(b[i].state.boundary, i, b, s)
    BY <1>2 DEF BranchOK, StatesOK
  <2>2. \A h \in 1..i : c[h] = b[h]
    BY <1>2, <1>3
  <2>3. StoredBefore(b[i].state.boundary, i, c, s)
    BY <2>1, <2>2 DEF StoredBefore
  <2>4. QED
    BY <1>3, <2>1, <2>3
<1>6. CompactionsOK(c, s)
  BY <1>2, <1>3 DEF BranchOK, CompactionsOK
<1>7. TurnsOf(c) \subseteq TurnsOf(b)
  <2>1. DOMAIN c = 1..n
    BY <1>3
  <2>2. QED
    BY <1>1, <1>2, <1>3, <2>1 DEF TurnsOf
<1>8. QED
  BY <1>3, <1>4, <1>5, <1>6, <1>7 DEF BranchOK

\* The turns of the branch are at most the newest one.
LEMMA NewestTurn ==
    ASSUME WindowAssumption, NEW b \in Seq(EntryType), Increasing(b)
    PROVE  \A t \in TurnsOf(b) : t <= Newest(b) /\ Newest(b) \in TurnsOf(b) /\ b # <<>>
<1> SUFFICES ASSUME NEW t \in TurnsOf(b)
             PROVE  t <= Newest(b) /\ Newest(b) \in TurnsOf(b) /\ b # <<>>
  OBVIOUS
<1>1. Len(b) \in Nat /\ DOMAIN b = 1..Len(b)
  BY BranchTyped
<1>2. PICK h \in 1..Len(b) : b[h].turn = t
  BY <1>1 DEF TurnsOf
<1>3. Len(b) \in 1..Len(b) /\ b # <<>>
  BY <1>1, <1>2, BranchTyped
<1>4. Newest(b) = b[Len(b)].turn
  BY <1>3 DEF Newest
<1>5. b[h].turn \in Nat /\ b[Len(b)].turn \in Nat
  BY <1>2, <1>3, BranchTyped
<1>6. h = Len(b) \/ h < Len(b)
  <2> DEFINE n == Len(b)
  <2>1. n \in Nat /\ h \in 1..n
    BY <1>1
  <2> HIDE DEF n
  <2>2. h = n \/ h < n
    BY <2>1
  <2>3. QED
    BY <2>2 DEF n
<1>7. h < Len(b) => b[h].turn < b[Len(b)].turn
  BY <1>2, <1>3 DEF Increasing
<1>8. t <= Newest(b)
  BY <1>2, <1>4, <1>5, <1>6, <1>7
<1>9. Newest(b) \in TurnsOf(b)
  BY <1>1, <1>3, <1>4 DEF TurnsOf
<1>10. QED
  BY <1>3, <1>8, <1>9

\* A compaction at the last entry: what it drops is in a checkpoint.
LEMMA CompactOK ==
    ASSUME WindowAssumption, NEW b, NEW s, BranchOK(b, s), NEW k \in ContextOf(b),
           \A u \in TurnsOf(b) : u < k => Spanned(u, s),
           NEW E \in SUBSET Doc,
           NEW c, WithCompaction(c, b, [kept |-> k, entries |-> E])
    PROVE  AsGood(c, b, s) /\ TurnsOf(c) = TurnsOf(b)
<1> DEFINE n == Len(b)
           d == [kept |-> k, entries |-> E]
<1>1. b \in Seq(EntryType) /\ n \in Nat /\ DOMAIN b = 1..n
  BY BranchTyped DEF BranchOK
<1>2. \A i \in 1..n : /\ b[i] \in EntryType /\ b[i].turn \in Nat
                      /\ b[i].compaction.kept \in Nat
  BY <1>1, BranchTyped
<1>3. /\ k \in TurnsOf(b) /\ TurnsOf(b) \subseteq Turn
      /\ TurnsOf(b) = {b[h].turn : h \in 1..n}
      /\ \A j \in 1..n : b[j].compaction.kept <= k
  <2>1. CompactionsOK(b, s)
    BY DEF BranchOK
  <2>2. /\ k \in TurnsOf(b) /\ TurnsOf(b) \subseteq Turn
        /\ TurnsOf(b) = {b[h].turn : h \in 1..n}
    BY <1>1, <2>1, ContextFacts
  <2>3. PICK h \in 1..n : b[h].turn = k
    BY <2>2
  <2>4. b[h].turn \in ContextOf(b) =>
          \A j \in 1..n : b[j].compaction.kept <= b[h].turn
    BY <1>1, <2>1, ContextFacts
  <2>5. QED
    BY <2>2, <2>3, <2>4
<1>4. k \in Nat /\ k \in 0..MaxTurns /\ k # 0
  BY <1>3, TurnsFinite DEF Turn
<1>5. k <= Newest(b) /\ b # <<>>
  BY <1>1, <1>3, NewestTurn DEF BranchOK
<1>6. n \in 1..n /\ Newest(b) = b[n].turn
  BY <1>1, <1>5, BranchTyped DEF Newest
<1>7. d \in CompactionType /\ d.kept = k
  BY <1>4 DEF CompactionType
<1> HIDE DEF n, d
<1>8. ASSUME NEW i \in 1..n
      PROVE  /\ c[i] \in EntryType
             /\ c[i].turn = b[i].turn /\ c[i].state = b[i].state
             /\ c[i].compaction = IF i = n THEN d ELSE b[i].compaction
  <2>1. CASE i = n
    <3>1. c[i] = [b[i] EXCEPT !.compaction = d] /\ b[i] \in EntryType
      BY <1>1, <1>2, <2>1 DEF n, d, WithCompaction
    <3>2. QED
      BY <1>7, <2>1, <3>1 DEF EntryType
  <2>2. CASE i # n
    <3>1. c[i] = b[i] /\ b[i] \in EntryType
      BY <1>1, <1>2, <2>2 DEF n, WithCompaction
    <3>2. QED
      BY <2>2, <3>1
  <2>3. QED
    BY <2>1, <2>2
<1>9. c \in Seq(EntryType) /\ Len(c) = n /\ DOMAIN c = 1..n
  <2>1. c = [i \in 1..n |-> c[i]]
    BY <1>1 DEF WithCompaction
  <2>2. c \in [1..n -> EntryType]
    BY <1>8, <2>1
  <2>3. QED
    BY <1>1, <2>2, SeqDef, LenProperties
<1>10. TurnsOf(c) = TurnsOf(b)
  BY <1>1, <1>8, <1>9 DEF TurnsOf
<1>11. c # <<>> /\ Newest(c) = Newest(b)
  <2>1. c # <<>>
    BY <1>6, <1>9, BranchTyped
  <2>2. QED
    BY <1>6, <1>8, <1>9, <2>1 DEF Newest
<1>12. Tables(c) /\ Increasing(c)
  BY <1>8, <1>9 DEF BranchOK, Tables, Increasing, n
<1>13. \A j \in 1..n : b[j].compaction.kept <= c[j].compaction.kept /\ c[j].compaction.kept \in Nat
  BY <1>2, <1>3, <1>4, <1>7, <1>8
<1>14. ASSUME NEW boundary, NEW m \in 0..n, StoredBefore(boundary, m, b, s)
       PROVE  StoredBefore(boundary, m, c, s)
  <2> SUFFICES ASSUME NEW h \in 1..m, c[h].turn < boundary
               PROVE  \/ TurnDoc(c[h].turn) \in s
                      \/ \E j \in 1..m : c[h].turn < c[j].compaction.kept
    BY DEF StoredBefore
  <2>1. \A i \in 1..m : i \in 1..n
    BY <1>1
  <2>2. c[h].turn = b[h].turn /\ b[h].turn \in Nat
    BY <1>2, <1>8, <2>1
  <2>3. CASE TurnDoc(b[h].turn) \in s
    BY <2>2, <2>3
  <2>4. CASE \E j \in 1..m : b[h].turn < b[j].compaction.kept
    <3>1. PICK j \in 1..m : b[h].turn < b[j].compaction.kept
      BY <2>4
    <3>2. /\ b[j].compaction.kept \in Nat /\ c[j].compaction.kept \in Nat
          /\ b[j].compaction.kept <= c[j].compaction.kept
      BY <1>2, <1>13, <2>1
    <3>3. b[h].turn < c[j].compaction.kept
      BY <2>2, <3>1, <3>2
    <3>4. QED
      BY <2>2, <3>3
  <2>5. QED
    BY <1>14, <2>2, <2>3, <2>4 DEF StoredBefore
<1>15. StatesOK(c, s)
  <2> SUFFICES ASSUME NEW i \in 1..n
               PROVE  c[i].state.boundary <= c[i].turn /\ StoredBefore(c[i].state.boundary, i, c, s)
    BY <1>9 DEF StatesOK
  <2>1. b[i].state.boundary <= b[i].turn /\ StoredBefore(b[i].state.boundary, i, b, s)
    BY DEF BranchOK, StatesOK, n
  <2>2. i \in 0..n
    BY <1>1
  <2>3. c[i].state = b[i].state /\ c[i].turn = b[i].turn
    BY <1>8
  <2>4. QED
    BY <1>14, <2>1, <2>2, <2>3
<1>16. CompactionsOK(c, s)
  <2> SUFFICES ASSUME NEW i \in 1..n
               PROVE  /\ c[i].compaction.kept <= c[i].turn
                      /\ \A j \in 1..n : i < j /\ c[j].compaction.kept # 0 =>
                            c[i].compaction.kept <= c[j].compaction.kept
                      /\ \A h \in 1..n : c[h].turn < c[i].compaction.kept => Spanned(c[h].turn, s)
    BY <1>9 DEF CompactionsOK
  <2>0. /\ b[i].compaction.kept <= b[i].turn
        /\ \A j \in 1..n : i < j /\ b[j].compaction.kept # 0 =>
              b[i].compaction.kept <= b[j].compaction.kept
        /\ \A h \in 1..n : b[h].turn < b[i].compaction.kept => Spanned(b[h].turn, s)
    BY DEF BranchOK, CompactionsOK, n
  <2>1. CASE i = n
    <3>1. c[i].compaction.kept = k /\ c[i].turn = b[n].turn
      BY <1>7, <1>8, <2>1
    <3>2. \A j \in 1..n : ~(i < j)
      BY <1>1, <2>1
    <3>3. ASSUME NEW h \in 1..n, c[h].turn < c[i].compaction.kept PROVE Spanned(c[h].turn, s)
      <4>1. c[h].turn = b[h].turn /\ b[h].turn \in TurnsOf(b)
        BY <1>3, <1>8
      <4>2. QED
        BY <3>1, <3>3, <4>1
    <3>4. QED
      BY <1>5, <1>6, <3>1, <3>2, <3>3
  <2>2. CASE i # n
    <3>1. c[i].compaction = b[i].compaction /\ c[i].turn = b[i].turn
      BY <1>8, <2>2
    <3>2. ASSUME NEW j \in 1..n, i < j, c[j].compaction.kept # 0
          PROVE  c[i].compaction.kept <= c[j].compaction.kept
      <4>1. CASE j = n
        <5>1. c[j].compaction.kept = k
          BY <1>7, <1>8, <4>1
        <5>2. b[i].compaction.kept <= k
          BY <1>3
        <5>3. QED
          BY <3>1, <5>1, <5>2
      <4>2. CASE j # n
        <5>1. c[j].compaction = b[j].compaction
          BY <1>8, <4>2
        <5>2. QED
          BY <2>0, <3>1, <3>2, <5>1
      <4>3. QED
        BY <4>1, <4>2
    <3>3. ASSUME NEW h \in 1..n, c[h].turn < c[i].compaction.kept PROVE Spanned(c[h].turn, s)
      <4>1. c[h].turn = b[h].turn
        BY <1>8
      <4>2. QED
        BY <2>0, <3>1, <3>3, <4>1
    <3>4. QED
      BY <2>0, <3>1, <3>2, <3>3
  <2>3. QED
    BY <2>1, <2>2
<1>17. ASSUME NEW m, Fit(m, b, s) PROVE Fit(m, c, s)
  <2>1. Bounded(m.boundary, b, s)
    BY <1>17 DEF Fit
  <2>2. m.boundary <= Newest(c) /\ StoredBefore(m.boundary, n, b, s)
    BY <1>11, <2>1 DEF Bounded, n
  <2>3. n \in 0..n
    BY <1>1
  <2>4. StoredBefore(m.boundary, n, c, s)
    BY <1>14, <2>2, <2>3
  <2>5. Bounded(m.boundary, c, s)
    BY <1>9, <2>2, <2>4 DEF Bounded
  <2>6. QED
    BY <1>17, <2>5 DEF Fit
<1>18. QED
  BY <1>9, <1>10, <1>11, <1>12, <1>15, <1>16, <1>17 DEF BranchOK, AsGood

-----------------------------------------------------------------------------
(* A session on its branch. *)

\* The beginning of a conversation bounds every window.
LEMMA ZeroBounded ==
    ASSUME WindowAssumption, NEW b, NEW s, BranchOK(b, s)
    PROVE  Bounded(0, b, s)
<1>1. b \in Seq(EntryType)
  BY DEF BranchOK
<1>2. Len(b) \in Nat /\ \A h \in 1..Len(b) : b[h].turn \in Nat
  BY <1>1, BranchTyped
<1>3. StoredBefore(0, Len(b), b, s)
  <2>1. ASSUME NEW h \in 1..Len(b) PROVE ~(b[h].turn < 0)
    <3>1. b[h].turn \in Nat
      BY <1>2
    <3>2. QED
      BY <3>1
  <2>2. QED
    BY <2>1 DEF StoredBefore
<1>4. 0 <= Newest(b)
  <2>1. CASE b = <<>>
    BY <2>1 DEF Newest
  <2>2. CASE b # <<>>
    <3>1. Len(b) \in 1..Len(b)
      BY <1>1, <2>2, BranchTyped
    <3>2. b[Len(b)].turn \in Nat
      BY <1>2, <3>1
    <3>3. QED
      BY <2>2, <3>2 DEF Newest
  <2>3. QED
    BY <2>1, <2>2
<1>5. QED
  BY <1>3, <1>4 DEF Bounded

\* The last state of the branch is right, whatever came after it.
LEMMA LastStateOK ==
    ASSUME WindowAssumption, NEW b, NEW s, BranchOK(b, s)
    PROVE  /\ LastState(b) \in StateType /\ Len(LastState(b).toc) <= TocMax
           /\ Bounded(LastState(b).boundary, b, s)
<1> DEFINE n == Len(b)
           I == {i \in DOMAIN b : b[i].state.set}
           e == LastState(b)
<1>1. b \in Seq(EntryType) /\ n \in Nat /\ DOMAIN b = 1..n
  BY BranchTyped DEF BranchOK
<1>2. \A i \in 1..n : /\ b[i].state \in StateType /\ b[i].state.boundary \in Nat
                      /\ b[i].turn \in Nat
  BY <1>1, BranchTyped
<1>3. e = IF I = {} THEN NoState ELSE b[Max(I)].state
  BY DEF LastState
<1>4. I \in SUBSET (1..n)
  BY <1>1
<1> HIDE DEF I, e
<1>5. CASE I = {}
  <2>1. 0 \in 0..MaxTurns /\ <<>> \in Seq(Turn) /\ Len(<<>>) = 0 /\ 0 <= TocMax
    BY EmptySeq DEF WindowAssumption
  <2>2. e \in StateType /\ Len(e.toc) <= TocMax /\ e.boundary = 0
    BY <1>3, <1>5, <2>1 DEF NoState, StateType
  <2>3. QED
    BY <2>2, ZeroBounded DEF e
<1>6. CASE I # {}
  <2> DEFINE k == Max(I)
  <2>1. k \in 1..n
    BY <1>1, <1>4, <1>6, IndexSets
  <2>2. e = b[k].state
    BY <1>3, <1>6
  <2> HIDE DEF k, n
  <2>3. e \in StateType /\ Len(e.toc) <= TocMax
    BY <1>2, <2>1, <2>2 DEF BranchOK, Tables, n
  <2>4. e.boundary <= b[k].turn /\ StoredBefore(e.boundary, k, b, s)
    BY <2>1, <2>2 DEF BranchOK, StatesOK, n
  <2>5. e.boundary \in Nat /\ b[k].turn \in Nat
    BY <1>2, <2>1, <2>2
  <2>6. n \in 1..n /\ Newest(b) = b[n].turn
    <3>1. n \in 1..n
      BY <1>1, <2>1
    <3>2. b # <<>>
      BY <1>1, <3>1, BranchTyped DEF n
    <3>3. QED
      BY <3>1, <3>2 DEF Newest, n
  <2>7. \A h \in 1..n : k < h => b[k].turn < b[h].turn
    BY <2>1 DEF BranchOK, Increasing, n
  <2>8. e.boundary <= Newest(b)
    <3>1. k = n \/ k < n
      BY <1>1, <2>1
    <3>2. b[n].turn \in Nat
      BY <1>2, <2>6
    <3>3. QED
      BY <2>4, <2>5, <2>6, <2>7, <3>1, <3>2
  <2>9. StoredBefore(e.boundary, n, b, s)
    <3> SUFFICES ASSUME NEW h \in 1..n, b[h].turn < e.boundary
                 PROVE  \/ TurnDoc(b[h].turn) \in s
                        \/ \E j \in 1..n : b[h].turn < b[j].compaction.kept
      BY DEF StoredBefore
    <3>1. b[h].turn \in Nat
      BY <1>2
    <3>2. ~(k < h)
      BY <2>4, <2>5, <2>7, <3>1
    <3>3. h \in 1..k
      BY <1>1, <2>1, <3>2
    <3>4. \A j \in 1..k : j \in 1..n
      BY <1>1, <2>1
    <3>5. QED
      BY <2>4, <3>3, <3>4 DEF StoredBefore
  <2>10. QED
    BY <2>3, <2>8, <2>9 DEF Bounded, e, n
<1>7. QED
  BY <1>5, <1>6

\* A session that knows nothing yet.
LEMMA FreshTyped ==
    ASSUME WindowAssumption, NEW alive \in BOOLEAN
    PROVE  Fresh(alive) \in MemType
<1>1. 0 \in 0..MaxTurns /\ <<>> \in Seq(Turn)
  BY EmptySeq DEF WindowAssumption
<1>2. [t \in Turn |-> "none"] \in [Turn -> Text]
  BY DEF Text
<1>3. QED
  BY <1>1, <1>2 DEF Fresh, MemType

LEMMA FreshFit ==
    ASSUME WindowAssumption, NEW alive \in BOOLEAN, NEW b, NEW s, BranchOK(b, s)
    PROVE  Fit(Fresh(alive), b, s)
<1>1. Fresh(alive) \in MemType
  BY FreshTyped
<1>2. Len(<<>>) = 0 /\ 0 <= TocMax
  BY EmptySeq DEF WindowAssumption
<1>3. Bounded(0, b, s)
  BY ZeroBounded
<1>4. QED
  BY <1>1, <1>2, <1>3 DEF Fit, Fresh

\* A restored session is one its branch can carry.
LEMMA RestoredOK ==
    ASSUME WindowAssumption, NEW b, NEW s, BranchOK(b, s), NEW trusted \in BOOLEAN,
           NEW m, m.leased \subseteq Doc, m.signature \subseteq m.leased
    PROVE  /\ Fit(Restored(b, m, trusted), b, s)
           /\ Restored(b, m, trusted).alive = TRUE
<1> DEFINE e == LastState(b)
           E == IF trusted THEN LastCompaction(b).entries ELSE {}
           n == Restored(b, m, trusted)
<1>1. e \in StateType /\ Len(e.toc) <= TocMax /\ Bounded(e.boundary, b, s)
  BY LastStateOK
<1>2. E \subseteq Doc
  <2>1. LastCompaction(b) \in CompactionType
    BY LastKept DEF BranchOK
  <2>2. QED
    BY <2>1 DEF CompactionType
<1>3. Fresh(TRUE) \in MemType /\ Fresh(TRUE).known = {} /\ Fresh(TRUE).archived = {}
      /\ Fresh(TRUE).alive = TRUE
  BY FreshTyped DEF Fresh
<1>4. n = [Fresh(TRUE) EXCEPT
             !.boundary = e.boundary, !.through = e.through, !.mark = e.mark, !.only = e.only,
             !.toc = e.toc, !.entries = E, !.leased = m.leased, !.signature = m.signature]
  BY DEF Restored
<1>5. /\ e.boundary \in 0..MaxTurns /\ e.through \in 0..MaxTurns /\ e.mark \in 0..MaxTurns
      /\ e.only \subseteq Turn /\ e.toc \in Seq(Turn)
  BY <1>1 DEF StateType
<1>6. m.leased \subseteq Doc /\ m.signature \subseteq Doc
  OBVIOUS
<1> HIDE DEF e, E, n
<1>7. n \in MemType
  BY <1>2, <1>3, <1>4, <1>5, <1>6 DEF MemType
<1>8. /\ n.toc = e.toc /\ n.known = {} /\ n.archived = {} /\ n.leased = m.leased
      /\ n.signature = m.signature /\ n.boundary = e.boundary /\ n.alive = TRUE
  BY <1>3, <1>4 DEF MemType
<1>9. QED
  BY <1>1, <1>7, <1>8 DEF Fit, n

\* Fit is a matter of a few of the fields.
LEMMA FitFields ==
    ASSUME NEW b, NEW s, NEW m, Fit(m, b, s), NEW n \in MemType,
           n.toc = m.toc, n.boundary = m.boundary, n.known \subseteq s,
           \A t \in n.archived : TurnDoc(t) \in s, n.signature \subseteq n.leased
    PROVE  Fit(n, b, s)
BY DEF Fit

\* The calls of the archive leave a session fit for its branch.
LEMMA PutAllFit ==
    ASSUME RestTyped, NEW b, NEW m, Fit(m, b, stored), NEW D \in SUBSET Doc,
           NEW o \in PutAll(m, D)
    PROVE  /\ Fit(o.mem, b, o.stored) /\ Kept(o.mem, m)
           /\ stored \subseteq o.stored /\ o.stored \subseteq Doc /\ o.guarded \subseteq Doc
           /\ o.ok \in BOOLEAN /\ (o.ok => D \subseteq o.stored /\ D \subseteq o.mem.known)
           /\ m.leased \subseteq o.mem.leased
           /\ o.mem.known \subseteq Doc
<1>1. m \in MemType /\ stored \subseteq Doc
  BY DEF Fit, RestTyped
<1>2. PICK E \in SUBSET D :
             /\ Kept(o.mem, m) /\ o.mem.signature = m.signature
             /\ o.mem.known = m.known \cup E /\ o.mem.leased = m.leased \cup E
             /\ stored \cup E \subseteq o.stored /\ o.stored \subseteq stored \cup D
             /\ o.guarded \subseteq Doc
             /\ o.ok \in BOOLEAN /\ (o.ok => E = D)
  BY <1>1, PutAllFacts
<1>3. Fit(m, b, o.stored)
  BY <1>2, MoreStored
<1>4. /\ o.mem \in MemType /\ o.mem.toc = m.toc /\ o.mem.boundary = m.boundary
      /\ o.mem.archived = m.archived
  BY <1>2 DEF Kept
<1>5. Fit(o.mem, b, o.stored)
  BY <1>2, <1>3, <1>4 DEF Fit
<1>6. o.mem.known \subseteq Doc
  BY <1>4 DEF MemType
<1>7. QED
  BY <1>1, <1>2, <1>5, <1>6

LEMMA RefreshFit ==
    ASSUME RestTyped, NEW b, NEW s, NEW m, Fit(m, b, s), NEW o \in Refresh(m)
    PROVE  /\ Fit(o.mem, b, s) /\ Kept(o.mem, m)
           /\ o.guarded \subseteq Doc
           /\ o.ok \in BOOLEAN /\ (o.ok => Docs(o.mem) \subseteq o.mem.leased)
           /\ o = [ok |-> o.ok, mem |-> o.mem, guarded |-> o.guarded]
<1>1. m \in MemType /\ m.signature \subseteq m.leased
  BY DEF Fit
<1>2. /\ Kept(o.mem, m) /\ o.mem.known = m.known
      /\ o.mem.signature \subseteq o.mem.leased
      /\ o.guarded \subseteq Doc
      /\ o.ok \in BOOLEAN /\ (o.ok => Docs(m) \subseteq o.mem.leased)
  BY <1>1, RefreshFacts
<1>3. Docs(o.mem) = Docs(m)
  BY <1>2 DEF Kept, Docs
<1>4. Fit(o.mem, b, s)
  BY <1>2 DEF Fit, Kept
<1>5. o = [ok |-> o.ok, mem |-> o.mem, guarded |-> o.guarded]
  BY DEF Refresh
<1>6. QED
  BY <1>2, <1>3, <1>4, <1>5

-----------------------------------------------------------------------------
(* The window. *)

LEMMA WindowFacts ==
    ASSUME WindowAssumption, BranchOK(branch, stored), NEW m
    PROVE  /\ Window(m) \subseteq Context /\ Context \subseteq TurnsOf(branch)
           /\ TurnsOf(branch) \subseteq Turn
           /\ \A n : n.boundary = m.boundary => Window(n) = Window(m)
           /\ \A t \in TurnsOf(branch) : t <= Newest(branch)
           /\ branch # <<>> => Current \in Turn
<1>1. branch \in Seq(EntryType) /\ Increasing(branch) /\ CompactionsOK(branch, stored)
  BY DEF BranchOK
<1>2. Context \subseteq TurnsOf(branch) /\ TurnsOf(branch) \subseteq Turn
  BY <1>1, ContextFacts DEF Context
<1>3. \A t \in TurnsOf(branch) : t <= Newest(branch)
  BY <1>1, NewestTurn
<1>4. branch # <<>> => Current \in Turn
  BY <1>1, BranchTyped DEF Current
<1>5. QED
  BY <1>2, <1>3, <1>4 DEF Window

\* What left the window is in the archive.
LEMMA OutsideStored ==
    ASSUME WindowAssumption, BranchOK(branch, stored), NEW m, Fit(m, branch, stored),
           NEW t \in Context, t \notin Window(m)
    PROVE  TurnDoc(t) \in stored /\ m.boundary \in Context /\ ~(t >= m.boundary)
<1>1. branch \in Seq(EntryType) /\ CompactionsOK(branch, stored)
  BY DEF BranchOK
<1>2. m.boundary \in Context /\ ~(t >= m.boundary)
  BY DEF Window
<1>3. /\ Context \subseteq TurnsOf(branch) /\ TurnsOf(branch) \subseteq Turn
      /\ TurnsOf(branch) = {branch[h].turn : h \in 1..Len(branch)}
  BY <1>1, ContextFacts DEF Context
<1>4. PICK h \in 1..Len(branch) : branch[h].turn = t
  BY <1>3
<1>5. branch[h].turn \in ContextOf(branch) =>
        \A j \in 1..Len(branch) : branch[j].compaction.kept <= branch[h].turn
  BY <1>1, ContextFacts
<1>6. \A j \in 1..Len(branch) : branch[j].compaction.kept <= t
  BY <1>4, <1>5 DEF Context
<1>7. t \in Nat /\ m.boundary \in Nat
  BY <1>2, <1>3, TurnsFinite
<1>8. \A j \in 1..Len(branch) : branch[j].compaction.kept \in Nat
  BY <1>1, BranchTyped
<1>9. t < m.boundary
  BY <1>2, <1>7
<1>10. \A j \in 1..Len(branch) : ~(t < branch[j].compaction.kept)
  BY <1>6, <1>7, <1>8
<1>11. StoredBefore(m.boundary, Len(branch), branch, stored)
  BY DEF Fit, Bounded
<1>12. TurnDoc(t) \in stored
  BY <1>4, <1>9, <1>10, <1>11 DEF StoredBefore
<1>13. QED
  BY <1>2, <1>12

-----------------------------------------------------------------------------
(* What the steps have in common. *)

LEMMA CountTyped ==
    ASSUME WindowAssumption, faults \in 0..MaxFaults, NEW ok \in BOOLEAN, Count(ok)
    PROVE  faults' \in 0..MaxFaults
BY DEF WindowAssumption, Count

LEMMA SaidKept ==
    ASSUME SaidInv, fate' = fate, TurnsOf(branch') \subseteq TurnsOf(branch)
    PROVE  SaidInv'
BY DEF SaidInv, SaidTurns, Said

LEMMA SentKept ==
    ASSUME SentInv, sent' = sent, stored \subseteq stored'
    PROVE  SentInv'
BY DEF SentInv

LEMMA IdleInv ==
    ASSUME job' = Idle
    PROVE  JobInv'
<1>1. Idle \in JobType
  BY DEF Idle, JobType, Step
<1>2. Idle.pc = "idle" /\ Idle.active = {}
  BY DEF Idle
<1>3. QED
  BY <1>1, <1>2 DEF JobInv, Showing, Protected

LEMMA JobTyped ==
    ASSUME job \in JobType
    PROVE  /\ job = [pc |-> job.pc, active |-> job.active, retired |-> job.retired,
                     changed |-> job.changed]
           /\ job.pc \in Step /\ job.active \subseteq Turn /\ job.changed \in BOOLEAN
           /\ job.pc # "compact" => job.retired \subseteq Turn
           /\ job.pc = "compact" => job.retired \subseteq Doc
BY DEF JobType, Step

\* A request that is further on.
LEMMA JobNext ==
    ASSUME NEW p \in Step \ {"compact", "idle"}, NEW A \in SUBSET Turn, NEW R \in SUBSET Turn,
           NEW c \in BOOLEAN, job' = [pc |-> p, active |-> A, retired |-> R, changed |-> c],
           mem'.alive, branch' # <<>>, A \subseteq Context',
           p \in {"protect", "plan"} => A = Window(mem)',
           p = "rotate" =>
             A # {} /\ \A t \in Window(mem)' \ A : TurnDoc(t) \in stored',
           p \in Showing => Previews(mem', A) \subseteq stored',
           p \in Protected => Docs(mem') \subseteq mem'.leased
    PROVE  JobInv'
<1>1. job' \in JobType
  BY DEF JobType
<1>2. job'.pc = p /\ job'.active = A
  OBVIOUS
<1>3. QED
  BY <1>1, <1>2 DEF JobInv

LEMMA ContextKept ==
    ASSUME ContextOf(branch') = Context
    PROVE  /\ Context' = Context
           /\ mem'.boundary = mem.boundary => Window(mem)' = Window(mem)
BY DEF Context, Window

LEMMA PreviewsSame ==
    ASSUME NEW m, NEW n, m.through = n.through, NEW T
    PROVE  Previews(m, T) = Previews(n, T)
BY DEF Previews, Preview

LEMMA PreviewsTyped ==
    ASSUME NEW m, NEW T \in SUBSET Turn
    PROVE  Previews(m, T) \subseteq Doc
BY DocTypes DEF Previews

\* A step that leaves the conversation alone.
LEMMA InvStep ==
    ASSUME Inv, stored' \subseteq Doc, guarded' \subseteq Doc,
           rows' \in [Turn -> Text], faults' \in 0..MaxFaults, crashes' \in 0..MaxCrashes,
           BranchOK(branch', stored'), TurnsOf(branch') \subseteq TurnsOf(branch),
           Fit(mem', branch', stored'), fate' = fate, JobInv', SentInv'
    PROVE  Inv'
<1>1. RestTyped'
  BY DEF RestTyped
<1>2. SaidInv'
  BY SaidKept DEF Inv
<1>3. QED
  BY <1>1, <1>2 DEF Inv

\* One that sends nothing either.
LEMMA InvNext ==
    ASSUME Inv, stored \subseteq stored', stored' \subseteq Doc, guarded' \subseteq Doc,
           rows' \in [Turn -> Text], faults' \in 0..MaxFaults, crashes' \in 0..MaxCrashes,
           BranchOK(branch', stored'), TurnsOf(branch') \subseteq TurnsOf(branch),
           Fit(mem', branch', stored'), fate' = fate, JobInv', sent' = sent
    PROVE  Inv'
<1>1. SentInv'
  BY SentKept DEF Inv
<1>2. QED
  BY <1>1, InvStep

-----------------------------------------------------------------------------
(* The conversation. *)

LEMMA InitInv ==
    ASSUME WindowAssumption, Init
    PROVE  Inv
<1>1. branch = <<>> /\ stored = {} /\ mem = Fresh(TRUE) /\ job = Idle
  BY DEF Init
<1>2. Len(<<>>) = 0 /\ DOMAIN <<>> = {} /\ <<>> \in Seq(EntryType) /\ 1..0 = {}
  BY EmptySeq
<1>3. BranchOK(branch, stored)
  BY <1>1, <1>2 DEF BranchOK, Tables, Increasing, StatesOK, CompactionsOK
<1>4. Fit(mem, branch, stored)
  BY <1>1, <1>3, FreshFit
<1>5. SaidInv
  <2>1. fate = [t \in Turn |-> "unsaid"]
    BY DEF Init
  <2>2. SaidTurns = {}
    BY <2>1 DEF SaidTurns
  <2>3. Said = 0
    BY <2>2, FS_EmptySet DEF Said, SaidTurns
  <2>4. TurnsOf(branch) = {}
    BY <1>1, <1>2 DEF TurnsOf
  <2>5. QED
    BY <1>2, <2>1, <2>2, <2>3, <2>4 DEF SaidInv
<1>6. RestTyped
  <2>1. 0 \in 0..MaxFaults /\ 0 \in 0..MaxCrashes
    BY DEF WindowAssumption
  <2>2. QED
    BY <2>1 DEF RestTyped, Init, Text
<1>7. JobInv
  <2>1. Idle \in JobType
    BY DEF Idle, JobType, Step
  <2>2. Idle.pc = "idle" /\ Idle.active = {}
    BY DEF Idle
  <2>3. QED
    BY <1>1, <2>1, <2>2 DEF JobInv, Showing, Protected
<1>8. SentInv
  <2>1. "form" \in DOMAIN sent /\ DOMAIN sent.form = {}
    BY <1>2 DEF Init
  <2>2. QED
    BY <2>1 DEF SentInv
<1>9. QED
  BY <1>3, <1>4, <1>5, <1>6, <1>7, <1>8 DEF Inv

LEMMA SayInv ==
    ASSUME WindowAssumption, Inv, Say
    PROVE  Inv'
<1> DEFINE t == Said + 1
<1>1. /\ BranchOK(branch, stored) /\ Fit(mem, branch, stored)
      /\ SaidInv /\ RestTyped /\ SentInv
  BY DEF Inv
<1>2. /\ job = Idle /\ Said < MaxTurns
      /\ branch' = Append(branch, Entry(t)) /\ fate' = [fate EXCEPT ![t] = "open"]
      /\ UNCHANGED <<mem, job, stored, guarded, rows, sent, faults, crashes>>
  BY DEF Say
<1>3. Said \in Nat /\ Said = Cardinality(SaidTurns)
  <2>1. IsFiniteSet(SaidTurns)
    BY TurnsFinite, FS_Subset DEF SaidTurns
  <2>2. QED
    BY <2>1, FS_CardinalityType DEF Said, SaidTurns
<1>4. t \in Turn /\ t \notin SaidTurns /\ \A u \in SaidTurns : u < t
  <2>1. SaidTurns = 1..Said /\ MaxTurns \in Nat
    BY <1>1, TurnsFinite DEF SaidInv
  <2>2. t \in 1..MaxTurns
    BY <1>2, <1>3, <2>1
  <2>3. t \notin 1..Said /\ \A u \in 1..Said : u < t
    BY <1>3
  <2>4. QED
    BY <2>1, <2>2, <2>3 DEF Turn
<1>5. branch \in Seq(EntryType) /\ Len(branch) \in Nat /\ DOMAIN branch = 1..Len(branch)
  BY <1>1, BranchTyped DEF BranchOK
<1> HIDE DEF t
<1>6. \A i \in 1..Len(branch) : branch[i].turn < t
  BY <1>1, <1>4, <1>5 DEF SaidInv, TurnsOf
<1>7. Entry(t) \in EntryType
  <2>1. 0 \in 0..MaxTurns /\ <<>> \in Seq(Turn)
    BY EmptySeq DEF WindowAssumption
  <2>2. QED
    BY <1>4, <2>1 DEF Entry, EntryType, StateType, CompactionType, NoState, NoCompaction
<1>8. /\ branch' \in Seq(EntryType) /\ Len(branch') = Len(branch) + 1
      /\ \A i \in 1..Len(branch) : branch'[i] = branch[i]
      /\ branch'[Len(branch) + 1] = Entry(t)
  BY <1>2, <1>5, <1>7
<1>9. AsGood(branch', branch, stored) /\ TurnsOf(branch') = TurnsOf(branch) \cup {t}
  BY <1>1, <1>4, <1>6, <1>8, AppendOK
<1>10. BranchOK(branch', stored') /\ Fit(mem', branch', stored')
  BY <1>1, <1>2, <1>9 DEF AsGood
<1>11. SaidInv'
  <2>1. fate' \in [Turn -> {"unsaid", "open", "done", "aborted"}]
    BY <1>1, <1>2 DEF SaidInv
  <2>2. SaidTurns' = SaidTurns \cup {t}
    BY <1>1, <1>2, <1>4 DEF SaidTurns, SaidInv
  <2>3. Said' = t
    <3>1. IsFiniteSet(SaidTurns)
      BY TurnsFinite, FS_Subset DEF SaidTurns
    <3>2. Cardinality(SaidTurns \cup {t}) = Cardinality(SaidTurns) + 1
      BY <1>4, <3>1, FS_AddElement
    <3>3. Said' = Cardinality(SaidTurns')
      BY DEF Said, SaidTurns
    <3>4. QED
      BY <1>3, <2>2, <3>2, <3>3 DEF t
  <2>4. SaidTurns' = 1..Said'
    <3>1. SaidTurns = 1..Said /\ t = Said + 1
      BY <1>1 DEF SaidInv, t
    <3>2. (1..Said) \cup {Said + 1} = 1..(Said + 1)
      BY <1>3
    <3>3. QED
      BY <2>2, <2>3, <3>1, <3>2
  <2>5. TurnsOf(branch') \subseteq SaidTurns'
    BY <1>1, <1>9, <2>2 DEF SaidInv
  <2>6. QED
    BY <2>1, <2>4, <2>5 DEF SaidInv
<1>12. JobInv'
  BY <1>2, IdleInv
<1>13. RestTyped' /\ SentInv'
  BY <1>1, <1>2, SentKept DEF RestTyped
<1>14. QED
  BY <1>10, <1>11, <1>12, <1>13 DEF Inv

\* A turn that was said stays said, whatever becomes of it.
LEMMA FateMoves ==
    ASSUME SaidInv, NEW F, fate' = F, F \in [Turn -> {"unsaid", "open", "done", "aborted"}],
           \A t \in Turn : F[t] = "unsaid" <=> fate[t] = "unsaid",
           TurnsOf(branch') = TurnsOf(branch)
    PROVE  SaidInv'
<1>1. SaidTurns' = SaidTurns
  BY DEF SaidTurns
<1>2. Said' = Said
  BY <1>1 DEF Said, SaidTurns
<1>3. QED
  BY <1>1, <1>2 DEF SaidInv

LEMMA FinishInv ==
    ASSUME WindowAssumption, Inv, Finish
    PROVE  Inv'
<1>1. /\ BranchOK(branch, stored) /\ Fit(mem, branch, stored)
      /\ SaidInv /\ RestTyped /\ SentInv
  BY DEF Inv
<1>2. /\ job = Idle /\ fate[Current] = "open" /\ branch # <<>>
      /\ fate' = [fate EXCEPT ![Current] = "done"]
      /\ UNCHANGED <<branch, mem, job, stored, guarded, rows, sent, faults, crashes>>
  BY DEF Finish
<1>3. SaidInv'
  <2> DEFINE F == [fate EXCEPT ![Current] = "done"]
  <2>1. fate \in [Turn -> {"unsaid", "open", "done", "aborted"}]
    BY <1>1 DEF SaidInv
  <2>2. /\ F \in [Turn -> {"unsaid", "open", "done", "aborted"}]
        /\ \A t \in Turn : F[t] = "unsaid" <=> fate[t] = "unsaid"
    BY <1>2, <2>1
  <2>3. QED
    BY <1>1, <1>2, <2>2, FateMoves
<1>4. JobInv'
  BY <1>2, IdleInv
<1>5. RestTyped' /\ SentInv'
  BY <1>1, <1>2, SentKept DEF RestTyped
<1>6. QED
  BY <1>1, <1>2, <1>3, <1>4, <1>5 DEF Inv

LEMMA CrashInv ==
    ASSUME WindowAssumption, Inv, Crash
    PROVE  Inv'
<1>1. /\ BranchOK(branch, stored) /\ SaidInv /\ RestTyped /\ SentInv
  BY DEF Inv
<1>2. /\ mem' = Dead /\ guarded' = {} /\ job' = Idle
      /\ crashes < MaxCrashes /\ crashes' = crashes + 1
      /\ fate' = [t \in Turn |-> IF fate[t] = "open" THEN "aborted" ELSE fate[t]]
      /\ UNCHANGED <<branch, stored, rows, sent, faults>>
  BY DEF Crash
<1>3. Fit(mem', branch', stored')
  BY <1>1, <1>2, FreshFit DEF Dead
<1>4. SaidInv'
  <2> DEFINE F == [t \in Turn |-> IF fate[t] = "open" THEN "aborted" ELSE fate[t]]
  <2>1. fate \in [Turn -> {"unsaid", "open", "done", "aborted"}]
    BY <1>1 DEF SaidInv
  <2>2. /\ F \in [Turn -> {"unsaid", "open", "done", "aborted"}]
        /\ \A t \in Turn : F[t] = "unsaid" <=> fate[t] = "unsaid"
    BY <2>1
  <2>3. QED
    BY <1>1, <1>2, <2>2, FateMoves
<1>5. RestTyped'
  <2>1. crashes' \in 0..MaxCrashes
    BY <1>1, <1>2 DEF RestTyped, WindowAssumption
  <2>2. QED
    BY <1>1, <1>2, <2>1 DEF RestTyped
<1>6. JobInv' /\ SentInv'
  BY <1>1, <1>2, IdleInv, SentKept
<1>7. QED
  BY <1>1, <1>2, <1>3, <1>4, <1>5, <1>6 DEF Inv

\* The completed turns of the context.
LEMMA CompletedFacts ==
    ASSUME WindowAssumption, BranchOK(branch, stored)
    PROVE  /\ Completed(Context) \subseteq Turn
           /\ Completed(Context) # {} => Max(Completed(Context)) \in 0..MaxTurns
<1>1. Completed(Context) \subseteq Turn
  BY WindowFacts DEF Completed
<1>2. Completed(Context) # {} => Max(Completed(Context)) \in Turn
  BY <1>1, LeastTurn
<1>3. \A t \in Turn : t \in 0..MaxTurns
  BY DEF Turn
<1>4. QED
  BY <1>1, <1>2, <1>3

LEMMA SeededOK ==
    ASSUME WindowAssumption, BranchOK(branch, stored), NEW s, NEW m, Fit(m, branch, s)
    PROVE  Fit(Seeded(m), branch, s) /\ Seeded(m).alive = m.alive
<1>1. CASE Seeded(m) = m
  BY <1>1
<1>2. CASE Completed(Context) # {} /\ Seeded(m) = [m EXCEPT !.mark = Max(Completed(Context))]
  <2>1. Max(Completed(Context)) \in 0..MaxTurns
    BY <1>2, CompletedFacts
  <2>2. m \in MemType
    BY DEF Fit
  <2>3. Seeded(m) \in MemType
    BY <1>2, <2>1, <2>2 DEF MemType
  <2>4. /\ Seeded(m).toc = m.toc /\ Seeded(m).boundary = m.boundary /\ Seeded(m).known = m.known
        /\ Seeded(m).archived = m.archived /\ Seeded(m).signature = m.signature
        /\ Seeded(m).leased = m.leased /\ Seeded(m).alive = m.alive
    BY <1>2, <2>2 DEF MemType
  <2>5. QED
    BY <2>3, <2>4 DEF Fit
<1>3. QED
  BY <1>1, <1>2 DEF Seeded

LEMMA StartInv ==
    ASSUME WindowAssumption, Inv, NEW trusted \in BOOLEAN, Start(trusted)
    PROVE  Inv'
<1> DEFINE m == Seeded(Restored(branch, Dead, trusted))
           D == Previews(m, Context)
           w == [m EXCEPT !.known = D, !.leased = Docs(m) \cup D, !.signature = Docs(m) \cup D]
<1>1. /\ BranchOK(branch, stored) /\ SaidInv /\ RestTyped /\ SentInv /\ JobInv
  BY DEF Inv
<1>2. /\ mem' = w /\ guarded' = w.leased /\ stored' = stored \cup D
      /\ branch' \in {Persisted(m), branch}
      /\ ~mem.alive /\ Count(trusted)
      /\ UNCHANGED <<fate, job, rows, sent, crashes>>
  BY DEF Start
<1>3. Fit(m, branch, stored)
  <2>1. Dead.leased = {} /\ Dead.signature = {}
    BY DEF Dead, Fresh
  <2>2. Fit(Restored(branch, Dead, trusted), branch, stored)
    BY <1>1, <2>1, RestoredOK
  <2>3. QED
    BY <1>1, <2>2, SeededOK
<1>4. D \subseteq Doc /\ Docs(m) \subseteq Doc
  <2>1. Context \subseteq Turn
    BY <1>1, WindowFacts
  <2>2. QED
    BY <1>3, <2>1, PreviewsTyped, DocsTyped DEF Fit
<1> HIDE DEF m, D
<1>5. w \in MemType
  <2>1. m \in MemType /\ Docs(m) \cup D \subseteq Doc
    BY <1>3, <1>4 DEF Fit
  <2> DEFINE L == Docs(m) \cup D
  <2> HIDE DEF L
  <2>2. [m EXCEPT !.known = D, !.leased = L, !.signature = L] \in MemType
    BY <1>4, <2>1 DEF MemType, L
  <2>3. QED
    BY <2>2 DEF L
<1>6. /\ w.toc = m.toc /\ w.boundary = m.boundary /\ w.known = D /\ w.archived = m.archived
      /\ w.signature = w.leased /\ w.leased = Docs(m) \cup D
  BY <1>3 DEF Fit, MemType
<1> HIDE DEF w
<1>7. Fit(m, branch, stored') /\ BranchOK(branch, stored')
  BY <1>1, <1>2, <1>3, MoreStored
<1>8. Fit(w, branch, stored')
  BY <1>2, <1>5, <1>6, <1>7 DEF Fit
<1>9. /\ AsGood(branch', branch, stored') /\ TurnsOf(branch') = TurnsOf(branch)
  <2>1. CASE branch' = branch
    BY <1>7, <2>1 DEF AsGood
  <2>2. CASE branch' = Persisted(m)
    BY <1>7, <2>2, Persisting
  <2>3. QED
    BY <1>2, <2>1, <2>2
<1>10. BranchOK(branch', stored') /\ Fit(mem', branch', stored')
  BY <1>2, <1>8, <1>9 DEF AsGood
<1>11. JobInv'
  <2>1. job = Idle
    BY <1>1, <1>2 DEF JobInv
  <2>2. QED
    BY <1>2, <2>1, IdleInv
<1>12. /\ stored \subseteq stored' /\ stored' \subseteq Doc /\ guarded' \subseteq Doc
       /\ rows' \in [Turn -> Text] /\ faults' \in 0..MaxFaults /\ crashes' \in 0..MaxCrashes
  BY <1>1, <1>2, <1>4, <1>6, CountTyped DEF RestTyped
<1>13. QED
  BY <1>2, <1>9, <1>10, <1>11, <1>12, InvNext

LEMMA NavigateInv ==
    ASSUME WindowAssumption, Inv, NEW trusted \in BOOLEAN, Navigate(trusted)
    PROVE  Inv'
<1>1. /\ BranchOK(branch, stored) /\ Fit(mem, branch, stored) /\ RestTyped
  BY DEF Inv
<1>2. PICK n \in 1..(Len(branch) - 1) :
        /\ branch' = SubSeq(branch, 1, n)
        /\ \E o \in Refresh(Restored(branch', mem, trusted)) :
             Count(trusted /\ o.ok) /\ mem' = o.mem /\ guarded' = o.guarded
  BY DEF Navigate
<1>3. /\ job = Idle /\ crashes < MaxCrashes /\ crashes' = crashes + 1
      /\ UNCHANGED <<fate, job, stored, rows, sent>>
  BY DEF Navigate
<1>4. n \in 1..Len(branch)
  <2>1. Len(branch) \in Nat
    BY <1>1, BranchTyped DEF BranchOK
  <2>2. QED
    BY <1>2, <2>1
<1>5. BranchOK(branch', stored') /\ TurnsOf(branch') \subseteq TurnsOf(branch)
  BY <1>1, <1>2, <1>3, <1>4, PrefixOK
<1> DEFINE m == Restored(branch', mem, trusted)
<1>6. PICK o \in Refresh(m) : Count(trusted /\ o.ok) /\ mem' = o.mem /\ guarded' = o.guarded
  BY <1>2
<1>7. Fit(m, branch', stored')
  <2>1. mem.leased \subseteq Doc /\ mem.signature \subseteq mem.leased
    BY <1>1 DEF Fit, MemType
  <2>2. QED
    BY <1>5, <2>1, RestoredOK
<1> HIDE DEF m
<1>8. Fit(o.mem, branch', stored') /\ o.guarded \subseteq Doc /\ o.ok \in BOOLEAN
  BY <1>1, <1>6, <1>7, RefreshFit
<1>9. JobInv'
  BY <1>3, IdleInv
<1>10. crashes' \in 0..MaxCrashes
  BY <1>1, <1>3 DEF RestTyped, WindowAssumption
<1>11. (trusted /\ o.ok) \in BOOLEAN
  BY <1>8
<1>12. /\ stored \subseteq stored' /\ stored' \subseteq Doc /\ guarded' \subseteq Doc
       /\ rows' \in [Turn -> Text] /\ faults' \in 0..MaxFaults
  BY <1>1, <1>3, <1>6, <1>8, <1>11, CountTyped DEF RestTyped
<1>13. QED
  BY <1>3, <1>5, <1>6, <1>8, <1>9, <1>10, <1>12, InvNext

LEMMA RequestRotationInv ==
    ASSUME WindowAssumption, Inv, RequestRotation
    PROVE  Inv'
<1>1. /\ BranchOK(branch, stored) /\ Fit(mem, branch, stored) /\ RestTyped
  BY DEF Inv
<1>2. /\ job = Idle /\ mem' = [mem EXCEPT !.forced = TRUE]
      /\ UNCHANGED <<branch, fate, job, stored, guarded, rows, sent, faults, crashes>>
  BY DEF RequestRotation
<1>3. mem \in MemType
  BY <1>1 DEF Fit
<1>4. mem' \in MemType
  BY <1>2, <1>3 DEF MemType
<1>5. /\ mem'.toc = mem.toc /\ mem'.boundary = mem.boundary /\ mem'.known = mem.known
      /\ mem'.archived = mem.archived /\ mem'.signature = mem.signature
      /\ mem'.leased = mem.leased
  BY <1>2, <1>3 DEF MemType
<1>6. Fit(mem', branch, stored)
  BY <1>1, <1>4, <1>5 DEF Fit
<1>7. JobInv'
  BY <1>2, IdleInv
<1>8. QED
  BY <1>1, <1>2, <1>6, <1>7, InvNext DEF RestTyped

LEMMA SettleInv ==
    ASSUME WindowAssumption, Inv, Settle
    PROVE  Inv'
<1> DEFINE last == Max(Completed(Context))
           pending == {t \in Completed(Context) : t > mem.mark} \ mem.archived
           D == {TurnDoc(t) : t \in pending}
<1>1. /\ BranchOK(branch, stored) /\ Fit(mem, branch, stored) /\ RestTyped
  BY DEF Inv
<1>2. PICK o \in PutAll(mem, D) :
             /\ Count(o.ok)
             /\ stored' = o.stored /\ guarded' = o.guarded
             /\ LET m == [o.mem EXCEPT !.mark = last, !.archived = @ \cup pending]
                IN  IF o.ok THEN mem' = m /\ branch' = Persisted(m)
                            ELSE mem' = o.mem /\ UNCHANGED branch
  BY DEF Settle
<1>3. job = Idle /\ Completed(Context) # {} /\ UNCHANGED <<fate, job, rows, sent, crashes>>
  BY DEF Settle
<1>4. last \in 0..MaxTurns /\ pending \subseteq Turn
  BY <1>1, <1>3, CompletedFacts
<1>5. D \in SUBSET Doc
  BY <1>4, DocTypes
<1> DEFINE m == [o.mem EXCEPT !.mark = last, !.archived = @ \cup pending]
<1>6. \A t \in pending : TurnDoc(t) \in D
  OBVIOUS
<1> HIDE DEF last, pending, D
<1>7. /\ Fit(o.mem, branch, o.stored)
      /\ stored \subseteq o.stored /\ o.stored \subseteq Doc /\ o.guarded \subseteq Doc
      /\ o.ok \in BOOLEAN /\ (o.ok => D \subseteq o.stored)
  BY <1>1, <1>5, PutAllFit
<1>8. BranchOK(branch, o.stored)
  BY <1>1, <1>7, MoreStored
<1>9. ASSUME o.ok PROVE Fit(m, branch, o.stored)
  <2>1. o.mem \in MemType
    BY <1>7 DEF Fit
  <2>2. m \in MemType
    BY <1>4, <2>1 DEF MemType
  <2>3. /\ m.toc = o.mem.toc /\ m.boundary = o.mem.boundary /\ m.known = o.mem.known
        /\ m.archived = o.mem.archived \cup pending /\ m.signature = o.mem.signature
        /\ m.leased = o.mem.leased
    BY <2>1 DEF MemType
  <2> HIDE DEF m
  <2>4. \A t \in m.archived : TurnDoc(t) \in o.stored
    BY <1>6, <1>7, <1>9, <2>3 DEF Fit
  <2>5. QED
    BY <1>7, <2>2, <2>3, <2>4 DEF Fit
<1>10. \/ o.ok /\ mem' = m /\ branch' = Persisted(m)
       \/ mem' = o.mem /\ branch' = branch
  BY <1>2
<1> HIDE DEF m
<1>11. /\ BranchOK(branch', stored') /\ Fit(mem', branch', stored')
       /\ TurnsOf(branch') \subseteq TurnsOf(branch)
  <2>1. stored' = o.stored
    BY <1>2
  <2>2. CASE o.ok /\ mem' = m /\ branch' = Persisted(m)
    <3>1. Fit(m, branch, o.stored)
      BY <1>9, <2>2
    <3>2. AsGood(Persisted(m), branch, o.stored) /\ TurnsOf(Persisted(m)) = TurnsOf(branch)
      BY <1>8, <3>1, Persisting
    <3>3. QED
      BY <2>1, <2>2, <3>1, <3>2 DEF AsGood
  <2>3. CASE mem' = o.mem /\ branch' = branch
    BY <1>7, <1>8, <2>1, <2>3
  <2>4. QED
    BY <1>10, <2>2, <2>3
<1>12. JobInv'
  BY <1>3, IdleInv
<1>13. /\ stored \subseteq stored' /\ stored' \subseteq Doc /\ guarded' \subseteq Doc
       /\ rows' \in [Turn -> Text] /\ faults' \in 0..MaxFaults /\ crashes' \in 0..MaxCrashes
  BY <1>1, <1>2, <1>3, <1>7, CountTyped DEF RestTyped
<1>14. QED
  BY <1>3, <1>11, <1>12, <1>13, InvNext

-----------------------------------------------------------------------------
(* Preparing a request. *)

\* What a request shows as a preview is stored before it goes on.
LEMMA ExternalizedFacts ==
    ASSUME WindowAssumption, RestTyped, NEW b, NEW m, Fit(m, b, stored), NEW T \in SUBSET Turn,
           NEW next, Externalized(m, T, next)
    PROVE  /\ Fit(mem', b, stored')
           /\ mem'.alive = m.alive /\ mem'.boundary = m.boundary
           /\ stored \subseteq stored' /\ stored' \subseteq Doc /\ guarded' \subseteq Doc
           /\ faults' \in 0..MaxFaults
           /\ \/ job' = Idle
              \/ job' = next /\ Previews(mem', T) \subseteq stored'
<1> DEFINE D == Previews(m, T)
<1>1. PICK o \in PutAll(m, D \ m.known) :
             /\ Count(o.ok)
             /\ stored' = o.stored /\ guarded' = o.guarded
             /\ mem' = [o.mem EXCEPT !.active = @ \cup IF o.ok THEN D ELSE o.mem.known \ m.known]
             /\ job' = IF o.ok THEN next ELSE Idle
  BY DEF Externalized
<1>2. D \subseteq Doc
  BY PreviewsTyped
<1> HIDE DEF D
<1>3. D \ m.known \in SUBSET Doc
  BY <1>2
<1>4. /\ Fit(o.mem, b, o.stored) /\ Kept(o.mem, m)
      /\ stored \subseteq o.stored /\ o.stored \subseteq Doc /\ o.guarded \subseteq Doc
      /\ o.ok \in BOOLEAN /\ (o.ok => D \ m.known \subseteq o.stored)
      /\ o.mem.known \subseteq Doc
  BY <1>1, <1>3, PutAllFit
<1> DEFINE A == IF o.ok THEN D ELSE o.mem.known \ m.known
<1>5. A \subseteq Doc
  BY <1>2, <1>4
<1> HIDE DEF A
<1>6. mem' = [o.mem EXCEPT !.active = @ \cup A] /\ o.mem \in MemType
  BY <1>1, <1>4 DEF A, Kept
<1>7. mem' \in MemType
  BY <1>5, <1>6 DEF MemType
<1>8. /\ mem'.toc = o.mem.toc /\ mem'.boundary = o.mem.boundary /\ mem'.known = o.mem.known
      /\ mem'.archived = o.mem.archived /\ mem'.signature = o.mem.signature
      /\ mem'.leased = o.mem.leased /\ mem'.alive = o.mem.alive
      /\ mem'.through = o.mem.through
  BY <1>6 DEF MemType
<1>9. Fit(mem', b, stored')
  BY <1>1, <1>4, <1>7, <1>8 DEF Fit
<1>10. o.mem.alive = m.alive /\ o.mem.boundary = m.boundary /\ o.mem.through = m.through
  BY <1>4 DEF Kept
<1>11. ASSUME o.ok PROVE Previews(mem', T) \subseteq stored'
  <2>1. Previews(mem', T) = D
    BY <1>8, <1>10, PreviewsSame DEF D
  <2>2. m.known \subseteq stored
    BY DEF Fit
  <2>3. QED
    BY <1>1, <1>4, <1>11, <2>1, <2>2
<1>12. faults' \in 0..MaxFaults
  BY <1>1, <1>4, CountTyped DEF RestTyped
<1>13. QED
  BY <1>1, <1>4, <1>8, <1>9, <1>10, <1>11, <1>12

LEMMA SliceInv ==
    ASSUME WindowAssumption, Inv, Slice
    PROVE  Inv'
<1> DEFINE found == mem.boundary \in Context
           m == IF found THEN mem ELSE [mem EXCEPT !.boundary = 0, !.through = 0]
           W == Window(m)
           retired == IF found /\ mem.reconciled # mem.boundary THEN Context \ W ELSE {}
           n == [m EXCEPT !.active = {}]
           next == [pc |-> "protect", active |-> W, retired |-> retired, changed |-> FALSE]
<1>0. retired = IF found /\ mem.reconciled # mem.boundary THEN Context \ Window(m) ELSE {}
  OBVIOUS
<1>1. /\ BranchOK(branch, stored) /\ Fit(mem, branch, stored) /\ RestTyped
  BY DEF Inv
<1>2. /\ mem.alive /\ branch # <<>> /\ Externalized(n, W, next)
      /\ UNCHANGED <<branch, fate, rows, sent, crashes>>
  <2>1. found => m = mem
    OBVIOUS
  <2>2. QED
    BY <2>1 DEF Slice
<1>3. W \subseteq Context /\ Context \subseteq Turn
  BY <1>1, WindowFacts
<1>4. retired \subseteq Turn
  BY <1>3
<1>5. Fit(n, branch, stored) /\ n.alive = mem.alive /\ n.boundary = m.boundary
  <2>1. mem \in MemType /\ 0 \in 0..MaxTurns
    BY <1>1 DEF Fit, WindowAssumption
  <2>2. n \in MemType
    BY <2>1 DEF MemType
  <2>3. /\ n.toc = mem.toc /\ n.known = mem.known /\ n.archived = mem.archived
        /\ n.signature = mem.signature /\ n.leased = mem.leased /\ n.alive = mem.alive
        /\ n.boundary \in {mem.boundary, 0} /\ n.boundary = m.boundary
    BY <2>1 DEF MemType
  <2>4. Bounded(n.boundary, branch, stored)
    BY <1>1, <2>3, ZeroBounded DEF Fit
  <2> HIDE DEF n
  <2>5. QED
    BY <1>1, <2>2, <2>3, <2>4 DEF Fit
<1> HIDE DEF n
<1>6. Window(n) = W
  BY <1>1, <1>5, WindowFacts
<1> HIDE DEF m, W, retired, found
<1>7. /\ Fit(mem', branch, stored')
      /\ mem'.alive = n.alive /\ mem'.boundary = n.boundary
      /\ stored \subseteq stored' /\ stored' \subseteq Doc /\ guarded' \subseteq Doc
      /\ faults' \in 0..MaxFaults
      /\ \/ job' = Idle
         \/ job' = next /\ Previews(mem', W) \subseteq stored'
  BY <1>1, <1>2, <1>3, <1>5, ExternalizedFacts
<1>8. Context' = Context /\ Window(mem)' = W
  BY <1>2, <1>6, <1>7 DEF Context, Window
<1>9. JobInv'
  <2>1. CASE job' = Idle
    BY <2>1, IdleInv
  <2>2. CASE job' = next /\ Previews(mem', W) \subseteq stored'
    <3>1. "protect" \in Step \ {"compact", "idle"} /\ "protect" \notin Protected
      BY DEF Step, Protected
    <3>2. mem'.alive /\ branch' # <<>>
      BY <1>2, <1>5, <1>7
    <3>3. QED
      BY <1>3, <1>4, <1>8, <2>2, <3>1, <3>2, JobNext
  <2>3. QED
    BY <1>7, <2>1, <2>2
<1>10. BranchOK(branch', stored') /\ Fit(mem', branch', stored')
  BY <1>1, <1>2, <1>7, MoreStored
<1>11. QED
  BY <1>1, <1>2, <1>7, <1>9, <1>10, InvNext DEF RestTyped

LEMMA RebalanceInv ==
    ASSUME WindowAssumption, Inv, Rebalance
    PROVE  Inv'
<1> DEFINE next == [job EXCEPT !.pc = "guard"]
<1>1. /\ BranchOK(branch, stored) /\ Fit(mem, branch, stored) /\ RestTyped /\ JobInv
  BY DEF Inv
<1>2. /\ mem.alive /\ job.pc = "rebalance" /\ Externalized(mem, job.active, next)
      /\ UNCHANGED <<branch, fate, rows, sent, crashes>>
  BY DEF Rebalance, At
<1>3. /\ next = [pc |-> "guard", active |-> job.active, retired |-> job.retired,
                 changed |-> job.changed]
      /\ job.active \subseteq Turn /\ job.retired \subseteq Turn /\ job.changed \in BOOLEAN
      /\ job.active \subseteq Context /\ branch # <<>>
  BY <1>1, <1>2, JobTyped DEF JobInv
<1> HIDE DEF next
<1>4. /\ Fit(mem', branch, stored')
      /\ mem'.alive = mem.alive /\ mem'.boundary = mem.boundary
      /\ stored \subseteq stored' /\ stored' \subseteq Doc /\ guarded' \subseteq Doc
      /\ faults' \in 0..MaxFaults
      /\ \/ job' = Idle
         \/ job' = next /\ Previews(mem', job.active) \subseteq stored'
  BY <1>1, <1>2, <1>3, ExternalizedFacts
<1>5. Context' = Context
  BY <1>2 DEF Context
<1>6. JobInv'
  <2>1. CASE job' = Idle
    BY <2>1, IdleInv
  <2>2. CASE job' = next /\ Previews(mem', job.active) \subseteq stored'
    <3>1. "guard" \in Step \ {"compact", "idle"} /\ "guard" \notin Protected
      BY DEF Step, Protected
    <3>2. mem'.alive /\ branch' # <<>>
      BY <1>2, <1>3, <1>4
    <3>3. QED
      BY <1>3, <1>5, <2>2, <3>1, <3>2, JobNext
  <2>3. QED
    BY <1>4, <2>1, <2>2
<1>7. BranchOK(branch', stored') /\ Fit(mem', branch', stored')
  BY <1>1, <1>2, <1>4, MoreStored
<1>8. QED
  BY <1>1, <1>2, <1>4, <1>6, <1>7, InvNext DEF RestTyped

\* A refresh of the protection, before a plan and after a rotation.
LEMMA ProtectInv ==
    ASSUME WindowAssumption, Inv, NEW pc \in {"protect", "guard"}, NEW next,
           next = IF pc = "protect" THEN "plan" ELSE "persist", Protect(pc, next)
    PROVE  Inv'
<1>1. /\ BranchOK(branch, stored) /\ Fit(mem, branch, stored) /\ RestTyped /\ JobInv
  BY DEF Inv
<1>2. PICK o \in Refresh(mem) : Then(o, next)
  BY DEF Protect
<1>3. /\ mem.alive /\ job.pc = pc
      /\ UNCHANGED <<branch, fate, stored, rows, sent, crashes>>
  BY DEF Protect, At
<1>4. /\ Count(o.ok) /\ mem' = o.mem /\ guarded' = o.guarded
      /\ o.ok => job' = [job EXCEPT !.pc = next]
      /\ ~o.ok => job' = Idle
  BY <1>2 DEF Then, Go
<1>5. /\ Fit(o.mem, branch, stored) /\ Kept(o.mem, mem)
      /\ o.guarded \subseteq Doc
      /\ o.ok \in BOOLEAN /\ (o.ok => Docs(o.mem) \subseteq o.mem.leased)
  BY <1>1, <1>2, RefreshFit
<1>6. /\ job = [pc |-> job.pc, active |-> job.active, retired |-> job.retired,
                changed |-> job.changed]
      /\ job.active \subseteq Turn /\ job.retired \subseteq Turn /\ job.changed \in BOOLEAN
      /\ job.active \subseteq Context /\ branch # <<>>
      /\ pc = "protect" => job.active = Window(mem)
      /\ Previews(mem, job.active) \subseteq stored
  BY <1>1, <1>3, JobTyped DEF JobInv, Showing
<1>7. /\ mem'.alive /\ branch' # <<>> /\ Context' = Context
      /\ Window(mem)' = Window(mem) /\ Previews(mem', job.active) = Previews(mem, job.active)
  BY <1>3, <1>4, <1>5, <1>6 DEF Kept, Context, Window, Previews, Preview
<1>8. JobInv'
  <2>1. CASE ~o.ok
    BY <1>4, <2>1, IdleInv
  <2>2. CASE o.ok
    <3>1. job' = [pc |-> next, active |-> job.active, retired |-> job.retired,
                  changed |-> job.changed]
      BY <1>4, <1>6, <2>2
    <3>2. /\ next \in Step \ {"compact", "idle"} /\ next # "rotate" /\ next # "protect"
          /\ next = "plan" => pc = "protect"
      BY DEF Step
    <3>3. QED
      BY <1>3, <1>4, <1>5, <1>6, <1>7, <2>2, <3>1, <3>2, JobNext
  <2>3. QED
    BY <1>5, <2>1, <2>2
<1>9. faults' \in 0..MaxFaults
  BY <1>1, <1>4, <1>5, CountTyped DEF RestTyped
<1>10. QED
  BY <1>1, <1>3, <1>4, <1>5, <1>8, <1>9, InvNext DEF RestTyped

\* What is known of a request that is being prepared.
LEMMA Underway ==
    ASSUME WindowAssumption, Inv, job.pc # "idle", job.pc # "compact"
    PROVE  /\ BranchOK(branch, stored) /\ Fit(mem, branch, stored) /\ RestTyped
           /\ job = [pc |-> job.pc, active |-> job.active, retired |-> job.retired,
                     changed |-> job.changed]
           /\ job.active \subseteq Turn /\ job.retired \subseteq Turn /\ job.changed \in BOOLEAN
           /\ mem.alive /\ branch # <<>> /\ job.active \subseteq Context
BY JobTyped DEF Inv, JobInv

LEMMA KeepInv ==
    ASSUME WindowAssumption, Inv, Keep
    PROVE  Inv'
<1>1. /\ job.pc = "plan" /\ mem' = [mem EXCEPT !.forced = FALSE]
      /\ job' = [job EXCEPT !.pc = "hints"]
      /\ UNCHANGED <<branch, fate, stored, guarded, rows, sent, faults, crashes>>
  BY DEF Keep, At, Go
<1>2. /\ BranchOK(branch, stored) /\ Fit(mem, branch, stored) /\ RestTyped
      /\ job = [pc |-> job.pc, active |-> job.active, retired |-> job.retired,
                changed |-> job.changed]
      /\ job.active \subseteq Turn /\ job.retired \subseteq Turn /\ job.changed \in BOOLEAN
      /\ mem.alive /\ branch # <<>> /\ job.active \subseteq Context
  BY <1>1, Underway
<1>3. mem \in MemType
  BY <1>2 DEF Fit
<1>4. mem' \in MemType
  BY <1>1, <1>3 DEF MemType
<1>5. /\ mem'.toc = mem.toc /\ mem'.boundary = mem.boundary /\ mem'.known = mem.known
      /\ mem'.archived = mem.archived /\ mem'.signature = mem.signature
      /\ mem'.leased = mem.leased /\ mem'.alive = mem.alive /\ mem'.through = mem.through
      /\ mem'.active = mem.active /\ mem'.entries = mem.entries
  BY <1>1, <1>3 DEF MemType
<1>6. Fit(mem', branch, stored)
  BY <1>2, <1>4, <1>5 DEF Fit
<1>7. Previews(mem, job.active) \subseteq stored /\ Docs(mem) \subseteq mem.leased
  BY <1>1 DEF Inv, JobInv, Showing, Protected
<1>8. Previews(mem', job.active) = Previews(mem, job.active) /\ Docs(mem') = Docs(mem)
  BY <1>5, PreviewsSame DEF Docs
<1>9. JobInv'
  <2>1. "hints" \in Step \ {"compact", "idle"}
    BY DEF Step
  <2>2. job' = [pc |-> "hints", active |-> job.active, retired |-> job.retired,
                changed |-> job.changed]
    BY <1>1, <1>2
  <2>3. Context' = Context
    BY <1>1 DEF Context
  <2>4. QED
    BY <1>1, <1>2, <1>5, <1>7, <1>8, <2>1, <2>2, <2>3, JobNext
<1>10. QED
  BY <1>1, <1>2, <1>6, <1>9, InvNext DEF RestTyped

\* The turns that are to leave the window are stored, or were known to be.
LEMMA ArchiveTurnsInv ==
    ASSUME WindowAssumption, Inv, NEW start \in Turn, ArchiveTurns(start)
    PROVE  Inv'
<1> DEFINE rotated == {t \in job.active : t < start}
           D == {TurnDoc(t) : t \in rotated \ mem.archived}
           next == [job EXCEPT !.pc = "rotate", !.active = @ \ rotated, !.retired = @ \cup rotated]
<1>1. PICK o \in PutAll(mem, D) :
             /\ Count(o.ok)
             /\ mem' = o.mem /\ guarded' = o.guarded /\ stored' = o.stored
             /\ job' = IF o.ok THEN next ELSE Idle
  BY DEF ArchiveTurns
<1>2. job.pc = "plan" /\ start \in Starts /\ UNCHANGED <<branch, fate, rows, sent, crashes>>
  BY DEF ArchiveTurns, At
<1>3. /\ BranchOK(branch, stored) /\ Fit(mem, branch, stored) /\ RestTyped
      /\ job = [pc |-> job.pc, active |-> job.active, retired |-> job.retired,
                changed |-> job.changed]
      /\ job.active \subseteq Turn /\ job.retired \subseteq Turn /\ job.changed \in BOOLEAN
      /\ mem.alive /\ branch # <<>> /\ job.active \subseteq Context
  BY <1>2, Underway
<1>4. job.active = Window(mem)
  BY <1>2 DEF Inv, JobInv
<1>5. start \in job.active \ rotated
  <2>1. start \in job.active
    BY <1>2 DEF Starts
  <2>2. ~(start < start)
    BY TurnsFinite
  <2>3. QED
    BY <2>1, <2>2
<1>6. D \in SUBSET Doc /\ \A t \in rotated : t \in mem.archived \/ TurnDoc(t) \in D
  BY <1>3, DocTypes
<1>7. rotated \subseteq Turn
  BY <1>3
<1>8. next = [pc |-> "rotate", active |-> job.active \ rotated,
              retired |-> job.retired \cup rotated, changed |-> job.changed]
  <2> HIDE DEF rotated
  <2> DEFINE p == job.pc
             a == job.active
             r == job.retired
             c == job.changed
             A == a \ rotated
             R == r \cup rotated
  <2>1. job = [pc |-> p, active |-> a, retired |-> r, changed |-> c]
    BY <1>3
  <2>2. next = [job EXCEPT !.pc = "rotate", !.active = A, !.retired = R]
    OBVIOUS
  <2> HIDE DEF p, a, r, c, A, R, next
  <2>3. next = [pc |-> "rotate", active |-> A, retired |-> R, changed |-> c]
    BY <2>1, <2>2
  <2>4. QED
    BY <2>3 DEF a, r, c, A, R
<1> HIDE DEF rotated, D, next
<1>9. /\ Fit(o.mem, branch, o.stored) /\ Kept(o.mem, mem)
      /\ stored \subseteq o.stored /\ o.stored \subseteq Doc /\ o.guarded \subseteq Doc
      /\ o.ok \in BOOLEAN /\ (o.ok => D \subseteq o.stored)
  BY <1>1, <1>3, <1>6, PutAllFit
<1>10. BranchOK(branch, o.stored)
  BY <1>3, <1>9, MoreStored
<1>11. /\ Context' = Context /\ mem'.alive /\ branch' # <<>>
       /\ Window(mem)' = Window(mem)
  BY <1>1, <1>2, <1>3, <1>9 DEF Context, Window, Kept
<1>12. ASSUME o.ok PROVE \A t \in rotated : TurnDoc(t) \in stored'
  BY <1>1, <1>3, <1>6, <1>9, <1>12 DEF Fit
<1>13. JobInv'
  <2>1. CASE ~o.ok
    BY <1>1, <2>1, IdleInv
  <2>2. CASE o.ok
    <3>1. "rotate" \in Step \ {"compact", "idle"}
      BY DEF Step
    <3>2. job' = [pc |-> "rotate", active |-> job.active \ rotated,
                  retired |-> job.retired \cup rotated, changed |-> job.changed]
      BY <1>1, <1>8, <2>2
    <3>3. /\ job.active \ rotated \in SUBSET Turn /\ job.retired \cup rotated \in SUBSET Turn
          /\ job.active \ rotated \subseteq Context'
      BY <1>3, <1>7, <1>11
    <3>4. job.active \ rotated # {}
      BY <1>5
    <3>5. \A t \in Window(mem)' \ (job.active \ rotated) : TurnDoc(t) \in stored'
      BY <1>4, <1>11, <1>12, <2>2
    <3>6. Docs(mem') \subseteq mem'.leased
      <4>1. Docs(mem) \subseteq mem.leased
        BY <1>2 DEF Inv, JobInv, Protected
      <4>2. Docs(mem') = Docs(mem)
        BY <1>1, <1>9 DEF Docs, Kept
      <4>3. mem.leased \subseteq mem'.leased
        BY <1>1, <1>3, <1>6, PutAllFit
      <4>4. QED
        BY <4>1, <4>2, <4>3
    <3>7. Previews(mem', job.active \ rotated) \subseteq stored'
      <4>1. Previews(mem, job.active) \subseteq stored
        BY <1>2 DEF Inv, JobInv, Showing
      <4>2. mem'.through = mem.through
        BY <1>1, <1>9 DEF Kept
      <4>3. Previews(mem', job.active \ rotated) \subseteq Previews(mem, job.active)
        BY <4>2 DEF Previews, Preview
      <4>4. QED
        BY <1>1, <1>9, <4>1, <4>3
    <3>8. QED
      BY <1>3, <1>11, <3>1, <3>2, <3>3, <3>4, <3>5, <3>6, <3>7, JobNext
  <2>3. QED
    BY <1>9, <2>1, <2>2
<1>14. faults' \in 0..MaxFaults
  BY <1>1, <1>3, <1>9, CountTyped DEF RestTyped
<1>15. QED
  BY <1>1, <1>2, <1>3, <1>9, <1>10, <1>13, <1>14, InvNext DEF RestTyped

\* The boundary moves to the first turn that is kept: all before it is in the archive.
LEMMA RotatedBounded ==
    ASSUME WindowAssumption, BranchOK(branch, stored), Fit(mem, branch, stored),
           NEW A, A \subseteq Context, A # {},
           \A t \in Window(mem) \ A : TurnDoc(t) \in stored
    PROVE  Bounded(Min(A), branch, stored)
<1>1. branch \in Seq(EntryType) /\ CompactionsOK(branch, stored)
  BY DEF BranchOK
<1>2. /\ Context \subseteq TurnsOf(branch) /\ TurnsOf(branch) \subseteq Turn
      /\ \A t \in TurnsOf(branch) : t <= Newest(branch)
  BY WindowFacts
<1>3. Min(A) \in A /\ \A t \in A : Min(A) =< t
  BY <1>2, LeastTurn
<1>4. Min(A) <= Newest(branch)
  BY <1>2, <1>3
<1>5. StoredBefore(Min(A), Len(branch), branch, stored)
  <2> SUFFICES ASSUME NEW h \in 1..Len(branch), branch[h].turn < Min(A)
               PROVE  \/ TurnDoc(branch[h].turn) \in stored
                      \/ \E j \in 1..Len(branch) : branch[h].turn < branch[j].compaction.kept
    BY DEF StoredBefore
  <2> DEFINE t == branch[h].turn
  <2>1. t \in Nat /\ Min(A) \in Nat
    BY <1>1, <1>2, <1>3, BranchTyped, TurnsFinite
  <2>2. t \notin A
    <3>1. ~(Min(A) <= t)
      BY <2>1
    <3>2. QED
      BY <1>3, <3>1
  <2>3. CASE t \in Context
    <3>1. CASE t \in Window(mem)
      BY <2>2, <3>1
    <3>2. CASE t \notin Window(mem)
      BY <2>3, <3>2, OutsideStored
    <3>3. QED
      BY <3>1, <3>2
  <2>4. CASE t \notin Context
    <3>1. PICK j \in 1..Len(branch) : ~(branch[j].compaction.kept <= t)
      BY <1>1, <2>4, ContextFacts DEF Context
    <3>2. branch[j].compaction.kept \in Nat
      BY <1>1, <3>1, BranchTyped
    <3>3. t < branch[j].compaction.kept
      BY <2>1, <3>1, <3>2
    <3>4. QED
      BY <3>1, <3>3
  <2>5. QED
    BY <2>3, <2>4
<1>6. QED
  BY <1>4, <1>5 DEF Bounded

LEMMA RotateInv ==
    ASSUME WindowAssumption, Inv, Rotate
    PROVE  Inv'
<1> DEFINE A == job.active
           rotated == {t \in Window(mem) : t < Min(A)}
           m == [mem EXCEPT !.toc = ExtendedToc(rotated)]
           Moved(n) == [n EXCEPT !.archived = @ \cup rotated, !.boundary = Min(A),
                                 !.through = Current]
<1>1. PICK o \in Refresh(m) :
         Then([o EXCEPT !.mem = IF o.ok THEN Moved(o.mem) ELSE mem], "rebalance")
  BY DEF Rotate
<1>2. job.pc = "rotate" /\ UNCHANGED <<branch, fate, stored, rows, sent, crashes>>
  BY DEF Rotate, At
<1>3. /\ BranchOK(branch, stored) /\ Fit(mem, branch, stored) /\ RestTyped
      /\ job = [pc |-> job.pc, active |-> A, retired |-> job.retired, changed |-> job.changed]
      /\ A \subseteq Turn /\ job.retired \subseteq Turn /\ job.changed \in BOOLEAN
      /\ mem.alive /\ branch # <<>> /\ A \subseteq Context
  BY <1>2, Underway
<1>4. A # {} /\ \A t \in Window(mem) \ A : TurnDoc(t) \in stored
  BY <1>2 DEF Inv, JobInv
<1>5. Min(A) \in A /\ \A t \in A : Min(A) =< t
  BY <1>3, <1>4, LeastTurn
<1>6. Min(A) \in 0..MaxTurns /\ Current \in 0..MaxTurns
  <2>1. Min(A) \in Turn /\ Current \in Turn
    BY <1>3, <1>5, WindowFacts
  <2>2. QED
    BY <2>1 DEF Turn
<1>7. rotated \subseteq Turn /\ \A t \in rotated : TurnDoc(t) \in stored
  <2>1. Window(mem) \subseteq Turn
    BY <1>3, WindowFacts
  <2>2. ASSUME NEW t \in rotated PROVE t \notin A
    <3>1. t \in Nat /\ Min(A) \in Nat /\ t < Min(A)
      BY <1>3, <1>5, <2>1, TurnsFinite
    <3>2. ~(Min(A) =< t)
      BY <3>1
    <3>3. QED
      BY <1>5, <3>2
  <2>3. QED
    BY <1>4, <2>1, <2>2
<1>8. Bounded(Min(A), branch, stored)
  BY <1>3, <1>4, RotatedBounded
<1> HIDE DEF A, rotated
<1>9. Fit(m, branch, stored) /\ m.alive = mem.alive
  <2> DEFINE toc == ExtendedToc(rotated)
  <2>1. mem \in MemType /\ mem.toc \in Seq(Turn)
    BY <1>3 DEF Fit, MemType
  <2>2. toc \in Seq(Turn) /\ Len(toc) <= TocMax
    BY <1>7, <2>1, TocBounded
  <2> HIDE DEF toc
  <2>3. m = [mem EXCEPT !.toc = toc]
    BY DEF toc
  <2> HIDE DEF m
  <2>4. m \in MemType
    BY <2>1, <2>2, <2>3 DEF MemType
  <2>5. /\ m.toc = toc /\ m.boundary = mem.boundary /\ m.known = mem.known
        /\ m.archived = mem.archived /\ m.signature = mem.signature
        /\ m.leased = mem.leased /\ m.alive = mem.alive
    BY <2>1, <2>3 DEF MemType
  <2>6. QED
    BY <1>3, <2>2, <2>4, <2>5 DEF Fit
<1> HIDE DEF m
<1>10. /\ Fit(o.mem, branch, stored) /\ Kept(o.mem, m)
       /\ o.guarded \subseteq Doc /\ o.ok \in BOOLEAN
       /\ o = [ok |-> o.ok, mem |-> o.mem, guarded |-> o.guarded]
  BY <1>1, <1>3, <1>9, RefreshFit
<1>11. Fit(Moved(o.mem), branch, stored) /\ Moved(o.mem).alive = mem.alive
  <2> DEFINE n == Moved(o.mem)
  <2>1. o.mem \in MemType
    BY <1>10 DEF Fit
  <2>2. n \in MemType
    BY <1>6, <1>7, <2>1 DEF MemType
  <2>3. /\ n.toc = o.mem.toc /\ n.boundary = Min(A) /\ n.known = o.mem.known
        /\ n.archived = o.mem.archived \cup rotated /\ n.signature = o.mem.signature
        /\ n.leased = o.mem.leased /\ n.alive = o.mem.alive
    BY <2>1 DEF MemType
  <2> HIDE DEF n
  <2>4. \A t \in n.archived : TurnDoc(t) \in stored
    BY <1>7, <1>10, <2>3 DEF Fit
  <2>5. Fit(n, branch, stored)
    BY <1>8, <1>10, <2>2, <2>3, <2>4 DEF Fit
  <2>6. QED
    BY <1>9, <1>10, <2>3, <2>5 DEF n, Kept
<1> HIDE DEF Moved
<1>12. /\ Count(o.ok) /\ guarded' = o.guarded
       /\ mem' = IF o.ok THEN Moved(o.mem) ELSE mem
       /\ job' = IF o.ok THEN [job EXCEPT !.pc = "rebalance"] ELSE Idle
  <2> DEFINE k == IF o.ok THEN Moved(o.mem) ELSE mem
  <2> HIDE DEF k
  <2>1. [o EXCEPT !.mem = k] = [ok |-> o.ok, mem |-> k, guarded |-> o.guarded]
    BY <1>10
  <2>2. Then([o EXCEPT !.mem = k], "rebalance")
    BY <1>1 DEF k
  <2>3. Then([ok |-> o.ok, mem |-> k, guarded |-> o.guarded], "rebalance")
    BY <2>1, <2>2
  <2>4. QED
    BY <2>3 DEF Then, Go, k
<1>13. Fit(mem', branch, stored) /\ mem'.alive
  BY <1>3, <1>11, <1>12
<1>14. JobInv'
  <2>1. CASE ~o.ok
    BY <1>12, <2>1, IdleInv
  <2>2. CASE o.ok
    <3>1. /\ "rebalance" \in Step \ {"compact", "idle"} /\ "rebalance" \notin Showing
          /\ "rebalance" \notin Protected
      BY DEF Step, Showing, Protected
    <3>2. job' = [pc |-> "rebalance", active |-> A, retired |-> job.retired,
                  changed |-> job.changed]
      BY <1>3, <1>12, <2>2
    <3>3. Context' = Context
      BY <1>2 DEF Context
    <3>4. QED
      BY <1>2, <1>3, <1>13, <3>1, <3>2, <3>3, JobNext
  <2>3. QED
    BY <1>10, <2>1, <2>2
<1>15. faults' \in 0..MaxFaults
  BY <1>3, <1>10, <1>12, CountTyped DEF RestTyped
<1>16. QED
  BY <1>2, <1>3, <1>10, <1>12, <1>13, <1>14, <1>15, InvNext DEF RestTyped

\* A step of a request that stores nothing, and only writes down what the session knows.
LEMMA Noted ==
    ASSUME WindowAssumption, NEW m, Fit(m, branch, stored), NEW n \in MemType,
           n.toc = m.toc, n.boundary = m.boundary, n.known = m.known,
           n.archived = m.archived, n.signature = m.signature, n.leased = m.leased,
           n.active = m.active, n.entries = m.entries
    PROVE  Fit(n, branch, stored) /\ Docs(n) = Docs(m)
BY DEF Fit, Docs

LEMMA PersistRotationInv ==
    ASSUME WindowAssumption, Inv, PersistRotation
    PROVE  Inv'
<1>1. /\ job.pc = "persist" /\ mem' = [mem EXCEPT !.forced = FALSE]
      /\ job' = [job EXCEPT !.pc = "hints"] /\ branch' = Persisted(mem)
      /\ UNCHANGED <<fate, stored, guarded, rows, sent, faults, crashes>>
  BY DEF PersistRotation, At, Go
<1>2. /\ BranchOK(branch, stored) /\ Fit(mem, branch, stored) /\ RestTyped
      /\ job = [pc |-> job.pc, active |-> job.active, retired |-> job.retired,
                changed |-> job.changed]
      /\ job.active \subseteq Turn /\ job.retired \subseteq Turn /\ job.changed \in BOOLEAN
      /\ mem.alive /\ branch # <<>> /\ job.active \subseteq Context
  BY <1>1, Underway
<1>3. mem \in MemType
  BY <1>2 DEF Fit
<1>4. mem' \in MemType
  BY <1>1, <1>3 DEF MemType
<1>5. /\ mem'.toc = mem.toc /\ mem'.boundary = mem.boundary /\ mem'.known = mem.known
      /\ mem'.archived = mem.archived /\ mem'.signature = mem.signature
      /\ mem'.leased = mem.leased /\ mem'.alive = mem.alive /\ mem'.through = mem.through
      /\ mem'.active = mem.active /\ mem'.entries = mem.entries
  BY <1>1, <1>3 DEF MemType
<1>6. Fit(mem', branch, stored) /\ Docs(mem') = Docs(mem)
  BY <1>2, <1>4, <1>5, Noted
<1>7. /\ AsGood(branch', branch, stored) /\ TurnsOf(branch') = TurnsOf(branch)
      /\ Context' = Context
  BY <1>1, <1>2, Persisting DEF Context
<1>8. Previews(mem, job.active) \subseteq stored /\ Docs(mem) \subseteq mem.leased
  BY <1>1 DEF Inv, JobInv, Showing, Protected
<1>9. Previews(mem', job.active) = Previews(mem, job.active)
  BY <1>5, PreviewsSame
<1>10. BranchOK(branch', stored') /\ Fit(mem', branch', stored') /\ branch' # <<>>
  BY <1>1, <1>2, <1>6, <1>7 DEF AsGood
<1>11. JobInv'
  <2>1. "hints" \in Step \ {"compact", "idle"}
    BY DEF Step
  <2>2. job' = [pc |-> "hints", active |-> job.active, retired |-> job.retired,
                changed |-> job.changed]
    BY <1>1, <1>2
  <2>3. QED
    BY <1>1, <1>2, <1>5, <1>6, <1>7, <1>8, <1>9, <1>10, <2>1, <2>2, JobNext
<1>12. QED
  BY <1>1, <1>2, <1>7, <1>10, <1>11, InvNext DEF RestTyped

LEMMA ReconcileHintsInv ==
    ASSUME WindowAssumption, Inv, ReconcileHints
    PROVE  Inv'
<1> DEFINE gone == (mem.removing \cup job.retired \cup mem.observed \cup Frozen(mem)
                      \cup mem.only) \ job.active
           m == [mem EXCEPT !.observed = job.active, !.removing = gone]
           cleared == [m EXCEPT !.removing = {}, !.only = @ \ gone,
                         !.frozen = [t \in Turn |-> IF t \in gone THEN "none" ELSE @[t]],
                         !.reconciled = mem.boundary]
           dropped == [t \in Turn |-> IF t \in gone THEN "none" ELSE rows[t]]
<1>1. /\ job.pc = "hints" /\ job' = [job EXCEPT !.pc = "preflight"]
      /\ UNCHANGED <<fate, stored, guarded, crashes>>
      /\ sent' = [sent EXCEPT !.left = @ \cup (gone \cap DOMAIN sent.hint)]
  BY DEF ReconcileHints, At, Go
<1>2. /\ BranchOK(branch, stored) /\ Fit(mem, branch, stored) /\ RestTyped
      /\ job = [pc |-> job.pc, active |-> job.active, retired |-> job.retired,
                changed |-> job.changed]
      /\ job.active \subseteq Turn /\ job.retired \subseteq Turn /\ job.changed \in BOOLEAN
      /\ mem.alive /\ branch # <<>> /\ job.active \subseteq Context
  BY <1>1, Underway
<1>3. \/ mem' = cleared /\ UNCHANGED <<branch, rows, faults>>
      \/ /\ mem' = cleared /\ rows' = dropped /\ branch' \in {Persisted(cleared), branch}
         /\ UNCHANGED faults
      \/ /\ Count(FALSE) /\ mem' = m /\ rows' \in {rows, dropped} /\ UNCHANGED branch
  BY DEF ReconcileHints
<1>4. mem \in MemType
  BY <1>2 DEF Fit
<1>5. gone \subseteq Turn
  BY <1>2, <1>4 DEF MemType, Frozen
<1>6. "none" \in Text
  BY DEF Text
<1>7. dropped \in [Turn -> Text]
  BY <1>2, <1>6 DEF RestTyped
<1> HIDE DEF gone, dropped
<1>8. m \in MemType
  BY <1>2, <1>4, <1>5 DEF MemType
<1>9. /\ m.toc = mem.toc /\ m.boundary = mem.boundary /\ m.known = mem.known
      /\ m.archived = mem.archived /\ m.signature = mem.signature
      /\ m.leased = mem.leased /\ m.alive = mem.alive /\ m.through = mem.through
      /\ m.active = mem.active /\ m.entries = mem.entries
  BY <1>4 DEF MemType
<1> HIDE DEF m
<1>10. cleared \in MemType
  <2> DEFINE F == [t \in Turn |-> IF t \in gone THEN "none" ELSE m.frozen[t]]
  <2>1. m.frozen \in [Turn -> Text] /\ mem.boundary \in 0..MaxTurns /\ m.only \subseteq Turn
    BY <1>4, <1>8 DEF MemType
  <2>2. F \in [Turn -> Text]
    BY <1>6, <2>1
  <2>3. cleared = [m EXCEPT !.removing = {}, !.only = @ \ gone, !.frozen = F,
                            !.reconciled = mem.boundary]
    OBVIOUS
  <2> HIDE DEF F, cleared
  <2>4. QED
    BY <1>8, <2>1, <2>2, <2>3 DEF MemType
<1>11. /\ cleared.toc = mem.toc /\ cleared.boundary = mem.boundary
       /\ cleared.known = mem.known /\ cleared.archived = mem.archived
       /\ cleared.signature = mem.signature /\ cleared.leased = mem.leased
       /\ cleared.alive = mem.alive /\ cleared.through = mem.through
       /\ cleared.active = mem.active /\ cleared.entries = mem.entries
  BY <1>8, <1>9 DEF MemType
<1> HIDE DEF cleared
<1>12. ASSUME NEW n \in {m, cleared}
       PROVE  /\ Fit(n, branch, stored) /\ Docs(n) = Docs(mem)
              /\ n.alive /\ n.through = mem.through
  <2>1. Fit(m, branch, stored) /\ Docs(m) = Docs(mem)
    BY <1>2, <1>8, <1>9, Noted
  <2>2. Fit(cleared, branch, stored) /\ Docs(cleared) = Docs(mem)
    BY <1>2, <1>10, <1>11, Noted
  <2>3. CASE n = m
    BY <1>2, <1>9, <2>1, <2>3
  <2>4. CASE n = cleared
    BY <1>2, <1>11, <2>2, <2>4
  <2>5. QED
    BY <2>3, <2>4
<1>13. mem' \in {m, cleared}
  BY <1>3
<1>14. /\ AsGood(branch', branch, stored) /\ TurnsOf(branch') = TurnsOf(branch)
       /\ Context' = Context
  <2>1. CASE branch' = branch
    BY <1>2, <2>1 DEF AsGood, Context
  <2>2. CASE branch' = Persisted(cleared)
    <3>1. Fit(cleared, branch, stored)
      BY <1>12
    <3>2. QED
      BY <1>2, <2>2, <3>1, Persisting DEF Context
  <2>3. QED
    BY <1>3, <2>1, <2>2
<1>15. BranchOK(branch', stored') /\ Fit(mem', branch', stored') /\ branch' # <<>>
  <2>1. Fit(mem', branch, stored)
    BY <1>12, <1>13
  <2>2. QED
    BY <1>1, <1>2, <1>14, <2>1 DEF AsGood
<1>16. JobInv'
  <2>1. "preflight" \in Step \ {"compact", "idle"}
    BY DEF Step
  <2>2. job' = [pc |-> "preflight", active |-> job.active, retired |-> job.retired,
                changed |-> job.changed]
    BY <1>1, <1>2
  <2>3. Previews(mem, job.active) \subseteq stored /\ Docs(mem) \subseteq mem.leased
    BY <1>1 DEF Inv, JobInv, Showing, Protected
  <2>4. mem'.through = mem.through /\ mem'.alive /\ Docs(mem') = Docs(mem)
    BY <1>12, <1>13
  <2>5. mem'.leased = mem.leased
    BY <1>9, <1>11, <1>13
  <2>6. Previews(mem', job.active) \subseteq stored'
    BY <1>1, <2>3, <2>4, PreviewsSame
  <2>7. QED
    BY <1>2, <1>14, <1>15, <2>1, <2>2, <2>3, <2>4, <2>5, <2>6, JobNext
<1>17. rows' \in [Turn -> Text] /\ faults' \in 0..MaxFaults
  <2>1. faults \in 0..MaxFaults /\ rows \in [Turn -> Text]
    BY <1>2 DEF RestTyped
  <2>2. Count(FALSE) => faults' \in 0..MaxFaults
    BY <2>1, CountTyped
  <2>3. QED
    BY <1>3, <1>7, <2>1, <2>2
<1>18. SentInv'
  <2>1. SentInv
    BY DEF Inv
  <2>2. "form" \in DOMAIN sent' /\ sent'.form = sent.form
    BY <1>1, <2>1 DEF SentInv
  <2>3. QED
    BY <1>1, <2>1, <2>2 DEF SentInv
<1>19. QED
  BY <1>1, <1>2, <1>14, <1>15, <1>16, <1>17, <1>18, InvStep DEF RestTyped

LEMMA PreflightInv ==
    ASSUME WindowAssumption, Inv, Preflight
    PROVE  Inv'
<1> DEFINE t == Min(Undecided)
<1>1. /\ job.pc = "preflight" /\ Undecided # {}
      /\ job' = [job EXCEPT !.changed = @ \/ t \notin mem.only]
      /\ UNCHANGED <<branch, fate, stored, guarded, sent, crashes>>
  BY DEF Preflight, At
<1>2. PICK x \in Answers(t), ok \in BOOLEAN, committed \in BOOLEAN :
            /\ Count(ok)
            /\ rows' = IF committed /\ t \notin mem.only THEN [rows EXCEPT ![t] = x] ELSE rows
            /\ mem' = [mem EXCEPT !.frozen[t] = IF ok THEN x ELSE "empty",
                                  !.only = @ \cup {t}]
  BY DEF Preflight
<1>3. /\ BranchOK(branch, stored) /\ Fit(mem, branch, stored) /\ RestTyped
      /\ job = [pc |-> job.pc, active |-> job.active, retired |-> job.retired,
                changed |-> job.changed]
      /\ job.active \subseteq Turn /\ job.retired \subseteq Turn /\ job.changed \in BOOLEAN
      /\ mem.alive /\ branch # <<>> /\ job.active \subseteq Context
  BY <1>1, Underway
<1>4. t \in Turn
  <2>1. Undecided \subseteq Turn
    BY <1>3 DEF Undecided
  <2>2. QED
    BY <1>1, <2>1, LeastTurn
<1>5. x \in Text /\ "empty" \in Text
  BY <1>3, <1>4 DEF Answers, Text, RestTyped
<1> HIDE DEF t
<1>6. rows' \in [Turn -> Text]
  BY <1>2, <1>3, <1>4, <1>5 DEF RestTyped
<1>7. mem \in MemType
  BY <1>3 DEF Fit
<1> DEFINE F == [mem.frozen EXCEPT ![t] = IF ok THEN x ELSE "empty"]
           O == mem.only \cup {t}
<1>8. mem' = [mem EXCEPT !.frozen = F, !.only = O]
  BY <1>2
<1>9. F \in [Turn -> Text] /\ O \subseteq Turn
  BY <1>4, <1>5, <1>7 DEF MemType
<1> HIDE DEF F, O
<1>10. mem' \in MemType
  BY <1>7, <1>8, <1>9 DEF MemType
<1>11. /\ mem'.toc = mem.toc /\ mem'.boundary = mem.boundary /\ mem'.known = mem.known
       /\ mem'.archived = mem.archived /\ mem'.signature = mem.signature
       /\ mem'.leased = mem.leased /\ mem'.alive = mem.alive /\ mem'.through = mem.through
       /\ mem'.active = mem.active /\ mem'.entries = mem.entries
  BY <1>7, <1>8 DEF MemType
<1>12. Fit(mem', branch, stored) /\ Docs(mem') = Docs(mem)
  BY <1>3, <1>10, <1>11, Noted
<1>13. JobInv'
  <2> DEFINE c == job.changed \/ t \notin mem.only
  <2>1. "preflight" \in Step \ {"compact", "idle"} /\ c \in BOOLEAN
    BY DEF Step
  <2>2. job' = [pc |-> "preflight", active |-> job.active, retired |-> job.retired,
                changed |-> c]
    <3> DEFINE p == job.pc
               a == job.active
               r == job.retired
               d == job.changed
    <3>1. job = [pc |-> p, active |-> a, retired |-> r, changed |-> d] /\ p = "preflight"
      BY <1>1, <1>3
    <3>2. job' = [job EXCEPT !.changed = c]
      BY <1>1
    <3> HIDE DEF p, a, r, d, c
    <3>3. job' = [pc |-> p, active |-> a, retired |-> r, changed |-> c]
      BY <3>1, <3>2
    <3>4. QED
      BY <3>1, <3>3 DEF a, r
  <2> HIDE DEF c
  <2>3. Previews(mem, job.active) \subseteq stored /\ Docs(mem) \subseteq mem.leased
    BY <1>1 DEF Inv, JobInv, Showing, Protected
  <2>4. Previews(mem', job.active) \subseteq stored'
    BY <1>1, <1>11, <2>3, PreviewsSame
  <2>5. Context' = Context
    BY <1>1 DEF Context
  <2>6. QED
    BY <1>1, <1>3, <1>11, <1>12, <2>1, <2>2, <2>3, <2>4, <2>5, JobNext
<1>14. faults' \in 0..MaxFaults
  BY <1>2, <1>3, CountTyped DEF RestTyped
<1>15. QED
  BY <1>1, <1>3, <1>6, <1>12, <1>13, <1>14, InvNext DEF RestTyped

\* What is sent refers to stored documents.
LEMMA SendInv ==
    ASSUME WindowAssumption, Inv, Send
    PROVE  Inv'
<1>1. /\ job.pc = "preflight" /\ job' = Idle
      /\ branch' \in {Persisted(mem), branch}
      /\ "form" \in DOMAIN sent' /\ sent'.form = [t \in job.active |-> Preview(mem, t)]
      /\ mem' = [mem EXCEPT !.known = {d \in @ : d.of \subseteq job.active}]
      /\ UNCHANGED <<fate, stored, guarded, rows, faults, crashes>>
  BY DEF Send, Ready, At
<1>2. /\ BranchOK(branch, stored) /\ Fit(mem, branch, stored) /\ RestTyped
      /\ job.active \subseteq Turn
  BY <1>1, Underway
<1>3. mem \in MemType
  BY <1>2 DEF Fit
<1> DEFINE K == {d \in mem.known : d.of \subseteq job.active}
<1>4. K \subseteq mem.known /\ K \subseteq Doc
  BY <1>3 DEF MemType
<1>5. mem' = [mem EXCEPT !.known = K]
  BY <1>1
<1> HIDE DEF K
<1>6. mem' \in MemType
  BY <1>3, <1>4, <1>5 DEF MemType
<1>7. /\ mem'.toc = mem.toc /\ mem'.boundary = mem.boundary /\ mem'.known = K
      /\ mem'.archived = mem.archived /\ mem'.signature = mem.signature
      /\ mem'.leased = mem.leased
  BY <1>3, <1>5 DEF MemType
<1>8. Fit(mem', branch, stored)
  BY <1>2, <1>4, <1>6, <1>7 DEF Fit
<1>9. AsGood(branch', branch, stored) /\ TurnsOf(branch') = TurnsOf(branch)
  <2>1. CASE branch' = branch
    BY <1>2, <2>1 DEF AsGood
  <2>2. CASE branch' = Persisted(mem)
    BY <1>2, <2>2, Persisting
  <2>3. QED
    BY <1>1, <2>1, <2>2
<1>10. BranchOK(branch', stored') /\ Fit(mem', branch', stored')
  BY <1>1, <1>8, <1>9 DEF AsGood
<1>11. SentInv'
  <2>1. Previews(mem, job.active) \subseteq stored
    BY <1>1 DEF Inv, JobInv, Showing
  <2>2. ASSUME NEW t \in job.active, Preview(mem, t) PROVE ToolDoc(t) \in stored
    BY <2>1, <2>2 DEF Previews
  <2>3. "form" \in DOMAIN sent' /\ DOMAIN sent'.form = job.active
    BY <1>1
  <2>4. QED
    BY <1>1, <2>2, <2>3 DEF SentInv
<1>12. JobInv'
  BY <1>1, IdleInv
<1>13. SaidInv' /\ RestTyped'
  BY <1>1, <1>9, SaidKept DEF Inv, RestTyped
<1>14. QED
  BY <1>10, <1>11, <1>12, <1>13 DEF Inv

-----------------------------------------------------------------------------
(* Compaction. *)

\* A checkpoint covers what the compaction would drop; the rest is in earlier ones.
LEMMA CheckpointInv ==
    ASSUME WindowAssumption, Inv, NEW kept \in Turn, NEW trusted \in BOOLEAN,
           CheckpointCompaction(kept, trusted)
    PROVE  Inv'
<1> DEFINE span == SpanDoc({t \in Context : t < kept})
           catalog == {span} \cup IF trusted THEN LastCompaction(branch).entries ELSE {}
           m == [mem EXCEPT !.entries = catalog]
<1>1. /\ BranchOK(branch, stored) /\ Fit(mem, branch, stored) /\ RestTyped
  BY DEF Inv
<1>2. /\ mem.alive /\ job = Idle /\ branch # <<>> /\ kept \in Context
      /\ UNCHANGED <<branch, fate, rows, sent, crashes>>
  BY DEF CheckpointCompaction
<1>3. \/ /\ Count(FALSE)
         /\ stored' \in {stored, stored \cup {span}}
         /\ UNCHANGED <<mem, job, guarded>>
      \/ /\ stored' = stored \cup {span}
         /\ \E o \in Refresh(m) :
              /\ Count(trusted /\ o.ok)
              /\ mem' = IF o.ok THEN o.mem ELSE mem
              /\ guarded' = o.guarded
              /\ job' = IF o.ok THEN [Idle EXCEPT !.pc = "compact", !.active = {kept},
                                                 !.retired = catalog]
                                ELSE Idle
  BY DEF CheckpointCompaction
<1>4. Context \subseteq Turn /\ Context \subseteq TurnsOf(branch)
  BY <1>1, WindowFacts
<1>5. span \in Doc /\ span.kind = "span" /\ span.of = {t \in Context : t < kept}
  <2>1. {t \in Context : t < kept} \in SUBSET Turn
    BY <1>4
  <2>2. QED
    BY <2>1, DocTypes DEF SpanDoc
<1>6. LastCompaction(branch).entries \subseteq Doc
  <2>1. LastCompaction(branch) \in CompactionType
    BY <1>1, LastKept DEF BranchOK
  <2>2. QED
    BY <2>1 DEF CompactionType
<1>7. catalog \subseteq Doc
  BY <1>5, <1>6
<1> HIDE DEF span, catalog
<1>8. Fit(m, branch, stored) /\ m.alive = mem.alive
  <2>1. mem \in MemType
    BY <1>1 DEF Fit
  <2>2. m \in MemType
    BY <1>7, <2>1 DEF MemType
  <2>3. /\ m.toc = mem.toc /\ m.boundary = mem.boundary /\ m.known = mem.known
        /\ m.archived = mem.archived /\ m.signature = mem.signature
        /\ m.leased = mem.leased /\ m.alive = mem.alive
    BY <2>1 DEF MemType
  <2> HIDE DEF m
  <2>4. QED
    BY <1>1, <2>2, <2>3 DEF Fit
<1> HIDE DEF m
<1>9. stored \subseteq stored' /\ stored' \subseteq Doc
  BY <1>1, <1>3, <1>5 DEF RestTyped
<1>10. BranchOK(branch', stored') /\ Fit(mem, branch, stored') /\ Fit(m, branch, stored')
  BY <1>1, <1>2, <1>8, <1>9, MoreStored
<1>11. CASE /\ Count(FALSE) /\ UNCHANGED <<mem, job, guarded>>
  <2>1. JobInv'
    BY <1>2, <1>11, IdleInv
  <2>2. faults' \in 0..MaxFaults
    BY <1>1, <1>11, CountTyped DEF RestTyped
  <2>3. QED
    BY <1>1, <1>2, <1>9, <1>10, <1>11, <2>1, <2>2, InvNext DEF RestTyped
<1>12. ASSUME stored' = stored \cup {span}, NEW o \in Refresh(m),
              /\ Count(trusted /\ o.ok)
              /\ mem' = IF o.ok THEN o.mem ELSE mem
              /\ guarded' = o.guarded
              /\ job' = IF o.ok THEN [Idle EXCEPT !.pc = "compact", !.active = {kept},
                                                 !.retired = catalog]
                                ELSE Idle
       PROVE  Inv'
  <2>1. /\ Fit(o.mem, branch, stored') /\ Kept(o.mem, m)
        /\ o.guarded \subseteq Doc /\ o.ok \in BOOLEAN
    BY <1>1, <1>10, RefreshFit
  <2>2. Fit(mem', branch', stored') /\ mem'.alive
    BY <1>2, <1>8, <1>10, <1>12, <2>1 DEF Kept
  <2>3. faults' \in 0..MaxFaults
    <3>1. (trusted /\ o.ok) \in BOOLEAN
      BY <2>1
    <3>2. QED
      BY <1>1, <1>12, <3>1, CountTyped DEF RestTyped
  <2>4. ASSUME NEW u \in TurnsOf(branch), u < kept PROVE Spanned(u, stored')
    <3>1. CASE u \in Context
      BY <1>5, <1>12, <2>4, <3>1 DEF Spanned
    <3>2. CASE u \notin Context
      <4>1. Spanned(u, stored)
        BY <1>1, <3>2, ContextFacts DEF BranchOK, Context
      <4>2. QED
        BY <1>9, <4>1, MoreStored
    <3>3. QED
      BY <3>1, <3>2
  <2>5. JobInv'
    <3>1. CASE ~o.ok
      BY <1>12, <3>1, IdleInv
    <3>2. CASE o.ok
      <4>1. job' = [pc |-> "compact", active |-> {kept}, retired |-> catalog, changed |-> FALSE]
        BY <1>12, <3>2 DEF Idle
      <4>2. job' \in JobType
        BY <1>7, <4>1 DEF JobType
      <4>3. job'.pc = "compact" /\ job'.active = {kept}
        BY <4>1
      <4>4. Context' = Context /\ TurnsOf(branch') = TurnsOf(branch) /\ branch' # <<>>
        BY <1>2 DEF Context
      <4>5. "compact" \notin Showing /\ "compact" \notin Protected
        BY DEF Showing, Protected
      <4>6. \E t \in Context' : job'.active = {t}
                            /\ \A u \in TurnsOf(branch') : u < t => Spanned(u, stored')
        BY <1>2, <2>4, <4>3, <4>4
      <4>7. job'.active \subseteq Context'
        BY <1>2, <4>3, <4>4
      <4>8. QED
        BY <2>2, <4>2, <4>3, <4>4, <4>5, <4>6, <4>7 DEF JobInv
    <3>3. QED
      BY <2>1, <3>1, <3>2
  <2>6. guarded' \subseteq Doc
    BY <1>12, <2>1
  <2>7. QED
    BY <1>1, <1>2, <1>9, <1>10, <2>2, <2>3, <2>5, <2>6, InvNext DEF RestTyped
<1>13. QED
  BY <1>3, <1>11, <1>12

LEMMA CompactInv ==
    ASSUME WindowAssumption, Inv, Compact
    PROVE  Inv'
<1>1. /\ BranchOK(branch, stored) /\ Fit(mem, branch, stored) /\ RestTyped /\ JobInv
  BY DEF Inv
<1>2. /\ job.pc = "compact"
      /\ UNCHANGED <<fate, mem, stored, guarded, rows, sent, faults, crashes>>
  BY DEF Compact, At
<1>3. \/ /\ branch' = [branch EXCEPT ![Len(branch)].compaction =
                         [kept |-> Max(job.active), entries |-> job.retired]]
         /\ job' = [Idle EXCEPT !.pc = "reset"]
      \/ job' = Idle /\ UNCHANGED branch
  BY DEF Compact
<1>4. PICK t \in Context : job.active = {t}
                           /\ \A u \in TurnsOf(branch) : u < t => Spanned(u, stored)
  BY <1>1, <1>2 DEF JobInv
<1>5. /\ job.retired \in SUBSET Doc /\ mem.alive /\ branch # <<>>
  BY <1>1, <1>2, JobTyped DEF JobInv
<1>6. Max(job.active) = t
  <2>1. {t} \subseteq Turn
    BY <1>1, WindowFacts
  <2>2. QED
    BY <1>4, <2>1, LeastTurn
<1>7. CASE /\ branch' = [branch EXCEPT ![Len(branch)].compaction =
                           [kept |-> Max(job.active), entries |-> job.retired]]
           /\ job' = [Idle EXCEPT !.pc = "reset"]
  <2> DEFINE d == [kept |-> t, entries |-> job.retired]
  <2>1. branch' = [branch EXCEPT ![Len(branch)].compaction = d]
    BY <1>6, <1>7
  <2>2. WithCompaction(branch', branch, d)
    <3> HIDE DEF d
    <3>1. QED
      BY <2>1, Exchanged
  <2>3. t \in ContextOf(branch)
    BY DEF Context
  <2>4. AsGood(branch', branch, stored) /\ TurnsOf(branch') = TurnsOf(branch)
    BY <1>1, <1>4, <1>5, <2>2, <2>3, CompactOK
  <2>5. BranchOK(branch', stored') /\ Fit(mem', branch', stored') /\ branch' # <<>>
    BY <1>1, <1>2, <1>5, <2>4 DEF AsGood
  <2>6. JobInv'
    <3>1. job' = [pc |-> "reset", active |-> {}, retired |-> {}, changed |-> FALSE]
      BY <1>7 DEF Idle
    <3>2. /\ "reset" \in Step \ {"compact", "idle"} /\ "reset" \notin Showing
          /\ "reset" \notin Protected
      BY DEF Step, Showing, Protected
    <3>3. QED
      BY <1>2, <1>5, <2>5, <3>1, <3>2, JobNext
  <2>7. QED
    BY <1>1, <1>2, <2>4, <2>5, <2>6, InvNext DEF RestTyped
<1>8. CASE job' = Idle /\ UNCHANGED branch
  <2>1. JobInv'
    BY <1>8, IdleInv
  <2>2. QED
    BY <1>1, <1>2, <1>8, <2>1, InvNext DEF RestTyped
<1>9. QED
  BY <1>3, <1>7, <1>8

LEMMA ResetInv ==
    ASSUME WindowAssumption, Inv, Reset
    PROVE  Inv'
<1> DEFINE m == [mem EXCEPT !.boundary = 0, !.through = 0, !.forced = FALSE, !.toc = <<>>,
                            !.active = {}, !.reconciled = 0]
<1>1. /\ BranchOK(branch, stored) /\ Fit(mem, branch, stored) /\ RestTyped
  BY DEF Inv
<1>2. PICK o \in Refresh(m) :
             /\ Count(o.ok)
             /\ mem' = o.mem /\ guarded' = o.guarded
             /\ branch' = IF o.ok THEN Persisted(o.mem) ELSE branch
  BY DEF Reset
<1>3. job' = Idle /\ UNCHANGED <<fate, stored, rows, sent, crashes>>
  BY DEF Reset
<1>4. Fit(m, branch, stored)
  <2>1. mem \in MemType /\ 0 \in 0..MaxTurns /\ <<>> \in Seq(Turn) /\ Len(<<>>) = 0 /\ 0 <= TocMax
    BY <1>1, EmptySeq DEF Fit, WindowAssumption
  <2>2. m \in MemType
    BY <2>1 DEF MemType
  <2>3. /\ m.toc = <<>> /\ m.boundary = 0 /\ m.known = mem.known
        /\ m.archived = mem.archived /\ m.signature = mem.signature
        /\ m.leased = mem.leased
    BY <2>1 DEF MemType
  <2> HIDE DEF m
  <2>4. Bounded(0, branch, stored)
    BY <1>1, ZeroBounded
  <2>5. QED
    BY <1>1, <2>1, <2>2, <2>3, <2>4 DEF Fit
<1> HIDE DEF m
<1>5. Fit(o.mem, branch, stored) /\ o.guarded \subseteq Doc /\ o.ok \in BOOLEAN
  BY <1>1, <1>4, RefreshFit
<1>6. AsGood(branch', branch, stored) /\ TurnsOf(branch') = TurnsOf(branch)
  <2>1. CASE branch' = branch
    BY <1>1, <2>1 DEF AsGood
  <2>2. CASE branch' = Persisted(o.mem)
    BY <1>1, <1>5, <2>2, Persisting
  <2>3. QED
    BY <1>2, <2>1, <2>2
<1>7. BranchOK(branch', stored') /\ Fit(mem', branch', stored')
  BY <1>2, <1>3, <1>5, <1>6 DEF AsGood
<1>8. JobInv'
  BY <1>3, IdleInv
<1>9. faults' \in 0..MaxFaults
  BY <1>1, <1>2, <1>5, CountTyped DEF RestTyped
<1>10. QED
  BY <1>1, <1>2, <1>3, <1>5, <1>6, <1>7, <1>8, <1>9, InvNext DEF RestTyped

-----------------------------------------------------------------------------
(* The theorems. *)

LEMMA StutterInv ==
    ASSUME Inv, UNCHANGED vars
    PROVE  Inv'
<1>1. /\ branch' = branch /\ fate' = fate /\ mem' = mem /\ job' = job /\ stored' = stored
      /\ guarded' = guarded /\ rows' = rows /\ sent' = sent /\ faults' = faults
      /\ crashes' = crashes
  BY DEF vars
<1>2. SaidInv' /\ RestTyped' /\ SentInv'
  BY <1>1, SaidKept, SentKept DEF Inv, RestTyped
<1>3. Context' = Context /\ Window(mem)' = Window(mem)
  BY <1>1 DEF Context, Window
<1>4. JobInv'
  BY <1>1, <1>3 DEF Inv, JobInv
<1>5. QED
  BY <1>1, <1>2, <1>4 DEF Inv

\* The invariant is inductive: each event of the session keeps it, whatever call fails.
THEOREM WindowInductive ==
    ASSUME WindowAssumption
    PROVE  Spec => []Inv
<1>1. Init => Inv
  BY InitInv
<1>2. Inv /\ [Next]_vars => Inv'
  <2> SUFFICES ASSUME Inv, [Next]_vars PROVE Inv'
    OBVIOUS
  <2>1. ASSUME NEW trusted \in BOOLEAN, Start(trusted) PROVE Inv'
    BY <2>1, StartInv
  <2>2. ASSUME NEW trusted \in BOOLEAN, Navigate(trusted) PROVE Inv'
    BY <2>2, NavigateInv
  <2>3. CASE Crash
    BY <2>3, CrashInv
  <2>4. CASE Say
    BY <2>4, SayInv
  <2>5. CASE RequestRotation
    BY <2>5, RequestRotationInv
  <2>6. CASE Settle
    BY <2>6, SettleInv
  <2>7. CASE Finish
    BY <2>7, FinishInv
  <2>8. CASE Slice
    BY <2>8, SliceInv
  <2>9. CASE Protect("protect", "plan")
    BY <2>9, ProtectInv
  <2>10. CASE Keep
    BY <2>10, KeepInv
  <2>11. ASSUME NEW t \in Turn, ArchiveTurns(t) PROVE Inv'
    BY <2>11, ArchiveTurnsInv
  <2>12. CASE Rotate
    BY <2>12, RotateInv
  <2>13. CASE Rebalance
    BY <2>13, RebalanceInv
  <2>14. CASE Protect("guard", "persist")
    BY <2>14, ProtectInv
  <2>15. CASE PersistRotation
    BY <2>15, PersistRotationInv
  <2>16. CASE ReconcileHints
    BY <2>16, ReconcileHintsInv
  <2>17. CASE Preflight
    BY <2>17, PreflightInv
  <2>18. CASE Send
    BY <2>18, SendInv
  <2>19. ASSUME NEW t \in Turn, NEW trusted \in BOOLEAN, CheckpointCompaction(t, trusted) PROVE Inv'
    BY <2>19, CheckpointInv
  <2>20. CASE Compact
    BY <2>20, CompactInv
  <2>21. CASE Reset
    BY <2>21, ResetInv
  <2>22. CASE UNCHANGED vars
    BY <2>22, StutterInv
  <2>23. QED
    BY <2>1, <2>2, <2>3, <2>4, <2>5, <2>6, <2>7, <2>8, <2>9, <2>10, <2>11, <2>12, <2>13,
       <2>14, <2>15, <2>16, <2>17, <2>18, <2>19, <2>20, <2>21, <2>22 DEF Next
<1>3. QED
  BY <1>1, <1>2, PTL DEF Spec

LEMMA TypesFollow ==
    ASSUME WindowAssumption, Inv
    PROVE  TypeOK
<1>1. /\ BranchOK(branch, stored) /\ Fit(mem, branch, stored) /\ SaidInv /\ RestTyped
  BY DEF Inv
<1>2. \A i \in DOMAIN branch :
         /\ branch[i].turn \in Turn
         /\ branch[i].state.boundary \in 0..MaxTurns
         /\ branch[i].compaction.entries \subseteq Doc
  <2>1. branch \in Seq(EntryType)
    BY <1>1 DEF BranchOK
  <2>2. QED
    BY <2>1, BranchTyped
<1>3. mem \in MemType /\ Len(mem.toc) <= TocMax
  BY <1>1 DEF Fit
<1>4. /\ mem.boundary \in 0..MaxTurns /\ mem.mark \in 0..MaxTurns
      /\ mem.only \cup mem.archived \cup mem.removing \cup mem.observed \subseteq Turn
      /\ mem.frozen \in [Turn -> Text]
      /\ mem.leased \cup mem.known \subseteq Doc
  BY <1>3 DEF MemType
<1>5. Docs(mem) \subseteq Doc
  BY <1>3, DocsTyped
<1>6. QED
  BY <1>1, <1>2, <1>3, <1>4, <1>5 DEF TypeOK, SaidInv, RestTyped

LEMMA RecoverableFollows ==
    ASSUME WindowAssumption, Inv
    PROVE  Recoverable
<1>1. /\ BranchOK(branch, stored) /\ Fit(mem, branch, stored) /\ SentInv
  BY DEF Inv
<1>2. \A t \in Context \ Window(mem) : TurnDoc(t) \in stored
  BY <1>1, OutsideStored
<1>3. \A t \in TurnsOf(branch) \ Context : \E d \in stored : d.kind = "span" /\ t \in d.of
  <2>1. \A t \in TurnsOf(branch) \ ContextOf(branch) : Spanned(t, stored)
    BY <1>1, ContextFacts DEF BranchOK
  <2>2. QED
    BY <2>1 DEF Spanned, Context
<1>4. QED
  BY <1>1, <1>2, <1>3 DEF Recoverable, SentInv

LEMMA LeasedFollows ==
    ASSUME Inv
    PROVE  SentIsLeased
BY DEF Inv, JobInv, Protected, SentIsLeased, Ready, At

\* Every variable keeps its type.
THEOREM TypeCorrect ==
    ASSUME WindowAssumption
    PROVE  Spec => []TypeOK
<1>1. Inv => TypeOK
  BY TypesFollow
<1>2. QED
  BY <1>1, WindowInductive, PTL

\* What is no longer in the window can be recalled: the turns before it, those a compaction
\* dropped, and the results shown as a preview (archiveTurns, checkpointCompaction).
THEOREM RecoverableHolds ==
    ASSUME WindowAssumption
    PROVE  Spec => []Recoverable
<1>1. Inv => Recoverable
  BY RecoverableFollows
<1>2. QED
  BY <1>1, WindowInductive, PTL

\* What a request names has been protected by the time it is sent
\* (refreshArchiveProtection, and the documents a rotation stores).
THEOREM SentIsLeasedHolds ==
    ASSUME WindowAssumption
    PROVE  Spec => []SentIsLeased
<1>1. Inv => SentIsLeased
  BY LeasedFollows
<1>2. QED
  BY <1>1, WindowInductive, PTL

\* Nothing of the conversation is lost to the session, for every number of turns, failing
\* calls, crashes and navigations, every size of window and table, and every hint
\* (archiveTurns, checkpointCompaction, refreshArchiveProtection of epoch-window.js).
THEOREM NothingForgottenHolds ==
    ASSUME WindowAssumption
    PROVE  Spec => []NothingForgotten
<1>1. Inv => NothingForgotten
  BY TypesFollow, RecoverableFollows, LeasedFollows DEF NothingForgotten
<1>2. QED
  BY <1>1, WindowInductive, PTL
=============================================================================
