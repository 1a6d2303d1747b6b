---------------------------- MODULE OutboxProofs ----------------------------
(***************************************************************************)
(* Proofs about the index outbox, for every set of workers, every set of   *)
(* plans and every bound.                                                  *)
(*                                                                         *)
(* The properties proved are not inductive: that a worker which publishes  *)
(* moves the cursor by one needs that the entry it owns is the one at the  *)
(* cursor, which needs that only that entry can be claimed, that pruning   *)
(* stays behind the cursor and that no two workers hold one token.         *)
(* IndInv adds these facts.                                                *)
(***************************************************************************)
EXTENDS Outbox, WellFoundedInduction, TLAPS

\* Entries wait in the queue from the cursor to the counter.
QueueInv ==
    /\ cursor <= counter + 1
    /\ \A s \in Sequence : cursor <= s /\ s <= counter => s \in entries
    /\ \A s \in entries : s <= counter
    /\ generationCounter = cursor - 1 \/ generationCounter = cursor
    /\ generationCounter <= counter

\* An entry behind the cursor is processed or pruned, an entry ahead of it was
\* never claimed, and the entry at the cursor is claimed under the last generation.
StateInv ==
    \A s \in Sequence :
      /\ s < cursor => state[s] = Unclaimed \/ state[s].status = "processed"
      /\ s > cursor => state[s] = Unclaimed
      /\ s = cursor => /\ state[s].status # "processed"
                       /\ state[s].generation \in {0, s}
                       /\ state[s].generation = 0 <=> generationCounter = cursor - 1
                       /\ state[s].status = "processing" => state[s].generation = s

\* Generations are numbered like the entries they index.
GenerationInv ==
    /\ \A g \in Generation : publication[g] # 0 => publication[g] = g /\ g < cursor
    /\ \A s \in Sequence : IF s < cursor THEN visible[s].generation = s
                                         ELSE visible[s] = Invisible

\* An open transaction is one of the step its worker is at, and writes one record.
OpenShape(w) ==
    open[w] # NoKey =>
      \/ /\ pc[w] = "clear"
         /\ open[w].kind \in {"tablet", "applied"} /\ open[w].ordinal \in Ordinal
      \/ pc[w] \in {"clear-ready", "put-ready"} /\ open[w] = ReadyKey
      \/ pc[w] \in {"drop-legacy", "put-header"} /\ open[w] = HeaderKey
      \/ pc[w] = "put-tablet" /\ open[w] = Key("tablet", ordinal[w])
      \/ /\ pc[w] = "apply-tablet" /\ open[w].tablet \in Plan
         /\ open[w].kind = "applied" /\ open[w].ordinal = ordinal[w]

\* What a worker knows at each step.
LocalFacts(w) ==
    /\ pc[w] \in {"stage", "put-header", "put-ready", "cleanup-ready"} => plan[w] \in Plan
    /\ pc[w] \in {"idle", "discard", "drop-legacy"} => plan[w] = NoPlan
    /\ pc[w] \in {"clear", "clear-ready"} =>
         plan[w] = NoPlan \/ (plan[w] \in Plan /\ Tabletted(plan[w]))
    /\ pc[w] \in {"put-tablet", "apply-tablet", "cleanup-tablet"} =>
         plan[w] \in Plan /\ ordinal[w] \in TabletsOf(plan[w])
    /\ pc[w] \in Working => claim[w].generation = claim[w].sequence
    /\ pc[w] \in Cleaning => claim[w].sequence < cursor
LocalInv == \A w \in Worker : LocalFacts(w) /\ OpenShape(w)

\* No two workers hold the same token.
TokenInv ==
    \A v, w \in Worker : v # w => claim[v].token = NoToken \/ claim[v].token # claim[w].token

IndInv == TypeOK /\ QueueInv /\ StateInv /\ GenerationInv /\ LocalInv /\ TokenInv
-----------------------------------------------------------------------------
(***************************************************************************)
(* Most steps concern neither the queue nor the claims.                    *)
(***************************************************************************)
claims == <<queue, state, publication, visible>>

\* Steps of a worker that write only its memory or the staging records.
QuietStep(w) ==
    \/ ScanClaims(w) \/ ScanStages(w) \/ RecoverStage(w) \/ Initialized(w)
    \/ DiscardLegacy(w) \/ LoadStage(w) \/ Prepare(w) \/ CheckStage(w)
    \/ OrphansCleared(w) \/ StartApply(w) \/ Begins(w) \/ Commits(w) \/ Unchanged(w)
    \/ CleanupUnpublished(w) \/ StartCleanup(w) \/ ReadCleanupProgress(w) \/ CleanupTablet(w)
    \/ LoseClaim(w) \/ Reject(w) \/ Fail(w) \/ ReleaseFails(w)

\* Quiet steps leave the queue, the claims and the publications alone.
LEMMA QuietFrame ==
    ASSUME NEW w \in Worker, QuietStep(w)
    PROVE  UNCHANGED claims
<1>1. CASE Begins(w)
  BY <1>1 DEF Begins, BeginClear, BeginRemove, BeginPut, BeginApply, BeginReady, Begin, durable,
              index, claims
<1>2. CASE Unchanged(w)
  BY <1>2 DEF Unchanged, Internal, durable, index, claims
<1>3. CASE Commits(w)
  BY <1>3 DEF Commits, ClearOrphan, ClearReady, DropLegacy, PutTablet, PutHeader, ApplyTablet,
              PutReady, index, claims
<1>4. CASE ~(Begins(w) \/ Unchanged(w) \/ Commits(w))
  BY <1>4
   DEF QuietStep, ScanClaims, ScanStages, RecoverStage, Initialized, DiscardLegacy,
       LoadStage,
       Prepare, CheckStage, OrphansCleared, StartApply, CleanupUnpublished, StartCleanup,
       ReadCleanupProgress, CleanupTablet, LoseClaim, Reject, Fail, ReleaseFails,
       Internal, durable, index, queue, staging, claims
<1>5. QED
  BY <1>1, <1>2, <1>3, <1>4

\* A step is quiet, or one of the seven that move the queue or a claim, or a restart.
LEMMA StepCases ==
    ASSUME [Next]_vars
    PROVE  \/ Append
           \/ \E w \in Worker : \/ QuietStep(w)
                                \/ RecoverClaim(w) \/ Claim(w) \/ Publish(w)
                                \/ CleanupFinal(w) \/ Release(w)
           \/ \E s \in Sequence : Expire(s)
           \/ Restart
           \/ UNCHANGED vars
BY DEF Next, WorkerStep, QuietStep

\* The records that stand for nothing have the types of the others.
LEMMA ConstantTypes ==
    /\ NoClaim \in ClaimRecord
    /\ NoMarker \in MarkerRecord
    /\ NotReady \in ReadyRecord
    /\ Unclaimed \in StateRecord
    /\ Invisible \in VisibleRecord
    /\ NoKey \in KeyRecord /\ ReadyKey \in KeyRecord /\ HeaderKey \in KeyRecord
    /\ Generation = Sequence
    /\ 1 \in Sequence
    /\ 0 \in 0..MaxTablets
    /\ \A s \in Sequence : s \in 1..MaxSequence /\ s \in 0..MaxSequence
<1>1. 1 \in Sequence /\ 0 \in 0..MaxTablets /\ Generation = Sequence
  BY PlanAssumption, BoundAssumption DEF Sequence, Generation
<1>2. NoClaim \in ClaimRecord
  BY <1>1 DEF NoClaim, ClaimRecord
<1>3. NoMarker \in MarkerRecord
  BY DEF NoMarker, MarkerRecord
<1>4. NotReady \in ReadyRecord
  BY <1>1 DEF NotReady, ReadyRecord
<1>5. 0 \in 0..MaxSequence
  BY BoundAssumption
<1>6. Unclaimed \in StateRecord
  BY <1>5 DEF Unclaimed, StateRecord
<1>7. Invisible \in VisibleRecord
  BY <1>5 DEF Invisible, VisibleRecord
<1>8. \A s \in Sequence : s \in 1..MaxSequence /\ s \in 0..MaxSequence
  BY BoundAssumption DEF Sequence
<1>9. NoKey \in KeyRecord /\ ReadyKey \in KeyRecord /\ HeaderKey \in KeyRecord
  BY <1>1 DEF NoKey, ReadyKey, HeaderKey, Key, KeyRecord
<1>10. QED
  BY <1>1, <1>2, <1>3, <1>4, <1>6, <1>7, <1>8, <1>9

\* The tablets of a plan are among the ordinals, and a loop counts one further.
LEMMA TabletTypes ==
    ASSUME NEW p \in Plan, NEW o \in TabletsOf(p)
    PROVE  o \in Ordinal /\ o + 1 \in 0..MaxTablets
BY PlanAssumption DEF TabletsOf, Ordinal

\* Scans return the keys in order.
LEMMA SmallestOrdinal ==
    ASSUME NEW S \in SUBSET Nat, S # {}
    PROVE  Smallest(S) \in S
<1> DEFINE R == {ss \in Nat \X Nat : ss[1] < ss[2]}
<1>1. S \subseteq Nat
  OBVIOUS
<1>2. IsWellFoundedOn(R, Nat)
  BY NatLessThanWellFounded DEF OpToRel
<1>3. PICK n \in S : \A m \in S : ~ (<<m, n>> \in R)
  <2> HIDE DEF R
  <2> QED
    BY <1>1, <1>2, WFMin
<1>4. ASSUME NEW m \in S PROVE n <= m
  <2>1. m \in Nat /\ n \in Nat
    BY <1>1
  <2>2. m < n => <<m, n>> \in R
    BY <2>1
  <2>3. QED
    BY <2>1, <2>2, <1>3
<1>5. QED
  BY <1>4 DEF Smallest

LEMMA SmallestMember ==
    ASSUME NEW S \in SUBSET Sequence, S # {}
    PROVE  Smallest(S) \in S
BY SmallestOrdinal, BoundAssumption DEF Sequence

\* The initial states have the type the code gives its records.
LEMMA TypeInit == Init => TypeOK
<1> SUFFICES ASSUME Init PROVE TypeOK
  OBVIOUS
<1>1. state \in [Sequence -> StateRecord] /\ counter \in 0..MaxSequence
      /\ generationCounter \in 0..MaxSequence /\ entries \subseteq Sequence
      /\ stage \in [Generation -> Plan \cup {NoPlan, Legacy}]
  <2>1. CASE InitFresh
    BY <2>1, ConstantTypes, BoundAssumption DEF InitFresh
  <2>2. CASE InitUpgraded
    <3>1. [status |-> "processing", generation |-> 1, token |-> NoToken, live |-> TRUE]
            \in StateRecord
      BY ConstantTypes DEF StateRecord
    <3>2. QED
      BY <2>2, <3>1, ConstantTypes, BoundAssumption DEF InitUpgraded
  <2>3. QED
    BY <2>1, <2>2 DEF Init
<1>2. DurableTypeOK
  BY <1>1, ConstantTypes, BoundAssumption DEF Init, DurableTypeOK
<1>3. MemoryTypeOK
  BY ConstantTypes DEF Init, MemoryTypeOK, Steps
<1>4. faults \in 0..MaxFaults /\ torn \subseteq Generation
  BY BoundAssumption DEF Init
<1>5. QED
  BY <1>2, <1>3, <1>4 DEF TypeOK

\* A transaction begins under the claim and only notes the record it is to write.
LEMMA BeginFacts ==
    ASSUME TypeOK, LocalInv, NEW w \in Worker, Begins(w)
    PROVE  /\ Owns(w) /\ open[w] = NoKey
           /\ UNCHANGED <<durable, memory, faults, torn>>
           /\ open' \in [Worker -> KeyRecord]
           /\ \A v \in Worker : v # w => open'[v] = open[v]
           /\ OpenShape(w)'
<1> DEFINE g == claim[w].generation
           o == ordinal[w]
<1>a. g \in Generation /\ open \in [Worker -> KeyRecord] /\ LocalFacts(w)
  BY DEF TypeOK, MemoryTypeOK, ClaimRecord, LocalInv
<1>1. ASSUME NEW k \in KeyRecord, Begin(w, k),
             \/ /\ pc[w] = "clear" /\ k.kind \in {"tablet", "applied"} /\ k.ordinal \in Ordinal
             \/ pc[w] \in {"clear-ready", "put-ready"} /\ k = ReadyKey
             \/ pc[w] \in {"drop-legacy", "put-header"} /\ k = HeaderKey
             \/ pc[w] = "put-tablet" /\ k = Key("tablet", o)
             \/ /\ pc[w] = "apply-tablet" /\ k.tablet \in Plan
                /\ k.kind = "applied" /\ k.ordinal = o
      PROVE  /\ Owns(w) /\ open[w] = NoKey
             /\ UNCHANGED <<durable, memory, faults, torn>>
             /\ open' \in [Worker -> KeyRecord]
             /\ \A v \in Worker : v # w => open'[v] = open[v]
             /\ OpenShape(w)'
  <2>1. open'[w] = k /\ pc' = pc /\ ordinal' = ordinal
    BY <1>a, <1>1 DEF Begin, memory, locals
  <2>2. OpenShape(w)'
    BY <1>1, <2>1 DEF OpenShape
  <2>3. QED
    BY <1>a, <1>1, <2>2 DEF Begin
<1>2. CASE BeginClear(w)
  <2> DEFINE tablets == {x \in Ordinal : tablet[g][x] # NoPlan}
             markers == {x \in Ordinal : applied[g][x] # NoMarker}
             k == IF tablets # {} THEN Key("tablet", Smallest(tablets))
                                  ELSE Key("applied", Smallest(markers))
  <2>1. \A x \in Ordinal : x \in Nat /\ x \in 0..MaxTablets
    BY PlanAssumption DEF Ordinal
  <2>2. /\ pc[w] = "clear" /\ Begin(w, k)
        /\ tablets # {} => Smallest(tablets) \in tablets
        /\ tablets = {} => Smallest(markers) \in markers
    <3>1. pc[w] = "clear" /\ Begin(w, k) /\ tablets \cup markers # {}
      BY <1>2 DEF BeginClear, At
    <3>2. tablets \in SUBSET Nat /\ markers \in SUBSET Nat
      BY <2>1
    <3>3. QED
      BY <3>1, <3>2, SmallestOrdinal
  <2>3. k \in KeyRecord /\ k.kind \in {"tablet", "applied"} /\ k.ordinal \in Ordinal
    BY <2>1, <2>2 DEF Key, KeyRecord
  <2> HIDE DEF k
  <2>4. QED
    BY <1>1, <2>2, <2>3
<1>3. CASE BeginRemove(w)
  BY <1>1, <1>3, ConstantTypes DEF BeginRemove, At
<1>4. CASE BeginPut(w)
  <2>1. o \in 0..MaxTablets => Key("tablet", o) \in KeyRecord
    BY DEF Key, KeyRecord
  <2>2. QED
    BY <1>1, <1>4, <2>1, ConstantTypes DEF BeginPut, At, TypeOK, MemoryTypeOK
<1>5. CASE BeginApply(w)
  <2> DEFINE k == [kind |-> "applied", ordinal |-> o, tablet |-> tablet[g][o]]
  <2>1. pc[w] = "apply-tablet" /\ Begin(w, k) /\ tablet[g][o] # NoPlan
    BY <1>5 DEF BeginApply, At
  <2>2. o \in Ordinal /\ o \in 0..MaxTablets
    BY <1>a, <2>1, TabletTypes DEF LocalFacts, TypeOK, MemoryTypeOK
  <2>3. tablet[g][o] \in Plan
    BY <1>a, <2>1, <2>2 DEF TypeOK, DurableTypeOK
  <2>4. k \in KeyRecord /\ k.tablet \in Plan /\ k.kind = "applied" /\ k.ordinal = o
    BY <2>2, <2>3 DEF KeyRecord
  <2> HIDE DEF k
  <2>5. QED
    BY <1>1, <2>1, <2>4
<1>6. CASE BeginReady(w)
  BY <1>1, <1>6, ConstantTypes DEF BeginReady, At
<1>7. QED
  BY <1>2, <1>3, <1>4, <1>5, <1>6 DEF Begins

\* A commit ends the transactions it conflicts with, and starts none.
LEMMA CommittedFacts ==
    ASSUME TypeOK, NEW w \in Worker, NEW g, NEW K, Committed(w, g, K)
    PROVE  /\ open' \in [Worker -> KeyRecord]
           /\ open'[w] = NoKey
           /\ \A v \in Worker : open'[v] \in {NoKey, open[v]}
BY ConstantTypes DEF TypeOK, MemoryTypeOK, Committed

\* No step begins a transaction but those that say so.
LEMMA OpenFrame ==
    ASSUME TypeOK, LocalInv, NEW w \in Worker,
           QuietStep(w) \/ RecoverClaim(w) \/ Claim(w) \/ Publish(w) \/ CleanupFinal(w)
             \/ Release(w),
           ~Begins(w)
    PROVE  /\ open' \in [Worker -> KeyRecord]
           /\ open'[w] = NoKey
           /\ \A v \in Worker : v # w => open'[v] \in {NoKey, open[v]}
<1>a. open \in [Worker -> KeyRecord] /\ OpenShape(w)
  BY DEF TypeOK, MemoryTypeOK, LocalInv
<1>1. CASE Commits(w) \/ CleanupTablet(w) \/ CleanupFinal(w)
  <2>1. \E g, K : Committed(w, g, K)
    BY <1>1 DEF Commits, ClearOrphan, ClearReady, DropLegacy, PutTablet, PutHeader,
                ApplyTablet, PutReady, CleanupTablet, CleanupFinal
  <2>2. QED
    BY <2>1, CommittedFacts
<1>2. CASE Fail(w)
  BY <1>2, <1>a, ConstantTypes DEF Fail
<1>3. CASE Unchanged(w) \/ LoseClaim(w) \/ Reject(w) \/ OrphansCleared(w)
  BY <1>3, <1>a DEF Unchanged, LoseClaim, Reject, OrphansCleared, Internal, aside
<1>4. CASE \/ ScanClaims(w) \/ ScanStages(w) \/ RecoverStage(w) \/ Initialized(w)
           \/ DiscardLegacy(w) \/ LoadStage(w) \/ Prepare(w) \/ CheckStage(w)
           \/ StartApply(w) \/ CleanupUnpublished(w) \/ StartCleanup(w)
           \/ ReadCleanupProgress(w) \/ ReleaseFails(w)
           \/ RecoverClaim(w) \/ Claim(w) \/ Publish(w) \/ Release(w)
  <2>1. open' = open
    BY <1>4 DEF ScanClaims, ScanStages, RecoverStage, Initialized, DiscardLegacy, LoadStage,
                Prepare, CheckStage, StartApply, CleanupUnpublished, StartCleanup,
                ReadCleanupProgress, ReleaseFails, RecoverClaim, Claim, Publish, Release,
                Internal, aside
  <2>2. pc[w] \notin {"clear", "clear-ready", "drop-legacy", "put-tablet", "put-header",
                      "apply-tablet", "put-ready"}
    BY <1>4 DEF ScanClaims, ScanStages, RecoverStage, Initialized, DiscardLegacy, LoadStage,
                Prepare, CheckStage, StartApply, CleanupUnpublished, StartCleanup,
                ReadCleanupProgress, ReleaseFails, RecoverClaim, Claim, Publish, Release, At
  <2>3. QED
    BY <1>a, <2>1, <2>2 DEF OpenShape
<1>5. QED
  BY <1>1, <1>2, <1>3, <1>4 DEF QuietStep

\* Quiet steps keep the types of the durable records.
LEMMA DurableTypeQuiet ==
    ASSUME TypeOK, LocalInv, NEW w \in Worker, QuietStep(w)
    PROVE  DurableTypeOK'
<1> DEFINE g == claim[w].generation
<1>a. g \in Generation
  BY DEF TypeOK, MemoryTypeOK, ClaimRecord
<1>1. CASE ClearOrphan(w)
  <2>1. open[w].ordinal \in Ordinal
    BY <1>1 DEF ClearOrphan, At, LocalInv, OpenShape
  <2>2. QED
    BY <1>1, <1>a, <2>1, ConstantTypes DEF TypeOK, DurableTypeOK, ClearOrphan, queue, index
<1>2. CASE ClearReady(w)
  BY <1>2, <1>a, ConstantTypes, TabletTypes
     DEF TypeOK, DurableTypeOK, MemoryTypeOK, ClearReady, At, queue, staging, index,
         LocalInv, LocalFacts
<1>3. CASE DropLegacy(w)
  BY <1>3, <1>a, ConstantTypes, TabletTypes
     DEF TypeOK, DurableTypeOK, MemoryTypeOK, DropLegacy, At, queue, staging, index,
         LocalInv, LocalFacts
<1>4. CASE PutTablet(w)
  BY <1>4, <1>a, ConstantTypes, TabletTypes
     DEF TypeOK, DurableTypeOK, MemoryTypeOK, PutTablet, At, queue, staging, index,
         LocalInv, LocalFacts
<1>5. CASE PutHeader(w)
  BY <1>5, <1>a, ConstantTypes, TabletTypes
     DEF TypeOK, DurableTypeOK, MemoryTypeOK, PutHeader, At, queue, staging, index,
         LocalInv, LocalFacts
<1>6. CASE ApplyTablet(w)
  <2> DEFINE o == ordinal[w]
             t == open[w].tablet
  <2>1. plan[w] \in Plan /\ o \in Ordinal
    BY <1>6, TabletTypes DEF ApplyTablet, At, LocalInv, LocalFacts
  <2>2. t \in Plan
    BY <1>6 DEF ApplyTablet, At, LocalInv, OpenShape
  <2>3. [tablet |-> t, stage |-> plan[w]] \in MarkerRecord
    BY <2>1, <2>2 DEF MarkerRecord
  <2>4. <<t, o>> \in Plan \X Ordinal
    BY <2>1, <2>2
  <2>5. applied' \in [Generation -> [Ordinal -> MarkerRecord]]
    BY <1>6, <1>a, <2>1, <2>3 DEF ApplyTablet, TypeOK, DurableTypeOK
  <2>6. prepared' \in [Generation -> SUBSET (Plan \X Ordinal)]
    BY <1>6, <1>a, <2>4 DEF ApplyTablet, TypeOK, DurableTypeOK
  <2>7. QED
    BY <1>6, <2>5, <2>6 DEF ApplyTablet, TypeOK, DurableTypeOK, queue
<1>7. CASE PutReady(w)
  <2>1. [plan |-> plan[w], cleanupOrdinal |-> 0] \in ReadyRecord
    BY <1>7, ConstantTypes DEF PutReady, At, LocalInv, LocalFacts, ReadyRecord
  <2>2. QED
    BY <1>7, <1>a, <2>1 DEF PutReady, TypeOK, DurableTypeOK, queue, index
<1>8. CASE CleanupTablet(w)
  <2> DEFINE o == ordinal[w]
             t == tablet[g][o]
  <2>1. plan[w] \in Plan /\ o \in Ordinal /\ o + 1 \in 0..MaxTablets
    BY <1>8, TabletTypes DEF CleanupTablet, At, LocalInv, LocalFacts
  <2>2. t \in Plan
    BY <1>8, <1>a, <2>1 DEF CleanupTablet, TypeOK, DurableTypeOK
  <2>3. [plan |-> plan[w], cleanupOrdinal |-> o + 1] \in ReadyRecord
    BY <2>1 DEF ReadyRecord
  <2>4. <<t, o>> \in Plan \X Ordinal
    BY <2>1, <2>2
  <2>5. cleaned' \in [Generation -> SUBSET (Plan \X Ordinal)]
    BY <1>8, <1>a, <2>4 DEF CleanupTablet, TypeOK, DurableTypeOK
  <2>6. /\ tablet' \in [Generation -> [Ordinal -> Plan \cup {NoPlan}]]
        /\ applied' \in [Generation -> [Ordinal -> MarkerRecord]]
        /\ ready' \in [Generation -> ReadyRecord]
    BY <1>8, <1>a, <2>1, <2>3, ConstantTypes DEF CleanupTablet, TypeOK, DurableTypeOK
  <2>7. QED
    BY <1>8, <2>5, <2>6 DEF CleanupTablet, TypeOK, DurableTypeOK, queue
<1>9. CASE UNCHANGED durable
  BY <1>9 DEF TypeOK, DurableTypeOK, durable, queue, staging, index
<1>10. QED
  BY <1>1, <1>2, <1>3, <1>4, <1>5, <1>6, <1>7, <1>8, <1>9, BeginFacts
     DEF QuietStep, Commits, Unchanged, ScanClaims, ScanStages, RecoverStage, Initialized, DiscardLegacy,
         LoadStage, Prepare, CheckStage, OrphansCleared, StartApply,
         CleanupUnpublished, StartCleanup, ReadCleanupProgress, LoseClaim, Reject,
         Fail, ReleaseFails, Internal

\* Forgetting its locals leaves a worker with values of their types.
LEMMA ForgetType ==
    ASSUME MemoryTypeOK, NEW w \in Worker, Forget(w)
    PROVE  /\ claim' \in [Worker -> ClaimRecord]
           /\ plan' \in [Worker -> Plan \cup {NoPlan, Legacy}]
           /\ ordinal' \in [Worker -> 0..MaxTablets]
           /\ agree' \in [Worker -> BOOLEAN]
           /\ todo' \in [Worker -> SUBSET Sequence]
BY ConstantTypes DEF MemoryTypeOK, Forget

\* An error leaves them so, too.
LEMMA AbortType ==
    ASSUME MemoryTypeOK, NEW w \in Worker, Abort(w), open' \in [Worker -> KeyRecord]
    PROVE  MemoryTypeOK'
<1>1. CASE initialized[w]
  BY <1>1 DEF MemoryTypeOK, Abort, Goto, Steps, locals
<1>2. CASE ~initialized[w]
  BY <1>2, ForgetType DEF MemoryTypeOK, Abort, Goto, Steps
<1>3. QED
  BY <1>1, <1>2

\* Quiet steps keep the types of the workers' memory.
LEMMA MemoryTypeQuiet ==
    ASSUME TypeOK, LocalInv, NEW w \in Worker, QuietStep(w)
    PROVE  MemoryTypeOK'
<1>a. claim[w].generation \in Generation
  BY DEF TypeOK, MemoryTypeOK, ClaimRecord
<1>b. open' \in [Worker -> KeyRecord]
  BY BeginFacts, OpenFrame
<1>1. CASE ScanClaims(w)
  BY <1>1, <1>b, ConstantTypes
     DEF TypeOK, MemoryTypeOK, ScanClaims, DurableTypeOK, Goto, memory, locals, Steps,
         Working, Cleaning, Recovering, Fenced
<1>2. CASE ScanStages(w)
  BY <1>2, <1>b, ConstantTypes
     DEF TypeOK, MemoryTypeOK, ScanStages, DurableTypeOK, Goto, memory, locals, Steps,
         Working, Cleaning, Recovering, Fenced
<1>3. CASE RecoverStage(w)
  <2> DEFINE s == Smallest(todo[w])
  <2>1. s \in Sequence
    BY <1>3, <1>b, SmallestMember DEF RecoverStage, TypeOK, MemoryTypeOK
  <2>2. HasPublication(s) =>
          [sequence |-> publication[s], generation |-> s, token |-> NoToken] \in ClaimRecord
    BY <2>1, ConstantTypes, BoundAssumption
       DEF HasPublication, TypeOK, DurableTypeOK, ClaimRecord, Sequence
  <2>3. claim' \in [Worker -> ClaimRecord]
    BY <1>3, <1>b, <2>2 DEF RecoverStage, TypeOK, MemoryTypeOK
  <2>4. QED
    BY <1>3, <1>b, <2>3 DEF RecoverStage, TypeOK, MemoryTypeOK, Goto, Steps, Cleaning
<1>4. CASE Initialized(w)
  BY <1>4, <1>b, ConstantTypes, ForgetType
     DEF TypeOK, MemoryTypeOK, Initialized, DurableTypeOK, Goto, memory, locals,
         Steps, Working, Cleaning, Recovering, Fenced
<1>5. CASE DiscardLegacy(w)
  BY <1>5, <1>b, ConstantTypes
     DEF TypeOK, MemoryTypeOK, DiscardLegacy, DurableTypeOK, Goto, Internal, memory,
         locals, Steps, Working, Cleaning, Recovering, Fenced
<1>6. CASE LoadStage(w)
  <2>1. stage[claim[w].generation] \in Plan \cup {NoPlan, Legacy}
    BY <1>a DEF TypeOK, DurableTypeOK
  <2>2. QED
    BY <1>6, <1>b, <2>1
       DEF LoadStage, TypeOK, MemoryTypeOK, Goto, Steps, Working, Fenced, Cleaning,
           Internal
<1>7. CASE Prepare(w)
  BY <1>7, <1>b, ConstantTypes
     DEF TypeOK, MemoryTypeOK, Prepare, DurableTypeOK, Goto, Internal, memory, locals,
         Steps, Working, Cleaning, Recovering, Fenced
<1>8. CASE CheckStage(w)
  BY <1>8, <1>b, ConstantTypes
     DEF TypeOK, MemoryTypeOK, CheckStage, DurableTypeOK, Goto, Internal, memory,
         locals, Steps, Working, Cleaning, Recovering, Fenced
<1>9. CASE ClearOrphan(w)
  BY <1>9, <1>b, ConstantTypes
     DEF TypeOK, MemoryTypeOK, ClearOrphan, DurableTypeOK, Goto, memory, locals,
         Steps, Working, Cleaning, Recovering, Fenced
<1>10. CASE OrphansCleared(w)
  BY <1>10, <1>b, ConstantTypes
     DEF TypeOK, MemoryTypeOK, OrphansCleared, DurableTypeOK, Goto, Internal, memory,
         locals, Steps, Working, Cleaning, Recovering, Fenced
<1>11. CASE ClearReady(w)
  BY <1>11, <1>b, ConstantTypes
     DEF TypeOK, MemoryTypeOK, ClearReady, DurableTypeOK, Goto, memory, locals, Steps,
         Working, Cleaning, Recovering, Fenced
<1>12. CASE DropLegacy(w)
  BY <1>12, <1>b, ConstantTypes
     DEF TypeOK, MemoryTypeOK, DropLegacy, DurableTypeOK, Goto, memory, locals, Steps,
         Working, Cleaning, Recovering, Fenced
<1>13. CASE PutTablet(w)
  BY <1>13, <1>b, ConstantTypes, TabletTypes
     DEF TypeOK, MemoryTypeOK, PutTablet, LocalInv, LocalFacts, At, DurableTypeOK,
         Goto, NextTablet, memory, locals, Steps, Working, Cleaning, Recovering,
         Fenced
<1>14. CASE PutHeader(w)
  BY <1>14, <1>b, ConstantTypes
     DEF TypeOK, MemoryTypeOK, PutHeader, DurableTypeOK, Goto, memory, locals, Steps,
         Working, Cleaning, Recovering, Fenced
<1>15. CASE StartApply(w)
  BY <1>15, <1>b, ConstantTypes
     DEF TypeOK, MemoryTypeOK, StartApply, DurableTypeOK, Goto, Internal, memory,
         locals, Steps, Working, Cleaning, Recovering, Fenced
<1>16. CASE ApplyTablet(w)
  BY <1>16, <1>b, ConstantTypes, TabletTypes
     DEF TypeOK, MemoryTypeOK, ApplyTablet, LocalInv, LocalFacts, At, DurableTypeOK,
         Goto, NextTablet, memory, locals, Steps, Working, Cleaning, Recovering,
         Fenced
<1>17. CASE PutReady(w)
  BY <1>17, <1>b, ConstantTypes
     DEF TypeOK, MemoryTypeOK, PutReady, DurableTypeOK, Goto, memory, locals, Steps,
         Working, Cleaning, Recovering, Fenced
<1>18. CASE CleanupUnpublished(w)
  BY <1>18, <1>b, ConstantTypes, ForgetType
     DEF TypeOK, MemoryTypeOK, CleanupUnpublished, DurableTypeOK, Goto,
         CleanupReturns, memory, locals, Steps, Working, Cleaning, Recovering, Fenced
<1>19. CASE StartCleanup(w)
  <2>1. stage[claim[w].generation] \in Plan \cup {NoPlan, Legacy}
    BY <1>a DEF TypeOK, DurableTypeOK
  <2>2. QED
    BY <1>19, <1>b, <2>1
       DEF StartCleanup, TypeOK, MemoryTypeOK, Goto, Steps, Working, Fenced, Cleaning,
           Internal
<1>20. CASE ReadCleanupProgress(w)
  <2>1. ready[claim[w].generation].cleanupOrdinal \in 0..MaxTablets
    BY <1>a DEF TypeOK, DurableTypeOK, ReadyRecord
  <2>2. QED
    BY <1>20, <1>b, <2>1
       DEF ReadCleanupProgress, TypeOK, MemoryTypeOK, Goto, Steps, Cleaning, Internal
<1>21. CASE CleanupTablet(w)
  BY <1>21, <1>b, ConstantTypes, TabletTypes
     DEF TypeOK, MemoryTypeOK, CleanupTablet, LocalInv, LocalFacts, At, DurableTypeOK,
         Goto, NextTablet, memory, locals, Steps, Working, Cleaning, Recovering,
         Fenced
<1>22. CASE LoseClaim(w)
  BY <1>22, <1>b, AbortType DEF TypeOK, LoseClaim
<1>23. CASE Reject(w)
  BY <1>23, <1>b, AbortType DEF TypeOK, Reject
<1>24. CASE Fail(w)
  BY <1>24, <1>b, AbortType DEF TypeOK, Fail
<1>25. CASE ReleaseFails(w)
  BY <1>25, <1>b, ConstantTypes, ForgetType
     DEF TypeOK, MemoryTypeOK, ReleaseFails, DurableTypeOK, Goto, memory, locals,
         Steps, Working, Cleaning, Recovering, Fenced
<1>26. CASE Begins(w)
  <2>1. UNCHANGED memory
    BY <1>26, BeginFacts
  <2>2. QED
    BY <1>b, <2>1 DEF TypeOK, MemoryTypeOK, memory, locals
<1>27. CASE Unchanged(w)
  <2>1. UNCHANGED <<claim, plan, todo, initialized>>
    BY <1>27 DEF Unchanged, Internal
  <2>2. /\ pc' \in [Worker -> Steps] /\ ordinal' \in [Worker -> 0..MaxTablets]
        /\ agree' \in [Worker -> BOOLEAN]
    <3>1. CASE pc[w] \in {"put-tablet", "apply-tablet"}
      <4>1. ordinal[w] + 1 \in 0..MaxTablets
        BY <3>1, TabletTypes DEF LocalInv, LocalFacts
      <4>2. ordinal' \in [Worker -> 0..MaxTablets] /\ pc' \in [Worker -> Steps]
        BY <1>27, <3>1, <4>1
           DEF Unchanged, At, NextTablet, Goto, TypeOK, MemoryTypeOK, Steps, Working, Fenced
      <4>3. QED
        BY <1>27, <3>1, <4>2 DEF Unchanged, At, TypeOK, MemoryTypeOK
    <3>2. CASE pc[w] \in {"put-header", "put-ready"}
      BY <1>27, <3>2 DEF Unchanged, At, Goto, TypeOK, MemoryTypeOK, Steps, Working, Fenced
    <3>3. QED
      BY <1>27, <3>1, <3>2 DEF Unchanged, At
  <2>3. QED
    BY <1>b, <2>1, <2>2 DEF TypeOK, MemoryTypeOK
<1>28. QED
  BY <1>1, <1>2, <1>3, <1>4, <1>5, <1>6, <1>7, <1>8, <1>9, <1>10, <1>11, <1>12, <1>13,
     <1>14, <1>15, <1>16, <1>17, <1>18, <1>19, <1>20, <1>21, <1>22, <1>23, <1>24, <1>25,
     <1>26, <1>27
     DEF QuietStep, Commits
-----------------------------------------------------------------------------
(***************************************************************************)
(* The seven steps that move the queue or a claim.                         *)
(***************************************************************************)
\* What an owner, and the entry at the cursor, are.
LEMMA OwnerAtCursor ==
    ASSUME TypeOK, QueueInv, StateInv, NEW w \in Worker, Owns(w)
    PROVE  /\ claim[w].sequence = cursor
           /\ cursor \in Sequence
           /\ claim[w].generation = cursor
           /\ generationCounter = cursor
<1>1. claim[w].sequence \in Sequence /\ cursor \in Nat /\ claim[w].sequence \in Nat
  BY BoundAssumption DEF TypeOK, DurableTypeOK, MemoryTypeOK, ClaimRecord, Sequence
<1>2. state[claim[w].sequence].status = "processing"
  BY DEF Owns
<1>3. claim[w].sequence = cursor
  BY <1>1, <1>2 DEF StateInv, Unclaimed
<1>4. cursor \in Sequence /\ state[cursor].status = "processing"
      /\ claim[w].generation = state[cursor].generation
  BY <1>1, <1>2, <1>3 DEF Owns
<1>5. /\ state[cursor].status = "processing" => state[cursor].generation = cursor
      /\ state[cursor].generation = 0 <=> generationCounter = cursor - 1
  BY <1>4 DEF StateInv
<1>6. cursor # 0
  BY <1>4 DEF Sequence
<1>7. QED
  BY <1>1, <1>3, <1>4, <1>5, <1>6 DEF QueueInv

\* The generation of a claim is the number of the entry, old or new.
LEMMA ClaimNumbering ==
    ASSUME TypeOK, QueueInv, StateInv, cursor \in Sequence
    PROVE  ClaimGeneration = cursor
<1>1. cursor \in Nat /\ generationCounter \in Nat /\ cursor \in 1..MaxSequence
  BY BoundAssumption DEF TypeOK, DurableTypeOK, Sequence
<1>2. state[cursor].generation \in {0, cursor}
      /\ (state[cursor].generation = 0 <=> generationCounter = cursor - 1)
  BY DEF StateInv
<1>3. QED
  BY <1>1, <1>2 DEF ClaimGeneration

\* They keep the types.
LEMMA TypeLoud ==
    ASSUME TypeOK, QueueInv, StateInv, LocalInv,
           \/ Append \/ Restart
           \/ \E s \in Sequence : Expire(s)
           \/ \E w \in Worker : RecoverClaim(w) \/ Claim(w) \/ Publish(w)
                                \/ CleanupFinal(w) \/ Release(w)
    PROVE  TypeOK'
<1>1. CASE Append
  BY <1>1, BoundAssumption
     DEF Append, TypeOK, DurableTypeOK, MemoryTypeOK, Sequence, staging, index,
         memory, locals, aside
<1>2. CASE Restart
  <2>1. MemoryTypeOK'
    BY <1>2, ConstantTypes DEF Restart, MemoryTypeOK, Steps
  <2>2. QED
    BY <1>2, <2>1, BoundAssumption
       DEF Restart, TypeOK, DurableTypeOK, durable, queue, staging, index
<1>3. ASSUME NEW s \in Sequence, Expire(s)
      PROVE  TypeOK'
  <2>1. state' \in [Sequence -> StateRecord]
    BY <1>3 DEF Expire, Expired, TypeOK, DurableTypeOK, StateRecord
  <2>2. faults' \in 0..MaxFaults
    BY <1>3, BoundAssumption DEF Expire, TypeOK
  <2>3. QED
    BY <1>3, <2>1, <2>2
       DEF Expire, TypeOK, DurableTypeOK, MemoryTypeOK, queue, staging, index, memory,
           locals
<1>4. ASSUME NEW w \in Worker, RecoverClaim(w)
      PROVE  TypeOK'
  <2>1. state' \in [Sequence -> StateRecord]
    BY <1>4, SmallestMember
       DEF RecoverClaim, Freed, TypeOK, DurableTypeOK, MemoryTypeOK, StateRecord
  <2>2. todo' \in [Worker -> SUBSET Sequence]
    BY <1>4 DEF RecoverClaim, TypeOK, MemoryTypeOK
  <2>3. QED
    BY <1>4, <2>1, <2>2
       DEF RecoverClaim, TypeOK, DurableTypeOK, MemoryTypeOK, queue, staging, index,
           locals, aside
<1>5. ASSUME NEW w \in Worker, Claim(w)
      PROVE  TypeOK'
  <2>1. cursor \in Sequence /\ ClaimGeneration = cursor
    BY <1>5, ClaimNumbering DEF Claim, Claimable, TypeOK, DurableTypeOK
  <2>2. PICK token \in FreshToken :
          /\ state' = [state EXCEPT ![cursor] =
                         [status |-> "processing", generation |-> ClaimGeneration,
                          token |-> token, live |-> TRUE]]
          /\ claim' = [claim EXCEPT ![w] =
                         [sequence |-> cursor, generation |-> ClaimGeneration, token |-> token]]
    BY <1>5 DEF Claim
  <2>3. state' \in [Sequence -> StateRecord] /\ claim' \in [Worker -> ClaimRecord]
    BY <2>1, <2>2, ConstantTypes
       DEF FreshToken, TypeOK, DurableTypeOK, MemoryTypeOK, StateRecord, ClaimRecord
  <2>4. generationCounter' \in 0..MaxSequence
    BY <1>5, <2>1, ConstantTypes DEF Claim, TypeOK, DurableTypeOK
  <2>5. QED
    BY <1>5, <2>3, <2>4
       DEF Claim, TypeOK, DurableTypeOK, MemoryTypeOK, staging, index, Goto, Steps,
           Working, aside
<1>6. ASSUME NEW w \in Worker, Publish(w)
      PROVE  TypeOK'
  <2>1. claim[w].sequence \in Sequence /\ claim[w].generation \in Generation
    BY DEF TypeOK, MemoryTypeOK, ClaimRecord
  <2>2. state' \in [Sequence -> StateRecord]
    BY <1>6, <2>1 DEF Publish, Processed, TypeOK, DurableTypeOK, StateRecord
  <2>3. visible' \in [Sequence -> VisibleRecord]
    BY <1>6, <2>1, ConstantTypes
       DEF Publish, Publishable, TypeOK, DurableTypeOK, VisibleRecord
  <2>4. publication' \in [Generation -> 0..MaxSequence] /\ cursor' \in 1..(MaxSequence + 1)
    BY <1>6, <2>1, BoundAssumption DEF Publish, TypeOK, DurableTypeOK, Sequence
  <2>5. QED
    BY <1>6, <2>2, <2>3, <2>4
       DEF Publish, TypeOK, DurableTypeOK, MemoryTypeOK, staging, locals, Goto, Steps,
           Cleaning, aside
<1>7. ASSUME NEW w \in Worker, CleanupFinal(w)
      PROVE  TypeOK'
  <2>1. claim[w].generation \in Generation
    BY DEF TypeOK, MemoryTypeOK, ClaimRecord
  <2>2. /\ state' \in [Sequence -> StateRecord]
        /\ publication' \in [Generation -> 0..MaxSequence]
        /\ entries' \subseteq Sequence
    BY <1>7, ConstantTypes, BoundAssumption DEF CleanupFinal, TypeOK, DurableTypeOK
  <2>3. /\ stage' \in [Generation -> Plan \cup {NoPlan, Legacy}]
        /\ ready' \in [Generation -> ReadyRecord]
    BY <1>7, <2>1, ConstantTypes DEF CleanupFinal, TypeOK, DurableTypeOK
  <2>4. DurableTypeOK'
    BY <1>7, <2>2, <2>3 DEF CleanupFinal, TypeOK, DurableTypeOK
  <2>5. MemoryTypeOK'
    BY <1>7, ForgetType, ConstantTypes, OpenFrame
       DEF CleanupFinal, Begins, BeginClear, BeginRemove, BeginPut, BeginApply, BeginReady, At, CleanupReturns, TypeOK, MemoryTypeOK, Goto, Steps, Recovering
  <2>6. QED
    BY <1>7, <2>4, <2>5 DEF CleanupFinal, TypeOK
<1>8. ASSUME NEW w \in Worker, Release(w)
      PROVE  TypeOK'
  <2>1. claim[w].sequence \in Sequence
    BY DEF TypeOK, MemoryTypeOK, ClaimRecord
  <2>2. state' \in [Sequence -> StateRecord]
    BY <1>8, <2>1 DEF Release, Freed, TypeOK, DurableTypeOK, StateRecord
  <2>3. MemoryTypeOK'
    BY <1>8, ForgetType DEF Release, TypeOK, MemoryTypeOK, Goto, Steps, aside
  <2>4. QED
    BY <1>8, <2>2, <2>3 DEF Release, TypeOK, DurableTypeOK, queue, staging, index, aside
<1>9. QED
  BY <1>1, <1>2, <1>3, <1>4, <1>5, <1>6, <1>7, <1>8

\* Every step keeps the types.
LEMMA TypeStep ==
    ASSUME TypeOK, QueueInv, StateInv, LocalInv, [Next]_vars
    PROVE  TypeOK'
<1>1. ASSUME NEW w \in Worker, QuietStep(w)
      PROVE  TypeOK'
  <2>1. Begins(w) => faults' \in 0..MaxFaults /\ torn' \subseteq Generation
    BY BeginFacts DEF TypeOK
  <2>2. Fail(w) \/ ReleaseFails(w) => faults' \in 0..MaxFaults /\ torn' \subseteq Generation
    BY BoundAssumption DEF Fail, ReleaseFails, TypeOK
  <2>3. Commits(w) => faults' \in 0..MaxFaults /\ torn' \subseteq Generation
    <3>1. Commits(w) => faults' = faults /\ torn' \in {torn, torn \cup {claim[w].generation}}
      BY DEF Commits, ClearOrphan, ClearReady, DropLegacy, PutTablet, PutHeader, ApplyTablet,
                  PutReady
    <3>2. QED
      BY <3>1 DEF TypeOK, MemoryTypeOK, ClaimRecord
  <2>4. ~(Begins(w) \/ Fail(w) \/ ReleaseFails(w) \/ Commits(w)) =>
          faults' \in 0..MaxFaults /\ torn' \subseteq Generation
    BY <1>1 DEF QuietStep, ScanClaims, ScanStages, RecoverStage,
       Initialized, DiscardLegacy, LoadStage, Prepare, CheckStage,
       OrphansCleared, StartApply, Unchanged,
       CleanupUnpublished, StartCleanup, ReadCleanupProgress, CleanupTablet,
       LoseClaim, Reject, Internal, aside, TypeOK
  <2>5. faults' \in 0..MaxFaults /\ torn' \subseteq Generation
    BY <2>1, <2>2, <2>3, <2>4
  <2>6. QED
    BY <1>1, <2>5, DurableTypeQuiet, MemoryTypeQuiet DEF TypeOK
<1>2. CASE UNCHANGED vars
  BY <1>2 DEF TypeOK, DurableTypeOK, MemoryTypeOK, vars, durable, queue, staging, index,
              memory, locals, aside
<1>3. QED
  BY <1>1, <1>2, StepCases, TypeLoud
-----------------------------------------------------------------------------
(***************************************************************************)
(* The queue, the claims and the generations.                              *)
(***************************************************************************)
Ordered == QueueInv /\ StateInv /\ GenerationInv

\* A step that leaves the queue and the claims alone keeps them ordered.
LEMMA OrderedFrame ==
    ASSUME Ordered, UNCHANGED claims
    PROVE  Ordered'
BY DEF Ordered, QueueInv, StateInv, GenerationInv, claims, queue

\* A new entry lies ahead of the cursor.
LEMMA OrderedAppend ==
    ASSUME TypeOK, Ordered, Append
    PROVE  Ordered'
<1>1. counter \in Nat /\ cursor \in Nat /\ generationCounter \in Nat
      /\ counter' = counter + 1 /\ entries' = entries \cup {counter + 1}
      /\ UNCHANGED <<cursor, generationCounter, state, publication, visible>>
  BY BoundAssumption DEF Append, TypeOK, DurableTypeOK, index
<1>2. QueueInv'
  BY <1>1, BoundAssumption DEF Ordered, QueueInv, Sequence, TypeOK, DurableTypeOK
<1>3. QED
  BY <1>1, <1>2 DEF Ordered, StateInv, GenerationInv

\* A state record that only loses its claim keeps its place.
LEMMA OrderedStateChange ==
    ASSUME TypeOK, Ordered, NEW s \in Sequence, state[s].status = "processing",
           UNCHANGED <<queue, publication, visible>>,
           \/ UNCHANGED state
           \/ state' = [state EXCEPT ![s] = Freed(s)]
           \/ state' = [state EXCEPT ![s] = Expired(s)]
    PROVE  Ordered'
<1>1. s \in Nat /\ cursor \in Nat
  BY BoundAssumption DEF TypeOK, DurableTypeOK, Sequence
<1>2. s = cursor
  BY <1>1 DEF Ordered, StateInv, Unclaimed
<1>3. StateInv'
  <2>1. /\ \A r \in Sequence : r # s => state'[r] = state[r]
        /\ state'[s].generation = state[s].generation
        /\ state'[s].status \in {"pending", "processing"}
    BY DEF Freed, Expired, TypeOK, DurableTypeOK
  <2>2. cursor' = cursor /\ generationCounter' = generationCounter
    BY DEF queue
  <2>3. /\ state[s].generation \in {0, s}
        /\ state[s].generation = 0 <=> generationCounter = cursor - 1
        /\ state[s].generation = s
    BY <1>2 DEF Ordered, StateInv
  <2>4. ASSUME NEW r \in Sequence
        PROVE  /\ r < cursor' => state'[r] = Unclaimed \/ state'[r].status = "processed"
               /\ r > cursor' => state'[r] = Unclaimed
               /\ r = cursor' =>
                    /\ state'[r].status # "processed"
                    /\ state'[r].generation \in {0, r}
                    /\ state'[r].generation = 0 <=> generationCounter' = cursor' - 1
                    /\ state'[r].status = "processing" => state'[r].generation = r
    <3>1. CASE r = s
      BY <3>1, <1>1, <1>2, <2>1, <2>2, <2>3
    <3>2. CASE r # s
      BY <3>2, <1>2, <2>1, <2>2 DEF Ordered, StateInv
    <3>3. QED
      BY <3>1, <3>2
  <2>5. QED
    BY <2>4 DEF StateInv
<1>4. QED
  BY <1>3 DEF Ordered, QueueInv, GenerationInv, queue

\* A claim marks the entry at the cursor.
LEMMA OrderedClaim ==
    ASSUME TypeOK, Ordered, NEW w \in Worker, Claim(w)
    PROVE  Ordered'
<1>1. cursor \in Sequence /\ cursor \in Nat /\ generationCounter \in Nat /\ counter \in Nat
  BY BoundAssumption DEF Claim, Claimable, TypeOK, DurableTypeOK, Sequence
<1>2. ClaimGeneration = cursor
  BY <1>1, ClaimNumbering DEF Ordered
<1>3. /\ UNCHANGED <<counter, entries, cursor, publication, visible>>
      /\ generationCounter' = cursor
  BY <1>1, <1>2 DEF Claim, index, Ordered, QueueInv
<1>4. /\ \A r \in Sequence : r # cursor => state'[r] = state[r]
      /\ state'[cursor].generation = cursor
      /\ state'[cursor].status = "processing"
  BY <1>1, <1>2 DEF Claim, TypeOK, DurableTypeOK
<1>5. QueueInv' /\ GenerationInv'
  <2>1. cursor <= counter
    BY DEF Claim, Claimable, Ordered, QueueInv
  <2>2. QueueInv'
    BY <1>1, <1>3, <2>1 DEF Ordered, QueueInv
  <2>3. GenerationInv'
    BY <1>3 DEF Ordered, GenerationInv
  <2>4. QED
    BY <2>2, <2>3
<1>6. ASSUME NEW r \in Sequence
      PROVE  /\ r < cursor' => state'[r] = Unclaimed \/ state'[r].status = "processed"
             /\ r > cursor' => state'[r] = Unclaimed
             /\ r = cursor' =>
                  /\ state'[r].status # "processed"
                  /\ state'[r].generation \in {0, r}
                  /\ state'[r].generation = 0 <=> generationCounter' = cursor' - 1
                  /\ state'[r].status = "processing" => state'[r].generation = r
  <2>1. CASE r = cursor
    BY <2>1, <1>1, <1>3, <1>4 DEF Sequence
  <2>2. CASE r # cursor
    BY <2>2, <1>1, <1>3, <1>4 DEF Ordered, StateInv
  <2>3. QED
    BY <2>1, <2>2
<1>7. QED
  BY <1>5, <1>6 DEF Ordered, StateInv

\* A publication moves the cursor past the entry its worker owns.
LEMMA OrderedPublish ==
    ASSUME TypeOK, Ordered, NEW w \in Worker, Publish(w)
    PROVE  /\ Ordered'
           /\ cursor' = cursor + 1
           /\ visible[cursor] = Invisible
           /\ \A s \in Sequence : s # cursor => visible'[s] = visible[s]
<1>1. /\ claim[w].sequence = cursor /\ claim[w].generation = cursor
      /\ cursor \in Sequence /\ generationCounter = cursor
  BY OwnerAtCursor DEF Publish, Ordered
<1>2. cursor \in Nat /\ counter \in Nat /\ Generation = Sequence
  BY BoundAssumption DEF TypeOK, DurableTypeOK, Sequence, Generation
<1>3. state[cursor].status = "processing" /\ state[cursor].generation = cursor
  BY <1>1 DEF Publish, Owns
<1>4. cursor <= counter
  BY <1>1 DEF Ordered, QueueInv
<1>5. visible[cursor] = Invisible
  BY <1>1, <1>2 DEF Ordered, GenerationInv
<1>6. /\ UNCHANGED <<counter, entries, generationCounter>>
      /\ cursor' = cursor + 1
      /\ \A s \in Sequence : s # cursor => state'[s] = state[s] /\ visible'[s] = visible[s]
      /\ state'[cursor].status = "processed"
      /\ visible'[cursor].generation = cursor
      /\ publication'[cursor] = cursor
      /\ \A g \in Generation : g # cursor => publication'[g] = publication[g]
  BY <1>1, <1>2 DEF Publish, Processed, TypeOK, DurableTypeOK
<1>7. QueueInv'
  <2>1. \A s \in Sequence : s \in Nat
    BY BoundAssumption DEF Sequence
  <2>2. \A s \in Sequence : cursor' <= s /\ s <= counter' => s \in entries'
    BY <1>2, <1>6, <2>1 DEF Ordered, QueueInv
  <2>3. QED
    BY <1>1, <1>2, <1>4, <1>6, <2>2 DEF Ordered, QueueInv
<1>8. GenerationInv'
  <2>1. \A g \in Generation : publication'[g] # 0 => publication'[g] = g /\ g < cursor'
    BY <1>2, <1>6 DEF Ordered, GenerationInv, Sequence
  <2>2. \A s \in Sequence : IF s < cursor' THEN visible'[s].generation = s
                                           ELSE visible'[s] = Invisible
    BY <1>2, <1>6 DEF Ordered, GenerationInv, Sequence
  <2>3. QED
    BY <2>1, <2>2 DEF GenerationInv
<1>9. ASSUME NEW r \in Sequence
      PROVE  /\ r < cursor' => state'[r] = Unclaimed \/ state'[r].status = "processed"
             /\ r > cursor' => state'[r] = Unclaimed
             /\ r = cursor' => state'[r] = Unclaimed
  BY <1>2, <1>6 DEF Ordered, StateInv, Sequence
<1>10. StateInv'
  <2>1. generationCounter' = cursor' - 1
    BY <1>1, <1>2, <1>6
  <2>2. Unclaimed.status = "pending" /\ Unclaimed.generation = 0
    BY DEF Unclaimed
  <2>3. QED
    BY <1>9, <2>1, <2>2 DEF StateInv
<1>11. QED
  BY <1>5, <1>6, <1>7, <1>8, <1>10 DEF Ordered

\* Pruning stays behind the cursor.
LEMMA OrderedPrune ==
    ASSUME TypeOK, Ordered, LocalInv, NEW w \in Worker, CleanupFinal(w)
    PROVE  Ordered'
<1> DEFINE pruned == claim[w].sequence - RetainPublications
<1>1. cursor \in Nat /\ claim[w].sequence \in Nat /\ counter \in Nat /\ claim[w].sequence < cursor
  BY BoundAssumption
     DEF CleanupFinal, At, LocalInv, LocalFacts, Cleaning, TypeOK, DurableTypeOK,
         MemoryTypeOK,
         ClaimRecord, Sequence
<1>2. pruned \in Int /\ pruned < cursor
  BY <1>1, BoundAssumption
<1>3. /\ UNCHANGED <<counter, cursor, generationCounter, visible>>
      /\ entries' = entries \ {pruned}
      /\ state' = [s \in Sequence |-> IF s = pruned THEN Unclaimed ELSE state[s]]
      /\ \A g \in Generation : publication'[g] \in {0, publication[g]}
  BY DEF CleanupFinal, PrunedSequence
<1> HIDE DEF pruned
<1>4. QueueInv'
  <2>1. \A s \in Sequence : cursor <= s => s # pruned
    BY <1>1, <1>2, BoundAssumption DEF Sequence
  <2>2. QED
    BY <1>3, <2>1 DEF Ordered, QueueInv
<1>5. StateInv'
  BY <1>1, <1>2, <1>3 DEF Ordered, StateInv, Sequence
<1>6. GenerationInv'
  BY <1>3 DEF Ordered, GenerationInv
<1>7. QED
  BY <1>4, <1>5, <1>6 DEF Ordered

\* Every step keeps the queue, the claims and the generations ordered.
LEMMA OrderedStep ==
    ASSUME TypeOK, Ordered, LocalInv, [Next]_vars
    PROVE  Ordered'
<1>1. ASSUME NEW w \in Worker, QuietStep(w) \/ RecoverClaim(w) \/ Claim(w) \/ Publish(w)
                                 \/ CleanupFinal(w) \/ Release(w)
      PROVE  Ordered'
  <2>1. CASE QuietStep(w)
    BY <2>1, QuietFrame, OrderedFrame
  <2>2. CASE RecoverClaim(w)
    <3>1. Smallest(todo[w]) \in Sequence
      BY <2>2, SmallestMember DEF RecoverClaim, TypeOK, MemoryTypeOK
    <3>2. UNCHANGED <<queue, publication, visible>>
      BY <2>2 DEF RecoverClaim, index
    <3>3. \/ UNCHANGED state
          \/ /\ state[Smallest(todo[w])].status = "processing"
             /\ state' = [state EXCEPT ![Smallest(todo[w])] = Freed(Smallest(todo[w]))]
      BY <2>2 DEF RecoverClaim
    <3>4. QED
      BY <3>1, <3>2, <3>3, OrderedStateChange, OrderedFrame DEF claims
  <2>3. CASE Claim(w)
    BY <2>3, OrderedClaim
  <2>4. CASE Publish(w)
    BY <2>4, OrderedPublish
  <2>5. CASE CleanupFinal(w)
    BY <2>5, OrderedPrune
  <2>6. CASE Release(w)
    <3>1. UNCHANGED <<queue, publication, visible>>
      BY <2>6 DEF Release, index
    <3>2. CASE Owns(w)
      BY <2>6, <3>1, <3>2, OrderedStateChange
         DEF Release, Owns, TypeOK, MemoryTypeOK, ClaimRecord
    <3>3. CASE ~Owns(w)
      BY <2>6, <3>1, <3>3, OrderedFrame DEF Release, claims
    <3>4. QED
      BY <3>2, <3>3
  <2>7. QED
    BY <1>1, <2>1, <2>2, <2>3, <2>4, <2>5, <2>6
<1>2. ASSUME NEW s \in Sequence, Expire(s)
      PROVE  Ordered'
  BY <1>2, OrderedStateChange DEF Expire, index
<1>3. CASE Restart \/ UNCHANGED vars
  BY <1>3, OrderedFrame DEF Restart, vars, durable, index, claims
<1>4. QED
  BY <1>1, <1>2, <1>3, StepCases, OrderedAppend
-----------------------------------------------------------------------------
(***************************************************************************)
(* The workers.                                                            *)
(***************************************************************************)
\* What a worker that stops working forgets.
LEMMA Forgotten ==
    ASSUME TypeOK, NEW w \in Worker, Forget(w)
    PROVE  /\ plan'[w] = NoPlan /\ claim'[w] = NoClaim
           /\ \A v \in Worker : v # w => /\ plan'[v] = plan[v] /\ claim'[v] = claim[v]
                                         /\ ordinal'[v] = ordinal[v]
BY DEF Forget, TypeOK, MemoryTypeOK
\* The steps of a worker.
StepOf(w) ==
    \/ QuietStep(w)
    \/ RecoverClaim(w) \/ Claim(w) \/ Publish(w) \/ CleanupFinal(w) \/ Release(w)

\* A worker touches the memory of no other worker.
LEMMA OthersUntouched ==
    ASSUME TypeOK, LocalInv, NEW w \in Worker, StepOf(w), NEW v \in Worker, v # w
    PROVE  /\ pc'[v] = pc[v] /\ plan'[v] = plan[v] /\ ordinal'[v] = ordinal[v]
           /\ claim'[v] = claim[v] /\ open'[v] \in {NoKey, open[v]}
<1>a. open'[v] \in {NoKey, open[v]}
  BY BeginFacts, OpenFrame DEF StepOf
<1>1. CASE ScanClaims(w)
  BY <1>1, <1>a DEF TypeOK, MemoryTypeOK, ScanClaims, Goto, locals
<1>2. CASE ScanStages(w)
  BY <1>2, <1>a DEF TypeOK, MemoryTypeOK, ScanStages, Goto, locals
<1>3. CASE RecoverStage(w)
  BY <1>3, <1>a DEF TypeOK, MemoryTypeOK, RecoverStage, Goto, locals
<1>4. CASE Initialized(w)
  BY <1>4, <1>a DEF TypeOK, MemoryTypeOK, Initialized, Goto, locals, Forget
<1>5. CASE DiscardLegacy(w)
  BY <1>5, <1>a DEF TypeOK, MemoryTypeOK, DiscardLegacy, Goto, locals, Internal
<1>6. CASE LoadStage(w)
  BY <1>6, <1>a DEF TypeOK, MemoryTypeOK, LoadStage, Goto, locals, Internal
<1>7. CASE Prepare(w)
  BY <1>7, <1>a DEF TypeOK, MemoryTypeOK, Prepare, Goto, locals, Internal
<1>8. CASE CheckStage(w)
  BY <1>8, <1>a DEF TypeOK, MemoryTypeOK, CheckStage, Goto, locals, Internal
<1>9. CASE ClearOrphan(w)
  BY <1>9, <1>a DEF TypeOK, MemoryTypeOK, ClearOrphan, Goto, locals, memory
<1>10. CASE OrphansCleared(w)
  BY <1>10, <1>a DEF TypeOK, MemoryTypeOK, OrphansCleared, Goto, locals, Internal
<1>11. CASE ClearReady(w)
  BY <1>11, <1>a DEF TypeOK, MemoryTypeOK, ClearReady, Goto, locals
<1>12. CASE DropLegacy(w)
  BY <1>12, <1>a DEF TypeOK, MemoryTypeOK, DropLegacy, Goto, locals
<1>13. CASE PutTablet(w)
  BY <1>13, <1>a DEF TypeOK, MemoryTypeOK, PutTablet, Goto, locals, NextTablet
<1>14. CASE PutHeader(w)
  BY <1>14, <1>a DEF TypeOK, MemoryTypeOK, PutHeader, Goto, locals
<1>15. CASE StartApply(w)
  BY <1>15, <1>a DEF TypeOK, MemoryTypeOK, StartApply, Goto, locals, Internal
<1>16. CASE ApplyTablet(w)
  BY <1>16, <1>a DEF TypeOK, MemoryTypeOK, ApplyTablet, Goto, locals, NextTablet
<1>17. CASE PutReady(w)
  BY <1>17, <1>a DEF TypeOK, MemoryTypeOK, PutReady, Goto, locals
<1>18. CASE CleanupUnpublished(w)
  BY <1>18, <1>a
     DEF TypeOK, MemoryTypeOK, CleanupUnpublished, Goto, locals, CleanupReturns,
         Forget
<1>19. CASE StartCleanup(w)
  BY <1>19, <1>a DEF TypeOK, MemoryTypeOK, StartCleanup, Goto, locals, Internal
<1>20. CASE ReadCleanupProgress(w)
  BY <1>20, <1>a DEF TypeOK, MemoryTypeOK, ReadCleanupProgress, Goto, locals, Internal
<1>21. CASE CleanupTablet(w)
  BY <1>21, <1>a DEF TypeOK, MemoryTypeOK, CleanupTablet, Goto, locals, NextTablet
<1>22. CASE LoseClaim(w)
  BY <1>22, <1>a DEF TypeOK, MemoryTypeOK, LoseClaim, Goto, locals, Abort, Forget
<1>23. CASE Reject(w)
  BY <1>23, <1>a DEF TypeOK, MemoryTypeOK, Reject, Goto, locals, Abort, Forget
<1>24. CASE Fail(w)
  BY <1>24, <1>a DEF TypeOK, MemoryTypeOK, Fail, Goto, locals, Abort, Forget
<1>25. CASE ReleaseFails(w)
  BY <1>25, <1>a DEF TypeOK, MemoryTypeOK, ReleaseFails, Goto, locals, Forget
<1>26. CASE RecoverClaim(w)
  BY <1>26, <1>a DEF TypeOK, MemoryTypeOK, RecoverClaim, Goto, locals
<1>27. CASE Claim(w)
  BY <1>27, <1>a DEF TypeOK, MemoryTypeOK, Claim, Goto, locals
<1>28. CASE Publish(w)
  BY <1>28, <1>a DEF TypeOK, MemoryTypeOK, Publish, Goto, locals
<1>29. CASE CleanupFinal(w)
  BY <1>29, <1>a DEF TypeOK, MemoryTypeOK, CleanupFinal, Goto, locals, CleanupReturns, Forget
<1>30. CASE Release(w)
  BY <1>30, <1>a DEF TypeOK, MemoryTypeOK, Release, Goto, locals, Forget
<1>31. CASE Begins(w)
  BY <1>31, <1>a, BeginFacts DEF memory, locals
<1>32. CASE Unchanged(w)
  BY <1>32, <1>a DEF TypeOK, MemoryTypeOK, Unchanged, Goto, Internal, NextTablet
<1>33. QED
  BY <1>1, <1>2, <1>3, <1>4, <1>5, <1>6, <1>7, <1>8, <1>9, <1>10, <1>11, <1>12, <1>13,
     <1>14, <1>15, <1>16, <1>17, <1>18, <1>19, <1>20, <1>21, <1>22, <1>23, <1>24, <1>25,
     <1>26, <1>27, <1>28, <1>29, <1>30, <1>31, <1>32
     DEF StepOf, QuietStep, Commits

\* A failed worker keeps its plan until it releases its claim.
LEMMA AbortFacts ==
    ASSUME TypeOK, NEW w \in Worker, Abort(w), cursor' = cursor
    PROVE  LocalFacts(w)'
<1>1. pc'[w] \in {"release", "start"}
  BY DEF Abort, Goto, TypeOK, MemoryTypeOK
<1>2. QED
  BY <1>1 DEF LocalFacts, Working, Cleaning, Fenced

\* A worker that returns from processNext knows nothing.
LEMMA ReturnFacts ==
    ASSUME TypeOK, NEW w \in Worker, Forget(w), Goto(w, "idle")
    PROVE  LocalFacts(w)'
<1>1. pc'[w] = "idle" /\ plan'[w] = NoPlan
  BY Forgotten DEF Goto, TypeOK, MemoryTypeOK
<1>2. QED
  BY <1>1 DEF LocalFacts, Working, Cleaning, Fenced

\* The end of a cleanup, in processNext or in recoverOutbox.
LEMMA CleanupReturnFacts ==
    ASSUME TypeOK, NEW w \in Worker, CleanupReturns(w)
    PROVE  LocalFacts(w)'
<1>1. CASE initialized[w]
  BY <1>1, ReturnFacts DEF CleanupReturns
<1>2. CASE ~initialized[w]
  <2>1. pc'[w] = "recover-stages"
    BY <1>2 DEF CleanupReturns, Goto, TypeOK, MemoryTypeOK
  <2>2. QED
    BY <2>1 DEF LocalFacts, Working, Cleaning, Fenced
<1>3. QED
  BY <1>1, <1>2

\* Where the plan of a worker comes from, and what it knows after each of its steps.
LEMMA ActorFacts ==
    ASSUME TypeOK, Ordered, LocalInv, NEW w \in Worker, StepOf(w)
    PROVE  LocalFacts(w)'
<1>a. claim[w].generation \in Generation /\ claim[w].sequence \in Sequence
  BY DEF TypeOK, MemoryTypeOK, ClaimRecord
<1>b. LocalFacts(w)
  BY DEF LocalInv
<1>1. CASE ScanClaims(w)
  BY <1>1, <1>a, <1>b
     DEF ScanClaims, durable, queue, locals, TypeOK, MemoryTypeOK, LocalFacts, At,
         Goto, Working, Cleaning, Fenced
<1>2. CASE ScanStages(w)
  BY <1>2, <1>a, <1>b
     DEF ScanStages, durable, queue, locals, TypeOK, MemoryTypeOK, LocalFacts, At,
         Goto, Working, Cleaning, Fenced
<1>3. CASE RecoverStage(w)
  <2> DEFINE s == Smallest(todo[w])
  <2>1. s \in Sequence /\ s \in Generation
    BY <1>3, SmallestMember, ConstantTypes DEF RecoverStage, TypeOK, MemoryTypeOK
  <2>2. HasPublication(s) => publication[s] < cursor
    BY <2>1 DEF Ordered, GenerationInv, HasPublication
  <2>3. QED
    BY <1>3, <2>2
       DEF RecoverStage, durable, queue, TypeOK, MemoryTypeOK, LocalFacts, At, Goto,
           Working, Cleaning, Fenced
<1>4. CASE Initialized(w)
  BY <1>4, ReturnFacts DEF Initialized
<1>5. CASE DiscardLegacy(w)
  BY <1>5, <1>a, <1>b
     DEF DiscardLegacy, Internal, durable, queue, locals, TypeOK, MemoryTypeOK,
         LocalFacts, At, Goto, Working, Cleaning, Fenced
<1>6. CASE LoadStage(w)
  BY <1>6, <1>a, <1>b
     DEF LoadStage, Internal, durable, queue, locals, DurableTypeOK, TypeOK,
         MemoryTypeOK, LocalFacts, At, Goto, Working, Cleaning, Fenced
<1>7. CASE Prepare(w)
  BY <1>7, <1>a, <1>b
     DEF Prepare, Internal, durable, queue, locals, TypeOK, MemoryTypeOK, LocalFacts,
         At, Goto, Working, Cleaning, Fenced
<1>8. CASE CheckStage(w)
  BY <1>8, <1>a, <1>b
     DEF CheckStage, Internal, durable, queue, locals, Tabletted, TypeOK,
         MemoryTypeOK, LocalFacts, At, Goto, Working, Cleaning, Fenced
<1>9. CASE ClearOrphan(w)
  BY <1>9, <1>a, <1>b
     DEF ClearOrphan, memory, durable, queue, locals, TypeOK, MemoryTypeOK,
         LocalFacts, At, Goto, Working, Cleaning, Fenced
<1>10. CASE OrphansCleared(w)
  BY <1>10, <1>a, <1>b
     DEF OrphansCleared, Internal, durable, queue, locals, TypeOK, MemoryTypeOK,
         LocalFacts, At, Goto, Working, Cleaning, Fenced
<1>11. CASE ClearReady(w)
  <2>1. plan[w] = NoPlan \/ (plan[w] \in Plan /\ 0 \in TabletsOf(plan[w]))
    BY <1>11, <1>b, PlanAssumption DEF ClearReady, At, LocalFacts, Tabletted, TabletsOf
  <2>2. QED
    BY <1>11, <1>b, <2>1
       DEF ClearReady, queue, TypeOK, MemoryTypeOK, LocalFacts, At, Goto, Working,
           Cleaning, Fenced
<1>12. CASE DropLegacy(w)
  BY <1>12, <1>a, <1>b
     DEF DropLegacy, durable, queue, locals, TypeOK, MemoryTypeOK, LocalFacts, At,
         Goto, Working, Cleaning, Fenced
<1>13. CASE PutTablet(w)
  BY <1>13, <1>a, <1>b, TabletTypes
     DEF PutTablet, NextTablet, durable, queue, locals, TypeOK, MemoryTypeOK,
         LocalFacts, At, Goto, Working, Cleaning, Fenced
<1>14. CASE PutHeader(w)
  BY <1>14, <1>a, <1>b
     DEF PutHeader, durable, queue, locals, TypeOK, MemoryTypeOK, LocalFacts, At,
         Goto, Working, Cleaning, Fenced
<1>15. CASE StartApply(w)
  <2>1. stage[claim[w].generation] \in Plan
    BY <1>15 DEF StartApply
  <2>2. Tabletted(stage[claim[w].generation]) => 0 \in TabletsOf(stage[claim[w].generation])
    BY <2>1, PlanAssumption DEF Tabletted, TabletsOf
  <2>3. QED
    BY <1>15, <1>b, <2>1, <2>2
       DEF StartApply, Internal, durable, queue, TypeOK, MemoryTypeOK, LocalFacts, At,
           Goto, Working, Cleaning, Fenced
<1>16. CASE ApplyTablet(w)
  BY <1>16, <1>a, <1>b, TabletTypes
     DEF ApplyTablet, NextTablet, durable, queue, locals, TypeOK, MemoryTypeOK,
         LocalFacts, At, Goto, Working, Cleaning, Fenced
<1>17. CASE PutReady(w)
  BY <1>17, <1>a, <1>b
     DEF PutReady, durable, queue, locals, TypeOK, MemoryTypeOK, LocalFacts, At, Goto,
         Working, Cleaning, Fenced
<1>18. CASE CleanupUnpublished(w)
  BY <1>18, CleanupReturnFacts DEF CleanupUnpublished
<1>19. CASE StartCleanup(w)
  BY <1>19, <1>a, <1>b
     DEF StartCleanup, Internal, durable, queue, locals, DurableTypeOK, TypeOK,
         MemoryTypeOK, LocalFacts, At, Goto, Working, Cleaning, Fenced
<1>20. CASE ReadCleanupProgress(w)
  BY <1>20, <1>a, <1>b
     DEF ReadCleanupProgress, Internal, durable, queue, locals, TypeOK, MemoryTypeOK,
         LocalFacts, At, Goto, Working, Cleaning, Fenced
<1>21. CASE CleanupTablet(w)
  BY <1>21, <1>a, <1>b, TabletTypes
     DEF CleanupTablet, NextTablet, durable, queue, locals, TypeOK, MemoryTypeOK,
         LocalFacts, At, Goto, Working, Cleaning, Fenced
<1>22. CASE LoseClaim(w)
  BY <1>22, AbortFacts DEF LoseClaim, durable, queue
<1>23. CASE Reject(w)
  BY <1>23, AbortFacts DEF Reject, durable, queue
<1>24. CASE Fail(w)
  BY <1>24, AbortFacts DEF Fail, durable, queue
<1>25. CASE ReleaseFails(w)
  BY <1>25, ReturnFacts DEF ReleaseFails
<1>26. CASE RecoverClaim(w)
  BY <1>26, <1>a, <1>b
     DEF RecoverClaim, durable, queue, locals, Goto, TypeOK, MemoryTypeOK, LocalFacts,
         At, Goto, Working, Cleaning, Fenced
<1>27. CASE Claim(w)
  <2>1. claim'[w].generation = claim'[w].sequence
    BY <1>27, ClaimNumbering
       DEF Claim, Claimable, Ordered, TypeOK, DurableTypeOK, MemoryTypeOK
  <2>2. QED
    BY <1>27, <1>b, <2>1
       DEF Claim, TypeOK, MemoryTypeOK, LocalFacts, At, Goto, Working, Cleaning,
           Fenced
<1>28. CASE Publish(w)
  <2>1. claim[w].sequence = cursor /\ cursor' = cursor + 1 /\ cursor \in Nat
    BY <1>28, OwnerAtCursor, OrderedPublish, BoundAssumption
       DEF Publish, Ordered, TypeOK, DurableTypeOK
  <2>2. QED
    BY <1>28, <1>b, <2>1
       DEF Publish, locals, TypeOK, MemoryTypeOK, LocalFacts, At, Goto, Working,
           Cleaning, Fenced
<1>29. CASE CleanupFinal(w)
  BY <1>29, CleanupReturnFacts DEF CleanupFinal
<1>30. CASE Release(w)
  BY <1>30, ReturnFacts DEF Release
<1>31. CASE Begins(w)
  BY <1>31, <1>b, BeginFacts DEF durable, queue, memory, locals, LocalFacts
<1>32. CASE Unchanged(w)
  <2>1. UNCHANGED <<claim, plan, cursor>>
    BY <1>32 DEF Unchanged, Internal, durable, queue
  <2>2. CASE pc[w] \in {"put-tablet", "apply-tablet"}
    <3>1. /\ plan[w] \in Plan /\ ordinal'[w] = ordinal[w] + 1
          /\ pc'[w] = IF ordinal[w] + 1 \in TabletsOf(plan[w]) THEN pc[w]
                      ELSE IF pc[w] = "put-tablet" THEN "put-header" ELSE "put-ready"
      BY <1>32, <1>b, <2>2
         DEF Unchanged, NextTablet, At, Goto, LocalFacts, TypeOK, MemoryTypeOK
    <3>2. QED
      BY <1>b, <2>1, <2>2, <3>1 DEF LocalFacts, Working, Cleaning, Fenced
  <2>3. CASE pc[w] \in {"put-header", "put-ready"}
    <3>1. pc'[w] = IF pc[w] = "put-header" THEN "apply" ELSE "publish"
      BY <1>32, <2>3 DEF Unchanged, At, Goto, TypeOK, MemoryTypeOK
    <3>2. QED
      BY <1>b, <2>1, <2>3, <3>1 DEF LocalFacts, Working, Cleaning, Fenced
  <2>4. QED
    BY <1>32, <2>2, <2>3 DEF Unchanged, At
<1>33. QED
  BY <1>1, <1>2, <1>3, <1>4, <1>5, <1>6, <1>7, <1>8, <1>9, <1>10, <1>11, <1>12, <1>13,
     <1>14, <1>15, <1>16, <1>17, <1>18, <1>19, <1>20, <1>21, <1>22, <1>23, <1>24, <1>25,
     <1>26, <1>27, <1>28, <1>29, <1>30, <1>31, <1>32
     DEF StepOf, QuietStep, Commits

\* The cursor never moves back.
LEMMA CursorForward ==
    ASSUME TypeOK, Ordered, [Next]_vars
    PROVE  cursor' \in {cursor, cursor + 1}
<1>1. ASSUME NEW w \in Worker, StepOf(w)
      PROVE  cursor' \in {cursor, cursor + 1}
  BY <1>1, QuietFrame, OrderedPublish
     DEF StepOf, RecoverClaim, Claim, CleanupFinal, Release, claims, queue
<1>2. ASSUME NEW s \in Sequence, Expire(s)
      PROVE  cursor' = cursor
  BY <1>2 DEF Expire, queue
<1>3. CASE Append \/ Restart \/ UNCHANGED vars
  BY <1>3 DEF Append, Restart, vars, durable, queue
<1>4. QED
  BY <1>1, <1>2, <1>3, StepCases DEF StepOf

\* Every step keeps what the workers know.
LEMMA LocalStep ==
    ASSUME TypeOK, Ordered, LocalInv, [Next]_vars
    PROVE  LocalInv'
<1>1. cursor \in Nat /\ cursor <= cursor'
  BY CursorForward, BoundAssumption DEF TypeOK, DurableTypeOK
<1>2. ASSUME NEW v \in Worker, pc'[v] = pc[v], plan'[v] = plan[v], ordinal'[v] = ordinal[v],
             claim'[v] = claim[v]
      PROVE  LocalFacts(v)'
  <2>1. claim[v].sequence \in Nat /\ cursor' \in Nat
    BY CursorForward, BoundAssumption
       DEF TypeOK, DurableTypeOK, MemoryTypeOK, ClaimRecord, Sequence
  <2>2. QED
    BY <1>1, <1>2, <2>1 DEF LocalInv, LocalFacts
<1>b. ASSUME NEW v \in Worker, open'[v] \in {NoKey, open[v]},
             pc'[v] = pc[v], ordinal'[v] = ordinal[v]
      PROVE  OpenShape(v)'
  BY <1>b DEF LocalInv, OpenShape
<1>3. ASSUME NEW w \in Worker, StepOf(w)
      PROVE  LocalInv'
  <2>1. OpenShape(w)'
    <3>1. CASE Begins(w)
      BY <3>1, BeginFacts
    <3>2. CASE ~Begins(w)
      <4>1. open'[w] = NoKey
        BY <1>3, <3>2, OpenFrame DEF StepOf
      <4>2. QED
        BY <4>1 DEF OpenShape
    <3>3. QED
      BY <3>1, <3>2
  <2>2. ASSUME NEW v \in Worker, v # w PROVE OpenShape(v)'
    BY <1>b, <1>3, <2>2, OthersUntouched
  <2>3. QED
    BY <1>2, <1>3, <2>1, <2>2, ActorFacts, OthersUntouched DEF LocalInv
<1>4. ASSUME NEW s \in Sequence, Expire(s)
      PROVE  LocalInv'
  BY <1>2, <1>b, <1>4 DEF Expire, memory, locals, LocalInv
<1>5. CASE Append \/ UNCHANGED vars
  BY <1>2, <1>b, <1>5 DEF Append, vars, memory, locals, aside, LocalInv
<1>6. CASE Restart
  BY <1>6 DEF Restart, LocalInv, LocalFacts, OpenShape, Working, Cleaning, Fenced
<1>7. QED
  BY <1>3, <1>4, <1>5, <1>6, StepCases DEF StepOf

\* Only a claim gives a worker a token, and a fresh one.
LEMMA TokenStep ==
    ASSUME TypeOK, LocalInv, TokenInv, [Next]_vars
    PROVE  TokenInv'
<1>1. ASSUME NEW w \in Worker, StepOf(w), ~Claim(w)
      PROVE  claim'[w].token \in {claim[w].token, NoToken}
  <2>1. NoClaim.token = NoToken
    BY DEF NoClaim
  <2>2. CASE Forget(w)
    BY <2>1, <2>2, Forgotten
  <2>3. CASE CleanupReturns(w)
    BY <2>1, <2>3, Forgotten DEF CleanupReturns, TypeOK, MemoryTypeOK
  <2>4. CASE Abort(w)
    BY <2>1, <2>4, Forgotten DEF Abort, locals
  <2>5. CASE RecoverStage(w)
    BY <2>5 DEF RecoverStage, TypeOK, MemoryTypeOK
  <2>6. CASE Begins(w) \/ Unchanged(w) \/ Commits(w)
    BY <2>6, BeginFacts
       DEF Unchanged, Commits, ClearOrphan, ClearReady, DropLegacy, PutTablet, PutHeader,
           ApplyTablet, PutReady, memory, locals
  <2>7. QED
    BY <1>1, <2>2, <2>3, <2>4, <2>5, <2>6
       DEF StepOf, QuietStep, ScanClaims, ScanStages, Initialized, DiscardLegacy,
           LoadStage,
           Prepare, CheckStage, OrphansCleared, StartApply, CleanupUnpublished, StartCleanup,
           ReadCleanupProgress, CleanupTablet, LoseClaim, Reject, Fail, ReleaseFails,
           RecoverClaim, Publish, CleanupFinal, Release, Internal, memory, locals
<1>2. ASSUME NEW w \in Worker, StepOf(w), ~Claim(w)
      PROVE  TokenInv'
  BY <1>1, <1>2, OthersUntouched DEF TokenInv
<1>3. ASSUME NEW w \in Worker, Claim(w)
      PROVE  TokenInv'
  <2>1. PICK token \in FreshToken : claim'[w].token = token
    BY <1>3 DEF Claim, TypeOK, MemoryTypeOK
  <2>2. \A v \in Worker : v # w => claim'[v] = claim[v] /\ claim[v].token # token
    BY <1>3, OthersUntouched DEF StepOf, FreshToken
  <2>3. QED
    BY <2>1, <2>2 DEF TokenInv
<1>4. CASE Append \/ UNCHANGED vars \/ \E s \in Sequence : Expire(s)
  BY <1>4 DEF Append, vars, Expire, memory, locals, TokenInv
<1>5. CASE Restart
  BY <1>5 DEF Restart, TokenInv, NoClaim
<1>6. QED
  BY <1>2, <1>3, <1>4, <1>5, StepCases DEF StepOf
-----------------------------------------------------------------------------
(***************************************************************************)
(* The theorems.                                                           *)
(***************************************************************************)
\* The strengthening holds at first.
LEMMA IndInit == Init => IndInv
<1> SUFFICES ASSUME Init PROVE IndInv
  OBVIOUS
<1>1. QueueInv
  BY BoundAssumption DEF Init, InitFresh, InitUpgraded, QueueInv, Sequence
<1>2. StateInv
  <2>1. cursor = 1 /\ \A s \in Sequence : s \in Nat /\ s # 0
    BY BoundAssumption DEF Init, Sequence
  <2>2. CASE InitFresh
    BY <2>1, <2>2 DEF InitFresh, StateInv, Unclaimed
  <2>3. CASE InitUpgraded
    <3>1. /\ state[1].status = "processing" /\ state[1].generation = 1
          /\ \A s \in Sequence : s # 1 => state[s] = Unclaimed
      BY <2>3, BoundAssumption DEF InitUpgraded, Sequence
    <3>2. generationCounter = 1 /\ \A s \in Sequence : ~ (s < cursor)
      BY <2>1, <2>3 DEF InitUpgraded
    <3>3. QED
      BY <2>1, <3>1, <3>2 DEF StateInv
  <2>4. QED
    BY <2>2, <2>3 DEF Init
<1>3. GenerationInv
  BY DEF Init, GenerationInv, Invisible, Sequence
<1>4. LocalInv
  BY DEF Init, LocalInv, LocalFacts, OpenShape, Working, Cleaning, Fenced
<1>5. TokenInv
  BY DEF Init, TokenInv, NoClaim
<1>6. QED
  BY <1>1, <1>2, <1>3, <1>4, <1>5, TypeInit DEF IndInv

\* And every step keeps it.
LEMMA IndStep == IndInv /\ [Next]_vars => IndInv'
BY TypeStep, OrderedStep, LocalStep, TokenStep DEF IndInv, Ordered

\* In every state of every behaviour.
THEOREM Inductive == Spec => []IndInv
BY IndInit, IndStep, PTL DEF Spec

\* Every record the outbox stores, and every local of processNext, has its shape.
THEOREM TypeCorrect == Spec => []TypeOK
<1>1. IndInv => TypeOK
  BY DEF IndInv
<1>2. QED
  BY <1>1, Inductive, PTL

\* publishGeneration publishes the entries one by one in the order of their commits,
\* each under a later generation than the entries before it.
THEOREM OrderedPublishing == Spec => []PublishedInOrder
<1>1. IndInv => PublishedInOrder
  <2> SUFFICES ASSUME IndInv, NEW s \in Sequence
               PROVE  /\ (visible[s] # Invisible) <=> (s < cursor)
                      /\ \A r \in Sequence : r < s /\ s < cursor =>
                           visible[r].generation < visible[s].generation
    BY DEF PublishedInOrder
  <2>1. s \in Nat /\ s # 0 /\ cursor \in Nat /\ \A r \in Sequence : r \in Nat
    BY BoundAssumption DEF IndInv, TypeOK, DurableTypeOK, Sequence
  <2>2. \A r \in Sequence : r < cursor => visible[r].generation = r
    BY DEF IndInv, GenerationInv
  <2>3. (visible[s] # Invisible) <=> (s < cursor)
    BY <2>1 DEF IndInv, GenerationInv, Invisible
  <2>4. QED
    BY <2>1, <2>2, <2>3
<1>2. QED
  BY <1>1, Inductive, PTL

\* assertClaimOwner lets at most one worker through, and only for the entry at the
\* cursor, however often leases expire, workers restart and claims are recovered.
THEOREM OneOwner == Spec => []SingleOwner
<1>1. IndInv => SingleOwner
  <2>1. ASSUME IndInv, NEW v \in Worker, NEW w \in Worker, Owns(v), Owns(w)
        PROVE  v = w
    <3>1. claim[v].sequence = cursor /\ claim[w].sequence = cursor
      BY <2>1, OwnerAtCursor DEF IndInv
    <3>2. claim[v].token = claim[w].token /\ claim[v].token # NoToken
      BY <2>1, <3>1 DEF Owns
    <3>3. QED
      BY <2>1, <3>2 DEF IndInv, TokenInv
  <2>2. ASSUME IndInv, NEW w \in Worker, Owns(w)
        PROVE  claim[w].sequence = cursor
    BY <2>2, OwnerAtCursor DEF IndInv
  <2>3. QED
    BY <2>1, <2>2 DEF SingleOwner
<1>2. QED
  BY <1>1, Inductive, PTL

\* The two integrity errors claimNextOutbox may raise for the entry at the cursor
\* (a missing entry, a processed one) never occur.
THEOREM HeadAlwaysClaimable == Spec => []HeadClaimable
<1>1. IndInv => HeadClaimable
  <2> SUFFICES ASSUME IndInv, cursor <= counter
               PROVE  cursor \in entries /\ state[cursor].status # "processed"
    BY DEF HeadClaimable
  <2>1. cursor \in Sequence
    BY BoundAssumption DEF IndInv, TypeOK, DurableTypeOK, Sequence
  <2>2. QED
    BY <2>1 DEF IndInv, QueueInv, StateInv, TypeOK, DurableTypeOK
<1>2. QED
  BY <1>1, Inductive, PTL

\* isOutboxSequenceProcessed is right about every entry, pruned or not.
THEOREM ProcessedIsVisible == Spec => []ProcessedMeansVisible
<1>1. IndInv => ProcessedMeansVisible
  <2> SUFFICES ASSUME IndInv, NEW s \in Sequence
               PROVE  IsOutboxSequenceProcessed(s) <=> visible[s] # Invisible
    BY DEF ProcessedMeansVisible
  <2>1. s \in Nat /\ s # 0 /\ cursor \in Nat
    BY BoundAssumption DEF IndInv, TypeOK, DurableTypeOK, Sequence
  <2>2. state[s].status = "processed" => s < cursor
    BY <2>1 DEF IndInv, StateInv, Unclaimed
  <2>3. visible[s] # Invisible <=> s < cursor
    BY <2>1 DEF IndInv, GenerationInv, Invisible
  <2>4. QED
    BY <2>1, <2>2, <2>3 DEF IsOutboxSequenceProcessed
<1>2. QED
  BY <1>1, Inductive, PTL

\* No step of a late worker, of recovery or of a restart replaces what an entry
\* published, or moves the cursor back.
THEOREM StablePublication == Spec => PublicationStable
<1> DEFINE Stable == /\ cursor' \in {cursor, cursor + 1}
                     /\ \A s \in Sequence : visible[s] # Invisible => visible'[s] = visible[s]
<1>1. IndInv /\ [Next]_vars => [Stable]_vars
  <2> SUFFICES ASSUME IndInv, [Next]_vars PROVE Stable
    OBVIOUS
  <2>1. cursor' \in {cursor, cursor + 1}
    BY CursorForward DEF IndInv, Ordered
  <2>2. ASSUME NEW w \in Worker, StepOf(w), NEW s \in Sequence, visible[s] # Invisible
        PROVE  visible'[s] = visible[s]
    BY <2>2, QuietFrame, OrderedPublish
       DEF StepOf, RecoverClaim, Claim, CleanupFinal, Release, index, claims, IndInv,
           Ordered
  <2>3. CASE Append \/ Restart \/ UNCHANGED vars \/ \E s \in Sequence : Expire(s)
    <3>1. visible' = visible
      BY <2>3 DEF Append, Restart, Expire, vars, durable, index
    <3>2. QED
      BY <2>1, <3>1
  <2>4. QED
    BY <2>1, <2>2, <2>3, StepCases DEF StepOf
<1>2. QED
  BY <1>1, Inductive, PTL DEF Spec, PublicationStable

-----------------------------------------------------------------------------
(***************************************************************************)
(* The stages: what a published entry exposes is one whole plan, the       *)
(* checks of outbox.js do not fail for the owner of a claim, cleanup       *)
(* removes what it should, and the outbox implements an ordered log.       *)
(*                                                                         *)
(* None of this is inductive.  Whether a publication is complete depends   *)
(* on the ready marker, whose meaning depends on the applied markers, and  *)
(* theirs on the tablets that were read for them; each of them may have    *)
(* been written by another owner of the generation, and even by one that   *)
(* had lost its claim when it wrote.  StageInv says                        *)
(*   - what the records of a generation can be before and after its        *)
(*     publication (RecordInv);                                            *)
(*   - what is still so when an open transaction commits, because nobody   *)
(*     wrote the record it is to write (OpenInv, ApartInv);                *)
(*   - what any worker can rely on, with or without its claim, because     *)
(*     headers, markers and the ready marker are written once (ReaderInv); *)
(*   - what the owner of a claim knows besides (OwnerInv), and a worker    *)
(*     that cleans a published stage (CleanerInv).                         *)
(* A header written by a worker that had lost its claim (torn) promises no *)
(* tablets: only those of the generations without one are those of their   *)
(* header.                                                                 *)
(***************************************************************************)

Whole(p) == {p} \X TabletsOf(p)

\* Tablets of a generation that have an applied marker, and the marker of a whole stage.
Marked(g) == {o \in Ordinal : applied[g][o] # NoMarker}
Mark(p) == [tablet |-> p, stage |-> p]

\* A generation that is not published: its markers name the plan in its header, and the
\* ready marker promises that they name only that plan's own tablets.
Pending(g) ==
    /\ cleaned[g] = {}
    /\ prepared[g] = {<<applied[g][o].tablet, o>> : o \in Marked(g)}
    /\ \A o \in Marked(g) : /\ stage[g] \in Plan /\ o \in TabletsOf(stage[g])
                            /\ applied[g][o].stage = stage[g]
                            /\ applied[g][o].tablet \in Plan
                            /\ tablet[g][o] \in {NoPlan, applied[g][o].tablet}
    /\ ready[g] # NotReady => /\ stage[g] \in Plan /\ Tabletted(stage[g])
                              /\ ready[g] = [plan |-> stage[g], cleanupOrdinal |-> 0]
                              /\ \A o \in TabletsOf(stage[g]) : applied[g][o] = Mark(stage[g])
    /\ stage[g] \in Plan /\ g \notin torn =>
         \A o \in TabletsOf(stage[g]) : tablet[g][o] = stage[g]

\* A published generation: all of its plan was prepared, and cleanup has come as far as the
\* ready marker says.
Exposed(g) == visible[g].plan
Settled(g) ==
    /\ Exposed(g) \in Plan
    /\ prepared[g] = Whole(Exposed(g))
    /\ stage[g] \in {NoPlan, Exposed(g)}
    /\ stage[g] = NoPlan => ready[g] = NotReady /\ cleaned[g] = Whole(Exposed(g))
    /\ stage[g] # NoPlan /\ Tabletted(Exposed(g)) =>
         /\ ready[g].plan = Exposed(g)
         /\ ready[g].cleanupOrdinal \in 0..TabletCount[Exposed(g)]
         /\ cleaned[g] = {Exposed(g)} \X (0..(ready[g].cleanupOrdinal - 1))
         /\ \A o \in TabletsOf(Exposed(g)) : tablet[g][o] \in {NoPlan, Exposed(g)}
    /\ stage[g] # NoPlan /\ ~Tabletted(Exposed(g)) => ready[g] = NotReady /\ cleaned[g] = {}

RecordInv == \A g \in Generation : IF g < cursor THEN Settled(g) ELSE Pending(g)

\* What is so as long as a transaction is open.
OpenKnows(w) ==
    LET g == claim[w].generation
        o == open[w].ordinal
    IN  open[w] # NoKey =>
        /\ pc[w] \in {"drop-legacy", "put-header", "apply-tablet", "put-ready"} => ~(g < cursor)
        /\ pc[w] = "clear" =>
             /\ open[w].kind = "tablet" /\ tablet[g][o] # NoPlan
             /\ (~(g < cursor) /\ stage[g] \in Plan /\ g \notin torn) =>
                  o \notin TabletsOf(stage[g])
        /\ pc[w] = "put-tablet" =>
             /\ tablet[g][o] = NoPlan
             /\ IF g < cursor THEN o \notin TabletsOf(Exposed(g)) ELSE applied[g][o] = NoMarker
        /\ pc[w] \in {"clear-ready", "put-ready"} => ready[g] = NotReady
        /\ pc[w] = "put-ready" => agree[w]
        /\ pc[w] = "put-header" => stage[g] = NoPlan
        /\ pc[w] = "drop-legacy" => stage[g] \notin Plan
        /\ pc[w] = "apply-tablet" =>
             applied[g][o] = NoMarker /\ tablet[g][o] \in {NoPlan, open[w].tablet}
OpenInv == \A w \in Worker : OpenKnows(w)

\* A tablet is not put while it is being applied.
Apart(v, w) ==
    (/\ pc[v] = "put-tablet" /\ open[v] # NoKey
     /\ pc[w] = "apply-tablet" /\ open[w] # NoKey
     /\ claim[v].generation = claim[w].generation) => open[v].ordinal # open[w].ordinal
ApartInv == \A v, w \in Worker : Apart(v, w)

\* What a worker has read and may rely on until the publication, although it lost its claim.
ReaderKnows(w) ==
    LET g == claim[w].generation
        p == plan[w]
    IN  ~(g < cursor) =>
        /\ pc[w] \in {"load", "prepare", "stage", "put-tablet", "put-header"} => stage[g] # Legacy
        /\ pc[w] \in {"clear", "clear-ready"} /\ p # NoPlan => stage[g] # Legacy
        /\ pc[w] \in {"apply", "apply-tablet", "put-ready", "publish"} => stage[g] \in Plan
        /\ pc[w] \in {"apply-tablet", "put-ready"} =>
             /\ p = stage[g] /\ Tabletted(p)
             /\ g \notin torn => agree[w]
             /\ agree[w] => \A i \in TabletsOf(p) :
                  pc[w] = "put-ready" \/ i < ordinal[w] => applied[g][i] = Mark(p)
        /\ pc[w] = "publish" => (Tabletted(stage[g]) => ready[g].plan = stage[g])
ReaderInv == \A w \in Worker : ReaderKnows(w)

\* Up to the header, the owner has found no stage and nothing of one is being written
\* but by workers that began before it cleared what they had left.
Early == {"prepare", "stage", "clear", "clear-ready", "drop-legacy", "put-tablet", "put-header"}
NoneOpen(g, steps) ==
    \A v \in Worker : claim[v].generation = g /\ open[v] # NoKey => pc[v] \notin steps
OwnerKnows(w) ==
    LET g == claim[w].generation
        p == plan[w]
    IN  /\ pc[w] \in Early => /\ Marked(g) = {} /\ ready[g] = NotReady
                              /\ stage[g] \in Plan => g \in torn
                              /\ NoneOpen(g, {"apply-tablet", "put-ready"})
        /\ pc[w] \in {"clear", "clear-ready", "drop-legacy"} /\ p = NoPlan =>
             stage[g] \notin Plan /\ NoneOpen(g, {"put-header"})
        /\ (pc[w] \in {"clear-ready", "put-tablet"} \/ (pc[w] = "put-header" /\ Tabletted(p)))
             => NoneOpen(g, {"clear"})
        /\ pc[w] = "put-tablet" => \A i \in TabletsOf(p) : i < ordinal[w] => tablet[g][i] = p
        /\ pc[w] = "put-header" => \A i \in TabletsOf(p) : tablet[g][i] = p
OwnerInv == \A w \in Worker : Owns(w) => OwnerKnows(w)

\* What a worker knows that cleans a published stage, with or without others.
CleanerKnows(w) ==
    LET g == claim[w].generation
    IN  /\ pc[w] \in Cleaning => g < cursor
        /\ pc[w] \in {"cleanup-ready", "cleanup-tablet"} =>
             plan[w] = Exposed(g) /\ Tabletted(plan[w])
        /\ pc[w] = "cleanup-final" => cleaned[g] = Whole(Exposed(g))
CleanerInv == \A w \in Worker : CleanerKnows(w)

StageInv == RecordInv /\ OpenInv /\ ApartInv /\ ReaderInv /\ OwnerInv /\ CleanerInv
-----------------------------------------------------------------------------
(***************************************************************************)
(* What a step may write.                                                  *)
(***************************************************************************)
\* All records of a generation stay as they are.
SameRecords(g) ==
    /\ stage'[g] = stage[g] /\ tablet'[g] = tablet[g] /\ applied'[g] = applied[g]
    /\ ready'[g] = ready[g] /\ prepared'[g] = prepared[g] /\ cleaned'[g] = cleaned[g]
    /\ visible'[g] = visible[g]

\* The steps that write records of a stage.
RecordStepOf(w) == Commits(w) \/ Publish(w) \/ CleanupTablet(w) \/ CleanupFinal(w)

\* Most steps of a worker write no record of a stage.
LEMMA RecordFrame ==
    ASSUME TypeOK, LocalInv, NEW w \in Worker, StepOf(w), ~RecordStepOf(w)
    PROVE  UNCHANGED <<cursor, staging, prepared, visible, cleaned, torn>>
<1>1. CASE Begins(w)
  BY <1>1, BeginFacts DEF durable, queue, index
<1>2. CASE ~Begins(w)
  BY <1>2
     DEF StepOf, QuietStep, RecordStepOf, ScanClaims, RecoverClaim, ScanStages,
         RecoverStage, Initialized, Claim, DiscardLegacy, LoadStage, Prepare, CheckStage,
         OrphansCleared, StartApply, Unchanged, CleanupUnpublished, StartCleanup,
         ReadCleanupProgress, LoseClaim, Reject, Release, Fail, ReleaseFails, Internal, durable,
         queue, staging, index, aside
<1>3. QED
  BY <1>1, <1>2

\* And no step of the others.
LEMMA EnvironmentFrame ==
    ASSUME Append \/ (\E s \in Sequence : Expire(s)) \/ Restart \/ UNCHANGED vars
    PROVE  UNCHANGED <<cursor, staging, prepared, visible, cleaned, torn>>
BY DEF Append, Restart, Expire, vars, durable, queue, staging, index, aside

\* A commit is one of an open transaction, and concerns one generation.
LEMMA CommitFrame ==
    ASSUME TypeOK, NEW w \in Worker, Commits(w)
    PROVE  /\ UNCHANGED <<queue, state, publication, visible, cleaned, initialized, claim, plan>>
           /\ open[w] # NoKey
           /\ torn \subseteq torn'
           /\ \A g \in Generation : g # claim[w].generation => SameRecords(g)
<1>1. CASE ClearOrphan(w)
  BY <1>1 DEF ClearOrphan, TypeOK, DurableTypeOK, SameRecords, index, memory, locals
<1>2. CASE ClearReady(w)
  BY <1>2 DEF ClearReady, TypeOK, DurableTypeOK, SameRecords, index
<1>3. CASE DropLegacy(w)
  BY <1>3 DEF DropLegacy, TypeOK, DurableTypeOK, SameRecords, index, locals
<1>4. CASE PutTablet(w)
  BY <1>4 DEF PutTablet, TypeOK, DurableTypeOK, SameRecords, index
<1>5. CASE PutHeader(w)
  BY <1>5 DEF PutHeader, TypeOK, DurableTypeOK, SameRecords, index, locals
<1>6. CASE ApplyTablet(w)
  BY <1>6 DEF ApplyTablet, TypeOK, DurableTypeOK, SameRecords
<1>7. CASE PutReady(w)
  BY <1>7 DEF PutReady, TypeOK, DurableTypeOK, SameRecords, index, locals
<1>8. QED
  BY <1>1, <1>2, <1>3, <1>4, <1>5, <1>6, <1>7 DEF Commits

\* A worker that owns its claim, as whoever publishes does, works on the entry at the cursor.
LEMMA WriterOwns ==
    ASSUME IndInv, NEW w \in Worker, Publish(w) \/ Owns(w)
    PROVE  /\ Owns(w)
           /\ claim[w].generation = cursor /\ claim[w].sequence = cursor
           /\ cursor \in Generation /\ cursor \in Sequence /\ cursor \in Nat
           /\ cursor <= counter
<1>1. Owns(w)
  BY DEF Publish
<1>2. /\ claim[w].sequence = cursor /\ cursor \in Sequence /\ claim[w].generation = cursor
      /\ generationCounter = cursor
  BY <1>1, OwnerAtCursor DEF IndInv
<1>3. QED
  BY <1>1, <1>2, ConstantTypes, BoundAssumption DEF IndInv, QueueInv, Sequence

\* No two workers own a claim.
LEMMA OwnerUnique ==
    ASSUME IndInv, NEW v \in Worker, NEW w \in Worker, Owns(v), Owns(w)
    PROVE  v = w
<1>1. claim[v].sequence = claim[w].sequence
  BY WriterOwns
<1>2. claim[w].token = claim[v].token /\ claim[w].token # NoToken
  BY <1>1 DEF Owns
<1>3. QED
  BY <1>2 DEF IndInv, TokenInv

\* A generation whose records stay has the properties it had.
LEMMA PendingFrame ==
    ASSUME NEW g \in Generation, Pending(g), SameRecords(g), torn \subseteq torn'
    PROVE  Pending(g)'
BY DEF Pending, SameRecords, Marked, Mark

LEMMA SettledFrame ==
    ASSUME NEW g \in Generation, Settled(g), SameRecords(g)
    PROVE  Settled(g)'
BY DEF Settled, SameRecords, Exposed

\* The ordinals of a plan are among those of the stage, and a plan without any has no tablet.
LEMMA TabletRange ==
    ASSUME NEW p \in Plan
    PROVE  /\ TabletCount[p] \in Nat
           /\ TabletsOf(p) = 0..(TabletCount[p] - 1)
           /\ TabletsOf(p) \subseteq Ordinal
           /\ ~Tabletted(p) => TabletsOf(p) = {}
           /\ p # NoPlan /\ p # Legacy
<1>1. TabletCount[p] \in 0..MaxTablets /\ MaxTablets \in Nat
  BY PlanAssumption
<1>2. TabletsOf(p) \subseteq Ordinal
  BY <1>1 DEF TabletsOf, Ordinal
<1>3. ~Tabletted(p) => TabletsOf(p) = {}
  BY <1>1 DEF TabletsOf, Tabletted
<1>4. QED
  BY <1>1, <1>2, <1>3, PlanAssumption DEF TabletsOf

\* What a worker whose transaction commits knows.
LEMMA CommitKnows ==
    ASSUME IndInv, StageInv, NEW w \in Worker, Commits(w)
    PROVE  /\ TypeOK /\ claim[w].generation \in Generation
           /\ open[w] # NoKey /\ OpenShape(w) /\ LocalFacts(w)
           /\ OpenKnows(w) /\ ReaderKnows(w)
           /\ cursor \in Nat /\ \A g \in Generation : g \in Nat
           /\ RecordInv
<1>1. TypeOK /\ RecordInv /\ OpenKnows(w) /\ ReaderKnows(w) /\ LocalFacts(w) /\ OpenShape(w)
  BY DEF IndInv, LocalInv, StageInv, OpenInv, ReaderInv
<1>2. claim[w].generation \in Generation /\ cursor \in Nat /\ \A g \in Generation : g \in Nat
  BY <1>1, BoundAssumption DEF TypeOK, MemoryTypeOK, DurableTypeOK, ClaimRecord, Generation
<1>3. QED
  BY <1>1, <1>2, CommitFrame
-----------------------------------------------------------------------------
(***************************************************************************)
(* The records of a generation, commit by commit.                          *)
(***************************************************************************)
LEMMA PendingCommit ==
    ASSUME IndInv, StageInv, NEW w \in Worker, Commits(w),
           NEW g \in Generation, g = claim[w].generation, ~(g < cursor)
    PROVE  Pending(g)'
<1> DEFINE p == plan[w]
           o == open[w].ordinal
<1>a. /\ TypeOK /\ LocalFacts(w) /\ OpenShape(w) /\ OpenKnows(w) /\ ReaderKnows(w)
      /\ open[w] # NoKey /\ Pending(g)
  BY CommitKnows DEF RecordInv
<1>b. cleaned' = cleaned /\ claim' = claim /\ plan' = plan /\ torn \subseteq torn'
  BY CommitFrame, <1>a
<1>c. NotReady.plan = NoPlan
  BY DEF NotReady
<1>d. NoPlan \notin Plan /\ Legacy \notin Plan
  BY PlanAssumption
<1>1. CASE ClearOrphan(w)
  <2>1. /\ pc[w] = "clear" /\ open[w].kind = "tablet" /\ o \in Ordinal
        /\ (stage[g] \in Plan /\ g \notin torn) => o \notin TabletsOf(stage[g])
    BY <1>1, <1>a DEF ClearOrphan, At, OpenKnows, OpenShape
  <2>2. /\ UNCHANGED <<stage, applied, ready, prepared, torn>>
        /\ \A x \in Ordinal : tablet'[g][x] = IF x = o THEN NoPlan ELSE tablet[g][x]
    BY <1>1, <1>a, <2>1 DEF ClearOrphan, index, TypeOK, DurableTypeOK
  <2>3. stage[g] \in Plan => TabletsOf(stage[g]) \subseteq Ordinal
    BY TabletRange
  <2>4. \A x \in Marked(g) : x \in Ordinal
    BY DEF Marked
  <2>5. QED
    BY <1>a, <1>b, <2>1, <2>2, <2>3, <2>4 DEF Pending, Marked, Mark
<1>2. CASE ClearReady(w)
  <2>1. ready[g] = NotReady
    BY <1>2, <1>a DEF ClearReady, At, OpenKnows
  <2>2. UNCHANGED <<stage, tablet, applied, prepared>> /\ ready'[g] = ready[g]
    BY <1>2, <1>a, <2>1 DEF ClearReady, index, TypeOK, DurableTypeOK
  <2>3. QED
    BY <1>a, <1>b, <2>1, <2>2 DEF Pending, Marked, Mark
<1>3. CASE DropLegacy(w)
  <2>1. stage[g] \notin Plan
    BY <1>3, <1>a DEF DropLegacy, At, OpenKnows
  <2>2. UNCHANGED <<ready, tablet, applied, prepared>> /\ stage'[g] = NoPlan
    BY <1>3, <1>a DEF DropLegacy, index, TypeOK, DurableTypeOK
  <2>3. Marked(g) = {} /\ ready[g] = NotReady
    BY <1>a, <2>1 DEF Pending
  <2>4. QED
    BY <1>a, <1>b, <1>d, <2>2, <2>3 DEF Pending, Marked
<1>4. CASE PutTablet(w)
  <2>1. /\ o = ordinal[w] /\ p \in Plan /\ o \in Ordinal
        /\ tablet[g][o] = NoPlan /\ applied[g][o] = NoMarker
    BY <1>4, <1>a, TabletRange DEF PutTablet, At, OpenKnows, OpenShape, LocalFacts, Key
  <2>2. /\ UNCHANGED <<stage, applied, ready, prepared, torn>>
        /\ \A x \in Ordinal : tablet'[g][x] = IF x = o THEN p ELSE tablet[g][x]
    BY <1>4, <1>a, <2>1 DEF PutTablet, index, TypeOK, DurableTypeOK
  <2>3. stage[g] \in Plan => TabletsOf(stage[g]) \subseteq Ordinal
    BY TabletRange
  <2>4. \A x \in Marked(g) : x \in Ordinal /\ x # o
    BY <2>1 DEF Marked
  <2>5. ASSUME stage[g] \in Plan, g \notin torn, NEW x \in TabletsOf(stage[g])
        PROVE  tablet'[g][x] = stage[g]
    BY <1>a, <1>d, <2>1, <2>2, <2>3, <2>5 DEF Pending
  <2>6. QED
    BY <1>a, <1>b, <2>2, <2>4, <2>5 DEF Pending, Marked, Mark
<1>5. CASE PutHeader(w)
  <2>1. stage[g] = NoPlan /\ p \in Plan
    BY <1>5, <1>a DEF PutHeader, At, OpenKnows, LocalFacts
  <2>2. UNCHANGED <<ready, tablet, applied, prepared>> /\ stage'[g] = p
    BY <1>5, <1>a DEF PutHeader, index, TypeOK, DurableTypeOK
  <2>3. Marked(g) = {} /\ ready[g] = NotReady
    BY <1>a, <1>d, <2>1 DEF Pending
  <2>4. g \notin torn' => \A x \in TabletsOf(p) : tablet[g][x] = p
    BY <1>5, <1>a DEF PutHeader, At, StageInv, OwnerInv, OwnerKnows
  <2>5. QED
    BY <1>a, <1>b, <2>1, <2>2, <2>3, <2>4 DEF Pending, Marked
<1>6. CASE ApplyTablet(w)
  <2> DEFINE t == open[w].tablet
             marker == [tablet |-> t, stage |-> p]
  <2>1. /\ p \in Plan /\ p = stage[g] /\ o = ordinal[w] /\ o \in TabletsOf(p) /\ o \in Ordinal
        /\ t \in Plan /\ applied[g][o] = NoMarker /\ tablet[g][o] \in {NoPlan, t}
    BY <1>6, <1>a, TabletRange
       DEF ApplyTablet, At, OpenKnows, OpenShape, ReaderKnows, LocalFacts
  <2>2. marker # NoMarker
    BY <1>d, <2>1 DEF NoMarker
  <2>3. /\ UNCHANGED <<stage, ready, tablet, torn>>
        /\ \A x \in Ordinal : applied'[g][x] = IF x = o THEN marker ELSE applied[g][x]
        /\ prepared'[g] = prepared[g] \cup {<<t, o>>}
    BY <1>6, <1>a, <2>1 DEF ApplyTablet, TypeOK, DurableTypeOK
  <2>4. Marked(g)' = Marked(g) \cup {o} /\ o \notin Marked(g) /\ Marked(g) \subseteq Ordinal
    BY <2>1, <2>2, <2>3 DEF Marked
  <2>5. ready[g] = NotReady
    <3>1. Mark(p) # NoMarker
      BY <1>d, <2>1 DEF Mark, NoMarker
    <3>2. QED
      BY <1>a, <2>1, <3>1 DEF Pending
  <2>6. prepared'[g] = {<<applied'[g][x].tablet, x>> : x \in Marked(g)'}
    <3>1. \A x \in Marked(g) : applied'[g][x] = applied[g][x]
      BY <2>3, <2>4
    <3>2. applied'[g][o].tablet = t
      BY <2>1, <2>3
    <3>3. prepared[g] = {<<applied[g][x].tablet, x>> : x \in Marked(g)}
      BY <1>a DEF Pending
    <3>4. QED
      BY <2>3, <2>4, <3>1, <3>2, <3>3
  <2>7. \A x \in Marked(g)' : /\ x \in TabletsOf(p) /\ applied'[g][x].stage = p
                              /\ applied'[g][x].tablet \in Plan
                              /\ tablet[g][x] \in {NoPlan, applied'[g][x].tablet}
    BY <1>a, <2>1, <2>3, <2>4 DEF Pending
  <2>8. QED
    BY <1>a, <1>b, <2>1, <2>3, <2>5, <2>6, <2>7 DEF Pending
<1>7. CASE PutReady(w)
  <2>1. p = stage[g] /\ p \in Plan /\ Tabletted(p) /\ \A x \in TabletsOf(p) : applied[g][x] = Mark(p)
    BY <1>7, <1>a DEF PutReady, At, OpenKnows, ReaderKnows, LocalFacts
  <2>2. /\ UNCHANGED <<stage, tablet, applied, prepared, torn>>
        /\ ready'[g] = [plan |-> p, cleanupOrdinal |-> 0]
    BY <1>7, <1>a DEF PutReady, index, TypeOK, DurableTypeOK
  <2>3. QED
    BY <1>a, <1>b, <2>1, <2>2 DEF Pending, Marked, Mark
<1>8. QED
  BY <1>1, <1>2, <1>3, <1>4, <1>5, <1>6, <1>7 DEF Commits

\* A commit that comes after the publication finds nothing of it to change.
LEMMA SettledCommit ==
    ASSUME IndInv, StageInv, NEW w \in Worker, Commits(w),
           NEW g \in Generation, g = claim[w].generation, g < cursor
    PROVE  Settled(g)' /\ prepared' = prepared
<1> DEFINE p == plan[w]
           o == open[w].ordinal
<1>a. /\ TypeOK /\ LocalFacts(w) /\ OpenShape(w) /\ OpenKnows(w)
      /\ open[w] # NoKey /\ Settled(g)
  BY CommitKnows DEF RecordInv
<1>b. cleaned' = cleaned /\ visible' = visible
  BY CommitFrame, <1>a
<1>c. TabletsOf(Exposed(g)) \subseteq Ordinal
  BY <1>a, TabletRange DEF Settled
<1>1. CASE ClearOrphan(w)
  <2>1. pc[w] = "clear" /\ open[w].kind = "tablet" /\ o \in Ordinal
    BY <1>1, <1>a DEF ClearOrphan, At, OpenKnows, OpenShape
  <2>2. /\ UNCHANGED <<stage, applied, ready, prepared>>
        /\ \A x \in Ordinal : tablet'[g][x] = IF x = o THEN NoPlan ELSE tablet[g][x]
    BY <1>1, <1>a, <2>1 DEF ClearOrphan, index, TypeOK, DurableTypeOK
  <2>3. QED
    BY <1>a, <1>b, <1>c, <2>2 DEF Settled, Exposed
<1>2. CASE ClearReady(w)
  <2>1. ready[g] = NotReady
    BY <1>2, <1>a DEF ClearReady, At, OpenKnows
  <2>2. UNCHANGED <<stage, tablet, applied, prepared>> /\ ready'[g] = ready[g]
    BY <1>2, <1>a, <2>1 DEF ClearReady, index, TypeOK, DurableTypeOK
  <2>3. QED
    BY <1>a, <1>b, <2>2 DEF Settled, Exposed
<1>3. CASE PutTablet(w)
  <2>1. o = ordinal[w] /\ o \in Ordinal /\ o \notin TabletsOf(Exposed(g))
    BY <1>3, <1>a, TabletRange DEF PutTablet, At, OpenKnows, OpenShape, LocalFacts, Key
  <2>2. /\ UNCHANGED <<stage, applied, ready, prepared>>
        /\ \A x \in Ordinal : x # o => tablet'[g][x] = tablet[g][x]
    BY <1>3, <1>a, <2>1 DEF PutTablet, index, TypeOK, DurableTypeOK
  <2>3. QED
    BY <1>a, <1>b, <1>c, <2>1, <2>2 DEF Settled, Exposed
<1>4. CASE DropLegacy(w) \/ PutHeader(w) \/ ApplyTablet(w) \/ PutReady(w)
  BY <1>4, <1>a DEF DropLegacy, PutHeader, ApplyTablet, PutReady, At, OpenKnows
<1>5. QED
  BY <1>1, <1>2, <1>3, <1>4 DEF Commits

\* A publication turns a pending generation into a settled one.
LEMMA SettledPublish ==
    ASSUME IndInv, StageInv, NEW w \in Worker, Publish(w),
           NEW g \in Generation, g = cursor
    PROVE  /\ Settled(g)'
           /\ Exposed(g)' = stage[g] /\ stage[g] \in Plan
           /\ \A o \in TabletsOf(stage[g]) : applied[g][o] = Mark(stage[g])
           /\ Tabletted(stage[g]) => ready[g] # NotReady
<1> DEFINE p == stage[g]
<1>a. /\ claim[w].generation = g /\ claim[w].sequence = g /\ g \in Generation /\ g \in Sequence
      /\ TypeOK /\ Pending(g)
  <2>1. claim[w].generation = g /\ claim[w].sequence = g /\ g \in Sequence /\ g \in Nat
    BY WriterOwns
  <2>2. QED
    BY <2>1 DEF StageInv, RecordInv, IndInv
<1>1. p \in Plan /\ (Tabletted(p) => ready[g].plan = p)
  BY <1>a DEF Publish, Publishable
<1>2. UNCHANGED <<staging, prepared, cleaned>> /\ visible'[g] = [generation |-> g, plan |-> p]
  BY <1>a DEF Publish, TypeOK, DurableTypeOK
<1>3. (Tabletted(p) => ready[g] = [plan |-> p, cleanupOrdinal |-> 0])
      /\ \A o \in TabletsOf(p) : applied[g][o] = Mark(p)
  <2>1. CASE Tabletted(p)
    <3>1. ready[g] # NotReady
      BY <1>1, <2>1, PlanAssumption DEF NotReady
    <3>2. QED
      BY <1>a, <3>1 DEF Pending
  <2>2. CASE ~Tabletted(p)
    BY <1>1, <2>2, TabletRange
  <2>3. QED
    BY <2>1, <2>2
<1>4. Marked(g) = TabletsOf(p) /\ \A o \in Marked(g) : applied[g][o].tablet = p
  <2>1. \A o \in TabletsOf(p) : o \in Ordinal /\ applied[g][o] # NoMarker /\ applied[g][o].tablet = p
    BY <1>1, <1>3, TabletRange, PlanAssumption DEF Mark, NoMarker
  <2>2. Marked(g) \subseteq TabletsOf(p)
    BY <1>a DEF Pending
  <2>3. QED
    BY <2>1, <2>2 DEF Marked
<1>5. prepared'[g] = Whole(p) /\ Exposed(g)' = p
  <2>1. prepared[g] = {<<applied[g][o].tablet, o>> : o \in Marked(g)}
    BY <1>a DEF Pending
  <2>2. {<<applied[g][o].tablet, o>> : o \in Marked(g)} = {p} \X TabletsOf(p)
    BY <1>4
  <2>3. QED
    BY <1>2, <2>1, <2>2 DEF Whole, Exposed
<1>6. stage'[g] = p /\ ready'[g] = ready[g] /\ cleaned'[g] = {} /\ tablet'[g] = tablet[g]
  BY <1>a, <1>2 DEF staging, Pending
<1>7. p # NoPlan
  BY <1>1, PlanAssumption
<1>8. Tabletted(p) => \A o \in TabletsOf(p) : tablet[g][o] \in {NoPlan, p}
  BY <1>a, <1>4 DEF Pending
<1>9. 0 \in 0..TabletCount[p] /\ {p} \X (0..(0 - 1)) = {}
  BY <1>1, TabletRange
<1>10. ~Tabletted(p) => ready[g] = NotReady
  BY <1>a DEF Pending
<1>11. Tabletted(p) => ready[g] # NotReady
  BY <1>3, <1>7 DEF NotReady
<1>12. Settled(g)'
  BY <1>1, <1>3, <1>5, <1>6, <1>7, <1>8, <1>9, <1>10 DEF Settled
<1>13. QED
  BY <1>1, <1>3, <1>5, <1>11, <1>12
-----------------------------------------------------------------------------
(***************************************************************************)
(* The records of a published generation, cleanup by cleanup.              *)
(***************************************************************************)
\* Cleanup concerns one generation, and a published one.
LEMMA CleanupFrame ==
    ASSUME IndInv, StageInv, NEW w \in Worker, CleanupTablet(w) \/ CleanupFinal(w)
    PROVE  /\ claim[w].generation \in Generation
           /\ claim[w].generation < cursor
           /\ cursor' = cursor /\ prepared' = prepared /\ visible' = visible /\ torn' = torn
           /\ \A g \in Generation : g # claim[w].generation => SameRecords(g)
<1>a. TypeOK /\ CleanerKnows(w)
  BY DEF IndInv, StageInv, CleanerInv
<1>b. claim[w].generation \in Generation
  BY <1>a DEF TypeOK, MemoryTypeOK, ClaimRecord
<1>1. claim[w].generation < cursor
  BY <1>a DEF CleanupTablet, CleanupFinal, At, Cleaning, CleanerKnows
<1>2. ASSUME NEW g \in Generation, g # claim[w].generation
      PROVE  SameRecords(g)
  <2>1. CASE CleanupTablet(w)
    BY <1>a, <1>2, <2>1 DEF CleanupTablet, SameRecords, TypeOK, DurableTypeOK
  <2>2. CASE CleanupFinal(w)
    BY <1>a, <1>2, <2>2 DEF CleanupFinal, SameRecords, TypeOK, DurableTypeOK
  <2>3. QED
    BY <2>1, <2>2
<1>3. cursor' = cursor /\ prepared' = prepared /\ visible' = visible /\ torn' = torn
  BY DEF CleanupTablet, CleanupFinal, queue
<1>4. QED
  BY <1>b, <1>1, <1>2, <1>3

\* One tablet more is cleaned: the one the progress marker names.
LEMMA TabletCleaned ==
    ASSUME IndInv, StageInv, NEW w \in Worker, CleanupTablet(w),
           NEW g \in Generation, g = claim[w].generation
    PROVE  LET p == Exposed(g)
               o == ordinal[w]
           IN  /\ p \in Plan /\ plan[w] = p /\ Tabletted(p) /\ o \in TabletsOf(p)
               /\ stage[g] = p
               /\ cleaned[g] = {p} \X (0..(o - 1))
               /\ cleaned'[g] = {p} \X (0..o)
               /\ ready'[g] = [plan |-> p, cleanupOrdinal |-> o + 1]
               /\ \A x \in TabletsOf(p) : tablet[g][x] \in {NoPlan, p} /\ tablet'[g][x] \in {NoPlan, p}
               /\ stage' = stage
<1> DEFINE p == Exposed(g)
           o == ordinal[w]
<1>a. TypeOK /\ CleanerKnows(w) /\ LocalFacts(w) /\ g \in Generation /\ Settled(g)
  BY CleanupFrame DEF IndInv, StageInv, CleanerInv, LocalInv, RecordInv
<1>1. p \in Plan /\ plan[w] = p /\ Tabletted(p) /\ o \in TabletsOf(p) /\ p # NoPlan
  BY <1>a, PlanAssumption DEF CleanupTablet, At, CleanerKnows, LocalFacts
<1>2. o \in Ordinal /\ o \in Nat /\ tablet[g][o] # NoPlan
      /\ ready[g] = [plan |-> p, cleanupOrdinal |-> o]
  BY <1>1, TabletRange DEF CleanupTablet
<1>3. stage[g] = p
  BY <1>a, <1>1, <1>2 DEF Settled, NotReady
<1>4. /\ cleaned[g] = {p} \X (0..(o - 1))
      /\ \A x \in TabletsOf(p) : tablet[g][x] \in {NoPlan, p}
  BY <1>a, <1>1, <1>2, <1>3 DEF Settled
<1>5. tablet[g][o] = p
  BY <1>1, <1>2, <1>4
<1>6. cleaned'[g] = cleaned[g] \cup {<<p, o>>}
  BY <1>a, <1>5 DEF CleanupTablet, TypeOK, DurableTypeOK
<1>7. (0..(o - 1)) \cup {o} = 0..o
  BY <1>2
<1>8. cleaned'[g] = {p} \X (0..o)
  <2>1. ({p} \X (0..(o - 1))) \cup {<<p, o>>} = {p} \X ((0..(o - 1)) \cup {o})
    OBVIOUS
  <2>2. QED
    BY <1>4, <1>6, <1>7, <2>1
<1>9. ready'[g] = [plan |-> p, cleanupOrdinal |-> o + 1] /\ stage' = stage
  BY <1>a, <1>1 DEF CleanupTablet, TypeOK, DurableTypeOK
<1>10. \A x \in TabletsOf(p) : tablet'[g][x] \in {NoPlan, p}
  <2>1. TabletsOf(p) \subseteq Ordinal
    BY <1>1, TabletRange
  <2>2. QED
    BY <1>a, <1>4, <2>1 DEF CleanupTablet, TypeOK, DurableTypeOK
<1>11. QED
  BY <1>1, <1>3, <1>4, <1>8, <1>9, <1>10

\* What cleanup leaves of a settled generation is settled.
LEMMA SettledCleanup ==
    ASSUME IndInv, StageInv, NEW w \in Worker, CleanupTablet(w) \/ CleanupFinal(w),
           NEW g \in Generation, g = claim[w].generation
    PROVE  Settled(g)'
<1> DEFINE p == Exposed(g)
<1>a. TypeOK /\ g \in Generation /\ Settled(g) /\ CleanerKnows(w)
  BY CleanupFrame DEF IndInv, StageInv, CleanerInv, RecordInv
<1>b. p \in Plan /\ prepared[g] = Whole(p) /\ p # NoPlan
  BY <1>a, PlanAssumption DEF Settled
<1>1. CASE CleanupTablet(w)
  <2> DEFINE o == ordinal[w]
  <2>1. /\ Tabletted(p) /\ o \in TabletsOf(p) /\ stage[g] = p /\ stage' = stage
        /\ cleaned'[g] = {p} \X (0..o)
        /\ ready'[g] = [plan |-> p, cleanupOrdinal |-> o + 1]
        /\ \A x \in TabletsOf(p) : tablet'[g][x] \in {NoPlan, p}
    BY <1>1, TabletCleaned
  <2>2. o + 1 \in 0..TabletCount[p] /\ (o + 1) - 1 = o
    BY <1>b, <2>1, TabletRange
  <2>3. visible' = visible /\ prepared' = prepared
    BY <1>1 DEF CleanupTablet
  <2>4. QED
    BY <1>b, <2>1, <2>2, <2>3 DEF Settled, Exposed
<1>2. CASE CleanupFinal(w)
  <2>1. cleaned[g] = Whole(p)
    BY <1>2, <1>a DEF CleanupFinal, At, CleanerKnows
  <2>2. /\ stage'[g] = NoPlan /\ ready'[g] = NotReady /\ cleaned' = cleaned
        /\ visible' = visible /\ prepared' = prepared
    BY <1>2, <1>a DEF CleanupFinal, TypeOK, DurableTypeOK
  <2>3. QED
    BY <1>b, <2>1, <2>2 DEF Settled, Exposed
<1>3. QED
  BY <1>1, <1>2

\* Every step keeps the promises of the records.
LEMMA RecordStep ==
    ASSUME IndInv, StageInv, [Next]_vars
    PROVE  RecordInv'
<1>a. TypeOK /\ LocalInv /\ cursor \in Nat /\ \A g \in Generation : g \in Nat
  BY BoundAssumption DEF IndInv, TypeOK, DurableTypeOK, Generation
<1>b. RecordInv
  BY DEF StageInv
<1>1. ASSUME NEW w \in Worker, Commits(w)
      PROVE  RecordInv'
  <2>1. cursor' = cursor /\ torn \subseteq torn'
    BY <1>1, <1>a, CommitFrame DEF queue
  <2>2. ASSUME NEW g \in Generation
        PROVE  IF g < cursor' THEN Settled(g)' ELSE Pending(g)'
    <3>1. CASE g = claim[w].generation
      BY <1>1, <1>a, <2>1, <3>1, PendingCommit, SettledCommit
    <3>2. CASE g # claim[w].generation
      BY <1>1, <1>a, <1>b, <2>1, <3>2, CommitFrame, PendingFrame, SettledFrame DEF RecordInv
    <3>3. QED
      BY <3>1, <3>2
  <2>3. QED
    BY <2>2 DEF RecordInv
<1>2. ASSUME NEW w \in Worker, Publish(w)
      PROVE  RecordInv'
  <2>1. claim[w].generation = cursor /\ claim[w].sequence = cursor /\ cursor' = cursor + 1
        /\ torn' = torn
    BY <1>2, WriterOwns DEF Publish, aside
  <2>2. ASSUME NEW g \in Generation
        PROVE  IF g < cursor' THEN Settled(g)' ELSE Pending(g)'
    <3>1. CASE g = cursor
      <4>1. Settled(g)'
        BY <1>2, <3>1, SettledPublish
      <4>2. QED
        BY <1>a, <2>1, <3>1, <4>1
    <3>2. CASE g # cursor
      <4>1. SameRecords(g)
        BY <1>2, <1>a, <2>1, <3>2 DEF Publish, SameRecords, staging, TypeOK, DurableTypeOK
      <4>2. g < cursor' <=> g < cursor
        BY <1>a, <2>1, <3>2
      <4>3. QED
        BY <1>b, <2>1, <4>1, <4>2, PendingFrame, SettledFrame DEF RecordInv
    <3>3. QED
      BY <3>1, <3>2
  <2>3. QED
    BY <2>2 DEF RecordInv
<1>3. ASSUME NEW w \in Worker, CleanupTablet(w) \/ CleanupFinal(w)
      PROVE  RecordInv'
  <2>1. claim[w].generation < cursor /\ cursor' = cursor /\ torn' = torn
    BY <1>3, CleanupFrame
  <2>2. ASSUME NEW g \in Generation
        PROVE  IF g < cursor' THEN Settled(g)' ELSE Pending(g)'
    <3>1. CASE g = claim[w].generation
      BY <1>3, <2>1, <3>1, SettledCleanup
    <3>2. CASE g # claim[w].generation
      BY <1>3, <1>b, <2>1, <3>2, CleanupFrame, PendingFrame, SettledFrame DEF RecordInv
    <3>3. QED
      BY <3>1, <3>2
  <2>3. QED
    BY <2>2 DEF RecordInv
<1>4. CASE UNCHANGED <<cursor, staging, prepared, visible, cleaned, torn>>
  <2>1. \A g \in Generation : SameRecords(g)
    BY <1>4 DEF SameRecords, staging
  <2>2. QED
    BY <1>4, <1>b, <2>1, PendingFrame, SettledFrame DEF RecordInv
<1>5. QED
  BY <1>1, <1>2, <1>3, <1>4, <1>a, StepCases, RecordFrame, EnvironmentFrame DEF StepOf, RecordStepOf
-----------------------------------------------------------------------------
(***************************************************************************)
(* What cleaning workers know.                                             *)
(***************************************************************************)
\* What was published is not published again, and what was cleaned stays cleaned.
LEMMA CleanedForward ==
    ASSUME IndInv, StageInv, [Next]_vars, NEW g \in Generation, g < cursor
    PROVE  /\ g < cursor'
           /\ Exposed(g)' = Exposed(g)
           /\ cleaned[g] = Whole(Exposed(g)) => cleaned'[g] = Whole(Exposed(g))
<1>a. TypeOK /\ LocalInv /\ cursor \in Nat /\ g \in Nat /\ Generation = Sequence
  BY ConstantTypes, BoundAssumption DEF IndInv, TypeOK, DurableTypeOK, Generation
<1>b. cursor' \in {cursor, cursor + 1}
  BY <1>a, CursorForward DEF IndInv, Ordered
<1>1. g < cursor'
  BY <1>a, <1>b
<1>2. ASSUME NEW w \in Worker, Commits(w) \/ CleanupFinal(w)
      PROVE  visible' = visible /\ cleaned' = cleaned
  BY <1>2, <1>a, CommitFrame DEF CleanupFinal
<1>3. ASSUME NEW w \in Worker, Publish(w)
      PROVE  visible'[g] = visible[g] /\ cleaned' = cleaned
  <2>1. claim[w].sequence = cursor
    BY <1>3, WriterOwns
  <2>2. QED
    BY <1>3, <1>a, <2>1 DEF Publish, TypeOK, DurableTypeOK
<1>4. ASSUME NEW w \in Worker, CleanupTablet(w)
      PROVE  visible' = visible /\ (cleaned[g] = Whole(Exposed(g)) => cleaned'[g] = cleaned[g])
  <2>1. visible' = visible
    BY <1>4 DEF CleanupTablet
  <2>2. CASE g = claim[w].generation
    <3> DEFINE p == Exposed(g)
               o == ordinal[w]
    <3>1. /\ p \in Plan /\ o \in TabletsOf(p)
          /\ cleaned[g] = {p} \X (0..(o - 1))
      BY <1>4, <2>2, TabletCleaned
    <3>2. o \in Nat /\ <<p, o>> \in Whole(p) /\ <<p, o>> \notin cleaned[g]
      BY <3>1, TabletRange DEF Whole
    <3>3. QED
      BY <2>1, <3>2
  <2>3. CASE g # claim[w].generation
    BY <1>4, <2>1, <2>3, CleanupFrame DEF SameRecords
  <2>4. QED
    BY <2>2, <2>3
<1>5. visible'[g] = visible[g] /\ (cleaned[g] = Whole(Exposed(g)) => cleaned'[g] = cleaned[g])
  <2>1. CASE \E w \in Worker : RecordStepOf(w)
    BY <1>2, <1>3, <1>4, <2>1 DEF RecordStepOf
  <2>2. CASE ~ \E w \in Worker : RecordStepOf(w)
    <3>1. UNCHANGED <<cursor, staging, prepared, visible, cleaned>>
      BY <1>a, <2>2, StepCases, RecordFrame, EnvironmentFrame DEF StepOf
    <3>2. QED
      BY <3>1
  <2>3. QED
    BY <2>1, <2>2
<1>6. QED
  BY <1>1, <1>5 DEF Exposed

\* Only these steps lead a worker to, or through, a cleanup.
LEMMA StaysWorking ==
    ASSUME TypeOK, LocalInv, NEW w \in Worker, StepOf(w),
           ~ (\/ Publish(w) \/ RecoverStage(w) \/ StartCleanup(w) \/ ReadCleanupProgress(w)
              \/ CleanupTablet(w))
    PROVE  pc'[w] \notin Cleaning
<1>1. CASE CleanupUnpublished(w) \/ CleanupFinal(w)
  BY <1>1 DEF CleanupUnpublished, CleanupFinal, CleanupReturns, Goto, TypeOK, MemoryTypeOK, Cleaning
<1>2. CASE LoseClaim(w) \/ Reject(w) \/ Fail(w)
  BY <1>2 DEF LoseClaim, Reject, Fail, Abort, Goto, TypeOK, MemoryTypeOK, Cleaning
<1>3. CASE ScanClaims(w) \/ ScanStages(w) \/ Initialized(w) \/ RecoverClaim(w) \/ Claim(w)
           \/ Release(w) \/ ReleaseFails(w)
  BY <1>3 DEF ScanClaims, ScanStages, Initialized, RecoverClaim, Claim, Release, ReleaseFails, At,
              Goto, TypeOK, MemoryTypeOK, Cleaning
<1>4. CASE DiscardLegacy(w) \/ LoadStage(w) \/ Prepare(w) \/ CheckStage(w) \/ ClearOrphan(w)
           \/ OrphansCleared(w) \/ ClearReady(w) \/ DropLegacy(w)
  BY <1>4 DEF DiscardLegacy, LoadStage, Prepare, CheckStage, ClearOrphan, OrphansCleared,
              ClearReady, DropLegacy, At, Goto, memory, TypeOK, MemoryTypeOK, Cleaning
<1>5. CASE PutTablet(w) \/ PutHeader(w) \/ StartApply(w) \/ ApplyTablet(w) \/ PutReady(w)
  BY <1>5 DEF PutTablet, PutHeader, StartApply, ApplyTablet, PutReady, NextTablet, At, Goto,
              TypeOK, MemoryTypeOK, Cleaning
<1>6. CASE Begins(w)
  BY <1>6, BeginFacts
     DEF Begins, BeginClear, BeginRemove, BeginPut, BeginApply, BeginReady, At, memory, Cleaning
<1>7. CASE Unchanged(w)
  <2>1. pc' = pc \/ pc'[w] \in {"put-header", "apply", "put-ready", "publish"}
    BY <1>7 DEF Unchanged, NextTablet, Goto, TypeOK, MemoryTypeOK
  <2>2. QED
    BY <1>7, <2>1 DEF Unchanged, At, Cleaning
<1>8. QED
  BY <1>1, <1>2, <1>3, <1>4, <1>5, <1>6, <1>7 DEF StepOf, QuietStep, Commits

\* The steps of a worker that cleans.
LEMMA CleanerActor ==
    ASSUME IndInv, StageInv, [Next]_vars, NEW w \in Worker, StepOf(w)
    PROVE  CleanerKnows(w)'
<1> DEFINE g == claim[w].generation
<1>a. TypeOK /\ LocalInv /\ CleanerKnows(w) /\ LocalFacts(w) /\ g \in Generation /\ cursor \in Nat
  BY BoundAssumption
     DEF IndInv, StageInv, CleanerInv, LocalInv, TypeOK, MemoryTypeOK, DurableTypeOK, ClaimRecord
<1>b. g < cursor => /\ Settled(g) /\ g < cursor' /\ Exposed(g) \in Plan /\ Exposed(g) # NoPlan
                    /\ visible'[g].plan = Exposed(g)
                    /\ cleaned[g] = Whole(Exposed(g)) => cleaned'[g] = Whole(Exposed(g))
  <2> DEFINE P(x) == x < cursor =>
               /\ Settled(x) /\ x < cursor' /\ Exposed(x) \in Plan /\ Exposed(x) # NoPlan
               /\ visible'[x].plan = Exposed(x)
               /\ cleaned[x] = Whole(Exposed(x)) => cleaned'[x] = Whole(Exposed(x))
  <2>1. \A x \in Generation : P(x)
    BY CleanedForward, PlanAssumption DEF StageInv, RecordInv, Settled, Exposed
  <2>2. QED
    BY <1>a, <2>1
<1>1. CASE pc'[w] \notin Cleaning
  BY <1>1 DEF CleanerKnows, Cleaning
<1>2. CASE Publish(w)
  <2>1. g = cursor /\ cursor' = cursor + 1 /\ claim' = claim /\ pc'[w] = "cleanup"
    BY <1>2, <1>a, WriterOwns DEF Publish, Goto, locals, TypeOK, MemoryTypeOK
  <2>2. QED
    BY <1>a, <2>1 DEF CleanerKnows
<1>3. CASE RecoverStage(w)
  <2> DEFINE s == Smallest(todo[w])
  <2>1. s \in Sequence /\ s \in Generation
    BY <1>3, <1>a, SmallestMember, ConstantTypes DEF RecoverStage, TypeOK, MemoryTypeOK
  <2>2. HasPublication(s) => s < cursor
    BY <2>1 DEF IndInv, GenerationInv, HasPublication
  <2>3. CASE HasPublication(s)
    <3>1. claim'[w].generation = s /\ pc'[w] = "cleanup" /\ cursor' = cursor
      BY <1>3, <1>a, <2>3 DEF RecoverStage, Goto, TypeOK, MemoryTypeOK, durable, queue
    <3>2. QED
      BY <2>2, <2>3, <3>1 DEF CleanerKnows
  <2>4. CASE ~HasPublication(s)
    <3>1. pc'[w] = "recover-stages"
      BY <1>3, <1>a, <2>4 DEF RecoverStage, At
    <3>2. QED
      BY <1>1, <3>1 DEF Cleaning
  <2>5. QED
    BY <2>3, <2>4
<1>4. CASE StartCleanup(w)
  <2>1. /\ claim' = claim /\ g < cursor /\ stage[g] \in {NoPlan, Exposed(g)}
        /\ plan'[w] = stage[g] /\ UNCHANGED durable
    BY <1>4, <1>a, <1>b DEF StartCleanup, At, CleanerKnows, Cleaning, Settled, TypeOK, MemoryTypeOK, Internal
  <2>2. CASE stage[g] \in Plan /\ Tabletted(stage[g])
    <3>1. pc'[w] = "cleanup-ready" /\ stage[g] = Exposed(g)
      BY <1>4, <1>a, <2>1, <2>2, PlanAssumption DEF StartCleanup, Goto, TypeOK, MemoryTypeOK
    <3>2. QED
      BY <1>b, <2>1, <2>2, <3>1 DEF CleanerKnows, Exposed
  <2>3. CASE ~(stage[g] \in Plan /\ Tabletted(stage[g]))
    <3>1. pc'[w] = "cleanup-final"
      BY <1>4, <1>a, <2>3 DEF StartCleanup, Goto, TypeOK, MemoryTypeOK
    <3>2. cleaned[g] = Whole(Exposed(g))
      BY <1>b, <2>1, <2>3, TabletRange DEF Settled, Whole
    <3>3. QED
      BY <1>b, <2>1, <3>1, <3>2 DEF CleanerKnows, Exposed
  <2>4. QED
    BY <2>2, <2>3
<1>5. CASE ReadCleanupProgress(w)
  <2>1. /\ claim' = claim /\ plan' = plan /\ g < cursor /\ UNCHANGED durable
        /\ plan[w] = Exposed(g) /\ Tabletted(plan[w]) /\ ready[g].plan = Exposed(g)
    BY <1>5, <1>a DEF ReadCleanupProgress, At, CleanerKnows, Cleaning, Internal
  <2>2. CASE ready[g].cleanupOrdinal \in TabletsOf(plan[w])
    <3>1. pc'[w] = "cleanup-tablet"
      BY <1>5, <1>a, <2>2 DEF ReadCleanupProgress, Goto, TypeOK, MemoryTypeOK
    <3>2. QED
      BY <1>b, <2>1, <3>1 DEF CleanerKnows, Exposed
  <2>3. CASE ready[g].cleanupOrdinal \notin TabletsOf(plan[w])
    <3>1. pc'[w] = "cleanup-final"
      BY <1>5, <1>a, <2>3 DEF ReadCleanupProgress, Goto, TypeOK, MemoryTypeOK
    <3>2. ready[g] # NotReady
      BY <1>b, <2>1 DEF NotReady
    <3>3. /\ ready[g].cleanupOrdinal \in 0..TabletCount[Exposed(g)]
          /\ cleaned[g] = {Exposed(g)} \X (0..(ready[g].cleanupOrdinal - 1))
      BY <1>b, <2>1, <3>2 DEF Settled
    <3>4. ready[g].cleanupOrdinal = TabletCount[Exposed(g)]
      BY <1>b, <2>1, <2>3, <3>3, TabletRange
    <3>5. cleaned[g] = Whole(Exposed(g))
      BY <3>3, <3>4 DEF Whole, TabletsOf
    <3>6. QED
      BY <1>b, <2>1, <3>1, <3>5 DEF CleanerKnows, Exposed
  <2>4. QED
    BY <2>2, <2>3
<1>6. CASE CleanupTablet(w)
  <2> DEFINE p == Exposed(g)
             o == ordinal[w]
  <2>1. claim' = claim /\ plan' = plan /\ g < cursor
    BY <1>6, <1>a DEF CleanupTablet, At, CleanerKnows, Cleaning
  <2>2. /\ p \in Plan /\ plan[w] = p /\ Tabletted(p) /\ o \in TabletsOf(p)
        /\ cleaned'[g] = {p} \X (0..o)
    BY <1>6, <1>a, TabletCleaned
  <2>3. CASE o + 1 \in TabletsOf(p)
    <3>1. pc'[w] = "cleanup-tablet"
      BY <1>6, <2>2, <2>3 DEF CleanupTablet, NextTablet, At
    <3>2. QED
      BY <1>b, <2>1, <2>2, <3>1 DEF CleanerKnows, Exposed
  <2>4. CASE o + 1 \notin TabletsOf(p)
    <3>1. pc'[w] = "cleanup-final"
      BY <1>6, <1>a, <2>2, <2>4 DEF CleanupTablet, NextTablet, Goto, TypeOK, MemoryTypeOK
    <3>2. o = TabletCount[p] - 1
      BY <2>2, <2>4, TabletRange
    <3>3. cleaned'[g] = Whole(p)
      BY <2>2, <3>2, TabletRange DEF Whole
    <3>4. QED
      BY <1>b, <2>1, <3>1, <3>3 DEF CleanerKnows, Exposed
  <2>5. QED
    BY <2>3, <2>4
<1>7. CASE ~ (Publish(w) \/ RecoverStage(w) \/ StartCleanup(w) \/ ReadCleanupProgress(w)
              \/ CleanupTablet(w))
  BY <1>a, <1>1, <1>7, StaysWorking
<1>8. QED
  BY <1>1, <1>2, <1>3, <1>4, <1>5, <1>6, <1>7

\* Every step keeps what cleaning workers know.
LEMMA CleanerStep ==
    ASSUME IndInv, StageInv, [Next]_vars
    PROVE  CleanerInv'
<1>a. TypeOK /\ LocalInv /\ \A v \in Worker : CleanerKnows(v) /\ claim[v].generation \in Generation
  BY DEF IndInv, StageInv, CleanerInv, TypeOK, MemoryTypeOK, ClaimRecord
<1>1. ASSUME NEW v \in Worker, pc'[v] = pc[v], plan'[v] = plan[v], claim'[v] = claim[v]
      PROVE  CleanerKnows(v)'
  <2> DEFINE g == claim[v].generation
  <2>1. g < cursor => /\ g < cursor' /\ visible'[g].plan = visible[g].plan
                      /\ cleaned[g] = Whole(visible[g].plan) =>
                           cleaned'[g] = Whole(visible[g].plan)
    BY <1>a, CleanedForward DEF Exposed
  <2>2. pc[v] \in {"cleanup-ready", "cleanup-tablet", "cleanup-final"} => pc[v] \in Cleaning
    BY DEF Cleaning
  <2>3. QED
    BY <1>a, <1>1, <2>1, <2>2 DEF CleanerKnows, Exposed
<1>2. ASSUME NEW w \in Worker, StepOf(w)
      PROVE  CleanerInv'
  BY <1>a, <1>1, <1>2, OthersUntouched, CleanerActor DEF CleanerInv
<1>3. CASE Append \/ (\E s \in Sequence : Expire(s)) \/ UNCHANGED vars
  BY <1>1, <1>3 DEF Append, Expire, vars, memory, locals, CleanerInv
<1>4. CASE Restart
  BY <1>4 DEF Restart, CleanerInv, CleanerKnows, Cleaning
<1>5. QED
  BY <1>2, <1>3, <1>4, StepCases DEF StepOf
-----------------------------------------------------------------------------
(***************************************************************************)
(* What a step may do to one record.                                       *)
(***************************************************************************)
\* Records are put by the commit that is to put them, and else only removed.
LEMMA RecordChanges ==
    ASSUME IndInv, StageInv, NEW w \in Worker, StepOf(w),
           NEW g \in Generation, NEW o \in Ordinal
    PROVE  /\ \/ tablet'[g][o] \in {NoPlan, tablet[g][o]}
              \/ PutTablet(w) /\ claim[w].generation = g /\ open[w].ordinal = o
           /\ \/ applied'[g][o] \in {NoMarker, applied[g][o]}
              \/ ApplyTablet(w) /\ claim[w].generation = g /\ open[w].ordinal = o
<1>a. TypeOK /\ LocalInv
  BY DEF IndInv
<1>1. CASE ~RecordStepOf(w) \/ Publish(w)
  BY <1>1, <1>a, RecordFrame DEF Publish, staging
<1>2. CASE Commits(w) /\ claim[w].generation # g
  BY <1>2, <1>a, CommitFrame DEF SameRecords
<1>3. CASE Commits(w) /\ claim[w].generation = g
  <2>a. OpenShape(w) /\ open[w] # NoKey /\ LocalFacts(w)
    BY <1>3, CommitKnows
  <2>1. CASE ClearOrphan(w)
    <3>1. open[w].ordinal \in Ordinal
      BY <2>1, <2>a DEF ClearOrphan, At, OpenShape
    <3>2. QED
      BY <1>3, <1>a, <2>1, <3>1 DEF ClearOrphan, TypeOK, DurableTypeOK
  <2>2. CASE ClearReady(w) \/ PutReady(w)
    BY <2>2 DEF ClearReady, PutReady
  <2>3. CASE DropLegacy(w)
    BY <1>3, <1>a, <2>3 DEF DropLegacy, TypeOK, DurableTypeOK
  <2>4. CASE PutTablet(w)
    <3>1. open[w].ordinal = ordinal[w] /\ ordinal[w] \in Ordinal
      BY <2>4, <2>a, TabletRange DEF PutTablet, At, OpenShape, LocalFacts, Key
    <3>2. QED
      BY <1>3, <1>a, <2>4, <3>1 DEF PutTablet, TypeOK, DurableTypeOK
  <2>5. CASE PutHeader(w)
    BY <1>3, <1>a, <2>5, <2>a DEF PutHeader, At, LocalFacts, TypeOK, DurableTypeOK
  <2>6. CASE ApplyTablet(w)
    <3>1. open[w].ordinal = ordinal[w] /\ ordinal[w] \in Ordinal
      BY <2>6, <2>a, TabletRange DEF ApplyTablet, At, OpenShape, LocalFacts
    <3>2. QED
      BY <1>3, <1>a, <2>6, <3>1 DEF ApplyTablet, TypeOK, DurableTypeOK
  <2>7. QED
    BY <1>3, <2>1, <2>2, <2>3, <2>4, <2>5, <2>6 DEF Commits
<1>4. CASE CleanupTablet(w)
  <2>1. claim[w].generation \in Generation
    BY <1>4, CleanupFrame
  <2>2. QED
    BY <1>4, <1>a, <2>1 DEF CleanupTablet, TypeOK, DurableTypeOK
<1>5. CASE CleanupFinal(w)
  BY <1>5, <1>a DEF CleanupFinal, TypeOK, DurableTypeOK
<1>6. QED
  BY <1>1, <1>2, <1>3, <1>4, <1>5 DEF RecordStepOf

LEMMA HeaderChanges ==
    ASSUME IndInv, StageInv, NEW w \in Worker, StepOf(w), NEW g \in Generation
    PROVE  \/ stage'[g] \in {NoPlan, stage[g]}
           \/ /\ PutHeader(w) /\ claim[w].generation = g
              /\ stage'[g] = plan[w] /\ plan[w] \in Plan
<1>a. TypeOK /\ LocalInv
  BY DEF IndInv
<1>1. CASE PutHeader(w)
  BY <1>1, <1>a DEF PutHeader, At, LocalInv, LocalFacts, TypeOK, DurableTypeOK
<1>2. CASE DropLegacy(w) \/ CleanupFinal(w)
  BY <1>2, <1>a DEF DropLegacy, CleanupFinal, TypeOK, DurableTypeOK
<1>3. CASE ClearOrphan(w) \/ ClearReady(w) \/ PutTablet(w) \/ ApplyTablet(w) \/ PutReady(w)
           \/ CleanupTablet(w) \/ Publish(w)
  BY <1>3 DEF ClearOrphan, ClearReady, PutTablet, ApplyTablet, PutReady, CleanupTablet, Publish,
              staging
<1>4. CASE ~RecordStepOf(w)
  BY <1>4, <1>a, RecordFrame DEF staging
<1>5. QED
  BY <1>1, <1>2, <1>3, <1>4 DEF RecordStepOf, Commits

\* Until the publication a header, a marker and the ready marker are written once.
LEMMA WrittenOnce ==
    ASSUME IndInv, StageInv, [Next]_vars, NEW g \in Generation, ~(g < cursor')
    PROVE  /\ ~(g < cursor) /\ torn \subseteq torn'
           /\ stage'[g] = Legacy => stage[g] = Legacy
           /\ stage[g] \in Plan => stage'[g] = stage[g]
           /\ ready[g] # NotReady => ready'[g] = ready[g]
           /\ \A o \in Ordinal : applied[g][o] # NoMarker => applied'[g][o] = applied[g][o]
<1>a. TypeOK /\ LocalInv /\ NoPlan # Legacy /\ NoPlan \notin Plan /\ Legacy \notin Plan
  BY PlanAssumption DEF IndInv
<1>b. ~(g < cursor)
  BY CursorForward, BoundAssumption DEF IndInv, Ordered, TypeOK, DurableTypeOK, Generation
<1>1. ASSUME torn \subseteq torn', SameRecords(g)
      PROVE  /\ torn \subseteq torn'
             /\ stage'[g] = Legacy => stage[g] = Legacy
             /\ stage[g] \in Plan => stage'[g] = stage[g]
             /\ ready[g] # NotReady => ready'[g] = ready[g]
             /\ \A o \in Ordinal : applied[g][o] # NoMarker => applied'[g][o] = applied[g][o]
  BY <1>1 DEF SameRecords
<1>2. ASSUME NEW w \in Worker, Commits(w), claim[w].generation = g
      PROVE  /\ stage'[g] = Legacy => stage[g] = Legacy
             /\ stage[g] \in Plan => stage'[g] = stage[g]
             /\ ready[g] # NotReady => ready'[g] = ready[g]
             /\ \A o \in Ordinal : applied[g][o] # NoMarker => applied'[g][o] = applied[g][o]
  <2>a. OpenShape(w) /\ open[w] # NoKey /\ OpenKnows(w) /\ LocalFacts(w)
    BY <1>2, CommitKnows
  <2>1. CASE ClearOrphan(w)
    BY <2>1, <2>a DEF ClearOrphan, At, OpenKnows
  <2>2. CASE ClearReady(w)
    BY <2>2, <2>a, <1>2 DEF ClearReady, At, OpenKnows
  <2>3. CASE PutReady(w)
    BY <2>3, <2>a, <1>2 DEF PutReady, At, OpenKnows
  <2>4. CASE DropLegacy(w)
    BY <2>4, <2>a, <1>a, <1>2 DEF DropLegacy, At, OpenKnows, TypeOK, DurableTypeOK
  <2>5. CASE PutTablet(w)
    BY <2>5 DEF PutTablet
  <2>6. CASE PutHeader(w)
    BY <2>6, <2>a, <1>a, <1>2 DEF PutHeader, At, OpenKnows, LocalFacts, TypeOK, DurableTypeOK
  <2>7. CASE ApplyTablet(w)
    <3>1. open[w].ordinal = ordinal[w] /\ applied[g][ordinal[w]] = NoMarker
      BY <1>2, <2>7, <2>a DEF ApplyTablet, At, OpenShape, OpenKnows
    <3>2. QED
      BY <1>2, <1>a, <2>7, <3>1 DEF ApplyTablet, TypeOK, DurableTypeOK
  <2>8. QED
    BY <1>2, <2>1, <2>2, <2>3, <2>4, <2>5, <2>6, <2>7 DEF Commits
<1>3. CASE \E w \in Worker : Commits(w)
  <2>1. PICK w \in Worker : Commits(w)
    BY <1>3
  <2>2. torn \subseteq torn' /\ (claim[w].generation # g => SameRecords(g))
    BY <1>a, <2>1, CommitFrame
  <2>3. QED
    BY <1>1, <1>2, <1>b, <2>1, <2>2
<1>4. CASE \E w \in Worker : CleanupTablet(w) \/ CleanupFinal(w)
  BY <1>1, <1>4, <1>b, CleanupFrame
<1>5. CASE \E w \in Worker : Publish(w)
  BY <1>5, <1>b DEF Publish, staging, aside
<1>6. CASE UNCHANGED <<cursor, staging, prepared, visible, cleaned, torn>>
  BY <1>6, <1>b DEF staging
<1>7. QED
  BY <1>3, <1>4, <1>5, <1>6, <1>a, StepCases, RecordFrame, EnvironmentFrame
     DEF StepOf, RecordStepOf

\* The digests a worker compared are those of its own steps.
LEMMA AgreeUntouched ==
    ASSUME TypeOK, LocalInv, NEW w \in Worker, StepOf(w), NEW v \in Worker, v # w
    PROVE  agree'[v] = agree[v]
<1>1. CASE Forget(w) \/ CleanupReturns(w) \/ Abort(w)
  BY <1>1 DEF Forget, CleanupReturns, Abort, locals, TypeOK, MemoryTypeOK
<1>2. CASE StartApply(w) \/ Unchanged(w) \/ Begins(w) \/ Commits(w)
  <2>1. CASE Begins(w)
    BY <2>1, BeginFacts DEF memory, locals
  <2>2. CASE Commits(w)
    BY <2>2 DEF Commits, ClearOrphan, ClearReady, DropLegacy, PutTablet, PutHeader, ApplyTablet,
                PutReady, memory, locals, TypeOK, MemoryTypeOK
  <2>3. CASE StartApply(w) \/ Unchanged(w)
    BY <2>3 DEF StartApply, Unchanged, TypeOK, MemoryTypeOK
  <2>4. QED
    BY <1>2, <2>1, <2>2, <2>3
<1>3. QED
  BY <1>1, <1>2
     DEF StepOf, QuietStep, ScanClaims, ScanStages, RecoverStage, Initialized, DiscardLegacy,
         LoadStage, Prepare, CheckStage, OrphansCleared, CleanupUnpublished, StartCleanup,
         ReadCleanupProgress, CleanupTablet, LoseClaim, Reject, Fail, ReleaseFails, RecoverClaim,
         Claim, Publish, CleanupFinal, Release, Internal, locals

\* Nobody writes the record of a transaction that stays open.
LEMMA OpenRecordKept ==
    ASSUME IndInv, StageInv, NEW w \in Worker, StepOf(w),
           NEW v \in Worker, v # w, open'[v] # NoKey
    PROVE  LET g == claim[v].generation
               o == open[v].ordinal
           IN  /\ open'[v] = open[v]
               /\ open[v].kind = "tablet" => tablet'[g][o] = tablet[g][o]
               /\ open[v].kind = "applied" => applied'[g][o] = applied[g][o]
               /\ open[v] = ReadyKey => ready'[g] = ready[g]
               /\ open[v] = HeaderKey => stage'[g] = stage[g]
<1> DEFINE g == claim[v].generation
           o == open[v].ordinal
<1>a. /\ TypeOK /\ LocalInv /\ g \in Generation /\ OpenShape(v) /\ OpenShape(w) /\ LocalFacts(v)
      /\ claim[w].generation \in Generation /\ LocalFacts(w)
  BY DEF IndInv, LocalInv, TypeOK, MemoryTypeOK, ClaimRecord
<1>b. open'[v] = open[v] /\ open[v] # NoKey
  BY <1>a, OthersUntouched
<1>c. ASSUME NEW K, Committed(w, g, K)
      PROVE  <<open[v].kind, o>> \notin K
  BY <1>b, <1>c DEF Committed
<1>d. ReadyKey.kind = "ready" /\ ReadyKey.ordinal = 0 /\ HeaderKey.kind = "header" /\ HeaderKey.ordinal = 0
  BY DEF ReadyKey, HeaderKey, Key
<1>1. CASE ~RecordStepOf(w) \/ Publish(w)
  BY <1>1, <1>a, <1>b, RecordFrame DEF Publish, staging
<1>2. CASE Commits(w) /\ claim[w].generation # g
  BY <1>2, <1>a, <1>b, CommitFrame DEF SameRecords
<1>3. CASE Commits(w) /\ claim[w].generation = g
  <2>a. Committed(w, g, {<<open[w].kind, open[w].ordinal>>}) /\ open[w] # NoKey
    BY <1>3 DEF Commits, ClearOrphan, ClearReady, DropLegacy, PutTablet, PutHeader,
                ApplyTablet, PutReady, Target
  <2>b. ~(open[v].kind = open[w].kind /\ o = open[w].ordinal)
    BY <2>a, <1>c
  <2>1. CASE ClearOrphan(w)
    BY <1>3, <1>a, <1>b, <2>1, <2>b DEF ClearOrphan, TypeOK, DurableTypeOK
  <2>2. CASE ClearReady(w) \/ PutReady(w)
    <3>1. open[w] = ReadyKey
      BY <2>2, <2>a, <1>a DEF ClearReady, PutReady, At, OpenShape
    <3>2. QED
      BY <1>b, <2>2, <2>b, <3>1 DEF ClearReady, PutReady
  <2>3. CASE DropLegacy(w) \/ PutHeader(w)
    <3>1. open[w] = HeaderKey
      BY <2>3, <2>a, <1>a DEF DropLegacy, PutHeader, At, OpenShape
    <3>2. QED
      BY <1>b, <2>3, <2>b, <3>1 DEF DropLegacy, PutHeader
  <2>4. CASE PutTablet(w)
    <3>1. open[w].kind = "tablet" /\ open[w].ordinal = ordinal[w]
      BY <2>4, <2>a, <1>a DEF PutTablet, At, OpenShape, Key
    <3>2. QED
      BY <1>3, <1>a, <1>b, <2>4, <2>b, <3>1 DEF PutTablet, TypeOK, DurableTypeOK
  <2>5. CASE ApplyTablet(w)
    <3>1. open[w].kind = "applied" /\ open[w].ordinal = ordinal[w]
      BY <2>5, <2>a, <1>a DEF ApplyTablet, At, OpenShape
    <3>2. QED
      BY <1>3, <1>a, <1>b, <2>5, <2>b, <3>1 DEF ApplyTablet, TypeOK, DurableTypeOK
  <2>6. QED
    BY <1>3, <2>1, <2>2, <2>3, <2>4, <2>5 DEF Commits
<1>4. CASE CleanupTablet(w)
  <2>1. CASE claim[w].generation = g
    <3>1. <<open[v].kind, o>> \notin {<<"tablet", ordinal[w]>>, <<"applied", ordinal[w]>>, <<"ready", 0>>}
      BY <1>4, <1>c, <2>1 DEF CleanupTablet
    <3>2. QED
      BY <1>4, <1>a, <1>b, <1>d, <2>1, <3>1 DEF CleanupTablet, TypeOK, DurableTypeOK
  <2>2. CASE claim[w].generation # g
    BY <1>4, <1>a, <1>b, <2>2, CleanupFrame DEF SameRecords
  <2>3. QED
    BY <2>1, <2>2
<1>5. CASE CleanupFinal(w)
  <2>1. CASE claim[w].generation = g
    <3>1. <<open[v].kind, o>> \notin {<<"header", 0>>, <<"ready", 0>>}
      BY <1>5, <1>c, <2>1 DEF CleanupFinal
    <3>2. QED
      BY <1>5, <1>b, <1>d, <3>1 DEF CleanupFinal
  <2>2. CASE claim[w].generation # g
    BY <1>5, <1>a, <1>b, <2>2, CleanupFrame DEF SameRecords
  <2>3. QED
    BY <2>1, <2>2
<1>6. QED
  BY <1>1, <1>2, <1>3, <1>4, <1>5 DEF RecordStepOf
-----------------------------------------------------------------------------
(***************************************************************************)
(* What is so as long as a transaction is open.                            *)
(***************************************************************************)
\* The generation of a claim, and when it counts as published.
LEMMA Numbers ==
    ASSUME IndInv
    PROVE  /\ TypeOK /\ LocalInv /\ cursor \in Nat
           /\ \A g \in Generation : g \in Nat
           /\ \A w \in Worker : claim[w].generation \in Generation
           /\ NoPlan \notin Plan /\ Legacy \notin Plan /\ NoPlan # Legacy
BY PlanAssumption, BoundAssumption
   DEF IndInv, TypeOK, DurableTypeOK, MemoryTypeOK, ClaimRecord, Generation

\* The ordinal of an open transaction on a tablet or a marker is one of the stage.
LEMMA OpenOrdinal ==
    ASSUME IndInv, NEW w \in Worker, open[w] # NoKey
    PROVE  /\ pc[w] \in {"clear", "put-tablet", "apply-tablet"} => open[w].ordinal \in Ordinal
           /\ pc[w] \in {"put-tablet", "apply-tablet"} =>
                open[w].ordinal = ordinal[w] /\ open[w].ordinal \in TabletsOf(plan[w])
           /\ pc[w] = "put-tablet" => open[w].kind = "tablet"
           /\ pc[w] = "apply-tablet" => open[w].kind = "applied"
           /\ pc[w] \in {"clear-ready", "put-ready"} => open[w] = ReadyKey
           /\ pc[w] \in {"drop-legacy", "put-header"} => open[w] = HeaderKey
<1>1. OpenShape(w) /\ LocalFacts(w)
  BY DEF IndInv, LocalInv
<1>2. pc[w] \in {"put-tablet", "apply-tablet"} =>
        plan[w] \in Plan /\ ordinal[w] \in TabletsOf(plan[w]) /\ ordinal[w] \in Ordinal
  BY <1>1, TabletRange DEF LocalFacts
<1>3. QED
  BY <1>1, <1>2 DEF OpenShape, Key

\* What is open when its generation is published can only be what clears, or puts a tablet
\* that no published plan has.
LEMMA OpenPublished ==
    ASSUME IndInv, StageInv, NEW w \in Worker, Publish(w),
           NEW v \in Worker, v # w, claim[v].generation = cursor
    PROVE  OpenKnows(v)'
<1> DEFINE g == claim[v].generation
           o == open[v].ordinal
<1>a. /\ cursor' = cursor + 1 /\ UNCHANGED <<claim, open, agree, staging>>
      /\ pc'[v] = pc[v] /\ g \in Generation /\ cursor \in Nat
      /\ OpenKnows(v) /\ ReaderKnows(v) /\ LocalFacts(v)
  BY Numbers, WriterOwns
     DEF Publish, aside, locals, Goto, TypeOK, MemoryTypeOK, StageInv, OpenInv, ReaderInv, LocalInv
<1>b. UNCHANGED <<stage, tablet, applied, ready>> /\ g < cursor' /\ ~(g < cursor)
  BY <1>a DEF staging
<1>c. /\ Exposed(g)' = stage[g] /\ stage[g] \in Plan
      /\ \A i \in TabletsOf(stage[g]) : applied[g][i] = Mark(stage[g])
      /\ Tabletted(stage[g]) => ready[g] # NotReady
  BY <1>a, SettledPublish
<1>d. Mark(stage[g]) # NoMarker /\ stage[g] # NoPlan
  BY <1>c, Numbers DEF Mark, NoMarker
<1>1. CASE open[v] = NoKey
  BY <1>a, <1>1 DEF OpenKnows
<1>2. CASE open[v] # NoKey
  <2>1. pc[v] \notin {"drop-legacy", "put-header"}
    BY <1>2, <1>a, <1>c, <1>d DEF OpenKnows
  <2>2. pc[v] # "put-ready"
    BY <1>2, <1>a, <1>b, <1>c DEF OpenKnows, ReaderKnows
  <2>3. pc[v] # "apply-tablet"
    BY <1>2, <1>a, <1>b, <1>c, <1>d, OpenOrdinal DEF OpenKnows, ReaderKnows
  <2>4. pc[v] = "put-tablet" => o \notin TabletsOf(stage[g])
    BY <1>2, <1>a, <1>b, <1>c, <1>d DEF OpenKnows
  <2>5. QED
    BY <1>2, <1>a, <1>b, <1>c, <2>1, <2>2, <2>3, <2>4 DEF OpenKnows, Exposed
<1>3. QED
  BY <1>1, <1>2

\* Only the publication of the claimed entry takes a worker's generation behind the cursor.
LEMMA CursorOf ==
    ASSUME IndInv, StageInv, NEW w \in Worker, StepOf(w), NEW g \in Generation,
           ~(Publish(w) /\ g = cursor)
    PROVE  g < cursor' <=> g < cursor
<1>1. CASE Publish(w)
  <2>1. cursor' = cursor + 1 /\ cursor \in Nat /\ g \in Nat
    BY <1>1, WriterOwns, Numbers DEF Publish
  <2>2. QED
    BY <1>1, <2>1
<1>2. CASE Commits(w)
  BY <1>2, Numbers, CommitFrame DEF queue
<1>3. CASE CleanupTablet(w) \/ CleanupFinal(w)
  BY <1>3, CleanupFrame
<1>4. CASE ~RecordStepOf(w)
  BY <1>4, Numbers, RecordFrame
<1>5. QED
  BY <1>1, <1>2, <1>3, <1>4 DEF RecordStepOf

\* A header that comes while a transaction that clears is open is not for its tablet.
LEMMA ClearMissesHeader ==
    ASSUME IndInv, StageInv, [Next]_vars, NEW w \in Worker, StepOf(w),
           NEW v \in Worker, v # w, open[v] # NoKey, pc[v] = "clear",
           NEW g \in Generation, g = claim[v].generation,
           ~(g < cursor'), stage'[g] \in Plan, g \notin torn'
    PROVE  open[v].ordinal \notin TabletsOf(stage'[g])
<1>a. open[v].ordinal \in Ordinal /\ OpenKnows(v)
  BY OpenOrdinal DEF StageInv, OpenInv
<1>b. ~(g < cursor) /\ torn \subseteq torn' /\ (stage[g] \in Plan => stage'[g] = stage[g])
  BY WrittenOnce
<1>1. CASE stage[g] \in Plan
  BY <1>1, <1>a, <1>b DEF OpenKnows
<1>2. CASE stage[g] \notin Plan
  <2>1. PutHeader(w) /\ claim[w].generation = g /\ stage'[g] = plan[w] /\ plan[w] \in Plan
    BY <1>2, Numbers, HeaderChanges
  <2>2. Owns(w) /\ pc[w] = "put-header"
    BY <2>1 DEF PutHeader, At
  <2>3. OwnerKnows(w)
    BY <2>2 DEF StageInv, OwnerInv
  <2>4. ~Tabletted(plan[w])
    BY <2>1, <2>2, <2>3 DEF OwnerKnows, NoneOpen
  <2>5. QED
    BY <2>1, <2>4, TabletRange
<1>3. QED
  BY <1>1, <1>2

\* The steps of other workers.
LEMMA OpenOther ==
    ASSUME IndInv, StageInv, [Next]_vars, NEW w \in Worker, StepOf(w), NEW v \in Worker, v # w
    PROVE  OpenKnows(v)'
<1> DEFINE g == claim[v].generation
           o == open[v].ordinal
<1>a. /\ pc'[v] = pc[v] /\ claim'[v] = claim[v] /\ agree'[v] = agree[v]
      /\ g \in Generation /\ OpenKnows(v)
  BY Numbers, OthersUntouched, AgreeUntouched DEF StageInv, OpenInv
<1>1. CASE open'[v] = NoKey
  BY <1>1 DEF OpenKnows
<1>2. CASE Publish(w) /\ g = cursor
  BY <1>2, OpenPublished
<1>3. CASE open'[v] # NoKey /\ ~(Publish(w) /\ g = cursor)
  <2>1. /\ open'[v] = open[v] /\ open[v] # NoKey
        /\ open[v].kind = "tablet" => tablet'[g][o] = tablet[g][o]
        /\ open[v].kind = "applied" => applied'[g][o] = applied[g][o]
        /\ open[v] = ReadyKey => ready'[g] = ready[g]
        /\ open[v] = HeaderKey => stage'[g] = stage[g]
    BY <1>3, OpenRecordKept
  <2>2. (g < cursor' <=> g < cursor) /\ (g < cursor => Exposed(g)' = Exposed(g))
    BY <1>3, <1>a, CursorOf, CleanedForward
  <2>3. CASE pc[v] = "clear"
    BY <1>a, <2>1, <2>2, <2>3, ClearMissesHeader DEF OpenKnows
  <2>4. CASE pc[v] = "put-tablet"
    <3>1. o \in Ordinal /\ open[v].kind = "tablet"
      BY <2>1, <2>4, OpenOrdinal
    <3>2. ~(g < cursor) => applied[g][o] = NoMarker
      BY <1>a, <2>1, <2>4 DEF OpenKnows
    <3>3. ~(ApplyTablet(w) /\ claim[w].generation = g /\ open[w].ordinal = o)
      BY <2>1, <2>4 DEF StageInv, ApartInv, Apart, ApplyTablet, At
    <3>4. applied'[g][o] \in {NoMarker, applied[g][o]}
      BY <1>a, <3>1, <3>3, RecordChanges
    <3>5. QED
      BY <1>a, <2>1, <2>2, <2>4, <3>1, <3>2, <3>4 DEF OpenKnows, Exposed
  <2>5. CASE pc[v] = "apply-tablet"
    <3>1. o \in Ordinal /\ open[v].kind = "applied"
      BY <2>1, <2>5, OpenOrdinal
    <3>2. ~(PutTablet(w) /\ claim[w].generation = g /\ open[w].ordinal = o)
      BY <2>1, <2>5 DEF StageInv, ApartInv, Apart, PutTablet, At
    <3>3. tablet'[g][o] \in {NoPlan, tablet[g][o]}
      BY <1>a, <3>1, <3>2, RecordChanges
    <3>4. QED
      BY <1>a, <2>1, <2>2, <2>5, <3>1, <3>3 DEF OpenKnows
  <2>6. CASE pc[v] \in {"clear-ready", "put-ready"}
    BY <1>a, <2>1, <2>2, <2>6, OpenOrdinal DEF OpenKnows
  <2>7. CASE pc[v] \in {"drop-legacy", "put-header"}
    BY <1>a, <2>1, <2>2, <2>7, OpenOrdinal DEF OpenKnows
  <2>8. QED
    BY <1>a, <2>3, <2>4, <2>5, <2>6, <2>7 DEF OpenKnows
<1>4. QED
  BY <1>1, <1>2, <1>3

\* What a transaction finds when it begins.
LEMMA OpenBegun ==
    ASSUME IndInv, StageInv, NEW w \in Worker, Begins(w)
    PROVE  OpenKnows(w)'
<1> DEFINE g == claim[w].generation
<1>a. /\ Owns(w) /\ open \in [Worker -> KeyRecord]
      /\ UNCHANGED <<pc, claim, plan, ordinal, agree, cursor, stage, tablet, applied, ready, visible>>
  BY Numbers, BeginFacts
     DEF durable, memory, queue, staging, index, locals, TypeOK, MemoryTypeOK
<1>b. g \in Generation /\ g = cursor /\ cursor \in Nat /\ OwnerKnows(w) /\ LocalFacts(w) /\ ~(g < cursor)
  BY <1>a, Numbers, WriterOwns DEF StageInv, OwnerInv, LocalInv
<1>1. CASE BeginClear(w)
  <2> DEFINE T == {o \in Ordinal : tablet[g][o] # NoPlan}
  <2>1. pc[w] = "clear" /\ Marked(g) = {} /\ (stage[g] \in Plan => g \in torn)
    BY <1>1, <1>b DEF BeginClear, At, OwnerKnows, Early
  <2>2. T # {} /\ T \in SUBSET Nat
    BY <1>1, <2>1 DEF BeginClear, Marked, Ordinal
  <2>3. open'[w] = Key("tablet", Smallest(T)) /\ torn' = torn
    BY <1>1, <1>a, <2>2 DEF BeginClear, Begin
  <2>4. Smallest(T) \in T
    BY <2>2, SmallestOrdinal
  <2>5. open'[w].kind = "tablet" /\ open'[w].ordinal = Smallest(T)
    BY <2>3 DEF Key
  <2>6. QED
    BY <1>a, <2>1, <2>3, <2>4, <2>5 DEF OpenKnows
<1>2. CASE BeginRemove(w)
  <2>1. pc[w] = "clear-ready" => ready[g] = NotReady
    BY <1>b DEF OwnerKnows, Early
  <2>2. pc[w] = "drop-legacy" => stage[g] \notin Plan
    BY <1>b DEF OwnerKnows, LocalFacts
  <2>3. QED
    BY <1>2, <1>a, <1>b, <2>1, <2>2 DEF BeginRemove, At, OpenKnows
<1>3. CASE BeginPut(w)
  <2>1. CASE At(w, "put-tablet")
    <3>1. open'[w] = Key("tablet", ordinal[w]) /\ tablet[g][ordinal[w]] = NoPlan
      BY <1>3, <1>a, <2>1 DEF BeginPut, Begin, At
    <3>2. ordinal[w] \in Ordinal /\ Marked(g) = {}
      BY <1>b, <2>1, TabletRange DEF At, LocalFacts, OwnerKnows, Early
    <3>3. applied[g][ordinal[w]] = NoMarker /\ open'[w].ordinal = ordinal[w]
      BY <3>1, <3>2 DEF Marked, Key
    <3>4. QED
      BY <1>a, <1>b, <2>1, <3>1, <3>3 DEF OpenKnows, At
  <2>2. CASE At(w, "put-header")
    BY <1>3, <1>a, <1>b, <2>2 DEF BeginPut, At, OpenKnows
  <2>3. QED
    BY <1>3, <2>1, <2>2 DEF BeginPut
<1>4. CASE BeginApply(w)
  <2>1. open'[w] = [kind |-> "applied", ordinal |-> ordinal[w], tablet |-> tablet[g][ordinal[w]]]
    BY <1>4, <1>a DEF BeginApply, Begin
  <2>2. open'[w].ordinal = ordinal[w] /\ open'[w].tablet = tablet[g][ordinal[w]]
    BY <2>1
  <2>3. QED
    BY <1>4, <1>a, <1>b, <2>2 DEF BeginApply, At, OpenKnows
<1>5. CASE BeginReady(w)
  BY <1>5, <1>a, <1>b DEF BeginReady, At, OpenKnows
<1>6. QED
  BY <1>1, <1>2, <1>3, <1>4, <1>5 DEF Begins

\* Every step keeps what the open transactions need.
LEMMA OpenStep ==
    ASSUME IndInv, StageInv, [Next]_vars
    PROVE  OpenInv'
<1>1. ASSUME NEW w \in Worker, StepOf(w)
      PROVE  OpenKnows(w)'
  <2>1. CASE Begins(w)
    BY <2>1, OpenBegun
  <2>2. CASE ~Begins(w)
    BY <1>1, <2>2, Numbers, OpenFrame DEF StepOf, OpenKnows
  <2>3. QED
    BY <2>1, <2>2
<1>2. CASE Append \/ (\E s \in Sequence : Expire(s)) \/ UNCHANGED vars
  BY <1>2 DEF Append, Expire, vars, durable, queue, staging, index, memory, locals, aside,
              StageInv, OpenInv, OpenKnows, Exposed
<1>3. CASE Restart
  BY <1>3 DEF Restart, OpenInv, OpenKnows
<1>4. QED
  BY <1>1, <1>2, <1>3, OpenOther, StepCases DEF StepOf, OpenInv

\* And keeps the tablets that are put apart from those that are applied.
LEMMA ApartStep ==
    ASSUME IndInv, StageInv, [Next]_vars
    PROVE  ApartInv'
<1>a. TypeOK /\ LocalInv /\ ApartInv
  BY Numbers DEF StageInv
<1>1. ASSUME NEW v \in Worker, NEW w \in Worker,
             pc'[v] = pc[v], pc'[w] = pc[w], claim'[v] = claim[v], claim'[w] = claim[w],
             open'[v] \in {NoKey, open[v]}, open'[w] \in {NoKey, open[w]}
      PROVE  Apart(v, w)'
  BY <1>1, <1>a DEF ApartInv, Apart
<1>2. ASSUME NEW x \in Worker, StepOf(x), NEW v \in Worker, NEW w \in Worker
      PROVE  Apart(v, w)'
  <2>1. CASE v # x /\ w # x
    BY <1>1, <1>2, <1>a, <2>1, OthersUntouched
  <2>2. CASE (v = x \/ w = x) /\ ~Begins(x)
    <3>1. open'[x] = NoKey
      BY <1>2, <1>a, <2>2, OpenFrame DEF StepOf
    <3>2. QED
      BY <2>2, <3>1 DEF Apart
  <2>3. CASE v = x /\ w # x /\ Begins(x)
    <3>1. /\ Owns(x) /\ UNCHANGED <<pc, claim>> /\ open'[w] = open[w] /\ OwnerKnows(x)
      BY <1>a, <2>3, BeginFacts DEF memory, locals, StageInv, OwnerInv
    <3>2. QED
      BY <2>3, <3>1 DEF Apart, OwnerKnows, Early, NoneOpen
  <2>4. CASE w = x /\ v # x /\ Begins(x)
    <3>1. UNCHANGED <<pc, claim>> /\ open'[v] = open[v] /\ OpenKnows(v)
      BY <1>a, <2>4, BeginFacts DEF memory, locals, StageInv, OpenInv
    <3>2. ASSUME pc[x] = "apply-tablet"
          PROVE  tablet[claim[x].generation][open'[x].ordinal] # NoPlan
      <4>1. BeginApply(x)
        BY <2>4, <3>2 DEF Begins, BeginClear, BeginRemove, BeginPut, BeginReady, At
      <4>2. open'[x] = [kind |-> "applied", ordinal |-> ordinal[x],
                        tablet |-> tablet[claim[x].generation][ordinal[x]]]
        BY <4>1, <1>a DEF BeginApply, Begin, TypeOK, MemoryTypeOK
      <4>3. QED
        BY <4>1, <4>2 DEF BeginApply
    <3>3. QED
      BY <2>4, <3>1, <3>2 DEF Apart, OpenKnows
  <2>5. CASE v = x /\ w = x
    BY <2>5 DEF Apart
  <2>6. QED
    BY <2>1, <2>2, <2>3, <2>4, <2>5
<1>3. CASE Append \/ (\E s \in Sequence : Expire(s)) \/ UNCHANGED vars
  BY <1>3, <1>a DEF Append, Expire, vars, memory, locals, aside, ApartInv, Apart
<1>4. CASE Restart
  BY <1>4 DEF Restart, ApartInv, Apart
<1>5. QED
  BY <1>2, <1>3, <1>4, StepCases DEF StepOf, ApartInv
-----------------------------------------------------------------------------
(***************************************************************************)
(* What workers may rely on, with or without their claim.                  *)
(***************************************************************************)
\* The steps at which a worker relies on what it has read of its generation.
Relying == {"load", "prepare", "stage", "put-header", "put-tablet", "clear", "clear-ready",
            "drop-legacy", "apply", "apply-tablet", "put-ready", "publish"}

\* The steps that lead there.
StageStep(w) ==
    \/ DiscardLegacy(w) \/ LoadStage(w) \/ Prepare(w) \/ CheckStage(w) \/ OrphansCleared(w)
    \/ StartApply(w) \/ Begins(w) \/ Commits(w) \/ Unchanged(w)

LEMMA RelyingAfter ==
    ASSUME TypeOK, NEW w \in Worker, StepOf(w), ~StageStep(w)
    PROVE  pc'[w] \notin Relying
<1>1. CASE CleanupUnpublished(w) \/ CleanupFinal(w)
  BY <1>1 DEF CleanupUnpublished, CleanupFinal, CleanupReturns, Goto, TypeOK, MemoryTypeOK, Relying
<1>2. CASE LoseClaim(w) \/ Reject(w) \/ Fail(w)
  BY <1>2 DEF LoseClaim, Reject, Fail, Abort, Goto, TypeOK, MemoryTypeOK, Relying
<1>3. CASE ScanClaims(w) \/ ScanStages(w) \/ RecoverStage(w) \/ Initialized(w) \/ RecoverClaim(w)
           \/ Claim(w) \/ Release(w) \/ ReleaseFails(w)
  BY <1>3 DEF ScanClaims, ScanStages, RecoverStage, Initialized, RecoverClaim, Claim, Release,
              ReleaseFails, At, Goto, TypeOK, MemoryTypeOK, Relying
<1>4. CASE Publish(w) \/ StartCleanup(w) \/ ReadCleanupProgress(w) \/ CleanupTablet(w)
  BY <1>4 DEF Publish, StartCleanup, ReadCleanupProgress, CleanupTablet, NextTablet, At, Goto,
              TypeOK, MemoryTypeOK, Relying
<1>5. QED
  BY <1>1, <1>2, <1>3, <1>4 DEF StepOf, QuietStep, StageStep

\* Steps that work on a stage do so under the claim the worker had, and leave the cursor.
LEMMA StageStepFrame ==
    ASSUME IndInv, NEW w \in Worker, StageStep(w)
    PROVE  claim' = claim /\ cursor' = cursor /\ StepOf(w)
<1>1. CASE Begins(w)
  BY <1>1, Numbers, BeginFacts DEF memory, locals, durable, queue, StepOf, QuietStep
<1>2. CASE Commits(w)
  BY <1>2, Numbers, CommitFrame DEF queue, StepOf, QuietStep
<1>3. CASE ~Begins(w) /\ ~Commits(w)
  BY <1>3 DEF StageStep, DiscardLegacy, LoadStage, Prepare, CheckStage, OrphansCleared, StartApply,
              Unchanged, Internal, durable, queue, locals, StepOf, QuietStep
<1>4. QED
  BY <1>1, <1>2, <1>3

\* What it has read stays so, whatever the others do.
LEMMA ReaderFrame ==
    ASSUME IndInv, StageInv, [Next]_vars, NEW v \in Worker,
           pc'[v] = pc[v], plan'[v] = plan[v], claim'[v] = claim[v], ordinal'[v] = ordinal[v],
           agree'[v] = agree[v]
    PROVE  ReaderKnows(v)'
<1> DEFINE g == claim[v].generation
           p == plan[v]
<1>a. ReaderKnows(v) /\ g \in Generation /\ NoPlan \notin Plan
  BY Numbers DEF StageInv, ReaderInv
<1>1. CASE g < cursor'
  BY <1>1 DEF ReaderKnows
<1>2. CASE ~(g < cursor')
  <2>1. /\ ~(g < cursor) /\ torn \subseteq torn'
        /\ stage'[g] = Legacy => stage[g] = Legacy
        /\ stage[g] \in Plan => stage'[g] = stage[g]
        /\ ready[g] # NotReady => ready'[g] = ready[g]
        /\ \A i \in Ordinal : applied[g][i] # NoMarker => applied'[g][i] = applied[g][i]
    BY <1>2, <1>a, WrittenOnce
  <2>2. CASE pc[v] \in {"apply-tablet", "put-ready"}
    <3>1. stage[g] \in Plan /\ stage'[g] = stage[g] /\ p = stage[g] /\ Tabletted(p)
      BY <1>a, <2>1, <2>2 DEF ReaderKnows
    <3>2. Mark(p) # NoMarker /\ TabletsOf(p) \subseteq Ordinal
      BY <1>a, <3>1, TabletRange DEF Mark, NoMarker
    <3>3. QED
      BY <1>a, <2>1, <2>2, <3>1, <3>2 DEF ReaderKnows, Mark
  <2>3. CASE pc[v] = "publish"
    <3>1. stage[g] \in Plan /\ stage'[g] = stage[g] /\ (Tabletted(stage[g]) => ready[g].plan = stage[g])
      BY <1>a, <2>1, <2>3 DEF ReaderKnows
    <3>2. NotReady.plan = NoPlan
      BY DEF NotReady
    <3>3. Tabletted(stage[g]) => ready'[g].plan = stage[g]
      BY <1>a, <2>1, <3>1, <3>2
    <3>4. QED
      BY <2>3, <3>1, <3>3 DEF ReaderKnows
  <2>4. CASE pc[v] \notin {"apply-tablet", "put-ready", "publish"}
    BY <1>a, <2>1, <2>4 DEF ReaderKnows
  <2>5. QED
    BY <2>2, <2>3, <2>4
<1>3. QED
  BY <1>1, <1>2

\* After one more tablet, found applied or applied: agreement means that its marker names
\* the plan, and every tablet of an untorn stage agrees.
LEMMA ReaderTablet ==
    ASSUME IndInv, StageInv, NEW w \in Worker, NEW t, NEW g \in Generation,
           g = claim[w].generation, ~(g < cursor), pc[w] = "apply-tablet",
           NextTablet(w, "put-ready"), agree'[w] = (agree[w] /\ t = plan[w]),
           UNCHANGED <<claim, plan, stage, cursor>>, torn \subseteq torn',
           applied'[g][ordinal[w]] = [tablet |-> t, stage |-> plan[w]],
           \A i \in Ordinal : i # ordinal[w] => applied'[g][i] = applied[g][i],
           tablet[g][ordinal[w]] \in {NoPlan, t}
    PROVE  ReaderKnows(w)'
<1> DEFINE p == plan[w]
           o == ordinal[w]
<1>a. TypeOK /\ ReaderKnows(w) /\ LocalFacts(w) /\ Pending(g) /\ NoPlan \notin Plan
  BY Numbers DEF StageInv, ReaderInv, RecordInv, LocalInv
<1>b. /\ p = stage[g] /\ p \in Plan /\ Tabletted(p) /\ o \in TabletsOf(p)
      /\ g \notin torn => agree[w]
      /\ agree[w] => \A i \in TabletsOf(p) : i < o => applied[g][i] = Mark(p)
  BY <1>a DEF ReaderKnows, LocalFacts
<1>c. /\ ordinal'[w] = o + 1 /\ o \in Nat /\ TabletsOf(p) \subseteq Ordinal
      /\ TabletsOf(p) = 0..(TabletCount[p] - 1) /\ TabletCount[p] \in Nat
      /\ pc'[w] = IF o + 1 \in TabletsOf(p) THEN "apply-tablet" ELSE "put-ready"
  BY <1>a, <1>b, TabletRange DEF NextTablet, Goto, TypeOK, MemoryTypeOK
<1>1. g \notin torn' => agree'[w]
  <2>1. g \notin torn => tablet[g][o] = p
    BY <1>a, <1>b DEF Pending
  <2>2. g \notin torn => t = p
    BY <1>a, <1>b, <2>1
  <2>3. QED
    BY <1>b, <2>2
<1>2. agree'[w] => applied'[g][o] = Mark(p)
  BY DEF Mark
<1>3. agree'[w] => \A i \in TabletsOf(p) : i < o + 1 => applied'[g][i] = Mark(p)
  <2>1. \A i \in TabletsOf(p) : i \in Ordinal /\ (i < o + 1 => i < o \/ i = o)
    BY <1>c
  <2>2. agree'[w] => agree[w]
    OBVIOUS
  <2>3. QED
    BY <1>b, <1>2, <2>1, <2>2
<1>4. pc'[w] = "put-ready" => \A i \in TabletsOf(p) : i < o + 1
  BY <1>b, <1>c
<1>5. QED
  BY <1>b, <1>c, <1>1, <1>3, <1>4 DEF ReaderKnows, Mark

\* What a worker relies on after a step of its own.
LEMMA ReaderActor ==
    ASSUME IndInv, StageInv, [Next]_vars, NEW w \in Worker, StageStep(w)
    PROVE  ReaderKnows(w)'
<1> DEFINE g == claim[w].generation
           p == plan[w]
           o == ordinal[w]
<1>a. /\ TypeOK /\ ReaderKnows(w) /\ LocalFacts(w) /\ g \in Generation /\ claim' = claim
      /\ cursor' = cursor /\ stage[g] \in Plan \cup {NoPlan, Legacy}
      /\ NoPlan \notin Plan /\ Legacy \notin Plan /\ NoPlan # Legacy
  BY Numbers, StageStepFrame DEF StageInv, ReaderInv, LocalInv, TypeOK, DurableTypeOK
<1>0. CASE g < cursor
  BY <1>0, <1>a DEF ReaderKnows
<1>b. ~(g < cursor) => Pending(g)
  BY <1>a DEF StageInv, RecordInv
<1>1. CASE DiscardLegacy(w)
  <2>1. /\ p = NoPlan /\ plan' = plan /\ stage' = stage
        /\ pc'[w] = IF stage[g] = Legacy THEN "clear" ELSE "load"
    BY <1>1, <1>a
       DEF DiscardLegacy, At, Goto, LocalFacts, Internal, locals, durable, staging, TypeOK, MemoryTypeOK
  <2>2. QED
    BY <1>a, <2>1 DEF ReaderKnows
<1>2. CASE LoadStage(w)
  <2>1. /\ stage[g] # Legacy /\ stage' = stage
        /\ pc'[w] = IF stage[g] = NoPlan THEN "prepare" ELSE "apply"
    BY <1>2, <1>a DEF LoadStage, Goto, Internal, durable, staging, TypeOK, MemoryTypeOK
  <2>2. QED
    BY <1>a, <2>1 DEF ReaderKnows
<1>3. CASE Prepare(w)
  <2>1. pc[w] = "prepare" /\ stage' = stage /\ pc'[w] = "stage"
    BY <1>3, <1>a DEF Prepare, At, Goto, Internal, durable, staging, TypeOK, MemoryTypeOK
  <2>2. QED
    BY <1>a, <2>1 DEF ReaderKnows
<1>4. CASE CheckStage(w)
  <2>1. stage[g] \in {NoPlan, p} /\ p \in Plan /\ stage' = stage /\ plan' = plan
    BY <1>4, <1>a DEF CheckStage, At, LocalFacts, Internal, durable, staging, locals
  <2>2. pc'[w] = IF stage[g] = p THEN "apply" ELSE IF Tabletted(p) THEN "clear" ELSE "put-header"
    BY <1>4, <1>a DEF CheckStage, Goto, TypeOK, MemoryTypeOK
  <2>3. QED
    BY <1>a, <2>1, <2>2 DEF ReaderKnows
<1>5. CASE OrphansCleared(w)
  <2>1. stage' = stage /\ plan' = plan /\ pc[w] = "clear" /\ pc'[w] = "clear-ready"
    BY <1>5, <1>a
       DEF OrphansCleared, At, Goto, Internal, durable, staging, locals, TypeOK, MemoryTypeOK
  <2>2. QED
    BY <1>a, <2>1 DEF ReaderKnows
<1>6. CASE StartApply(w)
  <2>1. /\ stage[g] \in Plan /\ plan'[w] = stage[g] /\ stage' = stage /\ ready' = ready
        /\ ordinal'[w] = 0 /\ agree'[w] = TRUE
        /\ pc'[w] = IF Tabletted(stage[g]) /\ ready[g].plan # stage[g]
                    THEN "apply-tablet" ELSE "publish"
    BY <1>6, <1>a DEF StartApply, Goto, Internal, durable, staging, TypeOK, MemoryTypeOK
  <2>2. \A i \in TabletsOf(stage[g]) : ~(i < 0)
    BY <2>1, TabletRange
  <2>3. QED
    BY <1>a, <2>1, <2>2 DEF ReaderKnows
<1>7. CASE Begins(w)
  BY <1>7, <1>a, BeginFacts, ReaderFrame, Numbers DEF memory, locals
<1>8. CASE Unchanged(w) /\ ~(g < cursor)
  <2>1. UNCHANGED <<claim, plan, stage, tablet, applied, ready, torn>>
    BY <1>8 DEF Unchanged, Internal, durable, staging, aside
  <2>2. CASE pc[w] = "put-tablet"
    <3>1. pc'[w] \in {"put-tablet", "put-header"}
      BY <1>8, <1>a, <2>2 DEF Unchanged, At, NextTablet, Goto, TypeOK, MemoryTypeOK
    <3>2. QED
      BY <1>8, <1>a, <2>1, <2>2, <3>1 DEF ReaderKnows
  <2>3. CASE pc[w] = "put-header"
    <3>1. stage[g] = p /\ p \in Plan /\ pc'[w] = "apply"
      BY <1>8, <1>a, <2>3 DEF Unchanged, At, Goto, LocalFacts, TypeOK, MemoryTypeOK
    <3>2. QED
      BY <1>8, <1>a, <2>1, <3>1 DEF ReaderKnows
  <2>4. CASE pc[w] = "apply-tablet"
    <3>1. /\ NextTablet(w, "put-ready") /\ agree'[w] = (agree[w] /\ tablet[g][o] = p)
          /\ applied[g][o] = [tablet |-> tablet[g][o], stage |-> p]
      BY <1>8, <1>a, <2>4 DEF Unchanged, At, TypeOK, MemoryTypeOK
    <3>2. QED
      BY <1>8, <1>a, <2>1, <2>4, <3>1, ReaderTablet
  <2>5. CASE pc[w] = "put-ready"
    <3>1. ready[g] = [plan |-> p, cleanupOrdinal |-> 0] /\ pc'[w] = "publish"
      BY <1>8, <1>a, <2>5 DEF Unchanged, At, Goto, TypeOK, MemoryTypeOK
    <3>2. ready[g].plan = p
      BY <3>1
    <3>3. QED
      BY <1>8, <1>a, <2>1, <2>5, <3>1, <3>2 DEF ReaderKnows
  <2>6. QED
    BY <1>8, <2>2, <2>3, <2>4, <2>5 DEF Unchanged, At
<1>9. CASE ClearOrphan(w)
  <2>1. stage' = stage /\ plan' = plan /\ pc' = pc /\ pc[w] = "clear"
    BY <1>9 DEF ClearOrphan, At, memory, locals
  <2>2. QED
    BY <1>a, <2>1 DEF ReaderKnows
<1>10. CASE ClearReady(w)
  <2>1. /\ stage' = stage /\ plan' = plan /\ pc[w] = "clear-ready"
        /\ pc'[w] = IF p = NoPlan THEN "drop-legacy" ELSE "put-tablet"
    BY <1>10, <1>a DEF ClearReady, At, Goto, TypeOK, MemoryTypeOK
  <2>2. QED
    BY <1>a, <2>1 DEF ReaderKnows
<1>11. CASE DropLegacy(w)
  <2>1. stage'[g] = NoPlan /\ pc'[w] = "load"
    BY <1>11, <1>a DEF DropLegacy, Goto, TypeOK, DurableTypeOK, MemoryTypeOK
  <2>2. QED
    BY <1>a, <2>1 DEF ReaderKnows
<1>12. CASE PutTablet(w)
  <2>1. stage' = stage /\ pc[w] = "put-tablet" /\ pc'[w] \in {"put-tablet", "put-header"}
    BY <1>12, <1>a DEF PutTablet, NextTablet, At, Goto, TypeOK, MemoryTypeOK
  <2>2. QED
    BY <1>a, <2>1 DEF ReaderKnows
<1>13. CASE PutHeader(w)
  <2>1. stage'[g] = p /\ p \in Plan /\ pc'[w] = "apply"
    BY <1>13, <1>a DEF PutHeader, At, Goto, LocalFacts, TypeOK, DurableTypeOK, MemoryTypeOK
  <2>2. QED
    BY <1>a, <2>1 DEF ReaderKnows
<1>14. CASE ApplyTablet(w) /\ ~(g < cursor)
  <2> DEFINE t == open[w].tablet
  <2>1. /\ NextTablet(w, "put-ready") /\ agree'[w] = (agree[w] /\ t = p) /\ pc[w] = "apply-tablet"
        /\ UNCHANGED <<claim, plan, stage, torn>> /\ open[w] # NoKey
    BY <1>14, <1>a DEF ApplyTablet, At, TypeOK, MemoryTypeOK
  <2>2. o \in Ordinal /\ open[w].ordinal = o
    BY <2>1, OpenOrdinal
  <2>3. /\ applied'[g] = [applied[g] EXCEPT ![o] = [tablet |-> t, stage |-> p]]
        /\ applied[g] \in [Ordinal -> MarkerRecord]
    BY <1>14, <1>a DEF ApplyTablet, TypeOK, DurableTypeOK
  <2>4. tablet[g][o] \in {NoPlan, t}
    BY <2>1, <2>2 DEF StageInv, OpenInv, OpenKnows
  <2>5. QED
    BY <1>14, <1>a, <2>1, <2>2, <2>3, <2>4, ReaderTablet
<1>15. CASE PutReady(w) /\ ~(g < cursor)
  <2>1. /\ stage' = stage /\ pc[w] = "put-ready" /\ pc'[w] = "publish"
        /\ ready'[g] = [plan |-> p, cleanupOrdinal |-> 0]
    BY <1>15, <1>a DEF PutReady, At, Goto, TypeOK, DurableTypeOK, MemoryTypeOK
  <2>2. ready'[g].plan = p
    BY <2>1
  <2>3. QED
    BY <1>15, <1>a, <2>1, <2>2 DEF ReaderKnows
<1>16. QED
  BY <1>0, <1>1, <1>2, <1>3, <1>4, <1>5, <1>6, <1>7, <1>8, <1>9, <1>10, <1>11, <1>12, <1>13, <1>14,
     <1>15 DEF StageStep, Commits

\* Every step keeps what workers rely on.
LEMMA ReaderStep ==
    ASSUME IndInv, StageInv, [Next]_vars
    PROVE  ReaderInv'
<1>a. TypeOK /\ LocalInv
  BY Numbers
<1>1. ASSUME NEW w \in Worker, StepOf(w), NEW v \in Worker
      PROVE  ReaderKnows(v)'
  <2>1. CASE v = w /\ StageStep(w)
    BY <2>1, ReaderActor
  <2>2. CASE v = w /\ ~StageStep(w)
    BY <1>a, <1>1, <2>2, RelyingAfter DEF ReaderKnows, Relying
  <2>3. CASE v # w
    BY <1>a, <1>1, <2>3, OthersUntouched, AgreeUntouched, ReaderFrame
  <2>4. QED
    BY <2>1, <2>2, <2>3
<1>2. CASE Append \/ (\E s \in Sequence : Expire(s)) \/ UNCHANGED vars
  BY <1>2, ReaderFrame DEF Append, Expire, vars, memory, locals, ReaderInv
<1>3. CASE Restart
  BY <1>3 DEF Restart, ReaderInv, ReaderKnows
<1>4. QED
  BY <1>1, <1>2, <1>3, StepCases DEF StepOf, ReaderInv
-----------------------------------------------------------------------------
(***************************************************************************)
(* What the owner of a claim knows.                                        *)
(***************************************************************************)
\* No step gives a worker a claim it believed to have and had lost.
LEMMA OwnershipKept ==
    ASSUME IndInv, [Next]_vars, NEW v \in Worker, Owns(v)', claim'[v] = claim[v]
    PROVE  Owns(v)
<1> DEFINE s == claim[v].sequence
<1>a. TypeOK /\ s \in Sequence /\ claim[v].token # NoToken
  BY DEF IndInv, TypeOK, MemoryTypeOK, ClaimRecord, Owns
<1>b. /\ state'[s].status = "processing" /\ state'[s].token = claim[v].token
      /\ state'[s].generation = claim[v].generation
  BY DEF Owns
<1>1. ASSUME NEW w \in Worker, RecoverClaim(w)
      PROVE  state'[s] = state[s]
  <2> DEFINE x == Smallest(todo[w])
  <2>1. x \in Sequence
    BY <1>1, <1>a, SmallestMember DEF RecoverClaim, TypeOK, MemoryTypeOK
  <2>2. Freed(x).status = "pending"
    BY DEF Freed
  <2>3. QED
    BY <1>1, <1>a, <1>b, <2>1, <2>2 DEF RecoverClaim, TypeOK, DurableTypeOK
<1>2. ASSUME NEW w \in Worker, Claim(w)
      PROVE  state'[s] = state[s]
  <2>1. PICK token \in FreshToken :
          /\ state' = [state EXCEPT ![cursor] =
                         [status |-> "processing", generation |-> ClaimGeneration,
                          token |-> token, live |-> TRUE]]
    BY <1>2 DEF Claim
  <2>2. token # claim[v].token
    BY DEF FreshToken
  <2>3. QED
    BY <1>a, <1>b, <2>1, <2>2 DEF TypeOK, DurableTypeOK
<1>3. ASSUME NEW w \in Worker, Publish(w)
      PROVE  state'[s] = state[s]
  BY <1>3, <1>a, <1>b DEF Publish, Processed, TypeOK, DurableTypeOK
<1>4. ASSUME NEW w \in Worker, CleanupFinal(w)
      PROVE  state'[s] = state[s]
  BY <1>4, <1>a, <1>b DEF CleanupFinal, Unclaimed
<1>5. ASSUME NEW w \in Worker, Release(w)
      PROVE  state'[s] = state[s]
  BY <1>5, <1>a, <1>b DEF Release, Freed, TypeOK, DurableTypeOK
<1>6. ASSUME NEW x \in Sequence, Expire(x)
      PROVE  Owns(v)
  BY <1>6, <1>a, <1>b DEF Expire, Expired, Owns, TypeOK, DurableTypeOK
<1>7. CASE Append \/ Restart \/ UNCHANGED vars \/ \E w \in Worker : QuietStep(w)
  BY <1>7, <1>b, QuietFrame DEF Append, Restart, vars, durable, claims, Owns
<1>8. QED
  BY <1>1, <1>2, <1>3, <1>4, <1>5, <1>6, <1>7, <1>a, <1>b, StepCases DEF Owns

\* No transaction is open at these steps, unless one begins there.
LEMMA NoneOpenKept ==
    ASSUME IndInv, NEW w \in Worker, StepOf(w), NEW g, NEW S, NoneOpen(g, S),
           Begins(w) => pc[w] \notin S
    PROVE  NoneOpen(g, S)'
<1>a. TypeOK /\ LocalInv
  BY Numbers
<1>1. ASSUME NEW v \in Worker, v # w, claim'[v].generation = g, open'[v] # NoKey
      PROVE  pc'[v] \notin S
  BY <1>1, <1>a, OthersUntouched DEF NoneOpen
<1>2. CASE Begins(w)
  <2>1. pc' = pc
    BY <1>2, <1>a, BeginFacts DEF memory
  <2>2. QED
    BY <1>1, <1>2, <2>1 DEF NoneOpen
<1>3. CASE ~Begins(w)
  <2>1. open'[w] = NoKey
    BY <1>3, <1>a, OpenFrame DEF StepOf
  <2>2. QED
    BY <1>1, <2>1 DEF NoneOpen
<1>4. QED
  BY <1>2, <1>3

\* Without a header there is nothing applied, and nothing being applied.
LEMMA NoHeader ==
    ASSUME IndInv, StageInv, NEW g \in Generation, ~(g < cursor), stage[g] \notin Plan
    PROVE  /\ Marked(g) = {} /\ ready[g] = NotReady
           /\ NoneOpen(g, {"apply-tablet", "put-ready"})
           /\ stage[g] = Legacy => NoneOpen(g, {"put-header"})
<1>1. Pending(g)
  BY DEF StageInv, RecordInv
<1>2. Marked(g) = {} /\ ready[g] = NotReady
  BY <1>1 DEF Pending
<1>3. ASSUME NEW v \in Worker, claim[v].generation = g, open[v] # NoKey
      PROVE  /\ pc[v] \notin {"apply-tablet", "put-ready"}
             /\ stage[g] = Legacy => pc[v] # "put-header"
  BY <1>3, Numbers DEF StageInv, ReaderInv, ReaderKnows, OpenInv, OpenKnows
<1>4. QED
  BY <1>2, <1>3 DEF NoneOpen

\* The owner has put the tablets it counts, and the header after the last of them.
LEMMA OwnerPut ==
    ASSUME TypeOK, NEW w \in Worker, LocalFacts(w), NEW g \in Generation, pc[w] = "put-tablet",
           NextTablet(w, "put-header"),
           \A i \in TabletsOf(plan[w]) : i < ordinal[w] => tablet[g][i] = plan[w],
           tablet'[g][ordinal[w]] = plan[w],
           \A i \in Ordinal : i # ordinal[w] => tablet'[g][i] = tablet[g][i]
    PROVE  /\ pc'[w] \in {"put-tablet", "put-header"}
           /\ \A i \in TabletsOf(plan[w]) : i < ordinal'[w] => tablet'[g][i] = plan[w]
           /\ pc'[w] = "put-header" => \A i \in TabletsOf(plan[w]) : tablet'[g][i] = plan[w]
<1> DEFINE p == plan[w]
           o == ordinal[w]
<1>1. /\ p \in Plan /\ o \in TabletsOf(p) /\ ordinal'[w] = o + 1 /\ o \in Nat
      /\ TabletsOf(p) \subseteq Ordinal
      /\ TabletsOf(p) = 0..(TabletCount[p] - 1) /\ TabletCount[p] \in Nat
      /\ pc'[w] = IF o + 1 \in TabletsOf(p) THEN "put-tablet" ELSE "put-header"
  BY TabletRange DEF LocalFacts, NextTablet, Goto, TypeOK, MemoryTypeOK
<1>2. \A i \in TabletsOf(p) : i \in Ordinal /\ (i < o + 1 => i < o \/ i = o)
  BY <1>1
<1>3. \A i \in TabletsOf(p) : i < o + 1 => tablet'[g][i] = p
  BY <1>2
<1>4. pc'[w] = "put-header" => \A i \in TabletsOf(p) : i < o + 1
  BY <1>1
<1>5. QED
  BY <1>1, <1>3, <1>4

\* What an owner knows after a step of its own.
LEMMA OwnerActor ==
    ASSUME IndInv, StageInv, [Next]_vars, NEW w \in Worker, StageStep(w), Owns(w)'
    PROVE  OwnerKnows(w)'
<1> DEFINE g == claim[w].generation
           p == plan[w]
           o == ordinal[w]
<1>a. /\ TypeOK /\ g \in Generation /\ claim' = claim /\ StepOf(w)
      /\ NoPlan \notin Plan /\ Legacy \notin Plan /\ NoPlan # Legacy
  BY Numbers, StageStepFrame
<1>b. Owns(w)
  BY <1>a, OwnershipKept
<1>c. /\ OwnerKnows(w) /\ LocalFacts(w) /\ ~(g < cursor) /\ Pending(g)
      /\ stage[g] \in Plan \cup {NoPlan, Legacy}
  BY <1>a, <1>b, Numbers, WriterOwns
     DEF StageInv, OwnerInv, LocalInv, RecordInv, TypeOK, DurableTypeOK
<1>d. /\ pc[w] \in Early =>
           /\ Marked(g) = {} /\ ready[g] = NotReady /\ (stage[g] \in Plan => g \in torn)
           /\ NoneOpen(g, {"apply-tablet", "put-ready"})'
      /\ pc[w] \in {"clear", "clear-ready", "drop-legacy"} /\ p = NoPlan =>
           stage[g] \notin Plan /\ NoneOpen(g, {"put-header"})'
      /\ pc[w] \in {"clear-ready", "put-tablet"} => NoneOpen(g, {"clear"})'
  <2>1. CASE Begins(w)
    <3>1. pc[w] \in Early => pc[w] \notin {"apply-tablet", "put-ready"}
      BY DEF Early
    <3>2. QED
      BY <1>a, <1>c, <2>1, <3>1, NoneOpenKept DEF OwnerKnows
  <2>2. CASE ~Begins(w)
    BY <1>a, <1>c, <2>2, NoneOpenKept DEF OwnerKnows
  <2>3. QED
    BY <2>1, <2>2
<1>e. stage[g] \notin Plan /\ ~Begins(w) =>
        /\ Marked(g) = {} /\ ready[g] = NotReady
        /\ NoneOpen(g, {"apply-tablet", "put-ready"})'
        /\ stage[g] = Legacy => NoneOpen(g, {"put-header"})'
  BY <1>a, <1>c, NoHeader, NoneOpenKept
<1>1. CASE DiscardLegacy(w)
  <2>1. /\ p = NoPlan /\ plan' = plan /\ UNCHANGED <<stage, applied, ready>> /\ pc[w] = "discard"
        /\ pc'[w] = IF stage[g] = Legacy THEN "clear" ELSE "load"
    BY <1>1, <1>a, <1>c
       DEF DiscardLegacy, At, Goto, LocalFacts, Internal, locals, durable, staging, TypeOK, MemoryTypeOK
  <2>2. ~Begins(w)
    BY <2>1 DEF Begins, BeginClear, BeginRemove, BeginPut, BeginApply, BeginReady, At
  <2>3. QED
    BY <1>a, <1>e, <2>1, <2>2 DEF OwnerKnows, Early, Marked
<1>2. CASE LoadStage(w)
  <2>1. /\ stage[g] # Legacy /\ UNCHANGED <<stage, applied, ready>> /\ pc[w] = "load"
        /\ pc'[w] = IF stage[g] = NoPlan THEN "prepare" ELSE "apply"
    BY <1>2, <1>a DEF LoadStage, At, Goto, Internal, durable, staging, TypeOK, MemoryTypeOK
  <2>2. ~Begins(w)
    BY <2>1 DEF Begins, BeginClear, BeginRemove, BeginPut, BeginApply, BeginReady, At
  <2>3. QED
    BY <1>a, <1>e, <2>1, <2>2 DEF OwnerKnows, Early, Marked
<1>3. CASE Prepare(w)
  <2>1. /\ UNCHANGED <<stage, applied, ready, torn>> /\ pc[w] = "prepare" /\ pc'[w] = "stage"
    BY <1>3, <1>a DEF Prepare, At, Goto, Internal, durable, staging, aside, TypeOK, MemoryTypeOK
  <2>2. QED
    BY <1>a, <1>d, <2>1 DEF OwnerKnows, Early, Marked
<1>4. CASE CheckStage(w)
  <2>1. /\ p \in Plan /\ UNCHANGED <<stage, applied, ready, torn, plan>> /\ pc[w] = "stage"
    BY <1>4, <1>c
       DEF CheckStage, At, LocalFacts, Internal, durable, staging, locals, aside
  <2>2. \/ pc'[w] = "apply" \/ pc'[w] = "clear"
        \/ pc'[w] = "put-header" /\ ~Tabletted(p)
    BY <1>4, <1>a DEF CheckStage, Goto, TypeOK, MemoryTypeOK
  <2>3. ~Tabletted(p) => TabletsOf(p) = {}
    BY <2>1, TabletRange
  <2>4. QED
    BY <1>a, <1>d, <2>1, <2>2, <2>3 DEF OwnerKnows, Early, Marked
<1>5. CASE OrphansCleared(w)
  <2>1. /\ UNCHANGED <<stage, applied, ready, torn, plan, open>> /\ pc[w] = "clear"
        /\ pc'[w] = "clear-ready" /\ open[w] = NoKey
        /\ \A i \in Ordinal : tablet[g][i] = NoPlan
    BY <1>5, <1>a
       DEF OrphansCleared, At, Goto, Internal, durable, staging, locals, aside, TypeOK, MemoryTypeOK
  <2>2. ASSUME NEW v \in Worker, claim[v].generation = g, open[v] # NoKey
        PROVE  pc[v] # "clear"
    BY <2>1, <2>2, OpenOrdinal DEF StageInv, OpenInv, OpenKnows
  <2>3. \A v \in Worker : v # w => pc'[v] = pc[v]
    BY <1>a, OthersUntouched, Numbers
  <2>4. NoneOpen(g, {"clear"})'
    BY <1>a, <2>1, <2>2, <2>3 DEF NoneOpen
  <2>5. QED
    BY <1>a, <1>d, <2>1, <2>4 DEF OwnerKnows, Early, Marked
<1>6. CASE StartApply(w)
  <2>1. pc'[w] \in {"apply-tablet", "publish"}
    BY <1>6, <1>a DEF StartApply, Goto, TypeOK, MemoryTypeOK
  <2>2. QED
    BY <2>1 DEF OwnerKnows, Early
<1>7. CASE Begins(w)
  <2>1. UNCHANGED <<pc, claim, plan, ordinal, stage, tablet, applied, ready, torn>>
    BY <1>7, <1>a, Numbers, BeginFacts DEF memory, locals, durable, staging
  <2>2. NoneOpen(g, {"clear"}) /\ pc[w] \in {"clear-ready", "put-tablet", "put-header"}
          => NoneOpen(g, {"clear"})'
    BY <1>a, NoneOpenKept
  <2>3. QED
    BY <1>a, <1>c, <1>d, <2>1, <2>2 DEF OwnerKnows, Marked
<1>8. CASE Unchanged(w)
  <2>1. UNCHANGED <<claim, plan, stage, tablet, applied, ready, torn>>
    BY <1>8 DEF Unchanged, Internal, durable, staging, aside
  <2>2. CASE pc[w] = "put-tablet"
    <3>1. tablet[g][o] = p /\ NextTablet(w, "put-header")
      BY <1>8, <2>2 DEF Unchanged, At
    <3>2. \A i \in TabletsOf(p) : i < o => tablet[g][i] = p
      BY <1>c, <2>2 DEF OwnerKnows
    <3>3. /\ pc'[w] \in {"put-tablet", "put-header"}
          /\ \A i \in TabletsOf(p) : i < ordinal'[w] => tablet'[g][i] = p
          /\ pc'[w] = "put-header" => \A i \in TabletsOf(p) : tablet'[g][i] = p
      BY <1>a, <1>c, <2>1, <2>2, <3>1, <3>2, OwnerPut
    <3>4. QED
      BY <1>a, <1>d, <2>1, <2>2, <3>3 DEF OwnerKnows, Early, Marked
  <2>3. CASE pc[w] \in {"put-header", "apply-tablet", "put-ready"}
    <3>1. pc'[w] \in {"apply", "apply-tablet", "put-ready", "publish"}
      BY <1>8, <1>a, <2>3 DEF Unchanged, At, NextTablet, Goto, TypeOK, MemoryTypeOK
    <3>2. QED
      BY <3>1 DEF OwnerKnows, Early
  <2>4. QED
    BY <1>8, <2>2, <2>3 DEF Unchanged, At
<1>9. CASE ClearOrphan(w)
  <2>1. /\ UNCHANGED <<stage, plan, pc, ready, torn>> /\ pc[w] = "clear" /\ open[w] # NoKey
    BY <1>9 DEF ClearOrphan, At, memory, locals
  <2>2. applied' = applied
    BY <1>9, <2>1 DEF ClearOrphan, StageInv, OpenInv, OpenKnows
  <2>3. QED
    BY <1>a, <1>d, <2>1, <2>2 DEF OwnerKnows, Early, Marked
<1>10. CASE ClearReady(w)
  <2>1. /\ UNCHANGED <<stage, plan, applied, torn>> /\ pc[w] = "clear-ready"
        /\ ordinal'[w] = 0 /\ ready'[g] = NotReady
        /\ pc'[w] = IF p = NoPlan THEN "drop-legacy" ELSE "put-tablet"
    BY <1>10, <1>a DEF ClearReady, At, Goto, TypeOK, DurableTypeOK, MemoryTypeOK
  <2>2. p # NoPlan => \A i \in TabletsOf(p) : ~(i < 0)
    BY <1>c, <2>1, TabletRange DEF LocalFacts
  <2>3. QED
    BY <1>a, <1>d, <2>1, <2>2 DEF OwnerKnows, Early, Marked
<1>11. CASE DropLegacy(w)
  <2>1. pc'[w] = "load"
    BY <1>11, <1>a DEF DropLegacy, Goto, TypeOK, MemoryTypeOK
  <2>2. QED
    BY <2>1 DEF OwnerKnows, Early
<1>12. CASE PutTablet(w)
  <2>1. /\ UNCHANGED <<stage, plan, applied, ready, torn>> /\ pc[w] = "put-tablet"
        /\ NextTablet(w, "put-header") /\ p \in Plan /\ o \in TabletsOf(p)
    BY <1>12, <1>c DEF PutTablet, At, LocalFacts
  <2>2. o \in Ordinal
    BY <2>1, TabletRange
  <2>3. tablet'[g] = [tablet[g] EXCEPT ![o] = p] /\ tablet[g] \in [Ordinal -> Plan \cup {NoPlan}]
    BY <1>12, <1>a DEF PutTablet, TypeOK, DurableTypeOK
  <2>4. \A i \in TabletsOf(p) : i < o => tablet[g][i] = p
    BY <1>c, <2>1 DEF OwnerKnows
  <2>5. /\ pc'[w] \in {"put-tablet", "put-header"}
        /\ \A i \in TabletsOf(p) : i < ordinal'[w] => tablet'[g][i] = p
        /\ pc'[w] = "put-header" => \A i \in TabletsOf(p) : tablet'[g][i] = p
    BY <1>a, <1>c, <2>1, <2>2, <2>3, <2>4, OwnerPut
  <2>6. QED
    BY <1>a, <1>d, <2>1, <2>5 DEF OwnerKnows, Early, Marked
<1>13. CASE PutHeader(w) \/ PutReady(w)
  <2>1. pc'[w] \in {"apply", "publish"}
    BY <1>13, <1>a DEF PutHeader, PutReady, Goto, TypeOK, MemoryTypeOK
  <2>2. QED
    BY <2>1 DEF OwnerKnows, Early
<1>14. CASE ApplyTablet(w)
  <2>1. pc'[w] \in {"apply-tablet", "put-ready"}
    BY <1>14, <1>a DEF ApplyTablet, At, NextTablet, Goto, TypeOK, MemoryTypeOK
  <2>2. QED
    BY <2>1 DEF OwnerKnows, Early
<1>15. QED
  BY <1>1, <1>2, <1>3, <1>4, <1>5, <1>6, <1>7, <1>8, <1>9, <1>10, <1>11, <1>12, <1>13, <1>14
     DEF StageStep, Commits

\* What another worker can do to the stage of an owner.
LEMMA OthersWrite ==
    ASSUME IndInv, StageInv, [Next]_vars, NEW v \in Worker, Owns(v), NEW w \in Worker, w # v,
           StepOf(w), NEW g \in Generation, g = claim[v].generation
    PROVE  /\ ~Begins(w) /\ torn \subseteq torn'
           /\ ready'[g] # NotReady => ready[g] # NotReady \/ (PutReady(w) /\ claim[w].generation = g)
           /\ \A i \in Ordinal : tablet[g][i] # NoPlan /\ tablet'[g][i] # tablet[g][i] =>
                ClearOrphan(w) /\ claim[w].generation = g
           /\ PutHeader(w) /\ claim[w].generation = g => g \in torn'
<1>a. TypeOK /\ LocalInv /\ g = cursor /\ cursor \in Nat /\ ~Owns(w)
  BY WriterOwns, OwnerUnique, Numbers
<1>b. ~Begins(w) /\ ~Publish(w)
  BY <1>a, BeginFacts DEF Publish
<1>1. CASE ~RecordStepOf(w)
  BY <1>1, <1>a, <1>b, RecordFrame DEF staging, RecordStepOf, Commits
<1>2. CASE CleanupTablet(w) \/ CleanupFinal(w)
  <2>1. SameRecords(g) /\ torn' = torn /\ claim[w].generation # g
    BY <1>2, <1>a, CleanupFrame
  <2>2. QED
    BY <1>b, <2>1 DEF SameRecords
<1>3. CASE Commits(w) /\ claim[w].generation # g
  BY <1>3, <1>a, <1>b, CommitFrame DEF SameRecords
<1>4. CASE Commits(w) /\ claim[w].generation = g
  <2>a. torn \subseteq torn' /\ open[w] # NoKey /\ OpenKnows(w)
    BY <1>4, <1>a, CommitFrame DEF StageInv, OpenInv
  <2>1. CASE ClearOrphan(w)
    BY <1>4, <1>b, <2>a, <2>1 DEF ClearOrphan, PutHeader, At
  <2>2. CASE ClearReady(w) \/ PutReady(w)
    BY <1>4, <1>a, <1>b, <2>a, <2>2 DEF ClearReady, PutReady, PutHeader, At, TypeOK, DurableTypeOK
  <2>3. CASE DropLegacy(w) \/ ApplyTablet(w)
    BY <1>4, <1>b, <2>a, <2>3 DEF DropLegacy, ApplyTablet, PutHeader, At
  <2>4. CASE PutTablet(w)
    <3>1. pc[w] = "put-tablet" /\ tablet[g][open[w].ordinal] = NoPlan /\ open[w].ordinal = ordinal[w]
      BY <1>4, <2>a, <2>4, OpenOrdinal DEF PutTablet, At, OpenKnows
    <3>2. QED
      BY <1>4, <1>a, <1>b, <2>a, <2>4, <3>1 DEF PutTablet, PutHeader, At, TypeOK, DurableTypeOK
  <2>5. CASE PutHeader(w)
    BY <1>4, <1>a, <1>b, <2>a, <2>5 DEF PutHeader
  <2>6. QED
    BY <1>4, <2>1, <2>2, <2>3, <2>4, <2>5 DEF Commits
<1>5. QED
  BY <1>1, <1>2, <1>3, <1>4, <1>b DEF RecordStepOf

\* What an owner knows after a step of another worker.
LEMMA OwnerOther ==
    ASSUME IndInv, StageInv, [Next]_vars, NEW v \in Worker, Owns(v)', NEW w \in Worker, w # v,
           StepOf(w)
    PROVE  OwnerKnows(v)'
<1> DEFINE g == claim[v].generation
           p == plan[v]
<1>a. /\ TypeOK /\ LocalInv /\ g \in Generation /\ NoPlan \notin Plan
      /\ pc'[v] = pc[v] /\ plan'[v] = plan[v] /\ ordinal'[v] = ordinal[v] /\ claim'[v] = claim[v]
  BY Numbers, OthersUntouched
<1>b. Owns(v)
  BY <1>a, OwnershipKept
<1>c. OwnerKnows(v) /\ LocalFacts(v)
  BY <1>b DEF StageInv, OwnerInv, IndInv, LocalInv
<1>d. /\ ~Begins(w) /\ torn \subseteq torn'
      /\ ready'[g] # NotReady => ready[g] # NotReady \/ (PutReady(w) /\ claim[w].generation = g)
      /\ \A i \in Ordinal : tablet[g][i] # NoPlan /\ tablet'[g][i] # tablet[g][i] =>
           ClearOrphan(w) /\ claim[w].generation = g
      /\ PutHeader(w) /\ claim[w].generation = g => g \in torn'
  BY <1>a, <1>b, OthersWrite
<1>e. \A S : NoneOpen(g, S) => NoneOpen(g, S)'
  <2>1. ASSUME NEW S, NoneOpen(g, S)
        PROVE  NoneOpen(g, S)'
    BY <1>a, <1>d, <2>1, NoneOpenKept
  <2>2. QED
    BY <2>1
<1>f. ASSUME Commits(w), claim[w].generation = g, NEW S, NoneOpen(g, S)
      PROVE  pc[w] \notin S
  BY <1>f, <1>a, CommitFrame DEF NoneOpen
<1>1. ASSUME pc[v] \in Early
      PROVE  /\ Marked(g)' = {} /\ ready'[g] = NotReady
             /\ stage'[g] \in Plan => g \in torn'
             /\ NoneOpen(g, {"apply-tablet", "put-ready"})'
  <2>1. /\ Marked(g) = {} /\ ready[g] = NotReady /\ (stage[g] \in Plan => g \in torn)
        /\ NoneOpen(g, {"apply-tablet", "put-ready"})
    BY <1>c, <1>1 DEF OwnerKnows
  <2>2. ~(claim[w].generation = g /\ (ApplyTablet(w) \/ PutReady(w)))
    BY <1>f, <2>1 DEF Commits, ApplyTablet, PutReady, At
  <2>3. \A i \in Ordinal : applied'[g][i] = NoMarker
    BY <1>a, <2>1, <2>2, RecordChanges DEF Marked
  <2>4. stage'[g] \in Plan => g \in torn'
    <3>1. CASE PutHeader(w) /\ claim[w].generation = g
      BY <1>d, <3>1
    <3>2. CASE ~(PutHeader(w) /\ claim[w].generation = g)
      <4>1. stage'[g] \in {NoPlan, stage[g]}
        BY <1>a, <3>2, HeaderChanges
      <4>2. QED
        BY <1>a, <1>d, <2>1, <4>1
    <3>3. QED
      BY <3>1, <3>2
  <2>5. QED
    BY <1>a, <1>d, <1>e, <2>1, <2>2, <2>3, <2>4 DEF Marked
<1>2. ASSUME pc[v] \in {"clear", "clear-ready", "drop-legacy"}, p = NoPlan
      PROVE  stage'[g] \notin Plan /\ NoneOpen(g, {"put-header"})'
  <2>1. stage[g] \notin Plan /\ NoneOpen(g, {"put-header"})
    BY <1>c, <1>2 DEF OwnerKnows
  <2>2. ~(claim[w].generation = g /\ PutHeader(w))
    BY <1>f, <2>1 DEF Commits, PutHeader, At
  <2>3. stage'[g] \in {NoPlan, stage[g]}
    BY <1>a, <2>2, HeaderChanges
  <2>4. QED
    BY <1>a, <1>e, <2>1, <2>3
<1>3. ASSUME pc[v] \in {"clear-ready", "put-tablet"} \/ (pc[v] = "put-header" /\ Tabletted(p))
      PROVE  /\ NoneOpen(g, {"clear"})'
             /\ \A i \in Ordinal : tablet[g][i] # NoPlan => tablet'[g][i] = tablet[g][i]
  <2>1. NoneOpen(g, {"clear"})
    BY <1>c, <1>3 DEF OwnerKnows
  <2>2. ~(claim[w].generation = g /\ ClearOrphan(w))
    BY <1>f, <2>1 DEF Commits, ClearOrphan, At
  <2>3. QED
    BY <1>d, <1>e, <2>1, <2>2
<1>4. ASSUME pc[v] \in {"put-tablet", "put-header"}
      PROVE  p \in Plan /\ p # NoPlan /\ TabletsOf(p) \subseteq Ordinal
             /\ (~Tabletted(p) => TabletsOf(p) = {})
  BY <1>c, <1>4, TabletRange DEF LocalFacts
<1>5. pc[v] = "put-tablet" => \A i \in TabletsOf(p) : i < ordinal[v] => tablet'[g][i] = p
  BY <1>c, <1>3, <1>4 DEF OwnerKnows
<1>6. pc[v] = "put-header" => \A i \in TabletsOf(p) : tablet'[g][i] = p
  BY <1>c, <1>3, <1>4 DEF OwnerKnows
<1>7. QED
  BY <1>a, <1>1, <1>2, <1>3, <1>5, <1>6 DEF OwnerKnows

\* Every step keeps what the owner of a claim knows.
LEMMA OwnerStep ==
    ASSUME IndInv, StageInv, [Next]_vars
    PROVE  OwnerInv'
<1>a. TypeOK
  BY Numbers
<1>1. ASSUME NEW w \in Worker, StepOf(w), NEW v \in Worker, Owns(v)'
      PROVE  OwnerKnows(v)'
  <2>1. CASE v = w /\ StageStep(w)
    BY <1>1, <2>1, OwnerActor
  <2>2. CASE v = w /\ ~StageStep(w)
    BY <1>a, <1>1, <2>2, RelyingAfter DEF OwnerKnows, Relying, Early
  <2>3. CASE v # w
    BY <1>1, <2>3, OwnerOther
  <2>4. QED
    BY <2>1, <2>2, <2>3
<1>2. CASE Append \/ (\E s \in Sequence : Expire(s)) \/ UNCHANGED vars
  <2>1. UNCHANGED <<pc, plan, claim, ordinal, open, stage, tablet, applied, ready, torn>>
    BY <1>2 DEF Append, Expire, vars, memory, locals, aside, durable, staging
  <2>2. ASSUME NEW v \in Worker, Owns(v)'
        PROVE  OwnerKnows(v)'
    <3>1. OwnerKnows(v)
      BY <2>1, <2>2, OwnershipKept DEF StageInv, OwnerInv
    <3>2. QED
      BY <2>1, <3>1 DEF OwnerKnows, Marked, NoneOpen
  <2>3. QED
    BY <2>2 DEF OwnerInv
<1>3. CASE Restart
  BY <1>3 DEF Restart, OwnerInv, Owns, NoClaim
<1>4. QED
  BY <1>1, <1>2, <1>3, StepCases DEF StepOf, OwnerInv
-----------------------------------------------------------------------------
(***************************************************************************)
(* The theorems.                                                           *)
(***************************************************************************)
\* A new store, and one an older daemon left, keep the promises of the records.
LEMMA StageInit == Init => StageInv
<1> SUFFICES ASSUME Init PROVE StageInv
  OBVIOUS
<1>0. \A w \in Worker : open[w] = NoKey /\ pc[w] = "start"
  BY DEF Init
<1>1. ASSUME NEW g \in Generation PROVE ~(g < cursor) /\ Pending(g)
  <2>1. cursor = 1 /\ g \in Nat /\ g # 0
    BY <1>1, BoundAssumption DEF Init, Generation
  <2>2. stage[g] \notin Plan
    BY <1>1, PlanAssumption DEF Init, InitFresh, InitUpgraded
  <2>3. Marked(g) = {}
    BY <1>1 DEF Init, Marked
  <2>4. ready[g] = NotReady /\ prepared[g] = {} /\ cleaned[g] = {}
    BY <1>1 DEF Init
  <2>5. QED
    BY <2>1, <2>2, <2>3, <2>4 DEF Pending
<1>2. RecordInv
  BY <1>1 DEF RecordInv
<1>3. OpenInv /\ ApartInv
  BY <1>0 DEF OpenInv, OpenKnows, ApartInv, Apart
<1>4. ReaderInv
  BY <1>0 DEF ReaderInv, ReaderKnows
<1>5. OwnerInv
  BY <1>0 DEF OwnerInv, OwnerKnows, Early
<1>6. CleanerInv
  BY <1>0 DEF CleanerInv, CleanerKnows, Cleaning
<1>7. QED
  BY <1>2, <1>3, <1>4, <1>5, <1>6 DEF StageInv

\* And every step does.
LEMMA StageStepInv == IndInv /\ StageInv /\ [Next]_vars => StageInv'
BY RecordStep, OpenStep, ApartStep, ReaderStep, OwnerStep, CleanerStep DEF StageInv

\* What the records of a stage promise, and what workers may rely on, at every moment: also
\* while transactions are open whose worker has lost its claim.
THEOREM StageInductive == Spec => [](IndInv /\ StageInv)
<1>1. Init => IndInv /\ StageInv
  BY IndInit, StageInit
<1>2. (IndInv /\ StageInv) /\ [Next]_vars => (IndInv /\ StageInv)'
  BY IndStep, StageStepInv
<1>3. QED
  BY <1>1, <1>2, PTL DEF Spec

\* What publishGeneration makes visible is one whole plan, with the tablets of no other,
\* whichever workers prepared, staged and applied it before they lost their claim.
THEOREM PublishedWhole == Spec => []PublishedComplete
<1>1. IndInv /\ StageInv => PublishedComplete
  <2> SUFFICES ASSUME IndInv, StageInv, NEW s \in Sequence, s < cursor
               PROVE  prepared[visible[s].generation] =
                        {visible[s].plan} \X TabletsOf(visible[s].plan)
    BY DEF PublishedComplete
  <2>1. s \in Generation /\ visible[s].generation = s
    BY ConstantTypes DEF IndInv, GenerationInv
  <2>2. Settled(s)
    BY <2>1 DEF StageInv, RecordInv
  <2>3. QED
    BY <2>1, <2>2 DEF Settled, Exposed, Whole
<1>2. QED
  BY <1>1, StageInductive, PTL

\* The published generations are those below the cursor.
LEMMA PublishedBelow ==
    ASSUME IndInv, NEW g \in Generation
    PROVE  PublishedGeneration(g) <=> g < cursor
BY ConstantTypes DEF IndInv, GenerationInv, PublishedGeneration

\* For the owner of a claim none of the checks of outbox.js can fail, but for the put of a
\* tablet and for generations whose header came from a worker that had lost its claim.
LEMMA NoCorruption == IndInv /\ StageInv => OwnerNeverCorrupt
<1> SUFFICES ASSUME IndInv, StageInv, NEW w \in Worker, Owns(w), open[w] = NoKey,
                    claim[w].generation \notin torn, ~At(w, "put-tablet")
             PROVE  ~Corrupt(w)
  BY DEF OwnerNeverCorrupt
<1> DEFINE g == claim[w].generation
           p == plan[w]
           o == ordinal[w]
<1>a. /\ OwnerKnows(w) /\ ReaderKnows(w) /\ LocalFacts(w) /\ g = cursor
      /\ claim[w].sequence = cursor /\ g \in Generation /\ Pending(g) /\ publication[g] = 0
      /\ ~(g < cursor)
  BY WriterOwns DEF StageInv, OwnerInv, ReaderInv, IndInv, LocalInv, RecordInv, GenerationInv
<1>b. NoPlan \notin Plan /\ stage[g] \in Plan \cup {NoPlan, Legacy}
  BY <1>a, Numbers DEF TypeOK, DurableTypeOK
<1>1. CASE pc[w] = "discard"
  BY <1>a, <1>1 DEF Corrupt, At
<1>2. CASE pc[w] \in {"load", "stage", "put-header", "apply"}
  BY <1>a, <1>b, <1>2 DEF Corrupt, At, OwnerKnows, ReaderKnows, Early
<1>3. CASE pc[w] = "apply-tablet"
  <2>1. p \in Plan /\ p = stage[g] /\ o \in TabletsOf(p) /\ o \in Ordinal
    BY <1>a, <1>3, TabletRange DEF LocalFacts, ReaderKnows
  <2>2. tablet[g][o] = p
    BY <1>a, <2>1 DEF Pending
  <2>3. applied[g][o] \in {NoMarker, [tablet |-> p, stage |-> p]}
    <3>1. applied[g][o] # NoMarker =>
            applied[g][o].stage = p /\ applied[g][o].tablet = p
      BY <1>a, <1>b, <2>1, <2>2 DEF Pending, Marked
    <3>2. applied[g][o] \in MarkerRecord
      BY <1>a, <2>1, Numbers DEF TypeOK, DurableTypeOK
    <3>3. QED
      BY <3>1, <3>2 DEF MarkerRecord
  <2>4. QED
    BY <1>b, <1>3, <2>1, <2>2, <2>3 DEF Corrupt, At
<1>4. CASE pc[w] = "put-ready"
  <2>1. p = stage[g] /\ agree[w]
    BY <1>a, <1>4 DEF ReaderKnows
  <2>2. ready[g] \in {NotReady, [plan |-> p, cleanupOrdinal |-> 0]}
    BY <1>a, <2>1 DEF Pending
  <2>3. QED
    BY <1>4, <2>1, <2>2 DEF Corrupt, At
<1>5. CASE pc[w] = "publish"
  BY <1>a, <1>5 DEF Corrupt, At, Publishable, ReaderKnows
<1>6. CASE pc[w] \notin {"discard", "load", "stage", "put-header", "apply", "apply-tablet",
                         "put-ready", "publish"}
  BY <1>6 DEF Corrupt, At
<1>7. QED
  BY <1>1, <1>2, <1>3, <1>4, <1>5, <1>6

\* The life of a stage: the header that an owner wrote promises its tablets, its owner then
\* meets no integrity error, whatever former owners still commit, nothing is cleaned before the publication and everything before the stage goes
\* (stageGeneration, applyGenerationTablets, cleanupPublishedStage).
THEOREM LifecycleHolds == Spec => []StageLifecycle
<1>1. IndInv /\ StageInv => UntornStageMatches
  <2> SUFFICES ASSUME IndInv, StageInv, NEW g \in Generation \ torn, stage[g] \in Plan,
                      ~PublishedGeneration(g)
               PROVE  \A o \in TabletsOf(stage[g]) : tablet[g][o] = stage[g]
    BY DEF UntornStageMatches
  <2>1. Pending(g)
    BY PublishedBelow DEF StageInv, RecordInv
  <2>2. QED
    BY <2>1 DEF Pending
<1>2. IndInv /\ StageInv => CleanedAfterPublished
  <2> SUFFICES ASSUME IndInv, StageInv, NEW s \in Sequence, s < cursor,
                      stage[visible[s].generation] = NoPlan
               PROVE  cleaned[visible[s].generation] =
                        {visible[s].plan} \X TabletsOf(visible[s].plan)
    BY DEF CleanedAfterPublished
  <2>1. s \in Generation /\ visible[s].generation = s
    BY ConstantTypes DEF IndInv, GenerationInv
  <2>2. Settled(s)
    BY <2>1 DEF StageInv, RecordInv
  <2>3. QED
    BY <2>1, <2>2 DEF Settled, Exposed, Whole
<1>3. IndInv /\ StageInv => NothingCleanedEarly
  BY PublishedBelow DEF NothingCleanedEarly, StageInv, RecordInv, Pending
<1>4. IndInv /\ StageInv => StageLifecycle
  BY <1>1, <1>2, <1>3, NoCorruption DEF StageLifecycle, StageSound, CleanupExact
<1>5. QED
  BY <1>4, StageInductive, PTL
-----------------------------------------------------------------------------
(***************************************************************************)
(* The outbox implements an ordered log.                                   *)
(***************************************************************************)
\* What a reader of the index is shown.
LogContent == [s \in Sequence |-> IF s < cursor THEN {prepared[visible[s].generation]} ELSE {}]

\* The log is empty at first.
LEMMA LogInit == Init => Published!Init
<1> SUFFICES ASSUME Init PROVE Published!Init
  OBVIOUS
<1>1. counter \in 0..1 /\ cursor = 1
  BY DEF Init, InitFresh, InitUpgraded
<1>2. \A s \in Sequence : ~(s < cursor)
  BY <1>1, BoundAssumption DEF Sequence
<1>3. QED
  BY <1>1, <1>2 DEF Published!Init, Sequence

\* Publication is the step that shows the next entry of the log, with one whole plan.
LEMMA LogPublish ==
    ASSUME IndInv, StageInv, [Next]_vars, NEW w \in Worker, Publish(w)
    PROVE  Published!Publish
<1>a. /\ TypeOK /\ cursor \in Sequence /\ cursor \in Generation /\ cursor \in Nat
      /\ cursor <= counter /\ claim[w].generation = cursor /\ claim[w].sequence = cursor
  BY WriterOwns DEF IndInv
<1> DEFINE c == cursor
           p == stage[c]
<1>1. cursor' = cursor + 1 /\ counter' = counter /\ prepared' = prepared
  BY <1>a DEF Publish
<1>2. p \in Plan /\ visible' = [visible EXCEPT ![c] = [generation |-> c, plan |-> p]]
  BY <1>a DEF Publish, Publishable
<1>3. prepared[c] = Whole(p)
  <2>1. ASSUME NEW g \in Generation, g = cursor PROVE Settled(g)'
    BY <2>1, SettledPublish
  <2>2. \A g \in Generation : g = cursor => prepared'[g] = Whole(visible'[g].plan)
    BY <2>1 DEF Settled, Exposed
  <2>3. QED
    BY <1>a, <1>1, <1>2, <2>2 DEF TypeOK, DurableTypeOK
<1>4. counter \in Nat /\ cursor' - 1 = (cursor - 1) + 1 /\ cursor - 1 < counter /\ (cursor - 1) + 1 = c
  BY <1>a, <1>1, BoundAssumption DEF TypeOK, DurableTypeOK
<1>5. LogContent' = [LogContent EXCEPT ![c] = {Whole(p)}]
  <2>1. ASSUME NEW s \in Sequence
        PROVE  (IF s < cursor' THEN {prepared'[visible'[s].generation]} ELSE {}) =
                 IF s = c THEN {Whole(p)}
                 ELSE IF s < cursor THEN {prepared[visible[s].generation]} ELSE {}
    <3>1. s \in Nat /\ (s # c => (s < cursor' <=> s < cursor)) /\ c < cursor'
      BY <1>a, <1>1, BoundAssumption DEF Sequence
    <3>2. s = c => visible'[s].generation = c
      BY <1>a, <1>2 DEF TypeOK, DurableTypeOK
    <3>3. s # c => visible'[s] = visible[s]
      BY <1>a, <1>2 DEF TypeOK, DurableTypeOK
    <3>4. QED
      BY <1>1, <1>3, <3>1, <3>2, <3>3
  <2>2. QED
    BY <2>1, <1>a DEF LogContent
<1>6. Whole(p) \in {{q} \X TabletsOf(q) : q \in Plan}
  BY <1>2 DEF Whole
<1>7. QED
  BY <1>1, <1>4, <1>5, <1>6 DEF Published!Publish, LogContent

\* No other step shows or hides anything.
LEMMA LogStable ==
    ASSUME IndInv, StageInv, [Next]_vars, ~ \E w \in Worker : Publish(w)
    PROVE  cursor' = cursor /\ LogContent' = LogContent
<1>a. /\ TypeOK /\ LocalInv /\ cursor \in Nat /\ Generation = Sequence
      /\ \A s \in Sequence : s \in Nat
  BY ConstantTypes, BoundAssumption DEF IndInv, TypeOK, DurableTypeOK, Sequence
<1>b. \A s \in Sequence : s < cursor => visible[s].generation = s
  BY DEF IndInv, GenerationInv
<1>1. ASSUME NEW w \in Worker, Commits(w)
      PROVE  /\ cursor' = cursor /\ visible' = visible
             /\ \A s \in Sequence : s < cursor => prepared'[s] = prepared[s]
  <2>1. /\ cursor' = cursor /\ visible' = visible
        /\ \A s \in Generation : s # claim[w].generation => SameRecords(s)
    BY <1>1, <1>a, CommitFrame DEF queue
  <2>2. ASSUME NEW s \in Generation, s = claim[w].generation, s < cursor
        PROVE  prepared' = prepared
    BY <1>1, <2>2, SettledCommit
  <2>3. QED
    BY <1>a, <2>1, <2>2 DEF SameRecords
<1>2. ASSUME NEW w \in Worker, CleanupTablet(w) \/ CleanupFinal(w)
      PROVE  cursor' = cursor /\ visible' = visible /\ prepared' = prepared
  BY <1>2, CleanupFrame
<1>3. /\ cursor' = cursor /\ visible' = visible
      /\ \A s \in Sequence : s < cursor => prepared'[s] = prepared[s]
  BY <1>1, <1>2, <1>a, StepCases, RecordFrame, EnvironmentFrame DEF StepOf, RecordStepOf
<1>4. QED
  BY <1>b, <1>3 DEF LogContent

\* The counter moves by commits only.
LEMMA CounterStep ==
    ASSUME [Next]_vars
    PROVE  Append \/ counter' = counter
<1>1. ASSUME NEW w \in Worker, StepOf(w)
      PROVE  counter' = counter
  BY <1>1, QuietFrame DEF StepOf, RecoverClaim, Claim, Publish, CleanupFinal, Release, claims, queue
<1>2. CASE Restart \/ (\E s \in Sequence : Expire(s)) \/ UNCHANGED vars
  BY <1>2 DEF Restart, Expire, vars, durable, queue
<1>3. QED
  BY <1>1, <1>2, StepCases DEF StepOf

\* Readers of the index see a log: commits are appended, and shown in their order, one at a
\* time, each at once with all of the content of one plan, which then stays as it is.
THEOREM OutboxImplementsLog == Spec => Implements
<1>1. IndInv /\ StageInv /\ [Next]_vars => [Published!Next]_Published!vars
  <2> SUFFICES ASSUME IndInv, StageInv, [Next]_vars
               PROVE  Published!Next \/ UNCHANGED Published!vars
    OBVIOUS
  <2>1. CASE \E w \in Worker : Publish(w)
    BY <2>1, LogPublish DEF Published!Next
  <2>2. CASE ~ \E w \in Worker : Publish(w)
    <3>1. cursor' = cursor /\ LogContent' = LogContent
      BY <2>2, LogStable
    <3>2. CASE Append
      BY <3>1, <3>2 DEF Append, Published!Next, Published!Append, LogContent
    <3>3. CASE counter' = counter
      BY <3>1, <3>3 DEF Published!vars, LogContent
    <3>4. QED
      BY <3>2, <3>3, CounterStep
  <2>3. QED
    BY <2>1, <2>2
<1>2. QED
  BY <1>1, LogInit, StageInductive, PTL DEF Spec, Implements, Published!Spec
=============================================================================
