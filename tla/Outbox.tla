------------------------------- MODULE Outbox -------------------------------
(***************************************************************************)
(* The ordered index outbox of the RocksDB archive and the index workers   *)
(* that drain it (src/rocksdb/outbox.js, src/rocksdb/indexer.js).          *)
(*                                                                         *)
(* Every canonical commit appends one outbox entry.  A worker claims the   *)
(* entry at the durable cursor under a lease, prepares a plan of derived   *)
(* index mutations, stages the plan (a header and, for large plans, a      *)
(* number of tablets), applies the tablets one transaction at a time, then *)
(* publishes the generation and advances the cursor in one transaction,    *)
(* and finally removes the stage.  Each step below is a RocksDB            *)
(* transaction, its begin or its commit, or a read outside of one: other   *)
(* workers, lease expiry, errors and crashes come between any two of them. *)
(*                                                                         *)
(* RocksDB validates what a transaction writes, not what it only reads     *)
(* (guards.js).  A transaction that writes every record it decides by is   *)
(* one step.  One that only reads the claim and writes a stage record is   *)
(* two: the claim is checked when it begins (assertClaimOwner), and it     *)
(* commits unless that stage record was written meanwhile, although the    *)
(* claim may have passed to another worker.                                *)
(*                                                                         *)
(* A plan is a model value; what the properties need of it is the number   *)
(* of its tablets (none: the plan is "atomic" and all of its mutations     *)
(* belong to the publishing transaction).  Two preparations of one entry   *)
(* may give different plans: handlers read derived records that change,    *)
(* and their code changes between versions of the daemon.                  *)
(***************************************************************************)
EXTENDS Naturals, FiniteSets

CONSTANTS
    Worker,              \* index workers of the daemon process
    Plan,                \* plans the handlers can produce
    MaxTablets,          \* bound: tablets of a plan
    TabletCount,         \* [Plan -> 0..MaxTablets]
    Token,               \* claim tokens (randomUUID)
    NoToken,             \* no token, or the token of a worker that is gone
    NoPlan,              \* an absent stage, tablet or ready record
    Legacy,              \* a version-one stage header left by an older daemon
    MaxSequence,         \* bound: canonical commits
    RetainPublications,  \* DEFAULT_PUBLICATION_HISTORY
    MaxFaults            \* bound: crashes, failures and expiries of live claims

ASSUME PlanAssumption ==
    /\ MaxTablets \in Nat
    /\ TabletCount \in [Plan -> 0..MaxTablets]
    /\ NoPlan \notin Plan
    /\ Legacy \notin Plan
    /\ NoPlan # Legacy

ASSUME BoundAssumption ==
    /\ MaxSequence \in Nat \ {0}
    /\ RetainPublications \in Nat \ {0}
    /\ MaxFaults \in Nat

ASSUME TokenAssumption == NoToken \notin Token

VARIABLES
    \* Durable records, written by RocksDB transactions.
    counter,             \* META counter "outbox": the last sequence allocated
    entries,             \* sequences whose outbox entry is stored
    cursor,              \* outbox-cursor.nextSequence
    generationCounter,   \* META counter "index-generation"
    state,               \* outbox-state, by sequence
    stage,               \* index-stage header, by generation
    tablet,              \* index-stage-tablet, by generation and ordinal
    applied,             \* index-stage-applied marker, by generation and ordinal
    ready,               \* index-stage-ready marker, by generation
    publication,         \* index-generation record, by generation
    prepared,            \* derived records written by tablets, by generation
    visible,             \* what publication made visible, by sequence
    cleaned,             \* tablets whose cleanup mutations ran, by generation
    \* Memory of the workers.
    pc,                  \* next step of the worker
    claim,               \* the claim it believes it owns
    plan,                \* the plan it holds
    ordinal,             \* tablet loop counter
    agree,               \* every tablet read so far has the plan's digest
    todo,                \* keys the recovery scans returned
    initialized,         \* IndexWorker.initialized: recovery is over
    open,                \* the stage record its open transaction is to write
    \* Bookkeeping of the model.
    faults,              \* faults injected so far
    torn                 \* generations whose header a worker wrote that had lost its claim

queue   == <<counter, entries, cursor, generationCounter>>
staging == <<stage, tablet, applied, ready>>
index   == <<publication, prepared, visible, cleaned>>
durable == <<queue, state, staging, index>>
locals  == <<claim, plan, ordinal, agree>>
memory  == <<pc, locals, todo, initialized>>
aside   == <<open, faults, torn>>
vars    == <<durable, memory, aside>>

Sequence   == 1..MaxSequence
Generation == 1..MaxSequence
Ordinal    == 0..(MaxTablets - 1)

\* Tablets of a plan, and the plans staged in tablets mode.
TabletsOf(p) == 0..(TabletCount[p] - 1)
Tabletted(p) == TabletCount[p] > 0

\* normalizeState: a missing state record reads as pending without generation.
Unclaimed == [status |-> "pending", generation |-> 0, token |-> NoToken, live |-> FALSE]

\* What a release or a recovery, a publication and the clock leave of a state record.
Freed(s)     == [status |-> "pending", generation |-> state[s].generation,
                 token |-> NoToken, live |-> FALSE]
Processed(s) == [status |-> "processed", generation |-> state[s].generation,
                 token |-> NoToken, live |-> FALSE]
Expired(s)   == [status |-> state[s].status, generation |-> state[s].generation,
                 token |-> state[s].token, live |-> FALSE]

NoMarker  == [tablet |-> NoPlan, stage |-> NoPlan]
NotReady  == [plan |-> NoPlan, cleanupOrdinal |-> 0]
NoClaim   == [sequence |-> 1, generation |-> 1, token |-> NoToken]
Invisible == [generation |-> 0, plan |-> NoPlan]

\* The stage records of a generation; an "applied" transaction holds the tablet it read.
Key(kind, o) == [kind |-> kind, ordinal |-> o, tablet |-> NoPlan]
NoKey     == Key("none", 0)
HeaderKey == Key("header", 0)
ReadyKey  == Key("ready", 0)

(***************************************************************************)
(* A new store is empty.  A store written by an older daemon may hold the  *)
(* version-one stage of the entry that daemon was killed on.               *)
(***************************************************************************)
InitFresh ==
    /\ counter = 0
    /\ entries = {}
    /\ generationCounter = 0
    /\ state = [s \in Sequence |-> Unclaimed]
    /\ stage = [g \in Generation |-> NoPlan]

InitUpgraded ==
    /\ counter = 1
    /\ entries = {1}
    /\ generationCounter = 1
    /\ state = [s \in Sequence |->
                  IF s = 1 THEN [status |-> "processing", generation |-> 1,
                                 token |-> NoToken, live |-> TRUE]
                           ELSE Unclaimed]
    /\ stage = [g \in Generation |-> IF g = 1 THEN Legacy ELSE NoPlan]

Init ==
    /\ InitFresh \/ InitUpgraded
    /\ cursor = 1
    /\ tablet = [g \in Generation |-> [o \in Ordinal |-> NoPlan]]
    /\ applied = [g \in Generation |-> [o \in Ordinal |-> NoMarker]]
    /\ ready = [g \in Generation |-> NotReady]
    /\ publication = [g \in Generation |-> 0]
    /\ prepared = [g \in Generation |-> {}]
    /\ visible = [s \in Sequence |-> Invisible]
    /\ cleaned = [g \in Generation |-> {}]
    /\ pc = [w \in Worker |-> "start"]
    /\ claim = [w \in Worker |-> NoClaim]
    /\ plan = [w \in Worker |-> NoPlan]
    /\ ordinal = [w \in Worker |-> 0]
    /\ agree = [w \in Worker |-> TRUE]
    /\ todo = [w \in Worker |-> {}]
    /\ initialized = [w \in Worker |-> FALSE]
    /\ open = [w \in Worker |-> NoKey]
    /\ faults = 0
    /\ torn = {}
-----------------------------------------------------------------------------
(***************************************************************************)
(* Control of a worker.                                                    *)
(***************************************************************************)
At(w, step) == pc[w] = step
Goto(w, step) == pc' = [pc EXCEPT ![w] = step]

\* assertClaimOwner: the durable state still carries this worker's claim.
Owns(w) ==
    LET s == state[claim[w].sequence]
    IN  /\ claim[w].token # NoToken
        /\ s.status = "processing"
        /\ s.generation = claim[w].generation
        /\ s.token = claim[w].token

BeginUnfenced(w, k) ==  \* mutant: the claim is not checked
    /\ open[w] = NoKey
    /\ open' = [open EXCEPT ![w] = k]
    /\ UNCHANGED <<durable, memory, faults, torn>>

\* A transaction of w begins: it owns the claim and has the record k to write.
Begin(w, k) ==
    /\ Owns(w)
    /\ open[w] = NoKey
    /\ open' = [open EXCEPT ![w] = k]
    /\ UNCHANGED <<durable, memory, faults, torn>>

\* What w writes to the records K of generation g conflicts with every open transaction
\* that is to write one of them: its commit fails, and it is run again from its begin.
Committed(w, g, K) ==
    open' = [v \in Worker |->
               IF v = w \/ (claim[v].generation = g /\ <<open[v].kind, open[v].ordinal>> \in K)
               THEN NoKey ELSE open[v]]

\* The one record that w's open transaction is to write.
Target(w) == {<<open[w].kind, open[w].ordinal>>}

\* Steps whose transaction starts with assertClaimOwner.
Fenced == {"clear", "clear-ready", "drop-legacy",
           "put-tablet", "put-header", "apply-tablet", "put-ready", "publish"}

\* Steps of cleanupPublishedStage, run by processNext and by recoverOutbox.
Cleaning == {"cleanup", "cleanup-ready", "cleanup-tablet", "cleanup-final"}

\* Steps of processNext between a successful claim and its cleanup.
Working == Fenced \cup {"discard", "load", "prepare", "stage", "apply"}

Recovering == {"recover-claims", "recover-stages"}

\* The locals a worker forgets when processNext or initialize returns.
Forget(w) ==
    /\ claim' = [claim EXCEPT ![w] = NoClaim]
    /\ plan' = [plan EXCEPT ![w] = NoPlan]
    /\ ordinal' = [ordinal EXCEPT ![w] = 0]
    /\ agree' = [agree EXCEPT ![w] = TRUE]
    /\ todo' = [todo EXCEPT ![w] = {}]

\* An error leaves processNext through releaseOutboxClaim, and initialize at once.
Abort(w) ==
    IF initialized[w]
    THEN /\ Goto(w, "release")
         /\ UNCHANGED <<locals, todo, initialized>>
    ELSE /\ Goto(w, "start")
         /\ Forget(w)
         /\ UNCHANGED initialized

NextTabletButOne(w, after) ==  \* mutant: skips every other tablet
    /\ ordinal' = [ordinal EXCEPT ![w] = @ + 1]
    /\ IF ordinal[w] + 2 \in TabletsOf(plan[w]) THEN UNCHANGED pc ELSE Goto(w, after)

\* The end of one tablet of a loop over the tablets of the worker's plan.
NextTablet(w, after) ==
    /\ ordinal' = [ordinal EXCEPT ![w] = @ + 1]
    /\ IF ordinal[w] + 1 \in TabletsOf(plan[w]) THEN UNCHANGED pc ELSE Goto(w, after)

Smallest(S) == CHOOSE x \in S : \A y \in S : x <= y
-----------------------------------------------------------------------------
\* commitCanonical allocates the next sequence and stores its entry.
Append ==
    /\ counter < MaxSequence
    /\ counter' = counter + 1
    /\ entries' = entries \cup {counter + 1}
    /\ UNCHANGED <<cursor, generationCounter, state, staging, index, memory, aside>>

HasPublication(g) == publication[g] # 0

(***************************************************************************)
(* recoverOutbox: scan the claims, reset those still processing, scan the  *)
(* stages, clean those already published.                                  *)
(***************************************************************************)
ScanClaims(w) ==
    /\ At(w, "start")
    /\ todo' = [todo EXCEPT ![w] = {s \in Sequence : state[s].status = "processing"}]
    /\ Goto(w, "recover-claims")
    /\ UNCHANGED <<durable, locals, initialized, aside>>

RecoverClaim(w) ==
    /\ At(w, "recover-claims")
    /\ todo[w] # {}
    /\ LET s == Smallest(todo[w])
       IN  /\ todo' = [todo EXCEPT ![w] = @ \ {s}]
           /\ state' = IF state[s].status = "processing"
                       THEN [state EXCEPT ![s] = Freed(s)] ELSE state
    /\ UNCHANGED <<queue, staging, index, pc, locals, initialized, aside>>

ScanStages(w) ==
    /\ At(w, "recover-claims")
    /\ todo[w] = {}
    /\ todo' = [todo EXCEPT ![w] = {g \in Generation : stage[g] # NoPlan}]
    /\ Goto(w, "recover-stages")
    /\ UNCHANGED <<durable, locals, initialized, aside>>

RecoverStage(w) ==
    /\ At(w, "recover-stages")
    /\ todo[w] # {}
    /\ LET g == Smallest(todo[w])
       IN  /\ todo' = [todo EXCEPT ![w] = @ \ {g}]
           /\ IF HasPublication(g)
              THEN /\ claim' = [claim EXCEPT ![w] = [sequence |-> publication[g],
                                                      generation |-> g, token |-> NoToken]]
                   /\ Goto(w, "cleanup")
              ELSE UNCHANGED <<claim, pc>>
    /\ UNCHANGED <<durable, plan, ordinal, agree, initialized, aside>>

Initialized(w) ==
    /\ At(w, "recover-stages")
    /\ todo[w] = {}
    /\ initialized' = [initialized EXCEPT ![w] = TRUE]
    /\ Goto(w, "idle")
    /\ Forget(w)
    /\ UNCHANGED <<durable, aside>>

(***************************************************************************)
(* claimNextOutbox.  "idle" and "busy" answers change nothing.             *)
(***************************************************************************)
ClaimableIgnoringLease(s) ==  \* mutant: an expired claim is still busy
    s \in entries /\ state[s].status = "pending"

Claimable(s) ==
    /\ s \in entries
    /\ \/ state[s].status = "pending"
       \/ state[s].status = "processing" /\ ~state[s].live

ReusedToken == Token  \* mutant: tokens that repeat

\* A random token is none that a record or a worker still remembers.
FreshToken == Token \ ({claim[w].token : w \in Worker} \cup {state[s].token : s \in Sequence})

ClaimGenerationAnew == generationCounter + 1  \* mutant: forgets state.generation

\* An entry keeps the generation of its first claim.
ClaimGeneration ==
    IF state[cursor].generation = 0 THEN generationCounter + 1 ELSE state[cursor].generation

Claim(w) ==
    /\ At(w, "idle")
    /\ Claimable(cursor)
    /\ \E token \in FreshToken :
         /\ state' = [state EXCEPT ![cursor] =
                        [status |-> "processing", generation |-> ClaimGeneration,
                         token |-> token, live |-> TRUE]]
         /\ claim' = [claim EXCEPT ![w] =
                        [sequence |-> cursor, generation |-> ClaimGeneration, token |-> token]]
    /\ generationCounter' = IF ClaimGeneration > generationCounter
                            THEN ClaimGeneration ELSE generationCounter
    /\ Goto(w, "discard")
    /\ UNCHANGED <<counter, entries, cursor, staging, index, plan, ordinal, agree,
                   todo, initialized, aside>>
-----------------------------------------------------------------------------
\* Steps that change only the memory of one worker.
Internal == UNCHANGED <<durable, todo, initialized, aside>>

\* discardLegacyUnpublishedStage reads the header.
DiscardLegacy(w) ==
    LET g == claim[w].generation
    IN  /\ At(w, "discard")
        /\ stage[g] = Legacy => publication[g] = 0
        /\ Goto(w, IF stage[g] = Legacy THEN "clear" ELSE "load")
        /\ UNCHANGED locals
        /\ Internal

\* readStagedGeneration in processNext: resume a stage, or prepare one.
LoadStage(w) ==
    LET g == claim[w].generation
    IN  /\ At(w, "load")
        /\ stage[g] # Legacy
        /\ plan' = [plan EXCEPT ![w] = stage[g]]
        /\ Goto(w, IF stage[g] = NoPlan THEN "prepare" ELSE "apply")
        /\ UNCHANGED <<claim, ordinal, agree>>
        /\ Internal

\* loadAndPrepare and createGenerationPlan.
Prepare(w) ==
    /\ At(w, "prepare")
    /\ \E p \in Plan : plan' = [plan EXCEPT ![w] = p]
    /\ Goto(w, "stage")
    /\ UNCHANGED <<claim, ordinal, agree>>
    /\ Internal

\* stageGeneration looks for a header written by an earlier attempt.
CheckStage(w) ==
    LET g == claim[w].generation
    IN  /\ At(w, "stage")
        /\ stage[g] \in {NoPlan, plan[w]}
        /\ Goto(w, IF stage[g] = plan[w] THEN "apply"
                   ELSE IF Tabletted(plan[w]) THEN "clear" ELSE "put-header")
        /\ UNCHANGED locals
        /\ Internal

(***************************************************************************)
(* clearOrphanStageRecords, under the claim: the tablets, the applied      *)
(* markers and the ready marker of an attempt that wrote no header.  It    *)
(* scans until a prefix is empty and removes each record in a transaction. *)
(***************************************************************************)
BeginClear(w) ==
    LET g == claim[w].generation
        tablets == {o \in Ordinal : tablet[g][o] # NoPlan}
        markers == {o \in Ordinal : applied[g][o] # NoMarker}
    IN  /\ At(w, "clear")
        /\ tablets \cup markers # {}
        /\ Begin(w, IF tablets # {} THEN Key("tablet", Smallest(tablets))
                                    ELSE Key("applied", Smallest(markers)))

ClearOrphan(w) ==
    LET g == claim[w].generation
        o == open[w].ordinal
    IN  /\ At(w, "clear")
        /\ open[w] # NoKey
        /\ tablet' = IF open[w].kind = "tablet" THEN [tablet EXCEPT ![g][o] = NoPlan] ELSE tablet
        /\ applied' = IF open[w].kind = "applied" THEN [applied EXCEPT ![g][o] = NoMarker]
                      ELSE applied
        /\ Committed(w, g, Target(w))
        /\ UNCHANGED <<queue, state, stage, ready, index, memory, faults, torn>>

OrphansCleared(w) ==
    LET g == claim[w].generation
    IN  /\ At(w, "clear")
        /\ open[w] = NoKey
        /\ \A o \in Ordinal : tablet[g][o] = NoPlan /\ applied[g][o] = NoMarker
        /\ Goto(w, "clear-ready")
        /\ UNCHANGED locals
        /\ Internal

\* The ready marker and the legacy header are removed whatever they are.
BeginRemove(w) ==
    \/ At(w, "clear-ready") /\ Begin(w, ReadyKey)
    \/ At(w, "drop-legacy") /\ Begin(w, HeaderKey)

ClearReady(w) ==
    /\ At(w, "clear-ready")
    /\ open[w] # NoKey
    /\ ready' = [ready EXCEPT ![claim[w].generation] = NotReady]
    /\ ordinal' = [ordinal EXCEPT ![w] = 0]
    /\ Goto(w, IF plan[w] = NoPlan THEN "drop-legacy" ELSE "put-tablet")
    /\ Committed(w, claim[w].generation, Target(w))
    /\ UNCHANGED <<queue, state, stage, tablet, applied, index, claim, plan, agree,
                   todo, initialized, faults, torn>>

DropLegacy(w) ==
    /\ At(w, "drop-legacy")
    /\ open[w] # NoKey
    /\ stage' = [stage EXCEPT ![claim[w].generation] = NoPlan]
    /\ Goto(w, "load")
    /\ Committed(w, claim[w].generation, Target(w))
    /\ UNCHANGED <<queue, state, tablet, applied, ready, index, locals, todo,
                   initialized, faults, torn>>
-----------------------------------------------------------------------------
(***************************************************************************)
(* stageGeneration: putImmutable each tablet, then the header.  It writes  *)
(* what is absent; what is there and equal it leaves (Unchanged).          *)
(***************************************************************************)
BeginPut(w) ==
    LET g == claim[w].generation
    IN  \/ /\ At(w, "put-tablet")
           /\ tablet[g][ordinal[w]] = NoPlan
           /\ Begin(w, Key("tablet", ordinal[w]))
        \/ At(w, "put-header") /\ stage[g] = NoPlan /\ Begin(w, HeaderKey)

PutTablet(w) ==
    LET g == claim[w].generation
    IN  /\ At(w, "put-tablet")
        /\ open[w] # NoKey
        /\ tablet' = [tablet EXCEPT ![g][ordinal[w]] = plan[w]]
        /\ NextTablet(w, "put-header")
        /\ Committed(w, g, Target(w))
        /\ UNCHANGED <<queue, state, stage, applied, ready, index, claim, plan, agree,
                       todo, initialized, faults, torn>>

PutHeader(w) ==
    LET g == claim[w].generation
    IN  /\ At(w, "put-header")
        /\ open[w] # NoKey
        /\ stage' = [stage EXCEPT ![g] = plan[w]]
        /\ torn' = IF Owns(w) THEN torn ELSE torn \cup {g}
        /\ Goto(w, "apply")
        /\ Committed(w, g, Target(w))
        /\ UNCHANGED <<queue, state, tablet, applied, ready, index, locals, todo,
                       initialized, faults>>

\* applyGenerationTablets reads the stored header again, then the ready marker.
StartApply(w) ==
    LET g == claim[w].generation
    IN  /\ At(w, "apply")
        /\ stage[g] \in Plan
        /\ plan' = [plan EXCEPT ![w] = stage[g]]
        /\ ordinal' = [ordinal EXCEPT ![w] = 0]
        /\ agree' = [agree EXCEPT ![w] = TRUE]
        /\ Goto(w, IF Tabletted(stage[g]) /\ ready[g].plan # stage[g]
                   THEN "apply-tablet" ELSE "publish")
        /\ UNCHANGED claim
        /\ Internal

(***************************************************************************)
(* One tablet: skipped when its marker is there, else its "prepare"        *)
(* mutations and the marker in one transaction.  The tablet is read before *)
(* it.  The digests of the tablets are compared with the plan's only after *)
(* the last of them.                                                       *)
(***************************************************************************)
BeginApply(w) ==
    LET g == claim[w].generation
        o == ordinal[w]
    IN  /\ At(w, "apply-tablet")
        /\ tablet[g][o] # NoPlan
        /\ applied[g][o] = NoMarker
        /\ Begin(w, [kind |-> "applied", ordinal |-> o, tablet |-> tablet[g][o]])

ApplyTablet(w) ==
    LET g == claim[w].generation
        o == ordinal[w]
        t == open[w].tablet
    IN  /\ At(w, "apply-tablet")
        /\ open[w] # NoKey
        /\ applied' = [applied EXCEPT ![g][o] = [tablet |-> t, stage |-> plan[w]]]
        /\ prepared' = [prepared EXCEPT ![g] = @ \cup {<<t, o>>}]
        /\ agree' = [agree EXCEPT ![w] = @ /\ t = plan[w]]
        /\ NextTablet(w, "put-ready")
        /\ Committed(w, g, Target(w))
        /\ UNCHANGED <<queue, state, stage, tablet, ready, publication, visible,
                       cleaned, claim, plan, todo, initialized, faults, torn>>

BeginReadyUnchecked(w) ==  \* mutant: the digests are not compared
    /\ At(w, "put-ready")
    /\ ready[claim[w].generation] = NotReady
    /\ Begin(w, ReadyKey)

\* The ready marker is for tablets that all agree with the plan.
BeginReady(w) ==
    /\ At(w, "put-ready")
    /\ agree[w]
    /\ ready[claim[w].generation] = NotReady
    /\ Begin(w, ReadyKey)

PutReady(w) ==
    LET g == claim[w].generation
    IN  /\ At(w, "put-ready")
        /\ open[w] # NoKey
        /\ ready' = [ready EXCEPT ![g] = [plan |-> plan[w], cleanupOrdinal |-> 0]]
        /\ Goto(w, "publish")
        /\ Committed(w, g, Target(w))
        /\ UNCHANGED <<queue, state, stage, tablet, applied, index, locals, todo,
                       initialized, faults, torn>>

\* putImmutable finds the record it would write, or the marker says that the tablet is
\* applied: the transaction writes nothing.
Unchanged(w) ==
    LET g == claim[w].generation
        o == ordinal[w]
        p == plan[w]
        t == tablet[g][o]
    IN  /\ Owns(w)
        /\ open[w] = NoKey
        /\ \/ /\ At(w, "put-tablet")
              /\ t = p
              /\ NextTablet(w, "put-header")
              /\ UNCHANGED agree
           \/ /\ At(w, "put-header")
              /\ stage[g] = p
              /\ Goto(w, "apply")
              /\ UNCHANGED <<ordinal, agree>>
           \/ /\ At(w, "apply-tablet")
              /\ t # NoPlan
              /\ applied[g][o] = [tablet |-> t, stage |-> p]
              /\ NextTablet(w, "put-ready")
              /\ agree' = [agree EXCEPT ![w] = @ /\ t = p]
           \/ /\ At(w, "put-ready")
              /\ agree[w]
              /\ ready[g] = [plan |-> p, cleanupOrdinal |-> 0]
              /\ Goto(w, "publish")
              /\ UNCHANGED <<ordinal, agree>>
        /\ UNCHANGED <<claim, plan>>
        /\ Internal

\* The transactions of a worker under its claim, from their begin to their commit.
Begins(w) == BeginClear(w) \/ BeginRemove(w) \/ BeginPut(w) \/ BeginApply(w) \/ BeginReady(w)
Commits(w) ==
    \/ ClearOrphan(w) \/ ClearReady(w) \/ DropLegacy(w)
    \/ PutTablet(w) \/ PutHeader(w) \/ ApplyTablet(w) \/ PutReady(w)

(***************************************************************************)
(* publishGeneration: one transaction for the publication, the cursor and  *)
(* the state.  It writes what it decides by, but for the header and the    *)
(* ready marker.  An open transaction that could still write one of these  *)
(* would have begun before it was there, and would have conflicted then.   *)
(***************************************************************************)
Publishable(w) ==
    LET g == claim[w].generation
    IN  /\ cursor = claim[w].sequence
        /\ stage[g] \in Plan
        /\ Tabletted(stage[g]) => ready[g].plan = stage[g]
        /\ publication[g] = 0

Publish(w) ==
    LET g == claim[w].generation
        s == claim[w].sequence
    IN  /\ At(w, "publish")
        /\ Owns(w)
        /\ Publishable(w)
        /\ publication' = [publication EXCEPT ![g] = s]
        /\ visible' = [visible EXCEPT ![s] = [generation |-> g, plan |-> stage[g]]]
        /\ cursor' = s + 1
        /\ state' = [state EXCEPT ![s] = Processed(s)]
        /\ Goto(w, "cleanup")
        /\ UNCHANGED <<counter, entries, generationCounter, staging, prepared, cleaned,
                       locals, todo, initialized, aside>>
-----------------------------------------------------------------------------
(***************************************************************************)
(* cleanupPublishedStage: not fenced by a claim, it checks its own         *)
(* progress in the ready marker instead.                                   *)
(***************************************************************************)
\* It returns to processNext, or to the stage scan of recoverOutbox.
CleanupReturns(w) ==
    IF initialized[w]
    THEN Goto(w, "idle") /\ Forget(w)
    ELSE /\ Goto(w, "recover-stages")
         /\ claim' = [claim EXCEPT ![w] = NoClaim]
         /\ plan' = [plan EXCEPT ![w] = NoPlan]
         /\ ordinal' = [ordinal EXCEPT ![w] = 0]
         /\ UNCHANGED <<agree, todo>>

\* Without a publication record there is nothing it may clean.
CleanupUnpublished(w) ==
    /\ At(w, "cleanup")
    /\ ~HasPublication(claim[w].generation)
    /\ CleanupReturns(w)
    /\ UNCHANGED <<durable, initialized, aside>>

StartCleanup(w) ==
    LET g == claim[w].generation
    IN  /\ At(w, "cleanup")
        /\ HasPublication(g)
        /\ plan' = [plan EXCEPT ![w] = stage[g]]
        /\ Goto(w, IF stage[g] \in Plan /\ Tabletted(stage[g])
                   THEN "cleanup-ready" ELSE "cleanup-final")
        /\ UNCHANGED <<claim, ordinal, agree>>
        /\ Internal

ReadCleanupProgress(w) ==
    LET g == claim[w].generation
    IN  /\ At(w, "cleanup-ready")
        /\ ready[g].plan = plan[w]
        /\ ordinal' = [ordinal EXCEPT ![w] = ready[g].cleanupOrdinal]
        /\ Goto(w, IF ready[g].cleanupOrdinal \in TabletsOf(plan[w])
                   THEN "cleanup-tablet" ELSE "cleanup-final")
        /\ UNCHANGED <<claim, plan, agree>>
        /\ Internal

CleanupTablet(w) ==
    LET g == claim[w].generation
        o == ordinal[w]
    IN  /\ At(w, "cleanup-tablet")
        /\ tablet[g][o] # NoPlan
        /\ ready[g] = [plan |-> plan[w], cleanupOrdinal |-> o]
        /\ cleaned' = [cleaned EXCEPT ![g] = @ \cup {<<tablet[g][o], o>>}]
        /\ tablet' = [tablet EXCEPT ![g][o] = NoPlan]
        /\ applied' = [applied EXCEPT ![g][o] = NoMarker]
        /\ ready' = [ready EXCEPT ![g] = [plan |-> plan[w], cleanupOrdinal |-> o + 1]]
        /\ NextTablet(w, "cleanup-final")
        /\ Committed(w, g, {<<"tablet", o>>, <<"applied", o>>, <<"ready", 0>>})
        /\ UNCHANGED <<queue, state, stage, publication, prepared, visible, claim,
                       plan, agree, todo, initialized, faults, torn>>

PrunedAhead(w) == claim[w].sequence + RetainPublications  \* mutant: wrong sign

PrunedSequence(w) == claim[w].sequence - RetainPublications

\* The last transaction removes the stage and prunes the publication history.
CleanupFinal(w) ==
    LET g == claim[w].generation
        prunedGeneration == g - RetainPublications
    IN  /\ At(w, "cleanup-final")
        /\ stage' = [stage EXCEPT ![g] = NoPlan]
        /\ ready' = [ready EXCEPT ![g] = NotReady]
        /\ publication' = [x \in Generation |-> IF x = prunedGeneration THEN 0
                                                ELSE publication[x]]
        /\ entries' = entries \ {PrunedSequence(w)}
        /\ state' = [x \in Sequence |-> IF x = PrunedSequence(w) THEN Unclaimed ELSE state[x]]
        /\ CleanupReturns(w)
        /\ Committed(w, g, {<<"header", 0>>, <<"ready", 0>>})
        /\ UNCHANGED <<counter, cursor, generationCounter, tablet, applied, prepared,
                       visible, cleaned, initialized, faults, torn>>
-----------------------------------------------------------------------------
(***************************************************************************)
(* Errors.  A fenced step of a worker that lost its claim, and the         *)
(* integrity checks, throw inside the step; a transient failure (a         *)
(* handler, the disk) may strike any step.                                 *)
(***************************************************************************)
LoseClaim(w) ==
    /\ pc[w] \in Fenced
    /\ open[w] = NoKey
    /\ ~Owns(w)
    /\ Abort(w)
    /\ UNCHANGED <<durable, aside>>

\* OutboxIntegrityError and ImmutableRecordConflictError, step by step.
Corrupt(w) ==
    LET g == claim[w].generation
        o == ordinal[w]
        p == plan[w]
        t == tablet[g][o]
    IN  CASE At(w, "discard")      -> stage[g] = Legacy /\ publication[g] # 0
          [] At(w, "load")         -> stage[g] = Legacy
          [] At(w, "stage")        -> stage[g] \notin {NoPlan, p}
          [] At(w, "put-tablet")   -> t \notin {NoPlan, p}
          [] At(w, "put-header")   -> stage[g] \notin {NoPlan, p}
          [] At(w, "apply")        -> stage[g] \notin Plan
          [] At(w, "apply-tablet") -> \/ t = NoPlan
                                      \/ applied[g][o] \notin {NoMarker, [tablet |-> t, stage |-> p]}
          [] At(w, "put-ready")    -> \/ ~agree[w]
                                      \/ ready[g] \notin {NotReady, [plan |-> p, cleanupOrdinal |-> 0]}
          [] At(w, "publish")      -> ~Publishable(w)
          [] OTHER                 -> FALSE

\* What cleanupPublishedStage rejects: another worker cleaned the same stage.
CleanupRaced(w) ==
    LET g == claim[w].generation
        o == ordinal[w]
    IN  CASE At(w, "cleanup-ready")  -> ready[g].plan # plan[w]
          [] At(w, "cleanup-tablet") -> \/ tablet[g][o] = NoPlan
                                        \/ ready[g] # [plan |-> plan[w], cleanupOrdinal |-> o]
          [] OTHER                   -> FALSE

Reject(w) ==
    /\ open[w] = NoKey
    /\ Corrupt(w) \/ CleanupRaced(w)
    /\ Abort(w)
    /\ UNCHANGED <<durable, aside>>

\* releaseOutboxClaim: "processed" and "lost" change nothing.
Release(w) ==
    /\ At(w, "release")
    /\ state' = IF Owns(w)
                THEN [state EXCEPT ![claim[w].sequence] = Freed(claim[w].sequence)]
                ELSE state
    /\ Goto(w, "idle")
    /\ Forget(w)
    /\ UNCHANGED <<queue, staging, index, initialized, aside>>

Fail(w) ==
    /\ faults < MaxFaults
    /\ faults' = faults + 1
    /\ pc[w] \in Working \cup Cleaning \cup Recovering
    /\ Abort(w)
    /\ open' = [open EXCEPT ![w] = NoKey]
    /\ UNCHANGED <<durable, torn>>

\* The release itself fails: the claim stays until its lease expires.
ReleaseFails(w) ==
    /\ faults < MaxFaults
    /\ faults' = faults + 1
    /\ At(w, "release")
    /\ Goto(w, "idle")
    /\ Forget(w)
    /\ UNCHANGED <<durable, initialized, open, torn>>

(***************************************************************************)
(* The clock passes claimedUntil.  Only the expiry of a claim that its     *)
(* owner still works on is a fault: the lease is 30 seconds long.          *)
(***************************************************************************)
Expire(s) ==
    /\ state[s].status = "processing"
    /\ state[s].live
    /\ state' = [state EXCEPT ![s] = Expired(s)]
    /\ IF \E w \in Worker : claim[w].sequence = s /\ Owns(w)
       THEN faults < MaxFaults /\ faults' = faults + 1
       ELSE UNCHANGED faults
    /\ UNCHANGED <<queue, staging, index, memory, open, torn>>

\* The daemon stops and starts again: the workers lose their memory.
Restart ==
    /\ faults < MaxFaults
    /\ faults' = faults + 1
    /\ pc' = [w \in Worker |-> "start"]
    /\ claim' = [w \in Worker |-> NoClaim]
    /\ plan' = [w \in Worker |-> NoPlan]
    /\ ordinal' = [w \in Worker |-> 0]
    /\ agree' = [w \in Worker |-> TRUE]
    /\ todo' = [w \in Worker |-> {}]
    /\ initialized' = [w \in Worker |-> FALSE]
    /\ open' = [w \in Worker |-> NoKey]
    /\ UNCHANGED <<durable, torn>>
-----------------------------------------------------------------------------
\* Every step of a worker that runs without a fault.
WorkerStep(w) ==
    \/ ScanClaims(w) \/ RecoverClaim(w) \/ ScanStages(w) \/ RecoverStage(w) \/ Initialized(w)
    \/ Claim(w) \/ DiscardLegacy(w) \/ LoadStage(w) \/ Prepare(w) \/ CheckStage(w)
    \/ OrphansCleared(w) \/ StartApply(w) \/ Begins(w) \/ Commits(w) \/ Unchanged(w)
    \/ Publish(w)
    \/ CleanupUnpublished(w) \/ StartCleanup(w) \/ ReadCleanupProgress(w)
    \/ CleanupTablet(w) \/ CleanupFinal(w)
    \/ LoseClaim(w) \/ Reject(w) \/ Release(w)

Next ==
    \/ Append
    \/ \E w \in Worker : WorkerStep(w) \/ Fail(w) \/ ReleaseFails(w)
    \/ \E s \in Sequence : Expire(s)
    \/ Restart

Spec == Init /\ [][Next]_vars

(***************************************************************************)
(* Fairness: the runtime runs every worker that can take a step (the       *)
(* daemon calls drain again after each admission, restart and backoff),    *)
(* and time passes.  Nothing is assumed of faults, which are bounded.      *)
(***************************************************************************)
Fairness ==
    /\ \A w \in Worker : WF_vars(WorkerStep(w))
    /\ \A s \in Sequence : WF_vars(Expire(s))

FairSpec == Spec /\ Fairness
-----------------------------------------------------------------------------
(***************************************************************************)
(* Properties.                                                             *)
(***************************************************************************)
Steps == Working \cup Cleaning \cup Recovering \cup {"start", "idle", "release"}

StateRecord ==
    [status : {"pending", "processing", "processed"}, generation : 0..MaxSequence,
     token : Token \cup {NoToken}, live : BOOLEAN]
MarkerRecord  == [tablet : Plan \cup {NoPlan}, stage : Plan \cup {NoPlan}]
ReadyRecord   == [plan : Plan \cup {NoPlan}, cleanupOrdinal : 0..MaxTablets]
VisibleRecord == [generation : 0..MaxSequence, plan : Plan \cup {NoPlan}]
KeyRecord ==
    [kind : {"none", "tablet", "applied", "ready", "header"}, ordinal : 0..MaxTablets,
     tablet : Plan \cup {NoPlan}]
ClaimRecord ==
    [sequence : Sequence, generation : Generation, token : Token \cup {NoToken}]

\* Every record and every local of a worker has the shape the code gives it.
DurableTypeOK ==
    /\ counter \in 0..MaxSequence
    /\ entries \subseteq Sequence
    /\ cursor \in 1..(MaxSequence + 1)
    /\ generationCounter \in 0..MaxSequence
    /\ state \in [Sequence -> StateRecord]
    /\ stage \in [Generation -> Plan \cup {NoPlan, Legacy}]
    /\ tablet \in [Generation -> [Ordinal -> Plan \cup {NoPlan}]]
    /\ applied \in [Generation -> [Ordinal -> MarkerRecord]]
    /\ ready \in [Generation -> ReadyRecord]
    /\ publication \in [Generation -> 0..MaxSequence]
    /\ prepared \in [Generation -> SUBSET (Plan \X Ordinal)]
    /\ visible \in [Sequence -> VisibleRecord]
    /\ cleaned \in [Generation -> SUBSET (Plan \X Ordinal)]

MemoryTypeOK ==
    /\ pc \in [Worker -> Steps]
    /\ claim \in [Worker -> ClaimRecord]
    /\ plan \in [Worker -> Plan \cup {NoPlan, Legacy}]
    /\ ordinal \in [Worker -> 0..MaxTablets]
    /\ agree \in [Worker -> BOOLEAN]
    /\ todo \in [Worker -> SUBSET Sequence]
    /\ initialized \in [Worker -> BOOLEAN]
    /\ open \in [Worker -> KeyRecord]

TypeOK ==
    DurableTypeOK /\ MemoryTypeOK /\ faults \in 0..MaxFaults /\ torn \subseteq Generation

PublishedGeneration(g) == \E s \in Sequence : s < cursor /\ visible[s].generation = g

\* "A later entry is never published before an earlier one": exactly the entries
\* below the cursor are published, each under a generation of its own, and
\* generations follow the order of the entries.
PublishedInOrder ==
    \A s \in Sequence :
      /\ (visible[s] # Invisible) <=> (s < cursor)
      /\ \A r \in Sequence : r < s /\ s < cursor =>
           visible[r].generation < visible[s].generation

\* What a published generation exposes is one whole plan: every tablet of the
\* plan was applied, and no tablet of another plan (an attempt whose worker lost
\* its claim, an older handler version) was.
PublishedComplete ==
    \A s \in Sequence : s < cursor =>
      prepared[visible[s].generation] =
        {visible[s].plan} \X TabletsOf(visible[s].plan)

\* A stage header of a tabletted plan means its tablets are durable: until it is
\* published it finds all of its own tablets and none of an abandoned attempt.  That is
\* so for every header written by a worker that had the claim when it committed,
\* whatever other transactions of former owners commit late; what the others leave is
\* the matter of StageResumes.
UntornStageMatches ==
    \A g \in Generation \ torn :
      stage[g] \in Plan /\ ~PublishedGeneration(g) =>
        \A o \in TabletsOf(stage[g]) : tablet[g][o] = stage[g]

\* For these no integrity check of outbox.js fires for a worker that still owns its claim,
\* whatever earlier owners of the same generation left behind: otherwise the ordered head
\* would fail again on every retry.  Excepted is the put of a tablet, where the late tablet
\* of a former owner may be met once: the retry clears it first.
OwnerNeverCorrupt ==
    \A w \in Worker :
      Owns(w) /\ open[w] = NoKey /\ claim[w].generation \notin torn /\ ~At(w, "put-tablet")
        => ~Corrupt(w)

\* What a stage promises to whoever owns its claim: both of the above.
StageSound == UntornStageMatches /\ OwnerNeverCorrupt

\* At most one worker owns a claim, and only of the entry at the cursor.
SingleOwner ==
    /\ \A v, w \in Worker : Owns(v) /\ Owns(w) => v = w
    /\ \A w \in Worker : Owns(w) => claim[w].sequence = cursor

\* The entry at the cursor can always be claimed, released or recovered: it is
\* stored and not yet processed, in spite of pruning (the two integrity errors of
\* claimNextOutbox never occur).
HeadClaimable ==
    cursor <= counter => cursor \in entries /\ state[cursor].status # "processed"

\* isOutboxSequenceProcessed: the state record, or the cursor once it is pruned.
IsStateProcessed(s) == state[s].status = "processed"  \* mutant: forgets the cursor
IsOutboxSequenceProcessed(s) == state[s].status = "processed" \/ cursor > s

\* It answers true exactly for the published entries.
ProcessedMeansVisible ==
    \A s \in Sequence : IsOutboxSequenceProcessed(s) <=> visible[s] # Invisible

\* The cleanup mutations of a plan (the removals) run only after its publication,
\* and all of them before the stage is forgotten.
CleanedAfterPublished ==
    \A s \in Sequence : LET g == visible[s].generation IN
      s < cursor /\ stage[g] = NoPlan =>
        cleaned[g] = {visible[s].plan} \X TabletsOf(visible[s].plan)
NothingCleanedEarly ==
    \A g \in Generation : cleaned[g] # {} => PublishedGeneration(g)
CleanupExact == CleanedAfterPublished /\ NothingCleanedEarly

\* The life of a stage, from the first tablet that is put to the last that is cleaned up:
\* both promises together (stageGeneration, applyGenerationTablets, cleanupPublishedStage).
\* What it says of the time before the publication excepts a torn generation.
StageLifecycle == StageSound /\ CleanupExact

\* Publication only grows: what was made visible for an entry is never replaced,
\* and the cursor never moves back, by a late worker or by recovery.
PublicationStable ==
    [][/\ cursor' \in {cursor, cursor + 1}
       /\ \A s \in Sequence : visible[s] # Invisible => visible'[s] = visible[s]]_vars

\* "Stage records are immutable and this live claim excludes another worker"
\* (outbox.js:771): the worker that has the claim and resumes a stage finds the tablets
\* of its header.  The code does not keep it, and nothing repairs it: only a stage
\* without a header is cleared, so the entry at the cursor fails on every retry.
StageResumes ==
    \A w \in Worker : LET g == claim[w].generation IN
      Owns(w) /\ pc[w] \in {"apply", "apply-tablet"} /\ stage[g] \in Plan =>
        \A o \in TabletsOf(stage[g]) : tablet[g][o] = stage[g]

\* Once faults stop, every canonical commit is indexed, unless a worker wrote the header
\* of a stage after it had lost its claim (StageResumes).
EventuallyPublished == \A s \in Sequence : s <= counter ~> s < cursor \/ torn # {}

(***************************************************************************)
(* The outbox implements an ordered log whose entries become visible one   *)
(* by one, each with the complete content of one plan.                     *)
(***************************************************************************)
Published == INSTANCE OrderedPublication WITH
    Content <- {{p} \X TabletsOf(p) : p \in Plan},
    appended <- counter,
    published <- cursor - 1,
    content <- [s \in Sequence |->
                  IF s < cursor THEN {prepared[visible[s].generation]} ELSE {}]
Implements == Published!Spec
=============================================================================
