---------------------------- MODULE EpochWindow ----------------------------
(***************************************************************************)
(* One Pi session and its window on the conversation (session/             *)
(* epoch-window.js, planEpochRotation of session/window.js, the event      *)
(* handlers of extensions/pi.ts).                                          *)
(*                                                                         *)
(* The branch of the conversation is a sequence of user turns; the entries *)
(* the extension appends to it (the state of the window, a compaction) are *)
(* kept with the turn they follow.  The session's memory is lost in a      *)
(* crash, the branch and the archive are not.  A request to the provider   *)
(* is prepared in steps (process), and every call of the archive may fail, *)
(* before or after it took effect; preparing then throws and nothing is    *)
(* sent.                                                                   *)
(*                                                                         *)
(* A turn stands for its messages; it has one tool result, of a size above *)
(* the base gate (Large) or between the two gates.  Whether the tokens ask *)
(* for a rotation, and how many turns fit, is a free choice.               *)
(***************************************************************************)
EXTENDS Integers, Sequences, FiniteSets, FiniteSetsExt

CONSTANTS
    MaxTurns,      \* turns ever said, the bound of the model
    Large,         \* the turns whose tool result is above the base gate
    RetainTurns,   \* retainTurns
    RotationTurns, \* rotationTurns
    TocMax,        \* TOC_MAX_ENTRIES
    Hint,          \* the texts a preflight may find
    AutomaticRetrieval, \* the setting of that name: whether messages are given hints
    MaxFaults,     \* failing calls of the archive
    MaxCrashes     \* ends of the Pi process, and navigations in the tree

\* The bounds are numbers.
WindowAssumption ==
    MaxTurns \in Nat /\ TocMax \in Nat /\ MaxFaults \in Nat /\ MaxCrashes \in Nat

VARIABLES
    branch,    \* the entries of the session's current branch
    fate,      \* what became of a turn: "unsaid", "open", "done" or "aborted"
    mem,       \* the EpochWindowSession, or Dead when the Pi process is gone
    job,       \* the request being prepared
    stored,    \* documents of the archive
    guarded,   \* documents the daemon protects for this session
    rows,      \* the daemon's frozen preflight answer of a turn
    sent,      \* the last request the provider was given; whether a restart would restore
               \* its boundary and cutoff, and the messages that left the window since
    faults, crashes

vars == <<branch, fate, mem, job, stored, guarded, rows, sent, faults, crashes>>

Turn == 1..MaxTurns
TurnDoc(t) == [kind |-> "turn", of |-> {t}]
ToolDoc(t) == [kind |-> "tool", of |-> {t}]
SpanDoc(S) == [kind |-> "span", of |-> S]

\* Rotation state of a session that never rotated.
NoState == [set |-> FALSE, boundary |-> 0, through |-> 0, toc |-> <<>>, mark |-> 0,
            only |-> {}]
NoCompaction == [kept |-> 0, entries |-> {}]
Idle == [pc |-> "idle", active |-> {}, retired |-> {}, changed |-> FALSE]

-----------------------------------------------------------------------------
(* The branch. *)

Entry(t) == [turn |-> t, state |-> NoState, compaction |-> NoCompaction]
TurnsOf(b) == {b[i].turn : i \in DOMAIN b}
LastState(b) ==
    LET I == {i \in DOMAIN b : b[i].state.set} IN IF I = {} THEN NoState ELSE b[Max(I)].state
LastCompaction(b) ==
    LET I == {i \in DOMAIN b : b[i].compaction.kept # 0}
    IN  IF I = {} THEN NoCompaction ELSE b[Max(I)].compaction
\* What Pi builds the context from: the turns the last compaction kept.
ContextOf(b) == LET kept == LastCompaction(b).kept IN {t \in TurnsOf(b) : t >= kept}
Context == ContextOf(branch)
Current == branch[Len(branch)].turn

\* rotationState, and what pi.appendEntry makes of it.
StateOf(m) == [set |-> TRUE, boundary |-> m.boundary, through |-> m.through, toc |-> m.toc,
               mark |-> m.mark, only |-> m.only]
Persisted(m) == [branch EXCEPT ![Len(branch)].state = StateOf(m)]

-----------------------------------------------------------------------------
(* The archive.  An outcome says how a call ended. *)

\* The identities a refresh of the protection names.
Docs(m) == m.active \cup m.entries \cup {TurnDoc(m.toc[i]) : i \in DOMAIN m.toc}

Refresh(m) ==
    LET D == Docs(m) IN
    IF D = m.signature THEN {[ok |-> TRUE, mem |-> m, guarded |-> guarded]}
    ELSE IF D = m.leased
      THEN {[ok |-> TRUE, mem |-> [m EXCEPT !.signature = D], guarded |-> guarded]}
    ELSE {[ok |-> TRUE, mem |-> [m EXCEPT !.signature = D, !.leased = D], guarded |-> D]}
         \cup {[ok |-> FALSE, mem |-> m, guarded |-> g] : g \in {guarded, D}}

\* Documents stored one after the other, each protected as it is stored; a call
\* that failed may have stored its document, and may have protected it.
Guard(m, E) == IF E \subseteq m.leased THEN guarded ELSE m.leased \cup E
Remember(m, E) == [m EXCEPT !.leased = @ \cup E, !.known = @ \cup E]
PutFailed(m, D, d) ==
    LET E == {e \in D : Max(e.of) < Max(d.of)} IN
    {[ok |-> FALSE, mem |-> Remember(m, E), stored |-> stored \cup E \cup x,
      guarded |-> Guard(m, g)] : x \in {{}, {d}}, g \in {E, E \cup {d}}}
PutAll(m, D) ==
    {[ok |-> TRUE, mem |-> Remember(m, D), stored |-> stored \cup D, guarded |-> Guard(m, D)]}
    \cup UNION {PutFailed(m, D, d) : d \in D}

Count(ok) == /\ ok \/ faults < MaxFaults
             /\ faults' = IF ok THEN faults ELSE faults + 1

-----------------------------------------------------------------------------
(* Restoring a session from the branch. *)

Fresh(alive) ==
    [alive |-> alive, boundary |-> 0, through |-> 0, toc |-> <<>>, mark |-> 0, only |-> {},
     forced |-> FALSE, active |-> {}, known |-> {}, archived |-> {}, entries |-> {},
     frozen |-> [t \in Turn |-> "none"], removing |-> {}, observed |-> {},
     reconciled |-> 0, leased |-> {}, signature |-> {}]
Dead == Fresh(FALSE)

\* mutant: the carry-over cutoff is not restored.
RestoredWithoutCutoff(b, m, trusted) ==
    LET s == LastState(b) IN
    [Fresh(TRUE) EXCEPT
       !.boundary = s.boundary, !.mark = s.mark, !.only = s.only,
       !.toc = s.toc, !.entries = IF trusted THEN LastCompaction(b).entries ELSE {},
       !.leased = m.leased, !.signature = m.signature]

\* The checkpoints of the last compaction are trusted only when the archive can
\* show them: a read that fails now leaves them out.
Restored(b, m, trusted) ==
    LET s == LastState(b) IN
    [Fresh(TRUE) EXCEPT
       !.boundary = s.boundary, !.through = s.through, !.mark = s.mark, !.only = s.only,
       !.toc = s.toc, !.entries = IF trusted THEN LastCompaction(b).entries ELSE {},
       !.leased = m.leased, !.signature = m.signature]

\* Which tool results a session shows as a preview: those above the base gate, and
\* those a rotation carried over.
Preview(m, t) == t \in Large \/ t <= m.through
Previews(m, T) == {ToolDoc(t) : t \in {u \in T : Preview(m, u)}}

\* seedCompletedArchiveCheckpoint: a session without a mark takes the last
\* completed turn for archived.
Completed(T) == {t \in T : fate[t] = "done"}
Seeded(m) == IF m.mark = 0 /\ Completed(Context) # {}
             THEN [m EXCEPT !.mark = Max(Completed(Context))] ELSE m

\* session_start: restore, seed, warmToolArtifacts; a failure leaves no session.
Start(trusted) ==
    /\ ~mem.alive /\ Count(trusted)
    /\ LET m == Seeded(Restored(branch, Dead, trusted))
           D == Previews(m, Context)
           w == [m EXCEPT !.known = D, !.leased = Docs(m) \cup D,
                          !.signature = Docs(m) \cup D]
       IN  /\ mem' = w /\ guarded' = w.leased
           /\ stored' = stored \cup D
           /\ branch' = IF Seeded(m).mark # LastState(branch).mark THEN Persisted(m) ELSE branch
    /\ UNCHANGED <<fate, job, rows, sent, crashes>>

\* The Pi process ends, wherever it was; the protection runs out.
Crash ==
    /\ mem.alive /\ crashes < MaxCrashes /\ crashes' = crashes + 1
    /\ mem' = Dead /\ guarded' = {} /\ job' = Idle
    /\ fate' = [t \in Turn |-> IF fate[t] = "open" THEN "aborted" ELSE fate[t]]
    /\ UNCHANGED <<branch, stored, rows, sent, faults>>

\* session_tree: the user goes back to an earlier turn.
Navigate(trusted) ==
    /\ mem.alive /\ job = Idle /\ Len(branch) > 0 /\ fate[Current] # "open"
    /\ crashes < MaxCrashes /\ crashes' = crashes + 1
    /\ \E n \in 1..(Len(branch) - 1) :
        /\ branch' = SubSeq(branch, 1, n)
        /\ \E o \in Refresh(Restored(branch', mem, trusted)) :
             Count(trusted /\ o.ok) /\ mem' = o.mem /\ guarded' = o.guarded
    /\ UNCHANGED <<fate, job, stored, rows, sent>>

-----------------------------------------------------------------------------
(* The conversation. *)

Said == Cardinality({t \in Turn : fate[t] # "unsaid"})
Say ==
    /\ mem.alive /\ job = Idle /\ Said < MaxTurns
    /\ IF branch = <<>> THEN TRUE ELSE fate[Current] # "open"
    /\ branch' = Append(branch, Entry(Said + 1))
    /\ fate' = [fate EXCEPT ![Said + 1] = "open"]
    /\ UNCHANGED <<mem, job, stored, guarded, rows, sent, faults, crashes>>

\* The provider has answered.  (A run that is cut short is aborted: by a crash here.)
Finish ==
    /\ mem.alive /\ job = Idle /\ branch # <<>> /\ fate[Current] = "open"
    /\ Current \in DOMAIN sent.hint
    /\ fate' = [fate EXCEPT ![Current] = "done"]
    /\ UNCHANGED <<branch, mem, job, stored, guarded, rows, sent, faults, crashes>>

RequestRotation ==
    /\ mem.alive /\ job = Idle /\ ~mem.forced
    /\ mem' = [mem EXCEPT !.forced = TRUE]
    /\ UNCHANGED <<branch, fate, job, stored, guarded, rows, sent, faults, crashes>>

\* agent_settled, session_shutdown: the completed turns after the mark go to the
\* archive, then the mark moves and is persisted.
Settle ==
    /\ mem.alive /\ job = Idle /\ branch # <<>> /\ fate[Current] # "open"
    /\ Completed(Context) # {} /\ mem.mark # Max(Completed(Context))
    /\ LET last == Max(Completed(Context))
           pending == {t \in Completed(Context) : t > mem.mark} \ mem.archived
       IN  \E o \in PutAll(mem, {TurnDoc(t) : t \in pending}) :
             /\ Count(o.ok)
             /\ stored' = o.stored /\ guarded' = o.guarded
             /\ LET m == [o.mem EXCEPT !.mark = last, !.archived = @ \cup pending]
                IN  IF o.ok THEN mem' = m /\ branch' = Persisted(m)
                            ELSE mem' = o.mem /\ UNCHANGED branch
    /\ UNCHANGED <<fate, job, rows, sent, crashes>>

-----------------------------------------------------------------------------
(* Preparing a request: process.  A call that fails ends it; what the session *)
(* changed in its memory before stays changed.                                *)

At(pc) == mem.alive /\ job.pc = pc
Go(pc) == job' = [job EXCEPT !.pc = pc]
\* How a step ends on the outcome of its calls.
Then(o, pc) ==
    /\ Count(o.ok)
    /\ mem' = o.mem /\ guarded' = o.guarded
    /\ IF o.ok THEN Go(pc) ELSE job' = Idle

\* The window: the context from the boundary on, all of it if the boundary is gone.
Window(m) ==
    LET C == Context IN IF m.boundary \in C THEN {t \in C : t >= m.boundary} ELSE C
\* deduplicateToolResults, externalizeLargeToolResults: what is shown as a preview
\* is in the archive first, and active once it is.
Externalized(m, T, next) ==
    LET D == Previews(m, T) IN
    \E o \in PutAll(m, D \ m.known) :
       /\ Count(o.ok)
       /\ stored' = o.stored /\ guarded' = o.guarded
       /\ mem' = [o.mem EXCEPT !.active = @ \cup IF o.ok THEN D ELSE o.mem.known \ m.known]
       /\ job' = IF o.ok THEN next ELSE Idle
Slice ==
    /\ mem.alive /\ job = Idle /\ branch # <<>> /\ fate[Current] = "open"
    /\ LET found == mem.boundary \in Context
           m == IF found THEN mem ELSE [mem EXCEPT !.boundary = 0, !.through = 0]
           retired == IF found /\ mem.reconciled # mem.boundary
                      THEN Context \ Window(m) ELSE {}
       IN  Externalized([m EXCEPT !.active = {}], Window(m),
                        [pc |-> "protect", active |-> Window(m), retired |-> retired,
                         changed |-> FALSE])
    /\ UNCHANGED <<branch, fate, rows, sent, crashes>>
Rebalance ==
    /\ At("rebalance") /\ Externalized(mem, job.active, [job EXCEPT !.pc = "guard"])
    /\ UNCHANGED <<branch, fate, rows, sent, crashes>>

Protect(pc, next) ==
    /\ At(pc)
    /\ \E o \in Refresh(mem) : Then(o, next)
    /\ UNCHANGED <<branch, fate, stored, rows, sent, crashes>>

\* planEpochRotation: a rotation keeps at most RetainTurns turns, as many as fit, and
\* never the whole window; with one turn, or one that is too large, there is none.
Starts == {t \in job.active :
             /\ t # Min(job.active)
             /\ Cardinality({u \in job.active : u >= t}) <= RetainTurns}
Keep ==
    /\ At("plan")
    /\ mem' = [mem EXCEPT !.forced = FALSE]
    /\ (mem.forced \/ Cardinality(job.active) >= RotationTurns)
          => (Starts = {} \/ Current \in Large)
    /\ Go("hints")
    /\ UNCHANGED <<branch, fate, stored, guarded, rows, sent, faults, crashes>>

\* mutant: a turn the mark is past is not archived again.
ArchiveTurnsPastMark(start) ==
    /\ At("plan") /\ start \in Starts
    /\ LET rotated == {t \in job.active : t < start}
       IN  \E o \in PutAll(mem, {TurnDoc(t) : t \in {u \in rotated : u > mem.mark}}) :
             /\ Count(o.ok)
             /\ mem' = o.mem /\ guarded' = o.guarded /\ stored' = o.stored
             /\ job' = IF o.ok THEN [job EXCEPT !.pc = "rotate", !.active = @ \ rotated,
                                               !.retired = @ \cup rotated]
                              ELSE Idle
    /\ UNCHANGED <<branch, fate, rows, sent, crashes>>

\* archiveTurns: the turns that leave the window, each one stored or known to be.
ArchiveTurns(start) ==
    /\ At("plan") /\ start \in Starts
    /\ LET rotated == {t \in job.active : t < start}
       IN  \E o \in PutAll(mem, {TurnDoc(t) : t \in rotated \ mem.archived}) :
             /\ Count(o.ok)
             /\ mem' = o.mem /\ guarded' = o.guarded /\ stored' = o.stored
             /\ job' = IF o.ok THEN [job EXCEPT !.pc = "rotate", !.active = @ \ rotated,
                                               !.retired = @ \cup rotated]
                              ELSE Idle
    /\ UNCHANGED <<branch, fate, rows, sent, crashes>>

\* The table of contents is protected; then the boundary moves, in memory.
Ordered(S) ==
    [i \in 1..Cardinality(S) |-> CHOOSE t \in S : Cardinality({u \in S : u <= t}) = i]
Recent(toc, n) == SubSeq(toc, Max({1, Len(toc) - n + 1}), Len(toc))
ExtendedToc(rotated) == Recent(mem.toc \o Ordered(rotated), TocMax)
Rotate ==
    /\ At("rotate")
    /\ LET rotated == {t \in Window(mem) : t < Min(job.active)}
           m == [mem EXCEPT !.toc = ExtendedToc(rotated)]
       IN  \E o \in Refresh(m) :
             LET moved == [o.mem EXCEPT !.archived = @ \cup rotated,
                             !.boundary = Min(job.active), !.through = Current]
             IN  Then([o EXCEPT !.mem = IF o.ok THEN moved ELSE mem], "rebalance")
    /\ UNCHANGED <<branch, fate, stored, rows, sent, crashes>>

\* onRotation, once the retained results are rebalanced and protected.
PersistRotation ==
    /\ At("persist")
    /\ branch' = Persisted(mem)
    /\ mem' = [mem EXCEPT !.forced = FALSE]
    /\ Go("hints")
    /\ UNCHANGED <<fate, stored, guarded, rows, sent, faults, crashes>>

-----------------------------------------------------------------------------
(* The hints of a request. *)

Frozen(m) == {t \in Turn : m.frozen[t] # "none"}

\* reconcileHintLifecycle: the hints of messages that left the window are removed;
\* a removal that fails is tried again with the next request.
ReconcileHints ==
    /\ At("hints")
    /\ LET gone == (mem.removing \cup job.retired \cup mem.observed \cup Frozen(mem)
                      \cup mem.only) \ job.active
           m == [mem EXCEPT !.observed = job.active, !.removing = gone]
           cleared == [m EXCEPT !.removing = {}, !.only = @ \ gone,
                         !.frozen = [t \in Turn |-> IF t \in gone THEN "none" ELSE @[t]],
                         !.reconciled = mem.boundary]
           dropped == [t \in Turn |-> IF t \in gone THEN "none" ELSE rows[t]]
       IN  /\ sent' = [sent EXCEPT !.left = @ \cup (gone \cap DOMAIN sent.hint)]
           /\ IF gone = {}
              THEN mem' = cleared /\ UNCHANGED <<branch, rows, faults>>
              ELSE \/ /\ mem' = cleared /\ rows' = dropped
                      /\ branch' = IF cleared.only # mem.only THEN Persisted(cleared) ELSE branch
                      /\ UNCHANGED faults
                   \/ /\ Count(FALSE) /\ mem' = m /\ rows' \in {rows, dropped}
                      /\ UNCHANGED branch
    /\ Go("preflight")
    /\ UNCHANGED <<fate, stored, guarded, crashes>>

\* withAutomaticArchiveHint, one message: its text is frozen with the first answer;
\* a message asked about before is only reconstructed; a failure freezes no text.
Undecided == {t \in job.active : AutomaticRetrieval /\ mem.frozen[t] = "none"}
Answers(t) ==
    IF rows[t] # "none" THEN {rows[t]} ELSE IF t \in mem.only THEN {"empty"}
    ELSE {"empty"} \cup Hint
Preflight ==
    /\ At("preflight") /\ Undecided # {}
    /\ LET t == Min(Undecided) IN
       /\ \E x \in Answers(t), ok \in BOOLEAN, committed \in BOOLEAN :
            /\ ok => committed
            /\ Count(ok)
            /\ rows' = IF committed /\ t \notin mem.only THEN [rows EXCEPT ![t] = x] ELSE rows
            /\ mem' = [mem EXCEPT !.frozen[t] = IF ok THEN x ELSE "empty",
                                  !.only = @ \cup {t}]
       /\ job' = [job EXCEPT !.changed = @ \/ t \notin mem.only]
    /\ UNCHANGED <<branch, fate, stored, guarded, sent, crashes>>

\* The state goes to the branch if a decision is new, and the request to the provider.
Ready == At("preflight") /\ Undecided = {}
DurableWindow(b) ==
    LastState(b).boundary = mem.boundary /\ LastState(b).through = mem.through
Send ==
    /\ Ready
    /\ branch' = IF job.changed THEN Persisted(mem) ELSE branch
    /\ sent' = [boundary |-> mem.boundary, kept |-> LastCompaction(branch).kept,
                form |-> [t \in job.active |-> Preview(mem, t)],
                hint |-> [t \in job.active |-> mem.frozen[t]],
                durable |-> DurableWindow(branch'), left |-> {}]
    /\ mem' = [mem EXCEPT !.known = {d \in @ : d.of \subseteq job.active}]
    /\ job' = Idle
    /\ UNCHANGED <<fate, stored, guarded, rows, faults, crashes>>

-----------------------------------------------------------------------------
(* Compaction by Pi. *)

\* session_before_compact: what Pi is about to drop is stored as a checkpoint, and
\* the new catalog joins the one it carries forward.
CheckpointCompaction(kept, trusted) ==
    /\ mem.alive /\ job = Idle /\ branch # <<>> /\ fate[Current] # "open"
    /\ kept \in Context /\ kept # Min(Context)
    /\ LET span == SpanDoc({t \in Context : t < kept})
           catalog == {span} \cup IF trusted THEN LastCompaction(branch).entries ELSE {}
           m == [mem EXCEPT !.entries = catalog]
       IN  /\ \/ /\ Count(FALSE)
                 /\ stored' \in {stored, stored \cup {span}}
                 /\ UNCHANGED <<mem, job, guarded>>
              \/ /\ stored' = stored \cup {span}
                 /\ \E o \in Refresh(m) :
                      /\ Count(trusted /\ o.ok)
                      /\ mem' = IF o.ok THEN o.mem ELSE mem
                      /\ guarded' = o.guarded
                      /\ job' = IF o.ok THEN [Idle EXCEPT !.pc = "compact", !.active = {kept},
                                                         !.retired = catalog]
                                        ELSE Idle
    /\ UNCHANGED <<branch, fate, rows, sent, crashes>>

\* Pi appends the compaction, or another extension made it give up.
Compact ==
    /\ At("compact")
    /\ \/ /\ branch' = [branch EXCEPT ![Len(branch)].compaction =
                           [kept |-> Max(job.active), entries |-> job.retired]]
          /\ job' = [Idle EXCEPT !.pc = "reset"]
       \/ job' = Idle /\ UNCHANGED branch
    /\ UNCHANGED <<fate, mem, stored, guarded, rows, sent, faults, crashes>>

\* session_compact: resetAfterCompaction, and its state appended.
Reset ==
    /\ At("reset")
    /\ LET m == [mem EXCEPT !.boundary = 0, !.through = 0, !.forced = FALSE, !.toc = <<>>,
                            !.active = {}, !.reconciled = 0]
       IN  \E o \in Refresh(m) :
             /\ Count(o.ok)
             /\ mem' = o.mem /\ guarded' = o.guarded
             /\ branch' = IF o.ok THEN Persisted(o.mem) ELSE branch
    /\ job' = Idle
    /\ UNCHANGED <<fate, stored, rows, sent, crashes>>

-----------------------------------------------------------------------------

Init ==
    /\ branch = <<>> /\ fate = [t \in Turn |-> "unsaid"]
    /\ mem = Fresh(TRUE) /\ job = Idle
    /\ stored = {} /\ guarded = {} /\ rows = [t \in Turn |-> "none"]
    /\ sent = [boundary |-> 0, kept |-> 0, form |-> <<>>, hint |-> <<>>, durable |-> TRUE,
               left |-> {}]
    /\ faults = 0 /\ crashes = 0

Next ==
    \/ \E trusted \in BOOLEAN : Start(trusted) \/ Navigate(trusted)
    \/ Crash \/ Say \/ RequestRotation \/ Settle
    \/ Finish \/ Slice \/ Protect("protect", "plan")
    \/ Keep
    \/ \E t \in Turn : ArchiveTurns(t)
    \/ Rotate \/ Rebalance \/ Protect("guard", "persist") \/ PersistRotation
    \/ ReconcileHints \/ Preflight \/ Send
    \/ \E t \in Turn, trusted \in BOOLEAN : CheckpointCompaction(t, trusted)
    \/ Compact \/ Reset

Spec == Init /\ [][Next]_vars

-----------------------------------------------------------------------------
(* Properties. *)

Doc == [kind : {"turn", "tool", "span"}, of : SUBSET Turn]
Text == {"none", "empty"} \cup Hint

\* The variables have their types (constructor and rotationState of epoch-window.js).
TypeOK ==
    /\ \A i \in DOMAIN branch :
         /\ branch[i].turn \in Turn
         /\ branch[i].state.boundary \in 0..MaxTurns
         /\ branch[i].compaction.entries \subseteq Doc
    /\ fate \in [Turn -> {"unsaid", "open", "done", "aborted"}]
    /\ mem.boundary \in 0..MaxTurns /\ mem.mark \in 0..MaxTurns
    /\ Len(mem.toc) <= TocMax
    /\ mem.only \cup mem.archived \cup mem.removing \cup mem.observed \subseteq Turn
    /\ mem.frozen \in [Turn -> Text] /\ rows \in [Turn -> Text]
    /\ Docs(mem) \cup mem.leased \cup mem.known \cup stored \cup guarded \subseteq Doc
    /\ faults \in 0..MaxFaults /\ crashes \in 0..MaxCrashes

\* What the model can no longer see can be recalled: a turn before the window is in
\* the archive, a turn a compaction dropped is in one of its checkpoints, and a
\* result shown as a preview is there whole, whatever failed or crashed
\* (archiveTurns before the boundary moves, checkpointCompaction before Pi drops).
Recoverable ==
    /\ mem.alive /\ job = Idle =>
         /\ \A t \in Context \ Window(mem) : TurnDoc(t) \in stored
         /\ \A t \in TurnsOf(branch) \ Context :
              \E d \in stored : d.kind = "span" /\ t \in d.of
    /\ \A t \in DOMAIN sent.form : sent.form[t] => ToolDoc(t) \in stored

\* A request is sent when the session has had all it refers to protected, as far as
\* it can know (refreshArchiveProtection, and the rollbacks of archiveTurns).
SentIsLeased == Ready => Docs(mem) \subseteq mem.leased

\* Nothing of the conversation is lost to the session, whatever fails or crashes.
NothingForgotten == TypeOK /\ Recoverable /\ SentIsLeased

\* "Current epoch, current TOC targets: temporarily protected" (retention.md:13):
\* what a request refers to is protected when it is sent.
SentIsProtected == Ready => Docs(mem) \subseteq guarded

\* Within one epoch a result already shown keeps its form, across a restart too (the
\* gate is forward-only, and a rotation persists what it carried over).  A request that
\* was sent before its rotation was persisted (SentIsDurable) gives no such assurance: a
\* crash takes the boundary back, and a later rotation to it carries over other results.
PrefixKept ==
    [][sent.boundary = sent'.boundary /\ sent.kept = sent'.kept /\ sent.durable =>
         \A t \in DOMAIN sent.form \cap DOMAIN sent'.form : sent.form[t] = sent'.form[t]]_sent

\* A message that stays in the window shows the hint it was sent with, or none: never
\* another one (withAutomaticArchiveHint and reconstructOnlyHintMessageKeys).  One that
\* left it, so that its hint was removed (reconcileHintLifecycle), and came back with a
\* step back in the tree or a boundary lost in a crash is asked about anew.
HintHolds ==
    [][\A t \in (DOMAIN sent.hint \cap DOMAIN sent'.hint) \ sent.left :
         sent.hint[t] \in Hint => sent'.hint[t] \in {sent.hint[t], "empty"}]_sent

\* "This also makes a failed attempt durably empty" (epoch-window.js:1142): a message
\* that was sent without a hint shows none later.
EmptyStaysEmpty ==
    [][\A t \in DOMAIN sent.hint \cap DOMAIN sent'.hint :
         sent.hint[t] = "empty" => sent'.hint[t] = "empty"]_sent

\* "The carry-over cutoff is persisted so resume reproduces the same provider-facing
\* suffix" (README.md:73): a request is sent with the boundary and the cutoff a
\* restart would restore.
SentIsDurable ==
    [][Send => DurableWindow(branch')]_vars

\* "Rotation state predating this checkpoint was produced by versions that archived
\* every settled turn" (epoch-window.js:1655): a completed turn the mark is past is
\* in the archive.
SettledArchived ==
    mem.alive /\ job = Idle =>
      \A t \in Completed(Context) : t <= mem.mark => TurnDoc(t) \in stored

=============================================================================
