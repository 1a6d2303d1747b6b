---------------------------- MODULE FrozenHints ----------------------------
(***************************************************************************)
(* What the daemon shows unasked (retrieval/preflight.js, hints.js and     *)
(* continuity-policy.js): for each user message one decision, frozen with  *)
(* the session and copied to the sessions that descend from it.            *)
(*                                                                         *)
(* Preflights of overlapping lineages queue behind each other.  One reads  *)
(* the frozen decision, or searches, decides and freezes a new one in a    *)
(* transaction that conflicts with another only on the keys both write.    *)
(* Corrections, the removal of hints, and the sweep of what was abandoned  *)
(* run at any time.                                                        *)
(***************************************************************************)
EXTENDS Naturals, FiniteSets, FiniteSetsExt

CONSTANTS
    Session,    \* sessions of one project
    Ancestors,  \* the sessions a session descends from, by session
    Key,        \* user messages, by their keys
    Doc,        \* archived document versions
    Call,       \* preflight requests, in their order
    HintBudget, \* tokens of one hint
    Budget,     \* tokens of the hints in an active context
    Cooldown,   \* how long a source is not shown again
    Inactivity, \* after which the hints of a session are abandoned
    MaxTime,    \* bound of the clock
    None

VARIABLES
    now,
    doc,      \* "live", "superseded" or "gone"
    guard,    \* the conflict guard of a document
    record,   \* the frozen decisions, by session and message
    activity, \* when a session was last seen, and its hints
    pointer,  \* the time at which a decision is to be checked
    checks,   \* the entries of the abandonment index
    exposure, \* when an exposed source expires, by session and document
    expiries, \* the entries of the exposure index
    queue,    \* the last preflight of a session
    call,     \* the preflights
    sweep,    \* the entries a sweep has scanned
    shown,    \* history: what was revealed, to whom, and when
    seen      \* history: when a session was last seen

vars == <<now, doc, guard, record, activity, pointer, checks, exposure, expiries, queue,
          call, sweep, shown, seen>>
frozen == <<record, activity, pointer, checks, exposure, expiries>>

Suppressed == [doc |-> None, tokens |-> 0]
NoCall == [pc |-> "idle", session |-> None, key |-> None, lineage |-> {}, after |-> {},
           at |-> 0, hint |-> Suppressed, held |-> FALSE, read |-> 0, was |-> None]

Init ==
    /\ now = 1
    /\ doc = [d \in Doc |-> "live"] /\ guard = [d \in Doc |-> 0]
    /\ record = [s \in Session |-> [k \in Key |-> None]]
    /\ activity = [s \in Session |-> None]
    /\ pointer = [s \in Session |-> [k \in Key |-> 0]]
    /\ checks = {} /\ expiries = {}
    /\ exposure = [s \in Session |-> [d \in Doc |-> 0]]
    /\ queue = [s \in Session |-> None]
    /\ call = [c \in Call |-> NoCall]
    /\ sweep = [checks |-> {}, expiries |-> {}, at |-> 0]
    /\ shown = {} /\ seen = [s \in Session |-> 0]

-----------------------------------------------------------------------------
(* Reads of a view.                                                        *)

\* previouslySurfacedInLineage
Surfaced(d, lineage, at) == \E s \in lineage : exposure[s][d] > at

\* activeHintTokens: every message of the session is still in its context.
ActiveTokens(s) ==
    MapThenSumSet(LAMBDA k : IF record[s][k] = None THEN 0 ELSE record[s][k].tokens, Key)

\* decideContinuityDisclosure and candidateSuppressionReason, as far as a document goes.
Eligible(d) == doc[d] = "live"

\* readLineageFrozenHint
OwnOrInherited(s, key, lineage) ==
    IF record[s][key] # None THEN {record[s][key]}
    ELSE {record[t][key] : t \in {u \in lineage \ {s} : record[u][key] # None}}

-----------------------------------------------------------------------------
(* The queue.                                                              *)

Ended(c) == call[c].pc \in {"done", "failed"}
EndedBut(c, pc) == [call EXCEPT ![c].pc = pc, ![c].held = FALSE, ![c].after = {}]
\* release, and what the call still has of the queue
Released(c) == [s \in Session |-> IF queue[s] = c THEN None ELSE queue[s]]

\* mutant: only the preflights of one session queue
EnqueueAlone(c) ==
    /\ call[c].pc = "idle" /\ \A b \in Call : b < c => call[b].pc # "idle"
    /\ \E s \in Session, k \in Key : \E lineage \in {{s}, {s} \union Ancestors[s]} :
        /\ call' = [call EXCEPT ![c] =
             [NoCall EXCEPT !.pc = "queued", !.session = s, !.key = k, !.lineage = lineage,
                            !.after = {queue[s]} \ {None}]]
        /\ queue' = [queue EXCEPT ![s] = c]
    /\ UNCHANGED <<now, doc, guard, frozen, sweep, shown, seen>>

\* serializeSessionPreflight: the lineage is what the client could verify of it.
Enqueue(c) ==
    /\ call[c].pc = "idle" /\ \A b \in Call : b < c => call[b].pc # "idle"
    /\ \E s \in Session, k \in Key : \E lineage \in {{s}, {s} \union Ancestors[s]} :
        /\ call' = [call EXCEPT ![c] =
             [NoCall EXCEPT !.pc = "queued", !.session = s, !.key = k, !.lineage = lineage,
                            !.after = {queue[t] : t \in lineage} \ {None}]]
        /\ queue' = [t \in Session |-> IF t \in lineage THEN c ELSE queue[t]]
    /\ UNCHANGED <<now, doc, guard, frozen, sweep, shown, seen>>

\* preflightArchive up to the search.
Begin(c) ==
    /\ call[c].pc = "queued" /\ \A b \in call[c].after : Ended(b)
    /\ LET found == OwnOrInherited(call[c].session, call[c].key, call[c].lineage)
           started == [call EXCEPT ![c].at = now, ![c].after = {}]
       IN  \* Conflicting decisions of the lineage, or none where one is to be reconstructed.
           \/ /\ Cardinality(found) > 1 \/ found = {}
              /\ call' = EndedBut(c, "failed") /\ queue' = Released(c)
           \/ /\ found = {}
              /\ call' = [started EXCEPT ![c].pc = "search"] /\ UNCHANGED queue
           \/ /\ Cardinality(found) = 1 /\ record[call[c].session][call[c].key] # None
              /\ call' = [started EXCEPT ![c].pc = "touch"] /\ UNCHANGED queue
           \/ /\ Cardinality(found) = 1 /\ record[call[c].session][call[c].key] = None
              /\ call' = [started EXCEPT ![c].pc = "copy",
                    ![c].hint = CHOOSE h \in found : TRUE] /\ UNCHANGED queue
    /\ UNCHANGED <<now, doc, guard, frozen, sweep, shown, seen>>

-----------------------------------------------------------------------------
(* Freezing.                                                               *)

\* The rows a decision that reveals a source adds for the sessions it is exposed to.
Expose(sessions, h, at) ==
    IF h.doc = None THEN UNCHANGED <<exposure, expiries>>
    ELSE LET new(s) == Max({exposure[s][h.doc], at + Cooldown})
         IN  /\ exposure' = [s \in Session |->
                   IF s \in sessions THEN [exposure[s] EXCEPT ![h.doc] = new(s)]
                   ELSE exposure[s]]
             /\ expiries' =
                   {e \in expiries : ~(e.session \in sessions /\ e.doc = h.doc)}
                   \union {[at |-> new(s), session |-> s, doc |-> h.doc] : s \in sessions}

LastSeen(s) == IF activity[s] = None THEN 0 ELSE activity[s].last

\* persistFrozenHint, the writes of its transaction.
Freeze(s, k, h, at, exposed) ==
    /\ record' = [record EXCEPT ![s][k] = h]
    /\ activity' = [activity EXCEPT ![s] =
         [last |-> Max({LastSeen(s), at}),
          count |-> 1 + IF activity[s] = None THEN 0 ELSE activity[s].count]]
    /\ checks' = checks \union {[at |-> at + Inactivity, session |-> s, key |-> k]}
    /\ pointer' = [pointer EXCEPT ![s][k] = at + Inactivity]
    /\ Expose(exposed, h, at)
    /\ seen' = [seen EXCEPT ![s] = Max({seen[s], at})]

\* The decision of an ancestor becomes the session's own.
Copy(c) ==
    /\ call[c].pc = "copy"
    /\ LET s == call[c].session  k == call[c].key
       IN  IF record[s][k] # None THEN UNCHANGED <<frozen, seen>>
           ELSE Freeze(s, k, call[c].hint, call[c].at, {s})
    /\ call' = [call EXCEPT ![c].pc = "touch"]
    /\ UNCHANGED <<now, doc, guard, queue, sweep, shown>>

\* touchFrozenHintSession, also where the hint was removed meanwhile.
Touch(c) ==
    /\ call[c].pc = "touch"
    /\ LET s == call[c].session
       IN  /\ activity' = [activity EXCEPT ![s] =
                [last |-> Max({LastSeen(s), call[c].at}),
                 count |-> IF activity[s] = None THEN 0 ELSE activity[s].count]]
           /\ seen' = [seen EXCEPT ![s] = Max({seen[s], call[c].at})]
    /\ call' = EndedBut(c, "done") /\ queue' = Released(c)
    /\ UNCHANGED <<now, doc, guard, record, pointer, checks, exposure, expiries, sweep, shown>>

\* searchArchive: the first result, if any, is live and leased.
Search(c) ==
    /\ call[c].pc = "search"
    /\ \/ \E d \in Doc : /\ doc[d] = "live"
                         /\ call' = [call EXCEPT ![c].pc = "decide", ![c].held = TRUE,
                                                 ![c].hint = [doc |-> d, tokens |-> 0]]
       \/ call' = [call EXCEPT ![c].pc = "decide"]
    /\ UNCHANGED <<now, doc, guard, frozen, queue, sweep, shown, seen>>

\* The decision before the transaction; the leases of the search end here, whatever fails.
Decide(c) ==
    /\ call[c].pc = "decide"
    /\ LET d == call[c].hint.doc
           remaining == Min({HintBudget, Max({0, Budget - ActiveTokens(call[c].session)})})
       IN  \/ \* weak evidence, current state, general knowledge; or any of the refusals
              /\ call' = [call EXCEPT ![c].pc = "validate", ![c].hint = Suppressed,
                                      ![c].held = FALSE]
              /\ UNCHANGED queue
           \/ /\ d # None /\ Eligible(d) /\ ~Surfaced(d, call[c].lineage, call[c].at)
              /\ \E n \in 1..remaining :
                   call' = [call EXCEPT ![c].pc = "validate", ![c].hint.tokens = n,
                                        ![c].held = FALSE]
              /\ UNCHANGED queue
           \/ call' = EndedBut(c, "failed") /\ queue' = Released(c)
    /\ UNCHANGED <<now, doc, guard, frozen, sweep, shown, seen>>

\* validateBeforeWrite, on the snapshot of the transaction.
Allowed(c) ==
    LET h == call[c].hint
    IN  /\ Eligible(h.doc) /\ ~Surfaced(h.doc, call[c].lineage, call[c].at)
        /\ ActiveTokens(call[c].session) + h.tokens <= Budget

Guard(d) == IF d = None THEN 0 ELSE guard[d]

Validate(c) ==
    /\ call[c].pc = "validate"
    /\ LET kept == IF call[c].hint.doc = None \/ Allowed(c) THEN call[c].hint ELSE Suppressed
       IN  call' = [call EXCEPT ![c].pc = "commit", ![c].read = Guard(call[c].hint.doc),
                                ![c].was = [of |-> call[c].hint, kept |-> kept,
                                            activity |-> activity[call[c].session]]]
    /\ UNCHANGED <<now, doc, guard, frozen, queue, sweep, shown, seen>>

\* A key the transaction writes was written since its snapshot.
Conflict(c) ==
    \/ call[c].read # Guard(call[c].was.of.doc)
    \/ call[c].was.activity # activity[call[c].session]

Commit(c) ==
    /\ call[c].pc = "commit"
    /\ LET s == call[c].session  k == call[c].key
           was == call[c].was
       IN  \/ /\ Conflict(c)
              /\ call' = [call EXCEPT ![c].pc = "validate", ![c].was = None]
              /\ UNCHANGED <<guard, frozen, queue, shown, seen>>
           \/ /\ ~Conflict(c)
              /\ IF record[s][k] # None THEN UNCHANGED <<frozen, seen, guard, shown>>
                 ELSE /\ Freeze(s, k, was.kept, call[c].at, call[c].lineage)
                      /\ guard' = IF was.of.doc = None THEN guard
                                  ELSE [guard EXCEPT ![was.of.doc] = @ + 1]
                      /\ shown' = IF was.kept.doc = None THEN shown
                                  ELSE shown \union {[doc |-> was.kept.doc,
                                         lineage |-> call[c].lineage, at |-> call[c].at, by |-> now,
                                         session |-> s, key |-> k]}
              /\ call' = [EndedBut(c, "done") EXCEPT ![c].was = None]
              /\ queue' = Released(c)
    /\ UNCHANGED <<now, doc, sweep>>

-----------------------------------------------------------------------------
(* Meanwhile.                                                              *)

\* mutant: the activity forgets the session with the first of its hints
RemoveForgetting(s, k) ==
    /\ record' = [record EXCEPT ![s][k] = None]
    /\ checks' = checks \ {[at |-> pointer[s][k], session |-> s, key |-> k]}
    /\ pointer' = [pointer EXCEPT ![s][k] = 0]
    /\ activity' = [activity EXCEPT ![s] = None]

\* removeFrozenHintFromView
RemoveFrozen(s, k) ==
    /\ record' = [record EXCEPT ![s][k] = None]
    /\ checks' = checks \ {[at |-> pointer[s][k], session |-> s, key |-> k]}
    /\ pointer' = [pointer EXCEPT ![s][k] = 0]
    /\ activity' = [activity EXCEPT ![s] =
         IF @ = None \/ @.count <= 1 THEN None ELSE [@ EXCEPT !.count = @ - 1]]

\* removeFrozenHint: its turn rotated out, or the hints of the session are cleared.
Remove(s, k) ==
    /\ record[s][k] # None /\ RemoveFrozen(s, k)
    /\ UNCHANGED <<now, doc, guard, exposure, expiries, queue, call, sweep, shown, seen>>

\* A correction, or the end of the document; both write its guard.
Change(d) ==
    /\ doc[d] = "live"
    /\ \E state \in {"superseded", "gone"} : doc' = [doc EXCEPT ![d] = state]
    /\ guard' = [guard EXCEPT ![d] = @ + 1]
    /\ UNCHANGED <<now, frozen, queue, call, sweep, shown, seen>>

\* cleanupAbandonedHints, its two scans
Scan ==
    /\ sweep.checks = {} /\ sweep.expiries = {}
    /\ sweep' = [checks |-> {e \in checks : e.at <= now},
                 expiries |-> {e \in expiries : e.at <= now}, at |-> now]
    /\ sweep' # sweep
    /\ UNCHANGED <<now, doc, guard, frozen, queue, call, shown, seen>>

Sweep(e) ==
    /\ e \in sweep.checks /\ sweep' = [sweep EXCEPT !.checks = @ \ {e}]
    /\ LET s == e.session  k == e.key
       IN  IF pointer[s][k] # e.at \/ record[s][k] = None
           THEN /\ checks' = checks \ {e}
                /\ pointer' = IF pointer[s][k] = e.at THEN [pointer EXCEPT ![s][k] = 0] ELSE pointer
                /\ UNCHANGED <<record, activity>>
           ELSE IF activity[s] # None /\ activity[s].last + Inactivity > sweep.at
           THEN LET next == activity[s].last + Inactivity
                IN  /\ checks' = (checks \ {e}) \union {[e EXCEPT !.at = next]}
                    /\ pointer' = [pointer EXCEPT ![s][k] = next]
                    /\ UNCHANGED <<record, activity>>
           ELSE RemoveFrozen(s, k)
    /\ UNCHANGED <<now, doc, guard, exposure, expiries, queue, call, shown, seen>>

SweepExposure(e) ==
    /\ sweep.checks = {} /\ e \in sweep.expiries
    /\ sweep' = [sweep EXCEPT !.expiries = @ \ {e}]
    /\ exposure' = IF exposure[e.session][e.doc] = e.at
                   THEN [exposure EXCEPT ![e.session][e.doc] = 0] ELSE exposure
    /\ expiries' = expiries \ {e}
    /\ UNCHANGED <<now, doc, guard, record, activity, pointer, checks, queue, call, shown, seen>>

Tick ==
    /\ now < MaxTime /\ now' = now + 1
    /\ UNCHANGED <<doc, guard, frozen, queue, call, sweep, shown, seen>>

Next ==
    \/ \E c \in Call : \/ Enqueue(c) \/ Begin(c) \/ Copy(c) \/ Touch(c) \/ Search(c)
                       \/ Decide(c) \/ Validate(c) \/ Commit(c)
    \/ \E s \in Session, k \in Key : Remove(s, k)
    \/ \E d \in Doc : Change(d)
    \/ Scan \/ \E e \in checks \union sweep.checks : Sweep(e)
    \/ \E e \in sweep.expiries : SweepExposure(e)
    \/ Tick

Spec == Init /\ [][Next]_vars
-----------------------------------------------------------------------------
Time == 0..(MaxTime + Cooldown + Inactivity)
Hint == [doc : Doc \union {None}, tokens : 0..HintBudget]

TypeOK ==
    /\ now \in 1..MaxTime /\ doc \in [Doc -> {"live", "superseded", "gone"}]
    /\ guard \in [Doc -> Nat]
    /\ record \in [Session -> [Key -> Hint \union {None}]]
    /\ activity \in [Session -> [last : 1..MaxTime, count : 0..Cardinality(Key)] \union {None}]
    /\ pointer \in [Session -> [Key -> Time]]
    /\ checks \subseteq [at : Time, session : Session, key : Key]
    /\ exposure \in [Session -> [Doc -> Time]]
    /\ expiries \subseteq [at : Time, session : Session, doc : Doc]
    /\ queue \in [Session -> Call \union {None}]
    /\ \A c \in Call : call[c].pc \in {"idle", "queued", "search", "decide", "validate",
                                       "commit", "copy", "touch", "done", "failed"}

\* Whatever interleaves with the sweep, a frozen decision is counted in the activity of its
\* session and has the one abandonment entry its pointer names, and an exposure its one
\* expiry entry: nothing of a hint stays behind for ever, and none is swept twice
\* (persistFrozenHint, removeFrozenHintFromView, cleanupAbandonedHints).
HintsAccounted ==
    /\ \A s \in Session : LET own == {k \in Key : record[s][k] # None}
        IN  /\ Cardinality(own) = IF activity[s] = None THEN 0 ELSE activity[s].count
            /\ \A k \in Key : {e \in checks : e.session = s /\ e.key = k} =
                 IF k \in own THEN {[at |-> pointer[s][k], session |-> s, key |-> k]} ELSE {}
    /\ expiries = {[at |-> exposure[s][d], session |-> s, doc |-> d] :
                    <<s, d>> \in {p \in Session \X Doc : exposure[p[1]][p[2]] # 0}}

\* A source is not revealed again to sessions of one lineage before its cooldown is over,
\* however many of them ask at once; the cooldown runs from the start of the preflight
\* (serializeSessionPreflight, previouslySurfacedInLineage).
NotRepeated == \A a, b \in shown :
    a # b /\ a.doc = b.doc /\ a.lineage \intersect b.lineage # {} =>
        a.at + Cooldown <= b.by \/ b.at + Cooldown <= a.by

\* The leases of a search end with its preflight (the finally block of preflightArchive).
LeasesEnd == \A c \in Call : call[c].held => call[c].pc = "decide"

\* What is revealed was live when it was frozen, a correction that races the decision
\* included, and fits the budget of the active context (validateBeforeWrite).
RevealedLive == [][\A a \in shown' \ shown :
    doc[a.doc] = "live" /\ ActiveTokens(a.session)' <= Budget]_vars

\* A frozen decision is what the session shows for good: it does not change while it is
\* there, and a sweep takes it only from a session not seen for the inactivity period.
FrozenStays == [][\A s \in Session, k \in Key : record[s][k] # None =>
    /\ record'[s][k] \in {record[s][k], None}
    /\ sweep' # sweep /\ record'[s][k] = None => seen[s] + Inactivity <= now]_vars

\* One message has one decision in a lineage: what a preflight freezes or copies is not
\* what another of the sessions it descends from shows differently, though both were asked
\* at once (serializeSessionPreflight, readLineageFrozenHint).
OneDecision == [][\A c \in Call : call'[c].pc # call[c].pc /\ call[c].pc \in {"commit", "copy"} =>
    \A t \in call[c].lineage : record'[t][call[c].key] \in
        {None, record'[call[c].session][call[c].key]}]_vars
=============================================================================
