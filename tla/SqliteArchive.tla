---------------------------- MODULE SqliteArchive ----------------------------
(***************************************************************************)
(* The SQLite archive (src/archive/archive.js): one file that several      *)
(* clients open at a time, each with limits of its own, and that processes *)
(* of an older version go on writing with their statements.  Those know    *)
(* the documents only; triggers keep the other tables in step with them.   *)
(*                                                                         *)
(* One action is one transaction, or one statement outside of any.  Leases *)
(* and policies that expired are read by nobody: here they are gone.       *)
(* Texts and the tables for their search are left out.                     *)
(***************************************************************************)
EXTENDS Naturals, Sequences, FiniteSets, FiniteSetsExt, SequencesExt

CONSTANTS
    Client,        \* openings of the archive (ownerId)
    MaxBytes,      \* [Client -> Nat], the maximum of each
    TargetBytes,   \* [Client -> Nat], what it prunes down to
    Doc, Size,     \* documents, numbered by their time, and the sizes they may have
    Kind,          \* [Doc -> kind]
    SessionOf,     \* [Doc -> session]
    SourceOf,      \* [Doc -> the turn a decision was taken from]
    MinTurns,      \* minimumTurnsPerSession
    Contexts,      \* what clients protect: sets of [sessions, docs]
    Ages,          \* what is recent: from which document on
    MaxSequence,   \* bound: places in the order
    MaxCalls,      \* bound: calls of clients and of older processes
    MaxLapses      \* bound: what time and the ends of processes do

VARIABLES
    documents,     \* rows of documents: document -> size
    order,         \* document_order: document -> sequence
    lastSequence,  \* its AUTOINCREMENT counter
    messages,      \* documents with rows in archive_messages -> document_sequence
    legacy,        \* legacy_documents: document -> document_sequence
    accounted,     \* document_retention: document -> bytes
    recalled,      \* documents recalled, the last one at the end
    baseline,      \* archive_policy, the least maximum there ever was (0: no row)
    policy,        \* archive_client_policies: the clients whose limits are on record
    leases,        \* archive_protection
    cutoff,        \* documents before it are no longer recent
    client,        \* memory of the clients
    calls, lapses  \* so far

tables == <<documents, order, lastSequence, messages, legacy, accounted, recalled>>
vars == <<tables, baseline, policy, leases, cutoff, client, calls, lapses>>

Rows(f) == DOMAIN f
Without(f, gone) == [d \in DOMAIN f \ gone |-> f[d]]
With(f, d, v) == [e \in DOMAIN f \cup {d} |-> IF e = d THEN v ELSE f[e]]
Total(f) == Cardinality(UNION {{d} \X (1..f[d]) : d \in DOMAIN f})

NewClient == [step |-> "new", docs |-> {}, sessions |-> {}, due |-> FALSE, force |-> FALSE,
              max |-> 0, target |-> 0]

\* A file of an older version may have documents, and no other table.
Init ==
    /\ documents \in UNION {[D -> Size] : D \in SUBSET Doc}
    /\ order = <<>> /\ lastSequence = 0
    /\ messages = <<>> /\ legacy = <<>> /\ accounted = <<>>
    /\ recalled = <<>>
    /\ baseline = 0
    /\ policy = {}
    /\ leases = {}
    /\ cutoff = 0
    /\ client = [c \in Client |-> NewClient]
    /\ calls = 0 /\ lapses = 0

Migrated == baseline > 0
-----------------------------------------------------------------------------
(***************************************************************************)
(* Policies: the least limits among the clients apply to all.              *)
(***************************************************************************)
EffectiveMax(p) == IF p = {} THEN baseline ELSE Min({MaxBytes[c] : c \in p})
EffectiveTarget(c, p) ==
    Min({EffectiveMax(p)}
        \cup IF p = {} THEN {TargetBytes[c]} ELSE {TargetBytes[d] : d \in p})

\* renewPolicyLeaseIfNeeded: once an hour
Renewed(c) == IF client[c].due THEN policy \cup {c} ELSE policy

Hour(c) ==
    /\ client[c].step = "open" /\ ~client[c].due
    /\ client' = [client EXCEPT ![c].due = TRUE]
    /\ UNCHANGED <<tables, baseline, policy, leases, cutoff>>

\* A day without renewal.
PolicyExpires(c) ==
    /\ c \in policy
    /\ policy' = policy \ {c}
    /\ client' = IF client[c].step = "closed" THEN client ELSE [client EXCEPT ![c].due = TRUE]
    /\ UNCHANGED <<tables, baseline, leases, cutoff>>

refreshPolicyLease(c) ==
    /\ client[c].step = "open"
    /\ policy' = policy \cup {c}
    /\ client' = [client EXCEPT ![c].due = FALSE]
    /\ UNCHANGED <<tables, baseline, leases, cutoff>>
-----------------------------------------------------------------------------
(***************************************************************************)
(* What is pruned.                                                         *)
(***************************************************************************)
Before(d, e) == \* compareEvictionCandidates
    LET rank(x) == CASE Kind[x] = "decision-candidate" -> 0
                     [] Kind[x] = "tool-result" -> 1 [] Kind[x] = "turn" -> 3
        place(x) == IF \E i \in DOMAIN recalled : recalled[i] = x
                      THEN CHOOSE i \in DOMAIN recalled : recalled[i] = x ELSE 0
    IN  \/ rank(d) < rank(e)
        \/ /\ rank(d) = rank(e)
           /\ place(d) < place(e) \/ (place(d) = place(e) /\ d < e)

\* Place of a turn among those of its session, the newest first.
TurnRank(d) == Cardinality({e \in Rows(documents) :
    Kind[e] = "turn" /\ SessionOf[e] = SessionOf[d] /\ e >= d})

Leased(d) == \E l \in leases : l.type = "document" /\ l.id = d
Untouchable(c, d) == d \in client[c].docs \/ Leased(d)
SoftProtected(c, d) ==
    \/ SessionOf[d] \in client[c].sessions
    \/ \E l \in leases : l.type = "session" /\ l.id = SessionOf[d]
    \/ d >= cutoff
    \/ Kind[d] = "turn" /\ TurnRank(d) <= MinTurns
HardProtected(d) == Kind[d] = "turn" /\ TurnRank(d) = 1

\* The candidates in their order, until the target is reached.
Until(target, total, candidates) ==
    {d \in candidates :
       total > target + Total([e \in {e \in candidates : Before(e, d)} |-> accounted[e]])}

Selected(c, target) ==
    LET free   == {d \in Rows(documents) : ~Untouchable(c, d)}
        first  == Until(target, Total(accounted), {d \in free : ~SoftProtected(c, d)})
        left   == Total(Without(accounted, first))
        second == Until(target, left, {d \in free \ first : ~HardProtected(d)})
        turns  == {d \in first \cup second : Kind[d] = "turn"}
    IN  first \cup second
        \cup {d \in free : Kind[d] = "decision-candidate" /\ SourceOf[d] \in turns}

\* The delete trigger releases the leases of the document.
LeasesWithout(gone) == {l \in leases : ~(l.type = "document" /\ l.id \in gone)}

Delete(gone) ==
    /\ documents' = Without(documents, gone)
    /\ order' = Without(order, gone)
    /\ messages' = Without(messages, gone)
    /\ legacy' = Without(legacy, gone)
    /\ accounted' = Without(accounted, gone)
    /\ recalled' = SelectSeq(recalled, LAMBDA d : d \notin gone)
    /\ leases' = LeasesWithout(gone)
    /\ UNCHANGED lastSequence

\* The limits are read, and the transaction begins later.
BeginPrune(c, force) ==
    /\ policy' = Renewed(c)
    /\ client' = [client EXCEPT ![c].step = "cleaning", ![c].force = force, ![c].due = FALSE,
                     ![c].max = EffectiveMax(Renewed(c)),
                     ![c].target = EffectiveTarget(c, Renewed(c))]
    /\ UNCHANGED <<tables, baseline, leases, cutoff>>

PruneArchive(c) == client[c].step = "open" /\ BeginPrune(c, TRUE)
PruneAfterPut(c) == client[c].step = "stored" /\ BeginPrune(c, FALSE)

Clean(c) ==
    /\ client[c].step = "cleaning"
    /\ Delete(IF \/ Total(accounted) <= client[c].target
                 \/ ~client[c].force /\ Total(accounted) <= client[c].max
                THEN {} ELSE Selected(c, client[c].target))
    /\ client' = [client EXCEPT ![c].step = "open", ![c].max = 0, ![c].target = 0,
                                ![c].force = FALSE]
    /\ UNCHANGED <<baseline, policy, cutoff>>
-----------------------------------------------------------------------------
(***************************************************************************)
(* Documents.  The messages of one are unknown (an older caller), none, or *)
(* some, which count as one more unit.                                     *)
(***************************************************************************)
Bytes(size, structure) == IF structure = "some" THEN size + 1 ELSE size

Upsert(d, gone, size, structure) ==
    LET old == d \in Rows(documents) \ gone
        sequence == IF old THEN order[d] ELSE lastSequence + 1
    IN  /\ documents' = With(Without(documents, gone), d, size)
        /\ order' = With(Without(order, gone), d, sequence)
        /\ lastSequence' = IF old THEN lastSequence ELSE lastSequence + 1
        /\ messages' = IF structure = "some" THEN With(Without(messages, gone), d, sequence)
                       ELSE Without(messages, gone \cup {d})
        /\ legacy' = IF structure = "unknown" THEN With(Without(legacy, gone), d, sequence)
                     ELSE Without(legacy, gone \cup {d})
        /\ accounted' = With(Without(accounted, gone), d, Bytes(size, structure))
        /\ recalled' = SelectSeq(recalled, LAMBDA e : e \notin gone)

\* What the transaction removes first, so that there is room.
Pressed(c, d, bytes, p) ==
    LET old == IF d \in Rows(accounted) THEN accounted[d] ELSE 0
        room == EffectiveTarget(c, p) + old
    IN  IF Total(accounted) + bytes <= EffectiveMax(p) + old THEN {}
        ELSE LET target == IF room > bytes THEN room - bytes ELSE 0
             IN  IF Total(accounted) <= target THEN {} ELSE Selected(c, target)

Fits(d, bytes, p, gone) ==
    /\ bytes <= EffectiveMax(p)
    /\ Total(Without(accounted, gone \cup {d})) + bytes <= EffectiveMax(p)

put(c, d, size, structure, gone) ==
    LET p == Renewed(c)
    IN  /\ Fits(d, Bytes(size, structure), p, gone)
        /\ d \in Rows(documents) \ gone \/ lastSequence < MaxSequence
        /\ Upsert(d, gone, size, structure)
        /\ policy' = p
        /\ \E protect, deferPrune \in BOOLEAN :
             /\ leases' = LeasesWithout(gone)
                  \cup (IF protect THEN {[owner |-> c, type |-> "document", id |-> d]} ELSE {})
             /\ client' = [client EXCEPT ![c].due = FALSE,
                              ![c].step = IF deferPrune THEN "open" ELSE "stored",
                              ![c].docs = IF protect THEN @ \cup {d} ELSE @]
        /\ UNCHANGED <<baseline, cutoff>>

\* A document that finds no room is refused: the transaction is rolled back, the renewal of
\* the policy with it, but not the memory of it.
refuse(c, d, size, structure, gone) ==
    /\ ~Fits(d, Bytes(size, structure), Renewed(c), gone)
    /\ client' = [client EXCEPT ![c].due = FALSE]
    /\ UNCHANGED <<tables, baseline, policy, leases, cutoff>>

\* get counts the recall.
get(c, d) ==
    /\ client[c].step = "open" /\ d \in Rows(documents)
    /\ recalled' = Append(SelectSeq(recalled, LAMBDA e : e # d), d)
    /\ UNCHANGED <<documents, order, lastSequence, messages, legacy, accounted, baseline, policy,
                   leases, cutoff, client>>

Aging ==
    /\ \E d \in Ages : d > cutoff /\ cutoff' = d
    /\ UNCHANGED <<tables, baseline, policy, leases, client>>

\* The triggers for an older process: its documents are accounted, have no messages and
\* exceed the limit as little as others.
OlderWrites(d, size) ==
    /\ Migrated
    /\ Total(With(accounted, d, size)) <= EffectiveMax(policy)
    /\ d \in Rows(documents) \/ lastSequence < MaxSequence
    /\ Upsert(d, {}, size, "unknown")
    /\ UNCHANGED <<baseline, policy, leases, cutoff, client>>

OlderDeletes(d) ==
    /\ Migrated /\ d \in Rows(documents)
    /\ Delete({d})
    /\ UNCHANGED <<baseline, policy, cutoff, client>>
-----------------------------------------------------------------------------
(***************************************************************************)
(* Clients come and go.                                                    *)
(***************************************************************************)
\* The constructor brings the other tables in line with the documents, in one transaction.
Open(c) ==
    LET fresh == SetToSeq(Rows(documents) \ Rows(order))
        sequence(d) == IF d \in Rows(order) THEN order[d]
                       ELSE lastSequence + CHOOSE i \in DOMAIN fresh : fresh[i] = d
        bare == Rows(documents) \ Rows(messages)
    IN  /\ client[c].step = "new"
        /\ order' = [d \in Rows(documents) |-> sequence(d)]
        /\ lastSequence' = lastSequence + Len(fresh)
        /\ messages' = [d \in Rows(messages) \cap Rows(documents) |-> sequence(d)]
        /\ legacy' = [d \in bare |-> IF d \in Rows(legacy) THEN legacy[d] ELSE sequence(d)]
        /\ accounted' = [d \in Rows(documents) |->
                           Bytes(documents[d], IF d \in Rows(messages) THEN "some" ELSE "none")]
        /\ baseline' = IF Migrated THEN Min({baseline, MaxBytes[c]}) ELSE MaxBytes[c]
        /\ policy' = policy \cup {c}
        /\ client' = [client EXCEPT ![c].step = "open"]
        /\ UNCHANGED <<documents, recalled, leases, cutoff>>

setProtectedContext(c) ==
    /\ client[c].step = "open"
    /\ \E context \in Contexts :
         /\ client' = [client EXCEPT ![c].docs = context.docs, ![c].sessions = context.sessions,
                                     ![c].due = FALSE]
         /\ leases' = {l \in leases : l.owner # c}
              \cup {[owner |-> c, type |-> "document", id |-> d] : d \in context.docs}
              \cup {[owner |-> c, type |-> "session", id |-> s] : s \in context.sessions}
    /\ policy' = policy \cup {c}
    /\ UNCHANGED <<tables, baseline, cutoff>>

\* A day after it was written, whether its owner works or not: the renewal is of the policy.
LeaseExpires ==
    /\ \E l \in leases : leases' = leases \ {l}
    /\ UNCHANGED <<tables, baseline, policy, cutoff, client>>

Gone(c) == [client EXCEPT ![c] = [NewClient EXCEPT !.step = "closed"]]

\* With a handoff the leases are left to whoever takes over.
close(c) ==
    /\ client[c].step = "open"
    /\ policy' = policy \ {c}
    /\ leases' = leases \/ leases' = {l \in leases : l.owner # c}
    /\ client' = Gone(c)
    /\ UNCHANGED <<tables, baseline, cutoff>>

Crash(c) ==
    /\ client[c].step \notin {"new", "closed"}
    /\ client' = Gone(c)
    /\ UNCHANGED <<tables, baseline, policy, leases, cutoff>>

releaseProtectionOwner(c, owner) ==
    /\ client[c].step = "open" /\ client[owner].step = "closed"
    /\ leases' = {l \in leases : l.owner # owner}
    /\ UNCHANGED <<tables, baseline, policy, cutoff, client>>

Writes(c) ==
    /\ client[c].step = "open"
    /\ \E d \in Doc, size \in Size, structure \in {"unknown", "none", "some"} :
         LET gone == Pressed(c, d, Bytes(size, structure), Renewed(c))
         IN  put(c, d, size, structure, gone) \/ refuse(c, d, size, structure, gone)

Call == \/ \E c \in Client : \/ Writes(c) \/ PruneArchive(c) \/ setProtectedContext(c)
                            \/ refreshPolicyLease(c) \/ \E d \in Doc : get(c, d)
        \/ \E d \in Doc : OlderDeletes(d) \/ \E size \in Size : OlderWrites(d, size)

Lapse == \/ \E c \in Client : \/ Hour(c) \/ PolicyExpires(c) \/ close(c) \/ Crash(c)
                             \/ \E owner \in Client : releaseProtectionOwner(c, owner)
         \/ LeaseExpires \/ Aging

Next ==
    \/ calls < MaxCalls /\ calls' = calls + 1 /\ Call /\ UNCHANGED lapses
    \/ lapses < MaxLapses /\ lapses' = lapses + 1 /\ Lapse /\ UNCHANGED calls
    \/ \E c \in Client : (Open(c) \/ PruneAfterPut(c) \/ Clean(c)) /\ UNCHANGED <<calls, lapses>>

Spec == Init /\ [][Next]_vars
-----------------------------------------------------------------------------
TypeOK ==
    /\ Rows(documents) \subseteq Doc /\ \A d \in Rows(documents) : documents[d] \in Size
    /\ lastSequence \in 0..MaxSequence
    /\ \A t \in {order, messages, legacy} : \A d \in Rows(t) : t[d] \in 1..lastSequence
    /\ \A d \in Rows(accounted) : accounted[d] \in Nat
    /\ \A i \in DOMAIN recalled : recalled[i] \in Doc
    /\ policy \subseteq Client
    /\ \A c \in Client : client[c].step \in {"new", "open", "stored", "cleaning", "closed"}

\* Whatever version wrote last, each document has one place in the order and its bytes, those
\* of its messages included; its messages, or its note as a document of an older version, are
\* under that place, and it never has both (the triggers, put, the constructor).
TablesAgree ==
    Migrated =>
      /\ Rows(order) = Rows(documents) /\ Rows(accounted) = Rows(documents)
      /\ IsInjective(order)
      /\ Rows(messages) \cup Rows(legacy) \subseteq Rows(documents)
      /\ Rows(messages) \cap Rows(legacy) = {}
      /\ \A d \in Rows(messages) : messages[d] = order[d]
      /\ \A d \in Rows(legacy) : legacy[d] = order[d]
      /\ \A d \in Rows(documents) :
           accounted[d] = documents[d] + IF d \in Rows(messages) THEN 1 ELSE 0

Dropped == Rows(documents) \ Rows(documents')

\* What is under a lease of anybody, or is the newest turn of its session, is deleted by older
\* processes only (prune).
ProtectedKept ==
    [][\A d \in Dropped : OlderDeletes(d) \/ (~Leased(d) /\ ~HardProtected(d))]_vars

\* The archive grows only within the least limit of the clients whose policy is alive
\* (effectiveRetention, put, the triggers).
CapKept ==
    [][Migrated /\ accounted' # accounted /\ Total(accounted') > Total(accounted) =>
         \A c \in policy' : Total(accounted') <= MaxBytes[c]]_vars

\* A prune takes what is softly protected only when nothing else is left, ends above its target
\* only when all that is left is protected, and takes no more than that needs, save decisions
\* that go only because their turn does (prune).
PrunedRightly ==
    [][\A c \in Client :
         /\ client[c].step = "cleaning" /\ client'[c].step = "open"
         /\ Total(accounted) > IF client[c].force THEN client[c].target ELSE client[c].max
         => LET follow == {d \in Dropped : Kind[d] = "decision-candidate" /\ SoftProtected(c, d)
                              /\ SourceOf[d] \in Dropped /\ ~SoftProtected(c, SourceOf[d])}
                left   == {d \in Rows(documents') : ~Untouchable(c, d)}
                Needed(d) == Total(accounted') + accounted[d]
                    + Total([e \in follow \ {d} |-> accounted[e]]) > client[c].target
            IN  /\ \/ \A d \in Dropped \ follow : ~SoftProtected(c, d)
                   \/ \A d \in left : SoftProtected(c, d)
                /\ Total(accounted') <= client[c].target \/ \A d \in left : HardProtected(d)
                /\ Dropped = {} \/ \E d \in Dropped : Needed(d)]_vars
=============================================================================
