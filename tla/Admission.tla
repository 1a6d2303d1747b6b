------------------------------- MODULE Admission -------------------------------
(***************************************************************************)
(* Admission of document versions (src/rocksdb/manifests.js,               *)
(* src/rocksdb/store.js commitCanonical) as the archive client drives it   *)
(* (src/archive/daemon-archive.js putDetailed), against retention.         *)
(*                                                                         *)
(* A client looks up the head of its document, chooses a version, and asks *)
(* the daemon to admit it; a conflict makes it look again.  The daemon     *)
(* takes one admission of a document at a time, and one admission that     *)
(* supersedes another document at a time.  It reads the state it needs     *)
(* record by record, OUTSIDE any transaction, and hands what it read to    *)
(* one canonical transaction as preconditions.  Meanwhile other documents  *)
(* are admitted, and retention expires versions, cleans them up and at     *)
(* last reclaims their markers.                                            *)
(*                                                                         *)
(* Every read is a step here; the canonical transaction is one step, as is *)
(* every transaction of retention: they all write the guard of each        *)
(* version whose state they depend on, so that of two that overlap one     *)
(* runs again (Retention models this).                                     *)
(***************************************************************************)
EXTENDS Naturals, Sequences

CONSTANTS
    Documents, Subjects, Clients,
    Payloads,         \* what a client may put: text, metadata, subject, target
    DocumentOf,       \* the document a payload belongs to
    SubjectOf,        \* its subjectKey, or Absent
    TargetOf,         \* the version of another document it supersedes, or Absent
    CreatedAt,
    MaxAttempts,      \* putDetailed gives up after four
    MaxVersion, MaxPuts, MaxRestarts,   \* bounds
    Absent, Expired

Versions   == 1..MaxVersion
Identities == Documents \X Versions
Requests   == Payloads \X Versions      \* the idempotency key hashes both

ASSUME AdmissionAssumption ==
    /\ Absent \notin Identities \cup Subjects \cup Payloads
    /\ Expired \notin Identities \cup {Absent}
    /\ DocumentOf \in [Payloads -> Documents]
    /\ SubjectOf \in [Payloads -> Subjects \cup {Absent}]
    /\ TargetOf \in [Payloads -> Identities \cup {Absent}]
    /\ CreatedAt \in [Payloads -> Nat]
    /\ MaxAttempts \in Nat \ {0} /\ MaxVersion \in Nat \ {0}
    /\ MaxPuts \in Nat /\ MaxRestarts \in Nat
\* A payload that supersedes its own document is refused whatever the state is.
ASSUME ForeignTarget ==
    \A p \in Payloads : TargetOf[p] # Absent => TargetOf[p][1] # DocumentOf[p]

VARIABLES
    manifest,        \* the payload of each stored version
    marker,          \* SUPERSESSION: replacement, Expired, or Absent
    history,         \* the ledger of each document; highest is 0 when there is none
    subjectLive,     \* the version recorded as holder of each subject
    committed,       \* idempotency markers: the supersessions in their fingerprint
    cleanup,         \* progress of retention with each version
    call,            \* the put of each client and what it has read
    documentQueue,   \* admissionQueues
    semanticQueue,   \* semanticAdmissionQueues
    puts, restarts

records == <<manifest, marker, history, subjectLive, committed>>
queues  == <<documentQueue, semanticQueue>>
vars    == <<records, cleanup, call, queues, puts, restarts>>

NoCommit  == [done |-> FALSE, edges |-> {}]
NoHistory == [highest |-> 0, retired |-> 0]
NoCall(outcome) ==
    [pc |-> "idle", outcome |-> outcome, payload |-> Absent, version |-> 0, attempt |-> 0,
     advance |-> FALSE, diagnostic |-> FALSE, history |-> NoHistory, prior |-> {}, edge |-> {},
     target |-> Absent, cursor |-> Absent, holder |-> Absent]

Init ==
    /\ manifest = [i \in Identities |-> Absent]
    /\ marker = [i \in Identities |-> Absent]
    /\ history = [d \in Documents |-> NoHistory]
    /\ subjectLive = [s \in Subjects |-> Absent]
    /\ committed = [r \in Requests |-> NoCommit]
    /\ cleanup = [i \in Identities |-> "none"]
    /\ call = [c \in Clients |-> NoCall("none")]
    /\ documentQueue = [d \in Documents |-> <<>>]
    /\ semanticQueue = <<>>
    /\ puts = 0 /\ restarts = 0

Live(i)  == manifest[i] # Absent /\ marker[i] = Absent
Stored(d) == {v \in Versions : manifest[<<d, v>>] # Absent}
Latest(d) == IF Stored(d) = {} THEN 0
             ELSE CHOOSE v \in Stored(d) : \A w \in Stored(d) : w <= v

Doc(c)     == DocumentOf[call[c].payload]
Self(c)    == <<Doc(c), call[c].version>>
Prior(c)   == <<Doc(c), call[c].version - 1>>
Subject(c) == SubjectOf[call[c].payload]
Target(c)  == TargetOf[call[c].payload]
Request(c) == <<call[c].payload, call[c].version>>
At(c, pc)  == call[c].pc = pc

\* The reads of an admission that follow those of the version, and of the edge.
AfterEdge(c)    == IF Subject(c) = Absent THEN "commit" ELSE "subject"
AfterVersion(c) == IF Target(c) = Absent THEN AfterEdge(c) ELSE "edge"
-----------------------------------------------------------------------------
(***************************************************************************)
(* The archive client (putDetailed).                                       *)
(***************************************************************************)
Put(c, p) ==
    /\ At(c, "idle") /\ puts < MaxPuts
    /\ puts' = puts + 1
    /\ call' = [call EXCEPT ![c] = [NoCall("none") EXCEPT !.pc = "head", !.payload = p, !.attempt = 1]]
    /\ UNCHANGED <<records, cleanup, queues, restarts>>

\* The version to ask for: that of the live head if it says the same, else the next.
Choose(c, head, latest) ==
    LET again   == head # Absent /\ head = call[c].payload /\ ~call[c].advance
        version == IF again THEN latest ELSE latest + 1
    IN call' = [call EXCEPT ![c] =
           IF version > MaxVersion THEN NoCall("bound")
           ELSE [@ EXCEPT !.pc = "send", !.version = version]]

\* store.get finds the latest manifest, or the ledger of a document without any.
LookUp(c) ==
    LET d == Doc(c)
    IN /\ At(c, "head")
       /\ IF Stored(d) # {} THEN call' = [call EXCEPT ![c].pc = "view", ![c].version = Latest(d)]
          ELSE Choose(c, Absent, IF history[d].retired >= history[d].highest
                                 THEN history[d].highest ELSE 0)
       /\ UNCHANGED <<records, cleanup, queues, puts, restarts>>

\* It then reads the version it found in a snapshot.
View(c) ==
    /\ At(c, "view")
    /\ Choose(c, IF Live(Self(c)) THEN manifest[Self(c)] ELSE Absent, call[c].version)
    /\ UNCHANGED <<records, cleanup, queues, puts, restarts>>
-----------------------------------------------------------------------------
(***************************************************************************)
(* The queues of the daemon (serializeSemanticAdmission around             *)
(* serializeAdmission): a promise chain wakes the callers in order.        *)
(***************************************************************************)
Join(c) == documentQueue' = [documentQueue EXCEPT ![Doc(c)] = Append(@, c)]

Send(c) ==
    /\ At(c, "send")
    /\ IF Target(c) # Absent
       THEN /\ semanticQueue' = Append(semanticQueue, c)
            /\ call' = [call EXCEPT ![c].pc = "semantic"]
            /\ UNCHANGED documentQueue
       ELSE /\ Join(c)
            /\ call' = [call EXCEPT ![c].pc = "document"]
            /\ UNCHANGED semanticQueue
    /\ UNCHANGED <<records, cleanup, puts, restarts>>

SemanticTurn(c) ==
    /\ At(c, "semantic") /\ semanticQueue # <<>> /\ Head(semanticQueue) = c
    /\ Join(c)
    /\ call' = [call EXCEPT ![c].pc = "document"]
    /\ UNCHANGED <<records, cleanup, semanticQueue, puts, restarts>>

\* Version one skips the reads of the version: the commit checks them.
DocumentTurn(c) ==
    /\ At(c, "document") /\ documentQueue[Doc(c)] # <<>> /\ Head(documentQueue[Doc(c)]) = c
    /\ call' = [call EXCEPT ![c].pc = IF call[c].version = 1 THEN AfterVersion(c) ELSE "history"]
    /\ UNCHANGED <<records, cleanup, queues, puts, restarts>>

\* mutant: the outer queue is not released
LeaveDocumentOnly(c) ==
    /\ documentQueue' = [documentQueue EXCEPT ![Doc(c)] = Tail(@)]
    /\ UNCHANGED semanticQueue

\* The callback of both queues ended, with a result or an error.
Leave(c) ==
    /\ documentQueue' = [documentQueue EXCEPT ![Doc(c)] = Tail(@)]
    /\ semanticQueue' = IF Target(c) = Absent THEN semanticQueue ELSE Tail(semanticQueue)

\* putDetailed looks again after these (retriableAdmissionConflict).
Retriable == {"CONFLICT", "SUPERSEDED", "EXPIRED", "IMMUTABLE", "IDEMPOTENCY"}

\* mutant: one attempt too many
RefuseLate(c, error) ==
    /\ Leave(c)
    /\ call' = [call EXCEPT ![c] =
           IF error \in Retriable
           THEN [NoCall("none") EXCEPT !.pc = "head", !.payload = call[c].payload,
                                       !.attempt = call[c].attempt + 1, !.advance = TRUE]
           ELSE NoCall(error)]
    /\ UNCHANGED <<records, cleanup, puts, restarts>>

Refuse(c, error) ==
    /\ Leave(c)
    /\ call' = [call EXCEPT ![c] =
           IF error \in Retriable /\ @.attempt < MaxAttempts
           THEN [NoCall("none") EXCEPT !.pc = "head", !.payload = call[c].payload,
                                       !.attempt = call[c].attempt + 1, !.advance = TRUE]
           ELSE NoCall(error)]
    /\ UNCHANGED <<records, cleanup, puts, restarts>>

Read(c, after) ==
    /\ call' = [call EXCEPT ![c] = after]
    /\ UNCHANGED <<records, cleanup, queues, puts, restarts>>

Retirement(m) == IF m = Expired THEN "EXPIRED" ELSE "SUPERSEDED"
-----------------------------------------------------------------------------
(***************************************************************************)
(* What an admission reads about its own document                          *)
(* (admissionSupersession).                                                *)
(***************************************************************************)
ReadHistory(c) ==
    /\ At(c, "history")
    /\ Read(c, [call[c] EXCEPT !.pc = "committed", !.history = history[Doc(c)]])

ReadCommitted(c) ==
    LET v == call[c].version  h == call[c].history
    IN /\ At(c, "committed")
       /\ IF committed[Request(c)].done
          THEN Read(c, [call[c] EXCEPT !.pc = IF v = 1 THEN AfterVersion(c) ELSE "prior"])
          ELSE IF v <= h.retired THEN Refuse(c, IF v < h.highest THEN "SUPERSEDED" ELSE "EXPIRED")
          ELSE IF h.highest > 0 /\ v \notin {h.highest, h.highest + 1} THEN Refuse(c, "CONFLICT")
          ELSE Read(c, [call[c] EXCEPT !.pc = "latest"])

ReadLatest(c) ==
    LET v == call[c].version  latest == Latest(Doc(c))
    IN /\ At(c, "latest")
       /\ IF marker[Self(c)] # Absent THEN Refuse(c, Retirement(marker[Self(c)]))
          ELSE IF latest = 0 \/ v <= latest
               THEN Read(c, [call[c] EXCEPT !.pc = IF v = 1 THEN AfterVersion(c) ELSE "prior"])
          ELSE IF v # latest + 1 THEN Refuse(c, "CONFLICT")
          ELSE Read(c, [call[c] EXCEPT !.pc = "existing"])

\* A retry repeats the marker its first run wrote.  The code compares the number
\* of the replacement, and not its document.
ReadPrior(c) ==
    LET m == marker[Prior(c)]
    IN /\ At(c, "prior")
       /\ Read(c, [call[c] EXCEPT !.pc = AfterVersion(c),
                   !.prior = IF m \notin {Absent, Expired} /\ m[2] = call[c].version
                             THEN {<<Prior(c), m>>} ELSE {}])

\* A live predecessor is superseded by this version.
ReadExisting(c) ==
    /\ At(c, "existing")
    /\ Read(c, [call[c] EXCEPT !.pc = AfterVersion(c),
                !.prior = IF marker[Prior(c)] = Absent THEN {<<Prior(c), Self(c)>>} ELSE {}])
-----------------------------------------------------------------------------
(***************************************************************************)
(* What it reads about the version of another document that it replaces    *)
(* (admissionExplicitSupersession).                                        *)
(***************************************************************************)
ReadEdge(c) ==
    /\ At(c, "edge")
    /\ Read(c, [call[c] EXCEPT !.pc = IF committed[Request(c)].done THEN "replay" ELSE "fresh"])

ReadReplayedEdge(c) ==
    /\ At(c, "replay")
    /\ IF marker[Target(c)] = Self(c)
       THEN Read(c, [call[c] EXCEPT !.pc = AfterEdge(c), !.edge = {<<Target(c), Self(c)>>}])
       ELSE Refuse(c, "CONFLICT")

ReadFreshEdge(c) ==
    /\ At(c, "fresh")
    /\ IF marker[Target(c)] # Absent THEN Refuse(c, Retirement(marker[Target(c)]))
       ELSE Read(c, [call[c] EXCEPT !.pc = "target"])

\* The chain of explicit replacements behind the target, from its manifest on.
Follow(c, p) ==
    IF TargetOf[p] = Absent
    THEN Read(c, [call[c] EXCEPT !.pc = AfterEdge(c), !.edge = {<<Target(c), Self(c)>>},
                                 !.target = Target(c), !.cursor = Absent])
    ELSE IF TargetOf[p][1] = Doc(c) THEN Refuse(c, "CONFLICT")
    ELSE Read(c, [call[c] EXCEPT !.pc = "chain", !.cursor = TargetOf[p]])

ReadTarget(c) ==
    LET p == manifest[Target(c)]
    IN /\ At(c, "target")
       /\ IF p = Absent THEN Refuse(c, "NOT_FOUND")
          ELSE IF \/ CreatedAt[p] >= CreatedAt[call[c].payload]
                  \/ SubjectOf[p] \notin {Absent, Subject(c)}
               THEN Refuse(c, "CONFLICT")
          ELSE Follow(c, p)

ReadChain(c) ==
    LET p == manifest[call[c].cursor]
    IN /\ At(c, "chain")
       /\ IF p = Absent THEN Refuse(c, "INTEGRITY") ELSE Follow(c, p)
-----------------------------------------------------------------------------
(***************************************************************************)
(* What it reads about its subject (admissionSubjectLive).                 *)
(***************************************************************************)
ReadSubject(c) ==
    LET i == subjectLive[Subject(c)]
    IN /\ At(c, "subject")
       /\ Read(c, [call[c] EXCEPT !.holder = i,
                   !.pc = IF i = Absent THEN "commit"
                          ELSE IF i[1] = Doc(c) THEN "commit" ELSE "holder"])

ReadHolder(c) ==
    /\ At(c, "holder")
    /\ IF marker[call[c].holder] = Absent /\ Target(c) # call[c].holder
       THEN Refuse(c, "CONFLICT")
       ELSE Read(c, [call[c] EXCEPT !.pc = "commit"])
-----------------------------------------------------------------------------
(***************************************************************************)
(* The canonical transaction (commitCanonical).                            *)
(***************************************************************************)
\* mutant: the marker of the replaced document is not among the records
EdgesOfDocument(c) == call[c].prior

Edges(c) == call[c].prior \cup call[c].edge

\* The idempotency marker with the fingerprint of the request
Signature(c) == [done |-> TRUE, edges |-> Edges(c)]

\* mustBeAbsent
Superseded(c) ==
    \/ marker[Self(c)] # Absent
    \/ \E e \in Edges(c) : marker[e[1]] # Absent

\* mutants: the commit does not compare the subject, or the ledger, with what was read
ChangedExceptSubject(c) ==
    \/ call[c].target # Absent /\ manifest[call[c].target] = Absent
    \/ history[Doc(c)] # call[c].history

ChangedExceptHistory(c) ==
    \/ call[c].target # Absent /\ manifest[call[c].target] = Absent
    \/ Subject(c) # Absent /\ subjectLive[Subject(c)] # call[c].holder

\* mustMatch and the previous values of the transitions
Changed(c) ==
    \/ call[c].target # Absent /\ manifest[call[c].target] = Absent
    \/ history[Doc(c)] # call[c].history
    \/ Subject(c) # Absent /\ subjectLive[Subject(c)] # call[c].holder

Fresh(c) ==
    /\ At(c, "commit") /\ ~committed[Request(c)].done
    /\ ~Superseded(c) /\ ~Changed(c)

Commit(c) ==
    /\ Fresh(c) /\ manifest[Self(c)] \in {Absent, call[c].payload}
    /\ manifest' = [manifest EXCEPT ![Self(c)] = call[c].payload]
    /\ marker' = [i \in Identities |->
           IF \E e \in Edges(c) : e[1] = i THEN (CHOOSE e \in Edges(c) : e[1] = i)[2] ELSE marker[i]]
    /\ history' = [history EXCEPT ![Doc(c)] = [highest |-> call[c].version, retired |-> call[c].version - 1]]
    /\ subjectLive' = [s \in Subjects |-> IF s = Subject(c) THEN Self(c) ELSE subjectLive[s]]
    /\ committed' = [committed EXCEPT ![Request(c)] = Signature(c)]
    /\ call' = [call EXCEPT ![c] = NoCall("stored")]
    /\ Leave(c)
    /\ UNCHANGED <<cleanup, puts, restarts>>

Duplicate(c) ==
    /\ At(c, "commit") /\ committed[Request(c)] = Signature(c)
    /\ call' = [call EXCEPT ![c] = NoCall("duplicate")]
    /\ Leave(c)
    /\ UNCHANGED <<records, cleanup, puts, restarts>>

Failure(c) ==
    IF committed[Request(c)].done THEN "IDEMPOTENCY"
    ELSE IF Superseded(c) THEN "SUPERSEDED"
    ELSE IF Changed(c) THEN "CONFLICT" ELSE "IMMUTABLE"

\* A conflict of version one that was not expected: all the reads, and once more.
Diagnose(c) ==
    /\ At(c, "commit") /\ ~committed[Request(c)].done /\ (Superseded(c) \/ Changed(c))
    /\ call[c].version = 1 /\ ~call[c].diagnostic
    /\ Read(c, [NoCall("none") EXCEPT !.pc = "history", !.payload = call[c].payload, !.version = 1,
                !.attempt = call[c].attempt, !.advance = call[c].advance, !.diagnostic = TRUE])

Conflict(c) ==
    /\ At(c, "commit") /\ committed[Request(c)] # Signature(c)
    /\ ~(Fresh(c) /\ manifest[Self(c)] \in {Absent, call[c].payload})
    /\ Failure(c) \in {"SUPERSEDED", "CONFLICT"} => call[c].version # 1 \/ call[c].diagnostic
    /\ Refuse(c, Failure(c))
-----------------------------------------------------------------------------
(***************************************************************************)
(* Retention.  Which version expires, and when, is Retention's subject:    *)
(* here any may at any time (a due expiry, a redaction, disk pressure).    *)
(***************************************************************************)
Retain(i, phase) ==
    /\ cleanup' = [cleanup EXCEPT ![i] = phase]
    /\ UNCHANGED <<call, queues, puts, restarts>>

\* beginExpiry gives a live version its tombstone; one that was superseded has it.
Expire(i) ==
    /\ Live(i) /\ cleanup[i] = "none"
    /\ marker' = [marker EXCEPT ![i] = Expired]
    /\ subjectLive' = [s \in Subjects |->
           IF s = SubjectOf[manifest[i]] /\ subjectLive[s] = i THEN Absent ELSE subjectLive[s]]
    /\ Retain(i, "tombstoned")
    /\ UNCHANGED <<manifest, history, committed>>

ExpireSuperseded(i) ==
    /\ manifest[i] # Absent /\ marker[i] # Absent /\ cleanup[i] = "none"
    /\ Retain(i, "tombstoned")
    /\ UNCHANGED records

\* cleanupCanonicalDocument: its phases that remove what an admission reads.
RemoveDocument(i) ==
    /\ cleanup[i] = "tombstoned"
    /\ manifest' = [manifest EXCEPT ![i] = Absent]
    /\ Retain(i, "admission-references")
    /\ UNCHANGED <<marker, history, subjectLive, committed>>

RemoveAdmission(i) ==
    /\ cleanup[i] = "admission-references"
    /\ committed' = [r \in Requests |->
           IF <<DocumentOf[r[1]], r[2]>> = i THEN NoCommit ELSE committed[r]]
    /\ Retain(i, "expiry")
    /\ UNCHANGED <<manifest, marker, history, subjectLive>>

Bigger(m, n) == IF m >= n THEN m ELSE n

\* mutant: the ledger is not advanced to the retired version
UnretiredHistory(i) == history[i[1]]

\* retiredDocumentHistory
RetiredHistory(i) ==
    LET h == history[i[1]]  latest == IF Latest(i[1]) = 0 THEN i[2] ELSE Latest(i[1])
        highest == Bigger(h.highest, Bigger(latest, i[2]))
    IN [highest |-> highest, retired |-> Bigger(h.retired, Bigger(i[2], highest - 1))]

CompleteCleanup(i) ==
    /\ cleanup[i] = "expiry"
    /\ history' = [history EXCEPT ![i[1]] = RetiredHistory(i)]
    /\ Retain(i, "complete")
    /\ UNCHANGED <<manifest, marker, subjectLive, committed>>

\* The tombstone is kept for an audit period of 30 days, which no put outlasts.
PassAudit(i) ==
    /\ cleanup[i] = "complete" /\ \A c \in Clients : At(c, "idle")
    /\ Retain(i, "audited")
    /\ UNCHANGED records

\* cleanupExpiredTombstoneMetadata, after that period.  It also mends ledgers
\* of stores older than the ledger: here CompleteCleanup has written them.
Reclaim(i) ==
    /\ cleanup[i] = "audited"
    /\ marker' = [marker EXCEPT ![i] = Absent]
    /\ Retain(i, "none")
    /\ UNCHANGED <<manifest, history, subjectLive, committed>>
-----------------------------------------------------------------------------
\* The daemon dies: what it was doing for a client ends in a lost connection,
\* which putDetailed does not retry.
Restart ==
    /\ restarts < MaxRestarts
    /\ restarts' = restarts + 1
    /\ call' = [c \in Clients |->
           IF call[c].pc \in {"idle", "head", "send"} THEN call[c] ELSE NoCall("lost")]
    /\ documentQueue' = [d \in Documents |-> <<>>]
    /\ semanticQueue' = <<>>
    /\ UNCHANGED <<records, cleanup, puts>>

Ask(c)   == LookUp(c) \/ View(c) \/ Send(c) \/ SemanticTurn(c) \/ DocumentTurn(c)
Gather(c) ==
    \/ ReadHistory(c) \/ ReadCommitted(c) \/ ReadLatest(c) \/ ReadPrior(c) \/ ReadExisting(c)
    \/ ReadEdge(c) \/ ReadReplayedEdge(c) \/ ReadFreshEdge(c) \/ ReadTarget(c) \/ ReadChain(c)
    \/ ReadSubject(c) \/ ReadHolder(c)
Finish(c) == Commit(c) \/ Duplicate(c) \/ Diagnose(c) \/ Conflict(c)
Serve(c)  == Ask(c) \/ Gather(c) \/ Finish(c)
Retention(i) ==
    \/ Expire(i) \/ ExpireSuperseded(i) \/ RemoveDocument(i) \/ RemoveAdmission(i)
    \/ CompleteCleanup(i) \/ PassAudit(i) \/ Reclaim(i)

Next ==
    \/ \E c \in Clients : Serve(c)
    \/ \E c \in Clients, p \in Payloads : Put(c, p)
    \/ \E i \in Identities : Retention(i)
    \/ Restart

Spec == Init /\ [][Next]_vars

\* A daemon that answers, and a client that goes on with its attempts.
Fairness == \A c \in Clients : WF_vars(Serve(c))
FairSpec == Spec /\ Fairness
-----------------------------------------------------------------------------
Pcs == {"idle", "head", "view", "send", "semantic", "document", "history", "committed", "latest",
        "prior", "existing", "edge", "replay", "fresh", "target", "chain", "subject", "holder", "commit"}
Outcomes == {"none", "stored", "duplicate", "lost", "bound", "NOT_FOUND", "INTEGRITY"} \cup Retriable
Ledger == [highest: 0..MaxVersion, retired: 0..MaxVersion]
Call ==
    [pc: Pcs, outcome: Outcomes, payload: Payloads \cup {Absent}, version: 0..MaxVersion,
     attempt: 0..MaxAttempts, advance: BOOLEAN, diagnostic: BOOLEAN, history: Ledger,
     prior: SUBSET (Identities \X Identities), edge: SUBSET (Identities \X Identities),
     target: Identities \cup {Absent}, cursor: Identities \cup {Absent},
     holder: Identities \cup {Absent}]

\* The records, the queues and the memory of each call have their types
\* (manifests.js, store.js).
TypeOK ==
    /\ manifest \in [Identities -> Payloads \cup {Absent}]
    /\ marker \in [Identities -> Identities \cup {Absent, Expired}]
    /\ history \in [Documents -> Ledger]
    /\ subjectLive \in [Subjects -> Identities \cup {Absent}]
    /\ committed \in [Requests -> [done: BOOLEAN, edges: SUBSET (Identities \X Identities)]]
    /\ cleanup \in [Identities -> {"none", "tombstoned", "admission-references", "expiry", "complete",
                                 "audited"}]
    /\ call \in [Clients -> Call]
    /\ documentQueue \in [Documents -> Seq(Clients)]
    /\ semanticQueue \in Seq(Clients)
    /\ puts \in 0..MaxPuts /\ restarts \in 0..MaxRestarts

\* A live document with a subject is the one its subject resolves to
\* (resolveLiveSubject), so that no two live documents share a subject: neither
\* a race of two puts, nor of a put and an expiry, leaves one behind.
SubjectResolves ==
    \A i \in Identities :
        Live(i) /\ SubjectOf[manifest[i]] # Absent => subjectLive[SubjectOf[manifest[i]]] = i

\* At most one version of a document is live, and it is the highest admitted one,
\* whatever retention removed below it (admissionSupersession).
OneLiveVersion ==
    \A i \in Identities : Live(i) => i[2] = history[i[1]].highest

\* A version is replaced by one document at most: of two puts that supersede the
\* same target only one commits, also after the marker of the target is reclaimed
\* (admissionExplicitSupersession).
OneReplacement ==
    \A i, j \in Identities :
        /\ manifest[i] # Absent /\ manifest[j] # Absent
        /\ TargetOf[manifest[i]] # Absent
        /\ TargetOf[manifest[i]] = TargetOf[manifest[j]]
        => i = j

\* A version whose records and marker are gone is still known as retired, and
\* never as missing or live (documentHistory, retiredDocumentStatus).
ForgottenIsRetired ==
    \A i \in Identities :
        /\ i[2] <= history[i[1]].highest /\ manifest[i] = Absent /\ marker[i] = Absent
        => i[2] <= history[i[1]].retired

\* Versions appear in order, each once: what becomes live is the successor of the
\* highest version ever admitted, also when a late put meets a reclaimed version.
NeverReadmitted ==
    [][\A i \in Identities : ~Live(i) /\ Live(i)' => i[2] = history[i[1]].highest + 1]_vars

\* Every put ends, with a result or an error: no admission waits in a queue for
\* ever (serializeAdmission releases it on every path).
PutsEnd == \A c \in Clients : ~At(c, "idle") ~> At(c, "idle")

Serving(c) == call[c].pc \notin {"idle", "head", "view", "send"}

\* docs/rocksdb-archive/architecture.md:121: "Duplicate client requests are
\* idempotent by source key or request ID": the daemon answers a request whose
\* version is committed and live with that version.
DuplicateAnswered ==
    [][\A c \in Clients :
        /\ Serving(c) /\ ~Serving(c)'
        /\ Live(Self(c)) /\ committed[Request(c)].done
        => call'[c].outcome \in {"duplicate", "lost"}]_vars
=============================================================================
