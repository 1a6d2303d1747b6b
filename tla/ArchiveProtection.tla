-------------------------- MODULE ArchiveProtection --------------------------
(*************************************************************************)
(* How an archive keeps the documents of its context protected in the    *)
(* store (daemon-archive.js).  A protection belongs to an owner of the   *)
(* store and names a bounded set of documents, so a large context is     *)
(* split into shards with an owner each; a changed context is protected  *)
(* under its new owners before the old ones are released.  Every request *)
(* may fail, before or after the store has carried it out.  Sessions are *)
(* protected with the first shard and versions stand for themselves;     *)
(* both are left out.                                                    *)
(*************************************************************************)
EXTENDS Naturals, Sequences, FiniteSets

CONSTANTS
    Doc,        \* documents, a set of numbers
    ShardSize,  \* MAX_PROTECTED_DOCUMENT_VERSIONS
    MaxSyncs,   \* bound: operations of the archive
    MaxFaults   \* bound: requests that fail or whose answer is lost

VARIABLES
    physical,   \* the protections of the store: owner -> documents
    tracked,    \* protectionShardOwners: logical owner -> owners to be released
    context,    \* protectedDocumentIds
    task,       \* the operation at work
    handoff,    \* the owners named by the handoff of a closed archive
    clean,      \* history: the last change of the context went through
    syncs, faults

vars == <<physical, tracked, context, task, handoff, clean, syncs, faults>>
-----------------------------------------------------------------------------
Logical == {"main", "prune"}

\* The documents in order, cut into shards.
Rank(docs, d) == Cardinality({e \in docs : e < d})
Shards(docs) == {s \in {{d \in docs : Rank(docs, d) \div ShardSize = i} : i \in 0..Cardinality(docs)} : s # {}}

\* A single shard is kept under the logical owner, and replaces what was there.
Owners(logical, docs) ==
    IF Cardinality(docs) <= ShardSize THEN {[owner |-> logical, docs |-> {}]}
    ELSE {[owner |-> logical, docs |-> s] : s \in Shards(docs)}
Share(owner, docs) == IF owner.docs = {} THEN docs ELSE owner.docs

Protected == UNION {physical[o] : o \in DOMAIN physical}
Idle == [op |-> "idle", logical |-> "main", next |-> {}, todo |-> {}, tried |-> {}, phase |-> "none"]

Init ==
    /\ physical = [o \in {} |-> {}] /\ tracked = [l \in {} |-> {}]
    /\ context = {} /\ task = Idle /\ handoff = {} /\ clean = TRUE
    /\ syncs = 0 /\ faults = 0

Tracked(l) == IF l \in DOMAIN tracked THEN tracked[l] ELSE {}
Track(l, owners) == tracked' = [k \in DOMAIN tracked \cup {l} |-> IF k = l THEN owners ELSE tracked[k]]
Forget(l) == tracked' = [k \in DOMAIN tracked \ {l} |-> tracked[k]]
-----------------------------------------------------------------------------
(* The operations.                                                       *)

Begin(op, logical, next) ==
    /\ task.op = "idle" /\ syncs < MaxSyncs /\ syncs' = syncs + 1
    /\ task' = [op |-> op, logical |-> logical, next |-> next, todo |-> Owners(logical, next), tried |-> {}, phase |-> "protect"]
    /\ UNCHANGED <<physical, tracked, context, handoff, clean, faults>>

\* setProtectedContext: nothing is done for the context the archive has.
SetContext == \E docs \in SUBSET Doc : docs # context /\ Begin("set", "main", docs)
Refresh == Begin("refresh", "main", context)
Prune == \E docs \in SUBSET Doc : docs # {} /\ Begin("prune", "prune", docs)

\* What happened to a request: carried out, failed, or carried out with its answer lost.
Request(ok, lost, failed) ==
    \/ ok /\ UNCHANGED faults
    \/ lost /\ faults < MaxFaults /\ faults' = faults + 1
    \/ failed /\ faults < MaxFaults /\ faults' = faults + 1

Put(o) == physical' = [p \in DOMAIN physical \cup {o} |-> IF p = o THEN Share(o, task.next) ELSE physical[p]]
Remove(o) == physical' = [p \in DOMAIN physical \ {o} |-> physical[p]]

\* An error: the owners tried so far are remembered with the old ones, and the context is the
\* one before.
Fail(owners) ==
    /\ Track(task.logical, Tracked(task.logical) \cup owners)
    /\ task' = Idle /\ UNCHANGED context
    /\ clean' = (clean /\ task.logical # "main")

\* mutant: the old owners are released before all new ones protect
ProtectShardReleasing ==
    /\ task.phase = "protect"
    /\ \E o \in task.todo :
         LET rest == task.todo \ {o}  tried == task.tried \cup {o}
             stale == Tracked(task.logical) \ (rest \cup tried) IN
         /\ physical' = [p \in (DOMAIN physical \cup {o}) \ stale |-> IF p = o THEN Share(o, task.next) ELSE physical[p]]
         /\ task' = IF rest # {} THEN [task EXCEPT !.todo = rest, !.tried = tried]
                    ELSE [task EXCEPT !.phase = "release", !.tried = tried, !.todo = {}]
         /\ UNCHANGED <<tracked, context, clean, faults>>
    /\ UNCHANGED <<handoff, syncs>>

ProtectShard ==
    /\ task.phase = "protect"
    /\ \E o \in task.todo :
         LET rest == task.todo \ {o}  tried == task.tried \cup {o} IN
         Request(/\ Put(o)
                 /\ task' = IF rest # {} THEN [task EXCEPT !.todo = rest, !.tried = tried]
                            ELSE [task EXCEPT !.phase = "release", !.tried = tried,
                                     !.todo = Tracked(task.logical) \ tried]
                 /\ UNCHANGED <<tracked, context, clean>>,
                 Put(o) /\ Fail(tried),
                 UNCHANGED physical /\ Fail(tried))
    /\ UNCHANGED <<handoff, syncs>>

ReleaseStale ==
    /\ task.phase = "release" /\ task.todo # {}
    /\ \E o \in task.todo :
         Request(/\ Remove(o) /\ task' = [task EXCEPT !.todo = @ \ {o}]
                 /\ UNCHANGED <<tracked, context, clean>>,
                 Remove(o) /\ Fail(task.tried),
                 UNCHANGED physical /\ Fail(task.tried))
    /\ UNCHANGED <<handoff, syncs>>

\* The new owners are the tracked ones; a prune goes on with its waves and lets go of its owner.
Synced ==
    /\ task.phase = "release" /\ task.todo = {}
    /\ Track(task.logical, task.tried)
    /\ context' = IF task.op = "set" THEN task.next ELSE context
    /\ clean' = (clean \/ task.logical = "main")
    /\ task' = IF task.op = "prune" THEN [task EXCEPT !.phase = "letgo", !.todo = task.tried, !.tried = {}] ELSE Idle
    /\ UNCHANGED <<physical, handoff, syncs, faults>>

\* releaseProtectionOwner: all are tried, those that failed stay tracked.
LetGo ==
    /\ task.phase = "letgo" /\ task.todo # {}
    /\ \E o \in task.todo :
         LET step(failed) == task' = [task EXCEPT !.todo = @ \ {o}, !.tried = @ \cup failed] IN
         Request(Remove(o) /\ step({}), Remove(o) /\ step({o}), UNCHANGED physical /\ step({o}))
    /\ UNCHANGED <<tracked, context, handoff, clean, syncs>>

LetGoOver ==
    /\ task.phase = "letgo" /\ task.todo = {}
    /\ IF task.tried = {} THEN Forget(task.logical) ELSE Track(task.logical, task.tried)
    /\ task' = IF task.op = "close" THEN [task EXCEPT !.phase = "next"] ELSE Idle
    /\ UNCHANGED <<physical, context, handoff, clean, syncs, faults>>

\* close: every logical owner is let go of, then what is left is named by the handoff.
Close ==
    /\ task.op = "idle"
    /\ task' = [Idle EXCEPT !.op = "close", !.phase = "next", !.next = {"main"} \cup DOMAIN tracked]
    /\ UNCHANGED <<physical, tracked, context, handoff, clean, syncs, faults>>

CloseNext ==
    /\ task.op = "close" /\ task.phase = "next"
    /\ IF task.next # {}
       THEN \E l \in task.next :
              /\ task' = [task EXCEPT !.logical = l, !.next = @ \ {l}, !.phase = "letgo", !.tried = {},
                             !.todo = IF l \in DOMAIN tracked THEN tracked[l] ELSE {[owner |-> l, docs |-> {}]}]
              /\ UNCHANGED handoff
       ELSE /\ task' = [Idle EXCEPT !.op = "closed"]
            /\ handoff' = UNION {tracked[l] : l \in DOMAIN tracked}
    /\ UNCHANGED <<physical, tracked, context, clean, syncs, faults>>

\* close without release: the successor is told the owners.
HandOver ==
    /\ task.op = "idle" /\ task' = [Idle EXCEPT !.op = "closed"]
    /\ handoff' = LET all == UNION {tracked[l] : l \in DOMAIN tracked} IN
                  IF all = {} THEN {[owner |-> "main", docs |-> {}]} ELSE all
    /\ UNCHANGED <<physical, tracked, context, clean, syncs, faults>>

\* The successor lets go of them.
Successor ==
    /\ task.op = "closed"
    /\ \E o \in handoff : Remove(o) /\ handoff' = handoff \ {o}
    /\ UNCHANGED <<tracked, context, task, clean, syncs, faults>>

Next ==
    \/ SetContext \/ Refresh \/ Prune \/ ProtectShard \/ ReleaseStale \/ Synced
    \/ LetGo \/ LetGoOver \/ Close \/ CloseNext \/ HandOver \/ Successor

Spec == Init /\ [][Next]_vars
-----------------------------------------------------------------------------
Owner == [owner : Logical, docs : SUBSET Doc]

\* The types of the variables.
TypeOK ==
    /\ DOMAIN physical \subseteq Owner /\ \A o \in DOMAIN physical : physical[o] \subseteq Doc
    /\ DOMAIN tracked \subseteq Logical /\ \A l \in DOMAIN tracked : tracked[l] \subseteq Owner
    /\ context \subseteq Doc /\ handoff \subseteq Owner /\ clean \in BOOLEAN
    /\ task.op \in {"idle", "set", "refresh", "prune", "close", "closed"} /\ task.logical \in Logical
    /\ task.phase \in {"none", "protect", "release", "letgo", "next"}
    /\ task.todo \subseteq Owner /\ task.tried \subseteq Owner

\* A document that was and stays in the context is protected at every moment of a change, and
\* so is the whole context once a change has gone through (syncProtection).
KeptThroughout ==
    clean /\ task.op \in {"idle", "set", "refresh", "prune"} =>
        /\ (IF task.op = "set" THEN context \cap task.next ELSE context) \subseteq Protected
        /\ task.op = "set" /\ task.phase = "release" => task.next \subseteq Protected

\* No protection of the store is forgotten: the archive knows its owner, or the handoff of the
\* closed archive names it (syncProtection, releaseProtectionOwner, close).
NothingLeaks ==
    \A o \in DOMAIN physical :
        \/ o \in handoff
        \/ task.op # "closed" /\ (o \in task.tried \/ \E l \in DOMAIN tracked : o \in tracked[l])

\* "Current epoch, current TOC targets, active retrieval leases | Temporarily protected"
\* (docs/rocksdb-archive/retention.md): the context the archive holds is protected.
ContextProtected == task.op = "idle" => context \subseteq Protected
=============================================================================
