----------------------- MODULE CheckpointPublication -----------------------
(*************************************************************************)
(* How exact sources are put into the archive before a compaction may    *)
(* drop them (archive-checkpoint.js): every part of every source, then   *)
(* a root per source, then the publication of all roots.  Documents have *)
(* content addresses, so an attempt that failed, or that a crash cut     *)
(* short, is continued by the next one.  Addresses are hashes of what    *)
(* they cover; here an address is what it covers.  The first version of  *)
(* the format left the layout of the parts out of the addresses; a       *)
(* complete checkpoint of that format is used as it is.                  *)
(*************************************************************************)
EXTENDS Naturals, Sequences, SequencesExt, FiniteSets

CONSTANTS
    Checkpoint,  \* what is checkpointed: sequences of texts, a text a sequence of parts
    Writer,      \* processes that write checkpoints
    OtherPart,   \* a part that belongs to no text
    MaxAttempts, \* bound: attempts of all writers
    MaxFaults,   \* bound: requests that fail, before or after they were carried out
    MaxDamage    \* bound: documents that expire or are found changed

VARIABLES
    store,       \* the archive: address -> content
    writer,      \* the attempt of each writer
    leases,      \* documents each writer protects
    attempts, faults, damage

vars == <<store, writer, leases, attempts, faults, damage>>
-----------------------------------------------------------------------------
(* Addresses and contents.                                               *)

NoLayout == <<>>
Publication(texts, layouts) == [kind |-> "publication", sources |-> texts, layouts |-> layouts]
Root(text, publication, layout) == [kind |-> "root", source |-> text, publication |-> publication, layout |-> layout]
Part(root, part) == [kind |-> "part", root |-> root, part |-> part]

PublicationId(texts, committed) == Publication(texts, IF committed THEN texts ELSE NoLayout)
RootId(texts, i, committed) ==
    Root(texts[i], PublicationId(texts, committed), IF committed THEN texts[i] ELSE NoLayout)

Document(id, content) == [id |-> id, content |-> content]
Parts(texts, i, committed) ==
    LET root == RootId(texts, i, committed)
    IN  [p \in 1..Len(texts[i]) |-> Document(Part(root, texts[i][p]), <<texts[i][p]>>)]
RootOf(texts, i, committed) == Document(RootId(texts, i, committed), texts[i])
PublicationOf(texts, committed) ==
    Document(PublicationId(texts, committed), [i \in 1..Len(texts) |-> RootId(texts, i, committed)])

\* What is written, in order.
Plan(texts, committed) ==
    FlattenSeq([i \in 1..Len(texts) |-> Parts(texts, i, committed)])
    \o [i \in 1..Len(texts) |-> RootOf(texts, i, committed)] \o <<PublicationOf(texts, committed)>>

With(id, content) == [d \in DOMAIN store \cup {id} |-> IF d = id THEN content ELSE store[d]]
Without(id) == [d \in DOMAIN store \ {id} |-> store[d]]
-----------------------------------------------------------------------------
(* Reading a source back.                                                *)

Present(id) == id \in DOMAIN store

\* inspectCheckpointManifest: the root names its parts, its publication names the root.
Inspected(root) ==
    /\ Present(root) /\ Present(root.publication)
    /\ store[root.publication] =
          [i \in 1..Len(root.publication.sources) |->
              Root(root.publication.sources[i], root.publication,
                   IF root.publication.layouts = NoLayout THEN NoLayout ELSE root.publication.layouts[i])]
    /\ \E i \in DOMAIN store[root.publication] : store[root.publication][i] = root
    /\ root.layout # NoLayout => store[root] = root.layout

\* reconstructCheckpointSource: every part has the hash the root gives it, and so has the whole.
Readable(root) ==
    /\ Inspected(root)
    /\ \A p \in DOMAIN store[root] :
         Present(Part(root, store[root][p])) /\ store[Part(root, store[root][p])] = <<store[root][p]>>
    /\ store[root] = root.source

Bytes(root) == FlattenSeq([p \in 1..Len(store[root]) |-> store[Part(root, store[root][p])]])

\* completeExistingCheckpoint
Complete(texts, committed) ==
    /\ Present(PublicationId(texts, committed))
    /\ store[PublicationId(texts, committed)] = PublicationOf(texts, committed).content
    /\ \A i \in DOMAIN texts :
         LET root == RootId(texts, i, committed) IN
         Present(root) /\ store[root] = texts[i] /\ Readable(root) /\ Bytes(root) = texts[i]
-----------------------------------------------------------------------------
Free == [texts |-> <<>>, todo |-> <<>>, result |-> "none", committed |-> TRUE]

\* One checkpoint of the first format may be there, begun or complete.
Init ==
    /\ \E texts \in Checkpoint : \E n \in {0, 1, Len(Plan(texts, FALSE))} :
         LET written == SubSeq(Plan(texts, FALSE), 1, n)
             ids == {written[i].id : i \in 1..n}
         IN  store = [d \in ids |-> written[CHOOSE i \in 1..n : written[i].id = d].content]
    /\ writer = [w \in Writer |-> Free] /\ leases = [w \in Writer |-> {}]
    /\ attempts = 0 /\ faults = 0 /\ damage = 0

Begin(w) ==
    /\ writer[w].todo = <<>> /\ attempts < MaxAttempts /\ attempts' = attempts + 1
    /\ \E texts \in Checkpoint :
         writer' = [writer EXCEPT ![w] =
             IF Complete(texts, FALSE)
             THEN [texts |-> texts, todo |-> <<>>, result |-> "stored", committed |-> FALSE]
             ELSE [texts |-> texts, todo |-> Plan(texts, TRUE), result |-> "none", committed |-> TRUE]]
    /\ UNCHANGED <<store, leases, faults, damage>>

\* putIdempotent: what is there already is checked and kept, what is not is put and protected.
Write(w) ==
    /\ writer[w].todo # <<>>
    /\ LET document == Head(writer[w].todo)
           rest == Tail(writer[w].todo)
           written == [writer EXCEPT ![w].todo = rest, ![w].result = IF rest = <<>> THEN "stored" ELSE "none"]
           failed == [writer EXCEPT ![w].todo = <<>>, ![w].result = "failed"]
           put == With(document.id, document.content)
       IN
       \/ /\ Present(document.id) /\ UNCHANGED <<store, leases, faults>>
          /\ writer' = IF store[document.id] = document.content THEN written ELSE failed
       \/ /\ ~Present(document.id) /\ store' = put /\ writer' = written
          /\ leases' = [leases EXCEPT ![w] = @ \cup {document.id}] /\ UNCHANGED faults
       \/ /\ faults < MaxFaults /\ faults' = faults + 1 /\ writer' = failed
          /\ store' \in {store, IF Present(document.id) THEN store ELSE put} /\ UNCHANGED leases
    /\ UNCHANGED <<attempts, damage>>

Crash(w) ==
    /\ writer[w] # Free /\ faults < MaxFaults /\ faults' = faults + 1
    /\ writer' = [writer EXCEPT ![w] = Free] /\ leases' = [leases EXCEPT ![w] = {}]
    /\ UNCHANGED <<store, attempts, damage>>

\* A document nobody protects is retired by the retention of the store.
Expire ==
    /\ damage < MaxDamage /\ damage' = damage + 1
    /\ \E id \in DOMAIN store : (\A w \in Writer : id \notin leases[w]) /\ store' = Without(id)
    /\ UNCHANGED <<writer, leases, attempts, faults>>

\* A document is found changed: a part has other bytes, a root other parts, a publication fewer roots.
Change ==
    /\ damage < MaxDamage /\ damage' = damage + 1
    /\ \E id \in DOMAIN store :
         \/ id.kind = "part" /\ store' = [store EXCEPT ![id] = <<OtherPart>>]
         \/ id.kind = "root" /\ store' = [store EXCEPT ![id] = Tail(@)]
         \/ id.kind = "publication" /\ store' = [store EXCEPT ![id] = Tail(@)]
    /\ UNCHANGED <<writer, leases, attempts, faults>>

Next == (\E w \in Writer : Begin(w) \/ Write(w) \/ Crash(w)) \/ Expire \/ Change

Spec == Init /\ [][Next]_vars
-----------------------------------------------------------------------------
\* The types of the variables.
TypeOK ==
    /\ \A id \in DOMAIN store : id.kind \in {"publication", "root", "part"}
    /\ \A w \in Writer : writer[w].result \in {"none", "stored", "failed"} /\ writer[w].committed \in BOOLEAN
    /\ \A w \in Writer : leases[w] \subseteq {id : id \in UNION {{d.id : d \in ToSet(Plan(c, TRUE))} : c \in Checkpoint}}

\* "The complete all-root marker is the usability boundary" (docs/emergency-rotation.md): while
\* no document was lost, a published checkpoint can be read back whole, and so can whatever a
\* writer was told is stored (createArchiveCheckpoint).
PublishedWhole ==
    damage = 0 =>
        /\ \A id \in DOMAIN store : id.kind = "publication" =>
             \A i \in DOMAIN store[id] : Readable(store[id][i])
        /\ \A w \in Writer : writer[w].result = "stored" =>
             Complete(writer[w].texts, writer[w].committed)

\* A root that can be read gives the bytes of its source and no others, whatever became of the
\* documents (inspectCheckpointManifest, reconstructCheckpointSource).
ReadExact == \A id \in DOMAIN store : id.kind = "root" /\ Readable(id) => Bytes(id) = id.source
=============================================================================
