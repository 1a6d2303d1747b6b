---------------------------- MODULE AdmissionProofs ----------------------------
(***************************************************************************)
(* Proofs about Admission, for every set of documents, subjects, clients   *)
(* and payloads and for every bound.                                       *)
(*                                                                         *)
(* What a client has read is old when its transaction commits.  The        *)
(* argument is that everything an admission learned either cannot change   *)
(* while it is under way, or is compared again by the transaction:         *)
(*                                                                         *)
(*   - the ledger never goes back, and a version at or below the highest   *)
(*     never becomes live again, so "my version is at most one above the   *)
(*     highest" and "that version is not live" stay true (Progress);       *)
(*   - a request that was committed either still is, or retention removed  *)
(*     the marker of the request after the version, whose tombstone the    *)
(*     commit meets (Replayed);                                            *)
(*   - hence whatever passes the checks of the commit is the successor of  *)
(*     the highest version ever admitted, with its predecessor dead or     *)
(*     superseded by the same transaction (CommitsSuccessor), and its      *)
(*     subject free or passed on to it (CommitsHolder).                    *)
(***************************************************************************)
EXTENDS Admission, TLAPS, WellFoundedInduction

Highest(i) == history[i[1]].highest

\* Pieces of a call, by how much it has read
Blank(c) ==
    /\ call[c].history = NoHistory /\ call[c].prior = {} /\ call[c].edge = {}
    /\ call[c].target = Absent /\ call[c].holder = Absent
Asking     == {"idle", "head", "view", "send", "semantic", "document", "history"}
Choosing   == {"idle", "head", "view"}
Replacing  == {"edge", "replay", "fresh", "target", "chain"}
AboutEdge  == {"subject", "holder", "commit"}
AfterReads == {"prior"} \cup Replacing \cup AboutEdge
Checked    == {"latest", "existing"} \cup AfterReads
Ready      == {"history", "committed"} \cup Checked

\* The request was committed before, or retention is done with its version.
Replayed(c) == committed[Request(c)].done \/ cleanup[Self(c)] \in {"expiry", "complete"}

\* The version follows the ledger that was read.
Followed(c) ==
    LET h == call[c].history  v == call[c].version
    IN v > h.retired /\ (h.highest = 0 \/ v = h.highest \/ v = h.highest + 1)

\* The predecessor of the version is not live, or this admission supersedes it.
PriorSettled(c) ==
    \/ call[c].version = 1 \/ Replayed(c) \/ call[c].version <= history[Doc(c)].highest
    \/ ~Live(Prior(c)) \/ <<Prior(c), Self(c)>> \in call[c].prior

\* The holder of the subject that was read is gone, or will be.
HolderSettled(c) ==
    LET i == call[c].holder
    IN i = Absent \/ i[1] = Doc(c) \/ i = Target(c) \/ (~Live(i) /\ i[2] <= Highest(i))

CallInv(c) ==
    /\ call[c].pc # "idle" => call[c].payload # Absent
    /\ call[c].pc \notin {"idle", "head"} => call[c].version >= 1
    /\ call[c].pc = "view" => call[c].version <= history[Doc(c)].highest
    /\ call[c].pc \in Asking => Blank(c)
    /\ call[c].pc \notin Choosing => call[c].version <= history[Doc(c)].highest + 1
    /\ call[c].pc \in {"prior", "existing"} => call[c].version >= 2
    /\ call[c].pc \in {"committed", "latest", "prior", "existing"} => call[c].prior = {}
    /\ call[c].pc \in Replacing \cup {"semantic"} => Target(c) # Absent
    /\ call[c].pc \in {"subject", "holder"} => Subject(c) # Absent
    /\ call[c].pc = "chain" => call[c].cursor # Absent
    /\ call[c].pc = "holder" =>
           call[c].holder # Absent /\ call[c].holder[2] <= Highest(call[c].holder)
    /\ call[c].pc = "replay" => Replayed(c)
    /\ call[c].pc \in Checked => Replayed(c) \/ Followed(c)
    /\ call[c].pc \in AfterReads => PriorSettled(c)
    /\ call[c].pc \in AboutEdge /\ Target(c) # Absent =>
           /\ call[c].edge = {<<Target(c), Self(c)>>}
           /\ call[c].target = Target(c) \/ Replayed(c)
    /\ call[c].pc = "commit" /\ Subject(c) # Absent => HolderSettled(c)

\* Whoever is served is the first in the queues it waited in.
QueueInv ==
    \A c \in Clients :
        /\ call[c].pc \in Ready => documentQueue[Doc(c)] # <<>> /\ Head(documentQueue[Doc(c)]) = c
        /\ call[c].pc \in Ready \cup {"document"} /\ Target(c) # Absent =>
               semanticQueue # <<>> /\ Head(semanticQueue) = c

\* The document of each stored version, its ledger and its idempotency marker
StoredInv ==
    \A i \in Identities : manifest[i] # Absent =>
        /\ DocumentOf[manifest[i]] = i[1]
        /\ i[2] <= Highest(i)
        /\ marker[i] = Absent => committed[<<manifest[i], i[2]>>].done

\* The ledger is consistent, and the holder of a subject was admitted.
LedgerInv ==
    /\ \A d \in Documents : history[d].retired <= history[d].highest
    /\ \A s \in Subjects : subjectLive[s] # Absent =>
           subjectLive[s][2] <= Highest(subjectLive[s])

\* Retention works on dead versions, and removes in order.
CleanupInv ==
    \A i \in Identities : cleanup[i] # "none" =>
        /\ marker[i] # Absent /\ i[2] <= Highest(i)
        /\ cleanup[i] # "tombstoned" => manifest[i] = Absent
        /\ cleanup[i] \in {"complete", "audited"} => i[2] <= history[i[1]].retired

\* What a stored version replaces is dead and stays dead.
TargetInv ==
    \A i \in Identities :
        manifest[i] # Absent /\ TargetOf[manifest[i]] # Absent =>
            LET t == TargetOf[manifest[i]] IN ~Live(t) /\ t[2] <= Highest(t)

DataInv ==
    /\ StoredInv /\ LedgerInv /\ CleanupInv /\ TargetInv
    /\ OneLiveVersion /\ SubjectResolves /\ OneReplacement /\ ForgottenIsRetired

IndInv ==
    /\ TypeOK /\ DataInv
    /\ \A c \in Clients : CallInv(c)
    /\ QueueInv
-----------------------------------------------------------------------------
(***************************************************************************)
(* Data: the latest version, and the types of what a call remembers.       *)
(***************************************************************************)
\* A nonempty set of numbers up to N has a greatest element.
LEMMA GreatestExists ==
    ASSUME NEW N \in Nat, NEW S \in SUBSET (1..N), S # {}
    PROVE  \E v \in S : \A w \in S : w <= v
<1> DEFINE T == {N - v : v \in S}
<1>1. \A v \in S : v \in 1..N /\ N - v \in Nat
  OBVIOUS
<1>2. T \subseteq Nat /\ T # {}
  <2>1. PICK v \in S : TRUE
    OBVIOUS
  <2>2. N - v \in T
    OBVIOUS
  <2>3. \A t \in T : t \in Nat
    BY <1>1
  <2> QED BY <2>2, <2>3
<1>3. \E x \in T : \A y \in T : ~ (<<y, x>> \in OpToRel(<, Nat))
  BY <1>2, NatLessThanWellFounded, WFMin
<1>4. PICK x \in T : \A y \in T : ~ (<<y, x>> \in OpToRel(<, Nat))
  BY <1>3
<1>5. \A y \in T : ~ (y < x)
  BY <1>2, <1>4 DEF OpToRel
<1>6. PICK v \in S : x = N - v
  OBVIOUS
<1>7. ASSUME NEW w \in S PROVE w <= v
  <2>1. N - w \in T
    OBVIOUS
  <2>2. ~ (N - w < N - v)
    BY <2>1, <1>5, <1>6
  <2>3. v \in Nat /\ w \in Nat /\ v <= N /\ w <= N
    BY <1>1
  <2> QED BY <2>2, <2>3
<1> QED BY <1>7

LEMMA LatestFacts ==
    ASSUME TypeOK, NEW d \in Documents
    PROVE  /\ Latest(d) \in 0..MaxVersion
           /\ Latest(d) = 0 <=> Stored(d) = {}
           /\ Latest(d) # 0 => Latest(d) \in Stored(d)
           /\ \A v \in Stored(d) : v <= Latest(d)
<1>1. MaxVersion \in Nat
  BY AdmissionAssumption
<1>2. Stored(d) \subseteq 1..MaxVersion
  BY DEF Stored, Versions
<1>3. CASE Stored(d) = {}
  BY <1>1, <1>3 DEF Latest
<1>4. CASE Stored(d) # {}
  <2>1. \E v \in Stored(d) : \A w \in Stored(d) : w <= v
    BY <1>1, <1>2, <1>4, GreatestExists
  <2>2. Latest(d) \in Stored(d) /\ \A w \in Stored(d) : w <= Latest(d)
    BY <2>1, <1>4 DEF Latest
  <2>3. Latest(d) \in 1..MaxVersion
    BY <2>2, <1>2
  <2> QED BY <1>1, <1>4, <2>2, <2>3
<1> QED BY <1>3, <1>4

\* The null values are no documents, subjects or versions.
LEMMA Constants ==
    /\ MaxVersion \in Nat /\ MaxVersion >= 1 /\ MaxAttempts \in Nat /\ MaxAttempts >= 1
    /\ MaxPuts \in Nat /\ MaxRestarts \in Nat
    /\ \A i \in Identities : i # Absent /\ i # Expired /\ i[1] \in Documents /\ i[2] \in 1..MaxVersion
    /\ Expired # Absent
    /\ \A p \in Payloads :
           /\ p # Absent /\ DocumentOf[p] \in Documents
           /\ SubjectOf[p] \in Subjects \cup {Absent} /\ TargetOf[p] \in Identities \cup {Absent}
           /\ TargetOf[p] # Absent => TargetOf[p][1] # DocumentOf[p]
BY AdmissionAssumption, ForeignTarget DEF Identities, Versions

LEMMA CallFields ==
    ASSUME TypeOK, NEW c \in Clients
    PROVE  /\ call[c] \in Call
           /\ call[c].pc \in Pcs
           /\ call[c].payload \in Payloads \cup {Absent}
           /\ call[c].version \in 0..MaxVersion
           /\ call[c].attempt \in 0..MaxAttempts
           /\ call[c].history \in Ledger
           /\ call[c].history.highest \in 0..MaxVersion /\ call[c].history.retired \in 0..MaxVersion
           /\ call[c].prior \subseteq Identities \X Identities
           /\ call[c].edge \subseteq Identities \X Identities
           /\ call[c].target \in Identities \cup {Absent}
           /\ call[c].cursor \in Identities \cup {Absent}
           /\ call[c].holder \in Identities \cup {Absent}
BY DEF TypeOK, Call, Ledger

\* What a call that has begun refers to
LEMMA CallNames ==
    ASSUME TypeOK, NEW c \in Clients, CallInv(c), call[c].pc # "idle"
    PROVE  /\ call[c].payload \in Payloads
           /\ Doc(c) \in Documents
           /\ Subject(c) \in Subjects \cup {Absent}
           /\ Target(c) \in Identities \cup {Absent}
           /\ history[Doc(c)] \in Ledger
           /\ history[Doc(c)].highest \in 0..MaxVersion
           /\ call[c].pc # "head" =>
                  /\ call[c].version \in 1..MaxVersion
                  /\ Self(c) \in Identities /\ Request(c) \in Requests
           /\ call[c].pc \in {"prior", "existing"} => Prior(c) \in Identities
<1>1. call[c].payload \in Payloads
  BY CallFields DEF CallInv
<1>2. /\ Doc(c) \in Documents
      /\ Subject(c) \in Subjects \cup {Absent}
      /\ Target(c) \in Identities \cup {Absent}
  BY <1>1, Constants DEF Doc, Subject, Target
<1>3. history[Doc(c)] \in Ledger /\ history[Doc(c)].highest \in 0..MaxVersion
  BY <1>2 DEF TypeOK, Ledger
<1>4. ASSUME call[c].pc # "head"
      PROVE  /\ call[c].version \in 1..MaxVersion
             /\ Self(c) \in Identities /\ Request(c) \in Requests
  <2>1. call[c].version \in 1..MaxVersion
    BY <1>4, CallFields, Constants DEF CallInv
  <2> QED BY <2>1, <1>1, <1>2 DEF Self, Request, Identities, Requests, Versions
<1>5. ASSUME call[c].pc \in {"prior", "existing"} PROVE Prior(c) \in Identities
  <2>1. call[c].version >= 2 /\ call[c].version \in 0..MaxVersion
    BY <1>5, CallFields DEF CallInv
  <2>2. call[c].version - 1 \in Versions
    BY <2>1, Constants DEF Versions
  <2> QED BY <2>2, <1>2 DEF Prior, Identities
<1> QED BY <1>1, <1>2, <1>3, <1>4, <1>5
-----------------------------------------------------------------------------
(***************************************************************************)
(* What a client has read, while others go on.                             *)
(***************************************************************************)
\* What no step of another client or of retention undoes
Progress ==
    /\ \A d \in Documents : history[d].highest <= history'[d].highest
    /\ \A i \in Identities : i[2] <= Highest(i) /\ ~Live(i) => ~Live(i)'
    /\ \A r \in Requests : committed[r].done =>
           committed'[r].done \/ cleanup'[<<DocumentOf[r[1]], r[2]>>] \in {"expiry", "complete"}
    /\ \A i \in Identities :
           cleanup[i] \in {"expiry", "complete"} => cleanup'[i] \in {"expiry", "complete"}

LEMMA ReplayedStable ==
    ASSUME TypeOK, NEW c \in Clients, CallInv(c), call[c].pc \notin {"idle", "head"},
           call'[c] = call[c], Progress, Replayed(c)
    PROVE  Replayed(c)'
<1>1. Self(c) \in Identities /\ Request(c) \in Requests
  BY CallNames
<1>2. Self(c) = <<DocumentOf[Request(c)[1]], Request(c)[2]>>
  BY DEF Self, Request, Doc
<1>3. Self(c)' = Self(c) /\ Request(c)' = Request(c)
  BY DEF Self, Request, Doc
<1> QED BY <1>1, <1>2, <1>3 DEF Progress, Replayed

LEMMA PriorStable ==
    ASSUME TypeOK, TypeOK', NEW c \in Clients, CallInv(c), call[c].pc \in AfterReads,
           call'[c] = call[c], Progress
    PROVE  PriorSettled(c)'
<1>1. PriorSettled(c) /\ call[c].pc \notin {"idle", "head"} /\ call[c].pc \notin Choosing
  BY DEF CallInv, AfterReads, Replacing, AboutEdge, Choosing
<1>2. /\ Doc(c)' = Doc(c) /\ Self(c)' = Self(c) /\ Prior(c)' = Prior(c)
  BY DEF Self, Prior, Doc
<1>3. /\ Doc(c) \in Documents /\ call[c].version \in 1..MaxVersion
      /\ history[Doc(c)].highest \in 0..MaxVersion /\ history'[Doc(c)].highest \in 0..MaxVersion
  BY <1>1, CallNames DEF TypeOK, Ledger
<1>4. history[Doc(c)].highest <= history'[Doc(c)].highest
  BY <1>3 DEF Progress
<1>5. ASSUME Replayed(c) PROVE Replayed(c)'
  BY <1>5, <1>1, ReplayedStable
<1>6. ASSUME call[c].version # 1, ~Live(Prior(c)) PROVE ~Live(Prior(c))'
  <2>1. call[c].version - 1 \in Versions
    BY <1>6, <1>3, Constants DEF Versions
  <2>2. Prior(c) \in Identities /\ Prior(c)[1] = Doc(c) /\ Prior(c)[2] = call[c].version - 1
    BY <2>1, <1>3 DEF Prior, Identities
  <2>3. call[c].version <= history[Doc(c)].highest + 1
    BY <1>1 DEF CallInv
  <2>4. Prior(c)[2] <= Highest(Prior(c))
    BY <2>2, <2>3, <1>3, Constants DEF Highest
  <2>5. ~Live(Prior(c))'
    <3> DEFINE i == Prior(c)
    <3>1. ~(manifest'[i] # Absent /\ marker'[i] = Absent)
      BY <2>2, <2>4, <1>6 DEF Progress, Live
    <3> QED BY <3>1, <1>2 DEF Live
  <2> QED BY <2>5
<1>7. call[c].version <= history[Doc(c)].highest => call[c].version <= history'[Doc(c)].highest
  BY <1>3, <1>4, Constants
<1> QED BY <1>1, <1>2, <1>5, <1>6, <1>7 DEF PriorSettled

LEMMA HolderStable ==
    ASSUME TypeOK, TypeOK', NEW c \in Clients, HolderSettled(c), call'[c] = call[c], Progress
    PROVE  HolderSettled(c)'
<1>1. Doc(c)' = Doc(c) /\ Target(c)' = Target(c)
  BY DEF Doc, Target
<1> DEFINE i == call[c].holder
<1>2. call'[c].holder = i /\ i \in Identities \cup {Absent}
  BY CallFields
<1>3. ASSUME i # Absent, ~Live(i), i[2] <= Highest(i)
      PROVE  ~(manifest'[i] # Absent /\ marker'[i] = Absent) /\ i[2] <= history'[i[1]].highest
  <2>1. i \in Identities /\ i[1] \in Documents /\ i[2] \in 1..MaxVersion
    BY <1>2, <1>3, Constants
  <2>2. history[i[1]].highest \in 0..MaxVersion /\ history'[i[1]].highest \in 0..MaxVersion
    BY <2>1 DEF TypeOK, Ledger
  <2> QED BY <2>1, <2>2, <1>3, Constants DEF Progress, Highest, Live
<1> QED BY <1>1, <1>2, <1>3 DEF HolderSettled, Live, Highest

\* A client that is not the one that moves keeps what it knows.
LEMMA CallStable ==
    ASSUME TypeOK, TypeOK', NEW c \in Clients, CallInv(c), call'[c] = call[c], Progress
    PROVE  CallInv(c)'
<1>1. CASE call[c].pc = "idle"
  BY <1>1 DEF CallInv, Blank, AfterReads, Checked, Asking, Choosing, Replacing, AboutEdge
<1>2. CASE call[c].pc # "idle"
  <2>1. /\ Doc(c)' = Doc(c) /\ Self(c)' = Self(c) /\ Target(c)' = Target(c)
        /\ Subject(c)' = Subject(c) /\ Blank(c)' = Blank(c) /\ Followed(c)' = Followed(c)
    BY DEF Self, Doc, Target, Subject, Blank, Followed
  <2>2. /\ Doc(c) \in Documents /\ call[c].version \in 0..MaxVersion
        /\ history[Doc(c)].highest \in 0..MaxVersion /\ history'[Doc(c)].highest \in 0..MaxVersion
        /\ history[Doc(c)].highest <= history'[Doc(c)].highest
    BY <1>2, CallNames, CallFields DEF TypeOK, Ledger, Progress
  <2>3. call[c].pc \notin {"idle", "head"} /\ Replayed(c) => Replayed(c)'
    BY ReplayedStable
  <2>4. call[c].pc \in AfterReads => PriorSettled(c)'
    BY PriorStable
  <2>5. HolderSettled(c) => HolderSettled(c)'
    BY HolderStable
  <2>6. /\ call[c].version <= history[Doc(c)].highest => call[c].version <= history'[Doc(c)].highest
        /\ call[c].version <= history[Doc(c)].highest + 1 =>
               call[c].version <= history'[Doc(c)].highest + 1
    BY <2>2, Constants
  <2>7. ASSUME call[c].pc = "holder"
        PROVE  call'[c].holder # Absent /\ call'[c].holder[2] <= history'[call'[c].holder[1]].highest
    <3> DEFINE i == call[c].holder
    <3>1. i \in Identities /\ i[1] \in Documents /\ i[2] \in 1..MaxVersion
          /\ i[2] <= history[i[1]].highest
      BY <2>7, CallFields, Constants DEF CallInv, Highest
    <3>2. /\ history[i[1]].highest \in 0..MaxVersion /\ history'[i[1]].highest \in 0..MaxVersion
          /\ history[i[1]].highest <= history'[i[1]].highest
      BY <3>1 DEF TypeOK, Ledger, Progress
    <3>3. i[2] <= history'[i[1]].highest
      BY <3>1, <3>2, Constants
    <3> QED BY <3>1, <3>3, Constants
  <2>8. \A pc \in Checked \cup {"replay"} \cup AboutEdge : pc \notin {"idle", "head"}
    BY DEF Checked, AfterReads, Replacing, AboutEdge
  <2> QED BY <2>1, <2>3, <2>4, <2>5, <2>6, <2>7, <2>8 DEF CallInv, Highest
<1> QED BY <1>1, <1>2

\* A step that leaves the records alone
LEMMA RecordsFrame ==
    ASSUME TypeOK, DataInv, UNCHANGED <<records, cleanup>>
    PROVE  DataInv' /\ Progress
<1>1. /\ manifest' = manifest /\ marker' = marker /\ history' = history
      /\ subjectLive' = subjectLive /\ committed' = committed /\ cleanup' = cleanup
  BY DEF records
<1>2. /\ \A i : Live(i)' <=> Live(i)
      /\ \A i : Highest(i)' = Highest(i)
  BY <1>1 DEF Live, Highest
<1>3. StoredInv' /\ LedgerInv'
  BY <1>1, <1>2 DEF DataInv, StoredInv, LedgerInv, Highest
<1>4. CleanupInv' /\ TargetInv'
  BY <1>1, <1>2 DEF DataInv, CleanupInv, TargetInv, Live, Highest
<1>5. OneLiveVersion' /\ SubjectResolves' /\ OneReplacement' /\ ForgottenIsRetired'
  BY <1>1, <1>2 DEF DataInv, OneLiveVersion, SubjectResolves, OneReplacement, ForgottenIsRetired, Live
<1>6. Progress
  <2>1. \A d \in Documents : history[d].highest \in 0..MaxVersion
    BY DEF TypeOK, Ledger
  <2>2. \A d \in Documents : history[d].highest <= history'[d].highest
    BY <2>1, <1>1, Constants
  <2> QED BY <2>2, <1>1, <1>2 DEF Progress
<1> QED BY <1>3, <1>4, <1>5, <1>6 DEF DataInv
-----------------------------------------------------------------------------
(***************************************************************************)
(* Steps of one client.                                                    *)
(***************************************************************************)
LEMMA CallUpdate ==
    ASSUME TypeOK, NEW c \in Clients, NEW after \in Call, call' = [call EXCEPT ![c] = after]
    PROVE  /\ call' \in [Clients -> Call] /\ call'[c] = after
           /\ \A d \in Clients \ {c} : call'[d] = call[d]
BY DEF TypeOK

\* The other clients keep what they know when only one moves.
LEMMA OneMoves ==
    ASSUME IndInv, NEW c \in Clients, TypeOK', UNCHANGED <<records, cleanup>>,
           \A d \in Clients \ {c} : call'[d] = call[d], CallInv(c)', QueueInv'
    PROVE  IndInv'
<1>1. TypeOK /\ DataInv /\ \A d \in Clients : CallInv(d)
  BY DEF IndInv
<1>2. DataInv' /\ Progress
  BY <1>1, RecordsFrame
<1>3. \A d \in Clients \ {c} : CallInv(d)'
  BY <1>1, <1>2, CallStable
<1> QED BY <1>2, <1>3 DEF IndInv

\* A step of an admission that waits for nothing
LEMMA ReadFrame ==
    ASSUME IndInv, NEW c \in Clients, call[c].pc \in Ready, NEW after \in Call,
           after.pc \in Ready, after.payload = call[c].payload, Read(c, after)
    PROVE  /\ TypeOK' /\ call'[c] = after
           /\ UNCHANGED <<records, cleanup>>
           /\ CallInv(c)' => IndInv'
<1>1. TypeOK /\ QueueInv
  BY DEF IndInv
<1>2. /\ call' \in [Clients -> Call] /\ call'[c] = after
      /\ \A d \in Clients \ {c} : call'[d] = call[d]
  BY <1>1, CallUpdate DEF Read
<1>3. UNCHANGED <<records, cleanup, queues, puts, restarts>>
  BY DEF Read
<1>4. TypeOK'
  BY <1>1, <1>2, <1>3 DEF TypeOK, records, queues
<1>5. QueueInv'
  <2>1. \A d \in Clients : Doc(d)' = Doc(d) /\ Target(d)' = Target(d)
    BY <1>2 DEF Doc, Target
  <2>2. documentQueue' = documentQueue /\ semanticQueue' = semanticQueue
    BY <1>3 DEF queues
  <2>3. \A d \in Clients : (call'[d].pc \in Ready \cup {"document"}) => (call[d].pc \in Ready \cup {"document"})
    BY <1>2
  <2>4. \A d \in Clients : call'[d].pc \in Ready => call[d].pc \in Ready
    BY <1>2
  <2> QED BY <1>1, <2>1, <2>2, <2>3, <2>4 DEF QueueInv
<1> QED BY <1>2, <1>3, <1>4, <1>5, OneMoves

\* A call that holds nothing, before it has chosen a version
LEMMA BlankCall ==
    ASSUME NEW c \in Clients, call'[c].pc \in {"idle", "head"},
           call'[c].pc = "head" => call'[c].payload # Absent,
           call'[c].history = NoHistory, call'[c].prior = {}, call'[c].edge = {},
           call'[c].target = Absent, call'[c].holder = Absent
    PROVE  CallInv(c)'
BY DEF CallInv, Blank, AfterReads, Checked, Asking, Choosing, Replacing, AboutEdge

LEMMA NoCallType ==
    ASSUME NEW o \in Outcomes
    PROVE  NoCall(o) \in Call
BY Constants DEF NoCall, Call, NoHistory, Ledger, Pcs

LEMMA AgainType ==
    ASSUME NEW k \in Call, NEW p \in Payloads, NEW n \in 0..MaxAttempts
    PROVE  [k EXCEPT !.pc = "head", !.payload = p, !.attempt = n, !.advance = TRUE] \in Call
<1>1. "head" \in Pcs
  BY DEF Pcs
<1> QED BY <1>1, Zenon DEF Call

\* An admission that ends releases the queues.
LEMMA LeaveFrame ==
    ASSUME IndInv, NEW c \in Clients, call[c].pc \in Ready, Leave(c),
           \A d \in Clients \ {c} : call'[d] = call[d], call'[c].pc \in {"idle", "head"}
    PROVE  /\ documentQueue' \in [Documents -> Seq(Clients)] /\ semanticQueue' \in Seq(Clients)
           /\ QueueInv'
<1>1. TypeOK /\ QueueInv /\ \A d \in Clients : CallInv(d)
  BY DEF IndInv
<1>2. call[c].pc \notin {"idle", "head"}
  BY DEF Ready, Checked, AfterReads, Replacing, AboutEdge
<1>3. Doc(c) \in Documents
  BY <1>1, <1>2, CallNames
<1>4. /\ documentQueue[Doc(c)] # <<>> /\ Head(documentQueue[Doc(c)]) = c
      /\ Target(c) # Absent => semanticQueue # <<>> /\ Head(semanticQueue) = c
  BY <1>1 DEF QueueInv
<1>5. documentQueue' \in [Documents -> Seq(Clients)] /\ semanticQueue' \in Seq(Clients)
  BY <1>1, <1>3, <1>4 DEF TypeOK, Leave
<1>6. ASSUME NEW d \in Clients, call'[d].pc \in Ready \cup {"document"}
      PROVE  d # c /\ call'[d] = call[d] /\ Doc(d)' = Doc(d) /\ Target(d)' = Target(d)
  BY <1>6 DEF Ready, Checked, AfterReads, Replacing, AboutEdge, Doc, Target
<1>7. ASSUME NEW d \in Clients, call'[d].pc \in Ready
      PROVE  documentQueue'[Doc(d)] = documentQueue[Doc(d)]
  <2>1. d # c /\ call[d].pc \in Ready
    BY <1>6, <1>7
  <2>2. call[d].pc \notin {"idle", "head"}
    BY <2>1 DEF Ready, Checked, AfterReads, Replacing, AboutEdge
  <2>3. Doc(d) \in Documents /\ Doc(d) # Doc(c)
    BY <1>1, <1>4, <2>1, <2>2, CallNames DEF QueueInv
  <2> QED BY <2>3, <1>1, <1>3 DEF TypeOK, Leave
<1>8. ASSUME NEW d \in Clients, call'[d].pc \in Ready \cup {"document"}, Target(d) # Absent
      PROVE  semanticQueue' = semanticQueue
  <2>1. d # c /\ call[d].pc \in Ready \cup {"document"}
    BY <1>6, <1>8
  <2>2. Target(c) = Absent
    BY <1>1, <1>4, <1>8, <2>1 DEF QueueInv
  <2> QED BY <2>2 DEF Leave
<1>9. QueueInv'
  <2>1. ASSUME NEW d \in Clients, call'[d].pc \in Ready
        PROVE  documentQueue'[Doc(d)'] # <<>> /\ Head(documentQueue'[Doc(d)']) = d
    BY <2>1, <1>1, <1>6, <1>7 DEF QueueInv
  <2>2. ASSUME NEW d \in Clients, call'[d].pc \in Ready \cup {"document"}, Target(d)' # Absent
        PROVE  semanticQueue' # <<>> /\ Head(semanticQueue') = d
    BY <2>2, <1>1, <1>6, <1>8 DEF QueueInv
  <2> QED BY <2>1, <2>2 DEF QueueInv
<1> QED BY <1>5, <1>9

LEMMA RefuseStep ==
    ASSUME IndInv, NEW c \in Clients, call[c].pc \in Ready,
           NEW error \in Outcomes, Refuse(c, error)
    PROVE  IndInv'
<1>1. TypeOK /\ \A d \in Clients : CallInv(d)
  BY DEF IndInv
<1>2. call[c].pc \notin {"idle", "head"}
  BY DEF Ready, Checked, AfterReads, Replacing, AboutEdge
<1>3. call[c].payload \in Payloads /\ call[c].attempt \in 0..MaxAttempts
  BY <1>1, <1>2, CallNames, CallFields
<1> DEFINE again == [NoCall("none") EXCEPT !.pc = "head", !.payload = call[c].payload,
                                          !.attempt = call[c].attempt + 1, !.advance = TRUE]
           retried == error \in Retriable /\ call[c].attempt < MaxAttempts
           after == IF retried THEN again ELSE NoCall(error)
<1>4. after \in Call
  <2>1. CASE retried
    <3>1. call[c].attempt + 1 \in 0..MaxAttempts
      BY <2>1, <1>3, Constants
    <3>2. NoCall("none") \in Call
      BY NoCallType DEF Outcomes
    <3> QED BY <2>1, <3>1, <3>2, <1>3, AgainType
  <2>2. CASE ~retried
    BY <2>2, NoCallType
  <2> QED BY <2>1, <2>2
<1>5. call' = [call EXCEPT ![c] = after]
  BY DEF Refuse
<1>6. /\ call' \in [Clients -> Call] /\ call'[c] = after
      /\ \A d \in Clients \ {c} : call'[d] = call[d]
  BY <1>1, <1>4, <1>5, CallUpdate
<1>7. /\ after.pc \in {"idle", "head"} /\ (after.pc = "head" => after.payload # Absent)
      /\ after.history = NoHistory /\ after.prior = {} /\ after.edge = {}
      /\ after.target = Absent /\ after.holder = Absent
  BY <1>3, Constants DEF NoCall
<1>8. CallInv(c)'
  BY <1>6, <1>7, BlankCall
<1>9. /\ documentQueue' \in [Documents -> Seq(Clients)] /\ semanticQueue' \in Seq(Clients)
      /\ QueueInv'
  BY <1>6, <1>7, LeaveFrame DEF Refuse
<1>10. TypeOK' /\ UNCHANGED <<records, cleanup>>
  BY <1>1, <1>6, <1>9 DEF TypeOK, Refuse, records
<1> QED BY <1>6, <1>8, <1>9, <1>10, OneMoves
-----------------------------------------------------------------------------
(***************************************************************************)
(* The reads of an admission.                                              *)
(***************************************************************************)
LEMMA NextReads ==
    ASSUME NEW c \in Clients
    PROVE  /\ AfterEdge(c) \in {"subject", "commit"}
           /\ AfterEdge(c) = "subject" <=> Subject(c) # Absent
           /\ AfterVersion(c) \in {"edge", "subject", "commit"}
           /\ AfterVersion(c) = "edge" <=> Target(c) # Absent
           /\ AfterVersion(c) # "edge" => AfterVersion(c) = AfterEdge(c)
BY DEF AfterEdge, AfterVersion

\* What an admission that goes on still refers to
LEMMA SameNames ==
    ASSUME NEW c \in Clients, UNCHANGED <<records, cleanup>>,
           call'[c].payload = call[c].payload, call'[c].version = call[c].version
    PROVE  /\ Doc(c)' = Doc(c) /\ Self(c)' = Self(c) /\ Prior(c)' = Prior(c)
           /\ Subject(c)' = Subject(c) /\ Target(c)' = Target(c) /\ Request(c)' = Request(c)
           /\ Replayed(c)' <=> Replayed(c)
           /\ history' = history /\ manifest' = manifest /\ marker' = marker
           /\ call'[c].prior = call[c].prior => (PriorSettled(c)' <=> PriorSettled(c))
           /\ call'[c].history = call[c].history => (Followed(c)' <=> Followed(c))
<1>1. /\ Doc(c)' = Doc(c) /\ Self(c)' = Self(c) /\ Prior(c)' = Prior(c)
      /\ Subject(c)' = Subject(c) /\ Target(c)' = Target(c) /\ Request(c)' = Request(c)
  BY DEF Doc, Self, Prior, Subject, Target, Request
<1>2. /\ history' = history /\ manifest' = manifest /\ marker' = marker
      /\ committed' = committed /\ cleanup' = cleanup
  BY DEF records
<1>3. (Replayed(c)' <=> Replayed(c)) /\ (Live(Prior(c))' <=> Live(Prior(c)))
  BY <1>1, <1>2 DEF Replayed, Live
<1>4. call'[c].prior = call[c].prior => (PriorSettled(c)' <=> PriorSettled(c))
  BY <1>1, <1>2, <1>3 DEF PriorSettled
<1>5. call'[c].history = call[c].history => (Followed(c)' <=> Followed(c))
  BY DEF Followed
<1> QED BY <1>1, <1>2, <1>3, <1>4, <1>5

\* The reads about the version are done.
LEMMA VersionRead ==
    ASSUME IndInv, NEW c \in Clients, call[c].pc \in Ready \cup {"document"},
           UNCHANGED <<records, cleanup>>,
           call'[c].payload = call[c].payload, call'[c].version = call[c].version,
           call'[c].pc = AfterVersion(c), (Replayed(c) \/ Followed(c))', PriorSettled(c)'
    PROVE  CallInv(c)'
<1>1. CallInv(c) /\ call[c].pc \notin Choosing
  BY DEF IndInv, Ready, Checked, AfterReads, Replacing, AboutEdge, Choosing
<1>2. /\ call[c].payload # Absent /\ call[c].version >= 1
      /\ call[c].version <= history[Doc(c)].highest + 1
  BY <1>1 DEF CallInv, Choosing
<1>3. /\ Doc(c)' = Doc(c) /\ Subject(c)' = Subject(c) /\ Target(c)' = Target(c)
      /\ history' = history
  BY SameNames
<1>4. call'[c].pc = "edge" \/ (call'[c].pc = "subject" /\ Target(c) = Absent /\ Subject(c) # Absent)
         \/ (call'[c].pc = "commit" /\ Target(c) = Absent /\ Subject(c) = Absent)
  BY NextReads
<1> QED BY <1>2, <1>3, <1>4, NextReads
        DEF CallInv, Asking, Choosing, Replacing, AboutEdge, AfterReads, Checked

\* The reads about the replaced version are done.
LEMMA EdgeRead ==
    ASSUME IndInv, NEW c \in Clients, call[c].pc \in Replacing,
           UNCHANGED <<records, cleanup>>,
           call'[c].payload = call[c].payload, call'[c].version = call[c].version,
           call'[c].history = call[c].history, call'[c].prior = call[c].prior,
           call'[c].pc = AfterEdge(c), call'[c].edge = {<<Target(c), Self(c)>>},
           call'[c].target = Target(c) \/ Replayed(c)
    PROVE  CallInv(c)'
<1>1. CallInv(c) /\ call[c].pc \in Checked /\ call[c].pc \in AfterReads /\ call[c].pc \notin Choosing
        /\ call[c].pc \notin {"idle", "head"}
  BY DEF IndInv, Ready, Checked, AfterReads, Replacing, AboutEdge, Choosing
<1>2. /\ call[c].payload # Absent /\ call[c].version >= 1
      /\ call[c].version <= history[Doc(c)].highest + 1
      /\ Replayed(c) \/ Followed(c)
      /\ PriorSettled(c)
  BY <1>1 DEF CallInv
<1>3. /\ Doc(c)' = Doc(c) /\ Subject(c)' = Subject(c) /\ Target(c)' = Target(c)
      /\ Self(c)' = Self(c) /\ history' = history
      /\ Replayed(c)' <=> Replayed(c)
      /\ PriorSettled(c)' <=> PriorSettled(c)
      /\ Followed(c)' <=> Followed(c)
  BY SameNames
<1>4. (call'[c].pc = "subject" /\ Subject(c) # Absent) \/ (call'[c].pc = "commit" /\ Subject(c) = Absent)
  BY NextReads
<1> QED BY <1>2, <1>3, <1>4
        DEF CallInv, Asking, Choosing, Replacing, AboutEdge, AfterReads, Checked

\* A read that keeps everything and only goes on
LEMMA ReadOn ==
    ASSUME IndInv, NEW c \in Clients, call[c].pc \in Checked,
           UNCHANGED <<records, cleanup>>,
           call'[c].payload = call[c].payload, call'[c].version = call[c].version,
           call'[c].history = call[c].history, call'[c].prior = call[c].prior,
           call'[c].pc \in {"prior", "existing"} => call[c].version >= 2 /\ call[c].prior = {},
           call'[c].pc \in {"prior", "existing"} \cup Replacing,
           call'[c].pc \in Replacing => Target(c) # Absent,
           call'[c].pc = "chain" => call'[c].cursor # Absent,
           call'[c].pc = "replay" => Replayed(c),
           call'[c].pc # "existing" => PriorSettled(c)
    PROVE  CallInv(c)'
<1>1. CallInv(c) /\ call[c].pc \notin Choosing /\ call[c].pc \notin {"idle", "head"}
  BY DEF IndInv, Checked, AfterReads, Replacing, AboutEdge, Choosing
<1>2. /\ call[c].payload # Absent /\ call[c].version >= 1
      /\ call[c].version <= history[Doc(c)].highest + 1
      /\ Replayed(c) \/ Followed(c)
  BY <1>1 DEF CallInv
<1>3. /\ Doc(c)' = Doc(c) /\ Subject(c)' = Subject(c) /\ Target(c)' = Target(c)
      /\ Self(c)' = Self(c) /\ history' = history
      /\ Replayed(c)' <=> Replayed(c)
      /\ PriorSettled(c)' <=> PriorSettled(c)
      /\ Followed(c)' <=> Followed(c)
  BY SameNames
<1> QED BY <1>2, <1>3
        DEF CallInv, Asking, Choosing, Replacing, AboutEdge, AfterReads, Checked
-----------------------------------------------------------------------------
\* What every read starts from
LEMMA ReadStart ==
    ASSUME IndInv, NEW c \in Clients, call[c].pc \in Ready
    PROVE  /\ TypeOK /\ CallInv(c) /\ call[c] \in Call
           /\ call[c].pc \notin {"idle", "head"} /\ call[c].pc \notin Choosing
           /\ call[c].payload # Absent /\ call[c].version >= 1
           /\ call[c].version <= history[Doc(c)].highest + 1
           /\ call[c].pc \in Checked => Replayed(c) \/ Followed(c)
           /\ call[c].pc \in AfterReads => PriorSettled(c)
           /\ call[c].pc \in {"history", "committed", "latest", "prior", "existing"} => call[c].prior = {}
<1>1. TypeOK /\ CallInv(c) /\ call[c] \in Call
  BY CallFields DEF IndInv
<1>2. call[c].pc \notin {"idle", "head"} /\ call[c].pc \notin Choosing
  BY DEF Ready, Checked, AfterReads, Replacing, AboutEdge, Choosing
<1>3. call[c].pc = "history" => call[c].prior = {}
  BY <1>1 DEF CallInv, Asking, Blank
<1> QED BY <1>1, <1>2, <1>3 DEF CallInv

LEMMA PcSets ==
    /\ Ready \subseteq Pcs
    /\ \A pc \in {"history", "committed", "latest", "prior", "existing", "edge", "replay", "fresh",
                  "target", "chain", "subject", "holder", "commit"} : pc \in Ready /\ pc \in Pcs
BY DEF Ready, Checked, AfterReads, Replacing, AboutEdge, Pcs

LEMMA ReadHistoryStep ==
    ASSUME IndInv, NEW c \in Clients, ReadHistory(c)
    PROVE  IndInv'
<1> DEFINE after == [call[c] EXCEPT !.pc = "committed", !.history = history[Doc(c)]]
<1>1. call[c].pc = "history" /\ Read(c, after)
  BY DEF ReadHistory, At
<1>2. call[c].pc \in Ready
  BY <1>1, PcSets
<1>3. history[Doc(c)] \in Ledger
  BY <1>2, ReadStart, CallNames
<1>4. after \in Call
  BY <1>2, <1>3, ReadStart, PcSets, Zenon DEF Call
<1>5. after.pc = "committed" /\ after.payload = call[c].payload /\ after.version = call[c].version
      /\ after.prior = {}
  BY <1>1, <1>2, ReadStart DEF Call
<1>6. TypeOK' /\ call'[c] = after /\ UNCHANGED <<records, cleanup>> /\ (CallInv(c)' => IndInv')
  BY <1>1, <1>2, <1>4, <1>5, ReadFrame, PcSets
<1>7. Doc(c)' = Doc(c) /\ history' = history
  BY <1>5, <1>6, SameNames
<1>8. CallInv(c)'
  BY <1>2, <1>5, <1>6, <1>7, ReadStart
     DEF CallInv, Asking, Choosing, Replacing, AboutEdge, AfterReads, Checked
<1> QED BY <1>6, <1>8

LEMMA ReadCommittedStep ==
    ASSUME IndInv, NEW c \in Clients, ReadCommitted(c)
    PROVE  IndInv'
<1>1. call[c].pc = "committed" /\ call[c].pc \in Ready
  BY PcSets DEF ReadCommitted, At
<1>2. /\ TypeOK /\ CallInv(c) /\ call[c] \in Call /\ call[c].payload # Absent
      /\ call[c].version >= 1 /\ call[c].version <= history[Doc(c)].highest + 1
      /\ call[c].prior = {}
  BY <1>1, ReadStart
<1> DEFINE v == call[c].version
           h == call[c].history
<1>3. CASE committed[Request(c)].done
  <2> DEFINE next == IF v = 1 THEN AfterVersion(c) ELSE "prior"
             after == [call[c] EXCEPT !.pc = next]
  <2>1. Read(c, after)
    BY <1>3 DEF ReadCommitted
  <2>2. next \in Ready /\ next \in Pcs
    BY NextReads, PcSets
  <2>3. after \in Call /\ after.pc = next /\ after.payload = call[c].payload
        /\ after.version = v /\ after.prior = call[c].prior
    BY <1>2, <2>2, Zenon DEF Call
  <2>4. call'[c] = after /\ UNCHANGED <<records, cleanup>> /\ (CallInv(c)' => IndInv')
    BY <1>1, <2>1, <2>2, <2>3, ReadFrame
  <2>5. Replayed(c)
    BY <1>3 DEF Replayed
  <2>6. /\ Doc(c)' = Doc(c) /\ history' = history
        /\ Replayed(c)' /\ PriorSettled(c)'
    BY <2>3, <2>4, <2>5, SameNames DEF PriorSettled
  <2>7. CASE v = 1
    BY <1>1, <2>3, <2>4, <2>6, <2>7, VersionRead
  <2>8. CASE v # 1
    <3>1. v \in Nat /\ v >= 2
      BY <1>2, <2>8, CallFields, Constants
    <3>2. call'[c].pc = "prior" /\ call'[c].version = v /\ call'[c].payload = call[c].payload
          /\ call'[c].prior = {}
      BY <1>2, <2>3, <2>4, <2>8
    <3> QED BY <1>2, <3>1, <3>2, <2>4, <2>6
            DEF CallInv, Asking, Choosing, Replacing, AboutEdge, AfterReads, Checked
  <2> QED BY <2>4, <2>7, <2>8
<1>4. CASE ~committed[Request(c)].done /\ v <= h.retired
  <2>1. Refuse(c, IF v < h.highest THEN "SUPERSEDED" ELSE "EXPIRED")
    BY <1>4 DEF ReadCommitted
  <2> QED BY <1>1, <2>1, RefuseStep DEF Outcomes, Retriable
<1>5. CASE ~committed[Request(c)].done /\ ~(v <= h.retired) /\ h.highest > 0
           /\ v \notin {h.highest, h.highest + 1}
  <2>1. Refuse(c, "CONFLICT")
    BY <1>5 DEF ReadCommitted
  <2> QED BY <1>1, <2>1, RefuseStep DEF Outcomes, Retriable
<1>6. CASE ~committed[Request(c)].done /\ ~(v <= h.retired)
           /\ ~(h.highest > 0 /\ v \notin {h.highest, h.highest + 1})
  <2> DEFINE after == [call[c] EXCEPT !.pc = "latest"]
  <2>1. Read(c, after)
    BY <1>6 DEF ReadCommitted
  <2>2. after \in Call /\ after.pc = "latest" /\ after.payload = call[c].payload
        /\ after.version = v /\ after.history = h /\ after.prior = {}
    BY <1>2, PcSets, Zenon DEF Call
  <2>3. call'[c] = after /\ UNCHANGED <<records, cleanup>> /\ (CallInv(c)' => IndInv')
    BY <1>1, <2>1, <2>2, ReadFrame, PcSets
  <2>4. v \in Nat /\ h.retired \in Nat /\ h.highest \in Nat
    BY <1>2, CallFields, Constants
  <2>5. Followed(c)
    BY <1>6, <2>4 DEF Followed
  <2>6. Doc(c)' = Doc(c) /\ history' = history /\ Followed(c)'
    BY <2>2, <2>3, <2>5, SameNames
  <2>7. CallInv(c)'
    BY <1>2, <2>2, <2>3, <2>6
       DEF CallInv, Asking, Choosing, Replacing, AboutEdge, AfterReads, Checked
  <2> QED BY <2>3, <2>7
<1> QED BY <1>3, <1>4, <1>5, <1>6

LEMMA ReadLatestStep ==
    ASSUME IndInv, NEW c \in Clients, ReadLatest(c)
    PROVE  IndInv'
<1>1. call[c].pc = "latest" /\ call[c].pc \in Ready /\ call[c].pc \in Checked
  BY PcSets DEF ReadLatest, At, Checked
<1>2. /\ TypeOK /\ CallInv(c) /\ call[c] \in Call /\ call[c].payload # Absent
      /\ call[c].version >= 1 /\ call[c].version <= history[Doc(c)].highest + 1
      /\ Replayed(c) \/ Followed(c)
      /\ call[c].prior = {}
      /\ Doc(c) \in Documents /\ call[c].version \in 1..MaxVersion
      /\ history[Doc(c)].highest \in 0..MaxVersion
  BY <1>1, ReadStart, CallNames
<1> DEFINE v == call[c].version
           latest == Latest(Doc(c))
<1>3. /\ latest \in 0..MaxVersion /\ (latest = 0 <=> Stored(Doc(c)) = {})
      /\ latest # 0 => latest \in Stored(Doc(c))
  BY <1>2, LatestFacts
<1>4. CASE marker[Self(c)] # Absent
  <2>1. Refuse(c, Retirement(marker[Self(c)]))
    BY <1>1, <1>4 DEF ReadLatest
  <2> QED BY <1>1, <2>1, RefuseStep DEF Outcomes, Retriable, Retirement
<1>5. CASE marker[Self(c)] = Absent /\ (latest = 0 \/ v <= latest)
  <2> DEFINE next == IF v = 1 THEN AfterVersion(c) ELSE "prior"
             after == [call[c] EXCEPT !.pc = next]
  <2>1. Read(c, after)
    BY <1>1, <1>5 DEF ReadLatest
  <2>2. next \in Ready /\ next \in Pcs
    BY NextReads, PcSets
  <2>3. after \in Call /\ after.pc = next /\ after.payload = call[c].payload
        /\ after.version = v /\ after.prior = call[c].prior /\ after.history = call[c].history
    BY <1>2, <2>2, Zenon DEF Call
  <2>4. call'[c] = after /\ UNCHANGED <<records, cleanup>> /\ (CallInv(c)' => IndInv')
    BY <1>1, <2>1, <2>2, <2>3, ReadFrame
  <2>5. PriorSettled(c)
    <3>1. CASE v = 1
      BY <3>1 DEF PriorSettled
    <3>2. CASE v # 1 /\ latest = 0
      <4>1. v - 1 \in Versions /\ v - 1 \notin Stored(Doc(c))
        BY <1>2, <1>3, <3>2, Constants DEF Versions
      <4>2. ~Live(Prior(c))
        BY <4>1 DEF Prior, Stored, Live
      <4> QED BY <4>2 DEF PriorSettled
    <3>3. CASE latest # 0 /\ v <= latest
      <4>1. manifest[<<Doc(c), latest>>] # Absent /\ <<Doc(c), latest>> \in Identities
        BY <1>2, <1>3, <3>3 DEF Stored, Identities
      <4>2. latest <= history[Doc(c)].highest
        BY <4>1 DEF IndInv, DataInv, StoredInv, Highest
      <4>3. v <= history[Doc(c)].highest
        BY <4>2, <3>3, <1>2, <1>3, Constants
      <4> QED BY <4>3 DEF PriorSettled
    <3> QED BY <1>5, <3>1, <3>2, <3>3
  <2>6. CASE v = 1
    BY <1>1, <1>2, <2>3, <2>4, <2>5, <2>6, VersionRead, SameNames
  <2>7. CASE v # 1
    <3>1. v >= 2
      BY <1>2, <2>7, Constants
    <3>2. /\ call'[c].pc = "prior" /\ call'[c].payload = call[c].payload /\ call'[c].version = v
          /\ call'[c].prior = call[c].prior /\ call'[c].history = call[c].history
      BY <2>3, <2>4, <2>7
    <3>3. "prior" \notin Replacing
      BY DEF Replacing
    <3>4. CallInv(c)'
      BY <1>1, <1>2, <2>4, <2>5, <3>1, <3>2, <3>3, ReadOn
    <3> QED BY <2>4, <3>4
  <2> QED BY <2>4, <2>6, <2>7
<1>6. CASE marker[Self(c)] = Absent /\ ~(latest = 0 \/ v <= latest) /\ v # latest + 1
  <2>1. Refuse(c, "CONFLICT")
    BY <1>1, <1>6 DEF ReadLatest
  <2> QED BY <1>1, <2>1, RefuseStep DEF Outcomes, Retriable
<1>7. CASE marker[Self(c)] = Absent /\ ~(latest = 0 \/ v <= latest) /\ v = latest + 1
  <2> DEFINE after == [call[c] EXCEPT !.pc = "existing"]
  <2>1. Read(c, after)
    BY <1>1, <1>7 DEF ReadLatest
  <2>2. after \in Call /\ after.pc = "existing" /\ after.payload = call[c].payload
        /\ after.version = v /\ after.prior = call[c].prior /\ after.history = call[c].history
    BY <1>2, PcSets, Zenon DEF Call
  <2>3. call'[c] = after /\ UNCHANGED <<records, cleanup>> /\ (CallInv(c)' => IndInv')
    BY <1>1, <2>1, <2>2, ReadFrame, PcSets
  <2>4. v >= 2
    BY <1>3, <1>7, Constants
  <2> QED BY <1>1, <1>2, <2>2, <2>3, <2>4, ReadOn DEF Replacing
<1> QED BY <1>4, <1>5, <1>6, <1>7

LEMMA ReadPriorStep ==
    ASSUME IndInv, NEW c \in Clients, ReadPrior(c)
    PROVE  IndInv'
<1>1. call[c].pc = "prior" /\ call[c].pc \in Ready /\ call[c].pc \in Checked /\ call[c].pc \in AfterReads
  BY PcSets DEF ReadPrior, At, Checked, AfterReads
<1>2. /\ TypeOK /\ CallInv(c) /\ call[c] \in Call
      /\ Replayed(c) \/ Followed(c)
      /\ PriorSettled(c) /\ Prior(c) \in Identities /\ Self(c) \in Identities
  BY <1>1, ReadStart, CallNames
<1> DEFINE m == marker[Prior(c)]
           edges == IF m \notin {Absent, Expired} /\ m[2] = call[c].version THEN {<<Prior(c), m>>} ELSE {}
           after == [call[c] EXCEPT !.pc = AfterVersion(c), !.prior = edges]
<1>3. Read(c, after)
  BY DEF ReadPrior
<1>4. edges \in SUBSET (Identities \X Identities)
  BY <1>2 DEF TypeOK
<1>5. AfterVersion(c) \in Ready /\ AfterVersion(c) \in Pcs
  BY NextReads, PcSets
<1>6. after \in Call /\ after.pc = AfterVersion(c) /\ after.payload = call[c].payload
      /\ after.version = call[c].version /\ after.history = call[c].history /\ after.prior = edges
  BY <1>2, <1>4, <1>5, Zenon DEF Call
<1>7. call'[c] = after /\ UNCHANGED <<records, cleanup>> /\ (CallInv(c)' => IndInv')
  BY <1>1, <1>3, <1>5, <1>6, ReadFrame
<1>8. (Replayed(c) \/ Followed(c))'
  BY <1>2, <1>6, <1>7, SameNames
\* No edge is forgotten: none was there while the version was read.
<1>9. PriorSettled(c)'
  <2>1. /\ Doc(c)' = Doc(c) /\ Self(c)' = Self(c) /\ Prior(c)' = Prior(c)
        /\ Replayed(c)' <=> Replayed(c)
        /\ history' = history /\ manifest' = manifest /\ marker' = marker
    BY <1>6, <1>7, SameNames
  <2>2. <<Prior(c), Self(c)>> \notin call[c].prior
    BY <1>1, <1>2 DEF CallInv
  <2> QED BY <1>2, <1>6, <1>7, <2>1, <2>2 DEF PriorSettled, Live
<1> QED BY <1>1, <1>6, <1>7, <1>8, <1>9, VersionRead

LEMMA ReadExistingStep ==
    ASSUME IndInv, NEW c \in Clients, ReadExisting(c)
    PROVE  IndInv'
<1>1. call[c].pc = "existing" /\ call[c].pc \in Ready /\ call[c].pc \in Checked
  BY PcSets DEF ReadExisting, At, Checked
<1>2. /\ TypeOK /\ CallInv(c) /\ call[c] \in Call
      /\ Replayed(c) \/ Followed(c)
      /\ Prior(c) \in Identities /\ Self(c) \in Identities
  BY <1>1, ReadStart, CallNames
<1> DEFINE edges == IF marker[Prior(c)] = Absent THEN {<<Prior(c), Self(c)>>} ELSE {}
           after == [call[c] EXCEPT !.pc = AfterVersion(c), !.prior = edges]
<1>3. Read(c, after)
  BY DEF ReadExisting
<1>4. edges \in SUBSET (Identities \X Identities)
  BY <1>2
<1>5. AfterVersion(c) \in Ready /\ AfterVersion(c) \in Pcs
  BY NextReads, PcSets
<1>6. after \in Call /\ after.pc = AfterVersion(c) /\ after.payload = call[c].payload
      /\ after.version = call[c].version /\ after.history = call[c].history /\ after.prior = edges
  BY <1>2, <1>4, <1>5, Zenon DEF Call
<1>7. call'[c] = after /\ UNCHANGED <<records, cleanup>> /\ (CallInv(c)' => IndInv')
  BY <1>1, <1>3, <1>5, <1>6, ReadFrame
<1>8. (Replayed(c) \/ Followed(c))'
  BY <1>2, <1>6, <1>7, SameNames
<1>9. PriorSettled(c)'
  <2>1. Self(c)' = Self(c) /\ Prior(c)' = Prior(c) /\ manifest' = manifest /\ marker' = marker
    BY <1>6, <1>7, SameNames
  <2> QED BY <1>6, <1>7, <2>1 DEF PriorSettled, Live
<1> QED BY <1>1, <1>6, <1>7, <1>8, <1>9, VersionRead

\* What an admission knows when it turns to the version it replaces
LEMMA ReplacingStart ==
    ASSUME IndInv, NEW c \in Clients, call[c].pc \in Replacing
    PROVE  /\ call[c].pc \in Ready /\ call[c].pc \in Checked
           /\ TypeOK /\ CallInv(c) /\ call[c] \in Call
           /\ PriorSettled(c) /\ Target(c) # Absent
           /\ Self(c) \in Identities /\ Target(c) \in Identities
<1>1. call[c].pc \in Ready /\ call[c].pc \in Checked /\ call[c].pc \in AfterReads
  BY DEF Ready, Checked, AfterReads
<1>2. /\ TypeOK /\ CallInv(c) /\ call[c] \in Call /\ PriorSettled(c)
      /\ Self(c) \in Identities /\ Target(c) \in Identities \cup {Absent}
  BY <1>1, ReadStart, CallNames
<1> QED BY <1>1, <1>2 DEF CallInv

\* A read about the replaced version that is followed by another
LEMMA OnEdge ==
    ASSUME IndInv, NEW c \in Clients, call[c].pc \in Replacing, NEW pc \in Replacing,
           pc = "chain" => FALSE, pc = "replay" => Replayed(c),
           Read(c, [call[c] EXCEPT !.pc = pc])
    PROVE  IndInv'
<1> DEFINE after == [call[c] EXCEPT !.pc = pc]
<1>1. /\ call[c].pc \in Ready /\ call[c].pc \in Checked /\ call[c] \in Call
      /\ PriorSettled(c) /\ Target(c) # Absent
  BY ReplacingStart
<1>2. pc \in Ready /\ pc \in Pcs /\ pc \notin {"prior", "existing"}
  BY PcSets DEF Ready, Checked, AfterReads, Replacing
<1>3. after \in Call /\ after.pc = pc /\ after.payload = call[c].payload
      /\ after.version = call[c].version /\ after.prior = call[c].prior /\ after.history = call[c].history
  BY <1>1, <1>2, Zenon DEF Call
<1>4. call'[c] = after /\ UNCHANGED <<records, cleanup>> /\ (CallInv(c)' => IndInv')
  BY <1>1, <1>2, <1>3, ReadFrame
<1>5. CallInv(c)'
  BY <1>1, <1>2, <1>3, <1>4, ReadOn
<1> QED BY <1>4, <1>5

LEMMA ReadEdgeStep ==
    ASSUME IndInv, NEW c \in Clients, ReadEdge(c)
    PROVE  IndInv'
<1>1. call[c].pc \in Replacing
  BY DEF ReadEdge, At, Replacing
<1>2. CASE committed[Request(c)].done
  BY <1>1, <1>2, OnEdge DEF ReadEdge, Replacing, Replayed
<1>3. CASE ~committed[Request(c)].done
  BY <1>1, <1>3, OnEdge DEF ReadEdge, Replacing
<1> QED BY <1>2, <1>3

LEMMA ReadReplayedEdgeStep ==
    ASSUME IndInv, NEW c \in Clients, ReadReplayedEdge(c)
    PROVE  IndInv'
<1>1. call[c].pc = "replay" /\ call[c].pc \in Replacing
  BY DEF ReadReplayedEdge, At, Replacing
<1>2. /\ call[c].pc \in Ready /\ call[c] \in Call /\ CallInv(c)
      /\ Self(c) \in Identities /\ Target(c) \in Identities
  BY <1>1, ReplacingStart
<1>3. CASE marker[Target(c)] = Self(c)
  <2> DEFINE edges == {<<Target(c), Self(c)>>}
             after == [call[c] EXCEPT !.pc = AfterEdge(c), !.edge = edges]
  <2>1. Read(c, after)
    BY <1>3 DEF ReadReplayedEdge
  <2>2. edges \in SUBSET (Identities \X Identities) /\ AfterEdge(c) \in Ready /\ AfterEdge(c) \in Pcs
    BY <1>2, NextReads, PcSets
  <2>3. after \in Call /\ after.pc = AfterEdge(c) /\ after.payload = call[c].payload
        /\ after.version = call[c].version /\ after.prior = call[c].prior
        /\ after.history = call[c].history /\ after.edge = edges
    BY <1>2, <2>2, Zenon DEF Call
  <2>4. call'[c] = after /\ UNCHANGED <<records, cleanup>> /\ (CallInv(c)' => IndInv')
    BY <1>2, <2>1, <2>2, <2>3, ReadFrame
  <2>5. Replayed(c)
    BY <1>1, <1>2 DEF CallInv
  <2>6. CallInv(c)'
    BY <1>1, <2>3, <2>4, <2>5, EdgeRead
  <2> QED BY <2>4, <2>6
<1>4. CASE marker[Target(c)] # Self(c)
  <2>1. Refuse(c, "CONFLICT")
    BY <1>4 DEF ReadReplayedEdge
  <2> QED BY <1>2, <2>1, RefuseStep DEF Outcomes, Retriable
<1> QED BY <1>3, <1>4

LEMMA ReadFreshEdgeStep ==
    ASSUME IndInv, NEW c \in Clients, ReadFreshEdge(c)
    PROVE  IndInv'
<1>1. call[c].pc \in Replacing /\ call[c].pc \in Ready
  BY PcSets DEF ReadFreshEdge, At, Replacing
<1>2. CASE marker[Target(c)] # Absent
  <2>1. Refuse(c, Retirement(marker[Target(c)]))
    BY <1>2 DEF ReadFreshEdge
  <2> QED BY <1>1, <2>1, RefuseStep DEF Outcomes, Retriable, Retirement
<1>3. CASE marker[Target(c)] = Absent
  BY <1>1, <1>3, OnEdge DEF ReadFreshEdge, Replacing
<1> QED BY <1>2, <1>3

LEMMA FollowStep ==
    ASSUME IndInv, NEW c \in Clients, call[c].pc \in Replacing, NEW p \in Payloads, Follow(c, p)
    PROVE  IndInv'
<1>1. /\ call[c].pc \in Ready /\ call[c].pc \in Checked /\ call[c] \in Call
      /\ PriorSettled(c) /\ Target(c) # Absent
      /\ Self(c) \in Identities /\ Target(c) \in Identities
  BY ReplacingStart
<1>2. CASE TargetOf[p] = Absent
  <2> DEFINE edges == {<<Target(c), Self(c)>>}
             target == Target(c)
             after == [call[c] EXCEPT !.pc = AfterEdge(c), !.edge = edges, !.target = target,
                                      !.cursor = Absent]
  <2>1. Read(c, after)
    BY <1>2 DEF Follow
  <2>2. edges \in SUBSET (Identities \X Identities) /\ AfterEdge(c) \in Ready /\ AfterEdge(c) \in Pcs
    BY <1>1, NextReads, PcSets
  <2>3. after \in Call /\ after.pc = AfterEdge(c) /\ after.payload = call[c].payload
        /\ after.version = call[c].version /\ after.prior = call[c].prior
        /\ after.history = call[c].history /\ after.edge = edges /\ after.target = target
    <3>1. target \in Identities \cup {Absent} /\ Absent \in Identities \cup {Absent}
      BY <1>1
    <3> HIDE DEF target, edges
    <3> QED BY <1>1, <2>2, <3>1, Zenon DEF Call
  <2>4. call'[c] = after /\ UNCHANGED <<records, cleanup>> /\ (CallInv(c)' => IndInv')
    BY <1>1, <2>1, <2>2, <2>3, ReadFrame
  <2>5. CallInv(c)'
    BY <2>3, <2>4, EdgeRead
  <2> QED BY <2>4, <2>5
<1>3. CASE TargetOf[p] # Absent /\ TargetOf[p][1] = Doc(c)
  <2>1. Refuse(c, "CONFLICT")
    BY <1>3 DEF Follow
  <2> QED BY <1>1, <2>1, RefuseStep DEF Outcomes, Retriable
<1>4. CASE TargetOf[p] # Absent /\ TargetOf[p][1] # Doc(c)
  <2> DEFINE cursor == TargetOf[p]
             after == [call[c] EXCEPT !.pc = "chain", !.cursor = cursor]
  <2>1. Read(c, after)
    BY <1>4 DEF Follow
  <2>2. cursor \in Identities \cup {Absent} /\ cursor # Absent
    BY <1>4, Constants
  <2>3. after \in Call /\ after.pc = "chain" /\ after.payload = call[c].payload
        /\ after.version = call[c].version /\ after.prior = call[c].prior
        /\ after.history = call[c].history /\ after.cursor = cursor
    <3> HIDE DEF cursor
    <3> QED BY <1>1, <2>2, PcSets, Zenon DEF Call
  <2>4. call'[c] = after /\ UNCHANGED <<records, cleanup>> /\ (CallInv(c)' => IndInv')
    BY <1>1, <2>1, <2>3, ReadFrame, PcSets
  <2>5. CallInv(c)'
    BY <1>1, <2>2, <2>3, <2>4, ReadOn DEF Replacing
  <2> QED BY <2>4, <2>5
<1> QED BY <1>2, <1>3, <1>4

LEMMA ReadTargetStep ==
    ASSUME IndInv, NEW c \in Clients, ReadTarget(c)
    PROVE  IndInv'
<1>1. call[c].pc \in Replacing /\ call[c].pc \in Ready
  BY PcSets DEF ReadTarget, At, Replacing
<1>2. manifest[Target(c)] \in Payloads \cup {Absent}
  BY <1>1, ReplacingStart DEF TypeOK
<1>3. \/ Refuse(c, "NOT_FOUND") \/ Refuse(c, "CONFLICT")
      \/ manifest[Target(c)] # Absent /\ Follow(c, manifest[Target(c)])
  BY DEF ReadTarget
<1> QED BY <1>1, <1>2, <1>3, RefuseStep, FollowStep DEF Outcomes, Retriable

LEMMA ReadChainStep ==
    ASSUME IndInv, NEW c \in Clients, ReadChain(c)
    PROVE  IndInv'
<1>1. call[c].pc = "chain" /\ call[c].pc \in Replacing /\ call[c].pc \in Ready
  BY PcSets DEF ReadChain, At, Replacing
<1>2. call[c].cursor \in Identities
  BY <1>1, ReplacingStart, CallFields DEF CallInv
<1>3. manifest[call[c].cursor] \in Payloads \cup {Absent}
  BY <1>1, <1>2, ReplacingStart DEF TypeOK
<1>4. \/ Refuse(c, "INTEGRITY")
      \/ manifest[call[c].cursor] # Absent /\ Follow(c, manifest[call[c].cursor])
  BY DEF ReadChain
<1> QED BY <1>1, <1>3, <1>4, RefuseStep, FollowStep DEF Outcomes, Retriable

LEMMA SubjectStart ==
    ASSUME IndInv, NEW c \in Clients, call[c].pc \in {"subject", "holder"}
    PROVE  /\ call[c].pc \in Ready /\ call[c].pc \in Checked /\ call[c].pc \in AfterReads
           /\ TypeOK /\ CallInv(c) /\ call[c] \in Call
           /\ PriorSettled(c) /\ (Replayed(c) \/ Followed(c))
           /\ Subject(c) \in Subjects /\ Doc(c) \in Documents
           /\ Target(c) # Absent =>
                  call[c].edge = {<<Target(c), Self(c)>>} /\ (call[c].target = Target(c) \/ Replayed(c))
<1>1. call[c].pc \in Ready /\ call[c].pc \in Checked /\ call[c].pc \in AfterReads /\ call[c].pc \in AboutEdge
  BY DEF Ready, Checked, AfterReads, AboutEdge
<1>2. /\ TypeOK /\ CallInv(c) /\ call[c] \in Call /\ PriorSettled(c) /\ (Replayed(c) \/ Followed(c))
      /\ Subject(c) \in Subjects \cup {Absent} /\ Doc(c) \in Documents
  BY <1>1, ReadStart, CallNames
<1> QED BY <1>1, <1>2 DEF CallInv

\* The reads about the subject keep the rest.
LEMMA SubjectRead ==
    ASSUME IndInv, NEW c \in Clients, call[c].pc \in {"subject", "holder"},
           UNCHANGED <<records, cleanup>>,
           call'[c].payload = call[c].payload, call'[c].version = call[c].version,
           call'[c].history = call[c].history, call'[c].prior = call[c].prior,
           call'[c].edge = call[c].edge, call'[c].target = call[c].target,
           call'[c].pc \in {"holder", "commit"},
           call'[c].pc = "holder" =>
               call'[c].holder # Absent /\ call'[c].holder[2] <= Highest(call'[c].holder),
           call'[c].pc = "commit" => HolderSettled(c)'
    PROVE  CallInv(c)'
<1>1. /\ CallInv(c) /\ PriorSettled(c) /\ (Replayed(c) \/ Followed(c))
      /\ Subject(c) # Absent /\ call[c].payload # Absent /\ call[c].version >= 1
      /\ call[c].version <= history[Doc(c)].highest + 1
      /\ Target(c) # Absent =>
             call[c].edge = {<<Target(c), Self(c)>>} /\ (call[c].target = Target(c) \/ Replayed(c))
  BY SubjectStart, ReadStart DEF CallInv
<1>2. /\ Doc(c)' = Doc(c) /\ Subject(c)' = Subject(c) /\ Target(c)' = Target(c)
      /\ Self(c)' = Self(c) /\ history' = history
      /\ Replayed(c)' <=> Replayed(c)
      /\ PriorSettled(c)' <=> PriorSettled(c)
      /\ Followed(c)' <=> Followed(c)
  BY SameNames
<1> QED BY <1>1, <1>2
        DEF Highest, CallInv, Asking, Choosing, Replacing, AboutEdge, AfterReads, Checked

LEMMA ReadSubjectStep ==
    ASSUME IndInv, NEW c \in Clients, ReadSubject(c)
    PROVE  IndInv'
<1>1. call[c].pc = "subject"
  BY DEF ReadSubject, At
<1>2. /\ call[c].pc \in Ready /\ TypeOK /\ call[c] \in Call /\ Subject(c) \in Subjects
  BY <1>1, SubjectStart
<1> DEFINE i == subjectLive[Subject(c)]
           next == IF i = Absent THEN "commit" ELSE IF i[1] = Doc(c) THEN "commit" ELSE "holder"
           after == [call[c] EXCEPT !.holder = i, !.pc = next]
<1>3. Read(c, after)
  BY DEF ReadSubject
<1>4. i \in Identities \cup {Absent} /\ next \in Pcs /\ next \in Ready /\ next \in {"holder", "commit"}
  BY <1>2, PcSets DEF TypeOK
<1>5. after \in Call /\ after.pc = next /\ after.payload = call[c].payload
      /\ after.version = call[c].version /\ after.prior = call[c].prior
      /\ after.history = call[c].history /\ after.edge = call[c].edge
      /\ after.target = call[c].target /\ after.holder = i
  <2> HIDE DEF i, next
  <2> QED BY <1>2, <1>4, Zenon DEF Call
<1>6. call'[c] = after /\ UNCHANGED <<records, cleanup>> /\ (CallInv(c)' => IndInv')
  BY <1>2, <1>3, <1>4, <1>5, ReadFrame
<1>7. next = "commit" => HolderSettled(c)'
  BY <1>5, <1>6, SameNames DEF HolderSettled
<1>8. next = "holder" => i # Absent /\ i[2] <= Highest(i)
  BY <1>2 DEF IndInv, DataInv, LedgerInv
<1>9. CallInv(c)'
  <2> HIDE DEF i, next
  <2> QED BY <1>1, <1>4, <1>5, <1>6, <1>7, <1>8, SubjectRead
<1> QED BY <1>6, <1>9

LEMMA ReadHolderStep ==
    ASSUME IndInv, NEW c \in Clients, ReadHolder(c)
    PROVE  IndInv'
<1>1. call[c].pc = "holder"
  BY DEF ReadHolder, At
<1>2. /\ call[c].pc \in Ready /\ TypeOK /\ CallInv(c) /\ call[c] \in Call
      /\ call[c].holder \in Identities
  BY <1>1, SubjectStart, CallFields DEF CallInv
<1> DEFINE i == call[c].holder
<1>3. CASE marker[i] = Absent /\ Target(c) # i
  <2>1. Refuse(c, "CONFLICT")
    BY <1>3 DEF ReadHolder
  <2> QED BY <1>2, <2>1, RefuseStep DEF Outcomes, Retriable
<1>4. CASE ~(marker[i] = Absent /\ Target(c) # i)
  <2> DEFINE after == [call[c] EXCEPT !.pc = "commit"]
  <2>1. Read(c, after)
    BY <1>4 DEF ReadHolder
  <2>2. after \in Call /\ after.pc = "commit" /\ after.payload = call[c].payload
        /\ after.version = call[c].version /\ after.prior = call[c].prior
        /\ after.history = call[c].history /\ after.edge = call[c].edge
        /\ after.target = call[c].target /\ after.holder = i
    BY <1>2, PcSets, Zenon DEF Call
  <2>3. call'[c] = after /\ UNCHANGED <<records, cleanup>> /\ (CallInv(c)' => IndInv')
    BY <1>2, <2>1, <2>2, ReadFrame, PcSets
  <2>4. HolderSettled(c)
    BY <1>1, <1>2, <1>4 DEF CallInv, HolderSettled, Live, Highest
  <2>5. HolderSettled(c)'
    BY <2>2, <2>3, <2>4, SameNames DEF HolderSettled, Live, Highest
  <2>6. CallInv(c)'
    BY <1>1, <2>2, <2>3, <2>5, SubjectRead
  <2> QED BY <2>3, <2>6
<1> QED BY <1>3, <1>4
-----------------------------------------------------------------------------
(***************************************************************************)
(* The client and the queues.                                              *)
(***************************************************************************)
\* A step of a client that is not being served
LEMMA Outside ==
    ASSUME IndInv, NEW c \in Clients, NEW after \in Call, call' = [call EXCEPT ![c] = after],
           after.pc \notin Ready \cup {"document"}, UNCHANGED <<records, cleanup, queues, restarts>>,
           puts' \in 0..MaxPuts
    PROVE  call'[c] = after /\ (CallInv(c)' => IndInv')
<1>1. TypeOK /\ QueueInv
  BY DEF IndInv
<1>2. /\ call' \in [Clients -> Call] /\ call'[c] = after
      /\ \A d \in Clients \ {c} : call'[d] = call[d]
  BY <1>1, CallUpdate
<1>3. TypeOK'
  BY <1>1, <1>2 DEF TypeOK, records, queues
<1>4. documentQueue' = documentQueue /\ semanticQueue' = semanticQueue
  BY DEF queues
<1>5. ASSUME NEW d \in Clients, call'[d].pc \in Ready \cup {"document"}
      PROVE  call'[d] = call[d] /\ Doc(d)' = Doc(d) /\ Target(d)' = Target(d)
  BY <1>2, <1>5 DEF Doc, Target
<1>6. QueueInv'
  BY <1>1, <1>4, <1>5 DEF QueueInv
<1> QED BY <1>2, <1>3, <1>6, OneMoves

LEMMA PutStep ==
    ASSUME IndInv, NEW c \in Clients, NEW p \in Payloads, Put(c, p)
    PROVE  IndInv'
<1> DEFINE after == [NoCall("none") EXCEPT !.pc = "head", !.payload = p, !.attempt = 1]
<1>1. call' = [call EXCEPT ![c] = after] /\ UNCHANGED <<records, cleanup, queues, restarts>>
  BY DEF Put
<1>2. puts' \in 0..MaxPuts
  BY Constants DEF Put, IndInv, TypeOK
<1>3. NoCall("none") \in Call /\ "head" \in Pcs /\ 1 \in 0..MaxAttempts
  BY NoCallType, Constants DEF Outcomes, Pcs
<1>4. after \in Call
  BY <1>3, Zenon DEF Call
<1>5. /\ after.pc = "head" /\ after.payload = p
      /\ after.history = NoHistory /\ after.prior = {} /\ after.edge = {}
      /\ after.target = Absent /\ after.holder = Absent
  BY DEF NoCall
<1>6. "head" \notin Ready \cup {"document"}
  BY DEF Ready, Checked, AfterReads, Replacing, AboutEdge
<1>7. call'[c] = after /\ (CallInv(c)' => IndInv')
  BY <1>1, <1>2, <1>4, <1>5, <1>6, Outside
<1> QED BY <1>5, <1>7, BlankCall, Constants

LEMMA ChooseStep ==
    ASSUME IndInv, NEW c \in Clients, call[c].pc \in {"head", "view"}, NEW head,
           NEW latest \in 0..MaxVersion, latest <= history[Doc(c)].highest,
           head # Absent => latest >= 1,
           Choose(c, head, latest), UNCHANGED <<records, cleanup, queues, puts, restarts>>
    PROVE  IndInv'
<1>1. TypeOK /\ CallInv(c) /\ call[c] \in Call /\ puts \in 0..MaxPuts
  BY CallFields DEF IndInv, TypeOK
<1>2. /\ call[c].payload # Absent /\ Blank(c)
      /\ Doc(c) \in Documents /\ history[Doc(c)].highest \in 0..MaxVersion
  BY <1>1, CallNames DEF CallInv, Asking
<1>3. {"idle", "send"} \cap (Ready \cup {"document"}) = {} /\ "send" \in Pcs
  BY DEF Ready, Checked, AfterReads, Replacing, AboutEdge, Pcs
<1> DEFINE again == head # Absent /\ head = call[c].payload /\ ~call[c].advance
           version == IF again THEN latest ELSE latest + 1
<1>4. CASE version > MaxVersion
  <2>1. call' = [call EXCEPT ![c] = NoCall("bound")]
    BY <1>4 DEF Choose
  <2>2. NoCall("bound") \in Call
    BY NoCallType DEF Outcomes
  <2>3. NoCall("bound").pc = "idle"
    BY DEF NoCall
  <2>4. call'[c] = NoCall("bound") /\ (CallInv(c)' => IndInv')
    BY <1>1, <1>3, <2>1, <2>2, <2>3, Outside
  <2>5. CallInv(c)'
    BY <2>4, BlankCall DEF NoCall
  <2> QED BY <2>4, <2>5
<1>5. CASE ~(version > MaxVersion)
  <2> DEFINE after == [call[c] EXCEPT !.pc = "send", !.version = version]
  <2>1. call' = [call EXCEPT ![c] = after]
    BY <1>5 DEF Choose
  <2>2. version \in 0..MaxVersion /\ version >= 1 /\ version <= history[Doc(c)].highest + 1
    BY <1>2, <1>5, Constants
  <2>3. /\ after \in Call /\ after.pc = "send" /\ after.version = version
        /\ after.payload = call[c].payload /\ after.history = call[c].history
        /\ after.prior = call[c].prior /\ after.edge = call[c].edge
        /\ after.target = call[c].target /\ after.holder = call[c].holder
    <3> HIDE DEF version
    <3> QED BY <1>1, <1>3, <2>2, Zenon DEF Call
  <2>4. call'[c] = after /\ (CallInv(c)' => IndInv')
    BY <1>1, <1>3, <2>1, <2>3, Outside
  <2>5. Doc(c)' = Doc(c) /\ history' = history
    BY <2>3, <2>4 DEF Doc, records
  <2>6. CallInv(c)'
    <3> HIDE DEF version, after
    <3> QED BY <1>2, <2>2, <2>3, <2>4, <2>5
        DEF CallInv, Blank, AfterReads, Checked, Asking, Choosing, Replacing, AboutEdge
  <2> QED BY <2>4, <2>6
<1> QED BY <1>4, <1>5

LEMMA LookUpStep ==
    ASSUME IndInv, NEW c \in Clients, LookUp(c)
    PROVE  IndInv'
<1>1. call[c].pc = "head" /\ UNCHANGED <<records, cleanup, queues, puts, restarts>>
  BY DEF LookUp, At
<1>2. TypeOK /\ CallInv(c) /\ call[c] \in Call /\ puts \in 0..MaxPuts
  BY CallFields DEF IndInv, TypeOK
<1>3. /\ call[c].payload # Absent /\ Blank(c)
      /\ Doc(c) \in Documents /\ history[Doc(c)].highest \in 0..MaxVersion
  BY <1>1, <1>2, CallNames DEF CallInv, Asking
<1> DEFINE d == Doc(c)
           latest == Latest(d)
<1>4. CASE Stored(d) # {}
  <2>1. latest \in Stored(d) /\ latest \in 1..MaxVersion
    BY <1>2, <1>3, <1>4, LatestFacts DEF Stored, Versions
  <2>2. latest <= history[d].highest
    <3>1. <<d, latest>> \in Identities /\ manifest[<<d, latest>>] # Absent
      BY <2>1, <1>3 DEF Stored, Identities, Versions
    <3> QED BY <3>1 DEF IndInv, DataInv, StoredInv, Highest
  <2> DEFINE after == [call[c] EXCEPT !.pc = "view", !.version = latest]
  <2>3. call' = [call EXCEPT ![c] = after]
    <3>1. call' = [call EXCEPT ![c].pc = "view", ![c].version = latest]
      BY <1>4 DEF LookUp
    <3> QED BY <3>1, <1>2 DEF TypeOK
  <2>4. latest \in 0..MaxVersion /\ latest >= 1 /\ "view" \in Pcs
        /\ "view" \notin Ready \cup {"document"}
    BY <2>1, Constants DEF Pcs, Ready, Checked, AfterReads, Replacing, AboutEdge
  <2>5. /\ after \in Call /\ after.pc = "view" /\ after.version = latest
        /\ after.payload = call[c].payload /\ after.history = call[c].history
        /\ after.prior = call[c].prior /\ after.edge = call[c].edge
        /\ after.target = call[c].target /\ after.holder = call[c].holder
    <3> HIDE DEF latest
    <3> QED BY <1>2, <2>4, Zenon DEF Call
  <2>6. call'[c] = after /\ (CallInv(c)' => IndInv')
    BY <1>1, <1>2, <2>3, <2>4, <2>5, Outside
  <2>7. Doc(c)' = d /\ history' = history
    BY <1>1, <2>5, <2>6 DEF Doc, records
  <2>8. CallInv(c)'
    <3> HIDE DEF latest, after
    <3> QED BY <1>3, <2>2, <2>4, <2>5, <2>6, <2>7
        DEF CallInv, Blank, AfterReads, Checked, Asking, Choosing, Replacing, AboutEdge
  <2> QED BY <2>6, <2>8
<1>5. CASE Stored(d) = {}
  <2> DEFINE last == IF history[d].retired >= history[d].highest THEN history[d].highest ELSE 0
  <2>1. Choose(c, Absent, last)
    BY <1>5 DEF LookUp
  <2>2. last \in 0..MaxVersion /\ last <= history[d].highest
    BY <1>3, Constants
  <2> HIDE DEF last
  <2> QED BY <1>1, <2>1, <2>2, ChooseStep
<1> QED BY <1>4, <1>5

LEMMA ViewStep ==
    ASSUME IndInv, NEW c \in Clients, View(c)
    PROVE  IndInv'
<1>1. call[c].pc = "view" /\ UNCHANGED <<records, cleanup, queues, puts, restarts>>
  BY DEF View, At
<1>2. TypeOK /\ CallInv(c)
  BY DEF IndInv
<1>3. call[c].version \in 0..MaxVersion /\ call[c].version >= 1
      /\ call[c].version <= history[Doc(c)].highest
  BY <1>1, <1>2, CallFields DEF CallInv
<1> DEFINE head == IF Live(Self(c)) THEN manifest[Self(c)] ELSE Absent
<1>4. Choose(c, head, call[c].version)
  BY DEF View
<1> HIDE DEF head
<1> QED BY <1>1, <1>3, <1>4, ChooseStep

\* A client that joins the queue of its document
LEMMA JoinStep ==
    ASSUME IndInv, NEW c \in Clients, call[c].pc \in {"send", "semantic"},
           call' = [call EXCEPT ![c].pc = "document"], Join(c),
           UNCHANGED <<records, cleanup, semanticQueue, puts, restarts>>,
           Target(c) # Absent => semanticQueue # <<>> /\ Head(semanticQueue) = c
    PROVE  IndInv'
<1>1. TypeOK /\ QueueInv /\ CallInv(c) /\ call[c] \in Call
  BY CallFields DEF IndInv
<1>2. Doc(c) \in Documents /\ Blank(c)
  BY <1>1, CallNames DEF CallInv, Asking
<1> DEFINE after == [call[c] EXCEPT !.pc = "document"]
<1>3. call' = [call EXCEPT ![c] = after]
  BY <1>1 DEF TypeOK
<1>4. /\ after \in Call /\ after.pc = "document" /\ after.version = call[c].version
      /\ after.payload = call[c].payload /\ after.history = call[c].history
      /\ after.prior = call[c].prior /\ after.edge = call[c].edge
      /\ after.target = call[c].target /\ after.holder = call[c].holder
  <2>1. "document" \in Pcs
    BY DEF Pcs
  <2> QED BY <1>1, <2>1, Zenon DEF Call
<1>5. /\ call' \in [Clients -> Call] /\ call'[c] = after
      /\ \A d \in Clients \ {c} : call'[d] = call[d]
  BY <1>1, <1>3, <1>4, CallUpdate
<1>6. /\ documentQueue' \in [Documents -> Seq(Clients)]
      /\ \A e \in Documents : documentQueue[e] # <<>> =>
             documentQueue'[e] # <<>> /\ Head(documentQueue'[e]) = Head(documentQueue[e])
  BY <1>1, <1>2 DEF Join, TypeOK
<1>7. TypeOK'
  BY <1>1, <1>5, <1>6 DEF TypeOK, records
<1>8. \A d \in Clients : Doc(d)' = Doc(d) /\ Target(d)' = Target(d)
  BY <1>4, <1>5 DEF Doc, Target
<1>9. "document" \notin Ready /\ \A pc \in Ready : pc # "idle"
  BY DEF Ready, Checked, AfterReads, Replacing, AboutEdge
<1>10. QueueInv'
  <2>1. ASSUME NEW d \in Clients, call'[d].pc \in Ready
        PROVE  documentQueue'[Doc(d)] # <<>> /\ Head(documentQueue'[Doc(d)]) = d
    <3>1. d # c /\ call[d].pc \in Ready /\ CallInv(d)
      BY <2>1, <1>4, <1>5, <1>9 DEF IndInv
    <3>2. Doc(d) \in Documents
      BY <3>1, <1>1, <1>9, CallNames
    <3> QED BY <1>1, <1>6, <3>1, <3>2 DEF QueueInv
  <2>2. ASSUME NEW d \in Clients, call'[d].pc \in Ready \cup {"document"}, Target(d) # Absent
        PROVE  semanticQueue # <<>> /\ Head(semanticQueue) = d
    <3>1. CASE d = c
      BY <2>2, <3>1
    <3>2. CASE d # c
      BY <2>2, <3>2, <1>1, <1>5 DEF QueueInv
    <3> QED BY <3>1, <3>2
  <2> QED BY <2>1, <2>2, <1>8 DEF QueueInv
<1>11. Doc(c)' = Doc(c) /\ Target(c)' = Target(c) /\ history' = history
  BY <1>8 DEF records
<1>12. CallInv(c)'
  <2> HIDE DEF after
  <2> QED BY <1>1, <1>2, <1>4, <1>5, <1>11
      DEF CallInv, Blank, AfterReads, Checked, Asking, Choosing, Replacing, AboutEdge
<1> QED BY <1>5, <1>7, <1>10, <1>12, OneMoves DEF records

LEMMA SendStep ==
    ASSUME IndInv, NEW c \in Clients, Send(c)
    PROVE  IndInv'
<1>1. call[c].pc = "send" /\ UNCHANGED <<records, cleanup, puts, restarts>>
  BY DEF Send, At
<1>2. TypeOK /\ QueueInv /\ CallInv(c) /\ call[c] \in Call
  BY CallFields DEF IndInv
<1>3. CASE Target(c) = Absent
  BY <1>1, <1>3, JoinStep DEF Send
<1>4. CASE Target(c) # Absent
  <2> DEFINE after == [call[c] EXCEPT !.pc = "semantic"]
  <2>1. /\ semanticQueue' = Append(semanticQueue, c) /\ documentQueue' = documentQueue
        /\ call' = [call EXCEPT ![c] = after]
    BY <1>2, <1>4 DEF Send, TypeOK
  <2>2. /\ after \in Call /\ after.pc = "semantic" /\ after.version = call[c].version
        /\ after.payload = call[c].payload /\ after.history = call[c].history
        /\ after.prior = call[c].prior /\ after.edge = call[c].edge
        /\ after.target = call[c].target /\ after.holder = call[c].holder
    <3>1. "semantic" \in Pcs
      BY DEF Pcs
    <3> QED BY <1>2, <3>1, Zenon DEF Call
  <2>3. /\ call' \in [Clients -> Call] /\ call'[c] = after
        /\ \A d \in Clients \ {c} : call'[d] = call[d]
    BY <1>2, <2>1, <2>2, CallUpdate
  <2>4. /\ semanticQueue' \in Seq(Clients)
        /\ semanticQueue # <<>> => semanticQueue' # <<>> /\ Head(semanticQueue') = Head(semanticQueue)
    BY <1>2, <2>1 DEF TypeOK
  <2>5. TypeOK'
    BY <1>1, <1>2, <2>1, <2>3, <2>4 DEF TypeOK, records
  <2>6. \A d \in Clients : Doc(d)' = Doc(d) /\ Target(d)' = Target(d)
    BY <2>2, <2>3 DEF Doc, Target
  <2>7. "semantic" \notin Ready \cup {"document"}
    BY DEF Ready, Checked, AfterReads, Replacing, AboutEdge
  <2>8. QueueInv'
    <3>1. ASSUME NEW d \in Clients, call'[d].pc \in Ready \cup {"document"}
          PROVE  d # c /\ call'[d] = call[d]
      BY <3>1, <2>2, <2>3, <2>7
    <3> QED BY <1>2, <2>1, <2>4, <2>6, <3>1 DEF QueueInv
  <2>9. Doc(c)' = Doc(c) /\ Target(c)' = Target(c) /\ history' = history
    BY <1>1, <2>6 DEF records
  <2>10. CallInv(c)'
    <3> HIDE DEF after
    <3> QED BY <1>1, <1>2, <1>4, <2>2, <2>3, <2>9
        DEF CallInv, Blank, AfterReads, Checked, Asking, Choosing, Replacing, AboutEdge
  <2> QED BY <1>1, <2>3, <2>5, <2>8, <2>10, OneMoves
<1> QED BY <1>3, <1>4

LEMMA SemanticTurnStep ==
    ASSUME IndInv, NEW c \in Clients, SemanticTurn(c)
    PROVE  IndInv'
BY JoinStep DEF SemanticTurn, At

LEMMA DocumentTurnStep ==
    ASSUME IndInv, NEW c \in Clients, DocumentTurn(c)
    PROVE  IndInv'
<1>1. call[c].pc = "document" /\ UNCHANGED <<records, cleanup, queues, puts, restarts>>
      /\ documentQueue[Doc(c)] # <<>> /\ Head(documentQueue[Doc(c)]) = c
  BY DEF DocumentTurn, At
<1>2. TypeOK /\ QueueInv /\ CallInv(c) /\ call[c] \in Call
  BY CallFields DEF IndInv
<1>3. /\ Blank(c) /\ call[c].payload # Absent /\ call[c].version >= 1
      /\ call[c].version <= history[Doc(c)].highest + 1
  BY <1>1, <1>2 DEF CallInv, Asking, Choosing
<1> DEFINE next == IF call[c].version = 1 THEN AfterVersion(c) ELSE "history"
           after == [call[c] EXCEPT !.pc = next]
<1>4. next \in Pcs /\ next \in Ready
  BY NextReads, PcSets
<1>5. call' = [call EXCEPT ![c] = after]
  BY <1>2 DEF DocumentTurn, TypeOK
<1>6. /\ after \in Call /\ after.pc = next /\ after.version = call[c].version
      /\ after.payload = call[c].payload /\ after.history = call[c].history
      /\ after.prior = call[c].prior /\ after.edge = call[c].edge
      /\ after.target = call[c].target /\ after.holder = call[c].holder
  <2> HIDE DEF next
  <2> QED BY <1>2, <1>4, Zenon DEF Call
<1>7. /\ call' \in [Clients -> Call] /\ call'[c] = after
      /\ \A d \in Clients \ {c} : call'[d] = call[d]
  BY <1>2, <1>5, <1>6, CallUpdate
<1>8. TypeOK'
  BY <1>1, <1>2, <1>7 DEF TypeOK, records, queues
<1>9. \A d \in Clients : Doc(d)' = Doc(d) /\ Target(d)' = Target(d)
  <2> HIDE DEF after
  <2> QED BY <1>6, <1>7 DEF Doc, Target
<1>10. QueueInv'
  <2>1. documentQueue' = documentQueue /\ semanticQueue' = semanticQueue
    BY <1>1 DEF queues
  <2>2. ASSUME NEW d \in Clients \ {c} PROVE call'[d] = call[d]
    BY <1>7
  <2>3. Target(c) # Absent => semanticQueue # <<>> /\ Head(semanticQueue) = c
    BY <1>1, <1>2 DEF QueueInv
  <2>4. ASSUME NEW d \in Clients, call'[d].pc \in Ready
        PROVE  documentQueue[Doc(d)] # <<>> /\ Head(documentQueue[Doc(d)]) = d
    BY <1>1, <1>2, <2>2, <2>4 DEF QueueInv
  <2>5. ASSUME NEW d \in Clients, call'[d].pc \in Ready \cup {"document"}, Target(d) # Absent
        PROVE  semanticQueue # <<>> /\ Head(semanticQueue) = d
    BY <1>2, <2>2, <2>3, <2>5 DEF QueueInv
  <2> QED BY <1>9, <2>1, <2>4, <2>5 DEF QueueInv
<1>11. UNCHANGED <<records, cleanup>> /\ call'[c].pc = next
       /\ call'[c].payload = call[c].payload /\ call'[c].version = call[c].version
  <2> HIDE DEF after, next
  <2> QED BY <1>1, <1>6, <1>7
<1>12. CASE call[c].version = 1
  <2>1. Followed(c)'
    <3>1. call'[c].history = NoHistory /\ call'[c].version = 1
      <4> HIDE DEF after
      <4> QED BY <1>3, <1>6, <1>7, <1>12 DEF Blank
    <3>2. NoHistory.highest = 0 /\ NoHistory.retired = 0
      BY DEF NoHistory
    <3> QED BY <3>1, <3>2 DEF Followed
  <2>2. PriorSettled(c)'
    BY <1>11, <1>12 DEF PriorSettled
  <2>3. call'[c].pc = AfterVersion(c)
    BY <1>11, <1>12
  <2>4. CallInv(c)'
    BY <1>1, <1>11, <2>1, <2>2, <2>3, VersionRead
  <2> QED BY <1>7, <1>8, <1>10, <1>11, <2>4, OneMoves
<1>13. CASE call[c].version # 1
  <2>1. call'[c].pc = "history"
    BY <1>11, <1>13
  <2>2. history' = history /\ Doc(c)' = Doc(c)
    BY <1>9, <1>11 DEF records
  <2>3. Blank(c)'
    <3> HIDE DEF after
    <3> QED BY <1>3, <1>6, <1>7 DEF Blank
  <2>4. CallInv(c)'
    BY <1>3, <1>11, <2>1, <2>2, <2>3
    DEF CallInv, AfterReads, Checked, Asking, Choosing, Replacing, AboutEdge
  <2> QED BY <1>7, <1>8, <1>10, <1>11, <2>4, OneMoves
<1> QED BY <1>12, <1>13

\* An admission that ends with an answer and changes nothing
LEMMA DuplicateStep ==
    ASSUME IndInv, NEW c \in Clients, Duplicate(c)
    PROVE  IndInv'
<1>1. /\ call[c].pc \in Ready /\ Leave(c) /\ UNCHANGED <<records, cleanup, puts, restarts>>
      /\ call' = [call EXCEPT ![c] = NoCall("duplicate")]
  BY PcSets DEF Duplicate, At
<1>2. TypeOK
  BY DEF IndInv
<1>3. NoCall("duplicate") \in Call /\ NoCall("duplicate").pc = "idle"
  BY NoCallType DEF Outcomes, NoCall
<1>4. /\ call' \in [Clients -> Call] /\ call'[c] = NoCall("duplicate")
      /\ \A d \in Clients \ {c} : call'[d] = call[d]
  BY <1>1, <1>2, <1>3, CallUpdate
<1>5. /\ documentQueue' \in [Documents -> Seq(Clients)] /\ semanticQueue' \in Seq(Clients)
      /\ QueueInv'
  BY <1>1, <1>3, <1>4, LeaveFrame
<1>6. TypeOK'
  BY <1>1, <1>2, <1>4, <1>5 DEF TypeOK, records
<1>7. CallInv(c)'
  BY <1>4, BlankCall DEF NoCall
<1> QED BY <1>1, <1>4, <1>5, <1>6, <1>7, OneMoves

LEMMA DiagnoseStep ==
    ASSUME IndInv, NEW c \in Clients, Diagnose(c)
    PROVE  IndInv'
<1>1. call[c].pc = "commit" /\ call[c].pc \in Ready
  BY PcSets DEF Diagnose, At
<1>2. /\ TypeOK /\ call[c] \in Call /\ call[c].payload \in Payloads /\ call[c].payload # Absent
      /\ call[c].attempt \in 0..MaxAttempts /\ call[c].advance \in BOOLEAN
      /\ Doc(c) \in Documents /\ history[Doc(c)].highest \in 0..MaxVersion
  <2>1. TypeOK /\ CallInv(c) /\ call[c].payload # Absent
    BY <1>1, ReadStart
  <2> QED BY <1>1, <2>1, CallNames, CallFields DEF Call
<1> DEFINE after == [NoCall("none") EXCEPT !.pc = "history", !.payload = call[c].payload, !.version = 1,
                         !.attempt = call[c].attempt, !.advance = call[c].advance, !.diagnostic = TRUE]
<1>3. Read(c, after)
  BY DEF Diagnose
<1>4. NoCall("none") \in Call /\ "history" \in Pcs /\ 1 \in 0..MaxVersion
  BY NoCallType, Constants DEF Outcomes, Pcs
<1>5. after \in Call
  BY <1>2, <1>4, Zenon DEF Call
<1>6. /\ after.pc = "history" /\ after.payload = call[c].payload /\ after.version = 1
      /\ after.history = NoHistory /\ after.prior = {} /\ after.edge = {}
      /\ after.target = Absent /\ after.holder = Absent
  BY DEF NoCall
<1>7. call'[c] = after /\ UNCHANGED <<records, cleanup>> /\ (CallInv(c)' => IndInv')
  <2> HIDE DEF after
  <2> QED BY <1>1, <1>3, <1>5, <1>6, ReadFrame, PcSets
<1>8. Doc(c)' = Doc(c) /\ history' = history /\ 1 <= history[Doc(c)].highest + 1
  <2> HIDE DEF after
  <2> QED BY <1>2, <1>6, <1>7, Constants DEF Doc, records
<1>9. CallInv(c)'
  <2> HIDE DEF after
  <2> QED BY <1>2, <1>6, <1>7, <1>8
      DEF CallInv, Blank, AfterReads, Checked, Asking, Choosing, Replacing, AboutEdge
<1> QED BY <1>7, <1>9

LEMMA ConflictStep ==
    ASSUME IndInv, NEW c \in Clients, Conflict(c)
    PROVE  IndInv'
<1>1. call[c].pc \in Ready /\ Refuse(c, Failure(c))
  BY PcSets DEF Conflict, At
<1>2. Failure(c) \in Outcomes
  BY DEF Failure, Outcomes, Retriable
<1> QED BY <1>1, <1>2, RefuseStep

LEMMA RestartStep ==
    ASSUME IndInv, Restart
    PROVE  IndInv'
<1>1. TypeOK /\ DataInv /\ \A c \in Clients : CallInv(c)
  BY DEF IndInv
<1>2. NoCall("lost") \in Call /\ NoCall("lost").pc = "idle"
  BY NoCallType DEF Outcomes, NoCall
<1>3. ASSUME NEW c \in Clients
      PROVE  /\ call'[c] \in Call
             /\ (call'[c] = call[c] /\ call[c].pc \in {"idle", "head", "send"}) \/ call'[c] = NoCall("lost")
  BY <1>1, <1>2, CallFields DEF Restart
<1>4. call' \in [Clients -> Call]
  BY <1>3 DEF Restart
<1>5. documentQueue' \in [Documents -> Seq(Clients)] /\ semanticQueue' \in Seq(Clients)
  BY DEF Restart
<1>6. restarts' \in 0..MaxRestarts /\ UNCHANGED <<records, cleanup, puts>>
  BY <1>1, Constants DEF Restart, TypeOK
<1>7. TypeOK'
  BY <1>1, <1>4, <1>5, <1>6 DEF TypeOK, records
<1>8. DataInv' /\ Progress
  BY <1>1, <1>6, RecordsFrame
<1>9. ASSUME NEW c \in Clients PROVE CallInv(c)'
  <2>1. CASE call'[c] = call[c]
    BY <2>1, <1>1, <1>7, <1>8, CallStable
  <2>2. CASE call'[c] = NoCall("lost")
    BY <2>2, BlankCall DEF NoCall
  <2> QED BY <1>3, <2>1, <2>2
<1>10. QueueInv'
  <2>1. {"idle", "head", "send"} \cap (Ready \cup {"document"}) = {}
    BY DEF Ready, Checked, AfterReads, Replacing, AboutEdge
  <2>2. \A c \in Clients : call'[c].pc \notin Ready \cup {"document"}
    BY <1>2, <1>3, <2>1
  <2> QED BY <2>2 DEF QueueInv
<1> QED BY <1>7, <1>8, <1>9, <1>10 DEF IndInv
-----------------------------------------------------------------------------
(***************************************************************************)
(* Retention.                                                              *)
(***************************************************************************)
\* Clients that do not move
LEMMA RetainFrame ==
    ASSUME IndInv, TypeOK', DataInv', Progress, UNCHANGED <<call, queues>>
    PROVE  IndInv'
<1>1. \A c \in Clients : CallInv(c)'
  BY CallStable DEF IndInv
<1>2. \A c \in Clients : Doc(c)' = Doc(c) /\ Target(c)' = Target(c)
  BY DEF Doc, Target
<1>3. QueueInv'
  BY <1>2 DEF IndInv, QueueInv, queues
<1> QED BY <1>1, <1>3 DEF IndInv

\* What every phase of retention changes at most
LEMMA RetainStart ==
    ASSUME IndInv, NEW i \in Identities,
           NEW phase \in {"none", "tombstoned", "admission-references", "expiry", "complete", "audited"},
           Retain(i, phase)
    PROVE  /\ TypeOK /\ UNCHANGED <<call, queues, puts, restarts>>
           /\ cleanup'[i] = phase
           /\ \A j \in Identities \ {i} : cleanup'[j] = cleanup[j]
           /\ cleanup' \in [Identities -> {"none", "tombstoned", "admission-references", "expiry",
                                           "complete", "audited"}]
BY DEF IndInv, TypeOK, Retain

\* The ledger is in its range, so that it can be compared.
LEMMA LedgerRange ==
    ASSUME TypeOK, NEW d \in Documents
    PROVE  /\ history[d] \in Ledger
           /\ history[d].highest \in 0..MaxVersion /\ history[d].retired \in 0..MaxVersion
           /\ history[d].highest \in Nat /\ history[d].retired \in Nat
BY Constants DEF TypeOK, Ledger

LEMMA ExpireStep ==
    ASSUME IndInv, NEW i \in Identities, Expire(i)
    PROVE  IndInv'
<1>1. /\ TypeOK /\ UNCHANGED <<call, queues, puts, restarts>>
      /\ cleanup'[i] = "tombstoned"
      /\ \A j \in Identities \ {i} : cleanup'[j] = cleanup[j]
      /\ cleanup' \in [Identities -> {"none", "tombstoned", "admission-references", "expiry",
                                      "complete", "audited"}]
  BY RetainStart DEF Expire
<1>2. /\ Live(i) /\ cleanup[i] = "none"
      /\ manifest' = manifest /\ history' = history /\ committed' = committed
  BY DEF Expire
<1>3. /\ marker' \in [Identities -> Identities \cup {Absent, Expired}]
      /\ marker'[i] = Expired /\ \A j \in Identities \ {i} : marker'[j] = marker[j]
  BY <1>1 DEF Expire, TypeOK
<1>4. /\ subjectLive' \in [Subjects -> Identities \cup {Absent}]
      /\ \A s \in Subjects : subjectLive'[s] = subjectLive[s]
             \/ (subjectLive'[s] = Absent /\ subjectLive[s] = i)
  BY <1>1 DEF Expire, TypeOK
<1>5. TypeOK'
  BY <1>1, <1>2, <1>3, <1>4 DEF TypeOK, queues
<1>6. \A j \in Identities : Live(j)' <=> Live(j) /\ j # i
  BY <1>2, <1>3, Constants DEF Live
<1>7. DataInv /\ Expired # Absent
  BY Constants DEF IndInv
<1>8. StoredInv' /\ LedgerInv'
  <2>1. \A j \in Identities : marker'[j] = Absent => marker[j] = Absent
    BY <1>3, <1>7
  <2> QED BY <1>2, <1>4, <1>7, <2>1 DEF DataInv, StoredInv, LedgerInv, Highest
<1>9. CleanupInv'
  <2>1. i[2] <= Highest(i)
    BY <1>2, <1>7 DEF DataInv, StoredInv, Live
  <2> QED BY <1>1, <1>2, <1>3, <1>7, <2>1 DEF DataInv, CleanupInv, Highest
<1>10. TargetInv' /\ OneLiveVersion' /\ OneReplacement'
  <2>1. \A j \in Identities : manifest[j] # Absent =>
            manifest[j] \in Payloads /\ TargetOf[manifest[j]] \in Identities \cup {Absent}
    BY <1>1, Constants DEF TypeOK
  <2>2. TargetInv'
    BY <1>2, <1>6, <1>7, <2>1 DEF DataInv, TargetInv, Highest
  <2>3. OneLiveVersion' /\ OneReplacement'
    BY <1>2, <1>6, <1>7 DEF DataInv, OneLiveVersion, OneReplacement
  <2> QED BY <2>2, <2>3
<1>11. SubjectResolves'
  <2>1. ASSUME NEW j \in Identities, Live(j)', SubjectOf[manifest'[j]] # Absent
        PROVE  subjectLive'[SubjectOf[manifest'[j]]] = j
    <3>1. Live(j) /\ j # i /\ manifest'[j] = manifest[j] /\ manifest[j] \in Payloads
      BY <2>1, <1>1, <1>2, <1>6 DEF Live, TypeOK
    <3>2. SubjectOf[manifest[j]] \in Subjects /\ subjectLive[SubjectOf[manifest[j]]] = j
      BY <2>1, <3>1, <1>7, Constants DEF DataInv, SubjectResolves
    <3> QED BY <3>1, <3>2, <1>4
  <2> QED BY <2>1 DEF SubjectResolves
<1>12. ForgottenIsRetired'
  BY <1>2, <1>3, <1>7 DEF DataInv, ForgottenIsRetired
<1>13. Progress
  <2>1. \A d \in Documents : history[d].highest <= history'[d].highest
    BY <1>1, <1>2, LedgerRange
  <2>2. \A j \in Identities :
            cleanup[j] \in {"expiry", "complete"} => cleanup'[j] \in {"expiry", "complete"}
    BY <1>1, <1>2
  <2> QED BY <1>2, <1>6, <2>1, <2>2 DEF Progress
<1>14. DataInv'
  BY <1>8, <1>9, <1>10, <1>11, <1>12 DEF DataInv
<1> QED BY <1>1, <1>5, <1>13, <1>14, RetainFrame

\* A phase that is only noted
LEMMA NotedFrame ==
    ASSUME IndInv, UNCHANGED records, CleanupInv'
    PROVE  DataInv'
<1>1. /\ manifest' = manifest /\ marker' = marker /\ history' = history
      /\ subjectLive' = subjectLive /\ committed' = committed
  BY DEF records
<1>2. /\ \A i : Live(i)' <=> Live(i)
      /\ \A i : Highest(i)' = Highest(i)
  BY <1>1 DEF Live, Highest
<1>3. StoredInv' /\ LedgerInv'
  BY <1>1, <1>2 DEF IndInv, DataInv, StoredInv, LedgerInv, Highest
<1>4. TargetInv'
  BY <1>1, <1>2 DEF IndInv, DataInv, TargetInv, Live, Highest
<1>5. OneLiveVersion' /\ SubjectResolves' /\ OneReplacement' /\ ForgottenIsRetired'
  BY <1>1, <1>2 DEF IndInv, DataInv, OneLiveVersion, SubjectResolves, OneReplacement,
                    ForgottenIsRetired, Live
<1> QED BY <1>3, <1>4, <1>5 DEF DataInv

LEMMA ExpireSupersededStep ==
    ASSUME IndInv, NEW i \in Identities, ExpireSuperseded(i)
    PROVE  IndInv'
<1>1. /\ TypeOK /\ UNCHANGED <<call, queues, puts, restarts>>
      /\ cleanup'[i] = "tombstoned"
      /\ \A j \in Identities \ {i} : cleanup'[j] = cleanup[j]
      /\ cleanup' \in [Identities -> {"none", "tombstoned", "admission-references", "expiry",
                                      "complete", "audited"}]
  BY RetainStart DEF ExpireSuperseded
<1>2. manifest[i] # Absent /\ marker[i] # Absent /\ cleanup[i] = "none" /\ UNCHANGED records
  BY DEF ExpireSuperseded
<1>3. /\ manifest' = manifest /\ marker' = marker /\ history' = history
      /\ subjectLive' = subjectLive /\ committed' = committed
  BY <1>2 DEF records
<1>4. TypeOK'
  BY <1>1, <1>3 DEF TypeOK, queues
<1>5. CleanupInv'
  BY <1>1, <1>2, <1>3 DEF IndInv, DataInv, StoredInv, CleanupInv, Highest
<1>6. Progress
  <2>1. \A d \in Documents : history[d].highest <= history'[d].highest
    BY <1>1, <1>3, LedgerRange
  <2>2. \A j \in Identities :
            cleanup[j] \in {"expiry", "complete"} => cleanup'[j] \in {"expiry", "complete"}
    BY <1>1, <1>2
  <2> QED BY <1>3, <2>1, <2>2 DEF Progress, Live
<1> QED BY <1>1, <1>2, <1>4, <1>5, <1>6, NotedFrame, RetainFrame

LEMMA PassAuditStep ==
    ASSUME IndInv, NEW i \in Identities, PassAudit(i)
    PROVE  IndInv'
<1>1. /\ TypeOK /\ UNCHANGED <<call, queues, puts, restarts>>
      /\ cleanup'[i] = "audited"
      /\ \A j \in Identities \ {i} : cleanup'[j] = cleanup[j]
      /\ cleanup' \in [Identities -> {"none", "tombstoned", "admission-references", "expiry",
                                      "complete", "audited"}]
  BY RetainStart DEF PassAudit
<1>2. cleanup[i] = "complete" /\ (\A c \in Clients : call[c].pc = "idle") /\ UNCHANGED records
  BY DEF PassAudit, At
<1>3. /\ manifest' = manifest /\ marker' = marker /\ history' = history
      /\ subjectLive' = subjectLive /\ committed' = committed
  BY <1>2 DEF records
<1>4. TypeOK'
  BY <1>1, <1>3 DEF TypeOK, queues
<1>5. CleanupInv'
  BY <1>1, <1>2, <1>3 DEF IndInv, DataInv, CleanupInv, Highest
<1>6. ASSUME NEW c \in Clients PROVE CallInv(c)'
  <2>1. call' = call /\ call[c].pc = "idle" /\ Blank(c)
    BY <1>1, <1>2 DEF IndInv, CallInv, Asking
  <2> QED BY <2>1, BlankCall DEF Blank
<1>7. QueueInv'
  <2>1. "idle" \notin Ready \cup {"document"}
    BY DEF Ready, Checked, AfterReads, Replacing, AboutEdge
  <2> QED BY <1>1, <1>2, <2>1 DEF QueueInv
<1> QED BY <1>2, <1>4, <1>5, <1>6, <1>7, NotedFrame DEF IndInv

LEMMA RemoveDocumentStep ==
    ASSUME IndInv, NEW i \in Identities, RemoveDocument(i)
    PROVE  IndInv'
<1>1. /\ TypeOK /\ UNCHANGED <<call, queues, puts, restarts>>
      /\ cleanup'[i] = "admission-references"
      /\ \A j \in Identities \ {i} : cleanup'[j] = cleanup[j]
      /\ cleanup' \in [Identities -> {"none", "tombstoned", "admission-references", "expiry",
                                      "complete", "audited"}]
  BY RetainStart DEF RemoveDocument
<1>2. /\ cleanup[i] = "tombstoned"
      /\ marker' = marker /\ history' = history /\ subjectLive' = subjectLive /\ committed' = committed
  BY DEF RemoveDocument
<1>3. /\ manifest' \in [Identities -> Payloads \cup {Absent}]
      /\ manifest'[i] = Absent /\ \A j \in Identities \ {i} : manifest'[j] = manifest[j]
  BY <1>1 DEF RemoveDocument, TypeOK
<1>4. TypeOK'
  BY <1>1, <1>2, <1>3 DEF TypeOK, queues
<1>5. DataInv /\ marker[i] # Absent
  BY <1>2 DEF IndInv, DataInv, CleanupInv
<1>6. \A j \in Identities : Live(j)' <=> Live(j)
  BY <1>2, <1>3, <1>5 DEF Live
<1>7. \A j \in Identities : manifest'[j] # Absent => manifest[j] # Absent /\ manifest'[j] = manifest[j]
  BY <1>3
<1>8. StoredInv' /\ LedgerInv'
  BY <1>2, <1>5, <1>7 DEF DataInv, StoredInv, LedgerInv, Highest
<1>9. CleanupInv'
  BY <1>1, <1>2, <1>3, <1>5 DEF DataInv, CleanupInv, Highest
<1>10. TargetInv' /\ OneLiveVersion' /\ OneReplacement'
  <2>1. \A j \in Identities : manifest[j] # Absent => TargetOf[manifest[j]] \in Identities \cup {Absent}
    BY <1>1, Constants DEF TypeOK
  <2>2. TargetInv'
    BY <1>2, <1>5, <1>6, <1>7, <2>1 DEF DataInv, TargetInv, Highest
  <2>3. OneLiveVersion'
    BY <1>2, <1>5, <1>6 DEF DataInv, OneLiveVersion
  <2>4. OneReplacement'
    BY <1>5, <1>7 DEF DataInv, OneReplacement
  <2> QED BY <2>2, <2>3, <2>4
<1>11. SubjectResolves'
  <2>1. \A j \in Identities : Live(j)' => Live(j) /\ manifest'[j] = manifest[j]
    BY <1>6, <1>7 DEF Live
  <2> QED BY <1>2, <1>5, <2>1 DEF DataInv, SubjectResolves
<1>12. ForgottenIsRetired'
  <2>1. \A j \in Identities : marker'[j] = Absent => j # i
    BY <1>2, <1>5
  <2> QED BY <1>2, <1>3, <1>5, <2>1 DEF DataInv, ForgottenIsRetired
<1>13. Progress
  <2>1. \A d \in Documents : history[d].highest <= history'[d].highest
    BY <1>1, <1>2, LedgerRange
  <2>2. \A j \in Identities :
            cleanup[j] \in {"expiry", "complete"} => cleanup'[j] \in {"expiry", "complete"}
    BY <1>1, <1>2
  <2> QED BY <1>2, <1>6, <2>1, <2>2 DEF Progress
<1>14. DataInv'
  BY <1>8, <1>9, <1>10, <1>11, <1>12 DEF DataInv
<1> QED BY <1>1, <1>4, <1>13, <1>14, RetainFrame

LEMMA RemoveAdmissionStep ==
    ASSUME IndInv, NEW i \in Identities, RemoveAdmission(i)
    PROVE  IndInv'
<1>1. /\ TypeOK /\ UNCHANGED <<call, queues, puts, restarts>>
      /\ cleanup'[i] = "expiry"
      /\ \A j \in Identities \ {i} : cleanup'[j] = cleanup[j]
      /\ cleanup' \in [Identities -> {"none", "tombstoned", "admission-references", "expiry",
                                      "complete", "audited"}]
  BY RetainStart DEF RemoveAdmission
<1>2. /\ cleanup[i] = "admission-references"
      /\ manifest' = manifest /\ marker' = marker /\ history' = history /\ subjectLive' = subjectLive
  BY DEF RemoveAdmission
<1>3. \A r \in Requests :
          committed'[r] = IF <<DocumentOf[r[1]], r[2]>> = i THEN NoCommit ELSE committed[r]
  BY DEF RemoveAdmission
<1>4. committed' \in [Requests -> [done: BOOLEAN, edges: SUBSET (Identities \X Identities)]]
  <2>1. NoCommit \in [done: BOOLEAN, edges: SUBSET (Identities \X Identities)]
    BY DEF NoCommit
  <2>2. committed \in [Requests -> [done: BOOLEAN, edges: SUBSET (Identities \X Identities)]]
    BY <1>1 DEF TypeOK
  <2> QED BY <2>1, <2>2 DEF RemoveAdmission
<1>5. TypeOK'
  BY <1>1, <1>2, <1>4 DEF TypeOK, queues
<1>6. DataInv /\ manifest[i] = Absent
  BY <1>2 DEF IndInv, DataInv, CleanupInv
<1>7. \A j \in Identities : Live(j)' <=> Live(j)
  BY <1>2 DEF Live
\* A stored version keeps the marker of its request.
<1>8. StoredInv'
  <2>1. ASSUME NEW j \in Identities, manifest[j] # Absent, marker[j] = Absent
        PROVE  committed'[<<manifest[j], j[2]>>].done
    <3>1. /\ j # i /\ DocumentOf[manifest[j]] = j[1] /\ committed[<<manifest[j], j[2]>>].done
          /\ manifest[j] \in Payloads
      BY <2>1, <1>1, <1>6 DEF DataInv, StoredInv, TypeOK
    <3>2. <<manifest[j], j[2]>> \in Requests
      BY <3>1 DEF Requests, Identities
    <3>3. <<DocumentOf[manifest[j]], j[2]>> = j
      BY <3>1 DEF Identities
    <3> QED BY <3>1, <3>2, <3>3, <1>3
  <2> QED BY <2>1, <1>2, <1>6 DEF DataInv, StoredInv, Highest
<1>9. LedgerInv' /\ CleanupInv'
  BY <1>1, <1>2, <1>6 DEF DataInv, LedgerInv, CleanupInv, Highest
<1>10. TargetInv' /\ OneLiveVersion' /\ OneReplacement' /\ SubjectResolves' /\ ForgottenIsRetired'
  BY <1>2, <1>6 DEF DataInv, TargetInv, OneLiveVersion, OneReplacement, SubjectResolves,
                    ForgottenIsRetired, Highest, Live
<1>11. Progress
  <2>1. \A d \in Documents : history[d].highest <= history'[d].highest
    BY <1>1, <1>2, LedgerRange
  <2>2. \A j \in Identities :
            cleanup[j] \in {"expiry", "complete"} => cleanup'[j] \in {"expiry", "complete"}
    BY <1>1, <1>2
  <2>3. \A r \in Requests : committed[r].done =>
            committed'[r].done \/ cleanup'[<<DocumentOf[r[1]], r[2]>>] \in {"expiry", "complete"}
    BY <1>1, <1>3
  <2> QED BY <1>7, <2>1, <2>2, <2>3 DEF Progress
<1>12. DataInv'
  BY <1>8, <1>9, <1>10 DEF DataInv
<1> QED BY <1>1, <1>5, <1>11, <1>12, RetainFrame

LEMMA CompleteCleanupStep ==
    ASSUME IndInv, NEW i \in Identities, CompleteCleanup(i)
    PROVE  IndInv'
<1>1. /\ TypeOK /\ UNCHANGED <<call, queues, puts, restarts>>
      /\ cleanup'[i] = "complete"
      /\ \A j \in Identities \ {i} : cleanup'[j] = cleanup[j]
      /\ cleanup' \in [Identities -> {"none", "tombstoned", "admission-references", "expiry",
                                      "complete", "audited"}]
  BY RetainStart DEF CompleteCleanup
<1>2. /\ cleanup[i] = "expiry"
      /\ manifest' = manifest /\ marker' = marker /\ subjectLive' = subjectLive /\ committed' = committed
      /\ history' = [history EXCEPT ![i[1]] = RetiredHistory(i)]
  BY DEF CompleteCleanup
<1>3. DataInv /\ manifest[i] = Absent /\ marker[i] # Absent /\ i[2] <= Highest(i)
  BY <1>2 DEF IndInv, DataInv, CleanupInv
<1> DEFINE d == i[1]
           h == history[d]
           after == RetiredHistory(i)
<1>4. /\ d \in Documents /\ i[2] \in 1..MaxVersion
      /\ h.highest \in 0..MaxVersion /\ h.retired \in 0..MaxVersion /\ h.retired <= h.highest
  BY <1>1, <1>3, Constants, LedgerRange DEF DataInv, LedgerInv
<1>5. Latest(d) \in 0..MaxVersion /\ Latest(d) <= h.highest
  <2>1. CASE Latest(d) = 0
    BY <2>1, <1>4, Constants
  <2>2. CASE Latest(d) # 0
    <3>1. Latest(d) \in Stored(d) /\ Latest(d) \in 0..MaxVersion
      BY <2>2, <1>1, <1>4, LatestFacts
    <3>2. <<d, Latest(d)>> \in Identities /\ manifest[<<d, Latest(d)>>] # Absent
      BY <3>1, <1>4 DEF Stored, Identities, Versions
    <3> QED BY <3>1, <3>2, <1>3 DEF DataInv, StoredInv, Highest
  <2> QED BY <2>1, <2>2
\* The ledger ends where it was: nothing above it was ever admitted.
<1>6. /\ after.highest = h.highest
      /\ after.retired \in 0..MaxVersion /\ after.retired <= h.highest
      /\ i[2] <= after.retired /\ h.retired <= after.retired
      /\ after = [highest |-> h.highest, retired |-> after.retired]
  <2> DEFINE latest == IF Latest(d) = 0 THEN i[2] ELSE Latest(d)
             highest == Bigger(h.highest, Bigger(latest, i[2]))
             retired == Bigger(h.retired, Bigger(i[2], highest - 1))
  <2>1. highest = h.highest
    BY <1>3, <1>4, <1>5, Constants DEF Bigger, Highest
  <2>2. /\ retired \in 0..MaxVersion /\ retired <= h.highest
        /\ i[2] <= retired /\ h.retired <= retired
    <3> HIDE DEF highest
    <3> QED BY <1>3, <1>4, <2>1, Constants DEF Bigger, Highest
  <2>3. after = [highest |-> highest, retired |-> retired]
    BY DEF RetiredHistory
  <2> HIDE DEF highest, retired, after
  <2> QED BY <2>1, <2>2, <2>3
<1>7. /\ history' \in [Documents -> Ledger]
      /\ \A e \in Documents : /\ history'[e].highest = history[e].highest
                              /\ history'[e].retired <= history'[e].highest
                              /\ history[e].retired <= history'[e].retired
      /\ i[2] <= history'[d].retired
  <2>1. after \in Ledger
    <3> HIDE DEF after
    <3> QED BY <1>4, <1>6 DEF Ledger
  <2>2. history \in [Documents -> Ledger]
    BY <1>1 DEF TypeOK
  <2>3. history'[d] = after /\ \A e \in Documents \ {d} : history'[e] = history[e]
    <3> HIDE DEF after
    <3> QED BY <1>2, <1>4, <2>2 DEF after
  <2>4. \A e \in Documents : history[e].highest \in Nat /\ history[e].retired \in Nat
              /\ history[e].retired <= history[e].highest
    BY <1>1, <1>3, LedgerRange DEF DataInv, LedgerInv
  <2>5. history' \in [Documents -> Ledger]
    BY <1>2, <1>4, <2>1, <2>2
  <2>6. ASSUME NEW e \in Documents
        PROVE  /\ history'[e].highest = history[e].highest
               /\ history'[e].retired <= history'[e].highest
               /\ history[e].retired <= history'[e].retired
    <3> HIDE DEF after
    <3>1. CASE e = d
      BY <3>1, <1>4, <1>6, <2>3
    <3>2. CASE e # d
      BY <3>2, <2>3, <2>4
    <3> QED BY <3>1, <3>2
  <2>7. i[2] <= history'[d].retired
    <3> HIDE DEF after
    <3> QED BY <1>6, <2>3
  <2> QED BY <2>5, <2>6, <2>7
<1>8. TypeOK'
  BY <1>1, <1>2, <1>7 DEF TypeOK, queues
<1>9. /\ \A j \in Identities : Live(j)' <=> Live(j)
      /\ \A j \in Identities : Highest(j)' = Highest(j)
  BY <1>2, <1>7, Constants DEF Live, Highest
<1>10. StoredInv' /\ TargetInv'
  <2>1. \A j \in Identities : manifest[j] # Absent => TargetOf[manifest[j]] \in Identities \cup {Absent}
    BY <1>1, Constants DEF TypeOK
  <2> QED BY <1>2, <1>3, <1>9, <2>1 DEF DataInv, StoredInv, TargetInv
<1>11. LedgerInv'
  <2>1. \A s \in Subjects : subjectLive[s] \in Identities \cup {Absent}
    BY <1>1 DEF TypeOK
  <2> QED BY <1>2, <1>3, <1>7, <1>9, <2>1 DEF DataInv, LedgerInv
<1>12. CleanupInv'
  <2>1. ASSUME NEW j \in Identities, j[2] <= history[j[1]].retired
        PROVE  j[2] <= history'[j[1]].retired
    <3>1. j[1] \in Documents /\ j[2] \in 1..MaxVersion
      BY Constants
    <3>2. history[j[1]].retired \in Nat /\ history'[j[1]].retired \in Nat
          /\ history[j[1]].retired <= history'[j[1]].retired
      BY <3>1, <1>1, <1>7, <1>8, LedgerRange, Constants DEF Ledger
    <3> QED BY <3>1, <3>2, <2>1
  <2>2. ASSUME NEW j \in Identities, cleanup'[j] # "none"
        PROVE  /\ marker'[j] # Absent /\ j[2] <= Highest(j)'
               /\ cleanup'[j] # "tombstoned" => manifest'[j] = Absent
               /\ cleanup'[j] \in {"complete", "audited"} => j[2] <= history'[j[1]].retired
    <3>1. CASE j = i
      BY <3>1, <1>2, <1>3, <1>7, <1>9
    <3>2. CASE j # i
      BY <3>2, <2>1, <2>2, <1>1, <1>2, <1>3, <1>9 DEF DataInv, CleanupInv
    <3> QED BY <3>1, <3>2
  <2> QED BY <2>2 DEF CleanupInv
<1>13. OneLiveVersion' /\ OneReplacement' /\ SubjectResolves'
  <2>1. OneLiveVersion'
    BY <1>3, <1>9 DEF DataInv, OneLiveVersion, Highest
  <2>2. OneReplacement' /\ SubjectResolves'
    BY <1>2, <1>3, <1>9 DEF DataInv, OneReplacement, SubjectResolves
  <2> QED BY <2>1, <2>2
<1>14. ForgottenIsRetired'
  <2>1. ASSUME NEW j \in Identities, j[2] <= history'[j[1]].highest, manifest'[j] = Absent, marker'[j] = Absent
        PROVE  j[2] <= history'[j[1]].retired
    <3>1. j[1] \in Documents /\ j[2] \in 1..MaxVersion
      BY Constants
    <3>2. history[j[1]].retired \in Nat /\ history'[j[1]].retired \in Nat
          /\ history[j[1]].retired <= history'[j[1]].retired
      BY <3>1, <1>1, <1>7, <1>8, LedgerRange, Constants DEF Ledger
    <3>3. j[2] <= history[j[1]].retired
      BY <2>1, <3>1, <1>2, <1>3, <1>7 DEF DataInv, ForgottenIsRetired
    <3> QED BY <3>1, <3>2, <3>3
  <2> QED BY <2>1 DEF ForgottenIsRetired
<1>15. Progress
  <2>1. \A e \in Documents : history[e].highest <= history'[e].highest
    BY <1>1, <1>7, LedgerRange
  <2>2. \A j \in Identities :
            cleanup[j] \in {"expiry", "complete"} => cleanup'[j] \in {"expiry", "complete"}
    BY <1>1, <1>2
  <2> QED BY <1>2, <1>9, <2>1, <2>2 DEF Progress
<1>16. DataInv'
  BY <1>10, <1>11, <1>12, <1>13, <1>14 DEF DataInv
<1> QED BY <1>1, <1>8, <1>15, <1>16, RetainFrame

LEMMA ReclaimStep ==
    ASSUME IndInv, NEW i \in Identities, Reclaim(i)
    PROVE  IndInv'
<1>1. /\ TypeOK /\ UNCHANGED <<call, queues, puts, restarts>>
      /\ cleanup'[i] = "none"
      /\ \A j \in Identities \ {i} : cleanup'[j] = cleanup[j]
      /\ cleanup' \in [Identities -> {"none", "tombstoned", "admission-references", "expiry",
                                      "complete", "audited"}]
  BY RetainStart DEF Reclaim
<1>2. /\ cleanup[i] = "audited"
      /\ manifest' = manifest /\ history' = history /\ subjectLive' = subjectLive /\ committed' = committed
  BY DEF Reclaim
<1>3. /\ marker' \in [Identities -> Identities \cup {Absent, Expired}]
      /\ marker'[i] = Absent /\ \A j \in Identities \ {i} : marker'[j] = marker[j]
  BY <1>1 DEF Reclaim, TypeOK
<1>4. TypeOK'
  BY <1>1, <1>2, <1>3 DEF TypeOK, queues
<1>5. DataInv /\ manifest[i] = Absent /\ i[2] <= history[i[1]].retired
  BY <1>2 DEF IndInv, DataInv, CleanupInv
<1>6. \A j \in Identities : Live(j)' <=> Live(j)
  BY <1>2, <1>3, <1>5 DEF Live
<1>7. StoredInv' /\ LedgerInv'
  <2>1. \A j \in Identities : manifest[j] # Absent => marker'[j] = marker[j]
    BY <1>3, <1>5
  <2> QED BY <1>2, <1>5, <2>1 DEF DataInv, StoredInv, LedgerInv, Highest
<1>8. CleanupInv'
  BY <1>1, <1>2, <1>3, <1>5 DEF DataInv, CleanupInv, Highest
<1>9. TargetInv' /\ OneLiveVersion' /\ OneReplacement' /\ SubjectResolves'
  <2>1. \A j \in Identities : manifest[j] # Absent => TargetOf[manifest[j]] \in Identities \cup {Absent}
    BY <1>1, Constants DEF TypeOK
  <2>2. TargetInv'
    BY <1>2, <1>5, <1>6, <2>1 DEF DataInv, TargetInv, Highest
  <2>3. OneLiveVersion' /\ OneReplacement' /\ SubjectResolves'
    BY <1>2, <1>5, <1>6 DEF DataInv, OneLiveVersion, OneReplacement, SubjectResolves
  <2> QED BY <2>2, <2>3
<1>10. ForgottenIsRetired'
  BY <1>2, <1>3, <1>5 DEF DataInv, ForgottenIsRetired
<1>11. Progress
  <2>1. \A d \in Documents : history[d].highest <= history'[d].highest
    BY <1>1, <1>2, LedgerRange
  <2>2. \A j \in Identities :
            cleanup[j] \in {"expiry", "complete"} => cleanup'[j] \in {"expiry", "complete"}
    BY <1>1, <1>2
  <2> QED BY <1>2, <1>6, <2>1, <2>2 DEF Progress
<1>12. DataInv'
  BY <1>7, <1>8, <1>9, <1>10 DEF DataInv
<1> QED BY <1>1, <1>4, <1>11, <1>12, RetainFrame
-----------------------------------------------------------------------------
(***************************************************************************)
(* The canonical transaction.                                              *)
(***************************************************************************)
LEMMA CommitStart ==
    ASSUME IndInv, NEW c \in Clients, Commit(c)
    PROVE  /\ TypeOK /\ DataInv /\ CallInv(c) /\ call[c] \in Call /\ call[c].pc = "commit"
           /\ call[c].pc \in Ready /\ call[c].pc \in AboutEdge
           /\ call[c].payload \in Payloads /\ Doc(c) \in Documents /\ call[c].version \in 1..MaxVersion
           /\ Self(c) \in Identities /\ Request(c) \in Requests
           /\ Subject(c) \in Subjects \cup {Absent} /\ Target(c) \in Identities \cup {Absent}
           /\ ~committed[Request(c)].done /\ ~Superseded(c) /\ ~Changed(c)
           /\ Edges(c) \subseteq Identities \X Identities
           /\ ~Replayed(c) /\ Followed(c) /\ PriorSettled(c)
<1>1. call[c].pc = "commit" /\ call[c].pc \in Ready /\ call[c].pc \in AboutEdge
      /\ call[c].pc \in Checked /\ call[c].pc \in AfterReads
  BY PcSets DEF Commit, Fresh, At, AboutEdge, Checked, AfterReads
<1>2. /\ TypeOK /\ DataInv /\ CallInv(c) /\ call[c] \in Call
      /\ Replayed(c) \/ Followed(c)
      /\ PriorSettled(c)
  BY <1>1, ReadStart DEF IndInv
<1>3. /\ call[c].payload \in Payloads /\ Doc(c) \in Documents /\ call[c].version \in 1..MaxVersion
      /\ Self(c) \in Identities /\ Request(c) \in Requests
      /\ Subject(c) \in Subjects \cup {Absent} /\ Target(c) \in Identities \cup {Absent}
  BY <1>1, <1>2, CallNames
<1>4. Edges(c) \subseteq Identities \X Identities
  BY <1>2, CallFields DEF Edges
<1>5. ~committed[Request(c)].done /\ ~Superseded(c) /\ ~Changed(c)
  BY DEF Commit, Fresh
<1>6. ~Replayed(c)
  BY <1>2, <1>3, <1>5 DEF Replayed, Superseded, DataInv, CleanupInv
<1> QED BY <1>1, <1>2, <1>3, <1>4, <1>5, <1>6

\* What passes the checks is the successor of the highest version admitted.
LEMMA CommitsSuccessor ==
    ASSUME IndInv, NEW c \in Clients, Commit(c)
    PROVE  /\ call[c].version = history[Doc(c)].highest + 1
           /\ manifest[Self(c)] = Absent
<1>1. /\ TypeOK /\ DataInv /\ CallInv(c) /\ call[c].pc = "commit"
      /\ call[c].payload \in Payloads /\ Doc(c) \in Documents /\ call[c].version \in 1..MaxVersion
      /\ Self(c) \in Identities
      /\ ~committed[Request(c)].done /\ ~Superseded(c) /\ ~Changed(c) /\ Followed(c)
  BY CommitStart
<1> DEFINE v == call[c].version
           h == history[Doc(c)]
<1>2. h = call[c].history /\ marker[Self(c)] = Absent
  BY <1>1 DEF Changed, Superseded
<1>3. h.highest \in Nat /\ h.retired \in Nat
  BY <1>1, LedgerRange
<1>4. v > h.retired /\ (h.highest = 0 \/ v = h.highest \/ v = h.highest + 1)
  BY <1>1, <1>2 DEF Followed
<1>5. v <= h.highest + 1 /\ v \in Nat /\ v >= 1
  BY <1>1, Constants DEF CallInv, Choosing
<1>6. Self(c)[1] = Doc(c) /\ Self(c)[2] = v
  BY DEF Self
<1>7. ASSUME v = h.highest PROVE FALSE
  <2>1. manifest[Self(c)] # Absent
    <3>1. Self(c)[2] <= history[Self(c)[1]].highest /\ ~(Self(c)[2] <= history[Self(c)[1]].retired)
      BY <1>3, <1>4, <1>5, <1>6, <1>7
    <3> QED BY <1>1, <1>2, <3>1 DEF DataInv, ForgottenIsRetired
  <2>2. manifest[Self(c)] = call[c].payload
    BY <2>1 DEF Commit
  <2>3. committed[<<call[c].payload, v>>].done
    BY <1>1, <1>2, <1>6, <2>1, <2>2 DEF DataInv, StoredInv
  <2> QED BY <1>1, <2>3 DEF Request
<1>8. v = h.highest + 1
  BY <1>3, <1>4, <1>5, <1>7
<1>9. manifest[Self(c)] = Absent
  <2>1. ~(Self(c)[2] <= history[Self(c)[1]].highest)
    BY <1>3, <1>5, <1>6, <1>8
  <2> QED BY <1>1, <2>1 DEF DataInv, StoredInv, Highest
<1> QED BY <1>8, <1>9

\* The markers after the commit: none is lost, and every edge has one.
LEMMA CommitsMarkers ==
    ASSUME IndInv, NEW c \in Clients, Commit(c)
    PROVE  /\ marker' \in [Identities -> Identities \cup {Absent, Expired}]
           /\ \A j \in Identities : marker'[j] = Absent => marker[j] = Absent
           /\ \A e \in Edges(c) : marker'[e[1]] # Absent /\ marker[e[1]] = Absent
<1>1. /\ TypeOK /\ ~Superseded(c) /\ Edges(c) \subseteq Identities \X Identities
  BY CommitStart
<1>2. \A j \in Identities : marker'[j] =
          IF \E e \in Edges(c) : e[1] = j THEN (CHOOSE e \in Edges(c) : e[1] = j)[2] ELSE marker[j]
  BY DEF Commit
<1>3. ASSUME NEW j \in Identities, \E e \in Edges(c) : e[1] = j
      PROVE  marker'[j] \in Identities /\ marker'[j] # Absent
  <2>1. (CHOOSE e \in Edges(c) : e[1] = j) \in Edges(c)
    BY <1>3
  <2>2. \A e \in Identities \X Identities : e[2] \in Identities
    OBVIOUS
  <2> QED BY <1>1, <1>2, <1>3, <2>1, <2>2, Constants
<1>4. ASSUME NEW j \in Identities, ~ \E e \in Edges(c) : e[1] = j
      PROVE  marker'[j] = marker[j] /\ marker[j] \in Identities \cup {Absent, Expired}
  BY <1>1, <1>2, <1>4 DEF TypeOK
<1>5. \A j \in Identities : marker'[j] \in Identities \cup {Absent, Expired}
  BY <1>3, <1>4
<1>6. marker' \in [Identities -> Identities \cup {Absent, Expired}]
  BY <1>5 DEF Commit
<1>7. \A e \in Edges(c) : e[1] \in Identities /\ marker[e[1]] = Absent
  BY <1>1 DEF Superseded
<1> QED BY <1>3, <1>4, <1>6, <1>7

\* Only the version that is committed becomes live, and no other version of its
\* document, nor the one it replaces, is live after it.
LEMMA CommitsLive ==
    ASSUME IndInv, NEW c \in Clients, Commit(c)
    PROVE  /\ \A j \in Identities \ {Self(c)} :
                  manifest'[j] = manifest[j] /\ (Live(j)' => Live(j) /\ j[1] # Doc(c))
           /\ manifest' \in [Identities -> Payloads \cup {Absent}]
           /\ manifest'[Self(c)] = call[c].payload
           /\ Target(c) # Absent => Live(Target(c)) /\ marker'[Target(c)] # Absent
<1>1. /\ TypeOK /\ DataInv /\ CallInv(c) /\ call[c].pc = "commit" /\ call[c].pc \in AboutEdge
      /\ call[c].payload \in Payloads /\ Doc(c) \in Documents /\ call[c].version \in 1..MaxVersion
      /\ Self(c) \in Identities /\ Target(c) \in Identities \cup {Absent}
      /\ ~Changed(c) /\ ~Replayed(c) /\ PriorSettled(c)
  BY CommitStart
<1>2. call[c].version = history[Doc(c)].highest + 1 /\ history[Doc(c)].highest \in Nat
  BY <1>1, CommitsSuccessor, LedgerRange
<1>3. /\ manifest' \in [Identities -> Payloads \cup {Absent}]
      /\ manifest'[Self(c)] = call[c].payload
      /\ \A j \in Identities \ {Self(c)} : manifest'[j] = manifest[j]
  BY <1>1 DEF Commit, TypeOK
<1>4. /\ \A j \in Identities : marker'[j] = Absent => marker[j] = Absent
      /\ \A e \in Edges(c) : marker'[e[1]] # Absent /\ marker[e[1]] = Absent
  BY CommitsMarkers
<1>5. \A j \in Identities \ {Self(c)} : Live(j)' => Live(j)
  BY <1>3, <1>4 DEF Live
<1>6. ASSUME NEW j \in Identities \ {Self(c)}, Live(j)', j[1] = Doc(c)
      PROVE  FALSE
  <2>1. Live(j) /\ j[2] = history[Doc(c)].highest
    BY <1>1, <1>5, <1>6 DEF DataInv, OneLiveVersion
  <2>2. j = Prior(c)
    BY <1>2, <1>6, <2>1 DEF Prior, Identities
  <2>3. j[2] \in 1..MaxVersion
    BY Constants
  <2>4. <<Prior(c), Self(c)>> \in call[c].prior
    BY <1>1, <1>2, <2>1, <2>2, <2>3, Constants DEF PriorSettled
  <2>5. marker'[Prior(c)] # Absent
    BY <1>4, <2>4 DEF Edges
  <2> QED BY <1>6, <2>2, <2>5 DEF Live
<1>7. ASSUME Target(c) # Absent PROVE Live(Target(c)) /\ marker'[Target(c)] # Absent
  <2>1. call[c].edge = {<<Target(c), Self(c)>>} /\ call[c].target = Target(c)
    BY <1>1, <1>7 DEF CallInv
  <2>2. <<Target(c), Self(c)>> \in Edges(c) /\ manifest[Target(c)] # Absent
    BY <1>1, <1>7, <2>1 DEF Edges, Changed
  <2>3. marker'[Target(c)] # Absent /\ marker[Target(c)] = Absent
    BY <1>4, <2>2
  <2> QED BY <2>2, <2>3 DEF Live
<1> QED BY <1>3, <1>5, <1>6, <1>7

LEMMA CommitTypes ==
    ASSUME IndInv, NEW c \in Clients, Commit(c)
    PROVE  /\ TypeOK' /\ QueueInv' /\ CallInv(c)'
           /\ \A d \in Clients \ {c} : call'[d] = call[d]
<1>1. /\ TypeOK /\ call[c].pc \in Ready /\ call[c].version \in 1..MaxVersion
      /\ Self(c) \in Identities /\ Edges(c) \subseteq Identities \X Identities
  BY CommitStart
<1>2. NoCall("stored") \in Call /\ NoCall("stored").pc = "idle"
  BY NoCallType DEF Outcomes, NoCall
<1>3. /\ call' \in [Clients -> Call] /\ call'[c] = NoCall("stored")
      /\ \A d \in Clients \ {c} : call'[d] = call[d]
  BY <1>1, <1>2, CallUpdate DEF Commit
<1>4. /\ documentQueue' \in [Documents -> Seq(Clients)] /\ semanticQueue' \in Seq(Clients)
      /\ QueueInv'
  BY <1>1, <1>2, <1>3, LeaveFrame DEF Commit
<1>5. history' \in [Documents -> Ledger]
  <2>1. [highest |-> call[c].version, retired |-> call[c].version - 1] \in Ledger
    BY <1>1, Constants DEF Ledger
  <2> QED BY <1>1, <2>1 DEF Commit, TypeOK
<1>6. subjectLive' \in [Subjects -> Identities \cup {Absent}]
  BY <1>1 DEF Commit, TypeOK
<1>7. committed' \in [Requests -> [done: BOOLEAN, edges: SUBSET (Identities \X Identities)]]
  <2>1. Signature(c) \in [done: BOOLEAN, edges: SUBSET (Identities \X Identities)]
    BY <1>1 DEF Signature
  <2> QED BY <1>1, <2>1 DEF Commit, TypeOK
<1>8. /\ manifest' \in [Identities -> Payloads \cup {Absent}]
      /\ marker' \in [Identities -> Identities \cup {Absent, Expired}]
  BY CommitsLive, CommitsMarkers
<1>9. UNCHANGED <<cleanup, puts, restarts>>
  BY DEF Commit
<1>10. TypeOK'
  BY <1>1, <1>3, <1>4, <1>5, <1>6, <1>7, <1>8, <1>9 DEF TypeOK
<1>11. CallInv(c)'
  BY <1>3, BlankCall DEF NoCall
<1> QED BY <1>3, <1>4, <1>10, <1>11

\* The ledgers after the commit
LEMMA CommitsLedger ==
    ASSUME IndInv, NEW c \in Clients, Commit(c)
    PROVE  /\ history'[Doc(c)].highest = call[c].version
           /\ history'[Doc(c)].retired = call[c].version - 1
           /\ \A d \in Documents \ {Doc(c)} : history'[d] = history[d]
           /\ \A d \in Documents : history[d].highest <= history'[d].highest
           /\ \A d \in Documents : history[d].retired <= history'[d].retired
           /\ \A j \in Identities : j[2] <= history[j[1]].highest => j[2] <= history'[j[1]].highest
<1>1. /\ TypeOK /\ DataInv /\ Doc(c) \in Documents /\ call[c].version \in 1..MaxVersion
      /\ call[c].version = history[Doc(c)].highest + 1
  BY CommitStart, CommitsSuccessor
<1>2. /\ history'[Doc(c)] = [highest |-> call[c].version, retired |-> call[c].version - 1]
      /\ \A d \in Documents \ {Doc(c)} : history'[d] = history[d]
  BY <1>1 DEF Commit, TypeOK
<1>3. /\ history'[Doc(c)].highest = call[c].version
      /\ history'[Doc(c)].retired = call[c].version - 1
  BY <1>2
<1>4. \A d \in Documents : history[d].highest \in Nat /\ history[d].retired \in Nat
          /\ history[d].retired <= history[d].highest
  BY <1>1, LedgerRange DEF DataInv, LedgerInv
<1>5. ASSUME NEW d \in Documents
      PROVE  history[d].highest <= history'[d].highest /\ history[d].retired <= history'[d].retired
             /\ history'[d].highest \in Nat
  <2>1. CASE d = Doc(c)
    BY <2>1, <1>1, <1>3, <1>4, Constants
  <2>2. CASE d # Doc(c)
    BY <2>2, <1>2, <1>4
  <2> QED BY <2>1, <2>2
<1>6. ASSUME NEW j \in Identities, j[2] <= history[j[1]].highest
      PROVE  j[2] <= history'[j[1]].highest
  <2>1. j[1] \in Documents /\ j[2] \in Nat
    BY Constants
  <2> QED BY <2>1, <1>4, <1>5, <1>6
<1> QED BY <1>2, <1>3, <1>5, <1>6

LEMMA CommitStep ==
    ASSUME IndInv, NEW c \in Clients, Commit(c)
    PROVE  IndInv'
<1>1. /\ TypeOK /\ DataInv /\ CallInv(c) /\ call[c].pc = "commit"
      /\ call[c].payload \in Payloads /\ Doc(c) \in Documents /\ call[c].version \in 1..MaxVersion
      /\ Self(c) \in Identities /\ Request(c) \in Requests
      /\ Subject(c) \in Subjects \cup {Absent} /\ Target(c) \in Identities \cup {Absent}
      /\ ~Changed(c)
  BY CommitStart
<1>2. /\ TypeOK' /\ QueueInv' /\ CallInv(c)'
      /\ \A d \in Clients \ {c} : call'[d] = call[d]
  BY CommitTypes
<1>3. /\ history'[Doc(c)].highest = call[c].version
      /\ history'[Doc(c)].retired = call[c].version - 1
      /\ \A d \in Documents \ {Doc(c)} : history'[d] = history[d]
      /\ \A d \in Documents : history[d].highest <= history'[d].highest
      /\ \A d \in Documents : history[d].retired <= history'[d].retired
      /\ \A j \in Identities : j[2] <= history[j[1]].highest => j[2] <= history'[j[1]].highest
  BY CommitsLedger
<1>4. /\ \A j \in Identities \ {Self(c)} :
             manifest'[j] = manifest[j] /\ (Live(j)' => Live(j) /\ j[1] # Doc(c))
      /\ manifest'[Self(c)] = call[c].payload
      /\ Target(c) # Absent => Live(Target(c)) /\ marker'[Target(c)] # Absent
  BY CommitsLive
<1>5. \A j \in Identities : marker'[j] = Absent => marker[j] = Absent
  BY CommitsMarkers
<1>6. call[c].version = history[Doc(c)].highest + 1 /\ manifest[Self(c)] = Absent
  BY CommitsSuccessor
<1>7. Self(c)[1] = Doc(c) /\ Self(c)[2] = call[c].version
  BY DEF Self
<1>8. /\ cleanup' = cleanup
      /\ \A s \in Subjects : subjectLive'[s] = IF s = Subject(c) THEN Self(c) ELSE subjectLive[s]
  BY DEF Commit
<1>9. committed'[Request(c)].done /\ \A r \in Requests : committed[r].done => committed'[r].done
  <2>1. committed' = [committed EXCEPT ![Request(c)] = Signature(c)] /\ Signature(c).done
    BY DEF Commit, Signature
  <2>2. \A r \in Requests : committed'[r] = IF r = Request(c) THEN Signature(c) ELSE committed[r]
    BY <1>1, <2>1 DEF TypeOK
  <2> QED BY <1>1, <2>1, <2>2
<1>10. \A d \in Documents : history[d].highest \in Nat /\ history'[d].highest \in Nat
           /\ history[d].retired \in Nat /\ history'[d].retired \in Nat
  BY <1>1, <1>2, Constants DEF TypeOK, Ledger
\* A version that was admitted and is dead stays dead.
<1>11. ASSUME NEW j \in Identities, j[2] <= history[j[1]].highest
       PROVE  j # Self(c) /\ (~Live(j) => ~Live(j)')
  <2>1. j # Self(c)
    BY <1>1, <1>6, <1>7, <1>10, <1>11
  <2> QED BY <1>4, <2>1
<1>12. Progress
  <2>1. \A j \in Identities : j[2] <= Highest(j) /\ ~Live(j) => ~Live(j)'
    BY <1>11 DEF Highest
  <2> QED BY <1>3, <1>8, <1>9, <2>1 DEF Progress
<1>13. StoredInv'
  <2>1. ASSUME NEW j \in Identities, manifest'[j] # Absent
        PROVE  /\ DocumentOf[manifest'[j]] = j[1]
               /\ j[2] <= history'[j[1]].highest
               /\ marker'[j] = Absent => committed'[<<manifest'[j], j[2]>>].done
    <3>1. CASE j = Self(c)
      <4>1. manifest'[j] = call[c].payload /\ <<manifest'[j], j[2]>> = Request(c)
        BY <3>1, <1>4, <1>7 DEF Request
      <4>2. DocumentOf[call[c].payload] = Doc(c)
        BY DEF Doc
      <4>3. j[2] <= history'[j[1]].highest
        BY <3>1, <1>3, <1>7, <1>1, <1>10
      <4> QED BY <3>1, <4>1, <4>2, <4>3, <1>7, <1>9
    <3>2. CASE j # Self(c)
      <4>1. /\ manifest'[j] = manifest[j] /\ manifest[j] # Absent
            /\ DocumentOf[manifest[j]] = j[1] /\ j[2] <= history[j[1]].highest
            /\ marker[j] = Absent => committed[<<manifest[j], j[2]>>].done
        BY <2>1, <3>2, <1>1, <1>4 DEF DataInv, StoredInv, Highest
      <4>2. manifest[j] \in Payloads /\ j[2] \in Versions
        BY <4>1, <1>1 DEF TypeOK, Identities
      <4>3. <<manifest[j], j[2]>> \in Requests
        BY <4>2 DEF Requests
      <4> QED BY <4>1, <4>3, <1>3, <1>5, <1>9
    <3> QED BY <3>1, <3>2
  <2> QED BY <2>1 DEF StoredInv, Highest
<1>14. LedgerInv'
  <2>1. ASSUME NEW d \in Documents PROVE history'[d].retired <= history'[d].highest
    <3>1. CASE d = Doc(c)
      BY <3>1, <1>1, <1>3, Constants
    <3>2. CASE d # Doc(c)
      BY <3>2, <1>1, <1>3 DEF DataInv, LedgerInv
    <3> QED BY <3>1, <3>2
  <2>2. ASSUME NEW s \in Subjects, subjectLive'[s] # Absent
        PROVE  subjectLive'[s][2] <= history'[subjectLive'[s][1]].highest
    <3>1. CASE s = Subject(c)
      BY <3>1, <1>1, <1>3, <1>7, <1>8, <1>10
    <3>2. CASE s # Subject(c)
      <4>1. subjectLive'[s] = subjectLive[s] /\ subjectLive[s] \in Identities
        BY <2>2, <3>2, <1>1, <1>8 DEF TypeOK
      <4> QED BY <2>2, <4>1, <1>1, <1>3 DEF DataInv, LedgerInv, Highest
    <3> QED BY <3>1, <3>2
  <2> QED BY <2>1, <2>2 DEF LedgerInv, Highest
<1>15. CleanupInv'
  <2>1. ASSUME NEW j \in Identities, cleanup[j] # "none"
        PROVE  /\ marker'[j] # Absent /\ j[2] <= history'[j[1]].highest
               /\ cleanup[j] # "tombstoned" => manifest'[j] = Absent
               /\ cleanup[j] \in {"complete", "audited"} => j[2] <= history'[j[1]].retired
    <3>1. /\ marker[j] # Absent /\ j[2] <= history[j[1]].highest
          /\ cleanup[j] # "tombstoned" => manifest[j] = Absent
          /\ cleanup[j] \in {"complete", "audited"} => j[2] <= history[j[1]].retired
      BY <2>1, <1>1 DEF DataInv, CleanupInv, Highest
    <3>2. j # Self(c) /\ manifest'[j] = manifest[j] /\ marker'[j] # Absent
      BY <3>1, <1>4, <1>5, <1>11
    <3>3. j[1] \in Documents /\ j[2] \in Nat
      BY Constants
    <3>4. j[2] <= history[j[1]].retired => j[2] <= history'[j[1]].retired
      BY <3>3, <1>3, <1>10
    <3> QED BY <3>1, <3>2, <3>4, <1>3
  <2> QED BY <2>1, <1>8 DEF CleanupInv, Highest
<1>16. ASSUME NEW j \in Identities \ {Self(c)}, manifest'[j] # Absent, TargetOf[manifest'[j]] # Absent
       PROVE  LET t == TargetOf[manifest'[j]]
              IN t \in Identities /\ ~Live(t) /\ t[2] <= history[t[1]].highest
  <2>1. manifest'[j] = manifest[j] /\ manifest[j] \in Payloads
    BY <1>16, <1>1, <1>4 DEF TypeOK
  <2> QED BY <2>1, <1>16, <1>1, Constants DEF DataInv, TargetInv, Highest
<1>17. TargetInv'
  <2>1. ASSUME NEW j \in Identities, manifest'[j] # Absent, TargetOf[manifest'[j]] # Absent
        PROVE  LET t == TargetOf[manifest'[j]]
               IN ~(manifest'[t] # Absent /\ marker'[t] = Absent) /\ t[2] <= history'[t[1]].highest
    <3>1. CASE j = Self(c)
      <4>1. TargetOf[manifest'[j]] = Target(c) /\ Target(c) # Absent /\ Target(c) \in Identities
        BY <2>1, <3>1, <1>1, <1>4 DEF Target
      <4>2. Live(Target(c)) /\ marker'[Target(c)] # Absent
        BY <4>1, <1>4
      <4>3. Target(c)[2] <= history[Target(c)[1]].highest
        BY <4>1, <4>2, <1>1 DEF Live, DataInv, StoredInv, Highest
      <4> QED BY <4>1, <4>2, <4>3, <1>3
    <3>2. CASE j # Self(c)
      <4> DEFINE t == TargetOf[manifest'[j]]
      <4>1. t \in Identities /\ ~Live(t) /\ t[2] <= history[t[1]].highest
        BY <2>1, <3>2, <1>16
      <4> HIDE DEF t
      <4>2. \A i \in Identities : i[2] <= history[i[1]].highest /\ ~Live(i) =>
                ~(manifest'[i] # Absent /\ marker'[i] = Absent)
        BY <1>11 DEF Live
      <4>3. ~(manifest'[t] # Absent /\ marker'[t] = Absent) /\ t[2] <= history'[t[1]].highest
        BY <4>1, <4>2, <1>3
      <4> QED BY <4>3 DEF t
    <3> QED BY <3>1, <3>2
  <2> QED BY <2>1 DEF TargetInv, Live, Highest
<1>18. OneLiveVersion'
  <2>1. ASSUME NEW j \in Identities, Live(j)' PROVE j[2] = history'[j[1]].highest
    <3>1. CASE j = Self(c)
      BY <3>1, <1>3, <1>7
    <3>2. CASE j # Self(c)
      <4>1. Live(j) /\ j[1] # Doc(c) /\ j[1] \in Documents
        BY <2>1, <3>2, <1>4, Constants
      <4> QED BY <4>1, <1>1, <1>3 DEF DataInv, OneLiveVersion
    <3> QED BY <3>1, <3>2
  <2> QED BY <2>1 DEF OneLiveVersion
<1>19. SubjectResolves'
  <2>1. ASSUME NEW j \in Identities, Live(j)', SubjectOf[manifest'[j]] # Absent
        PROVE  subjectLive'[SubjectOf[manifest'[j]]] = j
    <3>1. CASE j = Self(c)
      BY <2>1, <3>1, <1>1, <1>4, <1>8 DEF Subject
    <3>2. CASE j # Self(c)
      <4>1. Live(j) /\ j[1] # Doc(c) /\ manifest'[j] = manifest[j] /\ manifest[j] \in Payloads
        BY <2>1, <3>2, <1>1, <1>4 DEF Live, TypeOK
      <4> DEFINE s == SubjectOf[manifest[j]]
      <4>2. s \in Subjects /\ subjectLive[s] = j
        BY <2>1, <4>1, <1>1, Constants DEF DataInv, SubjectResolves
      <4>3. CASE s # Subject(c)
        BY <4>1, <4>2, <4>3, <1>8
      \* The version that held the subject was its target, or had died meanwhile.
      <4>4. CASE s = Subject(c)
        <5>1. call[c].holder = j /\ Subject(c) # Absent
          BY <2>1, <4>1, <4>2, <4>4, <1>1, Constants DEF Changed
        <5>2. HolderSettled(c)
          BY <5>1, <1>1 DEF CallInv
        <5>3. j = Target(c) /\ j # Absent
          BY <4>1, <5>1, <5>2, Constants DEF HolderSettled
        <5>4. marker'[j] # Absent
          BY <5>3, <1>4
        <5> QED BY <2>1, <5>4 DEF Live
      <4> QED BY <4>3, <4>4
    <3> QED BY <3>1, <3>2
  <2> QED BY <2>1 DEF SubjectResolves
<1>20. OneReplacement'
  <2>1. ASSUME NEW i \in Identities, NEW j \in Identities, i # j,
               manifest'[i] # Absent, manifest'[j] # Absent, TargetOf[manifest'[i]] # Absent,
               TargetOf[manifest'[i]] = TargetOf[manifest'[j]]
        PROVE  FALSE
    <3>1. ASSUME NEW k \in Identities \ {Self(c)}, manifest'[k] # Absent,
                 TargetOf[manifest'[k]] = Target(c), Target(c) # Absent
          PROVE  FALSE
      BY <3>1, <1>4, <1>16
    <3>2. TargetOf[manifest'[Self(c)]] = Target(c)
      BY <1>4 DEF Target
    <3>3. i # Self(c) /\ j # Self(c)
      BY <2>1, <3>1, <3>2
    <3> QED BY <2>1, <3>3, <1>1, <1>4 DEF DataInv, OneReplacement
  <2> QED BY <2>1 DEF OneReplacement
<1>21. ForgottenIsRetired'
  <2>1. ASSUME NEW j \in Identities, j[2] <= history'[j[1]].highest, manifest'[j] = Absent, marker'[j] = Absent
        PROVE  j[2] <= history'[j[1]].retired
    <3>1. j # Self(c) /\ j[1] \in Documents /\ j[2] \in Nat /\ manifest[j] = Absent /\ marker[j] = Absent
      BY <2>1, <1>1, <1>4, <1>5, Constants
    <3>2. CASE j[1] = Doc(c)
      <4>1. j[2] # call[c].version
        BY <3>1, <3>2 DEF Self, Identities
      <4> QED BY <2>1, <3>1, <3>2, <4>1, <1>1, <1>3
    <3>3. CASE j[1] # Doc(c)
      BY <2>1, <3>1, <3>3, <1>1, <1>3 DEF DataInv, ForgottenIsRetired
    <3> QED BY <3>2, <3>3
  <2> QED BY <2>1 DEF ForgottenIsRetired
<1>22. DataInv'
  BY <1>13, <1>14, <1>15, <1>17, <1>18, <1>19, <1>20, <1>21 DEF DataInv
<1>23. \A d \in Clients \ {c} : CallInv(d)'
  BY <1>1, <1>2, <1>12, CallStable DEF IndInv
<1> QED BY <1>2, <1>22, <1>23 DEF IndInv
-----------------------------------------------------------------------------
(***************************************************************************)
(* The inductive invariant and what follows from it.                       *)
(***************************************************************************)
LEMMA InitIndInv == Init => IndInv
<1> SUFFICES ASSUME Init PROVE IndInv
  OBVIOUS
<1>1. NoCall("none") \in Call /\ NoCommit \in [done: BOOLEAN, edges: SUBSET (Identities \X Identities)]
      /\ NoHistory \in Ledger /\ NoHistory.highest = 0 /\ NoHistory.retired = 0
  BY NoCallType, Constants DEF Outcomes, NoCommit, NoHistory, Ledger
<1>2. TypeOK
  BY <1>1, Constants DEF Init, TypeOK
<1>3. /\ \A i \in Identities : manifest[i] = Absent /\ marker[i] = Absent /\ cleanup[i] = "none"
      /\ \A d \in Documents : history[d] = NoHistory
      /\ \A s \in Subjects : subjectLive[s] = Absent
      /\ \A c \in Clients : call[c] = NoCall("none")
  BY DEF Init
<1>4. StoredInv /\ LedgerInv /\ CleanupInv /\ TargetInv
  BY <1>1, <1>3 DEF StoredInv, LedgerInv, CleanupInv, TargetInv
<1>5. OneLiveVersion /\ SubjectResolves /\ OneReplacement
  BY <1>3 DEF OneLiveVersion, SubjectResolves, OneReplacement, Live
<1>6. ForgottenIsRetired
  BY <1>1, <1>3, Constants DEF ForgottenIsRetired
<1>7. ASSUME NEW c \in Clients
      PROVE  CallInv(c) /\ call[c].pc = "idle"
  BY <1>3 DEF NoCall, CallInv, Blank, AfterReads, Checked, Asking, Choosing, Replacing, AboutEdge
<1>8. QueueInv
  BY <1>7 DEF QueueInv, Ready, Checked, AfterReads, Replacing, AboutEdge
<1> QED BY <1>2, <1>4, <1>5, <1>6, <1>7, <1>8 DEF IndInv, DataInv

LEMMA ServeStep ==
    ASSUME IndInv, NEW c \in Clients, Serve(c)
    PROVE  IndInv'
<1>1. CASE Ask(c)
  BY <1>1, LookUpStep, ViewStep, SendStep, SemanticTurnStep, DocumentTurnStep DEF Ask
<1>2. CASE Gather(c)
  BY <1>2, ReadHistoryStep, ReadCommittedStep, ReadLatestStep, ReadPriorStep, ReadExistingStep,
     ReadEdgeStep, ReadReplayedEdgeStep, ReadFreshEdgeStep, ReadTargetStep, ReadChainStep,
     ReadSubjectStep, ReadHolderStep DEF Gather
<1>3. CASE Finish(c)
  BY <1>3, CommitStep, DuplicateStep, DiagnoseStep, ConflictStep DEF Finish
<1> QED BY <1>1, <1>2, <1>3 DEF Serve

LEMMA RetentionStep ==
    ASSUME IndInv, NEW i \in Identities, Retention(i)
    PROVE  IndInv'
BY ExpireStep, ExpireSupersededStep, RemoveDocumentStep, RemoveAdmissionStep, CompleteCleanupStep,
   PassAuditStep, ReclaimStep DEF Retention

LEMMA NextIndInv ==
    ASSUME IndInv, [Next]_vars
    PROVE  IndInv'
<1>1. CASE \E c \in Clients : Serve(c)
  BY <1>1, ServeStep
<1>2. CASE \E c \in Clients, p \in Payloads : Put(c, p)
  BY <1>2, PutStep
<1>3. CASE \E i \in Identities : Retention(i)
  BY <1>3, RetentionStep
<1>4. CASE Restart
  BY <1>4, RestartStep
<1>5. CASE UNCHANGED vars
  <2>1. UNCHANGED <<records, cleanup>> /\ UNCHANGED <<call, queues>> /\ UNCHANGED <<puts, restarts>>
    BY <1>5 DEF vars
  <2>2. TypeOK'
    BY <2>1 DEF IndInv, TypeOK, records, queues
  <2>3. DataInv' /\ Progress
    BY <2>1, RecordsFrame DEF IndInv
  <2> QED BY <2>1, <2>2, <2>3, RetainFrame
<1> QED BY <1>1, <1>2, <1>3, <1>4, <1>5 DEF Next

\* The invariant holds throughout.
THEOREM Invariance == Spec => []IndInv
<1>1. Init => IndInv
  BY InitIndInv
<1>2. IndInv /\ [Next]_vars => IndInv'
  BY NextIndInv
<1> QED BY <1>1, <1>2, PTL DEF Spec

\* The records, the queues and the memory of each call have their types
\* (manifests.js, store.js).
THEOREM TypeCorrect == Spec => []TypeOK
<1>1. IndInv => TypeOK
  BY DEF IndInv
<1> QED BY <1>1, Invariance, PTL

\* A document has one live version at most, the highest that was admitted, whatever
\* retention did between the reads of an admission and its commit
\* (admissionSupersession, commitCanonical).
THEOREM OneLiveVersionHolds == Spec => []OneLiveVersion
<1>1. IndInv => OneLiveVersion
  BY DEF IndInv, DataInv
<1> QED BY <1>1, Invariance, PTL

\* The live holder of a subject is the one it resolves to, also when two puts and an
\* expiry race for it (admissionSubjectLive, resolveLiveSubject).
THEOREM SubjectResolvesHolds == Spec => []SubjectResolves
<1>1. IndInv => SubjectResolves
  BY DEF IndInv, DataInv
<1> QED BY <1>1, Invariance, PTL

\* No two stored versions replace the same one, also when its marker is gone again
\* (admissionExplicitSupersession).
THEOREM OneReplacementHolds == Spec => []OneReplacement
<1>1. IndInv => OneReplacement
  BY DEF IndInv, DataInv
<1> QED BY <1>1, Invariance, PTL

\* A version all of whose records were reclaimed is known as retired by the ledger
\* (retiredDocumentHistory).
THEOREM ForgottenIsRetiredHolds == Spec => []ForgottenIsRetired
<1>1. IndInv => ForgottenIsRetired
  BY DEF IndInv, DataInv
<1> QED BY <1>1, Invariance, PTL

\* Retention brings nothing back to life.
LEMMA RetentionKills ==
    ASSUME IndInv, NEW i \in Identities, Retention(i), NEW j \in Identities, Live(j)'
    PROVE  Live(j)
<1>1. TypeOK /\ CleanupInv /\ Expired # Absent
  BY Constants DEF IndInv, DataInv
<1>2. CASE Expire(i)
  BY <1>1, <1>2 DEF Expire, Live, TypeOK
<1>3. CASE ExpireSuperseded(i) \/ PassAudit(i)
  BY <1>3 DEF ExpireSuperseded, PassAudit, records, Live
<1>4. CASE RemoveDocument(i)
  BY <1>1, <1>4 DEF RemoveDocument, Live, TypeOK
<1>5. CASE RemoveAdmission(i) \/ CompleteCleanup(i)
  BY <1>5 DEF RemoveAdmission, CompleteCleanup, Live
<1>6. CASE Reclaim(i)
  <2>1. manifest[i] = Absent /\ manifest' = manifest
    BY <1>1, <1>6 DEF Reclaim, CleanupInv
  <2>2. \A k \in Identities \ {i} : marker'[k] = marker[k]
    BY <1>1, <1>6 DEF Reclaim, TypeOK
  <2> QED BY <2>1, <2>2 DEF Live
<1> QED BY <1>2, <1>3, <1>4, <1>5, <1>6 DEF Retention

\* What becomes live is the successor of the highest version ever admitted: no step
\* of a late put or of retention revives a version (commitCanonical, beginExpiry).
THEOREM NeverReadmittedHolds == Spec => NeverReadmitted
<1>1. ASSUME IndInv, [Next]_vars, NEW i \in Identities, ~Live(i), Live(i)'
      PROVE  i[2] = history[i[1]].highest + 1
  <2>1. CASE \E c \in Clients : Commit(c)
    <3>1. PICK c \in Clients : Commit(c)
      BY <2>1
    <3>2. i = Self(c)
      BY <1>1, <3>1, CommitsLive
    <3> QED BY <1>1, <3>1, <3>2, CommitsSuccessor DEF Self
  <2>2. CASE \E j \in Identities : Retention(j)
    BY <1>1, <2>2, RetentionKills
  <2>3. CASE UNCHANGED records
    BY <1>1, <2>3 DEF records, Live
  <2>4. ASSUME NEW c \in Clients, Serve(c), ~Commit(c) PROVE UNCHANGED records
    <3>1. CASE Ask(c)
      BY <3>1 DEF Ask, LookUp, View, Send, SemanticTurn, DocumentTurn
    <3>2. CASE Gather(c)
      BY <3>2 DEF Gather, Read, Refuse, Follow, ReadHistory, ReadCommitted, ReadLatest, ReadPrior,
         ReadExisting, ReadEdge, ReadReplayedEdge, ReadFreshEdge, ReadTarget, ReadChain, ReadSubject,
         ReadHolder
    <3>3. CASE Finish(c)
      BY <2>4, <3>3 DEF Finish, Duplicate, Diagnose, Conflict, Read, Refuse
    <3> QED BY <2>4, <3>1, <3>2, <3>3 DEF Serve
  <2>5. CASE \E c \in Clients, p \in Payloads : Put(c, p)
    BY <2>3, <2>5 DEF Put
  <2>6. CASE Restart
    BY <2>3, <2>6 DEF Restart
  <2>7. CASE UNCHANGED vars
    BY <2>3, <2>7 DEF vars
  <2> QED BY <1>1, <2>1, <2>2, <2>3, <2>4, <2>5, <2>6, <2>7 DEF Next
<1>2. IndInv /\ [Next]_vars =>
          [\A i \in Identities : ~Live(i) /\ Live(i)' => i[2] = history[i[1]].highest + 1]_vars
  BY <1>1
<1> QED BY <1>2, Invariance, PTL DEF Spec, NeverReadmitted
=============================================================================
