------------------------- MODULE WriteBarrierProofs -------------------------
(***************************************************************************)
(* Proofs about the write barrier, for every set of asynchronous flows.    *)
(*                                                                         *)
(* LeaseExclusion is not inductive: a flow that joins a lease must not     *)
(* become a holder, and a waiter must be queued once and only once, or     *)
(* drain would count a grant twice.  IndInv adds these facts.  All grants  *)
(* happen in drain; DrainShape says what it grants (a prefix of the        *)
(* queue), DrainKeeps that it leaves the barrier consistent.               *)
(***************************************************************************)
EXTENDS WriteBarrier, FiniteSetTheorems, TLAPS

Status == {"absent", "ready", "queued", "granted", "running", "leaving", "done"}

\* Holder for given functions instead of the variables.
Holds(st, un, t) == st[t] \in {"granted", "leaving"} \/ (st[t] = "running" /\ un[t] = t)

Readers(st, un, ki) == {t \in Task : Holds(st, un, t) /\ ki[t] = "shared"}

\* The counter and the holder describe the leases, and an exclusive one is alone.
Consistent(count, holder, st, un, ki) ==
    /\ IsFiniteSet(Readers(st, un, ki))
    /\ count = Cardinality(Readers(st, un, ki))
    /\ holder \in Task \cup {None}
    /\ \A t \in Task : holder = t <=> Holds(st, un, t) /\ ki[t] = "exclusive"
    /\ holder # None => Readers(st, un, ki) = {}

\* Every waiter is queued, once.
Orderly(queue, st) ==
    /\ queue \in Seq(Task)
    /\ \A i \in DOMAIN queue : st[queue[i]] = "queued"
    /\ \A i, j \in DOMAIN queue : queue[i] = queue[j] => i = j

\* The head of the queue waits for a reason.
Blocked(queue, count, holder, ki) ==
    queue # <<>> => holder # None \/ (ki[Head(queue)] = "exclusive" /\ count > 0)

\* A lease is active from the start of its callback to its release.
ActiveInv == \A t \in active : status[t] \in {"running", "leaving"} /\ under[t] = t

\* A flow that joined a lease is registered with it until it returns.
JoinedInv ==
    \A t \in Task : status[t] = "running" =>
      under[t] \in Task /\ (under[t] # t => t \in pending[under[t]])

IndInv ==
    /\ TypeOK
    /\ Consistent(shared, exclusive, status, under, kind)
    /\ Orderly(waiters, status)
    /\ Blocked(waiters, shared, exclusive, kind)
    /\ ActiveInv
    /\ JoinedInv
-----------------------------------------------------------------------------
(***************************************************************************)
(* What drain does.                                                        *)
(***************************************************************************)
\* A downward closed set of positions is an interval.
LEMMA DownwardClosed ==
    ASSUME NEW n \in Nat, NEW P \in SUBSET (1..n), \A i \in P : 1..i \subseteq P
    PROVE  Cardinality(P) \in 0..n /\ P = 1..Cardinality(P)
<1>1. IsFiniteSet(P) /\ Cardinality(P) <= n /\ Cardinality(P) \in Nat
  <2>1. IsFiniteSet(1..n) /\ Cardinality(1..n) = n
    BY FS_Interval
  <2>2. IsFiniteSet(P) /\ Cardinality(P) <= n
    BY <2>1, FS_Subset
  <2> QED BY <2>2, FS_CardinalityType
<1>2. ASSUME NEW i \in P PROVE i <= Cardinality(P)
  <2>1. 1..i \in SUBSET P /\ i \in 1..n
    OBVIOUS
  <2>2. Cardinality(1..i) <= Cardinality(P)
    BY <1>1, <2>1, FS_Subset
  <2>3. Cardinality(1..i) = i
    BY <2>1, FS_Interval
  <2> QED BY <2>2, <2>3
<1>3. ASSUME NEW i \in 1..n, i \notin P PROVE i > Cardinality(P)
  <2>1. P \in SUBSET (1..(i - 1))
    <3> SUFFICES ASSUME NEW j \in P PROVE j \in 1..(i - 1)
      OBVIOUS
    <3>1. j < i
      <4>1. ~(i \in 1..j)
        BY <1>3
      <4> QED BY <4>1
    <3> QED BY <3>1
  <2>2. IsFiniteSet(1..(i - 1)) /\ Cardinality(1..(i - 1)) = i - 1
    BY FS_Interval
  <2>3. Cardinality(P) <= Cardinality(1..(i - 1))
    BY <2>1, <2>2, FS_Subset
  <2> QED BY <1>1, <2>2, <2>3
<1>4. P \subseteq 1..Cardinality(P)
  BY <1>1, <1>2
<1>5. 1..Cardinality(P) \subseteq P
  BY <1>1, <1>3
<1>6. P = 1..Cardinality(P)
  BY <1>4, <1>5, Zenon
<1>7. Cardinality(P) \in 0..n
  BY <1>1
<1> QED BY <1>6, <1>7

\* The elements of a sequence without repetitions are as many as their positions.
LEMMA DistinctCount ==
    ASSUME NEW queue \in Seq(Task), \A i, j \in DOMAIN queue : queue[i] = queue[j] => i = j,
           NEW c \in 0..Len(queue)
    PROVE  /\ IsFiniteSet({queue[i] : i \in 1..c})
           /\ Cardinality({queue[i] : i \in 1..c}) = c
<1> DEFINE T == {queue[i] : i \in 1..c}
           f == [i \in 1..c |-> queue[i]]
<1>1. f \in Surjection(1..c, T) /\ f \in Injection(1..c, T)
  BY DEF Surjection, Injection, IsInjective
<1>2. IsFiniteSet(1..c) /\ Cardinality(1..c) = c
  BY FS_Interval
<1>3. f \in Bijection(1..c, T)
  BY <1>1 DEF Bijection
<1>4. ExistsBijection(1..c, T)
  BY <1>3 DEF ExistsBijection
<1> HIDE DEF T, f
<1>5. IsFiniteSet(T) /\ Cardinality(T) = c
  BY <1>2, <1>4, FS_Bijection
<1> QED BY <1>5 DEF T

\* drain grants the first c waiters: none, the exclusive head, or the shared ones
\* up to the next exclusive one.
Grants(c, queue, count, holder, ki) ==
    \/ c = 0 /\ (queue # <<>> => holder # None \/ (ki[queue[1]] = "exclusive" /\ count # 0))
    \/ c = 1 /\ holder = None /\ count = 0 /\ ki[queue[1]] = "exclusive"
    \/ /\ c >= 1
       /\ holder = None
       /\ \A i \in 1..c : ki[queue[i]] = "shared"
       /\ c < Len(queue) => ki[queue[c + 1]] = "exclusive"

LEMMA AdmittedShape ==
    ASSUME NEW queue \in Seq(Task), NEW count \in Nat, NEW holder \in Task \cup {None},
           NEW ki \in [Task -> Kind]
    PROVE  \E c \in 0..Len(queue) :
             /\ Admitted(queue, count, holder, ki) = 1..c
             /\ Cardinality(Admitted(queue, count, holder, ki)) = c
             /\ Grants(c, queue, count, holder, ki)
<1> DEFINE P == Admitted(queue, count, holder, ki)
<1>1. CASE queue = <<>> \/ holder # None
  <2>1. P = {} /\ P = 1..0 /\ Cardinality(P) = 0
    BY <1>1, FS_EmptySet DEF Admitted
  <2> QED BY <1>1, <2>1 DEF Grants
<1>2. CASE queue # <<>> /\ holder = None /\ ki[Head(queue)] = "exclusive"
  <2>1. CASE count = 0
    <3>1. P = {1}
      BY <1>2, <2>1 DEF Admitted
    <3>2. P = 1..1 /\ Cardinality(P) = 1 /\ 1 \in 0..Len(queue)
      <4>1. Len(queue) \in Nat /\ Len(queue) # 0
        BY <1>2
      <4>2. Cardinality({1}) = 1
        BY FS_Singleton
      <4>3. {1} = 1..1
        OBVIOUS
      <4> HIDE DEF P
      <4> QED BY <3>1, <4>1, <4>2, <4>3
    <3>3. Grants(1, queue, count, holder, ki)
      BY <1>2, <2>1 DEF Grants
    <3> HIDE DEF P
    <3>4. \E c \in 0..Len(queue) : P = 1..c /\ Cardinality(P) = c /\ Grants(c, queue, count, holder, ki)
      BY <3>2, <3>3
    <3> QED BY <3>4 DEF P
  <2>2. CASE count # 0
    <3>1. P = {} /\ P = 1..0 /\ Cardinality(P) = 0
      BY <1>2, <2>2, FS_EmptySet DEF Admitted
    <3> QED BY <1>2, <2>2, <3>1 DEF Grants
  <2> QED BY <2>1, <2>2
<1>3. CASE queue # <<>> /\ holder = None /\ ki[Head(queue)] # "exclusive"
  <2>1. P = {i \in DOMAIN queue : \A j \in 1..i : ki[queue[j]] = "shared"}
    BY <1>3 DEF Admitted
  <2>2. P \in SUBSET (1..Len(queue)) /\ \A i \in P : 1..i \subseteq P
    BY <2>1
  <2> DEFINE c == Cardinality(P)
  <2>3. c \in 0..Len(queue) /\ P = 1..c
    BY <2>2, DownwardClosed
  <2>4. 1 \in P
    BY <1>3, <2>1 DEF Kind
  <2>5. \A i \in 1..c : ki[queue[i]] = "shared"
    BY <2>1, <2>3
  <2>6. ASSUME c < Len(queue) PROVE ki[queue[c + 1]] = "exclusive"
    <3>1. c + 1 \in DOMAIN queue /\ c + 1 \notin P
      BY <2>3, <2>6
    <3>2. PICK j \in 1..(c + 1) : ki[queue[j]] # "shared"
      BY <2>1, <3>1
    <3>3. j = c + 1
      BY <2>3, <2>5, <3>2
    <3> QED BY <3>1, <3>2, <3>3 DEF Kind
  <2>7. Grants(c, queue, count, holder, ki)
    BY <1>3, <2>3, <2>4, <2>5, <2>6 DEF Grants
  <2>8. \E d \in 0..Len(queue) : P = 1..d /\ Cardinality(P) = d /\ Grants(d, queue, count, holder, ki)
    BY <2>3, <2>7
  <2> QED BY <2>8
<1> QED BY <1>1, <1>2, <1>3

LEMMA DrainShape ==
    ASSUME NEW queue \in Seq(Task), NEW count \in Nat, NEW holder \in Task \cup {None},
           NEW ki \in [Task -> Kind], NEW others \in [Task -> Status],
           \A i, j \in DOMAIN queue : queue[i] = queue[j] => i = j,
           Drain(queue, count, holder, ki, others)
    PROVE  \E c \in 0..Len(queue) :
             /\ Grants(c, queue, count, holder, ki)
             /\ waiters' = SubSeq(queue, c + 1, Len(queue))
             /\ status' = [t \in Task |-> IF \E i \in 1..c : queue[i] = t
                                         THEN "granted" ELSE others[t]]
             /\ shared' = IF c >= 1 /\ ki[queue[1]] = "shared" THEN count + c ELSE count
             /\ exclusive' = IF c >= 1 /\ ki[queue[1]] = "exclusive" THEN queue[1] ELSE holder
<1>1. PICK c \in 0..Len(queue) :
        /\ Admitted(queue, count, holder, ki) = 1..c
        /\ Cardinality(Admitted(queue, count, holder, ki)) = c
        /\ Grants(c, queue, count, holder, ki)
  BY AdmittedShape
<1> DEFINE T == {queue[i] : i \in 1..c}
           W == {t \in T : ki[t] = "exclusive"}
<1>2. /\ waiters' = SubSeq(queue, c + 1, Len(queue))
      /\ shared' = count + Cardinality(T \ W)
      /\ exclusive' = IF W = {} THEN holder ELSE CHOOSE t \in W : TRUE
      /\ status' = [t \in Task |-> IF t \in T THEN "granted" ELSE others[t]]
  BY <1>1 DEF Drain
<1>3. status' = [t \in Task |-> IF \E i \in 1..c : queue[i] = t THEN "granted" ELSE others[t]]
  <2>1. \A t \in Task : t \in T <=> \E i \in 1..c : queue[i] = t
    BY Zenon
  <2> HIDE DEF T
  <2> QED BY <1>2, <2>1
<1>4. IsFiniteSet(T) /\ Cardinality(T) = c
  BY DistinctCount
<1> DEFINE Counted ==
             /\ shared' = IF c >= 1 /\ ki[queue[1]] = "shared" THEN count + c ELSE count
             /\ exclusive' = IF c >= 1 /\ ki[queue[1]] = "exclusive" THEN queue[1] ELSE holder
<1>5. ASSUME c = 0 PROVE Counted
  <2>1. T = {} /\ W = {} /\ T \ W = {}
    BY <1>5
  <2>2. Cardinality(T \ W) = 0
    BY <2>1, FS_EmptySet
  <2> HIDE DEF T, W
  <2>3. shared' = count /\ exclusive' = holder
    BY <1>2, <2>1, <2>2
  <2> QED BY <1>5, <2>3
<1>6. ASSUME c = 1, holder = None, count = 0, ki[queue[1]] = "exclusive" PROVE Counted
  <2>1. T = {queue[1]}
    <3>1. 1..1 = {1}
      OBVIOUS
    <3> QED BY <1>6, <3>1
  <2>2. W = {queue[1]} /\ T \ W = {}
    BY <1>6, <2>1
  <2>3. (CHOOSE t \in {queue[1]} : TRUE) = queue[1]
    OBVIOUS
  <2>4. Cardinality(T \ W) = 0
    BY <2>2, FS_EmptySet
  <2> HIDE DEF T, W
  <2>5. shared' = count /\ exclusive' = queue[1]
    BY <1>2, <1>6, <2>2, <2>3, <2>4
  <2>6. "exclusive" # "shared"
    OBVIOUS
  <2> QED BY <1>6, <2>5, <2>6
<1>7. ASSUME c >= 1, holder = None, \A i \in 1..c : ki[queue[i]] = "shared" PROVE Counted
  <2>1. W = {} /\ T \ W = T
    BY <1>7
  <2>2. shared' = count + c /\ exclusive' = holder
    BY <1>2, <1>4, <2>1
  <2>3. ki[queue[1]] = "shared"
    BY <1>7
  <2> QED BY <1>7, <2>2, <2>3
<1>8. Counted
  BY <1>1, <1>5, <1>6, <1>7 DEF Grants
<1>9. waiters' = SubSeq(queue, c + 1, Len(queue))
  BY <1>2
<1> QED BY <1>1, <1>3, <1>8, <1>9

\* drain grants a waiter only together with those in front of it.
LEMMA GrantOrder ==
    ASSUME NEW queue \in Seq(Task), NEW count \in Nat, NEW holder \in Task \cup {None},
           NEW ki \in [Task -> Kind], NEW others \in [Task -> Status],
           \A i, j \in DOMAIN queue : queue[i] = queue[j] => i = j,
           Drain(queue, count, holder, ki, others),
           NEW un, NEW t \in Task, Holds(status', un, t), ~Holds(others, un, t),
           NEW i \in DOMAIN queue, \A j \in 1..i : queue[j] # t
    PROVE  Holds(status', un, queue[i])
<1>1. PICK c \in 0..Len(queue) :
        /\ Grants(c, queue, count, holder, ki)
        /\ waiters' = SubSeq(queue, c + 1, Len(queue))
        /\ status' = [v \in Task |-> IF \E j \in 1..c : queue[j] = v
                                    THEN "granted" ELSE others[v]]
        /\ shared' = IF c >= 1 /\ ki[queue[1]] = "shared" THEN count + c ELSE count
        /\ exclusive' = IF c >= 1 /\ ki[queue[1]] = "exclusive" THEN queue[1] ELSE holder
  BY DrainShape
<1>2. PICK m \in 1..c : queue[m] = t
  BY <1>1 DEF Holds
<1>3. i \in 1..c /\ queue[i] \in Task
  BY <1>2
<1>4. status'[queue[i]] = "granted"
  BY <1>1, <1>3
<1> QED BY <1>4 DEF Holds

\* drain leaves a consistent barrier, an orderly queue, and nobody waiting in vain.
LEMMA DrainKeeps ==
    ASSUME NEW queue, NEW count, NEW holder, NEW ki \in [Task -> Kind],
           NEW others \in [Task -> Status], NEW un \in [Task -> Task \cup {None}],
           Consistent(count, holder, others, un, ki), Orderly(queue, others),
           Drain(queue, count, holder, ki, others)
    PROVE  /\ status' \in [Task -> Status]
           /\ \A t \in Task : status'[t] = others[t] \/ (others[t] = "queued" /\ status'[t] = "granted")
           /\ Consistent(shared', exclusive', status', un, ki)
           /\ Orderly(waiters', status')
           /\ Blocked(waiters', shared', exclusive', ki)
<1>1. /\ queue \in Seq(Task)
      /\ \A i \in DOMAIN queue : others[queue[i]] = "queued"
      /\ \A i, j \in DOMAIN queue : queue[i] = queue[j] => i = j
  BY DEF Orderly
<1>2. count \in Nat /\ holder \in Task \cup {None}
  BY FS_CardinalityType DEF Consistent
<1>3. PICK c \in 0..Len(queue) :
        /\ Grants(c, queue, count, holder, ki)
        /\ waiters' = SubSeq(queue, c + 1, Len(queue))
        /\ status' = [t \in Task |-> IF \E i \in 1..c : queue[i] = t
                                    THEN "granted" ELSE others[t]]
        /\ shared' = IF c >= 1 /\ ki[queue[1]] = "shared" THEN count + c ELSE count
        /\ exclusive' = IF c >= 1 /\ ki[queue[1]] = "exclusive" THEN queue[1] ELSE holder
  BY <1>1, <1>2, DrainShape
<1> DEFINE T == {queue[i] : i \in 1..c}
           R == Readers(others, un, ki)
<1>4. T \subseteq Task /\ \A t \in T : others[t] = "queued" /\ status'[t] = "granted"
  BY <1>1, <1>3
<1>5. \A t \in Task : t \notin T => status'[t] = others[t]
  BY <1>3
<1>6. /\ status' \in [Task -> Status]
      /\ \A t \in Task : status'[t] = others[t] \/ (others[t] = "queued" /\ status'[t] = "granted")
  <2>1. status' \in [Task -> Status]
    BY <1>3 DEF Status
  <2> HIDE DEF T
  <2> QED BY <2>1, <1>4, <1>5
<1>7. \A t \in Task : Holds(status', un, t) <=> Holds(others, un, t) \/ t \in T
  <2> SUFFICES ASSUME NEW t \in Task
               PROVE  Holds(status', un, t) <=> Holds(others, un, t) \/ t \in T
    OBVIOUS
  <2> HIDE DEF T
  <2> QED BY <1>4, <1>5 DEF Holds
<1>8. T \cap R = {}
  <2> HIDE DEF T
  <2> QED BY <1>4 DEF Readers, Holds
<1>9. IsFiniteSet(T) /\ Cardinality(T) = c
  BY <1>1, DistinctCount
<1>10. IsFiniteSet(R) /\ count = Cardinality(R) /\ (holder # None => R = {})
  BY DEF Consistent
<1>11. \A t \in Task : holder = t <=> Holds(others, un, t) /\ ki[t] = "exclusive"
  BY DEF Consistent
<1>12. Orderly(waiters', status')
  <2>1. waiters' \in Seq(Task) /\ Len(waiters') = Len(queue) - c
    BY <1>1, <1>3
  <2>2. \A i \in DOMAIN waiters' : i + c \in DOMAIN queue /\ waiters'[i] = queue[i + c]
    BY <1>1, <1>3
  <2>3. \A i \in DOMAIN waiters' : queue[i + c] \notin T
    <3> SUFFICES ASSUME NEW i \in DOMAIN waiters', NEW j \in 1..c, queue[i + c] = queue[j]
                 PROVE  FALSE
      OBVIOUS
    <3>1. i + c \in DOMAIN queue /\ j \in DOMAIN queue /\ i \in Nat \ {0}
      BY <1>1, <2>1, <2>2
    <3> QED BY <1>1, <3>1
  <2> HIDE DEF T
  <2>4. \A i \in DOMAIN waiters' : status'[waiters'[i]] = "queued"
    BY <1>1, <1>5, <2>1, <2>2, <2>3
  <2>5. \A i, j \in DOMAIN waiters' : waiters'[i] = waiters'[j] => i = j
    <3> SUFFICES ASSUME NEW i \in DOMAIN waiters', NEW j \in DOMAIN waiters',
                        waiters'[i] = waiters'[j]
                 PROVE  i = j
      OBVIOUS
    <3>1. i + c = j + c
      BY <1>1, <2>2
    <3> QED BY <2>1, <3>1
  <2> QED BY <2>1, <2>4, <2>5 DEF Orderly
<1>13. CASE c = 0 /\ (queue # <<>> => holder # None \/ (ki[queue[1]] = "exclusive" /\ count # 0))
  <2>1. T = {} /\ waiters' = queue /\ shared' = count /\ exclusive' = holder
    BY <1>1, <1>3, <1>13
  <2>2. Readers(status', un, ki) = R
    BY <1>7, <2>1 DEF Readers
  <2>3. Consistent(shared', exclusive', status', un, ki)
    BY <1>2, <1>7, <1>10, <1>11, <2>1, <2>2 DEF Consistent
  <2>4. Blocked(waiters', shared', exclusive', ki)
    BY <1>1, <1>2, <1>13, <2>1 DEF Blocked
  <2> QED BY <1>6, <1>12, <2>3, <2>4
<1>14. CASE c = 1 /\ holder = None /\ count = 0 /\ ki[queue[1]] = "exclusive"
  <2>1. T = {queue[1]}
    <3>1. 1..1 = {1}
      OBVIOUS
    <3> QED BY <1>14, <3>1
  <2>2. shared' = count /\ exclusive' = queue[1] /\ queue[1] \in Task
    BY <1>1, <1>3, <1>14
  <2>3. Readers(status', un, ki) = R
    BY <1>7, <1>14, <2>1 DEF Readers
  <2>4. R = {}
    BY <1>10, <1>14, FS_EmptySet
  <2>5. \A t \in Task : exclusive' = t <=> Holds(status', un, t) /\ ki[t] = "exclusive"
    <3>1. \A t \in Task : ~(Holds(others, un, t) /\ ki[t] = "exclusive")
      BY <1>11, <1>14, TaskAssumption
    <3> HIDE DEF T, R
    <3> QED BY <1>7, <1>14, <2>1, <2>2, <3>1
  <2>6. Consistent(shared', exclusive', status', un, ki)
    BY <1>10, <2>2, <2>3, <2>4, <2>5 DEF Consistent
  <2>7. exclusive' # None
    BY <2>2, TaskAssumption
  <2> QED BY <1>6, <1>12, <2>6, <2>7 DEF Blocked
<1>15. CASE /\ c >= 1 /\ holder = None
            /\ \A i \in 1..c : ki[queue[i]] = "shared"
            /\ c < Len(queue) => ki[queue[c + 1]] = "exclusive"
  <2>1. shared' = count + c /\ exclusive' = None
    BY <1>3, <1>15
  <2>2. Readers(status', un, ki) = R \cup T
    <3>1. \A t \in T : ki[t] = "shared"
      BY <1>15
    <3> HIDE DEF T
    <3> QED BY <1>4, <1>7, <3>1 DEF Readers
  <2>3. IsFiniteSet(R \cup T) /\ Cardinality(R \cup T) = count + c
    <3> HIDE DEF T, R
    <3>1. Cardinality(R \cap T) = 0
      <4>1. R \cap T = {}
        BY <1>8
      <4> QED BY <4>1, FS_EmptySet
    <3>2. IsFiniteSet(R \cup T)
          /\ Cardinality(R \cup T) = Cardinality(R) + Cardinality(T) - Cardinality(R \cap T)
      BY <1>9, <1>10, FS_Union
    <3> QED BY <1>2, <1>9, <1>10, <3>1, <3>2
  <2>4. \A t \in Task : ~(Holds(status', un, t) /\ ki[t] = "exclusive")
    <3>1. \A t \in T : ki[t] = "shared"
      BY <1>15
    <3>2. \A t \in Task : ~(Holds(others, un, t) /\ ki[t] = "exclusive")
      BY <1>11, <1>15, TaskAssumption
    <3> HIDE DEF T, R
    <3> QED BY <1>7, <3>1, <3>2
  <2>5. Consistent(shared', exclusive', status', un, ki)
    <3> HIDE DEF T, R
    <3> QED BY <2>1, <2>2, <2>3, <2>4, TaskAssumption DEF Consistent
  <2>6. Blocked(waiters', shared', exclusive', ki)
    <3> SUFFICES ASSUME waiters' # <<>>
                 PROVE  ki[Head(waiters')] = "exclusive" /\ shared' > 0
      BY DEF Blocked
    <3>1. c < Len(queue) /\ Head(waiters') = queue[c + 1]
      BY <1>1, <1>3
    <3> QED BY <1>2, <1>15, <2>1, <3>1
  <2> QED BY <1>6, <1>12, <2>5, <2>6
<1> QED BY <1>3, <1>13, <1>14, <1>15 DEF Grants
-----------------------------------------------------------------------------
(***************************************************************************)
(* What a step that does not touch the barrier keeps.                      *)
(***************************************************************************)
LEMMA SameHolders ==
    ASSUME NEW count, NEW holder, NEW st, NEW un, NEW ki, NEW st2, NEW un2, NEW ki2,
           Consistent(count, holder, st, un, ki),
           \A t \in Task : Holds(st2, un2, t) <=> Holds(st, un, t),
           \A t \in Task : Holds(st, un, t) => ki2[t] = ki[t]
    PROVE  Consistent(count, holder, st2, un2, ki2)
<1>1. Readers(st2, un2, ki2) = Readers(st, un, ki)
  BY DEF Readers
<1>2. \A t \in Task : holder = t <=> Holds(st2, un2, t) /\ ki2[t] = "exclusive"
  BY DEF Consistent
<1> QED BY <1>1, <1>2 DEF Consistent

LEMMA SameQueue ==
    ASSUME NEW queue, NEW count, NEW holder, NEW st, NEW ki, NEW st2, NEW ki2,
           Orderly(queue, st), Blocked(queue, count, holder, ki),
           \A t \in Task : st[t] = "queued" => st2[t] = "queued" /\ ki2[t] = ki[t]
    PROVE  Orderly(queue, st2) /\ Blocked(queue, count, holder, ki2)
<1>1. queue \in Seq(Task) /\ \A i \in DOMAIN queue : queue[i] \in Task
  BY DEF Orderly
<1>2. Orderly(queue, st2)
  BY <1>1 DEF Orderly
<1>3. ASSUME queue # <<>> PROVE ki2[Head(queue)] = ki[Head(queue)]
  <2>1. 1 \in DOMAIN queue /\ Head(queue) = queue[1]
    BY <1>1, <1>3
  <2> QED BY <1>1, <2>1 DEF Orderly
<1> QED BY <1>2, <1>3 DEF Blocked
-----------------------------------------------------------------------------
(***************************************************************************)
(* Each step keeps the invariant.                                          *)
(***************************************************************************)
LEMMA InitInv == Init => IndInv
<1> SUFFICES ASSUME Init PROVE IndInv
  OBVIOUS
<1>1. Readers(status, under, kind) = {} /\ \A t \in Task : ~Holds(status, under, t)
  BY DEF Init, Readers, Holds
<1>2. Consistent(shared, exclusive, status, under, kind)
  BY <1>1, FS_EmptySet, TaskAssumption DEF Init, Consistent
<1>3. Orderly(waiters, status) /\ Blocked(waiters, shared, exclusive, kind)
  BY DEF Init, Orderly, Blocked
<1>4. ActiveInv /\ JoinedInv
  BY DEF Init, ActiveInv, JoinedInv
<1>5. TypeOK
  BY DEF Init, TypeOK, Kind
<1> QED BY <1>2, <1>3, <1>4, <1>5 DEF IndInv

LEMMA ArriveInv == ASSUME IndInv, NEW t \in Task, Arrive(t) PROVE IndInv'
<1> USE DEF Arrive, barrier, leases
<1>1. TypeOK'
  BY DEF IndInv, TypeOK
<1>2. Consistent(shared, exclusive, status, under, kind)'
  <2>1. \A u \in Task : Holds(status', under', u) <=> Holds(status, under, u)
    BY DEF IndInv, TypeOK, Holds
  <2>2. \A u \in Task : Holds(status, under, u) => kind'[u] = kind[u]
    BY DEF IndInv, TypeOK, Holds
  <2>3. Consistent(shared, exclusive, status, under, kind)
    BY DEF IndInv
  <2>4. Consistent(shared, exclusive, status', under', kind')
    BY <2>1, <2>2, <2>3, SameHolders
  <2> QED BY <2>4
<1>3. Orderly(waiters, status)' /\ Blocked(waiters, shared, exclusive, kind)'
  BY SameQueue DEF IndInv, TypeOK
<1>4. ActiveInv' /\ JoinedInv'
  BY DEF IndInv, TypeOK, ActiveInv, JoinedInv
<1> QED BY <1>1, <1>2, <1>3, <1>4 DEF IndInv

LEMMA SpawnInv == ASSUME IndInv, NEW t \in Task, NEW child \in Task, Spawn(t, child) PROVE IndInv'
<1> USE DEF Spawn, barrier, leases
<1>1. TypeOK'
  BY DEF IndInv, TypeOK
<1>2. Consistent(shared, exclusive, status, under, kind)'
  <2>1. \A u \in Task : Holds(status', under', u) <=> Holds(status, under, u)
    BY DEF IndInv, TypeOK, Holds
  <2>2. \A u \in Task : Holds(status, under, u) => kind'[u] = kind[u]
    BY DEF IndInv, TypeOK, Holds
  <2>3. Consistent(shared, exclusive, status, under, kind)
    BY DEF IndInv
  <2>4. Consistent(shared, exclusive, status', under', kind')
    BY <2>1, <2>2, <2>3, SameHolders
  <2> QED BY <2>4
<1>3. Orderly(waiters, status)' /\ Blocked(waiters, shared, exclusive, kind)'
  BY SameQueue DEF IndInv, TypeOK
<1>4. ActiveInv' /\ JoinedInv'
  BY DEF IndInv, TypeOK, ActiveInv, JoinedInv
<1> QED BY <1>1, <1>2, <1>3, <1>4 DEF IndInv

LEMMA JoinInv == ASSUME IndInv, NEW t \in Task, NEW k \in Kind, Join(t, k) PROVE IndInv'
<1> USE DEF Join, Joins, barrier
<1>1. TypeOK'
  BY DEF IndInv, TypeOK
<1>2. context[t] \in Task /\ context[t] # t
  BY DEF IndInv, TypeOK, ActiveInv
<1>3. Consistent(shared, exclusive, status, under, kind)'
  <2>1. \A u \in Task : Holds(status', under', u) <=> Holds(status, under, u)
    BY <1>2 DEF IndInv, TypeOK, Holds
  <2>2. \A u \in Task : Holds(status, under, u) => kind'[u] = kind[u]
    BY DEF IndInv, TypeOK, Holds
  <2>3. Consistent(shared, exclusive, status, under, kind)
    BY DEF IndInv
  <2> HIDE DEF Join, Joins, barrier
  <2>4. Consistent(shared, exclusive, status', under', kind')
    BY <2>1, <2>2, <2>3, SameHolders
  <2> QED BY <2>4 DEF Join, barrier
<1>4. Orderly(waiters, status)' /\ Blocked(waiters, shared, exclusive, kind)'
  BY SameQueue DEF IndInv, TypeOK
<1>5. ActiveInv'
  BY DEF IndInv, TypeOK, ActiveInv
<1>6. JoinedInv'
  BY <1>2 DEF IndInv, TypeOK, JoinedInv
<1> QED BY <1>1, <1>3, <1>4, <1>5, <1>6 DEF IndInv

LEMMA RejectInv == ASSUME IndInv, NEW t \in Task, RejectUpgrade(t) PROVE IndInv'
<1> USE DEF RejectUpgrade, barrier, leases
<1>1. TypeOK'
  BY DEF IndInv, TypeOK, Kind
<1>2. Consistent(shared, exclusive, status, under, kind)'
  <2>1. \A u \in Task : Holds(status', under', u) <=> Holds(status, under, u)
    BY DEF IndInv, TypeOK, Holds
  <2>2. \A u \in Task : Holds(status, under, u) => kind'[u] = kind[u]
    BY DEF IndInv, TypeOK, Holds
  <2>3. Consistent(shared, exclusive, status, under, kind)
    BY DEF IndInv
  <2>4. Consistent(shared, exclusive, status', under', kind')
    BY <2>1, <2>2, <2>3, SameHolders
  <2> QED BY <2>4
<1>3. Orderly(waiters, status)' /\ Blocked(waiters, shared, exclusive, kind)'
  BY SameQueue DEF IndInv, TypeOK
<1>4. ActiveInv' /\ JoinedInv'
  BY DEF IndInv, TypeOK, ActiveInv, JoinedInv
<1> QED BY <1>1, <1>2, <1>3, <1>4 DEF IndInv

LEMMA EnterInv == ASSUME IndInv, NEW t \in Task, Enter(t) PROVE IndInv'
<1> USE DEF Enter, EntersAtOnce
<1>1. TypeOK'
  BY DEF IndInv, TypeOK, Kind
<1> DEFINE R == Readers(status, under, kind)
<1>2. t \notin R /\ Readers(status', under', kind') = R \cup {t}
  BY DEF IndInv, TypeOK, Readers, Holds
<1>3. IsFiniteSet(R) /\ shared = Cardinality(R)
  BY DEF IndInv, Consistent
<1>4. IsFiniteSet(R \cup {t}) /\ Cardinality(R \cup {t}) = shared + 1
  <2> HIDE DEF R
  <2> QED BY <1>2, <1>3, FS_AddElement
<1>5. \A u \in Task : ~(Holds(status', under', u) /\ kind'[u] = "exclusive")
  <2>1. \A u \in Task : ~(Holds(status, under, u) /\ kind[u] = "exclusive")
    BY TaskAssumption DEF IndInv, Consistent
  <2> QED BY <2>1 DEF IndInv, TypeOK, Holds
<1>6. Consistent(shared, exclusive, status, under, kind)'
  <2> HIDE DEF R
  <2> QED BY <1>2, <1>4, <1>5, TaskAssumption DEF Consistent
<1>7. Orderly(waiters, status)' /\ Blocked(waiters, shared, exclusive, kind)'
  BY DEF Orderly, Blocked
<1>8. ActiveInv' /\ JoinedInv'
  BY DEF IndInv, TypeOK, ActiveInv, JoinedInv
<1> QED BY <1>1, <1>6, <1>7, <1>8 DEF IndInv

LEMMA RunInv == ASSUME IndInv, NEW t \in Task, Run(t) PROVE IndInv'
<1> USE DEF Run, barrier
<1>1. TypeOK'
  BY DEF IndInv, TypeOK
<1>2. Consistent(shared, exclusive, status, under, kind)'
  <2>1. \A u \in Task : Holds(status', under', u) <=> Holds(status, under, u)
    BY DEF IndInv, TypeOK, Holds
  <2>2. \A u \in Task : Holds(status, under, u) => kind'[u] = kind[u]
    BY DEF IndInv, TypeOK, Holds
  <2>3. Consistent(shared, exclusive, status, under, kind)
    BY DEF IndInv
  <2>4. Consistent(shared, exclusive, status', under', kind')
    BY <2>1, <2>2, <2>3, SameHolders
  <2> QED BY <2>4
<1>3. Orderly(waiters, status)' /\ Blocked(waiters, shared, exclusive, kind)'
  BY SameQueue DEF IndInv, TypeOK
<1>4. ActiveInv' /\ JoinedInv'
  BY DEF IndInv, TypeOK, ActiveInv, JoinedInv
<1> QED BY <1>1, <1>2, <1>3, <1>4 DEF IndInv

LEMMA ReturnInv == ASSUME IndInv, NEW t \in Task, ReturnJoined(t) PROVE IndInv'
<1> USE DEF ReturnJoined, CallbackOver, barrier
<1>1. under[t] \in Task
  BY DEF IndInv, JoinedInv
<1>2. TypeOK'
  BY DEF IndInv, TypeOK
<1>3. Consistent(shared, exclusive, status, under, kind)'
  <2>1. \A u \in Task : Holds(status', under', u) <=> Holds(status, under, u)
    BY DEF IndInv, TypeOK, Holds
  <2>2. \A u \in Task : Holds(status, under, u) => kind'[u] = kind[u]
    BY DEF IndInv, TypeOK, Holds
  <2>3. Consistent(shared, exclusive, status, under, kind)
    BY DEF IndInv
  <2>4. Consistent(shared, exclusive, status', under', kind')
    BY <2>1, <2>2, <2>3, SameHolders
  <2> QED BY <2>4
<1>4. Orderly(waiters, status)' /\ Blocked(waiters, shared, exclusive, kind)'
  BY SameQueue DEF IndInv, TypeOK
<1>5. ActiveInv'
  BY DEF IndInv, TypeOK, ActiveInv
<1>6. JoinedInv'
  BY <1>1 DEF IndInv, TypeOK, JoinedInv
<1> QED BY <1>2, <1>3, <1>4, <1>5, <1>6 DEF IndInv

LEMMA SettleInv == ASSUME IndInv, NEW t \in Task, Settle(t) PROVE IndInv'
<1> USE DEF Settle, CallbackOver, barrier, leases
<1>1. TypeOK'
  BY DEF IndInv, TypeOK
<1>2. Consistent(shared, exclusive, status, under, kind)'
  <2>1. \A u \in Task : Holds(status', under', u) <=> Holds(status, under, u)
    BY DEF IndInv, TypeOK, Holds
  <2>2. \A u \in Task : Holds(status, under, u) => kind'[u] = kind[u]
    BY DEF IndInv, TypeOK, Holds
  <2>3. Consistent(shared, exclusive, status, under, kind)
    BY DEF IndInv
  <2>4. Consistent(shared, exclusive, status', under', kind')
    BY <2>1, <2>2, <2>3, SameHolders
  <2> QED BY <2>4
<1>3. Orderly(waiters, status)' /\ Blocked(waiters, shared, exclusive, kind)'
  BY SameQueue DEF IndInv, TypeOK
<1>4. ActiveInv' /\ JoinedInv'
  BY DEF IndInv, TypeOK, ActiveInv, JoinedInv
<1> QED BY <1>1, <1>2, <1>3, <1>4 DEF IndInv

LEMMA QueueInv == ASSUME IndInv, NEW t \in Task, NEW k \in Kind, Queue(t, k) PROVE IndInv'
<1> DEFINE asked == [kind EXCEPT ![t] = k]
           others == [status EXCEPT ![t] = "queued"]
           queue == Append(waiters, t)
<1>1. /\ status[t] = "ready" /\ kind' = asked
      /\ Drain(queue, shared, exclusive, asked, others)
      /\ UNCHANGED <<active, pending, context, under, awaits>>
  BY DEF Queue, leases
<1>2. /\ asked \in [Task -> Kind]
      /\ others \in [Task -> Status]
      /\ under \in [Task -> Task \cup {None}]
  BY DEF IndInv, TypeOK, Status
<1>3. \A u \in Task : u # t => others[u] = status[u] /\ asked[u] = kind[u]
  BY DEF IndInv, TypeOK
<1>4. others[t] = "queued"
  BY DEF IndInv, TypeOK
<1> HIDE DEF asked, others
<1>5. Consistent(shared, exclusive, others, under, asked)
  <2>1. \A u \in Task : Holds(others, under, u) <=> Holds(status, under, u)
    BY <1>1, <1>3, <1>4 DEF Holds
  <2>2. \A u \in Task : Holds(status, under, u) => asked[u] = kind[u]
    BY <1>1, <1>3 DEF Holds
  <2>3. Consistent(shared, exclusive, status, under, kind)
    BY DEF IndInv
  <2> QED BY <2>1, <2>2, <2>3, SameHolders
<1>6. Orderly(queue, others)
  <2>1. /\ waiters \in Seq(Task)
        /\ \A i \in DOMAIN waiters : status[waiters[i]] = "queued"
        /\ \A i, j \in DOMAIN waiters : waiters[i] = waiters[j] => i = j
    BY DEF IndInv, Orderly
  <2>2. \A i \in DOMAIN waiters : waiters[i] \in Task /\ waiters[i] # t
    BY <1>1, <2>1
  <2>3. /\ queue \in Seq(Task)
        /\ DOMAIN queue = 1..(Len(waiters) + 1)
        /\ \A i \in DOMAIN waiters : queue[i] = waiters[i]
        /\ queue[Len(waiters) + 1] = t
        /\ DOMAIN waiters = 1..Len(waiters) /\ Len(waiters) \in Nat
    BY <2>1
  <2>4. \A i \in DOMAIN queue : i \in DOMAIN waiters \/ i = Len(waiters) + 1
    BY <2>3
  <2> HIDE DEF queue
  <2>5. \A i \in DOMAIN queue : others[queue[i]] = "queued"
    BY <1>3, <1>4, <2>1, <2>2, <2>3, <2>4
  <2>6. \A i, j \in DOMAIN queue : queue[i] = queue[j] => i = j
    BY <2>1, <2>2, <2>3, <2>4
  <2> QED BY <2>3, <2>5, <2>6 DEF Orderly
<1> HIDE DEF queue
<1>7. /\ status' \in [Task -> Status]
      /\ \A u \in Task : status'[u] = others[u] \/ (others[u] = "queued" /\ status'[u] = "granted")
      /\ Consistent(shared', exclusive', status', under, asked)
      /\ Orderly(waiters', status')
      /\ Blocked(waiters', shared', exclusive', asked)
  BY <1>1, <1>2, <1>5, <1>6, DrainKeeps
<1>8. TypeOK'
  <2>1. shared' \in Nat /\ exclusive' \in Task \cup {None} /\ waiters' \in Seq(Task)
    BY <1>7, FS_CardinalityType DEF Consistent, Orderly
  <2> QED BY <1>1, <1>2, <1>7, <2>1 DEF IndInv, TypeOK, Status
<1>9. ActiveInv' /\ JoinedInv'
  BY <1>1, <1>3, <1>4, <1>7 DEF IndInv, TypeOK, ActiveInv, JoinedInv
<1> QED BY <1>1, <1>7, <1>8, <1>9 DEF IndInv

\* A release takes the lease out of the books; drain then grants the next ones.
LEMMA ReleaseSteps ==
    ASSUME IndInv, NEW t \in Task, Release(t)
    PROVE  \E count, holder :
             LET over == [status EXCEPT ![t] = "done"]
             IN  /\ Consistent(count, holder, over, under, kind)
                 /\ Drain(waiters, count, holder, kind, over)
<1> DEFINE over == [status EXCEPT ![t] = "done"]
           R == Readers(status, under, kind)
<1>1. over[t] = "done" /\ \A u \in Task : u # t => over[u] = status[u]
  BY DEF IndInv, TypeOK
<1>2. status[t] = "leaving"
  BY DEF Release
<1> HIDE DEF over
<1>3. \A u \in Task : Holds(over, under, u) <=> Holds(status, under, u) /\ u # t
  BY <1>1, <1>2 DEF Holds
<1>4. Holds(status, under, t)
  BY <1>2 DEF Holds
<1>5. /\ IsFiniteSet(R) /\ shared = Cardinality(R)
      /\ exclusive \in Task \cup {None}
      /\ \A u \in Task : exclusive = u <=> Holds(status, under, u) /\ kind[u] = "exclusive"
      /\ exclusive # None => R = {}
  BY DEF IndInv, Consistent
<1>6. Readers(over, under, kind) = R \ {t}
  BY <1>3 DEF Readers
<1>7. CASE kind[t] = "exclusive"
  <2>1. exclusive = t /\ R = {} /\ R \ {t} = {}
    <3>1. exclusive = t
      BY <1>4, <1>5, <1>7
    <3> QED BY <1>5, <3>1, TaskAssumption
  <2>2. \A u \in Task : None = u <=> Holds(over, under, u) /\ kind[u] = "exclusive"
    <3> HIDE DEF R
    <3> QED BY <1>3, <1>5, <2>1, TaskAssumption
  <2>3. Consistent(shared, None, over, under, kind)
    BY <1>5, <1>6, <2>1, <2>2 DEF Consistent
  <2>4. Drain(waiters, shared, None, kind, over)
    BY <1>7 DEF Release, over
  <2> QED BY <2>3, <2>4 DEF over
<1>8. CASE kind[t] # "exclusive"
  <2>1. kind[t] = "shared" /\ t \in R
    BY <1>4, <1>8 DEF IndInv, TypeOK, Kind, Readers
  <2>2. IsFiniteSet(R \ {t}) /\ Cardinality(R \ {t}) = shared - 1
    <3> HIDE DEF R
    <3> QED BY <1>5, <2>1, FS_RemoveElement
  <2>3. \A u \in Task : exclusive = u <=> Holds(over, under, u) /\ kind[u] = "exclusive"
    <3> HIDE DEF R
    <3> QED BY <1>3, <1>5, <1>8
  <2>4. Consistent(shared - 1, exclusive, over, under, kind)
    <3> HIDE DEF R
    <3>1. exclusive # None => R \ {t} = {}
      BY <1>5
    <3> QED BY <1>5, <1>6, <2>2, <2>3, <3>1 DEF Consistent
  <2>5. Drain(waiters, shared - 1, exclusive, kind, over)
    BY <1>8 DEF Release, over
  <2> QED BY <2>4, <2>5 DEF over
<1> QED BY <1>7, <1>8

LEMMA ReleaseInv == ASSUME IndInv, NEW t \in Task, Release(t) PROVE IndInv'
<1> DEFINE over == [status EXCEPT ![t] = "done"]
<1>1. /\ status[t] = "leaving" /\ active' = active \ {t}
      /\ UNCHANGED <<pending, kind, context, under, awaits>>
  BY DEF Release
<1>2. PICK count, holder : /\ Consistent(count, holder, over, under, kind)
                           /\ Drain(waiters, count, holder, kind, over)
  BY ReleaseSteps
<1>3. /\ kind \in [Task -> Kind]
      /\ over \in [Task -> Status]
      /\ under \in [Task -> Task \cup {None}]
  BY DEF IndInv, TypeOK, Status
<1>4. over[t] = "done" /\ \A u \in Task : u # t => over[u] = status[u]
  BY DEF IndInv, TypeOK
<1> HIDE DEF over
<1>5. Orderly(waiters, over)
  BY <1>1, <1>4 DEF IndInv, Orderly
<1>6. /\ status' \in [Task -> Status]
      /\ \A u \in Task : status'[u] = over[u] \/ (over[u] = "queued" /\ status'[u] = "granted")
      /\ Consistent(shared', exclusive', status', under, kind)
      /\ Orderly(waiters', status')
      /\ Blocked(waiters', shared', exclusive', kind)
  BY <1>2, <1>3, <1>5, DrainKeeps
<1>7. TypeOK'
  <2>1. shared' \in Nat /\ exclusive' \in Task \cup {None} /\ waiters' \in Seq(Task)
    BY <1>6, FS_CardinalityType DEF Consistent, Orderly
  <2> QED BY <1>1, <1>3, <1>6, <2>1 DEF IndInv, TypeOK, Status
<1>8. ActiveInv' /\ JoinedInv'
  BY <1>1, <1>4, <1>6 DEF IndInv, TypeOK, ActiveInv, JoinedInv
<1> QED BY <1>1, <1>6, <1>7, <1>8 DEF IndInv

LEMMA StepInv == IndInv /\ [Next]_vars => IndInv'
<1> SUFFICES ASSUME IndInv, [Next]_vars PROVE IndInv'
  OBVIOUS
<1>1. CASE UNCHANGED vars
  BY <1>1 DEF vars, barrier, leases, tasks, IndInv, TypeOK, Consistent, Readers, Holds,
              Orderly, Blocked, ActiveInv, JoinedInv
<1>2. ASSUME NEW t \in Task, Arrive(t) PROVE IndInv'
  BY <1>2, ArriveInv
<1>3. ASSUME NEW t \in Task, NEW child \in Task, Spawn(t, child) PROVE IndInv'
  BY <1>3, SpawnInv
<1>4. ASSUME NEW t \in Task, Call(t) PROVE IndInv'
  BY <1>4, EnterInv, RejectInv, JoinInv, QueueInv DEF Call
<1>5. ASSUME NEW t \in Task, Run(t) \/ ReturnJoined(t) \/ Settle(t) \/ Release(t) PROVE IndInv'
  BY <1>5, RunInv, ReturnInv, SettleInv, ReleaseInv
<1> QED BY <1>1, <1>2, <1>3, <1>4, <1>5 DEF Next, Proceed
-----------------------------------------------------------------------------
(***************************************************************************)
(* What follows for every execution.                                       *)
(***************************************************************************)
\* The strengthening holds in every reachable state of the barrier.
THEOREM Inductive == Spec => []IndInv
<1>1. Init => IndInv
  BY InitInv
<1>2. IndInv /\ [Next]_vars => IndInv'
  BY StepInv
<1> QED BY <1>1, <1>2, PTL DEF Spec

\* The counter, the queue and the leases keep their shape: in particular no release
\* takes the counter of shared leases below zero, which releaseShared refuses.
THEOREM TypeCorrect == Spec => []TypeOK
<1>1. IndInv => TypeOK
  BY DEF IndInv
<1> QED BY <1>1, Inductive, PTL

\* withExclusiveWrites runs its callback alone, and the barrier counts the leases
\* that were granted and not yet released, whatever nests and whatever is awaited.
THEOREM ExclusionHolds == Spec => []LeaseExclusion
<1>1. IndInv => LeaseExclusion
  <2> SUFFICES ASSUME IndInv PROVE LeaseExclusion
    OBVIOUS
  <2>1. \A t : Holder(t) <=> Holds(status, under, t)
    BY DEF Holder, Holds
  <2>2. {t \in Task : Holder(t) /\ kind[t] = "shared"} = Readers(status, under, kind)
    BY <2>1 DEF Readers
  <2>3. /\ shared = Cardinality(Readers(status, under, kind))
        /\ \A t \in Task : exclusive = t <=> Holder(t) /\ kind[t] = "exclusive"
        /\ exclusive # None => Readers(status, under, kind) = {}
    BY <2>1 DEF IndInv, Consistent
  <2>4. ASSUME NEW t \in Task, NEW u \in Task, Holder(t), Holder(u), t # u
        PROVE  kind[t] = "shared"
    <3>1. kind[t] \in Kind /\ kind[u] \in Kind
      BY DEF IndInv, TypeOK
    <3>2. CASE kind[t] = "exclusive"
      <4>1. exclusive = t /\ exclusive # u
        BY <2>3, <2>4, <3>2
      <4>2. kind[u] = "shared"
        BY <2>3, <2>4, <3>1, <4>1 DEF Kind
      <4>3. u \in Readers(status, under, kind) /\ exclusive # None
        BY <2>1, <2>4, <4>1, <4>2, TaskAssumption DEF Readers
      <4> QED BY <2>3, <4>3
    <3> QED BY <3>1, <3>2 DEF Kind
  <2> QED BY <2>2, <2>3, <2>4 DEF LeaseExclusion
<1> QED BY <1>1, Inductive, PTL

\* Whenever a call waits, a lease that excludes the head of the queue is held: drain
\* runs after every change that could admit somebody.
THEOREM NobodyWaitsInVain == Spec => []NoLostWakeup
<1>1. IndInv => NoLostWakeup
  BY DEF IndInv, Blocked, NoLostWakeup
<1> QED BY <1>1, Inductive, PTL

\* A lease waits for the callbacks that joined it before it gives way
\* (settleWriteDescendants).
THEOREM LeaseSettles == Spec => Settled
<1> DEFINE Waits == \A t \in Task : status[t] = "running" /\ status'[t] = "leaving" =>
                      \A u \in Task : status[u] = "running" /\ u # t => under[u] # t
<1>1. IndInv /\ [Next]_vars => [Waits]_vars
  <2> SUFFICES ASSUME IndInv, Next, NEW t \in Task, NEW u \in Task,
                      status[t] = "running", status'[t] = "leaving",
                      status[u] = "running", u # t
               PROVE  under[u] # t
    BY Zenon
  <2>1. status \in [Task -> Status]
    BY DEF IndInv, TypeOK, Status
  <2>2. under[u] # u => u \in pending[under[u]]
    BY DEF IndInv, JoinedInv
  <2>3. Settle(t)
    <3>1. PICK v \in Task : Arrive(v) \/ Proceed(v) \/ \E child \in Task : Spawn(v, child)
      BY DEF Next
    <3>2. ~Arrive(v) /\ ~\E child \in Task : Spawn(v, child)
      BY <2>1 DEF Arrive, Spawn
    <3>3. ~Enter(v) /\ ~RejectUpgrade(v) /\ ~\E k \in Kind : Join(v, k)
      BY <2>1 DEF Enter, RejectUpgrade, Join
    <3>4. ASSUME NEW k \in Kind, Queue(v, k) PROVE FALSE
      BY <2>1, <3>4 DEF Queue, Drain
    <3>5. ~Run(v) /\ ~ReturnJoined(v)
      BY <2>1 DEF Run, ReturnJoined
    <3>6. ~Release(v)
      BY <2>1 DEF Release, Drain
    <3>7. Settle(v)
      BY <3>1, <3>2, <3>3, <3>4, <3>5, <3>6 DEF Proceed, Call
    <3> QED BY <2>1, <3>7 DEF Settle
  <2> QED BY <2>2, <2>3 DEF Settle
<1> QED BY <1>1, Inductive, PTL DEF Spec, Settled

\* Writes are admitted in FIFO order: an exclusive call is not starved by shared ones
\* that arrive behind it, and a shared one does not slip past a waiting exclusive one.
THEOREM FirstComeFirstServed == Spec => NoOvertaking
<1> DEFINE Order == \A t, u \in Task :
                      ~Holder(t) /\ Holder(t)' /\ Ahead(u, t) => Holder(u) \/ Holder(u)'
<1>1. ASSUME IndInv, Next, NEW t \in Task, NEW u \in Task,
             ~Holder(t), Holder(t)', Ahead(u, t)
      PROVE  Holder(u)'
  <2> DEFINE Old(v) == Holds(status, under, v)
  <2>1. ~Old(t) /\ Holds(status', under', t)
    BY <1>1 DEF Holder, Holds
  <2>2. PICK i \in DOMAIN waiters : waiters[i] = u /\ \A j \in 1..i : waiters[j] # t
    BY <1>1 DEF Ahead
  <2>3. /\ waiters \in Seq(Task)
        /\ \A m, n \in DOMAIN waiters : waiters[m] = waiters[n] => m = n
        /\ status \in [Task -> Status] /\ under \in [Task -> Task \cup {None}]
        /\ kind \in [Task -> Kind]
        /\ shared \in Nat /\ exclusive \in Task \cup {None}
    BY <1>1 DEF IndInv, TypeOK, Orderly, Status
  <2>4. ASSUME NEW x \in Task, NEW k \in Kind, Queue(x, k) PROVE Holds(status', under', u)
    <3> DEFINE asked == [kind EXCEPT ![x] = k]
               others == [status EXCEPT ![x] = "queued"]
               queue == Append(waiters, x)
    <3>1. /\ status[x] = "ready" /\ under' = under
          /\ Drain(queue, shared, exclusive, asked, others)
      BY <2>4 DEF Queue
    <3>2. asked \in [Task -> Kind] /\ others \in [Task -> Status]
      BY <2>3 DEF Status
    <3>3. ~Holds(others, under, t)
      BY <2>1, <2>3, <3>1 DEF Holds
    <3>4. Orderly(waiters, status)
      BY <1>1 DEF IndInv
    <3>5. /\ queue \in Seq(Task)
          /\ \A m, n \in DOMAIN queue : queue[m] = queue[n] => m = n
          /\ i \in DOMAIN queue /\ queue[i] = u /\ \A j \in 1..i : queue[j] # t
      BY <2>2, <2>3, <3>1, <3>4 DEF Orderly
    <3> HIDE DEF asked, others, queue
    <3> QED BY <2>1, <2>3, <3>1, <3>2, <3>3, <3>5, GrantOrder
  <2>5. ASSUME NEW x \in Task, Release(x) PROVE Holds(status', under', u)
    <3> DEFINE over == [status EXCEPT ![x] = "done"]
    <3>1. PICK count, holder : /\ Consistent(count, holder, over, under, kind)
                               /\ Drain(waiters, count, holder, kind, over)
      BY <1>1, <2>5, ReleaseSteps
    <3>2. count \in Nat /\ holder \in Task \cup {None}
      BY <3>1, FS_CardinalityType DEF Consistent
    <3>3. over \in [Task -> Status] /\ under' = under
      BY <2>3, <2>5 DEF Status, Release
    <3>4. ~Holds(over, under, t)
      BY <2>1, <2>3 DEF Holds
    <3> HIDE DEF over
    <3> QED BY <2>1, <2>2, <2>3, <3>1, <3>2, <3>3, <3>4, GrantOrder
  <2>6. ASSUME NEW x \in Task, Enter(x) PROVE FALSE
    BY <2>2, <2>6 DEF Enter, EntersAtOnce
  <2>7. ASSUME NEW x \in Task, NEW child \in Task, Arrive(x) \/ Spawn(x, child) PROVE FALSE
    BY <2>1, <2>3, <2>7 DEF Arrive, Spawn, Holds
  <2>8. ASSUME NEW x \in Task, NEW k \in Kind, Join(x, k) PROVE FALSE
    <3>1. context[x] # x
      BY <1>1, <2>8 DEF Join, Joins, IndInv, TypeOK, ActiveInv
    <3> QED BY <2>1, <2>3, <2>8, <3>1 DEF Join, Holds
  <2>9. ASSUME NEW x \in Task, RejectUpgrade(x) \/ Run(x) \/ ReturnJoined(x) \/ Settle(x)
        PROVE  FALSE
    BY <2>1, <2>3, <2>9 DEF RejectUpgrade, Run, ReturnJoined, Settle, CallbackOver, Holds
  <2>10. Holds(status', under', u)
    BY <1>1, <2>4, <2>5, <2>6, <2>7, <2>8, <2>9 DEF Next, Proceed, Call
  <2> QED BY <2>10 DEF Holder, Holds
<1>2. IndInv /\ [Next]_vars => [Order]_vars
  BY <1>1, Zenon
<1> QED BY <1>2, Inductive, PTL DEF Spec, NoOvertaking
=============================================================================
