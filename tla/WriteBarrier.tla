---------------------------- MODULE WriteBarrier ----------------------------
(***************************************************************************)
(* Logical write admission of the RocksDB store (src/rocksdb/store.js):    *)
(* withSharedWrite lets writes run side by side, withExclusiveWrites lets  *)
(* maintenance (compaction, migration) run alone, a FIFO barrier decides   *)
(* who is next, and a call made under a lease that is still active joins   *)
(* that lease instead of queueing.                                         *)
(*                                                                         *)
(* A task is one asynchronous flow that makes one call.  The lease of a    *)
(* call is named by the task that acquired it.  A task started by the      *)
(* callback of another one inherits its lease (AsyncLocalStorage), and may *)
(* make its call while its parent awaits it, or long after the parent has  *)
(* returned.  Every step below is one synchronous piece of code: other     *)
(* tasks run between any two of them.                                      *)
(***************************************************************************)
EXTENDS Naturals, Sequences, FiniteSets

CONSTANTS
    Task,    \* asynchronous flows
    None     \* no task

ASSUME TaskAssumption == None \notin Task

VARIABLES
    \* WriteBarrier
    shared,      \* number of shared leases
    exclusive,   \* the task that holds the exclusive lease, or None
    waiters,     \* FIFO of the tasks that wait
    \* The leases
    active,      \* lease.active
    pending,     \* lease.pending: its registered descendants
    \* The tasks
    status,      \* progress of the task
    kind,        \* what it asked for
    context,     \* the lease it inherited
    under,       \* the lease its callback runs under
    awaits       \* the task its callback awaits

barrier == <<shared, exclusive, waiters>>
leases  == <<active, pending>>
tasks   == <<status, kind, context, under, awaits>>
vars    == <<barrier, leases, tasks>>

Kind == {"shared", "exclusive"}

Init ==
    /\ shared = 0
    /\ exclusive = None
    /\ waiters = <<>>
    /\ active = {}
    /\ pending = [t \in Task |-> {}]
    /\ status = [t \in Task |-> "absent"]
    /\ kind = [t \in Task |-> "shared"]
    /\ context = [t \in Task |-> None]
    /\ under = [t \in Task |-> None]
    /\ awaits = [t \in Task |-> None]
-----------------------------------------------------------------------------
(***************************************************************************)
(* WriteBarrier.drain: the exclusive waiter at the head when nothing runs, *)
(* or all shared waiters up to the next exclusive one.                     *)
(***************************************************************************)
AdmitOne(queue, count, holder, asked) ==  \* mutant: admits one shared waiter at a time
    IF queue = <<>> \/ holder # None \/ (asked[Head(queue)] = "exclusive" /\ count # 0)
    THEN {} ELSE {1}

AdmitBeside(queue, count, holder, asked) ==  \* mutant: does not look at the shared leases
    IF queue = <<>> \/ holder # None THEN {}
    ELSE IF asked[Head(queue)] = "exclusive" THEN {1}
    ELSE {i \in DOMAIN queue : \A j \in 1..i : asked[queue[j]] = "shared"}

\* The positions of the waiters it admits.
Admitted(queue, count, holder, asked) ==
    IF queue = <<>> \/ holder # None THEN {}
    ELSE IF asked[Head(queue)] = "exclusive" THEN IF count = 0 THEN {1} ELSE {}
    ELSE {i \in DOMAIN queue : \A j \in 1..i : asked[queue[j]] = "shared"}

\* The barrier after drain, and the tasks whose promise it resolves; the status
\* of the other tasks is "others".
Drain(queue, count, holder, asked, others) ==
    LET positions == Admitted(queue, count, holder, asked)
        admitted  == {queue[i] : i \in positions}
        writers   == {t \in admitted : asked[t] = "exclusive"}
    IN  /\ waiters' = SubSeq(queue, Cardinality(positions) + 1, Len(queue))
        /\ shared' = count + Cardinality(admitted \ writers)
        /\ exclusive' = IF writers = {} THEN holder ELSE CHOOSE t \in writers : TRUE
        /\ status' = [t \in Task |-> IF t \in admitted THEN "granted" ELSE others[t]]

\* A request that reaches the database from outside: no lease is inherited.
Arrive(t) ==
    /\ status[t] = "absent"
    /\ status' = [status EXCEPT ![t] = "ready"]
    /\ UNCHANGED <<barrier, leases, kind, context, under, awaits>>

\* A callback starts another asynchronous flow, and may await it.
Spawn(t, child) ==
    /\ status[t] = "running"
    /\ status[child] = "absent"
    /\ status' = [status EXCEPT ![child] = "ready"]
    /\ context' = [context EXCEPT ![child] = under[t]]
    /\ \/ awaits[t] = None /\ awaits' = [awaits EXCEPT ![t] = child]
       \/ UNCHANGED awaits
    /\ UNCHANGED <<barrier, leases, kind, under>>
-----------------------------------------------------------------------------
(***************************************************************************)
(* withSharedWrite and withExclusiveWrites, up to their first await.       *)
(***************************************************************************)
NeverJoins(t, k) == FALSE  \* mutant: nested calls queue like any other

\* A shared call joins any active lease, an exclusive call an exclusive one.
Joins(t, k) ==
    /\ context[t] \in active
    /\ k = "exclusive" => kind[context[t]] = "exclusive"

Join(t, k) ==
    /\ status[t] = "ready"
    /\ Joins(t, k)
    /\ status' = [status EXCEPT ![t] = "running"]
    /\ kind' = [kind EXCEPT ![t] = k]
    /\ under' = [under EXCEPT ![t] = context[t]]
    /\ pending' = [pending EXCEPT ![context[t]] = @ \cup {t}]
    /\ UNCHANGED <<barrier, active, context, awaits>>

\* "A shared write lease cannot be upgraded to an exclusive write lease."
Upgrades(t, k) == context[t] \in active /\ kind[context[t]] = "shared" /\ k = "exclusive"

RejectUpgrade(t) ==
    /\ status[t] = "ready"
    /\ Upgrades(t, "exclusive")
    /\ status' = [status EXCEPT ![t] = "done"]
    /\ kind' = [kind EXCEPT ![t] = "exclusive"]
    /\ UNCHANGED <<barrier, leases, context, under, awaits>>

EntersPast == exclusive = None  \* mutant: does not look at the waiters

\* tryAcquireShared
EntersAtOnce == exclusive = None /\ waiters = <<>>

Enter(t) ==
    /\ status[t] = "ready"
    /\ ~Joins(t, "shared")
    /\ EntersAtOnce
    /\ shared' = shared + 1
    /\ status' = [status EXCEPT ![t] = "running"]
    /\ kind' = [kind EXCEPT ![t] = "shared"]
    /\ under' = [under EXCEPT ![t] = t]
    /\ active' = active \cup {t}
    /\ UNCHANGED <<exclusive, waiters, pending, context, awaits>>

\* acquireShared, acquireExclusive
Queue(t, k) ==
    /\ status[t] = "ready"
    /\ ~Joins(t, k)
    /\ ~Upgrades(t, k)
    /\ k = "shared" => ~EntersAtOnce
    /\ LET asked == [kind EXCEPT ![t] = k]
       IN  /\ kind' = asked
           /\ Drain(Append(waiters, t), shared, exclusive, asked,
                    [status EXCEPT ![t] = "queued"])
    /\ UNCHANGED <<leases, context, under, awaits>>

\* The promise of the waiter resolves: its callback runs under a new lease.
Run(t) ==
    /\ status[t] = "granted"
    /\ status' = [status EXCEPT ![t] = "running"]
    /\ under' = [under EXCEPT ![t] = t]
    /\ active' = active \cup {t}
    /\ UNCHANGED <<barrier, pending, kind, context, awaits>>
-----------------------------------------------------------------------------
(***************************************************************************)
(* The end of a call, by a value or an error: a descendant leaves its      *)
(* lease; the lease itself waits for its descendants (settleWrite-         *)
(* Descendants), and gives way one turn of the event loop later.           *)
(***************************************************************************)
CallbackOver(t) ==
    /\ status[t] = "running"
    /\ awaits[t] # None => status[awaits[t]] = "done"

ReturnJoined(t) ==
    /\ CallbackOver(t)
    /\ under[t] # t
    /\ status' = [status EXCEPT ![t] = "done"]
    /\ pending' = [pending EXCEPT ![under[t]] = @ \ {t}]
    /\ UNCHANGED <<barrier, active, kind, context, under, awaits>>

Settle(t) ==
    /\ CallbackOver(t)
    /\ under[t] = t
    /\ pending[t] = {}
    /\ status' = [status EXCEPT ![t] = "leaving"]
    /\ UNCHANGED <<barrier, leases, kind, context, under, awaits>>

ReleaseShared(t) ==  \* mutant: counts every release as the release of a shared lease
    /\ status[t] = "leaving"
    /\ active' = active \ {t}
    /\ LET holder == IF kind[t] = "exclusive" THEN None ELSE exclusive
       IN  Drain(waiters, shared - 1, holder, kind, [status EXCEPT ![t] = "done"])
    /\ UNCHANGED <<pending, kind, context, under, awaits>>

Release(t) ==
    /\ status[t] = "leaving"
    /\ active' = active \ {t}
    /\ LET over == [status EXCEPT ![t] = "done"]
       IN  IF kind[t] = "exclusive" THEN Drain(waiters, shared, None, kind, over)
           ELSE Drain(waiters, shared - 1, exclusive, kind, over)
    /\ UNCHANGED <<pending, kind, context, under, awaits>>

Call(t) ==
    \/ Enter(t)
    \/ RejectUpgrade(t)
    \/ \E k \in Kind : Join(t, k) \/ Queue(t, k)
Proceed(t) ==
    Call(t) \/ Run(t) \/ ReturnJoined(t) \/ Settle(t) \/ Release(t)

Next == \E t \in Task : Arrive(t) \/ Proceed(t) \/ \E child \in Task : Spawn(t, child)

Spec == Init /\ [][Next]_vars

\* The event loop runs every flow that can run; callbacks end.
FairSpec == Spec /\ \A t \in Task : WF_vars(Proceed(t))
-----------------------------------------------------------------------------
TypeOK ==
    /\ shared \in Nat
    /\ exclusive \in Task \cup {None}
    /\ waiters \in Seq(Task)
    /\ active \subseteq Task
    /\ pending \in [Task -> SUBSET Task]
    /\ status \in [Task -> {"absent", "ready", "queued", "granted", "running", "leaving", "done"}]
    /\ kind \in [Task -> Kind]
    /\ context \in [Task -> Task \cup {None}]
    /\ under \in [Task -> Task \cup {None}]
    /\ awaits \in [Task -> Task \cup {None}]

\* The tasks that hold a lease of their own.
Holder(t) ==
    \/ status[t] \in {"granted", "leaving"}
    \/ status[t] = "running" /\ under[t] = t

\* An exclusive lease excludes every other lease, from its grant to its release,
\* and the barrier counts the leases right.
LeaseExclusion ==
    /\ \A t, u \in Task : Holder(t) /\ Holder(u) /\ t # u =>
         kind[t] = "shared" /\ kind[u] = "shared"
    /\ shared = Cardinality({t \in Task : Holder(t) /\ kind[t] = "shared"})
    /\ \A t \in Task : exclusive = t <=> Holder(t) /\ kind[t] = "exclusive"

\* Nobody waits without a reason: whenever a call queues, a lease that excludes the
\* head of the queue is held.
NoLostWakeup ==
    waiters # <<>> =>
      exclusive # None \/ (kind[Head(waiters)] = "exclusive" /\ shared > 0)

\* "writes resume in FIFO order": a call that acquires a lease never overtakes one
\* that has been waiting in front of it.
Ahead(u, t) ==
    \E i \in DOMAIN waiters : waiters[i] = u /\ \A j \in 1..i : waiters[j] # t
NoOvertaking ==
    [][\A t, u \in Task :
         ~Holder(t) /\ Holder(t)' /\ Ahead(u, t) => Holder(u) \/ Holder(u)']_vars

\* A lease outlives the callbacks that joined it before its own callback returned
\* and the lease settled: none of them runs under a lease that was released, but for
\* those that joined in the last turn of the event loop.
Settled == [][\A t \in Task : status[t] = "running" /\ status'[t] = "leaving" =>
                \A u \in Task : status[u] = "running" /\ u # t => under[u] # t]_vars

\* Every call returns, in spite of nesting under a lease with an exclusive call
\* waiting behind it.
EveryCallReturns ==
    \A t \in Task : status[t] \in {"ready", "queued", "granted", "running", "leaving"}
                      ~> status[t] = "done"

\* "Exclude logical writes while maintenance takes a stable scan-and-rewrite view":
\* no write runs beside the callback of another exclusive lease.
WritesExcluded ==
    \A t, u \in Task :
      status[t] = "running" /\ status[u] = "running" /\ kind[under[t]] = "exclusive"
        => under[u] = under[t]
=============================================================================
