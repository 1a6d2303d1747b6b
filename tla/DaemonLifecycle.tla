--------------------------- MODULE DaemonLifecycle ---------------------------
(***************************************************************************)
(* The processes behind one store: who owns it, who serves its socket, and *)
(* how the workers of the facades start, replace and restart a daemon      *)
(* (src/daemon/server.js, src/daemon-client/worker.js,                     *)
(* bin/context-windowd.js).                                                *)
(*                                                                         *)
(* The lock of the store directory is released by the kernel when its      *)
(* process dies; the file of the socket stays behind.  A process that gets *)
(* SIGTERM before it is ready, or a second time, is killed by it.  What a  *)
(* connection carries is module DaemonServer.                              *)
(***************************************************************************)
EXTENDS Naturals

CONSTANTS
    Process,       \* daemon processes, each launched once at most
    Old,           \* those that lack a capability the workers require
    Worker,        \* workers of the facades
    MaxCrashes,    \* bound: processes killed from outside
    None

VARIABLES
    proc,          \* [Process -> step]
    handled,       \* processes whose one SIGTERM handler is used up
    killed,        \* processes killed by SIGTERM while they closed
    lock,          \* owner of .context-windowd.lock
    store,         \* processes with the store open
    listening,     \* processes that listen
    path,          \* whose socket is at the socket path
    marker,        \* the upgrade marker, a set with one element at most
    worker,        \* [Worker -> step, daemon, attempt and signalled of ensureClient]
    crashes

files == <<lock, store, listening, path>>
vars == <<proc, handled, killed, files, marker, worker, crashes>>

Starting == {"lock", "store", "prepare", "clear", "listen"}
Failing == {"fail", "failCheck", "failUnlink"}
Closing == {"drain", "check", "unlink"}
Alive(p) == proc[p] \notin {"unborn", "gone"}
Live(q) == q \in listening

NewWorker == [step |-> "want", daemon |-> None, attempt |-> 1, signalled |-> {}]

\* Nothing runs, perhaps with the socket of a daemon that was killed, or one daemon is up.
Init ==
    /\ \E p \in Process, up \in BOOLEAN, stale \in BOOLEAN :
         /\ up \/ p \notin Old
         /\ stale => ~up /\ MaxCrashes > 0
         /\ proc = [q \in Process |-> IF q # p THEN "unborn" ELSE IF up THEN "up"
                                      ELSE IF stale THEN "gone" ELSE "unborn"]
         /\ lock = IF up THEN p ELSE None
         /\ store = IF up THEN {p} ELSE {}
         /\ listening = store
         /\ path = IF up \/ stale THEN p ELSE None
         /\ marker \in {{}} \union {{[target |-> q, fresh |-> FALSE]} : q \in Process \ {p}}
    /\ handled = {}
    /\ killed = {}
    /\ worker = [w \in Worker |-> NewWorker]
    /\ crashes = 0
-----------------------------------------------------------------------------
(***************************************************************************)
(* A daemon process.                                                       *)
(***************************************************************************)
Goto(p, step) == proc' = [proc EXCEPT ![p] = step]

Unchanged == UNCHANGED <<handled, killed, marker, worker, crashes>>

AcquireLock(p) ==
    /\ proc[p] = "lock"
    /\ IF lock = None THEN lock' = p /\ Goto(p, "store")
                      ELSE Goto(p, "fail") /\ UNCHANGED lock
    /\ UNCHANGED <<store, listening, path>> /\ Unchanged

\* createStore may fail.
OpenStore(p) ==
    /\ proc[p] = "store"
    /\ \/ Goto(p, "prepare") /\ store' = store \union {p}
       \/ Goto(p, "fail") /\ UNCHANGED store
    /\ UNCHANGED <<lock, listening, path>> /\ Unchanged

\* prepareSocket, up to the answer of the socket that is there.
PrepareSocket(p) ==
    /\ proc[p] = "prepare"
    /\ Goto(p, IF path = None THEN "listen" ELSE IF Live(path) THEN "fail" ELSE "clear")
    /\ UNCHANGED files /\ Unchanged

\* What is left of the old socket is removed, and the new one bound.
Listen(p) ==
    /\ proc[p] \in {"clear", "listen"}
    /\ IF proc[p] = "listen" /\ path # None
         THEN Goto(p, "fail") /\ UNCHANGED <<listening, path>>
         ELSE Goto(p, "up") /\ path' = p /\ listening' = listening \union {p}
    /\ UNCHANGED <<lock, store>> /\ Unchanged

\* close(), on a signal, a request or when idle.  Closing a socket unlinks its path.
StopListening(p) ==
    /\ Goto(p, "drain")
    /\ listening' = listening \ {p}
    /\ path' = None
    /\ UNCHANGED <<lock, store>>

\* releaseResources: when everything has drained, the runtime and the store are closed.
CloseStore(p) ==
    /\ proc[p] \in {"fail", "drain"}
    /\ Goto(p, IF proc[p] = "fail" THEN "failCheck" ELSE "check")
    /\ store' = store \ {p}
    /\ UNCHANGED <<lock, listening, path>> /\ Unchanged

Quit(p, q) ==
    /\ Goto(p, "gone")
    /\ path' = q
    /\ lock' = IF lock = p THEN None ELSE lock
    /\ UNCHANGED <<store, listening>>

\* A socket nobody answers is to be removed, also by a process that was refused the lock.
CheckSocket(p) ==
    /\ proc[p] \in {"check", "failCheck"}
    /\ IF path # None /\ ~Live(path)
         THEN Goto(p, IF proc[p] = "check" THEN "unlink" ELSE "failUnlink") /\ UNCHANGED files
         ELSE Quit(p, path)
    /\ Unchanged

\* By its path, whatever is there now; then the lock goes.
RemoveSocket(p) ==
    /\ proc[p] \in {"unlink", "failUnlink"}
    /\ Quit(p, None)
    /\ Unchanged

\* The process dies at once.
Die(p) ==
    /\ Goto(p, "gone")
    /\ lock' = IF lock = p THEN None ELSE lock
    /\ store' = store \ {p}
    /\ listening' = listening \ {p}
    /\ UNCHANGED path

\* SIGTERM.  The handler is there once the daemon is ready, and serves once.
Terminate(p) ==
    \/ /\ proc[p] = "up"
       /\ StopListening(p)
       /\ handled' = handled \union {p}
       /\ UNCHANGED killed
    \/ /\ proc[p] \in Closing /\ p \notin handled
       /\ handled' = handled \union {p}
       /\ UNCHANGED <<proc, files, killed>>
    \/ /\ proc[p] \in Starting \union Failing \/ (proc[p] \in Closing /\ p \in handled)
       /\ Die(p)
       /\ killed' = killed \union ({p} \intersect handled)
       /\ UNCHANGED handled
    \/ ~Alive(p) /\ UNCHANGED <<proc, files, handled, killed>>

\* Nobody is connected for idleShutdownMs.
IdleShutdown(p) ==
    /\ proc[p] = "up"
    /\ \A w \in Worker : worker[w].step = "connected" => worker[w].daemon # p
    /\ StopListening(p) /\ Unchanged

Crash(p) ==
    /\ crashes < MaxCrashes
    /\ Alive(p)
    /\ Die(p)
    /\ crashes' = crashes + 1
    /\ UNCHANGED <<handled, killed, marker, worker>>
-----------------------------------------------------------------------------
(***************************************************************************)
(* A worker: connect, or launch a daemon and try again until the deadline; *)
(* retire a daemon that is too old; restart one on request.                *)
(***************************************************************************)
To(w, step) == worker' = [worker EXCEPT ![w].step = step]
WithoutProcesses == UNCHANGED <<proc, handled, killed, files, crashes>>

\* tryConnect
Connect(w) ==
    /\ worker[w].step = "want"
    /\ IF path = None \/ ~Live(path)
         THEN To(w, "away") /\ UNCHANGED marker
         ELSE IF path \in Old
         THEN /\ worker' = [worker EXCEPT ![w].daemon = path, ![w].attempt = 1,
                              ![w].step = IF path \in worker[w].signalled THEN "away" ELSE "link"]
              /\ UNCHANGED marker
         ELSE /\ worker' = [worker EXCEPT ![w].daemon = path, ![w].step = "connected"]
              /\ marker' = {}
    /\ WithoutProcesses

\* launchDaemon; losers of the lock exit by themselves.
Launch(w) ==
    /\ worker[w].step = "away"
    /\ \E p \in Process \ Old : proc[p] = "unborn" /\ Goto(p, "lock")
    /\ worker' = [worker EXCEPT ![w].step = "want", ![w].daemon = None]
    /\ UNCHANGED <<handled, killed, files, marker, crashes>>

Again(w) ==
    /\ worker[w].step = "away"
    /\ worker' = [worker EXCEPT ![w].step = "want", ![w].daemon = None]
    /\ UNCHANGED marker /\ WithoutProcesses

DeadlineOver(w) ==
    /\ worker[w].step = "away"
    /\ worker' = [worker EXCEPT ![w].step = "failed", ![w].daemon = None]
    /\ UNCHANGED marker /\ WithoutProcesses

\* The connection is lost, or the facade ends.
Disconnect(w) ==
    /\ worker[w].step = "connected"
    /\ \/ proc[worker[w].daemon] # "up" /\ To(w, "away")
       \/ worker' = [worker EXCEPT ![w].step = "failed", ![w].daemon = None]
    /\ UNCHANGED marker /\ WithoutProcesses

\* claimUpgrade: publish a marker unless there is one,
Link(w) ==
    /\ worker[w].step = "link"
    /\ IF marker = {}
         THEN marker' = {[target |-> worker[w].daemon, fresh |-> TRUE]} /\ To(w, "signal")
         ELSE To(w, "read") /\ UNCHANGED marker
    /\ WithoutProcesses

\* ... which is respected if it is recent and of the same process,
ReadMarker(w) ==
    /\ worker[w].step = "read"
    /\ To(w, IF [target |-> worker[w].daemon, fresh |-> TRUE] \in marker THEN "away" ELSE "remove")
    /\ UNCHANGED marker /\ WithoutProcesses

\* ... and else removed, by its path, for a second attempt.
RemoveMarker(w) ==
    /\ worker[w].step = "remove"
    /\ marker' = {}
    /\ worker' = [worker EXCEPT ![w].attempt = 2,
                                ![w].step = IF worker[w].attempt = 1 THEN "link" ELSE "away"]
    /\ WithoutProcesses

MarkerExpires ==
    /\ \E m \in marker : m.fresh
    /\ marker' = {[m EXCEPT !.fresh = FALSE] : m \in marker}
    /\ UNCHANGED worker /\ WithoutProcesses

\* retireStaleDaemon.  The marker of a process that is gone is removed.
SignalOld(w) ==
    LET p == worker[w].daemon IN
    /\ worker[w].step = "signal"
    /\ Terminate(p)
    /\ marker' = IF Alive(p) THEN marker ELSE {}
    /\ worker' = [worker EXCEPT ![w].step = "away", ![w].signalled = @ \union {p}]
    /\ UNCHANGED crashes

\* restartDaemon: daemon.shutdown is accepted, or SIGTERM is sent when no answer comes.
AskShutdown(w) ==
    LET p == worker[w].daemon IN
    /\ worker[w].step = "connected"
    /\ proc[p] = "up"
    /\ worker' = [worker EXCEPT ![w].step = "restart"]
    /\ \/ StopListening(p) /\ UNCHANGED <<handled, killed>>
       \/ Terminate(p)
    /\ UNCHANGED <<marker, crashes>>

\* Its loop waits until the old daemon cannot be reached; ensureClient goes on from there.
Restarted(w) ==
    /\ worker[w].step = "restart"
    /\ path # worker[w].daemon
    /\ To(w, "want")
    /\ UNCHANGED marker /\ WithoutProcesses

Daemon(p) ==
    \/ AcquireLock(p) \/ OpenStore(p) \/ PrepareSocket(p) \/ Listen(p)
    \/ CloseStore(p) \/ CheckSocket(p) \/ RemoveSocket(p)

Client(w) ==
    \/ Connect(w) \/ Launch(w) \/ Again(w) \/ DeadlineOver(w) \/ Disconnect(w)
    \/ Link(w) \/ ReadMarker(w) \/ RemoveMarker(w) \/ SignalOld(w)
    \/ AskShutdown(w) \/ Restarted(w)

Next ==
    \/ \E p \in Process : Daemon(p) \/ IdleShutdown(p) \/ Crash(p)
    \/ \E w \in Worker : Client(w)
    \/ MarkerExpires

Spec == Init /\ [][Next]_vars
-----------------------------------------------------------------------------
TypeOK ==
    /\ proc \in [Process -> Starting \union Failing \union Closing \union {"unborn", "up", "gone"}]
    /\ handled \subseteq Process /\ killed \subseteq handled
    /\ lock \in Process \union {None} /\ path \in Process \union {None}
    /\ store \subseteq Process /\ listening \subseteq Process
    /\ marker \in {{}} \union {{m} : m \in [target : Process, fresh : BOOLEAN]}
    /\ worker \in [Worker -> [step : {"want", "away", "connected", "link", "read", "remove",
                                     "signal", "restart", "failed"},
                             daemon : Process \union {None}, attempt : {1, 2},
                             signalled : SUBSET Old]]
    /\ crashes \in 0..MaxCrashes

LifecycleAssumption == None \notin Process /\ Old \subseteq Process /\ MaxCrashes \in Nat

\* The store is open, and the socket served, only under the lock: whoever gets it finds
\* both free, whichever process died, lost the race or is still closing.
OwnedByOne == store \union listening \subseteq {lock}

\* While a daemon listens only a process that was refused the lock may take its socket
\* away: no other closing, dying or starting process does.
SocketTakenByLoser ==
    [][\A p \in listening \intersect listening' :
         path = p /\ path' # p => \E q \in Process : q # lock /\ proc[q] = "failUnlink"]_vars

\* "The store lock arbitrates concurrent launch attempts": a daemon that listens can be
\* reached, whoever lost the lock to it.
ServingReachable == \A p \in listening : path = p

\* No daemon that a worker asked to stop is killed by a second signal while it closes.
ClosesInPeace == killed = {}
==============================================================================
