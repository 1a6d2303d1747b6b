------------------------------ MODULE DaemonLog ------------------------------
(***************************************************************************)
(* The launch log (src/daemon/log-file.js): every process that starts or   *)
(* replaces a daemon appends to one file, under a lock that is a file as   *)
(* well (appendDaemonLog, called by daemon-client/worker.js).  A file that *)
(* is full becomes the previous one; there is one previous file.           *)
(*                                                                         *)
(* A file has a name, a content and, as long as somebody has it open, a    *)
(* life without the name.  One action is one call of the file system or a  *)
(* few that touch what nobody else sees.  Records are numbered as they are *)
(* written and have the same size.                                         *)
(***************************************************************************)
EXTENDS Naturals, Sequences, FiniteSets

CONSTANTS
    Process, None,
    Limit,        \* records of a full file
    MaxRecords,   \* bound: records that are written
    MaxOld,       \* bound: locks that get old
    MaxFaults     \* bound: processes that die while they append, and calls that fail

VARIABLES
    files,        \* contents, by number of the file
    active,       \* the file of the log's name, or None
    previous,     \* the file of the name with .1, or None
    lock,         \* who made the lock file, or None
    old,          \* the lock file is older than ten seconds
    proc,         \* what each process does next
    fd,           \* the file it has open, or None
    written,      \* records written so far
    olds, faults,
    stolen        \* a lock was removed whose owner worked on (never read by a step)

vars == <<files, active, previous, lock, old, proc, fd, written, olds, faults, stolen>>

Init ==
    /\ files = <<>> /\ active = None /\ previous = None
    /\ lock = None /\ old = FALSE
    /\ proc = [p \in Process |-> "idle"]
    /\ fd = [p \in Process |-> None]
    /\ written = 0 /\ olds = 0 /\ faults = 0 /\ stolen = FALSE

Content(file) == IF file = None THEN <<>> ELSE files[file]

Goto(p, step) == proc' = [proc EXCEPT ![p] = step]
names == <<files, active, previous>>
counts == <<written, olds, faults, stolen>>
locked == <<lock, old>>
-----------------------------------------------------------------------------
(***************************************************************************)
(* acquireLogLock                                                          *)
(***************************************************************************)
appendDaemonLog(p) ==
    /\ proc[p] = "idle" /\ written < MaxRecords
    /\ Goto(p, "locking")
    /\ UNCHANGED <<names, locked, fd, counts>>

CreateLock(p) ==
    /\ proc[p] = "locking" /\ lock = None
    /\ lock' = p /\ old' = FALSE
    /\ Goto(p, "opening")
    /\ UNCHANGED <<names, fd, counts>>

\* The age is read; the file is removed after that, whosever it is by then.
FindOld(p) ==
    /\ proc[p] = "locking" /\ lock # None /\ old
    /\ Goto(p, "removing")
    /\ UNCHANGED <<names, locked, fd, counts>>

Section == {p \in Process : proc[p] \notin {"idle", "locking", "removing"}}

RemoveOld(p) ==
    /\ proc[p] = "removing"
    /\ lock' = None /\ old' = FALSE
    /\ Goto(p, "locking")
    /\ stolen' = (stolen \/ lock \in Section)
    /\ UNCHANGED <<names, fd, written, olds, faults>>

\* Two seconds are over: the record is given up.
GiveUp(p) ==
    /\ proc[p] = "locking" /\ lock # None
    /\ Goto(p, "idle")
    /\ UNCHANGED <<names, locked, fd, counts>>

GetsOld ==
    /\ lock # None /\ ~old /\ olds < MaxOld
    /\ old' = TRUE /\ olds' = olds + 1
    /\ UNCHANGED <<names, lock, proc, fd, written, faults, stolen>>
-----------------------------------------------------------------------------
(***************************************************************************)
(* openDaemonLog and writeDaemonLog: the size is looked at before the file *)
(* is opened and, with the new record, after.                              *)
(***************************************************************************)
CheckSize(p) ==
    /\ proc[p] = "opening"
    /\ Goto(p, IF Len(Content(active)) > Limit THEN "rotating first" ELSE "open")
    /\ UNCHANGED <<names, locked, fd, counts>>

\* openDescriptor creates the file if there is none.
Opened(p) ==
    /\ IF active # None THEN UNCHANGED names /\ fd' = [fd EXCEPT ![p] = active]
       ELSE /\ files' = Append(files, <<>>) /\ active' = Len(files')
            /\ fd' = [fd EXCEPT ![p] = Len(files')]
            /\ UNCHANGED previous

Open(p) ==
    /\ proc[p] \in {"open", "reopen"} /\ Opened(p)
    /\ Goto(p, IF proc[p] = "open" THEN "writing" ELSE "appending")
    /\ UNCHANGED <<locked, counts>>

CheckRoom(p) ==
    /\ proc[p] = "writing"
    /\ IF Len(files[fd[p]]) + 1 > Limit
         THEN Goto(p, "rotating") /\ fd' = [fd EXCEPT ![p] = None]
         ELSE Goto(p, "appending") /\ UNCHANGED fd
    /\ UNCHANGED <<names, locked, counts>>

AppendRecord(p) ==
    /\ proc[p] = "appending" /\ written < MaxRecords
    /\ written' = written + 1
    /\ files' = [files EXCEPT ![fd[p]] = Append(@, written + 1)]
    /\ fd' = [fd EXCEPT ![p] = None]
    /\ Goto(p, "unlocking")
    /\ UNCHANGED <<active, previous, locked, olds, faults, stolen>>
-----------------------------------------------------------------------------
(***************************************************************************)
(* rotateDaemonArtifact                                                    *)
(***************************************************************************)
AfterMove(p) == IF proc[p] \in {"rotating first", "moving first"} THEN "open" ELSE "reopen"

DropPrevious(p) ==
    /\ proc[p] \in {"rotating", "rotating first"}
    /\ IF active = None THEN Goto(p, AfterMove(p)) /\ UNCHANGED previous
       ELSE /\ previous' = None
            /\ Goto(p, IF proc[p] = "rotating" THEN "moving" ELSE "moving first")
    /\ UNCHANGED <<files, active, locked, fd, counts>>

\* A file that grew beyond the limit is replaced by one with the last records of it.  The call
\* fails when another process was faster, and with it the whole append.
Move(p) ==
    /\ proc[p] \in {"moving", "moving first"}
    /\ IF active = None THEN Goto(p, "unlocking") /\ UNCHANGED names
       ELSE /\ Goto(p, AfterMove(p))
            /\ active' = None
            /\ IF Len(files[active]) <= Limit THEN previous' = active /\ UNCHANGED files
               ELSE /\ files' = Append(files, SubSeq(files[active], Len(files[active]) - Limit + 1, Len(files[active])))
                    /\ previous' = Len(files')
    /\ UNCHANGED <<locked, fd, counts>>

\* The lock file is removed, whosever it is.
ReleaseLock(p) ==
    /\ proc[p] = "unlocking"
    /\ lock' = None /\ old' = FALSE
    /\ Goto(p, "idle")
    /\ UNCHANGED <<names, fd, counts>>

\* A call fails: the record is given up, the lock released.
Fail(p) ==
    /\ p \in Section /\ proc[p] # "unlocking" /\ faults < MaxFaults
    /\ faults' = faults + 1
    /\ Goto(p, "unlocking")
    /\ fd' = [fd EXCEPT ![p] = None]
    /\ UNCHANGED <<names, locked, written, olds, stolen>>

\* The process dies, or cannot write its number into the lock file.
Crash(p) ==
    /\ p \in Section /\ faults < MaxFaults
    /\ faults' = faults + 1
    /\ Goto(p, "idle")
    /\ fd' = [fd EXCEPT ![p] = None]
    /\ UNCHANGED <<names, locked, written, olds, stolen>>

Next ==
    \/ \E p \in Process :
         \/ appendDaemonLog(p) \/ CreateLock(p) \/ FindOld(p) \/ RemoveOld(p) \/ GiveUp(p)
         \/ CheckSize(p) \/ Open(p) \/ CheckRoom(p) \/ AppendRecord(p)
         \/ DropPrevious(p) \/ Move(p) \/ ReleaseLock(p) \/ Fail(p) \/ Crash(p)
    \/ GetsOld

Spec == Init /\ [][Next]_vars
-----------------------------------------------------------------------------
TypeOK ==
    /\ \A file \in DOMAIN files : \A i \in DOMAIN files[file] : files[file][i] \in 1..written
    /\ {active, previous} \cup {fd[p] : p \in Process} \subseteq DOMAIN files \cup {None}
    /\ lock \in Process \cup {None} /\ (lock = None => ~old)
    /\ written <= MaxRecords /\ olds <= MaxOld /\ faults <= MaxFaults

\* One process at a time appends, also after one that died with the lock, unless a lock was
\* taken from a process that works on: one that is slow, or one that took over an old lock that
\* another process was about to remove as well (acquireLogLock).
OneAppends == ~stolen => Cardinality(Section) <= 1

\* Then the two files hold the last records there were, each one whole and in order, and the
\* newest among them, at whatever call a process died (rotateDaemonArtifact, writeDaemonLog).
NewestKept ==
    LET text == Content(previous) \o Content(active)
    IN  ~stolen => /\ written > 0 => text # <<>>
                   /\ \A i \in DOMAIN text : text[i] = written - Len(text) + i

\* Whatever happens, a file exceeds its limit by less than a record of each process.
SizeBounded == \A file \in DOMAIN files : Len(files[file]) < Limit + Cardinality(Process)
=============================================================================
