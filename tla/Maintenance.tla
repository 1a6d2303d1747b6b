---------------------------- MODULE Maintenance ----------------------------
(***************************************************************************)
(* The maintenance loop of the daemon (src/daemon/maintenance.js).         *)
(*                                                                         *)
(* One run at a time (trigger() joins the run that is there) records the   *)
(* emergency mode, cleans up, lets retention delete in waves, and decides  *)
(* whether to ask RocksDB for a compaction.  Every admission also records  *)
(* the emergency mode before it is let in.  RocksDB reclaims space when it *)
(* likes: the loop only sees its size properties.                          *)
(*                                                                         *)
(* A flow is the run or an admission; each step of a flow is what happens  *)
(* between two awaits.  Byte counts are small numbers and the free space   *)
(* is one of four levels.                                                  *)
(***************************************************************************)
EXTENDS Naturals

CONSTANTS
    Admission,            \* admissions
    Level,                \* levels of free space that occur
    MaxRetentionWaves,
    CompactionDeletedKeys,
    CompactionReclaimable,
    MaxDeletions,         \* bound: keys the run deletes in all
    MaxGrowth,            \* bound: growth of the live data
    MaxFaults             \* bound: writes and waves that fail

VARIABLES
    free,                 \* level of the file system's free space
    stored,               \* emergency mode on disk: "none", "on", "off"
    lastEmergencyMode,    \* as this process remembers it
    flow,                 \* [Flow -> step and mode read from the disk]
    waves, deleted,       \* of the current run
    counted,              \* deletedKeysSinceCompaction
    pending,              \* pendingCompaction, or NoPending
    before,               \* size properties read before the compaction was asked for
    size,                 \* RocksDB: live data, garbage and pendingCompactionBytes
    started, closed,
    deletions, growth, faults,
    owed,                 \* deletions no compaction has followed
    lost,                 \* deletions of runs that failed before they were counted
    crossed               \* two flows were writing different modes

emergency == <<stored, lastEmergencyMode, crossed>>
run == <<waves, deleted>>
accounts == <<counted, pending, before>>
engine == <<size, growth>>
daemon == <<started, closed>>
ghosts == <<deletions, owed, lost>>
vars == <<free, emergency, flow, run, accounts, engine, daemon, ghosts, faults>>

Run == "run"
Flow == {Run} \union Admission
AnyLevel == {"critical", "reserve", "ample", "unknown"}
Idle == [step |-> "idle", level |-> "unknown"]
NoPending == [deletedKeys |-> 0, total |-> 0, garbage |-> 0, backlog |-> 0]

NoSize == [live |-> 0, garbage |-> 0, backlog |-> 0]
Total(s) == s.live + s.garbage

Init ==
    /\ free \in Level
    /\ stored \in {"none", "on", "off"}
    /\ lastEmergencyMode = "none"
    /\ flow = [f \in Flow |-> Idle]
    /\ waves = 0
    /\ deleted = 0
    /\ counted = 0
    /\ pending = NoPending
    /\ size = NoSize
    /\ before = NoSize
    /\ started = FALSE
    /\ closed = FALSE
    /\ deletions = 0
    /\ growth = 0
    /\ faults = 0
    /\ owed = 0
    /\ lost = 0
    /\ crossed = FALSE
-----------------------------------------------------------------------------
(***************************************************************************)
(* The emergency mode.                                                     *)
(***************************************************************************)
Mode(level) == IF level = "critical" THEN "on" ELSE "off"

\* synchronizeEmergencyMode: nothing to write, and the flow goes on in the same turn.
InSync(level) == level = "unknown" \/ Mode(level) = lastEmergencyMode

Writing(f) == flow[f].step \in {"write", "written"}

\* diskSnapshot, and the write of a mode that differs from the remembered one.
Snapshot(f) ==
    /\ flow' = [flow EXCEPT ![f] = [step |-> IF InSync(free) THEN "synced" ELSE "write",
                                    level |-> free]]
    /\ crossed' = (crossed \/ /\ ~InSync(free)
                              /\ \E g \in Flow \ {f} : Writing(g) /\ flow[g].level # free)
    /\ UNCHANGED lastEmergencyMode

\* trigger(): the run in progress is joined.
Trigger ==
    /\ flow[Run].step = "idle"
    /\ ~closed
    /\ Snapshot(Run)
    /\ UNCHANGED <<free, stored, run, accounts, engine, daemon, ghosts, faults>>

checkAdmission(a) ==
    /\ started
    /\ flow[a].step \in {"idle", "admitted", "refused"}
    /\ Snapshot(a)
    /\ UNCHANGED <<free, stored, run, accounts, engine, daemon, ghosts, faults>>

setEmergencyMode(f) ==
    /\ flow[f].step = "write"
    /\ stored' = Mode(flow[f].level)
    /\ flow' = [flow EXCEPT ![f].step = "written"]
    /\ UNCHANGED <<free, lastEmergencyMode, crossed, run, accounts, engine, daemon, ghosts,
                   faults>>

RememberMode(f) ==
    /\ flow[f].step = "written"
    /\ lastEmergencyMode' = Mode(flow[f].level)
    /\ flow' = [flow EXCEPT ![f].step = "synced"]
    /\ UNCHANGED <<free, stored, crossed, run, accounts, engine, daemon, ghosts, faults>>

\* assertCanAdmit, on the level the admission read.
Admit(a) ==
    /\ flow[a].step = "synced"
    /\ flow' = [flow EXCEPT ![a] = [Idle EXCEPT !.step =
                   IF flow[a].level \in {"critical", "reserve"} THEN "refused" ELSE "admitted"]]
    /\ UNCHANGED <<free, emergency, run, accounts, engine, daemon, ghosts, faults>>
-----------------------------------------------------------------------------
(***************************************************************************)
(* The run.                                                                *)
(***************************************************************************)
At(step) == flow[Run].step = step
To(step) == flow' = [flow EXCEPT ![Run] = IF step = "idle" THEN Idle ELSE [@ EXCEPT !.step = step]]

\* What the run knows dies with it.
Forget == waves' = 0 /\ deleted' = 0

\* Keys go, and leave garbage behind.
Delete(n) ==
    /\ deletions + n <= MaxDeletions
    /\ deletions' = deletions + n
    /\ owed' = owed + n
    /\ \E backlog \in {size.backlog, 1} :
         size' = [size EXCEPT !.garbage = @ + n, !.backlog = backlog]

\* runAuxiliaryCleanup: protections, leases, hints, and the posting storage, whose
\* deletions count.  initialize() stops here, and starts the timer.
AuxiliaryCleanup ==
    /\ At("synced")
    /\ \E n \in 0..1 :
         IF started
           THEN Delete(n) /\ deleted' = n /\ To("wave") /\ UNCHANGED <<started, lost>>
           ELSE Delete(n) /\ Forget /\ To("idle") /\ started' = TRUE /\ lost' = lost + n
    /\ UNCHANGED <<free, emergency, waves, accounts, growth, closed, faults>>

\* One wave of retention; "more-work" asks for another.
RetentionWave ==
    /\ At("wave")
    /\ \E n \in 0..1, more \in BOOLEAN :
         /\ Delete(n)
         /\ deleted' = deleted + n
         /\ waves' = waves + 1
         /\ To(IF more /\ waves' < MaxRetentionWaves THEN "wave" ELSE "account")
    /\ UNCHANGED <<free, emergency, accounts, growth, daemon, lost, faults>>

\* A write, a cleanup or a wave throws: trigger() reports it, and what the run deleted so
\* far is not counted.  An initialization that fails is that of the daemon.
RunFails ==
    /\ flow[Run].step \in {"write", "synced", "wave"}
    /\ started
    /\ faults < MaxFaults
    /\ faults' = faults + 1
    /\ To("idle")
    /\ lost' = lost + deleted
    /\ Forget
    /\ UNCHANGED <<free, emergency, accounts, engine, daemon, deletions, owed>>

AdmissionFails(a) ==
    /\ flow[a].step = "write"
    /\ faults < MaxFaults
    /\ faults' = faults + 1
    /\ flow' = [flow EXCEPT ![a].step = "idle"]
    /\ UNCHANGED <<free, emergency, run, accounts, engine, daemon, ghosts>>

Reclaimed(from, to) ==
    \/ Total(to) < from.total
    \/ to.garbage < from.garbage
    \/ from.backlog > 0 /\ to.backlog = 0

Baseline(s, keys) ==
    [deletedKeys |-> keys, total |-> Total(s), garbage |-> s.garbage, backlog |-> s.backlog]

SettleEverything(count) == 0   \* mutant: also forgets deletions since the request

\* What is still owed to the trigger, once a compaction since the last request is seen.
SettledCount(count) ==
    IF count > pending.deletedKeys THEN count - pending.deletedKeys ELSE 0

\* The accounting between the last wave and the request, one turn.
Account ==
    LET observed == pending # NoPending /\ Reclaimed(pending, size)
        sum      == counted + deleted
        count    == IF observed THEN SettledCount(sum) ELSE sum
    IN  /\ At("account")
        /\ counted' = count
        /\ Forget
        /\ pending' = IF observed THEN NoPending ELSE pending
        /\ IF \/ count >= CompactionDeletedKeys
              \/ count > 0 /\ size.garbage >= CompactionReclaimable
             THEN To("compact") /\ before' = size
             ELSE To("idle") /\ UNCHANGED before
        /\ UNCHANGED <<free, emergency, engine, daemon, ghosts, faults>>

\* compact() flushed, and "scheduled" says no more.
CompactScheduled ==
    /\ At("compact")
    /\ IF Reclaimed(Baseline(before, 0), size)
         THEN counted' = 0 /\ pending' = NoPending
         ELSE /\ pending' = IF pending = NoPending THEN Baseline(size, counted) ELSE pending
              /\ UNCHANGED counted
    /\ To("idle")
    /\ before' = NoSize
    /\ UNCHANGED <<free, emergency, run, engine, daemon, ghosts, faults>>

CompactFails ==
    /\ At("compact")
    /\ faults < MaxFaults
    /\ faults' = faults + 1
    /\ To("idle")
    /\ before' = NoSize
    /\ UNCHANGED <<free, emergency, run, counted, pending, engine, daemon, ghosts>>
-----------------------------------------------------------------------------
(***************************************************************************)
(* The surroundings.                                                       *)
(***************************************************************************)
\* Admitted documents are live data.
Grow ==
    /\ growth < MaxGrowth
    /\ growth' = growth + 1
    /\ size' = [size EXCEPT !.live = @ + 1]
    /\ UNCHANGED <<free, emergency, flow, run, accounts, daemon, ghosts, faults>>

DiskChanges ==
    /\ free' \in Level \ {free}
    /\ UNCHANGED <<emergency, flow, run, accounts, engine, daemon, ghosts, faults>>

\* RocksDB compacts: some garbage goes, or only its own backlog.
EngineCompacts ==
    /\ size.garbage > 0 \/ size.backlog > 0
    /\ \E garbage \in 0..size.garbage, backlog \in 0..size.backlog :
         /\ garbage < size.garbage \/ backlog < size.backlog
         /\ size' = [size EXCEPT !.garbage = garbage, !.backlog = backlog]
    /\ owed' = 0
    /\ UNCHANGED <<free, emergency, flow, run, accounts, growth, daemon, deletions, lost, faults>>

\* The run in progress is awaited by close(), and keeps its four waves.
Close ==
    /\ started
    /\ ~closed
    /\ closed' = TRUE
    /\ UNCHANGED <<free, emergency, flow, run, accounts, engine, started, ghosts, faults>>

RunStep ==
    \/ setEmergencyMode(Run) \/ RememberMode(Run)
    \/ AuxiliaryCleanup \/ RetentionWave \/ Account \/ CompactScheduled

AdmissionStep(a) == setEmergencyMode(a) \/ RememberMode(a) \/ Admit(a)

Next ==
    \/ Trigger \/ RunStep \/ RunFails \/ CompactFails
    \/ \E a \in Admission : checkAdmission(a) \/ AdmissionStep(a) \/ AdmissionFails(a)
    \/ DiskChanges \/ Grow \/ EngineCompacts \/ Close

Spec == Init /\ [][Next]_vars

\* The interval timer triggers runs, and what was awaited comes back.
Fairness ==
    /\ WF_vars(Trigger)
    /\ WF_vars(RunStep)
    /\ \A a \in Admission : WF_vars(AdmissionStep(a))

FairSpec == Spec /\ Fairness
-----------------------------------------------------------------------------
\* The run is none of the admissions.  The code wants positive numbers (positiveInteger); only
\* that of the waves has to be.
MaintenanceAssumption ==
    /\ Run \notin Admission
    /\ Level \subseteq AnyLevel
    /\ MaxRetentionWaves \in Nat \ {0}
    /\ MaxDeletions \in Nat /\ MaxGrowth \in Nat /\ MaxFaults \in Nat
    /\ CompactionDeletedKeys \in Nat /\ CompactionReclaimable \in Nat

TypeOK ==
    /\ free \in Level
    /\ stored \in {"none", "on", "off"}
    /\ lastEmergencyMode \in {"none", "on", "off"}
    /\ \A f \in Flow : flow[f].level \in AnyLevel
    /\ flow[Run].step \in {"idle", "write", "written", "synced", "wave", "account", "compact"}
    /\ \A a \in Admission :
         flow[a].step \in {"idle", "write", "written", "synced", "admitted", "refused"}
    /\ waves \in 0..MaxRetentionWaves
    /\ deleted \in 0..deletions
    /\ counted \in 0..deletions
    /\ pending.deletedKeys <= counted
    /\ owed \in 0..deletions
    /\ size.garbage \in 0..deletions
    /\ started \in BOOLEAN /\ closed \in BOOLEAN

\* While no flow is writing, the mode on disk is the remembered one, whatever writes
\* failed: except after two flows wrote different modes at a time, whose writes and
\* assignments may end in different orders.
ModeAgrees ==
    /\ lastEmergencyMode # "none"
    /\ \A f \in Flow : ~Writing(f)
    /\ ~crossed
    => stored = lastEmergencyMode

\* A lasting shortage is recorded in the end, and so is its end.
EmergencyRecorded ==
    /\ <>[](free = "critical") => <>(closed \/ crossed \/ [](stored = "on"))
    /\ <>[](free = "ample") => <>(closed \/ crossed \/ [](stored = "off"))

\* Keys deleted since RocksDB last compacted are in the count, however many requests for
\* a compaction were only scheduled or failed - except those of failed runs.
DeletionsRemembered == At("idle") => counted + lost >= owed

\* Both, whatever admissions and the run do to each other: what maintenance must not forget
\* from one run to the next (runOnce, synchronizeEmergencyMode).
MaintenanceRemembers == TypeOK /\ ModeAgrees /\ DeletionsRemembered

\* The same without the exception: a request that only flushed must leave the trigger
\* armed "until an operation reports actual completion".
TriggerStaysArmed == started /\ At("idle") => counted >= owed

\* Enough deletions lead to a request for a compaction, unless the daemon closes.
CompactionRequested ==
    counted >= CompactionDeletedKeys ~> At("compact") \/ counted < CompactionDeletedKeys \/ closed
=============================================================================
