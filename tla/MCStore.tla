------------------------------ MODULE MCStore -------------------------------
(***************************************************************************)
(* What must happen in the end in the store: every call at its write       *)
(* barrier returns, and its outbox is drained, by the daemon's one index   *)
(* worker and by two of them.  Each part is checked on its own in one run. *)
(* The barrier is the part whose module is extended; a fair action is one  *)
(* of the part that runs.                                                  *)
(***************************************************************************)
EXTENDS WriteBarrier

CONSTANTS w1, w2, k1, k2, short, long, Legacy

VARIABLES
    part,
    O_counter, O_entries, O_cursor, O_generationCounter, O_state, O_stage, O_tablet,
    O_applied, O_ready, O_publication, O_prepared, O_visible, O_cleaned, O_pc, O_claim,
    O_plan, O_ordinal, O_agree, O_todo, O_initialized, O_open, O_faults, O_torn

barrierVars == vars
outboxVars ==
    <<O_counter, O_entries, O_cursor, O_generationCounter, O_state, O_stage, O_tablet,
      O_applied, O_ready, O_publication, O_prepared, O_visible, O_cleaned, O_pc, O_claim,
      O_plan, O_ordinal, O_agree, O_todo, O_initialized, O_open, O_faults, O_torn>>

\* The daemon runs one worker; a retry may prepare another plan.
One == INSTANCE Outbox WITH
    Worker <- {w1}, Plan <- {short, long}, MaxTablets <- 2,
    TabletCount <- [p \in {short, long} |-> IF p = short THEN 1 ELSE 2],
    Token <- {k1, k2}, NoToken <- None, NoPlan <- None, MaxSequence <- 2,
    RetainPublications <- 1, MaxFaults <- 2,
    counter <- O_counter, entries <- O_entries, cursor <- O_cursor,
    generationCounter <- O_generationCounter, state <- O_state, stage <- O_stage,
    tablet <- O_tablet, applied <- O_applied, ready <- O_ready,
    publication <- O_publication, prepared <- O_prepared, visible <- O_visible,
    cleaned <- O_cleaned, pc <- O_pc, claim <- O_claim, plan <- O_plan,
    ordinal <- O_ordinal, agree <- O_agree, todo <- O_todo, initialized <- O_initialized,
    open <- O_open, faults <- O_faults, torn <- O_torn

\* Claims and leases are there for several.
Two == INSTANCE Outbox WITH
    Worker <- {w1, w2}, Plan <- {short}, MaxTablets <- 1, TabletCount <- [p \in {short} |-> 1],
    Token <- {k1, k2}, NoToken <- None, NoPlan <- None, MaxSequence <- 1,
    RetainPublications <- 1, MaxFaults <- 2,
    counter <- O_counter, entries <- O_entries, cursor <- O_cursor,
    generationCounter <- O_generationCounter, state <- O_state, stage <- O_stage,
    tablet <- O_tablet, applied <- O_applied, ready <- O_ready,
    publication <- O_publication, prepared <- O_prepared, visible <- O_visible,
    cleaned <- O_cleaned, pc <- O_pc, claim <- O_claim, plan <- O_plan,
    ordinal <- O_ordinal, agree <- O_agree, todo <- O_todo, initialized <- O_initialized,
    open <- O_open, faults <- O_faults, torn <- O_torn

StoreInit ==
    /\ part \in {"barrier", "one worker", "two workers"}
    /\ Init
    /\ CASE part = "barrier" -> One!InitFresh /\ One!Init
         [] part = "one worker" -> One!Init
         [] part = "two workers" -> Two!Init

barrierNext == part = "barrier" /\ Next /\ UNCHANGED <<part, outboxVars>>
oneNext == part = "one worker" /\ One!Next /\ UNCHANGED <<part, barrierVars>>
twoNext == part = "two workers" /\ Two!Next /\ UNCHANGED <<part, barrierVars>>

StoreNext == barrierNext \/ oneNext \/ twoNext
storeVars == <<part, barrierVars, outboxVars>>

\* The fairness of each part, as its module states it.
In(one) == part = one
StoreFairness ==
    /\ \A t \in Task : WF_barrierVars(In("barrier") /\ Proceed(t))
    /\ WF_outboxVars(In("one worker") /\ One!WorkerStep(w1))
    /\ \A s \in 1..2 : WF_outboxVars(In("one worker") /\ One!Expire(s))
    /\ \A w \in {w1, w2} : WF_outboxVars(In("two workers") /\ Two!WorkerStep(w))
    /\ WF_outboxVars(In("two workers") /\ Two!Expire(1))

StoreSpec == StoreInit /\ [][StoreNext]_storeVars /\ StoreFairness
-----------------------------------------------------------------------------
\* Once faults stop, every canonical commit is indexed, by one worker and by two of
\* them, unless a worker that had lost its claim wrote the header of a stage
\* (drainIndex; see Outbox.EventuallyPublished).
EventuallyPublished == One!EventuallyPublished
=============================================================================
