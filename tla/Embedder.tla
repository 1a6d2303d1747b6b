------------------------------ MODULE Embedder ------------------------------
(***************************************************************************)
(* The local embedder: a client (semantic/embedder-client.js) and the      *)
(* worker thread that runs the model (semantic/embedder-worker.js).  The   *)
(* worker keeps two queues and one batch in flight, and takes foreground   *)
(* work first.  The client gives up on a request after a while; the worker *)
(* is not told and its answer is dropped.                                  *)
(***************************************************************************)
EXTENDS Naturals, Sequences, SequencesExt

CONSTANTS Query, Batch      \* foreground and background requests

Request == Query \union Batch
Nobody == "nobody"

VARIABLES embed,        \* [Request -> state of the promise]
          thread,       \* "up", "broken" (error, exit # 0) or "terminated"
          channel,      \* messages sent and not yet taken by the worker
          foreground, background,
          running,      \* the batch drain awaits the model for, or Nobody
          results,      \* answers on their way to the client
          overtaken     \* [Query -> background batches started while it waits]

vars == <<embed, thread, channel, foreground, background, running, results,
          overtaken>>

Init ==
    /\ embed = [r \in Request |-> "new"]
    /\ thread = "up"
    /\ channel = <<>> /\ foreground = <<>> /\ background = <<>>
    /\ running = Nobody /\ results = {}
    /\ overtaken = [q \in Query |-> 0]

\* embed: posting to a thread that has ended is silent; only the timer ends it.
Embed(r) ==
    /\ embed[r] = "new"
    /\ embed' = [embed EXCEPT ![r] = "waiting"]
    /\ channel' = IF thread = "up" THEN Append(channel, r) ELSE channel
    /\ UNCHANGED <<thread, foreground, background, running, results, overtaken>>

Timeout(r) ==
    /\ embed[r] = "waiting"
    /\ embed' = [embed EXCEPT ![r] = "rejected"]
    /\ UNCHANGED <<thread, channel, foreground, background, running, results,
                   overtaken>>

Settle(m) ==
    /\ m \in results /\ thread # "terminated"
    /\ results' = results \ {m}
    /\ embed' = [embed EXCEPT ![m.id] = IF @ # "waiting" THEN @
                                      ELSE IF m.ok THEN "resolved" ELSE "rejected"]
    /\ UNCHANGED <<thread, channel, foreground, background, running, overtaken>>

(***************************************************************************)
(* The worker.  drain takes the next batch as soon as the one before is    *)
(* answered; a message only starts it when it does not run.                *)
(***************************************************************************)
Started(fore, back) ==
    LET next == IF fore # <<>> THEN Head(fore)
                ELSE IF back # <<>> THEN Head(back) ELSE Nobody
    IN /\ running' = next
       /\ foreground' = IF fore # <<>> THEN Tail(fore) ELSE fore
       /\ background' = IF fore = <<>> /\ back # <<>> THEN Tail(back) ELSE back
       /\ overtaken' = [q \in Query |->
             IF next \in Batch /\ (q \in ToSet(fore)) THEN overtaken[q] + 1
             ELSE overtaken[q]]

Receive ==
    /\ thread = "up" /\ channel # <<>>
    /\ channel' = Tail(channel)
    /\ LET r == Head(channel)
           fore == IF r \in Query THEN Append(foreground, r) ELSE foreground
           back == IF r \in Batch THEN Append(background, r) ELSE background
       IN IF running = Nobody
          THEN Started(fore, back)
          ELSE /\ foreground' = fore /\ background' = back
               /\ UNCHANGED <<running, overtaken>>
    /\ UNCHANGED <<embed, thread, results>>

Infer(ok) ==
    /\ thread = "up" /\ running # Nobody
    /\ results' = results \union {[id |-> running, ok |-> ok]}
    /\ Started(foreground, background)
    /\ UNCHANGED <<embed, thread, channel>>

(***************************************************************************)
(* The thread ends: by an error, or by close, which rejects what waits     *)
(* before it terminates the thread.                                        *)
(***************************************************************************)
Ended(how) ==
    /\ thread' = how
    /\ embed' = [r \in Request |-> IF embed[r] = "waiting" THEN "rejected" ELSE embed[r]]
    /\ channel' = <<>> /\ foreground' = <<>> /\ background' = <<>>
    /\ running' = Nobody
    /\ UNCHANGED overtaken

Crash == thread = "up" /\ Ended("broken") /\ UNCHANGED results
Close == thread # "terminated" /\ Ended("terminated") /\ results' = {}

Next == \/ \E r \in Request : Embed(r) \/ Timeout(r)
        \/ \E m \in results : Settle(m)
        \/ Receive \/ Crash \/ Close
        \/ \E ok \in BOOLEAN : Infer(ok)

Fairness == /\ \A r \in Request : WF_vars(Timeout(r))
            /\ WF_vars(Receive)

Spec == Init /\ [][Next]_vars /\ Fairness

-----------------------------------------------------------------------------
\* A query waits for at most the batch in flight: no background batch starts
\* while the worker holds a query.
QueryNotOvertaken == \A q \in Query : overtaken[q] = 0

\* Work in a queue is being worked off: the worker never sleeps over it.
NoSleepingQueue == running = Nobody => foreground = <<>> /\ background = <<>>

\* A request the worker still holds or has answered was posted once: nothing is
\* worked on twice, and a resolved promise has no answer still to come.
AnsweredOnce ==
    LET held == channel \o foreground \o background
                \o (IF running = Nobody THEN <<>> ELSE <<running>>)
    IN /\ IsInjective(held)
       /\ \A m \in results : m.id \notin ToSet(held)
       /\ \A r \in Request : embed[r] \in {"new", "resolved"} =>
            r \notin ToSet(held) /\ \A m \in results : m.id # r

EmbedderSound == QueryNotOvertaken /\ NoSleepingQueue /\ AnsweredOnce

Embeds == \A r \in Request : embed[r] = "waiting" ~> embed[r] \in {"resolved", "rejected"}
=============================================================================
