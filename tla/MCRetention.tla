----------------------------- MODULE MCRetention -----------------------------
EXTENDS Retention
CONSTANTS a, b, k, m, s, c1, c2, r1, r2

\* b replaces a; both own the chunk k, a also the source message m.
MCVersions ==
    [d \in Doc |->
       IF d = a THEN [session |-> s, payloads |-> {k, m}, prior |-> None, expiresAt |-> 1, ephemeral |-> FALSE]
                ELSE [session |-> s, payloads |-> {k}, prior |-> a, expiresAt |-> 1, ephemeral |-> TRUE]]

\* One version, of the kind that disk pressure may shorten.
MCSingle ==
    [d \in Doc |-> [session |-> s, payloads |-> {k}, prior |-> None, expiresAt |-> 1, ephemeral |-> TRUE]]

MCPhaseOf == [p \in Payload |-> IF p = k THEN "chunks" ELSE "source-messages"]
=============================================================================
