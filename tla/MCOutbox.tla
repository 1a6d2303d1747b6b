------------------------------ MODULE MCOutbox ------------------------------
EXTENDS Outbox, TLC
CONSTANTS w1, w2, k1, k2, k3, atomic, short, long
MCSymmetry == Permutations({w1, w2}) \cup Permutations({k1, k2, k3})
MCTabletCount == [p \in Plan |-> IF p = atomic THEN 0 ELSE IF p = short THEN 1 ELSE 2]
=============================================================================
