------------------------ MODULE OrderedPublication -------------------------
(***************************************************************************)
(* What the index outbox promises to its readers: canonical commits are    *)
(* appended to a log, and become visible in log order, one at a time and   *)
(* at once with all of their content, which then never changes.            *)
(***************************************************************************)
EXTENDS Naturals

CONSTANTS MaxSequence, Content

VARIABLES appended, published, content
vars == <<appended, published, content>>

Init ==
    /\ appended \in 0..1
    /\ published = 0
    /\ content = [s \in 1..MaxSequence |-> {}]

Append ==
    /\ appended < MaxSequence
    /\ appended' = appended + 1
    /\ UNCHANGED <<published, content>>

Publish ==
    /\ published < appended
    /\ published' = published + 1
    /\ \E c \in Content : content' = [content EXCEPT ![published + 1] = {c}]
    /\ UNCHANGED appended

Next == Append \/ Publish
Spec == Init /\ [][Next]_vars
=============================================================================
