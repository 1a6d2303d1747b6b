----------------------------- MODULE MCAdmission -----------------------------
EXTENDS Admission
CONSTANTS plan, note, memo, s, first, second, replacement, successor, rival

\* Two texts of the document plan, of which one drops the subject; the document
\* note replaces the first version of plan, and memo that of note, or it claims the
\* subject without replacing anything.
MCDocumentOf == [p \in Payloads |->
    CASE p = replacement -> note [] p \in {successor, rival} -> memo [] OTHER -> plan]
MCSubjectOf  == [p \in Payloads |-> IF p = second THEN Absent ELSE s]
MCTargetOf   == [p \in Payloads |->
    CASE p = replacement -> <<plan, 1>> [] p = successor -> <<note, 1>> [] OTHER -> Absent]
MCCreatedAt  == [p \in Payloads |->
    CASE p = first -> 1 [] p = second -> 2 [] p = replacement -> 3 [] OTHER -> 4]
=============================================================================
