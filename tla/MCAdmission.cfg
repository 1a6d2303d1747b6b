SPECIFICATION FairSpec
CONSTANTS
    plan = plan
    note = note
    memo = memo
    s = s
    first = first
    second = second
    replacement = replacement
    successor = successor
    rival = rival
    Documents = {plan, note, memo}
    Subjects = {s}
    Clients = {c1, c2}
    Payloads = {first, second, replacement, successor, rival}
    DocumentOf <- MCDocumentOf
    SubjectOf <- MCSubjectOf
    TargetOf <- MCTargetOf
    CreatedAt <- MCCreatedAt
    MaxAttempts = 2
    MaxVersion = 3
    MaxPuts = 3
    MaxRestarts = 1
    Absent = Absent
    Expired = Expired
CHECK_DEADLOCK FALSE
INVARIANT TypeOK
INVARIANT SubjectResolves
INVARIANT OneLiveVersion
INVARIANT OneReplacement
PROPERTY NeverReadmitted
PROPERTY PutsEnd
