SPECIFICATION Spec
CONSTANTS
    Requests = {r1}
    Numbers <- MCNumbers
    BadNumbers <- MCBadNumbers
    Entries <- AllEntries
    Shapes = {"sound", "secret", "unreadable"}
    Faults = {"crash", "lost_ack"}
INVARIANTS
    AbsenceReported
    CorrectionSuffices
PROPERTY
    ImplementsLedger
