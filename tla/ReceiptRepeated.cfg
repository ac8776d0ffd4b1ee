SPECIFICATION Spec
CONSTANTS
    Requests = {r1}
    Numbers <- MCNumbers
    BadNumbers <- MCBadNumbers
    Entries <- RepeatedEntries
    Shapes = {"sound"}
    Faults = {}
INVARIANT
    RequiredInformationNeverAnError
