SPECIFICATION Spec
CONSTANTS
    Requests = {r1, r2}
    Jobs = {j1}
    Keys = {k1}
    NoKey = NoKey
    Nobody = Nobody
    Bodies <- WideBodies
    Fields <- MCFields
    Values <- MCValues
    Secrets <- MCSecrets
    Proposals <- MCProposals
    Faults = {"crash"}
PROPERTIES
    ImplementsLifecycle
    EveryRequestAnswered
    EveryAnswerHandled
