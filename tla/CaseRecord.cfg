SPECIFICATION Spec
CONSTANTS
    Requests = {r1, r2}
    Jobs = {j1, j2}
    Keys = {k1}
    NoKey = NoKey
    Nobody = Nobody
    Bodies <- MCBodies
    Fields <- MCFields
    Values <- MCValues
    Secrets <- MCSecrets
    Proposals <- MCProposals
    Faults = {"crash", "error", "lost_ack"}
SYMMETRY Symmetry
INVARIANTS
    TypeOK
    ChainIntact
    AuditCoupled
    DecidedOnWhatTheTrailShows
    ProvenanceSound
    RepliesTruthful
    GuardsNeverFire
