SPECIFICATION Spec
CONSTANTS
    Session = {s1, s2}
    None = None
    Requests <- AllRequests
    Profiles <- TwoProfiles
SYMMETRY Sessions
INVARIANTS
    ProjectionFollowsEvents
    DurableRunIsInterpretable
    
    OneWinnerPerVersion
PROPERTY ImplementsRunLedger
