SPECIFICATION Spec
CONSTANTS
    Sessions = {s1, s2}
    MaxCalls = 2
    None = None
    p1 = p1 p2 = p2 p3 = p3 v1 = v1 v2 = v2 v3 = v3 r1 = r1 r2 = r2
    t1 = t1 t2 = t2 e1 = e1 a1 = a1 a2 = a2 m1 = m1
    b1 = b1 b2 = b2 i1 = i1 i2 = i2 x = x y = y
    ExecutionInputs <- MCExecutionInputs
    CandidateInputs <- MCCandidateInputs
    ObservationInputs <- MCObservationInputs
    ArtefactInputs <- MCArtefactInputs
    ManifestInputs <- MCManifestInputs
    AttemptRun <- MCAttemptRun
    Aggregates <- MCAggregates
SYMMETRY Symmetry
INVARIANTS AdmittedMetadataIsStorable LinkagesAreConsistent
PROPERTIES ImplementsWriteOnceStore 
