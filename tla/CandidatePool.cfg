SPECIFICATION Spec
CONSTANTS
    Cid = {c1, c2, c3}
    Pdu = {x, y}
    MaxPerCid = 2
    MaxTotal = 3
    CandidateTTL = 2
    MaxTime = 5
INVARIANTS
    TypeOK
    CountExact
    CapsRespected
    DictBounded
    RefusalHonest
PROPERTIES
    FixedTTL
