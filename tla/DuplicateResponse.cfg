SPECIFICATION Spec
CONSTANTS
    Alice = Alice
    Bob = Bob
    None = None
    Empty = Empty
    Malformed = Malformed
    Party <- Two
    StaticLevel <- Level768
    KemLevel <- Level768
    AcceptableAeads <- OneAead
    KnownPublic <- EveryoneKnown
    MaxRetries = 1
    RetryInterval = 1
    SessionTTL = 2
    MaxPerCid = 3
    MaxTotal = 3
    CandidateTTL = 3
    MaxHandshakes <- OnlyAlice
    MaxDraws <- MoreDraws
    MaxPayloads <- OnlyAlice
    MaxRestarts <- OnlyBob
INVARIANTS
    DuplicateInSameOut
