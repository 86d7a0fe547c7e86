SPECIFICATION Spec
CONSTANTS
    Alice = Alice
    Bob = Bob
    None = None
    Empty = Empty
    Malformed = Malformed
    Party <- Two
    StaticLevel <- Level768
    KemLevel <- MixedLevel
    AcceptableAeads <- BothAeads
    KnownPublic <- EveryoneKnown
    MaxRetries = 1
    RetryInterval = 1
    SessionTTL = 1
    MaxPayloads = 2
    MaxResets = 1
INVARIANTS
    OnlySessionErrors
