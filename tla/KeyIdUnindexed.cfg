SPECIFICATION Spec
CONSTANTS
    p1 = p1
    p2 = p2
    k1 = k1
    k2 = k2
    right = right
    wrong = wrong
    Process <- OneProcess
    Creator <- OneCreator
    Passphrase <- Passphrases
    Key <- OneKey
    Digest <- TwoDigests
    None = None
    Zero = Zero
    MaxFaults = 1
INVARIANTS
    ComputedIsIndexed
