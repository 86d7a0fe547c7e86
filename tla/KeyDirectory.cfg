SPECIFICATION Spec
CONSTANTS
    p1 = p1
    p2 = p2
    k1 = k1
    k2 = k2
    Process <- TwoProcesses
    Creator <- OneCreator
    right = right
    wrong = wrong
    Passphrase <- Passphrases
    Key <- TwoKeys
    Digest <- TwoDigests
    None = None
    Zero = Zero
    MaxFaults = 1
SYMMETRY KeySymmetry
INVARIANTS
    TypeOK
    RightKey
    IntegrityErrorsMeanDamage
    OpenableIsComplete
    ComputedIsIndexedUndisturbed
PROPERTIES
    HalfMadeStays
    RingSpec
