--------------------------- MODULE MCKeyDirectory ---------------------------
(* Instances of KeyDirectory for model checking. *)
EXTENDS KeyDirectory, TLC

CONSTANTS p1, p2, k1, k2, right, wrong

OneProcess == {p1}
TwoProcesses == {p1, p2}
OneCreator == {p1}

TwoKeys == {k1, k2}
OneKey == {k1}

TwoDigests == {"sha256", "sha384"}

Passphrases == {right, wrong}

KeySymmetry == Permutations(TwoKeys) \cup Permutations(Passphrases)

=============================================================================
