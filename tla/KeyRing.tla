------------------------------ MODULE KeyRing -------------------------------
(***************************************************************************)
(* What a key directory promises its users, whatever processes share it:   *)
(* a key that was added can be read ever after, and a private key is only  *)
(* held beside its public key.  The one exception is a key whose own files *)
(* were damaged: put out of place on disk, or written through an object    *)
(* that had been closed.                                                   *)
(***************************************************************************)
CONSTANT Key

VARIABLES ring,     \* the public keys an open directory returns
          vault,    \* the private keys it returns
          damaged   \* the keys whose files were damaged

vars == <<ring, vault, damaged>>

Init ==
    /\ ring = {}
    /\ vault = {}
    /\ damaged = {}

AddPublicKey(k) ==
    /\ ring' = ring \cup {k}
    /\ UNCHANGED <<vault, damaged>>

AddPrivateKey(k) ==
    /\ k \in ring \cup damaged
    /\ vault' = vault \cup {k}
    /\ UNCHANGED <<ring, damaged>>

(* Damage to one key's files may lose that key, or bring it back: no other. *)
Damage(k) ==
    /\ damaged' = damaged \cup {k}
    /\ ring' \in {ring \cup {k}, ring \ {k}}
    /\ vault' \in {vault \cup {k}, vault \ {k}}

Next == \E k \in Key : AddPublicKey(k) \/ AddPrivateKey(k) \/ Damage(k)

Spec == Init /\ [][Next]_vars

=============================================================================
