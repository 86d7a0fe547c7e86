------------------------------- MODULE Crypto -------------------------------
(***************************************************************************)
(* The cryptography session.py stands on, symbolically.  A key pair is its *)
(* private seed and a level (768 or 1024): one ML-KEM seed yields a        *)
(* different key at each level.  A secret, a nonce and an ephemeral seed   *)
(* are fresh values: drawing one gives a value nobody drew before.         *)
(***************************************************************************)
EXTENDS Naturals, Sequences

CONSTANTS None,   \* Python's None
          Empty   \* b"", the plaintext of a completion request without payload

ASSUME NoneAssumption == None \notin Nat

Levels == {768, 1024}

(* Outcomes of a call: no exception, or the class of the one that escapes. *)
NoError == "no error"
HandshakeFailed == "HandshakeFailed"
UnexpectedPDU == "UnexpectedPDU"
ValueError == "ValueError"
InvalidTag == "InvalidTag"

(* The seed behind a party's static key: what its KeyId names. *)
StaticSeed(party) == <<"static", party>>

(* session._generate_ephemeral: a new key pair at `level`, as its public half. *)
PublicKey(seed, level) == [seed |-> seed, level |-> level]

(* session._encapsulate: the level is the public key's own, the shared secret *)
(* is new, and only the holder of the seed can take it out of the ciphertext. *)
Encapsulate(publicKey, secret) == [to |-> publicKey, secret |-> secret]

(* A ciphertext of another level has another length: decapsulate refuses it. *)
LengthMismatch(level, ciphertext) == ciphertext.to.level # level

(* session._decapsulate, on a ciphertext of the right length.  ML-KEM rejects  *)
(* implicitly: a ciphertext made for another key yields a secret of its own,   *)
(* never an error.                                                             *)
Decapsulate(seed, ciphertext) ==
    IF ciphertext.to.seed = seed
    THEN ciphertext.secret
    ELSE <<"rejected", seed, ciphertext>>

(* session.derive_session_keys: the four directional secrets are a function of *)
(* exactly these inputs; each direction has a key and an IV of its own.        *)
SessionKeys(nA, nB, fA, s1, s2, s3, s4, aead) ==
    [nA |-> nA, nB |-> nB, fA |-> fA,
     s1 |-> s1, s2 |-> s2, s3 |-> s3, s4 |-> s4, aead |-> aead]

Directions == {"a2b", "b2a"}

(* session._encrypt: the nonce is the direction's IV XOR seq, the associated *)
(* data the bytes of the cid.                                                *)
Encrypt(keys, dir, seq, plain, cid) ==
    [keys |-> keys, dir |-> dir, seq |-> seq, plain |-> plain, cid |-> cid]

(* session._decrypt raises InvalidTag unless key, nonce and associated data are *)
(* the ones the ciphertext was made with.                                       *)
Decrypts(keys, dir, seq, ciphertext, cid) ==
    /\ ciphertext.keys = keys
    /\ ciphertext.dir = dir
    /\ ciphertext.seq = seq
    /\ ciphertext.cid = cid

(* hashlib.sha256: collision free, and keyed by nothing. *)
Sha256(plain) == <<"sha256", plain>>

=============================================================================
