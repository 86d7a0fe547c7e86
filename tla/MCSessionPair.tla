---------------------------- MODULE MCSessionPair ---------------------------
(* Values for SessionPair's per-party constants. *)
EXTENDS SessionPair

Two == {Alice, Bob}
Level768 == [p \in Two |-> 768]
MixedLevel == [p \in Two |-> IF p = Alice THEN 768 ELSE 1024]
EveryoneKnown == [p \in Two |-> Two]

(* The two sides prefer different AEADs and share both. *)
BothAeads ==
    [p \in Two |-> IF p = Alice THEN <<"aes256-gcm", "chacha20-poly1305">>
                   ELSE <<"chacha20-poly1305", "aes256-gcm">>]

=============================================================================
