-------------------------- MODULE MCDispatcherPair --------------------------
(* Values for DispatcherPair's per-party constants: Alice initiates and may *)
(* fork three times, Bob answers twice and may restart in between.          *)
EXTENDS DispatcherPair

Two == {Alice, Bob}
Level768 == [p \in Two |-> 768]
EveryoneKnown == [p \in Two |-> Two]
OneAead == [p \in Two |-> <<"aes256-gcm">>]

OnlyAlice == [p \in Two |-> IF p = Alice THEN 1 ELSE 0]
OnlyBob == [p \in Two |-> IF p = Bob THEN 1 ELSE 0]
MoreDraws == [p \in Two |-> IF p = Alice THEN 4 ELSE 2]

=============================================================================
