---------------------------- MODULE SecureChannel ---------------------------
(***************************************************************************)
(* What two applications may expect of the sessions between them, whatever *)
(* the network and restarts do: the responder confirms keys, the initiator *)
(* agrees only to keys the responder has confirmed, and each application   *)
(* is handed payloads the other one posted, in the order they were posted  *)
(* and each at most once - some may be lost - and none before keys exist.  *)
(***************************************************************************)
EXTENDS Naturals, Sequences

CONSTANTS Initiator, Responder

VARIABLES posted,     \* payloads 1..posted[p] have been posted by p
          delivered,  \* the payloads handed to each application
          confirmed,  \* the keys the responder has ever confirmed
          agreed      \* the keys the initiator's session has: one or none

vars == <<posted, delivered, confirmed, agreed>>

Parties == {Initiator, Responder}
Other(p) == IF p = Initiator THEN Responder ELSE Initiator

Init ==
    /\ posted = [p \in Parties |-> 0]
    /\ delivered = [p \in Parties |-> <<>>]
    /\ confirmed = {}
    /\ agreed = {}

Post(p) ==
    /\ posted' = [posted EXCEPT ![p] = @ + 1]
    /\ UNCHANGED <<delivered, confirmed, agreed>>

(* The number of the last payload handed to p. *)
Last(p) == IF delivered[p] = <<>> THEN 0 ELSE delivered[p][Len(delivered[p])][2]

HandOver(p) ==
    \E k \in (Last(p) + 1)..posted[Other(p)] :
        delivered' = [delivered EXCEPT ![p] = Append(@, <<Other(p), k>>)]

(* The responder confirms keys, the payload they came with in the same step. *)
Confirm ==
    /\ confirmed # confirmed'
    /\ confirmed \subseteq confirmed'
    /\ HandOver(Responder) \/ UNCHANGED delivered
    /\ UNCHANGED <<posted, agreed>>

(* The initiator agrees to keys the responder has confirmed. *)
Agree ==
    /\ agreed = {}
    /\ \E keys \in confirmed : agreed' = {keys}
    /\ HandOver(Initiator) \/ UNCHANGED delivered
    /\ UNCHANGED <<posted, confirmed>>

Receive ==
    /\ \/ confirmed # {} /\ HandOver(Responder)
       \/ agreed # {} /\ HandOver(Initiator)
    /\ UNCHANGED <<posted, confirmed, agreed>>

(* The initiator's session ends. *)
End ==
    /\ agreed' = {}
    /\ UNCHANGED <<posted, delivered, confirmed>>

Next == (\E p \in Parties : Post(p)) \/ Confirm \/ Agree \/ Receive \/ End

Spec == Init /\ [][Next]_vars

=============================================================================
