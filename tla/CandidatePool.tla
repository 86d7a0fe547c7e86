---------------------------- MODULE CandidatePool ---------------------------
(***************************************************************************)
(* A CandidateStore under any sequence of legal calls, on a clock that     *)
(* only moves forward.                                                     *)
(***************************************************************************)
EXTENDS CandidateStore

CONSTANTS Cid, Pdu,  \* correlation ids and PDUs, as opaque values
          MaxTime    \* bound: the last instant of the clock

ASSUME PoolAssumption == MaxTime \in Nat /\ IsFiniteSet(Cid)

VARIABLES store,    \* the CandidateStore object
          now,      \* the instant the next call is given
          outcome   \* what the last call did

vars == <<store, now, outcome>>

Init == store = EmptyStore /\ now = 0 /\ outcome = "none"

AddCandidate(cid, pdu) ==
    /\ store' = Add(store, cid, pdu, pdu, now)
    /\ outcome' = IF CanAdd(store, cid, now) THEN "added" ELSE "refused"
    /\ UNCHANGED now

ForgetCid(cid) ==
    /\ store' = Forget(store, cid)
    /\ outcome' = "forgotten"
    /\ UNCHANGED now

Sweep ==
    /\ store' = Expire(store, now)
    /\ outcome' = "swept"
    /\ UNCHANGED now

Tick ==
    /\ now < MaxTime
    /\ now' = now + 1
    /\ outcome' = "none"
    /\ UNCHANGED store

Next ==
    \/ \E cid \in Cid, pdu \in Pdu : AddCandidate(cid, pdu)
    \/ \E cid \in Cid : ForgetCid(cid)
    \/ Sweep
    \/ Tick

Spec == Init /\ [][Next]_vars

-----------------------------------------------------------------------------
CandidateType ==
    [slot : 1..MaxTotal, cid : Cid, receivedPdu : Pdu, sentPdu : Pdu, expiresAt : Nat]

(* The shape of the state; candidates are told apart by their slots. *)
TypeOK ==
    /\ store.candidates \subseteq CandidateType
    /\ store.cids \subseteq Cid
    /\ store = [candidates |-> store.candidates, cids |-> store.cids,
                total |-> store.total]
    /\ \A c, d \in store.candidates : c.slot = d.slot => c = d
    /\ store.total \in Nat
    /\ now \in Nat
    /\ outcome \in {"none", "added", "refused", "forgotten", "swept"}

(* _total is kept by hand in add, promote, discard and expire: it is always  *)
(* the number of candidates held, so the global cap counts what it means to. *)
CountExact == store.total = Cardinality(store.candidates)

(* "Bounded per-cid and globally": no call sequence exceeds either cap. *)
CapsRespected ==
    /\ Cardinality(store.candidates) <= MaxTotal
    /\ \A cid \in Cid : Cardinality(CandidatesFor(store, cid)) <= MaxPerCid

(* The entries of _by_cid whose list is empty. *)
UnusedCids == {cid \in store.cids : CandidatesFor(store, cid) = {}}

(* A refused add leaves an empty list behind in _by_cid (setdefault runs     *)
(* before the check); the next sweep takes it, so however many cids are      *)
(* refused the dict never holds more than one entry beyond those of the      *)
(* candidates.                                                               *)
DictBounded ==
    /\ \A c \in store.candidates : c.cid \in store.cids
    /\ \A x, y \in UnusedCids : x = y

(* "This ensures that we don't reject a new candidate just because old ones  *)
(* haven't been cleaned up yet": whenever an add has been refused, everything *)
(* the store holds is alive and some cap is really reached.                   *)
RefusalHonest ==
    outcome = "refused" =>
        /\ \A c \in store.candidates : ~IsExpired(c, now)
        /\ \/ Cardinality(store.candidates) = MaxTotal
           \/ \E cid \in store.cids :
                Cardinality(CandidatesFor(store, cid)) = MaxPerCid

(* "Fixed (non-sliding) TTL", swept "on every tick, and also before adding a   *)
(* new candidate": a sweep or an add leaves nothing past its TTL in one pass;   *)
(* only a successful add makes a candidate, one, which expires a TTL later and  *)
(* takes the slot of none that is alive; so whatever is added, refused or       *)
(* repeated for its cid, a candidate keeps the expiry it was made with.         *)
FixedTTL ==
    [][LET made == store'.candidates \ store.candidates IN
       /\ outcome' \in {"swept", "added", "refused"} =>
            \A c \in store'.candidates : now < c.expiresAt
       /\ made # {} => outcome' = "added"
       /\ \A c, d \in made : c = d
       /\ \A c \in made :
            /\ c.expiresAt = now + CandidateTTL
            /\ \A d \in store.candidates : d.slot = c.slot => d.expiresAt <= now]_vars

=============================================================================
