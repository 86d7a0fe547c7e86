--------------------------- MODULE CandidateStore ---------------------------
(***************************************************************************)
(* candidate.py: the bounded pool of unauthenticated handshake candidates. *)
(* _by_cid is a dict from cid to a list of candidates; here the candidates *)
(* are one set (each with a slot of its own, so that equal entries stay    *)
(* apart), `cids` is the domain of the dict, which may hold a cid whose    *)
(* list is empty, and `total` is the counter the code keeps beside it.     *)
(* created_at and attempt_count are never read.                            *)
(***************************************************************************)
EXTENDS Naturals, FiniteSets

CONSTANTS MaxPerCid,     \* max_per_cid
          MaxTotal,      \* max_total
          CandidateTTL   \* ttl_seconds

(* CandidateStore.__init__ refuses anything else; the TTL is the caller's. *)
ASSUME StoreAssumption ==
    /\ MaxPerCid \in Nat \ {0}
    /\ MaxTotal \in Nat
    /\ MaxTotal >= MaxPerCid
    /\ CandidateTTL \in Nat \ {0}

EmptyStore == [candidates |-> {}, cids |-> {}, total |-> 0]

CandidatesFor(store, cid) == {c \in store.candidates : c.cid = cid}

MatchesReceived(store, cid, pdu) ==
    {c \in CandidatesFor(store, cid) : c.receivedPdu = pdu}

(* Variant: the instant of expiry itself still counts as alive. *)
IsExpiredLate(c, now) == now > c.expiresAt

IsExpired(c, now) == now >= c.expiresAt

(* Variant: the lists are emptied but stay in the dict. *)
ExpireKeepsLists(store, now) ==
    LET surviving == {c \in store.candidates : ~IsExpired(c, now)}
    IN [candidates |-> surviving, cids |-> store.cids,
        total |-> store.total - Cardinality(store.candidates \ surviving)]

(* Variant: every candidate looked at is subtracted, not every one removed. *)
ExpireMiscounts(store, now) ==
    LET surviving == {c \in store.candidates : ~IsExpired(c, now)}
    IN [candidates |-> surviving,
        cids |-> {cid \in store.cids : \E c \in surviving : c.cid = cid},
        total |-> store.total - Cardinality(store.candidates)]

(* CandidateStore.expire: drops what is past its TTL, the empty lists with it. *)
Expire(store, now) ==
    LET surviving == {c \in store.candidates : ~IsExpired(c, now)}
    IN [candidates |-> surviving,
        cids |-> {cid \in store.cids : \E c \in surviving : c.cid = cid},
        total |-> store.total - Cardinality(store.candidates \ surviving)]

(* Variant: one candidate too many per cid. *)
LimitReachedOneMore(store, cid) ==
    \/ Cardinality(CandidatesFor(store, cid)) > MaxPerCid
    \/ store.total >= MaxTotal

(* The two checks of add, on a store already swept. *)
LimitReached(store, cid) ==
    \/ Cardinality(CandidatesFor(store, cid)) >= MaxPerCid
    \/ store.total >= MaxTotal

FreeSlot(store) ==
    CHOOSE i \in 1..MaxTotal : \A c \in store.candidates : c.slot # i

Candidate(store, cid, receivedPdu, sentPdu, now) ==
    [slot |-> FreeSlot(store), cid |-> cid, receivedPdu |-> receivedPdu,
     sentPdu |-> sentPdu, expiresAt |-> now + CandidateTTL]

(* Variant: the limits are checked before the sweep. *)
NotSweptForAdd(store, now) == store

(* What add does first, whichever way it ends. *)
SweptForAdd(store, now) == Expire(store, now)

(* CandidateStore.add: sweep first, then make the cid's list, then check.  A  *)
(* refusal (CandidateLimitExceeded) leaves the list it just made behind.      *)
CanAdd(store, cid, now) == ~LimitReached(SweptForAdd(store, now), cid)

(* Variant: a TTL that slides, as one more candidate of the cid arrives. *)
AddSliding(store, cid, receivedPdu, sentPdu, now) ==
    LET swept == SweptForAdd(store, now)
        added == Candidate(swept, cid, receivedPdu, sentPdu, now)
        prolonged == {IF c.cid = cid THEN [c EXCEPT !.expiresAt = now + CandidateTTL] ELSE c :
                         c \in swept.candidates}
    IN IF LimitReached(swept, cid)
       THEN [swept EXCEPT !.cids = @ \cup {cid}]
       ELSE [candidates |-> prolonged \cup {added},
             cids |-> swept.cids \cup {cid}, total |-> swept.total + 1]

Add(store, cid, receivedPdu, sentPdu, now) ==
    LET swept == SweptForAdd(store, now)
        added == Candidate(swept, cid, receivedPdu, sentPdu, now)
    IN IF LimitReached(swept, cid)
       THEN [swept EXCEPT !.cids = @ \cup {cid}]
       ELSE [candidates |-> swept.candidates \cup {added},
             cids |-> swept.cids \cup {cid}, total |-> swept.total + 1]

(* Variant: the counter is not told. *)
ForgetAllUncounted(store, cids) ==
    [candidates |-> {c \in store.candidates : c.cid \notin cids},
     cids |-> store.cids \ cids, total |-> store.total]

(* CandidateStore.promote and CandidateStore.discard: every candidate of the *)
(* cid goes, the winner included.  ForgetAll is the call for each of `cids`.  *)
ForgetAll(store, cids) ==
    LET removed == {c \in store.candidates : c.cid \in cids}
    IN [candidates |-> store.candidates \ removed,
        cids |-> store.cids \ cids,
        total |-> store.total - Cardinality(removed)]

Forget(store, cid) == ForgetAll(store, {cid})

-----------------------------------------------------------------------------
(* What every method keeps true of the object, and may rely on: the counter  *)
(* is the number of candidates, both caps hold, every candidate is listed    *)
(* under its cid, and no two share a slot.                                   *)
StoreOK(store) ==
    /\ store = [candidates |-> store.candidates, cids |-> store.cids,
                total |-> store.total]
    /\ IsFiniteSet(store.candidates)
    /\ \A c \in store.candidates : c.slot \in 1..MaxTotal /\ c.cid \in store.cids
    /\ \A c, d \in store.candidates : c.slot = d.slot => c = d
    /\ store.total = Cardinality(store.candidates)
    /\ store.total <= MaxTotal
    /\ \A cid \in store.cids : Cardinality(CandidatesFor(store, cid)) <= MaxPerCid

=============================================================================
