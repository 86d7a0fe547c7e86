------------------------ MODULE CandidatePool_proofs ------------------------
(***************************************************************************)
(* CandidatePool's invariants for any caps, TTL, cids and PDUs.  The       *)
(* inductive invariant is StoreOK (which CandidateStore_proofs shows every *)
(* method to keep) with the shape of the state and the one fact StoreOK    *)
(* says nothing of: which cids may have an empty list.                     *)
(***************************************************************************)
EXTENDS CandidatePool, CandidateStore_proofs

IInv == TypeOK /\ StoreOK(store) /\ DictBounded

LEMMA InitIInv == Init => IInv
<1> SUFFICES ASSUME Init PROVE IInv
  OBVIOUS
<1>1. StoreOK(store)
  BY EmptyStoreOK DEF Init
<1>2. TypeOK /\ DictBounded
  BY DEF Init, EmptyStore, TypeOK, DictBounded, UnusedCids, CandidatesFor
<1>3. QED
  BY <1>1, <1>2 DEF IInv

(* A sweep leaves no cid without candidates, so that a refused add right     *)
(* after it leaves at most one.                                              *)
LEMMA ExpireListsNoEmptyCid ==
    ASSUME NEW st, StoreOK(st), NEW t
    PROVE  \A cid \in Expire(st, t).cids : CandidatesFor(Expire(st, t), cid) # {}
BY DEF Expire, CandidatesFor

(* expire only takes candidates and cids away. *)
LEMMA ExpireShrinks ==
    ASSUME NEW st, NEW t
    PROVE  /\ Expire(st, t).candidates \subseteq st.candidates
           /\ Expire(st, t).cids \subseteq st.cids
BY DEF Expire

LEMMA NextIInv == IInv /\ [Next]_vars => IInv'
<1> SUFFICES ASSUME IInv, [Next]_vars PROVE IInv'
  OBVIOUS
<1>0. StoreOK(store) /\ TypeOK /\ DictBounded
  BY DEF IInv
<1>1. ASSUME NEW cid \in Cid, NEW pdu \in Pdu, AddCandidate(cid, pdu)
      PROVE  IInv'
  <2> DEFINE swept == Expire(store, now)
             added == Candidate(swept, cid, pdu, pdu, now)
  <2>1. StoreOK(store')
    BY <1>0, <1>1, AddOK DEF AddCandidate
  <2>2. StoreOK(swept)
    BY <1>0, ExpireOK
  <2>3. /\ swept.candidates \subseteq store.candidates
        /\ swept.cids \subseteq store.cids
        /\ \A k \in swept.cids : CandidatesFor(swept, k) # {}
    BY <1>0, ExpireShrinks, ExpireListsNoEmptyCid
  <2>4. store' = IF LimitReached(swept, cid)
                 THEN [swept EXCEPT !.cids = @ \cup {cid}]
                 ELSE [candidates |-> swept.candidates \cup {added},
                       cids |-> swept.cids \cup {cid}, total |-> swept.total + 1]
    BY <1>1 DEF AddCandidate, Add, SweptForAdd
  <2>5. /\ swept = [candidates |-> swept.candidates, cids |-> swept.cids,
                    total |-> swept.total]
        /\ swept.total \in Nat
    BY <2>2, FS_CardinalityType DEF StoreOK
  <2> HIDE DEF swept
  <2>6. store'.cids = swept.cids \cup {cid}
    BY <2>4, <2>5
  <2>7. CASE LimitReached(swept, cid)
    <3>1. store'.candidates = swept.candidates
      BY <2>4, <2>5, <2>7
    <3>2. DictBounded'
      BY <2>1, <2>3, <2>6, <3>1 DEF DictBounded, UnusedCids, CandidatesFor, StoreOK
    <3>3. TypeOK'
      BY <1>0, <1>1, <2>1, <2>3, <2>4, <2>5, <2>6, <2>7, <3>1, FS_CardinalityType
         DEF TypeOK, StoreOK, AddCandidate
    <3>4. QED
      BY <2>1, <3>2, <3>3 DEF IInv
  <2>8. CASE ~LimitReached(swept, cid)
    <3>1. store'.candidates = swept.candidates \cup {added}
      BY <2>4, <2>8
    <3>2. swept.total < MaxTotal
      BY <2>5, <2>8, StoreAssumption DEF LimitReached
    <3>3. added \in CandidateType /\ added.cid = cid
      <4>1. FreeSlot(swept) \in 1..MaxTotal
        BY <2>2, <3>2, FreeSlotExists
      <4>2. now + CandidateTTL \in Nat
        BY <1>0, StoreAssumption DEF TypeOK
      <4>3. QED
        BY <4>1, <4>2 DEF Candidate, CandidateType
    <3> HIDE DEF added
    <3>4. DictBounded'
      BY <2>1, <2>3, <2>6, <3>1, <3>3
         DEF DictBounded, UnusedCids, CandidatesFor, StoreOK
    <3>5. store'.candidates \subseteq CandidateType /\ store'.cids \subseteq Cid
      BY <1>0, <2>3, <2>6, <3>1, <3>3 DEF TypeOK
    <3>6. store'.total \in Nat
      BY <2>4, <2>5, <2>8
    <3>7. outcome' \in {"added", "refused"} /\ now' = now
      BY <1>1 DEF AddCandidate
    <3>8. TypeOK'
      BY <1>0, <2>1, <3>5, <3>6, <3>7 DEF TypeOK, StoreOK
    <3>9. QED
      BY <2>1, <3>4, <3>8 DEF IInv
  <2>9. QED
    BY <2>7, <2>8
<1>2. ASSUME NEW cid \in Cid, ForgetCid(cid)
      PROVE  IInv'
  <2>1. StoreOK(store')
    BY <1>0, <1>2, ForgetOK DEF ForgetCid
  <2>2. /\ store'.candidates = store.candidates \ CandidatesFor(store, cid)
        /\ store'.cids = store.cids \ {cid}
    BY <1>2 DEF ForgetCid, Forget, ForgetAll, CandidatesFor
  <2>3. store'.total \in Nat
    BY <2>1, FS_CardinalityType DEF StoreOK
  <2>4. TypeOK'
    BY <1>0, <1>2, <2>1, <2>2, <2>3 DEF TypeOK, StoreOK, ForgetCid
  <2>5. DictBounded'
    BY <1>0, <2>1, <2>2 DEF DictBounded, UnusedCids, CandidatesFor, StoreOK
  <2>6. QED
    BY <2>1, <2>4, <2>5 DEF IInv
<1>3. ASSUME Sweep
      PROVE  IInv'
  <2>1. StoreOK(store')
    BY <1>0, <1>3, ExpireOK DEF Sweep
  <2>2. /\ store'.candidates \subseteq store.candidates
        /\ store'.cids \subseteq store.cids
        /\ \A k \in store'.cids : CandidatesFor(store', k) # {}
    BY <1>0, <1>3, ExpireShrinks, ExpireListsNoEmptyCid DEF Sweep
  <2>3. store'.total \in Nat
    BY <2>1, FS_CardinalityType DEF StoreOK
  <2>4. TypeOK'
    BY <1>0, <1>3, <2>1, <2>2, <2>3 DEF TypeOK, StoreOK, Sweep
  <2>5. DictBounded'
    BY <2>1, <2>2 DEF DictBounded, UnusedCids, StoreOK
  <2>6. QED
    BY <2>1, <2>4, <2>5 DEF IInv
<1>4. ASSUME Tick
      PROVE  IInv'
  BY <1>0, <1>4 DEF IInv, Tick, TypeOK, DictBounded, UnusedCids
<1>5. ASSUME UNCHANGED vars
      PROVE  IInv'
  BY <1>0, <1>5 DEF IInv, vars, TypeOK, DictBounded, UnusedCids
<1>6. QED
  BY <1>1, <1>2, <1>3, <1>4, <1>5 DEF Next

(* The inductive invariant holds of every behaviour. *)
THEOREM Invariance == Spec => []IInv
BY InitIInv, NextIInv, PTL DEF Spec

(* Type correctness: candidates are well formed and told apart by slots. *)
THEOREM TypeCorrect == Spec => []TypeOK
<1>1. IInv => TypeOK
  BY DEF IInv
<1>2. QED
  BY <1>1, Invariance, PTL

(* _total, kept by hand in four methods, is always the number of candidates. *)
THEOREM TotalIsExact == Spec => []CountExact
<1>1. IInv => CountExact
  BY DEF IInv, StoreOK, CountExact
<1>2. QED
  BY <1>1, Invariance, PTL

(* Neither cap is ever exceeded, whatever the caps, the TTL and the calls. *)
THEOREM CapsHold == Spec => []CapsRespected
<1>1. IInv => CapsRespected
  <2> SUFFICES ASSUME IInv PROVE CapsRespected
    OBVIOUS
  <2>1. StoreOK(store)
    BY DEF IInv
  <2>2. Cardinality(store.candidates) <= MaxTotal
    BY <2>1 DEF StoreOK
  <2>3. \A cid \in Cid : Cardinality(CandidatesFor(store, cid)) <= MaxPerCid
    BY <2>1, CandidatesForFinite
  <2>4. QED
    BY <2>2, <2>3 DEF CapsRespected
<1>2. QED
  BY <1>1, Invariance, PTL

(* However many cids were refused, at most one empty list is in the dict. *)
THEOREM DictIsBounded == Spec => []DictBounded
<1>1. IInv => DictBounded
  BY DEF IInv
<1>2. QED
  BY <1>1, Invariance, PTL

(* add refuses only at a cap that candidates still alive have reached: an    *)
(* expired candidate never costs a new one its place.                        *)
THEOREM RefusalIsHonest == Spec => []RefusalHonest
<1>1. Init => RefusalHonest
  BY DEF Init, RefusalHonest
<1>2. IInv /\ RefusalHonest /\ [Next]_vars => RefusalHonest'
  <2> SUFFICES ASSUME IInv, RefusalHonest, [Next]_vars, outcome' = "refused"
               PROVE  RefusalHonest'
    BY DEF RefusalHonest
  <2>1. CASE UNCHANGED vars
    BY <2>1 DEF vars, RefusalHonest
  <2>2. ASSUME NEW cid \in Cid, NEW pdu \in Pdu, AddCandidate(cid, pdu)
        PROVE  RefusalHonest'
    <3> DEFINE swept == Expire(store, now)
    <3>1. LimitReached(swept, cid)
      BY <2>2 DEF AddCandidate, CanAdd, SweptForAdd
    <3>2. StoreOK(swept)
      BY ExpireOK DEF IInv
    <3>3. /\ store'.candidates = swept.candidates
          /\ cid \in store'.cids
          /\ now' = now
      <4>1. store' = [swept EXCEPT !.cids = @ \cup {cid}]
        BY <2>2, <3>1 DEF AddCandidate, Add, SweptForAdd
      <4>2. swept = [candidates |-> swept.candidates, cids |-> swept.cids,
                     total |-> swept.total]
        BY <3>2 DEF StoreOK
      <4>3. QED
        BY <4>1, <4>2, <2>2 DEF AddCandidate
    <3>4. \A c \in swept.candidates : ~IsExpired(c, now)
      BY DEF Expire
    <3> HIDE DEF swept
    <3>5. CandidatesFor(store', cid) = CandidatesFor(swept, cid)
      BY <3>3 DEF CandidatesFor
    <3>6. /\ Cardinality(CandidatesFor(swept, cid)) \in Nat
          /\ Cardinality(CandidatesFor(swept, cid)) <= MaxPerCid
      BY <3>2, CandidatesForFinite
    <3>7. /\ swept.total = Cardinality(swept.candidates)
          /\ swept.total \in Nat /\ swept.total <= MaxTotal
      BY <3>2, FS_CardinalityType DEF StoreOK
    <3>8. \/ Cardinality(store'.candidates) = MaxTotal
          \/ Cardinality(CandidatesFor(store', cid)) = MaxPerCid
      BY <3>1, <3>3, <3>5, <3>6, <3>7, StoreAssumption DEF LimitReached
    <3>9. \A c \in store'.candidates : ~IsExpired(c, now')
      BY <3>3, <3>4 DEF IsExpired
    <3>10. QED
      BY <3>3, <3>8, <3>9 DEF RefusalHonest
  <2>3. CASE \/ \E cid \in Cid : ForgetCid(cid)
             \/ Sweep
             \/ Tick
    BY <2>3 DEF ForgetCid, Sweep, Tick
  <2>4. QED
    BY <2>1, <2>2, <2>3 DEF Next
<1>3. QED
  BY <1>1, <1>2, Invariance, PTL DEF Spec

(* A sweep or an add leaves nothing past its TTL, only a successful add makes *)
(* a candidate, with the whole TTL ahead of it, and none is ever given more.  *)
THEOREM TTLIsFixed == Spec => FixedTTL
<1> DEFINE made == store'.candidates \ store.candidates
           Fixed ==
             /\ outcome' \in {"swept", "added", "refused"} =>
                  \A c \in store'.candidates : now < c.expiresAt
             /\ made # {} => outcome' = "added"
             /\ \A c, d \in made : c = d
             /\ \A c \in made :
                  /\ c.expiresAt = now + CandidateTTL
                  /\ \A d \in store.candidates :
                        d.slot = c.slot => d.expiresAt <= now
<1>1. IInv /\ [Next]_vars => [Fixed]_vars
  <2> SUFFICES ASSUME IInv, Next PROVE Fixed
    OBVIOUS
  <2>0. /\ StoreOK(store) /\ now \in Nat
        /\ \A c \in store.candidates : c.expiresAt \in Nat
    BY DEF IInv, TypeOK, CandidateType
  <2> DEFINE swept == Expire(store, now)
  <2>1. /\ swept.candidates \subseteq store.candidates
        /\ \A c \in store.candidates : c \in swept.candidates \/ c.expiresAt <= now
        /\ \A c \in swept.candidates : now < c.expiresAt
    BY <2>0 DEF Expire, IsExpired
  <2>2. ASSUME NEW cid \in Cid, NEW pdu \in Pdu, AddCandidate(cid, pdu)
        PROVE  Fixed
    <3> DEFINE added == Candidate(swept, cid, pdu, pdu, now)
    <3>1. StoreOK(swept)
      BY <2>0, ExpireOK
    <3>2. CASE LimitReached(swept, cid)
      <4>1. store'.candidates = swept.candidates
        BY <2>2, <3>1, <3>2 DEF AddCandidate, Add, SweptForAdd, StoreOK
      <4>2. QED
        BY <2>1, <4>1
    <3>3. CASE ~LimitReached(swept, cid)
      <4>1. /\ store'.candidates = swept.candidates \cup {added}
            /\ outcome' = "added"
        BY <2>2, <3>3 DEF AddCandidate, Add, CanAdd, SweptForAdd
      <4>2. swept.total < MaxTotal
        BY <3>1, <3>3, FS_CardinalityType, StoreAssumption DEF LimitReached, StoreOK
      <4>3. \A c \in swept.candidates : c.slot # FreeSlot(swept)
        BY <3>1, <4>2, FreeSlotExists
      <4>4. /\ added.slot = FreeSlot(swept)
            /\ added.expiresAt = now + CandidateTTL
        BY DEF Candidate
      <4>5. now < added.expiresAt
        BY <2>0, <4>4, StoreAssumption
      <4> HIDE DEF swept, added
      <4>6. made \subseteq {added}
        BY <2>1, <4>1
      <4>7. \A d \in store.candidates : d.slot = added.slot => d.expiresAt <= now
        BY <2>1, <4>3, <4>4
      <4>8. \A c \in store'.candidates : now < c.expiresAt
        BY <2>1, <4>1, <4>5
      <4>9. QED
        BY <4>1, <4>4, <4>6, <4>7, <4>8
    <3>4. QED
      BY <3>2, <3>3
  <2>3. ASSUME NEW cid \in Cid, ForgetCid(cid)
        PROVE  Fixed
    BY <2>3 DEF ForgetCid, Forget, ForgetAll
  <2>4. ASSUME Sweep
        PROVE  Fixed
    BY <2>1, <2>4 DEF Sweep
  <2>5. ASSUME Tick
        PROVE  Fixed
    BY <2>5 DEF Tick
  <2>6. QED
    BY <2>2, <2>3, <2>4, <2>5 DEF Next
<1>2. QED
  BY <1>1, Invariance, PTL DEF Spec, FixedTTL

=============================================================================
