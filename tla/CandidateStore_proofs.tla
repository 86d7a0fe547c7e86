------------------------ MODULE CandidateStore_proofs -----------------------
(***************************************************************************)
(* Every method of CandidateStore keeps StoreOK, for any caps and TTL.     *)
(* These lemmas are about the operators alone, so that whatever owns a     *)
(* store (CandidatePool, a dispatcher) can cite them.                      *)
(***************************************************************************)
EXTENDS CandidateStore, FiniteSetTheorems, TLAPS

(* A newly constructed store. *)
LEMMA EmptyStoreOK == StoreOK(EmptyStore)
BY FS_EmptySet, StoreAssumption, SMT DEF StoreOK, EmptyStore, CandidatesFor

(* The candidates of one cid are a finite part of the store's. *)
LEMMA CandidatesForFinite ==
    ASSUME NEW store, StoreOK(store), NEW cid
    PROVE  /\ IsFiniteSet(CandidatesFor(store, cid))
           /\ Cardinality(CandidatesFor(store, cid)) \in Nat
           /\ Cardinality(CandidatesFor(store, cid)) <= MaxPerCid
<1>1. IsFiniteSet(CandidatesFor(store, cid))
  BY FS_Subset DEF StoreOK, CandidatesFor
<1>2. Cardinality(CandidatesFor(store, cid)) \in Nat
  BY <1>1, FS_CardinalityType
<1>3. CASE cid \in store.cids
  BY <1>1, <1>2, <1>3 DEF StoreOK
<1>4. CASE cid \notin store.cids
  <2>1. CandidatesFor(store, cid) = {}
    BY <1>4 DEF StoreOK, CandidatesFor
  <2>2. QED
    BY <2>1, <1>1, <1>2, FS_EmptySet, StoreAssumption
<1>5. QED
  BY <1>3, <1>4

(* Taking candidates away keeps the store sound, as long as the counter moves *)
(* with them and every one that stays is still listed.                        *)
LEMMA ShrinkOK ==
    ASSUME NEW store, StoreOK(store),
           NEW kept \in SUBSET store.candidates,
           NEW cids \in SUBSET store.cids,
           \A c \in kept : c.cid \in cids
    PROVE  StoreOK([candidates |-> kept, cids |-> cids,
                    total |-> store.total - Cardinality(store.candidates \ kept)])
<1> DEFINE new == [candidates |-> kept, cids |-> cids,
                   total |-> store.total - Cardinality(store.candidates \ kept)]
<1>1. /\ IsFiniteSet(store.candidates)
      /\ store.total = Cardinality(store.candidates)
      /\ store.total <= MaxTotal
  BY DEF StoreOK
<1>2. IsFiniteSet(kept) /\ Cardinality(kept) <= Cardinality(store.candidates)
  BY <1>1, FS_Subset
<1>3. /\ Cardinality(store.candidates \ kept)
           = Cardinality(store.candidates) - Cardinality(store.candidates \cap kept)
  BY <1>1, FS_Difference
<1>4. store.candidates \cap kept = kept
  OBVIOUS
<1>5. Cardinality(kept) \in Nat /\ Cardinality(store.candidates) \in Nat
  BY <1>1, <1>2, FS_CardinalityType
<1>6. new.total = Cardinality(new.candidates) /\ new.total <= MaxTotal
  <2>1. new.total = store.total - Cardinality(store.candidates \ kept)
    OBVIOUS
  <2>2. new.total = Cardinality(kept)
    BY <2>1, <1>1, <1>3, <1>4, <1>5
  <2>3. Cardinality(kept) <= MaxTotal
    BY <1>1, <1>2, <1>5, StoreAssumption
  <2>4. QED
    BY <2>2, <2>3
<1>7. ASSUME NEW cid \in cids
      PROVE  Cardinality(CandidatesFor(new, cid)) <= MaxPerCid
  <2>1. CandidatesFor(new, cid) \in SUBSET CandidatesFor(store, cid)
    BY DEF CandidatesFor
  <2>2. IsFiniteSet(CandidatesFor(store, cid))
        /\ Cardinality(CandidatesFor(store, cid)) \in Nat
        /\ Cardinality(CandidatesFor(store, cid)) <= MaxPerCid
    BY CandidatesForFinite
  <2>3. IsFiniteSet(CandidatesFor(new, cid))
        /\ Cardinality(CandidatesFor(new, cid)) <= Cardinality(CandidatesFor(store, cid))
    BY <2>1, <2>2, FS_Subset
  <2>4. Cardinality(CandidatesFor(new, cid)) \in Nat
    BY <2>3, FS_CardinalityType
  <2>5. QED
    BY <2>2, <2>3, <2>4, StoreAssumption
<1>8. /\ new.candidates = kept /\ new.cids = cids
      /\ new = [candidates |-> new.candidates, cids |-> new.cids, total |-> new.total]
  OBVIOUS
<1>9. QED
  BY <1>2, <1>6, <1>7, <1>8 DEF StoreOK

(* expire keeps the store sound, at whatever instant it is called. *)
LEMMA ExpireOK ==
    ASSUME NEW store, StoreOK(store), NEW now
    PROVE  StoreOK(Expire(store, now))
<1> DEFINE kept == {c \in store.candidates : ~IsExpired(c, now)}
           cids == {cid \in store.cids : \E c \in kept : c.cid = cid}
<1>1. kept \in SUBSET store.candidates /\ cids \in SUBSET store.cids
  OBVIOUS
<1>2. \A c \in kept : c.cid \in cids
  BY DEF StoreOK
<1>3. QED
  BY <1>1, <1>2, ShrinkOK DEF Expire

(* promote and discard keep the store sound, for one cid or for several. *)
LEMMA ForgetAllOK ==
    ASSUME NEW store, StoreOK(store), NEW gone
    PROVE  StoreOK(ForgetAll(store, gone))
<1> DEFINE removed == {c \in store.candidates : c.cid \in gone}
           kept == store.candidates \ removed
           cids == store.cids \ gone
<1>1. kept \in SUBSET store.candidates /\ cids \in SUBSET store.cids
  OBVIOUS
<1>2. \A c \in kept : c.cid \in cids
  BY DEF StoreOK
<1>3. store.candidates \ kept = removed
  OBVIOUS
<1>4. StoreOK([candidates |-> kept, cids |-> cids,
               total |-> store.total - Cardinality(store.candidates \ kept)])
  BY <1>1, <1>2, ShrinkOK
<1>5. QED
  BY <1>3, <1>4 DEF ForgetAll

LEMMA ForgetOK ==
    ASSUME NEW store, StoreOK(store), NEW cid
    PROVE  StoreOK(Forget(store, cid))
BY ForgetAllOK DEF Forget

(* Below the global cap there is a slot nobody holds: otherwise the slots     *)
(* would inject into fewer candidates than there are slots.                   *)
LEMMA FreeSlotExists ==
    ASSUME NEW store, StoreOK(store), store.total < MaxTotal
    PROVE  /\ FreeSlot(store) \in 1..MaxTotal
           /\ \A c \in store.candidates : c.slot # FreeSlot(store)
<1>1. \E i \in 1..MaxTotal : \A c \in store.candidates : c.slot # i
  <2>1. SUFFICES ASSUME \A i \in 1..MaxTotal : \E c \in store.candidates : c.slot = i
                 PROVE  FALSE
    OBVIOUS
  <2> DEFINE holder == [i \in 1..MaxTotal |->
                          CHOOSE c \in store.candidates : c.slot = i]
  <2>2. \A i \in 1..MaxTotal :
           holder[i] \in store.candidates /\ holder[i].slot = i
    BY <2>1
  <2>3. holder \in Injection(1..MaxTotal, store.candidates)
    <3>1. holder \in [1..MaxTotal -> store.candidates]
      BY <2>2
    <3> HIDE DEF holder
    <3>2. \A i, j \in 1..MaxTotal : holder[i] = holder[j] => i = j
      BY <2>2
    <3>3. QED
      BY <3>1, <3>2, Zenon DEF Injection, IsInjective
  <2>4. IsFiniteSet(store.candidates) /\ store.total = Cardinality(store.candidates)
    BY DEF StoreOK
  <2>5. Cardinality(1..MaxTotal) <= Cardinality(store.candidates)
    BY <2>3, <2>4, FS_Injection
  <2>6. Cardinality(1..MaxTotal) = MaxTotal
    BY FS_Interval, StoreAssumption
  <2>7. Cardinality(store.candidates) \in Nat
    BY <2>4, FS_CardinalityType
  <2>8. QED
    BY <2>4, <2>5, <2>6, <2>7, StoreAssumption
<1>2. QED
  BY <1>1 DEF FreeSlot

(* add keeps the store sound, whether it accepts or refuses. *)
LEMMA AddOK ==
    ASSUME NEW store, StoreOK(store), NEW cid, NEW received, NEW sent, NEW now
    PROVE  StoreOK(Add(store, cid, received, sent, now))
<1> DEFINE swept == Expire(store, now)
           listed == [swept EXCEPT !.cids = @ \cup {cid}]
           one == Candidate(swept, cid, received, sent, now)
           full == [candidates |-> swept.candidates \cup {one},
                    cids |-> swept.cids \cup {cid}, total |-> swept.total + 1]
<1>1. StoreOK(swept)
  BY ExpireOK
<1> HIDE DEF swept
<1>2. /\ swept = [candidates |-> swept.candidates, cids |-> swept.cids,
                  total |-> swept.total]
      /\ IsFiniteSet(swept.candidates)
      /\ swept.total = Cardinality(swept.candidates)
      /\ swept.total \in Nat
  BY <1>1, FS_CardinalityType DEF StoreOK
<1>3. listed = [candidates |-> swept.candidates, cids |-> swept.cids \cup {cid},
                total |-> swept.total]
  BY <1>2
<1>4. \A k : CandidatesFor(listed, k) = CandidatesFor(swept, k)
  BY <1>3 DEF CandidatesFor
<1>5. StoreOK(listed)
  <2>1. \A k \in listed.cids : Cardinality(CandidatesFor(listed, k)) <= MaxPerCid
    BY <1>1, <1>4, CandidatesForFinite
  <2>2. QED
    BY <1>1, <1>3, <2>1 DEF StoreOK
<1>6. CASE LimitReached(swept, cid)
  BY <1>5, <1>6 DEF Add, SweptForAdd, swept
<1>7. CASE ~LimitReached(swept, cid)
  <2>1. /\ Cardinality(CandidatesFor(swept, cid)) + 1 <= MaxPerCid
        /\ swept.total + 1 <= MaxTotal
    <3>1. Cardinality(CandidatesFor(swept, cid)) \in Nat
      BY <1>1, CandidatesForFinite
    <3>2. QED
      BY <3>1, <1>2, <1>7, StoreAssumption DEF LimitReached
  <2>2. /\ FreeSlot(swept) \in 1..MaxTotal
        /\ \A c \in swept.candidates : c.slot # FreeSlot(swept)
    BY <1>1, <1>2, <2>1, FreeSlotExists, StoreAssumption
  <2>3. one.slot = FreeSlot(swept) /\ one.cid = cid
    BY DEF Candidate
  <2> HIDE DEF one
  <2>4. one \notin swept.candidates
    BY <2>2, <2>3
  <2>5. /\ full.candidates = swept.candidates \cup {one}
        /\ full.cids = swept.cids \cup {cid}
        /\ full.total = swept.total + 1
    OBVIOUS
  <2>6. IsFiniteSet(full.candidates) /\ Cardinality(full.candidates) = full.total
    BY <1>2, <2>4, <2>5, FS_AddElement
  <2>7. /\ \A c \in full.candidates : c.slot \in 1..MaxTotal /\ c.cid \in full.cids
        /\ \A c, d \in full.candidates : c.slot = d.slot => c = d
    BY <1>1, <2>2, <2>3, <2>5 DEF StoreOK
  <2>8. ASSUME NEW k \in full.cids
        PROVE  Cardinality(CandidatesFor(full, k)) <= MaxPerCid
    <3>1. CASE k = cid
      <4>1. CandidatesFor(full, k) = CandidatesFor(swept, cid) \cup {one}
        BY <3>1, <2>3, <2>5 DEF CandidatesFor
      <4>2. one \notin CandidatesFor(swept, cid)
        BY <2>4 DEF CandidatesFor
      <4>3. IsFiniteSet(CandidatesFor(swept, cid))
        BY <1>1, CandidatesForFinite
      <4>4. QED
        BY <4>1, <4>2, <4>3, <2>1, FS_AddElement
    <3>2. CASE k # cid
      <4>1. CandidatesFor(full, k) = CandidatesFor(swept, k)
        BY <3>2, <2>3, <2>5 DEF CandidatesFor
      <4>2. QED
        BY <4>1, <1>1, CandidatesForFinite
    <3>3. QED
      BY <3>1, <3>2
  <2>9. StoreOK(full)
    BY <2>1, <2>5, <2>6, <2>7, <2>8 DEF StoreOK
  <2>10. QED
    BY <1>7, <2>9 DEF Add, SweptForAdd, swept, one
<1>8. QED
  BY <1>6, <1>7

=============================================================================
