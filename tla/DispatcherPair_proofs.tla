------------------------ MODULE DispatcherPair_proofs ------------------------
(***************************************************************************)
(* The dicts of a Dispatcher and the store they share, for any caps, TTLs  *)
(* and configurations: whatever method runs and whichever way it returns,  *)
(* each session stays in a dict of its kind, under a cid of its kind, and  *)
(* is one that session.py can be in; what is established is not pending;   *)
(* no two forks of a handshake try one response; and the store keeps an    *)
(* exact count within both caps.                                           *)
(***************************************************************************)
EXTENDS DispatcherPair, CandidateStore_proofs, Session_proofs

(* The attributes of a Dispatcher object. *)
Attributes == {"owner", "established", "responders", "templates", "forks",
               "store", "outgoing", "payloads"}

(* A sound store of candidates as add makes them. *)
StoreKept(store) ==
    /\ StoreOK(store)
    /\ \A c \in store.candidates :
        DOMAIN c = {"slot", "cid", "receivedPdu", "sentPdu", "expiresAt"}

Sound(d) == DOMAIN d = Attributes /\ StoreKept(d.store)

-----------------------------------------------------------------------------
(* The methods of the store, as CandidateStore_proofs has them. *)
LEMMA EmptyStoreKept == StoreKept(EmptyStore)
BY EmptyStoreOK DEF StoreKept, EmptyStore

LEMMA ExpireKept ==
    ASSUME NEW store, StoreKept(store), NEW now
    PROVE  StoreKept(Expire(store, now))
<1>1. Expire(store, now).candidates \subseteq store.candidates
  BY DEF Expire
<1>2. QED
  BY <1>1, ExpireOK DEF StoreKept

LEMMA ForgetAllKept ==
    ASSUME NEW store, StoreKept(store), NEW gone
    PROVE  StoreKept(ForgetAll(store, gone))
<1>1. ForgetAll(store, gone).candidates \subseteq store.candidates
  BY DEF ForgetAll
<1>2. QED
  BY <1>1, ForgetAllOK DEF StoreKept

LEMMA ForgetKept ==
    ASSUME NEW store, StoreKept(store), NEW cid
    PROVE  StoreKept(Forget(store, cid))
BY ForgetAllKept DEF Forget

LEMMA AddKept ==
    ASSUME NEW store, StoreKept(store), NEW cid, NEW received, NEW sent, NEW now
    PROVE  StoreKept(Add(store, cid, received, sent, now))
<1> DEFINE swept == Expire(store, now)
           one == Candidate(swept, cid, received, sent, now)
           new == Add(store, cid, received, sent, now)
<1>1. StoreKept(swept)
  BY ExpireKept
<1>2. new \in {[swept EXCEPT !.cids = @ \cup {cid}],
               [candidates |-> swept.candidates \cup {one},
                cids |-> swept.cids \cup {cid}, total |-> swept.total + 1]}
  BY DEF Add, SweptForAdd
<1>3. DOMAIN one = {"slot", "cid", "receivedPdu", "sentPdu", "expiresAt"}
  BY DEF Candidate
<1>4. swept = [candidates |-> swept.candidates, cids |-> swept.cids,
               total |-> swept.total]
  BY <1>1 DEF StoreKept, StoreOK
<1> HIDE DEF swept, one
<1>5. new.candidates \subseteq swept.candidates \cup {one}
  BY <1>2, <1>4
<1>6. StoreOK(new)
  BY AddOK DEF StoreKept
<1>7. QED
  BY <1>1, <1>3, <1>5, <1>6 DEF StoreKept

(* A tick of the clock changes deadlines only: the candidates keep their      *)
(* slots, so no two become one.                                               *)
Older(c) == [c EXCEPT !.expiresAt = Later(@)]
AgedCandidates(S) == {Older(c) : c \in S}

LEMMA AgedMember ==
    ASSUME NEW store, StoreKept(store), NEW c \in store.candidates
    PROVE  /\ Older(c).slot = c.slot /\ Older(c).cid = c.cid
           /\ DOMAIN Older(c) = DOMAIN c
<1>1. DOMAIN c = {"slot", "cid", "receivedPdu", "sentPdu", "expiresAt"}
  BY DEF StoreKept
<1>2. QED
  BY <1>1 DEF Older

LEMMA AgedCardinality ==
    ASSUME NEW store, StoreKept(store), NEW S \in SUBSET store.candidates
    PROVE  /\ IsFiniteSet(AgedCandidates(S))
           /\ Cardinality(AgedCandidates(S)) = Cardinality(S)
<1> DEFINE T == AgedCandidates(S)
           f == [c \in S |-> Older(c)]
<1>1. IsFiniteSet(S)
  BY FS_Subset DEF StoreKept, StoreOK
<1>2. f \in [S -> T]
  BY DEF AgedCandidates
<1>3. \A e \in T : \E c \in S : f[c] = e
  BY DEF AgedCandidates
<1>4. \A c \in S : f[c].slot = c.slot
  BY AgedMember
<1>5. \A a, b \in S : f[a] = f[b] => a = b
  BY <1>4 DEF StoreKept, StoreOK
<1> HIDE DEF f, T
<1>6. f \in Surjection(S, T)
  BY <1>2, <1>3, Zenon DEF Surjection
<1>7. f \in Injection(S, T)
  BY <1>2, <1>5, Zenon DEF Injection, IsInjective
<1>8. IsFiniteSet(T) /\ Cardinality(T) = Cardinality(S)
  BY <1>1, <1>6, <1>7, FS_Surjection
<1>9. QED
  BY <1>8 DEF T

LEMMA AgedKept ==
    ASSUME NEW store, StoreKept(store)
    PROVE  StoreKept([store EXCEPT !.candidates = AgedCandidates(@)])
<1> DEFINE aged == AgedCandidates(store.candidates)
           new == [candidates |-> aged, cids |-> store.cids, total |-> store.total]
<1>1. /\ store = [candidates |-> store.candidates, cids |-> store.cids,
                  total |-> store.total]
      /\ store.total = Cardinality(store.candidates)
      /\ store.total <= MaxTotal
      /\ \A cid \in store.cids : Cardinality(CandidatesFor(store, cid)) <= MaxPerCid
  BY DEF StoreKept, StoreOK
<1>2. IsFiniteSet(aged) /\ Cardinality(aged) = Cardinality(store.candidates)
  BY AgedCardinality
<1>3. ASSUME NEW e \in aged
      PROVE  \E c \in store.candidates :
                /\ e = Older(c)
                /\ e.slot = c.slot /\ e.cid = c.cid /\ DOMAIN e = DOMAIN c
  BY AgedMember DEF AgedCandidates
<1>4. /\ \A e \in aged : e.slot \in 1..MaxTotal /\ e.cid \in store.cids
      /\ \A d, e \in aged : d.slot = e.slot => d = e
      /\ \A e \in aged :
            DOMAIN e = {"slot", "cid", "receivedPdu", "sentPdu", "expiresAt"}
  BY <1>3 DEF StoreKept, StoreOK
<1>5. ASSUME NEW cid \in store.cids
      PROVE  Cardinality(CandidatesFor(new, cid)) <= MaxPerCid
  <2> DEFINE mine == CandidatesFor(store, cid)
  <2>1. \A c \in store.candidates : Older(c).cid = c.cid
    BY AgedMember
  <2>2. new.candidates = {Older(c) : c \in store.candidates}
    BY DEF AgedCandidates
  <2>3. mine = {c \in store.candidates : c.cid = cid}
    BY DEF CandidatesFor
  <2> HIDE DEF new, mine
  <2>4. {e \in new.candidates : e.cid = cid} = {Older(c) : c \in mine}
    BY <2>1, <2>2, <2>3
  <2>5. CandidatesFor(new, cid) = AgedCandidates(mine)
    BY <2>4 DEF CandidatesFor, AgedCandidates
  <2>6. mine \in SUBSET store.candidates
    BY <2>3
  <2>7. QED
    BY <1>1, <2>5, <2>6, AgedCardinality DEF mine
<1> HIDE DEF aged
<1>6. StoreKept(new)
  BY <1>1, <1>2, <1>4, <1>5 DEF StoreKept, StoreOK
<1>7. [store EXCEPT !.candidates = AgedCandidates(@)] = new
  BY <1>1 DEF aged
<1>8. QED
  BY <1>6, <1>7

-----------------------------------------------------------------------------
(* Draining, promoting and starting anew keep the store. *)
LEMMA DrainFromSound ==
    ASSUME NEW d, Sound(d), NEW s PROVE Sound(DrainFrom(d, s))
BY DEF Sound, DrainFrom, Attributes

LEMMA PromoteSound ==
    ASSUME NEW d, Sound(d), NEW cid, NEW winner
    PROVE  Sound(Promote(d, cid, winner))
BY ForgetKept DEF Sound, Promote, Attributes

LEMMA NewDispatcherSound == \A owner : Sound(NewDispatcher(owner))
BY EmptyStoreKept DEF Sound, Attributes, NewDispatcher

-----------------------------------------------------------------------------
(* What a process's sessions look like. *)

(* What its application may post, and the cids of the handshakes it initiates. *)
Payloads(p) == {<<p, k>> : k \in Nat}
Theirs(p) == {<<Peer(p), k>> : k \in Nat}

(* The init requests among X are p's own, under the cids of its first n draws. *)
Asked(X, p, n) == \A x \in X : x.type = "session_init_request" => x.cid \in Drawn(p, n)

(* A session p holds under `cid` after n draws. *)
Held(s, cid, p, n) ==
    /\ Object(s, p, s.role, Payloads(p))
    /\ Queued(s)
    /\ s.cid = cid
    /\ cid \in IF s.role = INITIATOR THEN Drawn(p, n) ELSE Theirs(p)
    /\ Asked(Known(s), p, n)

LiveForkState == {EXPECT_SESSION_INIT_RESPONSE, EXPECT_SESSION_COMPLETION_RESPONSE,
                  DROPPED}

(* A fork of a template: only with a response has it received anything. *)
Tries(s, template) ==
    /\ s.role = INITIATOR
    /\ s.state \in LiveForkState
    /\ s.ephemeral = template.ephemeral
    /\ s.state = EXPECT_SESSION_INIT_RESPONSE => s.lastReceived = None
    /\ s.state = EXPECT_SESSION_COMPLETION_RESPONSE => s.lastReceived # None

Distinct(forks) ==
    \A i, j \in DOMAIN forks :
        i # j /\ forks[i].lastReceived # None
        => forks[i].lastReceived # forks[j].lastReceived

EstablishedOK(sessions, p, n) ==
    \A cid \in DOMAIN sessions :
        Held(sessions[cid], cid, p, n) /\ sessions[cid].state = ESTABLISHED

RespondersOK(sessions, p, n) ==
    \A cid \in DOMAIN sessions :
        /\ Held(sessions[cid], cid, p, n)
        /\ sessions[cid].role = RESPONDER
        /\ sessions[cid].state \in {INITIAL, EXPECT_SESSION_COMPLETION_REQUEST}

TemplatesOK(sessions, p, n) ==
    \A cid \in DOMAIN sessions :
        Held(sessions[cid], cid, p, n) /\ CanFork(sessions[cid])

ForksOK(forks, template, p, n) ==
    /\ \E k \in Nat : DOMAIN forks \subseteq 1..k
    /\ \A i \in DOMAIN forks :
        Held(forks[i], template.cid, p, n) /\ Tries(forks[i], template)
    /\ Distinct(forks)

(* "Promotion is immediate and total." *)
Promoted(established, pending, store) ==
    \A cid \in established : cid \notin pending /\ CandidatesFor(store, cid) = {}

Shape(d, p, n) ==
    /\ Sound(d)
    /\ d.owner = p
    /\ EstablishedOK(d.established, p, n)
    /\ RespondersOK(d.responders, p, n)
    /\ TemplatesOK(d.templates, p, n)
    /\ DOMAIN d.templates = DOMAIN d.forks
    /\ \A cid \in DOMAIN d.forks : ForksOK(d.forks[cid], d.templates[cid], p, n)
    /\ Promoted(DOMAIN d.established, Pending(d), d.store)
    /\ Asked(d.outgoing, p, n)

LEMMA RestrictTo ==
    ASSUME NEW f, NEW S, S \subseteq DOMAIN f
    PROVE  DOMAIN Restrict(f, S) = S /\ \A k \in S : Restrict(f, S)[k] = f[k]
BY DEF Restrict

LEMMA WithoutValues ==
    ASSUME NEW f, NEW cid
    PROVE  /\ DOMAIN Without(f, cid) = DOMAIN f \ {cid}
           /\ \A k \in DOMAIN f \ {cid} : Without(f, cid)[k] = f[k]
BY RestrictTo DEF Without

(* A non-empty set of naturals has a least element. *)
LEMMA LeastElement ==
    ASSUME NEW S, S \subseteq Nat, S # {}
    PROVE  \E m \in S : \A i \in S : m <= i
<1> DEFINE R == OpToRel(<, Nat)
<1>1. IsWellFoundedOn(R, Nat)
  BY NatLessThanWellFounded, Zenon
<1>2. R = {ss \in Nat \X Nat : ss[1] < ss[2]}
  BY Zenon DEF OpToRel
<1> HIDE DEF R
<1>3. PICK m \in S : \A j \in S : <<j, m>> \notin R
  BY <1>1, WFMin
<1>4. \A j \in S : ~(j < m)
  BY <1>2, <1>3
<1>5. QED
  BY <1>4

LEMMA MinOf ==
    ASSUME NEW S, S \subseteq Nat, S # {}
    PROVE  Min(S) \in S
<1>1. \E m \in S : \A i \in S : m <= i
  BY LeastElement
<1>2. QED
  BY <1>1, Zenon DEF Min

LEMMA MaxOf ==
    ASSUME NEW S, NEW k \in Nat, S \subseteq 0..k, S # {}
    PROVE  Max(S) \in S /\ \A i \in S : i <= Max(S)
<1> DEFINE Bounds == {b \in Nat : \A i \in S : i <= b}
<1>1. k \in Bounds
  OBVIOUS
<1>2. PICK b \in Bounds : \A c \in Bounds : b <= c
  BY <1>1, LeastElement
<1>3. b \in S
  <2> SUFFICES ASSUME b \notin S PROVE FALSE
    OBVIOUS
  <2>1. b \in Nat /\ \A i \in S : i \in Nat /\ i < b
    BY <1>2
  <2>2. PICK i \in S : TRUE
    OBVIOUS
  <2>3. b - 1 \in Bounds
    BY <2>1, <2>2
  <2>4. QED
    BY <1>2, <2>1, <2>3
<1>4. \E m \in S : \A i \in S : i <= m
  BY <1>2, <1>3
<1> HIDE DEF Bounds
<1>5. QED
  BY <1>4, Zenon DEF Max

LEMMA LastPlaceOf ==
    ASSUME NEW forks, NEW k \in Nat, DOMAIN forks \subseteq 1..k
    PROVE  /\ LastPlace(forks) \in 0..k
           /\ LastPlace(forks) + 1 \notin DOMAIN forks
<1> DEFINE S == {0} \cup DOMAIN forks
           m == Max(S)
<1>1. S \subseteq 0..k /\ S # {}
  OBVIOUS
<1> HIDE DEF S
<1>2. m \in S /\ \A i \in S : i <= m
  BY <1>1, MaxOf
<1> HIDE DEF m
<1>3. m \in 0..k
  BY <1>1, <1>2
<1>4. m + 1 \notin S
  BY <1>2, <1>3
<1>5. QED
  BY <1>3, <1>4 DEF LastPlace, S, m

-----------------------------------------------------------------------------
(* One session at a time. *)
LEMMA HeldGrows ==
    ASSUME NEW p, NEW n \in Nat, NEW s, NEW cid, Held(s, cid, p, n)
    PROVE  Held(s, cid, p, n + 1)
BY DrawnGrows DEF Held, Asked

LEMMA HeldObject ==
    ASSUME NEW p, NEW n, NEW s, NEW cid, Held(s, cid, p, n)
    PROVE  s = [f \in Fields |-> s[f]] /\ s.owner = p
BY DEF Held, Object

LEMMA HeldDrained ==
    ASSUME NEW p, NEW n, NEW s, NEW cid, Held(s, cid, p, n)
    PROVE  /\ Held(Drained(s), cid, p, n)
           /\ Drained(s).role = s.role /\ Drained(s).state = s.state
           /\ Drained(s).ephemeral = s.ephemeral
           /\ Drained(s).lastReceived = s.lastReceived
           /\ Asked(Range(s.outgoingPdus), p, n)
<1> DEFINE t == Drained(s)
<1>1. Object(t, p, s.role, Payloads(p)) /\ t.outgoingPdus = <<>>
  BY DrainedObject DEF Held
<1>2. /\ t.role = s.role /\ t.state = s.state /\ t.cid = s.cid
      /\ t.ephemeral = s.ephemeral /\ t.lastReceived = s.lastReceived
      /\ t.lastSent = s.lastSent
  BY HeldObject DEF Drained, Fields
<1> HIDE DEF t
<1>3. Range(t.outgoingPdus) = {} /\ Queued(t)
  BY <1>1 DEF Range, Queued
<1>4. Asked(Known(t), p, n) /\ Asked(Range(s.outgoingPdus), p, n)
  BY <1>2, <1>3 DEF Held, Asked, Known
<1>5. QED
  BY <1>1, <1>2, <1>3, <1>4 DEF Held, t

LEMMA EffectAsks ==
    ASSUME NEW p, NEW n, NEW s, NEW t, Resends(s, t) \/ Emits(s, t),
           Asked(Known(s), p, n)
    PROVE  Queued(t) /\ Asked(Known(t), p, n)
BY DEF Resends, Emits, NewlyMade, Asked, Known

(* update(): the session stays one of its process's, under its cid. *)
LEMMA HeldUpdate ==
    ASSUME NEW p \in Party, NEW n, NEW s, NEW cid, Held(s, cid, p, n),
           NEW pdu, NEW fresh, NEW now \in Nat,
           s.state = INITIAL =>
              s.role = RESPONDER /\ (pdu \in {None, Malformed} \/ pdu.cid = cid)
    PROVE  LET r == Update(s, pdu, fresh, now)
           IN /\ Held(r.s, cid, p, n)
              /\ r.s.role = s.role
              /\ Effect(s, r.s, pdu, fresh)
              /\ r.exn # NoError => Raised(s, r.s, pdu)
<1> DEFINE r == Update(s, pdu, fresh, now)
           t == r.s
<1>1. Object(t, p, s.role, Payloads(p))
  BY UpdateObject DEF Held
<1>2. Effect(s, t, pdu, fresh) /\ (r.exn # NoError => Raised(s, t, pdu))
  BY UpdateEffect DEF Held
<1> HIDE DEF t, r
<1>3. t.role = s.role
  BY <1>1 DEF Object
<1>4. CASE Refuses(s, t, pdu)
  <2>1. pdu.cid = cid
    BY <1>4 DEF Refuses, Arrived
  <2>2. /\ t.cid = cid /\ t.outgoingPdus = s.outgoingPdus
        /\ t.lastSent = s.lastSent
    BY <1>4, <2>1, HeldObject DEF Refuses, Fields
  <2>3. Held(t, cid, p, n)
    BY <1>1, <1>3, <2>2 DEF Held, Queued, Known
  <2>4. QED
    BY <1>2, <1>3, <2>3 DEF t, r
<1>5. CASE ~Refuses(s, t, pdu)
  <2>1. Resends(s, t) \/ Emits(s, t)
    BY <1>2, <1>5 DEF Effect, Lingers, Talks, Responds, Completes, Confirms, Concludes
  <2>2. t.cid = cid
    BY <1>2, <1>5 DEF Effect, Lingers, Talks, Responds, Completes, Confirms,
                      Concludes, Keeps, Arrived, Held
  <2>3. Held(t, cid, p, n)
    BY <1>1, <1>3, <2>1, <2>2, EffectAsks DEF Held
  <2>4. QED
    BY <1>2, <1>3, <2>3 DEF t, r
<1>6. QED
  BY <1>4, <1>5

-----------------------------------------------------------------------------
(* One method of the Dispatcher at a time: the parts of its shape that the     *)
(* method touches.                                                             *)
LEMMA ShapeGrows ==
    ASSUME NEW p, NEW n \in Nat, NEW d, Shape(d, p, n) PROVE Shape(d, p, n + 1)
<1>1. /\ EstablishedOK(d.established, p, n + 1)
      /\ RespondersOK(d.responders, p, n + 1)
      /\ TemplatesOK(d.templates, p, n + 1)
  BY HeldGrows DEF Shape, EstablishedOK, RespondersOK, TemplatesOK
<1>2. ASSUME NEW cid \in DOMAIN d.forks
      PROVE  ForksOK(d.forks[cid], d.templates[cid], p, n + 1)
  BY HeldGrows DEF Shape, ForksOK
<1>3. Asked(d.outgoing, p, n + 1)
  BY DrawnGrows DEF Shape, Asked
<1>4. QED
  BY <1>1, <1>2, <1>3 DEF Shape

LEMMA DrainFromShape ==
    ASSUME NEW p, NEW n, NEW d, Shape(d, p, n), NEW s, Asked(Range(s.outgoingPdus), p, n)
    PROVE  Shape(DrainFrom(d, s), p, n)
<1> DEFINE e == DrainFrom(d, s)
<1>1. Sound(e)
  BY DrainFromSound DEF Shape
<1>2. /\ e.owner = d.owner /\ e.established = d.established
      /\ e.responders = d.responders /\ e.templates = d.templates
      /\ e.forks = d.forks /\ e.store = d.store
      /\ e.outgoing = d.outgoing \cup Range(s.outgoingPdus)
  BY DEF Shape, Sound, Attributes, DrainFrom
<1> HIDE DEF e
<1>3. Asked(e.outgoing, p, n) /\ Pending(e) = Pending(d)
  BY <1>2 DEF Asked, Shape, Pending
<1>4. Shape(e, p, n)
  BY <1>1, <1>2, <1>3 DEF Shape
<1>5. QED
  BY <1>4 DEF e

(* A store with fewer candidates, or with one more of a cid not established. *)
LEMMA StoreShape ==
    ASSUME NEW p, NEW n, NEW d, Shape(d, p, n), NEW store, StoreKept(store),
           \A cid \in DOMAIN d.established :
              CandidatesFor(store, cid) \subseteq CandidatesFor(d.store, cid)
    PROVE  Shape([d EXCEPT !.store = store], p, n)
<1> DEFINE e == [d EXCEPT !.store = store]
<1>1. /\ e.owner = d.owner /\ e.established = d.established
      /\ e.responders = d.responders /\ e.templates = d.templates
      /\ e.forks = d.forks /\ e.store = store /\ e.outgoing = d.outgoing
      /\ DOMAIN e = DOMAIN d
  BY DEF Shape, Sound, Attributes
<1> HIDE DEF e
<1>2. Sound(e) /\ Pending(e) = Pending(d)
  BY <1>1 DEF Sound, Shape, Pending
<1>3. Promoted(DOMAIN e.established, Pending(e), e.store)
  BY <1>1, <1>2 DEF Promoted, Shape
<1>4. Shape(e, p, n)
  BY <1>1, <1>2, <1>3 DEF Shape
<1>5. QED
  BY <1>4 DEF e

LEMMA ForgetAllFewer ==
    ASSUME NEW store, StoreKept(store), NEW cids, NEW cid
    PROVE  /\ CandidatesFor(ForgetAll(store, cids), cid) \subseteq CandidatesFor(store, cid)
           /\ cid \in cids => CandidatesFor(ForgetAll(store, cids), cid) = {}
           /\ cid \notin cids =>
                CandidatesFor(ForgetAll(store, cids), cid) = CandidatesFor(store, cid)
BY DEF ForgetAll, CandidatesFor

LEMMA ExpireFewer ==
    ASSUME NEW store, NEW now, NEW cid
    PROVE  CandidatesFor(Expire(store, now), cid) \subseteq CandidatesFor(store, cid)
BY DEF Expire, CandidatesFor

LEMMA ForgottenShape ==
    ASSUME NEW p, NEW n, NEW d, Shape(d, p, n), NEW cids
    PROVE  Shape([d EXCEPT !.store = ForgetAll(@, cids)], p, n)
<1> DEFINE store == ForgetAll(d.store, cids)
<1>1. StoreKept(d.store)
  BY DEF Shape, Sound
<1>2. StoreKept(store)
  BY <1>1, ForgetAllKept
<1>3. \A cid \in DOMAIN d.established :
        CandidatesFor(store, cid) \subseteq CandidatesFor(d.store, cid)
  BY <1>1, ForgetAllFewer
<1> HIDE DEF store
<1>4. Shape([d EXCEPT !.store = store], p, n)
  BY <1>2, <1>3, StoreShape
<1>5. QED
  BY <1>4 DEF store

LEMMA AddOnly ==
    ASSUME NEW store, StoreKept(store), NEW added, NEW received, NEW now, NEW cid,
           cid # added
    PROVE  CandidatesFor(Add(store, added, received, None, now), cid)
             \subseteq CandidatesFor(store, cid)
<1> DEFINE swept == Expire(store, now)
           one == Candidate(swept, added, received, None, now)
           new == Add(store, added, received, None, now)
<1>1. new \in {[swept EXCEPT !.cids = @ \cup {added}],
               [candidates |-> swept.candidates \cup {one},
                cids |-> swept.cids \cup {added}, total |-> swept.total + 1]}
  BY DEF Add, SweptForAdd
<1>2. one.cid = added
  BY DEF Candidate
<1>3. swept.candidates \subseteq store.candidates
      /\ swept = [candidates |-> swept.candidates, cids |-> swept.cids,
                  total |-> swept.total]
  BY DEF Expire
<1> HIDE DEF one, swept
<1>4. new.candidates \subseteq swept.candidates \cup {one}
  BY <1>1, <1>3
<1>5. QED
  BY <1>2, <1>3, <1>4 DEF CandidatesFor

LEMMA StoredShape ==
    ASSUME NEW p, NEW n, NEW d, Shape(d, p, n), NEW cid, cid \notin DOMAIN d.established,
           NEW pdu, NEW now
    PROVE  Shape([d EXCEPT !.store = Add(@, cid, pdu, None, now)], p, n)
<1> DEFINE store == Add(d.store, cid, pdu, None, now)
<1>1. StoreKept(d.store)
  BY DEF Shape, Sound
<1>2. StoreKept(store)
  BY <1>1, AddKept
<1>3. \A k \in DOMAIN d.established :
        CandidatesFor(store, k) \subseteq CandidatesFor(d.store, k)
  BY <1>1, AddOnly
<1> HIDE DEF store
<1>4. Shape([d EXCEPT !.store = store], p, n)
  BY <1>2, <1>3, StoreShape
<1>5. QED
  BY <1>4 DEF store

(* _promote: everything under the cid but the winner goes. *)
LEMMA PromotedShape ==
    ASSUME NEW p, NEW n, NEW d, Shape(d, p, n), NEW cid,
           NEW winner, Held(winner, cid, p, n), winner.state = ESTABLISHED,
           NEW e, Sound(e), e.owner = p, Asked(e.outgoing, p, n),
           e.established = With(d.established, cid, winner),
           e.store = Forget(d.store, cid),
           DOMAIN e.responders = DOMAIN d.responders \ {cid},
           \A k \in DOMAIN e.responders : e.responders[k] = d.responders[k],
           e.templates = Without(d.templates, cid), e.forks = Without(d.forks, cid)
    PROVE  Shape(e, p, n)
<1>0. /\ DOMAIN e.established = DOMAIN d.established \cup {cid}
      /\ e.established[cid] = winner
      /\ \A k \in DOMAIN d.established : k # cid => e.established[k] = d.established[k]
  BY DEF With
<1>1. EstablishedOK(e.established, p, n)
  <2>1. EstablishedOK(d.established, p, n)
    BY DEF Shape
  <2>2. ASSUME NEW k \in DOMAIN e.established
        PROVE  Held(e.established[k], k, p, n) /\ e.established[k].state = ESTABLISHED
    BY <1>0, <2>1 DEF EstablishedOK
  <2>3. QED
    BY <2>2 DEF EstablishedOK
<1>2. RespondersOK(e.responders, p, n)
  <2>1. RespondersOK(d.responders, p, n)
    BY DEF Shape
  <2>2. QED
    BY <2>1 DEF RespondersOK
<1>3. /\ TemplatesOK(e.templates, p, n)
      /\ DOMAIN e.templates = DOMAIN e.forks
      /\ \A k \in DOMAIN e.forks : ForksOK(e.forks[k], e.templates[k], p, n)
  <2>1. /\ TemplatesOK(d.templates, p, n)
        /\ DOMAIN d.templates = DOMAIN d.forks
        /\ \A k \in DOMAIN d.forks : ForksOK(d.forks[k], d.templates[k], p, n)
    BY DEF Shape
  <2>2. /\ DOMAIN e.templates = DOMAIN d.templates \ {cid}
        /\ DOMAIN e.forks = DOMAIN d.forks \ {cid}
        /\ \A k \in DOMAIN e.templates : e.templates[k] = d.templates[k]
        /\ \A k \in DOMAIN e.forks : e.forks[k] = d.forks[k]
    <3> DEFINE templates == Without(d.templates, cid)
               forks == Without(d.forks, cid)
    <3>1. /\ DOMAIN templates = DOMAIN d.templates \ {cid}
          /\ \A k \in DOMAIN d.templates \ {cid} : templates[k] = d.templates[k]
      BY WithoutValues
    <3>2. /\ DOMAIN forks = DOMAIN d.forks \ {cid}
          /\ \A k \in DOMAIN d.forks \ {cid} : forks[k] = d.forks[k]
      BY WithoutValues
    <3> HIDE DEF templates, forks
    <3>3. e.templates = templates /\ e.forks = forks
      BY DEF templates, forks
    <3>4. QED
      BY <3>1, <3>2, <3>3
  <2>3. ASSUME NEW k \in DOMAIN e.templates
        PROVE  Held(e.templates[k], k, p, n) /\ CanFork(e.templates[k])
    BY <2>1, <2>2 DEF TemplatesOK
  <2>4. ASSUME NEW k \in DOMAIN e.forks
        PROVE  ForksOK(e.forks[k], e.templates[k], p, n)
    BY <2>1, <2>2
  <2>5. QED
    BY <2>1, <2>2, <2>3, <2>4 DEF TemplatesOK
<1>4. Promoted(DOMAIN e.established, Pending(e), e.store)
  <2>1. /\ DOMAIN e.established = DOMAIN d.established \cup {cid}
        /\ Pending(e) = Pending(d) \ {cid}
    <3>1. DOMAIN e.forks = DOMAIN d.forks \ {cid}
      BY WithoutValues
    <3>2. QED
      BY <1>0, <3>1 DEF Pending
  <2>2. \A k \in DOMAIN d.established :
            CandidatesFor(e.store, k) \subseteq CandidatesFor(d.store, k)
    BY ForgetAllFewer DEF Shape, Sound, Forget
  <2>3. CandidatesFor(e.store, cid) = {}
    BY ForgetAllFewer DEF Shape, Sound, Forget
  <2>4. QED
    BY <2>1, <2>2, <2>3 DEF Promoted, Shape
<1>5. QED
  BY <1>1, <1>2, <1>3, <1>4 DEF Shape

-----------------------------------------------------------------------------
(* One dict at a time. *)
LEMMA EstablishedShape ==
    ASSUME NEW p, NEW n, NEW d, Shape(d, p, n), NEW sessions,
           EstablishedOK(sessions, p, n), DOMAIN sessions \subseteq DOMAIN d.established
    PROVE  Shape([d EXCEPT !.established = sessions], p, n)
<1> DEFINE e == [d EXCEPT !.established = sessions]
<1>1. /\ e.owner = d.owner /\ e.established = sessions
      /\ e.responders = d.responders /\ e.templates = d.templates
      /\ e.forks = d.forks /\ e.store = d.store /\ e.outgoing = d.outgoing
      /\ DOMAIN e = DOMAIN d
  BY DEF Shape, Sound, Attributes
<1> HIDE DEF e
<1>2. Sound(e) /\ Pending(e) = Pending(d)
  BY <1>1 DEF Sound, Shape, Pending
<1>3. Promoted(DOMAIN e.established, Pending(e), e.store)
  BY <1>1, <1>2 DEF Promoted, Shape
<1>4. Shape(e, p, n)
  BY <1>1, <1>2, <1>3 DEF Shape
<1>5. QED
  BY <1>4 DEF e

LEMMA RespondersShape ==
    ASSUME NEW p, NEW n, NEW d, Shape(d, p, n), NEW sessions,
           RespondersOK(sessions, p, n),
           \A cid \in DOMAIN sessions : cid \notin DOMAIN d.established
    PROVE  Shape([d EXCEPT !.responders = sessions], p, n)
<1> DEFINE e == [d EXCEPT !.responders = sessions]
<1>1. /\ e.owner = d.owner /\ e.established = d.established
      /\ e.responders = sessions /\ e.templates = d.templates
      /\ e.forks = d.forks /\ e.store = d.store /\ e.outgoing = d.outgoing
      /\ DOMAIN e = DOMAIN d
  BY DEF Shape, Sound, Attributes
<1> HIDE DEF e
<1>2. Sound(e)
  BY <1>1 DEF Sound, Shape
<1>3. Promoted(DOMAIN e.established, Pending(e), e.store)
  BY <1>1 DEF Promoted, Shape, Pending
<1>4. Shape(e, p, n)
  BY <1>1, <1>2, <1>3 DEF Shape
<1>5. QED
  BY <1>4 DEF e

LEMMA TemplatesShape ==
    ASSUME NEW p, NEW n, NEW d, Shape(d, p, n), NEW templates, NEW forks,
           TemplatesOK(templates, p, n), DOMAIN templates = DOMAIN forks,
           \A cid \in DOMAIN forks : ForksOK(forks[cid], templates[cid], p, n),
           \A cid \in DOMAIN forks : cid \notin DOMAIN d.established
    PROVE  Shape([d EXCEPT !.templates = templates, !.forks = forks], p, n)
<1> DEFINE e == [d EXCEPT !.templates = templates, !.forks = forks]
<1>1. /\ e.owner = d.owner /\ e.established = d.established
      /\ e.responders = d.responders /\ e.templates = templates
      /\ e.forks = forks /\ e.store = d.store /\ e.outgoing = d.outgoing
      /\ DOMAIN e = DOMAIN d
  BY DEF Shape, Sound, Attributes
<1> HIDE DEF e
<1>2. Sound(e)
  BY <1>1 DEF Sound, Shape
<1>3. Promoted(DOMAIN e.established, Pending(e), e.store)
  BY <1>1 DEF Promoted, Shape, Pending
<1>4. Shape(e, p, n)
  BY <1>1, <1>2, <1>3 DEF Shape
<1>5. QED
  BY <1>4 DEF e

LEMMA ForkListShape ==
    ASSUME NEW p, NEW n, NEW d, Shape(d, p, n), NEW cid \in DOMAIN d.forks, NEW forks,
           ForksOK(forks, d.templates[cid], p, n)
    PROVE  Shape([d EXCEPT !.forks[cid] = forks], p, n)
<1> DEFINE e == [d EXCEPT !.forks[cid] = forks]
<1>1. /\ e.owner = d.owner /\ e.established = d.established
      /\ e.responders = d.responders /\ e.templates = d.templates
      /\ DOMAIN e.forks = DOMAIN d.forks /\ e.forks[cid] = forks
      /\ \A k \in DOMAIN d.forks : k # cid => e.forks[k] = d.forks[k]
      /\ e.store = d.store /\ e.outgoing = d.outgoing
      /\ DOMAIN e = DOMAIN d
  BY DEF Shape, Sound, Attributes
<1> HIDE DEF e
<1>2. Sound(e) /\ Pending(e) = Pending(d)
  BY <1>1 DEF Sound, Shape, Pending
<1>3. ASSUME NEW k \in DOMAIN e.forks
      PROVE  ForksOK(e.forks[k], e.templates[k], p, n)
  BY <1>1 DEF Shape
<1>4. Shape(e, p, n)
  BY <1>1, <1>2, <1>3 DEF Shape
<1>5. QED
  BY <1>4 DEF e

LEMMA OutgoingShape ==
    ASSUME NEW p, NEW n, NEW d, Shape(d, p, n), NEW X, Asked(X, p, n)
    PROVE  Shape([d EXCEPT !.outgoing = @ \cup X], p, n)
<1> DEFINE e == [d EXCEPT !.outgoing = @ \cup X]
<1>1. /\ e.owner = d.owner /\ e.established = d.established
      /\ e.responders = d.responders /\ e.templates = d.templates
      /\ e.forks = d.forks /\ e.store = d.store /\ e.outgoing = d.outgoing \cup X
      /\ DOMAIN e = DOMAIN d
  BY DEF Shape, Sound, Attributes
<1> HIDE DEF e
<1>2. Sound(e) /\ Pending(e) = Pending(d) /\ Asked(e.outgoing, p, n)
  BY <1>1 DEF Sound, Shape, Pending, Asked
<1>3. Shape(e, p, n)
  BY <1>1, <1>2 DEF Shape
<1>4. QED
  BY <1>3 DEF e

-----------------------------------------------------------------------------
(* The routes of post_pdu(). *)
LEMMA DeliverEstablishedShape ==
    ASSUME NEW p \in Party, NEW n, NEW d, Shape(d, p, n), NEW pdu, NEW fresh,
           NEW now \in Nat, pdu.cid \in DOMAIN d.established
    PROVE  Shape(DeliverEstablished(d, pdu, fresh, now).s, p, n)
<1> DEFINE cid == pdu.cid
           s == d.established[cid]
           r == Update(s, pdu, fresh, now)
           raised == [d.established EXCEPT ![cid] = r.s]
           taken == [d.established EXCEPT ![cid] = Drained(r.s)]
<1>1. /\ EstablishedOK(d.established, p, n) /\ Held(s, cid, p, n)
      /\ s.state = ESTABLISHED /\ s.state # INITIAL
  BY DEF Shape, EstablishedOK, ESTABLISHED, INITIAL
<1> HIDE DEF s
<1>2. Held(r.s, cid, p, n) /\ Effect(s, r.s, pdu, fresh)
  BY <1>1, HeldUpdate
<1>3. r.s.state = ESTABLISHED
  BY <1>1, <1>2
     DEF Effect, Lingers, Talks, Refuses, Responds, Completes, Confirms, Concludes,
         ESTABLISHED, EXPECT_SESSION_COMPLETION_REQUEST,
         EXPECT_SESSION_INIT_RESPONSE, EXPECT_SESSION_COMPLETION_RESPONSE
<1> HIDE DEF r
<1>4. EstablishedOK(raised, p, n) /\ DOMAIN raised = DOMAIN d.established
  BY <1>1, <1>2, <1>3 DEF EstablishedOK
<1>5. EstablishedOK(taken, p, n) /\ DOMAIN taken = DOMAIN d.established
  <2>1. Held(Drained(r.s), cid, p, n) /\ Drained(r.s).state = ESTABLISHED
    BY <1>2, <1>3, HeldDrained
  <2>2. QED
    BY <1>1, <2>1 DEF EstablishedOK
<1> HIDE DEF raised, taken
<1>6. /\ Shape([d EXCEPT !.established = raised], p, n)
      /\ Shape([d EXCEPT !.established = taken], p, n)
  BY <1>4, <1>5, EstablishedShape
<1>7. Asked(Range(r.s.outgoingPdus), p, n)
  BY <1>2, HeldDrained
<1>8. Shape(DrainFrom([d EXCEPT !.established = taken], r.s), p, n)
  BY <1>6, <1>7, DrainFromShape
<1>9. DeliverEstablished(d, pdu, fresh, now).s
        \in {[d EXCEPT !.established = raised],
             DrainFrom([d EXCEPT !.established = taken], r.s)}
  BY DEF DeliverEstablished, EstablishedDelivered, Raise, Return,
         raised, taken, r, s
<1>10. QED
  BY <1>6, <1>8, <1>9

LEMMA ResponderDeliveredShape ==
    ASSUME NEW p \in Party, NEW n, NEW d, Shape(d, p, n), NEW cid, NEW r,
           cid \notin DOMAIN d.established, Held(r.s, cid, p, n),
           r.s.role = RESPONDER,
           r.exn \notin Swallowed =>
              r.s.state \in {INITIAL, EXPECT_SESSION_COMPLETION_REQUEST}
    PROVE  Shape(ResponderDelivered(d, cid, r).s, p, n)
<1> DEFINE raised == With(d.responders, cid, r.s)
           t == Drained(r.s)
           taken == With(d.responders, cid, t)
           d1 == [d EXCEPT !.responders = taken]
           d2 == DrainFrom(d1, r.s)
<1>1. /\ Held(t, cid, p, n) /\ t.role = RESPONDER /\ t.state = r.s.state
      /\ Asked(Range(r.s.outgoingPdus), p, n)
  BY HeldDrained
<1>2. RespondersOK(d.responders, p, n)
  BY DEF Shape
<1>3. t.state \in {INITIAL, EXPECT_SESSION_COMPLETION_REQUEST, ESTABLISHED, DROPPED}
  BY <1>1 DEF Held, Object, ResponderState, INITIATOR, RESPONDER
<1> HIDE DEF t
<1>4. /\ DOMAIN taken = DOMAIN d.responders \cup {cid}
      /\ taken[cid] = t
      /\ \A k \in DOMAIN d.responders : k # cid => taken[k] = d.responders[k]
  BY DEF With
<1>5. /\ DOMAIN raised = DOMAIN d.responders \cup {cid}
      /\ raised[cid] = r.s
      /\ \A k \in DOMAIN d.responders : k # cid => raised[k] = d.responders[k]
  BY DEF With
<1> HIDE DEF taken, raised
<1>6. \A k \in DOMAIN d.responders : k \notin DOMAIN d.established
  BY DEF Shape, Promoted, Pending
<1>7. CASE r.exn \notin Swallowed
  <2>1. RespondersOK(raised, p, n)
    BY <1>2, <1>5, <1>7 DEF RespondersOK
  <2>2. Shape([d EXCEPT !.responders = raised], p, n)
    BY <1>5, <1>6, <2>1, RespondersShape
  <2>3. QED
    BY <1>7, <2>2 DEF ResponderDelivered, Raise, raised
<1>8. CASE r.exn \in Swallowed
  <2>1. Sound(d) /\ Sound(d1)
    BY DEF Shape, Sound, Attributes
  <2>2. /\ d1.responders = taken /\ d1.owner = d.owner
        /\ d1.established = d.established /\ d1.store = d.store
        /\ d1.templates = d.templates /\ d1.forks = d.forks
        /\ d1.outgoing = d.outgoing
    BY <2>1 DEF Sound, Attributes
  <2> HIDE DEF d1
  <2>3. Sound(d2)
    BY <2>1, DrainFromSound
  <2>4. /\ d2.responders = taken /\ d2.owner = d.owner
        /\ d2.established = d.established /\ d2.store = d.store
        /\ d2.templates = d.templates /\ d2.forks = d.forks
        /\ d2.outgoing = d.outgoing \cup Range(r.s.outgoingPdus)
    BY <2>1, <2>2 DEF DrainFrom, Sound, Attributes
  <2>5. Asked(d2.outgoing, p, n)
    BY <1>1, <2>4 DEF Asked, Shape
  <2> HIDE DEF d2
  <2>6. CASE t.state = ESTABLISHED
    <3> DEFINE e == Promote(d2, cid, t)
    <3>1. Sound(e)
      BY <2>3, PromoteSound
    <3>2. /\ e.owner = d.owner /\ e.outgoing = d2.outgoing
          /\ e.established = With(d.established, cid, t)
          /\ e.store = Forget(d.store, cid)
          /\ e.responders = Without(taken, cid)
          /\ e.templates = Without(d.templates, cid)
          /\ e.forks = Without(d.forks, cid)
      BY <2>3, <2>4 DEF Promote, Sound, Attributes
    <3>3. /\ DOMAIN Without(taken, cid) = DOMAIN d.responders \ {cid}
          /\ \A k \in DOMAIN d.responders \ {cid} :
                Without(taken, cid)[k] = d.responders[k]
      BY <1>4 DEF Without, Restrict
    <3> HIDE DEF e
    <3>4. /\ DOMAIN e.responders = DOMAIN d.responders \ {cid}
          /\ \A k \in DOMAIN e.responders : e.responders[k] = d.responders[k]
      BY <3>2, <3>3
    <3>5. Shape(e, p, n)
      BY <1>1, <2>5, <2>6, <3>1, <3>2, <3>4, PromotedShape DEF Shape
    <3>6. ReapResponder(d2, cid) = e
      BY <1>4, <2>4, <2>6 DEF ReapResponder, e
    <3>7. QED
      BY <1>8, <3>5, <3>6 DEF ResponderDelivered, Return, d2, d1, taken, t
  <2>7. CASE t.state = DROPPED
    <3> DEFINE e == [d2 EXCEPT !.responders = Without(@, cid), !.store = Forget(@, cid)]
    <3>1. /\ DOMAIN Without(taken, cid) = DOMAIN d.responders \ {cid}
          /\ \A k \in DOMAIN d.responders \ {cid} :
                Without(taken, cid)[k] = d.responders[k]
      BY <1>4 DEF Without, Restrict
    <3>2. Sound(e)
      BY <2>3, ForgetKept DEF Sound, Attributes
    <3>3. /\ e.owner = d.owner /\ e.outgoing = d2.outgoing
          /\ e.established = d.established /\ e.store = Forget(d.store, cid)
          /\ e.responders = Without(taken, cid)
          /\ e.templates = d.templates /\ e.forks = d.forks
      BY <2>3, <2>4 DEF Sound, Attributes
    <3> HIDE DEF e
    <3>4. RespondersOK(e.responders, p, n)
      BY <1>2, <3>1, <3>3 DEF RespondersOK
    <3>5. \A k \in DOMAIN d.established :
            CandidatesFor(e.store, k) \subseteq CandidatesFor(d.store, k)
      BY <2>1, <3>3, ForgetAllFewer DEF Sound, Forget
    <3>6. Pending(e) \subseteq Pending(d)
      BY <3>1, <3>3 DEF Pending
    <3>7. Promoted(DOMAIN e.established, Pending(e), e.store)
      BY <3>3, <3>5, <3>6 DEF Promoted, Shape
    <3>8. Shape(e, p, n)
      BY <2>5, <3>2, <3>3, <3>4, <3>7 DEF Shape
    <3>9. ReapResponder(d2, cid) = e
      BY <1>4, <2>4, <2>7 DEF ReapResponder, e, DROPPED, ESTABLISHED
    <3>10. QED
      BY <1>8, <3>8, <3>9 DEF ResponderDelivered, Return, d2, d1, taken, t
  <2>8. CASE t.state \in {INITIAL, EXPECT_SESSION_COMPLETION_REQUEST}
    <3>1. RespondersOK(taken, p, n)
      BY <1>1, <1>2, <1>4, <2>8 DEF RespondersOK
    <3>2. Shape(d1, p, n)
      BY <1>4, <1>6, <3>1, RespondersShape DEF d1
    <3>3. Shape(d2, p, n)
      BY <1>1, <3>2, DrainFromShape DEF d2
    <3>4. ReapResponder(d2, cid) = d2
      BY <1>4, <2>4, <2>8 DEF ReapResponder, DROPPED, ESTABLISHED, INITIAL,
                              EXPECT_SESSION_COMPLETION_REQUEST
    <3>5. QED
      BY <1>8, <3>3, <3>4 DEF ResponderDelivered, Return, d2, d1, taken, t
  <2>9. QED
    BY <1>3, <2>6, <2>7, <2>8
<1>9. QED
  BY <1>7, <1>8

LEMMA DeliverResponderShape ==
    ASSUME NEW p \in Party, NEW n, NEW d, Shape(d, p, n), NEW pdu, NEW fresh,
           NEW now \in Nat, pdu.cid \in DOMAIN d.responders
    PROVE  Shape(DeliverResponder(d, pdu, fresh, now).s, p, n)
<1> DEFINE cid == pdu.cid
           s == d.responders[cid]
           r == Update(s, pdu, fresh, now)
<1>1. /\ Held(s, cid, p, n) /\ s.role = RESPONDER
      /\ s.state \in {INITIAL, EXPECT_SESSION_COMPLETION_REQUEST}
      /\ cid \notin DOMAIN d.established
  BY DEF Shape, RespondersOK, Promoted, Pending
<1> HIDE DEF s
<1>2. /\ Held(r.s, cid, p, n) /\ r.s.role = RESPONDER
      /\ r.exn # NoError => Raised(s, r.s, pdu)
  BY <1>1, HeldUpdate
<1> HIDE DEF r
<1>3. ASSUME r.exn \notin Swallowed
      PROVE  r.s.state \in {INITIAL, EXPECT_SESSION_COMPLETION_REQUEST}
  <2>1. Raised(s, r.s, pdu)
    BY <1>2, <1>3 DEF Swallowed
  <2>2. DOMAIN s = Fields
    BY <1>1, HeldObject
  <2>3. QED
    BY <1>1, <2>1, <2>2 DEF Raised, Refuses, Fields
<1>4. Shape(ResponderDelivered(d, cid, r).s, p, n)
  BY <1>1, <1>2, <1>3, ResponderDeliveredShape
<1>5. QED
  BY <1>4 DEF DeliverResponder, r, s

LEMMA NewResponderHeld ==
    ASSUME NEW p \in Party, NEW n, NEW pdu, NEW fresh, NEW now \in Nat,
           pdu.cid \in Theirs(p)
    PROVE  LET r == Update(NewSession(p, RESPONDER), pdu, fresh, now)
           IN \/ r.exn \in Swallowed /\ r.s.state = INITIAL
              \/ /\ Held(r.s, pdu.cid, p, n)
                 /\ r.s.role = RESPONDER
                 /\ r.s.state \in {INITIAL, EXPECT_SESSION_COMPLETION_REQUEST}
<1> DEFINE s == NewSession(p, RESPONDER)
           r == Update(s, pdu, fresh, now)
           t == r.s
<1>1. Object(s, p, RESPONDER, Payloads(p))
  BY NewSessionObject
<1>2. /\ s.state = INITIAL /\ s.role = RESPONDER /\ s.lastSent = None
      /\ s.outgoingPdus = <<>>
  BY DEF NewSession
<1> HIDE DEF s
<1>3. Range(s.outgoingPdus) = {} /\ Queued(s)
  BY <1>2 DEF Range, Queued
<1>4. Asked(Known(s), p, n)
  BY <1>2, <1>3 DEF Asked, Known
<1>5. /\ Effect(s, t, pdu, fresh)
      /\ r.exn # NoError => Raised(s, t, pdu)
  BY <1>1, <1>2, <1>3, UpdateEffect
<1>6. Object(t, p, RESPONDER, Payloads(p)) /\ DOMAIN s = Fields
  BY <1>1, UpdateObject DEF Object
<1> HIDE DEF t, r
<1>7. t.role = RESPONDER /\ RESPONDER # INITIATOR
  BY <1>6 DEF Object, RESPONDER, INITIATOR
<1>8. CASE Refuses(s, t, pdu)
  <2>1. /\ t.cid = pdu.cid /\ t.outgoingPdus = s.outgoingPdus
        /\ t.lastSent = s.lastSent /\ t.state = INITIAL
    BY <1>2, <1>6, <1>8 DEF Refuses, Fields
  <2>2. Held(t, pdu.cid, p, n)
    BY <1>3, <1>4, <1>6, <1>7, <2>1 DEF Held, Queued, Known
  <2>3. QED
    BY <1>7, <2>1, <2>2 DEF t, r, s
<1>9. CASE Responds(s, t, pdu, fresh)
  <2>1. Queued(t) /\ Asked(Known(t), p, n)
    BY <1>4, <1>9, EffectAsks DEF Responds
  <2>2. Held(t, pdu.cid, p, n)
    BY <1>6, <1>7, <1>9, <2>1 DEF Held, Responds
  <2>3. QED
    BY <1>7, <1>9, <2>2 DEF Responds, t, r, s
<1>10. CASE Lingers(s, t)
  <2>1. t.state = INITIAL
    BY <1>2, <1>10 DEF Lingers
  <2>2. CASE r.exn = NoError
    BY <2>1, <2>2 DEF Swallowed, t, r, s
  <2>3. CASE r.exn # NoError
    BY <1>2, <1>5, <1>8, <2>3 DEF Raised
  <2>4. QED
    BY <2>2, <2>3
<1>11. QED
  BY <1>2, <1>5, <1>8, <1>9, <1>10
     DEF Effect, Talks, Completes, Confirms, Concludes, INITIAL, ESTABLISHED,
         EXPECT_SESSION_INIT_RESPONSE, EXPECT_SESSION_COMPLETION_REQUEST,
         EXPECT_SESSION_COMPLETION_RESPONSE

LEMMA RouteSessionInitRequestShape ==
    ASSUME NEW p \in Party, NEW n, NEW d, Shape(d, p, n), NEW pdu, NEW fresh,
           NEW now \in Nat, pdu.cid \in Theirs(p), pdu.cid \notin DOMAIN d.established
    PROVE  Shape(RouteSessionInitRequest(d, pdu, fresh, now).s, p, n)
<1> DEFINE cid == pdu.cid
           stored == [d EXCEPT !.store = Add(@, cid, pdu, None, now)]
           r == Update(NewSession(p, RESPONDER), pdu, fresh, now)
           out == RouteSessionInitRequest(d, pdu, fresh, now).s
<1>1. Shape(stored, p, n) /\ cid \notin DOMAIN stored.established
  BY StoredShape DEF Shape, Sound, Attributes
<1>2. d.owner = p /\ stored.owner = p
  BY DEF Shape, Sound, Attributes
<1>3. CASE cid \in DOMAIN d.responders
  <2>1. out = DeliverResponder(d, pdu, fresh, now).s
    BY <1>3 DEF RouteSessionInitRequest
  <2>2. QED
    BY <1>3, <2>1, DeliverResponderShape
<1>4. CASE cid \notin DOMAIN d.responders /\ ~CanAdd(d.store, cid, now)
  BY <1>1, <1>4 DEF RouteSessionInitRequest, Return
<1>5. CASE cid \notin DOMAIN d.responders /\ CanAdd(d.store, cid, now)
  <2>1. out = ResponderStarted(stored, cid, r).s
    BY <1>2, <1>5 DEF RouteSessionInitRequest
  <2>2. \/ r.exn \in Swallowed /\ r.s.state = INITIAL
        \/ /\ Held(r.s, cid, p, n) /\ r.s.role = RESPONDER
           /\ r.s.state \in {INITIAL, EXPECT_SESSION_COMPLETION_REQUEST}
    BY NewResponderHeld
  <2> HIDE DEF stored, r, out
  <2>3. CASE r.exn \in Swallowed /\ r.s.state = INITIAL
    <3>1. Shape([stored EXCEPT !.store = ForgetAll(@, {cid})], p, n)
      BY <1>1, ForgottenShape
    <3>2. out = [stored EXCEPT !.store = ForgetAll(@, {cid})]
      BY <2>1, <2>3 DEF ResponderStarted, Return, Forget
    <3>3. QED
      BY <3>1, <3>2 DEF out
  <2>4. CASE ~(r.exn \in Swallowed /\ r.s.state = INITIAL)
    <3>1. Shape(ResponderDelivered(stored, cid, r).s, p, n)
      BY <1>1, <2>2, <2>4, ResponderDeliveredShape
    <3>2. out = ResponderDelivered(stored, cid, r).s
      BY <2>1, <2>4 DEF ResponderStarted
    <3>3. QED
      BY <3>1, <3>2 DEF out
  <2>5. QED
    BY <2>3, <2>4
<1>6. QED
  BY <1>3, <1>4, <1>5

-----------------------------------------------------------------------------
(* Forks. *)
LEMMA ForkHeld ==
    ASSUME NEW p \in Party, NEW n, NEW cid, NEW s, Held(s, cid, p, n), CanFork(s)
    PROVE  /\ Held(Fork(s), cid, p, n)
           /\ Fork(s).role = INITIATOR
           /\ Fork(s).state = EXPECT_SESSION_INIT_RESPONSE
           /\ Fork(s).ephemeral = s.ephemeral
           /\ Fork(s).lastReceived = None
<1> DEFINE t == Fork(s)
<1>1. /\ s.role = INITIATOR /\ s.state = EXPECT_SESSION_INIT_RESPONSE
      /\ s.owner = p /\ s.cid = cid
      /\ s.deadline \in Nat \cup {None} /\ s.attempts \in 0..MaxRetries
      /\ s.pending \in Payloads(p) \cup {None}
      /\ s.state \in {INITIAL, ESTABLISHED} <=> s.deadline = None
  BY DEF CanFork, Held, Object
<1>2. /\ t = [f \in Fields |-> t[f]]
      /\ t.owner = p /\ t.role = INITIATOR
      /\ t.state = EXPECT_SESSION_INIT_RESPONSE /\ t.cid = cid
      /\ t.ephemeral = s.ephemeral /\ t.lastSent = s.lastSent
      /\ t.attempts = s.attempts /\ t.deadline = s.deadline
      /\ t.pending = s.pending /\ t.lastReceived = None
      /\ t.outgoingPdus = <<>> /\ t.seqA2B = 0 /\ t.seqB2A = 0
  <2> DEFINE base == NewSession(s.owner, s.role)
  <2>1. /\ base = [f \in Fields |-> base[f]]
        /\ base.owner = p /\ base.role = INITIATOR /\ base.lastReceived = None
        /\ base.outgoingPdus = <<>> /\ base.seqA2B = 0 /\ base.seqB2A = 0
    BY <1>1 DEF NewSession, Fields
  <2>2. t = [base EXCEPT
               !.state = EXPECT_SESSION_INIT_RESPONSE, !.cid = s.cid, !.peer = s.peer,
               !.ephemeral = s.ephemeral, !.s1 = s.s1, !.lastSent = s.lastSent,
               !.attempts = s.attempts, !.deadline = s.deadline, !.pending = s.pending]
    BY DEF Fork
  <2> HIDE DEF base, t
  <2>3. DOMAIN base = Fields
    BY <2>1
  <2>4. t = [f \in Fields |-> t[f]]
    BY <2>2, <2>3
  <2>5. QED
    BY <1>1, <2>1, <2>2, <2>3, <2>4 DEF Fields
<1> HIDE DEF t
<1>3. /\ t.state \in InitiatorState
      /\ t.state \notin KeyedState \cup {INITIAL, ESTABLISHED}
      /\ t.state # EXPECT_SESSION_COMPLETION_REQUEST
  BY <1>2
     DEF InitiatorState, KeyedState, INITIAL, ESTABLISHED, DROPPED,
         EXPECT_SESSION_INIT_RESPONSE, EXPECT_SESSION_COMPLETION_REQUEST,
         EXPECT_SESSION_COMPLETION_RESPONSE
<1>4. Object(t, p, t.role, Payloads(p))
  <2>1. t.deadline # None
    BY <1>1, <1>2, <1>3
  <2>2. QED
    BY <1>1, <1>2, <1>3, <2>1 DEF Object
<1>5. Range(t.outgoingPdus) = {} /\ Queued(t)
  <2>1. t.outgoingPdus = <<>>
    BY <1>2
  <2>2. QED
    BY <2>1 DEF Range, Queued
<1>6. Asked(Known(t), p, n)
  BY <1>2, <1>5 DEF Held, Asked, Known
<1>7. Held(t, cid, p, n)
  BY <1>1, <1>2, <1>4, <1>5, <1>6 DEF Held
<1>8. QED
  BY <1>2, <1>7 DEF t

(* A fork that update() does not establish goes on trying, and only the first *)
(* response it takes changes what it has received.                            *)
LEMMA TriesUpdate ==
    ASSUME NEW p \in Party, NEW n, NEW cid, NEW template, NEW s,
           Held(s, cid, p, n), Tries(s, template),
           NEW pdu, NEW fresh, NEW now \in Nat
    PROVE  LET r == Update(s, pdu, fresh, now)
           IN /\ Held(r.s, cid, p, n)
              /\ r.exn # NoError => r.s = s
              /\ \/ /\ Tries(r.s, template)
                    /\ \/ r.s.lastReceived = s.lastReceived
                       \/ /\ r.s.lastReceived = pdu
                          /\ s.state = EXPECT_SESSION_INIT_RESPONSE
                          /\ Arrived(pdu, "session_init_response")
                 \/ /\ r.s.state = ESTABLISHED /\ r.s.role = INITIATOR
                    /\ Arrived(pdu, "session_completion_response")
<1> DEFINE r == Update(s, pdu, fresh, now)
           t == r.s
<1>1. s.state # INITIAL /\ s.state # ESTABLISHED /\ s.role = INITIATOR
  BY DEF Tries, LiveForkState, INITIAL, ESTABLISHED, DROPPED,
         EXPECT_SESSION_INIT_RESPONSE, EXPECT_SESSION_COMPLETION_RESPONSE
<1>2. /\ Held(t, cid, p, n) /\ t.role = INITIATOR /\ Effect(s, t, pdu, fresh)
      /\ r.exn # NoError => t = s
  BY <1>1, HeldUpdate DEF Raised
<1> HIDE DEF t, r
<1>3. CASE Lingers(s, t)
  <2>1. Tries(t, template)
    BY <1>2, <1>3
       DEF Lingers, Keeps, Tries, LiveForkState, DROPPED,
           EXPECT_SESSION_INIT_RESPONSE, EXPECT_SESSION_COMPLETION_RESPONSE
  <2>2. QED
    BY <1>2, <1>3, <2>1 DEF Lingers, Keeps, t, r
<1>4. CASE Completes(s, t, pdu, fresh)
  <2>1. Tries(t, template)
    BY <1>2, <1>4 DEF Completes, Tries, LiveForkState, EXPECT_SESSION_INIT_RESPONSE,
                      EXPECT_SESSION_COMPLETION_RESPONSE, Arrived
  <2>2. QED
    BY <1>2, <1>4, <2>1 DEF Completes, t, r
<1>5. CASE Concludes(s, t, pdu)
  BY <1>2, <1>5 DEF Concludes, t, r
<1>6. ~Confirms(s, t, pdu)
  BY DEF Confirms, Tries, LiveForkState, DROPPED, EXPECT_SESSION_COMPLETION_REQUEST,
         EXPECT_SESSION_INIT_RESPONSE, EXPECT_SESSION_COMPLETION_RESPONSE
<1>7. QED
  BY <1>1, <1>2, <1>3, <1>4, <1>5, <1>6 DEF Effect, Talks, Refuses, Responds

(* An entry of a list of forks replaced, or a new one: still a list of forks, *)
(* if no other has received the same.                                         *)
LEMMA ForkReplaced ==
    ASSUME NEW p, NEW n, NEW forks, NEW template, ForksOK(forks, template, p, n),
           NEW i \in Nat \ {0}, NEW s, Held(s, template.cid, p, n), Tries(s, template),
           NEW new, DOMAIN new = DOMAIN forks \cup {i}, new[i] = s,
           \A j \in DOMAIN forks : j # i => new[j] = forks[j],
           \A j \in DOMAIN forks :
              j # i /\ s.lastReceived # None => s.lastReceived # forks[j].lastReceived
    PROVE  ForksOK(new, template, p, n)
<1>1. \E k \in Nat : DOMAIN new \subseteq 1..k
  <2>1. PICK k \in Nat : DOMAIN forks \subseteq 1..k
    BY DEF ForksOK
  <2>2. CASE i <= k
    BY <2>1, <2>2
  <2>3. CASE k < i
    BY <2>1, <2>3
  <2>4. QED
    BY <2>1, <2>2, <2>3
<1>2. \A j \in DOMAIN new : Held(new[j], template.cid, p, n) /\ Tries(new[j], template)
  BY DEF ForksOK
<1>3. Distinct(new)
  <2>1. Distinct(forks)
    BY DEF ForksOK
  <2>2. ASSUME NEW a \in DOMAIN new, NEW b \in DOMAIN new, a # b,
               new[a].lastReceived # None
        PROVE  new[a].lastReceived # new[b].lastReceived
    BY <2>1, <2>2 DEF Distinct
  <2>3. QED
    BY <2>2 DEF Distinct
<1>4. QED
  BY <1>1, <1>2, <1>3 DEF ForksOK

LEMMA RouteSessionInitResponseShape ==
    ASSUME NEW p \in Party, NEW n, NEW d, Shape(d, p, n), NEW pdu, NEW fresh,
           NEW now \in Nat, pdu.type = "session_init_response"
    PROVE  Shape(RouteSessionInitResponse(d, pdu, fresh, now).s, p, n)
<1> DEFINE cid == pdu.cid
           forks == d.forks[cid]
           template == d.templates[cid]
           tried == Tried(forks, pdu)
           i == Min(tried)
           again == Update(forks[i], pdu, fresh, now)
           new == Update(Fork(template), pdu, fresh, now)
           stored == [d EXCEPT !.store = Add(@, cid, pdu, None, now)]
           out == RouteSessionInitResponse(d, pdu, fresh, now).s
<1>1. CASE cid \notin DOMAIN d.templates
  BY <1>1 DEF RouteSessionInitResponse, Return
<1>2. CASE cid \in DOMAIN d.templates
  <2>1. /\ cid \in DOMAIN d.forks /\ cid \notin DOMAIN d.established
        /\ Held(template, cid, p, n) /\ CanFork(template)
        /\ ForksOK(forks, template, p, n)
    BY <1>2 DEF Shape, TemplatesOK, Promoted, Pending
  <2>2. template.cid = cid
    BY <2>1 DEF Held
  <2>3. Shape(stored, p, n) /\ stored.forks = d.forks /\ stored.templates = d.templates
    BY <2>1, StoredShape DEF Shape, Sound, Attributes
  <2>4. tried \subseteq DOMAIN forks /\ \A j \in tried : forks[j].lastReceived = pdu
    BY DEF Tried
  <2>5. PICK k \in Nat : DOMAIN forks \subseteq 1..k
    BY <2>1 DEF ForksOK
  <2>6. CASE tried # {}
    <3>1. i \in tried
      BY <2>4, <2>5, <2>6, MinOf
    <3>2. i \in DOMAIN forks /\ forks[i].lastReceived = pdu /\ i \in Nat \ {0}
      BY <2>4, <2>5, <3>1
    <3>3. out = ForkDelivered(d, cid, i, again).s
      BY <1>2, <2>6 DEF RouteSessionInitResponse
    <3> DEFINE t == Drained(again.s)
               list == [forks EXCEPT ![i] = t]
               e == [d EXCEPT !.forks[cid] = list]
    <3>4. out = DrainFrom(e, again.s)
      BY <3>3 DEF ForkDelivered, Return
    <3> HIDE DEF i, tried, out
    <3>5. Held(forks[i], cid, p, n) /\ Tries(forks[i], template)
      BY <2>1, <2>2, <3>2 DEF ForksOK
    <3>6. /\ Held(again.s, cid, p, n) /\ Tries(again.s, template)
          /\ again.s.lastReceived = pdu
      BY <3>2, <3>5, TriesUpdate DEF Arrived
    <3> HIDE DEF again
    <3>7. /\ Held(t, cid, p, n) /\ Tries(t, template) /\ t.lastReceived = pdu
          /\ Asked(Range(again.s.outgoingPdus), p, n)
      BY <3>6, HeldDrained DEF Tries
    <3> HIDE DEF t
    <3>8. /\ DOMAIN list = DOMAIN forks \cup {i} /\ list[i] = t
          /\ \A j \in DOMAIN forks : j # i => list[j] = forks[j]
      BY <3>2
    <3>9. \A j \in DOMAIN forks :
            j # i /\ t.lastReceived # None => t.lastReceived # forks[j].lastReceived
      BY <2>1, <3>2, <3>7 DEF ForksOK, Distinct
    <3> HIDE DEF list, forks, template
    <3>10. ForksOK(list, template, p, n)
      BY <2>1, <2>2, <3>2, <3>7, <3>8, <3>9, ForkReplaced
    <3>11. Shape(e, p, n)
      BY <2>1, <3>10, ForkListShape DEF template
    <3>12. QED
      BY <3>4, <3>7, <3>11, DrainFromShape DEF out
  <2>7. CASE tried = {} /\ ~CanAdd(d.store, cid, now)
    BY <1>2, <2>3, <2>7 DEF RouteSessionInitResponse, Return
  <2>8. CASE tried = {} /\ CanAdd(d.store, cid, now)
    <3>1. out = ForkStarted(stored, cid, new).s
      BY <1>2, <2>8 DEF RouteSessionInitResponse
    <3> DEFINE t == Drained(new.s)
               place == LastPlace(forks) + 1
               raised == Appended(forks, new.s)
               taken == Appended(forks, t)
               e == [stored EXCEPT !.forks[cid] = taken]
    <3>2. out \in {[stored EXCEPT !.forks[cid] = raised], DrainFrom(e, new.s)}
      BY <2>3, <3>1 DEF ForkStarted, Return, Raise
    <3>3. /\ Held(Fork(template), cid, p, n) /\ Tries(Fork(template), template)
          /\ Fork(template).lastReceived = None
      BY <2>1, ForkHeld DEF Tries, LiveForkState,
         EXPECT_SESSION_INIT_RESPONSE, EXPECT_SESSION_COMPLETION_RESPONSE
    <3>4. /\ Held(new.s, cid, p, n) /\ Tries(new.s, template)
          /\ new.s.lastReceived \in {None, pdu}
      BY <3>3, TriesUpdate DEF Arrived
    <3> HIDE DEF new, out
    <3>5. /\ Held(t, cid, p, n) /\ Tries(t, template) /\ t.lastReceived \in {None, pdu}
          /\ Asked(Range(new.s.outgoingPdus), p, n)
      BY <3>4, HeldDrained DEF Tries
    <3> HIDE DEF t
    <3>6. place \in Nat \ {0} /\ place \notin DOMAIN forks
      BY <2>5, LastPlaceOf
    <3>7. \A j \in DOMAIN forks : forks[j].lastReceived # pdu
      BY <2>8 DEF Tried
    <3>8. /\ DOMAIN taken = DOMAIN forks \cup {place} /\ taken[place] = t
          /\ \A j \in DOMAIN forks : j # place => taken[j] = forks[j]
      BY DEF Appended, With
    <3>9. /\ DOMAIN raised = DOMAIN forks \cup {place} /\ raised[place] = new.s
          /\ \A j \in DOMAIN forks : j # place => raised[j] = forks[j]
      BY DEF Appended, With
    <3> HIDE DEF taken, raised, place, tried, i, again
    <3>10. forks = stored.forks[cid] /\ template = stored.templates[cid]
           /\ cid \in DOMAIN stored.forks
      BY <2>1, <2>3
    <3> HIDE DEF forks, template, stored
    <3>11. ForksOK(taken, template, p, n)
      BY <2>1, <2>2, <3>5, <3>6, <3>7, <3>8, ForkReplaced
    <3>12. ForksOK(raised, template, p, n)
      BY <2>1, <2>2, <3>4, <3>6, <3>7, <3>9, ForkReplaced
    <3>13. Shape(e, p, n) /\ Shape([stored EXCEPT !.forks[cid] = raised], p, n)
      BY <2>3, <3>10, <3>11, <3>12, ForkListShape
    <3>14. QED
      BY <3>2, <3>5, <3>13, DrainFromShape DEF out
  <2>9. QED
    BY <2>6, <2>7, <2>8
<1>3. QED
  BY <1>1, <1>2

(* Every fork updated by a PDU that is no response: none takes it up, and one *)
(* that it establishes wins.                                                  *)
LEMMA RouteToForksShape ==
    ASSUME NEW p \in Party, NEW n, NEW d, Shape(d, p, n), NEW pdu, NEW now \in Nat,
           pdu.cid \in DOMAIN d.forks, pdu.type # "session_init_response"
    PROVE  Shape(RouteToForks(d, pdu, now), p, n)
<1> DEFINE cid == pdu.cid
           forks == d.forks[cid]
           template == d.templates[cid]
           cranked == [i \in DOMAIN forks |-> Update(forks[i], pdu, None, now).s]
           winners == {i \in DOMAIN cranked : cranked[i].state = ESTABLISHED}
           winner == cranked[Min(winners)]
           out == RouteToForks(d, pdu, now)
<1>1. /\ cid \in DOMAIN d.templates /\ Held(template, cid, p, n)
      /\ ForksOK(forks, template, p, n)
  BY DEF Shape, TemplatesOK
<1>2. template.cid = cid
  BY <1>1 DEF Held
<1>3. PICK k \in Nat : DOMAIN forks \subseteq 1..k
  BY <1>1 DEF ForksOK
<1>4. ASSUME NEW i \in DOMAIN forks
      PROVE  /\ Held(cranked[i], cid, p, n)
             /\ \/ /\ Tries(cranked[i], template)
                   /\ cranked[i].lastReceived = forks[i].lastReceived
                \/ cranked[i].state = ESTABLISHED
  <2>1. Held(forks[i], cid, p, n) /\ Tries(forks[i], template)
    BY <1>1, <1>2 DEF ForksOK
  <2> DEFINE r == Update(forks[i], pdu, None, now)
  <2>2. /\ Held(r.s, cid, p, n)
        /\ \/ Tries(r.s, template) /\ r.s.lastReceived = forks[i].lastReceived
           \/ r.s.state = ESTABLISHED
    BY <2>1, TriesUpdate DEF Arrived
  <2>3. cranked[i] = r.s
    OBVIOUS
  <2>4. QED
    BY <2>2, <2>3
<1>5. DOMAIN cranked = DOMAIN forks
  OBVIOUS
<1>6. out = FirstEstablished(d, cid, cranked)
  BY DEF RouteToForks
<1> HIDE DEF cranked, out
<1>7. CASE winners = {}
  <2>1. ForksOK(cranked, template, p, n)
    <3>1. ASSUME NEW i \in DOMAIN cranked
          PROVE  /\ Held(cranked[i], template.cid, p, n) /\ Tries(cranked[i], template)
                 /\ cranked[i].lastReceived = forks[i].lastReceived
      BY <1>2, <1>4, <1>5, <1>7
    <3>2. Distinct(cranked)
      BY <1>1, <1>5, <3>1 DEF ForksOK, Distinct
    <3>3. QED
      BY <1>3, <1>5, <3>1, <3>2 DEF ForksOK
  <2>2. Shape([d EXCEPT !.forks[cid] = cranked], p, n)
    BY <2>1, ForkListShape
  <2>3. QED
    BY <1>6, <1>7, <2>2 DEF FirstEstablished, out
<1>8. CASE winners # {}
  <2>1. Min(winners) \in winners
    BY <1>3, <1>5, <1>8, MinOf
  <2>2. winner.state = ESTABLISHED /\ Held(winner, cid, p, n)
    BY <1>4, <1>5, <2>1
  <2> DEFINE t == Drained(winner)
             d1 == DrainFrom(d, winner)
             e == Promote(d1, cid, t)
  <2>3. out = e
    BY <1>6, <1>8 DEF FirstEstablished
  <2> HIDE DEF winner
  <2>4. Held(t, cid, p, n) /\ t.state = ESTABLISHED
    BY <2>2, HeldDrained
  <2>5. Shape(d1, p, n)
    BY <2>2, HeldDrained, DrainFromShape
  <2> HIDE DEF d1, t
  <2>6. Sound(e) /\ Sound(d1)
    BY <2>5, PromoteSound DEF Shape
  <2>7. /\ e.owner = d1.owner /\ e.outgoing = d1.outgoing
        /\ e.established = With(d1.established, cid, t)
        /\ e.store = Forget(d1.store, cid)
        /\ e.responders = Without(d1.responders, cid)
        /\ e.templates = Without(d1.templates, cid)
        /\ e.forks = Without(d1.forks, cid)
    BY <2>6 DEF Promote, Sound, Attributes
  <2>8. /\ DOMAIN Without(d1.responders, cid) = DOMAIN d1.responders \ {cid}
        /\ \A j \in DOMAIN d1.responders \ {cid} :
              Without(d1.responders, cid)[j] = d1.responders[j]
    BY DEF Without, Restrict
  <2> HIDE DEF e
  <2>9. /\ DOMAIN e.responders = DOMAIN d1.responders \ {cid}
        /\ \A j \in DOMAIN e.responders : e.responders[j] = d1.responders[j]
    BY <2>7, <2>8
  <2>10. e.owner = p /\ Asked(e.outgoing, p, n)
    BY <2>5, <2>7 DEF Shape
  <2>11. Shape(e, p, n)
    BY <2>4, <2>5, <2>6, <2>7, <2>9, <2>10, PromotedShape
  <2>12. QED
    BY <2>3, <2>11 DEF out
<1>9. QED
  BY <1>7, <1>8

(* post_pdu(), on a PDU the peer sent. *)
LEMMA DispatcherPostPduShape ==
    ASSUME NEW p \in Party, NEW n, NEW d, Shape(d, p, n), NEW fresh, NEW now \in Nat,
           NEW pdu,
           pdu # Malformed /\ pdu.type = "session_init_request" => pdu.cid \in Theirs(p)
    PROVE  Shape(DispatcherPostPdu(d, pdu, fresh, now).s, p, n)
<1> DEFINE out == DispatcherPostPdu(d, pdu, fresh, now).s
<1>1. CASE pdu = Malformed
  BY <1>1 DEF DispatcherPostPdu, Return
<1>2. CASE pdu # Malformed /\ pdu.cid \in DOMAIN d.established
  <2>1. out = DeliverEstablished(d, pdu, fresh, now).s
    BY <1>2 DEF DispatcherPostPdu
  <2>2. QED
    BY <1>2, <2>1, DeliverEstablishedShape
<1>3. CASE /\ pdu # Malformed /\ pdu.cid \notin DOMAIN d.established
           /\ pdu.type = "session_init_request"
  <2>1. out = RouteSessionInitRequest(d, pdu, fresh, now).s
    BY <1>3 DEF DispatcherPostPdu
  <2>2. QED
    BY <1>3, <2>1, RouteSessionInitRequestShape
<1>4. CASE /\ pdu # Malformed /\ pdu.cid \notin DOMAIN d.established
           /\ pdu.type = "session_init_response"
  <2>1. out = RouteSessionInitResponse(d, pdu, fresh, now).s
    BY <1>4 DEF DispatcherPostPdu
  <2>2. QED
    BY <1>4, <2>1, RouteSessionInitResponseShape
<1>5. CASE /\ pdu # Malformed /\ pdu.cid \notin DOMAIN d.established
           /\ pdu.type \notin {"session_init_request", "session_init_response"}
  <2>1. CASE pdu.cid \in DOMAIN d.responders
    <3>1. out = DeliverResponder(d, pdu, fresh, now).s
      BY <1>5, <2>1 DEF DispatcherPostPdu
    <3>2. QED
      BY <2>1, <3>1, DeliverResponderShape
  <2>2. CASE pdu.cid \notin DOMAIN d.responders /\ pdu.cid \in DOMAIN d.forks
    <3>1. out = RouteToForks(d, pdu, now)
      BY <1>5, <2>2 DEF DispatcherPostPdu, Return
    <3>2. QED
      BY <1>5, <2>2, <3>1, RouteToForksShape
  <2>3. CASE pdu.cid \notin DOMAIN d.responders /\ pdu.cid \notin DOMAIN d.forks
    BY <1>5, <2>3 DEF DispatcherPostPdu, Return
  <2>4. QED
    BY <2>1, <2>2, <2>3
<1>6. QED
  BY <1>1, <1>2, <1>3, <1>4, <1>5

-----------------------------------------------------------------------------
(* initiate(). *)
LEMMA PeerIsOther ==
    ASSUME NEW p \in Party
    PROVE  Peer(p) \in Party /\ Peer(p) # p /\ Peer(Peer(p)) = p
BY PairAssumption DEF Peer

(* A cid not drawn yet is no session's. *)
LEMMA FreshIsNew ==
    ASSUME NEW p \in Party, NEW n \in Nat, NEW s, NEW cid, Held(s, cid, p, n)
    PROVE  cid # <<p, n + 1>>
<1>1. <<p, n + 1>> \notin Drawn(p, n)
  BY DrawnGrows
<1>2. <<p, n + 1>> \notin Theirs(p)
  BY PeerIsOther DEF Theirs
<1>3. QED
  BY <1>1, <1>2 DEF Held

LEMMA InitiatedHeld ==
    ASSUME NEW p \in Party, NEW n \in Nat, NEW peer, NEW now \in Nat
    PROVE  LET r == Initiate(NewSession(p, INITIATOR), peer, <<p, n + 1>>, now)
           IN r.exn = NoError =>
                Held(r.s, <<p, n + 1>>, p, n + 1) /\ CanFork(r.s)
<1> DEFINE fresh == <<p, n + 1>>
           s == NewSession(p, INITIATOR)
           r == Initiate(s, peer, fresh, now)
           t == r.s
           req == SessionInitRequest(fresh,
                      Encapsulate(StaticKey(peer), <<"s1", fresh>>), peer,
                      PublicKey(fresh, KemLevel[s.owner]), s.owner, AeadsOf(s.owner))
<1>1. Object(s, p, INITIATOR, Payloads(p)) /\ s.outgoingPdus = <<>>
  BY NewSessionObject DEF NewSession
<1>2. req.type = "session_init_request" /\ req.cid = fresh
  BY DEF SessionInitRequest
<1> HIDE DEF s, fresh
<1>3. Object(t, p, INITIATOR, Payloads(p))
  BY <1>1, InitiateObject
<1> SUFFICES ASSUME r.exn = NoError
             PROVE  Held(t, fresh, p, n + 1) /\ CanFork(t)
  BY DEF fresh, s
<1>4. /\ t.state = EXPECT_SESSION_INIT_RESPONSE /\ t.cid = fresh
      /\ t.lastSent = req /\ t.outgoingPdus = Queue(s, req)
  BY <1>1 DEF Initiate, Return, Raise, NoError, Object, Fields
<1> HIDE DEF t, req
<1>5. Range(s.outgoingPdus) = {} /\ s.outgoingPdus \in Seq({})
  BY <1>1 DEF Range
<1>6. /\ t.outgoingPdus \in Seq(Range(t.outgoingPdus))
      /\ Range(t.outgoingPdus) = {req}
  BY <1>4, <1>5, QueueAdds
<1>7. fresh \in Drawn(p, n + 1)
  BY DrawnGrows DEF fresh
<1>8. Asked(Known(t), p, n + 1)
  BY <1>2, <1>4, <1>6, <1>7 DEF Asked, Known
<1>9. t.role = INITIATOR
  BY <1>3 DEF Object
<1>10. QED
  BY <1>3, <1>4, <1>6, <1>7, <1>8, <1>9 DEF Held, Queued, CanFork

LEMMA NoForks ==
    ASSUME NEW p, NEW n, NEW template PROVE ForksOK(<<>>, template, p, n)
<1> DEFINE none == <<>>
<1>1. DOMAIN none = {}
  OBVIOUS
<1> HIDE DEF none
<1>2. ForksOK(none, template, p, n)
  BY <1>1 DEF ForksOK, Distinct
<1>3. QED
  BY <1>2 DEF none

LEMMA DispatcherInitiateShape ==
    ASSUME NEW p \in Party, NEW n \in Nat, NEW d, Shape(d, p, n), NEW peer,
           NEW now \in Nat
    PROVE  LET e == DispatcherInitiate(d, peer, <<p, n + 1>>, now).s
           IN e = d \/ (Shape(e, p, n + 1) /\ <<p, n + 1>> \in DOMAIN e.templates)
<1> DEFINE fresh == <<p, n + 1>>
           r == Initiate(NewSession(p, INITIATOR), peer, fresh, now)
           t == Drained(r.s)
           templates == With(d.templates, fresh, t)
           forks == With(d.forks, fresh, <<>>)
           e == [d EXCEPT !.templates = templates, !.forks = forks]
           out == DispatcherInitiate(d, peer, fresh, now).s
<1>1. out = Initiated(d, r).s
  BY DEF DispatcherInitiate, Shape
<1>2. r.exn = NoError => Held(r.s, fresh, p, n + 1) /\ CanFork(r.s)
  BY InitiatedHeld
<1>3. \A cid \in DOMAIN d.established : cid # fresh
  BY FreshIsNew DEF Shape, EstablishedOK
<1>4. Shape(d, p, n + 1)
  BY ShapeGrows
<1> HIDE DEF fresh, r, out
<1>5. CASE r.exn # NoError
  <2>1. Initiated(d, r) = Raise(d, r.exn)
    BY <1>5 DEF Initiated
  <2>2. out = d
    BY <1>1, <2>1 DEF Raise
  <2>3. QED
    BY <2>2 DEF out, fresh
<1>6. CASE r.exn = NoError
  <2>1. /\ Held(t, fresh, p, n + 1) /\ CanFork(t)
        /\ Asked(Range(r.s.outgoingPdus), p, n + 1)
    BY <1>2, <1>6, HeldDrained DEF CanFork
  <2>2. r.s.cid = fresh
    BY <1>2, <1>6 DEF Held
  <2> HIDE DEF t
  <2>3. /\ DOMAIN templates = DOMAIN d.templates \cup {fresh}
        /\ templates[fresh] = t
        /\ \A k \in DOMAIN d.templates : k # fresh => templates[k] = d.templates[k]
    BY DEF With
  <2>4. /\ DOMAIN forks = DOMAIN d.forks \cup {fresh} /\ forks[fresh] = <<>>
        /\ \A k \in DOMAIN d.forks : k # fresh => forks[k] = d.forks[k]
    BY DEF With
  <2> HIDE DEF templates, forks
  <2>5. /\ TemplatesOK(d.templates, p, n + 1) /\ DOMAIN d.templates = DOMAIN d.forks
        /\ \A k \in DOMAIN d.forks : ForksOK(d.forks[k], d.templates[k], p, n + 1)
        /\ \A k \in DOMAIN d.forks : k \notin DOMAIN d.established
    BY <1>4 DEF Shape, Promoted, Pending
  <2>6. TemplatesOK(templates, p, n + 1)
    BY <2>1, <2>3, <2>5 DEF TemplatesOK
  <2>7. ASSUME NEW k \in DOMAIN forks
        PROVE  ForksOK(forks[k], templates[k], p, n + 1)
    BY <2>3, <2>4, <2>5, NoForks
  <2>8. DOMAIN templates = DOMAIN forks
        /\ \A k \in DOMAIN forks : k \notin DOMAIN d.established
    BY <1>3, <2>3, <2>4, <2>5
  <2>9. Shape(e, p, n + 1)
    BY <1>4, <2>6, <2>7, <2>8, TemplatesShape
  <2>10. fresh \in DOMAIN e.templates
    BY <2>3 DEF Shape, Sound, Attributes
  <2>11. out = DrainFrom(e, r.s)
    BY <1>1, <1>6, <2>2 DEF Initiated, Return, templates, forks, t
  <2> HIDE DEF e
  <2>12. Shape(out, p, n + 1)
    BY <2>1, <2>9, <2>11, DrainFromShape
  <2>13. out.templates = e.templates
    BY <2>9, <2>11 DEF DrainFrom, Shape, Sound, Attributes
  <2>14. QED
    BY <2>10, <2>12, <2>13 DEF out, fresh
<1>7. QED
  BY <1>5, <1>6

-----------------------------------------------------------------------------
(* post_payload(), close(), a new Dispatcher, and what the caller drains. *)
LEMMA PostPayloadHeld ==
    ASSUME NEW p, NEW n, NEW s, NEW cid, Held(s, cid, p, n), NEW payload \in Payloads(p)
    PROVE  LET t == PostPayload(s, payload)
           IN /\ Held(t, cid, p, n)
              /\ t.role = s.role /\ t.state = s.state /\ t.cid = s.cid
              /\ t.ephemeral = s.ephemeral /\ t.lastReceived = s.lastReceived
<1> DEFINE t == PostPayload(s, payload)
<1>1. Object(t, p, s.role, Payloads(p))
  BY PostPayloadObject DEF Held
<1>2. /\ t.role = s.role /\ t.state = s.state /\ t.cid = s.cid
      /\ t.ephemeral = s.ephemeral /\ t.lastReceived = s.lastReceived
      /\ t.lastSent = s.lastSent /\ t.outgoingPdus = s.outgoingPdus
  BY HeldObject DEF PostPayload, Fields
<1> HIDE DEF t
<1>3. Held(t, cid, p, n)
  BY <1>1, <1>2 DEF Held, Queued, Known
<1>4. QED
  BY <1>2, <1>3 DEF t

LEMMA DispatcherPostPayloadShape ==
    ASSUME NEW p, NEW n, NEW d, Shape(d, p, n), NEW cid \in CanPost(d),
           NEW payload \in Payloads(p)
    PROVE  Shape(DispatcherPostPayload(d, cid, payload), p, n)
<1>1. CASE cid \in DOMAIN d.established
  <2> DEFINE sessions == [d.established EXCEPT ![cid] = PostPayload(@, payload)]
  <2>1. EstablishedOK(d.established, p, n)
    BY DEF Shape
  <2>2. EstablishedOK(sessions, p, n)
    BY <2>1, PostPayloadHeld DEF EstablishedOK
  <2>3. DOMAIN sessions = DOMAIN d.established
    OBVIOUS
  <2> HIDE DEF sessions
  <2>4. Shape([d EXCEPT !.established = sessions], p, n)
    BY <2>2, <2>3, EstablishedShape
  <2>5. QED
    BY <1>1, <2>4 DEF DispatcherPostPayload, sessions
<1>2. CASE cid \notin DOMAIN d.established /\ cid \in DOMAIN d.responders
  <2> DEFINE sessions == [d.responders EXCEPT ![cid] = PostPayload(@, payload)]
  <2>1. RespondersOK(d.responders, p, n)
        /\ \A k \in DOMAIN d.responders : k \notin DOMAIN d.established
    BY DEF Shape, Promoted, Pending
  <2>2. RespondersOK(sessions, p, n)
    BY <2>1, PostPayloadHeld DEF RespondersOK
  <2>3. DOMAIN sessions = DOMAIN d.responders
    OBVIOUS
  <2> HIDE DEF sessions
  <2>4. Shape([d EXCEPT !.responders = sessions], p, n)
    BY <2>1, <2>2, <2>3, RespondersShape
  <2>5. QED
    BY <1>2, <2>4 DEF DispatcherPostPayload, sessions
<1>3. CASE cid \notin DOMAIN d.established /\ cid \notin DOMAIN d.responders
  <2> DEFINE templates == [d.templates EXCEPT ![cid] = PostPayload(@, payload)]
             posts == [i \in DOMAIN d.forks[cid] |-> PostPayload(d.forks[cid][i], payload)]
             forks == [d.forks EXCEPT ![cid] = posts]
  <2>1. /\ cid \in DOMAIN d.templates /\ TemplatesOK(d.templates, p, n)
        /\ DOMAIN d.templates = DOMAIN d.forks
        /\ \A k \in DOMAIN d.forks : ForksOK(d.forks[k], d.templates[k], p, n)
        /\ \A k \in DOMAIN d.forks : k \notin DOMAIN d.established
    BY <1>3 DEF CanPost, Shape, Promoted, Pending
  <2>2. /\ TemplatesOK(templates, p, n)
        /\ templates[cid].cid = d.templates[cid].cid
        /\ templates[cid].ephemeral = d.templates[cid].ephemeral
    BY <2>1, PostPayloadHeld DEF TemplatesOK, CanFork
  <2>3. ForksOK(posts, templates[cid], p, n)
    <3>1. /\ \E k \in Nat : DOMAIN posts \subseteq 1..k
          /\ Distinct(d.forks[cid])
      BY <2>1 DEF ForksOK
    <3>2. ASSUME NEW i \in DOMAIN posts
          PROVE  /\ Held(posts[i], templates[cid].cid, p, n)
                 /\ Tries(posts[i], templates[cid])
                 /\ posts[i].lastReceived = d.forks[cid][i].lastReceived
      <4>1. /\ Held(d.forks[cid][i], d.templates[cid].cid, p, n)
            /\ Tries(d.forks[cid][i], d.templates[cid])
        BY <2>1 DEF ForksOK
      <4>2. posts[i] = PostPayload(d.forks[cid][i], payload)
        OBVIOUS
      <4> HIDE DEF posts, templates
      <4>3. QED
        BY <2>2, <4>1, <4>2, PostPayloadHeld DEF Tries
    <3>3. DOMAIN posts = DOMAIN d.forks[cid]
      OBVIOUS
    <3> HIDE DEF posts, templates
    <3>4. Distinct(posts)
      BY <3>1, <3>2, <3>3 DEF Distinct
    <3>5. QED
      BY <3>1, <3>2, <3>4 DEF ForksOK
  <2> HIDE DEF posts
  <2>4. ASSUME NEW k \in DOMAIN forks PROVE ForksOK(forks[k], templates[k], p, n)
    BY <2>1, <2>3
  <2>5. DOMAIN templates = DOMAIN d.templates /\ DOMAIN forks = DOMAIN d.forks
    OBVIOUS
  <2> HIDE DEF forks, templates
  <2>6. Shape([d EXCEPT !.templates = templates, !.forks = forks], p, n)
    BY <2>1, <2>2, <2>4, <2>5, TemplatesShape
  <2>7. QED
    BY <1>3, <2>6 DEF DispatcherPostPayload, templates, forks, posts
<1>4. QED
  BY <1>1, <1>2, <1>3

LEMMA CloseShape ==
    ASSUME NEW p, NEW n, NEW d, Shape(d, p, n), NEW cid
    PROVE  Shape(Close(d, cid), p, n)
<1> DEFINE sessions == Without(d.established, cid)
<1>1. EstablishedOK(d.established, p, n)
  BY DEF Shape
<1>2. /\ DOMAIN sessions = DOMAIN d.established \ {cid}
      /\ \A k \in DOMAIN sessions : sessions[k] = d.established[k]
  BY DEF Without, Restrict
<1> HIDE DEF sessions
<1>3. EstablishedOK(sessions, p, n)
  BY <1>1, <1>2 DEF EstablishedOK
<1>4. Shape([d EXCEPT !.established = sessions], p, n)
  BY <1>2, <1>3, EstablishedShape
<1>5. QED
  BY <1>4 DEF Close, sessions

LEMMA NewDispatcherShape ==
    ASSUME NEW p, NEW n PROVE Shape(NewDispatcher(p), p, n)
<1> DEFINE none == <<>>
           d == NewDispatcher(p)
<1>1. DOMAIN none = {}
  OBVIOUS
<1>2. /\ Sound(d) /\ d.owner = p /\ d.established = none /\ d.responders = none
      /\ d.templates = none /\ d.forks = none /\ d.outgoing = {}
  BY NewDispatcherSound DEF NewDispatcher
<1> HIDE DEF none, d
<1>3. Shape(d, p, n)
  BY <1>1, <1>2 DEF Shape, EstablishedOK, RespondersOK, TemplatesOK, Promoted, Pending,
                    Asked
<1>4. QED
  BY <1>3 DEF d

LEMMA EmptiedShape ==
    ASSUME NEW p, NEW n, NEW d, Shape(d, p, n)
    PROVE  /\ Shape(Emptied(d), p, n)
           /\ Emptied(d).outgoing = {} /\ Emptied(d).payloads = <<>>
           /\ Pending(Emptied(d)) = Pending(d) /\ Emptied(d).store = d.store
<1> DEFINE e == Emptied(d)
<1>1. /\ e.owner = d.owner /\ e.established = d.established
      /\ e.responders = d.responders /\ e.templates = d.templates
      /\ e.forks = d.forks /\ e.store = d.store /\ e.outgoing = {}
      /\ e.payloads = <<>> /\ DOMAIN e = DOMAIN d
  BY DEF Shape, Sound, Attributes, Emptied
<1> HIDE DEF e
<1>2. Sound(e) /\ Pending(e) = Pending(d) /\ Asked(e.outgoing, p, n)
  BY <1>1 DEF Sound, Shape, Pending, Asked
<1>3. Shape(e, p, n)
  BY <1>1, <1>2 DEF Shape
<1>4. QED
  BY <1>1, <1>2, <1>3 DEF e

-----------------------------------------------------------------------------
(* update(), one part after the other: besides the shape, every pending        *)
(* cid has some candidate once the reconciliation has run.                    *)
Backed(d) == \A cid \in Pending(d) : CandidatesFor(d.store, cid) # {}

(* Nothing arrives: a session stays in its state or is DROPPED. *)
LEMMA CrankedHeld ==
    ASSUME NEW p \in Party, NEW n, NEW s, NEW cid, Held(s, cid, p, n),
           s.state = INITIAL => s.role = RESPONDER, NEW now \in Nat
    PROVE  LET t == Update(s, None, None, now).s
           IN /\ Held(t, cid, p, n) /\ t.role = s.role
              /\ t.state = s.state
                   \/ (t.state = DROPPED /\ s.state \notin {INITIAL, ESTABLISHED})
              /\ t.ephemeral = s.ephemeral /\ t.lastReceived = s.lastReceived
<1> DEFINE r == Update(s, None, None, now)
           t == r.s
<1>1. Held(t, cid, p, n) /\ t.role = s.role /\ Effect(s, t, None, None)
  BY HeldUpdate
<1> HIDE DEF t, r
<1>2. Lingers(s, t) \/ Talks(s, t)
  BY <1>1 DEF Effect, Refuses, Responds, Completes, Confirms, Concludes, Arrived
<1>3. QED
  BY <1>1, <1>2 DEF Lingers, Talks, Keeps, t, r

(* What a loop of update() makes of one dict. *)
LEMMA CrankAllValues ==
    ASSUME NEW sessions, NEW now
    PROVE  /\ DOMAIN CrankAll(sessions, now) = DOMAIN sessions
           /\ \A k \in DOMAIN sessions :
                CrankAll(sessions, now)[k] = Update(sessions[k], None, None, now).s
BY DEF CrankAll

LEMMA AllDrainedValues ==
    ASSUME NEW sessions
    PROVE  /\ DOMAIN AllDrained(sessions) = DOMAIN sessions
           /\ \A k \in DOMAIN sessions : AllDrained(sessions)[k] = Drained(sessions[k])
BY DEF AllDrained

LEMMA ReconciledShape ==
    ASSUME NEW p, NEW n, NEW d, Shape(d, p, n)
    PROVE  Shape(Reconciled(d), p, n) /\ Backed(Reconciled(d))
<1> DEFINE gone == {cid \in DOMAIN d.forks : /\ CandidatesFor(d.store, cid) = {}
                                             /\ cid \notin DOMAIN d.established}
           live == {cid \in DOMAIN d.responders : ~(CandidatesFor(d.store, cid) = {})}
           responders == Restrict(d.responders, live)
           forks == Restrict(d.forks, DOMAIN d.forks \ gone)
           templates == Restrict(d.templates, DOMAIN d.templates \ gone)
           e == Reconciled(d)
<1>1. DOMAIN d = Attributes
  BY DEF Shape, Sound
<1>2. e = [d EXCEPT !.responders = responders, !.forks = forks, !.templates = templates]
  BY DEF Reconciled
<1>3. /\ DOMAIN responders = live
      /\ \A k \in live : responders[k] = d.responders[k]
  BY DEF Restrict
<1>4. /\ DOMAIN forks = DOMAIN d.forks \ gone
      /\ \A k \in DOMAIN forks : forks[k] = d.forks[k]
  BY DEF Restrict
<1>5. /\ DOMAIN templates = DOMAIN d.templates \ gone
      /\ \A k \in DOMAIN templates : templates[k] = d.templates[k]
  BY DEF Restrict
<1> HIDE DEF responders, forks, templates, e
<1>6. /\ e.owner = d.owner /\ e.established = d.established
      /\ e.responders = responders /\ e.templates = templates /\ e.forks = forks
      /\ e.store = d.store /\ e.outgoing = d.outgoing /\ DOMAIN e = Attributes
  BY <1>1, <1>2 DEF Attributes
<1>7. RespondersOK(responders, p, n)
  BY <1>3 DEF Shape, RespondersOK
<1>8. TemplatesOK(templates, p, n) /\ DOMAIN templates = DOMAIN forks
  BY <1>4, <1>5 DEF Shape, TemplatesOK
<1>9. ASSUME NEW k \in DOMAIN forks PROVE ForksOK(forks[k], templates[k], p, n)
  BY <1>4, <1>5, <1>8 DEF Shape
<1>10. Pending(e) \subseteq Pending(d)
  BY <1>3, <1>4, <1>6 DEF Pending
<1>11. Promoted(DOMAIN e.established, Pending(e), e.store)
  BY <1>6, <1>10 DEF Promoted, Shape
<1>12. Sound(e) /\ EstablishedOK(e.established, p, n) /\ Asked(e.outgoing, p, n)
       /\ e.owner = p
  BY <1>6 DEF Shape, Sound
<1>13. Shape(e, p, n)
  BY <1>6, <1>7, <1>8, <1>9, <1>11, <1>12 DEF Shape
<1>14. ASSUME NEW k \in DOMAIN forks PROVE CandidatesFor(d.store, k) # {}
  BY <1>4 DEF Shape, Promoted, Pending
<1>15. Backed(e)
  BY <1>3, <1>6, <1>14 DEF Backed, Pending
<1>16. QED
  BY <1>13, <1>15 DEF e

LEMMA UpdateEstablishedSessionsShape ==
    ASSUME NEW p \in Party, NEW n, NEW d, Shape(d, p, n), NEW now \in Nat
    PROVE  LET e == UpdateEstablishedSessions(d, now)
           IN /\ Shape(e, p, n)
              /\ Pending(e) = Pending(d) /\ e.store = d.store
<1> DEFINE cranked == CrankAll(d.established, now)
           sessions == AllDrained(cranked)
           X == OutgoingOf(cranked)
           f == [d EXCEPT !.established = sessions]
           e == EstablishedCranked(d, cranked)
<1>1. /\ EstablishedOK(d.established, p, n) /\ Sound(d)
      /\ \A k \in DOMAIN d.established : d.established[k].state # INITIAL
  BY DEF Shape, EstablishedOK, ESTABLISHED, INITIAL
<1>2. DOMAIN cranked = DOMAIN d.established
  BY CrankAllValues
<1>3. ASSUME NEW k \in DOMAIN cranked
      PROVE  Held(cranked[k], k, p, n) /\ cranked[k].state = ESTABLISHED
  <2>1. Held(d.established[k], k, p, n) /\ d.established[k].state = ESTABLISHED
    BY <1>1, <1>2, <1>3 DEF EstablishedOK
  <2>2. cranked[k] = Update(d.established[k], None, None, now).s
    BY <1>2, <1>3, CrankAllValues
  <2> HIDE DEF cranked
  <2>3. QED
    BY <1>1, <1>2, <2>1, <2>2, CrankedHeld
<1> HIDE DEF cranked
<1>4. EstablishedOK(sessions, p, n) /\ DOMAIN sessions = DOMAIN d.established
  <2>1. /\ DOMAIN sessions = DOMAIN cranked
        /\ \A k \in DOMAIN cranked : sessions[k] = Drained(cranked[k])
    BY AllDrainedValues
  <2> HIDE DEF sessions
  <2>2. QED
    BY <1>2, <1>3, <2>1, HeldDrained DEF EstablishedOK
<1>5. Asked(X, p, n)
  BY <1>3, HeldDrained DEF Asked, OutgoingOf
<1> HIDE DEF sessions, X
<1>6. Shape(f, p, n)
  BY <1>4, EstablishedShape
<1>7. f = [d EXCEPT !.established = sessions] /\ f.outgoing = d.outgoing
      /\ f.responders = d.responders /\ f.forks = d.forks /\ f.store = d.store
  BY <1>1 DEF Sound, Attributes
<1> HIDE DEF f
<1>8. Shape([f EXCEPT !.outgoing = @ \cup X], p, n)
  BY <1>5, <1>6, OutgoingShape
<1>9. e = [f EXCEPT !.outgoing = @ \cup X]
  BY <1>1, <1>7 DEF EstablishedCranked, sessions, X, Sound, Attributes
<1>10. /\ e.responders = d.responders /\ e.forks = d.forks /\ e.store = d.store
  BY <1>6, <1>7, <1>9 DEF Shape, Sound, Attributes
<1> HIDE DEF e
<1>11. Shape(e, p, n) /\ Pending(e) = Pending(d) /\ e.store = d.store
  BY <1>8, <1>9, <1>10 DEF Pending
<1>12. QED
  BY <1>11 DEF UpdateEstablishedSessions, e, cranked

LEMMA ResponderCidsAreTheirs ==
    ASSUME NEW p \in Party, NEW n, NEW d, Shape(d, p, n), NEW cid \in DOMAIN d.forks
    PROVE  cid \notin DOMAIN d.responders
<1>1. d.templates[cid].role = INITIATOR /\ cid \in Drawn(p, n)
  BY DEF Shape, TemplatesOK, CanFork, Held
<1>2. ASSUME cid \in DOMAIN d.responders PROVE cid \in Theirs(p)
  <2>1. Held(d.responders[cid], cid, p, n) /\ d.responders[cid].role = RESPONDER
    BY <1>2 DEF Shape, RespondersOK
  <2>2. QED
    BY <2>1 DEF Held, RESPONDER, INITIATOR
<1>3. QED
  BY <1>1, <1>2, PeerIsOther DEF Drawn, Theirs

LEMMA UpdateResponderSessionsShape ==
    ASSUME NEW p \in Party, NEW n, NEW d, Shape(d, p, n), NEW now \in Nat, Backed(d)
    PROVE  LET e == UpdateResponderSessions(d, now)
           IN Shape(e, p, n) /\ Backed(e)
<1> DEFINE cranked == CrankAll(d.responders, now)
           live == {cid \in DOMAIN cranked : cranked[cid].state # DROPPED}
           sessions == Restrict(AllDrained(cranked), live)
           X == OutgoingOf(cranked)
           store == ForgetAll(d.store, DOMAIN cranked \ live)
           e == RespondersCranked(d, cranked)
<1>1. /\ RespondersOK(d.responders, p, n) /\ Sound(d)
      /\ \A k \in DOMAIN d.responders : k \notin DOMAIN d.established
  BY DEF Shape, Promoted, Pending
<1>2. DOMAIN cranked = DOMAIN d.responders
  BY CrankAllValues
<1>3. ASSUME NEW k \in DOMAIN cranked
      PROVE  /\ Held(cranked[k], k, p, n) /\ cranked[k].role = RESPONDER
             /\ cranked[k].state
                  \in {INITIAL, EXPECT_SESSION_COMPLETION_REQUEST, DROPPED}
  <2>1. /\ Held(d.responders[k], k, p, n) /\ d.responders[k].role = RESPONDER
        /\ d.responders[k].state \in {INITIAL, EXPECT_SESSION_COMPLETION_REQUEST}
    BY <1>1, <1>2, <1>3 DEF RespondersOK
  <2>2. cranked[k] = Update(d.responders[k], None, None, now).s
    BY <1>2, <1>3, CrankAllValues
  <2> HIDE DEF cranked
  <2>3. QED
    BY <2>1, <2>2, CrankedHeld
<1> HIDE DEF cranked
<1>4. /\ DOMAIN sessions = live
      /\ \A k \in live : sessions[k] = Drained(cranked[k])
  BY AllDrainedValues DEF Restrict
<1>5. Asked(X, p, n)
  BY <1>3, HeldDrained DEF Asked, OutgoingOf
<1>6. e = [d EXCEPT !.responders = sessions, !.outgoing = @ \cup X, !.store = store]
  BY DEF RespondersCranked
<1> HIDE DEF sessions, X, e
<1>7. RespondersOK(sessions, p, n)
  <2>1. ASSUME NEW k \in live
        PROVE  /\ Held(Drained(cranked[k]), k, p, n)
               /\ Drained(cranked[k]).role = RESPONDER
               /\ Drained(cranked[k]).state
                    \in {INITIAL, EXPECT_SESSION_COMPLETION_REQUEST}
    BY <1>3, HeldDrained
  <2>2. QED
    BY <1>4, <2>1 DEF RespondersOK
<1>8. StoreKept(d.store)
  BY <1>1 DEF Sound
<1>9. StoreKept(store)
  BY <1>8, ForgetAllKept
<1>10. /\ \A k : CandidatesFor(store, k) \subseteq CandidatesFor(d.store, k)
       /\ \A k : k \notin DOMAIN cranked \ live =>
                   CandidatesFor(store, k) = CandidatesFor(d.store, k)
  BY <1>8, ForgetAllFewer
<1> HIDE DEF store
<1>11. /\ e.owner = d.owner /\ e.established = d.established
       /\ e.responders = sessions /\ e.templates = d.templates /\ e.forks = d.forks
       /\ e.store = store /\ e.outgoing = d.outgoing \cup X /\ DOMAIN e = Attributes
  BY <1>1, <1>6 DEF Sound, Attributes
<1>12. Pending(e) \subseteq Pending(d)
  BY <1>2, <1>4, <1>11 DEF Pending
<1>13. Promoted(DOMAIN e.established, Pending(e), e.store)
  BY <1>10, <1>11, <1>12 DEF Promoted, Shape
<1>14. Sound(e) /\ Asked(e.outgoing, p, n)
  BY <1>5, <1>9, <1>11 DEF Sound, Asked, Shape
<1>15. Shape(e, p, n)
  BY <1>7, <1>11, <1>13, <1>14 DEF Shape
<1>16. \A k \in Pending(e) : k \notin DOMAIN cranked \ live
  BY <1>2, <1>4, <1>11, ResponderCidsAreTheirs DEF Pending
<1>17. Backed(e)
  BY <1>10, <1>11, <1>12, <1>16 DEF Backed
<1>18. QED
  BY <1>15, <1>17 DEF UpdateResponderSessions, e, cranked

(* The forks of one cid: those that remain are forks still, in their places. *)
LEMMA SurvivingForks ==
    ASSUME NEW p \in Party, NEW n, NEW forks, NEW template, ForksOK(forks, template, p, n),
           NEW now \in Nat
    PROVE  ForksOK(Surviving(CrankAll(forks, now)), template, p, n)
<1> DEFINE cranked == CrankAll(forks, now)
           left == Surviving(cranked)
<1>1. DOMAIN cranked = DOMAIN forks
  BY CrankAllValues
<1>2. ASSUME NEW i \in DOMAIN forks
      PROVE  /\ Held(cranked[i], template.cid, p, n) /\ Tries(cranked[i], template)
             /\ cranked[i].lastReceived = forks[i].lastReceived
  <2>1. Held(forks[i], template.cid, p, n) /\ Tries(forks[i], template)
    BY DEF ForksOK
  <2>2. cranked[i] = Update(forks[i], None, None, now).s
    BY CrankAllValues
  <2> HIDE DEF cranked
  <2>3. forks[i].state # INITIAL
    BY <2>1 DEF Tries, LiveForkState, INITIAL, DROPPED, EXPECT_SESSION_INIT_RESPONSE,
                EXPECT_SESSION_COMPLETION_RESPONSE
  <2>4. /\ Held(cranked[i], template.cid, p, n) /\ cranked[i].role = forks[i].role
        /\ cranked[i].state \in {forks[i].state, DROPPED}
        /\ cranked[i].ephemeral = forks[i].ephemeral
        /\ cranked[i].lastReceived = forks[i].lastReceived
    BY <2>1, <2>2, <2>3, CrankedHeld
  <2>5. QED
    BY <2>1, <2>4 DEF Tries, LiveForkState, DROPPED, EXPECT_SESSION_INIT_RESPONSE,
                      EXPECT_SESSION_COMPLETION_RESPONSE
<1> HIDE DEF cranked
<1>3. /\ DOMAIN left \subseteq DOMAIN cranked
      /\ \A i \in DOMAIN left : left[i] = cranked[i]
  BY DEF Surviving, Restrict
<1> HIDE DEF left
<1>4. \E k \in Nat : DOMAIN left \subseteq 1..k
  <2>1. PICK k \in Nat : DOMAIN forks \subseteq 1..k
    BY DEF ForksOK
  <2>2. DOMAIN left \subseteq 1..k
    BY <1>1, <1>3, <2>1
  <2>3. QED
    BY <2>2
<1>5. Distinct(left)
  BY <1>1, <1>2, <1>3 DEF ForksOK, Distinct
<1>6. ForksOK(left, template, p, n)
  BY <1>1, <1>2, <1>3, <1>4, <1>5 DEF ForksOK
<1>7. QED
  BY <1>6 DEF left, cranked

LEMMA ProcessInitiatorForksShape ==
    ASSUME NEW p \in Party, NEW n, NEW d, Shape(d, p, n), NEW now \in Nat, Backed(d)
    PROVE  LET e == ProcessInitiatorForks(d, now)
           IN Shape(e, p, n) /\ Backed(e)
<1> DEFINE surviving == [cid \in DOMAIN d.forks |-> Surviving(CrankAll(d.forks[cid], now))]
           lost == {cid \in DOMAIN surviving : DOMAIN surviving[cid] = {}}
           forks == Restrict(surviving, DOMAIN d.forks \ lost)
           templates == Restrict(d.templates, DOMAIN d.templates \ lost)
           store == ForgetAll(d.store, lost)
           e == ForksCranked(d, surviving)
<1>1. /\ TemplatesOK(d.templates, p, n) /\ Sound(d)
      /\ DOMAIN d.templates = DOMAIN d.forks
  BY DEF Shape
<1>2. DOMAIN surviving = DOMAIN d.forks
  OBVIOUS
<1>3. ASSUME NEW k \in DOMAIN d.forks
      PROVE  ForksOK(surviving[k], d.templates[k], p, n)
  <2>1. ForksOK(d.forks[k], d.templates[k], p, n)
    BY DEF Shape
  <2>2. surviving[k] = Surviving(CrankAll(d.forks[k], now))
    OBVIOUS
  <2> HIDE DEF surviving
  <2>3. QED
    BY <2>1, <2>2, SurvivingForks
<1> HIDE DEF surviving
<1>4. e = [d EXCEPT !.forks = forks, !.templates = templates, !.store = store]
  BY DEF ForksCranked
<1>5. /\ DOMAIN forks = DOMAIN d.forks \ lost
      /\ \A k \in DOMAIN forks : forks[k] = surviving[k]
  BY DEF Restrict
<1>6. /\ DOMAIN templates = DOMAIN d.templates \ lost
      /\ \A k \in DOMAIN templates : templates[k] = d.templates[k]
  BY DEF Restrict
<1> HIDE DEF forks, templates, e
<1>7. StoreKept(d.store)
  BY <1>1 DEF Sound
<1>8. StoreKept(store)
  BY <1>7, ForgetAllKept
<1>9. /\ \A k : CandidatesFor(store, k) \subseteq CandidatesFor(d.store, k)
      /\ \A k : k \notin lost => CandidatesFor(store, k) = CandidatesFor(d.store, k)
  BY <1>7, ForgetAllFewer
<1> HIDE DEF store
<1>10. /\ e.owner = d.owner /\ e.established = d.established
       /\ e.responders = d.responders /\ e.templates = templates /\ e.forks = forks
       /\ e.store = store /\ e.outgoing = d.outgoing /\ DOMAIN e = Attributes
  BY <1>1, <1>4 DEF Sound, Attributes
<1>11. TemplatesOK(templates, p, n) /\ DOMAIN templates = DOMAIN forks
  BY <1>1, <1>5, <1>6 DEF TemplatesOK
<1>12. ASSUME NEW k \in DOMAIN forks PROVE ForksOK(forks[k], templates[k], p, n)
  BY <1>3, <1>5, <1>6, <1>11
<1>13. Pending(e) \subseteq Pending(d)
  BY <1>5, <1>10 DEF Pending
<1>14. Promoted(DOMAIN e.established, Pending(e), e.store)
  BY <1>9, <1>10, <1>13 DEF Promoted, Shape
<1>15. Sound(e) /\ Asked(e.outgoing, p, n)
  BY <1>8, <1>10 DEF Sound, Shape
<1>16. Shape(e, p, n)
  BY <1>10, <1>11, <1>12, <1>14, <1>15 DEF Shape
<1>17. \A k \in Pending(e) : k \notin lost
  BY <1>2, <1>5, <1>10, ResponderCidsAreTheirs DEF Pending
<1>18. Backed(e)
  BY <1>9, <1>10, <1>13, <1>17 DEF Backed
<1>19. QED
  BY <1>16, <1>18 DEF ProcessInitiatorForks, e, surviving

LEMMA DispatcherUpdateShape ==
    ASSUME NEW p \in Party, NEW n, NEW d, Shape(d, p, n), NEW now \in Nat
    PROVE  Shape(DispatcherUpdate(d, now), p, n) /\ Backed(DispatcherUpdate(d, now))
<1> DEFINE store == Expire(d.store, now)
           d1 == [d EXCEPT !.store = store]
           d2 == Reconciled(d1)
           d3 == UpdateEstablishedSessions(d2, now)
           d4 == UpdateResponderSessions(d3, now)
<1>1. StoreKept(store)
  BY ExpireKept DEF Shape, Sound
<1>2. \A k : CandidatesFor(store, k) \subseteq CandidatesFor(d.store, k)
  BY ExpireFewer
<1>3. DispatcherUpdate(d, now) = ProcessInitiatorForks(d4, now)
  BY DEF DispatcherUpdate
<1> HIDE DEF store
<1>4. Shape(d1, p, n)
  BY <1>1, <1>2, StoreShape
<1> HIDE DEF d1
<1>5. Shape(d2, p, n) /\ Backed(d2)
  BY <1>4, ReconciledShape
<1> HIDE DEF d2
<1>6. Shape(d3, p, n) /\ Backed(d3)
  BY <1>5, UpdateEstablishedSessionsShape DEF Backed
<1> HIDE DEF d3
<1>7. Shape(d4, p, n) /\ Backed(d4)
  BY <1>6, UpdateResponderSessionsShape
<1> HIDE DEF d4
<1>8. QED
  BY <1>3, <1>7, ProcessInitiatorForksShape

-----------------------------------------------------------------------------
(* A tick. *)
LEMMA AgedHeld ==
    ASSUME NEW p, NEW n, NEW s, NEW cid, Held(s, cid, p, n)
    PROVE  /\ Held(Aged(s), cid, p, n)
           /\ Aged(s).role = s.role /\ Aged(s).state = s.state /\ Aged(s).cid = s.cid
           /\ Aged(s).ephemeral = s.ephemeral
           /\ Aged(s).lastReceived = s.lastReceived
<1> DEFINE t == Aged(s)
<1>1. Object(s, p, s.role, Payloads(p))
  BY DEF Held
<1>2. /\ t = [f \in Fields |-> t[f]]
      /\ t.deadline = Later(s.deadline)
      /\ \A f \in Fields \ {"deadline"} : t[f] = s[f]
  BY HeldObject DEF Aged, Fields
<1>3. /\ Later(s.deadline) \in Nat \cup {None}
      /\ Later(s.deadline) = None <=> s.deadline = None
  BY <1>1, NoneAssumption DEF Later, Object
<1> HIDE DEF t
<1>4. /\ t.owner = s.owner /\ t.role = s.role /\ t.state = s.state /\ t.cid = s.cid
      /\ t.ephemeral = s.ephemeral /\ t.lastReceived = s.lastReceived
      /\ t.lastSent = s.lastSent /\ t.outgoingPdus = s.outgoingPdus
      /\ t.attempts = s.attempts /\ t.pending = s.pending
      /\ t.seqA2B = s.seqA2B /\ t.seqB2A = s.seqB2A
      /\ t.aead = s.aead /\ t.keys = s.keys
  BY <1>2 DEF Fields
<1>5. Object(t, p, s.role, Payloads(p))
  BY <1>1, <1>2, <1>3, <1>4 DEF Object
<1>6. Held(t, cid, p, n)
  BY <1>4, <1>5 DEF Held, Queued, Known
<1>7. QED
  BY <1>4, <1>6 DEF t

LEMMA AgedAllValues ==
    ASSUME NEW sessions
    PROVE  /\ DOMAIN AgedAll(sessions) = DOMAIN sessions
           /\ \A k \in DOMAIN sessions : AgedAll(sessions)[k] = Aged(sessions[k])
BY DEF AgedAll

LEMMA AgedForks ==
    ASSUME NEW p, NEW n, NEW forks, NEW template, ForksOK(forks, template, p, n),
           NEW aged, aged.cid = template.cid, aged.ephemeral = template.ephemeral
    PROVE  ForksOK(AgedAll(forks), aged, p, n)
<1> DEFINE new == AgedAll(forks)
<1>1. DOMAIN new = DOMAIN forks /\ \A i \in DOMAIN forks : new[i] = Aged(forks[i])
  BY AgedAllValues
<1> HIDE DEF new
<1>2. ASSUME NEW i \in DOMAIN forks
      PROVE  /\ Held(new[i], aged.cid, p, n) /\ Tries(new[i], aged)
             /\ new[i].lastReceived = forks[i].lastReceived
  <2>1. Held(forks[i], template.cid, p, n) /\ Tries(forks[i], template)
    BY DEF ForksOK
  <2>2. QED
    BY <1>1, <2>1, AgedHeld DEF Tries
<1>3. Distinct(new)
  BY <1>1, <1>2 DEF ForksOK, Distinct
<1>4. ForksOK(new, aged, p, n)
  BY <1>1, <1>2, <1>3 DEF ForksOK
<1>5. QED
  BY <1>4 DEF new

AgedForksOf(d) == [cid \in DOMAIN d.forks |-> AgedAll(d.forks[cid])]
AgedStore(store) == [store EXCEPT !.candidates = AgedCandidates(@)]
Ticked(d) ==
    [d EXCEPT !.responders = AgedAll(@), !.templates = AgedAll(@),
              !.forks = AgedForksOf(d), !.store = AgedStore(@)]

LEMMA AgedStoreFor ==
    ASSUME NEW store, StoreKept(store), NEW cid, CandidatesFor(store, cid) = {}
    PROVE  CandidatesFor(AgedStore(store), cid) = {}
<1> DEFINE new == AgedStore(store)
<1>1. store = [candidates |-> store.candidates, cids |-> store.cids,
               total |-> store.total]
  BY DEF StoreKept, StoreOK
<1>2. new.candidates = {Older(c) : c \in store.candidates}
  BY <1>1 DEF AgedStore, AgedCandidates
<1>3. \A c \in store.candidates : Older(c).cid = c.cid
  BY AgedMember
<1> HIDE DEF new
<1>4. CandidatesFor(new, cid) = {}
  BY <1>2, <1>3 DEF CandidatesFor
<1>5. QED
  BY <1>4 DEF new

LEMMA TickedShape ==
    ASSUME NEW p \in Party, NEW n, NEW d, Shape(d, p, n)
    PROVE  Shape(Ticked(d), p, n)
<1> DEFINE responders == AgedAll(d.responders)
           templates == AgedAll(d.templates)
           forks == AgedForksOf(d)
           store == AgedStore(d.store)
           e == Ticked(d)
<1>1. /\ DOMAIN d = Attributes /\ StoreKept(d.store)
      /\ RespondersOK(d.responders, p, n) /\ TemplatesOK(d.templates, p, n)
      /\ DOMAIN d.templates = DOMAIN d.forks
  BY DEF Shape, Sound
<1>2. /\ DOMAIN responders = DOMAIN d.responders
      /\ \A k \in DOMAIN responders : responders[k] = Aged(d.responders[k])
  BY AgedAllValues
<1>3. /\ DOMAIN templates = DOMAIN d.templates
      /\ \A k \in DOMAIN templates : templates[k] = Aged(d.templates[k])
  BY AgedAllValues
<1>4. /\ DOMAIN forks = DOMAIN d.forks
      /\ \A k \in DOMAIN forks : forks[k] = AgedAll(d.forks[k])
  BY DEF AgedForksOf
<1>5. e = [d EXCEPT !.responders = responders, !.templates = templates,
                    !.forks = forks, !.store = store]
  BY DEF Ticked
<1>6. StoreKept(store)
  BY <1>1, AgedKept DEF AgedStore
<1>7. \A k : CandidatesFor(d.store, k) = {} => CandidatesFor(store, k) = {}
  BY <1>1, AgedStoreFor
<1> HIDE DEF responders, templates, forks, store, e
<1>8. /\ e.owner = d.owner /\ e.established = d.established
      /\ e.responders = responders /\ e.templates = templates /\ e.forks = forks
      /\ e.store = store /\ e.outgoing = d.outgoing /\ DOMAIN e = Attributes
  BY <1>1, <1>5 DEF Attributes
<1>9. RespondersOK(responders, p, n)
  <2>1. ASSUME NEW k \in DOMAIN responders
        PROVE  /\ Held(responders[k], k, p, n) /\ responders[k].role = RESPONDER
               /\ responders[k].state \in {INITIAL, EXPECT_SESSION_COMPLETION_REQUEST}
    <3>1. /\ Held(d.responders[k], k, p, n) /\ d.responders[k].role = RESPONDER
          /\ d.responders[k].state \in {INITIAL, EXPECT_SESSION_COMPLETION_REQUEST}
      BY <1>1, <1>2, <2>1 DEF RespondersOK
    <3>2. responders[k] = Aged(d.responders[k])
      BY <1>2, <2>1
    <3>3. QED
      BY <3>1, <3>2, AgedHeld
  <2>2. QED
    BY <2>1 DEF RespondersOK
<1>10. TemplatesOK(templates, p, n) /\ DOMAIN templates = DOMAIN forks
  <2>1. ASSUME NEW k \in DOMAIN templates
        PROVE  Held(templates[k], k, p, n) /\ CanFork(templates[k])
    <3>1. Held(d.templates[k], k, p, n) /\ CanFork(d.templates[k])
      BY <1>1, <1>3, <2>1 DEF TemplatesOK
    <3>2. templates[k] = Aged(d.templates[k])
      BY <1>3, <2>1
    <3>3. QED
      BY <3>1, <3>2, AgedHeld DEF CanFork
  <2>2. QED
    BY <1>1, <1>3, <1>4, <2>1 DEF TemplatesOK
<1>11. ASSUME NEW k \in DOMAIN forks PROVE ForksOK(forks[k], templates[k], p, n)
  <2>1. Held(d.templates[k], k, p, n) /\ ForksOK(d.forks[k], d.templates[k], p, n)
    BY <1>1, <1>4 DEF Shape, TemplatesOK
  <2>2. templates[k] = Aged(d.templates[k]) /\ forks[k] = AgedAll(d.forks[k])
    BY <1>3, <1>4, <1>10
  <2>3. QED
    BY <2>1, <2>2, AgedHeld, AgedForks
<1>12. Pending(e) = Pending(d)
  BY <1>2, <1>4, <1>8 DEF Pending
<1>13. Promoted(DOMAIN e.established, Pending(e), e.store)
  BY <1>7, <1>8, <1>12 DEF Promoted, Shape
<1>14. Sound(e) /\ Asked(e.outgoing, p, n) /\ EstablishedOK(e.established, p, n)
       /\ e.owner = p
  BY <1>6, <1>8 DEF Sound, Shape
<1>15. Shape(e, p, n)
  BY <1>8, <1>9, <1>10, <1>11, <1>13, <1>14 DEF Shape
<1>16. QED
  BY <1>15 DEF e

-----------------------------------------------------------------------------
(* The invariant: each Dispatcher has the shape its party's draws allow, its  *)
(* queues are empty, and the requests on the wire carry their sender's cids.  *)
Structured(p) ==
    /\ Shape(disp[p], p, draws[p])
    /\ disp[p].outgoing = {} /\ disp[p].payloads = <<>>
    /\ Asked(wire[p], p, draws[p])

SInv ==
    /\ disp = [p \in Party |-> disp[p]] /\ wire = [p \in Party |-> wire[p]]
    /\ posted \in [Party -> Nat] /\ \A p \in Party : posted[p] <= MaxPayloads[p]
    /\ draws \in [Party -> Nat] /\ \A p \in Party : draws[p] <= MaxDraws[p]
    /\ \A p \in Party : Structured(p)

(* A call of p's application that sends nothing. *)
LEMMA StepKept ==
    ASSUME SInv, NEW p \in Party, NEW d, Shape(d, p, draws[p]),
           d.outgoing = {}, d.payloads = <<>>,
           disp' = [disp EXCEPT ![p] = d], UNCHANGED <<wire, draws>>,
           posted' \in [Party -> Nat], \A q \in Party : posted'[q] <= MaxPayloads[q]
    PROVE  SInv'
<1>1. ASSUME NEW q \in Party PROVE Structured(q)'
  <2>1. Structured(q) /\ disp'[q] = IF q = p THEN d ELSE disp[q]
    BY DEF SInv
  <2>2. QED
    BY <2>1 DEF Structured
<1>2. disp' = [q \in Party |-> disp'[q]]
  BY DEF SInv
<1>3. QED
  BY <1>1, <1>2 DEF SInv

(* A call that may have drawn and sent. *)
LEMMA DrainKept ==
    ASSUME SInv, NEW p \in Party, NEW d, Drain(p, d), Shape(d, p, draws'[p])
    PROVE  SInv'
<1>1. /\ disp' = [disp EXCEPT ![p] = Emptied(d)]
      /\ wire' = [wire EXCEPT ![p] = @ \cup d.outgoing]
      /\ draws' = [draws EXCEPT ![p] = IF Drew(p, d) THEN @ + 1 ELSE @]
      /\ draws'[p] <= MaxDraws[p] /\ posted' = posted
  BY DEF Drain
<1>2. draws[p] \in Nat /\ draws'[p] \in {draws[p], draws[p] + 1}
  BY <1>1 DEF SInv
<1>3. /\ draws' \in [Party -> Nat]
      /\ \A q \in Party : q # p => draws'[q] = draws[q]
  BY <1>1, <1>2 DEF SInv
<1>4. /\ disp'[p] = Emptied(d) /\ wire'[p] = wire[p] \cup d.outgoing
      /\ \A q \in Party : q # p => disp'[q] = disp[q] /\ wire'[q] = wire[q]
      /\ disp' = [q \in Party |-> disp'[q]] /\ wire' = [q \in Party |-> wire'[q]]
  BY <1>1 DEF SInv
<1>5. Structured(p)'
  <2>1. Asked(wire[p], p, draws[p])
    BY DEF SInv, Structured
  <2>2. Asked(wire[p], p, draws'[p])
    BY <1>2, <2>1, DrawnGrows DEF Asked
  <2>3. Asked(wire'[p], p, draws'[p])
    BY <1>4, <2>2 DEF Asked, Shape
  <2>4. QED
    BY <1>4, <2>3, EmptiedShape DEF Structured
<1>6. ASSUME NEW q \in Party, q # p PROVE Structured(q)'
  BY <1>3, <1>4, <1>6 DEF SInv, Structured
<1>7. \A q \in Party : draws'[q] <= MaxDraws[q] /\ posted'[q] <= MaxPayloads[q]
  BY <1>1, <1>3 DEF SInv
<1>8. QED
  BY <1>1, <1>3, <1>4, <1>5, <1>6, <1>7 DEF SInv

(* The draw counter never falls, so a call that drew nothing is covered. *)
LEMMA DrainSame ==
    ASSUME SInv, NEW p \in Party, NEW d, Drain(p, d), Shape(d, p, draws[p])
    PROVE  SInv'
<1>1. draws' = [draws EXCEPT ![p] = IF Drew(p, d) THEN @ + 1 ELSE @]
  BY DEF Drain
<1>2. draws[p] \in Nat /\ draws'[p] \in {draws[p], draws[p] + 1}
  BY <1>1 DEF SInv
<1>3. Shape(d, p, draws'[p])
  BY <1>2, ShapeGrows
<1>4. QED
  BY <1>3, DrainKept

LEMMA NextStructured == SInv /\ [Next]_vars => SInv'
<1> SUFFICES ASSUME SInv, [Next]_vars PROVE SInv'
  OBVIOUS
<1>0. \A p \in Party : Structured(p) /\ Shape(disp[p], p, draws[p]) /\ draws[p] \in Nat
  BY DEF SInv, Structured
<1>1. ASSUME NEW p \in Party, StartHandshake(p) PROVE SInv'
  <2> DEFINE d == DispatcherInitiate(disp[p], Peer(p), Fresh(p), 0).s
  <2>1. Drain(p, d)
    BY <1>1 DEF StartHandshake
  <2>2. d = disp[p] \/ (Shape(d, p, draws[p] + 1) /\ Fresh(p) \in DOMAIN d.templates)
    BY <1>0, DispatcherInitiateShape DEF Fresh
  <2> HIDE DEF d
  <2>3. CASE d = disp[p]
    BY <1>0, <2>1, <2>3, DrainSame
  <2>4. CASE Shape(d, p, draws[p] + 1) /\ Fresh(p) \in DOMAIN d.templates
    <3>1. Drew(p, d)
      BY <2>4 DEF Drew
    <3>2. draws'[p] = draws[p] + 1
      BY <2>1, <3>1 DEF Drain, SInv
    <3>3. QED
      BY <2>1, <2>4, <3>2, DrainKept
  <2>5. QED
    BY <2>2, <2>3, <2>4
<1>2. ASSUME NEW p \in Party, NEW pdu \in Arrivals(p), Deliver(p, pdu)
      PROVE  SInv'
  <2> DEFINE d == DispatcherPostPdu(disp[p], pdu, Fresh(p), 0).s
  <2>1. Drain(p, d)
    BY <1>2 DEF Deliver
  <2>2. ASSUME pdu # Malformed, pdu.type = "session_init_request"
        PROVE  pdu.cid \in Theirs(p)
    <3>1. Asked(wire[Peer(p)], Peer(p), draws[Peer(p)])
          /\ draws[Peer(p)] \in Nat
      BY <1>0, PeerIsOther DEF Structured
    <3>2. pdu.cid \in Drawn(Peer(p), draws[Peer(p)])
      BY <1>2, <2>2, <3>1 DEF Arrivals, Asked
    <3>3. QED
      BY <3>1, <3>2 DEF Drawn, Theirs
  <2>3. Shape(d, p, draws[p])
    BY <1>0, <2>2, DispatcherPostPduShape
  <2>4. QED
    BY <2>1, <2>3, DrainSame
<1>3. ASSUME NEW p \in Party, Crank(p) PROVE SInv'
  <2>1. Shape(DispatcherUpdate(disp[p], 0), p, draws[p])
    BY <1>0, DispatcherUpdateShape
  <2>2. QED
    BY <1>3, <2>1, DrainSame DEF Crank
<1>4. ASSUME NEW p \in Party, NEW cid \in CanPost(disp[p]), Post(p, cid)
      PROVE  SInv'
  <2> DEFINE payload == <<p, posted[p] + 1>>
             d == DispatcherPostPayload(disp[p], cid, payload)
  <2>1. /\ disp' = [disp EXCEPT ![p] = d] /\ UNCHANGED <<wire, draws>>
        /\ posted[p] < MaxPayloads[p]
        /\ posted' = [posted EXCEPT ![p] = posted[p] + 1]
    BY <1>4 DEF Post
  <2>2. /\ posted' \in [Party -> Nat] /\ payload \in Payloads(p)
        /\ \A q \in Party : posted'[q] <= MaxPayloads[q]
    BY <2>1, PairAssumption DEF SInv, Payloads
  <2>3. Shape(d, p, draws[p])
    BY <1>0, <2>2, DispatcherPostPayloadShape
  <2>4. d.outgoing = {} /\ d.payloads = <<>>
    BY <1>0 DEF DispatcherPostPayload, Structured, Shape, Sound, Attributes
  <2> HIDE DEF d
  <2>5. QED
    BY <2>1, <2>2, <2>3, <2>4, StepKept
<1>5. ASSUME NEW p \in Party, NEW cid \in DOMAIN disp[p].established,
             CloseSession(p, cid)
      PROVE  SInv'
  <2> DEFINE d == Close(disp[p], cid)
  <2>1. disp' = [disp EXCEPT ![p] = d] /\ UNCHANGED <<wire, draws, posted>>
    BY <1>5 DEF CloseSession
  <2>2. Shape(d, p, draws[p])
    BY <1>0, CloseShape
  <2>3. d.outgoing = {} /\ d.payloads = <<>>
    BY <1>0 DEF Close, Structured, Shape, Sound, Attributes
  <2> HIDE DEF d
  <2>4. QED
    BY <2>1, <2>2, <2>3, StepKept DEF SInv
<1>6. ASSUME NEW p \in Party, Tick(p) PROVE SInv'
  <2> DEFINE d == Ticked(disp[p])
  <2>1. disp' = [disp EXCEPT ![p] = d] /\ UNCHANGED <<wire, draws, posted>>
    <3>1. DOMAIN disp[p] = Attributes /\ disp = [q \in Party |-> disp[q]]
      BY <1>0 DEF SInv, Shape, Sound
    <3>2. d = [disp[p] EXCEPT !.responders = AgedAll(@), !.templates = AgedAll(@),
                              !.forks = [cid \in DOMAIN @ |-> AgedAll(@[cid])],
                              !.store.candidates = AgedCandidates(@)]
      BY <3>1 DEF Ticked, AgedForksOf, AgedStore, Attributes
    <3> HIDE DEF d
    <3>3. QED
      BY <1>6, <3>1, <3>2 DEF Tick, AgedCandidates, Older, Attributes
  <2>2. Shape(d, p, draws[p])
    BY <1>0, TickedShape
  <2>3. d.outgoing = {} /\ d.payloads = <<>>
    BY <1>0 DEF Ticked, Structured, Shape, Sound, Attributes
  <2> HIDE DEF d
  <2>4. QED
    BY <2>1, <2>2, <2>3, StepKept DEF SInv
<1>7. ASSUME NEW p \in Party, Restart(p) PROVE SInv'
  <2>1. disp' = [disp EXCEPT ![p] = NewDispatcher(p)] /\ UNCHANGED <<wire, draws, posted>>
    BY <1>7 DEF Restart
  <2>2. /\ Shape(NewDispatcher(p), p, draws[p])
        /\ NewDispatcher(p).outgoing = {} /\ NewDispatcher(p).payloads = <<>>
    BY NewDispatcherShape DEF NewDispatcher
  <2>3. QED
    BY <2>1, <2>2, StepKept DEF SInv
<1>8. CASE UNCHANGED vars
  BY <1>8 DEF vars, SInv, Structured
<1>9. QED
  BY <1>1, <1>2, <1>3, <1>4, <1>5, <1>6, <1>7, <1>8 DEF Next

LEMMA InitStructured == Init => SInv
<1> SUFFICES ASSUME Init PROVE SInv
  OBVIOUS
<1>1. ASSUME NEW p \in Party PROVE Structured(p)
  BY NewDispatcherShape DEF Init, Structured, NewDispatcher, Asked
<1>2. /\ posted \in [Party -> Nat] /\ draws \in [Party -> Nat]
      /\ \A p \in Party : posted[p] <= MaxPayloads[p] /\ draws[p] <= MaxDraws[p]
  BY PairAssumption DEF Init
<1>3. QED
  BY <1>1, <1>2 DEF Init, SInv

(* What the invariant says of one Dispatcher. *)
LEMMA ShapeWellFormed ==
    ASSUME NEW p, NEW n, NEW d, Shape(d, p, n), d.outgoing = {}, d.payloads = <<>>
    PROVE  WellFormed(d)
<1>1. ASSUME NEW cid \in DOMAIN d.established
      PROVE  d.established[cid].cid = cid /\ d.established[cid].state = ESTABLISHED
  BY DEF Shape, EstablishedOK, Held
<1>2. ASSUME NEW cid \in DOMAIN d.responders
      PROVE  /\ d.responders[cid].cid = cid /\ d.responders[cid].role = RESPONDER
             /\ d.responders[cid].state \in {INITIAL, EXPECT_SESSION_COMPLETION_REQUEST}
  BY DEF Shape, RespondersOK, Held
<1>3. ASSUME NEW cid \in DOMAIN d.forks
      PROVE  /\ CanFork(d.templates[cid])
             /\ \A i \in DOMAIN d.forks[cid] :
                  /\ d.forks[cid][i].cid = cid
                  /\ d.forks[cid][i].ephemeral = d.templates[cid].ephemeral
                  /\ d.forks[cid][i].state \in LiveForkState
  <2>1. /\ Held(d.templates[cid], cid, p, n) /\ CanFork(d.templates[cid])
        /\ ForksOK(d.forks[cid], d.templates[cid], p, n)
    BY DEF Shape, TemplatesOK
  <2>2. QED
    BY <2>1 DEF ForksOK, Held, Tries
<1>4. QED
  BY <1>1, <1>2, <1>3 DEF WellFormed, LiveForkState, Shape

(* Every dict of a Dispatcher holds sessions of its own kind under their own  *)
(* cid, whatever arrives, raises or expires.                                  *)
THEOREM TypeCorrect == Spec => []TypeOK
<1>1. SInv => TypeOK
  BY ShapeWellFormed DEF SInv, Structured, TypeOK, Shape
<1>2. QED
  BY InitStructured, NextStructured, <1>1, PTL DEF Spec

(* _promote leaves nothing of the cid behind, and nothing comes back. *)
THEOREM PromotionIsTotal == Spec => []PromotionTotal
<1>1. SInv => PromotionTotal
  <2> SUFFICES ASSUME SInv, NEW p \in Party, NEW cid \in DOMAIN disp[p].established
               PROVE  /\ cid \notin Pending(disp[p])
                      /\ CandidatesFor(disp[p].store, cid) = {}
    BY DEF PromotionTotal, Pending
  <2>1. Shape(disp[p], p, draws[p])
    BY DEF SInv, Structured
  <2>2. QED
    BY <2>1 DEF Shape, Promoted
<1>2. QED
  BY InitStructured, NextStructured, <1>1, PTL DEF Spec

(* _route_session_init_response finds the fork that tried a response before it *)
(* makes another.                                                              *)
THEOREM ForksAreDistinct == Spec => []ForksDistinct
<1>1. SInv => ForksDistinct
  <2> SUFFICES ASSUME SInv, NEW p \in Party, NEW cid \in DOMAIN disp[p].forks,
                      NEW i \in DOMAIN disp[p].forks[cid],
                      NEW j \in DOMAIN disp[p].forks[cid],
                      i < j, disp[p].forks[cid][i].lastReceived # None
               PROVE  disp[p].forks[cid][i].lastReceived
                        # disp[p].forks[cid][j].lastReceived
    BY DEF ForksDistinct
  <2>1. ForksOK(disp[p].forks[cid], disp[p].templates[cid], p, draws[p])
    BY DEF SInv, Structured, Shape
  <2>2. i # j
    BY <2>1 DEF ForksOK
  <2>3. QED
    BY <2>1, <2>2 DEF ForksOK, Distinct
<1>2. QED
  BY InitStructured, NextStructured, <1>1, PTL DEF Spec

LEMMA EmptiedBacked ==
    ASSUME NEW p, NEW n, NEW d, Shape(d, p, n), Backed(d)
    PROVE  Backed(Emptied(d))
BY EmptiedShape DEF Backed

LEMMA CrankBacks ==
    ASSUME SInv, NEW p \in Party, Crank(p)
    PROVE  Backed(disp'[p])
<1> DEFINE after == DispatcherUpdate(disp[p], 0)
<1>1. Shape(after, p, draws[p]) /\ Backed(after)
  BY DispatcherUpdateShape DEF SInv, Structured
<1>2. disp'[p] = Emptied(after)
  BY DEF Crank, Drain, SInv
<1> HIDE DEF after
<1>3. Backed(Emptied(after))
  BY <1>1, EmptiedBacked
<1>4. QED
  BY <1>2, <1>3

(* After update() every cid with a pending session has some candidate, though  *)
(* two loops of the same call forget candidates after the reconciliation.      *)
THEOREM UpdateBacksPending == Spec => PendingIsBacked
<1>1. SInv /\ [Next]_vars =>
        [\A p \in Party : Crank(p) =>
           \A cid \in Pending(disp'[p]) :
              CandidatesFor(disp'[p].store, cid) # {}]_vars
  BY CrankBacks DEF Backed
<1>2. QED
  BY InitStructured, NextStructured, <1>1, PTL DEF Spec, PendingIsBacked

(* The one store of a Dispatcher, fed by requests and by responses, swept by  *)
(* update() and emptied by promotion, reaping, reconciliation and lost forks  *)
(* (_promote, _reap_responder, _reconcile_expired_candidates,                 *)
(* _process_initiator_forks), counts its candidates exactly and never exceeds *)
(* a cap, for any caps, TTL, configuration and interleaving.                  *)
THEOREM StoreIsSound == Spec => []StoreSound
<1>1. SInv => StoreSound
  BY DEF SInv, Structured, Shape, Sound, StoreKept, StoreSound
<1>2. QED
  BY InitStructured, NextStructured, <1>1, PTL DEF Spec

=============================================================================
