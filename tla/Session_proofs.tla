--------------------------- MODULE Session_proofs ---------------------------
(***************************************************************************)
(* Lemmas about session.py's methods, whatever PDU arrives and whatever    *)
(* the method raises.  Each takes a well-formed Session object to a        *)
(* well-formed one; and none encrypts twice under one key, direction and   *)
(* seq: a party's own keys hold a value it drew itself and used for one    *)
(* derivation only, under these keys it has used the seqs below its own    *)
(* counter, and what it resends is something it has sent before.           *)
(***************************************************************************)
EXTENDS Session, SequenceTheorems, WellFoundedInduction, TLAPS

Fields ==
    {"owner", "role", "state", "cid", "lastReceived", "lastSent", "attempts",
     "deadline", "outgoingPdus", "outgoingPayloads", "pending", "ephemeral",
     "peer", "s1", "s2", "s3", "nB", "aead", "keys", "seqA2B", "seqB2A",
     "plainForHm"}

InitiatorState == {INITIAL, EXPECT_SESSION_INIT_RESPONSE,
                   EXPECT_SESSION_COMPLETION_RESPONSE, ESTABLISHED, DROPPED}
ResponderState == {INITIAL, EXPECT_SESSION_COMPLETION_REQUEST, ESTABLISHED, DROPPED}

KeyedState == {EXPECT_SESSION_COMPLETION_RESPONSE, ESTABLISHED}

(* A Session object of `owner` in `role`; P is what its application may post. *)
Object(s, owner, role, P) ==
    /\ s = [f \in Fields |-> s[f]]
    /\ s.owner = owner
    /\ s.role = role
    /\ s.state \in IF role = INITIATOR THEN InitiatorState ELSE ResponderState
    /\ s.state \in {INITIAL, ESTABLISHED} <=> s.deadline = None
    /\ s.deadline \in Nat \cup {None}
    /\ s.attempts \in 0..MaxRetries
    /\ s.pending \in P \cup {None}
    /\ s.seqA2B \in Nat
    /\ s.seqB2A \in Nat
    /\ s.state = EXPECT_SESSION_COMPLETION_REQUEST => s.aead \in AeadsOf(owner)
    /\ s.state \in KeyedState => s.keys.aead \in AeadsOf(owner)

-----------------------------------------------------------------------------
(* The AEAD a responder chooses, if any, is one of its own. *)
LEMMA ChosenIsAcceptable ==
    ASSUME NEW owner \in Party, NEW requested, ChosenAead(owner, requested) # None
    PROVE  ChosenAead(owner, requested) \in AeadsOf(owner)
<1> DEFINE mine == AcceptableAeads[owner]
           usable == {i \in DOMAIN mine : mine[i] \in requested}
<1>1. usable # {}
  BY DEF ChosenAead
<1>2. mine \in Seq(AeadsOf(owner))
  BY ConfigAssumption
<1>3. usable \subseteq Nat
  BY <1>2
<1>4. \E i \in usable : \A j \in usable : i <= j
  <2> DEFINE R == OpToRel(<, Nat)
  <2>1. IsWellFoundedOn(R, Nat)
    BY NatLessThanWellFounded, Zenon
  <2>2. R = {ss \in Nat \X Nat : ss[1] < ss[2]}
    BY Zenon DEF OpToRel
  <2> HIDE DEF R
  <2>3. PICK i \in usable : \A j \in usable : <<j, i>> \notin R
    BY <2>1, <1>1, <1>3, WFMin
  <2>4. \A j \in usable : ~(j < i)
    BY <2>2, <2>3, <1>3
  <2>5. QED
    BY <2>4, <1>3
<1>5. (CHOOSE i \in usable : \A j \in usable : i <= j) \in usable
  BY <1>4
<1>6. QED
  BY <1>1, <1>5 DEF ChosenAead, AeadsOf

LEMMA NewSessionObject ==
    ASSUME NEW owner \in Party, NEW role \in {INITIATOR, RESPONDER}, NEW P
    PROVE  Object(NewSession(owner, role), owner, role, P)
BY ConfigAssumption
   DEF Object, Fields, NewSession, InitiatorState, ResponderState, KeyedState,
       INITIAL, ESTABLISHED, EXPECT_SESSION_COMPLETION_REQUEST,
       EXPECT_SESSION_COMPLETION_RESPONSE

(* An object that differs from a well-formed one in fields Object says nothing *)
(* of, or in a pending payload its application may post, is well formed.       *)
LEMMA SameObject ==
    ASSUME NEW owner, NEW role, NEW P, NEW s, Object(s, owner, role, P), NEW t,
           DOMAIN t = DOMAIN s, t = [f \in DOMAIN t |-> t[f]],
           t.owner = s.owner, t.role = s.role, t.state = s.state,
           t.deadline = s.deadline, t.attempts = s.attempts,
           t.pending \in P \cup {None}, t.seqA2B = s.seqA2B,
           t.seqB2A = s.seqB2A, t.aead = s.aead, t.keys = s.keys
    PROVE  Object(t, owner, role, P)
<1>1. DOMAIN s = Fields
  BY DEF Object
<1>2. t = [f \in Fields |-> t[f]]
  BY <1>1
<1>3. QED
  BY <1>2 DEF Object

LEMMA PostPayloadObject ==
    ASSUME NEW owner, NEW role, NEW P, NEW s, Object(s, owner, role, P),
           NEW payload \in P
    PROVE  Object(PostPayload(s, payload), owner, role, P)
<1> DEFINE t == [s EXCEPT !.pending = payload]
<1>1. DOMAIN s = Fields
  BY DEF Object
<1>2. /\ DOMAIN t = DOMAIN s /\ t = [f \in DOMAIN t |-> t[f]]
      /\ t.owner = s.owner /\ t.role = s.role /\ t.state = s.state
      /\ t.deadline = s.deadline /\ t.attempts = s.attempts
      /\ t.pending = payload /\ t.seqA2B = s.seqA2B /\ t.seqB2A = s.seqB2A
      /\ t.aead = s.aead /\ t.keys = s.keys
  BY <1>1 DEF Fields
<1> HIDE DEF t
<1>3. Object(t, owner, role, P)
  BY <1>2, SameObject
<1>4. QED
  BY <1>3 DEF t, PostPayload

LEMMA InitiateObject ==
    ASSUME NEW owner, NEW role, NEW P, NEW s, Object(s, owner, role, P),
           NEW peer, NEW fresh, NEW now \in Nat
    PROVE  Object(Initiate(s, peer, fresh, now).s, owner, role, P)
<1> DEFINE t == Initiate(s, peer, fresh, now).s
<1>1. CASE s.role # INITIATOR \/ s.state # INITIAL
  BY <1>1 DEF Initiate, Raise
<1>2. CASE s.role = INITIATOR /\ s.state = INITIAL /\ peer \notin KnownPublic[s.owner]
  <2>1. t = [s EXCEPT !.cid = fresh, !.peer = peer]
    BY <1>2 DEF Initiate, Raise
  <2>2. DOMAIN s = Fields /\ s.pending \in P \cup {None}
    BY DEF Object
  <2> HIDE DEF t
  <2>3. /\ DOMAIN t = DOMAIN s /\ t = [f \in DOMAIN t |-> t[f]]
        /\ t.owner = s.owner /\ t.role = s.role /\ t.state = s.state
        /\ t.deadline = s.deadline /\ t.attempts = s.attempts
        /\ t.pending = s.pending /\ t.seqA2B = s.seqA2B
        /\ t.seqB2A = s.seqB2A /\ t.aead = s.aead /\ t.keys = s.keys
    BY <2>1, <2>2 DEF Fields
  <2>4. Object(t, owner, role, P)
    BY <2>2, <2>3, SameObject
  <2>5. QED
    BY <2>4 DEF t
<1>3. CASE s.role = INITIATOR /\ s.state = INITIAL /\ peer \in KnownPublic[s.owner]
  <2>1. now + RetryInterval \in Nat /\ now + RetryInterval # None
    BY ConfigAssumption, NoneAssumption
  <2>2. /\ t = [f \in Fields |-> t[f]]
        /\ t.owner = s.owner /\ t.role = s.role
        /\ t.state = EXPECT_SESSION_INIT_RESPONSE
        /\ t.attempts = 0 /\ t.deadline = now + RetryInterval
        /\ t.pending = s.pending
        /\ t.seqA2B = s.seqA2B /\ t.seqB2A = s.seqB2A
    <3> DEFINE ct1 == Encapsulate(StaticKey(peer), <<"s1", fresh>>)
               req == SessionInitRequest(fresh, ct1, peer,
                          PublicKey(fresh, KemLevel[s.owner]), s.owner,
                          AeadsOf(s.owner))
               queue == Queue(s, req)
    <3>1. t = [s EXCEPT !.cid = fresh, !.peer = peer,
                        !.ephemeral = fresh, !.s1 = <<"s1", fresh>>,
                        !.lastSent = req, !.attempts = 0,
                        !.deadline = now + RetryInterval,
                        !.state = EXPECT_SESSION_INIT_RESPONSE,
                        !.outgoingPdus = queue]
      BY <1>3 DEF Initiate, Return
    <3> HIDE DEF ct1, req, queue
    <3>2. s = [f \in Fields |-> s[f]]
      BY DEF Object
    <3> HIDE DEF t
    <3>3. DOMAIN s = Fields
      BY <3>2
    <3>4. t = [f \in Fields |-> t[f]]
      BY <3>1, <3>3
    <3>5. QED
      BY <3>1, <3>3, <3>4 DEF Fields
  <2> HIDE DEF t
  <2>3. /\ t.state \in InitiatorState
        /\ t.state \notin KeyedState \cup {INITIAL, ESTABLISHED}
        /\ t.state # EXPECT_SESSION_COMPLETION_REQUEST
    BY <2>2
       DEF InitiatorState, KeyedState, INITIAL, ESTABLISHED, DROPPED,
           EXPECT_SESSION_INIT_RESPONSE, EXPECT_SESSION_COMPLETION_REQUEST,
           EXPECT_SESSION_COMPLETION_RESPONSE
  <2>4. /\ s.owner = owner /\ s.role = role /\ s.pending \in P \cup {None}
        /\ s.seqA2B \in Nat /\ s.seqB2A \in Nat
    BY DEF Object
  <2>5. 0 \in 0..MaxRetries
    BY ConfigAssumption
  <2>6. Object(t, owner, role, P)
    BY <1>3, <2>1, <2>2, <2>3, <2>4, <2>5 DEF Object
  <2>7. QED
    BY <2>6 DEF t
<1>4. QED
  BY <1>1, <1>2, <1>3

LEMMA HandleSessionInitRequestObject ==
    ASSUME NEW owner \in Party, NEW role, NEW P, NEW s, Object(s, owner, role, P),
           role # INITIATOR,
           NEW m, NEW fresh, NEW now \in Nat
    PROVE  Object(HandleSessionInitRequest(s, m, fresh, now).s, owner, role, P)
<1> DEFINE t == HandleSessionInitRequest(s, m, fresh, now).s
<1>1. CASE SessionInitRequestError(s, m) # NoError
  BY <1>1 DEF HandleSessionInitRequest, Raise
<1>2. CASE SessionInitRequestError(s, m) = NoError
  <2>1. ChosenAead(owner, m.aeads) \in AeadsOf(owner)
    BY <1>2, ChosenIsAcceptable
       DEF SessionInitRequestError, Object, NoError, HandshakeFailed, ValueError
  <2>2. now + SessionTTL \in Nat /\ now + SessionTTL # None
    BY ConfigAssumption, NoneAssumption
  <2>3. /\ t = [f \in Fields |-> t[f]]
        /\ t.owner = s.owner /\ t.role = s.role
        /\ t.state = EXPECT_SESSION_COMPLETION_REQUEST
        /\ t.attempts = 0 /\ t.deadline = now + SessionTTL
        /\ t.pending = s.pending /\ t.aead = ChosenAead(owner, m.aeads)
        /\ t.seqA2B = s.seqA2B /\ t.seqB2A = s.seqB2A
    <3> DEFINE s2 == <<"s2", fresh>>
               s3 == <<"s3", fresh>>
               s1 == Decapsulate(StaticSeed(s.owner), m.ct1)
               aead == ChosenAead(s.owner, m.aeads)
               resp == SessionInitResponse(s.cid, PublicKey(fresh, m.pkA.level),
                           Encapsulate(m.pkA, s2),
                           Encapsulate(StaticKey(m.keyIdA), s3), fresh, aead)
               queue == Queue(s, resp)
    <3>1. t = [s EXCEPT !.ephemeral = fresh, !.peer = m.keyIdA,
                        !.s1 = s1, !.s2 = s2, !.s3 = s3, !.nB = fresh,
                        !.aead = aead, !.lastReceived = m, !.lastSent = resp,
                        !.attempts = 0, !.deadline = now + SessionTTL,
                        !.state = EXPECT_SESSION_COMPLETION_REQUEST,
                        !.outgoingPdus = queue]
      BY <1>2 DEF HandleSessionInitRequest, Return
    <3>2. s = [f \in Fields |-> s[f]] /\ aead = ChosenAead(owner, m.aeads)
      BY DEF Object
    <3> HIDE DEF s1, s2, s3, aead, resp, queue
    <3> HIDE DEF t
    <3>3. DOMAIN s = Fields
      BY <3>2
    <3>4. t = [f \in Fields |-> t[f]]
      BY <3>1, <3>3
    <3>5. QED
      BY <3>1, <3>2, <3>3, <3>4 DEF Fields
  <2> HIDE DEF t
  <2>4. /\ t.state \in ResponderState
        /\ t.state \notin KeyedState \cup {INITIAL, ESTABLISHED}
    BY <2>3
       DEF ResponderState, KeyedState, INITIAL, ESTABLISHED, DROPPED,
           EXPECT_SESSION_COMPLETION_REQUEST, EXPECT_SESSION_COMPLETION_RESPONSE
  <2>5. /\ s.owner = owner /\ s.role = role /\ s.pending \in P \cup {None}
        /\ s.seqA2B \in Nat /\ s.seqB2A \in Nat
    BY DEF Object
  <2>6. 0 \in 0..MaxRetries
    BY ConfigAssumption
  <2>7. Object(t, owner, role, P)
    BY <2>1, <2>2, <2>3, <2>4, <2>5, <2>6 DEF Object
  <2>8. QED
    BY <2>7 DEF t
<1>3. QED
  BY <1>1, <1>2

LEMMA HandleSessionCompletionRequestObject ==
    ASSUME NEW owner, NEW role, NEW P, NEW s, Object(s, owner, role, P), NEW m,
           s.state = EXPECT_SESSION_COMPLETION_REQUEST
    PROVE  Object(HandleSessionCompletionRequest(s, m).s, owner, role, P)
<1> DEFINE t == HandleSessionCompletionRequest(s, m).s
<1>1. CASE SessionCompletionRequestError(s, m) # NoError
  BY <1>1 DEF HandleSessionCompletionRequest, Raise
<1>2. CASE SessionCompletionRequestError(s, m) = NoError
  <2>1. /\ t = [f \in Fields |-> t[f]]
        /\ t.owner = s.owner /\ t.role = s.role
        /\ t.state = ESTABLISHED /\ t.attempts = s.attempts /\ t.deadline = None
        /\ t.pending = None /\ t.keys = ResponderKeys(s, m) /\ t.seqA2B = 1
        /\ t.seqB2A \in {s.seqB2A, 1}
    <3> DEFINE keys == ResponderKeys(s, m)
               reply == IF s.pending = None THEN None
                        ELSE Encrypt(keys, "b2a", 0, s.pending, s.cid)
               resp == SessionCompletionResponse(s.cid, Sha256(m.cM.plain), reply)
               handed == HandedOver(s, m.cM.plain)
               queue == Queue(s, resp)
    <3>1. t = [s EXCEPT !.keys = keys, !.seqA2B = 1,
                        !.seqB2A = IF reply = None THEN s.seqB2A ELSE 1,
                        !.pending = None, !.outgoingPayloads = handed,
                        !.lastReceived = m, !.lastSent = resp,
                        !.state = ESTABLISHED, !.deadline = None,
                        !.outgoingPdus = queue]
      BY <1>2 DEF HandleSessionCompletionRequest, Return
    <3>2. s = [f \in Fields |-> s[f]] /\ keys = ResponderKeys(s, m)
      BY DEF Object
    <3> HIDE DEF keys, reply, resp, handed, queue
    <3> HIDE DEF t
    <3>3. DOMAIN s = Fields
      BY <3>2
    <3>4. t = [f \in Fields |-> t[f]]
      BY <3>1, <3>3
    <3>5. QED
      BY <3>1, <3>2, <3>3, <3>4 DEF Fields
  <2>2. ResponderKeys(s, m).aead \in AeadsOf(owner)
    <3>1. s.aead \in AeadsOf(owner)
      BY DEF Object
    <3>2. QED
      BY <3>1 DEF ResponderKeys, SessionKeys
  <2> HIDE DEF t
  <2>3. /\ t.state \in {INITIAL, ESTABLISHED}
        /\ t.state \in InitiatorState \cap ResponderState
        /\ t.state # EXPECT_SESSION_COMPLETION_REQUEST
    BY <2>1 DEF InitiatorState, ResponderState, ESTABLISHED,
                EXPECT_SESSION_COMPLETION_REQUEST
  <2>4. /\ s.owner = owner /\ s.role = role /\ s.attempts \in 0..MaxRetries
        /\ s.seqB2A \in Nat
    BY DEF Object
  <2>5. Object(t, owner, role, P)
    BY <2>1, <2>2, <2>3, <2>4 DEF Object
  <2>6. QED
    BY <2>5 DEF t
<1>3. QED
  BY <1>1, <1>2

LEMMA HandleSessionInitResponseObject ==
    ASSUME NEW owner, NEW role, NEW P, NEW s, Object(s, owner, role, P),
           role = INITIATOR,
           NEW m, NEW fresh, NEW now \in Nat
    PROVE  Object(HandleSessionInitResponse(s, m, fresh, now).s, owner, role, P)
<1> DEFINE t == HandleSessionInitResponse(s, m, fresh, now).s
<1>1. CASE SessionInitResponseError(s, m) # NoError
  BY <1>1 DEF HandleSessionInitResponse, Raise
<1>2. CASE SessionInitResponseError(s, m) = NoError
  <2>1. m.aead \in AeadsOf(owner)
    BY <1>2 DEF SessionInitResponseError, Object, NoError, HandshakeFailed, ValueError
  <2>2. now + RetryInterval \in Nat /\ now + RetryInterval # None
    BY ConfigAssumption, NoneAssumption
  <2>3. /\ t = [f \in Fields |-> t[f]]
        /\ t.owner = s.owner /\ t.role = s.role
        /\ t.state = EXPECT_SESSION_COMPLETION_RESPONSE
        /\ t.attempts = 0 /\ t.deadline = now + RetryInterval
        /\ t.pending = None /\ t.seqA2B = 1 /\ t.seqB2A = s.seqB2A
        /\ t.keys.aead = m.aead
    <3> DEFINE keys == SessionKeys(fresh, m.nB, s.owner, s.s1,
                           Decapsulate(s.ephemeral, m.ct2),
                           Decapsulate(StaticSeed(s.owner), m.ct3),
                           <<"s4", fresh>>, m.aead)
               plain == IF s.pending = None THEN Empty ELSE s.pending
               req == SessionCompletionRequest(s.cid,
                          Encrypt(keys, "a2b", 0, plain, s.cid),
                          Encapsulate(m.pkB, <<"s4", fresh>>), fresh)
               queue == Queue(s, req)
    <3>1. t = [s EXCEPT !.keys = keys, !.nB = m.nB, !.aead = m.aead,
                        !.seqA2B = 1, !.pending = None, !.plainForHm = plain,
                        !.lastReceived = m, !.lastSent = req, !.attempts = 0,
                        !.deadline = now + RetryInterval,
                        !.state = EXPECT_SESSION_COMPLETION_RESPONSE,
                        !.outgoingPdus = queue]
      BY <1>2 DEF HandleSessionInitResponse, Return
    <3>2. keys.aead = m.aead
      BY DEF SessionKeys
    <3> HIDE DEF keys, plain, req, queue
    <3>3. s = [f \in Fields |-> s[f]]
      BY DEF Object
    <3> HIDE DEF t
    <3>4. DOMAIN s = Fields
      BY <3>3
    <3>5. t = [f \in Fields |-> t[f]]
      BY <3>1, <3>4
    <3>6. QED
      BY <3>1, <3>2, <3>4, <3>5 DEF Fields
  <2> HIDE DEF t
  <2>4. /\ t.state \in InitiatorState
        /\ t.state \notin {INITIAL, ESTABLISHED}
        /\ t.state # EXPECT_SESSION_COMPLETION_REQUEST
    BY <2>3
       DEF InitiatorState, INITIAL, ESTABLISHED, EXPECT_SESSION_COMPLETION_REQUEST,
           EXPECT_SESSION_COMPLETION_RESPONSE
  <2>5. s.owner = owner /\ s.role = role /\ s.seqB2A \in Nat
    BY DEF Object
  <2>6. 0 \in 0..MaxRetries
    BY ConfigAssumption
  <2>7. Object(t, owner, role, P)
    BY <2>1, <2>2, <2>3, <2>4, <2>5, <2>6 DEF Object
  <2>8. QED
    BY <2>7 DEF t
<1>3. QED
  BY <1>1, <1>2

LEMMA HandleSessionCompletionResponseObject ==
    ASSUME NEW owner, NEW role, NEW P, NEW s, Object(s, owner, role, P), NEW m,
           s.state = EXPECT_SESSION_COMPLETION_RESPONSE
    PROVE  Object(HandleSessionCompletionResponse(s, m).s, owner, role, P)
<1> DEFINE t == HandleSessionCompletionResponse(s, m).s
<1>1. CASE SessionCompletionResponseError(s, m) # NoError
  BY <1>1 DEF HandleSessionCompletionResponse, Raise
<1>2. CASE SessionCompletionResponseError(s, m) = NoError
  <2>1. /\ t = [f \in Fields |-> t[f]]
        /\ t.owner = s.owner /\ t.role = s.role
        /\ t.state = ESTABLISHED /\ t.attempts = s.attempts /\ t.deadline = None
        /\ t.pending = s.pending /\ t.keys = s.keys /\ t.seqA2B = s.seqA2B
        /\ t.seqB2A \in {s.seqB2A, 1}
    <3> DEFINE payloads == IF m.m = None THEN s.outgoingPayloads
                           ELSE Append(s.outgoingPayloads, m.m.plain)
    <3>1. t = [s EXCEPT !.seqB2A = IF m.m = None THEN s.seqB2A ELSE 1,
                        !.outgoingPayloads = payloads,
                        !.lastReceived = m, !.lastSent = None,
                        !.state = ESTABLISHED, !.deadline = None]
      BY <1>2 DEF HandleSessionCompletionResponse, Return
    <3>2. s = [f \in Fields |-> s[f]]
      BY DEF Object
    <3> HIDE DEF payloads
    <3> HIDE DEF t
    <3>3. DOMAIN s = Fields
      BY <3>2
    <3>4. t = [f \in Fields |-> t[f]]
      BY <3>1, <3>3
    <3>5. QED
      BY <3>1, <3>3, <3>4 DEF Fields
  <2> HIDE DEF t
  <2>2. /\ t.state \in {INITIAL, ESTABLISHED}
        /\ t.state \in InitiatorState \cap ResponderState
        /\ t.state # EXPECT_SESSION_COMPLETION_REQUEST
    BY <2>1 DEF InitiatorState, ResponderState, ESTABLISHED,
                EXPECT_SESSION_COMPLETION_REQUEST
  <2>3. /\ s.owner = owner /\ s.role = role /\ s.attempts \in 0..MaxRetries
        /\ s.pending \in P \cup {None}
        /\ s.seqA2B \in Nat /\ s.seqB2A \in Nat
        /\ s.keys.aead \in AeadsOf(owner)
    BY DEF Object, KeyedState
  <2>4. Object(t, owner, role, P)
    BY <2>1, <2>2, <2>3 DEF Object
  <2>5. QED
    BY <2>4 DEF t
<1>3. QED
  BY <1>1, <1>2

LEMMA HandleEstablishedMessageObject ==
    ASSUME NEW owner, NEW role, NEW P, NEW s, Object(s, owner, role, P), NEW m
    PROVE  Object(HandleEstablishedMessage(s, m).s, owner, role, P)
<1> DEFINE t == HandleEstablishedMessage(s, m).s
<1>1. CASE EstablishedMessageError(s, m) # NoError
  BY <1>1 DEF HandleEstablishedMessage, Raise
<1>2. CASE EstablishedMessageError(s, m) = NoError
  <2>0. /\ t = [s EXCEPT
                   !.seqA2B = IF s.role = INITIATOR THEN @ ELSE @ + 1,
                   !.seqB2A = IF s.role = INITIATOR THEN @ + 1 ELSE @,
                   !.outgoingPayloads = Append(@, m.m.plain)]
        /\ DOMAIN s = Fields
    BY <1>2 DEF HandleEstablishedMessage, Return, Object
  <2>1. /\ t = [f \in Fields |-> t[f]]
        /\ t.owner = s.owner /\ t.role = s.role
        /\ t.state = s.state /\ t.attempts = s.attempts
        /\ t.deadline = s.deadline /\ t.pending = s.pending
        /\ t.keys = s.keys /\ t.aead = s.aead
    <3> HIDE DEF t
    <3>1. QED
      BY <2>0 DEF Fields
  <2>2. /\ t.seqA2B = IF s.role = INITIATOR THEN s.seqA2B ELSE s.seqA2B + 1
        /\ t.seqB2A = IF s.role = INITIATOR THEN s.seqB2A + 1 ELSE s.seqB2A
    <3> HIDE DEF t
    <3>1. QED
      BY <2>0 DEF Fields
  <2> HIDE DEF t
  <2>3. s.seqA2B \in Nat /\ s.seqB2A \in Nat
    BY DEF Object
  <2>4. t.seqA2B \in Nat /\ t.seqB2A \in Nat
    BY <2>2, <2>3
  <2>5. Object(t, owner, role, P)
    BY <2>1, <2>4 DEF Object
  <2>6. QED
    BY <2>5 DEF t
<1>3. QED
  BY <1>1, <1>2

LEMMA SendPendingObject ==
    ASSUME NEW owner, NEW role, NEW P, NEW s, Object(s, owner, role, P)
    PROVE  Object(SendPending(s), owner, role, P)
<1> DEFINE t == SendPending(s)
<1>1. CASE ~(s.state = ESTABLISHED /\ s.pending # None)
  BY <1>1 DEF SendPending
<1>2. CASE s.state = ESTABLISHED /\ s.pending # None
  <2>1. /\ t = [f \in Fields |-> t[f]]
        /\ t.owner = s.owner /\ t.role = s.role
        /\ t.state = s.state /\ t.attempts = s.attempts
        /\ t.deadline = s.deadline /\ t.pending = None
        /\ t.keys = s.keys /\ t.aead = s.aead
        /\ t.seqA2B = IF s.role = INITIATOR THEN s.seqA2B + 1 ELSE s.seqA2B
        /\ t.seqB2A = IF s.role = INITIATOR THEN s.seqB2A ELSE s.seqB2A + 1
    <3> DEFINE seq == IF s.role = INITIATOR THEN s.seqA2B ELSE s.seqB2A
               queue == Queue(s, Message(s.cid, seq,
                          Encrypt(s.keys, IF s.role = INITIATOR THEN "a2b" ELSE "b2a",
                                  seq, s.pending, s.cid)))
    <3>1. t = [s EXCEPT !.pending = None,
                 !.seqA2B = IF s.role = INITIATOR THEN @ + 1 ELSE @,
                 !.seqB2A = IF s.role = INITIATOR THEN @ ELSE @ + 1,
                 !.outgoingPdus = queue]
      BY <1>2 DEF SendPending, SendEstablishedPayload
    <3>2. DOMAIN s = Fields
      BY DEF Object
    <3> HIDE DEF queue
    <3> HIDE DEF t
    <3>3. t = [f \in Fields |-> t[f]]
      BY <3>1, <3>2
    <3>4. QED
      BY <3>1, <3>2, <3>3 DEF Fields
  <2> HIDE DEF t
  <2>2. s.seqA2B \in Nat /\ s.seqB2A \in Nat
    BY DEF Object
  <2>3. t.seqA2B \in Nat /\ t.seqB2A \in Nat
    BY <2>1, <2>2
  <2>4. Object(t, owner, role, P)
    BY <2>1, <2>3 DEF Object
  <2>5. QED
    BY <2>4 DEF t
<1>3. QED
  BY <1>1, <1>2

LEMMA CheckDeadlineObject ==
    ASSUME NEW owner, NEW role, NEW P, NEW s, Object(s, owner, role, P),
           NEW now \in Nat
    PROVE  Object(CheckDeadline(s, now), owner, role, P)
<1> DEFINE t == CheckDeadline(s, now)
<1>1. CASE ~TimedOut(s, now)
  BY <1>1 DEF CheckDeadline
<1>2. CASE TimedOut(s, now) /\ (s.role = RESPONDER \/ s.attempts >= MaxRetries)
  <2>1. t = [s EXCEPT !.state = DROPPED]
    BY <1>2 DEF CheckDeadline, OnTimeout
  <2>2. DOMAIN s = Fields
    BY DEF Object
  <2> HIDE DEF t
  <2>3. t = [f \in Fields |-> t[f]]
    BY <2>1, <2>2
  <2>4. /\ t.owner = s.owner /\ t.role = s.role /\ t.state = DROPPED
        /\ t.attempts = s.attempts /\ t.deadline = s.deadline
        /\ t.pending = s.pending /\ t.seqA2B = s.seqA2B /\ t.seqB2A = s.seqB2A
    BY <2>1, <2>2 DEF Fields
  <2>5. /\ DROPPED \in InitiatorState \cap ResponderState
        /\ DROPPED \notin KeyedState \cup {INITIAL, ESTABLISHED}
        /\ DROPPED # EXPECT_SESSION_COMPLETION_REQUEST
    BY DEF InitiatorState, ResponderState, KeyedState, INITIAL, ESTABLISHED,
           DROPPED, EXPECT_SESSION_INIT_RESPONSE,
           EXPECT_SESSION_COMPLETION_REQUEST, EXPECT_SESSION_COMPLETION_RESPONSE
  <2>6. s.deadline # None
    BY <1>2 DEF TimedOut
  <2>7. Object(t, owner, role, P)
    BY <2>3, <2>4, <2>5, <2>6 DEF Object
  <2>8. QED
    BY <2>7 DEF t
<1>3. CASE TimedOut(s, now) /\ ~(s.role = RESPONDER \/ s.attempts >= MaxRetries)
  <2>1. /\ now + RetryInterval \in Nat /\ now + RetryInterval # None
        /\ s.attempts + 1 \in 0..MaxRetries
    <3>1. MaxRetries \in Nat /\ RetryInterval \in Nat
      BY ConfigAssumption
    <3>2. s.attempts \in 0..MaxRetries /\ ~(s.attempts >= MaxRetries)
      BY <1>3 DEF Object
    <3>3. QED
      BY <3>1, <3>2, NoneAssumption
  <2>2. /\ t = [f \in Fields |-> t[f]]
        /\ t.owner = s.owner /\ t.role = s.role
        /\ t.state = s.state /\ t.attempts = s.attempts + 1
        /\ t.deadline = now + RetryInterval /\ t.pending = s.pending
        /\ t.keys = s.keys /\ t.aead = s.aead
        /\ t.seqA2B = s.seqA2B /\ t.seqB2A = s.seqB2A
    <3> DEFINE queue == IF s.lastSent = None THEN s.outgoingPdus
                        ELSE Queue(s, s.lastSent)
    <3>1. t = [s EXCEPT !.attempts = s.attempts + 1,
                        !.deadline = now + RetryInterval, !.outgoingPdus = queue]
      BY <1>3 DEF CheckDeadline, OnTimeout
    <3>2. DOMAIN s = Fields
      BY DEF Object
    <3> HIDE DEF queue
    <3> HIDE DEF t
    <3>3. t = [f \in Fields |-> t[f]]
      BY <3>1, <3>2
    <3>4. QED
      BY <3>1, <3>2, <3>3 DEF Fields
  <2> HIDE DEF t
  <2>3. Object(t, owner, role, P)
    BY <1>3, <2>1, <2>2 DEF Object, TimedOut
  <2>4. QED
    BY <2>3 DEF t
<1>4. QED
  BY <1>1, <1>2, <1>3

-----------------------------------------------------------------------------
LEMMA ProcessIncomingObject ==
    ASSUME NEW owner \in Party, NEW role, NEW P, NEW s, Object(s, owner, role, P),
           NEW pdu, NEW fresh, NEW now \in Nat
    PROVE  Object(ProcessIncoming(s, pdu, fresh, now).s, owner, role, P)
<1> DEFINE resent == [s EXCEPT !.outgoingPdus = Queue(s, s.lastSent)]
           named == [s EXCEPT !.cid = pdu.cid]
           r == ProcessIncoming(s, pdu, fresh, now)
<1>0. DOMAIN s = Fields /\ s.pending \in P \cup {None}
  BY DEF Object
<1>1. Object(resent, owner, role, P)
  <2> DEFINE queue == Queue(s, s.lastSent)
             t == [s EXCEPT !.outgoingPdus = queue]
  <2> HIDE DEF queue
  <2>0. t = [s EXCEPT !.outgoingPdus = queue]
    OBVIOUS
  <2> HIDE DEF t
  <2>1. DOMAIN t = DOMAIN s /\ t = [f \in DOMAIN t |-> t[f]]
    BY <2>0
  <2>2. /\ t.owner = s.owner /\ t.role = s.role /\ t.state = s.state
        /\ t.deadline = s.deadline /\ t.attempts = s.attempts
        /\ t.pending = s.pending /\ t.seqA2B = s.seqA2B
        /\ t.seqB2A = s.seqB2A /\ t.aead = s.aead /\ t.keys = s.keys
    BY <1>0, <2>0 DEF Fields
  <2>3. Object(t, owner, role, P)
    BY <1>0, <2>1, <2>2, SameObject
  <2>4. QED
    BY <2>3 DEF t, queue
<1>2. Object(named, owner, role, P)
  <2> DEFINE t == [s EXCEPT !.cid = pdu.cid]
  <2>0. t = [s EXCEPT !.cid = pdu.cid]
    OBVIOUS
  <2> HIDE DEF t
  <2>1. DOMAIN t = DOMAIN s /\ t = [f \in DOMAIN t |-> t[f]]
    BY <2>0
  <2>2. /\ t.owner = s.owner /\ t.role = s.role /\ t.state = s.state
        /\ t.deadline = s.deadline /\ t.attempts = s.attempts
        /\ t.pending = s.pending /\ t.seqA2B = s.seqA2B
        /\ t.seqB2A = s.seqB2A /\ t.aead = s.aead /\ t.keys = s.keys
    BY <1>0, <2>0 DEF Fields
  <2>3. Object(t, owner, role, P)
    BY <1>0, <2>1, <2>2, SameObject
  <2>4. QED
    BY <2>3 DEF t
<1>3. CASE r \in {Return(s), Return(resent), Raise(s, UnexpectedPDU)}
  BY <1>1, <1>3 DEF Return, Raise
<1>4. CASE /\ s.state = INITIAL /\ s.role = RESPONDER
           /\ r = HandleSessionInitRequest(named, pdu, fresh, now)
  <2>1. role # INITIATOR
    BY <1>4 DEF Object, INITIATOR, RESPONDER
  <2>2. QED
    BY <1>2, <1>4, <2>1, HandleSessionInitRequestObject
<1>5. CASE /\ s.state = EXPECT_SESSION_INIT_RESPONSE
           /\ r = HandleSessionInitResponse(s, pdu, fresh, now)
  <2>1. role = INITIATOR
    BY <1>5 DEF Object, ResponderState, INITIAL, ESTABLISHED, DROPPED,
                EXPECT_SESSION_INIT_RESPONSE, EXPECT_SESSION_COMPLETION_REQUEST
  <2>2. QED
    BY <1>5, <2>1, HandleSessionInitResponseObject
<1>6. CASE /\ s.state = EXPECT_SESSION_COMPLETION_REQUEST
           /\ r = HandleSessionCompletionRequest(s, pdu)
  BY <1>6, HandleSessionCompletionRequestObject
<1>7. CASE /\ s.state = EXPECT_SESSION_COMPLETION_RESPONSE
           /\ r = HandleSessionCompletionResponse(s, pdu)
  BY <1>7, HandleSessionCompletionResponseObject
<1>8. CASE s.state = ESTABLISHED /\ r = HandleEstablishedMessage(s, pdu)
  BY <1>8, HandleEstablishedMessageObject
<1>9. QED
  BY <1>3, <1>4, <1>5, <1>6, <1>7, <1>8
     DEF ProcessIncoming, EXPECT_SESSION_INIT_RESPONSE,
         EXPECT_SESSION_COMPLETION_REQUEST, EXPECT_SESSION_COMPLETION_RESPONSE,
         ESTABLISHED

(* update() keeps a Session object well formed, whatever PDU is queued. *)
LEMMA UpdateObject ==
    ASSUME NEW owner \in Party, NEW role, NEW P, NEW s, Object(s, owner, role, P),
           NEW pdu, NEW fresh, NEW now \in Nat
    PROVE  Object(Update(s, pdu, fresh, now).s, owner, role, P)
<1> DEFINE r == IF pdu = None THEN Return(s) ELSE ProcessIncoming(s, pdu, fresh, now)
<1>1. Object(r.s, owner, role, P)
  BY ProcessIncomingObject DEF Return
<1>2. Object(CheckDeadline(SendPending(r.s), now), owner, role, P)
  BY <1>1, SendPendingObject, CheckDeadlineObject
<1>3. Object(AfterIncoming(r, now).s, owner, role, P)
  BY <1>1, <1>2 DEF AfterIncoming, Return
<1>4. QED
  BY <1>3 DEF Update, Return

LEMMA DrainedObject ==
    ASSUME NEW owner, NEW role, NEW P, NEW s, Object(s, owner, role, P)
    PROVE  /\ Object(Drained(s), owner, role, P)
           /\ Drained(s).outgoingPdus = <<>>
           /\ Drained(s).outgoingPayloads = <<>>
<1> DEFINE t == Drained(s)
<1>1. DOMAIN s = Fields /\ s.pending \in P \cup {None}
  BY DEF Object
<1>2. /\ DOMAIN t = DOMAIN s /\ t = [f \in DOMAIN t |-> t[f]]
      /\ t.owner = s.owner /\ t.role = s.role /\ t.state = s.state
      /\ t.deadline = s.deadline /\ t.attempts = s.attempts
      /\ t.pending = s.pending /\ t.seqA2B = s.seqA2B /\ t.seqB2A = s.seqB2A
      /\ t.aead = s.aead /\ t.keys = s.keys
      /\ t.outgoingPdus = <<>> /\ t.outgoingPayloads = <<>>
  BY <1>1 DEF Drained, Fields
<1> HIDE DEF t
<1>3. Object(t, owner, role, P)
  BY <1>1, <1>2, SameObject
<1>4. QED
  BY <1>2, <1>3 DEF t

-----------------------------------------------------------------------------
(* Nonces. *)

(* The ciphertexts in a set of PDUs. *)
CiphertextsAmong(X) == UNION {CiphertextsIn(pdu) : pdu \in X}

(* A party's own direction, its counter there, and its own part of the keys. *)
OwnDir(role) == IF role = INITIATOR THEN "a2b" ELSE "b2a"
OwnSeq(s) == IF s.role = INITIATOR THEN s.seqA2B ELSE s.seqB2A
OwnDraw(role, keys) == IF role = INITIATOR THEN keys.nA ELSE keys.nB

Drawn(owner, n) == {<<owner, k>> : k \in 1..n}

(* Everything `s` has sent (W) or has queued. *)
Out(s, W) == W \cup Range(s.outgoingPdus)

(* No two of the ciphertexts C share keys and seq, all are in the owner's   *)
(* direction, and all under keys from its first n draws.                    *)
OwnCiphertexts(C, owner, role, n) ==
    /\ \A c \in C : /\ c.dir = OwnDir(role)
                    /\ c.seq \in Nat
                    /\ OwnDraw(role, c.keys) \in Drawn(owner, n)
    /\ \A c, d \in C : c.keys = d.keys /\ c.seq = d.seq => c = d

(* What the object remembers, against the ciphertexts C already made. *)
Ahead(s, C, owner, role, n) ==
    /\ s.state \in KeyedState =>
        /\ OwnDraw(role, s.keys) \in Drawn(owner, n)
        /\ \A c \in C : c.keys = s.keys => c.seq < OwnSeq(s)
    /\ s.state = EXPECT_SESSION_COMPLETION_REQUEST =>
        /\ s.nB \in Drawn(owner, n)
        /\ \A c \in C : c.keys.nB # s.nB

Nonces(s, W, owner, role, n) ==
    /\ s.outgoingPdus \in Seq(Range(s.outgoingPdus))
    /\ s.lastSent \in Out(s, W) \cup {None}
    /\ OwnCiphertexts(CiphertextsAmong(Out(s, W)), owner, role, n)
    /\ Ahead(s, CiphertextsAmong(Out(s, W)), owner, role, n)

-----------------------------------------------------------------------------
LEMMA QueueAdds ==
    ASSUME NEW s, NEW pdu, s.outgoingPdus \in Seq(Range(s.outgoingPdus))
    PROVE  /\ Queue(s, pdu) \in Seq(Range(Queue(s, pdu)))
           /\ Range(Queue(s, pdu)) = Range(s.outgoingPdus) \cup {pdu}
<1> DEFINE q == s.outgoingPdus
           S == Range(q) \cup {pdu}
<1>1. q \in Seq(S) /\ pdu \in S
  BY SeqMonotonic
<1>2. /\ Append(q, pdu) \in Seq(S)
      /\ Len(Append(q, pdu)) = Len(q) + 1
      /\ \A i \in 1..Len(q) : Append(q, pdu)[i] = q[i]
      /\ Append(q, pdu)[Len(q) + 1] = pdu
  BY <1>1, AppendProperties
<1>3. Append(q, pdu) \in Seq(Range(Append(q, pdu)))
  BY <1>2, SeqOfRange
<1>4. Range(Append(q, pdu)) = {Append(q, pdu)[i] : i \in 1..(Len(q) + 1)}
  BY <1>2, RangeEquality
<1>5. Range(q) = {q[i] : i \in 1..Len(q)}
  BY <1>1, RangeEquality
<1>6. Len(q) \in Nat
  BY <1>1
<1>7. Range(Append(q, pdu)) \subseteq S
  BY <1>2, RangeOfSeq
<1>8. S \subseteq Range(Append(q, pdu))
  <2> DEFINE a == Append(q, pdu)
  <2>1. a[Len(q) + 1] \in Range(a)
    BY <1>4, <1>6
  <2>2. ASSUME NEW i \in 1..Len(q) PROVE q[i] \in Range(a)
    BY <1>2, <1>4, <1>6
  <2>3. QED
    BY <1>2, <1>5, <2>1, <2>2
<1>9. QED
  BY <1>3, <1>7, <1>8 DEF Queue

LEMMA AmongAdds ==
    ASSUME NEW X, NEW pdu
    PROVE  CiphertextsAmong(X \cup {pdu}) = CiphertextsAmong(X) \cup CiphertextsIn(pdu)
BY DEF CiphertextsAmong

LEMMA DrawnGrows ==
    ASSUME NEW owner, NEW n \in Nat
    PROVE  /\ Drawn(owner, n) \subseteq Drawn(owner, n + 1)
           /\ <<owner, n + 1>> \in Drawn(owner, n + 1)
           /\ <<owner, n + 1>> \notin Drawn(owner, n)
BY DEF Drawn

(* What holds after n draws holds after one more. *)
LEMMA NoncesGrow ==
    ASSUME NEW s, NEW W, NEW owner, NEW role, NEW n \in Nat,
           Nonces(s, W, owner, role, n)
    PROVE  Nonces(s, W, owner, role, n + 1)
BY DrawnGrows DEF Nonces, OwnCiphertexts, Ahead

(* A step that sends nothing new and keeps what the state remembers. *)
LEMMA NoncesKept ==
    ASSUME NEW s, NEW t, NEW W, NEW owner, NEW role, NEW n \in Nat,
           Nonces(s, W, owner, role, n),
           Out(t, W) = Out(s, W),
           t.outgoingPdus \in Seq(Range(t.outgoingPdus)),
           t.lastSent \in {s.lastSent, None},
           t.state = s.state \/ (t.state \in KeyedState /\ s.state \in KeyedState),
           t.keys = s.keys, t.nB = s.nB, OwnSeq(t) = OwnSeq(s)
    PROVE  Nonces(t, W, owner, role, n)
BY DEF Nonces, Ahead, KeyedState, EXPECT_SESSION_COMPLETION_REQUEST,
       EXPECT_SESSION_COMPLETION_RESPONSE, ESTABLISHED

(* A step that sends nothing new into a state that encrypts nothing. *)
LEMMA NoncesIdle ==
    ASSUME NEW s, NEW t, NEW W, NEW owner, NEW role, NEW n \in Nat,
           Nonces(s, W, owner, role, n),
           CiphertextsAmong(Out(t, W)) = CiphertextsAmong(Out(s, W)),
           t.outgoingPdus \in Seq(Range(t.outgoingPdus)),
           t.lastSent \in Out(t, W) \cup {None},
           t.state \notin KeyedState \cup {EXPECT_SESSION_COMPLETION_REQUEST}
    PROVE  Nonces(t, W, owner, role, n)
BY DEF Nonces, Ahead

(* Resending what was sent last adds nothing. *)
LEMMA NoncesResend ==
    ASSUME NEW s, NEW t, NEW W, NEW owner, NEW role, NEW n \in Nat,
           Nonces(s, W, owner, role, n),
           s.lastSent # None,
           t.outgoingPdus = Queue(s, s.lastSent),
           t.lastSent = s.lastSent, t.state = s.state, t.keys = s.keys,
           t.nB = s.nB, OwnSeq(t) = OwnSeq(s)
    PROVE  Nonces(t, W, owner, role, n)
<1>1. s.outgoingPdus \in Seq(Range(s.outgoingPdus))
  BY DEF Nonces
<1>2. /\ t.outgoingPdus \in Seq(Range(t.outgoingPdus))
      /\ Out(t, W) = Out(s, W) \cup {s.lastSent}
  BY <1>1, QueueAdds DEF Out
<1>3. Out(t, W) = Out(s, W)
  BY <1>2 DEF Nonces
<1>4. QED
  BY <1>2, <1>3, NoncesKept

-----------------------------------------------------------------------------
(* A responder draws its n_b: no ciphertext holds it yet. *)
LEMMA HandleSessionInitRequestNonces ==
    ASSUME NEW owner \in Party, NEW role, NEW P, NEW s, Object(s, owner, role, P),
           NEW W, NEW n \in Nat, Nonces(s, W, owner, role, n), role # INITIATOR,
           NEW m, NEW now \in Nat,
           SessionInitRequestError(s, m) = NoError
    PROVE  LET t == HandleSessionInitRequest(s, m, <<owner, n + 1>>, now).s
           IN /\ Nonces(t, W, owner, role, n + 1)
              /\ t.state = EXPECT_SESSION_COMPLETION_REQUEST
              /\ t.deadline = now + SessionTTL
<1> DEFINE fresh == <<owner, n + 1>>
           t == HandleSessionInitRequest(s, m, fresh, now).s
           aead == ChosenAead(s.owner, m.aeads)
           resp == SessionInitResponse(s.cid, PublicKey(fresh, m.pkA.level),
                       Encapsulate(m.pkA, <<"s2", fresh>>),
                       Encapsulate(StaticKey(m.keyIdA), <<"s3", fresh>>),
                       fresh, aead)
           s1 == Decapsulate(StaticSeed(s.owner), m.ct1)
           queue == Queue(s, resp)
<1>1. t = [s EXCEPT !.ephemeral = fresh, !.peer = m.keyIdA, !.s1 = s1,
                    !.s2 = <<"s2", fresh>>, !.s3 = <<"s3", fresh>>, !.nB = fresh,
                    !.aead = aead, !.lastReceived = m, !.lastSent = resp,
                    !.attempts = 0, !.deadline = now + SessionTTL,
                    !.state = EXPECT_SESSION_COMPLETION_REQUEST,
                    !.outgoingPdus = queue]
  BY DEF HandleSessionInitRequest, Return
<1>2. CiphertextsIn(resp) = {}
  BY DEF CiphertextsIn, SessionInitResponse
<1>3. s = [f \in Fields |-> s[f]]
  BY DEF Object
<1> HIDE DEF t, aead, resp, s1, fresh
<1>4. /\ t.nB = fresh /\ t.lastSent = resp /\ t.outgoingPdus = queue
      /\ t.state = EXPECT_SESSION_COMPLETION_REQUEST
      /\ t.deadline = now + SessionTTL
  BY <1>1, <1>3 DEF Fields
<1> HIDE DEF queue
<1>5. /\ queue \in Seq(Range(queue))
      /\ Range(queue) = Range(s.outgoingPdus) \cup {resp}
  BY QueueAdds DEF Nonces, queue
<1>6. Out(t, W) = Out(s, W) \cup {resp}
  BY <1>4, <1>5 DEF Out
<1>7. CiphertextsAmong(Out(t, W)) = CiphertextsAmong(Out(s, W))
  BY <1>2, <1>6, AmongAdds
<1>8. Nonces(s, W, owner, role, n + 1)
  BY NoncesGrow
<1>9. Ahead(t, CiphertextsAmong(Out(s, W)), owner, role, n + 1)
  <2>1. fresh \in Drawn(owner, n + 1) /\ fresh \notin Drawn(owner, n)
    BY DrawnGrows DEF fresh
  <2>2. \A c \in CiphertextsAmong(Out(s, W)) : c.keys.nB # fresh
    BY <2>1 DEF Nonces, OwnCiphertexts, OwnDraw
  <2>3. QED
    BY <1>4, <2>1, <2>2
       DEF Ahead, KeyedState, EXPECT_SESSION_COMPLETION_REQUEST,
           EXPECT_SESSION_COMPLETION_RESPONSE, ESTABLISHED
<1>10. Nonces(t, W, owner, role, n + 1)
  BY <1>4, <1>5, <1>6, <1>7, <1>8, <1>9 DEF Nonces
<1>11. QED
  BY <1>4, <1>10 DEF t, fresh

(* An initiator draws its n_a and encrypts c_m, seq 0, under the new keys. *)
LEMMA HandleSessionInitResponseNonces ==
    ASSUME NEW owner \in Party, NEW role, NEW P, NEW s, Object(s, owner, role, P),
           NEW W, NEW n \in Nat, Nonces(s, W, owner, role, n), role = INITIATOR,
           NEW m, NEW now \in Nat,
           SessionInitResponseError(s, m) = NoError
    PROVE  LET t == HandleSessionInitResponse(s, m, <<owner, n + 1>>, now).s
           IN /\ Nonces(t, W, owner, role, n + 1)
              /\ t.state = EXPECT_SESSION_COMPLETION_RESPONSE
              /\ t.deadline = now + RetryInterval
<1> DEFINE fresh == <<owner, n + 1>>
           t == HandleSessionInitResponse(s, m, fresh, now).s
           keys == SessionKeys(fresh, m.nB, s.owner, s.s1,
                       Decapsulate(s.ephemeral, m.ct2),
                       Decapsulate(StaticSeed(s.owner), m.ct3),
                       <<"s4", fresh>>, m.aead)
           plain == IF s.pending = None THEN Empty ELSE s.pending
           cM == Encrypt(keys, "a2b", 0, plain, s.cid)
           req == SessionCompletionRequest(s.cid, cM,
                      Encapsulate(m.pkB, <<"s4", fresh>>), fresh)
           queue == Queue(s, req)
           C == CiphertextsAmong(Out(s, W))
<1>1. t = [s EXCEPT !.keys = keys, !.nB = m.nB, !.aead = m.aead,
                    !.seqA2B = 1, !.pending = None, !.plainForHm = plain,
                    !.lastReceived = m, !.lastSent = req, !.attempts = 0,
                    !.deadline = now + RetryInterval,
                    !.state = EXPECT_SESSION_COMPLETION_RESPONSE,
                    !.outgoingPdus = queue]
  BY DEF HandleSessionInitResponse, Return
<1>2. CiphertextsIn(req) = {cM}
  BY DEF CiphertextsIn, SessionCompletionRequest
<1>3. keys.nA = fresh
  BY DEF SessionKeys
<1>4. cM.keys = keys /\ cM.seq = 0 /\ cM.dir = "a2b"
  BY DEF Encrypt
<1>5. s = [f \in Fields |-> s[f]] /\ s.role = INITIATOR
  BY DEF Object
<1> HIDE DEF t, keys, plain, cM, req, fresh
<1>6. /\ t.keys = keys /\ t.seqA2B = 1 /\ t.role = INITIATOR
      /\ t.lastSent = req /\ t.outgoingPdus = queue
      /\ t.state = EXPECT_SESSION_COMPLETION_RESPONSE
      /\ t.deadline = now + RetryInterval
  BY <1>1, <1>5 DEF Fields
<1> HIDE DEF queue
<1>7. /\ queue \in Seq(Range(queue))
      /\ Range(queue) = Range(s.outgoingPdus) \cup {req}
  BY QueueAdds DEF Nonces, queue
<1>8. Out(t, W) = Out(s, W) \cup {req}
  BY <1>6, <1>7 DEF Out
<1>9. CiphertextsAmong(Out(t, W)) = C \cup {cM}
  BY <1>2, <1>8, AmongAdds
<1>10. fresh \in Drawn(owner, n + 1) /\ fresh \notin Drawn(owner, n)
  BY DrawnGrows DEF fresh
<1>11. \A c \in C : c.keys.nA # fresh
  BY <1>10 DEF Nonces, OwnCiphertexts, OwnDraw
<1>12. OwnCiphertexts(C, owner, role, n + 1)
  BY NoncesGrow DEF Nonces
<1> HIDE DEF C
<1>13. OwnCiphertexts(C \cup {cM}, owner, role, n + 1)
  <2>1. \A c \in C : c.keys # cM.keys
    BY <1>3, <1>4, <1>11
  <2>2. /\ cM.dir = OwnDir(role) /\ cM.seq \in Nat
        /\ OwnDraw(role, cM.keys) \in Drawn(owner, n + 1)
    BY <1>3, <1>4, <1>10 DEF OwnDir, OwnDraw
  <2>3. QED
    BY <1>12, <2>1, <2>2 DEF OwnCiphertexts
<1>14. Ahead(t, C \cup {cM}, owner, role, n + 1)
  <2>1. \A c \in C : c.keys # keys
    BY <1>3, <1>11
  <2>2. OwnSeq(t) = 1 /\ OwnDraw(role, t.keys) = fresh
    BY <1>3, <1>6 DEF OwnSeq, OwnDraw
  <2>3. QED
    BY <1>4, <1>6, <1>10, <2>1, <2>2
       DEF Ahead, KeyedState, EXPECT_SESSION_COMPLETION_REQUEST,
           EXPECT_SESSION_COMPLETION_RESPONSE, ESTABLISHED
<1>15. Nonces(t, W, owner, role, n + 1)
  BY <1>6, <1>7, <1>8, <1>9, <1>13, <1>14 DEF Nonces
<1>16. QED
  BY <1>6, <1>15 DEF t, fresh

(* The reply that completes a handshake is the first ciphertext under the *)
(* responder's new keys: they hold the n_b that no ciphertext held.       *)
LEMMA HandleSessionCompletionRequestNonces ==
    ASSUME NEW owner, NEW role, NEW P, NEW s, Object(s, owner, role, P),
           NEW W, NEW n \in Nat, Nonces(s, W, owner, role, n), NEW m,
           role # INITIATOR, s.state = EXPECT_SESSION_COMPLETION_REQUEST,
           SessionCompletionRequestError(s, m) = NoError
    PROVE  Nonces(HandleSessionCompletionRequest(s, m).s, W, owner, role, n)
<1> DEFINE t == HandleSessionCompletionRequest(s, m).s
           keys == ResponderKeys(s, m)
           made == Encrypt(keys, "b2a", 0, s.pending, s.cid)
           reply == IF s.pending = None THEN None ELSE made
           resp == SessionCompletionResponse(s.cid, Sha256(m.cM.plain), reply)
           handed == HandedOver(s, m.cM.plain)
           seqB2A == IF reply = None THEN s.seqB2A ELSE 1
           queue == Queue(s, resp)
           C == CiphertextsAmong(Out(s, W))
<1>1. t = [s EXCEPT !.keys = keys, !.seqA2B = 1, !.seqB2A = seqB2A,
                    !.pending = None, !.outgoingPayloads = handed,
                    !.lastReceived = m, !.lastSent = resp,
                    !.state = ESTABLISHED, !.deadline = None,
                    !.outgoingPdus = queue]
  BY DEF HandleSessionCompletionRequest, Return
<1>2. CiphertextsIn(resp) = {reply} \ {None}
  BY DEF CiphertextsIn, SessionCompletionResponse
<1>3. keys.nB = s.nB
  BY DEF ResponderKeys, SessionKeys
<1>4. made.keys = keys /\ made.seq = 0 /\ made.dir = "b2a"
  BY DEF Encrypt
<1>5. reply \in {None, made}
  OBVIOUS
<1>6. /\ s = [f \in Fields |-> s[f]]
      /\ s.role # INITIATOR
      /\ s.seqB2A \in Nat
  BY DEF Object
<1> HIDE DEF t, keys, made, reply, resp, handed
<1>7. /\ t.keys = keys /\ t.seqB2A = seqB2A /\ t.role # INITIATOR
      /\ t.lastSent = resp /\ t.outgoingPdus = queue
      /\ t.state = ESTABLISHED
  BY <1>1, <1>6 DEF Fields
<1> HIDE DEF queue
<1>8. /\ queue \in Seq(Range(queue))
      /\ Range(queue) = Range(s.outgoingPdus) \cup {resp}
  BY QueueAdds DEF Nonces, queue
<1>9. Out(t, W) = Out(s, W) \cup {resp}
  BY <1>7, <1>8 DEF Out
<1>10. CiphertextsAmong(Out(t, W)) = C \cup ({reply} \ {None})
  BY <1>2, <1>9, AmongAdds
<1>11. /\ s.nB \in Drawn(owner, n)
       /\ \A c \in C : c.keys # keys
  BY <1>3 DEF Nonces, Ahead
<1>12. OwnCiphertexts(C, owner, role, n)
  BY DEF Nonces
<1> HIDE DEF C
<1>13. OwnDraw(role, keys) = s.nB
  BY <1>3 DEF OwnDraw
<1>14. OwnCiphertexts(C \cup ({reply} \ {None}), owner, role, n)
  <2>1. OwnCiphertexts(C \cup {made}, owner, role, n)
    BY <1>4, <1>11, <1>12, <1>13 DEF OwnCiphertexts, OwnDir
  <2>2. QED
    BY <1>5, <1>12, <2>1 DEF OwnCiphertexts
<1>15. Ahead(t, C \cup ({reply} \ {None}), owner, role, n)
  <2>1. OwnSeq(t) = seqB2A
    BY <1>7 DEF OwnSeq
  <2>2. \A c \in C \cup ({reply} \ {None}) : c.keys = keys => c.seq < seqB2A
    BY <1>4, <1>5, <1>11
  <2>3. QED
    BY <1>7, <1>11, <1>13, <2>1, <2>2
       DEF Ahead, EXPECT_SESSION_COMPLETION_REQUEST, ESTABLISHED
<1>16. Nonces(t, W, owner, role, n)
  BY <1>7, <1>8, <1>9, <1>10, <1>14, <1>15 DEF Nonces
<1>17. QED
  BY <1>16 DEF t

LEMMA HandleSessionCompletionResponseNonces ==
    ASSUME NEW owner, NEW role, NEW P, NEW s, Object(s, owner, role, P),
           NEW W, NEW n \in Nat, Nonces(s, W, owner, role, n), NEW m,
           role = INITIATOR, s.state = EXPECT_SESSION_COMPLETION_RESPONSE,
           SessionCompletionResponseError(s, m) = NoError
    PROVE  Nonces(HandleSessionCompletionResponse(s, m).s, W, owner, role, n)
<1> DEFINE t == HandleSessionCompletionResponse(s, m).s
<1>1. /\ t.state = ESTABLISHED /\ t.keys = s.keys /\ t.nB = s.nB
      /\ t.lastSent = None /\ t.outgoingPdus = s.outgoingPdus
      /\ t.seqA2B = s.seqA2B /\ t.role = INITIATOR /\ s.role = INITIATOR
  BY DEF HandleSessionCompletionResponse, Return, Object, Fields
<1> HIDE DEF t
<1>2. OwnSeq(t) = OwnSeq(s)
  BY <1>1 DEF OwnSeq
<1>3. Out(t, W) = Out(s, W) /\ t.outgoingPdus \in Seq(Range(t.outgoingPdus))
  BY <1>1 DEF Out, Nonces
<1>4. t.state \in KeyedState /\ s.state \in KeyedState
  BY <1>1 DEF KeyedState
<1>5. Nonces(t, W, owner, role, n)
  BY <1>1, <1>2, <1>3, <1>4, NoncesKept
<1>6. QED
  BY <1>5 DEF t

LEMMA HandleEstablishedMessageNonces ==
    ASSUME NEW owner, NEW role, NEW P, NEW s, Object(s, owner, role, P),
           NEW W, NEW n \in Nat, Nonces(s, W, owner, role, n), NEW m,
           EstablishedMessageError(s, m) = NoError
    PROVE  Nonces(HandleEstablishedMessage(s, m).s, W, owner, role, n)
<1> DEFINE t == HandleEstablishedMessage(s, m).s
<1>1. /\ t.state = s.state /\ t.keys = s.keys /\ t.nB = s.nB
      /\ t.lastSent = s.lastSent /\ t.outgoingPdus = s.outgoingPdus
      /\ t.role = s.role
  BY DEF HandleEstablishedMessage, Return, Object, Fields
<1>2. OwnSeq(t) = OwnSeq(s)
  BY DEF HandleEstablishedMessage, Return, Object, Fields, OwnSeq
<1> HIDE DEF t
<1>3. Out(t, W) = Out(s, W) /\ t.outgoingPdus \in Seq(Range(t.outgoingPdus))
  BY <1>1 DEF Out, Nonces
<1>4. Nonces(t, W, owner, role, n)
  BY <1>1, <1>2, <1>3, NoncesKept
<1>5. QED
  BY <1>4 DEF t

(* Established traffic takes the next seq in the party's own direction. *)
LEMMA SendPendingNonces ==
    ASSUME NEW owner, NEW role, NEW P, NEW s, Object(s, owner, role, P),
           NEW W, NEW n \in Nat, Nonces(s, W, owner, role, n)
    PROVE  Nonces(SendPending(s), W, owner, role, n)
<1>1. CASE ~(s.state = ESTABLISHED /\ s.pending # None)
  BY <1>1 DEF SendPending
<1>2. CASE s.state = ESTABLISHED /\ s.pending # None
  <2> DEFINE t == SendPending(s)
             mine == IF s.role = INITIATOR THEN "a2b" ELSE "b2a"
             seq == IF s.role = INITIATOR THEN s.seqA2B ELSE s.seqB2A
             made == Encrypt(s.keys, mine, seq, s.pending, s.cid)
             pdu == Message(s.cid, seq, made)
             queue == Queue(s, pdu)
             seqA2B == IF s.role = INITIATOR THEN s.seqA2B + 1 ELSE s.seqA2B
             seqB2A == IF s.role = INITIATOR THEN s.seqB2A ELSE s.seqB2A + 1
             C == CiphertextsAmong(Out(s, W))
  <2>1. t = [s EXCEPT !.pending = None, !.seqA2B = seqA2B, !.seqB2A = seqB2A,
                      !.outgoingPdus = queue]
    BY <1>2 DEF SendPending, SendEstablishedPayload
  <2>2. CiphertextsIn(pdu) = {made}
    BY DEF CiphertextsIn, Message
  <2>3. made.keys = s.keys /\ made.seq = OwnSeq(s) /\ made.dir = OwnDir(role)
    BY DEF Encrypt, OwnSeq, OwnDir, Object
  <2>4. s = [f \in Fields |-> s[f]] /\ OwnSeq(s) \in Nat
    BY DEF Object, OwnSeq
  <2> HIDE DEF made, pdu, t
  <2>5. /\ t.keys = s.keys /\ t.state = s.state /\ t.lastSent = s.lastSent
        /\ t.outgoingPdus = queue
    BY <2>1, <2>4 DEF Fields
  <2>6. OwnSeq(t) = OwnSeq(s) + 1
    BY <2>1, <2>4 DEF Fields, OwnSeq
  <2> HIDE DEF queue
  <2>7. /\ queue \in Seq(Range(queue))
        /\ Range(queue) = Range(s.outgoingPdus) \cup {pdu}
    BY QueueAdds DEF Nonces, queue
  <2>8. Out(t, W) = Out(s, W) \cup {pdu}
    BY <2>5, <2>7 DEF Out
  <2>9. CiphertextsAmong(Out(t, W)) = C \cup {made}
    BY <2>2, <2>8, AmongAdds
  <2>10. /\ OwnCiphertexts(C, owner, role, n)
         /\ OwnDraw(role, s.keys) \in Drawn(owner, n)
         /\ \A c \in C : c.keys = s.keys => c.seq < OwnSeq(s)
    BY <1>2 DEF Nonces, Ahead, KeyedState
  <2> HIDE DEF C
  <2>11. \A c \in C : c.seq \in Nat
    BY <2>10 DEF OwnCiphertexts
  <2>12. \A c \in C : ~(c.keys = made.keys /\ c.seq = made.seq)
    BY <2>3, <2>4, <2>10, <2>11
  <2>13. OwnCiphertexts(C \cup {made}, owner, role, n)
    BY <2>3, <2>4, <2>10, <2>12 DEF OwnCiphertexts
  <2>14. \A c \in C \cup {made} : c.keys = s.keys => c.seq < OwnSeq(s) + 1
    BY <2>3, <2>4, <2>10, <2>11
  <2>15. Ahead(t, C \cup {made}, owner, role, n)
    BY <1>2, <2>5, <2>6, <2>10, <2>14
       DEF Ahead, EXPECT_SESSION_COMPLETION_REQUEST, ESTABLISHED
  <2>16. Nonces(t, W, owner, role, n)
    BY <2>5, <2>7, <2>8, <2>9, <2>13, <2>15 DEF Nonces
  <2>17. QED
    BY <2>16 DEF t
<1>3. QED
  BY <1>1, <1>2

LEMMA CheckDeadlineNonces ==
    ASSUME NEW owner, NEW role, NEW P, NEW s, Object(s, owner, role, P),
           NEW W, NEW n \in Nat, Nonces(s, W, owner, role, n), NEW now \in Nat
    PROVE  Nonces(CheckDeadline(s, now), W, owner, role, n)
<1> DEFINE t == CheckDeadline(s, now)
<1>1. CASE ~TimedOut(s, now)
  BY <1>1 DEF CheckDeadline
<1>2. CASE TimedOut(s, now) /\ (s.role = RESPONDER \/ s.attempts >= MaxRetries)
  <2>1. /\ t.state = DROPPED /\ t.lastSent = s.lastSent
        /\ t.outgoingPdus = s.outgoingPdus
    BY <1>2 DEF CheckDeadline, OnTimeout, Object, Fields
  <2> HIDE DEF t
  <2>2. Out(t, W) = Out(s, W)
    BY <2>1 DEF Out
  <2>3. Nonces(t, W, owner, role, n)
    BY <2>1, <2>2
       DEF Nonces, Ahead, KeyedState, DROPPED, EXPECT_SESSION_COMPLETION_REQUEST,
           EXPECT_SESSION_COMPLETION_RESPONSE, ESTABLISHED
  <2>4. QED
    BY <2>3 DEF t
<1>3. CASE TimedOut(s, now) /\ ~(s.role = RESPONDER \/ s.attempts >= MaxRetries)
  <2>1. /\ t.state = s.state /\ t.lastSent = s.lastSent /\ t.keys = s.keys
        /\ t.nB = s.nB /\ t.role = s.role
        /\ t.seqA2B = s.seqA2B /\ t.seqB2A = s.seqB2A
        /\ t.outgoingPdus = IF s.lastSent = None THEN s.outgoingPdus
                            ELSE Queue(s, s.lastSent)
    BY <1>3 DEF CheckDeadline, OnTimeout, Object, Fields
  <2> HIDE DEF t
  <2>2. OwnSeq(t) = OwnSeq(s)
    BY <2>1 DEF OwnSeq
  <2>3. CASE s.lastSent = None
    <3>1. Out(t, W) = Out(s, W) /\ t.outgoingPdus \in Seq(Range(t.outgoingPdus))
      BY <2>1, <2>3 DEF Out, Nonces
    <3>2. Nonces(t, W, owner, role, n)
      BY <2>1, <2>2, <3>1, NoncesKept
    <3>3. QED
      BY <3>2 DEF t
  <2>4. CASE s.lastSent # None
    <3>1. Nonces(t, W, owner, role, n)
      BY <2>1, <2>2, <2>4, NoncesResend
    <3>2. QED
      BY <3>1 DEF t
  <2>5. QED
    BY <2>3, <2>4
<1>4. QED
  BY <1>1, <1>2, <1>3

-----------------------------------------------------------------------------
(* The states a handshake step that draws ends in, the deadline ahead. *)
DrewNow(s, t, now) ==
    /\ t.state # s.state
    /\ t.state \in {EXPECT_SESSION_COMPLETION_REQUEST, EXPECT_SESSION_COMPLETION_RESPONSE}
    /\ t.deadline \in Nat /\ t.deadline > now

LEMMA ProcessIncomingNonces ==
    ASSUME NEW owner \in Party, NEW role, NEW P, NEW s, Object(s, owner, role, P),
           NEW W, NEW n \in Nat, Nonces(s, W, owner, role, n),
           NEW pdu, NEW now \in Nat
    PROVE  LET r == ProcessIncoming(s, pdu, <<owner, n + 1>>, now)
           IN \/ Nonces(r.s, W, owner, role, n)
              \/ /\ Nonces(r.s, W, owner, role, n + 1)
                 /\ DrewNow(s, r.s, now)
<1> DEFINE fresh == <<owner, n + 1>>
           r == ProcessIncoming(s, pdu, fresh, now)
           resent == [s EXCEPT !.outgoingPdus = Queue(s, s.lastSent)]
           named == [s EXCEPT !.cid = pdu.cid]
<1>1. CASE r.s = s
  BY <1>1
<1>2. CASE s.lastSent # None /\ r.s = resent
  <2>1. Nonces(resent, W, owner, role, n)
    <3>1. /\ resent.outgoingPdus = Queue(s, s.lastSent)
          /\ resent.lastSent = s.lastSent /\ resent.state = s.state
          /\ resent.keys = s.keys /\ resent.nB = s.nB
          /\ OwnSeq(resent) = OwnSeq(s)
      BY DEF Object, Fields, OwnSeq
    <3> HIDE DEF resent
    <3>2. QED
      BY <1>2, <3>1, NoncesResend
  <2>2. QED
    BY <1>2, <2>1
<1>3. CASE /\ s.state = INITIAL /\ s.role = RESPONDER
           /\ r = HandleSessionInitRequest(named, pdu, fresh, now)
  <2>1. role # INITIATOR
    BY <1>3 DEF Object, INITIATOR, RESPONDER
  <2>2. /\ Object(named, owner, role, P)
        /\ named.state = s.state /\ named.keys = s.keys /\ named.nB = s.nB
        /\ named.lastSent = s.lastSent /\ named.outgoingPdus = s.outgoingPdus
        /\ OwnSeq(named) = OwnSeq(s)
    BY DEF Object, Fields, OwnSeq
  <2> HIDE DEF named
  <2>3. Out(named, W) = Out(s, W) /\ named.outgoingPdus \in Seq(Range(named.outgoingPdus))
    BY <2>2 DEF Out, Nonces
  <2>4. Nonces(named, W, owner, role, n)
    BY <2>2, <2>3, NoncesKept
  <2>5. CASE SessionInitRequestError(named, pdu) # NoError
    <3>1. r.s = named
      BY <1>3, <2>5 DEF HandleSessionInitRequest, Raise
    <3>2. QED
      BY <2>4, <3>1
  <2>6. CASE SessionInitRequestError(named, pdu) = NoError
    <3>1. /\ Nonces(r.s, W, owner, role, n + 1)
          /\ r.s.state = EXPECT_SESSION_COMPLETION_REQUEST
          /\ r.s.deadline = now + SessionTTL
      BY <1>3, <2>1, <2>2, <2>4, <2>6, HandleSessionInitRequestNonces
    <3>2. r.s.deadline \in Nat /\ r.s.deadline > now
      BY <3>1, ConfigAssumption
    <3>3. QED
      BY <1>3, <3>1, <3>2 DEF DrewNow, INITIAL, EXPECT_SESSION_COMPLETION_REQUEST
  <2>7. QED
    BY <2>5, <2>6
<1>4. CASE /\ s.state = EXPECT_SESSION_INIT_RESPONSE
           /\ r = HandleSessionInitResponse(s, pdu, fresh, now)
  <2>1. role = INITIATOR
    BY <1>4 DEF Object, ResponderState, INITIAL, ESTABLISHED, DROPPED,
                EXPECT_SESSION_INIT_RESPONSE, EXPECT_SESSION_COMPLETION_REQUEST
  <2>2. CASE SessionInitResponseError(s, pdu) # NoError
    BY <1>1, <1>4, <2>2 DEF HandleSessionInitResponse, Raise
  <2>3. CASE SessionInitResponseError(s, pdu) = NoError
    <3>1. /\ Nonces(r.s, W, owner, role, n + 1)
          /\ r.s.state = EXPECT_SESSION_COMPLETION_RESPONSE
          /\ r.s.deadline = now + RetryInterval
      BY <1>4, <2>1, <2>3, HandleSessionInitResponseNonces
    <3>2. r.s.deadline \in Nat /\ r.s.deadline > now
      BY <3>1, ConfigAssumption
    <3>3. QED
      BY <1>4, <3>1, <3>2
         DEF DrewNow, EXPECT_SESSION_INIT_RESPONSE, EXPECT_SESSION_COMPLETION_RESPONSE
  <2>4. QED
    BY <2>2, <2>3
<1>5. CASE /\ s.state = EXPECT_SESSION_COMPLETION_REQUEST
           /\ r = HandleSessionCompletionRequest(s, pdu)
  <2>1. role # INITIATOR
    BY <1>5 DEF Object, InitiatorState, INITIAL, ESTABLISHED, DROPPED,
                EXPECT_SESSION_INIT_RESPONSE, EXPECT_SESSION_COMPLETION_REQUEST,
                EXPECT_SESSION_COMPLETION_RESPONSE
  <2>2. CASE SessionCompletionRequestError(s, pdu) # NoError
    BY <1>1, <1>5, <2>2 DEF HandleSessionCompletionRequest, Raise
  <2>3. CASE SessionCompletionRequestError(s, pdu) = NoError
    BY <1>5, <2>1, <2>3, HandleSessionCompletionRequestNonces
  <2>4. QED
    BY <2>2, <2>3
<1>6. CASE /\ s.state = EXPECT_SESSION_COMPLETION_RESPONSE
           /\ r = HandleSessionCompletionResponse(s, pdu)
  <2>1. role = INITIATOR
    BY <1>6 DEF Object, ResponderState, INITIAL, ESTABLISHED, DROPPED,
                EXPECT_SESSION_COMPLETION_RESPONSE, EXPECT_SESSION_COMPLETION_REQUEST
  <2>2. CASE SessionCompletionResponseError(s, pdu) # NoError
    BY <1>1, <1>6, <2>2 DEF HandleSessionCompletionResponse, Raise
  <2>3. CASE SessionCompletionResponseError(s, pdu) = NoError
    BY <1>6, <2>1, <2>3, HandleSessionCompletionResponseNonces
  <2>4. QED
    BY <2>2, <2>3
<1>7. CASE s.state = ESTABLISHED /\ r = HandleEstablishedMessage(s, pdu)
  <2>1. CASE EstablishedMessageError(s, pdu) # NoError
    BY <1>1, <1>7, <2>1 DEF HandleEstablishedMessage, Raise
  <2>2. CASE EstablishedMessageError(s, pdu) = NoError
    BY <1>7, <2>2, HandleEstablishedMessageNonces
  <2>3. QED
    BY <2>1, <2>2
<1>8. QED
  BY <1>1, <1>2, <1>3, <1>4, <1>5, <1>6, <1>7
     DEF ProcessIncoming, Return, Raise, EXPECT_SESSION_INIT_RESPONSE,
         EXPECT_SESSION_COMPLETION_REQUEST, EXPECT_SESSION_COMPLETION_RESPONSE,
         ESTABLISHED

(* update() keeps the invariant, and when it needed the fresh name it ends in *)
(* one of the states that tell so.                                            *)
LEMMA UpdateNonces ==
    ASSUME NEW owner \in Party, NEW role, NEW P, NEW s, Object(s, owner, role, P),
           NEW W, NEW n \in Nat, Nonces(s, W, owner, role, n),
           NEW pdu, NEW now \in Nat
    PROVE  LET t == Update(s, pdu, <<owner, n + 1>>, now).s
           IN \/ Nonces(t, W, owner, role, n)
              \/ /\ Nonces(t, W, owner, role, n + 1)
                 /\ DrewNow(s, t, now)
<1> DEFINE fresh == <<owner, n + 1>>
           r == IF pdu = None THEN Return(s) ELSE ProcessIncoming(s, pdu, fresh, now)
           t == AfterIncoming(r, now).s
<1>1. Object(r.s, owner, role, P)
  BY ProcessIncomingObject DEF Return
<1>2. \/ Nonces(r.s, W, owner, role, n)
      \/ Nonces(r.s, W, owner, role, n + 1) /\ DrewNow(s, r.s, now)
  BY ProcessIncomingNonces DEF Return
<1>3. Update(s, pdu, fresh, now).s \in {s, t}
  BY DEF Update, Return
<1>4. t \in {r.s, CheckDeadline(SendPending(r.s), now)}
  BY DEF AfterIncoming, Return
<1> HIDE DEF r, t
<1>5. CASE Nonces(r.s, W, owner, role, n)
  <2>1. Object(SendPending(r.s), owner, role, P) /\ Nonces(SendPending(r.s), W, owner, role, n)
    BY <1>1, <1>5, SendPendingObject, SendPendingNonces
  <2>2. Nonces(CheckDeadline(SendPending(r.s), now), W, owner, role, n)
    BY <2>1, CheckDeadlineNonces
  <2>3. Nonces(t, W, owner, role, n)
    BY <1>4, <1>5, <2>2
  <2>4. QED
    BY <1>3, <2>3
<1>6. CASE Nonces(r.s, W, owner, role, n + 1) /\ DrewNow(s, r.s, now)
  <2>1. SendPending(r.s) = r.s
    BY <1>6 DEF SendPending, DrewNow, ESTABLISHED, EXPECT_SESSION_COMPLETION_REQUEST,
                EXPECT_SESSION_COMPLETION_RESPONSE
  <2>2. CheckDeadline(r.s, now) = r.s
    BY <1>6 DEF CheckDeadline, TimedOut, DrewNow
  <2>3. t = r.s
    BY <1>4, <2>1, <2>2
  <2>4. QED
    BY <1>3, <1>6, <2>3
<1>7. QED
  BY <1>2, <1>5, <1>6

-----------------------------------------------------------------------------
LEMMA InitiateNonces ==
    ASSUME NEW owner, NEW role, NEW P, NEW s, Object(s, owner, role, P),
           NEW W, NEW n \in Nat, Nonces(s, W, owner, role, n),
           s.state = INITIAL,
           NEW peer, NEW fresh, NEW now \in Nat
    PROVE  Nonces(Initiate(s, peer, fresh, now).s, W, owner, role, n)
<1> DEFINE t == Initiate(s, peer, fresh, now).s
           req == SessionInitRequest(fresh,
                      Encapsulate(StaticKey(peer), <<"s1", fresh>>), peer,
                      PublicKey(fresh, KemLevel[s.owner]), s.owner, AeadsOf(s.owner))
<1>1. CASE s.role # INITIATOR
  BY <1>1 DEF Initiate, Raise
<1>2. CASE s.role = INITIATOR /\ peer \notin KnownPublic[s.owner]
  <2>1. t.state = INITIAL /\ t.lastSent = s.lastSent /\ t.outgoingPdus = s.outgoingPdus
    BY <1>2 DEF Initiate, Raise, Object, Fields
  <2> HIDE DEF t
  <2>2. Out(t, W) = Out(s, W) /\ t.outgoingPdus \in Seq(Range(t.outgoingPdus))
    BY <2>1 DEF Out, Nonces
  <2>3. t.lastSent \in Out(t, W) \cup {None}
    BY <2>1, <2>2 DEF Nonces
  <2>4. t.state \notin KeyedState \cup {EXPECT_SESSION_COMPLETION_REQUEST}
    BY <2>1 DEF KeyedState, INITIAL, ESTABLISHED, EXPECT_SESSION_COMPLETION_REQUEST,
                EXPECT_SESSION_COMPLETION_RESPONSE
  <2>5. Nonces(t, W, owner, role, n)
    BY <2>2, <2>3, <2>4, NoncesIdle
  <2>6. QED
    BY <2>5 DEF t
<1>3. CASE s.role = INITIATOR /\ peer \in KnownPublic[s.owner]
  <2>1. CiphertextsIn(req) = {}
    BY DEF CiphertextsIn, SessionInitRequest
  <2>2. /\ t.state = EXPECT_SESSION_INIT_RESPONSE /\ t.lastSent = req
        /\ t.outgoingPdus = Queue(s, req)
    BY <1>3 DEF Initiate, Return, Object, Fields
  <2> HIDE DEF t, req
  <2>3. /\ t.outgoingPdus \in Seq(Range(t.outgoingPdus))
        /\ Out(t, W) = Out(s, W) \cup {req}
    BY <2>2, QueueAdds DEF Nonces, Out
  <2>4. CiphertextsAmong(Out(t, W)) = CiphertextsAmong(Out(s, W))
    <3>1. CiphertextsAmong(Out(s, W) \cup {req})
            = CiphertextsAmong(Out(s, W)) \cup CiphertextsIn(req)
      BY AmongAdds
    <3>2. QED
      BY <2>1, <2>3, <3>1
  <2>5. t.state \notin KeyedState \cup {EXPECT_SESSION_COMPLETION_REQUEST}
    BY <2>2 DEF KeyedState, ESTABLISHED, EXPECT_SESSION_INIT_RESPONSE,
                EXPECT_SESSION_COMPLETION_REQUEST, EXPECT_SESSION_COMPLETION_RESPONSE
  <2>6. t.lastSent \in Out(t, W) \cup {None}
    BY <2>2, <2>3
  <2>7. Nonces(t, W, owner, role, n)
    BY <2>3, <2>4, <2>5, <2>6, NoncesIdle
  <2>8. QED
    BY <2>7 DEF t
<1>4. QED
  BY <1>1, <1>2, <1>3

(* A restart forgets the counters, and with them the keys they counted for. *)
LEMMA NewSessionNonces ==
    ASSUME NEW W, NEW owner, NEW role, NEW n \in Nat,
           OwnCiphertexts(CiphertextsAmong(W), owner, role, n)
    PROVE  Nonces(NewSession(owner, role), W, owner, role, n)
<1> DEFINE s == NewSession(owner, role)
<1>1. s.outgoingPdus = <<>> /\ s.lastSent = None /\ s.state = INITIAL
  BY DEF NewSession
<1> HIDE DEF s
<1>2. Range(s.outgoingPdus) = {} /\ s.outgoingPdus \in Seq({})
  BY <1>1 DEF Range
<1>3. Out(s, W) = W
  BY <1>2 DEF Out
<1>4. Nonces(s, W, owner, role, n)
  BY <1>1, <1>2, <1>3
     DEF Nonces, Ahead, KeyedState, INITIAL, ESTABLISHED,
         EXPECT_SESSION_COMPLETION_REQUEST, EXPECT_SESSION_COMPLETION_RESPONSE
<1>5. QED
  BY <1>4 DEF s

LEMMA PostPayloadNonces ==
    ASSUME NEW owner, NEW role, NEW P, NEW s, Object(s, owner, role, P),
           NEW W, NEW n \in Nat, Nonces(s, W, owner, role, n), NEW payload
    PROVE  Nonces(PostPayload(s, payload), W, owner, role, n)
<1> DEFINE t == PostPayload(s, payload)
<1>1. /\ t.state = s.state /\ t.keys = s.keys /\ t.nB = s.nB
      /\ t.lastSent = s.lastSent /\ t.outgoingPdus = s.outgoingPdus
      /\ OwnSeq(t) = OwnSeq(s)
  BY DEF PostPayload, Object, Fields, OwnSeq
<1> HIDE DEF t
<1>2. Out(t, W) = Out(s, W) /\ t.outgoingPdus \in Seq(Range(t.outgoingPdus))
  BY <1>1 DEF Out, Nonces
<1>3. Nonces(t, W, owner, role, n)
  BY <1>1, <1>2, NoncesKept
<1>4. QED
  BY <1>3 DEF t

(* The caller's drain moves the queue to the wire. *)
LEMMA DrainedNonces ==
    ASSUME NEW owner, NEW role, NEW P, NEW s, Object(s, owner, role, P),
           NEW W, NEW n \in Nat, Nonces(s, W, owner, role, n)
    PROVE  Nonces(Drained(s), W \cup Range(s.outgoingPdus), owner, role, n)
<1> DEFINE t == Drained(s)
           V == W \cup Range(s.outgoingPdus)
<1>1. /\ t.state = s.state /\ t.keys = s.keys /\ t.nB = s.nB
      /\ t.lastSent = s.lastSent /\ t.outgoingPdus = <<>>
      /\ OwnSeq(t) = OwnSeq(s)
  BY DEF Drained, Object, Fields, OwnSeq
<1> HIDE DEF t
<1>2. Range(t.outgoingPdus) = {} /\ t.outgoingPdus \in Seq({})
  BY <1>1 DEF Range
<1>3. Out(t, V) = Out(s, W)
  BY <1>2 DEF Out
<1> HIDE DEF V
<1>4. Nonces(t, V, owner, role, n)
  BY <1>1, <1>2, <1>3 DEF Nonces, Ahead
<1>5. QED
  BY <1>4 DEF t, V

-----------------------------------------------------------------------------
(* What update() changes, for a process that holds many sessions. *)

(* What is queued, as a sequence. *)
Queued(s) == s.outgoingPdus \in Seq(Range(s.outgoingPdus))

(* What `s` has queued or would send again. *)
Known(s) == Range(s.outgoingPdus) \cup ({s.lastSent} \ {None})

(* A step that queues nothing else. *)
Resends(s, t) ==
    /\ Queued(t)
    /\ Range(t.outgoingPdus) \subseteq Known(s)
    /\ t.lastSent = s.lastSent

(* A PDU that is no request and encrypts under the object's keys only. *)
NewlyMade(x, s) ==
    /\ x.type # "session_init_request"
    /\ \A c \in CiphertextsIn(x) : c.keys = s.keys

(* A step that may queue such a PDU too. *)
Emits(s, t) ==
    /\ Queued(t)
    /\ \A x \in Range(t.outgoingPdus) : x \in Known(s) \/ NewlyMade(x, t)
    /\ t.lastSent \in {s.lastSent, None} \/ NewlyMade(t.lastSent, t)

Arrived(pdu, type) == pdu \notin {None, Malformed} /\ pdu.type = type

(* The attributes that survive within one state. *)
Keeps(s, t) ==
    /\ t.cid = s.cid /\ t.ephemeral = s.ephemeral /\ t.peer = s.peer
    /\ t.lastReceived = s.lastReceived /\ t.nB = s.nB /\ t.keys = s.keys

(* The ways update() may leave a session that `pdu` arrived for. *)
Lingers(s, t) ==
    /\ Keeps(s, t) /\ Resends(s, t)
    /\ \/ t.state = s.state
       \/ t.state = DROPPED /\ s.state \notin {INITIAL, ESTABLISHED}

Talks(s, t) ==
    Keeps(s, t) /\ Emits(s, t) /\ s.state = ESTABLISHED /\ t.state = ESTABLISHED

Refuses(s, t, pdu) ==
    /\ s.state = INITIAL /\ Arrived(pdu, "session_init_request")
    /\ t = [s EXCEPT !.cid = pdu.cid]

Responds(s, t, pdu, fresh) ==
    /\ s.state = INITIAL /\ Arrived(pdu, "session_init_request")
    /\ t.state = EXPECT_SESSION_COMPLETION_REQUEST /\ Emits(s, t)
    /\ t.cid = pdu.cid /\ t.peer = pdu.keyIdA /\ t.nB = fresh
    /\ pdu.keyIdA \in KnownPublic[s.owner] /\ pdu.keyIdB = s.owner
    /\ \A x \in Range(t.outgoingPdus) : x \in Known(s) \/ CiphertextsIn(x) = {}

Completes(s, t, pdu, fresh) ==
    /\ s.state = EXPECT_SESSION_INIT_RESPONSE
    /\ Arrived(pdu, "session_init_response")
    /\ t.state = EXPECT_SESSION_COMPLETION_RESPONSE /\ Emits(s, t)
    /\ t.cid = s.cid /\ t.ephemeral = s.ephemeral /\ t.peer = s.peer
    /\ t.lastReceived = pdu /\ t.keys.nA = fresh

Confirms(s, t, pdu) ==
    /\ s.state = EXPECT_SESSION_COMPLETION_REQUEST
    /\ Arrived(pdu, "session_completion_request")
    /\ t.state = ESTABLISHED /\ Emits(s, t)
    /\ t.cid = s.cid /\ t.peer = s.peer /\ t.nB = s.nB
    /\ t.keys = ResponderKeys(s, pdu)
    /\ Decrypts(t.keys, "a2b", 0, pdu.cM, s.cid)

Concludes(s, t, pdu) ==
    /\ s.state = EXPECT_SESSION_COMPLETION_RESPONSE
    /\ Arrived(pdu, "session_completion_response")
    /\ t.state = ESTABLISHED /\ Emits(s, t)
    /\ t.cid = s.cid /\ t.peer = s.peer /\ t.keys = s.keys

Effect(s, t, pdu, fresh) ==
    \/ Lingers(s, t)
    \/ Talks(s, t)
    \/ Refuses(s, t, pdu)
    \/ Responds(s, t, pdu, fresh)
    \/ Completes(s, t, pdu, fresh)
    \/ Confirms(s, t, pdu)
    \/ Concludes(s, t, pdu)

(* An exception leaves the object as it was; a new responder has its cid. *)
Raised(s, t, pdu) == IF s.state = INITIAL THEN Refuses(s, t, pdu) ELSE t = s

(* Queueing `x` in a step that remembers what it remembered, or `x`. *)
LEMMA QueueResends ==
    ASSUME NEW s, Queued(s), s.lastSent # None,
           NEW t, t.outgoingPdus = Queue(s, s.lastSent), t.lastSent = s.lastSent
    PROVE  Resends(s, t)
<1>1. /\ t.outgoingPdus \in Seq(Range(t.outgoingPdus))
      /\ Range(t.outgoingPdus) = Range(s.outgoingPdus) \cup {s.lastSent}
  BY QueueAdds DEF Queued
<1>2. QED
  BY <1>1 DEF Resends, Queued, Known

LEMMA QueueEmits ==
    ASSUME NEW s, Queued(s), NEW x, NEW t, t.outgoingPdus = Queue(s, x),
           t.lastSent \in {s.lastSent, x, None},
           NewlyMade(x, t)
    PROVE  Emits(s, t)
<1>1. /\ t.outgoingPdus \in Seq(Range(t.outgoingPdus))
      /\ Range(t.outgoingPdus) = Range(s.outgoingPdus) \cup {x}
  BY QueueAdds DEF Queued
<1>2. QED
  BY <1>1 DEF Emits, Queued, Known

LEMMA HandleSessionInitRequestEffect ==
    ASSUME NEW owner, NEW role, NEW P, NEW s, Object(s, owner, role, P), Queued(s),
           s.state = INITIAL,
           NEW m, Arrived(m, "session_init_request"), NEW fresh, NEW now,
           NEW n, n = [s EXCEPT !.cid = m.cid]
    PROVE  LET r == HandleSessionInitRequest(n, m, fresh, now)
           IN \/ r.exn # NoError /\ Refuses(s, r.s, m)
              \/ /\ r.exn = NoError /\ Responds(s, r.s, m, fresh)
                 /\ r.s.deadline = now + SessionTTL
<1> DEFINE r == HandleSessionInitRequest(n, m, fresh, now)
           t == r.s
<1>0. s = [f \in Fields |-> s[f]] /\ n = [f \in Fields |-> n[f]]
  BY DEF Object
<1>1. CASE SessionInitRequestError(n, m) # NoError
  BY <1>1 DEF HandleSessionInitRequest, Raise, Refuses
<1>2. CASE SessionInitRequestError(n, m) = NoError
  <2> DEFINE s2 == <<"s2", fresh>>
             s3 == <<"s3", fresh>>
             s1 == Decapsulate(StaticSeed(n.owner), m.ct1)
             aead == ChosenAead(n.owner, m.aeads)
             resp == SessionInitResponse(n.cid, PublicKey(fresh, m.pkA.level),
                         Encapsulate(m.pkA, s2),
                         Encapsulate(StaticKey(m.keyIdA), s3), fresh, aead)
             queue == Queue(n, resp)
  <2>1. r.exn = NoError
    BY <1>2 DEF HandleSessionInitRequest, Return
  <2>2. t = [n EXCEPT !.ephemeral = fresh, !.peer = m.keyIdA,
                      !.s1 = s1, !.s2 = s2, !.s3 = s3, !.nB = fresh,
                      !.aead = aead, !.lastReceived = m, !.lastSent = resp,
                      !.attempts = 0, !.deadline = now + SessionTTL,
                      !.state = EXPECT_SESSION_COMPLETION_REQUEST,
                      !.outgoingPdus = queue]
    BY <1>2 DEF HandleSessionInitRequest, Return
  <2>3. resp.type # "session_init_request" /\ CiphertextsIn(resp) = {}
    BY DEF SessionInitResponse, CiphertextsIn
  <2>4. queue = Queue(s, resp)
    BY <1>0 DEF Queue, Fields
  <2> HIDE DEF s1, s2, s3, aead, resp, queue, t, r
  <2>5. /\ t.state = EXPECT_SESSION_COMPLETION_REQUEST
        /\ t.cid = m.cid /\ t.peer = m.keyIdA /\ t.nB = fresh
        /\ t.deadline = now + SessionTTL /\ t.lastSent = resp
        /\ t.outgoingPdus = queue
    BY <1>0, <2>2 DEF Fields
  <2>6. Emits(s, t)
    BY <2>3, <2>4, <2>5, QueueEmits DEF NewlyMade
  <2>7. m.keyIdA \in KnownPublic[s.owner] /\ m.keyIdB = s.owner
    BY <1>0, <1>2 DEF SessionInitRequestError, HandshakeFailed, NoError, Fields
  <2>8. Range(t.outgoingPdus) = Range(s.outgoingPdus) \cup {resp}
    BY <2>4, <2>5, QueueAdds DEF Queued
  <2>9. QED
    BY <2>1, <2>3, <2>5, <2>6, <2>7, <2>8 DEF Responds, Known, t, r
<1>3. QED
  BY <1>1, <1>2

LEMMA HandleSessionInitResponseEffect ==
    ASSUME NEW owner, NEW role, NEW P, NEW s, Object(s, owner, role, P), Queued(s),
           s.state = EXPECT_SESSION_INIT_RESPONSE,
           NEW m, Arrived(m, "session_init_response"), NEW fresh, NEW now
    PROVE  LET r == HandleSessionInitResponse(s, m, fresh, now)
           IN \/ r.exn # NoError /\ r.s = s
              \/ /\ r.exn = NoError /\ Completes(s, r.s, m, fresh)
                 /\ r.s.deadline = now + RetryInterval
<1> DEFINE r == HandleSessionInitResponse(s, m, fresh, now)
           t == r.s
<1>0. s = [f \in Fields |-> s[f]]
  BY DEF Object
<1>1. CASE SessionInitResponseError(s, m) # NoError
  BY <1>1 DEF HandleSessionInitResponse, Raise
<1>2. CASE SessionInitResponseError(s, m) = NoError
  <2> DEFINE s4 == <<"s4", fresh>>
             keys == SessionKeys(fresh, m.nB, s.owner, s.s1,
                         Decapsulate(s.ephemeral, m.ct2),
                         Decapsulate(StaticSeed(s.owner), m.ct3), s4, m.aead)
             plain == IF s.pending = None THEN Empty ELSE s.pending
             req == SessionCompletionRequest(s.cid,
                        Encrypt(keys, "a2b", 0, plain, s.cid),
                        Encapsulate(m.pkB, s4), fresh)
             queue == Queue(s, req)
  <2>1. r.exn = NoError
    BY <1>2 DEF HandleSessionInitResponse, Return
  <2>2. t = [s EXCEPT !.keys = keys, !.nB = m.nB, !.aead = m.aead,
                      !.seqA2B = 1, !.pending = None, !.plainForHm = plain,
                      !.lastReceived = m, !.lastSent = req, !.attempts = 0,
                      !.deadline = now + RetryInterval,
                      !.state = EXPECT_SESSION_COMPLETION_RESPONSE,
                      !.outgoingPdus = queue]
    BY <1>2 DEF HandleSessionInitResponse, Return
  <2>3. /\ req.type # "session_init_request"
        /\ \A c \in CiphertextsIn(req) : c.keys = keys
    BY DEF SessionCompletionRequest, CiphertextsIn, Encrypt
  <2>4. keys.nA = fresh
    BY DEF SessionKeys
  <2> HIDE DEF s4, keys, plain, req, queue, t, r
  <2>5. /\ t.state = EXPECT_SESSION_COMPLETION_RESPONSE
        /\ t.cid = s.cid /\ t.ephemeral = s.ephemeral /\ t.peer = s.peer
        /\ t.lastReceived = m /\ t.keys = keys
        /\ t.deadline = now + RetryInterval /\ t.lastSent = req
        /\ t.outgoingPdus = queue
    BY <1>0, <2>2 DEF Fields
  <2>6. Emits(s, t)
    BY <2>3, <2>5, QueueEmits DEF NewlyMade, queue
  <2>7. QED
    BY <2>1, <2>4, <2>5, <2>6 DEF Completes, t, r
<1>3. QED
  BY <1>1, <1>2

LEMMA HandleSessionCompletionRequestEffect ==
    ASSUME NEW owner, NEW role, NEW P, NEW s, Object(s, owner, role, P), Queued(s),
           s.state = EXPECT_SESSION_COMPLETION_REQUEST,
           NEW m, Arrived(m, "session_completion_request")
    PROVE  LET r == HandleSessionCompletionRequest(s, m)
           IN \/ r.exn # NoError /\ r.s = s
              \/ r.exn = NoError /\ Confirms(s, r.s, m)
<1> DEFINE r == HandleSessionCompletionRequest(s, m)
           t == r.s
<1>0. s = [f \in Fields |-> s[f]]
  BY DEF Object
<1>1. CASE SessionCompletionRequestError(s, m) # NoError
  BY <1>1 DEF HandleSessionCompletionRequest, Raise
<1>2. CASE SessionCompletionRequestError(s, m) = NoError
  <2> DEFINE keys == ResponderKeys(s, m)
             reply == IF s.pending = None THEN None
                      ELSE Encrypt(keys, "b2a", 0, s.pending, s.cid)
             resp == SessionCompletionResponse(s.cid, Sha256(m.cM.plain), reply)
             handed == HandedOver(s, m.cM.plain)
             seq == IF reply = None THEN s.seqB2A ELSE 1
             queue == Queue(s, resp)
  <2>1. r.exn = NoError
    BY <1>2 DEF HandleSessionCompletionRequest, Return
  <2>2. t = [s EXCEPT !.keys = keys, !.seqA2B = 1, !.seqB2A = seq,
                      !.pending = None, !.outgoingPayloads = handed,
                      !.lastReceived = m, !.lastSent = resp,
                      !.state = ESTABLISHED, !.deadline = None,
                      !.outgoingPdus = queue]
    BY <1>2 DEF HandleSessionCompletionRequest, Return
  <2>3. /\ resp.type # "session_init_request"
        /\ \A c \in CiphertextsIn(resp) : c.keys = keys
    BY DEF SessionCompletionResponse, CiphertextsIn, Encrypt
  <2>4. Decrypts(keys, "a2b", 0, m.cM, s.cid)
    BY <1>2 DEF SessionCompletionRequestError, HandshakeFailed, NoError, ValueError
  <2> HIDE DEF keys, reply, resp, handed, seq, queue, t, r
  <2>5. /\ t.state = ESTABLISHED
        /\ t.cid = s.cid /\ t.peer = s.peer /\ t.nB = s.nB /\ t.keys = keys
        /\ t.lastSent = resp /\ t.outgoingPdus = queue
    BY <1>0, <2>2 DEF Fields
  <2>6. Emits(s, t)
    BY <2>3, <2>5, QueueEmits DEF NewlyMade, queue
  <2>7. Decrypts(t.keys, "a2b", 0, m.cM, s.cid)
    BY <2>4, <2>5
  <2>8. t.keys = ResponderKeys(s, m)
    BY <2>5 DEF keys
  <2>9. Confirms(s, t, m)
    BY <2>5, <2>6, <2>7, <2>8 DEF Confirms
  <2>10. QED
    BY <2>1, <2>9 DEF t, r
<1>3. QED
  BY <1>1, <1>2

LEMMA HandleSessionCompletionResponseEffect ==
    ASSUME NEW owner, NEW role, NEW P, NEW s, Object(s, owner, role, P), Queued(s),
           s.state = EXPECT_SESSION_COMPLETION_RESPONSE,
           NEW m, Arrived(m, "session_completion_response")
    PROVE  LET r == HandleSessionCompletionResponse(s, m)
           IN \/ r.exn # NoError /\ r.s = s
              \/ r.exn = NoError /\ Concludes(s, r.s, m)
<1> DEFINE r == HandleSessionCompletionResponse(s, m)
           t == r.s
<1>0. s = [f \in Fields |-> s[f]]
  BY DEF Object
<1>1. CASE SessionCompletionResponseError(s, m) # NoError
  BY <1>1 DEF HandleSessionCompletionResponse, Raise
<1>2. CASE SessionCompletionResponseError(s, m) = NoError
  <2> DEFINE seq == IF m.m = None THEN s.seqB2A ELSE 1
             payloads == IF m.m = None THEN s.outgoingPayloads
                         ELSE Append(s.outgoingPayloads, m.m.plain)
  <2>1. r.exn = NoError
    BY <1>2 DEF HandleSessionCompletionResponse, Return
  <2>2. t = [s EXCEPT !.seqB2A = seq, !.outgoingPayloads = payloads,
                      !.lastReceived = m, !.lastSent = None,
                      !.state = ESTABLISHED, !.deadline = None]
    BY <1>2 DEF HandleSessionCompletionResponse, Return
  <2> HIDE DEF seq, payloads, t, r
  <2>3. /\ t.state = ESTABLISHED
        /\ t.cid = s.cid /\ t.peer = s.peer /\ t.keys = s.keys
        /\ t.lastSent = None /\ t.outgoingPdus = s.outgoingPdus
    BY <1>0, <2>2 DEF Fields
  <2>4. Emits(s, t)
    BY <2>3 DEF Emits, Queued, Known
  <2>5. QED
    BY <2>1, <2>3, <2>4 DEF Concludes, t, r
<1>3. QED
  BY <1>1, <1>2

LEMMA HandleEstablishedMessageEffect ==
    ASSUME NEW owner, NEW role, NEW P, NEW s, Object(s, owner, role, P), Queued(s),
           s.state = ESTABLISHED, NEW m
    PROVE  LET r == HandleEstablishedMessage(s, m)
           IN \/ r.exn # NoError /\ r.s = s
              \/ r.exn = NoError /\ Talks(s, r.s)
<1> DEFINE r == HandleEstablishedMessage(s, m)
           t == r.s
<1>0. s = [f \in Fields |-> s[f]]
  BY DEF Object
<1>1. CASE EstablishedMessageError(s, m) # NoError
  BY <1>1 DEF HandleEstablishedMessage, Raise
<1>2. CASE EstablishedMessageError(s, m) = NoError
  <2> DEFINE a2b == IF s.role = INITIATOR THEN s.seqA2B ELSE s.seqA2B + 1
             b2a == IF s.role = INITIATOR THEN s.seqB2A + 1 ELSE s.seqB2A
             payloads == Append(s.outgoingPayloads, m.m.plain)
  <2>1. r.exn = NoError
    BY <1>2 DEF HandleEstablishedMessage, Return
  <2>2. t = [s EXCEPT !.seqA2B = a2b, !.seqB2A = b2a, !.outgoingPayloads = payloads]
    BY <1>2 DEF HandleEstablishedMessage, Return
  <2> HIDE DEF a2b, b2a, payloads, t, r
  <2>3. /\ t.state = s.state /\ Keeps(s, t)
        /\ t.lastSent = s.lastSent /\ t.outgoingPdus = s.outgoingPdus
    BY <1>0, <2>2 DEF Fields, Keeps
  <2>4. Emits(s, t)
    BY <2>3 DEF Emits, Queued, Known
  <2>5. QED
    BY <2>1, <2>3, <2>4 DEF Talks, t, r
<1>3. QED
  BY <1>1, <1>2

(* The end of update(): what is pending is sent, the deadline looked at. *)
LEMMA SendPendingEffect ==
    ASSUME NEW owner, NEW role, NEW P, NEW s, Object(s, owner, role, P), Queued(s)
    PROVE  SendPending(s) = s \/ Talks(s, SendPending(s))
<1> DEFINE t == SendPending(s)
           mine == IF s.role = INITIATOR THEN "a2b" ELSE "b2a"
           seq == IF s.role = INITIATOR THEN s.seqA2B ELSE s.seqB2A
           a2b == IF s.role = INITIATOR THEN s.seqA2B + 1 ELSE s.seqA2B
           b2a == IF s.role = INITIATOR THEN s.seqB2A ELSE s.seqB2A + 1
           msg == Message(s.cid, seq, Encrypt(s.keys, mine, seq, s.pending, s.cid))
           queue == Queue(s, msg)
<1>1. s = [f \in Fields |-> s[f]]
  BY DEF Object
<1>2. CASE s.state = ESTABLISHED /\ s.pending # None
  <2>1. t = [s EXCEPT !.pending = None, !.seqA2B = a2b, !.seqB2A = b2a,
                      !.outgoingPdus = queue]
    BY <1>2 DEF SendPending, SendEstablishedPayload
  <2>2. /\ msg.type # "session_init_request"
        /\ \A c \in CiphertextsIn(msg) : c.keys = s.keys
    BY DEF Message, CiphertextsIn, Encrypt
  <2> HIDE DEF t, mine, seq, a2b, b2a, msg, queue
  <2>3. /\ t.state = s.state /\ Keeps(s, t)
        /\ t.lastSent = s.lastSent /\ t.outgoingPdus = queue
    BY <1>1, <2>1 DEF Fields, Keeps
  <2>4. Emits(s, t)
    BY <2>2, <2>3, QueueEmits DEF NewlyMade, queue, Keeps
  <2>5. QED
    BY <1>2, <2>3, <2>4 DEF Talks, t
<1>3. QED
  BY <1>2 DEF SendPending

LEMMA CheckDeadlineEffect ==
    ASSUME NEW owner, NEW role, NEW P, NEW s, Object(s, owner, role, P), Queued(s),
           NEW now
    PROVE  \/ CheckDeadline(s, now) = s
           \/ TimedOut(s, now) /\ Lingers(s, CheckDeadline(s, now))
<1> DEFINE t == CheckDeadline(s, now)
           queue == Queue(s, s.lastSent)
<1>1. s = [f \in Fields |-> s[f]]
  BY DEF Object
<1>2. CASE ~TimedOut(s, now)
  BY <1>2 DEF CheckDeadline
<1>3. CASE TimedOut(s, now) /\ (s.role = RESPONDER \/ s.attempts >= MaxRetries)
  <2>1. t = [s EXCEPT !.state = DROPPED]
    BY <1>3 DEF CheckDeadline, OnTimeout
  <2> HIDE DEF t
  <2>2. /\ t.state = DROPPED /\ Keeps(s, t)
        /\ t.lastSent = s.lastSent /\ t.outgoingPdus = s.outgoingPdus
    BY <1>1, <2>1 DEF Fields, Keeps
  <2>3. Lingers(s, t)
    BY <1>3, <2>2 DEF Lingers, Resends, Queued, Known, TimedOut
  <2>4. QED
    BY <1>3, <2>3 DEF t
<1>4. CASE TimedOut(s, now) /\ ~(s.role = RESPONDER \/ s.attempts >= MaxRetries)
  <2> DEFINE sent == IF s.lastSent = None THEN s.outgoingPdus ELSE queue
  <2>1. t = [s EXCEPT !.attempts = @ + 1, !.deadline = now + RetryInterval,
                      !.outgoingPdus = sent]
    BY <1>4 DEF CheckDeadline, OnTimeout
  <2> HIDE DEF t, sent
  <2>2. /\ t.state = s.state /\ Keeps(s, t)
        /\ t.lastSent = s.lastSent /\ t.outgoingPdus = sent
    BY <1>1, <2>1 DEF Fields, Keeps
  <2>3. sent = s.outgoingPdus \/ (s.lastSent # None /\ sent = queue)
    BY DEF sent
  <2>4. Resends(s, t)
    BY <2>2, <2>3, QueueResends DEF Resends, Queued, Known
  <2>5. QED
    BY <1>4, <2>2, <2>4 DEF Lingers, t
<1>5. QED
  BY <1>2, <1>3, <1>4
-----------------------------------------------------------------------------
LEMMA ProcessIncomingEffect ==
    ASSUME NEW owner, NEW role, NEW P, NEW s, Object(s, owner, role, P), Queued(s),
           s.state = INITIAL => role = RESPONDER,
           NEW pdu, pdu # None, NEW fresh, NEW now \in Nat
    PROVE  LET r == ProcessIncoming(s, pdu, fresh, now)
           IN /\ Effect(s, r.s, pdu, fresh)
              /\ r.exn # NoError => Raised(s, r.s, pdu)
              /\ \/ Lingers(s, r.s) /\ r.s.state = s.state
                 \/ r.s.state \in {INITIAL, ESTABLISHED}
                 \/ r.s.deadline \in Nat /\ r.s.deadline > now
<1> DEFINE r == ProcessIncoming(s, pdu, fresh, now)
           t == r.s
           resent == [s EXCEPT !.outgoingPdus = Queue(s, s.lastSent)]
           named == [s EXCEPT !.cid = pdu.cid]
           Result == /\ Effect(s, t, pdu, fresh)
                     /\ r.exn # NoError => Raised(s, t, pdu)
                     /\ \/ Lingers(s, t) /\ t.state = s.state
                        \/ t.state \in {INITIAL, ESTABLISHED}
                        \/ t.deadline \in Nat /\ t.deadline > now
<1> SUFFICES Result
  OBVIOUS
<1>0. s = [f \in Fields |-> s[f]] /\ s.role = role
  BY DEF Object
<1>apart. INITIAL \notin {EXPECT_SESSION_INIT_RESPONSE, ESTABLISHED,
                      EXPECT_SESSION_COMPLETION_REQUEST,
                      EXPECT_SESSION_COMPLETION_RESPONSE}
  BY DEF INITIAL, EXPECT_SESSION_INIT_RESPONSE, ESTABLISHED,
         EXPECT_SESSION_COMPLETION_REQUEST, EXPECT_SESSION_COMPLETION_RESPONSE
<1>1. /\ now + SessionTTL \in Nat /\ now + SessionTTL > now
      /\ now + RetryInterval \in Nat /\ now + RetryInterval > now
  BY ConfigAssumption
<1>2. Lingers(s, s)
  BY DEF Lingers, Keeps, Resends, Queued, Known
<1>3. s.lastSent # None => Lingers(s, resent) /\ resent.state = s.state
  <2> DEFINE queue == Queue(s, s.lastSent)
             u == [s EXCEPT !.outgoingPdus = queue]
  <2> SUFFICES ASSUME s.lastSent # None
               PROVE  Lingers(s, u) /\ u.state = s.state
    OBVIOUS
  <2>1. u = [s EXCEPT !.outgoingPdus = queue]
    OBVIOUS
  <2> HIDE DEF queue, u
  <2>2. /\ u.state = s.state /\ Keeps(s, u)
        /\ u.lastSent = s.lastSent /\ u.outgoingPdus = queue
    BY <1>0, <2>1 DEF Fields, Keeps
  <2>3. Resends(s, u)
    BY <2>2, QueueResends DEF queue
  <2>4. Lingers(s, u)
    BY <2>2, <2>3 DEF Lingers
  <2>5. QED
    BY <2>2, <2>4
<1>4. CASE r = Return(s) \/ (s.state # INITIAL /\ r = Raise(s, UnexpectedPDU))
  <2>1. t = s /\ (r.exn # NoError => s.state # INITIAL)
    BY <1>4 DEF Return, Raise
  <2> HIDE DEF t, r
  <2>2. QED
    BY <1>2, <2>1 DEF Effect, Raised
<1>5. CASE s.lastSent # None /\ r = Return(resent)
  <2>1. t = resent /\ r.exn = NoError
    BY <1>5 DEF Return
  <2> HIDE DEF t, r, resent
  <2>2. QED
    BY <1>3, <1>5, <2>1 DEF Effect
<1>6. CASE /\ s.state = INITIAL /\ Arrived(pdu, "session_init_request")
           /\ r = HandleSessionInitRequest(named, pdu, fresh, now)
  <2>1. \/ r.exn # NoError /\ Refuses(s, t, pdu)
        \/ /\ r.exn = NoError /\ Responds(s, t, pdu, fresh)
           /\ t.deadline = now + SessionTTL
    <3>1. named = [s EXCEPT !.cid = pdu.cid]
      OBVIOUS
    <3> HIDE DEF named
    <3>2. QED
      BY <1>6, <3>1, HandleSessionInitRequestEffect
  <2> HIDE DEF t, r
  <2>2. CASE r.exn # NoError /\ Refuses(s, t, pdu)
    <3>1. t.state = INITIAL
      BY <1>0, <2>2 DEF Refuses, Fields
    <3>2. QED
      BY <1>6, <2>2, <3>1 DEF Effect, Raised
  <2>3. QED
    BY <1>1, <2>1, <2>2 DEF Effect
<1>7. CASE /\ s.state = EXPECT_SESSION_INIT_RESPONSE
           /\ Arrived(pdu, "session_init_response")
           /\ r = HandleSessionInitResponse(s, pdu, fresh, now)
  <2>1. \/ r.exn # NoError /\ t = s
        \/ /\ r.exn = NoError /\ Completes(s, t, pdu, fresh)
           /\ t.deadline = now + RetryInterval
    BY <1>7, HandleSessionInitResponseEffect
  <2> HIDE DEF t, r
  <2>2. QED
    BY <1>apart, <1>7, <1>1, <1>2, <2>1 DEF Effect, Raised
<1>8. CASE /\ s.state = EXPECT_SESSION_COMPLETION_REQUEST
           /\ Arrived(pdu, "session_completion_request")
           /\ r = HandleSessionCompletionRequest(s, pdu)
  <2>1. \/ r.exn # NoError /\ t = s
        \/ r.exn = NoError /\ Confirms(s, t, pdu)
    BY <1>8, HandleSessionCompletionRequestEffect
  <2> HIDE DEF t, r
  <2>2. QED
    BY <1>apart, <1>8, <1>2, <2>1 DEF Effect, Raised, Confirms
<1>9. CASE /\ s.state = EXPECT_SESSION_COMPLETION_RESPONSE
           /\ Arrived(pdu, "session_completion_response")
           /\ r = HandleSessionCompletionResponse(s, pdu)
  <2>1. \/ r.exn # NoError /\ t = s
        \/ r.exn = NoError /\ Concludes(s, t, pdu)
    BY <1>9, HandleSessionCompletionResponseEffect
  <2> HIDE DEF t, r
  <2>2. QED
    BY <1>apart, <1>9, <1>2, <2>1 DEF Effect, Raised, Concludes
<1>10. CASE s.state = ESTABLISHED /\ r = HandleEstablishedMessage(s, pdu)
  <2>1. \/ r.exn # NoError /\ t = s
        \/ r.exn = NoError /\ Talks(s, t)
    BY <1>10, HandleEstablishedMessageEffect
  <2> HIDE DEF t, r
  <2>2. QED
    BY <1>apart, <1>10, <1>2, <2>1 DEF Effect, Raised, Talks
<1>11. \/ r = Return(s) \/ (s.state # INITIAL /\ r = Raise(s, UnexpectedPDU))
       \/ s.lastSent # None /\ r = Return(resent)
       \/ /\ s.state = INITIAL /\ Arrived(pdu, "session_init_request")
          /\ r = HandleSessionInitRequest(named, pdu, fresh, now)
       \/ /\ s.state = EXPECT_SESSION_INIT_RESPONSE
          /\ Arrived(pdu, "session_init_response")
          /\ r = HandleSessionInitResponse(s, pdu, fresh, now)
       \/ /\ s.state = EXPECT_SESSION_COMPLETION_REQUEST
          /\ Arrived(pdu, "session_completion_request")
          /\ r = HandleSessionCompletionRequest(s, pdu)
       \/ /\ s.state = EXPECT_SESSION_COMPLETION_RESPONSE
          /\ Arrived(pdu, "session_completion_response")
          /\ r = HandleSessionCompletionResponse(s, pdu)
       \/ s.state = ESTABLISHED /\ r = HandleEstablishedMessage(s, pdu)
  BY <1>0 DEF ProcessIncoming, Arrived, ExpectedType, INITIAL,
         EXPECT_SESSION_INIT_RESPONSE, EXPECT_SESSION_COMPLETION_REQUEST,
         EXPECT_SESSION_COMPLETION_RESPONSE, ESTABLISHED
<1>12. QED
  BY <1>4, <1>5, <1>6, <1>7, <1>8, <1>9, <1>10, <1>11

(* What update() does after the incoming PDU adds nothing but a retry, a      *)
(* timeout or a message to it.                                                *)
LEMMA AfterIncomingEffect ==
    ASSUME NEW owner, NEW role, NEW P, NEW s, Object(s, owner, role, P), Queued(s),
           NEW u, Object(u, owner, role, P), Queued(u),
           NEW pdu, NEW fresh, NEW now \in Nat, Effect(s, u, pdu, fresh),
           \/ Lingers(s, u) /\ u.state = s.state
           \/ u.state \in {INITIAL, ESTABLISHED}
           \/ u.deadline \in Nat /\ u.deadline > now
    PROVE  Effect(s, CheckDeadline(SendPending(u), now), pdu, fresh)
<1> DEFINE v == SendPending(u)
           t == CheckDeadline(v, now)
<1>1. Object(v, owner, role, P)
  BY SendPendingObject
<1>2. v = u \/ Talks(u, v)
  BY SendPendingEffect
<1> HIDE DEF v
<1>3. CASE Talks(u, v)
  <2>1. t = v
    BY <1>3 DEF CheckDeadline, TimedOut, Talks
  <2> HIDE DEF t
  <2>2. u.state = ESTABLISHED /\ v.state = ESTABLISHED /\ Keeps(u, v) /\ Emits(u, v)
    BY <1>3 DEF Talks
  <2>3. CASE Lingers(s, u) \/ Talks(s, u)
    <3>1. s.state = ESTABLISHED /\ Keeps(s, u)
      BY <2>2, <2>3
         DEF Lingers, Talks, DROPPED, ESTABLISHED
    <3>2. Emits(s, v)
      BY <2>2, <2>3 DEF Lingers, Talks, Emits, Resends, Keeps, Known, NewlyMade
    <3>3. Talks(s, v)
      BY <2>2, <3>1, <3>2 DEF Talks, Keeps
    <3>4. QED
      BY <2>1, <3>3 DEF Effect, t, v
  <2>4. CASE Confirms(s, u, pdu)
    <3>1. Emits(s, v)
      BY <2>2, <2>4 DEF Confirms, Emits, Keeps, Known, NewlyMade
    <3>2. Confirms(s, v, pdu)
      BY <2>2, <2>4, <3>1 DEF Confirms, Keeps
    <3>3. QED
      BY <2>1, <3>2 DEF Effect, t, v
  <2>5. CASE Concludes(s, u, pdu)
    <3>1. Emits(s, v)
      BY <2>2, <2>5 DEF Concludes, Emits, Keeps, Known, NewlyMade
    <3>2. Concludes(s, v, pdu)
      BY <2>2, <2>5, <3>1 DEF Concludes, Keeps
    <3>3. QED
      BY <2>1, <3>2 DEF Effect, t, v
  <2>6. ~Refuses(s, u, pdu)
    BY <2>2 DEF Refuses, INITIAL, ESTABLISHED, Fields, Object
  <2>7. ~Responds(s, u, pdu, fresh) /\ ~Completes(s, u, pdu, fresh)
    BY <2>2 DEF Responds, Completes, ESTABLISHED,
       EXPECT_SESSION_COMPLETION_REQUEST, EXPECT_SESSION_COMPLETION_RESPONSE
  <2>8. QED
    BY <2>3, <2>4, <2>5, <2>6, <2>7 DEF Effect
<1>4. CASE v = u /\ t = u
  <2>1. CheckDeadline(SendPending(u), now) = u
    BY <1>4 DEF t, v
  <2>2. QED
    BY <2>1
<1>5. CASE v = u /\ TimedOut(u, now) /\ Lingers(u, t)
  <2>1. Lingers(s, u) /\ u.state = s.state
    BY <1>5 DEF TimedOut
  <2> HIDE DEF t
  <2>2. Lingers(s, t)
    BY <1>5, <2>1 DEF Lingers, Keeps, Resends, Known
  <2>3. QED
    BY <2>2 DEF Effect, t, v
<1>6. v = u => (t = u \/ (TimedOut(u, now) /\ Lingers(u, t)))
  BY CheckDeadlineEffect
<1>7. QED
  BY <1>2, <1>3, <1>4, <1>5, <1>6

(* update() in one formula, for every state a session can be cranked in: what *)
(* it may change, and what it may send.                                       *)
LEMMA UpdateEffect ==
    ASSUME NEW owner \in Party, NEW role, NEW P, NEW s, Object(s, owner, role, P),
           Queued(s), s.state = INITIAL => role = RESPONDER,
           NEW pdu, NEW fresh, NEW now \in Nat
    PROVE  LET r == Update(s, pdu, fresh, now)
           IN /\ Effect(s, r.s, pdu, fresh)
              /\ r.exn # NoError => Raised(s, r.s, pdu)
<1> DEFINE i == IF pdu = None THEN Return(s) ELSE ProcessIncoming(s, pdu, fresh, now)
           r == AfterIncoming(i, now)
<1>1. Lingers(s, s)
  BY DEF Lingers, Keeps, Resends, Queued, Known
<1>2. /\ Effect(s, i.s, pdu, fresh)
      /\ i.exn # NoError => Raised(s, i.s, pdu)
      /\ \/ Lingers(s, i.s) /\ i.s.state = s.state
         \/ i.s.state \in {INITIAL, ESTABLISHED}
         \/ i.s.deadline \in Nat /\ i.s.deadline > now
  <2>1. CASE pdu = None
    BY <1>1, <2>1 DEF Return, Effect
  <2>2. CASE pdu # None
    BY <2>2, ProcessIncomingEffect
  <2>3. QED
    BY <2>1, <2>2
<1>3. Object(i.s, owner, role, P)
  BY ProcessIncomingObject DEF Return
<1> HIDE DEF i
<1>4. Queued(i.s)
  <2>1. DOMAIN s = Fields
    BY DEF Object
  <2>2. CASE Refuses(s, i.s, pdu)
    BY <2>1, <2>2 DEF Refuses, Queued, Fields
  <2>3. QED
    BY <1>2, <2>2 DEF Effect, Lingers, Talks, Responds, Completes, Confirms,
                      Concludes, Emits, Resends
<1>5. /\ Effect(s, r.s, pdu, fresh)
      /\ r.exn # NoError => Raised(s, r.s, pdu)
  <2>1. CASE i.exn # NoError
    BY <1>2, <2>1 DEF AfterIncoming
  <2>2. CASE i.exn = NoError
    <3>1. Effect(s, CheckDeadline(SendPending(i.s), now), pdu, fresh)
      BY <1>2, <1>3, <1>4, AfterIncomingEffect
    <3>2. QED
      BY <2>2, <3>1 DEF AfterIncoming, Return
  <2>3. QED
    BY <2>1, <2>2
<1>6. CASE s.state = DROPPED
  <2>1. Update(s, pdu, fresh, now) = Return(s)
    BY <1>6 DEF Update
  <2>2. QED
    BY <1>1, <2>1 DEF Return, Effect
<1>7. CASE s.state # DROPPED
  <2>1. Update(s, pdu, fresh, now) = r
    BY <1>7 DEF Update, i
  <2>2. QED
    BY <1>5, <2>1
<1>8. QED
  BY <1>6, <1>7

-----------------------------------------------------------------------------
(* The receiving side: the direction and the seq of what an object takes next. *)
TheirDir(role) == IF role = INITIATOR THEN "b2a" ELSE "a2b"
TheirSeq(s) == IF s.role = INITIATOR THEN s.seqB2A ELSE s.seqA2B

Takes(t, c, seq) == c.keys = t.keys /\ c.dir = TheirDir(t.role) /\ c.seq = seq

(* A step that hands over nothing and begins no traffic. *)
Ignores(s, t) ==
    /\ t.role = s.role
    /\ t.state = ESTABLISHED <=> s.state = ESTABLISHED
    /\ s.state = ESTABLISHED => t.keys = s.keys
    /\ TheirSeq(t) = TheirSeq(s)
    /\ t.outgoingPayloads = s.outgoingPayloads

(* The peer's answer holds no payload. *)
BeginsMute(s, t) ==
    /\ t.role = s.role /\ s.role = INITIATOR
    /\ s.state # ESTABLISHED /\ t.state = ESTABLISHED
    /\ TheirSeq(t) = TheirSeq(s)
    /\ t.outgoingPayloads = s.outgoingPayloads

(* The handshake's own payload is seq 0; an empty false start is not one. *)
Begins(s, t, c) ==
    /\ t.role = s.role
    /\ s.state # ESTABLISHED /\ t.state = ESTABLISHED
    /\ Takes(t, c, 0) /\ TheirSeq(t) = 1
    /\ \/ c.plain = Empty /\ t.outgoingPayloads = s.outgoingPayloads
       \/ /\ c.plain # Empty \/ s.role = INITIATOR
          /\ t.outgoingPayloads = Append(s.outgoingPayloads, c.plain)

Receives(s, t, c) ==
    /\ t.role = s.role
    /\ s.state = ESTABLISHED /\ t.state = ESTABLISHED /\ t.keys = s.keys
    /\ Takes(t, c, TheirSeq(s)) /\ TheirSeq(t) = TheirSeq(s) + 1
    /\ t.outgoingPayloads = Append(s.outgoingPayloads, c.plain)

Hears(s, t, pdu) ==
    \/ Ignores(s, t)
    \/ BeginsMute(s, t)
    \/ /\ pdu \notin {None, Malformed}
       /\ \E c \in CiphertextsIn(pdu) : Begins(s, t, c) \/ Receives(s, t, c)

(* Hears looks at these attributes only. *)
LEMMA HearsAlike ==
    ASSUME NEW s, NEW u, NEW t, NEW pdu, Hears(s, u, pdu), Ignores(u, t)
    PROVE  Hears(s, t, pdu)
BY DEF Hears, Ignores, BeginsMute, Begins, Receives, Takes

LEMMA HandleSessionInitRequestHears ==
    ASSUME NEW owner, NEW role, NEW P, NEW s, Object(s, owner, role, P),
           s.state = INITIAL, NEW m, NEW fresh, NEW now, NEW cid
    PROVE  Ignores(s, HandleSessionInitRequest([s EXCEPT !.cid = cid], m, fresh, now).s)
<1> DEFINE u == [s EXCEPT !.cid = cid]
           t == HandleSessionInitRequest(u, m, fresh, now).s
<1>0. s = [f \in Fields |-> s[f]]
  BY DEF Object
<1>1. /\ u = [f \in Fields |-> u[f]] /\ u.role = s.role /\ u.state = s.state
      /\ u.seqA2B = s.seqA2B /\ u.seqB2A = s.seqB2A
      /\ u.outgoingPayloads = s.outgoingPayloads
  BY <1>0 DEF Fields
<1> HIDE DEF u
<1>2. CASE SessionInitRequestError(u, m) # NoError
  <2>1. t = u
    BY <1>2 DEF HandleSessionInitRequest, Raise
  <2>2. QED
    BY <1>1, <2>1 DEF Ignores, TheirSeq, INITIAL, ESTABLISHED, u
<1>3. CASE SessionInitRequestError(u, m) = NoError
  <2>1. /\ t.role = u.role /\ t.state = EXPECT_SESSION_COMPLETION_REQUEST
        /\ t.seqA2B = u.seqA2B /\ t.seqB2A = u.seqB2A
        /\ t.outgoingPayloads = u.outgoingPayloads
    BY <1>1, <1>3 DEF HandleSessionInitRequest, Return, Fields
  <2> HIDE DEF t
  <2>2. QED
    BY <1>1, <2>1 DEF Ignores, TheirSeq, INITIAL, ESTABLISHED,
                      EXPECT_SESSION_COMPLETION_REQUEST, t, u
<1>4. QED
  BY <1>2, <1>3

LEMMA HandleSessionInitResponseHears ==
    ASSUME NEW owner, NEW role, NEW P, NEW s, Object(s, owner, role, P),
           s.state = EXPECT_SESSION_INIT_RESPONSE, NEW m, NEW fresh, NEW now
    PROVE  Ignores(s, HandleSessionInitResponse(s, m, fresh, now).s)
<1> DEFINE t == HandleSessionInitResponse(s, m, fresh, now).s
<1>0. s = [f \in Fields |-> s[f]] /\ s.role = INITIATOR
  BY DEF Object, ResponderState, INITIAL, EXPECT_SESSION_INIT_RESPONSE,
         EXPECT_SESSION_COMPLETION_REQUEST, ESTABLISHED, DROPPED
<1>1. CASE SessionInitResponseError(s, m) # NoError
  <2>1. t = s
    BY <1>1 DEF HandleSessionInitResponse, Raise
  <2>2. QED
    BY <2>1 DEF Ignores
<1>2. CASE SessionInitResponseError(s, m) = NoError
  <2>1. /\ t.role = s.role /\ t.state = EXPECT_SESSION_COMPLETION_RESPONSE
        /\ t.seqB2A = s.seqB2A /\ t.outgoingPayloads = s.outgoingPayloads
    BY <1>0, <1>2 DEF HandleSessionInitResponse, Return, Fields
  <2> HIDE DEF t
  <2>2. QED
    BY <1>0, <2>1 DEF Ignores, TheirSeq, ESTABLISHED, EXPECT_SESSION_INIT_RESPONSE,
                      EXPECT_SESSION_COMPLETION_RESPONSE, t
<1>3. QED
  BY <1>1, <1>2

LEMMA HandleSessionCompletionRequestHears ==
    ASSUME NEW owner, NEW role, NEW P, NEW s, Object(s, owner, role, P),
           s.state = EXPECT_SESSION_COMPLETION_REQUEST,
           NEW m, Arrived(m, "session_completion_request")
    PROVE  Hears(s, HandleSessionCompletionRequest(s, m).s, m)
<1> DEFINE t == HandleSessionCompletionRequest(s, m).s
<1>0. s = [f \in Fields |-> s[f]] /\ s.role = role /\ role # INITIATOR
  BY DEF Object, InitiatorState, INITIAL, EXPECT_SESSION_INIT_RESPONSE,
         EXPECT_SESSION_COMPLETION_REQUEST, EXPECT_SESSION_COMPLETION_RESPONSE,
         ESTABLISHED, DROPPED
<1>1. CASE SessionCompletionRequestError(s, m) # NoError
  <2>1. t = s
    BY <1>1 DEF HandleSessionCompletionRequest, Raise
  <2>2. QED
    BY <2>1 DEF Hears, Ignores
<1>2. CASE SessionCompletionRequestError(s, m) = NoError
  <2> DEFINE keys == ResponderKeys(s, m)
             payloads == HandedOver(s, m.cM.plain)
  <2>1. /\ t.role = s.role /\ t.state = ESTABLISHED /\ t.seqA2B = 1
        /\ t.keys = keys /\ t.outgoingPayloads = payloads
    BY <1>0, <1>2 DEF HandleSessionCompletionRequest, Return, Fields
  <2>2. m.cM.keys = keys /\ m.cM.dir = "a2b" /\ m.cM.seq = 0
    BY <1>2 DEF SessionCompletionRequestError, Decrypts, NoError, ValueError,
                HandshakeFailed
  <2>3. m.cM \in CiphertextsIn(m) /\ m \notin {None, Malformed}
    BY DEF Arrived, CiphertextsIn
  <2>4. \/ m.cM.plain = Empty /\ payloads = s.outgoingPayloads
        \/ m.cM.plain # Empty /\ payloads = Append(s.outgoingPayloads, m.cM.plain)
    BY DEF HandedOver
  <2>5. s.state # ESTABLISHED
    BY DEF ESTABLISHED, EXPECT_SESSION_COMPLETION_REQUEST
  <2> HIDE DEF t, keys, payloads
  <2>6. Begins(s, t, m.cM)
    BY <1>0, <2>1, <2>2, <2>4, <2>5 DEF Begins, Takes, TheirSeq, TheirDir
  <2>7. QED
    BY <2>3, <2>6 DEF Hears, t
<1>3. QED
  BY <1>1, <1>2

LEMMA HandleSessionCompletionResponseHears ==
    ASSUME NEW owner, NEW role, NEW P, NEW s, Object(s, owner, role, P),
           s.state = EXPECT_SESSION_COMPLETION_RESPONSE,
           NEW m, Arrived(m, "session_completion_response")
    PROVE  Hears(s, HandleSessionCompletionResponse(s, m).s, m)
<1> DEFINE t == HandleSessionCompletionResponse(s, m).s
<1>0. s = [f \in Fields |-> s[f]] /\ s.role = INITIATOR
  BY DEF Object, ResponderState, INITIAL, EXPECT_SESSION_COMPLETION_RESPONSE,
         EXPECT_SESSION_COMPLETION_REQUEST, ESTABLISHED, DROPPED
<1>1. CASE SessionCompletionResponseError(s, m) # NoError
  <2>1. t = s
    BY <1>1 DEF HandleSessionCompletionResponse, Raise
  <2>2. QED
    BY <2>1 DEF Hears, Ignores
<1>2. CASE SessionCompletionResponseError(s, m) = NoError
  <2> DEFINE payloads == Append(s.outgoingPayloads, m.m.plain)
  <2>1. /\ t.role = s.role /\ t.state = ESTABLISHED /\ t.keys = s.keys
        /\ t.seqB2A = IF m.m = None THEN s.seqB2A ELSE 1
        /\ t.outgoingPayloads = IF m.m = None THEN s.outgoingPayloads ELSE payloads
    BY <1>0, <1>2 DEF HandleSessionCompletionResponse, Return, Fields
  <2>2. s.state # ESTABLISHED
    BY DEF ESTABLISHED, EXPECT_SESSION_COMPLETION_RESPONSE
  <2>3. CASE m.m = None
    <3> HIDE DEF t, payloads
    <3>1. BeginsMute(s, t)
      BY <1>0, <2>1, <2>2, <2>3 DEF BeginsMute, TheirSeq
    <3>2. QED
      BY <3>1 DEF Hears, t
  <2>4. CASE m.m # None
    <3>1. m.m.keys = s.keys /\ m.m.dir = "b2a" /\ m.m.seq = 0
      BY <1>2, <2>4 DEF SessionCompletionResponseError, Decrypts, NoError,
                        HandshakeFailed
    <3>2. m.m \in CiphertextsIn(m) /\ m \notin {None, Malformed}
      BY <2>4 DEF Arrived, CiphertextsIn
    <3> HIDE DEF t
    <3>3. Begins(s, t, m.m)
      BY <1>0, <2>1, <2>2, <2>4, <3>1 DEF Begins, Takes, TheirSeq, TheirDir
    <3>4. QED
      BY <3>2, <3>3 DEF Hears, t
  <2>5. QED
    BY <2>3, <2>4
<1>3. QED
  BY <1>1, <1>2

LEMMA EstablishedMessageHears ==
    ASSUME NEW owner, NEW role \in {INITIATOR, RESPONDER}, NEW P, NEW s,
           Object(s, owner, role, P),
           s.state = ESTABLISHED, NEW m, Arrived(m, "message")
    PROVE  Hears(s, HandleEstablishedMessage(s, m).s, m)
<1> DEFINE t == HandleEstablishedMessage(s, m).s
<1>0. s = [f \in Fields |-> s[f]] /\ s.role = role
  BY DEF Object
<1>1. CASE EstablishedMessageError(s, m) # NoError
  <2>1. t = s
    BY <1>1 DEF HandleEstablishedMessage, Raise
  <2>2. QED
    BY <2>1 DEF Hears, Ignores
<1>2. CASE EstablishedMessageError(s, m) = NoError
  <2> DEFINE payloads == Append(s.outgoingPayloads, m.m.plain)
  <2>1. /\ t.role = s.role /\ t.state = s.state /\ t.keys = s.keys
        /\ t.seqA2B = IF s.role = INITIATOR THEN s.seqA2B ELSE s.seqA2B + 1
        /\ t.seqB2A = IF s.role = INITIATOR THEN s.seqB2A + 1 ELSE s.seqB2A
        /\ t.outgoingPayloads = payloads
    BY <1>0, <1>2 DEF HandleEstablishedMessage, Return, Fields
  <2>2. Takes(s, m.m, TheirSeq(s))
    BY <1>2 DEF EstablishedMessageError, Decrypts, NoError, HandshakeFailed, InvalidTag,
                Takes, TheirSeq, TheirDir
  <2>3. m.m \in CiphertextsIn(m) /\ m \notin {None, Malformed}
    BY DEF Arrived, CiphertextsIn
  <2> HIDE DEF t
  <2>4. Receives(s, t, m.m)
    BY <2>1, <2>2 DEF Receives, Takes, TheirSeq
  <2>5. QED
    BY <2>3, <2>4 DEF Hears, t
<1>3. QED
  BY <1>1, <1>2

(* update(): what is handed over is the peer's next ciphertext under the keys. *)
LEMMA UpdateHears ==
    ASSUME NEW owner \in Party, NEW role \in {INITIATOR, RESPONDER}, NEW P,
           NEW s, Object(s, owner, role, P),
           NEW pdu, NEW fresh, NEW now \in Nat
    PROVE  Hears(s, Update(s, pdu, fresh, now).s, pdu)
<1> DEFINE i == IF pdu = None THEN Return(s) ELSE ProcessIncoming(s, pdu, fresh, now)
           u == i.s
           resent == [s EXCEPT !.outgoingPdus = Queue(s, s.lastSent)]
           named == [s EXCEPT !.cid = pdu.cid]
<1>0. s = [f \in Fields |-> s[f]] /\ s.role = role
  BY DEF Object
<1>1. Ignores(s, s) /\ Ignores(s, resent)
  BY <1>0 DEF Ignores, TheirSeq, Fields
<1>2. Hears(s, u, pdu)
  <2>1. CASE u = s \/ u = resent
    BY <1>1, <2>1 DEF Hears
  <2> DEFINE Handles ==
         \/ /\ s.state = INITIAL
            /\ i = HandleSessionInitRequest(named, pdu, fresh, now)
         \/ /\ s.state = EXPECT_SESSION_INIT_RESPONSE
            /\ i = HandleSessionInitResponse(s, pdu, fresh, now)
         \/ /\ s.state = EXPECT_SESSION_COMPLETION_REQUEST
            /\ Arrived(pdu, "session_completion_request")
            /\ i = HandleSessionCompletionRequest(s, pdu)
         \/ /\ s.state = EXPECT_SESSION_COMPLETION_RESPONSE
            /\ Arrived(pdu, "session_completion_response")
            /\ i = HandleSessionCompletionResponse(s, pdu)
         \/ /\ s.state = ESTABLISHED /\ Arrived(pdu, "message")
            /\ i = HandleEstablishedMessage(s, pdu)
  <2>2. CASE Handles
    <3> HIDE DEF i
    <3>1. QED
      BY <2>2, HandleSessionInitRequestHears, HandleSessionInitResponseHears,
         HandleSessionCompletionRequestHears, HandleSessionCompletionResponseHears,
         EstablishedMessageHears DEF Hears
  <2>3. u = s \/ u = resent \/ Handles
    <3>1. CASE pdu = None
      BY <3>1 DEF Return
    <3>2. CASE pdu # None
      <4>1. \/ ProcessIncoming(s, pdu, fresh, now) \in
                  {Return(s), Return(resent), Raise(s, UnexpectedPDU)}
            \/ Handles
        BY <1>0, <3>2 DEF ProcessIncoming, Arrived, ExpectedType, INITIAL,
           EXPECT_SESSION_INIT_RESPONSE, EXPECT_SESSION_COMPLETION_REQUEST,
           EXPECT_SESSION_COMPLETION_RESPONSE, ESTABLISHED
      <4>2. QED
        BY <3>2, <4>1 DEF Return, Raise
    <3>3. QED
      BY <3>1, <3>2
  <2>4. QED
    BY <2>1, <2>2, <2>3
<1>3. Object(u, owner, role, P)
  BY ProcessIncomingObject DEF Return
<1> HIDE DEF i, resent, named
<1> DEFINE v == SendPending(u)
           t == CheckDeadline(v, now)
<1>4. Ignores(u, v) /\ DOMAIN v = Fields
  <2>0. u = [f \in Fields |-> u[f]]
    BY <1>3 DEF Object
  <2> HIDE DEF u
  <2>1. CASE v = u
    BY <2>0, <2>1 DEF Ignores
  <2>2. CASE v = SendEstablishedPayload(u)
    <3>1. /\ v.role = u.role /\ v.state = u.state /\ v.keys = u.keys /\ DOMAIN v = Fields
          /\ v.outgoingPayloads = u.outgoingPayloads /\ TheirSeq(v) = TheirSeq(u)
      BY <2>0, <2>2 DEF SendEstablishedPayload, Fields, TheirSeq
    <3>2. QED
      BY <3>1 DEF Ignores
  <2>3. QED
    BY <2>1, <2>2 DEF SendPending
<1> HIDE DEF v, u
<1>5. Ignores(v, t)
  <2>1. CASE t = v
    BY <2>1 DEF Ignores
  <2>2. CASE TimedOut(v, now) /\ t = OnTimeout(v, now)
    <3>1. /\ t.role = v.role /\ t.keys = v.keys /\ t.outgoingPayloads = v.outgoingPayloads
          /\ t.seqA2B = v.seqA2B /\ t.seqB2A = v.seqB2A
          /\ t.state \in {v.state, DROPPED} /\ v.state # ESTABLISHED
      BY <1>4, <2>2 DEF OnTimeout, TimedOut, Fields
    <3>2. QED
      BY <3>1 DEF Ignores, TheirSeq, DROPPED, ESTABLISHED
  <2>3. QED
    BY <2>1, <2>2 DEF CheckDeadline
<1>6. CASE s.state = DROPPED
  BY <1>1, <1>6 DEF Update, Return, Hears
<1>7. CASE s.state # DROPPED
  <2>1. Update(s, pdu, fresh, now) = AfterIncoming(i, now)
    BY <1>7 DEF Update, i
  <2>2. CASE i.exn # NoError
    BY <1>2, <2>1, <2>2 DEF AfterIncoming, u
  <2>3. CASE i.exn = NoError
    <3>1. Update(s, pdu, fresh, now).s = t
      BY <2>1, <2>3 DEF AfterIncoming, Return, t, v, u
    <3>2. Hears(s, v, pdu)
      BY <1>2, <1>4, HearsAlike
    <3>3. QED
      BY <1>5, <3>1, <3>2, HearsAlike
  <2>4. QED
    BY <2>2, <2>3
<1>8. QED
  BY <1>6, <1>7


(* D ends in what s has taken from the ciphertexts C: the plaintexts of seq 0, *)
(* 1, ... up to the next one, but for an empty false start (k = 1).            *)
Aligned(s, C, D, k) ==
    /\ TheirSeq(s) - k \in 0..Len(D)
    /\ k = 1 => \E c \in C : Takes(s, c, 0) /\ c.plain = Empty
    /\ \A i \in 1..(TheirSeq(s) - k) :
        \E c \in C : Takes(s, c, k + i - 1) /\ c.plain = D[Len(D) - (TheirSeq(s) - k) + i]

Matches(s, C, D) ==
    /\ s.role = INITIATOR /\ s.state # ESTABLISHED => s.seqB2A = 0
    /\ s.state = ESTABLISHED => \E k \in {0, 1} : Aligned(s, C, D, k)

LEMMA MatchesGrows ==
    ASSUME NEW s, NEW t, NEW C, NEW B, C \subseteq B, NEW D, Matches(s, C, D),
           t.role = s.role, t.state = s.state, t.keys = s.keys,
           t.seqA2B = s.seqA2B, t.seqB2A = s.seqB2A
    PROVE  Matches(t, B, D)
<1>1. \A c, n : Takes(s, c, n) => Takes(t, c, n)
  BY DEF Takes
<1>2. TheirSeq(t) = TheirSeq(s)
  BY DEF TheirSeq
<1>3. QED
  BY <1>1, <1>2 DEF Matches, Aligned

(* One more plaintext, the next one. *)
LEMMA AlignedAppends ==
    ASSUME NEW s, NEW t, TheirSeq(s) \in Nat, NEW C, NEW S, NEW D \in Seq(S),
           NEW k \in {0, 1}, Aligned(s, C, D, k),
           NEW c \in C, Takes(t, c, TheirSeq(s)), TheirSeq(t) = TheirSeq(s) + 1,
           t.role = s.role, t.keys = s.keys
    PROVE  Aligned(t, C, Append(D, c.plain), k)
<1> DEFINE n == TheirSeq(s) - k
           plain == c.plain
           E == Append(D, plain)
<1>1. n \in Nat /\ n <= Len(D) /\ Len(D) \in Nat /\ TheirSeq(t) - k = n + 1
  BY DEF Aligned
<1>2. /\ Len(E) = Len(D) + 1 /\ E[Len(D) + 1] = plain
      /\ \A i \in 1..Len(D) : E[i] = D[i]
  OBVIOUS
<1>3. \A d, m : Takes(s, d, m) => Takes(t, d, m)
  BY DEF Takes
<1>4. k = 1 => \E d \in C : Takes(t, d, 0) /\ d.plain = Empty
  BY <1>3 DEF Aligned
<1> HIDE DEF E
<1>5. ASSUME NEW i \in 1..(n + 1)
      PROVE  \E d \in C : Takes(t, d, k + i - 1) /\ d.plain = E[Len(E) - (n + 1) + i]
  <2>1. CASE i = n + 1
    <3>1. Len(E) - (n + 1) + i = Len(D) + 1 /\ k + i - 1 = TheirSeq(s)
      BY <1>1, <1>2, <2>1
    <3>2. QED
      BY <1>2, <3>1
  <2>2. CASE i \in 1..n
    <3>1. Len(E) - (n + 1) + i = Len(D) - n + i /\ Len(D) - n + i \in 1..Len(D)
      BY <1>1, <1>2, <2>2
    <3>2. PICK d \in C : Takes(s, d, k + i - 1) /\ d.plain = D[Len(D) - n + i]
      BY <2>2 DEF Aligned
    <3>3. QED
      BY <1>2, <1>3, <3>1, <3>2
  <2>3. QED
    BY <1>1, <2>1, <2>2
<1>6. n + 1 \in 0..Len(E)
  BY <1>1, <1>2
<1>7. QED
  BY <1>1, <1>4, <1>5, <1>6 DEF Aligned, E

(* A call, and what it hands over after D. *)
LEMMA HearsMatches ==
    ASSUME NEW s, NEW t, NEW pdu, Hears(s, t, pdu), s.outgoingPayloads = <<>>,
           TheirSeq(s) \in Nat, NEW C, NEW S, NEW D \in Seq(S), Matches(s, C, D),
           pdu \notin {None, Malformed} => CiphertextsIn(pdu) \subseteq C
    PROVE  Matches(t, C, D \o t.outgoingPayloads)
<1>1. CASE Ignores(s, t)
  <2>1. D \o t.outgoingPayloads = D
    BY <1>1 DEF Ignores
  <2>2. TheirSeq(t) = TheirSeq(s) /\ t.role = s.role
    BY <1>1 DEF Ignores
  <2>3. CASE s.state # ESTABLISHED
    BY <1>1, <2>2, <2>3 DEF Ignores, Matches, TheirSeq
  <2>4. CASE s.state = ESTABLISHED
    <3>1. t.keys = s.keys /\ t.state = ESTABLISHED
      BY <1>1, <2>4 DEF Ignores
    <3>2. \A c, n : Takes(s, c, n) => Takes(t, c, n)
      BY <2>2, <3>1 DEF Takes
    <3>3. QED
      BY <2>1, <2>2, <2>4, <3>1, <3>2 DEF Matches, Aligned
  <2>5. QED
    BY <2>3, <2>4
<1>2. CASE BeginsMute(s, t)
  <2>1. D \o t.outgoingPayloads = D /\ Len(D) \in Nat
    BY <1>2 DEF BeginsMute
  <2>2. TheirSeq(t) = 0 /\ t.state = ESTABLISHED
    BY <1>2 DEF BeginsMute, Matches, TheirSeq
  <2>3. Aligned(t, C, D, 0)
    BY <2>1, <2>2 DEF Aligned
  <2>4. QED
    BY <2>1, <2>2, <2>3 DEF Matches
<1>3. ASSUME NEW c \in C, Begins(s, t, c) PROVE Matches(t, C, D \o t.outgoingPayloads)
  <2>1. t.state = ESTABLISHED /\ Takes(t, c, 0) /\ TheirSeq(t) = 1 /\ Len(D) \in Nat
    BY <1>3 DEF Begins
  <2>2. CASE c.plain = Empty /\ t.outgoingPayloads = <<>>
    <3>1. D \o t.outgoingPayloads = D
      BY <2>2
    <3>2. Aligned(t, C, D, 1)
      BY <2>1, <2>2 DEF Aligned
    <3>3. QED
      BY <2>1, <3>1, <3>2 DEF Matches
  <2>3. CASE t.outgoingPayloads = Append(<<>>, c.plain)
    <3> DEFINE plain == c.plain
               E == Append(D, plain)
    <3>1. D \o t.outgoingPayloads = E
      BY <2>3
    <3>2. Len(E) = Len(D) + 1 /\ E[Len(D) + 1] = plain
      OBVIOUS
    <3> HIDE DEF E
    <3>3. Aligned(t, C, E, 0)
      <4>1. \A i \in 1..1 : i = 1 /\ Len(E) - 1 + i = Len(D) + 1 /\ 0 + i - 1 = 0
        BY <2>1, <3>2
      <4>2. TheirSeq(t) - 0 = 1 /\ 1 \in 0..Len(E)
        BY <2>1, <3>2
      <4>3. QED
        BY <2>1, <3>2, <4>1, <4>2 DEF Aligned
    <3>4. QED
      BY <2>1, <3>1, <3>3 DEF Matches
  <2>4. QED
    BY <1>3, <2>2, <2>3 DEF Begins
<1>4. ASSUME NEW c \in C, Receives(s, t, c)
      PROVE  Matches(t, C, D \o t.outgoingPayloads)
  <2> DEFINE plain == c.plain
             E == Append(D, plain)
  <2>1. D \o t.outgoingPayloads = E
    BY <1>4 DEF Receives
  <2>2. PICK k \in {0, 1} : Aligned(s, C, D, k)
    BY <1>4 DEF Receives, Matches
  <2>3. Aligned(t, C, Append(D, c.plain), k) /\ t.state = ESTABLISHED
    BY <1>4, <2>2, AlignedAppends DEF Receives
  <2>4. QED
    BY <2>1, <2>3 DEF Matches
<1>5. QED
  BY <1>1, <1>2, <1>3, <1>4 DEF Hears

-----------------------------------------------------------------------------
(* What a session does with the payloads posted to it. *)

(* A completion request's ciphertext of no payload: never handed over. *)
Blank(c) == c.dir = "a2b" /\ c.seq = 0 /\ c.plain = Empty

(* The payloads 1..k of p. *)
Posts(p, k) == {p} \X (1..k)

(* The ciphertexts C of one direction hold no payload twice under any keys. *)
NoneTwice(C) ==
    \A c, d \in C : c.keys = d.keys /\ c.plain = d.plain => c = d \/ Blank(c) \/ Blank(d)

(* The payload that waits has not been encrypted under the session's keys. *)
Unspent(s, C) ==
    s.state \in KeyedState /\ s.pending # None =>
        \A c \in C : c.keys = s.keys => Blank(c) \/ c.plain # s.pending

(* W is what was sent in the session's direction, P what was posted. *)
Spends(s, W, P) ==
    LET C == CiphertextsAmong(Out(s, W))
    IN /\ s.pending \in P \cup {None}
       /\ \A c \in C : Blank(c) \/ c.plain \in P
       /\ NoneTwice(C)
       /\ Unspent(s, C)

(* A step that encrypts nothing. *)
LEMMA SpendsKept ==
    ASSUME NEW s, NEW t, NEW W, NEW P, Spends(s, W, P),
           CiphertextsAmong(Out(t, W)) = CiphertextsAmong(Out(s, W)),
           \/ t.pending = None
           \/ /\ t.pending = s.pending
              /\ t.state \notin KeyedState \/ (s.state \in KeyedState /\ t.keys = s.keys)
    PROVE  Spends(t, W, P)
BY DEF Spends, Unspent

(* A step that encrypts the waiting payload, if any. *)
LEMMA SpendsOne ==
    ASSUME NEW s, NEW t, NEW W, NEW P, Spends(s, W, P), NEW e,
           CiphertextsAmong(Out(t, W)) = CiphertextsAmong(Out(s, W)) \cup {e},
           t.pending = None,
           \/ Blank(e)
           \/ /\ s.pending # None /\ e.plain = s.pending
              /\ \A c \in CiphertextsAmong(Out(s, W)) :
                    c.keys = e.keys => Blank(c) \/ c.plain # e.plain
    PROVE  Spends(t, W, P)
<1> DEFINE C == CiphertextsAmong(Out(s, W))
<1>1. /\ NoneTwice(C) /\ \A c \in C : Blank(c) \/ c.plain \in P
      /\ Blank(e) \/ e.plain \in P
  BY DEF Spends
<1>2. CiphertextsAmong(Out(t, W)) = C \cup {e}
  OBVIOUS
<1>3. \A c \in C : c.keys = e.keys /\ c.plain = e.plain => Blank(c) \/ Blank(e)
  OBVIOUS
<1> HIDE DEF C
<1>4. NoneTwice(C \cup {e})
  BY <1>1, <1>3 DEF NoneTwice
<1>5. QED
  BY <1>1, <1>2, <1>4 DEF Spends, Unspent

(* Queueing one PDU. *)
LEMMA QueueOut ==
    ASSUME NEW s, NEW t, NEW x, NEW W, Queued(s), t.outgoingPdus = Queue(s, x)
    PROVE  CiphertextsAmong(Out(t, W)) = CiphertextsAmong(Out(s, W)) \cup CiphertextsIn(x)
<1>1. Out(t, W) = Out(s, W) \cup {x}
  BY QueueAdds DEF Queued, Out
<1>2. QED
  BY <1>1, AmongAdds

LEMMA NoncesQueued ==
    ASSUME NEW s, NEW W, NEW owner, NEW role, NEW n, Nonces(s, W, owner, role, n)
    PROVE  Queued(s)
BY DEF Nonces, Queued

LEMMA SpendsResend ==
    ASSUME NEW s, NEW t, NEW W, NEW P, Spends(s, W, P),
           NEW owner, NEW role, NEW n, Nonces(s, W, owner, role, n),
           s.lastSent # None, t.outgoingPdus = Queue(s, s.lastSent),
           t.pending = s.pending, t.state = s.state, t.keys = s.keys
    PROVE  Spends(t, W, P)
<1>1. s.lastSent \in Out(s, W) /\ s.outgoingPdus \in Seq(Range(s.outgoingPdus))
  BY DEF Nonces
<1>2. CiphertextsIn(s.lastSent) \subseteq CiphertextsAmong(Out(s, W))
  BY <1>1 DEF CiphertextsAmong
<1>3. CiphertextsAmong(Out(t, W)) = CiphertextsAmong(Out(s, W)) \cup CiphertextsIn(s.lastSent)
  BY <1>1, QueueOut DEF Queued
<1>4. CiphertextsAmong(Out(t, W)) = CiphertextsAmong(Out(s, W))
  BY <1>2, <1>3
<1>5. QED
  BY <1>4, SpendsKept

LEMMA HandleSessionInitRequestSpends ==
    ASSUME NEW owner, NEW role, NEW Q, NEW s, Object(s, owner, role, Q),
           NEW W, NEW P, Spends(s, W, P), Queued(s),
           NEW m, NEW fresh, NEW now, SessionInitRequestError(s, m) = NoError
    PROVE  Spends(HandleSessionInitRequest(s, m, fresh, now).s, W, P)
<1> DEFINE t == HandleSessionInitRequest(s, m, fresh, now).s
           resp == SessionInitResponse(s.cid, PublicKey(fresh, m.pkA.level),
                       Encapsulate(m.pkA, <<"s2", fresh>>),
                       Encapsulate(StaticKey(m.keyIdA), <<"s3", fresh>>),
                       fresh, ChosenAead(s.owner, m.aeads))
<1>1. /\ t.outgoingPdus = Queue(s, resp) /\ t.pending = s.pending
      /\ t.state = EXPECT_SESSION_COMPLETION_REQUEST
  BY DEF HandleSessionInitRequest, Return, Object, Fields
<1>2. CiphertextsIn(resp) = {}
  BY DEF CiphertextsIn, SessionInitResponse
<1> HIDE DEF t, resp
<1>3. CiphertextsAmong(Out(t, W)) = CiphertextsAmong(Out(s, W))
  BY <1>1, <1>2, QueueOut
<1>4. t.state \notin KeyedState
  BY <1>1 DEF KeyedState, EXPECT_SESSION_COMPLETION_REQUEST,
              EXPECT_SESSION_COMPLETION_RESPONSE, ESTABLISHED
<1>5. Spends(t, W, P)
  BY <1>1, <1>2, <1>3, <1>4, SpendsKept
<1>6. QED
  BY <1>5 DEF t

(* The false start is the first ciphertext under its keys. *)
LEMMA HandleSessionInitResponseSpends ==
    ASSUME NEW owner, NEW role, NEW Q, NEW s, Object(s, owner, role, Q),
           NEW W, NEW P, Spends(s, W, P),
           NEW n \in Nat, Nonces(s, W, owner, role, n), role = INITIATOR,
           NEW m, NEW now, SessionInitResponseError(s, m) = NoError
    PROVE  Spends(HandleSessionInitResponse(s, m, <<owner, n + 1>>, now).s, W, P)
<1> DEFINE fresh == <<owner, n + 1>>
           t == HandleSessionInitResponse(s, m, fresh, now).s
           keys == SessionKeys(fresh, m.nB, s.owner, s.s1,
                       Decapsulate(s.ephemeral, m.ct2),
                       Decapsulate(StaticSeed(s.owner), m.ct3),
                       <<"s4", fresh>>, m.aead)
           plain == IF s.pending = None THEN Empty ELSE s.pending
           cM == Encrypt(keys, "a2b", 0, plain, s.cid)
           req == SessionCompletionRequest(s.cid, cM,
                      Encapsulate(m.pkB, <<"s4", fresh>>), fresh)
<1>1. t.outgoingPdus = Queue(s, req) /\ t.pending = None
  BY DEF HandleSessionInitResponse, Return, Object, Fields
<1>2. CiphertextsIn(req) = {cM}
  BY DEF CiphertextsIn, SessionCompletionRequest
<1>3. cM.keys.nA = fresh /\ cM.seq = 0 /\ cM.dir = "a2b" /\ cM.plain = plain
  BY DEF Encrypt, SessionKeys
<1>4. Blank(cM) \/ (s.pending # None /\ cM.plain = s.pending)
  BY <1>3 DEF Blank
<1> HIDE DEF t, req, cM, fresh
<1>5. CiphertextsAmong(Out(t, W)) = CiphertextsAmong(Out(s, W)) \cup {cM}
  <2>1. Queued(s)
    BY NoncesQueued
  <2>2. CiphertextsAmong(Out(t, W)) = CiphertextsAmong(Out(s, W)) \cup CiphertextsIn(req)
    BY <1>1, <2>1, QueueOut
  <2>3. QED
    BY <1>2, <2>2
<1>6. \A c \in CiphertextsAmong(Out(s, W)) : c.keys.nA # fresh
  <2>1. fresh \notin Drawn(owner, n)
    BY DrawnGrows DEF fresh
  <2>2. QED
    BY <2>1 DEF Nonces, OwnCiphertexts, OwnDraw
<1>7. Spends(t, W, P)
  BY <1>1, <1>3, <1>4, <1>5, <1>6, SpendsOne
<1>8. QED
  BY <1>7 DEF t, fresh

(* So is the reply of a responder. *)
LEMMA HandleSessionCompletionRequestSpends ==
    ASSUME NEW owner, NEW role, NEW Q, NEW s, Object(s, owner, role, Q),
           NEW W, NEW P, Spends(s, W, P),
           NEW n, Nonces(s, W, owner, role, n), NEW m,
           s.state = EXPECT_SESSION_COMPLETION_REQUEST,
           SessionCompletionRequestError(s, m) = NoError
    PROVE  Spends(HandleSessionCompletionRequest(s, m).s, W, P)
<1> DEFINE t == HandleSessionCompletionRequest(s, m).s
           keys == ResponderKeys(s, m)
           made == Encrypt(keys, "b2a", 0, s.pending, s.cid)
           reply == IF s.pending = None THEN None ELSE made
           resp == SessionCompletionResponse(s.cid, Sha256(m.cM.plain), reply)
<1>1. t.outgoingPdus = Queue(s, resp) /\ t.pending = None
  BY DEF HandleSessionCompletionRequest, Return, Object, Fields
<1>2. CiphertextsIn(resp) = {reply} \ {None}
  BY DEF CiphertextsIn, SessionCompletionResponse
<1>3. made.keys.nB = s.nB /\ made.plain = s.pending
  BY DEF Encrypt, ResponderKeys, SessionKeys
<1>4. \A c \in CiphertextsAmong(Out(s, W)) : c.keys.nB # s.nB
  BY DEF Nonces, Ahead
<1>5. reply = None \/ (s.pending # None /\ reply = made)
  OBVIOUS
<1> HIDE DEF t, resp, reply, made
<1>6. CiphertextsAmong(Out(t, W)) = CiphertextsAmong(Out(s, W)) \cup ({reply} \ {None})
  <2>1. Queued(s)
    BY NoncesQueued
  <2>2. CiphertextsAmong(Out(t, W)) = CiphertextsAmong(Out(s, W)) \cup CiphertextsIn(resp)
    BY <1>1, <2>1, QueueOut
  <2>3. QED
    BY <1>2, <2>2
<1>7. Spends(t, W, P)
  <2>1. CASE reply = None
    <3>1. CiphertextsAmong(Out(t, W)) = CiphertextsAmong(Out(s, W))
      BY <1>6, <2>1
    <3>2. QED
      BY <1>1, <3>1, SpendsKept
  <2>2. CASE reply # None
    <3>1. CiphertextsAmong(Out(t, W)) = CiphertextsAmong(Out(s, W)) \cup {made}
      BY <1>5, <1>6, <2>2
    <3>2. QED
      BY <1>1, <1>3, <1>4, <1>5, <2>2, <3>1, SpendsOne
  <2>3. QED
    BY <2>1, <2>2
<1>8. QED
  BY <1>7 DEF t

LEMMA SendPendingSpends ==
    ASSUME NEW owner, NEW role, NEW Q, NEW s, Object(s, owner, role, Q),
           NEW W, NEW P, Spends(s, W, P), Queued(s)
    PROVE  Spends(SendPending(s), W, P) /\ Queued(SendPending(s))
<1>1. CASE ~(s.state = ESTABLISHED /\ s.pending # None)
  BY <1>1 DEF SendPending
<1>2. CASE s.state = ESTABLISHED /\ s.pending # None
  <2> DEFINE t == SendPending(s)
             mine == IF s.role = INITIATOR THEN "a2b" ELSE "b2a"
             seq == IF s.role = INITIATOR THEN s.seqA2B ELSE s.seqB2A
             made == Encrypt(s.keys, mine, seq, s.pending, s.cid)
             pdu == Message(s.cid, seq, made)
  <2>1. t.outgoingPdus = Queue(s, pdu) /\ t.pending = None
    BY <1>2 DEF SendPending, SendEstablishedPayload, Object, Fields
  <2>2. CiphertextsIn(pdu) = {made}
    BY DEF CiphertextsIn, Message
  <2>3. made.keys = s.keys /\ made.plain = s.pending
    BY DEF Encrypt
  <2> HIDE DEF made, pdu, t
  <2>4. CiphertextsAmong(Out(t, W)) = CiphertextsAmong(Out(s, W)) \cup {made}
    <3>1. CiphertextsAmong(Out(t, W)) = CiphertextsAmong(Out(s, W)) \cup CiphertextsIn(pdu)
      BY <2>1, QueueOut
    <3>2. QED
      BY <2>2, <3>1
  <2>5. \A c \in CiphertextsAmong(Out(s, W)) : c.keys = made.keys =>
            Blank(c) \/ c.plain # made.plain
    BY <1>2, <2>3 DEF Spends, Unspent, KeyedState
  <2>6. Spends(t, W, P)
    BY <1>2, <2>1, <2>3, <2>4, <2>5, SpendsOne
  <2>7. Queued(t)
    BY <2>1, QueueAdds DEF Queued
  <2>8. QED
    BY <2>6, <2>7 DEF t
<1>3. QED
  BY <1>1, <1>2

(* A payload newly posted; P grows by it. *)
LEMMA PostPayloadSpends ==
    ASSUME NEW owner, NEW role, NEW Q, NEW s, Object(s, owner, role, Q),
           NEW W, NEW P, Spends(s, W, P), NEW payload, payload \notin P
    PROVE  Spends(PostPayload(s, payload), W, P \cup {payload})
<1> DEFINE t == PostPayload(s, payload)
<1>1. t.outgoingPdus = s.outgoingPdus /\ t.pending = payload
  BY DEF PostPayload, Object, Fields
<1> HIDE DEF t
<1>2. Out(t, W) = Out(s, W)
  BY <1>1 DEF Out
<1>3. Spends(t, W, P \cup {payload})
  BY <1>1, <1>2 DEF Spends, Unspent
<1>4. QED
  BY <1>3 DEF t

LEMMA CheckDeadlineSpends ==
    ASSUME NEW owner, NEW role, NEW Q, NEW s, Object(s, owner, role, Q),
           NEW W, NEW P, Spends(s, W, P), NEW n, Nonces(s, W, owner, role, n), NEW now
    PROVE  Spends(CheckDeadline(s, now), W, P)
<1> DEFINE t == CheckDeadline(s, now)
<1>1. CASE t = s
  BY <1>1
<1>2. CASE /\ t.outgoingPdus = s.outgoingPdus /\ t.pending = s.pending
           /\ t.state = DROPPED \/ (t.state = s.state /\ t.keys = s.keys)
  <2> HIDE DEF t
  <2>1. Out(t, W) = Out(s, W)
    BY <1>2 DEF Out
  <2>2. DROPPED \notin KeyedState
    BY DEF KeyedState, DROPPED, EXPECT_SESSION_COMPLETION_RESPONSE, ESTABLISHED
  <2>3. Spends(t, W, P)
    BY <1>2, <2>1, <2>2, SpendsKept
  <2>4. QED
    BY <2>3 DEF t
<1>3. CASE /\ s.lastSent # None /\ t.outgoingPdus = Queue(s, s.lastSent)
           /\ t.pending = s.pending /\ t.state = s.state /\ t.keys = s.keys
  <2> HIDE DEF t
  <2>1. Spends(t, W, P)
    BY <1>3, SpendsResend
  <2>2. QED
    BY <2>1 DEF t
<1>4. t = s \/ t = OnTimeout(s, now)
  BY DEF CheckDeadline
<1>5. CASE t = OnTimeout(s, now) /\ (s.role = RESPONDER \/ s.attempts >= MaxRetries)
  <2>1. /\ t.outgoingPdus = s.outgoingPdus /\ t.pending = s.pending
        /\ t.state = DROPPED
    BY <1>5 DEF OnTimeout, Object, Fields
  <2>2. QED
    BY <1>2, <2>1
<1>6. CASE t = OnTimeout(s, now) /\ ~(s.role = RESPONDER \/ s.attempts >= MaxRetries)
  <2>1. /\ t.outgoingPdus = IF s.lastSent = None THEN s.outgoingPdus
                            ELSE Queue(s, s.lastSent)
        /\ t.pending = s.pending /\ t.state = s.state /\ t.keys = s.keys
    BY <1>6 DEF OnTimeout, Object, Fields
  <2>2. QED
    BY <1>2, <1>3, <2>1
<1>7. QED
  BY <1>1, <1>4, <1>5, <1>6

LEMMA ProcessIncomingSpends ==
    ASSUME NEW owner \in Party, NEW role, NEW Q, NEW s, Object(s, owner, role, Q),
           NEW W, NEW P, Spends(s, W, P),
           NEW n \in Nat, Nonces(s, W, owner, role, n), NEW pdu, NEW now
    PROVE  Spends(ProcessIncoming(s, pdu, <<owner, n + 1>>, now).s, W, P)
<1> DEFINE fresh == <<owner, n + 1>>
           r == ProcessIncoming(s, pdu, fresh, now)
           resent == [s EXCEPT !.outgoingPdus = Queue(s, s.lastSent)]
           named == [s EXCEPT !.cid = pdu.cid]
<1>1. CASE r.s = s
  BY <1>1
<1>2. CASE s.lastSent # None /\ r.s = resent
  <2>1. /\ resent.outgoingPdus = Queue(s, s.lastSent)
        /\ resent.pending = s.pending /\ resent.state = s.state /\ resent.keys = s.keys
    BY DEF Object, Fields
  <2> HIDE DEF resent
  <2>2. Spends(resent, W, P)
    BY <1>2, <2>1, SpendsResend
  <2>3. QED
    BY <1>2, <2>2
<1>3. CASE /\ s.state = INITIAL /\ s.role = RESPONDER
           /\ r = HandleSessionInitRequest(named, pdu, fresh, now)
  <2>1. /\ Object(named, owner, role, Q)
        /\ named.state = s.state /\ named.keys = s.keys /\ named.pending = s.pending
        /\ named.outgoingPdus = s.outgoingPdus
    BY DEF Object, Fields
  <2> HIDE DEF named
  <2>2. Out(named, W) = Out(s, W) /\ Queued(named)
    BY <2>1 DEF Out, Nonces, Queued
  <2>3. Spends(named, W, P)
    BY <2>1, <2>2, SpendsKept
  <2>4. CASE SessionInitRequestError(named, pdu) # NoError
    BY <1>3, <2>3, <2>4 DEF HandleSessionInitRequest, Raise
  <2>5. CASE SessionInitRequestError(named, pdu) = NoError
    BY <1>3, <2>1, <2>2, <2>3, <2>5, HandleSessionInitRequestSpends
  <2>6. QED
    BY <2>4, <2>5
<1>4. CASE /\ s.state = EXPECT_SESSION_INIT_RESPONSE
           /\ r = HandleSessionInitResponse(s, pdu, fresh, now)
  <2>1. role = INITIATOR
    BY <1>4 DEF Object, ResponderState, INITIAL, ESTABLISHED, DROPPED,
                EXPECT_SESSION_INIT_RESPONSE, EXPECT_SESSION_COMPLETION_REQUEST
  <2>2. CASE SessionInitResponseError(s, pdu) # NoError
    BY <1>1, <1>4, <2>2 DEF HandleSessionInitResponse, Raise
  <2>3. CASE SessionInitResponseError(s, pdu) = NoError
    BY <1>4, <2>1, <2>3, HandleSessionInitResponseSpends
  <2>4. QED
    BY <2>2, <2>3
<1>5. CASE /\ s.state = EXPECT_SESSION_COMPLETION_REQUEST
           /\ r = HandleSessionCompletionRequest(s, pdu)
  <2>1. CASE SessionCompletionRequestError(s, pdu) # NoError
    BY <1>1, <1>5, <2>1 DEF HandleSessionCompletionRequest, Raise
  <2>2. CASE SessionCompletionRequestError(s, pdu) = NoError
    BY <1>5, <2>2, HandleSessionCompletionRequestSpends
  <2>3. QED
    BY <2>1, <2>2
<1>6. CASE /\ s.state = EXPECT_SESSION_COMPLETION_RESPONSE
           /\ r = HandleSessionCompletionResponse(s, pdu)
  <2>1. CASE SessionCompletionResponseError(s, pdu) # NoError
    BY <1>1, <1>6, <2>1 DEF HandleSessionCompletionResponse, Raise
  <2>2. CASE SessionCompletionResponseError(s, pdu) = NoError
    <3> DEFINE t == HandleSessionCompletionResponse(s, pdu).s
    <3>1. /\ t.keys = s.keys /\ t.pending = s.pending /\ t.outgoingPdus = s.outgoingPdus
      BY <2>2 DEF HandleSessionCompletionResponse, Return, Object, Fields
    <3> HIDE DEF t
    <3>2. Out(t, W) = Out(s, W) /\ s.state \in KeyedState
      BY <1>6, <3>1 DEF Out, KeyedState
    <3>3. Spends(t, W, P)
      BY <3>1, <3>2, SpendsKept
    <3>4. QED
      BY <1>6, <3>3 DEF t
  <2>3. QED
    BY <2>1, <2>2
<1>7. CASE s.state = ESTABLISHED /\ r = HandleEstablishedMessage(s, pdu)
  <2>1. CASE EstablishedMessageError(s, pdu) # NoError
    BY <1>1, <1>7, <2>1 DEF HandleEstablishedMessage, Raise
  <2>2. CASE EstablishedMessageError(s, pdu) = NoError
    <3> DEFINE t == HandleEstablishedMessage(s, pdu).s
    <3>1. /\ t.keys = s.keys /\ t.pending = s.pending /\ t.outgoingPdus = s.outgoingPdus
      BY <2>2 DEF HandleEstablishedMessage, Return, Object, Fields
    <3> HIDE DEF t
    <3>2. Out(t, W) = Out(s, W) /\ s.state \in KeyedState
      BY <1>7, <3>1 DEF Out, KeyedState
    <3>3. Spends(t, W, P)
      BY <3>1, <3>2, SpendsKept
    <3>4. QED
      BY <1>7, <3>3 DEF t
  <2>3. QED
    BY <2>1, <2>2
<1>8. QED
  BY <1>1, <1>2, <1>3, <1>4, <1>5, <1>6, <1>7
     DEF ProcessIncoming, Return, Raise, EXPECT_SESSION_INIT_RESPONSE,
         EXPECT_SESSION_COMPLETION_REQUEST, EXPECT_SESSION_COMPLETION_RESPONSE,
         ESTABLISHED

(* update() never encrypts a payload again that it encrypted under its keys. *)
LEMMA UpdateSpends ==
    ASSUME NEW owner \in Party, NEW role, NEW Q, NEW s, Object(s, owner, role, Q),
           NEW W, NEW P, Spends(s, W, P),
           NEW n \in Nat, Nonces(s, W, owner, role, n), NEW pdu, NEW now \in Nat
    PROVE  Spends(Update(s, pdu, <<owner, n + 1>>, now).s, W, P)
<1> DEFINE fresh == <<owner, n + 1>>
           r == IF pdu = None THEN Return(s) ELSE ProcessIncoming(s, pdu, fresh, now)
           u == SendPending(r.s)
           t == AfterIncoming(r, now).s
<1>1. Object(r.s, owner, role, Q) /\ Spends(r.s, W, P)
  BY ProcessIncomingObject, ProcessIncomingSpends DEF Return
<1>2. PICK m \in {n, n + 1} : Nonces(r.s, W, owner, role, m)
  BY ProcessIncomingNonces DEF Return
<1>3. Update(s, pdu, fresh, now).s \in {s, t}
  BY DEF Update, Return
<1>4. t \in {r.s, CheckDeadline(u, now)}
  BY DEF AfterIncoming, Return
<1> HIDE DEF r, t
<1>5. Object(u, owner, role, Q) /\ Nonces(u, W, owner, role, m) /\ Spends(u, W, P)
  <2>1. Queued(r.s)
    BY <1>2, NoncesQueued
  <2>2. QED
    BY <1>1, <1>2, <2>1, SendPendingObject, SendPendingNonces, SendPendingSpends
<1> HIDE DEF u
<1>6. Spends(CheckDeadline(u, now), W, P)
  BY <1>5, CheckDeadlineSpends
<1>7. QED
  BY <1>1, <1>3, <1>4, <1>6

-----------------------------------------------------------------------------
(* What one call hands over to the application of a session whose queue is     *)
(* drained, and that the ciphertext it comes from was never taken before.      *)

(* Nothing is left to hand over; an established responder has taken its c_m.   *)
Settled(s) ==
    /\ s.outgoingPayloads = <<>>
    /\ s.role = RESPONDER /\ s.state = ESTABLISHED => TheirSeq(s) >= 1

(* What the call returned no longer waits for what it took before. *)
Silent(s, t) ==
    /\ t.role = s.role /\ Settled(t)
    /\ s.state = ESTABLISHED =>
        t.state = ESTABLISHED /\ t.keys = s.keys /\ TheirSeq(t) = TheirSeq(s)

Hands(s, t, c) ==
    /\ t.role = s.role /\ t.state = ESTABLISHED /\ t.outgoingPayloads = <<c.plain>>
    /\ ~Blank(c) /\ Takes(t, c, c.seq) /\ c.seq \in Nat /\ TheirSeq(t) = c.seq + 1
    /\ s.state = ESTABLISHED => t.keys = s.keys /\ TheirSeq(s) = c.seq

LEMMA UpdateHands ==
    ASSUME NEW owner \in Party, NEW role \in {INITIATOR, RESPONDER}, NEW P,
           NEW s, Object(s, owner, role, P), Settled(s),
           NEW pdu, NEW fresh, NEW now \in Nat
    PROVE  LET t == Update(s, pdu, fresh, now).s
           IN \/ Silent(s, t)
              \/ /\ pdu \notin {None, Malformed}
                 /\ \E c \in CiphertextsIn(pdu) : Hands(s, t, c)
<1> DEFINE t == Update(s, pdu, fresh, now).s
<1>1. Hears(s, t, pdu)
  BY UpdateHears
<1>2. s.role \in {INITIATOR, RESPONDER} /\ TheirSeq(s) \in Nat
  BY DEF Object, TheirSeq
<1>3. s.outgoingPayloads = <<>> /\ \A x : Append(<<>>, x) = <<x>>
  BY DEF Settled
<1> HIDE DEF t
<1>4. Ignores(s, t) => Silent(s, t)
  BY DEF Ignores, Silent, Settled
<1>5. BeginsMute(s, t) => Silent(s, t)
  BY DEF BeginsMute, Silent, Settled, INITIATOR, RESPONDER
<1>6. ASSUME NEW c \in CiphertextsIn(pdu), Begins(s, t, c)
      PROVE  Silent(s, t) \/ Hands(s, t, c)
  <2>1. c.seq = 0 /\ c.dir = TheirDir(t.role) /\ Takes(t, c, c.seq)
    BY <1>6 DEF Begins, Takes
  <2>2. CASE t.outgoingPayloads = s.outgoingPayloads
    BY <1>3, <1>6, <2>2 DEF Begins, Silent, Settled
  <2>3. CASE /\ c.plain # Empty \/ s.role = INITIATOR
             /\ t.outgoingPayloads = Append(s.outgoingPayloads, c.plain)
    <3>1. ~Blank(c)
      BY <1>6, <2>1, <2>3 DEF Begins, Blank, TheirDir
    <3>2. QED
      BY <1>3, <1>6, <2>1, <2>3, <3>1 DEF Begins, Hands
  <2>4. QED
    BY <1>6, <2>2, <2>3 DEF Begins
<1>7. ASSUME NEW c \in CiphertextsIn(pdu), Receives(s, t, c)
      PROVE  Hands(s, t, c)
  <2>1. c.seq = TheirSeq(s) /\ c.dir = TheirDir(s.role) /\ Takes(t, c, c.seq)
    BY <1>7 DEF Receives, Takes
  <2>2. ~Blank(c)
    BY <1>2, <1>7, <2>1 DEF Receives, Blank, TheirDir, Settled
  <2>3. QED
    BY <1>2, <1>3, <1>7, <2>1, <2>2 DEF Receives, Hands
<1>8. QED
  BY <1>1, <1>4, <1>5, <1>6, <1>7 DEF Hears, t

(* Draining leaves what was taken. *)
LEMMA DrainedSettled ==
    ASSUME NEW s, NEW t, t = [f \in Fields |-> t[f]], t.role = s.role,
           Silent(s, t) \/ \E c : Hands(s, t, c)
    PROVE  /\ Settled(Drained(t)) /\ Drained(t).role = t.role
           /\ Drained(t).state = t.state /\ Drained(t).keys = t.keys
           /\ TheirSeq(Drained(t)) = TheirSeq(t)
<1> DEFINE u == Drained(t)
<1>1. /\ u.outgoingPayloads = <<>> /\ u.role = t.role /\ u.state = t.state
      /\ u.keys = t.keys /\ TheirSeq(u) = TheirSeq(t)
  BY DEF Drained, Fields, TheirSeq
<1> HIDE DEF u
<1>2. Settled(u)
  BY <1>1 DEF Settled, Silent, Hands
<1>3. QED
  BY <1>1, <1>2 DEF u

=============================================================================
