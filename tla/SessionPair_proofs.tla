-------------------------- MODULE SessionPair_proofs -------------------------
(***************************************************************************)
(* Theorems about the pair of sessions, for any retry limit, TTL, levels,  *)
(* AEAD lists, and any number of payloads and restarts: types, nonces, and *)
(* why two sessions agree on their keys.  Alice makes one request of each  *)
(* kind per cid, so whichever of them Bob has answered under a cid is the  *)
(* one her session under that cid stands on, and Bob takes over the keys a *)
(* request was encrypted under or none.  For the same reason an answer     *)
(* means that Bob was handed the payload of that request, and a message    *)
(* under a cid opens with the keys of it.  Bob in turn makes one answer of *)
(* each kind before he is reset.                                           *)
(***************************************************************************)
EXTENDS SessionPair, Session_proofs, FiniteSetTheorems

(* One party, of whom s is the session, W the wire and n the number of draws. *)
PartyInv(p, s, W, n) ==
    /\ Object(s, p, RoleOf(p), Payload(p))
    /\ s.outgoingPdus = <<>>
    /\ s.outgoingPayloads = <<>>
    /\ Nonces(s, W, p, RoleOf(p), n)

IInv ==
    /\ sess = [p \in Party |-> sess[p]]
    /\ wire = [p \in Party |-> wire[p]]
    /\ posted \in [Party -> 0..MaxPayloads]
    /\ draws \in [Party -> Nat]
    /\ resets \in [Party -> 0..MaxResets]
    /\ \A p \in Party : PartyInv(p, sess[p], wire[p], draws[p])

LEMMA RoleIsRole ==
    /\ INITIATOR # RESPONDER
    /\ RoleOf(Alice) = INITIATOR
    /\ RoleOf(Bob) = RESPONDER
    /\ \A p \in Party : RoleOf(p) \in {INITIATOR, RESPONDER}
BY PairAssumption DEF RoleOf, INITIATOR, RESPONDER

LEMMA NewSessionInv ==
    ASSUME NEW p \in Party, NEW W, NEW n \in Nat,
           OwnCiphertexts(CiphertextsAmong(W), p, RoleOf(p), n)
    PROVE  PartyInv(p, NewSession(p, RoleOf(p)), W, n)
<1> DEFINE s == NewSession(p, RoleOf(p))
<1>1. Object(s, p, RoleOf(p), Payload(p))
  BY RoleIsRole, NewSessionObject
<1>2. s.outgoingPdus = <<>> /\ s.outgoingPayloads = <<>>
  BY DEF NewSession
<1>3. Nonces(s, W, p, RoleOf(p), n)
  BY NewSessionNonces
<1>4. QED
  BY <1>1, <1>2, <1>3 DEF PartyInv

LEMMA InitInv == Init => IInv
<1> SUFFICES ASSUME Init PROVE IInv
  OBVIOUS
<1>1. /\ posted \in [Party -> 0..MaxPayloads]
      /\ draws \in [Party -> Nat]
      /\ resets \in [Party -> 0..MaxResets]
  BY PairAssumption DEF Init
<1>2. sess = [p \in Party |-> sess[p]] /\ wire = [p \in Party |-> wire[p]]
  BY DEF Init
<1>3. ASSUME NEW p \in Party PROVE PartyInv(p, sess[p], wire[p], draws[p])
  <2>1. sess[p] = NewSession(p, RoleOf(p)) /\ wire[p] = {} /\ draws[p] = 0
    BY DEF Init
  <2>2. OwnCiphertexts(CiphertextsAmong({}), p, RoleOf(p), 0)
    BY DEF OwnCiphertexts, CiphertextsAmong
  <2>3. QED
    BY <2>1, <2>2, NewSessionInv
<1>4. QED
  BY <1>1, <1>2, <1>3 DEF IInv

-----------------------------------------------------------------------------
(* A step of p that changes only its session and what it counts. *)
LEMMA LocalStep ==
    ASSUME IInv, NEW p \in Party, NEW t,
           sess' = [sess EXCEPT ![p] = t],
           UNCHANGED <<wire, draws>>,
           posted' \in [Party -> 0..MaxPayloads],
           resets' \in [Party -> 0..MaxResets],
           PartyInv(p, t, wire[p], draws[p])
    PROVE  IInv'
<1>1. /\ sess' = [q \in Party |-> sess'[q]]
      /\ \A q \in Party : sess'[q] = IF q = p THEN t ELSE sess[q]
  BY DEF IInv
<1>2. ASSUME NEW q \in Party PROVE PartyInv(q, sess'[q], wire'[q], draws'[q])
  BY <1>1 DEF IInv
<1>3. QED
  BY <1>1, <1>2 DEF IInv

(* A call of p's caller: the session after it, its queues drained. *)
LEMMA DrainStep ==
    ASSUME IInv, NEW p \in Party, NEW t,
           Drain(p, t), UNCHANGED <<posted, resets>>,
           Object(t, p, RoleOf(p), Payload(p)),
           \/ Nonces(t, wire[p], p, RoleOf(p), draws[p])
           \/ /\ Nonces(t, wire[p], p, RoleOf(p), draws[p] + 1)
              /\ DrewNow(sess[p], t, 0)
    PROVE  IInv'
<1> DEFINE n == IF Drew(sess[p], t) THEN draws[p] + 1 ELSE draws[p]
           W == wire[p] \cup Range(t.outgoingPdus)
<1>1. draws[p] \in Nat /\ n \in Nat
  BY DEF IInv
<1>2. /\ sess' = [q \in Party |-> sess'[q]] /\ wire' = [q \in Party |-> wire'[q]]
      /\ \A q \in Party : /\ sess'[q] = IF q = p THEN Drained(t) ELSE sess[q]
                          /\ wire'[q] = IF q = p THEN W ELSE wire[q]
                          /\ draws'[q] = IF q = p THEN n ELSE draws[q]
  BY DEF Drain, IInv
<1>3. draws' \in [Party -> Nat]
  BY <1>1 DEF Drain, IInv
<1>4. Nonces(t, wire[p], p, RoleOf(p), n)
  <2>1. CASE Nonces(t, wire[p], p, RoleOf(p), draws[p])
    BY <1>1, <2>1, NoncesGrow
  <2>2. CASE /\ Nonces(t, wire[p], p, RoleOf(p), draws[p] + 1)
             /\ DrewNow(sess[p], t, 0)
    BY <2>2 DEF DrewNow, Drew
  <2>3. QED
    BY <2>1, <2>2
<1> HIDE DEF n, W
<1>5. PartyInv(p, Drained(t), W, n)
  BY <1>1, <1>4, DrainedObject, DrainedNonces DEF PartyInv, W
<1>6. ASSUME NEW q \in Party PROVE PartyInv(q, sess'[q], wire'[q], draws'[q])
  BY <1>2, <1>5 DEF IInv
<1>7. QED
  BY <1>2, <1>3, <1>6 DEF IInv

LEMMA UpdateStep ==
    ASSUME IInv, NEW p \in Party, NEW pdu,
           Drain(p, Update(sess[p], pdu, Fresh(p), 0).s),
           UNCHANGED <<posted, resets>>
    PROVE  IInv'
<1> DEFINE t == Update(sess[p], pdu, Fresh(p), 0).s
<1>1. /\ Object(sess[p], p, RoleOf(p), Payload(p))
      /\ Nonces(sess[p], wire[p], p, RoleOf(p), draws[p])
      /\ draws[p] \in Nat
  BY DEF IInv, PartyInv
<1>2. Object(t, p, RoleOf(p), Payload(p))
  BY <1>1, UpdateObject
<1>3. \/ Nonces(t, wire[p], p, RoleOf(p), draws[p])
      \/ /\ Nonces(t, wire[p], p, RoleOf(p), draws[p] + 1)
         /\ DrewNow(sess[p], t, 0)
  BY <1>1, UpdateNonces DEF Fresh
<1>4. QED
  BY <1>2, <1>3, DrainStep

LEMMA NextInv == IInv /\ [Next]_vars => IInv'
<1> SUFFICES ASSUME IInv, [Next]_vars PROVE IInv'
  OBVIOUS
<1>1. CASE StartHandshake
  <2> DEFINE t == Initiate(sess[Alice], Bob, Fresh(Alice), 0).s
  <2>1. Alice \in Party
    BY PairAssumption
  <2>2. /\ Object(sess[Alice], Alice, RoleOf(Alice), Payload(Alice))
        /\ Nonces(sess[Alice], wire[Alice], Alice, RoleOf(Alice), draws[Alice])
        /\ draws[Alice] \in Nat
    BY <2>1 DEF IInv, PartyInv
  <2>3. /\ Object(t, Alice, RoleOf(Alice), Payload(Alice))
        /\ Nonces(t, wire[Alice], Alice, RoleOf(Alice), draws[Alice])
    BY <1>1, <2>2, InitiateObject, InitiateNonces DEF StartHandshake
  <2>4. QED
    BY <1>1, <2>1, <2>3, DrainStep DEF StartHandshake
<1>2. ASSUME NEW p \in Party, Post(p) PROVE IInv'
  <2> DEFINE payload == <<p, posted[p] + 1>>
             t == PostPayload(sess[p], payload)
  <2>1. /\ PartyInv(p, sess[p], wire[p], draws[p])
        /\ draws[p] \in Nat /\ posted[p] \in 0..MaxPayloads
    BY DEF IInv
  <2>2. posted[p] + 1 \in 1..MaxPayloads
    BY <1>2, <2>1, PairAssumption DEF Post
  <2>3. payload \in Payload(p)
    BY <2>2 DEF Payload
  <2>4. t.outgoingPdus = <<>> /\ t.outgoingPayloads = <<>>
    BY <2>1 DEF PartyInv, Object, Fields, PostPayload
  <2>5. PartyInv(p, t, wire[p], draws[p])
    BY <2>1, <2>3, <2>4, PostPayloadObject, PostPayloadNonces DEF PartyInv
  <2>6. sess' = [sess EXCEPT ![p] = t]
    BY <1>2 DEF Post
  <2>7. posted' \in [Party -> 0..MaxPayloads] /\ resets' \in [Party -> 0..MaxResets]
    BY <1>2, <2>2 DEF Post, IInv
  <2>8. UNCHANGED <<wire, draws>>
    BY <1>2 DEF Post
  <2>9. QED
    BY <2>5, <2>6, <2>7, <2>8, LocalStep
<1>3. ASSUME NEW p \in Party, NEW pdu, Deliver(p, pdu) PROVE IInv'
  BY <1>3, UpdateStep DEF Deliver
<1>4. ASSUME NEW p \in Party, Crank(p) PROVE IInv'
  BY <1>4, UpdateStep DEF Crank
<1>5. ASSUME NEW p \in Party, Tick(p) PROVE IInv'
  <2> DEFINE s == sess[p]
             t == [s EXCEPT !.deadline = s.deadline - 1]
  <2>1. PartyInv(p, s, wire[p], draws[p]) /\ draws[p] \in Nat
    BY DEF IInv
  <2>2. /\ sess' = [sess EXCEPT ![p] = t]
        /\ UNCHANGED <<wire, draws>>
        /\ s.deadline # None /\ s.deadline > 0
    BY <1>5 DEF Tick
  <2>3. s.deadline - 1 \in Nat /\ s.deadline - 1 # None
    BY <2>1, <2>2, NoneAssumption DEF PartyInv, Object
  <2>4. Object(t, p, RoleOf(p), Payload(p))
    BY <2>1, <2>2, <2>3 DEF PartyInv, Object, Fields
  <2>5. /\ t.state = s.state /\ t.keys = s.keys /\ t.nB = s.nB
        /\ t.lastSent = s.lastSent /\ t.outgoingPdus = s.outgoingPdus
        /\ t.outgoingPayloads = s.outgoingPayloads /\ OwnSeq(t) = OwnSeq(s)
    BY <2>1 DEF PartyInv, Object, Fields, OwnSeq
  <2> HIDE DEF s, t
  <2>6. Out(t, wire[p]) = Out(s, wire[p])
    BY <2>5 DEF Out
  <2>7. t.outgoingPdus \in Seq(Range(t.outgoingPdus))
    BY <2>1, <2>5 DEF PartyInv, Nonces
  <2>8. Nonces(t, wire[p], p, RoleOf(p), draws[p])
    BY <2>1, <2>5, <2>6, <2>7, NoncesKept DEF PartyInv
  <2>9. PartyInv(p, t, wire[p], draws[p])
    BY <2>1, <2>4, <2>5, <2>8 DEF PartyInv
  <2>10. posted' \in [Party -> 0..MaxPayloads] /\ resets' \in [Party -> 0..MaxResets]
    BY <1>5 DEF Tick, IInv
  <2>11. QED
    BY <2>2, <2>9, <2>10, LocalStep
<1>6. ASSUME NEW p \in Party, Restart(p) PROVE IInv'
  <2> DEFINE t == NewSession(p, RoleOf(p))
  <2>1. PartyInv(p, sess[p], wire[p], draws[p]) /\ draws[p] \in Nat
    BY DEF IInv
  <2>2. Reset(sess[p]) = t
    BY <2>1 DEF PartyInv, Object, Reset
  <2>3. sess' = [sess EXCEPT ![p] = t] /\ UNCHANGED <<wire, draws>>
    BY <1>6, <2>2 DEF Restart
  <2>4. Out(sess[p], wire[p]) = wire[p]
    BY <2>1 DEF PartyInv, Out, Range
  <2>5. OwnCiphertexts(CiphertextsAmong(wire[p]), p, RoleOf(p), draws[p])
    BY <2>1, <2>4 DEF PartyInv, Nonces
  <2>6. PartyInv(p, t, wire[p], draws[p])
    BY <2>1, <2>5, NewSessionInv
  <2>7. posted' \in [Party -> 0..MaxPayloads] /\ resets' \in [Party -> 0..MaxResets]
    BY <1>6, PairAssumption DEF Restart, IInv
  <2>8. QED
    BY <2>3, <2>6, <2>7, LocalStep
<1>7. CASE UNCHANGED vars
  BY <1>7 DEF vars, IInv
<1>8. QED
  BY <1>1, <1>2, <1>3, <1>4, <1>5, <1>6, <1>7 DEF Next

-----------------------------------------------------------------------------
(* Whatever arrives in whatever order, a Session keeps its owner and role,   *)
(* its retry counter in its bound, a deadline in exactly the states that     *)
(* wait, and keys in the states that encrypt (update and its handlers).      *)
THEOREM SessionTypeCorrect == Spec => []TypeOK
<1>1. IInv => TypeOK
  BY DEF IInv, PartyInv, Object, TypeOK, SessionState, InitiatorState,
         ResponderState, KeyedState
<1>2. QED
  BY InitInv, NextInv, <1>1, PTL DEF Spec

(* No key, direction and seq ever encrypt two plaintexts: not across a false *)
(* start, a reply payload and the traffic after them, not across retries,    *)
(* duplicates and restarts (_send_established_payload and the two handlers   *)
(* that encrypt).                                                            *)
THEOREM NoncesAreUnique == Spec => []NonceUnique
<1>1. IInv => NonceUnique
  <2> SUFFICES ASSUME IInv, NEW p \in Party, NEW q \in Party,
                      NEW c \in CiphertextsOf(p), NEW d \in CiphertextsOf(q),
                      c.keys = d.keys, c.dir = d.dir, c.seq = d.seq
               PROVE  c = d
    BY DEF NonceUnique, Ciphertexts
  <2>1. ASSUME NEW r \in Party
        PROVE  OwnCiphertexts(CiphertextsOf(r), r, RoleOf(r), draws[r])
    <3>1. PartyInv(r, sess[r], wire[r], draws[r])
      BY DEF IInv
    <3>2. Out(sess[r], wire[r]) = wire[r]
      BY <3>1 DEF PartyInv, Out, Range
    <3>3. QED
      BY <3>1, <3>2 DEF PartyInv, Nonces, CiphertextsOf, CiphertextsAmong
  <2>2. p = q
    <3>1. c.dir = OwnDir(RoleOf(p)) /\ d.dir = OwnDir(RoleOf(q))
      BY <2>1 DEF OwnCiphertexts
    <3>2. RoleOf(p) = RoleOf(q)
      BY <3>1, RoleIsRole DEF OwnDir
    <3>3. QED
      BY <3>2, RoleIsRole, PairAssumption
  <2>3. QED
    BY <2>1, <2>2 DEF OwnCiphertexts
<1>2. QED
  BY InitInv, NextInv, <1>1, PTL DEF Spec

-----------------------------------------------------------------------------
(* Agreement: an answer under a cid belongs to the one request of its kind. *)

(* The completion requests in a set of PDUs. *)
CompletionRequests(X) == {x \in X : x.type = "session_completion_request"}

(* Some completion request of WA for this cid encrypts a payload in D under *)
(* keys in K; and, of any payload, one under these keys.                    *)
Answerable(WA, cid, K, D) ==
    \E x \in CompletionRequests(WA) :
        x.cid = cid /\ x.cM.keys \in K /\ x.cM.plain \in D

Asked(WA, cid, keys) ==
    \E x \in CompletionRequests(WA) : x.cid = cid /\ x.cM.keys = keys

(* Both parties at one level: as every KEM operation of the handshake wants. *)
OneLevel ==
    \A p \in Party : StaticLevel[p] = KemLevel[Alice] /\ KemLevel[p] = KemLevel[Alice]

(* The keys and ciphertexts a PDU carries are then of that level. *)
AtLevel(x) ==
    LET level == KemLevel[Alice]
    IN OneLevel =>
        /\ x.type = "session_init_request" =>
            x.pkA.level = level /\ x.ct1.to.level = level
        /\ x.type = "session_init_response" =>
            x.pkB.level = level /\ x.ct2.to.level = level /\ x.ct3.to.level = level
        /\ x.type = "session_completion_request" => x.ct4.to.level = level

(* A message is encrypted as its own header says, under these keys. *)
MessageUnder(x, cid, keys, dir) ==
    /\ x.type = "message"
    /\ x.cid = cid
    /\ Decrypts(keys, dir, x.seq, x.m, cid)

(* What a party has sent: of one level, messages under keys Alice asked for. *)
Sent(X, WA, dir) ==
    \A x \in X :
        /\ AtLevel(x)
        /\ x.type = "message" =>
            \E keys : MessageUnder(x, x.cid, keys, dir) /\ Asked(WA, x.cid, keys)

(* One PDU of each kind per cid, however often it was sent. *)
OneEach(X) ==
    \A x, y \in X :
        x.type # "message" /\ x.type = y.type /\ x.cid = y.cid => x = y

(* Alice: her session s, what she has sent W, her draws n, the keys K Bob has *)
(* confirmed and the payloads D he was handed.                                *)
AliceInv(s, W, n, K, D) ==
    /\ Sent(Out(s, W), Out(s, W), "a2b")
    /\ OneEach(Out(s, W))
    /\ \A x \in Out(s, W) : x.type = "session_init_request" =>
        x.keyIdA = Alice /\ x.cid \in Drawn(Alice, n)
    /\ \A x \in CompletionRequests(Out(s, W)) :
        /\ x.cid \in Drawn(Alice, n)
        /\ x.cM.seq = 0
        /\ x.cM.keys.aead \in AeadsOf(Alice)
    /\ s.state = EXPECT_SESSION_INIT_RESPONSE =>
        /\ s.cid \in Drawn(Alice, n)
        /\ \A x \in CompletionRequests(Out(s, W)) : x.cid # s.cid
    /\ s.state \in KeyedState =>
        Answerable(Out(s, W), s.cid, {s.keys}, {s.plainForHm})
    /\ s.state = ESTABLISHED => s.keys \in K /\ s.plainForHm \in D

(* Bob: his session s, what he has sent W, what Alice has sent WA. *)
BobInv(s, W, WA, K, D) ==
    /\ Sent(Out(s, W), WA, "b2a")
    /\ \A y \in Out(s, W) :
        y.type = "session_completion_response" => Answerable(WA, y.cid, K, D)
    /\ s.state = EXPECT_SESSION_COMPLETION_REQUEST => s.peer = Alice
    /\ s.state = ESTABLISHED => s.keys \in K /\ Asked(WA, s.cid, s.keys)
    /\ \A k \in K :
        /\ k.fA = Alice /\ k.aead \in AeadsOf(Bob)
        /\ \E x \in CompletionRequests(WA) : x.cM.keys = k

(* The payloads Bob's application was handed; a request may carry none. *)
Handed == Range(delivered[Bob]) \cup {Empty}

AgreementInv ==
    /\ IInv
    /\ delivered = [p \in Party |-> delivered[p]]
    /\ delivered[Bob] \in Seq(Range(delivered[Bob]))
    /\ AliceInv(sess[Alice], wire[Alice], draws[Alice], confirmed, Handed)
    /\ BobInv(sess[Bob], wire[Bob], wire[Alice], confirmed, Handed)

-----------------------------------------------------------------------------
LEMMA SentGrows ==
    ASSUME NEW X, NEW WA, NEW WB, NEW dir, WA \subseteq WB, Sent(X, WA, dir)
    PROVE  Sent(X, WB, dir)
<1>1. CompletionRequests(WA) \subseteq CompletionRequests(WB)
  BY DEF CompletionRequests
<1>2. \A cid, keys : Asked(WA, cid, keys) => Asked(WB, cid, keys)
  BY <1>1 DEF Asked
<1>3. QED
  BY <1>2 DEF Sent

(* A PDU of the handshake joins what was sent. *)
LEMMA SentAdds ==
    ASSUME NEW X, NEW WA, NEW WB, NEW dir, WA \subseteq WB, Sent(X, WA, dir),
           NEW x, x.type # "message", AtLevel(x)
    PROVE  Sent(X \cup {x}, WB, dir)
<1>1. Sent(X, WB, dir)
  BY SentGrows
<1>2. QED
  BY <1>1 DEF Sent

(* A PDU of a kind not yet sent under its cid joins what was sent. *)
LEMMA OneMore ==
    ASSUME NEW X, OneEach(X), NEW x,
           \A y \in X : y.type = x.type => y.cid # x.cid
    PROVE  OneEach(X \cup {x})
BY DEF OneEach

LEMMA ObjectRole ==
    ASSUME NEW owner, NEW role, NEW P, NEW s, Object(s, owner, role, P)
    PROVE  s.role = role
BY DEF Object

(* A step that neither learns anything about the handshake nor sends anything *)
(* new of it: established traffic, a resend, a timeout.                       *)
Quiet(s, t, W) ==
    /\ t.state \in {s.state, DROPPED}
    /\ t.cid = s.cid /\ t.keys = s.keys /\ t.peer = s.peer
    /\ t.plainForHm = s.plainForHm
    /\ Out(s, W) \subseteq Out(t, W)
    /\ \A x \in Out(t, W) :
        \/ x \in Out(s, W)
        \/ /\ s.state = ESTABLISHED
           /\ MessageUnder(x, s.cid, s.keys, OwnDir(s.role))

(* Messages join what was sent when their keys were asked for. *)
LEMMA MessagesSent ==
    ASSUME NEW X, NEW Y, NEW WA, NEW dir, Sent(X, WA, dir), NEW cid, NEW keys,
           \A x \in Y : \/ x \in X
                        \/ /\ MessageUnder(x, cid, keys, dir)
                           /\ Asked(WA, cid, keys)
    PROVE  Sent(Y, WA, dir)
<1>1. \A x : MessageUnder(x, cid, keys, dir) => AtLevel(x) /\ x.cid = cid
  BY DEF MessageUnder, AtLevel
<1>2. QED
  BY <1>1 DEF Sent, MessageUnder

LEMMA QuietAlice ==
    ASSUME NEW s, s.role = INITIATOR, NEW t, NEW W, NEW n, NEW K, NEW D,
           Quiet(s, t, W), AliceInv(s, W, n, K, D)
    PROVE  AliceInv(t, W, n, K, D)
<1>1. /\ CompletionRequests(Out(t, W)) = CompletionRequests(Out(s, W))
      /\ \A x \in Out(t, W) : x.type # "message" => x \in Out(s, W)
  BY DEF Quiet, CompletionRequests, MessageUnder
<1>2. /\ t.state = EXPECT_SESSION_INIT_RESPONSE => s.state = t.state
      /\ t.state \in KeyedState => s.state = t.state
      /\ t.state = ESTABLISHED => s.state = t.state
      /\ t.cid = s.cid /\ t.keys = s.keys /\ t.plainForHm = s.plainForHm
  BY DEF Quiet, KeyedState, DROPPED, ESTABLISHED, EXPECT_SESSION_INIT_RESPONSE,
         EXPECT_SESSION_COMPLETION_RESPONSE
<1>3. s.state = ESTABLISHED => Asked(Out(t, W), s.cid, s.keys)
  BY <1>1 DEF AliceInv, KeyedState, Answerable, Asked
<1>4. Sent(Out(t, W), Out(t, W), "a2b")
  <2>1. Sent(Out(s, W), Out(t, W), "a2b")
    BY SentGrows DEF AliceInv, Quiet
  <2>2. QED
    BY <1>3, <2>1, MessagesSent DEF Quiet, OwnDir
<1>5. OneEach(Out(t, W))
  BY <1>1 DEF AliceInv, OneEach
<1>6. QED
  BY <1>1, <1>2, <1>4, <1>5 DEF AliceInv, Answerable

LEMMA QuietBob ==
    ASSUME NEW s, s.role = RESPONDER, NEW t, NEW W, NEW WA, NEW K, NEW D,
           Quiet(s, t, W), BobInv(s, W, WA, K, D)
    PROVE  BobInv(t, W, WA, K, D)
<1>1. \A y \in Out(t, W) : y.type = "session_completion_response" => y \in Out(s, W)
  BY DEF Quiet, MessageUnder
<1>2. /\ t.state = EXPECT_SESSION_COMPLETION_REQUEST => s.state = t.state
      /\ t.state = ESTABLISHED => s.state = t.state
      /\ t.cid = s.cid /\ t.keys = s.keys /\ t.peer = s.peer
  BY DEF Quiet, DROPPED, ESTABLISHED, EXPECT_SESSION_COMPLETION_REQUEST
<1>3. Sent(Out(t, W), WA, "b2a")
  BY MessagesSent, RoleIsRole DEF Quiet, BobInv, OwnDir
<1>4. QED
  BY <1>1, <1>2, <1>3 DEF BobInv

LEMMA ResentQuiet ==
    ASSUME NEW owner, NEW role, NEW P, NEW s, Object(s, owner, role, P),
           NEW W, NEW n, Nonces(s, W, owner, role, n), s.lastSent # None,
           NEW t, t.outgoingPdus = Queue(s, s.lastSent), t.state = s.state,
           t.cid = s.cid, t.keys = s.keys, t.peer = s.peer,
           t.plainForHm = s.plainForHm
    PROVE  Quiet(s, t, W)
<1>1. Out(t, W) = Out(s, W) \cup {s.lastSent}
  BY QueueAdds DEF Nonces, Out
<1>2. QED
  BY <1>1 DEF Quiet, Nonces

LEMMA SendPendingQuiet ==
    ASSUME NEW owner, NEW role, NEW P, NEW s, Object(s, owner, role, P),
           NEW W, NEW n, Nonces(s, W, owner, role, n)
    PROVE  Quiet(s, SendPending(s), W)
<1>1. CASE ~(s.state = ESTABLISHED /\ s.pending # None)
  BY <1>1 DEF SendPending, Quiet
<1>2. CASE s.state = ESTABLISHED /\ s.pending # None
  <2> DEFINE t == SendPending(s)
             mine == IF s.role = INITIATOR THEN "a2b" ELSE "b2a"
             seq == IF s.role = INITIATOR THEN s.seqA2B ELSE s.seqB2A
             pdu == Message(s.cid, seq, Encrypt(s.keys, mine, seq, s.pending, s.cid))
  <2>1. /\ t.state = s.state /\ t.cid = s.cid /\ t.keys = s.keys /\ t.peer = s.peer
        /\ t.plainForHm = s.plainForHm
        /\ t.outgoingPdus = Queue(s, pdu)
    BY <1>2 DEF SendPending, SendEstablishedPayload, Object, Fields
  <2>2. MessageUnder(pdu, s.cid, s.keys, OwnDir(s.role))
    BY DEF Message, MessageUnder, Decrypts, Encrypt, OwnDir
  <2> HIDE DEF t, pdu
  <2>3. Out(t, W) = Out(s, W) \cup {pdu}
    BY <2>1, QueueAdds DEF Nonces, Out
  <2>4. Quiet(s, t, W)
    BY <1>2, <2>1, <2>2, <2>3 DEF Quiet
  <2>5. QED
    BY <2>4 DEF t
<1>3. QED
  BY <1>1, <1>2

LEMMA CheckDeadlineQuiet ==
    ASSUME NEW owner, NEW role, NEW P, NEW s, Object(s, owner, role, P),
           NEW W, NEW n, Nonces(s, W, owner, role, n), NEW now
    PROVE  Quiet(s, CheckDeadline(s, now), W)
<1> DEFINE t == CheckDeadline(s, now)
<1>1. CASE ~TimedOut(s, now)
  BY <1>1 DEF CheckDeadline, Quiet
<1>2. CASE TimedOut(s, now) /\ (s.role = RESPONDER \/ s.attempts >= MaxRetries)
  <2>1. /\ t.state = DROPPED /\ t.cid = s.cid /\ t.keys = s.keys
        /\ t.peer = s.peer /\ t.plainForHm = s.plainForHm
        /\ t.outgoingPdus = s.outgoingPdus
    BY <1>2 DEF CheckDeadline, OnTimeout, Object, Fields
  <2> HIDE DEF t
  <2>2. Quiet(s, t, W)
    BY <2>1 DEF Quiet, Out
  <2>3. QED
    BY <2>2 DEF t
<1>3. CASE TimedOut(s, now) /\ ~(s.role = RESPONDER \/ s.attempts >= MaxRetries)
  <2>1. /\ t.state = s.state /\ t.cid = s.cid /\ t.keys = s.keys
        /\ t.peer = s.peer /\ t.plainForHm = s.plainForHm
        /\ t.outgoingPdus = IF s.lastSent = None THEN s.outgoingPdus
                            ELSE Queue(s, s.lastSent)
    BY <1>3 DEF CheckDeadline, OnTimeout, Object, Fields
  <2> HIDE DEF t
  <2>2. CASE s.lastSent = None
    <3>1. Quiet(s, t, W)
      BY <2>1, <2>2 DEF Quiet, Out
    <3>2. QED
      BY <3>1 DEF t
  <2>3. CASE s.lastSent # None
    <3>1. Quiet(s, t, W)
      BY <2>1, <2>3, ResentQuiet
    <3>2. QED
      BY <3>1 DEF t
  <2>4. QED
    BY <2>2, <2>3
<1>4. QED
  BY <1>1, <1>2, <1>3

LEMMA HandleEstablishedMessageQuiet ==
    ASSUME NEW owner, NEW role, NEW P, NEW s, Object(s, owner, role, P),
           NEW W, NEW m
    PROVE  Quiet(s, HandleEstablishedMessage(s, m).s, W)
<1> DEFINE t == HandleEstablishedMessage(s, m).s
<1>1. CASE EstablishedMessageError(s, m) # NoError
  BY <1>1 DEF HandleEstablishedMessage, Raise, Quiet
<1>2. CASE EstablishedMessageError(s, m) = NoError
  <2>1. /\ t.state = s.state /\ t.cid = s.cid /\ t.keys = s.keys
        /\ t.peer = s.peer /\ t.plainForHm = s.plainForHm
        /\ t.outgoingPdus = s.outgoingPdus
    BY <1>2 DEF HandleEstablishedMessage, Return, Object, Fields
  <2> HIDE DEF t
  <2>2. Quiet(s, t, W)
    BY <2>1 DEF Quiet, Out
  <2>3. QED
    BY <2>2 DEF t
<1>3. QED
  BY <1>1, <1>2

-----------------------------------------------------------------------------
(* Alice's handlers.  Only a request draws a cid of its own ... *)
LEMMA InitiateAlice ==
    ASSUME NEW P, NEW s, Object(s, Alice, INITIATOR, P), s.state = INITIAL,
           NEW W, NEW n \in Nat, NEW K, NEW D, AliceInv(s, W, n, K, D),
           Nonces(s, W, Alice, INITIATOR, n), Alice \in Party, NEW peer
    PROVE  LET t == Initiate(s, peer, <<Alice, n + 1>>, 0).s
           IN \/ AliceInv(t, W, n, K, D)
              \/ /\ AliceInv(t, W, n + 1, K, D)
                 /\ Drew(s, t)
<1> DEFINE fresh == <<Alice, n + 1>>
           t == Initiate(s, peer, fresh, 0).s
           ct1 == Encapsulate(StaticKey(peer), <<"s1", fresh>>)
           req == SessionInitRequest(fresh, ct1, peer,
                      PublicKey(fresh, KemLevel[s.owner]), s.owner, AeadsOf(s.owner))
<1>1. s.role = INITIATOR /\ s.owner = Alice
  BY DEF Object
<1>2. CASE peer \notin KnownPublic[s.owner]
  <2>1. t.state = INITIAL /\ t.outgoingPdus = s.outgoingPdus
    BY <1>1, <1>2 DEF Initiate, Raise, Object, Fields
  <2> HIDE DEF t
  <2>2. Out(t, W) = Out(s, W)
    BY <2>1 DEF Out
  <2>3. AliceInv(t, W, n, K, D)
    BY <2>1, <2>2 DEF AliceInv, KeyedState, INITIAL, ESTABLISHED,
         EXPECT_SESSION_INIT_RESPONSE, EXPECT_SESSION_COMPLETION_RESPONSE
  <2>4. QED
    BY <2>3 DEF t, fresh
<1>3. CASE peer \in KnownPublic[s.owner]
  <2>1. /\ t.state = EXPECT_SESSION_INIT_RESPONSE /\ t.cid = fresh
        /\ t.outgoingPdus = Queue(s, req)
    BY <1>1, <1>3 DEF Initiate, Return, Object, Fields
  <2>2. req.type = "session_init_request" /\ req.keyIdA = Alice /\ req.cid = fresh
    BY <1>1 DEF SessionInitRequest
  <2>3. AtLevel(req)
    <3>1. peer \in Party
      BY <1>1, <1>3, ConfigAssumption
    <3>2. /\ req.pkA.level = KemLevel[Alice]
          /\ req.ct1.to.level = StaticLevel[peer]
      BY <1>1 DEF SessionInitRequest, PublicKey, Encapsulate, StaticKey
    <3>3. QED
      BY <2>2, <3>1, <3>2 DEF AtLevel, OneLevel
  <2>4. /\ Drawn(Alice, n) \subseteq Drawn(Alice, n + 1)
        /\ fresh \in Drawn(Alice, n + 1) /\ fresh \notin Drawn(Alice, n)
    BY DrawnGrows
  <2> HIDE DEF t, req, fresh
  <2>5. Out(t, W) = Out(s, W) \cup {req}
    BY <2>1, QueueAdds DEF Nonces, Out
  <2>6. CompletionRequests(Out(t, W)) = CompletionRequests(Out(s, W))
    BY <2>2, <2>5 DEF CompletionRequests
  <2>7. t.state \notin KeyedState /\ t.state # ESTABLISHED
    BY <2>1 DEF KeyedState, ESTABLISHED, EXPECT_SESSION_INIT_RESPONSE,
                EXPECT_SESSION_COMPLETION_RESPONSE
  <2>8. Sent(Out(t, W), Out(t, W), "a2b")
    BY <2>2, <2>3, <2>5, SentAdds DEF AliceInv
  <2>9. AliceInv(t, W, n + 1, K, D)
    <3>1. \A x \in Out(s, W) : x.type = req.type => x.cid # req.cid
      BY <2>2, <2>4 DEF AliceInv
    <3>2. OneEach(Out(t, W))
      BY <2>5, <3>1, OneMore DEF AliceInv
    <3>3. QED
      BY <2>1, <2>2, <2>4, <2>5, <2>6, <2>7, <2>8, <3>2 DEF AliceInv
  <2>10. Drew(s, t)
    BY <2>1 DEF Drew, INITIAL, EXPECT_SESSION_INIT_RESPONSE
  <2>11. QED
    BY <2>9, <2>10 DEF t, fresh
<1>4. QED
  BY <1>2, <1>3

(* ... and its one completion request, which moves it on. *)
LEMMA HandleSessionInitResponseAlice ==
    ASSUME NEW P, NEW s, Object(s, Alice, INITIATOR, P),
           s.state = EXPECT_SESSION_INIT_RESPONSE,
           NEW W, NEW n \in Nat, NEW K, NEW D, AliceInv(s, W, n, K, D),
           Nonces(s, W, Alice, INITIATOR, n), NEW m, NEW fresh, NEW now,
           m.type = "session_init_response", AtLevel(m)
    PROVE  AliceInv(HandleSessionInitResponse(s, m, fresh, now).s, W, n, K, D)
<1> DEFINE t == HandleSessionInitResponse(s, m, fresh, now).s
           keys == SessionKeys(fresh, m.nB, s.owner, s.s1,
                       Decapsulate(s.ephemeral, m.ct2),
                       Decapsulate(StaticSeed(s.owner), m.ct3),
                       <<"s4", fresh>>, m.aead)
           plain == IF s.pending = None THEN Empty ELSE s.pending
           req == SessionCompletionRequest(s.cid,
                      Encrypt(keys, "a2b", 0, plain, s.cid),
                      Encapsulate(m.pkB, <<"s4", fresh>>), fresh)
<1>1. CASE SessionInitResponseError(s, m) # NoError
  BY <1>1 DEF HandleSessionInitResponse, Raise
<1>2. CASE SessionInitResponseError(s, m) = NoError
  <2>1. /\ t.state = EXPECT_SESSION_COMPLETION_RESPONSE
        /\ t.cid = s.cid /\ t.keys = keys /\ t.plainForHm = plain
        /\ t.outgoingPdus = Queue(s, req)
    BY <1>2 DEF HandleSessionInitResponse, Return, Object, Fields
  <2>2. keys.aead = m.aead
    BY DEF SessionKeys
  <2>3. m.aead \in AeadsOf(Alice)
    BY <1>2 DEF SessionInitResponseError, NoError, ValueError, HandshakeFailed, Object
  <2> HIDE DEF keys, plain
  <2>4. /\ req.type = "session_completion_request" /\ req.cid = s.cid
        /\ req.cM.seq = 0 /\ req.cM.keys = keys /\ req.cM.plain = plain
        /\ AtLevel(req)
    BY DEF SessionCompletionRequest, Encrypt, Encapsulate, AtLevel
  <2> HIDE DEF t, req
  <2>5. Out(t, W) = Out(s, W) \cup {req}
    BY <2>1, QueueAdds DEF Nonces, Out
  <2>6. CompletionRequests(Out(t, W)) = CompletionRequests(Out(s, W)) \cup {req}
    BY <2>4, <2>5 DEF CompletionRequests
  <2>7. /\ s.cid \in Drawn(Alice, n)
        /\ \A x \in CompletionRequests(Out(s, W)) : x.cid # s.cid
    BY DEF AliceInv
  <2>8. Answerable(Out(t, W), t.cid, {t.keys}, {t.plainForHm})
    BY <2>1, <2>4, <2>6 DEF Answerable
  <2>9. t.state # EXPECT_SESSION_INIT_RESPONSE /\ t.state # ESTABLISHED
    BY <2>1 DEF ESTABLISHED, EXPECT_SESSION_INIT_RESPONSE,
                EXPECT_SESSION_COMPLETION_RESPONSE
  <2>10. \A x \in Out(t, W) : x.type = "session_init_request" =>
            x.keyIdA = Alice /\ x.cid \in Drawn(Alice, n)
    BY <2>4, <2>5 DEF AliceInv
  <2>11. \A x \in CompletionRequests(Out(t, W)) :
            /\ x.cid \in Drawn(Alice, n) /\ x.cM.seq = 0
            /\ x.cM.keys.aead \in AeadsOf(Alice)
    BY <2>2, <2>3, <2>4, <2>6, <2>7 DEF AliceInv
  <2>12. OneEach(Out(t, W))
    <3>1. \A x \in Out(s, W) : x.type = req.type => x.cid # req.cid
      BY <2>4, <2>7 DEF CompletionRequests
    <3>2. QED
      BY <2>5, <3>1, OneMore DEF AliceInv
  <2>13. Sent(Out(t, W), Out(t, W), "a2b")
    BY <2>4, <2>5, SentAdds DEF AliceInv
  <2>14. AliceInv(t, W, n, K, D)
    BY <2>8, <2>9, <2>10, <2>11, <2>12, <2>13 DEF AliceInv
  <2>15. QED
    BY <2>14 DEF t
<1>3. QED
  BY <1>1, <1>2

(* The answer names Alice's cid, and she has made one request for it. *)
LEMMA HandleSessionCompletionResponseAlice ==
    ASSUME NEW P, NEW s, Object(s, Alice, INITIATOR, P),
           s.state = EXPECT_SESSION_COMPLETION_RESPONSE,
           NEW W, NEW n \in Nat, NEW K, NEW D, AliceInv(s, W, n, K, D),
           NEW m, m.cid = s.cid, Answerable(Out(s, W), m.cid, K, D)
    PROVE  AliceInv(HandleSessionCompletionResponse(s, m).s, W, n, K, D)
<1> DEFINE t == HandleSessionCompletionResponse(s, m).s
<1>1. CASE SessionCompletionResponseError(s, m) # NoError
  BY <1>1 DEF HandleSessionCompletionResponse, Raise
<1>2. CASE SessionCompletionResponseError(s, m) = NoError
  <2>1. /\ t.state = ESTABLISHED /\ t.cid = s.cid /\ t.keys = s.keys
        /\ t.plainForHm = s.plainForHm /\ t.outgoingPdus = s.outgoingPdus
    BY <1>2 DEF HandleSessionCompletionResponse, Return, Object, Fields
  <2> HIDE DEF t
  <2>2. Out(t, W) = Out(s, W)
    BY <2>1 DEF Out
  <2>3. Answerable(Out(s, W), s.cid, {s.keys}, {s.plainForHm})
    BY DEF AliceInv, KeyedState
  <2>4. s.keys \in K /\ s.plainForHm \in D
    BY <2>3 DEF Answerable, AliceInv, OneEach, CompletionRequests
  <2>5. t.state # EXPECT_SESSION_INIT_RESPONSE
    BY <2>1 DEF ESTABLISHED, EXPECT_SESSION_INIT_RESPONSE
  <2>6. AliceInv(t, W, n, K, D)
    BY <2>1, <2>2, <2>3, <2>4, <2>5 DEF AliceInv
  <2>7. QED
    BY <2>6 DEF t
<1>3. QED
  BY <1>1, <1>2

-----------------------------------------------------------------------------
(* Bob's handlers.  He remembers who asked ... *)
LEMMA HandleSessionInitRequestBob ==
    ASSUME NEW P, NEW s, Object(s, Bob, RESPONDER, P), s.state = INITIAL,
           NEW W, NEW WA, NEW n \in Nat, NEW K, NEW D,
           BobInv(s, W, WA, K, D),
           Nonces(s, W, Bob, RESPONDER, n),
           NEW m, m.type = "session_init_request", AtLevel(m), m.keyIdA = Alice,
           Alice \in Party, NEW fresh, NEW now
    PROVE  BobInv(HandleSessionInitRequest(s, m, fresh, now).s, W, WA, K, D)
<1> DEFINE t == HandleSessionInitRequest(s, m, fresh, now).s
           resp == SessionInitResponse(s.cid, PublicKey(fresh, m.pkA.level),
                       Encapsulate(m.pkA, <<"s2", fresh>>),
                       Encapsulate(StaticKey(m.keyIdA), <<"s3", fresh>>),
                       fresh, ChosenAead(s.owner, m.aeads))
<1>1. CASE SessionInitRequestError(s, m) # NoError
  BY <1>1 DEF HandleSessionInitRequest, Raise
<1>2. CASE SessionInitRequestError(s, m) = NoError
  <2>1. /\ t.state = EXPECT_SESSION_COMPLETION_REQUEST /\ t.peer = Alice
        /\ t.outgoingPdus = Queue(s, resp)
    BY <1>2 DEF HandleSessionInitRequest, Return, Object, Fields
  <2>2. resp.type = "session_init_response"
    BY DEF SessionInitResponse
  <2>3. AtLevel(resp)
    <3>1. /\ resp.pkB.level = m.pkA.level /\ resp.ct2.to = m.pkA
          /\ resp.ct3.to.level = StaticLevel[Alice]
      BY DEF SessionInitResponse, PublicKey, Encapsulate, StaticKey
    <3>2. QED
      BY <2>2, <3>1 DEF AtLevel, OneLevel
  <2> HIDE DEF t, resp
  <2>4. Out(t, W) = Out(s, W) \cup {resp}
    BY <2>1, QueueAdds DEF Nonces, Out
  <2>5. t.state # ESTABLISHED
    BY <2>1 DEF ESTABLISHED, EXPECT_SESSION_COMPLETION_REQUEST
  <2>6. Sent(Out(t, W), WA, "b2a")
    BY <2>2, <2>3, <2>4, SentAdds DEF BobInv
  <2>7. BobInv(t, W, WA, K, D)
    BY <2>1, <2>2, <2>4, <2>5, <2>6 DEF BobInv
  <2>8. QED
    BY <2>7 DEF t
<1>3. QED
  BY <1>1, <1>2

(* What Bob's keys become once he is ESTABLISHED: what `confirmed` collects. *)
ConfirmedBy(t, K) == IF t.state = ESTABLISHED THEN K \cup {t.keys} ELSE K

(* And the payloads his application has, once the queue is drained. *)
HandedBy(t, D) == D \cup Range(t.outgoingPayloads)

LEMMA BobHanded ==
    ASSUME NEW s, NEW W, NEW WA, NEW K, NEW D, NEW E, D \subseteq E,
           BobInv(s, W, WA, K, D)
    PROVE  BobInv(s, W, WA, K, E)
BY DEF BobInv, Answerable

(* ... and takes the keys c_m opened under, or none. *)
LEMMA HandleSessionCompletionRequestBob ==
    ASSUME NEW P, NEW s, Object(s, Bob, RESPONDER, P),
           s.state = EXPECT_SESSION_COMPLETION_REQUEST,
           NEW W, NEW WA, NEW n \in Nat, NEW K, NEW D,
           BobInv(s, W, WA, K, D),
           Nonces(s, W, Bob, RESPONDER, n),
           Empty \in D, s.outgoingPayloads = <<>>,
           NEW m \in CompletionRequests(WA), m.cid = s.cid
    PROVE  LET t == HandleSessionCompletionRequest(s, m).s
           IN BobInv(t, W, WA, ConfirmedBy(t, K), HandedBy(t, D))
<1> DEFINE t == HandleSessionCompletionRequest(s, m).s
           keys == ResponderKeys(s, m)
           reply == IF s.pending = None THEN None
                    ELSE Encrypt(keys, "b2a", 0, s.pending, s.cid)
           resp == SessionCompletionResponse(s.cid, Sha256(m.cM.plain), reply)
<1>1. CASE SessionCompletionRequestError(s, m) # NoError
  <2>1. t = s
    BY <1>1 DEF HandleSessionCompletionRequest, Raise
  <2>2. ConfirmedBy(s, K) = K
    BY DEF ConfirmedBy, ESTABLISHED, EXPECT_SESSION_COMPLETION_REQUEST
  <2>3. QED
    BY <2>1, <2>2, BobHanded DEF HandedBy
<1>2. CASE SessionCompletionRequestError(s, m) = NoError
  <2>1. /\ t.state = ESTABLISHED /\ t.cid = s.cid /\ t.keys = keys
        /\ t.outgoingPdus = Queue(s, resp)
        /\ t.outgoingPayloads = HandedOver(s, m.cM.plain)
    BY <1>2 DEF HandleSessionCompletionRequest, Return, Object, Fields
  <2>2. m.cM.keys = keys
    BY <1>2 DEF SessionCompletionRequestError, Decrypts, NoError, HandshakeFailed,
                ValueError
  <2>3. keys.fA = Alice /\ keys.aead \in AeadsOf(Bob)
    BY DEF ResponderKeys, SessionKeys, BobInv, Object
  <2> HIDE DEF keys, reply
  <2>4. resp.cid = s.cid /\ resp.type = "session_completion_response"
    BY DEF SessionCompletionResponse
  <2> DEFINE E == HandedBy(t, D)
  <2>5. D \subseteq E /\ m.cM.plain \in E
    <3>1. t.outgoingPayloads = IF m.cM.plain = Empty THEN <<>> ELSE <<m.cM.plain>>
      BY <2>1 DEF HandedOver
    <3>2. QED
      BY <3>1 DEF HandedBy, Range
  <2> HIDE DEF t, resp, E
  <2>6. Out(t, W) = Out(s, W) \cup {resp}
    BY <2>1, QueueAdds DEF Nonces, Out
  <2>7. ConfirmedBy(t, K) = K \cup {keys}
    BY <2>1 DEF ConfirmedBy
  <2>8. Asked(WA, s.cid, keys) /\ Answerable(WA, s.cid, K \cup {keys}, E)
    BY <2>2, <2>5 DEF Asked, Answerable
  <2>9. \A y \in Out(t, W) : y.type = "session_completion_response"
           => Answerable(WA, y.cid, K \cup {keys}, E)
    BY <2>4, <2>5, <2>6, <2>8 DEF BobInv, Answerable
  <2>10. \A k \in K \cup {keys} :
           /\ k.fA = Alice /\ k.aead \in AeadsOf(Bob)
           /\ \E x \in CompletionRequests(WA) : x.cM.keys = k
    BY <2>2, <2>3 DEF BobInv
  <2>11. t.state # EXPECT_SESSION_COMPLETION_REQUEST
    BY <2>1 DEF ESTABLISHED, EXPECT_SESSION_COMPLETION_REQUEST
  <2>12. Sent(Out(t, W), WA, "b2a")
    <3>1. AtLevel(resp)
      BY <2>4 DEF AtLevel
    <3>2. QED
      BY <2>4, <2>6, <3>1, SentAdds DEF BobInv
  <2>13. BobInv(t, W, WA, K \cup {keys}, E)
    BY <2>1, <2>8, <2>9, <2>10, <2>11, <2>12 DEF BobInv
  <2>14. QED
    BY <2>7, <2>13 DEF t, E
<1>3. QED
  BY <1>1, <1>2

-----------------------------------------------------------------------------
(* A call of update() on Alice's session: what arrives is what Bob has sent. *)
LEMMA ProcessIncomingAlice ==
    ASSUME NEW P, NEW s, Object(s, Alice, INITIATOR, P),
           NEW W, NEW n \in Nat, NEW K, NEW D,
           AliceInv(s, W, n, K, D),
           Nonces(s, W, Alice, INITIATOR, n), NEW pdu, NEW fresh, NEW now,
           pdu # Malformed => AtLevel(pdu),
           pdu # Malformed /\ pdu.type = "session_completion_response"
              => Answerable(Out(s, W), pdu.cid, K, D)
    PROVE  AliceInv(ProcessIncoming(s, pdu, fresh, now).s, W, n, K, D)
<1> DEFINE r == ProcessIncoming(s, pdu, fresh, now)
           resent == [s EXCEPT !.outgoingPdus = Queue(s, s.lastSent)]
<1>1. CASE r.s = s
  BY <1>1
<1>2. CASE s.lastSent # None /\ r.s = resent
  <2>1. /\ resent.outgoingPdus = Queue(s, s.lastSent) /\ resent.state = s.state
        /\ resent.cid = s.cid /\ resent.keys = s.keys /\ resent.peer = s.peer
        /\ resent.plainForHm = s.plainForHm
    BY DEF Object, Fields
  <2> HIDE DEF resent
  <2>2. Quiet(s, resent, W)
    BY <1>2, <2>1, ResentQuiet
  <2>3. QED
    BY <1>2, <2>2, QuietAlice, ObjectRole
<1>3. CASE /\ s.state = EXPECT_SESSION_INIT_RESPONSE
           /\ pdu # Malformed /\ pdu.type = "session_init_response"
           /\ r = HandleSessionInitResponse(s, pdu, fresh, now)
  BY <1>3, HandleSessionInitResponseAlice
<1>4. CASE /\ s.state = EXPECT_SESSION_COMPLETION_RESPONSE
           /\ pdu # Malformed /\ pdu.cid = s.cid
           /\ pdu.type = "session_completion_response"
           /\ r = HandleSessionCompletionResponse(s, pdu)
  BY <1>4, HandleSessionCompletionResponseAlice
<1>5. CASE r = HandleEstablishedMessage(s, pdu)
  BY <1>5, HandleEstablishedMessageQuiet, QuietAlice, ObjectRole
<1>6. s.role # RESPONDER /\ s.state # EXPECT_SESSION_COMPLETION_REQUEST
  BY DEF Object, InitiatorState, INITIATOR, RESPONDER, INITIAL, ESTABLISHED, DROPPED,
         EXPECT_SESSION_INIT_RESPONSE, EXPECT_SESSION_COMPLETION_REQUEST,
         EXPECT_SESSION_COMPLETION_RESPONSE
<1>7. /\ s.state = EXPECT_SESSION_INIT_RESPONSE
            => ExpectedType(s) = "session_init_response"
      /\ s.state = EXPECT_SESSION_COMPLETION_RESPONSE
            => ExpectedType(s) = "session_completion_response"
  BY DEF ExpectedType, EXPECT_SESSION_INIT_RESPONSE, ESTABLISHED,
         EXPECT_SESSION_COMPLETION_REQUEST, EXPECT_SESSION_COMPLETION_RESPONSE
<1>8. QED
  BY <1>1, <1>2, <1>3, <1>4, <1>5, <1>6, <1>7
     DEF ProcessIncoming, Return, Raise, EXPECT_SESSION_INIT_RESPONSE,
         EXPECT_SESSION_COMPLETION_REQUEST, EXPECT_SESSION_COMPLETION_RESPONSE,
         ESTABLISHED

(* And on Bob's: what arrives is what Alice has sent. *)
LEMMA ProcessIncomingBob ==
    ASSUME NEW P, NEW s, Object(s, Bob, RESPONDER, P),
           NEW W, NEW WA, NEW n \in Nat, NEW K, NEW D,
           BobInv(s, W, WA, K, D), Empty \in D, s.outgoingPayloads = <<>>,
           Nonces(s, W, Bob, RESPONDER, n), NEW fresh, NEW now,
           \A x \in WA :
              AtLevel(x) /\ (x.type = "session_init_request" => x.keyIdA = Alice),
           Alice \in Party,
           NEW pdu \in WA \cup {Malformed}
    PROVE  LET t == ProcessIncoming(s, pdu, fresh, now).s
           IN BobInv(t, W, WA, ConfirmedBy(t, K), HandedBy(t, D))
<1> DEFINE r == ProcessIncoming(s, pdu, fresh, now)
           resent == [s EXCEPT !.outgoingPdus = Queue(s, s.lastSent)]
           named == [s EXCEPT !.cid = pdu.cid]
<1>0. /\ s.role = RESPONDER /\ s.state \in ResponderState
      /\ RESPONDER # INITIATOR
  BY RoleIsRole DEF Object
<1>1. ASSUME NEW t, Quiet(s, t, W)
      PROVE  BobInv(t, W, WA, ConfirmedBy(t, K), HandedBy(t, D))
  <2>1. BobInv(t, W, WA, K, D)
    BY <1>0, <1>1, QuietBob
  <2>2. t.state = ESTABLISHED => t.keys \in K
    BY <2>1 DEF BobInv
  <2>3. ConfirmedBy(t, K) = K
    BY <2>2 DEF ConfirmedBy
  <2>4. QED
    BY <2>1, <2>3, BobHanded DEF HandedBy
<1>2. CASE r.s = s
  <2>1. Quiet(s, s, W)
    BY DEF Quiet
  <2>2. QED
    BY <1>1, <1>2, <2>1
<1>3. CASE s.lastSent # None /\ r.s = resent
  <2>1. /\ resent.outgoingPdus = Queue(s, s.lastSent) /\ resent.state = s.state
        /\ resent.cid = s.cid /\ resent.keys = s.keys /\ resent.peer = s.peer
        /\ resent.plainForHm = s.plainForHm
    BY DEF Object, Fields
  <2> HIDE DEF resent
  <2>2. Quiet(s, resent, W)
    BY <1>3, <2>1, ResentQuiet
  <2>3. QED
    BY <1>1, <1>3, <2>2
<1>4. CASE /\ s.state = INITIAL /\ pdu \in WA /\ pdu.type = "session_init_request"
           /\ r = HandleSessionInitRequest(named, pdu, fresh, now)
  <2>1. /\ Object(named, Bob, RESPONDER, P)
        /\ named.state = INITIAL /\ named.keys = s.keys /\ named.nB = s.nB
        /\ named.lastSent = s.lastSent /\ named.outgoingPdus = s.outgoingPdus
        /\ OwnSeq(named) = OwnSeq(s)
        /\ named.outgoingPayloads = s.outgoingPayloads
    BY <1>4 DEF Object, Fields, OwnSeq
  <2> HIDE DEF named
  <2>2. Out(named, W) = Out(s, W)
        /\ named.outgoingPdus \in Seq(Range(named.outgoingPdus))
    BY <2>1 DEF Out, Nonces
  <2>3. Nonces(named, W, Bob, RESPONDER, n)
    BY <1>4, <2>1, <2>2, NoncesKept
  <2>4. BobInv(named, W, WA, K, D)
    BY <2>1, <2>2 DEF BobInv, INITIAL, ESTABLISHED, EXPECT_SESSION_COMPLETION_REQUEST
  <2>5. pdu.keyIdA = Alice
    BY <1>4
  <2>6. BobInv(r.s, W, WA, K, D)
    BY <1>4, <2>1, <2>3, <2>4, <2>5, HandleSessionInitRequestBob
  <2>7. r.s.state = ESTABLISHED => r.s.keys \in K
    BY <2>6 DEF BobInv
  <2>8. ConfirmedBy(r.s, K) = K
    BY <2>7 DEF ConfirmedBy
  <2>9. QED
    BY <2>6, <2>8, BobHanded DEF HandedBy
<1>5. CASE /\ s.state = EXPECT_SESSION_COMPLETION_REQUEST
           /\ pdu \in WA /\ pdu.cid = s.cid
           /\ pdu.type = "session_completion_request"
           /\ r = HandleSessionCompletionRequest(s, pdu)
  <2>1. pdu \in CompletionRequests(WA)
    BY <1>5 DEF CompletionRequests
  <2>2. QED
    BY <1>5, <2>1, HandleSessionCompletionRequestBob
<1>6. CASE r = HandleEstablishedMessage(s, pdu)
  BY <1>1, <1>6, HandleEstablishedMessageQuiet
<1>7. s.state \notin {EXPECT_SESSION_INIT_RESPONSE, EXPECT_SESSION_COMPLETION_RESPONSE}
  BY <1>0 DEF ResponderState, INITIAL, ESTABLISHED, DROPPED,
         EXPECT_SESSION_INIT_RESPONSE, EXPECT_SESSION_COMPLETION_REQUEST,
         EXPECT_SESSION_COMPLETION_RESPONSE
<1>8. s.state = EXPECT_SESSION_COMPLETION_REQUEST
        => ExpectedType(s) = "session_completion_request"
  BY DEF ExpectedType, EXPECT_SESSION_INIT_RESPONSE, ESTABLISHED,
         EXPECT_SESSION_COMPLETION_REQUEST, EXPECT_SESSION_COMPLETION_RESPONSE
<1>9. QED
  BY <1>0, <1>2, <1>3, <1>4, <1>5, <1>6, <1>7, <1>8
     DEF ProcessIncoming, Return, Raise, EXPECT_SESSION_INIT_RESPONSE,
         EXPECT_SESSION_COMPLETION_REQUEST, EXPECT_SESSION_COMPLETION_RESPONSE,
         ESTABLISHED

(* The rest of update() adds nothing to either. *)
LEMMA PayloadsKept ==
    ASSUME NEW owner, NEW role, NEW P, NEW s, Object(s, owner, role, P), NEW now
    PROVE  /\ SendPending(s).outgoingPayloads = s.outgoingPayloads
           /\ CheckDeadline(s, now).outgoingPayloads = s.outgoingPayloads
BY DEF SendPending, SendEstablishedPayload, CheckDeadline, OnTimeout, Object, Fields

LEMMA UpdateAlice ==
    ASSUME NEW P, NEW s, Object(s, Alice, INITIATOR, P), Alice \in Party,
           NEW W, NEW n \in Nat, NEW K, NEW D,
           AliceInv(s, W, n, K, D),
           Nonces(s, W, Alice, INITIATOR, n), NEW pdu,
           pdu # None /\ pdu # Malformed => AtLevel(pdu),
           pdu # None /\ pdu # Malformed /\ pdu.type = "session_completion_response"
              => Answerable(Out(s, W), pdu.cid, K, D)
    PROVE  AliceInv(Update(s, pdu, <<Alice, n + 1>>, 0).s, W, n, K, D)
<1> DEFINE fresh == <<Alice, n + 1>>
           r == IF pdu = None THEN Return(s) ELSE ProcessIncoming(s, pdu, fresh, 0)
           sent == SendPending(r.s)
<1>1. /\ Object(r.s, Alice, INITIATOR, P)
      /\ AliceInv(r.s, W, n, K, D)
  BY ProcessIncomingObject, ProcessIncomingAlice DEF Return
<1>2. PICK k \in Nat : Nonces(r.s, W, Alice, INITIATOR, k)
  <2>1. \/ Nonces(r.s, W, Alice, INITIATOR, n)
        \/ Nonces(r.s, W, Alice, INITIATOR, n + 1)
    BY ProcessIncomingNonces DEF Return
  <2>2. QED
    BY <2>1
<1> HIDE DEF r
<1>3. /\ Object(sent, Alice, INITIATOR, P)
      /\ Nonces(sent, W, Alice, INITIATOR, k)
      /\ AliceInv(sent, W, n, K, D)
  BY <1>1, <1>2, SendPendingObject, SendPendingNonces, SendPendingQuiet,
     QuietAlice, ObjectRole
<1>4. AliceInv(CheckDeadline(sent, 0), W, n, K, D)
  BY <1>2, <1>3, CheckDeadlineQuiet, QuietAlice, ObjectRole
<1>5. Update(s, pdu, fresh, 0).s \in {s, r.s, CheckDeadline(sent, 0)}
  BY DEF Update, AfterIncoming, Return, r
<1>6. QED
  BY <1>1, <1>4, <1>5

LEMMA UpdateBob ==
    ASSUME NEW P, NEW s, Object(s, Bob, RESPONDER, P), Bob \in Party,
           NEW W, NEW WA, NEW n \in Nat, NEW K, NEW D,
           BobInv(s, W, WA, K, D), Empty \in D, s.outgoingPayloads = <<>>,
           Nonces(s, W, Bob, RESPONDER, n),
           \A x \in WA :
              AtLevel(x) /\ (x.type = "session_init_request" => x.keyIdA = Alice),
           Alice \in Party,
           NEW pdu \in WA \cup {Malformed, None}
    PROVE  LET t == Update(s, pdu, <<Bob, n + 1>>, 0).s
           IN BobInv(t, W, WA, ConfirmedBy(t, K), HandedBy(t, D))
<1> DEFINE fresh == <<Bob, n + 1>>
           r == IF pdu = None THEN Return(s) ELSE ProcessIncoming(s, pdu, fresh, 0)
           sent == SendPending(r.s)
           last == CheckDeadline(sent, 0)
           L == ConfirmedBy(r.s, K)
           E == HandedBy(r.s, D)
<1>0. ConfirmedBy(s, K) = K /\ HandedBy(s, D) = D
  BY DEF BobInv, ConfirmedBy, HandedBy, Range
<1>1. /\ Object(r.s, Bob, RESPONDER, P)
      /\ BobInv(r.s, W, WA, L, E)
  BY <1>0, ProcessIncomingObject, ProcessIncomingBob DEF Return
<1>2. PICK k \in Nat : Nonces(r.s, W, Bob, RESPONDER, k)
  <2>1. \/ Nonces(r.s, W, Bob, RESPONDER, n)
        \/ Nonces(r.s, W, Bob, RESPONDER, n + 1)
    BY ProcessIncomingNonces DEF Return
  <2>2. QED
    BY <2>1
<1> HIDE DEF r
<1>3. /\ Object(sent, Bob, RESPONDER, P)
      /\ Nonces(sent, W, Bob, RESPONDER, k)
      /\ Quiet(r.s, sent, W)
      /\ BobInv(sent, W, WA, L, E)
  BY <1>1, <1>2, SendPendingObject, SendPendingNonces, SendPendingQuiet,
     QuietBob, ObjectRole
<1>4. Quiet(sent, last, W) /\ BobInv(last, W, WA, L, E)
  BY <1>2, <1>3, CheckDeadlineQuiet, QuietBob, ObjectRole
<1>5. Update(s, pdu, fresh, 0).s \in {s, r.s, last}
  BY DEF Update, AfterIncoming, Return, r
<1>6. BobInv(last, W, WA, ConfirmedBy(last, K), E)
  <2>1. CASE r.s.state = ESTABLISHED
    <3>1. sent.keys = r.s.keys /\ last.keys = r.s.keys
      BY <1>3, <1>4 DEF Quiet
    <3>2. last.state = ESTABLISHED
      <4>1. sent.state = ESTABLISHED
        BY <2>1, <1>1 DEF SendPending, SendEstablishedPayload, Object, Fields
      <4>2. QED
        BY <4>1 DEF CheckDeadline, TimedOut
    <3>3. QED
      BY <1>4, <2>1, <3>1, <3>2 DEF ConfirmedBy
  <2>2. CASE r.s.state # ESTABLISHED
    <3>1. last.state # ESTABLISHED
      BY <1>3, <1>4, <2>2 DEF Quiet, DROPPED, ESTABLISHED
    <3>2. QED
      BY <1>4, <2>2, <3>1 DEF ConfirmedBy
  <2>3. QED
    BY <2>1, <2>2
<1>7. HandedBy(last, D) = E
  BY <1>1, <1>3, PayloadsKept DEF HandedBy
<1>8. QED
  BY <1>0, <1>1, <1>5, <1>6, <1>7

-----------------------------------------------------------------------------
(* What the other party adds never hurts. *)
LEMMA AliceGrows ==
    ASSUME NEW s, NEW W, NEW n \in Nat, NEW k \in {n, n + 1}, NEW K, NEW L,
           NEW D, NEW E, K \subseteq L, D \subseteq E, AliceInv(s, W, n, K, D)
    PROVE  AliceInv(s, W, k, L, E)
<1>1. Drawn(Alice, n) \subseteq Drawn(Alice, k)
  BY DrawnGrows
<1>2. QED
  BY <1>1 DEF AliceInv

LEMMA BobGrows ==
    ASSUME NEW s, NEW W, NEW WA, NEW WB, NEW K, NEW D,
           WA \subseteq WB, BobInv(s, W, WA, K, D)
    PROVE  BobInv(s, W, WB, K, D)
<1>1. CompletionRequests(WA) \subseteq CompletionRequests(WB)
  BY DEF CompletionRequests
<1>2. Sent(Out(s, W), WB, "b2a")
  BY SentGrows DEF BobInv
<1>3. QED
  BY <1>1, <1>2 DEF BobInv, Answerable, Asked

(* Draining a session moves its queue to the wire. *)
LEMMA DrainedAgreement ==
    ASSUME NEW owner, NEW role, NEW P, NEW s, Object(s, owner, role, P), NEW W
    PROVE  LET t == Drained(s)
               V == W \cup Range(s.outgoingPdus)
           IN /\ \A n, K, D : AliceInv(s, W, n, K, D) => AliceInv(t, V, n, K, D)
              /\ \A WA, K, D : BobInv(s, W, WA, K, D) => BobInv(t, V, WA, K, D)
<1> DEFINE t == Drained(s)
           V == W \cup Range(s.outgoingPdus)
<1>1. /\ t.state = s.state /\ t.cid = s.cid /\ t.keys = s.keys /\ t.peer = s.peer
      /\ t.plainForHm = s.plainForHm /\ t.outgoingPdus = <<>>
  BY DEF Drained, Object, Fields
<1> HIDE DEF t
<1>2. Out(t, V) = Out(s, W)
  BY <1>1 DEF Out, Range
<1> HIDE DEF V
<1>3. \A n, K, D : AliceInv(s, W, n, K, D) => AliceInv(t, V, n, K, D)
  BY <1>1, <1>2 DEF AliceInv
<1>4. \A WA, K, D : BobInv(s, W, WA, K, D) => BobInv(t, V, WA, K, D)
  BY <1>1, <1>2 DEF BobInv
<1>5. QED
  BY <1>3, <1>4 DEF t, V

(* A session that is as new remembers no handshake. *)
LEMMA NewSessionAgreement ==
    ASSUME NEW owner, NEW role, NEW s, NEW W, Out(s, W) = W
    PROVE  LET t == NewSession(owner, role)
           IN /\ \A n, K, D : AliceInv(s, W, n, K, D) => AliceInv(t, W, n, K, D)
              /\ \A WA, K, D : BobInv(s, W, WA, K, D) => BobInv(t, W, WA, K, D)
<1> DEFINE t == NewSession(owner, role)
<1>1. t.state = INITIAL /\ t.outgoingPdus = <<>>
  BY DEF NewSession
<1> HIDE DEF t
<1>2. Out(t, W) = W
  BY <1>1 DEF Out, Range
<1>3. \A n, K, D : AliceInv(s, W, n, K, D) => AliceInv(t, W, n, K, D)
  BY <1>1, <1>2 DEF AliceInv, KeyedState, INITIAL, ESTABLISHED,
     EXPECT_SESSION_INIT_RESPONSE, EXPECT_SESSION_COMPLETION_RESPONSE
<1>4. \A WA, K, D : BobInv(s, W, WA, K, D) => BobInv(t, W, WA, K, D)
  BY <1>1, <1>2 DEF BobInv, INITIAL, ESTABLISHED, EXPECT_SESSION_COMPLETION_REQUEST
<1>5. QED
  BY <1>3, <1>4 DEF t

LEMMA InitAgreement == Init => AgreementInv
<1> SUFFICES ASSUME Init PROVE AgreementInv
  OBVIOUS
<1>1. IInv
  BY InitInv
<1>2. /\ Alice \in Party /\ Bob \in Party
      /\ delivered = [p \in Party |-> <<>>]
      /\ confirmed = {} /\ wire[Alice] = {} /\ wire[Bob] = {}
      /\ sess[Alice] = NewSession(Alice, RoleOf(Alice))
      /\ sess[Bob] = NewSession(Bob, RoleOf(Bob))
  BY PairAssumption DEF Init
<1>3. \A p \in Party : sess[p].outgoingPdus = <<>>
  BY <1>1 DEF IInv, PartyInv
<1>4. \A p \in Party : Out(sess[p], {}) = {}
  BY <1>3 DEF Out, Range
<1>5. sess[Alice].state = INITIAL /\ sess[Bob].state = INITIAL
  BY <1>2 DEF NewSession
<1>6. AliceInv(sess[Alice], {}, draws[Alice], {}, Handed)
  BY <1>2, <1>4, <1>5 DEF AliceInv, OneEach, Sent, CompletionRequests,
     KeyedState, INITIAL, ESTABLISHED, EXPECT_SESSION_INIT_RESPONSE,
     EXPECT_SESSION_COMPLETION_RESPONSE
<1>7. BobInv(sess[Bob], {}, {}, {}, Handed)
  BY <1>2, <1>4, <1>5 DEF BobInv, Sent, INITIAL, ESTABLISHED,
     EXPECT_SESSION_COMPLETION_REQUEST
<1>8. QED
  BY <1>1, <1>2, <1>6, <1>7 DEF AgreementInv

(* A call of Alice's caller. *)
LEMMA AliceDrains ==
    ASSUME AgreementInv, IInv', NEW t, Drain(Alice, t),
           Object(t, Alice, INITIATOR, Payload(Alice)),
           \/ AliceInv(t, wire[Alice], draws[Alice], confirmed, Handed)
           \/ /\ AliceInv(t, wire[Alice], draws[Alice] + 1, confirmed, Handed)
              /\ Drew(sess[Alice], t)
    PROVE  AgreementInv'
<1> DEFINE n == draws'[Alice]
           V == wire[Alice] \cup Range(t.outgoingPdus)
<1>1. /\ Alice \in Party /\ Bob \in Party /\ Alice # Bob
      /\ draws[Alice] \in Nat
      /\ sess = [p \in Party |-> sess[p]] /\ wire = [p \in Party |-> wire[p]]
      /\ draws \in [Party -> Nat] /\ delivered = [p \in Party |-> delivered[p]]
  BY PairAssumption DEF AgreementInv, IInv
<1>2. /\ sess'[Alice] = Drained(t) /\ sess'[Bob] = sess[Bob]
      /\ wire'[Alice] = V /\ wire'[Bob] = wire[Bob]
      /\ n = IF Drew(sess[Alice], t) THEN draws[Alice] + 1 ELSE draws[Alice]
      /\ confirmed' = confirmed
      /\ delivered' = [p \in Party |-> delivered'[p]]
      /\ delivered'[Bob] = delivered[Bob]
  BY <1>1 DEF Drain
<1>3. AliceInv(t, wire[Alice], n, confirmed, Handed)
  BY <1>1, <1>2, AliceGrows
<1> HIDE DEF n
<1>4. AliceInv(Drained(t), V, n, confirmed, Handed)
  BY <1>3, DrainedAgreement
<1>5. BobInv(sess[Bob], wire[Bob], V, confirmed, Handed)
  BY BobGrows DEF AgreementInv
<1>6. Handed' = Handed
  BY <1>2 DEF Handed
<1>7. QED
  BY <1>2, <1>4, <1>5, <1>6 DEF AgreementInv, n

(* What both sequences hold, their concatenation holds. *)
Joined(q, r) ==
    q \o r \in Seq(Range(q \o r)) /\ Range(q \o r) = Range(q) \cup Range(r)

LEMMA JoinedRange ==
    ASSUME NEW q, q \in Seq(Range(q)), NEW r, r \in Seq(Range(r))
    PROVE  Joined(q, r)
<1> DEFINE S == Range(q) \cup Range(r)
<1>1. q \in Seq(S) /\ r \in Seq(S)
  BY SeqMonotonic
<1> HIDE DEF S
<1>2. q \o r \in Seq(S)
  BY <1>1, ConcatProperties
<1>3. QED
  BY <1>1, <1>2, SeqOfRange, RangeConcatenation DEF Joined

(* A call hands over at most one payload. *)
LEMMA AtMostOnePayload ==
    ASSUME NEW owner, NEW role, NEW P, NEW s, Object(s, owner, role, P),
           s.outgoingPayloads = <<>>, role \in {INITIATOR, RESPONDER},
           owner \in Party, NEW pdu, NEW fresh, NEW now \in Nat
    PROVE  LET q == Update(s, pdu, fresh, now).s.outgoingPayloads
           IN q \in Seq(Range(q))
<1> DEFINE r == IF pdu = None THEN Return(s) ELSE ProcessIncoming(s, pdu, fresh, now)
           q == r.s.outgoingPayloads
           last == CheckDeadline(SendPending(r.s), now)
<1>1. \E a : q \in {<<>>, <<a>>}
  <2>1. /\ \A m : \E a : HandleSessionInitRequest(
                [s EXCEPT !.cid = m.cid], m, fresh, now).s.outgoingPayloads \in {<<>>, <<a>>}
        /\ \A m : \E a : HandleSessionInitResponse(
                s, m, fresh, now).s.outgoingPayloads \in {<<>>, <<a>>}
    BY DEF HandleSessionInitRequest, HandleSessionInitResponse, Return, Raise,
           Object, Fields
  <2>2. \A m : \E a : HandleSessionCompletionRequest(
                s, m).s.outgoingPayloads \in {<<>>, <<a>>}
    BY DEF HandleSessionCompletionRequest, HandedOver, Return, Raise, Object, Fields
  <2>3. \A m : \E a : HandleSessionCompletionResponse(
                s, m).s.outgoingPayloads \in {<<>>, <<a>>}
    BY DEF HandleSessionCompletionResponse, Return, Raise, Object, Fields
  <2>4. \A m : \E a : HandleEstablishedMessage(
                s, m).s.outgoingPayloads \in {<<>>, <<a>>}
    BY DEF HandleEstablishedMessage, Return, Raise, Object, Fields
  <2>5. [s EXCEPT !.outgoingPdus = Queue(s, s.lastSent)].outgoingPayloads = <<>>
    BY DEF Object, Fields
  <2>6. QED
    <3>1. \/ r.s = s
          \/ r.s = [s EXCEPT !.outgoingPdus = Queue(s, s.lastSent)]
          \/ r = HandleSessionInitRequest([s EXCEPT !.cid = pdu.cid], pdu, fresh, now)
          \/ r = HandleSessionInitResponse(s, pdu, fresh, now)
          \/ r = HandleSessionCompletionRequest(s, pdu)
          \/ r = HandleSessionCompletionResponse(s, pdu)
          \/ r = HandleEstablishedMessage(s, pdu)
      BY DEF ProcessIncoming, Return, Raise, EXPECT_SESSION_INIT_RESPONSE,
             EXPECT_SESSION_COMPLETION_REQUEST, EXPECT_SESSION_COMPLETION_RESPONSE,
             ESTABLISHED
    <3> HIDE DEF r
    <3>2. QED
      BY <2>1, <2>2, <2>3, <2>4, <2>5, <3>1
<1>2. q \in Seq(Range(q))
  <2>1. PICK a : q \in {<<>>, <<a>>}
    BY <1>1
  <2> HIDE DEF q
  <2>2. <<a>> \in Seq({a}) /\ <<>> \in Seq({a})
    OBVIOUS
  <2>3. q \in Seq({a})
    BY <2>1, <2>2
  <2>4. QED
    BY <2>3, SeqOfRange
<1>3. Object(r.s, owner, role, P)
  BY ProcessIncomingObject DEF Return
<1>4. Object(SendPending(r.s), owner, role, P)
  BY <1>3, SendPendingObject
<1>5. last.outgoingPayloads = q
  BY <1>3, <1>4, PayloadsKept
<1>6. Update(s, pdu, fresh, now).s \in {s, r.s, last}
  BY DEF Update, AfterIncoming, Return
<1>7. s.outgoingPayloads \in Seq(Range(s.outgoingPayloads))
  BY DEF Range
<1> HIDE DEF r, last
<1>8. QED
  BY <1>2, <1>5, <1>6, <1>7

(* A call of Bob's caller. *)
LEMMA BobDrains ==
    ASSUME AgreementInv, IInv', NEW t, Drain(Bob, t),
           Object(t, Bob, RESPONDER, Payload(Bob)),
           t.outgoingPayloads \in Seq(Range(t.outgoingPayloads)),
           BobInv(t, wire[Bob], wire[Alice], ConfirmedBy(t, confirmed),
                  HandedBy(t, Handed))
    PROVE  AgreementInv'
<1> DEFINE V == wire[Bob] \cup Range(t.outgoingPdus)
           K == ConfirmedBy(t, confirmed)
<1>1. /\ Alice \in Party /\ Bob \in Party /\ Alice # Bob
      /\ draws[Alice] \in Nat
      /\ sess = [p \in Party |-> sess[p]] /\ wire = [p \in Party |-> wire[p]]
      /\ draws \in [Party -> Nat] /\ delivered = [p \in Party |-> delivered[p]]
  BY PairAssumption DEF AgreementInv, IInv
<1>2. /\ sess'[Bob] = Drained(t) /\ sess'[Alice] = sess[Alice]
      /\ wire'[Bob] = V /\ wire'[Alice] = wire[Alice]
      /\ draws'[Alice] = draws[Alice]
      /\ confirmed' = K
      /\ delivered' = [p \in Party |-> delivered'[p]]
      /\ delivered'[Bob] = delivered[Bob] \o t.outgoingPayloads
  BY <1>1 DEF Drain, ConfirmedBy
<1>3. confirmed \subseteq K
  BY DEF ConfirmedBy
<1>4. /\ delivered'[Bob] \in Seq(Range(delivered'[Bob]))
      /\ Handed' = HandedBy(t, Handed)
  <2>1. delivered[Bob] \in Seq(Range(delivered[Bob]))
    BY DEF AgreementInv
  <2>2. Joined(delivered[Bob], t.outgoingPayloads)
    BY <2>1, JoinedRange
  <2>3. QED
    BY <1>2, <2>2 DEF Joined, Handed, HandedBy
<1>5. Handed \subseteq Handed'
  BY <1>4 DEF HandedBy
<1> HIDE DEF K
<1>6. BobInv(Drained(t), V, wire[Alice], K, Handed')
  BY <1>4, DrainedAgreement DEF K
<1>7. AliceInv(sess[Alice], wire[Alice], draws[Alice], K, Handed')
  BY <1>1, <1>3, <1>5, AliceGrows DEF AgreementInv
<1>8. QED
  BY <1>2, <1>4, <1>6, <1>7 DEF AgreementInv

(* A step that neither sends nor tells the session anything. *)
LEMMA LocalAgreement ==
    ASSUME AgreementInv, IInv', NEW p \in Party, NEW t,
           sess' = [sess EXCEPT ![p] = t],
           UNCHANGED <<wire, draws, delivered, confirmed>>,
           Quiet(sess[p], t, wire[p])
    PROVE  AgreementInv'
<1>1. /\ Alice \in Party /\ Bob \in Party /\ Alice # Bob
      /\ sess = [q \in Party |-> sess[q]]
      /\ sess[Alice].role = INITIATOR /\ sess[Bob].role = RESPONDER
  BY PairAssumption, RoleIsRole DEF AgreementInv, IInv, PartyInv, Object
<1>2. AliceInv(sess'[Alice], wire[Alice], draws[Alice], confirmed, Handed)
  BY <1>1, QuietAlice DEF AgreementInv
<1>3. BobInv(sess'[Bob], wire[Bob], wire[Alice], confirmed, Handed)
  BY <1>1, QuietBob DEF AgreementInv
<1>4. Handed' = Handed
  BY DEF Handed
<1>5. QED
  BY <1>2, <1>3, <1>4 DEF AgreementInv

LEMMA UpdateAgreement ==
    ASSUME AgreementInv, IInv', NEW p \in Party, NEW pdu \in Arrivals(p) \cup {None},
           Drain(p, Update(sess[p], pdu, Fresh(p), 0).s)
    PROVE  AgreementInv'
<1> DEFINE t == Update(sess[p], pdu, Fresh(p), 0).s
<1>1. /\ Object(sess[p], p, RoleOf(p), Payload(p))
      /\ Nonces(sess[p], wire[p], p, RoleOf(p), draws[p])
      /\ draws[p] \in Nat
      /\ sess[p].outgoingPdus = <<>> /\ sess[p].outgoingPayloads = <<>>
  BY DEF AgreementInv, IInv, PartyInv
<1>2. Object(t, p, RoleOf(p), Payload(p))
  BY <1>1, UpdateObject
<1>3. Out(sess[p], wire[p]) = wire[p]
  BY <1>1 DEF Out, Range
<1>4. CASE p = Alice
  <2>1. pdu # None /\ pdu # Malformed => pdu \in wire[Bob]
    BY <1>4 DEF Arrivals, Peer
  <2>2. wire[Bob] \subseteq Out(sess[Bob], wire[Bob])
    BY DEF Out
  <2>3. pdu # None /\ pdu # Malformed /\ pdu.type = "session_completion_response"
          => Answerable(wire[Alice], pdu.cid, confirmed, Handed)
    BY <2>1, <2>2 DEF AgreementInv, BobInv
  <2>4. pdu # None /\ pdu # Malformed => AtLevel(pdu)
    BY <2>1, <2>2 DEF AgreementInv, BobInv, Sent
  <2>5. AliceInv(t, wire[Alice], draws[Alice], confirmed, Handed)
    BY <1>1, <1>3, <1>4, <2>3, <2>4, RoleIsRole, UpdateAlice DEF AgreementInv, Fresh
  <2> HIDE DEF t
  <2>6. QED
    BY <1>2, <1>4, <2>5, RoleIsRole, AliceDrains DEF t
<1>5. CASE p = Bob
  <2>1. pdu \in wire[Alice] \cup {Malformed, None}
    BY <1>5, PairAssumption DEF Arrivals, Peer
  <2>2. wire[Alice] \subseteq Out(sess[Alice], wire[Alice])
    BY DEF Out
  <2>3. \A x \in wire[Alice] :
           AtLevel(x) /\ (x.type = "session_init_request" => x.keyIdA = Alice)
    BY <2>2 DEF AgreementInv, AliceInv, Sent
  <2>4. BobInv(t, wire[Bob], wire[Alice], ConfirmedBy(t, confirmed), HandedBy(t, Handed))
    <3>1. Empty \in Handed /\ Alice \in Party
      BY PairAssumption DEF Handed
    <3>2. QED
      BY <1>1, <1>5, <2>1, <2>3, <3>1, RoleIsRole, UpdateBob DEF AgreementInv, Fresh
  <2>5. t.outgoingPayloads \in Seq(Range(t.outgoingPayloads))
    BY <1>1, RoleIsRole, AtMostOnePayload
  <2> HIDE DEF t
  <2>6. QED
    BY <1>2, <1>5, <2>4, <2>5, RoleIsRole, BobDrains DEF t
<1>6. QED
  BY <1>4, <1>5, PairAssumption

LEMMA NextAgreement == AgreementInv /\ [Next]_vars => AgreementInv'
<1> SUFFICES ASSUME AgreementInv, [Next]_vars PROVE AgreementInv'
  OBVIOUS
<1>0. IInv /\ IInv'
  BY NextInv DEF AgreementInv
<1>1. CASE StartHandshake
  <2> DEFINE t == Initiate(sess[Alice], Bob, Fresh(Alice), 0).s
  <2>1. /\ Alice \in Party
        /\ Object(sess[Alice], Alice, INITIATOR, Payload(Alice))
        /\ Nonces(sess[Alice], wire[Alice], Alice, INITIATOR, draws[Alice])
        /\ draws[Alice] \in Nat
    BY <1>0, RoleIsRole, PairAssumption DEF IInv, PartyInv
  <2>2. Object(t, Alice, INITIATOR, Payload(Alice))
    BY <2>1, InitiateObject
  <2>3. \/ AliceInv(t, wire[Alice], draws[Alice], confirmed, Handed)
        \/ /\ AliceInv(t, wire[Alice], draws[Alice] + 1, confirmed, Handed)
           /\ Drew(sess[Alice], t)
    BY <1>1, <2>1, InitiateAlice DEF StartHandshake, AgreementInv, Fresh
  <2>4. Drain(Alice, t)
    BY <1>1 DEF StartHandshake
  <2> HIDE DEF t
  <2>5. QED
    BY <1>0, <2>2, <2>3, <2>4, AliceDrains
<1>2. ASSUME NEW p \in Party, Post(p) PROVE AgreementInv'
  <2> DEFINE s == sess[p]
             t == PostPayload(s, <<p, posted[p] + 1>>)
  <2>1. Object(s, p, RoleOf(p), Payload(p))
    BY <1>0 DEF IInv, PartyInv
  <2>2. /\ t.state = s.state /\ t.cid = s.cid /\ t.keys = s.keys
        /\ t.peer = s.peer /\ t.plainForHm = s.plainForHm
        /\ t.outgoingPdus = s.outgoingPdus
    BY <2>1 DEF PostPayload, Object, Fields
  <2>3. sess' = [sess EXCEPT ![p] = t] /\ UNCHANGED <<wire, draws, delivered, confirmed>>
    BY <1>2 DEF Post
  <2> HIDE DEF t
  <2>4. Quiet(s, t, wire[p])
    BY <2>2 DEF Quiet, Out
  <2>5. QED
    BY <1>0, <2>3, <2>4, LocalAgreement
<1>3. ASSUME NEW p \in Party, NEW pdu \in Arrivals(p), Deliver(p, pdu)
      PROVE  AgreementInv'
  BY <1>0, <1>3, UpdateAgreement DEF Deliver
<1>4. ASSUME NEW p \in Party, Crank(p) PROVE AgreementInv'
  BY <1>0, <1>4, UpdateAgreement DEF Crank
<1>5. ASSUME NEW p \in Party, Tick(p) PROVE AgreementInv'
  <2> DEFINE s == sess[p]
             t == [s EXCEPT !.deadline = s.deadline - 1]
  <2>1. Object(s, p, RoleOf(p), Payload(p))
    BY <1>0 DEF IInv, PartyInv
  <2>2. /\ t.state = s.state /\ t.cid = s.cid /\ t.keys = s.keys
        /\ t.peer = s.peer /\ t.plainForHm = s.plainForHm
        /\ t.outgoingPdus = s.outgoingPdus
    BY <2>1 DEF Object, Fields
  <2>3. sess' = [sess EXCEPT ![p] = t] /\ UNCHANGED <<wire, draws, delivered, confirmed>>
    BY <1>5 DEF Tick
  <2> HIDE DEF t
  <2>4. Quiet(s, t, wire[p])
    BY <2>2 DEF Quiet, Out
  <2>5. QED
    BY <1>0, <2>3, <2>4, LocalAgreement
<1>6. ASSUME NEW p \in Party, Restart(p) PROVE AgreementInv'
  <2> DEFINE t == NewSession(p, RoleOf(p))
  <2>1. PartyInv(p, sess[p], wire[p], draws[p])
    BY <1>0 DEF IInv
  <2>2. Reset(sess[p]) = t
    BY <2>1 DEF PartyInv, Object, Reset
  <2>3. sess' = [sess EXCEPT ![p] = t] /\ UNCHANGED <<wire, draws, delivered, confirmed>>
    BY <1>6, <2>2 DEF Restart
  <2>4. Out(sess[p], wire[p]) = wire[p]
    BY <2>1 DEF PartyInv, Out, Range
  <2>5. /\ \A n, K, D : AliceInv(sess[p], wire[p], n, K, D)
                        => AliceInv(t, wire[p], n, K, D)
        /\ \A WA, K, D : BobInv(sess[p], wire[p], WA, K, D)
                         => BobInv(t, wire[p], WA, K, D)
    BY <2>4, NewSessionAgreement
  <2> HIDE DEF t
  <2>6. /\ Alice \in Party /\ Bob \in Party /\ Alice # Bob
        /\ sess = [q \in Party |-> sess[q]]
    BY <1>0, PairAssumption DEF IInv
  <2>7. AliceInv(sess'[Alice], wire[Alice], draws[Alice], confirmed, Handed)
    BY <2>3, <2>5, <2>6 DEF AgreementInv
  <2>8. BobInv(sess'[Bob], wire[Bob], wire[Alice], confirmed, Handed)
    BY <2>3, <2>5, <2>6 DEF AgreementInv
  <2>9. Handed' = Handed
    BY <2>3 DEF Handed
  <2>10. QED
    BY <1>0, <2>3, <2>7, <2>8, <2>9 DEF AgreementInv
<1>7. CASE UNCHANGED vars
  BY <1>0, <1>7 DEF vars, AgreementInv, Handed
<1>8. QED
  BY <1>1, <1>2, <1>3, <1>4, <1>5, <1>6, <1>7 DEF Next

-----------------------------------------------------------------------------
(* What the invariant says of the wire, and of an established session. *)
LEMMA SentOnWire ==
    ASSUME AgreementInv
    PROVE  /\ Sent(wire[Alice], wire[Alice], "a2b")
           /\ Sent(wire[Bob], wire[Alice], "b2a")
<1>1. Alice \in Party /\ Bob \in Party
  BY PairAssumption
<1>2. \A p \in Party : Out(sess[p], wire[p]) = wire[p]
  BY DEF AgreementInv, IInv, PartyInv, Out, Range
<1>3. QED
  BY <1>1, <1>2 DEF AgreementInv, AliceInv, BobInv

LEMMA AskedForKeys ==
    ASSUME AgreementInv, NEW p \in Party, Established(p)
    PROVE  Asked(wire[Alice], sess[p].cid, sess[p].keys)
<1>1. Out(sess[Alice], wire[Alice]) = wire[Alice]
  BY PairAssumption DEF AgreementInv, IInv, PartyInv, Out, Range
<1>2. CASE p = Alice
  BY <1>1, <1>2 DEF AgreementInv, AliceInv, Established, KeyedState, Answerable, Asked
<1>3. CASE p = Bob
  BY <1>3 DEF AgreementInv, BobInv, Established
<1>4. QED
  BY <1>2, <1>3, PairAssumption

LEMMA AskedOnce ==
    ASSUME AgreementInv, NEW cid, NEW j, NEW k,
           Asked(wire[Alice], cid, j), Asked(wire[Alice], cid, k)
    PROVE  j = k
<1>1. Out(sess[Alice], wire[Alice]) = wire[Alice]
  BY PairAssumption DEF AgreementInv, IInv, PartyInv, Out, Range
<1>2. QED
  BY <1>1 DEF AgreementInv, AliceInv, Asked, OneEach, CompletionRequests

(* The handshake's promise, for any retry limit, TTL, levels, AEAD lists and  *)
(* any number of restarts, losses, replays and reorderings: the keys of an    *)
(* ESTABLISHED initiator are keys the responder confirmed, the responder      *)
(* confirms only what the initiator encrypted a c_m under, and two sessions   *)
(* established under one cid have the same keys.                              *)
THEOREM KeysAreAgreed == Spec => []KeysAgree
<1>1. AgreementInv => KeysAgree
  <2> SUFFICES ASSUME AgreementInv PROVE KeysAgree
    OBVIOUS
  <2>1. /\ Alice \in Party /\ Bob \in Party
        /\ Out(sess[Alice], wire[Alice]) = wire[Alice]
    BY PairAssumption DEF AgreementInv, IInv, PartyInv, Out, Range
  <2>2. Established(Alice) => sess[Alice].keys \in confirmed
    BY DEF AgreementInv, AliceInv, Established
  <2>3. ASSUME NEW k \in confirmed
        PROVE  /\ \E c \in CiphertextsOf(Alice) : c.keys = k /\ c.seq = 0
               /\ k.aead \in AeadsOf(Alice) \cap AeadsOf(Bob)
               /\ k.fA = Alice
    <3>1. /\ k.fA = Alice /\ k.aead \in AeadsOf(Bob)
          /\ \E x \in CompletionRequests(wire[Alice]) : x.cM.keys = k
      BY DEF AgreementInv, BobInv
    <3>2. PICK x \in CompletionRequests(wire[Alice]) : x.cM.keys = k
      BY <3>1
    <3>3. x.cM.seq = 0 /\ k.aead \in AeadsOf(Alice)
      BY <2>1, <3>2 DEF AgreementInv, AliceInv
    <3>4. x.cM \in CiphertextsIn(x) /\ x \in wire[Alice]
      BY DEF CiphertextsIn, CompletionRequests
    <3>5. x.cM \in CiphertextsOf(Alice)
      BY <3>4 DEF CiphertextsOf
    <3>6. QED
      BY <3>1, <3>2, <3>3, <3>5
  <2>4. ASSUME Established(Alice), Established(Bob), sess[Alice].cid = sess[Bob].cid
        PROVE  sess[Alice].keys = sess[Bob].keys
    <3>1. /\ Asked(wire[Alice], sess[Alice].cid, sess[Alice].keys)
          /\ Asked(wire[Alice], sess[Bob].cid, sess[Bob].keys)
      BY <2>1, <2>4, AskedForKeys
    <3>2. QED
      BY <2>4, <3>1, AskedOnce
  <2>5. QED
    BY <2>2, <2>3, <2>4 DEF KeysAgree
<1>2. QED
  BY InitAgreement, NextAgreement, <1>1, PTL DEF Spec

(* Once h_m has matched, Bob's application was handed the payload that rode in *)
(* c_m (handle_session_completion_request), whichever of his incarnations       *)
(* answered and however late the answer came.                                   *)
THEOREM FalseStartsAreDelivered == Spec => []FalseStartDelivered
<1>1. AgreementInv => FalseStartDelivered
  BY DEF AgreementInv, AliceInv, Established, Handed, Range, FalseStartDelivered
<1>2. QED
  BY InitAgreement, NextAgreement, <1>1, PTL DEF Spec

(* A message that bears the cid of an established session opens with its keys. *)
LEMMA MessagesOpen ==
    ASSUME AgreementInv, NEW p \in Party, Established(p),
           NEW m \in wire[Peer(p)], m.type = "message", m.cid = sess[p].cid
    PROVE  EstablishedMessageError(sess[p], m) \in {NoError, HandshakeFailed}
<1> DEFINE s == sess[p]
           theirs == IF s.role = INITIATOR THEN "b2a" ELSE "a2b"
<1>1. Sent(wire[Peer(p)], wire[Alice], theirs)
  BY SentOnWire, RoleIsRole, PairAssumption
     DEF Peer, AgreementInv, IInv, PartyInv, Object
<1>2. PICK keys : MessageUnder(m, s.cid, keys, theirs) /\ Asked(wire[Alice], s.cid, keys)
  BY <1>1 DEF Sent
<1>3. keys = s.keys
  BY <1>2, AskedForKeys, AskedOnce
<1>4. Decrypts(s.keys, theirs, m.seq, m.m, s.cid)
  BY <1>2, <1>3 DEF MessageUnder
<1>5. QED
  BY <1>4 DEF EstablishedMessageError

(* At one level nothing that arrives makes update() raise what is no           *)
(* SessionError: no ciphertext has another length than its key wants, and no    *)
(* message of the session's cid fails to decrypt (handle_established_message,   *)
(* which does not catch InvalidTag).                                            *)
THEOREM OneLevelRaisesSessionErrors == OneLevel => (Spec => []OnlySessionErrors)
<1> SUFFICES ASSUME OneLevel PROVE Spec => []OnlySessionErrors
  OBVIOUS
<1>1. AgreementInv => OnlySessionErrors
  <2> SUFFICES ASSUME AgreementInv, NEW p \in Party, NEW pdu \in Arrivals(p)
               PROVE  Update(sess[p], pdu, Fresh(p), 0).exn
                        \in {NoError, HandshakeFailed, UnexpectedPDU}
    BY DEF OnlySessionErrors
  <2> DEFINE s == sess[p]
             good == {NoError, HandshakeFailed, UnexpectedPDU}
             r == ProcessIncoming(s, pdu, Fresh(p), 0)
             named == [s EXCEPT !.cid = pdu.cid]
  <2>1. /\ s.owner = p /\ DOMAIN s = Fields
        /\ KemLevel[p] = KemLevel[Alice] /\ StaticLevel[p] = KemLevel[Alice]
    BY DEF AgreementInv, IInv, PartyInv, Object, OneLevel
  <2>2. pdu # Malformed => pdu \in wire[Peer(p)] /\ AtLevel(pdu)
    BY SentOnWire, PairAssumption DEF Arrivals, Peer, Sent
  <2>3. pdu # Malformed /\ pdu.type = "session_init_request"
          => HandleSessionInitRequest(named, pdu, Fresh(p), 0).exn \in good
    BY <2>2 DEF HandleSessionInitRequest, SessionInitRequestError, LengthMismatch,
               AtLevel, Raise, Return
  <2>4. pdu # Malformed /\ pdu.type = "session_init_response"
          => HandleSessionInitResponse(s, pdu, Fresh(p), 0).exn \in good
    BY <2>1, <2>2 DEF HandleSessionInitResponse, SessionInitResponseError,
                     LengthMismatch, AtLevel, Raise, Return
  <2>5. pdu # Malformed /\ pdu.type = "session_completion_request"
          => HandleSessionCompletionRequest(s, pdu).exn \in good
    BY <2>1, <2>2 DEF HandleSessionCompletionRequest, SessionCompletionRequestError,
                     LengthMismatch, AtLevel, Raise, Return
  <2>6. HandleSessionCompletionResponse(s, pdu).exn \in good
    BY DEF HandleSessionCompletionResponse, SessionCompletionResponseError, Raise, Return
  <2>7. pdu # Malformed /\ Established(p) /\ pdu.type = "message" /\ pdu.cid = s.cid
          => HandleEstablishedMessage(s, pdu).exn \in good
    BY <2>2, MessagesOpen DEF HandleEstablishedMessage, Raise, Return
  <2>8. /\ s.state = EXPECT_SESSION_INIT_RESPONSE
             => ExpectedType(s) = "session_init_response"
        /\ s.state = EXPECT_SESSION_COMPLETION_REQUEST
             => ExpectedType(s) = "session_completion_request"
        /\ s.state = ESTABLISHED => ExpectedType(s) = "message"
    BY DEF ExpectedType, EXPECT_SESSION_INIT_RESPONSE, ESTABLISHED,
           EXPECT_SESSION_COMPLETION_REQUEST, EXPECT_SESSION_COMPLETION_RESPONSE
  <2>9. r.exn \in good
    BY <2>3, <2>4, <2>5, <2>6, <2>7, <2>8
       DEF ProcessIncoming, Return, Raise, Established, EXPECT_SESSION_INIT_RESPONSE,
           EXPECT_SESSION_COMPLETION_REQUEST, EXPECT_SESSION_COMPLETION_RESPONSE,
           ESTABLISHED
  <2>10. Update(s, pdu, Fresh(p), 0).exn \in {NoError, r.exn}
    BY DEF Update, AfterIncoming, Return
  <2>11. QED
    BY <2>9, <2>10
<1>2. QED
  BY InitAgreement, NextAgreement, <1>1, PTL DEF Spec

-----------------------------------------------------------------------------
(* Bob's answers.  A Session answers each request once before it is reset, so *)
(* the wire holds at most one answer of each kind per incarnation.            *)
AnswerType == {"session_init_response", "session_completion_response"}

OfType(X, k) == {x \in X : x.type = k}

(* The session is past the request that an answer of kind k takes. *)
Answered(s, k) ==
    IF k = "session_init_response" THEN s.state # INITIAL
    ELSE s.state \in {ESTABLISHED, DROPPED}

(* r incarnations of Bob before s have answered, and s answers once. *)
AnsweredOnce(s, W, r) ==
    \A k \in AnswerType :
        /\ IsFiniteSet(OfType(Out(s, W), k))
        /\ Cardinality(OfType(Out(s, W), k))
             <= IF Answered(s, k) THEN r + 1 ELSE r

RetriesInv ==
    /\ AgreementInv
    /\ AnsweredOnce(sess[Bob], wire[Bob], resets[Bob])

(* A step that answers a request it had not answered, with y, or none. *)
Answers(s, t, W, k) ==
    \/ /\ OfType(Out(t, W), k) = OfType(Out(s, W), k)
       /\ Answered(s, k) => Answered(t, k)
    \/ /\ ~Answered(s, k) /\ Answered(t, k)
       /\ \E y : OfType(Out(t, W), k) = OfType(Out(s, W), k) \cup {y}

LEMMA AnswersKeepOnce ==
    ASSUME NEW s, NEW t, NEW W, NEW r \in Nat, AnsweredOnce(s, W, r),
           \A k \in AnswerType : Answers(s, t, W, k)
    PROVE  AnsweredOnce(t, W, r)
<1> SUFFICES ASSUME NEW k \in AnswerType
             PROVE  /\ IsFiniteSet(OfType(Out(t, W), k))
                    /\ Cardinality(OfType(Out(t, W), k))
                         <= IF Answered(t, k) THEN r + 1 ELSE r
  BY DEF AnsweredOnce
<1> DEFINE S == OfType(Out(s, W), k)
           T == OfType(Out(t, W), k)
<1>1. /\ IsFiniteSet(S)
      /\ Cardinality(S) <= IF Answered(s, k) THEN r + 1 ELSE r
      /\ Cardinality(S) \in Nat
  BY FS_CardinalityType DEF AnsweredOnce
<1>2. \/ T = S /\ (Answered(s, k) => Answered(t, k))
      \/ ~Answered(s, k) /\ Answered(t, k) /\ \E y : T = S \cup {y}
  BY DEF Answers
<1> HIDE DEF S, T
<1>3. CASE T = S /\ (Answered(s, k) => Answered(t, k))
  <2>1. Cardinality(T) <= IF Answered(t, k) THEN r + 1 ELSE r
    BY <1>1, <1>3
  <2>2. QED
    BY <1>1, <1>3, <2>1 DEF T
<1>4. CASE ~Answered(s, k) /\ Answered(t, k) /\ \E y : T = S \cup {y}
  <2>1. PICK y : T = S \cup {y}
    BY <1>4
  <2>2. /\ IsFiniteSet(T)
        /\ Cardinality(T) \in {Cardinality(S), Cardinality(S) + 1}
    BY <1>1, <2>1, FS_AddElement
  <2>3. Cardinality(T) <= r + 1
    BY <1>1, <1>4, <2>2
  <2>4. QED
    BY <1>4, <2>2, <2>3 DEF T
<1>5. QED
  BY <1>2, <1>3, <1>4

(* What is quiet answers nothing new: a duplicate gets the cached bytes. *)
LEMMA QuietAnswers ==
    ASSUME NEW s, NEW t, NEW W, Quiet(s, t, W), NEW k \in AnswerType
    PROVE  Answers(s, t, W, k)
<1>1. OfType(Out(t, W), k) = OfType(Out(s, W), k)
  BY DEF Quiet, OfType, AnswerType, MessageUnder
<1>2. Answered(s, k) => Answered(t, k)
  BY DEF Quiet, Answered, INITIAL, ESTABLISHED, DROPPED
<1>3. QED
  BY <1>1, <1>2 DEF Answers

LEMMA HandleSessionInitRequestAnswers ==
    ASSUME NEW owner, NEW role, NEW P, NEW s, Object(s, owner, role, P),
           s.state = INITIAL, NEW W, NEW n \in Nat, Nonces(s, W, owner, role, n),
           NEW m, NEW fresh, NEW now, NEW k \in AnswerType
    PROVE  Answers(s, HandleSessionInitRequest(s, m, fresh, now).s, W, k)
<1> DEFINE t == HandleSessionInitRequest(s, m, fresh, now).s
           resp == SessionInitResponse(s.cid, PublicKey(fresh, m.pkA.level),
                       Encapsulate(m.pkA, <<"s2", fresh>>),
                       Encapsulate(StaticKey(m.keyIdA), <<"s3", fresh>>),
                       fresh, ChosenAead(s.owner, m.aeads))
<1>1. CASE SessionInitRequestError(s, m) # NoError
  BY <1>1 DEF HandleSessionInitRequest, Raise, Answers
<1>2. CASE SessionInitRequestError(s, m) = NoError
  <2>1. /\ t.state = EXPECT_SESSION_COMPLETION_REQUEST
        /\ t.outgoingPdus = Queue(s, resp)
    BY <1>2 DEF HandleSessionInitRequest, Return, Object, Fields
  <2>2. resp.type = "session_init_response"
    BY DEF SessionInitResponse
  <2> HIDE DEF t, resp
  <2>3. Out(t, W) = Out(s, W) \cup {resp}
    BY <2>1, QueueAdds DEF Nonces, Out
  <2>4. /\ ~Answered(s, "session_init_response")
        /\ Answered(t, "session_init_response")
        /\ ~Answered(s, "session_completion_response")
    BY <2>1 DEF Answered, INITIAL, ESTABLISHED, DROPPED,
                EXPECT_SESSION_COMPLETION_REQUEST
  <2>5. CASE k = "session_init_response"
    <3>1. OfType(Out(t, W), k) = OfType(Out(s, W), k) \cup {resp}
      BY <2>2, <2>3, <2>5 DEF OfType
    <3>2. Answers(s, t, W, k)
      BY <2>4, <2>5, <3>1 DEF Answers
    <3>3. QED
      BY <3>2 DEF t
  <2>6. CASE k # "session_init_response"
    <3>1. OfType(Out(t, W), k) = OfType(Out(s, W), k)
      BY <2>2, <2>3, <2>6 DEF OfType
    <3>2. Answers(s, t, W, k)
      BY <2>4, <2>6, <3>1 DEF Answers, AnswerType
    <3>3. QED
      BY <3>2 DEF t
  <2>7. QED
    BY <2>5, <2>6
<1>3. QED
  BY <1>1, <1>2

LEMMA HandleSessionCompletionRequestAnswers ==
    ASSUME NEW owner, NEW role, NEW P, NEW s, Object(s, owner, role, P),
           s.state = EXPECT_SESSION_COMPLETION_REQUEST, NEW W, NEW n \in Nat,
           Nonces(s, W, owner, role, n), NEW m, NEW k \in AnswerType
    PROVE  Answers(s, HandleSessionCompletionRequest(s, m).s, W, k)
<1> DEFINE t == HandleSessionCompletionRequest(s, m).s
           keys == ResponderKeys(s, m)
           reply == IF s.pending = None THEN None
                    ELSE Encrypt(keys, "b2a", 0, s.pending, s.cid)
           resp == SessionCompletionResponse(s.cid, Sha256(m.cM.plain), reply)
<1>1. CASE SessionCompletionRequestError(s, m) # NoError
  BY <1>1 DEF HandleSessionCompletionRequest, Raise, Answers
<1>2. CASE SessionCompletionRequestError(s, m) = NoError
  <2>1. t.state = ESTABLISHED /\ t.outgoingPdus = Queue(s, resp)
    BY <1>2 DEF HandleSessionCompletionRequest, Return, Object, Fields
  <2> HIDE DEF keys, reply
  <2>2. resp.type = "session_completion_response"
    BY DEF SessionCompletionResponse
  <2> HIDE DEF t, resp
  <2>3. Out(t, W) = Out(s, W) \cup {resp}
    BY <2>1, QueueAdds DEF Nonces, Out
  <2>4. /\ ~Answered(s, "session_completion_response")
        /\ Answered(t, "session_completion_response")
        /\ Answered(t, "session_init_response")
    BY <2>1 DEF Answered, INITIAL, ESTABLISHED, DROPPED,
                EXPECT_SESSION_COMPLETION_REQUEST
  <2>5. CASE k = "session_completion_response"
    <3>1. OfType(Out(t, W), k) = OfType(Out(s, W), k) \cup {resp}
      BY <2>2, <2>3, <2>5 DEF OfType
    <3>2. Answers(s, t, W, k)
      BY <2>4, <2>5, <3>1 DEF Answers
    <3>3. QED
      BY <3>2 DEF t
  <2>6. CASE k # "session_completion_response"
    <3>1. OfType(Out(t, W), k) = OfType(Out(s, W), k)
      BY <2>2, <2>3, <2>6 DEF OfType
    <3>2. Answers(s, t, W, k)
      BY <2>4, <2>6, <3>1 DEF Answers, AnswerType
    <3>3. QED
      BY <3>2 DEF t
  <2>7. QED
    BY <2>5, <2>6
<1>3. QED
  BY <1>1, <1>2

LEMMA ProcessIncomingAnswers ==
    ASSUME NEW P, NEW s, Object(s, Bob, RESPONDER, P), NEW W, NEW n \in Nat,
           Nonces(s, W, Bob, RESPONDER, n), NEW pdu, NEW fresh, NEW now,
           NEW k \in AnswerType
    PROVE  Answers(s, ProcessIncoming(s, pdu, fresh, now).s, W, k)
<1> DEFINE r == ProcessIncoming(s, pdu, fresh, now)
           resent == [s EXCEPT !.outgoingPdus = Queue(s, s.lastSent)]
           named == [s EXCEPT !.cid = pdu.cid]
<1>1. CASE r.s = s
  BY <1>1 DEF Answers
<1>2. CASE s.lastSent # None /\ r.s = resent
  <2>1. /\ resent.outgoingPdus = Queue(s, s.lastSent) /\ resent.state = s.state
        /\ resent.cid = s.cid /\ resent.keys = s.keys /\ resent.peer = s.peer
        /\ resent.plainForHm = s.plainForHm
    BY DEF Object, Fields
  <2> HIDE DEF resent
  <2>2. Quiet(s, resent, W)
    BY <1>2, <2>1, ResentQuiet
  <2>3. QED
    BY <1>2, <2>2, QuietAnswers
<1>3. CASE /\ s.state = INITIAL
           /\ r = HandleSessionInitRequest(named, pdu, fresh, now)
  <2>1. /\ Object(named, Bob, RESPONDER, P)
        /\ named.state = INITIAL /\ named.keys = s.keys /\ named.nB = s.nB
        /\ named.lastSent = s.lastSent /\ named.outgoingPdus = s.outgoingPdus
        /\ OwnSeq(named) = OwnSeq(s)
    BY <1>3 DEF Object, Fields, OwnSeq
  <2> HIDE DEF named
  <2>2. /\ Out(named, W) = Out(s, W)
        /\ named.outgoingPdus \in Seq(Range(named.outgoingPdus))
    BY <2>1 DEF Out, Nonces
  <2>3. Nonces(named, W, Bob, RESPONDER, n)
    BY <1>3, <2>1, <2>2, NoncesKept
  <2>4. Answers(named, r.s, W, k)
    BY <1>3, <2>1, <2>3, HandleSessionInitRequestAnswers
  <2>5. Answered(named, k) <=> Answered(s, k)
    BY <1>3, <2>1 DEF Answered
  <2> HIDE DEF r
  <2>6. Answers(s, r.s, W, k)
    BY <2>2, <2>4, <2>5, Zenon DEF Answers
  <2>7. QED
    BY <2>6 DEF r
<1>4. CASE /\ s.state = EXPECT_SESSION_COMPLETION_REQUEST
           /\ r = HandleSessionCompletionRequest(s, pdu)
  BY <1>4, HandleSessionCompletionRequestAnswers
<1>5. CASE r = HandleEstablishedMessage(s, pdu)
  BY <1>5, HandleEstablishedMessageQuiet, QuietAnswers
<1>6. s.state \notin {EXPECT_SESSION_INIT_RESPONSE, EXPECT_SESSION_COMPLETION_RESPONSE}
  BY RoleIsRole DEF Object, ResponderState, INITIAL, ESTABLISHED, DROPPED,
     EXPECT_SESSION_INIT_RESPONSE, EXPECT_SESSION_COMPLETION_REQUEST,
     EXPECT_SESSION_COMPLETION_RESPONSE
<1>7. QED
  BY <1>1, <1>2, <1>3, <1>4, <1>5, <1>6
     DEF ProcessIncoming, Return, Raise, EXPECT_SESSION_INIT_RESPONSE,
         EXPECT_SESSION_COMPLETION_REQUEST, EXPECT_SESSION_COMPLETION_RESPONSE,
         ESTABLISHED

LEMMA UpdateAnswersOnce ==
    ASSUME NEW P, NEW s, Object(s, Bob, RESPONDER, P), Bob \in Party,
           NEW W, NEW n \in Nat, Nonces(s, W, Bob, RESPONDER, n), NEW pdu,
           NEW r \in Nat, AnsweredOnce(s, W, r)
    PROVE  AnsweredOnce(Update(s, pdu, <<Bob, n + 1>>, 0).s, W, r)
<1> DEFINE fresh == <<Bob, n + 1>>
           first == IF pdu = None THEN Return(s) ELSE ProcessIncoming(s, pdu, fresh, 0)
           sent == SendPending(first.s)
           last == CheckDeadline(sent, 0)
<1>1. Object(first.s, Bob, RESPONDER, P)
  BY ProcessIncomingObject DEF Return
<1>2. AnsweredOnce(first.s, W, r)
  <2>1. CASE pdu = None
    BY <2>1 DEF Return
  <2>2. CASE pdu # None
    <3>1. \A k \in AnswerType : Answers(s, first.s, W, k)
      BY <2>2, ProcessIncomingAnswers
    <3> HIDE DEF first
    <3>2. QED
      BY <3>1, AnswersKeepOnce
  <2>3. QED
    BY <2>1, <2>2
<1>3. PICK j \in Nat : Nonces(first.s, W, Bob, RESPONDER, j)
  <2>1. \/ Nonces(first.s, W, Bob, RESPONDER, n)
        \/ Nonces(first.s, W, Bob, RESPONDER, n + 1)
    BY ProcessIncomingNonces DEF Return
  <2>2. QED
    BY <2>1
<1> HIDE DEF first
<1>4. /\ Object(sent, Bob, RESPONDER, P)
      /\ Nonces(sent, W, Bob, RESPONDER, j)
      /\ Quiet(first.s, sent, W)
  BY <1>1, <1>3, SendPendingObject, SendPendingNonces, SendPendingQuiet
<1> HIDE DEF sent
<1>5. AnsweredOnce(sent, W, r)
  BY <1>2, <1>4, QuietAnswers, AnswersKeepOnce
<1>6. Quiet(sent, last, W)
  BY <1>4, CheckDeadlineQuiet
<1> HIDE DEF last
<1>7. AnsweredOnce(last, W, r)
  BY <1>5, <1>6, QuietAnswers, AnswersKeepOnce
<1>8. Update(s, pdu, fresh, 0).s \in {s, first.s, last}
  BY DEF Update, AfterIncoming, Return, first, sent, last
<1>9. QED
  BY <1>2, <1>7, <1>8

(* A call of update() by either caller. *)
LEMMA UpdateRetries ==
    ASSUME RetriesInv, NEW p \in Party, NEW pdu,
           Drain(p, Update(sess[p], pdu, Fresh(p), 0).s), UNCHANGED resets
    PROVE  AnsweredOnce(sess'[Bob], wire'[Bob], resets'[Bob])
<1> DEFINE t == Update(sess[p], pdu, Fresh(p), 0).s
<1>1. /\ Alice \in Party /\ Bob \in Party /\ Alice # Bob /\ p \in {Alice, Bob}
      /\ sess = [q \in Party |-> sess[q]] /\ wire = [q \in Party |-> wire[q]]
      /\ resets[Bob] \in Nat /\ draws[p] \in Nat
      /\ Object(sess[p], p, RoleOf(p), Payload(p))
      /\ Nonces(sess[p], wire[p], p, RoleOf(p), draws[p])
  BY PairAssumption DEF RetriesInv, AgreementInv, IInv, PartyInv
<1>2. CASE p = Alice
  <2>1. sess'[Bob] = sess[Bob] /\ wire'[Bob] = wire[Bob]
    BY <1>1, <1>2 DEF Drain
  <2>2. QED
    BY <2>1 DEF RetriesInv
<1>3. CASE p = Bob
  <2>1. AnsweredOnce(t, wire[Bob], resets[Bob])
    BY <1>1, <1>3, RoleIsRole, UpdateAnswersOnce DEF RetriesInv, Fresh
  <2>2. Object(t, Bob, RESPONDER, Payload(Bob))
    BY <1>1, <1>3, RoleIsRole, UpdateObject
  <2> HIDE DEF t
  <2>3. /\ sess'[Bob] = Drained(t)
        /\ wire'[Bob] = wire[Bob] \cup Range(t.outgoingPdus)
    BY <1>1, <1>3 DEF Drain, t
  <2>4. sess'[Bob].state = t.state /\ sess'[Bob].outgoingPdus = <<>>
    BY <2>2, <2>3 DEF Drained, Object, Fields
  <2>5. Out(sess'[Bob], wire'[Bob]) = Out(t, wire[Bob])
    BY <2>3, <2>4 DEF Out, Range
  <2>6. QED
    BY <2>1, <2>4, <2>5 DEF AnsweredOnce, Answered
<1>4. QED
  BY <1>1, <1>2, <1>3

(* Whatever leaves Bob's wire and state alone. *)
LEMMA SameAnswers ==
    ASSUME RetriesInv, sess'[Bob].state = sess[Bob].state,
           sess'[Bob].outgoingPdus = sess[Bob].outgoingPdus,
           wire'[Bob] = wire[Bob], resets'[Bob] = resets[Bob]
    PROVE  AnsweredOnce(sess'[Bob], wire'[Bob], resets'[Bob])
<1>1. Out(sess'[Bob], wire'[Bob]) = Out(sess[Bob], wire[Bob])
  BY DEF Out
<1>2. QED
  BY <1>1 DEF RetriesInv, AnsweredOnce, Answered

LEMMA InitRetries == Init => RetriesInv
<1> SUFFICES ASSUME Init PROVE AnsweredOnce(sess[Bob], wire[Bob], resets[Bob])
  BY InitAgreement DEF RetriesInv
<1>1. /\ sess[Bob] = NewSession(Bob, RoleOf(Bob)) /\ wire[Bob] = {} /\ resets[Bob] = 0
  BY PairAssumption DEF Init
<1>2. Out(sess[Bob], wire[Bob]) = {} /\ sess[Bob].state = INITIAL
  BY <1>1 DEF NewSession, Out, Range
<1>3. \A k : OfType({}, k) = {}
  BY DEF OfType
<1>4. QED
  BY <1>1, <1>2, <1>3, FS_EmptySet DEF AnsweredOnce

LEMMA NextRetries == RetriesInv /\ [Next]_vars => RetriesInv'
<1> SUFFICES ASSUME RetriesInv, [Next]_vars
             PROVE  AnsweredOnce(sess'[Bob], wire'[Bob], resets'[Bob])
  BY NextAgreement DEF RetriesInv
<1>0. /\ Alice \in Party /\ Bob \in Party /\ Alice # Bob
      /\ sess = [q \in Party |-> sess[q]] /\ wire = [q \in Party |-> wire[q]]
      /\ resets \in [Party -> 0..MaxResets]
      /\ \A q \in Party : Object(sess[q], q, RoleOf(q), Payload(q))
  BY PairAssumption DEF RetriesInv, AgreementInv, IInv, PartyInv
<1>1. CASE StartHandshake
  <2>1. /\ sess'[Bob] = sess[Bob] /\ wire'[Bob] = wire[Bob] /\ resets' = resets
    BY <1>0, <1>1 DEF StartHandshake, Drain
  <2>2. QED
    BY <2>1, SameAnswers
<1>2. ASSUME NEW p \in Party, Post(p)
      PROVE  AnsweredOnce(sess'[Bob], wire'[Bob], resets'[Bob])
  <2>1. /\ sess'[Bob].state = sess[Bob].state
        /\ sess'[Bob].outgoingPdus = sess[Bob].outgoingPdus
        /\ wire' = wire /\ resets' = resets
    BY <1>0, <1>2 DEF Post, PostPayload, Object, Fields
  <2>2. QED
    BY <2>1, SameAnswers
<1>3. ASSUME NEW p \in Party, NEW pdu \in Arrivals(p), Deliver(p, pdu)
      PROVE  AnsweredOnce(sess'[Bob], wire'[Bob], resets'[Bob])
  BY <1>3, UpdateRetries DEF Deliver
<1>4. ASSUME NEW p \in Party, Crank(p)
      PROVE  AnsweredOnce(sess'[Bob], wire'[Bob], resets'[Bob])
  BY <1>4, UpdateRetries DEF Crank
<1>5. ASSUME NEW p \in Party, Tick(p)
      PROVE  AnsweredOnce(sess'[Bob], wire'[Bob], resets'[Bob])
  <2>1. /\ sess'[Bob].state = sess[Bob].state
        /\ sess'[Bob].outgoingPdus = sess[Bob].outgoingPdus
        /\ wire' = wire /\ resets' = resets
    BY <1>0, <1>5 DEF Tick, Object, Fields
  <2>2. QED
    BY <2>1, SameAnswers
<1>6. ASSUME NEW p \in Party, Restart(p)
      PROVE  AnsweredOnce(sess'[Bob], wire'[Bob], resets'[Bob])
  <2>1. CASE p # Bob
    <3>1. sess'[Bob] = sess[Bob] /\ wire' = wire /\ resets'[Bob] = resets[Bob]
      BY <1>0, <1>6, <2>1 DEF Restart
    <3>2. QED
      BY <3>1, SameAnswers
  <2>2. CASE p = Bob
    <3>1. /\ sess'[Bob] = Reset(sess[Bob]) /\ wire' = wire
          /\ resets[Bob] \in Nat /\ resets'[Bob] = resets[Bob] + 1
      BY <1>0, <1>6, <2>2, PairAssumption DEF Restart
    <3>2. sess'[Bob].state = INITIAL /\ sess'[Bob].outgoingPdus = <<>>
      BY <3>1 DEF Reset, NewSession
    <3>3. sess[Bob].outgoingPdus = <<>>
      BY <1>0 DEF RetriesInv, AgreementInv, IInv, PartyInv
    <3>4. Out(sess'[Bob], wire'[Bob]) = Out(sess[Bob], wire[Bob])
      BY <3>1, <3>2, <3>3 DEF Out
    <3>5. ASSUME NEW k \in AnswerType
          PROVE  /\ IsFiniteSet(OfType(Out(sess'[Bob], wire'[Bob]), k))
                 /\ Cardinality(OfType(Out(sess'[Bob], wire'[Bob]), k)) <= resets'[Bob]
      <4> DEFINE S == OfType(Out(sess[Bob], wire[Bob]), k)
      <4>1. /\ IsFiniteSet(S)
            /\ Cardinality(S) <= IF Answered(sess[Bob], k) THEN resets[Bob] + 1
                                 ELSE resets[Bob]
        BY DEF RetriesInv, AnsweredOnce
      <4>2. Cardinality(S) \in Nat
        BY <4>1, FS_CardinalityType
      <4> HIDE DEF S
      <4>3. Cardinality(S) <= resets'[Bob]
        BY <3>1, <4>1, <4>2
      <4>4. QED
        BY <3>4, <4>1, <4>3 DEF S
    <3>6. \A k \in AnswerType : ~Answered(sess'[Bob], k)
      BY <3>2 DEF Answered, INITIAL, ESTABLISHED, DROPPED
    <3>7. QED
      BY <3>5, <3>6 DEF AnsweredOnce
  <2>3. QED
    BY <2>1, <2>2
<1>7. CASE UNCHANGED vars
  <2>1. sess' = sess /\ wire' = wire /\ resets' = resets
    BY <1>7 DEF vars
  <2>2. QED
    BY <2>1, SameAnswers
<1>8. QED
  BY <1>1, <1>2, <1>3, <1>4, <1>5, <1>6, <1>7 DEF Next

(* "Retries resend the EXACT bytes already sent for the current state, never   *)
(* regenerated ones" (_on_timeout, and _process_incoming for a duplicate), for *)
(* any retry limit, restarts and interleaving of the two parties: one request  *)
(* of each kind per cid, one answer of each kind per incarnation of Bob.       *)
THEOREM RetriesAreVerbatim == Spec => []RetriesVerbatim
<1>1. RetriesInv => RetriesVerbatim
  <2> SUFFICES ASSUME RetriesInv PROVE RetriesVerbatim
    OBVIOUS
  <2>1. /\ Out(sess[Alice], wire[Alice]) = wire[Alice]
        /\ Out(sess[Bob], wire[Bob]) = wire[Bob]
        /\ resets[Bob] \in Nat
    BY PairAssumption DEF RetriesInv, AgreementInv, IInv, PartyInv, Out, Range
  <2>2. OneEach(wire[Alice])
    BY <2>1 DEF RetriesInv, AgreementInv, AliceInv
  <2>3. ASSUME NEW k \in AnswerType, NEW cid
        PROVE  Cardinality({x \in wire[Bob] : x.type = k /\ x.cid = cid})
                 <= resets[Bob] + 1
    <3> DEFINE S == OfType(wire[Bob], k)
               T == {x \in wire[Bob] : x.type = k /\ x.cid = cid}
    <3>1. /\ IsFiniteSet(S)
          /\ Cardinality(S) <= IF Answered(sess[Bob], k) THEN resets[Bob] + 1
                               ELSE resets[Bob]
      BY <2>1 DEF RetriesInv, AnsweredOnce
    <3>2. T \subseteq S
      BY DEF OfType
    <3> HIDE DEF S, T
    <3>3. Cardinality(T) <= Cardinality(S) /\ IsFiniteSet(T)
      BY <3>1, <3>2, FS_Subset
    <3>4. Cardinality(T) \in Nat /\ Cardinality(S) \in Nat
      BY <3>1, <3>3, FS_CardinalityType
    <3>5. Cardinality(T) <= resets[Bob] + 1
      BY <2>1, <3>1, <3>3, <3>4
    <3>6. QED
      BY <3>5 DEF T
  <2>4. QED
    BY <2>2, <2>3 DEF RetriesVerbatim, OneEach, AnswerType
<1>2. QED
  BY InitRetries, NextRetries, <1>1, PTL DEF Spec

=============================================================================
