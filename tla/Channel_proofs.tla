--------------------------- MODULE Channel_proofs ---------------------------
(***************************************************************************)
(* The pair of sessions implements SecureChannel, for any configuration.   *)
(* A payload is encrypted after everything posted before it, so under any  *)
(* keys the payloads of later seqs are later posts; and whatever a session *)
(* may still accept was encrypted after all that was handed over before:   *)
(* the keys of its handshake hold a value it drew for that handshake, so   *)
(* nothing that an earlier session was sent can open under them.           *)
(***************************************************************************)
EXTENDS SessionPair_proofs

(* A payload posted after everything in C. *)
Newer(payload, C) == \A c \in C : Blank(c) \/ c.plain[2] < payload[2]

(* Under one set of keys a later seq holds a later payload. *)
Ordered(C) ==
    \A c, d \in C :
        c.keys = d.keys /\ c.seq < d.seq => Blank(c) \/ c.plain[2] < d.plain[2]

(* The session s of p as a sender: W is what it has sent, k what p has posted. *)
SenderInv(s, W, p, k) ==
    LET C == CiphertextsAmong(Out(s, W))
    IN /\ s.pending \in Posts(p, k) \cup {None}
       /\ s.pending # None => Newer(s.pending, C)
       /\ \A c \in C : Blank(c) \/ c.plain \in Posts(p, k)
       /\ Ordered(C)

(* The ciphertexts s may still take. *)
Acceptable(s, c) ==
    \/ s.state = EXPECT_SESSION_COMPLETION_REQUEST /\ c.keys.nB = s.nB
    \/ s.state = EXPECT_SESSION_COMPLETION_RESPONSE /\ c.keys = s.keys
    \/ s.state = ESTABLISHED /\ c.keys = s.keys /\ TheirSeq(s) <= c.seq

(* And as a receiver: C is what its peer encrypted, L the number of the last *)
(* payload handed over.                                                      *)
ReceiverInv(s, C, L) ==
    /\ \A c \in C : Acceptable(s, c) => Blank(c) \/ L < c.plain[2]
    /\ s.role = RESPONDER /\ s.state = ESTABLISHED => s.seqA2B # 0

(* A nonce of Bob's in keys, or in an offer, is one he drew; and he encrypts *)
(* under keys Alice has encrypted under.                                     *)
NoncesDrawn(C, n) == \A c \in C : c.keys.nB \in Drawn(Bob, n)
OffersDrawn(X, n) ==
    \A x \in X : x.type = "session_init_response" => x.nB \in Drawn(Bob, n)
Echoed(C, A) == \A c \in C : \E a \in A : a.keys = c.keys

AliceEnd(s, W, k, C, L, n) ==
    /\ SenderInv(s, W, Alice, k)
    /\ ReceiverInv(s, C, L)
    /\ NoncesDrawn(CiphertextsAmong(Out(s, W)), n)

BobEnd(s, W, k, C, L, n) ==
    /\ SenderInv(s, W, Bob, k)
    /\ ReceiverInv(s, C, L)
    /\ OffersDrawn(Out(s, W), n)
    /\ Echoed(CiphertextsAmong(Out(s, W)), C)

(* What a call may add to what its session sent: the payload it found pending. *)
Sends(s, t, W) ==
    /\ t.pending \in {s.pending, None}
    /\ \A c \in CiphertextsAmong(Out(t, W)) :
        \/ c \in CiphertextsAmong(Out(s, W))
        \/ Blank(c)
        \/ (s.pending # None /\ c.plain = s.pending)

(* What it may hand over: a payload of the peer's after the last one. *)
HandsOver(t, C, L) ==
    \/ t.outgoingPayloads = <<>>
    \/ /\ t.state = ESTABLISHED
       /\ \E c \in C : /\ ~Blank(c) /\ L < c.plain[2]
                       /\ t.outgoingPayloads = <<c.plain>>

Heard(t, L) == IF t.outgoingPayloads = <<>> THEN L ELSE t.outgoingPayloads[1][2]

-----------------------------------------------------------------------------
LEMMA OutAdds ==
    ASSUME NEW s, NEW t, NEW W, NEW pdu, s.outgoingPdus \in Seq(Range(s.outgoingPdus)),
           t.outgoingPdus = Queue(s, pdu)
    PROVE  /\ Out(t, W) = Out(s, W) \cup {pdu}
           /\ CiphertextsAmong(Out(t, W)) = CiphertextsAmong(Out(s, W)) \cup CiphertextsIn(pdu)
<1>1. Out(t, W) = Out(s, W) \cup {pdu}
  BY QueueAdds DEF Out
<1>2. QED
  BY <1>1, AmongAdds

(* A step that encrypts nothing. *)
LEMMA MuteSender ==
    ASSUME NEW s, NEW t, NEW W, NEW p, NEW k, SenderInv(s, W, p, k),
           CiphertextsAmong(Out(t, W)) = CiphertextsAmong(Out(s, W)),
           t.pending \in {s.pending, None}
    PROVE  SenderInv(t, W, p, k) /\ Sends(s, t, W)
BY DEF SenderInv, Sends

(* A step that encrypts the pending payload, or none, under a seq of its own. *)
LEMMA SpeakingSender ==
    ASSUME NEW s, NEW t, NEW W, NEW p, NEW k, SenderInv(s, W, p, k), NEW e,
           CiphertextsAmong(Out(t, W)) = CiphertextsAmong(Out(s, W)) \cup {e},
           t.pending = None,
           Blank(e) \/ (s.pending # None /\ e.plain = s.pending),
           e.seq \in Nat,
           \A c \in CiphertextsAmong(Out(s, W)) :
              c.seq \in Nat /\ (c.keys = e.keys => c.seq < e.seq)
    PROVE  SenderInv(t, W, p, k) /\ Sends(s, t, W)
<1> DEFINE C == CiphertextsAmong(Out(s, W))
           D == CiphertextsAmong(Out(t, W))
<1> HIDE DEF C, D
<1>1. D = C \cup {e}
  BY DEF C, D
<1>2. Blank(e) \/ (e.plain \in Posts(p, k) /\ Newer(e.plain, C))
  BY DEF SenderInv, C
<1>3. \A c \in D : Blank(c) \/ c.plain \in Posts(p, k)
  BY <1>1, <1>2 DEF SenderInv, C
<1>4. Ordered(D)
  <2> SUFFICES ASSUME NEW c \in D, NEW d \in D, c.keys = d.keys, c.seq < d.seq
               PROVE  Blank(c) \/ c.plain[2] < d.plain[2]
    BY DEF Ordered
  <2>1. CASE c \in C /\ d \in C
    BY <2>1 DEF SenderInv, Ordered, C
  <2>2. CASE c \in C /\ d = e
    <3>1. ~Blank(e)
      BY <2>2 DEF C, Blank
    <3>2. QED
      BY <1>2, <2>2, <3>1 DEF Newer
  <2>3. CASE c = e
    <3>1. d \notin C
      BY <2>3 DEF C
    <3>2. d = e
      BY <1>1, <3>1
    <3>3. QED
      BY <2>3, <3>2
  <2>4. QED
    BY <1>1, <2>1, <2>2, <2>3
<1>5. Sends(s, t, W)
  BY <1>1 DEF Sends, C, D
<1>6. QED
  BY <1>3, <1>4, <1>5 DEF SenderInv, D

-----------------------------------------------------------------------------
(* A state that takes no ciphertext. *)
LEMMA DeafReceiver ==
    ASSUME NEW t, NEW C, NEW L,
           t.state \notin KeyedState \cup {EXPECT_SESSION_COMPLETION_REQUEST}
    PROVE  ReceiverInv(t, C, L)
BY DEF ReceiverInv, Acceptable, KeyedState

(* A step that neither hears nor says anything. *)
Still(s, t, W) ==
    /\ t.state \in {s.state, DROPPED}
    /\ t.role = s.role /\ t.keys = s.keys /\ t.nB = s.nB
    /\ t.seqA2B = s.seqA2B /\ t.seqB2A = s.seqB2A
    /\ t.pending = s.pending
    /\ t.outgoingPayloads = s.outgoingPayloads
    /\ Out(t, W) = Out(s, W)

LEMMA StillReceiver ==
    ASSUME NEW s, NEW t, NEW W, Still(s, t, W), NEW C, NEW L, ReceiverInv(s, C, L)
    PROVE  ReceiverInv(t, C, L)
<1>1. CASE t.state = DROPPED
  BY <1>1, DeafReceiver DEF DROPPED, KeyedState, ESTABLISHED,
     EXPECT_SESSION_COMPLETION_REQUEST, EXPECT_SESSION_COMPLETION_RESPONSE
<1>2. CASE t.state = s.state
  BY <1>2 DEF Still, ReceiverInv, Acceptable, TheirSeq
<1>3. QED
  BY <1>1, <1>2 DEF Still

LEMMA StillAlice ==
    ASSUME NEW s, NEW t, NEW W, Still(s, t, W), NEW k, NEW C, NEW L, NEW n,
           AliceEnd(s, W, k, C, L, n)
    PROVE  AliceEnd(t, W, k, C, L, n) /\ Sends(s, t, W)
<1>1. ReceiverInv(t, C, L)
  BY StillReceiver DEF AliceEnd
<1>2. SenderInv(t, W, Alice, k) /\ Sends(s, t, W)
  BY MuteSender DEF Still, AliceEnd
<1>3. QED
  BY <1>1, <1>2 DEF AliceEnd, Still

LEMMA StillBob ==
    ASSUME NEW s, NEW t, NEW W, Still(s, t, W), NEW k, NEW C, NEW L, NEW n,
           BobEnd(s, W, k, C, L, n)
    PROVE  BobEnd(t, W, k, C, L, n) /\ Sends(s, t, W)
<1>1. ReceiverInv(t, C, L)
  BY StillReceiver DEF BobEnd
<1>2. SenderInv(t, W, Bob, k) /\ Sends(s, t, W)
  BY MuteSender DEF Still, BobEnd
<1>3. QED
  BY <1>1, <1>2 DEF BobEnd, Still

LEMMA ResentStill ==
    ASSUME NEW owner, NEW role, NEW P, NEW s, Object(s, owner, role, P),
           NEW W, NEW n, Nonces(s, W, owner, role, n), s.lastSent # None,
           NEW t, t.outgoingPdus = Queue(s, s.lastSent), t.state = s.state,
           t.role = s.role, t.keys = s.keys, t.nB = s.nB, t.seqA2B = s.seqA2B,
           t.seqB2A = s.seqB2A, t.pending = s.pending,
           t.outgoingPayloads = s.outgoingPayloads
    PROVE  Still(s, t, W)
<1>1. Out(t, W) = Out(s, W) \cup {s.lastSent}
  BY OutAdds DEF Nonces
<1>2. QED
  BY <1>1 DEF Still, Nonces

LEMMA CheckDeadlineStill ==
    ASSUME NEW owner, NEW role, NEW P, NEW s, Object(s, owner, role, P),
           NEW W, NEW n, Nonces(s, W, owner, role, n), NEW now
    PROVE  Still(s, CheckDeadline(s, now), W)
<1> DEFINE t == CheckDeadline(s, now)
<1>1. CASE ~TimedOut(s, now)
  BY <1>1 DEF CheckDeadline, Still
<1>2. CASE TimedOut(s, now)
  <2>1. /\ t.state \in {s.state, DROPPED}
        /\ t.role = s.role /\ t.keys = s.keys /\ t.nB = s.nB
        /\ t.seqA2B = s.seqA2B /\ t.seqB2A = s.seqB2A /\ t.pending = s.pending
        /\ t.outgoingPayloads = s.outgoingPayloads
    BY <1>2 DEF CheckDeadline, OnTimeout, Object, Fields
  <2>2. \/ t.outgoingPdus = s.outgoingPdus
        \/ s.lastSent # None /\ t.outgoingPdus = Queue(s, s.lastSent)
    BY <1>2 DEF CheckDeadline, OnTimeout, Object, Fields
  <2> HIDE DEF t
  <2>3. Out(t, W) = Out(s, W)
    <3>1. CASE t.outgoingPdus = s.outgoingPdus
      BY <3>1 DEF Out
    <3>2. CASE s.lastSent # None /\ t.outgoingPdus = Queue(s, s.lastSent)
      <4>1. Out(t, W) = Out(s, W) \cup {s.lastSent}
        BY <3>2, OutAdds DEF Nonces
      <4>2. QED
        BY <3>2, <4>1 DEF Nonces
    <3>3. QED
      BY <2>2, <3>1, <3>2
  <2>4. Still(s, t, W)
    BY <2>1, <2>3 DEF Still
  <2>5. QED
    BY <2>4 DEF t
<1>3. QED
  BY <1>1, <1>2

(* Established traffic out: the pending payload, under the next seq. *)
LEMMA SendPendingSpeaks ==
    ASSUME NEW owner, NEW role, NEW P, NEW s, Object(s, owner, role, P),
           NEW W, NEW n, Nonces(s, W, owner, role, n),
           s.state = ESTABLISHED, s.pending # None,
           NEW k, SenderInv(s, W, owner, k), NEW C, NEW L, ReceiverInv(s, C, L)
    PROVE  LET t == SendPending(s)
           IN /\ SenderInv(t, W, owner, k) /\ Sends(s, t, W)
              /\ ReceiverInv(t, C, L)
              /\ \E e : /\ e.keys = s.keys
                        /\ CiphertextsAmong(Out(t, W))
                             = CiphertextsAmong(Out(s, W)) \cup {e}
              /\ \A x \in Out(t, W) : x.type = "session_init_response" => x \in Out(s, W)
<1> DEFINE t == SendPending(s)
           mine == IF s.role = INITIATOR THEN "a2b" ELSE "b2a"
           seq == IF s.role = INITIATOR THEN s.seqA2B ELSE s.seqB2A
           e == Encrypt(s.keys, mine, seq, s.pending, s.cid)
           pdu == Message(s.cid, seq, e)
<1>1. /\ t.state = s.state /\ t.role = s.role /\ t.keys = s.keys /\ t.nB = s.nB
      /\ t.pending = None /\ t.outgoingPdus = Queue(s, pdu)
      /\ TheirSeq(t) = TheirSeq(s)
      /\ t.role = RESPONDER => t.seqA2B = s.seqA2B
  BY DEF SendPending, SendEstablishedPayload, Object, Fields, TheirSeq,
         INITIATOR, RESPONDER
<1>2. e.keys = s.keys /\ e.plain = s.pending /\ e.seq = OwnSeq(s) /\ OwnSeq(s) \in Nat
  BY DEF Encrypt, OwnSeq, Object
<1>3. CiphertextsIn(pdu) = {e} /\ pdu.type = "message"
  BY DEF CiphertextsIn, Message
<1> HIDE DEF t, e, pdu
<1>4. /\ Out(t, W) = Out(s, W) \cup {pdu}
      /\ CiphertextsAmong(Out(t, W)) = CiphertextsAmong(Out(s, W)) \cup {e}
  BY <1>1, <1>3, OutAdds DEF Nonces
<1>5. \A c \in CiphertextsAmong(Out(s, W)) :
        c.seq \in Nat /\ (c.keys = e.keys => c.seq < e.seq)
  BY <1>2 DEF Nonces, OwnCiphertexts, Ahead, KeyedState
<1>6. SenderInv(t, W, owner, k) /\ Sends(s, t, W)
  BY <1>1, <1>2, <1>4, <1>5, SpeakingSender
<1>7. ReceiverInv(t, C, L)
  BY <1>1 DEF ReceiverInv, Acceptable
<1>8. QED
  BY <1>2, <1>3, <1>4, <1>6, <1>7 DEF t

(* Keys asked for are keys encrypted under. *)
LEMMA AskedEncrypted ==
    ASSUME NEW X, NEW cid, NEW keys, Asked(X, cid, keys)
    PROVE  \E a \in CiphertextsAmong(X) : a.keys = keys
<1>1. PICK x \in CompletionRequests(X) : x.cM.keys = keys
  BY DEF Asked
<1>2. x.cM \in CiphertextsIn(x) /\ x \in X
  BY DEF CiphertextsIn, CompletionRequests
<1>3. QED
  BY <1>1, <1>2 DEF CiphertextsAmong

LEMMA SendPendingAlice ==
    ASSUME NEW P, NEW s, Object(s, Alice, INITIATOR, P), NEW W, NEW i,
           Nonces(s, W, Alice, INITIATOR, i),
           NEW j, NEW K, NEW D, AliceInv(s, W, j, K, D),
           NEW k, NEW C, NEW L, NEW n, AliceEnd(s, W, k, C, L, n)
    PROVE  AliceEnd(SendPending(s), W, k, C, L, n) /\ Sends(s, SendPending(s), W)
<1> DEFINE t == SendPending(s)
<1>1. CASE ~(s.state = ESTABLISHED /\ s.pending # None)
  <2>1. t = s
    BY <1>1 DEF SendPending
  <2>2. Still(s, s, W)
    BY DEF Still
  <2>3. QED
    BY <2>1, <2>2, StillAlice
<1>2. CASE s.state = ESTABLISHED /\ s.pending # None
  <2>1. /\ SenderInv(t, W, Alice, k) /\ Sends(s, t, W) /\ ReceiverInv(t, C, L)
        /\ \E e : /\ e.keys = s.keys
                  /\ CiphertextsAmong(Out(t, W)) = CiphertextsAmong(Out(s, W)) \cup {e}
    BY <1>2, SendPendingSpeaks DEF AliceEnd
  <2>2. Asked(Out(s, W), s.cid, s.keys)
    BY <1>2 DEF AliceInv, KeyedState, Answerable, Asked
  <2>3. \E a \in CiphertextsAmong(Out(s, W)) : a.keys = s.keys
    BY <2>2, AskedEncrypted
  <2> HIDE DEF t
  <2>4. NoncesDrawn(CiphertextsAmong(Out(t, W)), n)
    BY <2>1, <2>3 DEF AliceEnd, NoncesDrawn
  <2>5. QED
    BY <2>1, <2>4 DEF AliceEnd, t
<1>3. QED
  BY <1>1, <1>2

LEMMA SendPendingBob ==
    ASSUME NEW P, NEW s, Object(s, Bob, RESPONDER, P), NEW W, NEW i,
           Nonces(s, W, Bob, RESPONDER, i),
           NEW WA, NEW K, NEW D, BobInv(s, W, WA, K, D),
           NEW k, NEW L, NEW n, BobEnd(s, W, k, CiphertextsAmong(WA), L, n)
    PROVE  /\ BobEnd(SendPending(s), W, k, CiphertextsAmong(WA), L, n)
           /\ Sends(s, SendPending(s), W)
<1> DEFINE t == SendPending(s)
           C == CiphertextsAmong(WA)
<1>1. CASE ~(s.state = ESTABLISHED /\ s.pending # None)
  <2>1. t = s
    BY <1>1 DEF SendPending
  <2>2. Still(s, s, W)
    BY DEF Still
  <2>3. QED
    BY <2>1, <2>2, StillBob
<1>2. CASE s.state = ESTABLISHED /\ s.pending # None
  <2>1. /\ SenderInv(t, W, Bob, k) /\ Sends(s, t, W) /\ ReceiverInv(t, C, L)
        /\ \E e : /\ e.keys = s.keys
                  /\ CiphertextsAmong(Out(t, W)) = CiphertextsAmong(Out(s, W)) \cup {e}
        /\ \A x \in Out(t, W) : x.type = "session_init_response" => x \in Out(s, W)
    BY <1>2, SendPendingSpeaks DEF BobEnd
  <2>2. \E a \in C : a.keys = s.keys
    BY <1>2, AskedEncrypted DEF BobInv
  <2> HIDE DEF t, C
  <2>3. Echoed(CiphertextsAmong(Out(t, W)), C)
    BY <2>1, <2>2 DEF BobEnd, Echoed, C
  <2>4. OffersDrawn(Out(t, W), n)
    BY <2>1 DEF BobEnd, OffersDrawn
  <2>5. QED
    BY <2>1, <2>3, <2>4 DEF BobEnd, t, C
<1>3. QED
  BY <1>1, <1>2

(* What a handler may rely on of C, which the peer encrypted. *)
Stream(C, dir) == Ordered(C) /\ \A c \in C : c.seq \in Nat /\ c.dir = dir

(* Established traffic in: the next seq, so the next payload. *)
LEMMA HandleEstablishedMessageHears ==
    ASSUME NEW owner, NEW role, NEW P, NEW s, Object(s, owner, role, P),
           s.state = ESTABLISHED, s.outgoingPayloads = <<>>,
           role \in {INITIATOR, RESPONDER},
           NEW C, Stream(C, IF role = INITIATOR THEN "b2a" ELSE "a2b"),
           NEW L, ReceiverInv(s, C, L),
           NEW m, m.m \in C, NEW W
    PROVE  LET t == HandleEstablishedMessage(s, m).s
           IN /\ t.pending = s.pending /\ Out(t, W) = Out(s, W)
              /\ ReceiverInv(t, C, Heard(t, L)) /\ HandsOver(t, C, L)
<1> DEFINE t == HandleEstablishedMessage(s, m).s
           c == m.m
           theirs == IF s.role = INITIATOR THEN "b2a" ELSE "a2b"
<1>1. CASE EstablishedMessageError(s, m) # NoError
  BY <1>1 DEF HandleEstablishedMessage, Raise, Heard, HandsOver
<1>2. CASE EstablishedMessageError(s, m) = NoError
  <2>1. /\ c.keys = s.keys /\ c.dir = theirs /\ c.seq = TheirSeq(s)
    BY <1>2 DEF EstablishedMessageError, Decrypts, TheirSeq, NoError, HandshakeFailed,
                InvalidTag
  <2>2. /\ t.state = ESTABLISHED /\ t.keys = s.keys /\ t.nB = s.nB
        /\ t.role = s.role /\ t.pending = s.pending
        /\ t.outgoingPdus = s.outgoingPdus
        /\ TheirSeq(t) = TheirSeq(s) + 1
        /\ t.role = RESPONDER => t.seqA2B = s.seqA2B + 1
        /\ t.outgoingPayloads = <<c.plain>>
    <3>1. /\ t.state = ESTABLISHED /\ t.keys = s.keys /\ t.nB = s.nB
          /\ t.role = s.role /\ t.pending = s.pending
          /\ t.outgoingPdus = s.outgoingPdus
          /\ t.outgoingPayloads = Append(s.outgoingPayloads, c.plain)
      BY <1>2 DEF HandleEstablishedMessage, Return, Object, Fields
    <3>2. /\ TheirSeq(t) = TheirSeq(s) + 1
          /\ t.role = RESPONDER => t.seqA2B = s.seqA2B + 1
      BY <1>2 DEF HandleEstablishedMessage, Return, Object, Fields, TheirSeq,
                  INITIATOR, RESPONDER
    <3>3. Append(<<>>, c.plain) = <<c.plain>>
      OBVIOUS
    <3>4. QED
      BY <3>1, <3>2, <3>3
  <2>3. TheirSeq(s) \in Nat /\ s.seqA2B \in Nat
    BY DEF Object, TheirSeq
  <2>4. ~Blank(c)
    BY <2>1 DEF Blank, ReceiverInv, TheirSeq, Object
  <2>5. L < c.plain[2]
    BY <2>1, <2>3, <2>4 DEF ReceiverInv, Acceptable
  <2> HIDE DEF t
  <2>6. Heard(t, L) = c.plain[2]
    BY <2>2 DEF Heard
  <2>7. ASSUME NEW d \in C, Acceptable(t, d)
        PROVE  Blank(d) \/ c.plain[2] < d.plain[2]
    <3>1. d.keys = c.keys /\ TheirSeq(s) + 1 <= d.seq
      BY <2>1, <2>2, <2>7 DEF Acceptable, ESTABLISHED,
         EXPECT_SESSION_COMPLETION_REQUEST, EXPECT_SESSION_COMPLETION_RESPONSE
    <3>2. c.seq < d.seq
      BY <2>1, <2>3, <3>1 DEF Stream
    <3>3. QED
      BY <2>4, <3>1, <3>2 DEF Stream, Ordered
  <2>8. t.role = RESPONDER => t.seqA2B # 0
    BY <2>2, <2>3
  <2>9. ReceiverInv(t, C, Heard(t, L))
    BY <2>6, <2>7, <2>8 DEF ReceiverInv
  <2>10. HandsOver(t, C, L)
    BY <2>2, <2>4, <2>5 DEF HandsOver
  <2>11. Out(t, W) = Out(s, W)
    BY <2>2 DEF Out
  <2>12. QED
    BY <2>2, <2>9, <2>10, <2>11 DEF t
<1>3. QED
  BY <1>1, <1>2

-----------------------------------------------------------------------------
(* Alice's handshake. *)
LEMMA InitiateEnd ==
    ASSUME NEW P, NEW s, Object(s, Alice, INITIATOR, P), s.state = INITIAL,
           s.outgoingPayloads = <<>>,
           NEW W, NEW i, Nonces(s, W, Alice, INITIATOR, i),
           NEW k, NEW C, NEW L, NEW n, AliceEnd(s, W, k, C, L, n),
           NEW peer, NEW fresh, NEW now
    PROVE  LET t == Initiate(s, peer, fresh, now).s
           IN /\ AliceEnd(t, W, k, C, L, n) /\ Sends(s, t, W)
              /\ t.outgoingPayloads = <<>> /\ t.state # ESTABLISHED
<1> DEFINE t == Initiate(s, peer, fresh, now).s
           ct1 == Encapsulate(StaticKey(peer), <<"s1", fresh>>)
           req == SessionInitRequest(fresh, ct1, peer,
                      PublicKey(fresh, KemLevel[s.owner]), s.owner, AeadsOf(s.owner))
<1>1. /\ t.state \in {INITIAL, EXPECT_SESSION_INIT_RESPONSE}
      /\ t.pending = s.pending /\ t.outgoingPayloads = <<>>
      /\ \/ t.outgoingPdus = s.outgoingPdus
         \/ t.outgoingPdus = Queue(s, req)
  BY DEF Initiate, Raise, Return, Object, Fields
<1>2. CiphertextsIn(req) = {}
  BY DEF CiphertextsIn, SessionInitRequest
<1> HIDE DEF t, req
<1>3. CiphertextsAmong(Out(t, W)) = CiphertextsAmong(Out(s, W))
  <2>1. CASE t.outgoingPdus = s.outgoingPdus
    BY <2>1 DEF Out
  <2>2. CASE t.outgoingPdus = Queue(s, req)
    <3>1. CiphertextsAmong(Out(t, W)) = CiphertextsAmong(Out(s, W)) \cup CiphertextsIn(req)
      BY <2>2, OutAdds DEF Nonces
    <3>2. QED
      BY <1>2, <3>1
  <2>3. QED
    BY <1>1, <2>1, <2>2
<1>4. SenderInv(t, W, Alice, k) /\ Sends(s, t, W)
  BY <1>1, <1>3, MuteSender DEF AliceEnd
<1>5. ReceiverInv(t, C, L)
  BY <1>1, DeafReceiver DEF KeyedState, INITIAL, ESTABLISHED,
     EXPECT_SESSION_INIT_RESPONSE, EXPECT_SESSION_COMPLETION_REQUEST,
     EXPECT_SESSION_COMPLETION_RESPONSE
<1>6. t.state # ESTABLISHED
  BY <1>1 DEF INITIAL, ESTABLISHED, EXPECT_SESSION_INIT_RESPONSE
<1>7. QED
  BY <1>1, <1>3, <1>4, <1>5, <1>6 DEF AliceEnd, t

LEMMA HandleSessionInitResponseEnd ==
    ASSUME NEW P, NEW s, Object(s, Alice, INITIATOR, P), s.outgoingPayloads = <<>>,
           NEW W, NEW i \in Nat, Nonces(s, W, Alice, INITIATOR, i),
           NEW k, NEW C, NEW L, NEW n, AliceEnd(s, W, k, C, L, n),
           \A c \in C : c.keys.nA \in Drawn(Alice, i),
           NEW m, m.nB \in Drawn(Bob, n), NEW now
    PROVE  LET t == HandleSessionInitResponse(s, m, <<Alice, i + 1>>, now).s
           IN /\ AliceEnd(t, W, k, C, L, n) /\ Sends(s, t, W)
              /\ t.outgoingPayloads = <<>>
<1> DEFINE fresh == <<Alice, i + 1>>
           t == HandleSessionInitResponse(s, m, fresh, now).s
           keys == SessionKeys(fresh, m.nB, s.owner, s.s1,
                       Decapsulate(s.ephemeral, m.ct2),
                       Decapsulate(StaticSeed(s.owner), m.ct3),
                       <<"s4", fresh>>, m.aead)
           plain == IF s.pending = None THEN Empty ELSE s.pending
           e == Encrypt(keys, "a2b", 0, plain, s.cid)
           req == SessionCompletionRequest(s.cid, e,
                      Encapsulate(m.pkB, <<"s4", fresh>>), fresh)
<1>1. CASE SessionInitResponseError(s, m) # NoError
  <2>1. t = s
    BY <1>1 DEF HandleSessionInitResponse, Raise
  <2>2. Still(s, s, W)
    BY DEF Still
  <2>3. QED
    BY <2>1, <2>2, StillAlice
<1>2. CASE SessionInitResponseError(s, m) = NoError
  <2>1. /\ t.state = EXPECT_SESSION_COMPLETION_RESPONSE /\ t.keys = keys
        /\ t.pending = None /\ t.outgoingPayloads = <<>>
        /\ t.outgoingPdus = Queue(s, req) /\ t.role = INITIATOR
    BY <1>2 DEF HandleSessionInitResponse, Return, Object, Fields
  <2>2. keys.nA = fresh /\ keys.nB = m.nB
    BY DEF SessionKeys
  <2> HIDE DEF keys
  <2>3. e.keys = keys /\ e.dir = "a2b" /\ e.seq = 0 /\ e.plain = plain
    BY DEF Encrypt
  <2>4. CiphertextsIn(req) = {e}
    BY DEF CiphertextsIn, SessionCompletionRequest
  <2>5. fresh \notin Drawn(Alice, i)
    BY DrawnGrows
  <2> HIDE DEF t, e, req, fresh
  <2>6. CiphertextsAmong(Out(t, W)) = CiphertextsAmong(Out(s, W)) \cup {e}
    BY <2>1, <2>4, OutAdds DEF Nonces
  <2>7. \A c \in CiphertextsAmong(Out(s, W)) : c.seq \in Nat /\ c.keys # keys
    BY <2>2, <2>5 DEF Nonces, OwnCiphertexts, OwnDraw
  <2>8. Blank(e) \/ (s.pending # None /\ e.plain = s.pending)
    BY <2>3 DEF Blank
  <2>9. SenderInv(t, W, Alice, k) /\ Sends(s, t, W)
    BY <2>1, <2>3, <2>6, <2>7, <2>8, SpeakingSender DEF AliceEnd
  <2>10. ReceiverInv(t, C, L)
    <3>1. \A c \in C : ~Acceptable(t, c)
      BY <2>1, <2>2, <2>5 DEF Acceptable, ESTABLISHED,
         EXPECT_SESSION_COMPLETION_REQUEST, EXPECT_SESSION_COMPLETION_RESPONSE
    <3>2. t.role # RESPONDER
      BY <2>1 DEF INITIATOR, RESPONDER
    <3>3. QED
      BY <3>1, <3>2 DEF ReceiverInv
  <2>11. NoncesDrawn(CiphertextsAmong(Out(t, W)), n)
    BY <2>2, <2>3, <2>6 DEF NoncesDrawn, AliceEnd
  <2>12. QED
    BY <2>1, <2>9, <2>10, <2>11 DEF AliceEnd, t, fresh
<1>3. QED
  BY <1>1, <1>2

LEMMA HandleSessionCompletionResponseEnd ==
    ASSUME NEW P, NEW s, Object(s, Alice, INITIATOR, P), s.outgoingPayloads = <<>>,
           s.state = EXPECT_SESSION_COMPLETION_RESPONSE,
           NEW W, NEW k, NEW C, NEW L, NEW n, AliceEnd(s, W, k, C, L, n),
           Stream(C, "b2a"), NEW m, m.m \in C \cup {None}
    PROVE  LET t == HandleSessionCompletionResponse(s, m).s
           IN /\ AliceEnd(t, W, k, C, Heard(t, L), n) /\ Sends(s, t, W)
              /\ HandsOver(t, C, L)
<1> DEFINE t == HandleSessionCompletionResponse(s, m).s
           c == m.m
<1>1. CASE SessionCompletionResponseError(s, m) # NoError
  <2>1. t = s
    BY <1>1 DEF HandleSessionCompletionResponse, Raise
  <2>2. Still(s, s, W)
    BY DEF Still
  <2>3. QED
    BY <2>1, <2>2, StillAlice DEF Heard, HandsOver
<1>2. CASE SessionCompletionResponseError(s, m) = NoError
  <2>1. /\ t.state = ESTABLISHED /\ t.keys = s.keys /\ t.role = INITIATOR
        /\ t.pending = s.pending /\ t.outgoingPdus = s.outgoingPdus
        /\ t.outgoingPayloads = IF m.m = None THEN s.outgoingPayloads
                                ELSE Append(s.outgoingPayloads, m.m.plain)
        /\ m.m # None => t.seqB2A = 1
    BY <1>2 DEF HandleSessionCompletionResponse, Return, Object, Fields
  <2>2. m.m # None => c.keys = s.keys /\ c.dir = "b2a" /\ c.seq = 0
    BY <1>2 DEF SessionCompletionResponseError, Decrypts, NoError, HandshakeFailed
  <2>3. Append(<<>>, c.plain) = <<c.plain>>
    OBVIOUS
  <2> HIDE DEF t
  <2>4. Out(t, W) = Out(s, W)
    BY <2>1 DEF Out
  <2>5. SenderInv(t, W, Alice, k) /\ Sends(s, t, W)
    BY <2>1, <2>4, MuteSender DEF AliceEnd
  <2>6. t.role # RESPONDER
    BY <2>1 DEF INITIATOR, RESPONDER
  <2>7. \A d \in C : Acceptable(t, d) =>
            /\ d.keys = s.keys /\ TheirSeq(t) <= d.seq /\ Acceptable(s, d)
    BY <2>1 DEF Acceptable, ESTABLISHED, EXPECT_SESSION_COMPLETION_REQUEST,
       EXPECT_SESSION_COMPLETION_RESPONSE
  <2>8. ReceiverInv(t, C, Heard(t, L)) /\ HandsOver(t, C, L)
    <3>1. CASE m.m = None
      <4>1. t.outgoingPayloads = <<>>
        BY <2>1, <3>1
      <4>2. QED
        BY <2>6, <2>7, <4>1 DEF ReceiverInv, AliceEnd, Heard, HandsOver
    <3>2. CASE m.m # None
      <4>1. t.outgoingPayloads = <<c.plain>> /\ Heard(t, L) = c.plain[2]
        BY <2>1, <2>3, <3>2 DEF Heard
      <4>2. c \in C /\ ~Blank(c) /\ Acceptable(s, c)
        BY <2>2, <3>2 DEF Blank, Acceptable
      <4>3. L < c.plain[2]
        BY <4>2 DEF ReceiverInv, AliceEnd
      <4>4. ASSUME NEW d \in C, Acceptable(t, d)
            PROVE  Blank(d) \/ c.plain[2] < d.plain[2]
        <5>1. TheirSeq(t) = 1
          BY <2>1, <3>2 DEF TheirSeq
        <5>2. d.keys = c.keys /\ c.seq < d.seq
          BY <2>2, <2>7, <3>2, <4>4, <5>1 DEF Stream
        <5>3. QED
          BY <4>2, <5>2 DEF Stream, Ordered
      <4>5. QED
        BY <2>1, <2>6, <4>1, <4>2, <4>3, <4>4 DEF ReceiverInv, HandsOver
    <3>3. QED
      BY <3>1, <3>2
  <2>9. QED
    BY <2>4, <2>5, <2>8 DEF AliceEnd, t
<1>3. QED
  BY <1>1, <1>2

-----------------------------------------------------------------------------
(* Bob's handshake: no ciphertext holds the nonce he draws. *)
LEMMA HandleSessionInitRequestEnd ==
    ASSUME NEW P, NEW s, Object(s, Bob, RESPONDER, P), s.outgoingPayloads = <<>>,
           NEW W, NEW n \in Nat, Nonces(s, W, Bob, RESPONDER, n),
           NEW k, NEW C, NEW L, BobEnd(s, W, k, C, L, n), NoncesDrawn(C, n),
           NEW m, NEW now
    PROVE  LET t == HandleSessionInitRequest(s, m, <<Bob, n + 1>>, now).s
           IN /\ t.outgoingPayloads = <<>> /\ Sends(s, t, W)
              /\ \/ BobEnd(t, W, k, C, L, n)
                 \/ /\ BobEnd(t, W, k, C, L, n + 1)
                    /\ t.state = EXPECT_SESSION_COMPLETION_REQUEST
                    /\ t.deadline = now + SessionTTL
<1> DEFINE fresh == <<Bob, n + 1>>
           t == HandleSessionInitRequest(s, m, fresh, now).s
           resp == SessionInitResponse(s.cid, PublicKey(fresh, m.pkA.level),
                       Encapsulate(m.pkA, <<"s2", fresh>>),
                       Encapsulate(StaticKey(m.keyIdA), <<"s3", fresh>>),
                       fresh, ChosenAead(s.owner, m.aeads))
<1>1. CASE SessionInitRequestError(s, m) # NoError
  <2>1. t = s
    BY <1>1 DEF HandleSessionInitRequest, Raise
  <2>2. Still(s, s, W)
    BY DEF Still
  <2>3. QED
    BY <2>1, <2>2, StillBob
<1>2. CASE SessionInitRequestError(s, m) = NoError
  <2>1. /\ t.state = EXPECT_SESSION_COMPLETION_REQUEST /\ t.nB = fresh
        /\ t.deadline = now + SessionTTL /\ t.pending = s.pending
        /\ t.outgoingPayloads = <<>> /\ t.outgoingPdus = Queue(s, resp)
    BY <1>2 DEF HandleSessionInitRequest, Return, Object, Fields
  <2>2. CiphertextsIn(resp) = {} /\ resp.nB = fresh
    BY DEF CiphertextsIn, SessionInitResponse
  <2>3. /\ fresh \notin Drawn(Bob, n) /\ fresh \in Drawn(Bob, n + 1)
        /\ Drawn(Bob, n) \subseteq Drawn(Bob, n + 1)
    BY DrawnGrows
  <2> HIDE DEF t, resp, fresh
  <2>4. /\ Out(t, W) = Out(s, W) \cup {resp}
        /\ CiphertextsAmong(Out(t, W)) = CiphertextsAmong(Out(s, W)) \cup CiphertextsIn(resp)
    BY <2>1, OutAdds DEF Nonces
  <2>5. CiphertextsAmong(Out(t, W)) = CiphertextsAmong(Out(s, W))
    BY <2>2, <2>4
  <2>6. SenderInv(t, W, Bob, k) /\ Sends(s, t, W)
    BY <2>1, <2>5, MuteSender DEF BobEnd
  <2>7. ReceiverInv(t, C, L)
    BY <2>1, <2>3 DEF ReceiverInv, Acceptable, NoncesDrawn, ESTABLISHED,
       EXPECT_SESSION_COMPLETION_REQUEST, EXPECT_SESSION_COMPLETION_RESPONSE
  <2>8. OffersDrawn(Out(t, W), n + 1)
    BY <2>2, <2>3, <2>4 DEF OffersDrawn, BobEnd
  <2>9. Echoed(CiphertextsAmong(Out(t, W)), C)
    BY <2>5 DEF BobEnd
  <2>10. BobEnd(t, W, k, C, L, n + 1)
    BY <2>6, <2>7, <2>8, <2>9 DEF BobEnd
  <2>11. QED
    BY <2>1, <2>6, <2>10 DEF t, fresh
<1>3. QED
  BY <1>1, <1>2

(* The request that completes it opens the stream: what it carries, if anything, *)
(* is later than all that was handed over.                                       *)
LEMMA HandleSessionCompletionRequestEnd ==
    ASSUME NEW P, NEW s, Object(s, Bob, RESPONDER, P), s.outgoingPayloads = <<>>,
           s.state = EXPECT_SESSION_COMPLETION_REQUEST,
           NEW W, NEW i \in Nat, Nonces(s, W, Bob, RESPONDER, i),
           NEW k, NEW C, NEW L, NEW n, BobEnd(s, W, k, C, L, n),
           Stream(C, "a2b"), NEW m, m.cM \in C
    PROVE  LET t == HandleSessionCompletionRequest(s, m).s
           IN /\ BobEnd(t, W, k, C, Heard(t, L), n) /\ Sends(s, t, W)
              /\ HandsOver(t, C, L)
<1> DEFINE t == HandleSessionCompletionRequest(s, m).s
           c == m.cM
           keys == ResponderKeys(s, m)
           e == Encrypt(keys, "b2a", 0, s.pending, s.cid)
           reply == IF s.pending = None THEN None ELSE e
           resp == SessionCompletionResponse(s.cid, Sha256(m.cM.plain), reply)
<1>1. CASE SessionCompletionRequestError(s, m) # NoError
  <2>1. t = s
    BY <1>1 DEF HandleSessionCompletionRequest, Raise
  <2>2. Still(s, s, W)
    BY DEF Still
  <2>3. QED
    BY <2>1, <2>2, StillBob DEF Heard, HandsOver
<1>2. CASE SessionCompletionRequestError(s, m) = NoError
  <2>1. /\ t.state = ESTABLISHED /\ t.keys = keys /\ t.role = RESPONDER
        /\ t.seqA2B = 1 /\ t.pending = None /\ t.outgoingPdus = Queue(s, resp)
        /\ t.outgoingPayloads = IF c.plain = Empty THEN s.outgoingPayloads
                                ELSE Append(s.outgoingPayloads, c.plain)
    BY <1>2 DEF HandleSessionCompletionRequest, HandedOver, Return, Object, Fields
  <2>2. c.keys = keys /\ c.dir = "a2b" /\ c.seq = 0
    BY <1>2 DEF SessionCompletionRequestError, Decrypts, NoError, HandshakeFailed,
                ValueError
  <2>3. keys.nB = s.nB
    BY DEF ResponderKeys, SessionKeys
  <2> HIDE DEF keys
  <2>4. e.keys = keys /\ e.seq = 0 /\ e.plain = s.pending
    BY DEF Encrypt
  <2>5. /\ CiphertextsIn(resp) = {reply} \ {None}
        /\ resp.type = "session_completion_response"
    BY DEF CiphertextsIn, SessionCompletionResponse
  <2> HIDE DEF t, e, resp
  <2>6. Append(<<>>, c.plain) = <<c.plain>>
    OBVIOUS
  <2>7. /\ Out(t, W) = Out(s, W) \cup {resp}
        /\ CiphertextsAmong(Out(t, W)) = CiphertextsAmong(Out(s, W)) \cup CiphertextsIn(resp)
    BY <2>1, OutAdds DEF Nonces
  <2>8. \A d \in CiphertextsAmong(Out(s, W)) : d.seq \in Nat /\ d.keys # keys
    BY <2>3 DEF Nonces, OwnCiphertexts, Ahead
  <2>9. \/ CiphertextsAmong(Out(t, W)) = CiphertextsAmong(Out(s, W))
        \/ /\ s.pending # None
           /\ CiphertextsAmong(Out(t, W)) = CiphertextsAmong(Out(s, W)) \cup {e}
    BY <2>5, <2>7
  <2>10. SenderInv(t, W, Bob, k) /\ Sends(s, t, W)
    <3>1. CASE CiphertextsAmong(Out(t, W)) = CiphertextsAmong(Out(s, W))
      BY <2>1, <3>1, MuteSender DEF BobEnd
    <3>2. CASE /\ s.pending # None
               /\ CiphertextsAmong(Out(t, W)) = CiphertextsAmong(Out(s, W)) \cup {e}
      <4>1. \A d \in CiphertextsAmong(Out(s, W)) :
              d.seq \in Nat /\ (d.keys = e.keys => d.seq < e.seq)
        BY <2>4, <2>8
      <4>2. SenderInv(s, W, Bob, k) /\ e.seq \in Nat
        BY <2>4 DEF BobEnd
      <4>3. QED
        BY <2>1, <2>4, <3>2, <4>1, <4>2, SpeakingSender
    <3>3. QED
      BY <2>9, <3>1, <3>2
  <2>11. Echoed(CiphertextsAmong(Out(t, W)), C)
    BY <2>2, <2>4, <2>9 DEF BobEnd, Echoed
  <2>12. OffersDrawn(Out(t, W), n)
    BY <2>5, <2>7 DEF BobEnd, OffersDrawn
  <2>13. \A d \in C : Acceptable(t, d) => d.keys = c.keys /\ c.seq < d.seq
    BY <2>1, <2>2 DEF Acceptable, TheirSeq, Stream, INITIATOR, RESPONDER, ESTABLISHED,
       EXPECT_SESSION_COMPLETION_REQUEST, EXPECT_SESSION_COMPLETION_RESPONSE
  <2>14. Acceptable(s, c) /\ \A d \in C : d.keys = c.keys => Acceptable(s, d)
    BY <2>2, <2>3 DEF Acceptable
  <2>15. ReceiverInv(t, C, Heard(t, L)) /\ HandsOver(t, C, L)
    <3>1. CASE c.plain = Empty
      <4>1. t.outgoingPayloads = <<>>
        BY <2>1, <3>1
      <4>2. Heard(t, L) = L
        BY <4>1 DEF Heard
      <4>3. ReceiverInv(s, C, L)
        BY DEF BobEnd
      <4>4. \A d \in C : Acceptable(t, d) => Acceptable(s, d)
        BY <2>13, <2>14
      <4>5. ReceiverInv(t, C, L)
        BY <2>1, <4>3, <4>4 DEF ReceiverInv
      <4>6. HandsOver(t, C, L)
        BY <4>1 DEF HandsOver
      <4>7. QED
        BY <4>2, <4>5, <4>6
    <3>2. CASE c.plain # Empty
      <4>1. t.outgoingPayloads = <<c.plain>> /\ Heard(t, L) = c.plain[2]
        BY <2>1, <2>6, <3>2 DEF Heard
      <4>2. ~Blank(c)
        BY <3>2 DEF Blank
      <4>3. L < c.plain[2]
        BY <2>14, <4>2 DEF ReceiverInv, BobEnd
      <4>4. \A d \in C : Acceptable(t, d) => Blank(d) \/ c.plain[2] < d.plain[2]
        BY <2>13, <4>2 DEF Stream, Ordered
      <4>5. QED
        BY <2>1, <4>1, <4>2, <4>3, <4>4 DEF ReceiverInv, HandsOver
    <3>3. QED
      BY <3>1, <3>2
  <2>16. QED
    BY <2>10, <2>11, <2>12, <2>15 DEF BobEnd, t
<1>3. QED
  BY <1>1, <1>2

-----------------------------------------------------------------------------
(* One PDU: what arrives is what the peer has sent. *)
LEMMA ProcessIncomingAliceEnd ==
    ASSUME NEW P, NEW s, Object(s, Alice, INITIATOR, P), s.outgoingPayloads = <<>>,
           NEW W, NEW i \in Nat, Nonces(s, W, Alice, INITIATOR, i),
           NEW k, NEW C, NEW L, NEW n, AliceEnd(s, W, k, C, L, n),
           Stream(C, "b2a"), \A c \in C : c.keys.nA \in Drawn(Alice, i),
           NEW pdu, NEW now,
           pdu # Malformed =>
              /\ CiphertextsIn(pdu) \subseteq C
              /\ pdu.type = "session_init_response" => pdu.nB \in Drawn(Bob, n)
    PROVE  LET t == ProcessIncoming(s, pdu, <<Alice, i + 1>>, now).s
           IN /\ AliceEnd(t, W, k, C, Heard(t, L), n) /\ Sends(s, t, W)
              /\ HandsOver(t, C, L)
<1> DEFINE fresh == <<Alice, i + 1>>
           r == ProcessIncoming(s, pdu, fresh, now)
           resent == [s EXCEPT !.outgoingPdus = Queue(s, s.lastSent)]
           Ends(t) == /\ AliceEnd(t, W, k, C, Heard(t, L), n) /\ Sends(s, t, W)
                      /\ HandsOver(t, C, L)
<1>1. ASSUME NEW t, Still(s, t, W) PROVE Ends(t)
  <2>1. t.outgoingPayloads = <<>>
    BY <1>1 DEF Still
  <2>2. Heard(t, L) = L /\ HandsOver(t, C, L)
    BY <2>1 DEF Heard, HandsOver
  <2>3. QED
    BY <1>1, <2>2, StillAlice
<1>2. CASE r.s = s
  <2>1. Still(s, s, W)
    BY DEF Still
  <2>2. QED
    BY <1>1, <1>2, <2>1
<1>3. CASE s.lastSent # None /\ r.s = resent
  <2>1. /\ resent.outgoingPdus = Queue(s, s.lastSent) /\ resent.state = s.state
        /\ resent.role = s.role /\ resent.keys = s.keys /\ resent.nB = s.nB
        /\ resent.seqA2B = s.seqA2B /\ resent.seqB2A = s.seqB2A
        /\ resent.pending = s.pending
        /\ resent.outgoingPayloads = s.outgoingPayloads
    BY DEF Object, Fields
  <2> HIDE DEF resent
  <2>2. Still(s, resent, W)
    BY <1>3, <2>1, ResentStill
  <2>3. QED
    BY <1>1, <1>3, <2>2
<1>4. CASE /\ pdu # Malformed /\ pdu.type = "session_init_response"
           /\ r = HandleSessionInitResponse(s, pdu, fresh, now)
  <2>1. /\ AliceEnd(r.s, W, k, C, L, n) /\ Sends(s, r.s, W)
        /\ r.s.outgoingPayloads = <<>>
    BY <1>4, HandleSessionInitResponseEnd
  <2>2. QED
    BY <2>1 DEF Heard, HandsOver
<1>5. CASE /\ s.state = EXPECT_SESSION_COMPLETION_RESPONSE
           /\ pdu # Malformed /\ pdu.type = "session_completion_response"
           /\ r = HandleSessionCompletionResponse(s, pdu)
  <2>1. pdu.m \in C \cup {None}
    BY <1>5 DEF CiphertextsIn
  <2>2. QED
    BY <1>5, <2>1, HandleSessionCompletionResponseEnd
<1>6. CASE /\ s.state = ESTABLISHED /\ pdu # Malformed /\ pdu.type = "message"
           /\ r = HandleEstablishedMessage(s, pdu)
  <2>1. pdu.m \in C
    BY <1>6 DEF CiphertextsIn
  <2>2. /\ r.s.pending = s.pending /\ Out(r.s, W) = Out(s, W)
        /\ ReceiverInv(r.s, C, Heard(r.s, L)) /\ HandsOver(r.s, C, L)
    BY <1>6, <2>1, HandleEstablishedMessageHears DEF AliceEnd
  <2> HIDE DEF r
  <2>3. SenderInv(r.s, W, Alice, k) /\ Sends(s, r.s, W)
    BY <2>2, MuteSender DEF AliceEnd
  <2>4. QED
    BY <2>2, <2>3 DEF AliceEnd, r
<1>7. s.role # RESPONDER /\ s.state # EXPECT_SESSION_COMPLETION_REQUEST
  BY DEF Object, InitiatorState, INITIATOR, RESPONDER, INITIAL, ESTABLISHED, DROPPED,
         EXPECT_SESSION_INIT_RESPONSE, EXPECT_SESSION_COMPLETION_REQUEST,
         EXPECT_SESSION_COMPLETION_RESPONSE
<1>8. /\ s.state = EXPECT_SESSION_INIT_RESPONSE
            => ExpectedType(s) = "session_init_response"
      /\ s.state = EXPECT_SESSION_COMPLETION_RESPONSE
            => ExpectedType(s) = "session_completion_response"
      /\ s.state = ESTABLISHED => ExpectedType(s) = "message"
  BY DEF ExpectedType, EXPECT_SESSION_INIT_RESPONSE, ESTABLISHED,
         EXPECT_SESSION_COMPLETION_REQUEST, EXPECT_SESSION_COMPLETION_RESPONSE
<1>9. QED
  BY <1>2, <1>3, <1>4, <1>5, <1>6, <1>7, <1>8
     DEF ProcessIncoming, Return, Raise, EXPECT_SESSION_INIT_RESPONSE,
         EXPECT_SESSION_COMPLETION_REQUEST, EXPECT_SESSION_COMPLETION_RESPONSE,
         ESTABLISHED

LEMMA ProcessIncomingBobEnd ==
    ASSUME NEW P, NEW s, Object(s, Bob, RESPONDER, P), s.outgoingPayloads = <<>>,
           Bob \in Party,
           NEW W, NEW n \in Nat, Nonces(s, W, Bob, RESPONDER, n),
           NEW k, NEW C, NEW L, BobEnd(s, W, k, C, L, n),
           Stream(C, "a2b"), NoncesDrawn(C, n),
           NEW pdu, NEW now \in Nat, pdu # Malformed => CiphertextsIn(pdu) \subseteq C
    PROVE  LET t == ProcessIncoming(s, pdu, <<Bob, n + 1>>, now).s
           IN /\ Sends(s, t, W) /\ HandsOver(t, C, L)
              /\ \/ BobEnd(t, W, k, C, Heard(t, L), n)
                 \/ BobEnd(t, W, k, C, Heard(t, L), n + 1) /\ DrewNow(s, t, now)
<1> DEFINE fresh == <<Bob, n + 1>>
           r == ProcessIncoming(s, pdu, fresh, now)
           resent == [s EXCEPT !.outgoingPdus = Queue(s, s.lastSent)]
           named == [s EXCEPT !.cid = pdu.cid]
           Ends(t) == /\ Sends(s, t, W) /\ HandsOver(t, C, L)
                      /\ BobEnd(t, W, k, C, Heard(t, L), n)
<1>1. ASSUME NEW t, Still(s, t, W) PROVE Ends(t)
  <2>1. t.outgoingPayloads = <<>>
    BY <1>1 DEF Still
  <2>2. Heard(t, L) = L /\ HandsOver(t, C, L)
    BY <2>1 DEF Heard, HandsOver
  <2>3. QED
    BY <1>1, <2>2, StillBob
<1>2. CASE r.s = s
  <2>1. Still(s, s, W)
    BY DEF Still
  <2>2. QED
    BY <1>1, <1>2, <2>1
<1>3. CASE s.lastSent # None /\ r.s = resent
  <2>1. /\ resent.outgoingPdus = Queue(s, s.lastSent) /\ resent.state = s.state
        /\ resent.role = s.role /\ resent.keys = s.keys /\ resent.nB = s.nB
        /\ resent.seqA2B = s.seqA2B /\ resent.seqB2A = s.seqB2A
        /\ resent.pending = s.pending
        /\ resent.outgoingPayloads = s.outgoingPayloads
    BY DEF Object, Fields
  <2> HIDE DEF resent
  <2>2. Still(s, resent, W)
    BY <1>3, <2>1, ResentStill
  <2>3. QED
    BY <1>1, <1>3, <2>2
<1>4. CASE s.state = INITIAL /\ r = HandleSessionInitRequest(named, pdu, fresh, now)
  <2>1. /\ Object(named, Bob, RESPONDER, P)
        /\ named.state = s.state /\ named.role = s.role /\ named.keys = s.keys
        /\ named.nB = s.nB /\ named.seqA2B = s.seqA2B /\ named.seqB2A = s.seqB2A
        /\ named.pending = s.pending /\ named.outgoingPayloads = s.outgoingPayloads
        /\ named.outgoingPdus = s.outgoingPdus /\ named.lastSent = s.lastSent
    BY DEF Object, Fields
  <2> HIDE DEF named
  <2>2. Still(s, named, W) /\ OwnSeq(named) = OwnSeq(s)
        /\ named.outgoingPdus \in Seq(Range(named.outgoingPdus))
    BY <2>1 DEF Still, Out, OwnSeq, Nonces
  <2>3. Nonces(named, W, Bob, RESPONDER, n)
    <3>1. Out(named, W) = Out(s, W)
      BY <2>2 DEF Still
    <3>2. QED
      BY <2>1, <2>2, <3>1, NoncesKept
  <2>4. BobEnd(named, W, k, C, L, n)
    BY <2>2, StillBob
  <2>5. /\ r.s.outgoingPayloads = <<>> /\ Sends(named, r.s, W)
        /\ \/ BobEnd(r.s, W, k, C, L, n)
           \/ /\ BobEnd(r.s, W, k, C, L, n + 1)
              /\ r.s.state = EXPECT_SESSION_COMPLETION_REQUEST
              /\ r.s.deadline = now + SessionTTL
    BY <1>4, <2>1, <2>3, <2>4, HandleSessionInitRequestEnd
  <2> HIDE DEF r
  <2>6. Sends(s, r.s, W)
    BY <2>1, <2>2, <2>5 DEF Sends, Still
  <2>7. Heard(r.s, L) = L /\ HandsOver(r.s, C, L)
    BY <2>5 DEF Heard, HandsOver
  <2>8. /\ r.s.state = EXPECT_SESSION_COMPLETION_REQUEST
        /\ r.s.deadline = now + SessionTTL
        => DrewNow(s, r.s, now)
    BY <1>4, ConfigAssumption DEF DrewNow, INITIAL, EXPECT_SESSION_COMPLETION_REQUEST
  <2>9. QED
    BY <2>5, <2>6, <2>7, <2>8 DEF r
<1>5. CASE /\ s.state = EXPECT_SESSION_COMPLETION_REQUEST
           /\ pdu # Malformed /\ pdu.type = "session_completion_request"
           /\ r = HandleSessionCompletionRequest(s, pdu)
  <2>1. pdu.cM \in C
    BY <1>5 DEF CiphertextsIn
  <2>2. QED
    BY <1>5, <2>1, HandleSessionCompletionRequestEnd
<1>6. CASE /\ s.state = ESTABLISHED /\ pdu # Malformed /\ pdu.type = "message"
           /\ r = HandleEstablishedMessage(s, pdu)
  <2>1. pdu.m \in C /\ RESPONDER # INITIATOR
    BY <1>6 DEF CiphertextsIn, INITIATOR, RESPONDER
  <2>2. /\ r.s.pending = s.pending /\ Out(r.s, W) = Out(s, W)
        /\ ReceiverInv(r.s, C, Heard(r.s, L)) /\ HandsOver(r.s, C, L)
    BY <1>6, <2>1, HandleEstablishedMessageHears DEF BobEnd
  <2> HIDE DEF r
  <2>3. SenderInv(r.s, W, Bob, k) /\ Sends(s, r.s, W)
    BY <2>2, MuteSender DEF BobEnd
  <2>4. QED
    BY <2>2, <2>3 DEF BobEnd, r
<1>7. s.state \notin {EXPECT_SESSION_INIT_RESPONSE, EXPECT_SESSION_COMPLETION_RESPONSE}
  BY DEF Object, ResponderState, INITIATOR, RESPONDER, INITIAL, ESTABLISHED, DROPPED,
         EXPECT_SESSION_INIT_RESPONSE, EXPECT_SESSION_COMPLETION_REQUEST,
         EXPECT_SESSION_COMPLETION_RESPONSE
<1>8. /\ s.state = EXPECT_SESSION_COMPLETION_REQUEST
            => ExpectedType(s) = "session_completion_request"
      /\ s.state = ESTABLISHED => ExpectedType(s) = "message"
  BY DEF ExpectedType, EXPECT_SESSION_INIT_RESPONSE, ESTABLISHED,
         EXPECT_SESSION_COMPLETION_REQUEST, EXPECT_SESSION_COMPLETION_RESPONSE
<1>9. QED
  BY <1>2, <1>3, <1>4, <1>5, <1>6, <1>7, <1>8
     DEF ProcessIncoming, Return, Raise, EXPECT_SESSION_INIT_RESPONSE,
         EXPECT_SESSION_COMPLETION_REQUEST, EXPECT_SESSION_COMPLETION_RESPONSE,
         ESTABLISHED

-----------------------------------------------------------------------------
(* And the whole call. *)
LEMMA SendsOn ==
    ASSUME NEW s, NEW t, NEW u, NEW W, Sends(s, t, W), Sends(t, u, W)
    PROVE  Sends(s, u, W)
BY DEF Sends

LEMMA HandedOn ==
    ASSUME NEW owner, NEW role, NEW P, NEW s, Object(s, owner, role, P),
           NEW C, NEW L, HandsOver(s, C, L), NEW now
    PROVE  LET t == CheckDeadline(SendPending(s), now)
           IN HandsOver(t, C, L) /\ Heard(t, L) = Heard(s, L)
<1> DEFINE u == SendPending(s)
           t == CheckDeadline(u, now)
<1>1. Object(u, owner, role, P)
  BY SendPendingObject
<1>2. u.outgoingPayloads = s.outgoingPayloads /\ u.state = s.state
  BY DEF SendPending, SendEstablishedPayload, Object, Fields
<1> HIDE DEF u
<1>3. t.outgoingPayloads = u.outgoingPayloads
  BY <1>1, PayloadsKept
<1>4. u.state = ESTABLISHED => t.state = ESTABLISHED
  BY DEF CheckDeadline, TimedOut
<1> HIDE DEF t
<1>5. QED
  BY <1>2, <1>3, <1>4 DEF HandsOver, Heard, t, u

LEMMA UpdateAliceEnd ==
    ASSUME NEW P, NEW s, Object(s, Alice, INITIATOR, P), s.outgoingPayloads = <<>>,
           Alice \in Party,
           NEW W, NEW i \in Nat, Nonces(s, W, Alice, INITIATOR, i),
           NEW K, NEW D, AliceInv(s, W, i, K, D),
           NEW k, NEW C, NEW L, NEW n, AliceEnd(s, W, k, C, L, n),
           Stream(C, "b2a"), \A c \in C : c.keys.nA \in Drawn(Alice, i),
           NEW pdu,
           pdu # None /\ pdu # Malformed =>
              /\ CiphertextsIn(pdu) \subseteq C
              /\ pdu.type = "session_init_response" => pdu.nB \in Drawn(Bob, n)
              /\ AtLevel(pdu)
              /\ pdu.type = "session_completion_response"
                    => Answerable(Out(s, W), pdu.cid, K, D)
    PROVE  LET t == Update(s, pdu, <<Alice, i + 1>>, 0).s
           IN /\ AliceEnd(t, W, k, C, Heard(t, L), n) /\ Sends(s, t, W)
              /\ HandsOver(t, C, L)
<1> DEFINE fresh == <<Alice, i + 1>>
           r == IF pdu = None THEN Return(s) ELSE ProcessIncoming(s, pdu, fresh, 0)
           sent == SendPending(r.s)
           last == CheckDeadline(sent, 0)
           Ends(t) == /\ AliceEnd(t, W, k, C, Heard(t, L), n) /\ Sends(s, t, W)
                      /\ HandsOver(t, C, L)
<1>1. Object(r.s, Alice, INITIATOR, P) /\ AliceInv(r.s, W, i, K, D)
  BY ProcessIncomingObject, ProcessIncomingAlice DEF Return
<1>2. PICK j \in Nat : Nonces(r.s, W, Alice, INITIATOR, j)
  <2>1. \/ Nonces(r.s, W, Alice, INITIATOR, i)
        \/ Nonces(r.s, W, Alice, INITIATOR, i + 1)
    BY ProcessIncomingNonces DEF Return
  <2>2. QED
    BY <2>1
<1>3. Ends(s)
  <2>1. Still(s, s, W) /\ Heard(s, L) = L /\ HandsOver(s, C, L)
    BY DEF Still, Heard, HandsOver
  <2>2. QED
    BY <2>1, StillAlice
<1>4. Ends(r.s)
  <2>1. CASE pdu = None
    BY <1>3, <2>1 DEF Return
  <2>2. CASE pdu # None
    BY <2>2, ProcessIncomingAliceEnd
  <2>3. QED
    BY <2>1, <2>2
<1>5. Update(s, pdu, fresh, 0).s \in {s, r.s, last}
  BY DEF Update, AfterIncoming, Return
<1> HIDE DEF r
<1>6. Ends(last)
  <2> DEFINE H == Heard(r.s, L)
  <2>1. /\ Object(sent, Alice, INITIATOR, P)
        /\ Nonces(sent, W, Alice, INITIATOR, j)
        /\ AliceEnd(sent, W, k, C, H, n) /\ Sends(r.s, sent, W)
    BY <1>1, <1>2, <1>4, SendPendingObject, SendPendingNonces, SendPendingAlice
  <2>2. HandsOver(last, C, L) /\ Heard(last, L) = H
    BY <1>1, <1>4, HandedOn
  <2> HIDE DEF sent
  <2>3. Still(sent, last, W)
    BY <2>1, CheckDeadlineStill
  <2>4. AliceEnd(last, W, k, C, H, n) /\ Sends(sent, last, W)
    BY <2>1, <2>3, StillAlice
  <2> HIDE DEF last, H
  <2>5. Sends(s, last, W)
    BY <1>4, <2>1, <2>4, SendsOn
  <2>6. QED
    BY <2>2, <2>4, <2>5
<1> HIDE DEF last
<1>7. QED
  BY <1>3, <1>4, <1>5, <1>6

LEMMA UpdateBobEnd ==
    ASSUME NEW P, NEW s, Object(s, Bob, RESPONDER, P), s.outgoingPayloads = <<>>,
           Alice \in Party, Bob \in Party,
           NEW W, NEW n \in Nat, Nonces(s, W, Bob, RESPONDER, n),
           NEW WA, NEW K, NEW D, BobInv(s, W, WA, K, D), Empty \in D,
           NEW k, NEW L, BobEnd(s, W, k, CiphertextsAmong(WA), L, n),
           Stream(CiphertextsAmong(WA), "a2b"), NoncesDrawn(CiphertextsAmong(WA), n),
           \A x \in WA :
              AtLevel(x) /\ (x.type = "session_init_request" => x.keyIdA = Alice),
           NEW pdu \in WA \cup {Malformed, None}
    PROVE  LET t == Update(s, pdu, <<Bob, n + 1>>, 0).s
               C == CiphertextsAmong(WA)
           IN /\ Sends(s, t, W) /\ HandsOver(t, C, L)
              /\ \/ BobEnd(t, W, k, C, Heard(t, L), n)
                 \/ BobEnd(t, W, k, C, Heard(t, L), n + 1) /\ DrewNow(s, t, 0)
<1> DEFINE fresh == <<Bob, n + 1>>
           C == CiphertextsAmong(WA)
           r == IF pdu = None THEN Return(s) ELSE ProcessIncoming(s, pdu, fresh, 0)
           sent == SendPending(r.s)
           last == CheckDeadline(sent, 0)
           Ends(t, j) == /\ BobEnd(t, W, k, C, Heard(t, L), j) /\ Sends(s, t, W)
                         /\ HandsOver(t, C, L)
<1>0. ConfirmedBy(s, K) = K /\ HandedBy(s, D) = D
  BY DEF BobInv, ConfirmedBy, HandedBy, Range
<1>1. /\ Object(r.s, Bob, RESPONDER, P)
      /\ BobInv(r.s, W, WA, ConfirmedBy(r.s, K), HandedBy(r.s, D))
  BY <1>0, ProcessIncomingObject, ProcessIncomingBob DEF Return
<1>2. PICK j \in Nat : Nonces(r.s, W, Bob, RESPONDER, j)
  <2>1. \/ Nonces(r.s, W, Bob, RESPONDER, n)
        \/ Nonces(r.s, W, Bob, RESPONDER, n + 1)
    BY ProcessIncomingNonces DEF Return
  <2>2. QED
    BY <2>1
<1>3. Ends(s, n)
  <2>1. Still(s, s, W) /\ Heard(s, L) = L /\ HandsOver(s, C, L)
    BY DEF Still, Heard, HandsOver
  <2>2. QED
    BY <2>1, StillBob
<1>4. Ends(r.s, n) \/ (Ends(r.s, n + 1) /\ DrewNow(s, r.s, 0))
  <2>1. CASE pdu = None
    BY <1>3, <2>1 DEF Return
  <2>2. CASE pdu # None
    <3>1. pdu # Malformed => CiphertextsIn(pdu) \subseteq C
      BY <2>2 DEF CiphertextsAmong
    <3> HIDE DEF C
    <3>2. QED
      BY <2>2, <3>1, ProcessIncomingBobEnd DEF C
  <2>3. QED
    BY <2>1, <2>2
<1>5. Update(s, pdu, fresh, 0).s \in {s, r.s, last}
  BY DEF Update, AfterIncoming, Return
<1> HIDE DEF r
<1>6. ASSUME Ends(r.s, n) PROVE Ends(last, n)
  <2> DEFINE H == Heard(r.s, L)
  <2>1. /\ Object(sent, Bob, RESPONDER, P)
        /\ Nonces(sent, W, Bob, RESPONDER, j)
        /\ BobEnd(sent, W, k, C, H, n) /\ Sends(r.s, sent, W)
    BY <1>1, <1>2, <1>6, SendPendingObject, SendPendingNonces, SendPendingBob
  <2> HIDE DEF C
  <2>2. HandsOver(last, C, L) /\ Heard(last, L) = H
    BY <1>1, <1>6, HandedOn
  <2> HIDE DEF sent
  <2>3. Still(sent, last, W)
    BY <2>1, CheckDeadlineStill
  <2>4. BobEnd(last, W, k, C, H, n) /\ Sends(sent, last, W)
    BY <2>1, <2>3, StillBob
  <2> HIDE DEF last, H
  <2>5. Sends(s, last, W)
    BY <1>6, <2>1, <2>4, SendsOn
  <2>6. QED
    BY <2>2, <2>4, <2>5
<1>7. ASSUME DrewNow(s, r.s, 0) PROVE last = r.s
  <2>1. SendPending(r.s) = r.s
    BY <1>7 DEF SendPending, DrewNow, ESTABLISHED, EXPECT_SESSION_COMPLETION_REQUEST,
                EXPECT_SESSION_COMPLETION_RESPONSE
  <2>2. CheckDeadline(r.s, 0) = r.s
    BY <1>7 DEF CheckDeadline, TimedOut, DrewNow
  <2>3. QED
    BY <2>1, <2>2
<1> HIDE DEF last, C
<1>8. QED
  BY <1>3, <1>4, <1>5, <1>6, <1>7 DEF C

-----------------------------------------------------------------------------
(* The pair: both ends, and what is still waiting was posted after what arrived. *)
LastOf(D) == IF D = <<>> THEN 0 ELSE D[Len(D)][2]

Made(p) == CiphertextsAmong(wire[p])

ChannelInv ==
    /\ AgreementInv
    /\ AliceEnd(sess[Alice], wire[Alice], posted[Alice], Made(Bob),
                LastOf(delivered[Alice]), draws[Bob])
    /\ BobEnd(sess[Bob], wire[Bob], posted[Bob], Made(Alice),
              LastOf(delivered[Bob]), draws[Bob])
    /\ \A p \in Party :
        /\ delivered[p] \in Seq(Posts(Peer(p), posted[Peer(p)]))
        /\ sess[Peer(p)].pending # None
              => LastOf(delivered[p]) < sess[Peer(p)].pending[2]

LEMMA Pair ==
    /\ Party = {Alice, Bob} /\ Alice # Bob
    /\ Peer(Alice) = Bob /\ Peer(Bob) = Alice
    /\ \A p \in Party : Peer(p) \in Party /\ Peer(Peer(p)) = p /\ Peer(p) # p
BY PairAssumption DEF Peer

LEMMA BothEnds ==
    ASSUME ChannelInv, NEW p \in Party
    PROVE  /\ PartyInv(p, sess[p], wire[p], draws[p]) /\ draws[p] \in Nat
           /\ Out(sess[p], wire[p]) = wire[p]
           /\ SenderInv(sess[p], wire[p], p, posted[p])
           /\ ReceiverInv(sess[p], Made(Peer(p)), LastOf(delivered[p]))
           /\ Stream(Made(p), OwnDir(RoleOf(p)))
           /\ \A c \in Made(p) : OwnDraw(RoleOf(p), c.keys) \in Drawn(p, draws[p])
<1>1. PartyInv(p, sess[p], wire[p], draws[p]) /\ draws[p] \in Nat
  BY DEF ChannelInv, AgreementInv, IInv
<1>2. Out(sess[p], wire[p]) = wire[p]
  BY <1>1 DEF PartyInv, Out, Range
<1>3. /\ SenderInv(sess[p], wire[p], p, posted[p])
      /\ ReceiverInv(sess[p], Made(Peer(p)), LastOf(delivered[p]))
  BY Pair DEF ChannelInv, AliceEnd, BobEnd
<1>4. Ordered(Made(p))
  BY <1>2, <1>3 DEF SenderInv, Made
<1>5. OwnCiphertexts(Made(p), p, RoleOf(p), draws[p])
  BY <1>1, <1>2 DEF PartyInv, Nonces, Made
<1>6. QED
  BY <1>1, <1>2, <1>3, <1>4, <1>5 DEF Stream, OwnCiphertexts

(* Draining a session moves its queue to the wire. *)
LEMMA DrainedEnd ==
    ASSUME NEW owner, NEW role, NEW P, NEW s, Object(s, owner, role, P), NEW W
    PROVE  LET t == Drained(s)
               V == W \cup Range(s.outgoingPdus)
           IN /\ t.pending = s.pending
              /\ CiphertextsAmong(V) = CiphertextsAmong(Out(s, W))
              /\ \A k, C, L, n : AliceEnd(s, W, k, C, L, n) => AliceEnd(t, V, k, C, L, n)
              /\ \A k, C, L, n : BobEnd(s, W, k, C, L, n) => BobEnd(t, V, k, C, L, n)
<1> DEFINE t == Drained(s)
           V == W \cup Range(s.outgoingPdus)
<1>1. /\ t.state = s.state /\ t.role = s.role /\ t.keys = s.keys /\ t.nB = s.nB
      /\ t.seqA2B = s.seqA2B /\ t.seqB2A = s.seqB2A /\ t.pending = s.pending
      /\ t.outgoingPdus = <<>>
  BY DEF Drained, Object, Fields
<1> HIDE DEF t
<1>2. Out(t, V) = Out(s, W) /\ V = Out(s, W)
  BY <1>1 DEF Out, Range
<1> HIDE DEF V
<1>3. \A p, k : SenderInv(s, W, p, k) => SenderInv(t, V, p, k)
  BY <1>1, <1>2 DEF SenderInv
<1>4. \A C, L : ReceiverInv(s, C, L) => ReceiverInv(t, C, L)
  BY <1>1 DEF ReceiverInv, Acceptable, TheirSeq
<1>5. QED
  BY <1>1, <1>2, <1>3, <1>4 DEF AliceEnd, BobEnd, t, V

(* The payload handed over is the last one then, and every one was posted. *)
LEMMA DeliveredGrows ==
    ASSUME NEW S, NEW D \in Seq(S), NEW t, NEW C, HandsOver(t, C, LastOf(D)),
           \A c \in C : Blank(c) \/ c.plain \in S
    PROVE  /\ D \o t.outgoingPayloads \in Seq(S)
           /\ LastOf(D \o t.outgoingPayloads) = Heard(t, LastOf(D))
<1>1. CASE t.outgoingPayloads = <<>>
  <2>1. D \o <<>> = D
    OBVIOUS
  <2>2. QED
    BY <1>1, <2>1 DEF Heard
<1>2. CASE t.outgoingPayloads # <<>>
  <2>1. PICK c \in C : ~Blank(c) /\ t.outgoingPayloads = <<c.plain>>
    BY <1>2 DEF HandsOver
  <2> DEFINE payload == c.plain
  <2>2. payload \in S
    BY <2>1
  <2> HIDE DEF payload
  <2>3. /\ D \o <<payload>> \in Seq(S) /\ D \o <<payload>> # <<>>
        /\ Len(D \o <<payload>>) = Len(D) + 1
        /\ (D \o <<payload>>)[Len(D) + 1] = payload
    BY <2>2
  <2>4. t.outgoingPayloads = <<payload>> /\ t.outgoingPayloads[1] = payload
    BY <2>1 DEF payload
  <2>5. QED
    BY <1>2, <2>3, <2>4 DEF LastOf, Heard
<1>3. QED
  BY <1>1, <1>2

(* A call of p's caller, and what it means to the other end. *)
LEMMA DrainHears ==
    ASSUME ChannelInv, NEW p \in Party, NEW t, Drain(p, t), UNCHANGED posted,
           Object(t, p, RoleOf(p), Payload(p)),
           Sends(sess[p], t, wire[p]),
           HandsOver(t, Made(Peer(p)), LastOf(delivered[p]))
    PROVE  LET q == Peer(p)
           IN /\ sess'[p] = Drained(t) /\ sess'[q] = sess[q]
              /\ wire'[p] = wire[p] \cup Range(t.outgoingPdus) /\ wire'[q] = wire[q]
              /\ LastOf(delivered'[p]) = Heard(t, LastOf(delivered[p]))
              /\ delivered'[q] = delivered[q]
              /\ Made(p) \subseteq Made(p)'
              /\ ReceiverInv(sess[q], Made(p)', LastOf(delivered[q]))
              /\ \A o \in Party :
                  /\ delivered'[o] \in Seq(Posts(Peer(o), posted[Peer(o)]))
                  /\ sess'[Peer(o)].pending # None
                        => LastOf(delivered'[o]) < sess'[Peer(o)].pending[2]
<1> DEFINE q == Peer(p)
           L == LastOf(delivered[p])
           V == wire[p] \cup Range(t.outgoingPdus)
<1>1. /\ q \in Party /\ q # p /\ Peer(q) = p
      /\ \A o \in Party : o = p \/ o = q
  BY Pair
<1>2. /\ sess = [o \in Party |-> sess[o]] /\ wire = [o \in Party |-> wire[o]]
      /\ delivered = [o \in Party |-> delivered[o]]
  BY DEF ChannelInv, AgreementInv, IInv
<1>3. /\ sess'[p] = Drained(t) /\ sess'[q] = sess[q]
      /\ wire'[p] = V /\ wire'[q] = wire[q]
      /\ delivered'[p] = delivered[p] \o t.outgoingPayloads
      /\ delivered'[q] = delivered[q]
  BY <1>1, <1>2 DEF Drain
<1>4. /\ Out(sess[p], wire[p]) = wire[p] /\ Out(sess[q], wire[q]) = wire[q]
      /\ SenderInv(sess[q], wire[q], q, posted[q])
      /\ ReceiverInv(sess[q], Made(p), LastOf(delivered[q]))
  BY <1>1, BothEnds
<1>5. Drained(t).pending = t.pending /\ CiphertextsAmong(V) = CiphertextsAmong(Out(t, wire[p]))
  BY DrainedEnd
<1> HIDE DEF V
<1>6. /\ delivered[p] \in Seq(Posts(q, posted[q]))
      /\ delivered[q] \in Seq(Posts(p, posted[p]))
      /\ sess[q].pending # None => L < sess[q].pending[2]
      /\ sess[p].pending # None => LastOf(delivered[q]) < sess[p].pending[2]
  BY <1>1 DEF ChannelInv
<1>7. \A c \in Made(q) : Blank(c) \/ c.plain \in Posts(q, posted[q])
  BY <1>4 DEF SenderInv, Made
<1>8. /\ delivered'[p] \in Seq(Posts(q, posted[q]))
      /\ LastOf(delivered'[p]) = Heard(t, L)
  BY <1>3, <1>6, <1>7, DeliveredGrows
<1>9. sess[q].pending # None => Heard(t, L) < sess[q].pending[2]
  <2>1. CASE t.outgoingPayloads = <<>>
    BY <1>6, <2>1 DEF Heard
  <2>2. CASE t.outgoingPayloads # <<>>
    <3>1. PICK c \in Made(q) : ~Blank(c) /\ t.outgoingPayloads = <<c.plain>>
      BY <2>2 DEF HandsOver
    <3>2. Heard(t, L) = c.plain[2]
      BY <2>2, <3>1 DEF Heard
    <3>3. sess[q].pending # None => c.plain[2] < sess[q].pending[2]
      BY <1>4, <3>1 DEF SenderInv, Newer, Made
    <3>4. QED
      BY <3>2, <3>3
  <2>3. QED
    BY <2>1, <2>2
<1>10. t.pending # None => LastOf(delivered[q]) < t.pending[2]
  BY <1>6 DEF Sends
<1>11. Made(p)' = CiphertextsAmong(Out(t, wire[p]))
  BY <1>3, <1>5 DEF Made
<1>12. Made(p) \subseteq Made(p)'
  BY <1>3 DEF Made, CiphertextsAmong, V
<1>13. ReceiverInv(sess[q], Made(p)', LastOf(delivered[q]))
  <2>1. \A c \in Made(p)' : c \in Made(p) \/ Blank(c) \/ LastOf(delivered[q]) < c.plain[2]
    BY <1>4, <1>6, <1>11 DEF Sends, Made
  <2>2. QED
    BY <1>4, <2>1 DEF ReceiverInv
<1>14. ASSUME NEW o \in Party
       PROVE  /\ delivered'[o] \in Seq(Posts(Peer(o), posted[Peer(o)]))
              /\ sess'[Peer(o)].pending # None
                    => LastOf(delivered'[o]) < sess'[Peer(o)].pending[2]
  <2>1. CASE o = p
    BY <1>3, <1>8, <1>9, <2>1
  <2>2. CASE o = q
    BY <1>1, <1>3, <1>5, <1>6, <1>10, <2>2
  <2>3. QED
    BY <1>1, <2>1, <2>2
<1>15. QED
  BY <1>3, <1>8, <1>12, <1>13, <1>14 DEF V

LEMMA AliceDrainsEnd ==
    ASSUME ChannelInv, AgreementInv', NEW t, Drain(Alice, t), UNCHANGED posted,
           Object(t, Alice, INITIATOR, Payload(Alice)),
           Sends(sess[Alice], t, wire[Alice]),
           LET L == LastOf(delivered[Alice])
           IN /\ HandsOver(t, Made(Bob), L)
              /\ AliceEnd(t, wire[Alice], posted[Alice], Made(Bob), Heard(t, L), draws[Bob])
    PROVE  ChannelInv'
<1> DEFINE L == LastOf(delivered[Alice])
           V == wire[Alice] \cup Range(t.outgoingPdus)
<1>1. /\ sess'[Alice] = Drained(t) /\ sess'[Bob] = sess[Bob]
      /\ wire'[Alice] = V /\ wire'[Bob] = wire[Bob]
      /\ LastOf(delivered'[Alice]) = Heard(t, L)
      /\ delivered'[Bob] = delivered[Bob]
      /\ Made(Alice) \subseteq Made(Alice)'
      /\ ReceiverInv(sess[Bob], Made(Alice)', LastOf(delivered[Bob]))
      /\ \A o \in Party :
          /\ delivered'[o] \in Seq(Posts(Peer(o), posted[Peer(o)]))
          /\ sess'[Peer(o)].pending # None
                => LastOf(delivered'[o]) < sess'[Peer(o)].pending[2]
  BY Pair, RoleIsRole, DrainHears
<1>2. Made(Bob)' = Made(Bob) /\ draws'[Bob] = draws[Bob]
  BY <1>1, Pair DEF Made, Drain, ChannelInv, AgreementInv, IInv
<1>3. AliceEnd(Drained(t), V, posted[Alice], Made(Bob), Heard(t, L), draws[Bob])
  BY DrainedEnd
<1>4. BobEnd(sess[Bob], wire[Bob], posted[Bob], Made(Alice)',
             LastOf(delivered[Bob]), draws[Bob])
  BY <1>1 DEF ChannelInv, BobEnd, Echoed
<1>5. QED
  BY <1>1, <1>2, <1>3, <1>4 DEF ChannelInv

LEMMA BobEndGrows ==
    ASSUME NEW s, NEW W, NEW k, NEW C, NEW L, NEW n \in Nat, BobEnd(s, W, k, C, L, n)
    PROVE  BobEnd(s, W, k, C, L, n + 1)
BY DrawnGrows DEF BobEnd, OffersDrawn

LEMMA BobDrainsEnd ==
    ASSUME ChannelInv, AgreementInv', NEW t, Drain(Bob, t), UNCHANGED posted,
           Object(t, Bob, RESPONDER, Payload(Bob)),
           Sends(sess[Bob], t, wire[Bob]),
           LET L == LastOf(delivered[Bob])
               C == Made(Alice)
           IN /\ HandsOver(t, C, L)
              /\ \/ BobEnd(t, wire[Bob], posted[Bob], C, Heard(t, L), draws[Bob])
                 \/ /\ BobEnd(t, wire[Bob], posted[Bob], C, Heard(t, L), draws[Bob] + 1)
                    /\ DrewNow(sess[Bob], t, 0)
    PROVE  ChannelInv'
<1> DEFINE L == LastOf(delivered[Bob])
           V == wire[Bob] \cup Range(t.outgoingPdus)
           n == draws'[Bob]
<1>1. /\ sess'[Bob] = Drained(t) /\ sess'[Alice] = sess[Alice]
      /\ wire'[Bob] = V /\ wire'[Alice] = wire[Alice]
      /\ LastOf(delivered'[Bob]) = Heard(t, L)
      /\ delivered'[Alice] = delivered[Alice]
      /\ ReceiverInv(sess[Alice], Made(Bob)', LastOf(delivered[Alice]))
      /\ \A o \in Party :
          /\ delivered'[o] \in Seq(Posts(Peer(o), posted[Peer(o)]))
          /\ sess'[Peer(o)].pending # None
                => LastOf(delivered'[o]) < sess'[Peer(o)].pending[2]
  BY Pair, RoleIsRole, DrainHears
<1>2. /\ Made(Alice)' = Made(Alice)
      /\ draws[Bob] \in Nat
      /\ n = IF Drew(sess[Bob], t) THEN draws[Bob] + 1 ELSE draws[Bob]
  BY <1>1, Pair DEF Made, Drain, ChannelInv, AgreementInv, IInv
<1>3. BobEnd(t, wire[Bob], posted[Bob], Made(Alice), Heard(t, L), n)
  BY <1>2, BobEndGrows DEF DrewNow, Drew
<1> HIDE DEF n
<1>4. BobEnd(Drained(t), V, posted[Bob], Made(Alice), Heard(t, L), n)
  BY <1>3, DrainedEnd
<1>5. AliceEnd(sess[Alice], wire[Alice], posted[Alice], Made(Bob)',
               LastOf(delivered[Alice]), n)
  <2>1. Drawn(Bob, draws[Bob]) \subseteq Drawn(Bob, n)
    BY <1>2, DrawnGrows
  <2>2. QED
    BY <1>1, <2>1 DEF ChannelInv, AliceEnd, NoncesDrawn
<1>6. QED
  BY <1>1, <1>2, <1>4, <1>5 DEF ChannelInv, n

-----------------------------------------------------------------------------
(* A PDU arrives, or none: the session the call leaves behind. *)
LEMMA AliceUpdates ==
    ASSUME ChannelInv, NEW pdu \in Arrivals(Alice) \cup {None}
    PROVE  LET t == Update(sess[Alice], pdu, Fresh(Alice), 0).s
               L == LastOf(delivered[Alice])
           IN /\ Object(t, Alice, INITIATOR, Payload(Alice))
              /\ Sends(sess[Alice], t, wire[Alice])
              /\ HandsOver(t, Made(Bob), L)
              /\ AliceEnd(t, wire[Alice], posted[Alice], Made(Bob), Heard(t, L), draws[Bob])
<1> DEFINE s == sess[Alice]
           i == draws[Alice]
<1>1. /\ Alice \in Party /\ Bob \in Party
      /\ Object(s, Alice, INITIATOR, Payload(Alice)) /\ s.outgoingPayloads = <<>>
      /\ Nonces(s, wire[Alice], Alice, INITIATOR, i) /\ i \in Nat
      /\ Out(s, wire[Alice]) = wire[Alice] /\ Out(sess[Bob], wire[Bob]) = wire[Bob]
  BY Pair, RoleIsRole, BothEnds DEF PartyInv
<1>2. Stream(Made(Bob), "b2a") /\ \A a \in Made(Alice) : a.keys.nA \in Drawn(Alice, i)
  BY <1>1, RoleIsRole, BothEnds DEF OwnDir, OwnDraw
<1>3. \A c \in Made(Bob) : c.keys.nA \in Drawn(Alice, i)
  BY <1>1, <1>2 DEF ChannelInv, BobEnd, Echoed, Made
<1>4. pdu # None /\ pdu # Malformed => pdu \in wire[Bob]
  BY Pair DEF Arrivals
<1>5. pdu # None /\ pdu # Malformed =>
        /\ CiphertextsIn(pdu) \subseteq Made(Bob)
        /\ pdu.type = "session_init_response" => pdu.nB \in Drawn(Bob, draws[Bob])
        /\ AtLevel(pdu)
        /\ pdu.type = "session_completion_response"
              => Answerable(Out(s, wire[Alice]), pdu.cid, confirmed, Handed)
  <2> SUFFICES ASSUME pdu \in wire[Bob]
               PROVE  /\ CiphertextsIn(pdu) \subseteq Made(Bob)
                      /\ pdu.type = "session_init_response" => pdu.nB \in Drawn(Bob, draws[Bob])
                      /\ AtLevel(pdu)
                      /\ pdu.type = "session_completion_response"
                            => Answerable(Out(s, wire[Alice]), pdu.cid, confirmed, Handed)
    BY <1>4
  <2>1. CiphertextsIn(pdu) \subseteq Made(Bob)
    BY DEF Made, CiphertextsAmong
  <2>2. pdu.type = "session_init_response" => pdu.nB \in Drawn(Bob, draws[Bob])
    BY <1>1 DEF ChannelInv, BobEnd, OffersDrawn
  <2>3. /\ AtLevel(pdu)
        /\ pdu.type = "session_completion_response"
              => Answerable(Out(s, wire[Alice]), pdu.cid, confirmed, Handed)
    BY <1>1 DEF ChannelInv, AgreementInv, BobInv, Sent
  <2>4. QED
    BY <2>1, <2>2, <2>3
<1>6. /\ AliceInv(s, wire[Alice], i, confirmed, Handed)
      /\ AliceEnd(s, wire[Alice], posted[Alice], Made(Bob), LastOf(delivered[Alice]), draws[Bob])
  BY DEF ChannelInv, AgreementInv
<1>7. Object(Update(s, pdu, Fresh(Alice), 0).s, Alice, INITIATOR, Payload(Alice))
  BY <1>1, RoleIsRole, UpdateObject
<1> HIDE DEF s, i
<1>8. QED
  BY <1>1, <1>2, <1>3, <1>5, <1>6, <1>7, UpdateAliceEnd DEF s, i, Fresh

LEMMA BobUpdates ==
    ASSUME ChannelInv, NEW pdu \in Arrivals(Bob) \cup {None}
    PROVE  LET t == Update(sess[Bob], pdu, Fresh(Bob), 0).s
               L == LastOf(delivered[Bob])
               C == Made(Alice)
           IN /\ Object(t, Bob, RESPONDER, Payload(Bob))
              /\ Sends(sess[Bob], t, wire[Bob])
              /\ HandsOver(t, C, L)
              /\ \/ BobEnd(t, wire[Bob], posted[Bob], C, Heard(t, L), draws[Bob])
                 \/ /\ BobEnd(t, wire[Bob], posted[Bob], C, Heard(t, L), draws[Bob] + 1)
                    /\ DrewNow(sess[Bob], t, 0)
<1> DEFINE s == sess[Bob]
           n == draws[Bob]
<1>1. /\ Alice \in Party /\ Bob \in Party
      /\ Object(s, Bob, RESPONDER, Payload(Bob)) /\ s.outgoingPayloads = <<>>
      /\ Nonces(s, wire[Bob], Bob, RESPONDER, n) /\ n \in Nat
      /\ Out(sess[Alice], wire[Alice]) = wire[Alice]
  BY Pair, RoleIsRole, BothEnds DEF PartyInv
<1>2. Stream(Made(Alice), "a2b")
  BY <1>1, RoleIsRole, BothEnds DEF OwnDir
<1>3. NoncesDrawn(Made(Alice), n)
  BY <1>1 DEF ChannelInv, AliceEnd, Made
<1>4. pdu \in wire[Alice] \cup {Malformed, None}
  BY Pair DEF Arrivals
<1>5. \A x \in wire[Alice] :
         AtLevel(x) /\ (x.type = "session_init_request" => x.keyIdA = Alice)
  BY <1>1 DEF ChannelInv, AgreementInv, AliceInv, Sent
<1>6. /\ BobInv(s, wire[Bob], wire[Alice], confirmed, Handed) /\ Empty \in Handed
      /\ BobEnd(s, wire[Bob], posted[Bob], Made(Alice), LastOf(delivered[Bob]), n)
  BY DEF ChannelInv, AgreementInv, Handed
<1>7. Object(Update(s, pdu, Fresh(Bob), 0).s, Bob, RESPONDER, Payload(Bob))
  BY <1>1, RoleIsRole, UpdateObject
<1> HIDE DEF s, n
<1>8. QED
  BY <1>1, <1>2, <1>3, <1>4, <1>5, <1>6, <1>7, UpdateBobEnd DEF s, n, Fresh, Made

LEMMA UpdateChannel ==
    ASSUME ChannelInv, AgreementInv', NEW p \in Party, NEW pdu \in Arrivals(p) \cup {None},
           Drain(p, Update(sess[p], pdu, Fresh(p), 0).s), UNCHANGED posted
    PROVE  ChannelInv'
<1>1. CASE p = Alice
  BY <1>1, AliceUpdates, AliceDrainsEnd
<1>2. CASE p = Bob
  BY <1>2, BobUpdates, BobDrainsEnd
<1>3. QED
  BY <1>1, <1>2, Pair

LEMMA LastPosted ==
    ASSUME NEW p, NEW k \in Nat, NEW D \in Seq(Posts(p, k))
    PROVE  LastOf(D) \in 0..k
<1>1. CASE D = <<>>
  BY <1>1 DEF LastOf
<1>2. CASE D # <<>>
  <2>1. Len(D) \in 1..Len(D)
    BY <1>2
  <2>2. D[Len(D)] \in Posts(p, k)
    BY <2>1
  <2>3. QED
    BY <1>2, <2>2 DEF LastOf, Posts
<1>3. QED
  BY <1>1, <1>2

(* A step that touches only p's session, and perhaps counts a post of p's. *)
LEMMA LocalChannel ==
    ASSUME ChannelInv, AgreementInv', NEW p \in Party, NEW t,
           sess' = [sess EXCEPT ![p] = t], UNCHANGED <<wire, draws, delivered>>,
           \/ posted' = posted
           \/ posted' = [posted EXCEPT ![p] = posted[p] + 1],
           Out(t, wire[p]) = wire[p],
           SenderInv(t, wire[p], p, posted'[p]),
           ReceiverInv(t, Made(Peer(p)), LastOf(delivered[p])),
           t.pending # None => LastOf(delivered[Peer(p)]) < t.pending[2]
    PROVE  ChannelInv'
<1> DEFINE q == Peer(p)
<1>1. /\ q \in Party /\ q # p /\ Peer(q) = p
      /\ \A o \in Party : o = p \/ o = q
  BY Pair
<1>2. /\ sess = [o \in Party |-> sess[o]] /\ posted \in [Party -> 0..MaxPayloads]
      /\ Out(sess[p], wire[p]) = wire[p]
  BY BothEnds DEF ChannelInv, AgreementInv, IInv
<1>3. /\ sess'[p] = t /\ sess'[q] = sess[q] /\ posted'[q] = posted[q]
      /\ posted[p] \in Nat /\ posted'[p] \in {posted[p], posted[p] + 1}
      /\ Made(p)' = Made(p) /\ Made(q)' = Made(q)
  BY <1>1, <1>2 DEF Made
<1>4. ASSUME NEW o \in Party
      PROVE  /\ delivered[o] \in Seq(Posts(Peer(o), posted'[Peer(o)]))
             /\ sess'[Peer(o)].pending # None
                   => LastOf(delivered[o]) < sess'[Peer(o)].pending[2]
  <2>1. CASE o = p
    BY <1>3, <2>1 DEF ChannelInv
  <2>2. CASE o = q
    <3>1. delivered[q] \in Seq(Posts(p, posted[p]))
      BY <1>1 DEF ChannelInv
    <3>2. Posts(p, posted[p]) \subseteq Posts(p, posted'[p])
      BY <1>3 DEF Posts
    <3>3. delivered[q] \in Seq(Posts(p, posted'[p]))
      BY <3>1, <3>2, SeqMonotonic
    <3>4. QED
      BY <1>1, <1>3, <2>2, <3>3
  <2>3. QED
    BY <1>1, <2>1, <2>2
<1>5. AliceEnd(sess'[Alice], wire[Alice], posted'[Alice], Made(Bob),
               LastOf(delivered[Alice]), draws[Bob])
  BY <1>1, <1>2, <1>3, Pair DEF ChannelInv, AliceEnd
<1>6. BobEnd(sess'[Bob], wire[Bob], posted'[Bob], Made(Alice),
             LastOf(delivered[Bob]), draws[Bob])
  BY <1>1, <1>2, <1>3, Pair DEF ChannelInv, BobEnd
<1>7. Made(Alice)' = Made(Alice) /\ Made(Bob)' = Made(Bob)
  BY DEF Made
<1>8. QED
  BY <1>4, <1>5, <1>6, <1>7 DEF ChannelInv

LEMMA InitChannel == Init => ChannelInv
<1> SUFFICES ASSUME Init PROVE ChannelInv
  OBVIOUS
<1>1. AgreementInv
  BY InitAgreement
<1>2. ASSUME NEW p \in Party
      PROVE  /\ wire[p] = {} /\ delivered[p] = <<>> /\ posted[p] = 0
             /\ sess[p].state = INITIAL /\ sess[p].pending = None
             /\ Out(sess[p], wire[p]) = {} /\ Made(p) = {}
             /\ CiphertextsAmong(Out(sess[p], wire[p])) = {}
  <2>1. /\ wire[p] = {} /\ delivered[p] = <<>> /\ posted[p] = 0
        /\ sess[p] = NewSession(p, RoleOf(p))
    BY DEF Init
  <2>2. /\ sess[p].state = INITIAL /\ sess[p].pending = None
        /\ sess[p].outgoingPdus = <<>>
    BY <2>1 DEF NewSession
  <2>3. Out(sess[p], wire[p]) = {}
    BY <2>1, <2>2 DEF Out, Range
  <2>4. QED
    BY <2>1, <2>2, <2>3 DEF Made, CiphertextsAmong
<1>3. ASSUME NEW p \in Party
      PROVE  /\ SenderInv(sess[p], wire[p], p, posted[p])
             /\ ReceiverInv(sess[p], {}, LastOf(delivered[p]))
  <2>1. SenderInv(sess[p], wire[p], p, posted[p])
    BY <1>2 DEF SenderInv, Ordered
  <2>2. sess[p].state \notin KeyedState \cup {EXPECT_SESSION_COMPLETION_REQUEST}
    BY <1>2 DEF KeyedState, INITIAL, ESTABLISHED, EXPECT_SESSION_COMPLETION_REQUEST,
       EXPECT_SESSION_COMPLETION_RESPONSE
  <2>3. QED
    BY <2>1, <2>2, DeafReceiver
<1>4. AliceEnd(sess[Alice], wire[Alice], posted[Alice], Made(Bob),
               LastOf(delivered[Alice]), draws[Bob])
  BY <1>2, <1>3, Pair DEF AliceEnd, NoncesDrawn
<1>5. BobEnd(sess[Bob], wire[Bob], posted[Bob], Made(Alice),
             LastOf(delivered[Bob]), draws[Bob])
  BY <1>2, <1>3, Pair DEF BobEnd, OffersDrawn, Echoed
<1>6. ASSUME NEW p \in Party
      PROVE  /\ delivered[p] \in Seq(Posts(Peer(p), posted[Peer(p)]))
             /\ sess[Peer(p)].pending = None
  <2>1. delivered[p] = <<>> /\ sess[Peer(p)].pending = None
    BY <1>2, Pair
  <2>2. \A S : <<>> \in Seq(S)
    OBVIOUS
  <2>3. QED
    BY <2>1, <2>2
<1>7. QED
  BY <1>1, <1>4, <1>5, <1>6 DEF ChannelInv

LEMMA NextChannel == ChannelInv /\ [Next]_vars => ChannelInv'
<1> SUFFICES ASSUME ChannelInv, [Next]_vars PROVE ChannelInv'
  OBVIOUS
<1>0. AgreementInv /\ AgreementInv'
  BY NextAgreement DEF ChannelInv
<1>1. CASE StartHandshake
  <2> DEFINE s == sess[Alice]
             t == Initiate(s, Bob, Fresh(Alice), 0).s
             L == LastOf(delivered[Alice])
  <2>1. /\ Alice \in Party /\ Object(s, Alice, INITIATOR, Payload(Alice))
        /\ s.outgoingPayloads = <<>>
        /\ Nonces(s, wire[Alice], Alice, INITIATOR, draws[Alice])
        /\ s.state = INITIAL
    BY <1>1, Pair, RoleIsRole, BothEnds DEF PartyInv, StartHandshake
  <2>2. Object(t, Alice, INITIATOR, Payload(Alice))
    BY <2>1, InitiateObject
  <2>3. AliceEnd(s, wire[Alice], posted[Alice], Made(Bob), L, draws[Bob])
    BY DEF ChannelInv
  <2>4. /\ AliceEnd(t, wire[Alice], posted[Alice], Made(Bob), L, draws[Bob])
        /\ Sends(s, t, wire[Alice]) /\ t.outgoingPayloads = <<>>
    BY <2>1, <2>3, InitiateEnd
  <2>5. Drain(Alice, t) /\ UNCHANGED posted
    BY <1>1 DEF StartHandshake
  <2> HIDE DEF t
  <2>6. Heard(t, L) = L /\ HandsOver(t, Made(Bob), L)
    BY <2>4 DEF Heard, HandsOver
  <2>7. QED
    BY <1>0, <2>2, <2>4, <2>5, <2>6, AliceDrainsEnd
<1>2. ASSUME NEW p \in Party, Post(p) PROVE ChannelInv'
  <2> DEFINE s == sess[p]
             k == posted[p]
             payload == <<p, k + 1>>
             t == PostPayload(s, payload)
             L == LastOf(delivered[Peer(p)])
  <2>1. /\ Object(s, p, RoleOf(p), Payload(p)) /\ Out(s, wire[p]) = wire[p]
        /\ SenderInv(s, wire[p], p, k)
        /\ ReceiverInv(s, Made(Peer(p)), LastOf(delivered[p]))
        /\ k \in Nat
    BY <1>0, BothEnds DEF PartyInv, AgreementInv, IInv
  <2>2. /\ t.state = s.state /\ t.role = s.role /\ t.keys = s.keys /\ t.nB = s.nB
        /\ t.seqA2B = s.seqA2B /\ t.seqB2A = s.seqB2A
        /\ t.pending = payload /\ t.outgoingPdus = s.outgoingPdus
    BY <2>1 DEF PostPayload, Object, Fields
  <2>3. /\ sess' = [sess EXCEPT ![p] = t] /\ UNCHANGED <<wire, draws, delivered>>
        /\ posted' = [posted EXCEPT ![p] = k + 1] /\ posted'[p] = k + 1
    BY <1>0, <1>2 DEF Post, AgreementInv, IInv
  <2> HIDE DEF t
  <2>4. Out(t, wire[p]) = wire[p]
    BY <2>1, <2>2 DEF Out
  <2>5. ReceiverInv(t, Made(Peer(p)), LastOf(delivered[p]))
    BY <2>1, <2>2 DEF ReceiverInv, Acceptable, TheirSeq
  <2>6. payload \in Posts(p, k + 1) /\ Posts(p, k) \subseteq Posts(p, k + 1)
        /\ payload[2] = k + 1
    BY <2>1 DEF Posts
  <2>7. \A x \in Posts(p, k) : x[2] < payload[2]
    BY <2>1, <2>6 DEF Posts
  <2> HIDE DEF payload
  <2>8. SenderInv(t, wire[p], p, k + 1)
    BY <2>1, <2>2, <2>4, <2>6, <2>7 DEF SenderInv, Newer
  <2>9. L < payload[2]
    <3>1. delivered[Peer(p)] \in Seq(Posts(p, k))
      BY Pair DEF ChannelInv
    <3>2. QED
      BY <2>1, <2>6, <3>1, LastPosted
  <2> HIDE DEF L
  <2>10. t.pending # None => L < t.pending[2]
    BY <2>2, <2>9
  <2>11. QED
    BY <1>0, <2>3, <2>4, <2>5, <2>8, <2>10, LocalChannel DEF L
<1>3. ASSUME NEW p \in Party, NEW pdu \in Arrivals(p), Deliver(p, pdu)
      PROVE  ChannelInv'
  BY <1>0, <1>3, UpdateChannel DEF Deliver
<1>4. ASSUME NEW p \in Party, Crank(p) PROVE ChannelInv'
  BY <1>0, <1>4, UpdateChannel DEF Crank
<1>5. ASSUME NEW p \in Party, Tick(p) PROVE ChannelInv'
  <2> DEFINE s == sess[p]
             t == [s EXCEPT !.deadline = s.deadline - 1]
  <2>1. /\ Object(s, p, RoleOf(p), Payload(p)) /\ Out(s, wire[p]) = wire[p]
        /\ SenderInv(s, wire[p], p, posted[p])
        /\ ReceiverInv(s, Made(Peer(p)), LastOf(delivered[p]))
        /\ s.pending # None => LastOf(delivered[Peer(p)]) < s.pending[2]
    BY BothEnds, Pair DEF PartyInv, ChannelInv
  <2>2. /\ t.state = s.state /\ t.role = s.role /\ t.keys = s.keys /\ t.nB = s.nB
        /\ t.seqA2B = s.seqA2B /\ t.seqB2A = s.seqB2A /\ t.pending = s.pending
        /\ t.outgoingPdus = s.outgoingPdus
    BY <2>1 DEF Object, Fields
  <2>3. /\ sess' = [sess EXCEPT ![p] = t]
        /\ UNCHANGED <<wire, posted, draws, delivered>>
    BY <1>5 DEF Tick
  <2> HIDE DEF t
  <2>4. Out(t, wire[p]) = wire[p]
    BY <2>1, <2>2 DEF Out
  <2>5. ReceiverInv(t, Made(Peer(p)), LastOf(delivered[p]))
    BY <2>1, <2>2 DEF ReceiverInv, Acceptable, TheirSeq
  <2>6. SenderInv(t, wire[p], p, posted[p])
    BY <2>1, <2>2, <2>4 DEF SenderInv
  <2>7. QED
    BY <1>0, <2>1, <2>2, <2>3, <2>4, <2>5, <2>6, LocalChannel
<1>6. ASSUME NEW p \in Party, Restart(p) PROVE ChannelInv'
  <2> DEFINE s == sess[p]
             t == NewSession(p, RoleOf(p))
  <2>1. /\ PartyInv(p, s, wire[p], draws[p]) /\ Out(s, wire[p]) = wire[p]
        /\ SenderInv(s, wire[p], p, posted[p])
    BY BothEnds
  <2>2. Reset(s) = t
    BY <2>1 DEF PartyInv, Object, Reset
  <2>3. /\ sess' = [sess EXCEPT ![p] = t]
        /\ UNCHANGED <<wire, posted, draws, delivered>>
    BY <1>6, <2>2 DEF Restart
  <2>4. t.state = INITIAL /\ t.pending = None /\ t.outgoingPdus = <<>>
    BY DEF NewSession
  <2> HIDE DEF t
  <2>5. Out(t, wire[p]) = wire[p]
    BY <2>4 DEF Out, Range
  <2>6. ReceiverInv(t, Made(Peer(p)), LastOf(delivered[p]))
    BY <2>4, DeafReceiver DEF KeyedState, INITIAL, ESTABLISHED,
       EXPECT_SESSION_COMPLETION_REQUEST, EXPECT_SESSION_COMPLETION_RESPONSE
  <2>7. SenderInv(t, wire[p], p, posted[p])
    BY <2>1, <2>4, <2>5 DEF SenderInv
  <2>8. QED
    BY <1>0, <2>3, <2>4, <2>5, <2>6, <2>7, LocalChannel
<1>7. CASE UNCHANGED vars
  BY <1>0, <1>7 DEF vars, ChannelInv, Made
<1>8. QED
  BY <1>1, <1>2, <1>3, <1>4, <1>5, <1>6, <1>7 DEF Next

-----------------------------------------------------------------------------
(* The refinement, step by step. *)
Agreed == IF sess[Alice].state = ESTABLISHED THEN {sess[Alice].keys} ELSE {}

LEMMA Stutters ==
    ASSUME UNCHANGED <<posted, delivered, confirmed>>, Agreed' = Agreed
    PROVE  UNCHANGED Channel!vars
BY DEF Channel!vars, Agreed

LEMMA HandsOverOne ==
    ASSUME ChannelInv, NEW p \in Party, NEW t, Drain(p, t),
           HandsOver(t, Made(Peer(p)), LastOf(delivered[p]))
    PROVE  \/ delivered' = delivered
           \/ t.state = ESTABLISHED /\ Channel!HandOver(p)
<1> DEFINE q == Peer(p)
           D == delivered[p]
<1>1. /\ delivered' = [delivered EXCEPT ![p] = D \o t.outgoingPayloads]
      /\ delivered = [o \in Party |-> delivered[o]]
      /\ D \in Seq(Posts(q, posted[q])) /\ q \in Party
  BY Pair DEF Drain, ChannelInv, AgreementInv
<1>2. CASE t.outgoingPayloads = <<>>
  <2>1. D \o <<>> = D
    BY <1>1
  <2>2. QED
    BY <1>1, <1>2, <2>1
<1>3. CASE t.outgoingPayloads # <<>>
  <2>1. PICK c \in Made(q) :
          /\ ~Blank(c) /\ LastOf(D) < c.plain[2] /\ t.outgoingPayloads = <<c.plain>>
    BY <1>3 DEF HandsOver
  <2>2. c.plain \in Posts(q, posted[q])
    BY <1>1, <2>1, BothEnds DEF SenderInv, Made
  <2>3. PICK k \in 1..posted[q] : c.plain = <<q, k>>
    BY <2>2 DEF Posts
  <2>4. posted[q] \in Nat /\ LastOf(D) \in 0..posted[q]
    BY <1>1, LastPosted DEF ChannelInv, AgreementInv, IInv
  <2>5. k \in (LastOf(D) + 1)..posted[q]
    BY <2>1, <2>3, <2>4
  <2>6. D \o t.outgoingPayloads = Append(D, <<q, k>>)
    <3>1. \A x : D \o <<x>> = Append(D, x)
      BY <1>1
    <3>2. QED
      BY <2>1, <2>3, <3>1
  <2>7. Channel!Last(p) = LastOf(D) /\ Channel!Other(p) = q
    BY DEF Channel!Last, Channel!Other, LastOf, Peer
  <2>8. Channel!HandOver(p)
    BY <1>1, <2>5, <2>6, <2>7 DEF Channel!HandOver
  <2>9. QED
    BY <1>3, <2>8 DEF HandsOver
<1>4. QED
  BY <1>2, <1>3

(* Established keys stay. *)
LEMMA KeysStay ==
    ASSUME NEW owner, NEW role, NEW P, NEW s, Object(s, owner, role, P),
           role \in {INITIATOR, RESPONDER}, owner \in Party,
           s.state = ESTABLISHED, NEW pdu, NEW fresh, NEW now \in Nat
    PROVE  Update(s, pdu, fresh, now).s.keys = s.keys
<1> DEFINE r == IF pdu = None THEN Return(s) ELSE ProcessIncoming(s, pdu, fresh, now)
<1>1. Object(r.s, owner, role, P)
  BY ProcessIncomingObject DEF Return
<1>2. r.s.keys = s.keys
  <2>1. \/ r.s = s
        \/ r.s = [s EXCEPT !.outgoingPdus = Queue(s, s.lastSent)]
        \/ r = HandleEstablishedMessage(s, pdu)
    BY DEF ProcessIncoming, Return, Raise, INITIAL, EXPECT_SESSION_INIT_RESPONSE,
           EXPECT_SESSION_COMPLETION_REQUEST, EXPECT_SESSION_COMPLETION_RESPONSE,
           ESTABLISHED
  <2>2. [s EXCEPT !.outgoingPdus = Queue(s, s.lastSent)].keys = s.keys
    BY DEF Object, Fields
  <2>3. HandleEstablishedMessage(s, pdu).s.keys = s.keys
    BY DEF HandleEstablishedMessage, Return, Raise, Object, Fields
  <2>4. QED
    BY <2>1, <2>2, <2>3
<1> HIDE DEF r
<1>3. Object(SendPending(r.s), owner, role, P) /\ SendPending(r.s).keys = s.keys
  <2>1. Object(SendPending(r.s), owner, role, P)
    BY <1>1, SendPendingObject
  <2>2. SendPending(r.s).keys = r.s.keys
    BY <1>1 DEF SendPending, SendEstablishedPayload, Object, Fields
  <2>3. QED
    BY <1>2, <2>1, <2>2
<1>4. CheckDeadline(SendPending(r.s), now).keys = s.keys
  BY <1>3 DEF CheckDeadline, OnTimeout, Object, Fields
<1>5. Update(s, pdu, fresh, now).s \in {s, r.s, CheckDeadline(SendPending(r.s), now)}
  BY DEF Update, AfterIncoming, Return, r
<1>6. QED
  BY <1>2, <1>4, <1>5

LEMMA AliceStep ==
    ASSUME ChannelInv, ChannelInv', NEW pdu \in Arrivals(Alice) \cup {None},
           Drain(Alice, Update(sess[Alice], pdu, Fresh(Alice), 0).s), UNCHANGED posted
    PROVE  [Channel!Next]_(Channel!vars)
<1> DEFINE s == sess[Alice]
           t == Update(s, pdu, Fresh(Alice), 0).s
<1>1. /\ Object(s, Alice, INITIATOR, Payload(Alice))
      /\ Object(t, Alice, INITIATOR, Payload(Alice))
      /\ HandsOver(t, Made(Bob), LastOf(delivered[Alice]))
  BY Pair, RoleIsRole, BothEnds, AliceUpdates DEF PartyInv
<1>2. s.state = ESTABLISHED => t.keys = s.keys
  BY <1>1, Pair, RoleIsRole, KeysStay
<1> HIDE DEF t
<1>3. Drain(Alice, t)
  BY DEF t
<1>4. delivered' = delivered \/ (t.state = ESTABLISHED /\ Channel!HandOver(Alice))
  BY <1>1, <1>3, Pair, HandsOverOne
<1>5. /\ sess'[Alice] = Drained(t) /\ confirmed' = confirmed
  BY <1>3, Pair DEF Drain, ChannelInv, AgreementInv, IInv
<1>6. sess'[Alice].state = t.state /\ sess'[Alice].keys = t.keys
  BY <1>1, <1>5 DEF Drained, Object, Fields
<1>7. CASE t.state # ESTABLISHED
  BY <1>4, <1>5, <1>6, <1>7 DEF Channel!Next, Channel!End
<1>8. CASE t.state = ESTABLISHED /\ s.state # ESTABLISHED
  <2>1. t.keys \in confirmed
    BY <1>5, <1>6, <1>8 DEF ChannelInv, AgreementInv, AliceInv
  <2>2. Channel!Agree
    BY <1>4, <1>5, <1>6, <1>8, <2>1 DEF Channel!Agree
  <2>3. QED
    BY <2>2 DEF Channel!Next
<1>9. CASE t.state = ESTABLISHED /\ s.state = ESTABLISHED
  <2>1. Agreed' = Agreed /\ Agreed # {}
    BY <1>2, <1>6, <1>9 DEF Agreed
  <2>2. CASE delivered' = delivered
    BY <1>5, <2>1, <2>2, Stutters
  <2>3. CASE Channel!HandOver(Alice)
    BY <1>5, <2>1, <2>3 DEF Channel!Next, Channel!Receive, Agreed
  <2>4. QED
    BY <1>4, <2>2, <2>3
<1>10. QED
  BY <1>7, <1>8, <1>9

LEMMA BobStep ==
    ASSUME ChannelInv, NEW pdu \in Arrivals(Bob) \cup {None},
           Drain(Bob, Update(sess[Bob], pdu, Fresh(Bob), 0).s), UNCHANGED posted
    PROVE  [Channel!Next]_(Channel!vars)
<1> DEFINE t == Update(sess[Bob], pdu, Fresh(Bob), 0).s
<1>1. HandsOver(t, Made(Alice), LastOf(delivered[Bob]))
  BY BobUpdates
<1> HIDE DEF t
<1>2. Drain(Bob, t)
  BY DEF t
<1>3. delivered' = delivered \/ (t.state = ESTABLISHED /\ Channel!HandOver(Bob))
  BY <1>1, <1>2, Pair, HandsOverOne
<1>4. sess'[Alice] = sess[Alice] /\ confirmed' = ConfirmedBy(t, confirmed)
  BY <1>2, Pair DEF Drain, ConfirmedBy, ChannelInv, AgreementInv, IInv
<1>5. Agreed' = Agreed
  BY <1>4 DEF Agreed
<1>6. CASE confirmed' # confirmed
  <2>1. confirmed \subseteq confirmed'
    BY <1>4 DEF ConfirmedBy
  <2>2. Channel!Confirm
    BY <1>3, <1>5, <1>6, <2>1 DEF Channel!Confirm, Agreed
  <2>3. QED
    BY <2>2 DEF Channel!Next
<1>7. CASE confirmed' = confirmed
  <2>1. CASE delivered' = delivered
    BY <1>5, <1>7, <2>1, Stutters
  <2>2. CASE t.state = ESTABLISHED /\ Channel!HandOver(Bob)
    <3>1. confirmed # {}
      BY <1>4, <1>7, <2>2 DEF ConfirmedBy
    <3>2. Channel!Receive
      BY <1>5, <1>7, <2>2, <3>1 DEF Channel!Receive, Agreed
    <3>3. QED
      BY <3>2 DEF Channel!Next
  <2>3. QED
    BY <1>3, <2>1, <2>2
<1>8. QED
  BY <1>6, <1>7

LEMMA UpdateIsChannelStep ==
    ASSUME ChannelInv, ChannelInv', NEW p \in Party, NEW pdu \in Arrivals(p) \cup {None},
           Drain(p, Update(sess[p], pdu, Fresh(p), 0).s), UNCHANGED posted
    PROVE  [Channel!Next]_(Channel!vars)
<1>1. CASE p = Alice
  BY <1>1, AliceStep
<1>2. CASE p = Bob
  BY <1>2, BobStep
<1>3. QED
  BY <1>1, <1>2, Pair

LEMMA StepIsChannelStep ==
    ChannelInv /\ ChannelInv' /\ [Next]_vars => [Channel!Next]_(Channel!vars)
<1> SUFFICES ASSUME ChannelInv, ChannelInv', [Next]_vars
             PROVE  [Channel!Next]_(Channel!vars)
  OBVIOUS
<1>0. /\ sess = [o \in Party |-> sess[o]]
      /\ delivered = [o \in Party |-> delivered[o]]
  BY DEF ChannelInv, AgreementInv, IInv
<1>1. CASE StartHandshake
  <2> DEFINE s == sess[Alice]
             t == Initiate(s, Bob, Fresh(Alice), 0).s
  <2>1. /\ Object(s, Alice, INITIATOR, Payload(Alice)) /\ s.outgoingPayloads = <<>>
        /\ s.state = INITIAL
        /\ Nonces(s, wire[Alice], Alice, INITIATOR, draws[Alice])
    BY <1>1, Pair, RoleIsRole, BothEnds DEF PartyInv, StartHandshake
  <2>2. Object(t, Alice, INITIATOR, Payload(Alice))
    BY <2>1, InitiateObject
  <2>3. AliceEnd(s, wire[Alice], posted[Alice], Made(Bob),
                 LastOf(delivered[Alice]), draws[Bob])
    BY DEF ChannelInv
  <2>4. t.outgoingPayloads = <<>> /\ t.state # ESTABLISHED
    BY <2>1, <2>3, InitiateEnd
  <2>5. Drain(Alice, t) /\ UNCHANGED posted
    BY <1>1 DEF StartHandshake
  <2> HIDE DEF t
  <2>6. /\ sess'[Alice] = Drained(t) /\ confirmed' = confirmed
        /\ delivered' = [delivered EXCEPT ![Alice] = delivered[Alice] \o <<>>]
    BY <1>0, <2>4, <2>5, Pair DEF Drain
  <2>7. delivered' = delivered
    <3>1. delivered[Alice] \o <<>> = delivered[Alice]
      BY Pair DEF ChannelInv
    <3>2. QED
      BY <1>0, <2>6, <3>1
  <2>8. sess'[Alice].state = t.state
    BY <2>2, <2>6 DEF Drained, Object, Fields
  <2>9. Agreed' = Agreed
    BY <2>1, <2>4, <2>8 DEF Agreed, INITIAL, ESTABLISHED
  <2>10. QED
    BY <2>5, <2>6, <2>7, <2>9, Stutters
<1>2. ASSUME NEW p \in Party, Post(p) PROVE [Channel!Next]_(Channel!vars)
  <2> DEFINE t == PostPayload(sess[p], <<p, posted[p] + 1>>)
  <2>1. t.state = sess[p].state /\ t.keys = sess[p].keys
    BY BothEnds DEF PartyInv, PostPayload, Object, Fields
  <2>2. sess' = [sess EXCEPT ![p] = t]
    BY <1>2 DEF Post
  <2> HIDE DEF t
  <2>3. Agreed' = Agreed
    BY <1>0, <2>1, <2>2, Pair DEF Agreed
  <2>4. Channel!Post(p)
    BY <1>2, <2>3 DEF Post, Channel!Post, Agreed
  <2>5. p \in Channel!Parties
    BY Pair DEF Channel!Parties
  <2>6. QED
    BY <2>4, <2>5 DEF Channel!Next
<1>3. ASSUME NEW p \in Party, NEW pdu \in Arrivals(p), Deliver(p, pdu)
      PROVE  [Channel!Next]_(Channel!vars)
  BY <1>3, UpdateIsChannelStep DEF Deliver
<1>4. ASSUME NEW p \in Party, Crank(p) PROVE [Channel!Next]_(Channel!vars)
  BY <1>4, UpdateIsChannelStep DEF Crank
<1>5. ASSUME NEW p \in Party, Tick(p) PROVE [Channel!Next]_(Channel!vars)
  <2> DEFINE t == [sess[p] EXCEPT !.deadline = sess[p].deadline - 1]
  <2>1. t.state = sess[p].state /\ t.keys = sess[p].keys
    BY BothEnds DEF PartyInv, Object, Fields
  <2>2. sess' = [sess EXCEPT ![p] = t] /\ UNCHANGED <<posted, delivered, confirmed>>
    BY <1>5 DEF Tick
  <2> HIDE DEF t
  <2>3. Agreed' = Agreed
    BY <1>0, <2>1, <2>2, Pair DEF Agreed
  <2>4. QED
    BY <2>2, <2>3, Stutters
<1>6. ASSUME NEW p \in Party, Restart(p) PROVE [Channel!Next]_(Channel!vars)
  <2> DEFINE t == Reset(sess[p])
  <2>1. t.state # ESTABLISHED
    BY DEF Reset, NewSession, INITIAL, ESTABLISHED
  <2>2. sess' = [sess EXCEPT ![p] = t] /\ UNCHANGED <<posted, delivered, confirmed>>
    BY <1>6 DEF Restart
  <2> HIDE DEF t
  <2>3. CASE p = Alice
    <3>1. sess'[Alice].state # ESTABLISHED
      BY <1>0, <2>1, <2>2, <2>3
    <3>2. QED
      BY <2>2, <3>1 DEF Channel!Next, Channel!End
  <2>4. CASE p = Bob
    <3>1. Agreed' = Agreed
      BY <1>0, <2>2, <2>4, Pair DEF Agreed
    <3>2. QED
      BY <2>2, <3>1, Stutters
  <2>5. QED
    BY <2>3, <2>4, Pair
<1>7. CASE UNCHANGED vars
  BY <1>7, Stutters DEF vars, Agreed
<1>8. QED
  BY <1>1, <1>2, <1>3, <1>4, <1>5, <1>6, <1>7 DEF Next

(* The pair implements SecureChannel, for any retry limit, TTL, levels, AEAD    *)
(* lists and number of payloads and restarts: payloads reach the other          *)
(* application at most once and in the order they were posted, over both        *)
(* parties' whole lives, whatever is lost, duplicated or reordered, and the     *)
(* initiator agrees only to keys the responder has confirmed (update, the five  *)
(* handlers, _send_established_payload and reset).                              *)
THEOREM ImplementsSecureChannel == Spec => ImplementsChannel
<1>1. Init => Channel!Init
  <2> SUFFICES ASSUME Init PROVE Channel!Init
    OBVIOUS
  <2>1. Channel!Parties = Party
    BY Pair DEF Channel!Parties
  <2>2. sess[Alice].state # ESTABLISHED
    BY Pair DEF Init, NewSession, INITIAL, ESTABLISHED
  <2>3. QED
    BY <2>1, <2>2 DEF Init, Channel!Init
<1>2. ChannelInv /\ ChannelInv' /\ [Next]_vars => [Channel!Next]_(Channel!vars)
  BY StepIsChannelStep
<1>3. QED
  BY <1>1, <1>2, InitChannel, NextChannel, PTL DEF Spec, ImplementsChannel, Channel!Spec

-----------------------------------------------------------------------------
(* The stream: what an application was handed ends in the plaintexts that the *)
(* peer encrypted under the keys of the session, seq by seq.                  *)
StreamInv ==
    /\ ChannelInv
    /\ \A p \in Party : Matches(sess[p], Made(Peer(p)), delivered[p])

(* A call of p's caller; the peer has not made less by then. *)
LEMMA StreamCalls ==
    ASSUME StreamInv, ChannelInv', NEW p \in Party, NEW t,
           sess' = [sess EXCEPT ![p] = t], wire'[Peer(p)] = wire[Peer(p)],
           wire[p] \subseteq wire'[p],
           delivered'[Peer(p)] = delivered[Peer(p)],
           Matches(t, Made(Peer(p)), delivered'[p])
    PROVE  StreamInv'
<1> DEFINE q == Peer(p)
<1>1. /\ q \in Party /\ q # p /\ Peer(q) = p
      /\ \A o \in Party : o = p \/ o = q
  BY Pair
<1>2. sess = [o \in Party |-> sess[o]]
  BY DEF StreamInv, ChannelInv, AgreementInv, IInv
<1>3. sess'[p] = t /\ sess'[q] = sess[q]
  BY <1>1, <1>2
<1>4. Made(q)' = Made(q) /\ Made(p) \subseteq Made(p)'
  BY DEF Made, CiphertextsAmong
<1>5. Matches(sess[q], Made(p), delivered[q])
  BY <1>1 DEF StreamInv
<1>6. Matches(sess[q], Made(p)', delivered[q])
  BY <1>4, <1>5, MatchesGrows
<1>7. ASSUME NEW o \in Party
      PROVE  Matches(sess'[o], Made(Peer(o))', delivered'[o])
  BY <1>1, <1>3, <1>4, <1>6
<1>8. QED
  BY <1>7 DEF StreamInv

LEMMA StreamDrains ==
    ASSUME StreamInv, ChannelInv', NEW p \in Party, NEW t, Drain(p, t),
           Object(t, p, RoleOf(p), Payload(p)),
           Matches(t, Made(Peer(p)), delivered[p] \o t.outgoingPayloads)
    PROVE  StreamInv'
<1>1. /\ wire = [o \in Party |-> wire[o]] /\ delivered = [o \in Party |-> delivered[o]]
      /\ Peer(p) \in Party /\ Peer(p) # p
  BY Pair DEF StreamInv, ChannelInv, AgreementInv, IInv
<1>2. /\ sess' = [sess EXCEPT ![p] = Drained(t)]
      /\ wire'[p] = wire[p] \cup Range(t.outgoingPdus)
      /\ wire'[Peer(p)] = wire[Peer(p)] /\ delivered'[Peer(p)] = delivered[Peer(p)]
      /\ delivered'[p] = delivered[p] \o t.outgoingPayloads
  BY <1>1 DEF Drain
<1>3. LET u == Drained(t)
      IN /\ u.role = t.role /\ u.state = t.state /\ u.keys = t.keys
         /\ u.seqA2B = t.seqA2B /\ u.seqB2A = t.seqB2A
  BY DEF Object, Drained, Fields
<1>4. Matches(Drained(t), Made(Peer(p)), delivered'[p])
  BY <1>2, <1>3, MatchesGrows
<1>5. QED
  BY <1>2, <1>4, StreamCalls

LEMMA StreamUpdates ==
    ASSUME StreamInv, ChannelInv', NEW p \in Party, NEW pdu \in Arrivals(p) \cup {None},
           Drain(p, Update(sess[p], pdu, Fresh(p), 0).s)
    PROVE  StreamInv'
<1> DEFINE s == sess[p]
           t == Update(s, pdu, Fresh(p), 0).s
<1>1. /\ Object(s, p, RoleOf(p), Payload(p)) /\ s.outgoingPayloads = <<>>
      /\ Nonces(s, wire[p], p, RoleOf(p), draws[p])
      /\ RoleOf(p) \in {INITIATOR, RESPONDER}
  BY BothEnds, RoleIsRole DEF StreamInv, PartyInv, RoleOf
<1>2. Object(t, p, RoleOf(p), Payload(p))
  BY <1>1, UpdateObject
<1>3. Hears(s, t, pdu)
  BY <1>1, UpdateHears
<1>4. pdu \notin {None, Malformed} => CiphertextsIn(pdu) \subseteq Made(Peer(p))
  BY DEF Arrivals, Made, CiphertextsAmong
<1>5. /\ TheirSeq(s) \in Nat /\ Matches(s, Made(Peer(p)), delivered[p])
      /\ delivered[p] \in Seq(Posts(Peer(p), posted[Peer(p)]))
  BY <1>1 DEF StreamInv, ChannelInv, TheirSeq, Object
<1> HIDE DEF s
<1>6. Matches(t, Made(Peer(p)), delivered[p] \o t.outgoingPayloads)
  BY <1>1, <1>3, <1>4, <1>5, HearsMatches
<1>7. QED
  BY <1>2, <1>6, StreamDrains DEF s

LEMMA InitStream == Init => StreamInv
<1> SUFFICES ASSUME Init PROVE StreamInv
  OBVIOUS
<1>1. ASSUME NEW p \in Party PROVE Matches(sess[p], Made(Peer(p)), delivered[p])
  <2>1. sess[p].state = INITIAL /\ sess[p].seqB2A = 0
    BY DEF Init, NewSession
  <2>2. QED
    BY <2>1 DEF Matches, INITIAL, ESTABLISHED
<1>2. QED
  BY <1>1, InitChannel DEF StreamInv

LEMMA NextStream == StreamInv /\ [Next]_vars => StreamInv'
<1> SUFFICES ASSUME StreamInv, [Next]_vars PROVE StreamInv'
  OBVIOUS
<1>0. ChannelInv /\ ChannelInv'
  BY NextChannel DEF StreamInv
<1>1. CASE StartHandshake
  <2> DEFINE s == sess[Alice]
             t == Initiate(s, Bob, Fresh(Alice), 0).s
  <2>1. /\ Alice \in Party /\ Object(s, Alice, INITIATOR, Payload(Alice))
        /\ s.outgoingPayloads = <<>> /\ s.state = INITIAL
        /\ delivered[Alice] \in Seq(Posts(Bob, posted[Bob]))
        /\ Matches(s, Made(Peer(Alice)), delivered[Alice])
    BY <1>0, <1>1, Pair, RoleIsRole, BothEnds DEF PartyInv, StartHandshake, ChannelInv,
                                                  StreamInv
  <2>2. Object(t, Alice, INITIATOR, Payload(Alice))
    BY <2>1, InitiateObject
  <2>3. /\ t.role = s.role /\ t.seqB2A = s.seqB2A /\ t.state # ESTABLISHED
        /\ t.outgoingPayloads = s.outgoingPayloads
    BY <2>1 DEF Initiate, Raise, Return, Object, Fields, INITIAL, ESTABLISHED,
                EXPECT_SESSION_INIT_RESPONSE
  <2>4. Drain(Alice, t)
    BY <1>1 DEF StartHandshake
  <2> HIDE DEF t
  <2>5. delivered[Alice] \o t.outgoingPayloads = delivered[Alice]
    BY <2>1, <2>3
  <2>6. Matches(t, Made(Peer(Alice)), delivered[Alice])
    BY <2>1, <2>3 DEF Matches, INITIAL, ESTABLISHED
  <2>7. QED
    BY <1>0, <2>1, <2>2, <2>4, <2>5, <2>6, RoleIsRole, StreamDrains
<1>2. ASSUME NEW p \in Party, NEW t, sess' = [sess EXCEPT ![p] = t],
             UNCHANGED <<wire, delivered>>,
             \/ /\ t.role = sess[p].role /\ t.state = sess[p].state
                /\ t.keys = sess[p].keys /\ t.seqA2B = sess[p].seqA2B
                /\ t.seqB2A = sess[p].seqB2A
             \/ t.state # ESTABLISHED /\ t.seqB2A = 0
      PROVE  StreamInv'
  <2>1. Matches(sess[p], Made(Peer(p)), delivered[p])
    BY DEF StreamInv
  <2>2. Matches(t, Made(Peer(p)), delivered[p])
    BY <1>2, <2>1, MatchesGrows DEF Matches
  <2>3. QED
    BY <1>0, <1>2, <2>2, StreamCalls
<1>3. ASSUME NEW p \in Party PROVE sess[p] = [f \in Fields |-> sess[p][f]]
  BY <1>0, BothEnds DEF PartyInv, Object
<1>4. ASSUME NEW p \in Party, Post(p) PROVE StreamInv'
  <2> DEFINE t == PostPayload(sess[p], <<p, posted[p] + 1>>)
  <2>1. sess' = [sess EXCEPT ![p] = t] /\ UNCHANGED <<wire, delivered>>
    BY <1>4 DEF Post
  <2>2. /\ t.role = sess[p].role /\ t.state = sess[p].state
        /\ t.keys = sess[p].keys /\ t.seqA2B = sess[p].seqA2B
        /\ t.seqB2A = sess[p].seqB2A
    BY <1>3 DEF PostPayload, Fields
  <2>3. QED
    BY <1>2, <2>1, <2>2
<1>5. ASSUME NEW p \in Party, NEW pdu \in Arrivals(p), Deliver(p, pdu)
      PROVE  StreamInv'
  BY <1>0, <1>5, StreamUpdates DEF Deliver
<1>6. ASSUME NEW p \in Party, Crank(p) PROVE StreamInv'
  BY <1>0, <1>6, StreamUpdates DEF Crank
<1>7. ASSUME NEW p \in Party, Tick(p) PROVE StreamInv'
  <2> DEFINE t == [sess[p] EXCEPT !.deadline = sess[p].deadline - 1]
  <2>1. sess' = [sess EXCEPT ![p] = t] /\ UNCHANGED <<wire, delivered>>
    BY <1>7 DEF Tick
  <2>2. /\ t.role = sess[p].role /\ t.state = sess[p].state
        /\ t.keys = sess[p].keys /\ t.seqA2B = sess[p].seqA2B
        /\ t.seqB2A = sess[p].seqB2A
    BY <1>3 DEF Fields
  <2>3. QED
    BY <1>2, <2>1, <2>2
<1>8. ASSUME NEW p \in Party, Restart(p) PROVE StreamInv'
  <2>1. sess' = [sess EXCEPT ![p] = Reset(sess[p])] /\ UNCHANGED <<wire, delivered>>
    BY <1>8 DEF Restart
  <2>2. Reset(sess[p]).state # ESTABLISHED /\ Reset(sess[p]).seqB2A = 0
    BY DEF Reset, NewSession, INITIAL, ESTABLISHED
  <2>3. QED
    BY <1>2, <2>1, <2>2
<1>9. CASE UNCHANGED vars
  BY <1>0, <1>9 DEF vars, StreamInv, Made
<1>10. QED
  BY <1>1, <1>4, <1>5, <1>6, <1>7, <1>8, <1>9 DEF Next

(* What an application was handed in a session is exactly what the peer        *)
(* encrypted under its keys, seq by seq, whatever else is on the wire and      *)
(* whatever was handed over before (_handle_established_message and the        *)
(* payloads that ride in the completion PDUs).                                 *)
THEOREM DeliveriesAreSent == Spec => []DeliveredIsSent
<1>1. StreamInv => DeliveredIsSent
  <2> SUFFICES ASSUME StreamInv, NEW p \in Party, Established(p)
               PROVE  \E skipped \in {0, 1} :
                         LET n == Accepted(p) - skipped
                             earlier == Len(delivered[p]) - n
                         IN /\ n >= 0 /\ earlier >= 0
                            /\ skipped = 1 => Empty \in SentTo(p, 0)
                            /\ \A i \in 1..n :
                                 delivered[p][earlier + i] \in SentTo(p, skipped + i - 1)
    BY DEF DeliveredIsSent
  <2> DEFINE s == sess[p]
             C == Made(Peer(p))
             D == delivered[p]
  <2>1. s.role = RoleOf(p) /\ TheirSeq(s) \in Nat
    BY BothEnds DEF StreamInv, PartyInv, Object, TheirSeq
  <2>2. TheirSeq(s) = Accepted(p)
    BY <2>1 DEF TheirSeq, Accepted
  <2>3. C = CiphertextsOf(Peer(p))
    BY DEF Made, CiphertextsAmong, CiphertextsOf
  <2>4. ASSUME NEW c \in C, NEW n, Takes(s, c, n) PROVE c.plain \in SentTo(p, n)
    BY <2>1, <2>3, <2>4 DEF Takes, TheirDir, SentTo
  <2>5. PICK k \in {0, 1} : Aligned(s, C, D, k)
    BY DEF StreamInv, Matches, Established
  <2>6. Len(D) \in Nat
    BY DEF StreamInv, ChannelInv
  <2> HIDE DEF s, C, D
  <2>7. /\ k = 1 => Empty \in SentTo(p, 0)
        /\ \A i \in 1..(TheirSeq(s) - k) :
              D[Len(D) - (TheirSeq(s) - k) + i] \in SentTo(p, k + i - 1)
    BY <2>4, <2>5 DEF Aligned
  <2>8. TheirSeq(s) - k >= 0 /\ Len(D) - (TheirSeq(s) - k) >= 0
    BY <2>1, <2>5, <2>6 DEF Aligned
  <2>9. QED
    BY <2>2, <2>7, <2>8 DEF s, D
<1>2. QED
  BY <1>1, InitStream, NextStream, PTL DEF Spec

=============================================================================
