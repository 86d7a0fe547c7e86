------------------------------ MODULE Session -------------------------------
(***************************************************************************)
(* session.py: one handshake attempt for one cid, and the traffic of the   *)
(* session it establishes.  A Session object is a record; every method is  *)
(* an operator from the record before the call to the record after it, so  *)
(* that SessionPair (two bare sessions over a network) and a dispatcher    *)
(* (many sessions in one process) run the same code.                       *)
(*                                                                         *)
(* A call returns [s |-> the object after it, exn |-> what escaped it].    *)
(* `fresh` names the random values a call may draw: two calls that draw    *)
(* are given different names.  `now` is the caller's clock.                *)
(***************************************************************************)
EXTENDS Crypto

CONSTANTS
    Party,           \* the identities, each with one static key pair
    StaticLevel,     \* [Party -> Levels]: the level of the static key
    KemLevel,        \* [Party -> Levels]: SessionConfig.kem_level
    AcceptableAeads, \* [Party -> Seq(name)]: SessionConfig.acceptable_aeads
    KnownPublic,     \* [Party -> SUBSET Party]: keys get_public_key resolves
    MaxRetries,      \* SessionConfig.max_retries
    RetryInterval,   \* SessionConfig.retry_interval_seconds
    SessionTTL,      \* SessionConfig.ttl_seconds
    Malformed        \* bytes that are not the DER of a MakeMessage

AeadsOf(party) == {AcceptableAeads[party][i] : i \in DOMAIN AcceptableAeads[party]}

ASSUME ConfigAssumption ==
    /\ \A party \in Party : AcceptableAeads[party] \in Seq(AeadsOf(party))
    /\ StaticLevel \in [Party -> Levels]
    /\ KemLevel \in [Party -> Levels]
    /\ KnownPublic \in [Party -> SUBSET Party]
    /\ MaxRetries \in Nat
    /\ RetryInterval \in Nat \ {0}
    /\ SessionTTL \in Nat \ {0}

INITIATOR == "initiator"
RESPONDER == "responder"

INITIAL == "initial"
EXPECT_SESSION_INIT_RESPONSE == "expect_session_init_response"
EXPECT_SESSION_COMPLETION_REQUEST == "expect_session_completion_request"
EXPECT_SESSION_COMPLETION_RESPONSE == "expect_session_completion_response"
ESTABLISHED == "established"
DROPPED == "dropped"

SessionState == {INITIAL, EXPECT_SESSION_INIT_RESPONSE,
                 EXPECT_SESSION_COMPLETION_REQUEST,
                 EXPECT_SESSION_COMPLETION_RESPONSE, ESTABLISHED, DROPPED}

StaticKey(party) == PublicKey(StaticSeed(party), StaticLevel[party])

-----------------------------------------------------------------------------
(* The object.  n_a, s4 and the peer's static key are written and never read *)
(* again: `keys` holds what was derived from them.                           *)

NewSession(owner, role) ==
    [owner |-> owner, role |-> role, state |-> INITIAL, cid |-> None,
     lastReceived |-> None, lastSent |-> None, attempts |-> 0, deadline |-> None,
     outgoingPdus |-> <<>>, outgoingPayloads |-> <<>>, pending |-> None,
     ephemeral |-> None, peer |-> None, s1 |-> None, s2 |-> None, s3 |-> None,
     nB |-> None, aead |-> None, keys |-> None, seqA2B |-> 0, seqB2A |-> 0,
     plainForHm |-> None]

Return(s) == [s |-> s, exn |-> NoError]
Raise(s, exn) == [s |-> s, exn |-> exn]

(* The PDUs. *)
SessionInitRequest(cid, ct1, to, pkA, from, aeads) ==
    [type |-> "session_init_request", cid |-> cid, ct1 |-> ct1, keyIdB |-> to,
     pkA |-> pkA, keyIdA |-> from, aeads |-> aeads]
SessionInitResponse(cid, pkB, ct2, ct3, nB, aead) ==
    [type |-> "session_init_response", cid |-> cid, pkB |-> pkB, ct2 |-> ct2,
     ct3 |-> ct3, nB |-> nB, aead |-> aead]
SessionCompletionRequest(cid, cM, ct4, nA) ==
    [type |-> "session_completion_request", cid |-> cid, cM |-> cM, ct4 |-> ct4,
     nA |-> nA]
SessionCompletionResponse(cid, hM, m) ==
    [type |-> "session_completion_response", cid |-> cid, hM |-> hM, m |-> m]
Message(cid, seq, m) ==
    [type |-> "message", cid |-> cid, seq |-> seq, m |-> m]

(* The AEAD ciphertexts a PDU carries. *)
CiphertextsIn(pdu) ==
    CASE pdu.type = "session_completion_request"  -> {pdu.cM}
      [] pdu.type = "session_completion_response" -> {pdu.m} \ {None}
      [] pdu.type = "message"                     -> {pdu.m}
      [] OTHER                                    -> {}

Queue(s, pdu) == Append(s.outgoingPdus, pdu)

-----------------------------------------------------------------------------
(* Session.post_payload: ONE slot, whatever it held before. *)
PostPayload(s, payload) == [s EXCEPT !.pending = payload]

(* Session.initiate.  The cid and the peer are set before the key lookup. *)
Initiate(s, peer, fresh, now) ==
    IF s.role # INITIATOR \/ s.state # INITIAL
    THEN Raise(s, "SessionError")
    ELSE IF peer \notin KnownPublic[s.owner]
    THEN Raise([s EXCEPT !.cid = fresh, !.peer = peer], "KeyLookupError")
    ELSE LET ct1 == Encapsulate(StaticKey(peer), <<"s1", fresh>>)
             req == SessionInitRequest(fresh, ct1, peer,
                        PublicKey(fresh, KemLevel[s.owner]), s.owner,
                        AeadsOf(s.owner))
         IN Return([s EXCEPT !.cid = fresh, !.peer = peer,
                             !.ephemeral = fresh, !.s1 = <<"s1", fresh>>,
                             !.lastSent = req, !.attempts = 0,
                             !.deadline = now + RetryInterval,
                             !.state = EXPECT_SESSION_INIT_RESPONSE,
                             !.outgoingPdus = Queue(s, req)])

(* Session.reset: as newly constructed, same role and identity. *)
Reset(s) == NewSession(s.owner, s.role)

(* Session.fork: a sibling in the pre-response state, queues empty. *)
CanFork(s) == s.role = INITIATOR /\ s.state = EXPECT_SESSION_INIT_RESPONSE

Fork(s) ==
    [NewSession(s.owner, s.role) EXCEPT
        !.state = EXPECT_SESSION_INIT_RESPONSE, !.cid = s.cid, !.peer = s.peer,
        !.ephemeral = s.ephemeral, !.s1 = s.s1, !.lastSent = s.lastSent,
        !.attempts = s.attempts, !.deadline = s.deadline, !.pending = s.pending]

-----------------------------------------------------------------------------
(* Responder.  The first acceptable AEAD, in the responder's own order. *)
ChosenAead(owner, requested) ==
    LET mine == AcceptableAeads[owner]
        usable == {i \in DOMAIN mine : mine[i] \in requested}
    IN IF usable = {} THEN None
       ELSE mine[CHOOSE i \in usable : \A j \in usable : i <= j]

SessionInitRequestError(s, m) ==
    IF m.keyIdB # s.owner \/ m.keyIdA \notin KnownPublic[s.owner]
    THEN HandshakeFailed
    ELSE IF LengthMismatch(m.pkA.level, m.ct1) THEN ValueError
    ELSE IF ChosenAead(s.owner, m.aeads) = None THEN HandshakeFailed
    ELSE NoError

HandleSessionInitRequest(s, m, fresh, now) ==
    IF SessionInitRequestError(s, m) # NoError
    THEN Raise(s, SessionInitRequestError(s, m))
    ELSE LET s2 == <<"s2", fresh>>
             s3 == <<"s3", fresh>>
             aead == ChosenAead(s.owner, m.aeads)
             resp == SessionInitResponse(s.cid, PublicKey(fresh, m.pkA.level),
                         Encapsulate(m.pkA, s2), Encapsulate(StaticKey(m.keyIdA), s3),
                         fresh, aead)
         IN Return([s EXCEPT !.ephemeral = fresh, !.peer = m.keyIdA,
                             !.s1 = Decapsulate(StaticSeed(s.owner), m.ct1),
                             !.s2 = s2, !.s3 = s3, !.nB = fresh, !.aead = aead,
                             !.lastReceived = m, !.lastSent = resp, !.attempts = 0,
                             !.deadline = now + SessionTTL,
                             !.state = EXPECT_SESSION_COMPLETION_REQUEST,
                             !.outgoingPdus = Queue(s, resp)])

(* The keys the responder derives from a completion request. *)
ResponderKeys(s, m) ==
    SessionKeys(m.nA, s.nB, s.peer, s.s1, s.s2, s.s3,
                Decapsulate(s.ephemeral, m.ct4), s.aead)

(* Variant: c_m is not authenticated. *)
SessionCompletionRequestErrorUnchecked(s, m) ==
    IF LengthMismatch(KemLevel[s.owner], m.ct4) THEN ValueError ELSE NoError

(* Variant: the failed decryption is not turned into HandshakeFailed. *)
SessionCompletionRequestErrorRaw(s, m) ==
    IF LengthMismatch(KemLevel[s.owner], m.ct4) THEN ValueError
    ELSE IF ~Decrypts(ResponderKeys(s, m), "a2b", 0, m.cM, s.cid) THEN InvalidTag
    ELSE NoError

SessionCompletionRequestError(s, m) ==
    IF LengthMismatch(KemLevel[s.owner], m.ct4) THEN ValueError
    ELSE IF ~Decrypts(ResponderKeys(s, m), "a2b", 0, m.cM, s.cid) THEN HandshakeFailed
    ELSE NoError

(* Variant: the test for an empty plaintext the wrong way round. *)
HandedOverInverted(s, plain) ==
    IF plain # Empty THEN s.outgoingPayloads ELSE Append(s.outgoingPayloads, plain)

(* The application is handed the false-start payload, if c_m held one. *)
HandedOver(s, plain) ==
    IF plain = Empty THEN s.outgoingPayloads ELSE Append(s.outgoingPayloads, plain)

(* A payload already posted rides along in the reply. *)
HandleSessionCompletionRequest(s, m) ==
    IF SessionCompletionRequestError(s, m) # NoError
    THEN Raise(s, SessionCompletionRequestError(s, m))
    ELSE LET keys == ResponderKeys(s, m)
             reply == IF s.pending = None THEN None
                      ELSE Encrypt(keys, "b2a", 0, s.pending, s.cid)
             resp == SessionCompletionResponse(s.cid, Sha256(m.cM.plain), reply)
         IN Return([s EXCEPT !.keys = keys, !.seqA2B = 1,
                             !.seqB2A = IF reply = None THEN @ ELSE 1,
                             !.pending = None,
                             !.outgoingPayloads = HandedOver(s, m.cM.plain),
                             !.lastReceived = m, !.lastSent = resp,
                             !.state = ESTABLISHED, !.deadline = None,
                             !.outgoingPdus = Queue(s, resp)])

-----------------------------------------------------------------------------
(* Initiator. *)
SessionInitResponseError(s, m) ==
    IF \E ct \in {m.ct2, m.ct3} : LengthMismatch(KemLevel[s.owner], ct) THEN ValueError
    ELSE IF m.aead \notin AeadsOf(s.owner) THEN HandshakeFailed
    ELSE NoError

(* A payload already posted is the false start; without one c_m encrypts b"". *)
HandleSessionInitResponse(s, m, fresh, now) ==
    IF SessionInitResponseError(s, m) # NoError
    THEN Raise(s, SessionInitResponseError(s, m))
    ELSE LET s4 == <<"s4", fresh>>
             keys == SessionKeys(fresh, m.nB, s.owner, s.s1,
                         Decapsulate(s.ephemeral, m.ct2),
                         Decapsulate(StaticSeed(s.owner), m.ct3), s4, m.aead)
             plain == IF s.pending = None THEN Empty ELSE s.pending
             req == SessionCompletionRequest(s.cid,
                        Encrypt(keys, "a2b", 0, plain, s.cid),
                        Encapsulate(m.pkB, s4), fresh)
         IN Return([s EXCEPT !.keys = keys, !.nB = m.nB, !.aead = m.aead,
                             !.seqA2B = 1, !.pending = None, !.plainForHm = plain,
                             !.lastReceived = m, !.lastSent = req, !.attempts = 0,
                             !.deadline = now + RetryInterval,
                             !.state = EXPECT_SESSION_COMPLETION_RESPONSE,
                             !.outgoingPdus = Queue(s, req)])

SessionCompletionResponseError(s, m) ==
    IF \/ m.hM # Sha256(s.plainForHm)
       \/ m.m # None /\ ~Decrypts(s.keys, "b2a", 0, m.m, s.cid)
    THEN HandshakeFailed ELSE NoError

HandleSessionCompletionResponse(s, m) ==
    IF SessionCompletionResponseError(s, m) # NoError
    THEN Raise(s, SessionCompletionResponseError(s, m))
    ELSE Return([s EXCEPT !.seqB2A = IF m.m = None THEN @ ELSE 1,
                          !.outgoingPayloads = IF m.m = None THEN @
                                               ELSE Append(@, m.m.plain),
                          !.lastReceived = m, !.lastSent = None,
                          !.state = ESTABLISHED, !.deadline = None])

-----------------------------------------------------------------------------
(* Established traffic. *)

(* Variant: the completion request's payload is not counted. *)
SendEstablishedPayloadOffByOne(s) ==
    LET mine == IF s.role = INITIATOR THEN "a2b" ELSE "b2a"
        seq == IF s.role = INITIATOR THEN s.seqA2B - 1 ELSE s.seqB2A
    IN [s EXCEPT !.pending = None,
                 !.seqA2B = IF s.role = INITIATOR THEN @ + 1 ELSE @,
                 !.seqB2A = IF s.role = INITIATOR THEN @ ELSE @ + 1,
                 !.outgoingPdus = Queue(s, Message(s.cid, seq,
                                      Encrypt(s.keys, mine, seq, s.pending, s.cid)))]

(* Each side counts what it sends in its own direction and what it expects in *)
(* the other.                                                                 *)
SendEstablishedPayload(s) ==
    LET mine == IF s.role = INITIATOR THEN "a2b" ELSE "b2a"
        seq == IF s.role = INITIATOR THEN s.seqA2B ELSE s.seqB2A
    IN [s EXCEPT !.pending = None,
                 !.seqA2B = IF s.role = INITIATOR THEN @ + 1 ELSE @,
                 !.seqB2A = IF s.role = INITIATOR THEN @ ELSE @ + 1,
                 !.outgoingPdus = Queue(s, Message(s.cid, seq,
                                      Encrypt(s.keys, mine, seq, s.pending, s.cid)))]

(* Variant: seq is not compared with the one expected. *)
EstablishedMessageErrorAnySeq(s, m) ==
    LET theirs == IF s.role = INITIATOR THEN "b2a" ELSE "a2b"
    IN IF ~Decrypts(s.keys, theirs, m.seq, m.m, s.cid) THEN InvalidTag ELSE NoError

EstablishedMessageError(s, m) ==
    LET theirs == IF s.role = INITIATOR THEN "b2a" ELSE "a2b"
        expected == IF s.role = INITIATOR THEN s.seqB2A ELSE s.seqA2B
    IN IF m.seq # expected THEN HandshakeFailed
       ELSE IF ~Decrypts(s.keys, theirs, m.seq, m.m, s.cid) THEN InvalidTag
       ELSE NoError

HandleEstablishedMessage(s, m) ==
    IF EstablishedMessageError(s, m) # NoError
    THEN Raise(s, EstablishedMessageError(s, m))
    ELSE Return([s EXCEPT !.seqA2B = IF s.role = INITIATOR THEN @ ELSE @ + 1,
                          !.seqB2A = IF s.role = INITIATOR THEN @ + 1 ELSE @,
                          !.outgoingPayloads = Append(@, m.m.plain)])

-----------------------------------------------------------------------------
(* The PDU each waiting state takes (an INITIAL responder is apart). *)
ExpectedType(s) ==
    CASE s.state = EXPECT_SESSION_INIT_RESPONSE       -> "session_init_response"
      [] s.state = EXPECT_SESSION_COMPLETION_REQUEST  -> "session_completion_request"
      [] s.state = EXPECT_SESSION_COMPLETION_RESPONSE -> "session_completion_response"
      [] s.state = ESTABLISHED                        -> "message"
      [] OTHER                                        -> "none"

IsDuplicate(s, pdu) == s.lastReceived # None /\ pdu = s.lastReceived

(* Session._process_incoming: a byte-exact duplicate of the PDU last accepted *)
(* is answered with the cached reply; malformed bytes and other cids are      *)
(* ignored; a PDU the state does not take is refused.                         *)
ProcessIncoming(s, pdu, fresh, now) ==
    IF IsDuplicate(s, pdu)
    THEN Return(IF s.lastSent = None THEN s
                ELSE [s EXCEPT !.outgoingPdus = Queue(s, s.lastSent)])
    ELSE IF pdu = Malformed
    THEN Return(s)
    ELSE IF s.state = INITIAL /\ s.role = RESPONDER
    THEN IF pdu.type # "session_init_request" THEN Return(s)
         ELSE HandleSessionInitRequest([s EXCEPT !.cid = pdu.cid], pdu, fresh, now)
    ELSE IF pdu.cid # s.cid
    THEN Return(s)
    ELSE IF pdu.type # ExpectedType(s)
    THEN Raise(s, UnexpectedPDU)
    ELSE CASE s.state = EXPECT_SESSION_INIT_RESPONSE ->
                HandleSessionInitResponse(s, pdu, fresh, now)
           [] s.state = EXPECT_SESSION_COMPLETION_REQUEST ->
                HandleSessionCompletionRequest(s, pdu)
           [] s.state = EXPECT_SESSION_COMPLETION_RESPONSE ->
                HandleSessionCompletionResponse(s, pdu)
           [] s.state = ESTABLISHED ->
                HandleEstablishedMessage(s, pdu)
           [] OTHER -> Raise(s, UnexpectedPDU)

-----------------------------------------------------------------------------
(* Variant: one retry too many. *)
OnTimeoutOneMore(s, now) ==
    IF s.role = RESPONDER \/ s.attempts > MaxRetries
    THEN [s EXCEPT !.state = DROPPED]
    ELSE [s EXCEPT !.attempts = @ + 1, !.deadline = now + RetryInterval,
                   !.outgoingPdus = Queue(s, s.lastSent)]

(* Variant: attempts are not counted. *)
OnTimeoutUncounted(s, now) ==
    IF s.role = RESPONDER \/ s.attempts >= MaxRetries
    THEN [s EXCEPT !.state = DROPPED]
    ELSE [s EXCEPT !.deadline = now + RetryInterval,
                   !.outgoingPdus = Queue(s, s.lastSent)]

(* Variant: a retry draws a new n_a instead of resending the same bytes. *)
OnTimeoutRegenerated(s, now) ==
    IF s.role = RESPONDER \/ s.attempts >= MaxRetries
    THEN [s EXCEPT !.state = DROPPED]
    ELSE [s EXCEPT !.attempts = @ + 1, !.deadline = now + RetryInterval,
                   !.outgoingPdus =
                      IF s.state = EXPECT_SESSION_COMPLETION_RESPONSE
                      THEN Queue(s, [s.lastSent EXCEPT !.nA = <<"again", @>>])
                      ELSE Queue(s, s.lastSent)]

(* Session._on_timeout: the responder gives up; the initiator resends the *)
(* cached bytes until its retries are spent.                              *)
OnTimeout(s, now) ==
    IF s.role = RESPONDER \/ s.attempts >= MaxRetries
    THEN [s EXCEPT !.state = DROPPED]
    ELSE [s EXCEPT !.attempts = @ + 1, !.deadline = now + RetryInterval,
                   !.outgoingPdus = IF s.lastSent = None THEN @
                                    ELSE Queue(s, s.lastSent)]

TimedOut(s, now) ==
    /\ s.deadline # None
    /\ now >= s.deadline
    /\ s.state \notin {ESTABLISHED, INITIAL}

CheckDeadline(s, now) == IF TimedOut(s, now) THEN OnTimeout(s, now) ELSE s

(* Variant: a pending payload waits for the next PDU of the peer. *)
SendPendingOnReply(s) ==
    IF s.state = ESTABLISHED /\ s.pending # None /\ s.outgoingPayloads # <<>>
    THEN SendEstablishedPayload(s) ELSE s

SendPending(s) ==
    IF s.state = ESTABLISHED /\ s.pending # None
    THEN SendEstablishedPayload(s) ELSE s

(* The rest of update().  An exception ends the call: nothing pending is sent *)
(* and no deadline is looked at.                                              *)
AfterIncoming(r, now) ==
    IF r.exn # NoError THEN r
    ELSE Return(CheckDeadline(SendPending(r.s), now))

(* Session.update, on the PDU at the head of the incoming queue (None when the *)
(* queue is empty).                                                            *)
Update(s, pdu, fresh, now) ==
    IF s.state = DROPPED THEN Return(s)
    ELSE AfterIncoming(IF pdu = None THEN Return(s)
                       ELSE ProcessIncoming(s, pdu, fresh, now), now)

(* The caller's drain: get_pdu and get_payload until both queues are empty. *)
Drained(s) == [s EXCEPT !.outgoingPdus = <<>>, !.outgoingPayloads = <<>>]

=============================================================================
