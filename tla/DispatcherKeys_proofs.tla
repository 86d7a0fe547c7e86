------------------------ MODULE DispatcherKeys_proofs -------------------------
(***************************************************************************)
(* The keys and nonces of a process that runs many handshakes at once.     *)
(* Forks share a cid, an ephemeral key and the payloads of the application;*)
(* responder sessions come and go with their candidates, and a restart     *)
(* starts the counters anew: still no key encrypts two plaintexts under    *)
(* one seq, a responder holds no keys but those that the initiator it      *)
(* names made a c_m under, and a payload is handed over once under a cid.  *)
(***************************************************************************)
EXTENDS DispatcherPair_proofs

Roles == {INITIATOR, RESPONDER}

(* A record with the attributes of a session. *)
Formed(s) == s = [f \in Fields |-> s[f]]

(* The PDUs of W that encrypt, if anything, in the direction of `role`. *)
Ours(W, role) == {x \in W : \A c \in CiphertextsIn(x) : c.dir = OwnDir(role)}

(* The sessions that hold a value they drew, for the ciphertexts to come. *)
Armed(s) == s.state \in KeyedState \cup {EXPECT_SESSION_COMPLETION_REQUEST}

Draw(s) == IF s.state \in KeyedState THEN OwnDraw(s.role, s.keys) ELSE s.nB

(* A responder's keys are those of its peer: one of the ciphertexts B of the *)
(* peer is a c_m under them.                                                 *)
Vouched(s, B, p) ==
    /\ s.state = EXPECT_SESSION_COMPLETION_REQUEST =>
        s.role = RESPONDER /\ s.peer = Peer(p)
    /\ s.role = RESPONDER /\ s.state = ESTABLISHED =>
        /\ s.keys.fA = Peer(p)
        /\ \E c \in B : c.keys = s.keys /\ c.dir = "a2b" /\ c.seq = 0

(* One session among others whose process has sent W; the application posted P. *)
Member(s, W, B, P, p, n) ==
    /\ s.role \in Roles
    /\ Queued(s)
    /\ Known(s) \subseteq Ours(W, s.role)
    /\ Ahead(s, CiphertextsAmong(Ours(W, s.role)), p, s.role, n)
    /\ s.pending \in P \cup {None}
    /\ Unspent(s, CiphertextsAmong(Ours(W, s.role)))
    /\ Vouched(s, B, p)
    /\ Settled(s)

(* What p has sent after n draws: in each direction no nonce twice, and no     *)
(* payload twice under any keys.                                               *)
Traffic(W, P, p, n) ==
    /\ \A x \in W :
        /\ \E role \in Roles : x \in Ours(W, role)
        /\ x.type = "session_init_request" => x.keyIdA = p
    /\ \A role \in Roles :
        /\ OwnCiphertexts(CiphertextsAmong(Ours(W, role)), p, role, n)
        /\ \A c \in CiphertextsAmong(Ours(W, role)) : Blank(c) \/ c.plain \in P
        /\ NoneTwice(CiphertextsAmong(Ours(W, role)))

(* The sessions S of p, no two of which go by one draw. *)
Crowd(S, W, B, P, p, n) ==
    /\ Traffic(W, P, p, n)
    /\ \A s \in S : Member(s, W, B, P, p, n)
    /\ \A s, t \in S : Armed(s) /\ Armed(t) /\ s.role = t.role /\ Draw(s) = Draw(t)
                       => s = t

(* A PDU that may arrive from the peer, whose ciphertexts are B. *)
Arrives(pdu, B, p) ==
    \/ pdu \in {None, Malformed}
    \/ /\ pdu.type = "session_init_request" => pdu.keyIdA = Peer(p)
       /\ CiphertextsIn(pdu) \subseteq B

(* The session took the name of the next draw. *)
Took(t, p, n) ==
    \/ t.state = EXPECT_SESSION_COMPLETION_REQUEST /\ t.nB = <<p, n + 1>>
    \/ /\ t.state = EXPECT_SESSION_COMPLETION_RESPONSE /\ t.role = INITIATOR
       /\ t.keys.nA = <<p, n + 1>>

(* What a call may queue, and by which draw the session goes afterwards. *)
Follows(s, t, p, n) ==
    /\ \A x \in Range(t.outgoingPdus) :
        \/ x \in Known(s)
        \/ /\ x.type # "session_init_request"
           /\ \A c \in CiphertextsIn(x) : t.state \in KeyedState /\ c.keys = t.keys
    /\ Armed(t) => Took(t, p, n) \/ (Armed(s) /\ Draw(t) = Draw(s))

(* One method call on a session of the crowd. *)
Advances(s, t, W, B, P, p, n) ==
    /\ t = [f \in Fields |-> t[f]]
    /\ t.role = s.role
    /\ \/ Nonces(t, Ours(W, s.role), p, s.role, n)
       \/ Took(t, p, n) /\ Nonces(t, Ours(W, s.role), p, s.role, n + 1)
    /\ Spends(t, Ours(W, s.role), P)
    /\ Vouched(t, B, p)
    /\ Follows(s, t, p, n)

(* Calls F on the sessions S, which may leave them drained (G), after which V  *)
(* has been sent; at most one call may draw.                                   *)
Calls(S, F, G, W, V, B, P, p, n, m) ==
    /\ W \subseteq V
    /\ \A x \in V : x \in W \/ \E s \in S : x \in Range(F[s].outgoingPdus)
    /\ \A s \in S :
        /\ Advances(s, F[s], W, B, P, p, n)
        /\ Took(F[s], p, n) => m = n + 1
        /\ \A t \in S : Took(F[s], p, n) /\ Took(F[t], p, n) => s = t
        /\ G[s] \in {F[s], Drained(F[s])} /\ Settled(G[s])

(* The sessions T are those of S that remain. *)
Remain(T, S, F, G, V) ==
    \A t \in T : \E s \in S :
        \/ t = s /\ ~Armed(s)
        \/ t = G[s] /\ Range(F[s].outgoingPdus) \subseteq V

(* The same where the calls were on the sessions X only. *)
RemainOf(T, S, X, F, G, V) ==
    \A t \in T :
        \/ t \in S /\ (t \notin X \/ ~Armed(t))
        \/ \E s \in X : t = G[s] /\ Range(F[s].outgoingPdus) \subseteq V

(* The session a became c, and others may be gone. *)
Replaced(T, S, a, c) ==
    \A t \in T : t = c \/ (t \in S /\ (t # a \/ ~Armed(t)))

-----------------------------------------------------------------------------
(* One session. *)
LEMMA MemberNonces ==
    ASSUME NEW s, NEW W, NEW B, NEW P, NEW p, NEW n, Traffic(W, P, p, n), Member(s, W, B, P, p, n)
    PROVE  /\ Nonces(s, Ours(W, s.role), p, s.role, n)
           /\ Spends(s, Ours(W, s.role), P)
           /\ Out(s, Ours(W, s.role)) = Ours(W, s.role)
<1>1. Range(s.outgoingPdus) \subseteq Ours(W, s.role)
  BY DEF Member, Known
<1>2. Out(s, Ours(W, s.role)) = Ours(W, s.role)
  BY <1>1 DEF Out
<1>3. s.lastSent \in Ours(W, s.role) \cup {None}
  BY DEF Member, Known
<1>4. OwnCiphertexts(CiphertextsAmong(Ours(W, s.role)), p, s.role, n)
  BY DEF Member, Traffic
<1>5. Spends(s, Ours(W, s.role), P)
  BY <1>2 DEF Spends, Member, Traffic
<1>6. QED
  BY <1>2, <1>3, <1>4, <1>5 DEF Nonces, Member, Queued

(* Only an answer to an init request or response draws. *)
LEMMA NothingDrawn ==
    ASSUME NEW s, NEW pdu, NEW f, NEW g, NEW now,
           \/ pdu \in {None, Malformed}
           \/ pdu.type \notin {"session_init_request", "session_init_response"}
    PROVE  Update(s, pdu, f, now) = Update(s, pdu, g, now)
<1>1. CASE pdu = None
  BY <1>1 DEF Update
<1>2. CASE pdu # None
  <2>1. ProcessIncoming(s, pdu, f, now) = ProcessIncoming(s, pdu, g, now)
    BY <1>2 DEF ProcessIncoming, ExpectedType
  <2>2. QED
    BY <1>2, <2>1 DEF Update
<1>3. QED
  BY <1>1, <1>2

LEMMA ArmedStates ==
    /\ \A s : Armed(s) <=> s.state \in {EXPECT_SESSION_COMPLETION_REQUEST,
                  EXPECT_SESSION_COMPLETION_RESPONSE, ESTABLISHED}
    /\ \A s : s.state = EXPECT_SESSION_COMPLETION_REQUEST => s.state \notin KeyedState
    /\ \A s : s.state \in {INITIAL, DROPPED, EXPECT_SESSION_INIT_RESPONSE} => ~Armed(s)
BY DEF Armed, KeyedState, INITIAL, DROPPED, ESTABLISHED, EXPECT_SESSION_INIT_RESPONSE,
       EXPECT_SESSION_COMPLETION_REQUEST, EXPECT_SESSION_COMPLETION_RESPONSE

LEMMA TookDraw ==
    ASSUME NEW t, NEW p, NEW n, Took(t, p, n)
    PROVE  Armed(t) /\ Draw(t) = <<p, n + 1>>
<1>1. Armed(t)
  BY ArmedStates DEF Took
<1>2. CASE t.state = EXPECT_SESSION_COMPLETION_REQUEST /\ t.nB = <<p, n + 1>>
  BY <1>1, <1>2, ArmedStates DEF Draw
<1>3. CASE t.state = EXPECT_SESSION_COMPLETION_RESPONSE /\ t.role = INITIATOR
           /\ t.keys.nA = <<p, n + 1>>
  <2>1. t.state \in KeyedState
    BY <1>3 DEF KeyedState
  <2>2. QED
    BY <1>1, <1>3, <2>1 DEF Draw, OwnDraw
<1>4. QED
  BY <1>2, <1>3 DEF Took


LEMMA EffectVouched ==
    ASSUME NEW p, NEW B, NEW s, NEW t, NEW P, Object(s, p, s.role, P), t.role = s.role,
           s.state = INITIAL => s.role = RESPONDER,
           NEW pdu, NEW fresh, Arrives(pdu, B, p), Vouched(s, B, p),
           Effect(s, t, pdu, fresh)
    PROVE  Vouched(t, B, p)
<1>1. CASE Lingers(s, t)
  BY <1>1 DEF Lingers, Keeps, Vouched, DROPPED, ESTABLISHED,
              EXPECT_SESSION_COMPLETION_REQUEST
<1>2. CASE Talks(s, t)
  BY <1>2 DEF Talks, Keeps, Vouched, ESTABLISHED, EXPECT_SESSION_COMPLETION_REQUEST
<1>3. CASE Refuses(s, t, pdu)
  <2>1. t.state = INITIAL
    BY <1>3 DEF Refuses, Object, Fields
  <2>2. QED
    BY <2>1 DEF Vouched, INITIAL, ESTABLISHED, EXPECT_SESSION_COMPLETION_REQUEST
<1>4. CASE Responds(s, t, pdu, fresh)
  BY <1>4 DEF Responds, Arrived, Arrives, Vouched, ESTABLISHED,
              EXPECT_SESSION_COMPLETION_REQUEST
<1>5. CASE Completes(s, t, pdu, fresh)
  BY <1>5 DEF Completes, Vouched, ESTABLISHED, EXPECT_SESSION_COMPLETION_RESPONSE,
              EXPECT_SESSION_COMPLETION_REQUEST
<1>6. CASE Confirms(s, t, pdu)
  <2>1. t.keys.fA = s.peer
    BY <1>6 DEF Confirms, ResponderKeys, SessionKeys
  <2>2. pdu.cM \in B
    BY <1>6 DEF Confirms, Arrived, Arrives, CiphertextsIn
  <2>3. pdu.cM.keys = t.keys /\ pdu.cM.dir = "a2b" /\ pdu.cM.seq = 0
    BY <1>6 DEF Confirms, Decrypts
  <2>4. QED
    BY <1>6, <2>1, <2>2, <2>3 DEF Confirms, Vouched, ESTABLISHED,
       EXPECT_SESSION_COMPLETION_REQUEST
<1>7. CASE Concludes(s, t, pdu)
  <2>1. s.role # RESPONDER
    BY <1>7 DEF Concludes, Object, ResponderState, INITIATOR, RESPONDER, INITIAL,
                ESTABLISHED, DROPPED, EXPECT_SESSION_COMPLETION_REQUEST,
                EXPECT_SESSION_COMPLETION_RESPONSE
  <2>2. QED
    BY <1>7, <2>1 DEF Concludes, Vouched, ESTABLISHED, EXPECT_SESSION_COMPLETION_REQUEST
<1>8. QED
  BY <1>1, <1>2, <1>3, <1>4, <1>5, <1>6, <1>7 DEF Effect

LEMMA EffectFollows ==
    ASSUME NEW p, NEW n, NEW P, NEW s, Object(s, p, s.role, P),
           NEW t, Object(t, p, s.role, P), t.role = s.role,
           NEW pdu, Effect(s, t, pdu, <<p, n + 1>>)
    PROVE  Follows(s, t, p, n)
<1> SUFFICES /\ \A x \in Range(t.outgoingPdus) :
                  \/ x \in Known(s)
                  \/ /\ x.type # "session_init_request"
                     /\ \A c \in CiphertextsIn(x) :
                          t.state \in KeyedState /\ c.keys = t.keys
             /\ Armed(t) => Took(t, p, n) \/ (Armed(s) /\ Draw(t) = Draw(s))
  BY DEF Follows
<1>1. CASE Lingers(s, t)
  BY <1>1, ArmedStates DEF Lingers, Keeps, Resends, Draw
<1>2. CASE Talks(s, t)
  BY <1>2 DEF Talks, Keeps, Emits, NewlyMade, KeyedState, Armed, Draw
<1>3. CASE Refuses(s, t, pdu)
  <2>1. t.state = INITIAL /\ t.outgoingPdus = s.outgoingPdus
    BY <1>3 DEF Refuses, Object, Fields
  <2>2. QED
    BY <2>1, ArmedStates DEF Known
<1>4. CASE Responds(s, t, pdu, <<p, n + 1>>)
  <2>1. \A x \in Range(t.outgoingPdus) :
          x \in Known(s) \/ (x.type # "session_init_request" /\ CiphertextsIn(x) = {})
    BY <1>4 DEF Responds, Emits, NewlyMade
  <2>2. Took(t, p, n)
    BY <1>4 DEF Responds, Took
  <2>3. QED
    BY <2>1, <2>2
<1>5. CASE Completes(s, t, pdu, <<p, n + 1>>)
  <2>1. s.role = INITIATOR
    BY <1>5 DEF Completes, Object, ResponderState, INITIAL, ESTABLISHED, DROPPED,
                EXPECT_SESSION_INIT_RESPONSE, EXPECT_SESSION_COMPLETION_REQUEST
  <2>2. t.state \in KeyedState
    BY <1>5 DEF Completes, KeyedState
  <2>3. Took(t, p, n)
    BY <1>5, <2>1 DEF Completes, Took
  <2>4. QED
    BY <1>5, <2>2, <2>3 DEF Completes, Emits, NewlyMade
<1>6. CASE Confirms(s, t, pdu)
  <2>1. s.role # INITIATOR
    BY <1>6 DEF Confirms, Object, InitiatorState, INITIAL, ESTABLISHED, DROPPED,
                EXPECT_SESSION_INIT_RESPONSE, EXPECT_SESSION_COMPLETION_REQUEST,
                EXPECT_SESSION_COMPLETION_RESPONSE
  <2>2. t.keys.nB = s.nB
    BY <1>6 DEF Confirms, ResponderKeys, SessionKeys
  <2>3. t.state \in KeyedState /\ Armed(s) /\ s.state \notin KeyedState
    BY <1>6, ArmedStates DEF Confirms, KeyedState
  <2>4. Draw(t) = Draw(s)
    BY <2>1, <2>2, <2>3 DEF Draw, OwnDraw
  <2>5. QED
    BY <1>6, <2>3, <2>4 DEF Confirms, Emits, NewlyMade
<1>7. CASE Concludes(s, t, pdu)
  <2>1. t.state \in KeyedState /\ Armed(s) /\ s.state \in KeyedState
    BY <1>7 DEF Concludes, KeyedState, Armed
  <2>2. Draw(t) = Draw(s)
    BY <1>7, <2>1 DEF Concludes, Draw
  <2>3. QED
    BY <1>7, <2>1, <2>2 DEF Concludes, Emits, NewlyMade
<1>8. QED
  BY <1>1, <1>2, <1>3, <1>4, <1>5, <1>6, <1>7 DEF Effect

(* update(), whatever arrived. *)
LEMMA UpdateAdvances ==
    ASSUME NEW p \in Party, NEW n \in Nat, NEW s, Object(s, p, s.role, Payloads(p)),
           NEW W, NEW B, NEW P, Traffic(W, P, p, n), Member(s, W, B, P, p, n),
           NEW pdu, Arrives(pdu, B, p), NEW now \in Nat,
           s.state = INITIAL => s.role = RESPONDER
    PROVE  Advances(s, Update(s, pdu, <<p, n + 1>>, now).s, W, B, P, p, n)
<1> DEFINE t == Update(s, pdu, <<p, n + 1>>, now).s
<1>1. /\ Object(t, p, s.role, Payloads(p)) /\ t.role = s.role
      /\ Effect(s, t, pdu, <<p, n + 1>>)
  BY UpdateObject, UpdateEffect DEF Object, Member
<1>2. Nonces(s, Ours(W, s.role), p, s.role, n) /\ Spends(s, Ours(W, s.role), P)
  BY MemberNonces
<1>3. \/ Nonces(t, Ours(W, s.role), p, s.role, n)
      \/ Nonces(t, Ours(W, s.role), p, s.role, n + 1) /\ DrewNow(s, t, now)
  BY <1>1, <1>2, UpdateNonces
<1>spends. Spends(t, Ours(W, s.role), P)
  BY <1>2, UpdateSpends
<1> HIDE DEF t
<1>4. DrewNow(s, t, now) => Took(t, p, n)
  <2> SUFFICES ASSUME DrewNow(s, t, now) PROVE Took(t, p, n)
    OBVIOUS
  <2>1. Responds(s, t, pdu, <<p, n + 1>>) \/ Completes(s, t, pdu, <<p, n + 1>>)
    <3>1. s.state = INITIAL => ~Refuses(s, t, pdu)
      BY <1>1 DEF Refuses, DrewNow, Object, Fields
    <3>2. QED
      BY <1>1, <3>1 DEF Effect, DrewNow, Lingers, Talks, Refuses, Confirms, Concludes,
         DROPPED, ESTABLISHED, EXPECT_SESSION_COMPLETION_REQUEST,
         EXPECT_SESSION_COMPLETION_RESPONSE
  <2>2. CASE Responds(s, t, pdu, <<p, n + 1>>)
    BY <2>2 DEF Responds, Took
  <2>3. CASE Completes(s, t, pdu, <<p, n + 1>>)
    <3>1. s.role = INITIATOR
      BY <1>1, <2>3 DEF Completes, Object, ResponderState, INITIAL, ESTABLISHED, DROPPED,
                  EXPECT_SESSION_INIT_RESPONSE, EXPECT_SESSION_COMPLETION_REQUEST
    <3>2. QED
      BY <1>1, <2>3, <3>1 DEF Completes, Took
  <2>4. QED
    BY <2>1, <2>2, <2>3
<1>5. Vouched(t, B, p)
  BY <1>1, EffectVouched DEF Member
<1>6. Follows(s, t, p, n)
  BY <1>1, EffectFollows
<1>7. Advances(s, t, W, B, P, p, n)
  <2>1. t = [f \in Fields |-> t[f]]
    BY <1>1 DEF Object
  <2>2. QED
    BY <1>1, <1>3, <1>4, <1>5, <1>6, <1>spends, <2>1 DEF Advances
<1>8. QED
  BY <1>7 DEF t


(* Nothing done, or nothing that concerns what it has sent: a payload newly    *)
(* posted is one of Q.                                                         *)
LEMMA AlikeAdvances ==
    ASSUME NEW p, NEW n \in Nat, NEW s, NEW W, NEW B, NEW P, Traffic(W, P, p, n),
           Member(s, W, B, P, p, n), NEW Q, P \subseteq Q,
           NEW t, t = [f \in Fields |-> t[f]], t.role = s.role, t.state = s.state,
           t.keys = s.keys, t.nB = s.nB, t.peer = s.peer, t.lastSent = s.lastSent,
           t.outgoingPdus = s.outgoingPdus, t.seqA2B = s.seqA2B, t.seqB2A = s.seqB2A,
           t.pending = s.pending \/ t.pending \in Q \ P
    PROVE  Advances(s, t, W, B, Q, p, n)
<1>1. Nonces(s, Ours(W, s.role), p, s.role, n) /\ Spends(s, Ours(W, s.role), P)
  BY MemberNonces
<1>2. Nonces(t, Ours(W, s.role), p, s.role, n)
  BY <1>1 DEF Nonces, Out, Ahead, OwnSeq
<1>3. Vouched(t, B, p)
  BY DEF Member, Vouched
<1>4. Follows(s, t, p, n)
  BY DEF Follows, Known, Armed, Draw
<1>5. Spends(t, Ours(W, s.role), Q)
  <2> DEFINE C == CiphertextsAmong(Out(s, Ours(W, s.role)))
  <2>1. CiphertextsAmong(Out(t, Ours(W, s.role))) = C
    BY DEF Out
  <2>2. /\ s.pending \in P \cup {None} /\ NoneTwice(C) /\ Unspent(s, C)
        /\ \A c \in C : Blank(c) \/ c.plain \in P
    BY <1>1 DEF Spends
  <2> HIDE DEF C
  <2>3. Unspent(t, C)
    BY <2>2 DEF Unspent
  <2>4. QED
    BY <2>1, <2>2, <2>3 DEF Spends
<1>6. QED
  BY <1>2, <1>3, <1>4, <1>5 DEF Advances

LEMMA MemberDraw ==
    ASSUME NEW s, NEW W, NEW B, NEW P, NEW p, NEW n, Member(s, W, B, P, p, n), Armed(s)
    PROVE  Draw(s) \in Drawn(p, n)
<1>1. s.state \in KeyedState \/ s.state = EXPECT_SESSION_COMPLETION_REQUEST
  BY DEF Armed
<1>2. CASE s.state \in KeyedState
  BY <1>2 DEF Member, Ahead, Draw
<1>3. CASE s.state = EXPECT_SESSION_COMPLETION_REQUEST
  BY <1>3, ArmedStates DEF Member, Ahead, Draw
<1>4. QED
  BY <1>1, <1>2, <1>3

LEMMA DrainedAlike ==
    ASSUME NEW t, t = [f \in Fields |-> t[f]]
    PROVE  LET u == Drained(t)
           IN /\ u.role = t.role /\ u.state = t.state /\ u.keys = t.keys
              /\ u.nB = t.nB /\ u.peer = t.peer /\ u.lastSent = t.lastSent
              /\ u.outgoingPdus = <<>> /\ Range(u.outgoingPdus) = {} /\ Queued(u)
              /\ OwnSeq(u) = OwnSeq(t) /\ u.pending = t.pending
              /\ u.outgoingPayloads = <<>>
<1> DEFINE u == Drained(t)
<1>1. /\ u.role = t.role /\ u.state = t.state /\ u.keys = t.keys
      /\ u.nB = t.nB /\ u.peer = t.peer /\ u.lastSent = t.lastSent
      /\ u.outgoingPdus = <<>> /\ OwnSeq(u) = OwnSeq(t) /\ u.pending = t.pending
      /\ u.outgoingPayloads = <<>>
  BY DEF Drained, Fields, OwnSeq
<1> HIDE DEF u
<1>2. Range(u.outgoingPdus) = {} /\ Queued(u)
  BY <1>1 DEF Range, Queued
<1>3. QED
  BY <1>1, <1>2 DEF u

LEMMA OursGrows ==
    ASSUME NEW W, NEW V, W \subseteq V, NEW role
    PROVE  /\ Ours(W, role) \subseteq Ours(V, role)
           /\ CiphertextsAmong(Ours(W, role)) \subseteq CiphertextsAmong(Ours(V, role))
BY DEF Ours, CiphertextsAmong

LEMMA OneDir ==
    \A q, r \in Roles : OwnDir(q) = OwnDir(r) => q = r
BY DEF Roles, OwnDir, INITIATOR, RESPONDER

(* The sessions of one process, each changed by at most one call: whatever    *)
(* they send at once, and whichever of them are left, none repeats a nonce.   *)
LEMMA CrowdStep ==
    ASSUME NEW p, NEW n \in Nat, NEW m \in {n, n + 1}, NEW S, NEW W, NEW B, NEW P,
           Crowd(S, W, B, P, p, n),
           NEW F, NEW G, NEW V, Calls(S, F, G, W, V, B, P, p, n, m),
           NEW T, Remain(T, S, F, G, V)
    PROVE  Crowd(T, V, B, P, p, m)
<1> DEFINE C(role) == CiphertextsAmong(Ours(W, role))
           D(role) == CiphertextsAmong(Ours(V, role))
           O(s) == CiphertextsAmong(Out(F[s], Ours(W, s.role)))
<1> USE DEF Calls, Remain
<1>1. /\ Traffic(W, P, p, n) /\ \A s \in S : Member(s, W, B, P, p, n) /\ s.role \in Roles
      /\ \A s, t \in S : Armed(s) /\ Armed(t) /\ s.role = t.role /\ Draw(s) = Draw(t)
                         => s = t
  BY DEF Crowd, Member
<1>2. ASSUME NEW s \in S
      PROVE  /\ Nonces(F[s], Ours(W, s.role), p, s.role, m)
             /\ Spends(F[s], Ours(W, s.role), P)
             /\ F[s].role = s.role /\ Follows(s, F[s], p, n) /\ Vouched(F[s], B, p)
             /\ F[s] = [f \in Fields |-> F[s][f]]
  <2>1. Advances(s, F[s], W, B, P, p, n)
    OBVIOUS
  <2>2. \/ Nonces(F[s], Ours(W, s.role), p, s.role, n)
        \/ m = n + 1 /\ Nonces(F[s], Ours(W, s.role), p, s.role, n + 1)
    BY <2>1 DEF Advances
  <2>3. Nonces(F[s], Ours(W, s.role), p, s.role, m)
    BY <2>2, NoncesGrow
  <2>4. QED
    BY <2>1, <2>3 DEF Advances
<1>3. ASSUME NEW s \in S, NEW x \in Range(F[s].outgoingPdus), NEW c \in CiphertextsIn(x)
      PROVE  c \in O(s) /\ c.dir = OwnDir(s.role)
  <2>1. c \in O(s)
    BY <1>3 DEF Out, CiphertextsAmong
  <2>2. QED
    BY <1>2, <2>1 DEF Nonces, OwnCiphertexts
<1>4. ASSUME NEW role \in Roles, NEW c \in D(role)
      PROVE  \/ c \in C(role)
             \/ \E s \in S : /\ s.role = role /\ c \in O(s)
                             /\ F[s].state \in KeyedState /\ c.keys = F[s].keys
  <2>1. PICK x \in V : c \in CiphertextsIn(x) /\ \A e \in CiphertextsIn(x) : e.dir = OwnDir(role)
    BY <1>4 DEF Ours, CiphertextsAmong
  <2>2. CASE x \in W
    BY <2>1, <2>2 DEF Ours, CiphertextsAmong
  <2>3. CASE \E s \in S : x \in Range(F[s].outgoingPdus)
    <3>1. PICK s \in S : x \in Range(F[s].outgoingPdus)
      BY <2>3
    <3>2. c \in O(s) /\ s.role = role
      BY <1>1, <1>3, <2>1, <3>1, OneDir
    <3>3. CASE x \in Known(s)
      <4>1. x \in W
        BY <1>1, <3>3 DEF Member, Ours
      <4>2. QED
        BY <2>2, <4>1
    <3>4. CASE x \notin Known(s)
      <4>1. F[s].state \in KeyedState /\ c.keys = F[s].keys
        BY <1>2, <2>1, <3>1, <3>4 DEF Follows
      <4>2. QED
        BY <3>2, <4>1
    <3>5. QED
      BY <3>3, <3>4
  <2>4. QED
    BY <2>1, <2>2, <2>3
<1>5. \A s \in S : C(s.role) \subseteq O(s)
  BY DEF Out, CiphertextsAmong
<1>6. ASSUME NEW s \in S, NEW t \in S, Armed(F[s]), Armed(F[t]), s.role = t.role,
             Draw(F[s]) = Draw(F[t])
      PROVE  s = t
  <2>1. /\ Took(F[s], p, n) \/ (Armed(s) /\ Draw(F[s]) = Draw(s))
        /\ Took(F[t], p, n) \/ (Armed(t) /\ Draw(F[t]) = Draw(t))
    BY <1>2, <1>6 DEF Follows
  <2>2. <<p, n + 1>> \notin Drawn(p, n)
    BY DrawnGrows
  <2>3. /\ Armed(s) => Draw(s) \in Drawn(p, n)
        /\ Armed(t) => Draw(t) \in Drawn(p, n)
    BY <1>1, MemberDraw
  <2>4. CASE Took(F[s], p, n) /\ Took(F[t], p, n)
    BY <2>4
  <2>5. CASE /\ Armed(s) /\ Draw(F[s]) = Draw(s)
             /\ Armed(t) /\ Draw(F[t]) = Draw(t)
    BY <1>1, <1>6, <2>5
  <2>6. QED
    BY <1>6, <2>1, <2>2, <2>3, <2>4, <2>5, TookDraw
<1>7. ASSUME NEW role \in Roles
      PROVE  /\ OwnCiphertexts(C(role), p, role, m) /\ NoneTwice(C(role))
             /\ \A c \in C(role) : Blank(c) \/ c.plain \in P
             /\ \A s \in S : s.role = role =>
                   /\ OwnCiphertexts(O(s), p, role, m) /\ NoneTwice(O(s))
                   /\ \A c \in O(s) : Blank(c) \/ c.plain \in P
  <2>1. /\ OwnCiphertexts(C(role), p, role, n) /\ NoneTwice(C(role))
        /\ \A c \in C(role) : Blank(c) \/ c.plain \in P
    BY <1>1 DEF Traffic
  <2>2. OwnCiphertexts(C(role), p, role, m)
    BY <2>1, DrawnGrows DEF OwnCiphertexts
  <2>3. QED
    BY <1>2, <2>1, <2>2 DEF Nonces, Spends
<1>8. ASSUME NEW s \in S, NEW c \in D(s.role),
             OwnDraw(s.role, c.keys) = Draw(F[s]), Armed(F[s])
      PROVE  c \in O(s)
  <2>2. CASE c \in C(s.role)
    BY <1>5, <2>2
  <2>3. ASSUME NEW t \in S, t.role = s.role, c \in O(t), F[t].state \in KeyedState,
               c.keys = F[t].keys
        PROVE  c \in O(s)
    <3>1. Armed(F[t]) /\ Draw(F[t]) = OwnDraw(s.role, c.keys)
      BY <1>2, <2>3 DEF Draw, Armed
    <3>2. s = t
      BY <1>6, <1>8, <2>3, <3>1
    <3>3. QED
      BY <2>3, <3>2
  <2>4. QED
    BY <1>1, <1>4, <2>2, <2>3
<1> HIDE DEF C, D, O, Calls, Remain
<1>9. ASSUME NEW role \in Roles
      PROVE  /\ OwnCiphertexts(D(role), p, role, m) /\ NoneTwice(D(role))
             /\ \A c \in D(role) : Blank(c) \/ c.plain \in P
  <2>1. ASSUME NEW c \in D(role)
        PROVE  /\ c.dir = OwnDir(role) /\ c.seq \in Nat
               /\ OwnDraw(role, c.keys) \in Drawn(p, m)
               /\ Blank(c) \/ c.plain \in P
    BY <1>4, <1>7, <2>1 DEF OwnCiphertexts
  <2>2. ASSUME NEW c \in D(role), NEW e \in D(role), c.keys = e.keys
        PROVE  /\ c.seq = e.seq => c = e
               /\ c.plain = e.plain => c = e \/ Blank(c) \/ Blank(e)
    <3>1. CASE c \in C(role) /\ e \in C(role)
      BY <1>7, <2>2, <3>1 DEF OwnCiphertexts, NoneTwice
    <3>2. ASSUME NEW s \in S, s.role = role, F[s].state \in KeyedState,
                 c.keys = F[s].keys
          PROVE  /\ c.seq = e.seq => c = e
                 /\ c.plain = e.plain => c = e \/ Blank(c) \/ Blank(e)
      <4>1. Armed(F[s]) /\ Draw(F[s]) = OwnDraw(s.role, F[s].keys)
        BY <1>2, <3>2 DEF Armed, Draw
      <4>2. c \in O(s) /\ e \in O(s)
        BY <1>8, <2>2, <3>2, <4>1
      <4>3. QED
        BY <1>7, <2>2, <3>2, <4>2 DEF OwnCiphertexts, NoneTwice
    <3>3. QED
      BY <1>4, <2>2, <3>1, <3>2
  <2>3. QED
    BY <2>1, <2>2 DEF OwnCiphertexts, NoneTwice
<1>10. Traffic(V, P, p, m)
  <2>1. ASSUME NEW x \in V
        PROVE  /\ \E role \in Roles : x \in Ours(V, role)
               /\ x.type = "session_init_request" => x.keyIdA = p
    <3>1. CASE x \in W
      BY <1>1, <3>1 DEF Traffic, Ours
    <3>2. ASSUME NEW s \in S, x \in Range(F[s].outgoingPdus)
          PROVE  /\ \E role \in Roles : x \in Ours(V, role)
                 /\ x.type = "session_init_request" => x.keyIdA = p
      <4>1. x \in Ours(V, s.role)
        BY <1>3, <2>1, <3>2 DEF Ours
      <4>2. x \in Known(s) => x \in W
        BY <1>1 DEF Member, Ours
      <4>3. x \in Known(s) \/ x.type # "session_init_request"
        BY <1>2, <3>2 DEF Follows
      <4>4. QED
        BY <1>1, <3>1, <4>1, <4>2, <4>3
    <3>3. QED
      BY <2>1, <3>1, <3>2 DEF Calls
  <2>2. QED
    BY <1>9, <2>1 DEF Traffic, D
<1>unspent. ASSUME NEW s \in S
      PROVE  F[s].pending \in P \cup {None} /\ Unspent(F[s], D(s.role))
  <2>1. Unspent(F[s], O(s)) /\ F[s].pending \in P \cup {None}
    BY <1>2 DEF Spends, O
  <2>2. ASSUME F[s].state \in KeyedState, NEW c \in D(s.role), c.keys = F[s].keys
        PROVE  c \in O(s)
    <3>1. Armed(F[s]) /\ Draw(F[s]) = OwnDraw(s.role, F[s].keys)
      BY <1>2, <2>2 DEF Armed, Draw
    <3>2. QED
      BY <1>8, <2>2, <3>1
  <2>3. QED
    BY <2>1, <2>2 DEF Unspent
<1>11. ASSUME NEW s \in S PROVE Ahead(F[s], D(s.role), p, s.role, m)
  <2>1. Ahead(F[s], O(s), p, s.role, m)
    BY <1>2 DEF Nonces, O
  <2>2. ASSUME F[s].state \in KeyedState, NEW c \in D(s.role), c.keys = F[s].keys
        PROVE  c.seq < OwnSeq(F[s])
    <3>1. Armed(F[s]) /\ Draw(F[s]) = OwnDraw(s.role, F[s].keys)
      BY <1>2, <2>2 DEF Armed, Draw
    <3>2. c \in O(s)
      BY <1>8, <2>2, <3>1
    <3>3. QED
      BY <2>1, <2>2, <3>2 DEF Ahead
  <2>3. ASSUME F[s].state = EXPECT_SESSION_COMPLETION_REQUEST, NEW c \in D(s.role)
        PROVE  c.keys.nB # F[s].nB
    <3>1. s.role = RESPONDER /\ Armed(F[s]) /\ Draw(F[s]) = F[s].nB
      BY <1>2, <2>3, ArmedStates DEF Vouched, Draw
    <3>2. OwnDraw(s.role, c.keys) = c.keys.nB
      BY <3>1 DEF OwnDraw, INITIATOR, RESPONDER
    <3>3. c \in O(s) \/ c.keys.nB # F[s].nB
      BY <1>8, <2>3, <3>1, <3>2
    <3>4. QED
      BY <2>1, <2>3, <3>3 DEF Ahead
  <2>5. F[s].state \in KeyedState => OwnDraw(s.role, F[s].keys) \in Drawn(p, m)
    BY <2>1 DEF Ahead
  <2>6. F[s].state = EXPECT_SESSION_COMPLETION_REQUEST => F[s].nB \in Drawn(p, m)
    BY <2>1 DEF Ahead
  <2>4. QED
    BY <2>2, <2>3, <2>5, <2>6 DEF Ahead
<1>12. ASSUME NEW t \in T, NEW s \in S, t = G[s], Range(F[s].outgoingPdus) \subseteq V
       PROVE  /\ Member(t, V, B, P, p, m)
              /\ t.role = s.role
              /\ Armed(t) => Armed(F[s]) /\ Draw(t) = Draw(F[s])
  <2>1. /\ t.role = s.role /\ t.state = F[s].state /\ t.keys = F[s].keys
        /\ t.nB = F[s].nB /\ t.peer = F[s].peer /\ t.lastSent = F[s].lastSent
        /\ Range(t.outgoingPdus) \subseteq Range(F[s].outgoingPdus)
        /\ OwnSeq(t) = OwnSeq(F[s]) /\ Queued(t) /\ t.pending = F[s].pending
    <3>1. CASE t = F[s]
      BY <1>2, <3>1 DEF Nonces, Queued
    <3>2. CASE t = Drained(F[s])
      BY <1>2, <3>2, DrainedAlike
    <3>3. QED
      BY <1>12, <3>1, <3>2 DEF Calls
  <2>2. Range(F[s].outgoingPdus) \subseteq Ours(V, s.role)
    BY <1>3, <1>12 DEF Ours
  <2>3. F[s].lastSent \in Ours(W, s.role) \cup Range(F[s].outgoingPdus) \cup {None}
    BY <1>2 DEF Nonces, Out
  <2>4. Known(t) \subseteq Ours(V, t.role)
    BY <2>1, <2>2, <2>3, OursGrows DEF Known, Calls
  <2>5. Ahead(t, D(t.role), p, t.role, m)
    BY <1>11, <2>1 DEF Ahead
  <2>6. Vouched(t, B, p)
    BY <1>2, <2>1 DEF Vouched
  <2>unspent. t.pending \in P \cup {None} /\ Unspent(t, D(t.role))
    BY <1>unspent, <2>1 DEF Unspent
  <2>quiet. Settled(t)
    BY <1>12 DEF Calls
  <2>7. Member(t, V, B, P, p, m)
    BY <1>1, <2>1, <2>4, <2>5, <2>6, <2>unspent, <2>quiet DEF Member, D
  <2>8. QED
    BY <1>2, <2>1, <2>7 DEF Armed, Draw
<1>13. ASSUME NEW t \in T PROVE Member(t, V, B, P, p, m)
  <2>1. ASSUME t \in S, ~Armed(t) PROVE Member(t, V, B, P, p, m)
    <3>1. Ahead(t, D(t.role), p, t.role, m)
      BY <2>1 DEF Ahead, Armed
    <3>2. Unspent(t, D(t.role))
      BY <2>1 DEF Unspent, Armed
    <3>3. QED
      BY <1>1, <2>1, <3>1, <3>2, OursGrows DEF Member, D, Calls
  <2>2. QED
    BY <1>12, <1>13, <2>1 DEF Remain
<1>14. ASSUME NEW t \in T, NEW u \in T, Armed(t), Armed(u), t.role = u.role,
              Draw(t) = Draw(u)
       PROVE  t = u
  <2>1. /\ \E s \in S : (t = s /\ ~Armed(s)) \/ (t = G[s] /\ Range(F[s].outgoingPdus) \subseteq V)
        /\ \E s \in S : (u = s /\ ~Armed(s)) \/ (u = G[s] /\ Range(F[s].outgoingPdus) \subseteq V)
    BY DEF Remain
  <2>2. PICK s \in S : t = G[s] /\ Range(F[s].outgoingPdus) \subseteq V
    BY <1>14, <2>1
  <2>3. PICK r \in S : u = G[r] /\ Range(F[r].outgoingPdus) \subseteq V
    BY <1>14, <2>1
  <2>4. /\ t.role = s.role /\ Armed(F[s]) /\ Draw(t) = Draw(F[s])
        /\ u.role = r.role /\ Armed(F[r]) /\ Draw(u) = Draw(F[r])
    BY <1>12, <1>14, <2>2, <2>3
  <2>5. s = r
    BY <1>6, <1>14, <2>4
  <2>6. QED
    BY <2>2, <2>3, <2>5
<1>15. QED
  BY <1>10, <1>14, <1>13 DEF Crowd


(* The sessions X of a process change, the others do not. *)
LEMMA SomeAdvance ==
    ASSUME NEW p, NEW n \in Nat, NEW m \in {n, n + 1}, NEW S, NEW W, NEW B, NEW P,
           Crowd(S, W, B, P, p, n), \A s \in S : Formed(s),
           NEW X, X \subseteq S,
           NEW F, NEW G, NEW V, Calls(X, F, G, W, V, B, P, p, n, m),
           NEW T, RemainOf(T, S, X, F, G, V)
    PROVE  Crowd(T, V, B, P, p, m)
<1> DEFINE A == [s \in S |-> IF s \in X THEN F[s] ELSE s]
           E == [s \in S |-> IF s \in X THEN G[s] ELSE s]
<1>1. Traffic(W, P, p, n) /\ \A s \in S : Member(s, W, B, P, p, n)
  BY DEF Crowd
<1>2. ASSUME NEW s \in S PROVE Advances(s, s, W, B, P, p, n) /\ ~Took(s, p, n)
  <2>1. Advances(s, s, W, B, P, p, n)
    BY <1>1, AlikeAdvances DEF Formed
  <2>2. Armed(s) => Draw(s) \in Drawn(p, n)
    BY <1>1, MemberDraw
  <2>3. QED
    BY <2>1, <2>2, TookDraw, DrawnGrows
<1>3. \A s \in S : /\ s \in X => A[s] = F[s] /\ E[s] = G[s]
                   /\ s \notin X => A[s] = s /\ E[s] = s
  OBVIOUS
<1> HIDE DEF A, E
<1>4. ASSUME NEW s \in S
      PROVE  /\ Advances(s, A[s], W, B, P, p, n)
             /\ Took(A[s], p, n) => s \in X /\ m = n + 1
             /\ E[s] \in {A[s], Drained(A[s])} /\ Settled(E[s])
  BY <1>1, <1>2, <1>3 DEF Calls, Member
<1>5. \A s, t \in S : Took(A[s], p, n) /\ Took(A[t], p, n) => s = t
  BY <1>3, <1>4 DEF Calls
<1>6. \A x \in V : x \in W \/ \E s \in S : x \in Range(A[s].outgoingPdus)
  BY <1>3 DEF Calls
<1>7. Calls(S, A, E, W, V, B, P, p, n, m)
  BY <1>4, <1>5, <1>6 DEF Calls
<1>8. ASSUME NEW t \in T
      PROVE  \E s \in S : \/ t = s /\ ~Armed(s)
                          \/ t = E[s] /\ Range(A[s].outgoingPdus) \subseteq V
  <2>1. CASE t \in S /\ t \notin X
    <3>1. Known(t) \subseteq W
      BY <1>1, <2>1 DEF Member, Ours
    <3>2. Range(t.outgoingPdus) \subseteq V
      BY <3>1 DEF Known, Calls
    <3>3. QED
      BY <1>3, <2>1, <3>2
  <2>2. CASE t \in S /\ ~Armed(t)
    BY <2>2
  <2>3. CASE \E s \in X : t = G[s] /\ Range(F[s].outgoingPdus) \subseteq V
    BY <1>3, <2>3
  <2>4. QED
    BY <2>1, <2>2, <2>3 DEF RemainOf
<1>9. Remain(T, S, A, E, V)
  BY <1>8 DEF Remain
<1>10. QED
  BY <1>7, <1>9, CrowdStep

(* One session changes: one of the crowd, or a new one that has drawn nothing. *)
LEMMA OneAdvances ==
    ASSUME NEW p, NEW n \in Nat, NEW S, NEW W, NEW B, NEW P,
           Crowd(S, W, B, P, p, n), \A s \in S : Formed(s),
           NEW a, Formed(a), Member(a, W, B, P, p, n),
           a \in S \/ ~Armed(a),
           NEW b, Advances(a, b, W, B, P, p, n),
           NEW V, W \subseteq V, V \subseteq W \cup Range(b.outgoingPdus),
           Range(b.outgoingPdus) \subseteq V,
           NEW c \in {b, Drained(b)}, Settled(c),
           NEW T, Replaced(T, S, a, c)
    PROVE  Crowd(T, V, B, P, p, n) \/ (Took(b, p, n) /\ Crowd(T, V, B, P, p, n + 1))
<1> DEFINE R == S \cup {a}
           m == IF Took(b, p, n) THEN n + 1 ELSE n
           F == [s \in {a} |-> b]
           G == [s \in {a} |-> c]
<1>1. Crowd(R, W, B, P, p, n)
  BY DEF Crowd
<1>2. \A s \in {a} : F[s] = b /\ G[s] = c
  OBVIOUS
<1>3. /\ \A s \in R : Formed(s)
      /\ m \in {n, n + 1} /\ {a} \subseteq R
      /\ \A t \in T : (t \in R /\ (t \notin {a} \/ ~Armed(t))) \/ t = c
  BY DEF Replaced
<1>4. Calls({a}, F, G, W, V, B, P, p, n, m)
  BY <1>2 DEF Calls
<1> HIDE DEF F, G, R, m
<1>5. RemainOf(T, R, {a}, F, G, V)
  BY <1>2, <1>3 DEF RemainOf
<1>6. Crowd(T, V, B, P, p, m)
  BY <1>1, <1>3, <1>4, <1>5, SomeAdvance
<1>7. QED
  BY <1>6 DEF m

(* update() without a PDU that could make a session draw. *)
LEMMA QuietAdvances ==
    ASSUME NEW p \in Party, NEW n \in Nat, NEW s, Object(s, p, s.role, Payloads(p)),
           NEW W, NEW B, NEW P, Traffic(W, P, p, n), Member(s, W, B, P, p, n),
           NEW pdu, Arrives(pdu, B, p), NEW now \in Nat,
           s.state = INITIAL => s.role = RESPONDER,
           \/ pdu \in {None, Malformed}
           \/ pdu.type \notin {"session_init_request", "session_init_response"}
    PROVE  LET t == Update(s, pdu, None, now).s
           IN Advances(s, t, W, B, P, p, n) /\ ~Took(t, p, n)
<1> DEFINE fresh == <<p, n + 1>>
           t == Update(s, pdu, fresh, now).s
<1>1. Update(s, pdu, None, now) = Update(s, pdu, fresh, now)
  BY NothingDrawn
<1>2. Advances(s, t, W, B, P, p, n)
  BY UpdateAdvances
<1>3. Effect(s, t, pdu, fresh) /\ t.role = s.role
  <2>1. Object(t, p, s.role, Payloads(p))
    BY UpdateObject
  <2>2. Effect(s, t, pdu, fresh)
    BY UpdateEffect DEF Member
  <2> HIDE DEF t
  <2>3. QED
    BY <2>1, <2>2 DEF Object
<1>4. Armed(s) => Draw(s) # fresh
  BY MemberDraw, DrawnGrows
<1> HIDE DEF t
<1>5. ~Responds(s, t, pdu, fresh) /\ ~Completes(s, t, pdu, fresh)
  BY DEF Responds, Completes, Arrived
<1>6. ~Took(t, p, n)
  <2>1. CASE Lingers(s, t)
    <3>1. Armed(t) => Armed(s) /\ Draw(t) = Draw(s)
      BY <1>3, <2>1, ArmedStates DEF Lingers, Keeps, Draw
    <3>2. QED
      BY <1>4, <3>1, TookDraw
  <2>2. CASE Talks(s, t) \/ Confirms(s, t, pdu) \/ Concludes(s, t, pdu)
    BY <2>2 DEF Talks, Confirms, Concludes, Took, ESTABLISHED,
                EXPECT_SESSION_COMPLETION_REQUEST, EXPECT_SESSION_COMPLETION_RESPONSE
  <2>3. CASE Refuses(s, t, pdu)
    BY <2>3 DEF Refuses, Arrived, Took
  <2>4. QED
    BY <1>3, <1>5, <2>1, <2>2, <2>3 DEF Effect
<1>7. QED
  BY <1>1, <1>2, <1>6 DEF t

-----------------------------------------------------------------------------
(* One Dispatcher: its sessions and templates, and what they go on from when a *)
(* method has returned.                                                        *)
All(d) == SessionsOf(d) \cup {d.templates[cid] : cid \in DOMAIN d.templates}

CrowdOf(d, W, B, P, p, n) == Crowd(All(d), W \cup d.outgoing, B, P, p, n)

Goes(d, W, B, P, p, n) ==
    \/ CrowdOf(d, W, B, P, p, n)
    \/ CrowdOf(d, W, B, P, p, n + 1) /\ \E s \in SessionsOf(d) : Took(s, p, n)

LEMMA AllOf ==
    \A d : \A s :
        /\ s \in SessionsOf(d) <=>
            \/ \E cid \in DOMAIN d.established : s = d.established[cid]
            \/ \E cid \in DOMAIN d.responders : s = d.responders[cid]
            \/ \E cid \in DOMAIN d.forks : \E i \in DOMAIN d.forks[cid] : s = d.forks[cid][i]
        /\ s \in All(d) <=>
            s \in SessionsOf(d) \/ \E cid \in DOMAIN d.templates : s = d.templates[cid]
BY DEF All, SessionsOf, Range

LEMMA AllObjects ==
    ASSUME NEW p, NEW n, NEW d, Shape(d, p, n), NEW s \in All(d)
    PROVE  /\ Object(s, p, s.role, Payloads(p)) /\ Formed(s)
           /\ s.state = INITIAL => s.role = RESPONDER
<1>1. \E cid : Held(s, cid, p, n)
  BY AllOf DEF Shape, EstablishedOK, RespondersOK, TemplatesOK, ForksOK
<1>2. s.state = INITIAL => s.role = RESPONDER
  BY AllOf DEF Shape, EstablishedOK, RespondersOK, TemplatesOK, ForksOK, CanFork,
     Tries, LiveForkState, INITIAL, ESTABLISHED, DROPPED, EXPECT_SESSION_INIT_RESPONSE,
     EXPECT_SESSION_COMPLETION_RESPONSE
<1>3. QED
  BY <1>1, <1>2 DEF Held, Object, Formed

(* Once drained, or without a ciphertext it took, a session is quiet again. *)
LEMMA UpdateSettled ==
    ASSUME NEW p \in Party, NEW s, Object(s, p, s.role, Payloads(p)), s.role \in Roles,
           Settled(s), NEW pdu, NEW fresh, NEW now \in Nat
    PROVE  LET t == Update(s, pdu, fresh, now).s
           IN /\ Settled(Drained(t))
              /\ t.state # ESTABLISHED \/ pdu = None => Settled(t)
<1> DEFINE t == Update(s, pdu, fresh, now).s
<1>1. s.role \in {INITIATOR, RESPONDER}
  BY DEF Roles
<1>2. Object(t, p, s.role, Payloads(p))
  BY <1>1, UpdateObject
<1>3. \/ Silent(s, t)
      \/ pdu \notin {None, Malformed} /\ \E c \in CiphertextsIn(pdu) : Hands(s, t, c)
  BY <1>1, UpdateHands
<1> HIDE DEF t
<1>4. t.role = s.role /\ t = [f \in Fields |-> t[f]]
  BY <1>2 DEF Object
<1>5. Settled(Drained(t))
  BY <1>3, <1>4, DrainedSettled
<1>6. t.state # ESTABLISHED \/ pdu = None => Settled(t)
  BY <1>3 DEF Silent, Hands
<1>7. QED
  BY <1>5, <1>6 DEF t

(* One session was updated, and what it queued drained unless it was queued    *)
(* before; the other sessions are as they were, or gone.                       *)
LEMMA SessionStep ==
    ASSUME NEW p \in Party, NEW n \in Nat, NEW d, Shape(d, p, n), NEW W, NEW B, NEW P,
           CrowdOf(d, W, B, P, p, n),
           NEW a, Object(a, p, a.role, Payloads(p)), a.state = INITIAL => a.role = RESPONDER,
           Member(a, W \cup d.outgoing, B, P, p, n), a \in All(d) \/ ~Armed(a),
           NEW pdu, Arrives(pdu, B, p), NEW now \in Nat,
           NEW b, b = Update(a, pdu, <<p, n + 1>>, now).s,
           NEW c \in {b, Drained(b)}, Settled(c),
           NEW e, d.outgoing \subseteq e.outgoing,
           e.outgoing \subseteq d.outgoing \cup Range(b.outgoingPdus),
           Range(b.outgoingPdus) \subseteq W \cup e.outgoing,
           Replaced(All(e), All(d), a, c),
           Took(b, p, n) => c \in SessionsOf(e)
    PROVE  Goes(e, W, B, P, p, n)
<1> DEFINE U == W \cup d.outgoing
           V == W \cup e.outgoing
<1>1. Crowd(All(d), U, B, P, p, n) /\ Traffic(U, P, p, n)
  BY DEF CrowdOf, Crowd
<1>2. Advances(a, b, U, B, P, p, n)
  BY <1>1, UpdateAdvances
<1>3. \A s \in All(d) : Formed(s)
  BY AllObjects
<1>4. Formed(a)
  BY DEF Object, Formed
<1>5. /\ U \subseteq V /\ V \subseteq U \cup Range(b.outgoingPdus)
      /\ Range(b.outgoingPdus) \subseteq V
  OBVIOUS
<1>6. Member(a, U, B, P, p, n)
  OBVIOUS
<1> HIDE DEF U, V
<1>8. \/ Crowd(All(e), V, B, P, p, n)
      \/ Took(b, p, n) /\ Crowd(All(e), V, B, P, p, n + 1)
  BY <1>1, <1>2, <1>3, <1>4, <1>5, <1>6, OneAdvances
<1>9. Took(b, p, n) => Took(c, p, n)
  BY <1>2, DrainedAlike DEF Took, Advances
<1>10. QED
  BY <1>8, <1>9 DEF Goes, CrowdOf, V

LEMMA CrowdShrinks ==
    ASSUME NEW S, NEW W, NEW B, NEW P, NEW p, NEW n, Crowd(S, W, B, P, p, n), NEW T, T \subseteq S
    PROVE  Crowd(T, W, B, P, p, n)
BY DEF Crowd

(* Every session goes by the cid it is kept under, and no cid is in two dicts, *)
(* but for a template and its forks.                                           *)
LEMMA CidsApart ==
    ASSUME NEW p \in Party, NEW n, NEW d, Shape(d, p, n)
    PROVE  /\ \A cid \in DOMAIN d.established :
                /\ d.established[cid].cid = cid
                /\ cid \notin DOMAIN d.responders /\ cid \notin DOMAIN d.forks
           /\ \A cid \in DOMAIN d.responders :
                d.responders[cid].cid = cid /\ cid \notin DOMAIN d.forks
           /\ \A cid \in DOMAIN d.templates :
                d.templates[cid].cid = cid /\ ~Armed(d.templates[cid])
           /\ \A cid \in DOMAIN d.forks : \A i \in DOMAIN d.forks[cid] :
                d.forks[cid][i].cid = cid
           /\ DOMAIN d.templates = DOMAIN d.forks
<1>1. \A cid \in DOMAIN d.established :
        d.established[cid].cid = cid /\ cid \notin DOMAIN d.responders \cup DOMAIN d.forks
  BY DEF Shape, EstablishedOK, Held, Promoted, Pending
<1>2. \A cid \in DOMAIN d.responders :
        d.responders[cid].cid = cid /\ cid \in Theirs(p)
  BY DEF Shape, RespondersOK, Held, RESPONDER, INITIATOR
<1>3. \A cid \in DOMAIN d.templates :
        /\ d.templates[cid].cid = cid /\ ~Armed(d.templates[cid])
        /\ cid \in Drawn(p, n)
  BY ArmedStates DEF Shape, TemplatesOK, Held, CanFork
<1>4. \A cid \in DOMAIN d.forks : \A i \in DOMAIN d.forks[cid] :
        d.forks[cid][i].cid = cid
  BY <1>3 DEF Shape, ForksOK, Held
<1>5. \A cid \in Theirs(p) : cid \notin Drawn(p, n)
  BY PeerIsOther DEF Theirs, Drawn
<1>6. DOMAIN d.templates = DOMAIN d.forks
  BY DEF Shape
<1>7. QED
  BY <1>1, <1>2, <1>3, <1>4, <1>5, <1>6

LEMMA DeliverEstablishedGoes ==
    ASSUME NEW p \in Party, NEW n \in Nat, NEW d, Shape(d, p, n), NEW W, NEW B, NEW P,
           CrowdOf(d, W, B, P, p, n), NEW pdu, Arrives(pdu, B, p), NEW now \in Nat,
           pdu.cid \in DOMAIN d.established
    PROVE  Goes(DeliverEstablished(d, pdu, <<p, n + 1>>, now).s, W, B, P, p, n)
<1> DEFINE cid == pdu.cid
           s == d.established[cid]
           r == Update(s, pdu, <<p, n + 1>>, now)
           t == Drained(r.s)
           out == DeliverEstablished(d, pdu, <<p, n + 1>>, now).s
<1>1. /\ Held(s, cid, p, n) /\ s.state # INITIAL
      /\ s \in All(d) /\ Object(s, p, s.role, Payloads(p))
  BY AllOf DEF Shape, EstablishedOK, Held, ESTABLISHED, INITIAL
<1>2. r.exn # NoError => r.s = s
  BY <1>1, HeldUpdate DEF Raised
<1>3. DOMAIN d = Attributes
  BY DEF Shape, Sound
<1>4. CASE r.exn \notin Swallowed
  <2>1. out = [d EXCEPT !.established[cid] = s]
    BY <1>2, <1>4 DEF DeliverEstablished, EstablishedDelivered, Raise, Swallowed
  <2>2. All(out) = All(d) /\ out.outgoing = d.outgoing
    BY <1>3, <2>1 DEF All, SessionsOf, Attributes
  <2>3. QED
    BY <2>2 DEF Goes, CrowdOf
<1>5. CASE r.exn \in Swallowed
  <2> DEFINE f == [d.established EXCEPT ![cid] = t]
  <2>1. out = DrainFrom([d EXCEPT !.established = f], r.s)
    BY <1>5 DEF DeliverEstablished, EstablishedDelivered, Return
  <2>2. /\ out.established = f /\ out.responders = d.responders
        /\ out.forks = d.forks /\ out.templates = d.templates
        /\ out.outgoing = d.outgoing \cup Range(r.s.outgoingPdus)
    BY <1>3, <2>1 DEF DrainFrom, Attributes
  <2>3. /\ DOMAIN f = DOMAIN d.established /\ f[cid] = t
        /\ \A k \in DOMAIN f : k # cid => f[k] = d.established[k]
    OBVIOUS
  <2> HIDE DEF f, out, s, t
  <2>4. \A u \in All(out) : u = t \/ (u \in All(d) /\ (u # s \/ ~Armed(u)))
    BY <2>2, <2>3, AllOf, CidsApart DEF s
  <2>5. t \in SessionsOf(out)
    BY <2>2, <2>3, AllOf
  <2>6. Replaced(All(out), All(d), s, t)
    BY <2>4 DEF Replaced
  <2>7. Member(s, W \cup d.outgoing, B, P, p, n)
    BY <1>1 DEF CrowdOf, Crowd
  <2>8. Settled(t)
    BY <1>1, <2>7, UpdateSettled DEF t, Member
  <2>9. QED
    BY <1>1, <2>2, <2>5, <2>6, <2>7, <2>8, SessionStep DEF t, out
<1>6. QED
  BY <1>4, <1>5

(* A responder session updated, taken away or promoted. *)
LEMMA ResponderDeliveredGoes ==
    ASSUME NEW p \in Party, NEW n \in Nat, NEW d, Shape(d, p, n), NEW W, NEW B, NEW P,
           CrowdOf(d, W, B, P, p, n), NEW pdu, Arrives(pdu, B, p), NEW now \in Nat,
           NEW cid, cid \notin DOMAIN d.established, cid \notin DOMAIN d.forks,
           NEW a, Object(a, p, a.role, Payloads(p)), a.state = INITIAL => a.role = RESPONDER,
           Member(a, W \cup d.outgoing, B, P, p, n),
           IF cid \in DOMAIN d.responders THEN a = d.responders[cid] ELSE ~Armed(a),
           NEW r, r = Update(a, pdu, <<p, n + 1>>, now),
           r.exn \notin Swallowed =>
              Range(r.s.outgoingPdus) \subseteq Range(a.outgoingPdus) /\ Settled(r.s)
    PROVE  Goes(ResponderDelivered(d, cid, r).s, W, B, P, p, n)
<1> DEFINE t == Drained(r.s)
           out == ResponderDelivered(d, cid, r).s
<1>1. a \in All(d) \/ ~Armed(a)
  BY AllOf
<1>2. DOMAIN d = Attributes
  BY DEF Shape, Sound
<1>3. ASSUME NEW c, NEW e,
             e.established = d.established \/ e.established = With(d.established, cid, c),
             \A k \in DOMAIN e.responders :
                IF k = cid THEN e.responders[k] = c
                ELSE k \in DOMAIN d.responders /\ e.responders[k] = d.responders[k],
             \/ e.forks = d.forks /\ e.templates = d.templates
             \/ e.forks = Without(d.forks, cid) /\ e.templates = Without(d.templates, cid)
      PROVE  Replaced(All(e), All(d), a, c)
  <2>1. ASSUME NEW k \in DOMAIN e.established
        PROVE  e.established[k] = c \/ (k \in DOMAIN d.established /\ e.established[k] = d.established[k])
    BY <1>3 DEF With
  <2>2. ASSUME NEW k \in DOMAIN e.forks
        PROVE  k \in DOMAIN d.forks /\ e.forks[k] = d.forks[k]
    BY <1>3 DEF Without, Restrict
  <2>3. ASSUME NEW k \in DOMAIN e.templates
        PROVE  k \in DOMAIN d.templates /\ e.templates[k] = d.templates[k]
    BY <1>3 DEF Without, Restrict
  <2>4. ASSUME NEW u \in All(e) PROVE u = c \/ (u \in All(d) /\ (u # a \/ ~Armed(u)))
    <3>1. ASSUME NEW k \in DOMAIN e.established, u = e.established[k]
          PROVE  u = c \/ (u \in All(d) /\ (u # a \/ ~Armed(u)))
      BY <2>1, <3>1, AllOf, CidsApart
    <3>2. ASSUME NEW k \in DOMAIN e.responders, u = e.responders[k]
          PROVE  u = c \/ (u \in All(d) /\ (u # a \/ ~Armed(u)))
      BY <1>3, <3>2, AllOf, CidsApart
    <3>3. ASSUME NEW k \in DOMAIN e.forks, NEW i \in DOMAIN e.forks[k], u = e.forks[k][i]
          PROVE  u = c \/ (u \in All(d) /\ (u # a \/ ~Armed(u)))
      BY <2>2, <3>3, AllOf, CidsApart
    <3>4. ASSUME NEW k \in DOMAIN e.templates, u = e.templates[k]
          PROVE  u = c \/ (u \in All(d) /\ (u # a \/ ~Armed(u)))
      BY <2>3, <3>4, AllOf, CidsApart
    <3>5. QED
      BY <2>4, <3>1, <3>2, <3>3, <3>4, AllOf
  <2>5. QED
    BY <2>4 DEF Replaced
<1>4. CASE r.exn \notin Swallowed
  <2> DEFINE f == With(d.responders, cid, r.s)
  <2>1. out = [d EXCEPT !.responders = f]
    BY <1>4 DEF ResponderDelivered, Raise
  <2>2. /\ out.established = d.established /\ out.responders = f
        /\ out.forks = d.forks /\ out.templates = d.templates
        /\ out.outgoing = d.outgoing
    BY <1>2, <2>1 DEF Attributes
  <2>3. /\ DOMAIN f = DOMAIN d.responders \cup {cid} /\ f[cid] = r.s
        /\ \A k \in DOMAIN f : IF k = cid THEN f[k] = r.s
                               ELSE k \in DOMAIN d.responders /\ f[k] = d.responders[k]
    BY DEF With
  <2> HIDE DEF f, out
  <2>4. Replaced(All(out), All(d), a, r.s)
    BY <1>3, <2>2, <2>3
  <2>5. r.s \in SessionsOf(out)
    BY <2>2, <2>3, AllOf
  <2>6. Range(r.s.outgoingPdus) \subseteq W \cup d.outgoing
    BY <1>4 DEF Member, Known, Ours
  <2>7. QED
    BY <1>1, <1>4, <2>2, <2>4, <2>5, <2>6, SessionStep DEF out
<1>5. CASE r.exn \in Swallowed
  <2> DEFINE f == With(d.responders, cid, t)
             d1 == [d EXCEPT !.responders = f]
             d2 == DrainFrom(d1, r.s)
  <2>1. out = ReapResponder(d2, cid)
    BY <1>5 DEF ResponderDelivered, Return
  <2>2. /\ d2.established = d.established /\ d2.responders = f
        /\ d2.forks = d.forks /\ d2.templates = d.templates
        /\ d2.outgoing = d.outgoing \cup Range(r.s.outgoingPdus)
        /\ DOMAIN d2 = Attributes
    BY <1>2 DEF DrainFrom, Attributes
  <2>3. /\ DOMAIN f = DOMAIN d.responders \cup {cid} /\ f[cid] = t
        /\ \A k \in DOMAIN f : IF k = cid THEN f[k] = t
                               ELSE k \in DOMAIN d.responders /\ f[k] = d.responders[k]
    BY DEF With
  <2>4. t.state = r.s.state
    <3>1. Object(r.s, p, a.role, Payloads(p))
      BY UpdateObject
    <3>2. QED
      BY <3>1, DrainedAlike DEF Object
  <2> HIDE DEF f, d1, d2, t
  <2>5. \A k \in DOMAIN Without(f, cid) :
          k # cid /\ k \in DOMAIN d.responders /\ Without(f, cid)[k] = d.responders[k]
    BY <2>3 DEF Without, Restrict
  <2>6. /\ out.established = d.established \/ out.established = With(d.established, cid, t)
        /\ out.responders = f \/ out.responders = Without(f, cid)
        /\ \/ out.forks = d.forks /\ out.templates = d.templates
           \/ /\ out.forks = Without(d.forks, cid)
              /\ out.templates = Without(d.templates, cid)
        /\ out.outgoing = d.outgoing \cup Range(r.s.outgoingPdus)
        /\ t.state # DROPPED =>
              out.established = With(d.established, cid, t) \/ out.responders = f
    <3>1. CASE t.state = ESTABLISHED
      <4>1. out = Promote(d2, cid, t)
        BY <2>1, <2>2, <2>3, <3>1 DEF ReapResponder
      <4>2. /\ out.established = With(d.established, cid, t)
            /\ out.responders = Without(f, cid)
            /\ out.forks = Without(d.forks, cid)
            /\ out.templates = Without(d.templates, cid)
            /\ out.outgoing = d2.outgoing
        BY <2>2, <4>1 DEF Promote, Attributes
      <4>3. QED
        BY <2>2, <4>2
    <3>2. CASE t.state = DROPPED
      <4>1. out = [d2 EXCEPT !.responders = Without(@, cid), !.store = Forget(@, cid)]
        BY <2>1, <2>2, <2>3, <3>2 DEF ReapResponder, DROPPED, ESTABLISHED
      <4>2. QED
        BY <2>2, <3>2, <4>1 DEF Attributes
    <3>3. CASE t.state # ESTABLISHED /\ t.state # DROPPED
      <4>1. out = d2
        BY <2>1, <2>2, <2>3, <3>3 DEF ReapResponder
      <4>2. QED
        BY <2>2, <4>1
    <3>4. QED
      BY <3>1, <3>2, <3>3
  <2> HIDE DEF out
  <2>7. Replaced(All(out), All(d), a, t)
    BY <1>3, <2>3, <2>5, <2>6
  <2>8. Took(r.s, p, n) => t \in SessionsOf(out)
    <3>1. Took(r.s, p, n) => t.state # DROPPED
      BY <2>4 DEF Took, DROPPED, EXPECT_SESSION_COMPLETION_REQUEST,
                  EXPECT_SESSION_COMPLETION_RESPONSE
    <3>2. DOMAIN With(d.established, cid, t) = DOMAIN d.established \cup {cid}
          /\ With(d.established, cid, t)[cid] = t
      BY DEF With
    <3>3. QED
      BY <2>3, <2>6, <3>1, <3>2, AllOf
  <2>9. Settled(t)
    BY UpdateSettled DEF t, Member
  <2>10. QED
    BY <1>1, <2>6, <2>7, <2>8, <2>9, SessionStep DEF t, out
<1>6. QED
  BY <1>4, <1>5

LEMMA RaisedSettled ==
    ASSUME NEW s, NEW t, NEW pdu, DOMAIN s = Fields, Settled(s), Raised(s, t, pdu)
    PROVE  Settled(t)
BY DEF Raised, Refuses, Fields, Settled, INITIAL, ESTABLISHED

LEMMA DeliverResponderGoes ==
    ASSUME NEW p \in Party, NEW n \in Nat, NEW d, Shape(d, p, n), NEW W, NEW B, NEW P,
           CrowdOf(d, W, B, P, p, n), NEW pdu, Arrives(pdu, B, p), NEW now \in Nat,
           pdu.cid \in DOMAIN d.responders
    PROVE  Goes(DeliverResponder(d, pdu, <<p, n + 1>>, now).s, W, B, P, p, n)
<1> DEFINE cid == pdu.cid
           a == d.responders[cid]
           r == Update(a, pdu, <<p, n + 1>>, now)
<1>1. /\ Held(a, cid, p, n) /\ a.role = RESPONDER /\ a \in All(d)
      /\ cid \notin DOMAIN d.established /\ cid \notin DOMAIN d.forks
  BY AllOf, CidsApart DEF Shape, RespondersOK
<1>2. Object(a, p, a.role, Payloads(p)) /\ Member(a, W \cup d.outgoing, B, P, p, n)
  BY <1>1 DEF Held, CrowdOf, Crowd
<1>3. r.exn # NoError => Raised(a, r.s, pdu)
  BY <1>1, HeldUpdate
<1>4. DeliverResponder(d, pdu, <<p, n + 1>>, now) = ResponderDelivered(d, cid, r)
  BY DEF DeliverResponder
<1> HIDE DEF a
<1>5. ASSUME r.exn \notin Swallowed
      PROVE  Range(r.s.outgoingPdus) \subseteq Range(a.outgoingPdus) /\ Settled(r.s)
  <2>1. Raised(a, r.s, pdu) /\ DOMAIN a = Fields /\ Settled(a)
    BY <1>2, <1>3, <1>5 DEF Swallowed, Object, Member
  <2> HIDE DEF r
  <2>2. r.s.outgoingPdus = a.outgoingPdus /\ Settled(r.s)
    BY <2>1, RaisedSettled DEF Raised, Refuses, Fields
  <2>3. QED
    BY <2>2
<1>6. Goes(ResponderDelivered(d, cid, r).s, W, B, P, p, n)
  BY <1>1, <1>2, <1>5, ResponderDeliveredGoes DEF a
<1>7. QED
  BY <1>4, <1>6

LEMMA NewMember ==
    ASSUME NEW p \in Party, NEW n, NEW role \in Roles, NEW W, NEW B, NEW P
    PROVE  LET s == NewSession(p, role)
           IN /\ Object(s, p, s.role, Payloads(p)) /\ Member(s, W, B, P, p, n)
              /\ s.role = role /\ ~Armed(s) /\ s.state = INITIAL /\ s.outgoingPdus = <<>>
<1> DEFINE s == NewSession(p, role)
<1>1. Object(s, p, role, Payloads(p))
  BY NewSessionObject DEF Roles
<1>2. /\ s.state = INITIAL /\ s.role = role /\ s.lastSent = None
      /\ s.outgoingPdus = <<>> /\ s.pending = None /\ s.outgoingPayloads = <<>>
  BY DEF NewSession
<1> HIDE DEF s
<1>3. Range(s.outgoingPdus) = {} /\ Queued(s)
  BY <1>2 DEF Range, Queued
<1>4. ~Armed(s) /\ s.state \notin KeyedState \cup {EXPECT_SESSION_COMPLETION_REQUEST}
      /\ s.state # ESTABLISHED
  BY <1>2, ArmedStates DEF Armed, INITIAL, ESTABLISHED
<1>5. Member(s, W, B, P, p, n)
  BY <1>2, <1>3, <1>4 DEF Member, Known, Ahead, Unspent, Vouched, Settled
<1>6. QED
  BY <1>1, <1>2, <1>4, <1>5 DEF s

LEMMA RouteSessionInitRequestGoes ==
    ASSUME NEW p \in Party, NEW n \in Nat, NEW d, Shape(d, p, n), NEW W, NEW B, NEW P,
           CrowdOf(d, W, B, P, p, n), NEW pdu, Arrives(pdu, B, p), NEW now \in Nat,
           pdu.cid \in Theirs(p), pdu.cid \notin DOMAIN d.established
    PROVE  Goes(RouteSessionInitRequest(d, pdu, <<p, n + 1>>, now).s, W, B, P, p, n)
<1> DEFINE cid == pdu.cid
           stored == [d EXCEPT !.store = Add(@, cid, pdu, None, now)]
           a == NewSession(p, RESPONDER)
           r == Update(a, pdu, <<p, n + 1>>, now)
           out == RouteSessionInitRequest(d, pdu, <<p, n + 1>>, now).s
<1>1. DOMAIN d = Attributes /\ d.owner = p
  BY DEF Shape, Sound
<1>2. /\ stored.owner = p
      /\ stored.established = d.established /\ stored.responders = d.responders
      /\ stored.forks = d.forks /\ stored.templates = d.templates
      /\ stored.outgoing = d.outgoing
  BY <1>1 DEF Attributes
<1>3. CrowdOf(stored, W, B, P, p, n)
  BY <1>2 DEF CrowdOf, All, SessionsOf
<1>4. Shape(stored, p, n)
  BY StoredShape
<1>5. CASE cid \in DOMAIN d.responders
  <2>1. out = DeliverResponder(d, pdu, <<p, n + 1>>, now).s
    BY <1>5 DEF RouteSessionInitRequest
  <2>2. QED
    BY <1>5, <2>1, DeliverResponderGoes
<1>6. CASE cid \notin DOMAIN d.responders /\ ~CanAdd(d.store, cid, now)
  BY <1>3, <1>6 DEF RouteSessionInitRequest, Return, Goes
<1>7. CASE cid \notin DOMAIN d.responders /\ CanAdd(d.store, cid, now)
  <2>1. out = ResponderStarted(stored, cid, r).s
    BY <1>1, <1>7 DEF RouteSessionInitRequest
  <2>2. CASE r.exn \in Swallowed /\ r.s.state = INITIAL
    <3>1. out = [stored EXCEPT !.store = Forget(@, cid)]
      BY <2>1, <2>2 DEF ResponderStarted, Return
    <3>2. /\ out.established = d.established /\ out.responders = d.responders
          /\ out.forks = d.forks /\ out.templates = d.templates
          /\ out.outgoing = d.outgoing
      BY <1>1, <1>2, <3>1 DEF Attributes
    <3>3. QED
      BY <3>2 DEF Goes, CrowdOf, All, SessionsOf
  <2>3. CASE ~(r.exn \in Swallowed /\ r.s.state = INITIAL)
    <3>1. /\ Object(a, p, a.role, Payloads(p)) /\ a.role = RESPONDER /\ ~Armed(a)
          /\ Member(a, W \cup stored.outgoing, B, P, p, n) /\ a.state = INITIAL
      BY NewMember DEF Roles
    <3>2. cid \notin DOMAIN stored.forks
      <4>1. \A k \in DOMAIN d.forks : k \in Drawn(p, n)
        BY DEF Shape, TemplatesOK, Held, CanFork
      <4>2. \A k \in Theirs(p) : k \notin Drawn(p, n)
        BY PeerIsOther DEF Theirs, Drawn
      <4>3. QED
        BY <1>2, <4>1, <4>2
    <3>3. r.exn # NoError => Raised(a, r.s, pdu)
      BY <3>1, UpdateEffect DEF Member
    <3>4. out = ResponderDelivered(stored, cid, r).s
      BY <2>1, <2>3 DEF ResponderStarted
    <3> HIDE DEF a
    <3>5. ASSUME r.exn \notin Swallowed
          PROVE  Range(r.s.outgoingPdus) \subseteq Range(a.outgoingPdus) /\ Settled(r.s)
      <4>1. Raised(a, r.s, pdu) /\ DOMAIN a = Fields /\ Settled(a)
        BY <3>1, <3>3, <3>5 DEF Swallowed, Object, Member
      <4> HIDE DEF r
      <4>2. r.s.outgoingPdus = a.outgoingPdus /\ Settled(r.s)
        BY <4>1, RaisedSettled DEF Raised, Refuses, Fields
      <4>3. QED
        BY <4>2
    <3> HIDE DEF stored
    <3>6. Goes(ResponderDelivered(stored, cid, r).s, W, B, P, p, n)
      BY <1>2, <1>3, <1>4, <1>7, <3>1, <3>2, <3>5, ResponderDeliveredGoes
    <3>7. QED
      BY <3>4, <3>6 DEF out
  <2>4. QED
    BY <2>2, <2>3
<1>8. QED
  BY <1>5, <1>6, <1>7

(* One entry of the list of forks of a cid is replaced, or added. *)
LEMMA ForkReplacedAmong ==
    ASSUME NEW p \in Party, NEW n, NEW d, Shape(d, p, n), NEW cid \in DOMAIN d.forks,
           NEW a, a.cid = cid, NEW c, NEW e,
           e.established = d.established, e.responders = d.responders,
           e.templates = d.templates,
           NEW list, e.forks = [d.forks EXCEPT ![cid] = list],
           NEW i, list[i] = c, DOMAIN list = DOMAIN d.forks[cid] \cup {i},
           \A j \in DOMAIN d.forks[cid] : j # i => list[j] = d.forks[cid][j],
           ~Armed(a) \/ (i \in DOMAIN d.forks[cid] /\ a = d.forks[cid][i])
    PROVE  Replaced(All(e), All(d), a, c) /\ c \in SessionsOf(e)
<1>1. /\ DOMAIN e.forks = DOMAIN d.forks /\ e.forks[cid] = list
      /\ \A k \in DOMAIN e.forks : k # cid => e.forks[k] = d.forks[k]
  OBVIOUS
<1>2. c \in SessionsOf(e)
  BY <1>1, AllOf
<1>3. ASSUME NEW j \in DOMAIN d.forks[cid], j # i, d.forks[cid][j] = a PROVE ~Armed(a)
  <2> SUFFICES ASSUME Armed(a) PROVE FALSE
    OBVIOUS
  <2>1. ForksOK(d.forks[cid], d.templates[cid], p, n)
    BY DEF Shape
  <2>2. Tries(a, d.templates[cid])
    BY <1>3, <2>1 DEF ForksOK
  <2>3. a.lastReceived # None
    BY <2>2, ArmedStates
       DEF Tries, LiveForkState, DROPPED, ESTABLISHED, EXPECT_SESSION_INIT_RESPONSE,
           EXPECT_SESSION_COMPLETION_REQUEST, EXPECT_SESSION_COMPLETION_RESPONSE
  <2>4. d.forks[cid][i].lastReceived = a.lastReceived /\ i \in DOMAIN d.forks[cid]
    OBVIOUS
  <2>5. QED
    BY <1>3, <2>1, <2>3, <2>4 DEF ForksOK, Distinct
<1>4. ASSUME NEW u \in All(e) PROVE u = c \/ (u \in All(d) /\ (u # a \/ ~Armed(u)))
  <2>1. CASE \E k \in DOMAIN e.established : u = e.established[k]
    BY <2>1, AllOf, CidsApart
  <2>2. CASE \E k \in DOMAIN e.responders : u = e.responders[k]
    BY <2>2, AllOf, CidsApart
  <2>3. CASE \E k \in DOMAIN e.templates : u = e.templates[k]
    BY <2>3, AllOf, CidsApart
  <2>4. CASE \E k \in DOMAIN e.forks : k # cid /\ \E j \in DOMAIN e.forks[k] : u = e.forks[k][j]
    BY <1>1, <2>4, AllOf, CidsApart
  <2>5. CASE \E j \in DOMAIN list : u = list[j]
    <3>1. PICK j \in DOMAIN list : u = list[j]
      BY <2>5
    <3>2. CASE j = i
      BY <3>1, <3>2
    <3>3. CASE j # i
      <4>1. j \in DOMAIN d.forks[cid] /\ u = d.forks[cid][j]
        BY <3>1, <3>3
      <4>2. u \in All(d)
        BY <4>1, AllOf
      <4>3. QED
        BY <1>3, <3>3, <4>1, <4>2
    <3>4. QED
      BY <3>2, <3>3
  <2>6. QED
    BY <1>1, <1>4, <2>1, <2>2, <2>3, <2>4, <2>5, AllOf
<1>5. QED
  BY <1>2, <1>4 DEF Replaced

LEMMA RouteSessionInitResponseGoes ==
    ASSUME NEW p \in Party, NEW n \in Nat, NEW d, Shape(d, p, n), NEW W, NEW B, NEW P,
           CrowdOf(d, W, B, P, p, n), NEW pdu, Arrives(pdu, B, p), NEW now \in Nat,
           pdu.cid \notin DOMAIN d.established
    PROVE  Goes(RouteSessionInitResponse(d, pdu, <<p, n + 1>>, now).s, W, B, P, p, n)
<1> DEFINE cid == pdu.cid
           fresh == <<p, n + 1>>
           forks == d.forks[cid]
           template == d.templates[cid]
           tried == Tried(forks, pdu)
           i == Min(tried)
           again == Update(forks[i], pdu, fresh, now)
           a == Fork(template)
           new == Update(a, pdu, fresh, now)
           stored == [d EXCEPT !.store = Add(@, cid, pdu, None, now)]
           out == RouteSessionInitResponse(d, pdu, fresh, now).s
<1>1. DOMAIN d = Attributes
  BY DEF Shape, Sound
<1>2. /\ stored.established = d.established /\ stored.responders = d.responders
      /\ stored.forks = d.forks /\ stored.templates = d.templates
      /\ stored.outgoing = d.outgoing /\ DOMAIN stored = Attributes
  BY <1>1 DEF Attributes
<1>3. Goes(stored, W, B, P, p, n) /\ CrowdOf(stored, W, B, P, p, n) /\ Goes(d, W, B, P, p, n)
  BY <1>2 DEF Goes, CrowdOf, All, SessionsOf
<1>4. Shape(stored, p, n)
  BY StoredShape
<1>5. CASE cid \notin DOMAIN d.templates
  <2>1. out = d
    BY <1>5 DEF RouteSessionInitResponse, Return
  <2>2. QED
    BY <1>3, <2>1
<1>6. CASE cid \in DOMAIN d.templates
  <2>1. /\ cid \in DOMAIN d.forks /\ Held(template, cid, p, n) /\ CanFork(template)
        /\ ForksOK(forks, template, p, n) /\ template.cid = cid
        /\ template \in All(d)
    BY <1>6, AllOf DEF Shape, TemplatesOK, Held
  <2>2. PICK k \in Nat : DOMAIN forks \subseteq 1..k
    BY <2>1 DEF ForksOK
  <2>3. CASE tried # {}
    <3> DEFINE among == tried
    <3>1. among \subseteq DOMAIN forks
      BY DEF Tried
    <3> HIDE DEF among
    <3>2. i \in DOMAIN forks
      <4>1. Min(among) \in among
        BY <2>2, <2>3, <3>1, MinOf DEF among
      <4>2. QED
        BY <3>1, <4>1 DEF among
    <3>3. out = ForkDelivered(d, cid, i, again).s
      BY <1>6, <2>3 DEF RouteSessionInitResponse
    <3> DEFINE t == Drained(again.s)
               list == [forks EXCEPT ![i] = t]
               e == [d EXCEPT !.forks[cid] = list]
    <3>4. out = DrainFrom(e, again.s)
      BY <3>3 DEF ForkDelivered, Return
    <3>5. /\ out.established = d.established /\ out.responders = d.responders
          /\ out.forks = [d.forks EXCEPT ![cid] = list] /\ out.templates = d.templates
          /\ out.outgoing = d.outgoing \cup Range(again.s.outgoingPdus)
      BY <1>1, <3>4 DEF DrainFrom, Attributes
    <3> DEFINE s == forks[i]
    <3>6. s \in All(d) /\ Held(s, cid, p, n) /\ Tries(s, template)
      BY <2>1, <3>2, AllOf DEF ForksOK
    <3>7. /\ DOMAIN list = DOMAIN forks \cup {i} /\ list[i] = t
          /\ \A j \in DOMAIN forks : j # i => list[j] = forks[j]
      BY <3>2
    <3> HIDE DEF i, out, list, t, template, tried
    <3>8. Replaced(All(out), All(d), s, t) /\ t \in SessionsOf(out)
      BY <2>1, <3>2, <3>5, <3>6, <3>7, ForkReplacedAmong DEF Held
    <3>9. /\ Object(s, p, s.role, Payloads(p)) /\ s.state # INITIAL
          /\ Member(s, W \cup d.outgoing, B, P, p, n)
      BY <3>6 DEF Held, CrowdOf, Crowd, Tries, LiveForkState, INITIAL, DROPPED,
         EXPECT_SESSION_INIT_RESPONSE, EXPECT_SESSION_COMPLETION_RESPONSE
    <3> HIDE DEF forks, s
    <3>10. again = Update(s, pdu, fresh, now)
      BY DEF s
    <3>11. Settled(t)
      BY <3>9, <3>10, UpdateSettled DEF t, Member
    <3>12. QED
      BY <3>5, <3>6, <3>8, <3>9, <3>10, <3>11, SessionStep DEF t, out
  <2>4. CASE tried = {} /\ ~CanAdd(d.store, cid, now)
    <3>1. out = stored
      BY <1>6, <2>4 DEF RouteSessionInitResponse, Return
    <3>2. QED
      BY <1>3, <3>1
  <2>5. CASE tried = {} /\ CanAdd(d.store, cid, now)
    <3>1. out = ForkStarted(stored, cid, new).s
      BY <1>6, <2>5 DEF RouteSessionInitResponse
    <3>2. /\ Held(a, cid, p, n) /\ a.role = INITIATOR
          /\ a.state = EXPECT_SESSION_INIT_RESPONSE
          /\ a.outgoingPdus = <<>> /\ a.lastSent = template.lastSent
          /\ a.pending = template.pending /\ a.outgoingPayloads = <<>>
      <4>1. /\ a.outgoingPdus = <<>> /\ a.lastSent = template.lastSent
            /\ a.pending = template.pending /\ a.outgoingPayloads = <<>>
        BY DEF Fork, NewSession
      <4>2. QED
        BY <2>1, <4>1, ForkHeld
    <3>3. a.state # INITIAL /\ ~Armed(a) /\ Object(a, p, a.role, Payloads(p))
      BY <3>2, ArmedStates DEF Held, INITIAL, EXPECT_SESSION_INIT_RESPONSE
    <3> HIDE DEF a
    <3>4. Member(a, W \cup d.outgoing, B, P, p, n)
      <4>1. Member(template, W \cup d.outgoing, B, P, p, n) /\ template.role = INITIATOR
        BY <2>1 DEF CrowdOf, Crowd, CanFork
      <4>2. Range(a.outgoingPdus) = {} /\ Queued(a)
        BY <3>2 DEF Range, Queued
      <4>3. Known(a) \subseteq Known(template)
        BY <3>2, <4>2 DEF Known
      <4>4. /\ Ahead(a, CiphertextsAmong(Ours(W \cup d.outgoing, a.role)), p, a.role, n)
            /\ Unspent(a, CiphertextsAmong(Ours(W \cup d.outgoing, a.role)))
        BY <3>3 DEF Ahead, Armed, Unspent
      <4>5. Vouched(a, B, p) /\ Settled(a)
        BY <3>2 DEF Vouched, Settled, ESTABLISHED, EXPECT_SESSION_INIT_RESPONSE,
                    EXPECT_SESSION_COMPLETION_REQUEST
      <4> HIDE DEF template
      <4>6. QED
        BY <3>2, <4>1, <4>2, <4>3, <4>4, <4>5 DEF Member
    <3> DEFINE b == new.s
               t == Drained(b)
               place == LastPlace(forks) + 1
    <3>5. place \notin DOMAIN forks
      BY <2>2, LastPlaceOf
    <3>6. ASSUME NEW c, NEW e, e.established = d.established,
                 e.responders = d.responders, e.templates = d.templates,
                 e.forks = [d.forks EXCEPT ![cid] = Appended(forks, c)]
          PROVE  Replaced(All(e), All(d), a, c) /\ c \in SessionsOf(e)
      <4> DEFINE list == Appended(forks, c)
      <4>1. /\ DOMAIN list = DOMAIN forks \cup {place} /\ list[place] = c
            /\ \A j \in DOMAIN forks : j # place => list[j] = forks[j]
        BY DEF Appended, With
      <4>2. e.forks = [d.forks EXCEPT ![cid] = list]
        BY <3>6
      <4> HIDE DEF list, place
      <4>3. QED
        BY <2>1, <3>2, <3>3, <3>6, <4>1, <4>2, ForkReplacedAmong DEF Held
    <3>7. CASE new.exn \notin Swallowed
      <4>1. b = a
        BY <3>2, <3>3, <3>7, HeldUpdate DEF Raised, Swallowed
      <4>2. out = [stored EXCEPT !.forks[cid] = Appended(@, b)]
        BY <3>1, <3>7 DEF ForkStarted, Raise
      <4>3. /\ out.established = d.established /\ out.responders = d.responders
            /\ out.forks = [d.forks EXCEPT ![cid] = Appended(forks, b)]
            /\ out.templates = d.templates /\ out.outgoing = d.outgoing
        BY <1>2, <4>2 DEF Attributes
      <4> HIDE DEF out, forks, stored
      <4>4. Replaced(All(out), All(d), a, b) /\ b \in SessionsOf(out)
        BY <3>6, <4>3
      <4>5. Range(b.outgoingPdus) \subseteq W \cup out.outgoing
        BY <3>2, <4>1 DEF Range
      <4> HIDE DEF new
      <4>6. b = Update(a, pdu, fresh, now).s
        BY DEF new
      <4> HIDE DEF b
      <4>7. Settled(b)
        BY <3>4, <4>1 DEF Member
      <4>8. QED
        BY <3>3, <3>4, <4>3, <4>4, <4>5, <4>6, <4>7, SessionStep DEF out
    <3>8. CASE new.exn \in Swallowed
      <4>1. out = DrainFrom([stored EXCEPT !.forks[cid] = Appended(@, t)], b)
        BY <3>1, <3>8 DEF ForkStarted, Return
      <4>2. /\ out.established = d.established /\ out.responders = d.responders
            /\ out.forks = [d.forks EXCEPT ![cid] = Appended(forks, t)]
            /\ out.templates = d.templates
            /\ out.outgoing = d.outgoing \cup Range(b.outgoingPdus)
        BY <1>2, <4>1 DEF DrainFrom, Attributes
      <4> HIDE DEF out, forks, stored
      <4>3. Replaced(All(out), All(d), a, t) /\ t \in SessionsOf(out)
        BY <3>6, <4>2
      <4>4. b = Update(a, pdu, fresh, now).s
        OBVIOUS
      <4> HIDE DEF b
      <4>5. Settled(t)
        BY <3>3, <3>4, <4>4, UpdateSettled DEF Member
      <4>6. QED
        BY <3>3, <3>4, <4>2, <4>3, <4>4, <4>5, SessionStep DEF out
    <3>9. QED
      BY <3>7, <3>8
  <2>6. QED
    BY <2>3, <2>4, <2>5
<1>7. QED
  BY <1>5, <1>6

(* Every fork updated, none by a PDU that could make it draw. *)
LEMMA RouteToForksGoes ==
    ASSUME NEW p \in Party, NEW n \in Nat, NEW d, Shape(d, p, n), NEW W, NEW B, NEW P,
           CrowdOf(d, W, B, P, p, n), NEW pdu, Arrives(pdu, B, p), NEW now \in Nat,
           pdu.cid \in DOMAIN d.forks,
           pdu.type \notin {"session_init_request", "session_init_response"}
    PROVE  Goes(RouteToForks(d, pdu, now), W, B, P, p, n)
<1> DEFINE cid == pdu.cid
           forks == d.forks[cid]
           template == d.templates[cid]
           X == Range(forks)
           U == W \cup d.outgoing
           F == [s \in X |-> Update(s, pdu, None, now).s]
           cranked == [i \in DOMAIN forks |-> Update(forks[i], pdu, None, now).s]
           winners == {i \in DOMAIN cranked : cranked[i].state = ESTABLISHED}
           winner == cranked[Min(winners)]
           out == RouteToForks(d, pdu, now)
<1>1. DOMAIN d = Attributes
  BY DEF Shape, Sound
<1>2. /\ ForksOK(forks, template, p, n) /\ Held(template, cid, p, n)
      /\ template.cid = cid /\ cid \notin DOMAIN d.established
  BY CidsApart DEF Shape, TemplatesOK, Held
<1>3. PICK k \in Nat : DOMAIN forks \subseteq 1..k
  BY <1>2 DEF ForksOK
<1>4. /\ X \subseteq All(d) /\ \A i \in DOMAIN forks : forks[i] \in X
      /\ \A s \in X : \E i \in DOMAIN forks : s = forks[i]
  BY AllOf DEF Range
<1>5. /\ DOMAIN cranked = DOMAIN forks
      /\ \A i \in DOMAIN forks : cranked[i] = F[forks[i]]
  BY <1>4
<1>6. \A s \in X : F[s] = Update(s, pdu, None, now).s
  OBVIOUS
<1>7. Crowd(All(d), U, B, P, p, n) /\ Traffic(U, P, p, n)
      /\ \A s \in All(d) : Formed(s) /\ Member(s, U, B, P, p, n)
  BY AllObjects DEF CrowdOf, Crowd
<1>8. out = FirstEstablished(d, cid, cranked)
  BY DEF RouteToForks
<1> HIDE DEF X, F, U, cranked, out
<1>9. ASSUME NEW s \in X
      PROVE  /\ Advances(s, F[s], U, B, P, p, n) /\ ~Took(F[s], p, n)
             /\ \/ F[s].state = ESTABLISHED
                \/ Range(F[s].outgoingPdus) \subseteq U /\ Settled(F[s])
             /\ Settled(Drained(F[s]))
  <2>1. s \in All(d) /\ \E i \in DOMAIN forks : s = forks[i]
    BY <1>4
  <2>2. Held(s, cid, p, n) /\ Tries(s, template) /\ Object(s, p, s.role, Payloads(p))
    BY <1>2, <2>1 DEF ForksOK, Held
  <2>3. s.state # INITIAL
    BY <2>2 DEF Tries, LiveForkState, INITIAL, DROPPED, EXPECT_SESSION_INIT_RESPONSE,
                EXPECT_SESSION_COMPLETION_RESPONSE
  <2>4. Advances(s, F[s], U, B, P, p, n) /\ ~Took(F[s], p, n)
    BY <1>6, <1>7, <2>1, <2>2, <2>3, QuietAdvances
  <2>5. ASSUME F[s].state # ESTABLISHED PROVE Range(F[s].outgoingPdus) \subseteq U
    <3>1. Effect(s, F[s], pdu, None)
      BY <1>6, <1>7, <2>1, <2>2, <2>3, UpdateEffect DEF Member
    <3> DEFINE t == F[s]
    <3> HIDE DEF t
    <3>2. ~Talks(s, t)
      BY <2>2 DEF Talks, Tries, LiveForkState, ESTABLISHED, DROPPED,
         EXPECT_SESSION_INIT_RESPONSE, EXPECT_SESSION_COMPLETION_RESPONSE
    <3>3. ~Refuses(s, t, pdu) /\ ~Responds(s, t, pdu, None) /\ ~Completes(s, t, pdu, None)
      BY <2>3 DEF Refuses, Responds, Completes, Arrived
    <3>4. Lingers(s, t)
      BY <2>5, <3>1, <3>2, <3>3 DEF Effect, Confirms, Concludes, t
    <3>5. Range(t.outgoingPdus) \subseteq Known(s)
      BY <3>4 DEF Lingers, Resends, Known
    <3>6. QED
      BY <1>7, <2>1, <3>5 DEF Member, Ours, t
  <2>6. /\ Settled(Drained(F[s]))
        /\ F[s].state # ESTABLISHED => Settled(F[s])
    BY <1>6, <1>7, <2>1, <2>2, UpdateSettled DEF Member
  <2>7. QED
    BY <2>4, <2>5, <2>6
<1>10. CASE winners = {}
  <2>1. out = [d EXCEPT !.forks[cid] = cranked]
    BY <1>8, <1>10 DEF FirstEstablished
  <2> DEFINE f == [d.forks EXCEPT ![cid] = cranked]
  <2>2. /\ out.established = d.established /\ out.responders = d.responders
        /\ out.forks = f /\ out.templates = d.templates
        /\ out.outgoing = d.outgoing
    BY <1>1, <2>1 DEF Attributes
  <2>3. /\ DOMAIN f = DOMAIN d.forks /\ f[cid] = cranked
        /\ \A j \in DOMAIN f : j # cid => f[j] = d.forks[j]
    OBVIOUS
  <2>4. \A s \in X : Range(F[s].outgoingPdus) \subseteq U /\ Settled(F[s])
    BY <1>4, <1>5, <1>9, <1>10
  <2>5. Calls(X, F, F, U, U, B, P, p, n, n)
    BY <1>9, <2>4 DEF Calls
  <2> HIDE DEF f
  <2>6. ASSUME NEW u \in All(out)
        PROVE  \/ u \in All(d) /\ (u \notin X \/ ~Armed(u))
               \/ \E s \in X : u = F[s] /\ Range(F[s].outgoingPdus) \subseteq U
    <3>1. CASE \E j \in DOMAIN cranked : u = cranked[j]
      BY <1>4, <1>5, <2>4, <3>1
    <3>2. CASE u \in All(d) /\ u.cid # cid
      <4>1. \A s \in X : s.cid = cid
        BY <1>4, CidsApart
      <4>2. QED
        BY <3>2, <4>1
    <3>3. CASE \E j \in DOMAIN d.templates : u = d.templates[j]
      BY <3>3, AllOf, CidsApart
    <3>4. CASE \E j \in DOMAIN d.established : u = d.established[j]
      <4>1. u \in All(d) /\ u.cid # cid
        BY <1>2, <3>4, AllOf, CidsApart
      <4>2. QED
        BY <3>2, <4>1
    <3>5. CASE \E j \in DOMAIN d.responders : u = d.responders[j]
      <4>1. u \in All(d) /\ u.cid # cid
        BY <3>5, AllOf, CidsApart
      <4>2. QED
        BY <3>2, <4>1
    <3>6. CASE \E j \in DOMAIN d.forks : j # cid /\ \E i \in DOMAIN d.forks[j] : u = d.forks[j][i]
      <4>1. u \in All(d) /\ u.cid # cid
        BY <3>6, AllOf, CidsApart
      <4>2. QED
        BY <3>2, <4>1
    <3>7. QED
      BY <2>2, <2>3, <2>6, <3>1, <3>3, <3>4, <3>5, <3>6, AllOf
  <2>7. RemainOf(All(out), All(d), X, F, F, U)
    BY <2>6 DEF RemainOf
  <2>8. Crowd(All(out), U, B, P, p, n)
    BY <1>4, <1>7, <2>5, <2>7, SomeAdvance
  <2>9. QED
    BY <2>2, <2>8 DEF Goes, CrowdOf, U, out
<1>11. CASE winners # {}
  <2> DEFINE w == forks[Min(winners)]
             t == Drained(winner)
             V == U \cup Range(winner.outgoingPdus)
             G == [s \in X |-> Drained(F[s])]
  <2>1. Min(winners) \in DOMAIN forks
    <3>1. winners \subseteq DOMAIN forks
      BY <1>5
    <3> HIDE DEF winners
    <3>2. QED
      BY <1>3, <1>11, <3>1, MinOf
  <2>2. w \in X /\ winner = F[w]
    BY <1>4, <1>5, <2>1
  <2>3. out = Promote(DrainFrom(d, winner), cid, t)
    BY <1>8, <1>11 DEF FirstEstablished
  <2>4. /\ out.established = With(d.established, cid, t)
        /\ out.responders = Without(d.responders, cid)
        /\ out.forks = Without(d.forks, cid) /\ out.templates = Without(d.templates, cid)
        /\ out.outgoing = d.outgoing \cup Range(winner.outgoingPdus)
    BY <1>1, <2>3 DEF Promote, DrainFrom, Attributes
  <2>5. \A s \in X : G[s] = Drained(F[s]) /\ (s = w => G[s] = t)
    BY <2>2
  <2> HIDE DEF winner, winners, w, t, G
  <2>6. /\ Range(F[w].outgoingPdus) \subseteq V /\ U \subseteq V
        /\ V \subseteq U \cup Range(F[w].outgoingPdus)
    BY <2>2
  <2> HIDE DEF V
  <2>7. Calls(X, F, G, U, V, B, P, p, n, n)
    BY <1>9, <2>2, <2>5, <2>6 DEF Calls
  <2>8. ASSUME NEW u \in All(out)
        PROVE  (u \in All(d) /\ u \notin X) \/ u = t \/ (u \in All(d) /\ ~Armed(u))
    <3>1. \A s \in X : s.cid = cid
      BY <1>4, CidsApart
    <3>2. CASE \E j \in DOMAIN out.established : u = out.established[j]
      <4>1. PICK j \in DOMAIN out.established : u = out.established[j]
        BY <3>2
      <4>2. u = t \/ (j \in DOMAIN d.established /\ u = d.established[j])
        BY <2>4, <4>1 DEF With
      <4>3. CASE j \in DOMAIN d.established /\ u = d.established[j]
        <5>1. u.cid # cid /\ u \in All(d)
          BY <1>2, <4>3, AllOf, CidsApart
        <5>2. QED
          BY <3>1, <5>1
      <4>4. QED
        BY <4>2, <4>3
    <3>3. CASE \E j \in DOMAIN out.responders : u = out.responders[j]
      <4>1. PICK j \in DOMAIN d.responders : j # cid /\ u = d.responders[j]
        BY <2>4, <3>3 DEF Without, Restrict
      <4>2. u.cid # cid /\ u \in All(d)
        BY <4>1, AllOf, CidsApart
      <4>3. QED
        BY <3>1, <4>2
    <3>4. CASE \E j \in DOMAIN out.forks : \E i \in DOMAIN out.forks[j] : u = out.forks[j][i]
      <4>1. PICK j \in DOMAIN out.forks : \E i \in DOMAIN out.forks[j] : u = out.forks[j][i]
        BY <3>4
      <4>2. j \in DOMAIN d.forks /\ j # cid /\ out.forks[j] = d.forks[j]
        BY <2>4, <4>1 DEF Without, Restrict
      <4>3. u.cid # cid /\ u \in All(d)
        BY <4>1, <4>2, AllOf, CidsApart
      <4>4. QED
        BY <3>1, <4>3
    <3>5. CASE \E j \in DOMAIN out.templates : u = out.templates[j]
      <4>1. PICK j \in DOMAIN d.templates : u = d.templates[j]
        BY <2>4, <3>5 DEF Without, Restrict
      <4>2. ~Armed(u) /\ u \in All(d)
        BY <4>1, AllOf, CidsApart
      <4>3. QED
        BY <4>2
    <3>6. QED
      BY <2>8, <3>2, <3>3, <3>4, <3>5, AllOf
  <2>9. RemainOf(All(out), All(d), X, F, G, V)
    BY <2>2, <2>5, <2>6, <2>8 DEF RemainOf
  <2>10. Crowd(All(out), V, B, P, p, n)
    BY <1>4, <1>7, <2>7, <2>9, SomeAdvance
  <2>11. W \cup out.outgoing = V
    BY <2>4 DEF V, U
  <2>12. QED
    BY <2>10, <2>11 DEF Goes, CrowdOf, out
<1>12. QED
  BY <1>10, <1>11

(* post_pdu(), on a PDU the peer sent. *)
LEMMA DispatcherPostPduGoes ==
    ASSUME NEW p \in Party, NEW n \in Nat, NEW d, Shape(d, p, n), NEW W, NEW B, NEW P,
           CrowdOf(d, W, B, P, p, n), NEW pdu, Arrives(pdu, B, p), NEW now \in Nat,
           pdu # Malformed /\ pdu.type = "session_init_request" => pdu.cid \in Theirs(p)
    PROVE  Goes(DispatcherPostPdu(d, pdu, <<p, n + 1>>, now).s, W, B, P, p, n)
<1> DEFINE fresh == <<p, n + 1>>
           out == DispatcherPostPdu(d, pdu, fresh, now).s
<1>1. Goes(d, W, B, P, p, n)
  BY DEF Goes
<1>2. CASE pdu = Malformed
  BY <1>1, <1>2 DEF DispatcherPostPdu, Return
<1>3. CASE pdu # Malformed /\ pdu.cid \in DOMAIN d.established
  <2>1. out = DeliverEstablished(d, pdu, fresh, now).s
    BY <1>3 DEF DispatcherPostPdu
  <2>2. QED
    BY <1>3, <2>1, DeliverEstablishedGoes
<1>4. CASE /\ pdu # Malformed /\ pdu.cid \notin DOMAIN d.established
           /\ pdu.type = "session_init_request"
  <2>1. out = RouteSessionInitRequest(d, pdu, fresh, now).s
    BY <1>4 DEF DispatcherPostPdu
  <2>2. QED
    BY <1>4, <2>1, RouteSessionInitRequestGoes
<1>5. CASE /\ pdu # Malformed /\ pdu.cid \notin DOMAIN d.established
           /\ pdu.type = "session_init_response"
  <2>1. out = RouteSessionInitResponse(d, pdu, fresh, now).s
    BY <1>5 DEF DispatcherPostPdu
  <2>2. QED
    BY <1>5, <2>1, RouteSessionInitResponseGoes
<1>6. CASE /\ pdu # Malformed /\ pdu.cid \notin DOMAIN d.established
           /\ pdu.type \notin {"session_init_request", "session_init_response"}
  <2>1. CASE pdu.cid \in DOMAIN d.responders
    <3>1. out = DeliverResponder(d, pdu, fresh, now).s
      BY <1>6, <2>1 DEF DispatcherPostPdu
    <3>2. QED
      BY <2>1, <3>1, DeliverResponderGoes
  <2>2. CASE pdu.cid \notin DOMAIN d.responders /\ pdu.cid \in DOMAIN d.forks
    <3>1. out = RouteToForks(d, pdu, now)
      BY <1>6, <2>2 DEF DispatcherPostPdu, Return
    <3>2. QED
      BY <1>6, <2>2, <3>1, RouteToForksGoes
  <2>3. CASE pdu.cid \notin DOMAIN d.responders /\ pdu.cid \notin DOMAIN d.forks
    BY <1>1, <1>6, <2>3 DEF DispatcherPostPdu, Return
  <2>4. QED
    BY <2>1, <2>2, <2>3
<1>7. QED
  BY <1>2, <1>3, <1>4, <1>5, <1>6

-----------------------------------------------------------------------------
(* Calls that draw nothing, on the sessions of the cids K. *)
Turns(d, K, F, G, W, B, P, p, n) ==
    \A s \in All(d) : s.cid \in K =>
        /\ Advances(s, F[s], W \cup d.outgoing, B, P, p, n) /\ ~Took(F[s], p, n)
        /\ G[s] \in {F[s], Drained(F[s])} /\ Settled(G[s])

Leaves(d, e, K, F, G, W) ==
    /\ d.outgoing \subseteq e.outgoing
    /\ \A x \in e.outgoing : \/ x \in d.outgoing
                             \/ \E s \in All(d) : s.cid \in K /\ x \in Range(F[s].outgoingPdus)
    /\ \A u \in All(e) :
        \/ u \in All(d) /\ (u.cid \notin K \/ ~Armed(u))
        \/ \E s \in All(d) : /\ s.cid \in K /\ u = G[s]
                             /\ Range(F[s].outgoingPdus) \subseteq W \cup e.outgoing

LEMMA TurnsTaken ==
    ASSUME NEW p \in Party, NEW n \in Nat, NEW d, Shape(d, p, n), NEW W, NEW B, NEW P,
           CrowdOf(d, W, B, P, p, n), NEW K, NEW F, NEW G, Turns(d, K, F, G, W, B, P, p, n),
           NEW e, Leaves(d, e, K, F, G, W)
    PROVE  CrowdOf(e, W, B, P, p, n)
<1> DEFINE X == {s \in All(d) : s.cid \in K}
           U == W \cup d.outgoing
           V == W \cup e.outgoing
<1>1. Crowd(All(d), U, B, P, p, n) /\ \A s \in All(d) : Formed(s)
  BY AllObjects DEF CrowdOf
<1>2. X \subseteq All(d)
  OBVIOUS
<1>3. Calls(X, F, G, U, V, B, P, p, n, n)
  BY DEF Turns, Leaves, Calls
<1>4. RemainOf(All(e), All(d), X, F, G, V)
  BY DEF Leaves, RemainOf
<1> HIDE DEF X, U, V
<1>5. Crowd(All(e), V, B, P, p, n)
  BY <1>1, <1>2, <1>3, <1>4, SomeAdvance
<1>6. QED
  BY <1>5 DEF CrowdOf, V

(* The template joins, and its request is sent. *)
LEMMA CrowdJoins ==
    ASSUME NEW S, NEW W, NEW B, NEW P, NEW p, NEW n, Crowd(S, W, B, P, p, n),
           NEW t, ~Armed(t), t.role = INITIATOR, Queued(t), t.pending = None,
           t.outgoingPayloads = <<>>,
           NEW V, W \subseteq V, Known(t) \subseteq V,
           \A x \in V \ W : CiphertextsIn(x) = {} /\ x.keyIdA = p,
           \A x \in Known(t) : CiphertextsIn(x) = {},
           NEW T, \A u \in T : u \in S \/ u = t
    PROVE  Crowd(T, V, B, P, p, n)
<1>1. Traffic(W, P, p, n) /\ \A s \in S : Member(s, W, B, P, p, n)
  BY DEF Crowd
<1>2. \A role : CiphertextsAmong(Ours(V, role)) = CiphertextsAmong(Ours(W, role))
  BY DEF CiphertextsAmong, Ours
<1>3. Traffic(V, P, p, n)
  <2>1. \A role \in Roles :
            /\ OwnCiphertexts(CiphertextsAmong(Ours(V, role)), p, role, n)
            /\ \A c \in CiphertextsAmong(Ours(V, role)) : Blank(c) \/ c.plain \in P
            /\ NoneTwice(CiphertextsAmong(Ours(V, role)))
    BY <1>1, <1>2 DEF Traffic
  <2>2. ASSUME NEW x \in V
        PROVE  /\ \E role \in Roles : x \in Ours(V, role)
               /\ x.type = "session_init_request" => x.keyIdA = p
    <3>1. CASE x \in W
      BY <1>1, <3>1 DEF Traffic, Ours
    <3>2. CASE x \notin W
      BY <3>2 DEF Ours, Roles
    <3>3. QED
      BY <3>1, <3>2
  <2>3. QED
    BY <2>1, <2>2 DEF Traffic
<1>4. Member(t, V, B, P, p, n)
  <2>1. Known(t) \subseteq Ours(V, t.role)
    BY DEF Ours
  <2>2. /\ Ahead(t, CiphertextsAmong(Ours(V, t.role)), p, t.role, n) /\ Vouched(t, B, p)
        /\ Unspent(t, CiphertextsAmong(Ours(V, t.role))) /\ Settled(t)
    BY ArmedStates DEF Ahead, Armed, Vouched, Unspent, Settled, INITIATOR, RESPONDER
  <2>3. QED
    BY <2>1, <2>2 DEF Member, Roles
<1>5. ASSUME NEW s \in S PROVE Member(s, V, B, P, p, n)
  <2>1. Ours(W, s.role) \subseteq Ours(V, s.role)
    BY OursGrows
  <2>2. QED
    BY <1>1, <1>2, <2>1 DEF Member
<1>6. QED
  BY <1>3, <1>4, <1>5 DEF Crowd

LEMMA DispatcherInitiateCrowd ==
    ASSUME NEW p \in Party, NEW n \in Nat, NEW d, Shape(d, p, n), NEW W, NEW B, NEW P,
           CrowdOf(d, W, B, P, p, n), NEW peer, NEW now \in Nat
    PROVE  CrowdOf(DispatcherInitiate(d, peer, <<p, n + 1>>, now).s, W, B, P, p, n)
<1> DEFINE fresh == <<p, n + 1>>
           s == NewSession(p, INITIATOR)
           r == Initiate(s, peer, fresh, now)
           t == Drained(r.s)
           out == DispatcherInitiate(d, peer, fresh, now).s
           req == SessionInitRequest(fresh,
                      Encapsulate(StaticKey(peer), <<"s1", fresh>>), peer,
                      PublicKey(fresh, KemLevel[s.owner]), s.owner, AeadsOf(s.owner))
<1>1. out = Initiated(d, r).s /\ DOMAIN d = Attributes
  BY DEF DispatcherInitiate, Shape, Sound
<1>2. CASE r.exn # NoError
  <2>1. out = d
    BY <1>1, <1>2 DEF Initiated, Raise
  <2>2. QED
    BY <2>1
<1>3. CASE r.exn = NoError
  <2>1. Held(r.s, fresh, p, n + 1) /\ CanFork(r.s)
    BY <1>3, InitiatedHeld
  <2>2. s.owner = p /\ s.outgoingPdus = <<>> /\ DOMAIN s = Fields /\ s.pending = None
    BY DEF NewSession, Fields
  <2>3. req.type = "session_init_request" /\ req.keyIdA = p
    BY <2>2 DEF SessionInitRequest
  <2>4. CiphertextsIn(req) = {}
    BY <2>3 DEF CiphertextsIn
  <2> HIDE DEF s
  <2>5. /\ r.s.lastSent = req /\ r.s.outgoingPdus = Queue(s, req) /\ r.s.cid = fresh
        /\ r.s.pending = None
    BY <1>3, <2>2 DEF Initiate, Return, Raise, NoError, Fields
  <2> HIDE DEF req, r
  <2>6. Range(s.outgoingPdus) = {} /\ s.outgoingPdus \in Seq({})
    BY <2>2 DEF Range
  <2>7. Range(r.s.outgoingPdus) = {req}
    BY <2>5, <2>6, QueueAdds
  <2>8. r.s = [f \in Fields |-> r.s[f]]
    BY <2>1 DEF Held, Object
  <2>9. /\ t.role = INITIATOR /\ ~Armed(t) /\ Queued(t) /\ Known(t) \subseteq {req}
        /\ t.pending = None /\ t.outgoingPayloads = <<>>
    <3>1. /\ t.role = r.s.role /\ t.state = r.s.state /\ t.lastSent = req
          /\ t.pending = None /\ t.outgoingPayloads = <<>>
          /\ Queued(t) /\ Range(t.outgoingPdus) = {}
      BY <2>5, <2>8, DrainedAlike
    <3> HIDE DEF t
    <3>2. QED
      BY <2>1, <3>1, ArmedStates DEF CanFork, Known
  <2> HIDE DEF t
  <2> DEFINE templates == With(d.templates, fresh, t)
             forks == With(d.forks, fresh, <<>>)
  <2>10. /\ out.established = d.established /\ out.responders = d.responders
         /\ out.templates = templates /\ out.forks = forks
         /\ out.outgoing = d.outgoing \cup {req}
    <3>1. out = DrainFrom([d EXCEPT !.templates = templates, !.forks = forks], r.s)
      BY <1>1, <1>3, <2>5 DEF Initiated, Return, t
    <3> HIDE DEF templates, forks
    <3>2. QED
      BY <1>1, <2>7, <3>1 DEF DrainFrom, Attributes
  <2>11. \A u \in All(out) : u \in All(d) \/ u = t
    <3>1. \A k \in DOMAIN templates :
            templates[k] = t \/ (k \in DOMAIN d.templates /\ templates[k] = d.templates[k])
      BY DEF With
    <3>2. \A k \in DOMAIN forks : \A i \in DOMAIN forks[k] :
            k \in DOMAIN d.forks /\ forks[k] = d.forks[k]
      BY DEF With
    <3> HIDE DEF templates, forks, out
    <3>3. QED
      BY <2>10, <3>1, <3>2, AllOf
  <2>12. Crowd(All(d), W \cup d.outgoing, B, P, p, n)
    BY DEF CrowdOf
  <2> DEFINE V == W \cup out.outgoing
             U == W \cup d.outgoing
  <2>13. /\ U \subseteq V /\ Known(t) \subseteq V
         /\ \A x \in V \ U : CiphertextsIn(x) = {} /\ x.keyIdA = p
         /\ \A x \in Known(t) : CiphertextsIn(x) = {}
    BY <2>3, <2>4, <2>9, <2>10
  <2> HIDE DEF V, U, out
  <2>14. Crowd(All(out), V, B, P, p, n)
    BY <2>9, <2>11, <2>12, <2>13, CrowdJoins DEF U
  <2>15. QED
    BY <2>14 DEF CrowdOf, V, out
<1>4. QED
  BY <1>2, <1>3

(* A call that leaves alone what a session sends with, but for a new payload. *)
Alike(s, t, P, Q) ==
    /\ t.pending = s.pending \/ t.pending \in Q \ P
    /\ t = [f \in Fields |-> t[f]]
    /\ t.role = s.role /\ t.state = s.state /\ t.keys = s.keys /\ t.nB = s.nB
    /\ t.peer = s.peer /\ t.lastSent = s.lastSent /\ t.outgoingPdus = s.outgoingPdus
    /\ t.seqA2B = s.seqA2B /\ t.seqB2A = s.seqB2A
    /\ t.outgoingPayloads = s.outgoingPayloads

LEMMA CrowdPosts ==
    ASSUME NEW S, NEW W, NEW B, NEW P, NEW p, NEW n, Crowd(S, W, B, P, p, n),
           NEW Q, P \subseteq Q
    PROVE  Crowd(S, W, B, Q, p, n)
<1>1. Traffic(W, Q, p, n)
  BY DEF Crowd, Traffic
<1>2. ASSUME NEW s \in S PROVE Member(s, W, B, Q, p, n)
  BY DEF Crowd, Member
<1>3. QED
  BY <1>1, <1>2 DEF Crowd

LEMMA AlikeTurns ==
    ASSUME NEW p \in Party, NEW n \in Nat, NEW d, Shape(d, p, n), NEW W, NEW B, NEW P,
           CrowdOf(d, W, B, P, p, n), NEW Q, P \subseteq Q, NEW K, NEW F,
           \A s \in All(d) : s.cid \in K => Alike(s, F[s], P, Q)
    PROVE  /\ Turns(d, K, F, F, W, B, Q, p, n) /\ CrowdOf(d, W, B, Q, p, n)
           /\ \A s \in All(d) : s.cid \in K =>
                Range(F[s].outgoingPdus) \subseteq W \cup d.outgoing
<1> DEFINE U == W \cup d.outgoing
<1>1. Traffic(U, P, p, n) /\ \A s \in All(d) : Member(s, U, B, P, p, n)
  BY DEF CrowdOf, Crowd
<1> HIDE DEF U
<1>2. ASSUME NEW s \in All(d), s.cid \in K
      PROVE  /\ Advances(s, F[s], U, B, Q, p, n) /\ ~Took(F[s], p, n)
             /\ Range(F[s].outgoingPdus) \subseteq U /\ Settled(F[s])
  <2> DEFINE t == F[s]
  <2>1. Alike(s, t, P, Q)
    BY <1>2
  <2> HIDE DEF t
  <2>2. Advances(s, t, U, B, Q, p, n)
    BY <1>1, <2>1, AlikeAdvances DEF Alike
  <2>3. Armed(t) => Armed(s) /\ Draw(t) = Draw(s)
    BY <2>1 DEF Alike, Armed, Draw
  <2>4. ~Took(t, p, n)
    BY <1>1, <2>3, MemberDraw, TookDraw, DrawnGrows
  <2>5. Range(t.outgoingPdus) \subseteq U /\ Settled(t)
    BY <1>1, <2>1 DEF Alike, Member, Known, Ours, Settled, TheirSeq
  <2>6. QED
    BY <2>2, <2>4, <2>5 DEF t
<1>3. CrowdOf(d, W, B, Q, p, n)
  BY CrowdPosts DEF CrowdOf
<1>4. QED
  BY <1>2, <1>3 DEF Turns, U

LEMMA DispatcherPostPayloadCrowd ==
    ASSUME NEW p \in Party, NEW n \in Nat, NEW d, Shape(d, p, n), NEW W, NEW B, NEW P,
           CrowdOf(d, W, B, P, p, n), NEW cid \in CanPost(d), NEW payload,
           NEW Q, P \subseteq Q, payload \in Q \ P
    PROVE  CrowdOf(DispatcherPostPayload(d, cid, payload), W, B, Q, p, n)
<1> DEFINE out == DispatcherPostPayload(d, cid, payload)
           F == [s \in All(d) |-> PostPayload(s, payload)]
           K == {cid}
<1>1. DOMAIN d = Attributes
  BY DEF Shape, Sound
<1>2. \A s \in All(d) : F[s] = PostPayload(s, payload)
  OBVIOUS
<1>3. out.outgoing = d.outgoing
  BY <1>1 DEF DispatcherPostPayload, Attributes
<1>4. ASSUME NEW u \in All(out)
      PROVE  \/ u \in All(d) /\ u.cid \notin K
             \/ \E s \in All(d) : s.cid \in K /\ u = PostPayload(s, payload)
  <2>1. CASE cid \in DOMAIN d.established
    <3>1. /\ out.established
                 = [d.established EXCEPT ![cid] = PostPayload(d.established[cid], payload)]
          /\ out.responders = d.responders /\ out.forks = d.forks
          /\ out.templates = d.templates
      BY <1>1, <2>1 DEF DispatcherPostPayload, Attributes
    <3>2. \A k \in DOMAIN out.established :
             k \in DOMAIN d.established /\
             \/ k # cid /\ out.established[k] = d.established[k]
             \/ k = cid /\ out.established[k] = PostPayload(d.established[cid], payload)
      BY <3>1
    <3> HIDE DEF out
    <3>3. QED
      BY <1>4, <2>1, <3>1, <3>2, AllOf, CidsApart
  <2>2. CASE cid \notin DOMAIN d.established /\ cid \in DOMAIN d.responders
    <3>1. /\ out.responders
                 = [d.responders EXCEPT ![cid] = PostPayload(d.responders[cid], payload)]
          /\ out.established = d.established /\ out.forks = d.forks
          /\ out.templates = d.templates
      BY <1>1, <2>2 DEF DispatcherPostPayload, Attributes
    <3>2. \A k \in DOMAIN out.responders :
             k \in DOMAIN d.responders /\
             \/ k # cid /\ out.responders[k] = d.responders[k]
             \/ k = cid /\ out.responders[k] = PostPayload(d.responders[cid], payload)
      BY <3>1
    <3> HIDE DEF out
    <3>3. QED
      BY <1>4, <2>2, <3>1, <3>2, AllOf, CidsApart
  <2>3. CASE cid \notin DOMAIN d.established /\ cid \notin DOMAIN d.responders
    <3> DEFINE posts == [i \in DOMAIN d.forks[cid] |-> PostPayload(d.forks[cid][i], payload)]
    <3>1. /\ out.templates
                 = [d.templates EXCEPT ![cid] = PostPayload(d.templates[cid], payload)]
          /\ out.forks = [d.forks EXCEPT ![cid] = posts]
          /\ out.established = d.established /\ out.responders = d.responders
      BY <1>1, <2>3 DEF DispatcherPostPayload, Attributes
    <3>2. \A k \in DOMAIN out.templates :
             k \in DOMAIN d.templates /\
             \/ k # cid /\ out.templates[k] = d.templates[k]
             \/ k = cid /\ out.templates[k] = PostPayload(d.templates[cid], payload)
      BY <3>1
    <3>3. \A k \in DOMAIN out.forks :
             k \in DOMAIN d.forks /\
             \/ k # cid /\ out.forks[k] = d.forks[k]
             \/ k = cid /\ out.forks[k] = posts
      BY <3>1
    <3>4. DOMAIN posts = DOMAIN d.forks[cid]
          /\ \A i \in DOMAIN posts : posts[i] = PostPayload(d.forks[cid][i], payload)
      OBVIOUS
    <3> HIDE DEF out, posts
    <3>5. ASSUME NEW k \in DOMAIN out.forks, NEW i \in DOMAIN out.forks[k],
                 u = out.forks[k][i]
          PROVE  \/ u \in All(d) /\ u.cid \notin K
                 \/ \E s \in All(d) : s.cid \in K /\ u = PostPayload(s, payload)
      BY <3>3, <3>4, <3>5, AllOf, CidsApart
    <3>6. QED
      BY <1>4, <2>3, <3>1, <3>2, <3>5, AllOf, CidsApart
  <2>4. QED
    BY <2>1, <2>2, <2>3
<1> HIDE DEF F, K, out
<1>5. \A s \in All(d) : s.cid \in K => Alike(s, F[s], P, Q)
  <2> SUFFICES ASSUME NEW s \in All(d) PROVE Alike(s, PostPayload(s, payload), P, Q)
    BY <1>2
  <2>1. s = [f \in Fields |-> s[f]]
    BY AllObjects DEF Formed
  <2>2. QED
    BY <2>1 DEF Alike, PostPayload, Fields
<1>6. /\ Turns(d, K, F, F, W, B, Q, p, n) /\ CrowdOf(d, W, B, Q, p, n)
      /\ \A s \in All(d) : s.cid \in K =>
            Range(F[s].outgoingPdus) \subseteq W \cup d.outgoing
  BY <1>5, AlikeTurns
<1>7. Leaves(d, out, K, F, F, W)
  BY <1>2, <1>3, <1>4, <1>6 DEF Leaves
<1>8. CrowdOf(out, W, B, Q, p, n)
  BY <1>6, <1>7, TurnsTaken
<1>9. QED
  BY <1>8 DEF out

LEMMA FewerSessions ==
    ASSUME NEW p, NEW n, NEW d, NEW W, NEW B, NEW P, CrowdOf(d, W, B, P, p, n),
           NEW e, e.outgoing = d.outgoing, All(e) \subseteq All(d)
    PROVE  CrowdOf(e, W, B, P, p, n)
BY CrowdShrinks DEF CrowdOf

LEMMA CloseCrowd ==
    ASSUME NEW p, NEW n, NEW d, Shape(d, p, n), NEW W, NEW B, NEW P,
           CrowdOf(d, W, B, P, p, n), NEW cid
    PROVE  CrowdOf(Close(d, cid), W, B, P, p, n)
<1> DEFINE e == Close(d, cid)
<1>1. /\ e.established = Without(d.established, cid) /\ e.responders = d.responders
      /\ e.forks = d.forks /\ e.templates = d.templates /\ e.outgoing = d.outgoing
  BY DEF Close, Shape, Sound, Attributes
<1>2. \A k \in DOMAIN Without(d.established, cid) :
        /\ k \in DOMAIN d.established
        /\ Without(d.established, cid)[k] = d.established[k]
  BY DEF Without, Restrict
<1> HIDE DEF e
<1>3. \A u \in All(e) : u \in All(d)
  BY <1>1, <1>2, AllOf
<1>4. QED
  BY <1>1, <1>3, FewerSessions DEF e

LEMMA TickedCrowd ==
    ASSUME NEW p \in Party, NEW n \in Nat, NEW d, Shape(d, p, n), NEW W, NEW B, NEW P,
           CrowdOf(d, W, B, P, p, n)
    PROVE  CrowdOf(Ticked(d), W, B, P, p, n)
<1> DEFINE out == Ticked(d)
           F == [s \in All(d) |-> Aged(s)]
           K == Pending(d)
<1>1. /\ out.established = d.established /\ out.responders = AgedAll(d.responders)
      /\ out.templates = AgedAll(d.templates) /\ out.forks = AgedForksOf(d)
      /\ out.outgoing = d.outgoing
  BY DEF Ticked, Shape, Sound, Attributes
<1>2. \A s \in All(d) : F[s] = Aged(s)
  OBVIOUS
<1>3. /\ DOMAIN AgedForksOf(d) = DOMAIN d.forks
      /\ \A k \in DOMAIN d.forks : AgedForksOf(d)[k] = AgedAll(d.forks[k])
  BY DEF AgedForksOf
<1>4. /\ DOMAIN d.responders \subseteq K /\ DOMAIN d.forks \subseteq K
      /\ \A k \in DOMAIN d.established : k \notin K
  BY CidsApart DEF Pending
<1> HIDE DEF out, F, K
<1>5. ASSUME NEW u \in All(out)
      PROVE  \/ u \in All(d) /\ u.cid \notin K
             \/ \E s \in All(d) : s.cid \in K /\ u = Aged(s)
  <2>1. CASE \E k \in DOMAIN d.established : u = d.established[k]
    BY <1>4, <2>1, AllOf, CidsApart
  <2>2. ASSUME NEW k \in DOMAIN AgedAll(d.responders), u = AgedAll(d.responders)[k]
        PROVE  \E s \in All(d) : s.cid \in K /\ u = Aged(s)
    BY <1>4, <2>2, AllOf, CidsApart, AgedAllValues
  <2>3. ASSUME NEW k \in DOMAIN AgedAll(d.templates), u = AgedAll(d.templates)[k]
        PROVE  \E s \in All(d) : s.cid \in K /\ u = Aged(s)
    BY <1>4, <2>3, AllOf, CidsApart, AgedAllValues
  <2>4. ASSUME NEW k \in DOMAIN d.forks, NEW i \in DOMAIN AgedAll(d.forks[k]),
               u = AgedAll(d.forks[k])[i]
        PROVE  \E s \in All(d) : s.cid \in K /\ u = Aged(s)
    BY <1>4, <2>4, AllOf, CidsApart, AgedAllValues
  <2>5. QED
    BY <1>1, <1>3, <1>5, <2>1, <2>2, <2>3, <2>4, AllOf
<1>6. \A s \in All(d) : s.cid \in K => Alike(s, F[s], P, P)
  <2> SUFFICES ASSUME NEW s \in All(d) PROVE Alike(s, Aged(s), P, P)
    BY <1>2
  <2>1. s = [f \in Fields |-> s[f]]
    BY AllObjects DEF Formed
  <2>2. QED
    BY <2>1 DEF Alike, Aged, Fields
<1>7. /\ Turns(d, K, F, F, W, B, P, p, n)
      /\ \A s \in All(d) : s.cid \in K =>
            Range(F[s].outgoingPdus) \subseteq W \cup d.outgoing
  BY <1>6, AlikeTurns
<1>8. Leaves(d, out, K, F, F, W)
  BY <1>1, <1>2, <1>5, <1>7 DEF Leaves
<1>9. CrowdOf(out, W, B, P, p, n)
  BY <1>7, <1>8, TurnsTaken
<1>10. QED
  BY <1>9 DEF out

-----------------------------------------------------------------------------
(* update(): nothing arrives, so no session draws. *)
LEMMA CrankAdvances ==
    ASSUME NEW p \in Party, NEW n \in Nat, NEW d, Shape(d, p, n), NEW W, NEW B, NEW P,
           CrowdOf(d, W, B, P, p, n), NEW now \in Nat, NEW s \in All(d)
    PROVE  LET t == Update(s, None, None, now).s
           IN /\ Advances(s, t, W \cup d.outgoing, B, P, p, n) /\ ~Took(t, p, n)
              /\ s.state # ESTABLISHED => Range(t.outgoingPdus) \subseteq W \cup d.outgoing
              /\ Settled(t) /\ Settled(Drained(t))
<1> DEFINE t == Update(s, None, None, now).s
           U == W \cup d.outgoing
<1>1. Traffic(U, P, p, n) /\ Member(s, U, B, P, p, n)
  BY DEF CrowdOf, Crowd
<1>2. Object(s, p, s.role, Payloads(p)) /\ (s.state = INITIAL => s.role = RESPONDER)
  BY AllObjects
<1> HIDE DEF U
<1>3. Advances(s, t, U, B, P, p, n) /\ ~Took(t, p, n)
  BY <1>1, <1>2, QuietAdvances DEF Arrives
<1>4. Effect(s, t, None, None)
  BY <1>1, <1>2, UpdateEffect DEF Member
<1> HIDE DEF t
<1>5. ASSUME s.state # ESTABLISHED PROVE Range(t.outgoingPdus) \subseteq U
  <2>1. Lingers(s, t)
    BY <1>4, <1>5 DEF Effect, Talks, Refuses, Responds, Completes, Confirms, Concludes,
                      Arrived
  <2>2. Range(t.outgoingPdus) \subseteq Known(s)
    BY <2>1 DEF Lingers, Resends
  <2>3. QED
    BY <1>1, <2>2 DEF Member, Ours
<1>6. Settled(t) /\ Settled(Drained(t))
  BY <1>1, <1>2, UpdateSettled DEF t, Member
<1>7. QED
  BY <1>3, <1>5, <1>6 DEF t, U

(* The loops of update() over the cids K, draining (G) what they update or not. *)
LEMMA CrankTurns ==
    ASSUME NEW p \in Party, NEW n \in Nat, NEW d, Shape(d, p, n), NEW W, NEW B, NEW P,
           CrowdOf(d, W, B, P, p, n), NEW now \in Nat, NEW K, NEW F, NEW G,
           \A s \in All(d) : /\ F[s] = Update(s, None, None, now).s
                             /\ G[s] \in {F[s], Drained(F[s])}
    PROVE  Turns(d, K, F, G, W, B, P, p, n)
<1>1. ASSUME NEW s \in All(d)
      PROVE  /\ Advances(s, F[s], W \cup d.outgoing, B, P, p, n) /\ ~Took(F[s], p, n)
             /\ Settled(F[s]) /\ Settled(Drained(F[s]))
  <2>1. F[s] = Update(s, None, None, now).s
    OBVIOUS
  <2>2. QED
    BY <2>1, CrankAdvances
<1>2. QED
  BY <1>1 DEF Turns

LEMMA ReconciledCrowd ==
    ASSUME NEW p, NEW n, NEW d, Shape(d, p, n), NEW W, NEW B, NEW P, CrowdOf(d, W, B, P, p, n)
    PROVE  CrowdOf(Reconciled(d), W, B, P, p, n)
<1> DEFINE gone == {cid \in DOMAIN d.forks : /\ CandidatesFor(d.store, cid) = {}
                                             /\ cid \notin DOMAIN d.established}
           live == {cid \in DOMAIN d.responders : ~(CandidatesFor(d.store, cid) = {})}
           responders == Restrict(d.responders, live)
           forks == Restrict(d.forks, DOMAIN d.forks \ gone)
           templates == Restrict(d.templates, DOMAIN d.templates \ gone)
           e == Reconciled(d)
<1>1. DOMAIN d = Attributes
  BY DEF Shape, Sound
<1>2. e = [d EXCEPT !.responders = responders, !.forks = forks, !.templates = templates]
  BY DEF Reconciled
<1>3. /\ \A k \in DOMAIN responders : k \in DOMAIN d.responders /\ responders[k] = d.responders[k]
      /\ \A k \in DOMAIN forks : k \in DOMAIN d.forks /\ forks[k] = d.forks[k]
      /\ \A k \in DOMAIN templates : k \in DOMAIN d.templates /\ templates[k] = d.templates[k]
  BY DEF Restrict
<1> HIDE DEF responders, forks, templates, e
<1>4. /\ e.established = d.established /\ e.responders = responders
      /\ e.templates = templates /\ e.forks = forks /\ e.outgoing = d.outgoing
  BY <1>1, <1>2 DEF Attributes
<1>5. \A u \in All(e) : u \in All(d)
  BY <1>3, <1>4, AllOf
<1>6. QED
  BY <1>4, <1>5, FewerSessions DEF e

LEMMA UpdateEstablishedSessionsCrowd ==
    ASSUME NEW p \in Party, NEW n \in Nat, NEW d, Shape(d, p, n), NEW W, NEW B, NEW P,
           CrowdOf(d, W, B, P, p, n), NEW now \in Nat
    PROVE  CrowdOf(UpdateEstablishedSessions(d, now), W, B, P, p, n)
<1> DEFINE cranked == CrankAll(d.established, now)
           out == EstablishedCranked(d, cranked)
           F == [s \in All(d) |-> Update(s, None, None, now).s]
           G == [s \in All(d) |-> Drained(F[s])]
           K == DOMAIN d.established
<1>1. \A s \in All(d) : F[s] = Update(s, None, None, now).s /\ G[s] = Drained(F[s])
  OBVIOUS
<1>2. /\ DOMAIN cranked = K
      /\ \A k \in K : d.established[k] \in All(d) /\ cranked[k] = F[d.established[k]]
  <2> HIDE DEF F, G
  <2>1. \A k \in K : d.established[k] \in All(d)
    BY AllOf
  <2>2. /\ DOMAIN cranked = K
        /\ \A k \in K : cranked[k] = Update(d.established[k], None, None, now).s
    BY CrankAllValues
  <2> HIDE DEF cranked, K
  <2>3. QED
    BY <1>1, <2>1, <2>2
<1> HIDE DEF F, G, cranked
<1>3. /\ out.established = AllDrained(cranked) /\ out.responders = d.responders
      /\ out.forks = d.forks /\ out.templates = d.templates
      /\ out.outgoing = d.outgoing \cup OutgoingOf(cranked)
  BY DEF EstablishedCranked, Shape, Sound, Attributes
<1> HIDE DEF out
<1>4. Turns(d, K, F, G, W, B, P, p, n)
  BY <1>1, CrankTurns
<1>5. /\ \A x \in OutgoingOf(cranked) :
            \E k \in K : x \in Range(F[d.established[k]].outgoingPdus)
      /\ \A k \in K : Range(F[d.established[k]].outgoingPdus) \subseteq OutgoingOf(cranked)
  BY <1>2 DEF OutgoingOf
<1>6. \A k \in K : d.established[k].cid = k
  BY CidsApart
<1>7. ASSUME NEW u \in All(out)
      PROVE  \/ u \in All(d) /\ u.cid \notin K
             \/ \E s \in All(d) : /\ s.cid \in K /\ u = G[s]
                                  /\ Range(F[s].outgoingPdus) \subseteq W \cup out.outgoing
  <2>1. ASSUME NEW k \in DOMAIN AllDrained(cranked), u = AllDrained(cranked)[k]
        PROVE  \E s \in All(d) : /\ s.cid \in K /\ u = G[s]
                                 /\ Range(F[s].outgoingPdus) \subseteq W \cup out.outgoing
    <3>1. k \in K /\ u = Drained(cranked[k])
      BY <1>2, <2>1, AllDrainedValues
    <3>2. d.established[k] \in All(d) /\ u = G[d.established[k]]
      BY <1>1, <1>2, <3>1
    <3>3. QED
      BY <1>3, <1>5, <1>6, <3>1, <3>2
  <2>2. QED
    BY <1>3, <1>7, <2>1, AllOf, CidsApart
<1>8. Leaves(d, out, K, F, G, W)
  <2>1. \A x \in out.outgoing : \/ x \in d.outgoing
                                \/ \E s \in All(d) : s.cid \in K /\ x \in Range(F[s].outgoingPdus)
    BY <1>2, <1>3, <1>5, <1>6
  <2>2. QED
    BY <1>3, <1>7, <2>1 DEF Leaves
<1>9. CrowdOf(out, W, B, P, p, n)
  BY <1>4, <1>8, TurnsTaken
<1>10. QED
  BY <1>9 DEF UpdateEstablishedSessions, out, cranked

LEMMA UpdateResponderSessionsCrowd ==
    ASSUME NEW p \in Party, NEW n \in Nat, NEW d, Shape(d, p, n), NEW W, NEW B, NEW P,
           CrowdOf(d, W, B, P, p, n), NEW now \in Nat
    PROVE  CrowdOf(UpdateResponderSessions(d, now), W, B, P, p, n)
<1> DEFINE cranked == CrankAll(d.responders, now)
           live == {cid \in DOMAIN cranked : cranked[cid].state # DROPPED}
           sessions == Restrict(AllDrained(cranked), live)
           out == RespondersCranked(d, cranked)
           F == [s \in All(d) |-> Update(s, None, None, now).s]
           G == [s \in All(d) |-> Drained(F[s])]
           K == DOMAIN d.responders
<1>1. \A s \in All(d) : F[s] = Update(s, None, None, now).s /\ G[s] = Drained(F[s])
  OBVIOUS
<1>2. /\ DOMAIN cranked = K
      /\ \A k \in K : d.responders[k] \in All(d) /\ cranked[k] = F[d.responders[k]]
  <2> HIDE DEF F, G
  <2>1. \A k \in K : d.responders[k] \in All(d)
    BY AllOf
  <2>2. /\ DOMAIN cranked = K
        /\ \A k \in K : cranked[k] = Update(d.responders[k], None, None, now).s
    BY CrankAllValues
  <2> HIDE DEF cranked, K
  <2>3. QED
    BY <1>1, <2>1, <2>2
<1> HIDE DEF F, G, cranked
<1>3. /\ out.established = d.established /\ out.responders = sessions
      /\ out.forks = d.forks /\ out.templates = d.templates
      /\ out.outgoing = d.outgoing \cup OutgoingOf(cranked)
  BY DEF RespondersCranked, Shape, Sound, Attributes
<1>4. \A k \in DOMAIN sessions : k \in K /\ sessions[k] = Drained(cranked[k])
  BY <1>2, AllDrainedValues DEF Restrict
<1> HIDE DEF out, sessions
<1>5. Turns(d, K, F, G, W, B, P, p, n)
  BY <1>1, CrankTurns
<1>6. /\ \A x \in OutgoingOf(cranked) :
            \E k \in K : x \in Range(F[d.responders[k]].outgoingPdus)
      /\ \A k \in K : Range(F[d.responders[k]].outgoingPdus) \subseteq OutgoingOf(cranked)
  BY <1>2 DEF OutgoingOf
<1>7. \A k \in K : d.responders[k].cid = k
  BY CidsApart
<1>8. ASSUME NEW u \in All(out)
      PROVE  \/ u \in All(d) /\ u.cid \notin K
             \/ \E s \in All(d) : /\ s.cid \in K /\ u = G[s]
                                  /\ Range(F[s].outgoingPdus) \subseteq W \cup out.outgoing
  <2>1. ASSUME NEW k \in DOMAIN sessions, u = sessions[k]
        PROVE  \E s \in All(d) : /\ s.cid \in K /\ u = G[s]
                                 /\ Range(F[s].outgoingPdus) \subseteq W \cup out.outgoing
    <3>1. k \in K /\ d.responders[k] \in All(d) /\ u = G[d.responders[k]]
      BY <1>1, <1>2, <1>4, <2>1
    <3>2. QED
      BY <1>3, <1>6, <1>7, <3>1
  <2>2. QED
    BY <1>3, <1>8, <2>1, AllOf, CidsApart
<1>9. Leaves(d, out, K, F, G, W)
  <2>1. \A x \in out.outgoing : \/ x \in d.outgoing
                                \/ \E s \in All(d) : s.cid \in K /\ x \in Range(F[s].outgoingPdus)
    BY <1>2, <1>3, <1>6, <1>7
  <2>2. QED
    BY <1>3, <1>8, <2>1 DEF Leaves
<1>10. CrowdOf(out, W, B, P, p, n)
  BY <1>5, <1>9, TurnsTaken
<1>11. QED
  BY <1>10 DEF UpdateResponderSessions, out, cranked

LEMMA ProcessInitiatorForksCrowd ==
    ASSUME NEW p \in Party, NEW n \in Nat, NEW d, Shape(d, p, n), NEW W, NEW B, NEW P,
           CrowdOf(d, W, B, P, p, n), NEW now \in Nat
    PROVE  CrowdOf(ProcessInitiatorForks(d, now), W, B, P, p, n)
<1> DEFINE surviving == [cid \in DOMAIN d.forks |-> Surviving(CrankAll(d.forks[cid], now))]
           lost == {cid \in DOMAIN surviving : DOMAIN surviving[cid] = {}}
           forks == Restrict(surviving, DOMAIN d.forks \ lost)
           templates == Restrict(d.templates, DOMAIN d.templates \ lost)
           out == ForksCranked(d, surviving)
           F == [s \in All(d) |-> Update(s, None, None, now).s]
           K == DOMAIN d.forks
<1>1. \A s \in All(d) : F[s] = Update(s, None, None, now).s
  OBVIOUS
<1>2. ASSUME NEW k \in K, NEW i \in DOMAIN surviving[k]
      PROVE  /\ i \in DOMAIN d.forks[k] /\ d.forks[k][i] \in All(d)
             /\ surviving[k][i] = F[d.forks[k][i]]
  <2>1. surviving[k] = Surviving(CrankAll(d.forks[k], now))
    OBVIOUS
  <2> HIDE DEF surviving, F
  <2>2. i \in DOMAIN d.forks[k] /\ surviving[k][i] = Update(d.forks[k][i], None, None, now).s
    BY <1>2, <2>1 DEF Surviving, Restrict, CrankAll
  <2>3. QED
    BY <1>1, <2>2, AllOf
<1>3. DOMAIN surviving = K
  OBVIOUS
<1> HIDE DEF F, surviving
<1>4. /\ out.established = d.established /\ out.responders = d.responders
      /\ out.forks = forks /\ out.templates = templates /\ out.outgoing = d.outgoing
  BY DEF ForksCranked, Shape, Sound, Attributes
<1>5. /\ \A k \in DOMAIN forks : k \in K /\ forks[k] = surviving[k]
      /\ \A k \in DOMAIN templates : k \in DOMAIN d.templates /\ templates[k] = d.templates[k]
  BY DEF Restrict
<1> HIDE DEF out, forks, templates
<1>6. Turns(d, K, F, F, W, B, P, p, n)
  BY <1>1, CrankTurns
<1>7. ASSUME NEW u \in All(out)
      PROVE  \/ u \in All(d) /\ (u.cid \notin K \/ ~Armed(u))
             \/ \E s \in All(d) : /\ s.cid \in K /\ u = F[s]
                                  /\ Range(F[s].outgoingPdus) \subseteq W \cup out.outgoing
  <2>1. ASSUME NEW k \in DOMAIN forks, NEW i \in DOMAIN forks[k], u = forks[k][i]
        PROVE  \E s \in All(d) : /\ s.cid \in K /\ u = F[s]
                                 /\ Range(F[s].outgoingPdus) \subseteq W \cup out.outgoing
    <3> DEFINE s == d.forks[k][i]
    <3>1. k \in K /\ i \in DOMAIN d.forks[k] /\ s \in All(d) /\ u = F[s]
      BY <1>2, <1>5, <2>1
    <3>2. s.cid = k /\ s.state # ESTABLISHED
      <4>1. Tries(s, d.templates[k])
        BY <3>1 DEF Shape, ForksOK
      <4>2. s.cid = k
        BY <3>1, CidsApart
      <4>3. QED
        BY <4>1, <4>2 DEF Tries, LiveForkState, ESTABLISHED, DROPPED,
           EXPECT_SESSION_INIT_RESPONSE, EXPECT_SESSION_COMPLETION_RESPONSE
    <3> HIDE DEF s
    <3>3. Range(F[s].outgoingPdus) \subseteq W \cup d.outgoing
      BY <1>1, <3>1, <3>2, CrankAdvances
    <3>4. QED
      BY <1>4, <3>1, <3>2, <3>3
  <2>2. QED
    BY <1>4, <1>5, <1>7, <2>1, AllOf, CidsApart
<1>8. Leaves(d, out, K, F, F, W)
  BY <1>4, <1>7 DEF Leaves
<1>9. CrowdOf(out, W, B, P, p, n)
  BY <1>6, <1>8, TurnsTaken
<1>10. QED
  BY <1>9 DEF ProcessInitiatorForks, out, surviving

LEMMA DispatcherUpdateCrowd ==
    ASSUME NEW p \in Party, NEW n \in Nat, NEW d, Shape(d, p, n), NEW W, NEW B, NEW P,
           CrowdOf(d, W, B, P, p, n), NEW now \in Nat
    PROVE  CrowdOf(DispatcherUpdate(d, now), W, B, P, p, n)
<1> DEFINE store == Expire(d.store, now)
           d1 == [d EXCEPT !.store = store]
           d2 == Reconciled(d1)
           d3 == UpdateEstablishedSessions(d2, now)
           d4 == UpdateResponderSessions(d3, now)
<1>1. StoreKept(store)
  BY ExpireKept DEF Shape, Sound
<1>2. \A k : CandidatesFor(store, k) \subseteq CandidatesFor(d.store, k)
  BY ExpireFewer
<1>3. DispatcherUpdate(d, now) = ProcessInitiatorForks(d4, now)
  BY DEF DispatcherUpdate
<1> HIDE DEF store
<1>4. Shape(d1, p, n) /\ CrowdOf(d1, W, B, P, p, n)
  <2>1. /\ d1.established = d.established /\ d1.responders = d.responders
        /\ d1.forks = d.forks /\ d1.templates = d.templates /\ d1.outgoing = d.outgoing
    BY DEF Shape, Sound, Attributes
  <2>2. QED
    BY <1>1, <1>2, <2>1, StoreShape DEF CrowdOf, All, SessionsOf
<1> HIDE DEF d1
<1>5. Shape(d2, p, n) /\ Backed(d2) /\ CrowdOf(d2, W, B, P, p, n)
  BY <1>4, ReconciledShape, ReconciledCrowd
<1> HIDE DEF d2
<1>6. Shape(d3, p, n) /\ Backed(d3) /\ CrowdOf(d3, W, B, P, p, n)
  BY <1>5, UpdateEstablishedSessionsShape, UpdateEstablishedSessionsCrowd DEF Backed
<1> HIDE DEF d3
<1>7. Shape(d4, p, n) /\ CrowdOf(d4, W, B, P, p, n)
  BY <1>6, UpdateResponderSessionsShape, UpdateResponderSessionsCrowd
<1> HIDE DEF d4
<1>8. QED
  BY <1>3, <1>7, ProcessInitiatorForksCrowd

-----------------------------------------------------------------------------
(* The invariant of the pair: a crowd in each process, and every key a process *)
(* established as a responder vouched for by a c_m of its peer.                *)
Witnessed(k, B, p) ==
    k.fA = Peer(p) /\ \E c \in B : c.keys = k /\ c.dir = "a2b" /\ c.seq = 0

Posted(p) == Posts(p, posted[p])

Guarded(p) ==
    /\ Crowd(All(disp[p]), wire[p], CiphertextsOf(Peer(p)), Posted(p), p, draws[p])
    /\ \A k \in confirmed[p] : Witnessed(k, CiphertextsOf(Peer(p)), p)

KInv ==
    /\ SInv
    /\ confirmed = [p \in Party |-> confirmed[p]]
    /\ \A p \in Party : Guarded(p)

(* More draws, or more ciphertexts of the peer, disturb nothing. *)
LEMMA CrowdGrows ==
    ASSUME NEW p, NEW n \in Nat, NEW S, NEW W, NEW B, NEW P, Crowd(S, W, B, P, p, n)
    PROVE  Crowd(S, W, B, P, p, n + 1)
<1>1. Drawn(p, n) \subseteq Drawn(p, n + 1)
  BY DrawnGrows
<1>2. Traffic(W, P, p, n + 1)
  <2>1. ASSUME NEW role \in Roles
        PROVE  /\ OwnCiphertexts(CiphertextsAmong(Ours(W, role)), p, role, n + 1)
               /\ \A c \in CiphertextsAmong(Ours(W, role)) : Blank(c) \/ c.plain \in P
               /\ NoneTwice(CiphertextsAmong(Ours(W, role)))
    <3>1. /\ OwnCiphertexts(CiphertextsAmong(Ours(W, role)), p, role, n)
          /\ \A c \in CiphertextsAmong(Ours(W, role)) : Blank(c) \/ c.plain \in P
          /\ NoneTwice(CiphertextsAmong(Ours(W, role)))
      BY DEF Crowd, Traffic
    <3>2. QED
      BY <1>1, <3>1 DEF OwnCiphertexts
  <2>2. QED
    BY <2>1 DEF Crowd, Traffic
<1>3. ASSUME NEW s \in S PROVE Member(s, W, B, P, p, n + 1)
  <2>1. Member(s, W, B, P, p, n)
    BY DEF Crowd
  <2>2. Ahead(s, CiphertextsAmong(Ours(W, s.role)), p, s.role, n + 1)
    BY <1>1, <2>1 DEF Member, Ahead
  <2>3. QED
    BY <2>1, <2>2 DEF Member
<1>4. QED
  BY <1>2, <1>3 DEF Crowd

LEMMA CrowdHears ==
    ASSUME NEW p, NEW n, NEW S, NEW W, NEW B, NEW P, Crowd(S, W, B, P, p, n),
           NEW C, B \subseteq C
    PROVE  Crowd(S, W, C, P, p, n)
<1>1. ASSUME NEW s \in S PROVE Member(s, W, C, P, p, n)
  <2>1. Member(s, W, B, P, p, n)
    BY DEF Crowd
  <2>2. Vouched(s, C, p)
    BY <2>1 DEF Member, Vouched
  <2>3. QED
    BY <2>1, <2>2 DEF Member
<1>2. QED
  BY <1>1 DEF Crowd

LEMMA WitnessedGrows ==
    ASSUME NEW k, NEW B, NEW p, Witnessed(k, B, p), NEW C, B \subseteq C
    PROVE  Witnessed(k, C, p)
BY DEF Witnessed

(* One process takes a step; of the other's state nothing changes. *)
LEMMA GuardKept ==
    ASSUME KInv, SInv', NEW p \in Party,
           confirmed' = [q \in Party |-> confirmed'[q]],
           \A q \in Party : q # p =>
              /\ disp'[q] = disp[q] /\ wire'[q] = wire[q] /\ draws'[q] = draws[q]
              /\ confirmed'[q] = confirmed[q] /\ posted'[q] = posted[q],
           wire[p] \subseteq wire'[p],
           Crowd(All(disp'[p]), wire'[p], CiphertextsOf(Peer(p)), Posted(p)', p, draws'[p]),
           \A k \in confirmed'[p] : Witnessed(k, CiphertextsOf(Peer(p)), p)
    PROVE  KInv'
<1>1. /\ Peer(p) \in Party /\ Peer(p) # p /\ Peer(Peer(p)) = p
      /\ \A q \in Party : q = p \/ q = Peer(p)
  BY PeerIsOther, PairAssumption DEF Peer
<1>2. CiphertextsOf(Peer(p))' = CiphertextsOf(Peer(p))
  BY <1>1 DEF CiphertextsOf
<1>3. CiphertextsOf(p) \subseteq CiphertextsOf(p)'
  BY DEF CiphertextsOf
<1>4. Guarded(p)'
  BY <1>2 DEF Guarded
<1>5. Guarded(Peer(p))'
  <2> DEFINE q == Peer(p)
             B == CiphertextsOf(p)
             C == CiphertextsOf(p)'
  <2>1. Guarded(q) /\ Peer(q) = p /\ q \in Party /\ q # p
    BY <1>1 DEF KInv
  <2> HIDE DEF q
  <2>2. /\ Crowd(All(disp[q]), wire[q], B, Posted(q), q, draws[q])
        /\ \A k \in confirmed[q] : Witnessed(k, B, q)
    BY <2>1 DEF Guarded
  <2>3. /\ disp'[q] = disp[q] /\ wire'[q] = wire[q] /\ draws'[q] = draws[q]
        /\ confirmed'[q] = confirmed[q] /\ Posted(q)' = Posted(q)
    BY <2>1 DEF Posted
  <2>4. B \subseteq C
    BY <1>3
  <2>5. CiphertextsOf(Peer(q))' = C
    BY <2>1
  <2> HIDE DEF B, C
  <2>6. /\ Crowd(All(disp[q]), wire[q], C, Posted(q), q, draws[q])
        /\ \A k \in confirmed[q] : Witnessed(k, C, q)
    BY <2>2, <2>4, CrowdHears, WitnessedGrows
  <2>7. Guarded(q)'
    BY <2>3, <2>5, <2>6 DEF Guarded
  <2>8. QED
    BY <2>7 DEF q
<1>6. \A q \in Party : Guarded(q)'
  BY <1>1, <1>4, <1>5
<1>7. QED
  BY <1>6 DEF KInv

(* A call whose Dispatcher the caller then drains. *)
LEMMA DrainGuards ==
    ASSUME KInv, SInv', NEW p \in Party, NEW d, Shape(d, p, draws'[p]), Drain(p, d),
           Goes(d, wire[p], CiphertextsOf(Peer(p)), Posted(p), p, draws[p])
    PROVE  KInv'
<1> DEFINE B == CiphertextsOf(Peer(p))
           P == Posted(p)
           n == draws[p]
<1>1. /\ disp' = [disp EXCEPT ![p] = Emptied(d)]
      /\ wire' = [wire EXCEPT ![p] = @ \cup d.outgoing]
      /\ confirmed' = [confirmed EXCEPT ![p] = @ \cup KeysAsResponder(d)]
      /\ draws' = [draws EXCEPT ![p] = IF Drew(p, d) THEN @ + 1 ELSE @]
      /\ posted' = posted
  BY DEF Drain
<1>2. /\ n \in Nat /\ draws \in [Party -> Nat]
      /\ disp = [q \in Party |-> disp[q]] /\ wire = [q \in Party |-> wire[q]]
      /\ confirmed = [q \in Party |-> confirmed[q]]
      /\ Guarded(p)
  BY DEF KInv, SInv
<1>3. /\ disp'[p] = Emptied(d) /\ wire'[p] = wire[p] \cup d.outgoing
      /\ confirmed'[p] = confirmed[p] \cup KeysAsResponder(d)
      /\ draws'[p] = IF Drew(p, d) THEN n + 1 ELSE n
      /\ confirmed' = [q \in Party |-> confirmed'[q]]
      /\ \A q \in Party : q # p =>
            /\ disp'[q] = disp[q] /\ wire'[q] = wire[q] /\ draws'[q] = draws[q]
            /\ confirmed'[q] = confirmed[q] /\ posted'[q] = posted[q]
      /\ P = Posted(p)'
  BY <1>1, <1>2 DEF Posted
<1>4. Goes(d, wire[p], B, P, p, n)
  OBVIOUS
<1> HIDE DEF B, P, n
<1>5. CrowdOf(d, wire[p], B, P, p, draws'[p])
  <2>1. CASE CrowdOf(d, wire[p], B, P, p, n)
    <3>1. CrowdOf(d, wire[p], B, P, p, n + 1)
      BY <1>2, <2>1, CrowdGrows DEF CrowdOf
    <3>2. QED
      BY <1>3, <2>1, <3>1
  <2>2. CASE CrowdOf(d, wire[p], B, P, p, n + 1) /\ \E s \in SessionsOf(d) : Took(s, p, n)
    <3>1. Drew(p, d)
      BY <2>2 DEF Took, Drew, Fresh, n
    <3>2. QED
      BY <1>3, <2>2, <3>1
  <2>3. QED
    BY <1>4, <2>1, <2>2 DEF Goes
<1>6. All(disp'[p]) = All(d)
  <2>1. LET e == Emptied(d)
        IN /\ e.established = d.established /\ e.responders = d.responders
           /\ e.templates = d.templates /\ e.forks = d.forks
    BY DEF Shape, Sound, Attributes, Emptied
  <2>2. QED
    BY <1>3, <2>1 DEF All, SessionsOf
<1>7. Crowd(All(disp'[p]), wire'[p], B, Posted(p)', p, draws'[p])
  BY <1>3, <1>5, <1>6 DEF CrowdOf
<1>8. ASSUME NEW k \in confirmed'[p] PROVE Witnessed(k, B, p)
  <2>1. CASE k \in confirmed[p]
    BY <1>2, <2>1 DEF Guarded, B
  <2>2. CASE k \in KeysAsResponder(d)
    <3>1. PICK s \in SessionsOf(d) : s.role = RESPONDER /\ s.state = ESTABLISHED /\ k = s.keys
      BY <2>2 DEF KeysAsResponder
    <3>2. Vouched(s, B, p)
      BY <1>5, <3>1 DEF CrowdOf, Crowd, All, Member
    <3>3. QED
      BY <3>1, <3>2 DEF Vouched, Witnessed
  <2>3. QED
    BY <1>3, <1>8, <2>1, <2>2
<1>9. wire[p] \subseteq wire'[p]
  BY <1>3
<1>10. QED
  BY <1>3, <1>7, <1>8, <1>9, GuardKept DEF B

(* A call that sends nothing. *)
LEMMA StepGuards ==
    ASSUME KInv, SInv', NEW p \in Party, NEW d,
           disp' = [disp EXCEPT ![p] = d], UNCHANGED <<wire, draws, confirmed>>,
           \A q \in Party : q # p => posted'[q] = posted[q],
           Crowd(All(d), wire[p], CiphertextsOf(Peer(p)), Posted(p)', p, draws[p])
    PROVE  KInv'
<1>1. disp = [q \in Party |-> disp[q]] /\ Guarded(p)
  BY DEF KInv, SInv
<1>2. disp'[p] = d /\ \A q \in Party : q # p => disp'[q] = disp[q]
  BY <1>1
<1>3. confirmed' = [q \in Party |-> confirmed'[q]]
  BY DEF KInv
<1>4. \A k \in confirmed'[p] : Witnessed(k, CiphertextsOf(Peer(p)), p)
  BY <1>1 DEF Guarded
<1>5. QED
  BY <1>2, <1>3, <1>4, GuardKept

LEMMA NoSessions ==
    ASSUME NEW S, NEW W, NEW B, NEW P, NEW p, NEW n, Crowd(S, W, B, P, p, n)
    PROVE  All(NewDispatcher(p)) = {} /\ Crowd({}, W, B, P, p, n)
<1> DEFINE none == <<>>
           e == NewDispatcher(p)
<1>1. DOMAIN none = {}
  OBVIOUS
<1>2. /\ e.established = none /\ e.responders = none /\ e.templates = none
      /\ e.forks = none
  BY DEF NewDispatcher
<1> HIDE DEF none, e
<1>3. \A u : u \notin All(e)
  BY <1>1, <1>2, AllOf
<1>4. QED
  BY <1>3, CrowdShrinks DEF e

(* What the network may bring. *)
LEMMA ArrivalsArrive ==
    ASSUME KInv, NEW p \in Party, NEW pdu \in Arrivals(p)
    PROVE  Arrives(pdu, CiphertextsOf(Peer(p)), p)
<1> DEFINE B == CiphertextsOf(Peer(p))
<1>1. Traffic(wire[Peer(p)], Posted(Peer(p)), Peer(p), draws[Peer(p)])
  BY PeerIsOther DEF KInv, Guarded, Crowd
<1>2. pdu = Malformed \/ pdu \in wire[Peer(p)]
  BY DEF Arrivals
<1>3. ASSUME pdu \in wire[Peer(p)]
      PROVE  /\ pdu.type = "session_init_request" => pdu.keyIdA = Peer(p)
             /\ CiphertextsIn(pdu) \subseteq B
  BY <1>1, <1>3 DEF Traffic, CiphertextsOf
<1> HIDE DEF B
<1>4. QED
  BY <1>2, <1>3 DEF Arrives, B

LEMMA NextGuards == KInv /\ [Next]_vars => KInv'
<1> SUFFICES ASSUME KInv, [Next]_vars PROVE KInv'
  OBVIOUS
<1>1. SInv'
  BY NextStructured DEF KInv
<1>2. ASSUME NEW p \in Party
      PROVE  /\ Shape(disp[p], p, draws[p]) /\ draws[p] \in Nat
             /\ disp[p].outgoing = {}
             /\ CrowdOf(disp[p], wire[p], CiphertextsOf(Peer(p)), Posted(p), p, draws[p])
             /\ Crowd(All(disp[p]), wire[p], CiphertextsOf(Peer(p)), Posted(p), p, draws[p])
             /\ Structured(p)'
  <2>1. /\ Structured(p) /\ draws[p] \in Nat /\ Guarded(p)
    BY DEF KInv, SInv
  <2>2. wire[p] \cup disp[p].outgoing = wire[p]
    BY <2>1 DEF Structured
  <2>3. Structured(p)'
    BY <1>1 DEF SInv
  <2>4. QED
    BY <2>1, <2>2, <2>3 DEF Structured, Guarded, CrowdOf
<1>3. ASSUME NEW p \in Party, NEW d, Drain(p, d), Shape(d, p, draws[p]),
             Goes(d, wire[p], CiphertextsOf(Peer(p)), Posted(p), p, draws[p])
      PROVE  KInv'
  <2>1. draws'[p] \in {draws[p], draws[p] + 1}
    BY <1>2, <1>3 DEF Drain, KInv, SInv
  <2>2. Shape(d, p, draws'[p])
    BY <1>2, <1>3, <2>1, ShapeGrows
  <2>3. QED
    BY <1>1, <1>3, <2>2, DrainGuards
<1>4. ASSUME NEW p \in Party, StartHandshake(p) PROVE KInv'
  <2> DEFINE d == DispatcherInitiate(disp[p], Peer(p), Fresh(p), 0).s
  <2>1. Drain(p, d)
    BY <1>4 DEF StartHandshake
  <2>2. CrowdOf(d, wire[p], CiphertextsOf(Peer(p)), Posted(p), p, draws[p])
    BY <1>2, DispatcherInitiateCrowd DEF Fresh
  <2>3. d = disp[p] \/ (Shape(d, p, draws[p] + 1) /\ Fresh(p) \in DOMAIN d.templates)
    BY <1>2, DispatcherInitiateShape DEF Fresh
  <2> HIDE DEF d
  <2>4. Goes(d, wire[p], CiphertextsOf(Peer(p)), Posted(p), p, draws[p])
    BY <2>2 DEF Goes
  <2>5. Shape(d, p, draws'[p])
    <3>1. CASE d = disp[p]
      <4>1. Shape(d, p, draws[p]) /\ Shape(d, p, draws[p] + 1)
        BY <1>2, <3>1, ShapeGrows
      <4>2. draws'[p] \in {draws[p], draws[p] + 1}
        BY <1>2, <2>1 DEF Drain, KInv, SInv
      <4>3. QED
        BY <4>1, <4>2
    <3>2. CASE Shape(d, p, draws[p] + 1) /\ Fresh(p) \in DOMAIN d.templates
      <4>1. Drew(p, d)
        BY <3>2 DEF Drew
      <4>2. draws'[p] = draws[p] + 1
        BY <2>1, <4>1 DEF Drain, KInv, SInv
      <4>3. QED
        BY <3>2, <4>2
    <3>3. QED
      BY <2>3, <3>1, <3>2
  <2>6. QED
    BY <1>1, <2>1, <2>4, <2>5, DrainGuards
<1>5. ASSUME NEW p \in Party, NEW pdu \in Arrivals(p), Deliver(p, pdu)
      PROVE  KInv'
  <2> DEFINE d == DispatcherPostPdu(disp[p], pdu, Fresh(p), 0).s
             B == CiphertextsOf(Peer(p))
  <2>1. Drain(p, d)
    BY <1>5 DEF Deliver
  <2>2. Peer(p) \in Party
    BY PeerIsOther
  <2>3. Asked(wire[Peer(p)], Peer(p), draws[Peer(p)]) /\ draws[Peer(p)] \in Nat
    BY <2>2 DEF KInv, SInv, Structured
  <2>4. pdu = Malformed \/ pdu \in wire[Peer(p)]
    BY <1>5 DEF Arrivals
  <2>5. Arrives(pdu, B, p)
    BY ArrivalsArrive
  <2>6. ASSUME pdu # Malformed, pdu.type = "session_init_request"
        PROVE  pdu.cid \in Theirs(p)
    <3>1. pdu.cid \in Drawn(Peer(p), draws[Peer(p)])
      BY <2>3, <2>4, <2>6 DEF Asked
    <3>2. QED
      BY <2>3, <3>1 DEF Drawn, Theirs
  <2>7. Shape(d, p, draws[p])
    BY <1>2, <2>6, DispatcherPostPduShape
  <2>8. Goes(d, wire[p], B, Posted(p), p, draws[p])
    BY <1>2, <2>5, <2>6, DispatcherPostPduGoes DEF Fresh
  <2>9. QED
    BY <1>3, <2>1, <2>7, <2>8
<1>6. ASSUME NEW p \in Party, Crank(p) PROVE KInv'
  <2> DEFINE d == DispatcherUpdate(disp[p], 0)
  <2>1. Shape(d, p, draws[p])
    BY <1>2, DispatcherUpdateShape
  <2>2. CrowdOf(d, wire[p], CiphertextsOf(Peer(p)), Posted(p), p, draws[p])
    BY <1>2, DispatcherUpdateCrowd
  <2>3. Drain(p, d)
    BY <1>6 DEF Crank
  <2> HIDE DEF d
  <2>4. QED
    BY <1>3, <2>1, <2>2, <2>3 DEF Goes
<1>7. ASSUME NEW p \in Party, NEW d, d.outgoing = {},
             CrowdOf(d, wire[p], CiphertextsOf(Peer(p)), Posted(p)', p, draws[p]),
             disp' = [disp EXCEPT ![p] = d], UNCHANGED <<wire, draws, confirmed>>,
             \A q \in Party : q # p => posted'[q] = posted[q]
      PROVE  KInv'
  <2>1. wire[p] \cup d.outgoing = wire[p]
    BY <1>7
  <2>2. Crowd(All(d), wire[p], CiphertextsOf(Peer(p)), Posted(p)', p, draws[p])
    BY <1>7, <2>1 DEF CrowdOf
  <2>3. QED
    BY <1>1, <1>7, <2>2, StepGuards
<1>8. ASSUME NEW p \in Party, NEW cid \in CanPost(disp[p]), Post(p, cid)
      PROVE  KInv'
  <2> DEFINE d == DispatcherPostPayload(disp[p], cid, <<p, posted[p] + 1>>)
  <2>posts. /\ posted \in [Party -> Nat] /\ posted' = [posted EXCEPT ![p] = @ + 1]
        /\ \A q \in Party : q # p => posted'[q] = posted[q]
    BY <1>8 DEF Post, KInv, SInv
  <2>payload. Posted(p) \subseteq Posted(p)' /\ <<p, posted[p] + 1>> \in Posted(p)' \ Posted(p)
    BY <2>posts DEF Posted, Posts
  <2>1. CrowdOf(d, wire[p], CiphertextsOf(Peer(p)), Posted(p)', p, draws[p])
    BY <1>2, <2>payload, DispatcherPostPayloadCrowd
  <2>2. d.outgoing = {}
    BY <1>2 DEF DispatcherPostPayload, Shape, Sound, Attributes
  <2>3. disp' = [disp EXCEPT ![p] = d] /\ UNCHANGED <<wire, draws, confirmed>>
    BY <1>8 DEF Post
  <2> HIDE DEF d
  <2>4. QED
    BY <1>7, <2>posts, <2>1, <2>2, <2>3
<1>9. ASSUME NEW p \in Party, NEW cid \in DOMAIN disp[p].established,
             CloseSession(p, cid)
      PROVE  KInv'
  <2> DEFINE d == Close(disp[p], cid)
  <2>1. CrowdOf(d, wire[p], CiphertextsOf(Peer(p)), Posted(p)', p, draws[p])
    BY <1>2, <1>9, CloseCrowd DEF CloseSession, Posted
  <2>2. d.outgoing = {}
    BY <1>2 DEF Close, Shape, Sound, Attributes
  <2>3. disp' = [disp EXCEPT ![p] = d] /\ UNCHANGED <<wire, draws, confirmed, posted>>
    BY <1>9 DEF CloseSession
  <2> HIDE DEF d
  <2>4. QED
    BY <1>7, <2>1, <2>2, <2>3
<1>10. ASSUME NEW p \in Party, Tick(p) PROVE KInv'
  <2> DEFINE d == Ticked(disp[p])
  <2>1. CrowdOf(d, wire[p], CiphertextsOf(Peer(p)), Posted(p)', p, draws[p])
    BY <1>2, <1>10, TickedCrowd DEF Tick, Posted
  <2>2. d.outgoing = {}
    BY <1>2 DEF Ticked, Shape, Sound, Attributes
  <2>3. disp' = [disp EXCEPT ![p] = d]
    <3>1. DOMAIN disp[p] = Attributes
      BY <1>2 DEF Shape, Sound
    <3>2. d = [disp[p] EXCEPT !.responders = AgedAll(@), !.templates = AgedAll(@),
                              !.forks = [cid \in DOMAIN @ |-> AgedAll(@[cid])],
                              !.store.candidates = AgedCandidates(@)]
      BY <3>1 DEF Ticked, AgedForksOf, AgedStore, Attributes
    <3>3. disp = [q \in Party |-> disp[q]]
      BY DEF KInv, SInv
    <3> HIDE DEF d
    <3>4. QED
      BY <1>10, <3>1, <3>2, <3>3 DEF Tick, AgedCandidates, Older, Attributes
  <2>4. UNCHANGED <<wire, draws, confirmed, posted>>
    BY <1>10 DEF Tick
  <2> HIDE DEF d
  <2>5. QED
    BY <1>7, <2>1, <2>2, <2>3, <2>4
<1>11. ASSUME NEW p \in Party, Restart(p) PROVE KInv'
  <2>1. /\ disp' = [disp EXCEPT ![p] = NewDispatcher(p)]
        /\ UNCHANGED <<wire, draws, confirmed, posted>>
    BY <1>11 DEF Restart
  <2>2. Crowd(All(NewDispatcher(p)), wire[p], CiphertextsOf(Peer(p)), Posted(p)', p, draws[p])
    BY <1>2, <2>1, NoSessions DEF Posted
  <2>3. QED
    BY <1>1, <2>1, <2>2, StepGuards
<1>12. CASE UNCHANGED vars
  BY <1>1, <1>12 DEF vars, KInv, Guarded, CiphertextsOf, Posted
<1>13. QED
  BY <1>4, <1>5, <1>6, <1>8, <1>9, <1>10, <1>11, <1>12 DEF Next

LEMMA InitGuards == Init => KInv
<1> SUFFICES ASSUME Init PROVE KInv
  OBVIOUS
<1>1. SInv
  BY InitStructured
<1>2. ASSUME NEW p \in Party PROVE Guarded(p)
  <2> DEFINE B == CiphertextsOf(Peer(p))
  <2>1. disp[p] = NewDispatcher(p) /\ wire[p] = {} /\ confirmed[p] = {}
    BY DEF Init
  <2>2. \A role : Ours({}, role) = {} /\ CiphertextsAmong({}) = {}
    BY DEF Ours, CiphertextsAmong
  <2>3. NoneTwice({}) /\ \A role : OwnCiphertexts({}, p, role, draws[p])
    BY DEF OwnCiphertexts, NoneTwice
  <2>4. Traffic({}, Posted(p), p, draws[p])
    BY <2>2, <2>3 DEF Traffic
  <2> HIDE DEF B
  <2>5. Crowd({}, {}, B, Posted(p), p, draws[p])
    BY <2>4 DEF Crowd
  <2>6. All(NewDispatcher(p)) = {}
    BY <2>5, NoSessions
  <2>7. QED
    BY <2>1, <2>5, <2>6 DEF Guarded, B
<1>3. confirmed = [p \in Party |-> confirmed[p]]
  BY DEF Init
<1>4. QED
  BY <1>1, <1>2, <1>3 DEF KInv

-----------------------------------------------------------------------------
(* "No key encrypts two plaintexts under one seq": each ciphertext names, by   *)
(* its direction and keys, one draw of one process, and of the sessions of     *)
(* that process one at most goes by that draw (session.py: seq, n_a and n_b;   *)
(* dispatcher.py: forks share a cid, an ephemeral key and payloads).           *)
THEOREM NoncesAreUnique == Spec => []NonceUnique
<1>1. KInv => NonceUnique
  <2> SUFFICES ASSUME KInv,
                      NEW p \in Party, NEW c \in CiphertextsOf(p),
                      NEW q \in Party, NEW d \in CiphertextsOf(q),
                      c.keys = d.keys, c.dir = d.dir, c.seq = d.seq
               PROVE  c = d
    BY DEF NonceUnique
  <2>1. Traffic(wire[p], Posted(p), p, draws[p]) /\ Traffic(wire[q], Posted(q), q, draws[q])
    BY DEF KInv, Guarded, Crowd
  <2>2. ASSUME NEW o \in Party, NEW e \in CiphertextsOf(o), Traffic(wire[o], Posted(o), o, draws[o])
        PROVE  \E role \in Roles :
                 /\ e \in CiphertextsAmong(Ours(wire[o], role)) /\ e.dir = OwnDir(role)
                 /\ OwnDraw(role, e.keys) \in Drawn(o, draws[o])
    <3>1. PICK x \in wire[o] : e \in CiphertextsIn(x)
      BY <2>2 DEF CiphertextsOf
    <3>2. PICK role \in Roles : x \in Ours(wire[o], role)
      BY <2>2, <3>1 DEF Traffic
    <3>3. e \in CiphertextsAmong(Ours(wire[o], role))
      BY <3>1, <3>2 DEF CiphertextsAmong
    <3>4. OwnCiphertexts(CiphertextsAmong(Ours(wire[o], role)), o, role, draws[o])
      BY <2>2 DEF Traffic
    <3>5. QED
      BY <3>3, <3>4 DEF OwnCiphertexts
  <2>3. PICK role \in Roles :
          /\ c \in CiphertextsAmong(Ours(wire[p], role)) /\ c.dir = OwnDir(role)
          /\ OwnDraw(role, c.keys) \in Drawn(p, draws[p])
    BY <2>1, <2>2
  <2>4. PICK other \in Roles :
          /\ d \in CiphertextsAmong(Ours(wire[q], other)) /\ d.dir = OwnDir(other)
          /\ OwnDraw(other, d.keys) \in Drawn(q, draws[q])
    BY <2>1, <2>2
  <2>5. role = other
    BY <2>3, <2>4, OneDir
  <2>6. p = q
    <3>1. \A o, m : \A x \in Drawn(o, m) : x[1] = o
      BY DEF Drawn
    <3>2. OwnDraw(role, c.keys) = OwnDraw(other, d.keys)
      BY <2>5
    <3>3. QED
      BY <2>3, <2>4, <3>1, <3>2
  <2>7. OwnCiphertexts(CiphertextsAmong(Ours(wire[p], role)), p, role, draws[p])
    BY <2>1 DEF Traffic
  <2>8. QED
    BY <2>3, <2>4, <2>5, <2>6, <2>7 DEF OwnCiphertexts
<1>2. QED
  BY InitGuards, NextGuards, <1>1, PTL DEF Spec

(* "c_m authenticates the initiator" (session.py, _handle_session_completion_  *)
(* request): whatever restarts, expiries and duplicates do, keys a process     *)
(* established as a responder name its peer as the initiator, and the peer     *)
(* made a c_m under them.                                                      *)
THEOREM RespondersAreAuthentic == Spec => []ResponderAuthentic
<1>1. KInv => ResponderAuthentic
  BY DEF KInv, Guarded, Witnessed, ResponderAuthentic
<1>2. QED
  BY InitGuards, NextGuards, <1>1, PTL DEF Spec

-----------------------------------------------------------------------------
(* What is handed over.  The payload of an entry was taken, in the session its *)
(* cid names, at a seq that the session no longer waits for.                   *)
Heard(e, s, B) ==
    \E c \in B : /\ ~Blank(c) /\ c.plain = e.payload
                 /\ Takes(s, c, c.seq) /\ c.seq \in Nat /\ c.seq < TheirSeq(s)

LogOf(log, d, B) ==
    /\ \A e \in log : e.cid \in DOMAIN d.established /\ Heard(e, d.established[e.cid], B)
    /\ \A e, f \in log : e.cid = f.cid /\ e.payload = f.payload => e = f

(* The peer's ciphertexts: under any keys, no payload twice. *)
PeerOnce(B) ==
    \A c, e \in B : c.keys = e.keys /\ c.dir = e.dir /\ c.plain = e.plain
                    => c = e \/ Blank(c) \/ Blank(e)

(* An established session after a call: it never waits for a seq again. *)
Onward(s, t) ==
    /\ t.role = s.role /\ t.keys = s.keys
    /\ TheirSeq(s) \in Nat /\ TheirSeq(t) \in Nat /\ TheirSeq(s) <= TheirSeq(t)

Continues(d, e) ==
    \A cid \in DOMAIN d.established :
        /\ cid \in DOMAIN e.established
        /\ Onward(d.established[cid], e.established[cid])

(* The session of `cid` took c in this call. *)
TakenIn(d, e, cid, c) ==
    /\ cid \in DOMAIN e.established
    /\ ~Blank(c) /\ c.seq \in Nat
    /\ Takes(e.established[cid], c, c.seq)
    /\ TheirSeq(e.established[cid]) = c.seq + 1
    /\ cid \in DOMAIN d.established => TheirSeq(d.established[cid]) = c.seq

(* A method hands over one payload at most. *)
Tells(d, e, B) ==
    /\ Continues(d, e)
    /\ \/ e.payloads = <<>>
       \/ \E cid : \E c \in B : e.payloads = << <<cid, c.plain>> >> /\ TakenIn(d, e, cid, c)

(* Dispatcher._drain's view of a session's payloads. *)
Handed(s) == [i \in DOMAIN s.outgoingPayloads |-> <<s.cid, s.outgoingPayloads[i]>>]

LEMMA HandedOne ==
    ASSUME NEW s
    PROVE  /\ s.outgoingPayloads = <<>> => <<>> \o Handed(s) = <<>>
           /\ \A x : s.outgoingPayloads = <<x>> => <<>> \o Handed(s) = << <<s.cid, x>> >>
<1>1. ASSUME s.outgoingPayloads = <<>> PROVE Handed(s) = <<>>
  BY <1>1 DEF Handed
<1>2. ASSUME NEW x, s.outgoingPayloads = <<x>> PROVE Handed(s) = << <<s.cid, x>> >>
  BY <1>2 DEF Handed
<1>3. \A y : <<>> \o <<y>> = <<y>>
  OBVIOUS
<1>4. <<>> \o <<>> = <<>>
  OBVIOUS
<1>5. QED
  BY <1>1, <1>2, <1>3, <1>4

LEMMA HeardOnward ==
    ASSUME NEW e, NEW s, NEW B, Heard(e, s, B), NEW t, Onward(s, t)
    PROVE  Heard(e, t, B)
<1>1. PICK c \in B : /\ ~Blank(c) /\ c.plain = e.payload
                     /\ Takes(s, c, c.seq) /\ c.seq \in Nat /\ c.seq < TheirSeq(s)
  BY DEF Heard
<1>2. Takes(t, c, c.seq) /\ c.seq < TheirSeq(t)
  BY <1>1 DEF Takes, Onward
<1>3. QED
  BY <1>1, <1>2 DEF Heard

LEMMA LogContinues ==
    ASSUME NEW log, NEW d, NEW B, LogOf(log, d, B), NEW e, Continues(d, e),
           NEW C, B \subseteq C
    PROVE  LogOf(log, e, C)
<1>1. ASSUME NEW x \in log
      PROVE  x.cid \in DOMAIN e.established /\ Heard(x, e.established[x.cid], C)
  <2>1. /\ x.cid \in DOMAIN e.established
        /\ Onward(d.established[x.cid], e.established[x.cid])
        /\ Heard(x, d.established[x.cid], B)
    BY DEF LogOf, Continues
  <2>2. Heard(x, e.established[x.cid], B)
    BY <2>1, HeardOnward
  <2>3. QED
    BY <2>1, <2>2 DEF Heard
<1>2. QED
  BY <1>1 DEF LogOf

(* What is handed over now was not handed over before. *)
LEMMA LogTells ==
    ASSUME NEW log, NEW d, NEW B, LogOf(log, d, B), PeerOnce(B), NEW e, Tells(d, e, B)
    PROVE  LogOf(Logged(log, e.payloads), e, B)
<1>1. LogOf(log, e, B)
  BY LogContinues DEF Tells
<1>2. CASE e.payloads = <<>>
  <2>1. Logged(log, e.payloads) = log
    BY <1>2 DEF Logged
  <2>2. QED
    BY <1>1, <2>1
<1>3. ASSUME NEW cid, NEW c \in B, e.payloads = << <<cid, c.plain>> >>, TakenIn(d, e, cid, c)
      PROVE  LogOf(Logged(log, e.payloads), e, B)
  <2> DEFINE new == [cid |-> cid, payload |-> c.plain,
                     at |-> Max({0} \cup PlacesOf(log, cid)) + 1]
  <2>1. Logged(log, e.payloads) = log \cup {new}
    BY <1>3 DEF Logged
  <2>2. new.cid = cid /\ new.payload = c.plain
    OBVIOUS
  <2> HIDE DEF new
  <2>3. Heard(new, e.established[cid], B)
    BY <1>3, <2>2 DEF Heard, TakenIn
  <2>4. ASSUME NEW f \in log, f.cid = cid, f.payload = c.plain PROVE FALSE
    <3> DEFINE s == d.established[cid]
    <3>1. cid \in DOMAIN d.established /\ Heard(f, s, B)
      BY <2>4 DEF LogOf
    <3>2. Onward(s, e.established[cid]) /\ TheirSeq(s) = c.seq
      BY <1>3, <3>1 DEF Tells, Continues, TakenIn
    <3> HIDE DEF s
    <3>3. PICK x \in B : /\ ~Blank(x) /\ x.plain = c.plain
                         /\ Takes(s, x, x.seq) /\ x.seq \in Nat /\ x.seq < TheirSeq(s)
      BY <2>4, <3>1 DEF Heard
    <3>4. x.keys = c.keys /\ x.dir = c.dir /\ ~Blank(c) /\ c.seq \in Nat
      BY <1>3, <3>2, <3>3 DEF TakenIn, Takes, Onward
    <3>5. x = c
      BY <3>3, <3>4 DEF PeerOnce
    <3>6. QED
      BY <3>2, <3>3, <3>5
  <2>5. cid \in DOMAIN e.established
    BY <1>3 DEF TakenIn
  <2>6. QED
    BY <1>1, <2>1, <2>2, <2>3, <2>4, <2>5 DEF LogOf
<1>4. QED
  BY <1>2, <1>3 DEF Tells

LEMMA ContinuesSame ==
    ASSUME NEW p, NEW n, NEW d, Shape(d, p, n), NEW e, e.established = d.established
    PROVE  Continues(d, e)
<1>1. \A cid \in DOMAIN d.established : TheirSeq(d.established[cid]) \in Nat
  BY DEF Shape, EstablishedOK, Held, Object, TheirSeq
<1>2. QED
  BY <1>1 DEF Continues, Onward

(* One session was updated and drained, and stays or becomes established. *)
LEMMA OneTells ==
    ASSUME NEW p \in Party, NEW n, NEW d, Shape(d, p, n), d.payloads = <<>>, NEW B,
           NEW a, Object(a, p, a.role, Payloads(p)), a.role \in Roles, Settled(a),
           NEW pdu, Arrives(pdu, B, p), NEW fresh, NEW now \in Nat,
           NEW cid, cid \in DOMAIN d.established => a = d.established[cid],
           NEW b, b = Update(a, pdu, fresh, now).s,
           b.outgoingPayloads # <<>> => b.cid = cid,
           NEW e, e.payloads = d.payloads \o Handed(b),
           IF b.state = ESTABLISHED
           THEN e.established = With(d.established, cid, Drained(b))
           ELSE e.established = d.established
    PROVE  Tells(d, e, B)
<1> DEFINE t == Drained(b)
<1>1. Object(b, p, a.role, Payloads(p)) /\ a.role \in {INITIATOR, RESPONDER}
  BY UpdateObject DEF Roles
<1>2. \/ Silent(a, b)
      \/ pdu \notin {None, Malformed} /\ \E c \in CiphertextsIn(pdu) : Hands(a, b, c)
  BY <1>1, UpdateHands
<1> HIDE DEF t
<1>3. TheirSeq(b) \in Nat /\ b = [f \in Fields |-> b[f]] /\ b.role = a.role
      /\ TheirSeq(a) \in Nat
  <2>1. b.seqA2B \in Nat /\ b.seqB2A \in Nat /\ a.seqA2B \in Nat /\ a.seqB2A \in Nat
    BY <1>1 DEF Object
  <2>2. b = [f \in Fields |-> b[f]] /\ b.role = a.role
    BY <1>1 DEF Object
  <2>3. QED
    BY <2>1, <2>2 DEF TheirSeq
<1>4. /\ t.role = b.role /\ t.keys = b.keys /\ TheirSeq(t) = TheirSeq(b)
  <2>1. Silent(a, b) \/ \E c : Hands(a, b, c)
    BY <1>2
  <2>2. Drained(b).role = b.role /\ Drained(b).keys = b.keys
        /\ TheirSeq(Drained(b)) = TheirSeq(b)
    BY <1>3, <2>1, DrainedSettled
  <2>3. QED
    BY <2>2 DEF t
<1>5. e.established = d.established => Continues(d, e)
  BY ContinuesSame
<1>6. \A k \in DOMAIN d.established :
        TheirSeq(d.established[k]) \in Nat /\ d.established[k].state = ESTABLISHED
  BY DEF Shape, EstablishedOK, Held, Object, TheirSeq
<1>7. b.state = ESTABLISHED =>
        /\ DOMAIN e.established = DOMAIN d.established \cup {cid}
        /\ e.established[cid] = t
        /\ \A k \in DOMAIN d.established : k # cid => e.established[k] = d.established[k]
  BY DEF With, t
<1>8. cid \in DOMAIN d.established =>
        a.state = ESTABLISHED /\ d.established[cid] = a
  BY <1>6
<1>9. CASE Silent(a, b)
  <2>1. e.payloads = <<>>
    BY <1>9, HandedOne DEF Silent, Settled
  <2>2. ASSUME b.state = ESTABLISHED, NEW k \in DOMAIN d.established
        PROVE  Onward(d.established[k], e.established[k])
    <3>1. CASE k = cid
      BY <1>3, <1>4, <1>7, <1>8, <1>9, <2>2, <3>1 DEF Silent, Onward
    <3>2. CASE k # cid
      BY <1>6, <1>7, <2>2, <3>2 DEF Onward
    <3>3. QED
      BY <3>1, <3>2
  <2>3. Continues(d, e)
    BY <1>5, <1>7, <2>2 DEF Continues
  <2>4. QED
    BY <2>1, <2>3 DEF Tells
<1>10. ASSUME pdu \notin {None, Malformed}, NEW c \in CiphertextsIn(pdu), Hands(a, b, c)
       PROVE  Tells(d, e, B)
  <2>1. b.state = ESTABLISHED /\ b.outgoingPayloads = <<c.plain>>
    BY <1>10 DEF Hands
  <2>2. b.cid = cid
    BY <2>1
  <2>3. e.payloads = << <<cid, c.plain>> >>
    BY <2>1, <2>2, HandedOne
  <2>4. TakenIn(d, e, cid, c)
    BY <1>4, <1>7, <1>8, <1>10, <2>1 DEF TakenIn, Hands, Takes
  <2>5. ASSUME NEW k \in DOMAIN d.established
        PROVE  Onward(d.established[k], e.established[k])
    <3>1. CASE k = cid
      BY <1>3, <1>4, <1>7, <1>8, <1>10, <2>1, <3>1 DEF Hands, Onward
    <3>2. CASE k # cid
      BY <1>6, <1>7, <2>1, <3>2 DEF Onward
    <3>3. QED
      BY <3>1, <3>2
  <2>6. Continues(d, e)
    BY <1>7, <2>1, <2>5 DEF Continues
  <2>7. c \in B
    BY <1>10 DEF Arrives
  <2>8. QED
    BY <2>3, <2>4, <2>6, <2>7 DEF Tells
<1>11. QED
  BY <1>2, <1>9, <1>10

LEMMA CrowdSettled ==
    ASSUME NEW p, NEW n, NEW d, NEW W, NEW B, NEW P, CrowdOf(d, W, B, P, p, n),
           NEW s \in All(d)
    PROVE  s.role \in Roles /\ Settled(s)
BY DEF CrowdOf, Crowd, Member

LEMMA DrainFromValues ==
    ASSUME NEW d, DOMAIN d = Attributes, NEW s
    PROVE  LET e == DrainFrom(d, s)
           IN /\ e.established = d.established /\ e.responders = d.responders
              /\ e.forks = d.forks /\ e.templates = d.templates
              /\ e.payloads = d.payloads \o Handed(s) /\ DOMAIN e = Attributes
BY DEF DrainFrom, Handed, Attributes

LEMMA DeliverEstablishedTells ==
    ASSUME NEW p \in Party, NEW n, NEW d, Shape(d, p, n), d.payloads = <<>>, NEW W, NEW B,
           NEW P, CrowdOf(d, W, B, P, p, n), NEW pdu, Arrives(pdu, B, p), NEW fresh,
           NEW now \in Nat, pdu.cid \in DOMAIN d.established
    PROVE  Tells(d, DeliverEstablished(d, pdu, fresh, now).s, B)
<1> DEFINE cid == pdu.cid
           a == d.established[cid]
           r == Update(a, pdu, fresh, now)
           b == r.s
           out == DeliverEstablished(d, pdu, fresh, now).s
<1>1. /\ Held(a, cid, p, n) /\ a.state = ESTABLISHED /\ a.state # INITIAL
      /\ Object(a, p, a.role, Payloads(p)) /\ a.role \in Roles /\ Settled(a)
  BY AllOf, CrowdSettled DEF Shape, EstablishedOK, Held, ESTABLISHED, INITIAL
<1>2. (r.exn # NoError => b = a) /\ Held(b, cid, p, n)
  BY <1>1, HeldUpdate DEF Raised
<1>3. DOMAIN d = Attributes
  BY DEF Shape, Sound
<1>4. CASE r.exn \notin Swallowed
  <2>1. out = [d EXCEPT !.established[cid] = a]
    BY <1>2, <1>4 DEF DeliverEstablished, EstablishedDelivered, Raise, Swallowed
  <2>2. /\ out.established = [d.established EXCEPT ![cid] = a]
        /\ out.payloads = <<>>
    BY <1>3, <2>1 DEF Attributes
  <2> HIDE DEF out
  <2>3. ASSUME NEW k \in DOMAIN d.established
        PROVE  /\ k \in DOMAIN out.established
               /\ out.established[k] = d.established[k]
               /\ TheirSeq(d.established[k]) \in Nat
    <3>1. Object(d.established[k], p, d.established[k].role, Payloads(p))
      BY DEF Shape, EstablishedOK, Held
    <3>2. QED
      BY <2>2, <3>1 DEF Object, TheirSeq
  <2>4. QED
    BY <2>2, <2>3 DEF Tells, Continues, Onward, out
<1>5. CASE r.exn \in Swallowed
  <2> DEFINE f == [d.established EXCEPT ![cid] = Drained(b)]
             e == [d EXCEPT !.established = f]
  <2>1. out = DrainFrom(e, b)
    BY <1>5 DEF DeliverEstablished, EstablishedDelivered, Return
  <2>2. e.established = f /\ e.payloads = d.payloads /\ DOMAIN e = Attributes
    BY <1>3 DEF Attributes
  <2>3. f = With(d.established, cid, Drained(b))
    BY DEF With
  <2>4. /\ out.established = With(d.established, cid, Drained(b))
        /\ out.payloads = d.payloads \o Handed(b)
    <3> HIDE DEF e, f, b, out
    <3>1. QED
      BY <2>1, <2>2, <2>3, DrainFromValues
  <2>5. b.state = ESTABLISHED /\ b.cid = cid
    <3>1. \/ Silent(a, b)
          \/ pdu \notin {None, Malformed} /\ \E c \in CiphertextsIn(pdu) : Hands(a, b, c)
      BY <1>1, UpdateHands DEF Roles
    <3> HIDE DEF b
    <3>2. QED
      BY <1>1, <1>2, <3>1 DEF Silent, Hands, Held
  <2>6. b = Update(a, pdu, fresh, now).s
    OBVIOUS
  <2> HIDE DEF b, out, a
  <2>7. Tells(d, out, B)
    BY <1>1, <2>4, <2>5, <2>6, OneTells DEF a
  <2>8. QED
    BY <2>7 DEF out
<1>6. QED
  BY <1>4, <1>5

LEMMA ResponderDeliveredTells ==
    ASSUME NEW p \in Party, NEW n, NEW d, Shape(d, p, n), d.payloads = <<>>, NEW B,
           NEW cid, cid \notin DOMAIN d.established,
           NEW a, Object(a, p, a.role, Payloads(p)), a.role \in Roles, Settled(a),
           NEW pdu, Arrives(pdu, B, p), NEW fresh, NEW now \in Nat,
           NEW r, r = Update(a, pdu, fresh, now),
           r.s.outgoingPayloads # <<>> => r.s.cid = cid
    PROVE  Tells(d, ResponderDelivered(d, cid, r).s, B)
<1> DEFINE out == ResponderDelivered(d, cid, r).s
           b == r.s
           f == With(d.responders, cid, Drained(b))
           e == [d EXCEPT !.responders = f]
           g == DrainFrom(e, b)
<1>1. DOMAIN d = Attributes
  BY DEF Shape, Sound
<1>2. CASE r.exn \notin Swallowed
  <2>1. out = [d EXCEPT !.responders = With(@, cid, b)]
    BY <1>2 DEF ResponderDelivered, Raise
  <2>2. out.established = d.established /\ out.payloads = <<>>
    BY <1>1, <2>1 DEF Attributes
  <2>3. Continues(d, out)
    BY <2>2, ContinuesSame
  <2>4. QED
    BY <2>2, <2>3 DEF Tells
<1>3. CASE r.exn \in Swallowed
  <2>1. out = ReapResponder(g, cid)
    BY <1>3 DEF ResponderDelivered, Return
  <2>2. /\ e.established = d.established /\ e.responders = f
        /\ e.payloads = d.payloads /\ DOMAIN e = Attributes
    BY <1>1 DEF Attributes
  <2>3. f[cid] = Drained(b)
    BY DEF With
  <2>4. /\ g.established = d.established /\ g.responders[cid] = Drained(b)
        /\ g.payloads = d.payloads \o Handed(b) /\ DOMAIN g = Attributes
    <3> HIDE DEF e, f, b
    <3>1. QED
      BY <2>2, <2>3, DrainFromValues
  <2>5. Drained(b).state = b.state
    <3>1. Object(b, p, a.role, Payloads(p))
      BY UpdateObject
    <3>2. QED
      BY <3>1, DrainedAlike DEF Object
  <2> HIDE DEF g, b
  <2>6. /\ out.payloads = g.payloads
        /\ IF b.state = ESTABLISHED
           THEN out.established = With(d.established, cid, Drained(b))
           ELSE out.established = d.established
    <3>1. CASE b.state = ESTABLISHED
      <4>1. out = Promote(g, cid, Drained(b))
        BY <2>1, <2>4, <2>5, <3>1 DEF ReapResponder
      <4>2. QED
        BY <2>4, <3>1, <4>1 DEF Promote, Attributes
    <3>2. CASE b.state # ESTABLISHED
      <4>1. out \in {[g EXCEPT !.responders = Without(@, cid), !.store = Forget(@, cid)], g}
        BY <2>1, <2>4, <2>5, <3>2 DEF ReapResponder
      <4>2. QED
        BY <2>4, <3>2, <4>1 DEF Attributes
    <3>3. QED
      BY <3>1, <3>2
  <2> HIDE DEF out
  <2>7. b = Update(a, pdu, fresh, now).s /\ (b.outgoingPayloads # <<>> => b.cid = cid)
    BY DEF b
  <2>8. Tells(d, out, B)
    BY <2>4, <2>6, <2>7, OneTells
  <2>9. QED
    BY <2>8 DEF out
<1>4. QED
  BY <1>2, <1>3

LEMMA DeliverResponderTells ==
    ASSUME NEW p \in Party, NEW n, NEW d, Shape(d, p, n), d.payloads = <<>>, NEW W, NEW B,
           NEW P, CrowdOf(d, W, B, P, p, n), NEW pdu, Arrives(pdu, B, p), NEW fresh,
           NEW now \in Nat, pdu.cid \in DOMAIN d.responders
    PROVE  Tells(d, DeliverResponder(d, pdu, fresh, now).s, B)
<1> DEFINE cid == pdu.cid
           a == d.responders[cid]
           r == Update(a, pdu, fresh, now)
<1>1. /\ Held(a, cid, p, n) /\ a.role = RESPONDER /\ a \in All(d)
      /\ cid \notin DOMAIN d.established
  BY AllOf, CidsApart DEF Shape, RespondersOK
<1>2. Object(a, p, a.role, Payloads(p)) /\ a.role \in Roles /\ Settled(a)
  BY <1>1, CrowdSettled DEF Held
<1>3. r.s.cid = cid
  <2>1. Held(r.s, cid, p, n)
    BY <1>1, HeldUpdate
  <2>2. QED
    BY <2>1 DEF Held
<1>4. DeliverResponder(d, pdu, fresh, now) = ResponderDelivered(d, cid, r)
  BY DEF DeliverResponder
<1> HIDE DEF a
<1>5. QED
  BY <1>1, <1>2, <1>3, <1>4, ResponderDeliveredTells

(* A handshake's first two PDUs carry no payload. *)
LEMMA NothingHanded ==
    ASSUME NEW p \in Party, NEW a, Object(a, p, a.role, Payloads(p)), a.role \in Roles,
           Settled(a), NEW pdu,
           pdu.type \in {"session_init_request", "session_init_response"},
           NEW fresh, NEW now \in Nat
    PROVE  Update(a, pdu, fresh, now).s.outgoingPayloads = <<>>
<1> DEFINE b == Update(a, pdu, fresh, now).s
<1>1. \/ Silent(a, b)
      \/ pdu \notin {None, Malformed} /\ \E c \in CiphertextsIn(pdu) : Hands(a, b, c)
  BY UpdateHands DEF Roles
<1> HIDE DEF b
<1>2. CiphertextsIn(pdu) = {}
  BY DEF CiphertextsIn
<1>3. b.outgoingPayloads = <<>>
  BY <1>1, <1>2 DEF Silent, Settled
<1>4. QED
  BY <1>3 DEF b

LEMMA TellsSame ==
    ASSUME NEW p, NEW n, NEW d, Shape(d, p, n), NEW B,
           NEW e, e.established = d.established, e.payloads = <<>>
    PROVE  Tells(d, e, B)
BY ContinuesSame DEF Tells

LEMMA RouteSessionInitRequestTells ==
    ASSUME NEW p \in Party, NEW n, NEW d, Shape(d, p, n), d.payloads = <<>>, NEW W, NEW B,
           NEW P, CrowdOf(d, W, B, P, p, n), NEW pdu, Arrives(pdu, B, p), NEW fresh,
           NEW now \in Nat, pdu.type = "session_init_request",
           pdu.cid \notin DOMAIN d.established
    PROVE  Tells(d, RouteSessionInitRequest(d, pdu, fresh, now).s, B)
<1> DEFINE cid == pdu.cid
           stored == [d EXCEPT !.store = Add(@, cid, pdu, None, now)]
           a == NewSession(p, RESPONDER)
           r == Update(a, pdu, fresh, now)
           out == RouteSessionInitRequest(d, pdu, fresh, now).s
<1>1. DOMAIN d = Attributes /\ d.owner = p
  BY DEF Shape, Sound
<1>2. /\ stored.owner = p /\ stored.established = d.established
      /\ stored.payloads = <<>> /\ DOMAIN stored = Attributes
  BY <1>1 DEF Attributes
<1>3. Shape(stored, p, n)
  BY StoredShape
<1>4. CASE cid \in DOMAIN d.responders
  <2>1. out = DeliverResponder(d, pdu, fresh, now).s
    BY <1>4 DEF RouteSessionInitRequest
  <2>2. QED
    BY <1>4, <2>1, DeliverResponderTells
<1>5. CASE cid \notin DOMAIN d.responders /\ ~CanAdd(d.store, cid, now)
  <2>1. out = stored
    BY <1>5 DEF RouteSessionInitRequest, Return
  <2>2. QED
    BY <1>2, <2>1, TellsSame
<1>6. CASE cid \notin DOMAIN d.responders /\ CanAdd(d.store, cid, now)
  <2>1. out = ResponderStarted(stored, cid, r).s
    BY <1>1, <1>6 DEF RouteSessionInitRequest
  <2>2. CASE r.exn \in Swallowed /\ r.s.state = INITIAL
    <3>1. out = [stored EXCEPT !.store = Forget(@, cid)]
      BY <2>1, <2>2 DEF ResponderStarted, Return
    <3>2. out.established = d.established /\ out.payloads = <<>>
      BY <1>2, <3>1 DEF Attributes
    <3>3. QED
      BY <3>2, TellsSame
  <2>3. CASE ~(r.exn \in Swallowed /\ r.s.state = INITIAL)
    <3>1. Object(a, p, a.role, Payloads(p)) /\ a.role \in Roles /\ Settled(a)
      BY NewMember DEF Roles, Member
    <3>2. out = ResponderDelivered(stored, cid, r).s
      BY <2>1, <2>3 DEF ResponderStarted
    <3> HIDE DEF a, stored
    <3>3. r.s.outgoingPayloads = <<>>
      BY <3>1, NothingHanded
    <3>4. r = Update(a, pdu, fresh, now)
      OBVIOUS
    <3> HIDE DEF r
    <3>5. Tells(stored, ResponderDelivered(stored, cid, r).s, B)
      BY <1>2, <1>3, <3>1, <3>3, <3>4, ResponderDeliveredTells
    <3>6. Tells(stored, out, B)
      BY <3>2, <3>5
    <3> HIDE DEF out
    <3>7. Tells(d, out, B)
      BY <1>2, <3>6 DEF Tells, Continues, TakenIn
    <3>8. QED
      BY <3>7 DEF out
  <2>4. QED
    BY <2>2, <2>3
<1>7. QED
  BY <1>4, <1>5, <1>6

LEMMA RouteSessionInitResponseTells ==
    ASSUME NEW p \in Party, NEW n, NEW d, Shape(d, p, n), d.payloads = <<>>, NEW W, NEW B,
           NEW P, CrowdOf(d, W, B, P, p, n), NEW pdu, NEW fresh, NEW now \in Nat,
           pdu.type = "session_init_response"
    PROVE  Tells(d, RouteSessionInitResponse(d, pdu, fresh, now).s, B)
<1> DEFINE cid == pdu.cid
           forks == d.forks[cid]
           template == d.templates[cid]
           tried == Tried(forks, pdu)
           i == Min(tried)
           again == Update(forks[i], pdu, fresh, now)
           a == Fork(template)
           new == Update(a, pdu, fresh, now)
           stored == [d EXCEPT !.store = Add(@, cid, pdu, None, now)]
           out == RouteSessionInitResponse(d, pdu, fresh, now).s
<1>1. DOMAIN d = Attributes
  BY DEF Shape, Sound
<1>2. /\ stored.established = d.established /\ stored.payloads = <<>>
      /\ DOMAIN stored = Attributes
  BY <1>1 DEF Attributes
<1>3. CASE cid \notin DOMAIN d.templates
  <2>1. out = d
    BY <1>3 DEF RouteSessionInitResponse, Return
  <2>2. QED
    BY <2>1, TellsSame
<1>4. CASE cid \in DOMAIN d.templates
  <2>1. /\ cid \in DOMAIN d.forks /\ Held(template, cid, p, n) /\ CanFork(template)
        /\ ForksOK(forks, template, p, n) /\ template.cid = cid
    BY <1>4 DEF Shape, TemplatesOK, Held
  <2>2. CASE tried # {}
    <3>1. i \in DOMAIN forks
      <4>1. PICK k \in Nat : DOMAIN forks \subseteq 1..k
        BY <2>1 DEF ForksOK
      <4>2. tried \subseteq DOMAIN forks
        BY DEF Tried
      <4> HIDE DEF tried, forks
      <4>3. Min(tried) \in tried
        BY <2>2, <4>1, <4>2, MinOf
      <4>4. QED
        BY <4>2, <4>3
    <3>2. out = ForkDelivered(d, cid, i, again).s
      BY <1>4, <2>2 DEF RouteSessionInitResponse
    <3>3. forks[i] \in All(d) /\ Held(forks[i], cid, p, n)
      BY <2>1, <3>1, AllOf DEF ForksOK
    <3>4. again.s.outgoingPayloads = <<>>
      <4> DEFINE s == forks[i]
      <4>1. Object(s, p, s.role, Payloads(p)) /\ s.role \in Roles /\ Settled(s)
        BY <3>3, CrowdSettled DEF Held
      <4> HIDE DEF s
      <4>2. Update(s, pdu, fresh, now).s.outgoingPayloads = <<>>
        BY <4>1, NothingHanded
      <4>3. QED
        BY <4>2 DEF s
    <3> HIDE DEF again
    <3> DEFINE e == [d EXCEPT !.forks[cid][i] = Drained(again.s)]
    <3>5. out = DrainFrom(e, again.s)
      BY <3>2 DEF ForkDelivered, Return
    <3>6. /\ e.established = d.established /\ e.payloads = <<>> /\ DOMAIN e = Attributes
      BY <1>1 DEF Attributes
    <3> HIDE DEF e, out
    <3>7. out.established = d.established /\ out.payloads = <<>>
      BY <3>4, <3>5, <3>6, DrainFromValues, HandedOne
    <3>8. QED
      BY <3>7, TellsSame DEF out
  <2>3. CASE tried = {} /\ ~CanAdd(d.store, cid, now)
    <3>1. out = stored
      BY <1>4, <2>3 DEF RouteSessionInitResponse, Return
    <3>2. QED
      BY <1>2, <3>1, TellsSame
  <2>4. CASE tried = {} /\ CanAdd(d.store, cid, now)
    <3>1. out = ForkStarted(stored, cid, new).s
      BY <1>4, <2>4 DEF RouteSessionInitResponse
    <3>2. new.s.outgoingPayloads = <<>>
      <4>1. a.outgoingPayloads = <<>>
        BY DEF Fork, NewSession
      <4>2. Held(a, cid, p, n) /\ a.role = INITIATOR
        BY <2>1, ForkHeld
      <4> HIDE DEF a
      <4>3. Object(a, p, a.role, Payloads(p)) /\ a.role \in Roles /\ Settled(a)
        BY <4>1, <4>2 DEF Held, Roles, Settled, INITIATOR, RESPONDER
      <4>4. QED
        BY <4>3, NothingHanded
    <3> HIDE DEF new
    <3>3. CASE new.exn \notin Swallowed
      <4>1. out = [stored EXCEPT !.forks[cid] = Appended(@, new.s)]
        BY <3>1, <3>3 DEF ForkStarted, Raise
      <4>2. out.established = d.established /\ out.payloads = <<>>
        BY <1>2, <4>1 DEF Attributes
      <4>3. QED
        BY <4>2, TellsSame
    <3>4. CASE new.exn \in Swallowed
      <4> DEFINE e == [stored EXCEPT !.forks[cid] = Appended(@, Drained(new.s))]
      <4>1. out = DrainFrom(e, new.s)
        BY <3>1, <3>4 DEF ForkStarted, Return
      <4>2. e.established = d.established /\ e.payloads = <<>> /\ DOMAIN e = Attributes
        BY <1>2 DEF Attributes
      <4> HIDE DEF e, out
      <4>3. out.established = d.established /\ out.payloads = <<>>
        BY <3>2, <4>1, <4>2, DrainFromValues, HandedOne
      <4>4. QED
        BY <4>3, TellsSame DEF out
    <3>5. QED
      BY <3>3, <3>4
  <2>5. QED
    BY <2>2, <2>3, <2>4
<1>5. QED
  BY <1>3, <1>4

LEMMA RouteToForksTells ==
    ASSUME NEW p \in Party, NEW n, NEW d, Shape(d, p, n), d.payloads = <<>>, NEW W, NEW B,
           NEW P, CrowdOf(d, W, B, P, p, n), NEW pdu, Arrives(pdu, B, p),
           NEW now \in Nat, pdu.cid \in DOMAIN d.forks
    PROVE  Tells(d, RouteToForks(d, pdu, now), B)
<1> DEFINE cid == pdu.cid
           forks == d.forks[cid]
           cranked == [i \in DOMAIN forks |-> Update(forks[i], pdu, None, now).s]
           winners == {i \in DOMAIN cranked : cranked[i].state = ESTABLISHED}
           a == forks[Min(winners)]
           b == cranked[Min(winners)]
           out == RouteToForks(d, pdu, now)
<1>1. DOMAIN d = Attributes
  BY DEF Shape, Sound
<1>2. /\ ForksOK(forks, d.templates[cid], p, n) /\ d.templates[cid].cid = cid
      /\ cid \notin DOMAIN d.established
  BY CidsApart DEF Shape, TemplatesOK, Held
<1>3. out = FirstEstablished(d, cid, cranked)
  BY DEF RouteToForks
<1>4. CASE winners = {}
  <2>1. out = [d EXCEPT !.forks[cid] = cranked]
    BY <1>3, <1>4 DEF FirstEstablished
  <2> HIDE DEF cranked, out
  <2>2. out.established = d.established /\ out.payloads = <<>>
    BY <1>1, <2>1 DEF Attributes
  <2>3. QED
    BY <2>2, TellsSame DEF out
<1>5. CASE winners # {}
  <2>1. Min(winners) \in winners
    <3>1. PICK k \in Nat : DOMAIN forks \subseteq 1..k
      BY <1>2 DEF ForksOK
    <3>2. winners \subseteq DOMAIN forks
      OBVIOUS
    <3> HIDE DEF winners, forks
    <3>3. QED
      BY <1>5, <3>1, <3>2, MinOf
  <2>2. /\ Min(winners) \in DOMAIN forks /\ b = Update(a, pdu, None, now).s
        /\ b.state = ESTABLISHED
    <3>1. /\ DOMAIN cranked = DOMAIN forks
          /\ \A i \in DOMAIN forks : cranked[i] = Update(forks[i], pdu, None, now).s
      OBVIOUS
    <3>2. Min(winners) \in DOMAIN cranked /\ cranked[Min(winners)].state = ESTABLISHED
      BY <2>1
    <3> HIDE DEF cranked, winners
    <3>3. QED
      BY <3>1, <3>2
  <2>3. out = Promote(DrainFrom(d, b), cid, Drained(b))
    BY <1>3, <1>5 DEF FirstEstablished
  <2>4. a \in All(d) /\ Held(a, cid, p, n) /\ Tries(a, d.templates[cid])
    BY <1>2, <2>2, AllOf DEF ForksOK
  <2> HIDE DEF a, b, out, forks, cranked, winners
  <2>5. Object(a, p, a.role, Payloads(p)) /\ a.role \in Roles /\ Settled(a)
    BY <2>4, CrowdSettled DEF Held
  <2>6. b.cid = cid
    <3>1. a.state # INITIAL
      BY <2>4 DEF Tries, LiveForkState, INITIAL, DROPPED, EXPECT_SESSION_INIT_RESPONSE,
                  EXPECT_SESSION_COMPLETION_RESPONSE
    <3>2. Held(b, cid, p, n)
      BY <2>2, <2>4, <3>1, HeldUpdate
    <3>3. QED
      BY <3>2 DEF Held
  <2>7. /\ out.established = With(d.established, cid, Drained(b))
        /\ out.payloads = d.payloads \o Handed(b)
    BY <1>1, <2>3, DrainFromValues DEF Promote, Attributes
  <2>8. Tells(d, out, B)
    BY <1>2, <2>2, <2>5, <2>6, <2>7, OneTells
  <2>9. QED
    BY <2>8 DEF out
<1>6. QED
  BY <1>4, <1>5

LEMMA DispatcherPostPduTells ==
    ASSUME NEW p \in Party, NEW n, NEW d, Shape(d, p, n), d.payloads = <<>>, NEW W, NEW B,
           NEW P, CrowdOf(d, W, B, P, p, n), NEW pdu, Arrives(pdu, B, p), NEW fresh,
           NEW now \in Nat
    PROVE  Tells(d, DispatcherPostPdu(d, pdu, fresh, now).s, B)
<1> DEFINE out == DispatcherPostPdu(d, pdu, fresh, now).s
<1>1. Tells(d, d, B)
  BY TellsSame
<1>2. CASE pdu = Malformed
  BY <1>1, <1>2 DEF DispatcherPostPdu, Return
<1>3. CASE pdu # Malformed /\ pdu.cid \in DOMAIN d.established
  <2>1. out = DeliverEstablished(d, pdu, fresh, now).s
    BY <1>3 DEF DispatcherPostPdu
  <2>2. QED
    BY <1>3, <2>1, DeliverEstablishedTells
<1>4. CASE /\ pdu # Malformed /\ pdu.cid \notin DOMAIN d.established
           /\ pdu.type = "session_init_request"
  <2>1. out = RouteSessionInitRequest(d, pdu, fresh, now).s
    BY <1>4 DEF DispatcherPostPdu
  <2>2. QED
    BY <1>4, <2>1, RouteSessionInitRequestTells
<1>5. CASE /\ pdu # Malformed /\ pdu.cid \notin DOMAIN d.established
           /\ pdu.type = "session_init_response"
  <2>1. out = RouteSessionInitResponse(d, pdu, fresh, now).s
    BY <1>5 DEF DispatcherPostPdu
  <2>2. QED
    BY <1>5, <2>1, RouteSessionInitResponseTells
<1>6. CASE /\ pdu # Malformed /\ pdu.cid \notin DOMAIN d.established
           /\ pdu.type \notin {"session_init_request", "session_init_response"}
  <2>1. CASE pdu.cid \in DOMAIN d.responders
    <3>1. out = DeliverResponder(d, pdu, fresh, now).s
      BY <1>6, <2>1 DEF DispatcherPostPdu
    <3>2. QED
      BY <2>1, <3>1, DeliverResponderTells
  <2>2. CASE pdu.cid \notin DOMAIN d.responders /\ pdu.cid \in DOMAIN d.forks
    <3>1. out = RouteToForks(d, pdu, now)
      BY <1>6, <2>2 DEF DispatcherPostPdu, Return
    <3>2. QED
      BY <2>2, <3>1, RouteToForksTells
  <2>3. CASE pdu.cid \notin DOMAIN d.responders /\ pdu.cid \notin DOMAIN d.forks
    BY <1>1, <1>6, <2>3 DEF DispatcherPostPdu, Return
  <2>4. QED
    BY <2>1, <2>2, <2>3
<1>7. QED
  BY <1>2, <1>3, <1>4, <1>5, <1>6

(* initiate() and post_payload() hand over nothing. *)
LEMMA DispatcherInitiateTells ==
    ASSUME NEW p \in Party, NEW n, NEW d, Shape(d, p, n), d.payloads = <<>>, NEW B,
           NEW peer, NEW fresh, NEW now
    PROVE  Tells(d, DispatcherInitiate(d, peer, fresh, now).s, B)
<1> DEFINE a == NewSession(p, INITIATOR)
           r == Initiate(a, peer, fresh, now)
           out == DispatcherInitiate(d, peer, fresh, now).s
           e == [d EXCEPT !.templates = With(@, r.s.cid, Drained(r.s)),
                          !.forks = With(@, r.s.cid, <<>>)]
<1>1. out = Initiated(d, r).s /\ DOMAIN d = Attributes
  BY DEF DispatcherInitiate, Shape, Sound
<1>2. a.outgoingPayloads = <<>> /\ DOMAIN a = Fields
  BY DEF NewSession, Fields
<1> HIDE DEF a
<1>3. r.s.outgoingPayloads = <<>>
  BY <1>2 DEF Initiate, Raise, Return, Fields
<1> HIDE DEF r
<1>4. CASE r.exn # NoError
  <2>1. out = d
    BY <1>1, <1>4 DEF Initiated, Raise
  <2>2. QED
    BY <2>1, TellsSame
<1>5. CASE r.exn = NoError
  <2>1. out = DrainFrom(e, r.s)
    BY <1>1, <1>5 DEF Initiated, Return
  <2>2. e.established = d.established /\ e.payloads = <<>> /\ DOMAIN e = Attributes
    BY <1>1 DEF Attributes
  <2> DEFINE b == r.s
  <2> HIDE DEF e, b
  <2>3. /\ DrainFrom(e, b).established = d.established
        /\ DrainFrom(e, b).payloads = <<>> \o Handed(b)
    BY <2>2, DrainFromValues
  <2>4. b.outgoingPayloads = <<>>
    BY <1>3 DEF b
  <2> HIDE DEF out
  <2>5. out.established = d.established /\ out.payloads = <<>>
    BY <2>1, <2>3, <2>4, HandedOne DEF b
  <2>6. QED
    BY <2>5, TellsSame DEF out
<1>6. QED
  BY <1>4, <1>5

LEMMA DispatcherPostPayloadContinues ==
    ASSUME NEW p, NEW n, NEW d, Shape(d, p, n), NEW cid, NEW payload
    PROVE  Continues(d, DispatcherPostPayload(d, cid, payload))
<1> DEFINE e == DispatcherPostPayload(d, cid, payload)
<1>1. DOMAIN d = Attributes
  BY DEF Shape, Sound
<1>2. CASE cid \in DOMAIN d.established
  <2> DEFINE f == [d.established EXCEPT ![cid] = PostPayload(@, payload)]
  <2>1. e.established = f
    BY <1>1, <1>2 DEF DispatcherPostPayload, Attributes
  <2>2. /\ DOMAIN f = DOMAIN d.established
        /\ \A k \in DOMAIN f :
              f[k] = IF k = cid THEN PostPayload(d.established[k], payload)
                     ELSE d.established[k]
    OBVIOUS
  <2>3. ASSUME NEW k \in DOMAIN d.established
        PROVE  /\ DOMAIN d.established[k] = Fields
               /\ TheirSeq(d.established[k]) \in Nat
    <3>1. Object(d.established[k], p, d.established[k].role, Payloads(p))
      BY DEF Shape, EstablishedOK, Held
    <3>2. QED
      BY <3>1 DEF Object, TheirSeq
  <2>4. ASSUME NEW s, DOMAIN s = Fields, TheirSeq(s) \in Nat
        PROVE  Onward(s, s) /\ Onward(s, PostPayload(s, payload))
    BY <2>4 DEF Onward, PostPayload, TheirSeq, Fields
  <2> HIDE DEF f, e
  <2>5. Continues(d, e)
    BY <2>1, <2>2, <2>3, <2>4 DEF Continues
  <2>6. QED
    BY <2>5 DEF e
<1>3. CASE cid \notin DOMAIN d.established
  <2>1. e.established = d.established
    BY <1>1, <1>3 DEF DispatcherPostPayload, Attributes
  <2>2. QED
    BY <2>1, ContinuesSame
<1>4. QED
  BY <1>2, <1>3

(* update(): nothing arrives, so no established session takes anything. *)
LEMMA DispatcherUpdateTells ==
    ASSUME NEW p \in Party, NEW n, NEW d, Shape(d, p, n), d.payloads = <<>>, NEW W, NEW B,
           NEW P, CrowdOf(d, W, B, P, p, n), NEW now \in Nat
    PROVE  Tells(d, DispatcherUpdate(d, now), B)
<1> DEFINE e == Reconciled([d EXCEPT !.store = Expire(@, now)])
           cranked == CrankAll(d.established, now)
           g == UpdateEstablishedSessions(e, now)
           h == UpdateResponderSessions(g, now)
           out == DispatcherUpdate(d, now)
<1>1. DOMAIN d = Attributes
  BY DEF Shape, Sound
<1>2. e.established = d.established /\ e.payloads = <<>> /\ DOMAIN e = Attributes
  BY <1>1 DEF Reconciled, Attributes
<1> HIDE DEF e, cranked
<1>3. g.established = AllDrained(cranked) /\ g.payloads = <<>> /\ DOMAIN g = Attributes
  BY <1>2 DEF UpdateEstablishedSessions, EstablishedCranked, Attributes, cranked
<1> HIDE DEF g
<1>4. h.established = g.established /\ h.payloads = <<>> /\ DOMAIN h = Attributes
  BY <1>3 DEF UpdateResponderSessions, RespondersCranked, Attributes
<1> HIDE DEF h
<1>5. out = ProcessInitiatorForks(h, now)
  BY DEF DispatcherUpdate, e, g, h
<1> HIDE DEF out
<1>6. out.established = AllDrained(cranked) /\ out.payloads = <<>>
  BY <1>3, <1>4, <1>5 DEF ProcessInitiatorForks, ForksCranked, Attributes
<1>7. /\ DOMAIN out.established = DOMAIN d.established
      /\ \A k \in DOMAIN d.established :
            out.established[k] = Drained(Update(d.established[k], None, None, now).s)
  BY <1>6, CrankAllValues, AllDrainedValues DEF cranked
<1>8. ASSUME NEW k \in DOMAIN d.established
      PROVE  Onward(d.established[k], out.established[k])
  <2> DEFINE s == d.established[k]
             t == Update(s, None, None, now).s
  <2>1. /\ s \in All(d) /\ s.state = ESTABLISHED /\ Object(s, p, s.role, Payloads(p))
        /\ s.role \in Roles /\ Settled(s)
    BY AllOf, CrowdSettled DEF Shape, EstablishedOK, Held
  <2>2. out.established[k] = Drained(t)
    BY <1>7
  <2> HIDE DEF s
  <2>3. Silent(s, t) /\ Object(t, p, s.role, Payloads(p))
    BY <2>1, UpdateHands, UpdateObject DEF Roles
  <2> HIDE DEF t
  <2>4. /\ t = [f \in Fields |-> t[f]] /\ TheirSeq(s) \in Nat
        /\ t.role = s.role /\ t.keys = s.keys /\ TheirSeq(t) = TheirSeq(s)
    BY <2>1, <2>3 DEF Object, TheirSeq, Silent
  <2>5. /\ Drained(t).role = t.role /\ Drained(t).keys = t.keys
        /\ TheirSeq(Drained(t)) = TheirSeq(t)
    BY <2>3, <2>4, DrainedSettled
  <2>6. QED
    BY <2>2, <2>4, <2>5 DEF Onward, s
<1>9. Continues(d, out)
  BY <1>7, <1>8 DEF Continues
<1>10. QED
  BY <1>6, <1>9 DEF Tells, out

-----------------------------------------------------------------------------
(* The invariant of the pair, with what was handed over. *)
LInv ==
    /\ KInv
    /\ delivered = [p \in Party |-> delivered[p]]
    /\ \A p \in Party : LogOf(delivered[p], disp[p], CiphertextsOf(Peer(p)))

LEMMA PeerSendsOnce ==
    ASSUME KInv, NEW p \in Party
    PROVE  PeerOnce(CiphertextsOf(p))
<1> DEFINE W == wire[p]
<1>1. Traffic(W, Posted(p), p, draws[p])
  BY DEF KInv, Guarded, Crowd
<1>2. ASSUME NEW c \in CiphertextsOf(p)
      PROVE  \E role \in Roles : c \in CiphertextsAmong(Ours(W, role)) /\ c.dir = OwnDir(role)
  <2>1. PICK x \in W : c \in CiphertextsIn(x)
    BY DEF CiphertextsOf
  <2>2. PICK role \in Roles : x \in Ours(W, role)
    BY <1>1, <2>1 DEF Traffic
  <2>3. QED
    BY <2>1, <2>2 DEF CiphertextsAmong, Ours
<1> HIDE DEF W
<1>3. ASSUME NEW c \in CiphertextsOf(p), NEW e \in CiphertextsOf(p),
             c.keys = e.keys, c.dir = e.dir, c.plain = e.plain
      PROVE  c = e \/ Blank(c) \/ Blank(e)
  <2>1. PICK role \in Roles : c \in CiphertextsAmong(Ours(W, role)) /\ c.dir = OwnDir(role)
    BY <1>2
  <2>2. PICK other \in Roles :
          e \in CiphertextsAmong(Ours(W, other)) /\ e.dir = OwnDir(other)
    BY <1>2
  <2>3. role = other
    BY <1>3, <2>1, <2>2, OneDir
  <2>4. NoneTwice(CiphertextsAmong(Ours(W, role)))
    BY <1>1 DEF Traffic
  <2>5. QED
    BY <1>3, <2>1, <2>2, <2>3, <2>4 DEF NoneTwice
<1>4. QED
  BY <1>3 DEF PeerOnce

LEMMA LogGrows ==
    ASSUME NEW log, NEW d, NEW B, LogOf(log, d, B), NEW C, B \subseteq C
    PROVE  LogOf(log, d, C)
BY DEF LogOf, Heard

(* One process takes a step; the other's log is as true as before. *)
LEMMA LogsKept ==
    ASSUME LInv, KInv', NEW p \in Party,
           delivered' = [q \in Party |-> delivered'[q]],
           \A q \in Party : q # p =>
              disp'[q] = disp[q] /\ wire'[q] = wire[q] /\ delivered'[q] = delivered[q],
           wire[p] \subseteq wire'[p],
           LogOf(delivered'[p], disp'[p], CiphertextsOf(Peer(p)))
    PROVE  LInv'
<1>1. /\ Peer(p) \in Party /\ Peer(p) # p /\ Peer(Peer(p)) = p
      /\ \A q \in Party : q = p \/ q = Peer(p)
  BY PeerIsOther, PairAssumption DEF Peer
<1>2. CiphertextsOf(Peer(p))' = CiphertextsOf(Peer(p))
  BY <1>1 DEF CiphertextsOf
<1>3. CiphertextsOf(p) \subseteq CiphertextsOf(p)'
  BY DEF CiphertextsOf
<1>4. LogOf(delivered[Peer(p)], disp[Peer(p)], CiphertextsOf(p))
  BY <1>1 DEF LInv
<1>5. LogOf(delivered'[Peer(p)], disp'[Peer(p)], CiphertextsOf(p)')
  BY <1>1, <1>3, <1>4, LogGrows
<1>6. ASSUME NEW q \in Party PROVE LogOf(delivered'[q], disp'[q], CiphertextsOf(Peer(q))')
  BY <1>1, <1>2, <1>5
<1>7. QED
  BY <1>6 DEF LInv

LEMMA DrainLogs ==
    ASSUME LInv, KInv', NEW p \in Party, NEW d, Drain(p, d),
           Tells(disp[p], d, CiphertextsOf(Peer(p)))
    PROVE  LInv'
<1> DEFINE B == CiphertextsOf(Peer(p))
<1>1. /\ disp = [q \in Party |-> disp[q]] /\ wire = [q \in Party |-> wire[q]]
      /\ delivered = [q \in Party |-> delivered[q]]
      /\ LogOf(delivered[p], disp[p], B)
  BY DEF LInv, KInv, SInv
<1>2. /\ disp' = [disp EXCEPT ![p] = Emptied(d)]
      /\ wire' = [wire EXCEPT ![p] = wire[p] \cup d.outgoing]
      /\ delivered' = [delivered EXCEPT ![p] = Logged(delivered[p], d.payloads)]
  BY DEF Drain
<1>3. /\ disp'[p] = Emptied(d) /\ wire'[p] = wire[p] \cup d.outgoing
      /\ delivered'[p] = Logged(delivered[p], d.payloads)
      /\ delivered' = [q \in Party |-> delivered'[q]]
      /\ \A q \in Party : q # p =>
            disp'[q] = disp[q] /\ wire'[q] = wire[q] /\ delivered'[q] = delivered[q]
  BY <1>1, <1>2
<1>4. PeerOnce(B)
  BY PeerSendsOnce, PeerIsOther DEF LInv
<1> HIDE DEF B
<1>5. LogOf(Logged(delivered[p], d.payloads), d, B)
  BY <1>1, <1>4, LogTells DEF B
<1>6. Emptied(d).established = d.established
  <2>1. Shape(Emptied(d), p, draws'[p])
    BY <1>3 DEF KInv, SInv, Structured
  <2>2. DOMAIN d = Attributes
    BY <2>1 DEF Shape, Sound, Emptied
  <2>3. QED
    BY <2>2 DEF Emptied, Attributes
<1>7. LogOf(delivered'[p], disp'[p], B)
  BY <1>3, <1>5, <1>6 DEF LogOf
<1>8. QED
  BY <1>3, <1>7, LogsKept DEF B

(* A call that sends nothing and hands over nothing. *)
LEMMA StepLogs ==
    ASSUME LInv, KInv', NEW p \in Party, NEW d, NEW log,
           disp' = [disp EXCEPT ![p] = d], wire' = wire,
           delivered' = [delivered EXCEPT ![p] = log],
           LogOf(log, d, CiphertextsOf(Peer(p)))
    PROVE  LInv'
<1>1. /\ disp = [q \in Party |-> disp[q]] /\ delivered = [q \in Party |-> delivered[q]]
  BY DEF LInv, KInv, SInv
<1>2. /\ disp'[p] = d /\ delivered'[p] = log
      /\ delivered' = [q \in Party |-> delivered'[q]]
      /\ \A q \in Party : q # p => disp'[q] = disp[q] /\ delivered'[q] = delivered[q]
  BY <1>1
<1>3. QED
  BY <1>2, LogsKept

LEMMA NextLogs == LInv /\ [Next]_vars => LInv'
<1> SUFFICES ASSUME LInv, [Next]_vars PROVE LInv'
  OBVIOUS
<1>1. KInv'
  BY NextGuards DEF LInv
<1>2. ASSUME NEW p \in Party
      PROVE  /\ Shape(disp[p], p, draws[p]) /\ disp[p].payloads = <<>>
             /\ CrowdOf(disp[p], wire[p], CiphertextsOf(Peer(p)), Posted(p), p, draws[p])
             /\ LogOf(delivered[p], disp[p], CiphertextsOf(Peer(p)))
  <2>1. /\ Structured(p) /\ Guarded(p)
        /\ LogOf(delivered[p], disp[p], CiphertextsOf(Peer(p)))
    BY DEF LInv, KInv, SInv
  <2>2. wire[p] \cup disp[p].outgoing = wire[p]
    BY <2>1 DEF Structured
  <2>3. QED
    BY <2>1, <2>2 DEF Structured, Guarded, CrowdOf
<1>3. delivered = [q \in Party |-> delivered[q]]
  BY DEF LInv
<1>4. ASSUME NEW p \in Party, StartHandshake(p) PROVE LInv'
  <2> DEFINE d == DispatcherInitiate(disp[p], Peer(p), Fresh(p), 0).s
  <2>1. Drain(p, d)
    BY <1>4 DEF StartHandshake
  <2>2. Tells(disp[p], d, CiphertextsOf(Peer(p)))
    BY <1>2, DispatcherInitiateTells
  <2> HIDE DEF d
  <2>3. QED
    BY <1>1, <2>1, <2>2, DrainLogs
<1>5. ASSUME NEW p \in Party, NEW pdu \in Arrivals(p), Deliver(p, pdu) PROVE LInv'
  <2> DEFINE d == DispatcherPostPdu(disp[p], pdu, Fresh(p), 0).s
  <2>1. Drain(p, d)
    BY <1>5 DEF Deliver
  <2>2. Arrives(pdu, CiphertextsOf(Peer(p)), p)
    BY ArrivalsArrive DEF LInv
  <2>3. Tells(disp[p], d, CiphertextsOf(Peer(p)))
    BY <1>2, <2>2, DispatcherPostPduTells
  <2> HIDE DEF d
  <2>4. QED
    BY <1>1, <2>1, <2>3, DrainLogs
<1>6. ASSUME NEW p \in Party, Crank(p) PROVE LInv'
  <2> DEFINE d == DispatcherUpdate(disp[p], 0)
  <2>1. Drain(p, d)
    BY <1>6 DEF Crank
  <2>2. Tells(disp[p], d, CiphertextsOf(Peer(p)))
    BY <1>2, DispatcherUpdateTells
  <2> HIDE DEF d
  <2>3. QED
    BY <1>1, <2>1, <2>2, DrainLogs
<1>7. ASSUME NEW p \in Party, NEW cid \in CanPost(disp[p]), Post(p, cid) PROVE LInv'
  <2> DEFINE d == DispatcherPostPayload(disp[p], cid, <<p, posted[p] + 1>>)
  <2>1. disp' = [disp EXCEPT ![p] = d] /\ UNCHANGED <<wire, delivered>>
    BY <1>7 DEF Post
  <2>2. Continues(disp[p], d)
    BY <1>2, DispatcherPostPayloadContinues
  <2> HIDE DEF d
  <2>3. LogOf(delivered[p], d, CiphertextsOf(Peer(p)))
    BY <1>2, <2>2, LogContinues
  <2>4. delivered' = [delivered EXCEPT ![p] = delivered[p]]
    BY <1>3, <2>1
  <2>5. QED
    BY <1>1, <2>1, <2>3, <2>4, StepLogs
<1>8. ASSUME NEW p \in Party, NEW cid \in DOMAIN disp[p].established, CloseSession(p, cid)
      PROVE  LInv'
  <2> DEFINE d == Close(disp[p], cid)
             log == {e \in delivered[p] : e.cid # cid}
  <2>1. /\ disp' = [disp EXCEPT ![p] = d] /\ wire' = wire
        /\ delivered' = [delivered EXCEPT ![p] = log]
    BY <1>8 DEF CloseSession
  <2>2. d.established = Without(disp[p].established, cid)
    BY <1>2 DEF Close, Shape, Sound, Attributes
  <2> HIDE DEF d
  <2>3. /\ DOMAIN d.established = DOMAIN disp[p].established \ {cid}
        /\ \A k \in DOMAIN disp[p].established \ {cid} :
              d.established[k] = disp[p].established[k]
    BY <2>2 DEF Without, Restrict
  <2>4. LogOf(log, d, CiphertextsOf(Peer(p)))
    BY <1>2, <2>3 DEF LogOf
  <2> HIDE DEF log
  <2>5. QED
    BY <1>1, <2>1, <2>4, StepLogs
<1>9. ASSUME NEW p \in Party, Tick(p) PROVE LInv'
  <2> DEFINE d == [disp[p] EXCEPT !.responders = AgedAll(@), !.templates = AgedAll(@),
                       !.forks = [cid \in DOMAIN @ |-> AgedAll(@[cid])],
                       !.store.candidates = AgedCandidates(@)]
  <2>1. disp' = [disp EXCEPT ![p] = d] /\ UNCHANGED <<wire, delivered>>
    BY <1>2, <1>9 DEF Tick, AgedCandidates, Older, Shape, Sound, Attributes, LInv, KInv, SInv
  <2>2. d.established = disp[p].established
    BY <1>2 DEF Shape, Sound, Attributes
  <2> HIDE DEF d
  <2>3. LogOf(delivered[p], d, CiphertextsOf(Peer(p)))
    BY <1>2, <2>2 DEF LogOf
  <2>4. delivered' = [delivered EXCEPT ![p] = delivered[p]]
    BY <1>3, <2>1
  <2>5. QED
    BY <1>1, <2>1, <2>3, <2>4, StepLogs
<1>10. ASSUME NEW p \in Party, Restart(p) PROVE LInv'
  <2>1. /\ disp' = [disp EXCEPT ![p] = NewDispatcher(p)] /\ wire' = wire
        /\ delivered' = [delivered EXCEPT ![p] = {}]
    BY <1>10 DEF Restart
  <2>2. LogOf({}, NewDispatcher(p), CiphertextsOf(Peer(p)))
    BY DEF LogOf
  <2>3. QED
    BY <1>1, <2>1, <2>2, StepLogs
<1>11. CASE UNCHANGED vars
  <2>1. /\ disp' = disp /\ delivered' = delivered
        /\ \A p \in Party : CiphertextsOf(Peer(p))' = CiphertextsOf(Peer(p))
    BY <1>11 DEF vars, CiphertextsOf
  <2>2. \A p \in Party : LogOf(delivered'[p], disp'[p], CiphertextsOf(Peer(p))')
    BY <1>2, <2>1
  <2>3. QED
    BY <1>1, <1>3, <2>1, <2>2 DEF LInv
<1>12. QED
  BY <1>4, <1>5, <1>6, <1>7, <1>8, <1>9, <1>10, <1>11 DEF Next

LEMMA InitLogs == Init => LInv
<1> SUFFICES ASSUME Init PROVE LInv
  OBVIOUS
<1>1. \A p \in Party : delivered[p] = {}
  BY DEF Init
<1>2. \A p \in Party : LogOf(delivered[p], disp[p], CiphertextsOf(Peer(p)))
  BY <1>1 DEF LogOf
<1>3. QED
  BY <1>2, InitGuards DEF LInv, Init

(* dispatcher.py, post_payload() and _drain(): a payload given to every fork,   *)
(* resent, duplicated and replayed is handed to the peer's caller once under a  *)
(* cid: a session takes what its own seq names, never waits for a seq again,    *)
(* and the peer encrypts no payload twice under one session's keys.             *)
THEOREM PayloadsArriveOnce == Spec => []DeliveredOnce
<1>1. LInv => DeliveredOnce
  BY DEF LInv, LogOf, DeliveredOnce
<1>2. QED
  BY InitLogs, NextLogs, <1>1, PTL DEF Spec

=============================================================================
