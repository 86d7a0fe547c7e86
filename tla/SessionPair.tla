----------------------------- MODULE SessionPair ----------------------------
(***************************************************************************)
(* Two bare Session objects, Alice's INITIATOR and Bob's RESPONDER, driven *)
(* by callers that do what session.py asks of them: crank update() after   *)
(* every post and on a timer of their own, and put every PDU they poll on  *)
(* the wire.  The network loses, delays, reorders and duplicates: `wire`   *)
(* keeps every PDU a party ever sent, and any of them may arrive at any    *)
(* later time, any number of times, or never.                              *)
(*                                                                         *)
(* A party that restarts calls reset(): its session is as new while the    *)
(* peer and the network still hold what came before.                       *)
(*                                                                         *)
(* Time is relative: a deadline is the ticks left on that party's own      *)
(* clock, so `now` is always 0 and a tick moves the deadline closer.       *)
(***************************************************************************)
EXTENDS Session, SequencesExt

CONSTANTS Alice, Bob,
          MaxPayloads,  \* bound: payloads each application posts
          MaxResets     \* bound: restarts of each party

ASSUME PairAssumption ==
    /\ Party = {Alice, Bob}
    /\ Alice # Bob
    /\ MaxPayloads \in Nat
    /\ MaxResets \in Nat

VARIABLES
    sess,       \* the Session object of each party
    wire,       \* the PDUs each party has sent
    posted,     \* how many payloads each application has posted
    draws,      \* how often each party drew fresh key material
    resets,     \* how often each party restarted
    delivered,  \* history: the payloads each application was handed, in order
    confirmed   \* history: the keys Bob ever established a session with

vars == <<sess, wire, posted, draws, resets, delivered, confirmed>>

Peer(p) == IF p = Alice THEN Bob ELSE Alice
RoleOf(p) == IF p = Alice THEN INITIATOR ELSE RESPONDER

Fresh(p) == <<p, draws[p] + 1>>

Init ==
    /\ sess = [p \in Party |-> NewSession(p, RoleOf(p))]
    /\ wire = [p \in Party |-> {}]
    /\ posted = [p \in Party |-> 0]
    /\ draws = [p \in Party |-> 0]
    /\ resets = [p \in Party |-> 0]
    /\ delivered = [p \in Party |-> <<>>]
    /\ confirmed = {}

-----------------------------------------------------------------------------
(* A handshake step that succeeds uses up the fresh name it was given. *)
Drew(s, t) ==
    /\ t.state # s.state
    /\ t.state \in {EXPECT_SESSION_INIT_RESPONSE,
                    EXPECT_SESSION_COMPLETION_REQUEST,
                    EXPECT_SESSION_COMPLETION_RESPONSE}

(* What the caller does with the session once a call has returned. *)
Drain(p, t) ==
    /\ sess' = [sess EXCEPT ![p] = Drained(t)]
    /\ wire' = [wire EXCEPT ![p] = @ \cup Range(t.outgoingPdus)]
    /\ delivered' = [delivered EXCEPT ![p] = @ \o t.outgoingPayloads]
    /\ draws' = [draws EXCEPT ![p] = IF Drew(sess[p], t) THEN @ + 1 ELSE @]
    /\ confirmed' = IF p = Bob /\ t.state = ESTABLISHED
                    THEN confirmed \cup {t.keys} ELSE confirmed

(* Alice's application starts a handshake with Bob. *)
StartHandshake ==
    /\ sess[Alice].state = INITIAL
    /\ Drain(Alice, Initiate(sess[Alice], Bob, Fresh(Alice), 0).s)
    /\ UNCHANGED <<posted, resets>>

(* An application posts its next payload; update() is a call of its own. *)
Post(p) ==
    /\ posted[p] < MaxPayloads
    /\ posted' = [posted EXCEPT ![p] = @ + 1]
    /\ sess' = [sess EXCEPT ![p] = PostPayload(@, <<p, posted[p] + 1>>)]
    /\ UNCHANGED <<wire, draws, resets, delivered, confirmed>>

(* A PDU arrives: post_pdu() and then update(). *)
Deliver(p, pdu) ==
    /\ Drain(p, Update(sess[p], pdu, Fresh(p), 0).s)
    /\ UNCHANGED <<posted, resets>>

(* The caller's timer: update() with nothing received. *)
Crank(p) ==
    /\ Drain(p, Update(sess[p], None, Fresh(p), 0).s)
    /\ UNCHANGED <<posted, resets>>

(* One tick of p's clock. *)
Tick(p) ==
    /\ sess[p].deadline # None
    /\ sess[p].deadline > 0
    /\ sess' = [sess EXCEPT ![p].deadline = @ - 1]
    /\ UNCHANGED <<wire, posted, draws, resets, delivered, confirmed>>

(* p restarts, or its application resets the session. *)
Restart(p) ==
    /\ resets[p] < MaxResets
    /\ resets' = [resets EXCEPT ![p] = @ + 1]
    /\ sess' = [sess EXCEPT ![p] = Reset(@)]
    /\ UNCHANGED <<wire, posted, draws, delivered, confirmed>>

Arrivals(p) == wire[Peer(p)] \cup {Malformed}

Next ==
    \/ StartHandshake
    \/ \E p \in Party :
        \/ Post(p)
        \/ \E pdu \in Arrivals(p) : Deliver(p, pdu)
        \/ Crank(p)
        \/ Tick(p)
        \/ Restart(p)

Spec == Init /\ [][Next]_vars

(* Clocks advance, and the caller cranks update() on its timer whatever else *)
(* happens ("Call this after every post_*() and on your own timer").  The    *)
(* network owes nothing: no fairness on Deliver.  CrankIdle is               *)
(* ~ENABLED <<Crank(p)>>_vars, written as the predicate it is (update() is    *)
(* deterministic), so that the second conjunct is WF_vars(Crank(p)).         *)
CrankIdle(p) ==
    \E s \in {Update(sess[p], None, Fresh(p), 0).s} : s = sess[p]

Fairness ==
    \A p \in Party :
        /\ WF_vars(Tick(p))
        /\ []<>CrankIdle(p) \/ []<><<Crank(p)>>_vars

FairSpec == Spec /\ Fairness

-----------------------------------------------------------------------------
Payload(p) == {p} \X (1..MaxPayloads)

(* The shape of the state: who owns which session, that a deadline runs in    *)
(* exactly the states that wait (update's deadline check), and that a session *)
(* that sends or takes ciphertexts has keys for an AEAD its own side accepts. *)
TypeOK ==
    /\ \A p \in Party :
        /\ sess[p].owner = p
        /\ sess[p].role = RoleOf(p)
        /\ sess[p].state \in SessionState
        /\ sess[p].state \in {INITIAL, ESTABLISHED} <=> sess[p].deadline = None
        /\ sess[p].deadline # None => sess[p].deadline \in Nat
        /\ sess[p].attempts \in 0..MaxRetries
        /\ sess[p].pending \in Payload(p) \cup {None}
        /\ sess[p].seqA2B \in Nat /\ sess[p].seqB2A \in Nat
        /\ sess[p].state \in {EXPECT_SESSION_COMPLETION_RESPONSE, ESTABLISHED}
              => sess[p].keys.aead \in AeadsOf(p)
        /\ sess[p].outgoingPdus = <<>> /\ sess[p].outgoingPayloads = <<>>
    /\ posted \in [Party -> 0..MaxPayloads]
    /\ draws \in [Party -> Nat]
    /\ resets \in [Party -> 0..MaxResets]

Established(p) == sess[p].state = ESTABLISHED

(* Every AEAD ciphertext a party has put on the wire. *)
CiphertextsOf(p) == UNION {CiphertextsIn(pdu) : pdu \in wire[p]}

Ciphertexts == UNION {CiphertextsOf(p) : p \in Party}

(* The handshake's promise (main.pdf's key confirmation, h_m): when Alice is  *)
(* ESTABLISHED, Bob completed a handshake with exactly her keys, whatever was *)
(* lost, replayed or restarted in between; and Bob only ever establishes keys *)
(* Alice herself encrypted a c_m under, with an AEAD both accept.             *)
KeysAgree ==
    /\ Established(Alice) => sess[Alice].keys \in confirmed
    /\ \A k \in confirmed :
        /\ \E c \in CiphertextsOf(Alice) : c.keys = k /\ c.seq = 0
        /\ k.aead \in AeadsOf(Alice) \cap AeadsOf(Bob)
        /\ k.fA = Alice
    /\ Established(Alice) /\ Established(Bob) /\ sess[Alice].cid = sess[Bob].cid
          => sess[Alice].keys = sess[Bob].keys

(* IV XOR seq is unique only while no seq is used twice under one key: a      *)
(* completion PDU's payload takes seq 0 and established traffic must go on    *)
(* from 1 (_seq_a2b / _seq_b2a), and a resend must be the bytes sent before.  *)
NonceUnique ==
    \A c, d \in Ciphertexts :
        c.keys = d.keys /\ c.dir = d.dir /\ c.seq = d.seq => c = d

(* "Retries resend the EXACT bytes already sent for the current state, never  *)
(* regenerated ones": one init request and one completion request per cid,    *)
(* and one answer to each request per incarnation of Bob.                     *)
RetriesVerbatim ==
    /\ \A x, y \in wire[Alice] :
        x.type # "message" /\ x.type = y.type /\ x.cid = y.cid => x = y
    /\ \A k \in {"session_init_response", "session_completion_response"},
          cid \in {x.cid : x \in wire[Bob]} :
        Cardinality({x \in wire[Bob] : x.type = k /\ x.cid = cid}) <= resets[Bob] + 1

(* Alice has agreed to keys while her session is ESTABLISHED (update returns  *)
(* them as usable), and to none before or after.                              *)
Channel == INSTANCE SecureChannel WITH
    Initiator <- Alice, Responder <- Bob,
    agreed <- IF sess[Alice].state = ESTABLISHED THEN {sess[Alice].keys} ELSE {}

(* The pair keeps SecureChannel's promise: payloads reach the other           *)
(* application at most once and in the order they were posted over both       *)
(* parties' whole lives (replays after a restart of either side deliver       *)
(* nothing a second time), and Alice agrees only to keys Bob has confirmed.   *)
ImplementsChannel == Channel!Spec

(* The seq p expects next from its peer. *)
Accepted(p) == IF RoleOf(p) = INITIATOR THEN sess[p].seqB2A ELSE sess[p].seqA2B

(* The peer's plaintext of a seq under the current keys, as a set. *)
SentTo(p, seq) ==
    {c.plain : c \in {x \in CiphertextsOf(Peer(p)) :
        /\ x.keys = sess[p].keys
        /\ x.dir = IF RoleOf(p) = INITIATOR THEN "b2a" ELSE "a2b"
        /\ x.seq = seq}}

(* What the current session handed to the application is the peer's stream   *)
(* under the current keys: the plaintexts of seq 0, 1, ... up to the next      *)
(* expected one, none missing, none swapped.  Only a false start without a     *)
(* payload is skipped (_handle_session_completion_request).                    *)
DeliveredIsSent ==
    \A p \in Party : Established(p) => \E skipped \in {0, 1} :
        LET n == Accepted(p) - skipped
            earlier == Len(delivered[p]) - n
        IN /\ n >= 0 /\ earlier >= 0
           /\ skipped = 1 => Empty \in SentTo(p, 0)
           /\ \A i \in 1..n : delivered[p][earlier + i] \in SentTo(p, skipped + i - 1)

(* The false start is acknowledged end to end: once h_m has matched, Bob's    *)
(* application has the payload that rode in c_m.                              *)
FalseStartDelivered ==
    Established(Alice) /\ sess[Alice].plainForHm # Empty =>
        \E i \in DOMAIN delivered[Bob] : delivered[Bob][i] = sess[Alice].plainForHm

(* session.py calls SessionError "Base class for all exceptions this module   *)
(* raises": no PDU that can arrive makes update() raise anything else.        *)
OnlySessionErrors ==
    \A p \in Party : \A pdu \in Arrivals(p) :
        Update(sess[p], pdu, Fresh(p), 0).exn
            \in {NoError, HandshakeFailed, UnexpectedPDU}

Waiting(p) == sess[p].state \notin {INITIAL, ESTABLISHED, DROPPED}

(* A handshake does not wait forever: retries and TTL end it (or it succeeds) *)
(* without any message arriving, and duplicates never extend it.              *)
HandshakeEnds == \A p \in Party : Waiting(p) ~> ~Waiting(p)

(* A payload posted on an established session leaves with a later update().  *)
PostedIsSent ==
    \A p \in Party :
        Established(p) /\ sess[p].pending # None ~> sess[p].pending = None

=============================================================================
