--------------------------- MODULE DispatcherPair ---------------------------
(***************************************************************************)
(* Two processes, each with a Dispatcher, over a network that loses,       *)
(* delays, reorders and duplicates: `wire` keeps every PDU a process ever  *)
(* sent and any of them may arrive at any later time, any number of times. *)
(* A process may restart, with a new Dispatcher and none of its sessions.  *)
(*                                                                         *)
(* As in SessionPair time is relative: a deadline (of a session or of a    *)
(* candidate) is the ticks left on its process's own clock.                *)
(***************************************************************************)
EXTENDS Dispatcher

CONSTANTS Alice, Bob,
          MaxHandshakes,  \* bound: handshakes each process initiates
          MaxDraws,       \* bound: how often each draws fresh key material
          MaxPayloads,    \* bound: payloads each application posts
          MaxRestarts     \* bound: restarts of each process

ASSUME PairAssumption ==
    /\ Party = {Alice, Bob}
    /\ Alice # Bob
    /\ {MaxHandshakes, MaxDraws, MaxPayloads, MaxRestarts} \subseteq [Party -> Nat]

VARIABLES
    disp,       \* the Dispatcher of each process
    wire,       \* the PDUs each process has sent
    posted,     \* how many payloads each application has posted
    draws,      \* how often each process drew fresh key material
    restarts,   \* how often each process restarted
    delivered,  \* history: what was handed over since the last restart
    confirmed   \* history: the keys each process established as a responder

vars == <<disp, wire, posted, draws, restarts, delivered, confirmed>>

Peer(p) == IF p = Alice THEN Bob ELSE Alice

Fresh(p) == <<p, draws[p] + 1>>

Init ==
    /\ disp = [p \in Party |-> NewDispatcher(p)]
    /\ wire = [p \in Party |-> {}]
    /\ posted = [p \in Party |-> 0]
    /\ draws = [p \in Party |-> 0]
    /\ restarts = [p \in Party |-> 0]
    /\ delivered = [p \in Party |-> {}]
    /\ confirmed = [p \in Party |-> {}]

-----------------------------------------------------------------------------
SessionsOf(d) ==
    {d.established[cid] : cid \in DOMAIN d.established}
    \cup {d.responders[cid] : cid \in DOMAIN d.responders}
    \cup UNION {Range(d.forks[cid]) : cid \in DOMAIN d.forks}

(* The fresh name is used up when some session of the process took it. *)
Drew(p, d) ==
    \/ Fresh(p) \in DOMAIN d.templates
    \/ \E s \in SessionsOf(d) :
        \/ s.nB = Fresh(p)
        \/ /\ s.state \in {EXPECT_SESSION_COMPLETION_RESPONSE, ESTABLISHED}
           /\ s.keys.nA = Fresh(p)

KeysAsResponder(d) ==
    {s.keys : s \in {x \in SessionsOf(d) : x.role = RESPONDER /\ x.state = ESTABLISHED}}

(* The log of a process: each payload handed over, at its place among those of *)
(* its cid, so that one handed over twice is two entries.                      *)
PlacesOf(log, cid) == {e.at : e \in {x \in log : x.cid = cid}}

Logged(log, payloads) ==
    log \cup {[cid |-> payloads[i][1], payload |-> payloads[i][2],
               at |-> Max({0} \cup PlacesOf(log, payloads[i][1])) + i] :
                   i \in DOMAIN payloads}

(* What the caller does with the Dispatcher once a call has returned.  The     *)
(* bound on draws cuts behaviours short: the code would also take the request, *)
(* or the response, old or new, that it draws once more for.                   *)
Drain(p, d) ==
    /\ disp' = [disp EXCEPT ![p] = Emptied(d)]
    /\ wire' = [wire EXCEPT ![p] = @ \cup d.outgoing]
    /\ delivered' = [delivered EXCEPT ![p] = Logged(@, d.payloads)]
    /\ confirmed' = [confirmed EXCEPT ![p] = @ \cup KeysAsResponder(d)]
    /\ draws' = [draws EXCEPT ![p] = IF Drew(p, d) THEN @ + 1 ELSE @]
    /\ draws'[p] <= MaxDraws[p]
    /\ UNCHANGED <<posted, restarts>>

Requested(p) == {pdu \in wire[p] : pdu.type = "session_init_request"}

StartHandshake(p) ==
    /\ Cardinality(Requested(p)) < MaxHandshakes[p]
    /\ Drain(p, DispatcherInitiate(disp[p], Peer(p), Fresh(p), 0).s)

Arrivals(p) == wire[Peer(p)] \cup {Malformed}

Deliver(p, pdu) == Drain(p, DispatcherPostPdu(disp[p], pdu, Fresh(p), 0).s)

Crank(p) == Drain(p, DispatcherUpdate(disp[p], 0))

CanPost(d) == DOMAIN d.established \cup DOMAIN d.responders \cup DOMAIN d.templates

Post(p, cid) ==
    /\ posted[p] < MaxPayloads[p]
    /\ posted' = [posted EXCEPT ![p] = @ + 1]
    /\ disp' = [disp EXCEPT ![p] = DispatcherPostPayload(@, cid, <<p, posted[p] + 1>>)]
    /\ UNCHANGED <<wire, draws, restarts, delivered, confirmed>>

CloseSession(p, cid) ==
    /\ disp' = [disp EXCEPT ![p] = Close(@, cid)]
    /\ delivered' = [delivered EXCEPT ![p] = {e \in @ : e.cid # cid}]
    /\ UNCHANGED <<wire, posted, draws, restarts, confirmed>>

(* One tick of p's clock, for every deadline in its process. *)
Later(n) == IF n \in {None, 0} THEN n ELSE n - 1
Aged(s) == [s EXCEPT !.deadline = Later(@)]
AgedAll(sessions) == [k \in DOMAIN sessions |-> Aged(sessions[k])]

Tick(p) ==
    /\ disp' = [disp EXCEPT
         ![p].responders = AgedAll(@),
         ![p].templates = AgedAll(@),
         ![p].forks = [cid \in DOMAIN @ |-> AgedAll(@[cid])],
         ![p].store.candidates = {[c EXCEPT !.expiresAt = Later(@)] : c \in @}]
    /\ UNCHANGED <<wire, posted, draws, restarts, delivered, confirmed>>

Restart(p) ==
    /\ restarts[p] < MaxRestarts[p]
    /\ restarts' = [restarts EXCEPT ![p] = @ + 1]
    /\ disp' = [disp EXCEPT ![p] = NewDispatcher(p)]
    /\ delivered' = [delivered EXCEPT ![p] = {}]
    /\ UNCHANGED <<wire, posted, draws, confirmed>>

Next ==
    \E p \in Party :
        \/ StartHandshake(p)
        \/ \E pdu \in Arrivals(p) : Deliver(p, pdu)
        \/ Crank(p)
        \/ \E cid \in CanPost(disp[p]) : Post(p, cid)
        \/ \E cid \in DOMAIN disp[p].established : CloseSession(p, cid)
        \/ Tick(p)
        \/ Restart(p)

Spec == Init /\ [][Next]_vars

-----------------------------------------------------------------------------
(* The shape of a Dispatcher between two calls: each dict holds sessions of  *)
(* its own kind under their own cid, templates and forks have the same keys, *)
(* and nothing is left in a queue the caller drains.                         *)
WellFormed(d) ==
    /\ \A cid \in DOMAIN d.established :
        d.established[cid].cid = cid /\ d.established[cid].state = ESTABLISHED
    /\ \A cid \in DOMAIN d.responders :
        /\ d.responders[cid].cid = cid /\ d.responders[cid].role = RESPONDER
        /\ d.responders[cid].state \in {INITIAL, EXPECT_SESSION_COMPLETION_REQUEST}
    /\ DOMAIN d.templates = DOMAIN d.forks
    /\ \A cid \in DOMAIN d.forks :
        /\ CanFork(d.templates[cid])
        /\ \A i \in DOMAIN d.forks[cid] :
            /\ d.forks[cid][i].cid = cid
            /\ d.forks[cid][i].ephemeral = d.templates[cid].ephemeral
            /\ d.forks[cid][i].state \in {EXPECT_SESSION_INIT_RESPONSE,
                                         EXPECT_SESSION_COMPLETION_RESPONSE, DROPPED}
    /\ d.outgoing = {} /\ d.payloads = <<>>

(* Each process's Dispatcher is well formed and every bounded counter within *)
(* its bound.                                                                *)
TypeOK ==
    /\ \A p \in Party : disp[p].owner = p /\ WellFormed(disp[p])
    /\ posted \in [Party -> Nat] /\ \A p \in Party : posted[p] <= MaxPayloads[p]
    /\ draws \in [Party -> Nat] /\ \A p \in Party : draws[p] <= MaxDraws[p]

(* "Promotion is immediate and total": a cid with an established session has *)
(* no responder session, template, fork or candidate left.                   *)
PromotionTotal ==
    \A p \in Party : \A cid \in DOMAIN disp[p].established :
        /\ cid \notin DOMAIN disp[p].responders \cup DOMAIN disp[p].forks
        /\ CandidatesFor(disp[p].store, cid) = {}

(* The store's bookkeeping survives being shared by both roles. *)
StoreSound == \A p \in Party : StoreOK(disp[p].store)

(* "a list of live forks actually processing distinct candidate responses":  *)
(* however often a response is duplicated, one live fork at most tries it.   *)
ForksDistinct ==
    \A p \in Party : \A cid \in DOMAIN disp[p].forks :
        LET forks == disp[p].forks[cid] IN
        \A i, j \in DOMAIN forks :
            i < j /\ forks[i].lastReceived # None
            => forks[i].lastReceived # forks[j].lastReceived

CiphertextsOf(p) == UNION {CiphertextsIn(pdu) : pdu \in wire[p]}

(* A responder only ever establishes keys the initiator it names encrypted a *)
(* c_m under: no interleaving of restarts, expiries and several requests      *)
(* pairs it with anything else.                                               *)
ResponderAuthentic ==
    \A p \in Party : \A k \in confirmed[p] :
        /\ k.fA = Peer(p)
        /\ \E c \in CiphertextsOf(Peer(p)) :
            c.keys = k /\ c.dir = "a2b" /\ c.seq = 0

(* Forks share one ephemeral key and one cid, and post_payload() gives the    *)
(* same payload to all of them: still no key encrypts two plaintexts under    *)
(* one seq.                                                                   *)
NonceUnique ==
    LET all == UNION {CiphertextsOf(p) : p \in Party} IN
    \A c, d \in all :
        c.keys = d.keys /\ c.dir = d.dir /\ c.seq = d.seq => c = d

(* A payload given to several forks, resent and replayed still reaches the    *)
(* peer's application once in the peer's lifetime (until it closes the        *)
(* session: after that a replayed handshake is a new one).                    *)
DeliveredOnce ==
    \A p \in Party : \A e, f \in delivered[p] :
        e.cid = f.cid /\ e.payload = f.payload => e = f

Pending(d) == DOMAIN d.responders \cup DOMAIN d.forks

(* update() reconciles cid by cid, then forgets candidates in two more loops:  *)
(* after all of it a cid with pending sessions still has some candidate in the *)
(* store, and so counts against its caps.  A fork may outlive the candidate of *)
(* its own response, as long as a sibling's is there.                          *)
PendingIsBacked ==
    [][\A p \in Party : Crank(p) =>
         \A cid \in Pending(disp'[p]) : CandidatesFor(disp'[p].store, cid) # {}]_vars

CompletionRequests(p) == {pdu \in wire[p] : pdu.type = "session_completion_request"}

(* The process has answered this response before it made the fork. *)
IsRetrial(p, fork) ==
    \E pdu \in CompletionRequests(p) :
        /\ pdu.cid = fork.cid
        /\ pdu.cM.keys.nB = fork.keys.nB
        /\ pdu.cM.keys.nA[2] < fork.keys.nA[2]

(* The TTL is fixed lest replaying one captured message keep a candidate alive *)
(* for ever: the last thing a handshake lives on is never a response it has    *)
(* tried and dropped before.                                                   *)
NotKeptByReplay ==
    \A p \in Party : \A cid \in DOMAIN disp[p].forks :
        LET trying == {fork \in Range(disp[p].forks[cid]) :
                          fork.state = EXPECT_SESSION_COMPLETION_RESPONSE}
        IN trying # {} => \E fork \in trying : ~IsRetrial(p, fork)

(* "handshake for cid": until a response has come or its own retry deadline   *)
(* has passed, update() does not forget a handshake this process initiated.   *)
UnansweredIsKept ==
    [][\A p \in Party : Crank(p) =>
         \A cid \in DOMAIN disp[p].templates :
            disp[p].templates[cid].deadline > 0 => cid \in DOMAIN disp'[p].templates]_vars

(* What a fork resends reaches the wire. *)
NothingStranded ==
    \A p \in Party : \A cid \in DOMAIN disp[p].forks :
        \A i \in DOMAIN disp[p].forks[cid] : disp[p].forks[cid][i].outgoingPdus = <<>>

(* The session Alice is left with is one the real Bob holds. *)
EstablishedWithPeer ==
    \A p \in Party : \A cid \in DOMAIN disp[p].established :
        disp[p].established[cid].role = INITIATOR =>
            disp[p].established[cid].keys \in confirmed[Peer(p)]

(* A duplicate response never makes a second completion request. *)
DuplicateInSameOut ==
    \A p \in Party : \A x, y \in wire[p] :
        /\ x.type = "session_completion_request" /\ y.type = x.type
        /\ x.cid = y.cid /\ x.cM.keys.nB = y.cM.keys.nB
        => x = y

(* The sessions held for unconfirmed handshakes respect the store's caps. *)
PendingSessionsCapped ==
    \A p \in Party :
        LET d == disp[p] IN
        /\ \A cid \in DOMAIN d.forks : Cardinality(DOMAIN d.forks[cid]) <= MaxPerCid
        /\ Cardinality(DOMAIN d.responders) <= MaxTotal

=============================================================================
