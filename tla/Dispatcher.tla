----------------------------- MODULE Dispatcher -----------------------------
(***************************************************************************)
(* dispatcher.py: every session of one process.  Incoming PDUs are routed  *)
(* by cid to an established session, to the one responder session of a     *)
(* pending cid, or to the forks that each try one candidate response to a  *)
(* request this process sent; the first to be ESTABLISHED is promoted and  *)
(* its siblings are discarded.                                             *)
(*                                                                         *)
(* A Dispatcher object is a record, its dicts functions whose domain is    *)
(* the keys.  So is a list of forks, from their places to the forks: a     *)
(* fork keeps its place when others are dropped, a new one comes last.     *)
(* `outgoing` is a set: nothing below keeps PDUs in order.  A              *)
(* session's own incoming queue is empty between two calls (every          *)
(* post_pdu() here is followed by the update() that takes it; a DROPPED    *)
(* fork, which takes nothing, never will), so it does not appear.  A       *)
(* candidate's sent_pdu is written and never read.                         *)
(***************************************************************************)
EXTENDS Session, CandidateStore, SequencesExt

NewDispatcher(owner) ==
    [owner |-> owner, established |-> <<>>, responders |-> <<>>,
     templates |-> <<>>, forks |-> <<>>, store |-> EmptyStore,
     outgoing |-> {}, payloads |-> <<>>]

Without(f, cid) == Restrict(f, DOMAIN f \ {cid})
With(f, cid, value) ==
    [k \in DOMAIN f \cup {cid} |-> IF k = cid THEN value ELSE f[k]]

(* list.append, on a list of forks. *)
LastPlace(forks) == Max({0} \cup DOMAIN forks)
Appended(forks, fork) == With(forks, LastPlace(forks) + 1, fork)

(* What _deliver swallows; anything else escapes to the caller. *)
Swallowed == {NoError, HandshakeFailed, UnexpectedPDU}

-----------------------------------------------------------------------------
(* Dispatcher._drain. *)
DrainFrom(d, s) ==
    [d EXCEPT !.outgoing = @ \cup Range(s.outgoingPdus),
              !.payloads = @ \o [i \in DOMAIN s.outgoingPayloads |->
                                    <<s.cid, s.outgoingPayloads[i]>>]]

(* Variant: the losing forks stay. *)
PromoteKeepsForks(d, cid, winner) ==
    [d EXCEPT !.established = With(@, cid, winner),
              !.responders = Without(@, cid),
              !.store = Forget(@, cid)]

(* Dispatcher._promote. *)
Promote(d, cid, winner) ==
    [d EXCEPT !.established = With(@, cid, winner),
              !.responders = Without(@, cid),
              !.forks = Without(@, cid),
              !.templates = Without(@, cid),
              !.store = Forget(@, cid)]

(* Variant: only the promotion, not the removal. *)
ReapResponderPromotes(d, cid) ==
    IF d.responders[cid].state = ESTABLISHED
    THEN Promote(d, cid, d.responders[cid]) ELSE d

(* Dispatcher._reap_responder. *)
ReapResponder(d, cid) ==
    IF d.responders[cid].state = ESTABLISHED
    THEN Promote(d, cid, d.responders[cid])
    ELSE IF d.responders[cid].state = DROPPED
    THEN [d EXCEPT !.responders = Without(@, cid), !.store = Forget(@, cid)]
    ELSE d

(* Dispatcher.initiate: the session that sent the request becomes the template *)
(* and never processes a response itself.                                      *)
Initiated(d, r) ==
    IF r.exn # NoError THEN Raise(d, r.exn)
    ELSE Return(DrainFrom([d EXCEPT !.templates = With(@, r.s.cid, Drained(r.s)),
                                    !.forks = With(@, r.s.cid, <<>>)], r.s))

DispatcherInitiate(d, peer, fresh, now) ==
    Initiated(d, Initiate(NewSession(d.owner, INITIATOR), peer, fresh, now))

-----------------------------------------------------------------------------
(* A PDU for a session this process already has: _deliver, and for a responder *)
(* session _reap_responder.  `r` is what the session's update() returned.      *)
EstablishedDelivered(d, cid, r) ==
    IF r.exn \notin Swallowed
    THEN Raise([d EXCEPT !.established[cid] = r.s], r.exn)
    ELSE Return(DrainFrom([d EXCEPT !.established[cid] = Drained(r.s)], r.s))

DeliverEstablished(d, pdu, fresh, now) ==
    EstablishedDelivered(d, pdu.cid, Update(d.established[pdu.cid], pdu, fresh, now))

ResponderDelivered(d, cid, r) ==
    IF r.exn \notin Swallowed
    THEN Raise([d EXCEPT !.responders = With(@, cid, r.s)], r.exn)
    ELSE Return(ReapResponder(
             DrainFrom([d EXCEPT !.responders = With(@, cid, Drained(r.s))], r.s), cid))

DeliverResponder(d, pdu, fresh, now) ==
    ResponderDelivered(d, pdu.cid, Update(d.responders[pdu.cid], pdu, fresh, now))

(* A new responder session that the request could not start is taken away at *)
(* once, its candidate with it.                                              *)
ResponderStarted(d, cid, r) ==
    IF r.exn \in Swallowed /\ r.s.state = INITIAL
    THEN Return([d EXCEPT !.store = Forget(@, cid)])
    ELSE ResponderDelivered(d, cid, r)

(* Dispatcher._route_session_init_request.  A request over the caps is dropped. *)
RouteSessionInitRequest(d, pdu, fresh, now) ==
    LET stored == [d EXCEPT !.store = Add(@, pdu.cid, pdu, None, now)]
    IN IF pdu.cid \in DOMAIN d.responders THEN DeliverResponder(d, pdu, fresh, now)
       ELSE IF ~CanAdd(d.store, pdu.cid, now) THEN Return(stored)
       ELSE ResponderStarted(stored, pdu.cid,
                Update(NewSession(d.owner, RESPONDER), pdu, fresh, now))

(* Variant: only the newest fork is compared. *)
TriedLast(forks, pdu) ==
    {i \in DOMAIN forks : i = LastPlace(forks) /\ forks[i].lastReceived = pdu}

(* The live forks that already took this very response. *)
Tried(forks, pdu) == {i \in DOMAIN forks : forks[i].lastReceived = pdu}

ForkDelivered(d, cid, i, r) ==
    Return(DrainFrom([d EXCEPT !.forks[cid][i] = Drained(r.s)], r.s))

ForkStarted(d, cid, r) ==
    IF r.exn \notin Swallowed
    THEN Raise([d EXCEPT !.forks[cid] = Appended(@, r.s)], r.exn)
    ELSE Return(DrainFrom([d EXCEPT !.forks[cid] = Appended(@, Drained(r.s))], r.s))

(* Dispatcher._route_session_init_response: a response some live fork has       *)
(* already taken goes to that fork (which then only resends); any other is a    *)
(* new candidate with a fork of its own, unless the caps refuse it.             *)
RouteSessionInitResponse(d, pdu, fresh, now) ==
    LET cid == pdu.cid
        tried == Tried(d.forks[cid], pdu)
        stored == [d EXCEPT !.store = Add(@, cid, pdu, None, now)]
    IN IF cid \notin DOMAIN d.templates THEN Return(d)
       ELSE IF tried # {}
       THEN ForkDelivered(d, cid, Min(tried),
                Update(d.forks[cid][Min(tried)], pdu, fresh, now))
       ELSE IF ~CanAdd(d.store, cid, now) THEN Return(stored)
       ELSE ForkStarted(stored, cid, Update(Fork(d.templates[cid]), pdu, fresh, now))

(* The forks' answers in order: the first one ESTABLISHED wins, and only the *)
(* winner's queues are drained.                                              *)
FirstEstablished(d, cid, cranked) ==
    LET winners == {i \in DOMAIN cranked : cranked[i].state = ESTABLISHED}
        winner == cranked[Min(winners)]
    IN IF winners # {} THEN Promote(DrainFrom(d, winner), cid, Drained(winner))
       ELSE [d EXCEPT !.forks[cid] = cranked]

(* Dispatcher._route_to_forks. *)
RouteToForks(d, pdu, now) ==
    FirstEstablished(d, pdu.cid,
        [i \in DOMAIN d.forks[pdu.cid] |-> Update(d.forks[pdu.cid][i], pdu, None, now).s])

(* Dispatcher.post_pdu. *)
DispatcherPostPdu(d, pdu, fresh, now) ==
    IF pdu = Malformed THEN Return(d)
    ELSE IF pdu.cid \in DOMAIN d.established THEN DeliverEstablished(d, pdu, fresh, now)
    ELSE IF pdu.type = "session_init_request"
    THEN RouteSessionInitRequest(d, pdu, fresh, now)
    ELSE IF pdu.type = "session_init_response"
    THEN RouteSessionInitResponse(d, pdu, fresh, now)
    ELSE IF pdu.cid \in DOMAIN d.responders THEN DeliverResponder(d, pdu, fresh, now)
    ELSE IF pdu.cid \in DOMAIN d.forks THEN Return(RouteToForks(d, pdu, now))
    ELSE Return(d)

(* Dispatcher.post_payload: to the template too, for the forks to come. *)
DispatcherPostPayload(d, cid, payload) ==
    IF cid \in DOMAIN d.established
    THEN [d EXCEPT !.established[cid] = PostPayload(@, payload)]
    ELSE IF cid \in DOMAIN d.responders
    THEN [d EXCEPT !.responders[cid] = PostPayload(@, payload)]
    ELSE [d EXCEPT !.templates[cid] = PostPayload(@, payload),
                   !.forks[cid] = [i \in DOMAIN @ |-> PostPayload(@[i], payload)]]

(* Dispatcher.close. *)
Close(d, cid) == [d EXCEPT !.established = Without(@, cid)]

-----------------------------------------------------------------------------
(* Dispatcher.update, in its own order. *)

(* Variant: forks are not reconciled. *)
ReconciledResponders(d) ==
    [d EXCEPT !.responders =
        Restrict(@, {cid \in DOMAIN @ : CandidatesFor(d.store, cid) # {}})]

(* Dispatcher._reconcile_expired_candidates, right after the store's sweep. *)
Reconciled(d) ==
    LET candidateless(cid) == CandidatesFor(d.store, cid) = {}
        gone == {cid \in DOMAIN d.forks :
                    candidateless(cid) /\ cid \notin DOMAIN d.established}
    IN [d EXCEPT !.responders =
                     Restrict(@, {cid \in DOMAIN @ : ~candidateless(cid)}),
                 !.forks = Restrict(@, DOMAIN @ \ gone),
                 !.templates = Restrict(@, DOMAIN @ \ gone)]

(* Nothing arrives during update(), so no session of these loops raises.     *)
CrankAll(sessions, now) ==
    [k \in DOMAIN sessions |-> Update(sessions[k], None, None, now).s]

OutgoingOf(sessions) ==
    UNION {Range(sessions[cid].outgoingPdus) : cid \in DOMAIN sessions}

AllDrained(sessions) == [cid \in DOMAIN sessions |-> Drained(sessions[cid])]

(* Dispatcher._update_established_sessions. *)
EstablishedCranked(d, cranked) ==
    [d EXCEPT !.established = AllDrained(cranked),
              !.outgoing = @ \cup OutgoingOf(cranked)]

UpdateEstablishedSessions(d, now) ==
    EstablishedCranked(d, CrankAll(d.established, now))

(* Dispatcher._update_responder_sessions: with nothing received none can be   *)
(* newly ESTABLISHED, and what has been DROPPED goes with its candidates.     *)
RespondersCranked(d, cranked) ==
    LET live == {cid \in DOMAIN cranked : cranked[cid].state # DROPPED}
    IN [d EXCEPT !.responders = Restrict(AllDrained(cranked), live),
                 !.outgoing = @ \cup OutgoingOf(cranked),
                 !.store = ForgetAll(@, DOMAIN cranked \ live)]

UpdateResponderSessions(d, now) ==
    RespondersCranked(d, CrankAll(d.responders, now))

(* Dispatcher._process_initiator_forks: what a surviving fork queued stays in *)
(* the fork; a cid without surviving forks is forgotten.                      *)
ForksCranked(d, surviving) ==
    LET lost == {cid \in DOMAIN surviving : DOMAIN surviving[cid] = {}}
    IN [d EXCEPT !.forks = Restrict(surviving, DOMAIN @ \ lost),
                 !.templates = Restrict(@, DOMAIN @ \ lost),
                 !.store = ForgetAll(@, lost)]

Surviving(forks) ==
    Restrict(forks, {i \in DOMAIN forks : forks[i].state # DROPPED})

ProcessInitiatorForks(d, now) ==
    ForksCranked(d, [cid \in DOMAIN d.forks |->
                        Surviving(CrankAll(d.forks[cid], now))])

(* Dispatcher.update. *)
DispatcherUpdate(d, now) ==
    ProcessInitiatorForks(
        UpdateResponderSessions(
            UpdateEstablishedSessions(
                Reconciled([d EXCEPT !.store = Expire(@, now)]), now), now), now)

(* The caller's drain. *)
Emptied(d) == [d EXCEPT !.outgoing = {}, !.payloads = <<>>]

=============================================================================
