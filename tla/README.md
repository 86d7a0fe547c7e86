# KEM-MAKE: a TLA+ model of its sessions and its key directory

KEM-MAKE is a Python implementation of a mutually authenticated key exchange
over ML-KEM. Its logic is in `src/src/kem_make/`: a handshake state machine
(`session.py`), a bounded pool of unconfirmed handshakes (`candidate.py`), a
dispatcher that arbitrates between several of them (`dispatcher.py`), the wire
structures (`bottom.py`, `common.py`), a key directory on disk (`keystore.py`)
and a start-up check of the crypto library (`crypto_backend.py`).

This directory models the first three: what they do when messages are lost,
delayed, reordered and duplicated, when either process restarts, when timers
fire at any moment relative to arrivals, and when the pools are full; and the
key directory, shared by processes that take no lock and may die between any two
file accesses.

## Inventory

**Session** (`session.py`). One handshake attempt for one cid and the traffic
of the session it establishes. State: role, state, cid, the last PDU accepted
and the last one sent, retry counter and deadline, one pending payload, the
handshake secrets, the derived keys, two sequence counters, output queues.
Operations: `initiate`, `post_pdu`, `post_payload`, `update` (the crank: one
incoming PDU, then a pending payload, then the deadline), `reset`, `fork`, and
the output queues. There are no callbacks and no threads: whoever owns the
object calls `update(now)` after every post and on a timer of its own.
*Hard:* retries racing late answers, duplicates of older PDUs, restarts that
leave the peer in another generation of the handshake, nonce uniqueness across
the completion PDUs and the traffic. *Correct when* both ends hold the same
keys, no nonce is used twice, a resend is verbatim, payloads arrive in order
and at most once, and every handshake ends.

**Candidate store** (`candidate.py`). Unauthenticated (received, sent) pairs by
cid, bounded per cid and globally, with a fixed TTL. State: the dict of lists
and a total kept by hand. Operations: `add`, `promote`, `discard`, `expire`,
and queries. *Hard:* the counter against four mutators, both limits at their
boundary, empty lists left behind, stale candidates filling a cap. *Correct
when* the counter is exact, both caps hold, a refusal is justified and nothing
outlives its TTL.

**Dispatcher** (`dispatcher.py`). All sessions of one process: established
ones, one responder session per pending cid, and for each handshake it
initiated a template and the forks that each try one candidate response. It
calls `Session` and `CandidateStore` directly and shares one store between both
roles. Operations: `initiate`, `post_pdu` (routing), `post_payload`, `update`,
`close`, and the output queues. *Hard:* five collections that must agree, a
response that may come from a restarted peer, duplicates addressed to forks
that are gone, candidates and sessions that expire by different clocks.
*Correct when* promotion leaves nothing behind, no two forks try the same
response, no cid is pending without a candidate, and the session left standing is
one the peer holds.

**Wire structures** (`bottom.py`, `common.py`). DER codecs with length checks.
No state. The PDUs appear as records; encoding does not.

**Key directory** (`keystore.py`). State on disk: a header with the salt and a
tag that verifies the passphrase, one file per public key (the key, the KeyIds
computed for it, a MAC bound to the file name), one per private key (wrapped
under a key bound to the KeyId inside the entry), and `alt_index.der`, which maps
other digests' KeyIds to file names. State in memory: the master key, until
`close()` zeroes it. Operations: `create`, `open`, `close`, `add_public_key`,
`get_public_key`, `key_id_for`, `add_private_key`, `get_private_key`. Every file
is replaced as a whole; nothing is locked. *Hard:* a crash between two writes,
two processes that each read and rewrite a file, a check and a write apart, use
after `close()`, an entry in another's place. *Correct when* a call answers with
the key the KeyId was computed from or with an error, an integrity error means
damage, and no key that was added is forgotten. Sessions use it only through
`get_public_key` and `get_private_key`.

**Crypto backend** (`crypto_backend.py`). Sequential checks at start-up. Not
modelled: it has neither state nor concurrency.

The hazards of this code, each at its line with the properties that cover it,
are in `PROJECT.json`.

## Modules

| module | models | state and actions |
|---|---|---|
| `Crypto` | the cryptographic helpers of `session.py`, symbolically | operators only |
| `Session` | `session.py` | a Session object is a record; each method is an operator from record to record |
| `SessionPair` | an initiator and a responder with their callers and the network | `StartHandshake`, `Post`, `Deliver`, `Crank`, `Tick`, `Restart` |
| `SecureChannel` | abstract: what two applications may expect of the pair | `Post`, `Confirm`, `Agree`, `Receive`, `End` |
| `CandidateStore` | `candidate.py` | the store is a record; each method is an operator |
| `CandidatePool` | a store under any sequence of calls | `AddCandidate`, `ForgetCid`, `Sweep`, `Tick` |
| `Dispatcher` | `dispatcher.py`, over `Session` and `CandidateStore` | a Dispatcher object is a record; each method is an operator |
| `DispatcherPair` | two processes with their callers and the network | `StartHandshake`, `Deliver`, `Crank`, `Post`, `CloseSession`, `Tick`, `Restart` |
| `Session_proofs` | lemmas: every method keeps a Session object well formed, what it does to the ciphertexts made so far, what one `update()` may change and send, and which ciphertext it may take | |
| `SessionPair_proofs` | theorems about `SessionPair`: types, nonces, agreement on keys and false starts, retries, exceptions | |
| `Channel_proofs` | theorems about `SessionPair`: it implements `SecureChannel`; what is handed over is the peer's stream | |
| `CandidateStore_proofs` | lemmas: every operator keeps `StoreOK` | |
| `CandidatePool_proofs` | theorems about `CandidatePool` | |
| `DispatcherPair_proofs` | theorems about `DispatcherPair`: its dicts, forks and store | |
| `DispatcherKeys_proofs` | theorems about `DispatcherPair`: its nonces, what a responder's keys stand for, and what is handed over | |
| `KeyRing` | abstract: what a key directory promises | `AddPublicKey`, `AddPrivateKey`, `Damage` |
| `KeyDirectory` | `keystore.py`: the files, and each process's object and call under way | one action per file access: `Create`, `MakePublic`, `MakePrivate`, `WriteHeader`, `Open`, `Close`; `AddPublicKey`, `WritePublic`; `GetPublicKey`, `KeyIdFor`, `GetPrivateKey`, `ConsultIndex`, `LoadByIndex`, `WriteIds`, `ReadIndex`, `WriteIndex`, `ReadPrivate`; `AddPrivateKey`, `WritePrivate`; `Crash`, `Misplace` |
| `KeyDirectory_proofs` | theorems about `KeyDirectory` | |
| `MCSessionPair`, `MCDispatcherPair`, `MCKeyDirectory` | values for constants | |

The objects are records and the methods operators, because the same code runs
in two compositions: alone (`SessionPair`) and many to a process
(`DispatcherPair`). A method that may raise returns the object and the exception
that escapes. A definition that the comment calls a *variant* is the method with
a plausible mistake in it; no specification uses it, and each property of a
passing run is shown to fail when a variant takes the place of the method.

### How the state corresponds to the code

* **Cryptography is symbolic.** A secret or nonce is a fresh value; a
  ciphertext is a record of what it was made with. ML-KEM's implicit rejection
  is kept: decapsulating somebody else's ciphertext yields a secret, not an
  error, and only a ciphertext of another level (another length) raises. So is
  `h_m`, a hash of the plaintext that depends on no key.
* **The fields `n_a`, `s4`, the peer's static key of a Session, `created_at`,
  `attempt_count` and `sent_pdu` of a candidate** are written and never read
  (except to derive the keys, which the model holds) and are left out.
* **The incoming queue.** Every composition calls `update()` after each
  `post_pdu()`, as the docstrings ask, so the queue is empty between steps; the
  delay it could add is the network's.
* **The network** is the set of all PDUs a party has ever sent: any of them may
  be delivered at any time, any number of times, or never. Malformed bytes are
  one more arrival. Every PDU in it was made by one of the two parties.
* **Time is relative.** A deadline is the ticks left on its party's own clock;
  `now` is 0 and `Tick` moves the deadlines closer. The clocks of the two
  parties are independent. An expired deadline may stay unnoticed for any time
  before the next `update()`. `CandidatePool` uses absolute time instead.
* **`update()`'s return value** (what is ready, when to call again) changes no
  state and is left out. `next_update_result` with it.
* **`Restart`** is `reset()` for a bare session and a new `Dispatcher` for a
  process: everything in memory is lost, nothing on the network is.

* **Files of the key directory.** `public` and `private` are functions from keys
  to what the file named by the key's SHA-256 hash holds; a key stands for that
  hash too. A MAC, a wrapped key and the header's tag are records of the master
  key (and the name) they were made with, and verify under that one only. A
  master key is its passphrase and the salt that one `create()` drew.
* **Calls of the key directory** are cut where another process can see the
  difference: `call[p]` holds what the call has read so far and names the access
  that comes next. A check for a file and the write that relies on it are two
  steps, reading the index and replacing it are two steps, and so are the entry
  and the index of `key_id_for`. Reading an entry's existence and reading the
  entry are one, since no method ever deletes a file. `_atomic_write` is one
  step: what a crash inside it leaves is a temporary file nobody reads.
* **Faults.** `Crash` ends a process anywhere; `Misplace` copies one entry over
  another, as the swap tests of `test_keystore.py` do; and `Close` leaves an
  object that is let go of, or goes on being used with a zeroed key, which the
  documentation advises against and the code does not prevent. The histories
  `damaged`, `blamed`, `misanswered` and `disturbed` record what happened to
  which key; no guard reads them.

## Runs

| run | module, cfg | result | what it shows |
|---|---|---|---|
| `session_pair` | `MCSessionPair`, `SessionPair.cfg` | passes | below |
| `candidate_pool` | `CandidatePool`, `CandidatePool.cfg` | passes | below |
| `dispatcher_pair` | `MCDispatcherPair`, `DispatcherPair.cfg` | passes | below |
| `key_directory` | `MCKeyDirectory`, `KeyDirectory.cfg` | passes | below |
| `mixed_levels` | `MCSessionPair`, `MixedLevels.cfg` | violates `OnlySessionErrors` | parties configured for different ML-KEM levels: a bare `ValueError` escapes the responder |
| `unanswered` | `MCDispatcherPair`, `Unanswered.cfg` | violates `UnansweredIsKept` | the first `update()` after `initiate()` forgets the handshake |
| `stranded_resend` | `MCDispatcherPair`, `StrandedResend.cfg` | violates `NothingStranded` | a fork's retry never leaves the fork |
| `wrong_fork` | `MCDispatcherPair`, `WrongFork.cfg` | violates `EstablishedWithPeer` | the confirmation of one fork promotes another |
| `duplicate_response` | `MCDispatcherPair`, `DuplicateResponse.cfg` | violates `DuplicateInSameOut` | a duplicate whose fork is gone is answered anew, though the store still holds its candidate |
| `pending_caps` | `MCDispatcherPair`, `PendingCaps.cfg` | violates `PendingSessionsCapped` | `add()`'s sweep frees room that sessions still occupy |
| `kept_by_replay` | `MCDispatcherPair`, `KeptByReplay.cfg` | violates `NotKeptByReplay` | a handshake lives on the replay of a response it has tried and dropped |
| `key_id_unindexed` | `MCKeyDirectory`, `KeyIdUnindexed.cfg` | violates `ComputedIsIndexed` | a crash between the two writes of `key_id_for` leaves a KeyId that is cached and can never be looked up |

The eight violations are disagreements between the code and what its
documentation, comments or tests say; each is described with both quotations
under `findings` in `PROJECT.json`.

**`session_pair`.** `KeysAgree`: an ESTABLISHED initiator holds keys the
responder established, and the responder only establishes keys the initiator
used. `NonceUnique`: no two ciphertexts share key, direction and sequence
number. `RetriesVerbatim`: one request of each kind per cid, one answer per
incarnation of Bob. `DeliveredIsSent`: what the current session handed over is
the peer's stream, nothing missing or swapped. `FalseStartDelivered`: a matched
`h_m` means the payload arrived. `OnlySessionErrors`: no arrival makes
`update()` raise anything but the exceptions its callers expect.
`ImplementsChannel`: the pair refines `SecureChannel` (over both parties' whole
lives, restarts included). `HandshakeEnds`, `PostedIsSent`: liveness.
*Bounds:* two payloads and one restart per party, one retry, TTL and interval
of one tick: a resend, a duplicate of every PDU before and after a restart of
either side, a false start and a reply payload, a payload after each and a
sequence number above 1 all occur. The parties prefer different AEADs. About
100,000 states.

**`candidate_pool`.** `CountExact`, `CapsRespected`, `DictBounded` (refused adds
do not pile up empty lists), `RefusalHonest` (only live candidates refuse a
newcomer), and the action property `FixedTTL`: a sweep or an add leaves nothing past
its TTL in one pass, and a candidate keeps the expiry it was made with, whatever is
added, refused or repeated meanwhile. *Bounds:* three cids, two PDUs, caps
2 and 3, TTL 2, clock up to 5: both caps bind separately, entries of different
ages expire at different sweeps, candidates are added up to the last instant, and
refused adds leave more than one empty list unless swept. About 91,000 states.

**`dispatcher_pair`.** Alice initiates once and may fork up to three times, Bob
answers at most twice and may restart in between; per-cid and global cap 2,
session and candidate TTL 2. `PromotionTotal`, `StoreSound`, `ForksDistinct`,
`ResponderAuthentic`, `NonceUnique`, `DeliveredOnce`, and the action property
`PendingIsBacked`: after `update()` a cid with a pending session has some candidate.
That is a promise about cids. It says nothing of a single fork, which may outlive its
own candidate (as `pending_caps` shows), nor that a handshake ends: old responses replayed in
turn keep one pending (`kept_by_replay`), so no liveness property is stated of a
dispatcher. Two generations of
Bob, a full candidate list, expiry of a candidate before its fork, a duplicate
to a live and to a dropped fork, a payload copied into several forks, and
closing a session all occur. The log `delivered` is a set whose entries carry their
place among those of one cid, so that a payload handed over twice is two entries.
About 46,000 states. One initiated handshake
suffices because nothing but the store's global cap couples two cids, and
`candidate_pool` and the proofs cover that cap for any number of them.

**`key_directory`.** `RightKey`: whatever is misplaced, overwritten or
interrupted, a call answers with the key its KeyId was computed from.
`IntegrityErrorsMeanDamage`: through an open object no call blames a key whose
files were left alone; two racing writes of one entry are not damage.
`OpenableIsComplete` and `HalfMadeStays`: a `create()` that dies leaves a
directory that is complete or that never opens. `ComputedIsIndexedUndisturbed`: a
cached KeyId is found through the index as long as no call dies between its two
writes, no two updates race and nothing is damaged; `key_id_unindexed` drops the
condition. `RingSpec`: the directory refines `KeyRing`, so that no interleaving
of calls loses a key or stores a private key without its public key. *Bounds:*
two processes, one of which may call `create()`, two keys, two passphrases, two
digests, and one fault (a crash, a misplaced file, or a closed object in use) in
each behaviour. Two processes make every check-then-write race and two keys
every wrong answer; a second fault adds only the coincidence of two, which the
proofs cover for any number. About 1.07 million states, up to the symmetry of
keys and of passphrases.

**Bounds in the guards.** `MaxPayloads`, `MaxResets`/`MaxRestarts`,
`MaxHandshakes`, `MaxDraws`, `MaxFaults` and `MaxTime` bound what the environment
does.
`MaxDraws` also refuses a delivery that would draw key material once more: each
response a dispatcher forks for, old or new, and each request it answers. The code
would process that delivery, so a behaviour of `DispatcherPair` ends its forking
early: that hides no state within the bound from an invariant or an action
property, but a liveness property would hold for no better reason, and none is
checked there. The proofs use no value of `MaxDraws`. `FreeSlot` numbers candidates so that equal ones
stay apart; it is bounded by `MaxTotal`, which the cap guarantees.

## Fairness

Clocks advance (`WF` on `Tick`) and the owner cranks `update()` on its timer
(`WF` on `Crank`) in `SessionPair`, the one specification with liveness
properties: the docstrings ask for exactly that. In the code a call with
an unexpired deadline is a no-op, so a weakly fair crank that runs after the
deadline is all that is assumed. `Crank`'s fairness is written with `CrankIdle`,
which says that `update()` with nothing received would change nothing - for a
deterministic operation that is `~ENABLED <<Crank(p)>>_vars` - because it is
much cheaper to evaluate. Delivery, posting, restarting and starting handshakes
are owed to nobody: no liveness property depends on a message arriving.
`CandidatePool`, `DispatcherPair` and `KeyDirectory` assume none: what they promise
here is safety, and the calls of a key directory are straight sequences of file
accesses that wait for nobody.

## Proofs

`SessionPair_proofs` proves, for every retry limit, interval, TTL, ML-KEM level,
AEAD list and key directory allowed by `ConfigAssumption` (and `None` not being a
number, `NoneAssumption`), and for any number of
payloads and restarts:

* `SessionTypeCorrect`: `Spec => []TypeOK`
* `NoncesAreUnique`: `Spec => []NonceUnique`

`NonceUnique` speaks of the wire only and is not inductive. The invariant `IInv`
ties each party's object to everything it has sent (`Nonces`): the ciphertexts
are in the party's own direction and under keys that hold a value the party drew
itself (`n_a` or `n_b`), one draw per derivation; in a state with keys, every
ciphertext under these keys has a seq below the party's counter; a responder
that waits for `c_m` holds an `n_b` that no ciphertext holds yet; and what is
cached for a resend has been sent. A false start, a reply payload and the traffic
after them then take seqs 0, 1, 2, ... by construction of the counters; a resend
adds nothing; and a restart, which sets the counters back, also gives up the keys
they counted for, so the next derivation draws a value no ciphertext holds.
`Session_proofs` has, for each handler, the lemma that a Session object stays well
formed and the one that it keeps `Nonces` (`UpdateNonces` combines them); both speak of any object and any arriving value, so they hold in every
composition. That a responder never picks an AEAD outside its list
(`ChosenIsAcceptable`) rests on the least-number principle.

The second half of `SessionPair_proofs` proves, from the same assumptions,

* `KeysAreAgreed`: `Spec => []KeysAgree`
* `FalseStartsAreDelivered`: `Spec => []FalseStartDelivered`
* `RetriesAreVerbatim`: `Spec => []RetriesVerbatim`
* `OneLevelRaisesSessionErrors`: `OneLevel => (Spec => []OnlySessionErrors)`, where
  `OneLevel` says that both static keys and both `kem_level`s are of one level

`h_m` is a hash of the plaintext of `c_m` and depends on no key, so that it
matches does not by itself say that Bob had the keys. The argument is about who
asked for what. Alice makes at most one request of each kind per cid (`OneEach`),
because the cid is drawn with the init request and the state that accepts a response
is left for good when one is accepted; so the request under the cid of her session is the
one her session's keys encrypted (`AliceInv`). Bob takes over keys only when the
`c_m` under them opens, and every answer he has made, cached or sent stands on a
completion request of Alice's under that cid and those keys, the payload of which
his application was handed (`BobInv`). When
Alice accepts an answer, the request it stands on is hers under her cid, hence
the only one, hence her keys, and Bob's application was handed the payload in it.
For the third theorem the invariant also ties every Message on the wire to a
completion request with its cid and keys, so that one that bears the cid of an
established session opens with the session's keys and `InvalidTag`, which
`handle_established_message` does not catch, cannot occur; and every KEM key and
ciphertext on the wire to the one level, so that no length is refused with
`ValueError`. Without `OneLevel` the statement is false (`MixedLevels.cfg`).
For `RetriesAreVerbatim` the requests are `OneEach`, and the answers are counted:
of each kind the wire holds no more than Bob has restarted, and one more once his
session is past the request it answers (`AnsweredOnce`). A step either answers a
request the session had not answered, with one PDU, or adds no answer (`Answers`);
a duplicate is answered with the cached PDU, which the wire holds already.
Most steps learn nothing of the handshake - a resend, a timeout, established
traffic - and share the lemmas about `Quiet`; each handshake handler has one
lemma for either side. The theorems are about two honest ends on a network that
loses, repeats and reorders: it delivers only what one of them has sent.

`Channel_proofs` proves, from the same assumptions,

* `ImplementsSecureChannel`: `Spec => ImplementsChannel`

The abstract specification hands over a payload only if it was posted after the
last one handed over, so the proof has to compare posts, which the code never
does: a ciphertext carries a seq and no post number. The invariant `ChannelInv`
adds to `AgreementInv` why seqs stand in for posts. At the sender (`SenderInv`): a
payload is encrypted after everything posted before it, so the waiting payload is
newer than every ciphertext, and under one set of keys later seqs hold later
payloads. At the receiver (`ReceiverInv`): whatever the session may still accept -
anything under an offered `n_b`, the answer under its own keys, the expected seq or
a later one - was encrypted after all that its application was handed, in this
session or an earlier one. A handler that hands over moves the expected seq past
the payload; a handler that begins a handshake draws a value, which no ciphertext
made so far can hold (`NoncesDrawn`, `OffersDrawn`, `Echoed`), so old traffic
replayed after a restart cannot become acceptable again. Then `StepIsChannelStep`
maps each action: an accepted completion request is `Confirm`, an accepted
completion response `Agree` (of keys that are `confirmed` by `AgreementInv`), a
Message `Receive`, Alice's reset `End`, and everything else - duplicates, resends,
refusals, timeouts, ticks - leaves the abstract state as it was.

* `DeliveriesAreSent`: `Spec => []DeliveredIsSent`

`SecureChannel` allows payloads to be left out; this theorem is about the seqs
within one session and allows none but the empty false start. `UpdateHears`, a lemma
of `Session_proofs` about any session and any arrival, says all an `update()` can do
with a ciphertext: ignore it (`Ignores`), begin traffic with it or without one
(`Begins`, `BeginsMute`), or receive the one whose seq is expected next
(`Receives`). `Matches` is the stream so far: what the application holds ends in the
plaintexts of the seqs below the expected one (`Aligned`). It only asks that
ciphertexts exist, so the peer's later ones leave it true (`MatchesGrows`), and
`HearsMatches` carries it over an arrival. `StreamInv` adds it to `ChannelInv`, which
supplies that whatever arrives was made by the peer.

`CandidatePool_proofs` proves, for every cap, TTL, set of cids and set of PDUs
allowed by `StoreAssumption` and `PoolAssumption`:

* `TypeCorrect`: `Spec => []TypeOK`
* `TotalIsExact`: `Spec => []CountExact`
* `CapsHold`: `Spec => []CapsRespected`
* `DictIsBounded`: `Spec => []DictBounded`
* `RefusalIsHonest`: `Spec => []RefusalHonest`
* `TTLIsFixed`: `Spec => FixedTTL`

The inductive invariant is `IInv == TypeOK /\ StoreOK(store) /\ DictBounded`.
The caps alone are not inductive: `add` compares the *counter* with the global
cap, so the counter must be exact; the counter stays exact only if a new
candidate is not already in the set, which needs a free slot, and a free slot
exists because distinct candidates have distinct slots and there are fewer than
`MaxTotal` of them (`FreeSlotExists`, by the pigeonhole principle); and
`DictBounded` needs that a sweep leaves no cid without candidates
(`ExpireListsNoEmptyCid`). `StoreOK` speaks of the store alone, and
`CandidateStore_proofs` shows each operator keeps it: `EmptyStoreOK`,
`ExpireOK`, `ForgetAllOK`, `ForgetOK`, `AddOK`. They are stated about any store,
so that the dispatcher's use of it can cite them.

`RefusalHonest` is not part of `IInv`: it is proved separately, from `IInv` and
the fact that every action except `AddCandidate` overwrites `outcome`. `TTLIsFixed`
is an action property, proved of every step from `IInv`: the only new candidate is
the one `add` makes, in a slot that the swept store leaves free (`FreeSlotExists`),
so whoever had that slot before was past its TTL.

`DispatcherPair_proofs` proves, from `ConfigAssumption`, `NoneAssumption`,
`StoreAssumption` and `PairAssumption`,

* `TypeCorrect`: `Spec => []TypeOK`
* `PromotionIsTotal`: `Spec => []PromotionTotal`
* `ForksAreDistinct`: `Spec => []ForksDistinct`
* `UpdateBacksPending`: `Spec => PendingIsBacked`
* `StoreIsSound`: `Spec => []StoreSound`

The invariant is `SInv`; `Shape` is the part of it that speaks of one dispatcher,
and each method of `dispatcher.py` has a lemma that keeps `Shape`, whichever way
it returns. `Shape` says of every session in a dict that it is one `session.py`
can be in (`Object`), that it has that cid, and whose the cid is: a session this
process initiated has a cid of its own draws, a responder one of the peer's
(`Held`). That is why the roles cannot meet under one cid, which nothing in
`dispatcher.py` checks; it takes that the requests on the wire bear cids their
sender drew (`Asked`). Of a fork it says what it is to its template (`Tries`), and
of a list of forks that no two took one response (`Distinct`): a new fork is made
only for a response no live fork holds, and after that `lastReceived` changes only
by a completion response, which establishes the fork and removes its siblings. Of
the store it says `StoreOK` and that candidates have the fields `add` gives them:
`Tick` rewrites `expiresAt` in all of them at once, and they stay as many only
because their slots tell them apart.

Nothing of this could be shown without knowing what `Session.update()` does to
one object, so `Session_proofs` states it once (`UpdateEffect`): which states it
may go to, that it keeps role, cid and ephemeral key, what becomes of
`lastReceived`, and that without an incoming PDU it neither raises nor establishes
anything. `PendingIsBacked` (of cids, not of single forks) is the shape of each stage of `Dispatcher.update()` in
order: the reconciliation leaves only what the store backs, and each later stage
that takes candidates away takes their sessions too (`Backed`).

`WellFormed` lets a responder session be INITIAL. `_route_session_init_request`
removes a session that the request could not start, but only after `_deliver`
has returned: with static keys of a level other than `kem_level` `encaps` raises
`ValueError`, which `_deliver` does not catch, and the INITIAL session stays until
its candidate expires.

`DispatcherKeys_proofs` proves, from the same four assumptions,

* `NoncesAreUnique`: `Spec => []NonceUnique`
* `RespondersAreAuthentic`: `Spec => []ResponderAuthentic`
* `PayloadsArriveOnce`: `Spec => []DeliveredOnce`

Here a process has many sessions on one wire, so that each of them keeps its own
counters says nothing of two of them. The invariant `KInv` adds to `SInv` a `Crowd`
for each process, in three parts. `Traffic`: in each direction, what the process
has ever sent repeats no seq under one set of keys, and all these keys hold a draw of the process.
`Member`: each session by itself is as `Session_proofs` describes it - what it
caches has been sent, and what was made under its keys has seqs below its counter - and
a responder with keys is `Vouched` for: the peer has sent the `c_m` that they were
confirmed by. And no two sessions of one role that still can encrypt go by one draw
(`Draw`): the `n_b` a responder offered or the `n_a` an initiator put in its keys.
That last part is what separates the forks, which share cid, ephemeral key and
payload. One call to a method draws at most once and then holds the fresh draw
(`Took`); otherwise a session encrypts under the draw it had (`Follows`), so two
sessions never come to share keys (`CrowdStep`: calls on any of the sessions, some of
which are gone afterwards). Handing a payload to all forks and cranking all sessions
are such calls, without a draw; delivering a response makes one fork that draws; the
removal of siblings, of expired candidates or of a refused request only loses
sessions. A restart loses all of them, and no draw is made again. The rest shows
that each path through `dispatcher.py` is a `CrowdStep`. Two things are needed of
`SInv` again: a fork that has keys remembers the response they came from (`Tries`), so
no two entries of a list of forks are one session counted twice, and an update of
one leaves no stale copy that would encrypt under the same draw; and roles, cids and
dicts do not mix (`CidsApart`). A completion response is offered to all forks; those it
does not establish queue nothing but what had been sent before.
`confirmed` then follows from `Vouched` at the step that adds to it, because the
wire only grows.

For `PayloadsArriveOnce` the sender's half is in `KInv`: `Traffic` also says that no
payload is encrypted twice under one set of keys (`NoneTwice`), because what a
session still holds for sending it has not encrypted yet (`Unspent`). That a payload
goes to every fork does no harm, since each fork has keys of its own. The receiver's
half is `LInv`: each entry of a process's log stands on a ciphertext of the peer that
the established session of that cid takes at a seq it no longer waits for (`Heard`),
and no two entries of one cid have one payload. A call hands over one payload at most, that
of a ciphertext the session waited for until now, and no established session goes
back to a seq or changes its keys (`Tells`, `Continues`). So a payload handed over
now and before would be two ciphertexts under the session's keys (one
ciphertext has one seq, which the session waited for once), and the peer makes no
two of them. That is about one session; a cid never has two in a row while
its log lasts, because only `close()` and a restart take an established session away.
For this every session must be `Settled` between two calls: nothing waits to be handed
over, and a responder that is established has taken its peer's seq 0, so that what
`c_m` carried cannot come again as a Message (`UpdateHands`).

`KeyDirectory_proofs` proves, for any sets of processes, keys, digests and
passphrases and any number of faults, from `DirectoryAssumption` (SHA-256 is one
of the digests, and the directory is made by one process) and `NoneAssumption`
(`None` and `Zero` are no records):

* `TypeCorrect`: `Spec => []TypeOK`
* `RightKeys`: `Spec => []RightKey`
* `BlamedIsDamaged`: `Spec => []IntegrityErrorsMeanDamage`
* `Openable`: `Spec => []OpenableIsComplete`
* `HalfMadeForever`: `Spec => HalfMadeStays`
* `ComputedAreIndexed`: `Spec => []ComputedIsIndexedUndisturbed`
* `ImplementsKeyRing`: `Spec => RingSpec`

None of these is inductive. `Inv` adds three things. `HeaderInv`: objects and
files come after the header, and an object holds the header's master key or
zeroes. This is where one creator is needed: when the header is written every
other process is idle, so none holds a key that would stop verifying.
`FilesInv`: the files of a key that was not damaged were written for it under the
header's key; a public entry's MAC is bound to the name of the key inside it even
when it lies in another's place; and the index maps a KeyId to its own key.
`CallInv`: what a call under way has read stays good enough whatever the others do
meanwhile - the entry `key_id_for` will write back verified under this object's
key, the name found in the index is that of the key asked for, the public entry
`add_private_key` saw is still there because no method deletes a file. Each
action then has a lemma. Steps that change no file share `QuietStep`, and a
lookup ends right by `EntryFound` and `EntryBlamed`; steps that write share
`CallsKept` and `PublicWritten`. For the refinement, a write by an open object is
`KeyRing`'s `AddPublicKey` or `AddPrivateKey`, a write by a closed one and a
misplaced file are its `Damage`, and every other step leaves the ring as it is;
writing the header does because there is no file yet to verify under it.

`ComputedAreIndexed` needs more than that every cached KeyId is in the index or
waits in a call: the call must not fail. `UpdateInv` adds that, undisturbed, the
index verifies under the header's key and a call about to use it has an open
object, so `_alt_index_add` cannot end in `AltIndexIntegrityError` between its two
writes. It is proved on top of `Inv` (`NextIndexed`): a call that moves elsewhere
changes nothing for any KeyId (`MovesKeepIndexed`), `WriteIds` writes back the
entry it read, or the history variable says it was raced, and `WriteIndex` writes
the index it read with one KeyId more, or was raced too.

Only model-checked: the liveness properties `HandshakeEnds` and `PostedIsSent`
(fairness and `ENABLED` are outside what TLAPS handles).

## Not modelled, or not checked

* A promise that a posted payload is sent: `post_payload()` keeps one slot, so a second
  post before an `update()` overwrites the first, although its docstring
  (`session.py:383-387`) speaks of a queue. `Post` does the same; no run is spent on a
  single assignment. `PostedIsSent` says that the slot is emptied.
* DER encoding, length checks and PDU versions (`bottom.py`, `common.py`).
* The crypto backend: start-up checks in sequence, without state.
* The composition of sessions and key directory: a session reads two keys that
  never change, so the models of sessions take them as `KnownPublic` and one
  static key per party.
* Two `create()` calls on one path at the same time. Each would write a header of
  its own, and the loser's object would go on under a key that no longer opens the
  directory; `DirectoryAssumption` excludes it.
* Damage to single bytes of an entry, and a file restored from an older copy of
  itself. A `Misplace` is the damage the code distinguishes by name.
* A third party that makes PDUs of its own. The competing responses of
  `DispatcherPair` come from two incarnations of the same Bob.
* Numbers: sequence numbers and clocks do not overflow (Python integers; the
  nonce has 12 bytes of sequence number).
* Several threads on one object: the modules say they are not thread-safe.

## Plan

Done: `Session`, `SessionPair` with proofs and its refinement of `SecureChannel`,
proved; `CandidateStore`, `CandidatePool` with proofs; `Dispatcher`,
`DispatcherPair` with proofs; `KeyDirectory` with proofs and its refinement of
`KeyRing`, proved. What would add most from here:

1. Two processes that create one directory, which needs a second header in the model.
