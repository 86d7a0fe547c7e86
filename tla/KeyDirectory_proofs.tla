------------------------ MODULE KeyDirectory_proofs -------------------------
(***************************************************************************)
(* The key directory keeps its promise for any number of processes, keys,  *)
(* digests, crashes and misplaced files: it implements KeyRing, answers    *)
(* with the right key, and reports damage only where there is some.        *)
(***************************************************************************)
EXTENDS KeyDirectory, TLAPS

Creating == {"make public", "make private", "write header"}

(* Objects and files come after the header, and an object holds the master *)
(* key the header verifies, or zeroes.                                     *)
HeaderInv ==
    /\ OpenableIsComplete
    /\ \A p \in Process :
          /\ master[p] \in {None, Zero, header}
          /\ master[p] # None => header # None
    /\ \A k \in Key : header = None => public[k] = None /\ private[k] = None
    /\ header = None => altIndex = None

(* What lies in the files of a key that was not damaged was written for it, *)
(* under the header's master key; the index maps a KeyId to its own key.    *)
FilesInv ==
    /\ \A k \in Key :
          /\ public[k] # None => /\ public[k].mac.name = public[k].key
                                 /\ k \in damaged \/ Authentic(k)
          /\ private[k] # None => /\ private[k].secret = private[k].keyId
                                  /\ k \in damaged \/ Held(k)
    /\ \A e \in IndexEntries : e.primary = e.kid.key

(* What a call has seen and read still holds when it goes on. *)
CallGood(p, c) ==
    /\ c \in CallsAt(c.at)
    /\ c.at \in Creating => p \in Creator /\ header = None
    /\ c.at = "make public" => dirs = {}
    /\ c.at = "make private" => "public" \in dirs
    /\ c.at = "write header" => dirs = {"public", "private"}
    /\ c.at \notin Creating \cup {"idle"} => master[p] # None
    /\ c.at = "load by index" => c.primary = c.request.kid.key
    /\ c.at = "write ids" => c.entry.mac = Mac(master[p], c.entry.key)
    /\ c.at = "write index" => \A e \in c.entries : e.primary = e.kid.key
    /\ c.at = "write private" => public[c.key] # None
    /\ c.at = "read private" => c.key = c.kid.key

CallInv == \A p \in Process : CallGood(p, call[p])

OutcomeInv == RightKey /\ IntegrityErrorsMeanDamage

Inv ==
    /\ TypeOK
    /\ HeaderInv
    /\ FilesInv
    /\ CallInv
    /\ OutcomeInv

-----------------------------------------------------------------------------
(* The records of a call, by the access that comes next. *)
LEMMA CallShapes ==
    /\ CallsAt("idle") = {Idle}
    /\ \A at \in Creating : CallsAt(at) = [at : {at}, passphrase : Passphrase]
    /\ CallsAt("write public") = [at : {"write public"}, key : Key]
    /\ CallsAt("write private") = [at : {"write private"}, key : Key]
    /\ CallsAt("consult index") = [at : {"consult index"}, request : Requests]
    /\ CallsAt("load by index") =
          [at : {"load by index"}, request : Requests, primary : Key]
    /\ CallsAt("write ids") =
          [at : {"write ids"}, entry : PublicEntries, digest : Digest]
    /\ CallsAt("read index") = [at : {"read index"}, new : AnyKeyId]
    /\ CallsAt("write index") =
          [at : {"write index"}, new : AnyKeyId, entries : SUBSET IndexFileEntries]
    /\ CallsAt("read private") = [at : {"read private"}, kid : AnyKeyId, key : Key]
BY DEF CallsAt, Creating

LEMMA CallFacts ==
    ASSUME Inv, NEW p \in Process
    PROVE  /\ CallGood(p, call[p])
           /\ call[p] \in CallsAt(call[p].at)
           /\ call[p].at \notin Creating \cup {"idle"} => master[p] # None
BY DEF Inv, CallInv, CallGood

LEMMA IdleGood == ASSUME NEW p \in Process PROVE CallGood(p, Idle)
BY CallShapes DEF CallGood, Idle, Creating

LEMMA IdleStays ==
    ASSUME NEW p \in Process, call'[p] = Idle
    PROVE  CallGood(p, call[p])'
<1>1. Idle.at = "idle" /\ Idle \in CallsAt("idle")
  BY CallShapes DEF Idle
<1>2. QED
  BY <1>1 DEF CallGood, Creating

(* A step that changes nothing but one call and what the callers were told *)
(* keeps the invariant if the call is a good one and the answer was right. *)
LEMMA QuietStep ==
    ASSUME Inv, NEW p \in Process, NEW c, CallGood(p, c),
           call' = [call EXCEPT ![p] = c],
           UNCHANGED <<disk, master, harm>>,
           misanswered' = {}, blamed' \subseteq damaged
    PROVE  Inv'
<1>1. /\ UNCHANGED <<dirs, header, public, private, altIndex>>
      /\ UNCHANGED <<disturbed, damaged, faults>>
  BY DEF disk, harm
<1>2. /\ call' = [q \in Process |-> call'[q]]
      /\ \A q \in Process : call'[q] = IF q = p THEN c ELSE call[q]
  BY DEF Inv, TypeOK
<1>3. ASSUME NEW q \in Process
      PROVE  CallGood(q, call[q])'
  <2>1. CallGood(q, call'[q])
    BY <1>2 DEF Inv, CallInv
  <2>2. QED
    BY <1>1, <2>1 DEF CallGood, disk, CallsAt
<1>4. CallInv'
  BY <1>3 DEF CallInv
<1>5. HeaderInv' /\ FilesInv'
  BY <1>1 DEF Inv, HeaderInv, OpenableIsComplete, FilesInv, Authentic, Held,
              IndexEntries
<1>6. OutcomeInv'
  BY <1>1 DEF OutcomeInv, RightKey, IntegrityErrorsMeanDamage
<1>7. TypeOK'
  <2>1. \A q \in Process : call'[q] \in CallsAt(call'[q].at)
    BY <1>2 DEF CallGood, Inv, CallInv
  <2>2. blamed' \subseteq Key
    BY DEF Inv, TypeOK
  <2>3. QED
    BY <1>1, <1>2, <2>1, <2>2 DEF Inv, TypeOK
<1>8. QED
  BY <1>4, <1>5, <1>6, <1>7 DEF Inv

LEMMA LeaveStep ==
    ASSUME Inv, NEW p \in Process, NEW exn, Leave(p, exn),
           UNCHANGED <<disk, master, harm>>
    PROVE  Inv'
<1>1. /\ call' = [call EXCEPT ![p] = Idle]
      /\ misanswered' = {} /\ blamed' \subseteq damaged
  BY DEF Leave, Enter, outcomes, Inv, OutcomeInv, RightKey, IntegrityErrorsMeanDamage
<1>2. QED
  BY <1>1, IdleGood, QuietStep

LEMMA EnterStep ==
    ASSUME Inv, NEW p \in Process, NEW c, CallGood(p, c), Enter(p, c),
           UNCHANGED <<disk, master, harm>>
    PROVE  Inv'
<1>1. /\ call' = [call EXCEPT ![p] = c]
      /\ misanswered' = {} /\ blamed' \subseteq damaged
  BY DEF Enter, outcomes, Inv, OutcomeInv, RightKey, IntegrityErrorsMeanDamage
<1>2. QED
  BY <1>1, QuietStep

IntegrityErrors == {PublicKeyIntegrityError, PrivateKeyUnwrapFailed}

(* What a good answer leaves behind. *)
LEMMA GoodReturn ==
    ASSUME Inv, NEW p, NEW kid, NEW exn, NEW value, Return(p, kid, exn, value),
           exn = NoError => value = kid.key,
           exn \in IntegrityErrors /\ master[p] # Zero => kid.key \in damaged
    PROVE  /\ call' = [call EXCEPT ![p] = Idle]
           /\ misanswered' = {} /\ blamed' \subseteq damaged
BY DEF Return, Inv, OutcomeInv, RightKey, IntegrityErrorsMeanDamage, IntegrityErrors

LEMMA ReturnStep ==
    ASSUME Inv, NEW p \in Process, NEW kid, NEW exn, NEW value,
           Return(p, kid, exn, value),
           exn = NoError => value = kid.key,
           exn \in IntegrityErrors /\ master[p] # Zero => kid.key \in damaged,
           UNCHANGED <<disk, master, harm>>
    PROVE  Inv'
BY GoodReturn, IdleGood, QuietStep

-----------------------------------------------------------------------------
(* Reading.  An entry that passes the checks under an open object's key is  *)
(* the one asked for; one that fails its MAC belongs to a damaged key.      *)
LEMMA EntryFound ==
    ASSUME Inv, NEW p \in Process, master[p] # None, NEW name \in Key, NEW kid,
           EntryError(public[name], master[p], name, kid) = NoError
    PROVE  /\ public[name] \in PublicEntries
           /\ public[name].key = kid.key
           /\ public[name].mac = Mac(master[p], public[name].key)
<1>1. /\ public[name] # None /\ Verifies(public[name], master[p], name)
      /\ Lists(public[name], kid)
  BY DEF EntryError, NoError, KeyNotFound, PublicKeyIntegrityError
<1>2. public[name] \in PublicEntries
  BY <1>1 DEF Inv, TypeOK
<1>3. public[name].mac.name = public[name].key /\ public[name].mac.name = name
  BY <1>1 DEF Inv, FilesInv, Verifies, Mac
<1>4. QED
  BY <1>1, <1>2, <1>3 DEF Verifies, Lists

LEMMA EntryBlamed ==
    ASSUME Inv, NEW p \in Process, master[p] # None, master[p] # Zero,
           NEW name \in Key, NEW kid,
           EntryError(public[name], master[p], name, kid) = PublicKeyIntegrityError
    PROVE  name \in damaged
<1>1. public[name] # None /\ ~Verifies(public[name], master[p], name)
  BY DEF EntryError, NoError, KeyNotFound, PublicKeyIntegrityError
<1>2. master[p] = header
  BY DEF Inv, HeaderInv
<1>3. QED
  BY <1>1, <1>2 DEF Inv, FilesInv, Authentic

LEMMA EntryOutcome ==
    ASSUME NEW entry, NEW m, NEW name, NEW kid
    PROVE  /\ EntryError(entry, m, name, kid) \in
                 {KeyNotFound, PublicKeyIntegrityError, NoError}
           /\ entry = None => EntryError(entry, m, name, kid) = KeyNotFound
BY DEF EntryError

LEMMA ExceptionsDiffer ==
    /\ {NoError, KeyNotFound, AltIndexIntegrityError} \cap IntegrityErrors = {}
    /\ NoError \notin {KeyNotFound, AltIndexIntegrityError, PublicKeyIntegrityError,
                       PrivateKeyUnwrapFailed}
    /\ PublicKeyIntegrityError # KeyNotFound
BY DEF IntegrityErrors, NoError, KeyNotFound, AltIndexIntegrityError,
       PublicKeyIntegrityError, PrivateKeyUnwrapFailed

LEMMA RequestType ==
    ASSUME NEW request \in Requests
    PROVE  /\ request.kid \in AnyKeyId /\ request.kid.key \in Key
           /\ request.op = "key_id_for" => request.digest \in Digest
<1>1. request.kid \in AnyKeyId
  BY DEF Requests
<1>2. request.kid.key \in Key
  BY <1>1 DEF AnyKeyId
<1>3. request.op = "key_id_for" => request.digest \in Digest
  BY DEF Requests
<1>4. QED
  BY <1>1, <1>2, <1>3

LEMMA ContinueStep ==
    ASSUME Inv, NEW p \in Process, master[p] # None, NEW request \in Requests,
           NEW entry \in PublicEntries, entry.key = request.kid.key,
           entry.mac = Mac(master[p], entry.key),
           ContinueWith(p, request, entry), UNCHANGED <<disk, master, harm>>
    PROVE  Inv'
<1>1. CASE Return(p, request.kid, NoError, entry.key)
  BY <1>1, ReturnStep, ExceptionsDiffer
<1>2. CASE /\ request.op = "key_id_for"
           /\ Enter(p, [at |-> "write ids", entry |-> entry, digest |-> request.digest])
  <2> DEFINE c == [at |-> "write ids", entry |-> entry, digest |-> request.digest]
  <2>1. c \in CallsAt("write ids")
    BY <1>2, CallShapes, RequestType
  <2>2. CallGood(p, c)
    BY <2>1 DEF CallGood, Creating
  <2>3. QED
    BY <1>2, <2>2, EnterStep
<1>3. CASE Enter(p, [at |-> "read private", kid |-> request.kid, key |-> entry.key])
  <2> DEFINE c == [at |-> "read private", kid |-> request.kid, key |-> entry.key]
  <2>1. c \in CallsAt("read private")
    BY CallShapes, RequestType
  <2>2. CallGood(p, c)
    BY <2>1 DEF CallGood, Creating
  <2>3. QED
    BY <1>3, <2>2, EnterStep
<1>4. QED
  BY <1>1, <1>2, <1>3 DEF ContinueWith

LEMMA LoadStep ==
    ASSUME Inv, NEW p \in Process, master[p] # None, NEW request \in Requests,
           Load(p, request), UNCHANGED <<disk, master, harm>>
    PROVE  Inv'
<1> DEFINE kid == request.kid
           exn == EntryError(Named(kid), master[p], kid.key, kid)
<1>1. kid.key \in Key
  BY RequestType
<1>2. CASE exn = KeyNotFound /\ Enter(p, [at |-> "consult index", request |-> request])
  <2> DEFINE c == [at |-> "consult index", request |-> request]
  <2>1. c \in CallsAt("consult index")
    BY CallShapes
  <2>2. CallGood(p, c)
    BY <2>1 DEF CallGood, Creating
  <2>3. QED
    BY <1>2, <2>2, EnterStep
<1>3. CASE exn # KeyNotFound /\ exn = PublicKeyIntegrityError
           /\ Return(p, kid, exn, None)
  <2>1. Named(kid) = public[kid.key]
    BY <1>3, EntryOutcome DEF Named
  <2>2. master[p] # Zero => kid.key \in damaged
    BY <1>1, <1>3, <2>1, EntryBlamed
  <2>3. QED
    BY <1>3, <2>2, ReturnStep, ExceptionsDiffer
<1>4. CASE exn # KeyNotFound /\ exn = NoError /\ ContinueWith(p, request, Named(kid))
  <2>1. Named(kid) = public[kid.key]
    BY <1>4, EntryOutcome DEF Named
  <2>2. QED
    BY <1>1, <1>4, <2>1, EntryFound, ContinueStep
<1>5. QED
  BY <1>2, <1>3, <1>4, ExceptionsDiffer DEF Load

LEMMA ConsultIndexStep ==
    ASSUME Inv, NEW p \in Process, ConsultIndex(p)
    PROVE  Inv'
<1> DEFINE request == call[p].request
           found == {e \in IndexEntries : e.kid = request.kid}
<1>at. call[p].at = "consult index" /\ UNCHANGED <<disk, master, harm>>
  BY DEF ConsultIndex
<1>shape. call[p] \in [at : {"consult index"}, request : Requests]
  BY <1>at, CallFacts, CallShapes
<1>1. /\ request \in Requests /\ master[p] # None
      /\ UNCHANGED <<disk, master, harm>>
  BY <1>at, <1>shape, CallFacts DEF CallGood, Creating
<1>2. ASSUME NEW exn \in {AltIndexIntegrityError, KeyNotFound},
             Return(p, request.kid, exn, None)
      PROVE  Inv'
  BY <1>1, <1>2, ReturnStep, ExceptionsDiffer
<1>3. ASSUME NEW e \in found,
             Enter(p, [at |-> "load by index", request |-> request,
                       primary |-> e.primary])
      PROVE  Inv'
  <2> DEFINE c == [at |-> "load by index", request |-> request, primary |-> e.primary]
  <2>1. e.primary = request.kid.key
    BY DEF Inv, FilesInv
  <2>2. c \in CallsAt("load by index")
    BY <1>1, <2>1, CallShapes, RequestType
  <2>3. CallGood(p, c)
    BY <1>1, <2>1, <2>2 DEF CallGood, Creating
  <2>4. QED
    BY <1>1, <1>3, <2>3, EnterStep
<1>4. QED
  BY <1>2, <1>3 DEF ConsultIndex

LEMMA LoadByIndexStep ==
    ASSUME Inv, NEW p \in Process, LoadByIndex(p)
    PROVE  Inv'
<1> DEFINE request == call[p].request
           name == call[p].primary
           exn == EntryError(public[name], master[p], name, request.kid)
<1>at. call[p].at = "load by index" /\ UNCHANGED <<disk, master, harm>>
  BY DEF LoadByIndex
<1>shape. call[p] \in [at : {"load by index"}, request : Requests, primary : Key]
  BY <1>at, CallFacts, CallShapes
<1>1. /\ request \in Requests /\ name \in Key /\ master[p] # None
      /\ name = request.kid.key /\ UNCHANGED <<disk, master, harm>>
  BY <1>at, <1>shape, CallFacts DEF CallGood, Creating
<1>2. CASE exn = NoError /\ ContinueWith(p, request, public[name])
  BY <1>1, <1>2, EntryFound, ContinueStep
<1>3. CASE exn # NoError /\ Return(p, request.kid, exn, None)
  <2>1. exn \in IntegrityErrors /\ master[p] # Zero => request.kid.key \in damaged
    BY <1>1, EntryBlamed, EntryOutcome, ExceptionsDiffer
  <2>2. QED
    BY <1>1, <1>3, <2>1, ReturnStep
<1>4. QED
  BY <1>2, <1>3 DEF LoadByIndex

LEMMA ReadIndexStep ==
    ASSUME Inv, NEW p \in Process, ReadIndex(p)
    PROVE  Inv'
<1> DEFINE c == [at |-> "write index", new |-> call[p].new, entries |-> IndexEntries]
<1>at. call[p].at = "read index" /\ UNCHANGED <<disk, master, harm>>
  BY DEF ReadIndex
<1>shape. call[p] \in [at : {"read index"}, new : AnyKeyId]
  BY <1>at, CallFacts, CallShapes
<1>1. /\ call[p].new \in AnyKeyId /\ master[p] # None
      /\ UNCHANGED <<disk, master, harm>>
  BY <1>at, <1>shape, CallFacts DEF CallGood, Creating
<1>2. IndexEntries \subseteq IndexFileEntries
  BY DEF Inv, TypeOK, IndexFiles, IndexEntries
<1>3. c \in CallsAt("write index")
  BY <1>1, <1>2, CallShapes
<1>4. CallGood(p, c)
  BY <1>1, <1>3 DEF CallGood, Creating, Inv, FilesInv
<1>5. QED
  BY <1>1, <1>4, EnterStep, LeaveStep DEF ReadIndex

LEMMA ReturnPrivateStep ==
    ASSUME Inv, NEW p \in Process, master[p] # None, NEW kid, kid.key \in Key,
           ReturnPrivate(p, kid, kid.key), UNCHANGED <<disk, master, harm>>
    PROVE  Inv'
<1> DEFINE name == kid.key
           exn == PrivateKeyError(master[p], name)
           value == IF exn = NoError THEN private[name].secret ELSE None
<1>1. exn = NoError => value = name
  BY DEF PrivateKeyError, KeyNotFound, PrivateKeyUnwrapFailed, NoError, Inv, FilesInv
<1>2. exn \in IntegrityErrors /\ master[p] # Zero => name \in damaged
  <2>1. SUFFICES ASSUME exn \in IntegrityErrors, master[p] # Zero
                 PROVE  name \in damaged
    OBVIOUS
  <2>2. private[name] # None /\ (private[name].keyId # name \/ private[name].master # master[p])
    BY <2>1 DEF PrivateKeyError, IntegrityErrors, KeyNotFound, NoError,
                PrivateKeyUnwrapFailed, PublicKeyIntegrityError
  <2>3. master[p] = header
    BY <2>1 DEF Inv, HeaderInv
  <2>4. QED
    BY <2>2, <2>3 DEF Inv, FilesInv, Held
<1>3. QED
  BY <1>1, <1>2, ReturnStep DEF ReturnPrivate

LEMMA GetPrivateKeyStep ==
    ASSUME Inv, NEW p \in Process, NEW kid \in AnyKeyId, GetPrivateKey(p, kid)
    PROVE  Inv'
<1>1. /\ master[p] # None /\ kid.key \in Key /\ UNCHANGED <<disk, master, harm>>
  BY DEF GetPrivateKey, HasObject, AnyKeyId
<1>2. Request("get_private_key", kid, None) \in Requests
  BY DEF Request, Requests
<1>3. QED
  BY <1>1, <1>2, ReturnPrivateStep, LoadStep DEF GetPrivateKey

LEMMA ReadPrivateStep ==
    ASSUME Inv, NEW p \in Process, ReadPrivate(p)
    PROVE  Inv'
<1>at. call[p].at = "read private" /\ UNCHANGED <<disk, master, harm>>
  BY DEF ReadPrivate
<1>shape. call[p] \in [at : {"read private"}, kid : AnyKeyId, key : Key]
  BY <1>at, CallFacts, CallShapes
<1>1. /\ master[p] # None /\ call[p].key \in Key /\ call[p].key = call[p].kid.key
      /\ UNCHANGED <<disk, master, harm>>
  BY <1>at, <1>shape, CallFacts DEF CallGood, Creating
<1>2. QED
  BY <1>1, ReturnPrivateStep DEF ReadPrivate

LEMMA GetPublicKeyStep ==
    ASSUME Inv, NEW p \in Process, NEW kid \in AnyKeyId, GetPublicKey(p, kid)
    PROVE  Inv'
<1>1. Request("get_public_key", kid, None) \in Requests
  BY DEF Request, Requests
<1>2. QED
  BY <1>1, LoadStep DEF GetPublicKey, HasObject

LEMMA KeyIdForStep ==
    ASSUME Inv, NEW p \in Process, NEW kid \in AnyKeyId, NEW digest \in Digest,
           KeyIdFor(p, kid, digest)
    PROVE  Inv'
<1>1. Request("key_id_for", kid, digest) \in Requests
  BY DEF Request, Requests
<1>2. QED
  BY <1>1, LoadStep DEF KeyIdFor, HasObject

LEMMA AddStep ==
    ASSUME Inv, NEW p \in Process, NEW k \in Key,
           AddPublicKey(p, k) \/ AddPrivateKey(p, k)
    PROVE  Inv'
<1>1. master[p] # None /\ UNCHANGED <<disk, master, harm>>
  BY DEF AddPublicKey, AddPrivateKey, HasObject
<1>2. CallGood(p, [at |-> "write public", key |-> k])
  <2>1. [at |-> "write public", key |-> k] \in CallsAt("write public")
    BY CallShapes
  <2>2. QED
    BY <1>1, <2>1 DEF CallGood, Creating
<1>3. public[k] # None => CallGood(p, [at |-> "write private", key |-> k])
  <2>1. [at |-> "write private", key |-> k] \in CallsAt("write private")
    BY CallShapes
  <2>2. QED
    BY <1>1, <2>1 DEF CallGood, Creating
<1>4. CASE AddPublicKey(p, k)
  BY <1>1, <1>2, <1>4, EnterStep, LeaveStep DEF AddPublicKey
<1>5. CASE AddPrivateKey(p, k)
  <2>1. AddPrivateKeyError(k) = NoError => public[k] # None
    BY DEF AddPrivateKeyError, NoError, PrivateKeyRequiresPublicKey
  <2>2. QED
    BY <1>1, <1>3, <1>5, <2>1, EnterStep, LeaveStep DEF AddPrivateKey
<1>6. QED
  BY <1>4, <1>5

LEMMA CreateStep ==
    ASSUME Inv, NEW p \in Process, NEW passphrase \in Passphrase, Create(p, passphrase)
    PROVE  Inv'
<1> DEFINE c == [at |-> "make public", passphrase |-> passphrase]
<1>1. c \in CallsAt("make public")
  BY CallShapes DEF Creating
<1>2. ~NotEmpty => CallGood(p, c)
  BY <1>1 DEF CallGood, Create, NotEmpty, Creating
<1>3. QED
  BY <1>2, EnterStep, LeaveStep DEF Create

-----------------------------------------------------------------------------
(* Steps that change the disk.  The calls of the others stay good: nothing  *)
(* they have seen is taken away.                                            *)
LEMMA CallsKept ==
    ASSUME Inv, NEW p \in Process, NEW c, call' = [call EXCEPT ![p] = c],
           CallGood(p, call[p])',
           header' = header,
           dirs \subseteq dirs', dirs' \subseteq {"public", "private"},
           dirs' # dirs => p \in Creator,
           \A q \in Process : q # p => master'[q] = master[q],
           \A k \in Key : public[k] # None => public'[k] # None
    PROVE  /\ CallInv'
           /\ call' = [q \in Process |-> call'[q]]
           /\ \A q \in Process : call'[q] \in CallsAt(call'[q].at)
<1>1. /\ call' = [q \in Process |-> call'[q]]
      /\ \A q \in Process : q # p => call'[q] = call[q]
  BY DEF Inv, TypeOK
<1>2. ASSUME NEW q \in Process
      PROVE  CallGood(q, call[q])'
  <2>1. CASE q = p
    BY <2>1
  <2>2. CASE q # p
    <3>1. CallGood(q, call[q]) /\ call'[q] = call[q] /\ master'[q] = master[q]
      BY <1>1, <2>2 DEF Inv, CallInv
    <3>2. call[q].at = "write private" => call[q].key \in Key
      <4>1. SUFFICES ASSUME call[q].at = "write private" PROVE call[q].key \in Key
        OBVIOUS
      <4>2. call[q] \in [at : {"write private"}, key : Key]
        BY <3>1, <4>1, CallShapes DEF CallGood
      <4>3. QED
        BY <4>2
    <3>3. call[q].at \in Creating => dirs' = dirs
      BY <2>2, <3>1, DirectoryAssumption DEF CallGood
    <3>4. /\ call'[q].at \in Creating => q \in Creator /\ header' = None
          /\ call'[q].at = "make public" => dirs' = {}
          /\ call'[q].at = "make private" => "public" \in dirs'
          /\ call'[q].at = "write header" => dirs' = {"public", "private"}
      BY <3>1, <3>3 DEF CallGood, Creating
    <3>5. call'[q].at = "write private" => public'[call'[q].key] # None
      BY <3>1, <3>2 DEF CallGood
    <3>6. QED
      BY <3>1, <3>4, <3>5 DEF CallGood
  <2>3. QED
    BY <2>1, <2>2
<1>3. CallInv'
  BY <1>2 DEF CallInv
<1>4. \A q \in Process : call'[q] \in CallsAt(call'[q].at)
  BY <1>2 DEF CallGood, CallsAt
<1>5. QED
  BY <1>1, <1>3, <1>4

(* An object's key is the header's, or the write is damage. *)
LEMMA KeyOfObject ==
    ASSUME Inv, NEW p \in Process, master[p] # None, NEW k \in Key
    PROVE  /\ master[p] \in Masters \cup {Zero}
           /\ header # None
           /\ master[p] = header \/ k \in Damaging(p, k)
           /\ damaged \subseteq Damaging(p, k) /\ Damaging(p, k) \subseteq Key
<1>1. master[p] \in Masters \cup {Zero}
  BY DEF Inv, TypeOK
<1>2. header # None /\ master[p] \in {Zero, header}
  BY DEF Inv, HeaderInv
<1>3. damaged \subseteq Key
  BY DEF Inv, TypeOK
<1>4. QED
  BY <1>1, <1>2, <1>3 DEF Damaging

(* The file of a public key replaced by a record made for that key. *)
LEMMA PublicWritten ==
    ASSUME Inv, NEW p \in Process, master[p] # None, NEW k \in Key,
           NEW ids \in SUBSET Digest,
           public' = [public EXCEPT ![k] = StoredPublicKeyEntry(k, ids, master[p])],
           damaged' = Damaging(p, k),
           UNCHANGED <<dirs, header, private, altIndex, master>>
    PROVE  /\ HeaderInv' /\ FilesInv'
           /\ public' \in [Key -> PublicEntries \cup {None}]
           /\ public'[k].mac = Mac(master[p], k) /\ public'[k] # None
           /\ \A j \in Key : public[j] # None => public'[j] # None
           /\ \A j \in Key : j # k => public'[j] = public[j]
<1> DEFINE entry == StoredPublicKeyEntry(k, ids, master[p])
<1>1. /\ master[p] \in Masters \cup {Zero} /\ header # None
      /\ master[p] = header \/ k \in damaged'
      /\ damaged \subseteq damaged'
  BY KeyOfObject
<1>2. entry \in PublicEntries /\ entry # None
  BY <1>1, NoneAssumption DEF StoredPublicKeyEntry, Mac, PublicEntries
<1>3. /\ entry.key = k /\ entry.mac = Mac(master[p], k)
      /\ Mac(master[p], k).name = k
  BY DEF StoredPublicKeyEntry, Mac
<1> HIDE DEF entry
<1>4. /\ public'[k] = entry
      /\ \A j \in Key : j # k => public'[j] = public[j]
      /\ public' \in [Key -> PublicEntries \cup {None}]
  BY <1>2 DEF Inv, TypeOK, entry
<1>5. HeaderInv'
  BY <1>1 DEF Inv, HeaderInv, OpenableIsComplete
<1>6. ASSUME NEW j \in Key
      PROVE  /\ public'[j] # None => /\ public'[j].mac.name = public'[j].key
                                     /\ j \in damaged' \/ Authentic(j)'
             /\ private'[j] # None => /\ private'[j].secret = private'[j].keyId
                                      /\ j \in damaged' \/ Held(j)'
  <2>1. private'[j] # None => /\ private'[j].secret = private'[j].keyId
                              /\ j \in damaged' \/ Held(j)'
    BY <1>1 DEF Inv, FilesInv, Held
  <2>2. CASE j = k
    <3>1. public'[j].mac.name = public'[j].key
      BY <1>3, <1>4, <2>2
    <3>2. master[p] = header => Authentic(j)'
      BY <1>2, <1>3, <1>4, <2>2 DEF Authentic, Verifies
    <3>3. QED
      BY <1>1, <2>1, <2>2, <3>1, <3>2
  <2>3. CASE j # k
    BY <1>1, <1>4, <2>1, <2>3 DEF Inv, FilesInv, Authentic, Verifies
  <2>4. QED
    BY <2>2, <2>3
<1>7. FilesInv'
  <2>1. \A e \in IndexEntries' : e.primary = e.kid.key
    BY DEF IndexEntries, Inv, FilesInv
  <2>2. QED
    BY <1>6, <2>1 DEF FilesInv
<1>8. QED
  BY <1>2, <1>3, <1>4, <1>5, <1>7

LEMMA WritePublicStep ==
    ASSUME Inv, NEW p \in Process, WritePublic(p)
    PROVE  Inv'
<1> DEFINE k == call[p].key
           ids == {PRIMARY}
<1>at. call[p].at = "write public"
  BY DEF WritePublic
<1>shape. call[p] \in [at : {"write public"}, key : Key]
  BY <1>at, CallFacts, CallShapes
<1>1. k \in Key /\ master[p] # None
  BY <1>at, <1>shape, CallFacts DEF Creating
<1>2. ids \in SUBSET Digest
  BY DirectoryAssumption
<1>3. /\ public' = [public EXCEPT ![k] = StoredPublicKeyEntry(k, ids, master[p])]
      /\ damaged' = Damaging(p, k)
      /\ disturbed' = (disturbed \/ master[p] = Zero \/ public[k] # None)
      /\ UNCHANGED <<dirs, header, private, altIndex, master, faults>>
      /\ Return(p, PrimaryKeyId(k), NoError, k)
  BY DEF WritePublic
<1>4. /\ HeaderInv' /\ FilesInv'
      /\ public' \in [Key -> PublicEntries \cup {None}]
      /\ \A j \in Key : public[j] # None => public'[j] # None
  BY <1>1, <1>2, <1>3, PublicWritten
<1>5. /\ call' = [call EXCEPT ![p] = Idle]
      /\ misanswered' = {} /\ blamed' \subseteq damaged
  BY <1>3, GoodReturn, ExceptionsDiffer DEF PrimaryKeyId, KeyId
<1>6. CallInv' /\ call' = [q \in Process |-> call'[q]]
      /\ \A q \in Process : call'[q] \in CallsAt(call'[q].at)
  <2>1. call'[p] = Idle
    BY <1>5 DEF Inv, TypeOK
  <2>2. CallGood(p, call[p])'
    BY <2>1, IdleStays
  <2>3. dirs \subseteq dirs' /\ dirs' \subseteq {"public", "private"}
    BY <1>3 DEF Inv, TypeOK
  <2>4. header' = header /\ \A q \in Process : q # p => master'[q] = master[q]
    BY <1>3
  <2>5. QED
    BY <1>3, <1>4, <1>5, <2>2, <2>3, <2>4, CallsKept
<1>7. blamed' \subseteq damaged' /\ damaged' \subseteq Key
  BY <1>1, <1>3, <1>5, KeyOfObject
<1>8. OutcomeInv'
  BY <1>5, <1>7 DEF OutcomeInv, RightKey, IntegrityErrorsMeanDamage
<1>9. TypeOK'
  <2>1. disturbed' \in BOOLEAN
    BY <1>3 DEF Inv, TypeOK
  <2>2. misanswered' \subseteq AnyKeyId /\ blamed' \subseteq Key
    BY <1>5, <1>7
  <2>3. QED
    BY <1>3, <1>4, <1>6, <1>7, <2>1, <2>2 DEF Inv, TypeOK
<1>10. QED
  BY <1>4, <1>6, <1>8, <1>9 DEF Inv

LEMMA WriteIdsStep ==
    ASSUME Inv, NEW p \in Process, WriteIds(p)
    PROVE  Inv'
<1> DEFINE entry == call[p].entry
           k == entry.key
           ids == entry.ids \cup {call[p].digest}
           c == [at |-> "read index", new |-> KeyId(call[p].digest, k)]
<1>at. call[p].at = "write ids"
  BY DEF WriteIds
<1>shape. call[p] \in [at : {"write ids"}, entry : PublicEntries, digest : Digest]
  BY <1>at, CallFacts, CallShapes
<1>0. entry \in PublicEntries /\ call[p].digest \in Digest
  BY <1>shape
<1>1. k \in Key /\ master[p] # None
  BY <1>at, <1>0, CallFacts DEF Creating, PublicEntries
<1>2. ids \in SUBSET Digest
  BY <1>0 DEF PublicEntries
<1>3. /\ public' = [public EXCEPT ![k] = StoredPublicKeyEntry(k, ids, master[p])]
      /\ damaged' = Damaging(p, k)
      /\ disturbed' = (disturbed \/ master[p] = Zero \/ public[k] # entry)
      /\ UNCHANGED <<dirs, header, private, altIndex, master, faults>>
      /\ Enter(p, c)
  BY DEF WriteIds
<1>4. /\ HeaderInv' /\ FilesInv'
      /\ public' \in [Key -> PublicEntries \cup {None}]
      /\ \A j \in Key : public[j] # None => public'[j] # None
  BY <1>1, <1>2, <1>3, PublicWritten
<1>5. /\ call' = [call EXCEPT ![p] = c]
      /\ misanswered' = {} /\ blamed' \subseteq damaged
  BY <1>3 DEF Enter, outcomes, Inv, OutcomeInv, RightKey, IntegrityErrorsMeanDamage
<1>6. CallInv' /\ call' = [q \in Process |-> call'[q]]
      /\ \A q \in Process : call'[q] \in CallsAt(call'[q].at)
  <2>1. call'[p] = c
    BY <1>5 DEF Inv, TypeOK
  <2>2. c \in CallsAt("read index")
    BY <1>0, <1>1, CallShapes DEF KeyId, AnyKeyId
  <2>3. CallGood(p, call[p])'
    BY <1>1, <1>3, <2>1, <2>2 DEF CallGood, Creating, CallsAt
  <2>4. dirs \subseteq dirs' /\ dirs' \subseteq {"public", "private"}
    BY <1>3 DEF Inv, TypeOK
  <2>5. header' = header /\ \A q \in Process : q # p => master'[q] = master[q]
    BY <1>3
  <2>6. QED
    BY <1>3, <1>4, <1>5, <2>3, <2>4, <2>5, CallsKept
<1>7. blamed' \subseteq damaged' /\ damaged' \subseteq Key
  BY <1>1, <1>3, <1>5, KeyOfObject
<1>8. OutcomeInv'
  BY <1>5, <1>7 DEF OutcomeInv, RightKey, IntegrityErrorsMeanDamage
<1>9. TypeOK'
  <2>1. disturbed' \in BOOLEAN
    BY <1>3 DEF Inv, TypeOK
  <2>2. misanswered' \subseteq AnyKeyId /\ blamed' \subseteq Key
    BY <1>5, <1>7
  <2>3. QED
    BY <1>3, <1>4, <1>6, <1>7, <2>1, <2>2 DEF Inv, TypeOK
<1>10. QED
  BY <1>4, <1>6, <1>8, <1>9 DEF Inv

LEMMA WriteIndexStep ==
    ASSUME Inv, NEW p \in Process, WriteIndex(p)
    PROVE  Inv'
<1> DEFINE new == call[p].new
           entries == Extended(call[p].entries, new)
<1>at. call[p].at = "write index"
  BY DEF WriteIndex
<1>shape. call[p] \in [at : {"write index"}, new : AnyKeyId,
                       entries : SUBSET IndexFileEntries]
  BY <1>at, CallFacts, CallShapes
<1>1. /\ new \in AnyKeyId /\ call[p].entries \subseteq IndexFileEntries
      /\ master[p] # None /\ \A e \in call[p].entries : e.primary = e.kid.key
  BY <1>at, <1>shape, CallFacts DEF CallGood, Creating
<1>2. /\ altIndex' = AltIndexFile(entries, master[p])
      /\ disturbed' = (\/ disturbed \/ master[p] = Zero
                       \/ IndexEntries # call[p].entries)
      /\ Return(p, new, NoError, new.key)
      /\ UNCHANGED <<dirs, header, public, private, master, damaged, faults>>
  BY DEF WriteIndex
<1>3. header # None /\ master[p] \in Masters \cup {Zero}
  BY <1>1 DEF Inv, HeaderInv, TypeOK
<1>4. /\ AltIndexEntry(new, new.key) \in IndexFileEntries
      /\ AltIndexEntry(new, new.key).primary = AltIndexEntry(new, new.key).kid.key
  BY <1>1 DEF AltIndexEntry, IndexFileEntries, AnyKeyId
<1>5. entries \subseteq IndexFileEntries /\ \A e \in entries : e.primary = e.kid.key
  BY <1>1, <1>4 DEF Extended
<1>6. altIndex' \in IndexFiles /\ altIndex'.entries = entries
  BY <1>2, <1>3, <1>5 DEF AltIndexFile, IndexFiles
<1>7. HeaderInv' /\ FilesInv'
  BY <1>2, <1>3, <1>5, <1>6 DEF Inv, HeaderInv, OpenableIsComplete, FilesInv,
                                 Authentic, Held, IndexEntries
<1>8. /\ call' = [call EXCEPT ![p] = Idle]
      /\ misanswered' = {} /\ blamed' \subseteq damaged
  BY <1>2, GoodReturn, ExceptionsDiffer
<1>9. CallInv' /\ call' = [q \in Process |-> call'[q]]
      /\ \A q \in Process : call'[q] \in CallsAt(call'[q].at)
  <2>1. call'[p] = Idle
    BY <1>8 DEF Inv, TypeOK
  <2>2. CallGood(p, call[p])'
    BY <2>1, IdleStays
  <2>3. dirs \subseteq dirs' /\ dirs' \subseteq {"public", "private"}
    BY <1>2 DEF Inv, TypeOK
  <2>4. QED
    BY <1>2, <1>8, <2>2, <2>3, CallsKept
<1>10. OutcomeInv'
  BY <1>2, <1>8 DEF OutcomeInv, RightKey, IntegrityErrorsMeanDamage
<1>11. TypeOK'
  <2>1. disturbed' \in BOOLEAN
    BY <1>2 DEF Inv, TypeOK
  <2>2. misanswered' \subseteq AnyKeyId /\ blamed' \subseteq Key
    BY <1>8 DEF Inv, TypeOK
  <2>3. QED
    BY <1>2, <1>6, <1>9, <2>1, <2>2 DEF Inv, TypeOK
<1>12. QED
  BY <1>7, <1>9, <1>10, <1>11 DEF Inv

LEMMA WritePrivateStep ==
    ASSUME Inv, NEW p \in Process, WritePrivate(p)
    PROVE  Inv'
<1> DEFINE k == call[p].key
           entry == StoredPrivateKeyEntry(k, master[p])
<1>at. call[p].at = "write private"
  BY DEF WritePrivate
<1>shape. call[p] \in [at : {"write private"}, key : Key]
  BY <1>at, CallFacts, CallShapes
<1>1. k \in Key /\ master[p] # None
  BY <1>at, <1>shape, CallFacts DEF Creating
<1>2. /\ private' = [private EXCEPT ![k] = entry]
      /\ damaged' = Damaging(p, k)
      /\ Return(p, PrimaryKeyId(k), NoError, k)
      /\ UNCHANGED <<dirs, header, public, altIndex, master, disturbed, faults>>
  BY DEF WritePrivate
<1>3. /\ master[p] \in Masters \cup {Zero} /\ header # None
      /\ master[p] = header \/ k \in damaged'
      /\ damaged \subseteq damaged' /\ damaged' \subseteq Key
  BY <1>1, <1>2, KeyOfObject
<1>4. entry \in PrivateEntries /\ entry.secret = k /\ entry.keyId = k
      /\ entry.master = master[p]
  BY <1>1, <1>3 DEF StoredPrivateKeyEntry, PrivateEntries
<1> HIDE DEF entry
<1>5. /\ private'[k] = entry
      /\ \A j \in Key : j # k => private'[j] = private[j]
      /\ private' \in [Key -> PrivateEntries \cup {None}]
  BY <1>1, <1>2, <1>4 DEF Inv, TypeOK
<1>6. HeaderInv'
  BY <1>2, <1>3 DEF Inv, HeaderInv, OpenableIsComplete
<1>7. ASSUME NEW j \in Key
      PROVE  /\ public'[j] # None => /\ public'[j].mac.name = public'[j].key
                                     /\ j \in damaged' \/ Authentic(j)'
             /\ private'[j] # None => /\ private'[j].secret = private'[j].keyId
                                      /\ j \in damaged' \/ Held(j)'
  <2>1. public'[j] # None => /\ public'[j].mac.name = public'[j].key
                             /\ j \in damaged' \/ Authentic(j)'
    BY <1>2, <1>3 DEF Inv, FilesInv, Authentic, Verifies
  <2>2. CASE j = k
    <3>1. master[p] = header /\ entry # None => Held(j)'
      BY <1>2, <1>4, <1>5, <2>2 DEF Held
    <3>2. QED
      BY <1>3, <1>4, <1>5, <2>1, <2>2, <3>1
  <2>3. CASE j # k
    BY <1>2, <1>3, <1>5, <2>1, <2>3 DEF Inv, FilesInv, Held
  <2>4. QED
    BY <2>2, <2>3
<1>8. FilesInv'
  <2>1. \A e \in IndexEntries' : e.primary = e.kid.key
    BY <1>2 DEF IndexEntries, Inv, FilesInv
  <2>2. QED
    BY <1>7, <2>1 DEF FilesInv
<1>9. /\ call' = [call EXCEPT ![p] = Idle]
      /\ misanswered' = {} /\ blamed' \subseteq damaged
  BY <1>2, GoodReturn, ExceptionsDiffer DEF PrimaryKeyId, KeyId
<1>10. CallInv' /\ call' = [q \in Process |-> call'[q]]
       /\ \A q \in Process : call'[q] \in CallsAt(call'[q].at)
  <2>1. CallGood(p, call[p])'
    BY <1>9, IdleStays DEF Inv, TypeOK
  <2>2. dirs \subseteq dirs' /\ dirs' \subseteq {"public", "private"}
    BY <1>2 DEF Inv, TypeOK
  <2>3. QED
    BY <1>2, <1>9, <2>1, <2>2, CallsKept
<1>11. OutcomeInv'
  BY <1>3, <1>9 DEF OutcomeInv, RightKey, IntegrityErrorsMeanDamage
<1>12. TypeOK'
  <2>1. misanswered' \subseteq AnyKeyId /\ blamed' \subseteq Key
    BY <1>3, <1>9
  <2>2. QED
    BY <1>2, <1>3, <1>5, <1>10, <2>1 DEF Inv, TypeOK
<1>13. QED
  BY <1>6, <1>8, <1>10, <1>11, <1>12 DEF Inv

(* Steps that leave the files of keys and the index alone. *)
LEMMA FilesKept ==
    ASSUME Inv, UNCHANGED <<header, public, private, altIndex, damaged>>
    PROVE  FilesInv'
BY DEF Inv, FilesInv, Authentic, Verifies, Held, IndexEntries

LEMMA OutcomesKept ==
    ASSUME Inv, UNCHANGED <<outcomes, damaged>>
    PROVE  OutcomeInv'
BY DEF Inv, outcomes, OutcomeInv, RightKey, IntegrityErrorsMeanDamage

LEMMA MakeStep ==
    ASSUME Inv, NEW p \in Process, MakePublic(p) \/ MakePrivate(p)
    PROVE  Inv'
<1> DEFINE next == IF MakePublic(p) THEN "make private" ELSE "write header"
           made == IF MakePublic(p) THEN "public" ELSE "private"
           c == [call[p] EXCEPT !.at = next]
<1>0. /\ ~MakePublic(p) => MakePrivate(p)
      /\ call[p].at = IF MakePublic(p) THEN "make public" ELSE "make private"
      /\ dirs' = dirs \cup {made}
      /\ call' = [call EXCEPT ![p] = c]
      /\ UNCHANGED outcomes
      /\ UNCHANGED <<header, public, private, altIndex, master, harm>>
  BY DEF MakePublic, MakePrivate, Enter
<1>at. call[p].at \in Creating /\ next \in Creating /\ CallGood(p, call[p])
  BY <1>0, CallFacts DEF Creating
<1>shape. call[p] \in [at : {call[p].at}, passphrase : Passphrase]
  <2>1. CallsAt(call[p].at) = [at : {call[p].at}, passphrase : Passphrase]
    BY <1>at, CallShapes
  <2>2. QED
    BY <2>1, CallFacts
<1>1. c \in CallsAt(next) /\ c.at = next
  <2>1. c \in [at : {next}, passphrase : Passphrase]
    BY <1>shape
  <2>2. QED
    BY <1>at, <2>1, CallShapes
<1>2. dirs \subseteq dirs' /\ dirs' \subseteq {"public", "private"}
  BY <1>0 DEF Inv, TypeOK
<1>3. ~MakePublic(p) => dirs' = {"public", "private"}
  BY <1>0, <1>at, <1>2 DEF CallGood
<1>4. call'[p] = c
  BY <1>0 DEF Inv, TypeOK
<1>5. header = None /\ p \in Creator
  BY <1>at DEF CallGood
<1> HIDE DEF c
<1>6. CallGood(p, call[p])'
  <2>1. CASE MakePublic(p)
    BY <1>0, <1>1, <1>4, <1>5, <2>1 DEF CallGood, CallsAt, Creating
  <2>2. CASE ~MakePublic(p)
    BY <1>0, <1>1, <1>3, <1>4, <1>5, <2>2 DEF CallGood, CallsAt, Creating
  <2>3. QED
    BY <2>1, <2>2
<1>7. CallInv' /\ call' = [q \in Process |-> call'[q]]
      /\ \A q \in Process : call'[q] \in CallsAt(call'[q].at)
  BY <1>0, <1>2, <1>5, <1>6, CallsKept
<1>8. HeaderInv'
  BY <1>0, <1>5 DEF Inv, HeaderInv, OpenableIsComplete
<1>9. FilesInv' /\ OutcomeInv'
  BY <1>0, FilesKept, OutcomesKept DEF harm
<1>10. TypeOK'
  BY <1>0, <1>2, <1>7 DEF Inv, TypeOK, harm, outcomes
<1>11. QED
  BY <1>7, <1>8, <1>9, <1>10 DEF Inv

(* create() writes the header: there was no object yet, and every other *)
(* process was idle.                                                     *)
LEMMA WriteHeaderStep ==
    ASSUME Inv, NEW p \in Process, WriteHeader(p)
    PROVE  Inv'
<1>at. call[p].at = "write header" /\ CallGood(p, call[p])
  BY CallFacts DEF WriteHeader
<1>shape. call[p] \in [at : {"write header"}, passphrase : Passphrase]
  BY <1>at, CallFacts, CallShapes DEF Creating
<1>1. /\ header' = MasterKey(call[p].passphrase, p)
      /\ master' = [master EXCEPT ![p] = header']
      /\ call' = [call EXCEPT ![p] = Idle]
      /\ UNCHANGED outcomes
      /\ UNCHANGED <<dirs, public, private, altIndex, harm>>
  BY DEF WriteHeader, Leave, Enter
<1>2. p \in Creator /\ header = None /\ dirs = {"public", "private"}
  BY <1>at DEF CallGood, Creating
<1>3. header' \in Masters /\ header' # None
  <2>1. header' \in Masters
    BY <1>1, <1>2, <1>shape DEF MasterKey, Masters
  <2>2. None \notin Masters
    BY NoneAssumption
  <2>3. QED
    BY <2>1, <2>2
<1>4. \A q \in Process : master[q] = None
  BY <1>2 DEF Inv, HeaderInv
<1>5. \A q \in Process : q # p => call[q].at = "idle" /\ CallGood(q, call[q])
  BY <1>2, <1>4, CallFacts, DirectoryAssumption DEF CallGood, Creating
<1>6. /\ master' \in [Process -> Masters \cup {None, Zero}]
      /\ \A q \in Process : master'[q] = IF q = p THEN header' ELSE None
  BY <1>1, <1>3, <1>4 DEF Inv, TypeOK
<1>7. /\ call' = [q \in Process |-> call'[q]]
      /\ \A q \in Process : call'[q] = IF q = p THEN Idle ELSE call[q]
  BY <1>1 DEF Inv, TypeOK
<1>8. ASSUME NEW q \in Process
      PROVE  call'[q] = Idle
  <2>1. CASE q = p
    BY <1>7, <2>1
  <2>2. CASE q # p
    <3>1. call[q] \in CallsAt("idle")
      BY <1>5, <2>2 DEF CallGood
    <3>2. QED
      BY <1>7, <2>2, <3>1, CallShapes
  <2>3. QED
    BY <2>1, <2>2
<1>9. CallInv'
  BY <1>8, IdleStays DEF CallInv
<1>10. \A q \in Process : call'[q] \in CallsAt(call'[q].at)
  <2>1. Idle.at = "idle" /\ Idle \in CallsAt("idle")
    BY CallShapes DEF Idle
  <2>2. QED
    BY <1>8, <2>1
<1>11. \A k \in Key : public'[k] = None /\ private'[k] = None
  BY <1>1, <1>2 DEF Inv, HeaderInv
<1>12. altIndex' = None
  BY <1>1, <1>2 DEF Inv, HeaderInv
<1>13. HeaderInv'
  BY <1>1, <1>2, <1>3, <1>6 DEF HeaderInv, OpenableIsComplete
<1>14. FilesInv'
  BY <1>11, <1>12 DEF FilesInv, IndexEntries
<1>15. OutcomeInv'
  BY <1>1, OutcomesKept DEF harm
<1>16. TypeOK'
  BY <1>1, <1>3, <1>6, <1>7, <1>10 DEF Inv, TypeOK, harm, outcomes
<1>17. QED
  BY <1>9, <1>13, <1>14, <1>15, <1>16 DEF Inv

(* An object is opened, closed or lost with its process, between calls or by *)
(* a crash.                                                                  *)
LEMMA ObjectStep ==
    ASSUME Inv, NEW p \in Process, NEW m \in {None, Zero, header},
           m = None \/ header # None,
           master' = [master EXCEPT ![p] = m],
           call' = [call EXCEPT ![p] = Idle],
           UNCHANGED outcomes, UNCHANGED <<disk, damaged>>,
           disturbed' \in BOOLEAN, faults' \in 0..MaxFaults
    PROVE  Inv'
<1>1. UNCHANGED <<dirs, header, public, private, altIndex>>
  BY DEF disk
<1>2. /\ master' \in [Process -> Masters \cup {None, Zero}]
      /\ \A q \in Process : master'[q] = IF q = p THEN m ELSE master[q]
  BY DEF Inv, TypeOK
<1>3. CallInv' /\ call' = [q \in Process |-> call'[q]]
      /\ \A q \in Process : call'[q] \in CallsAt(call'[q].at)
  <2>1. CallGood(p, call[p])'
    BY IdleStays DEF Inv, TypeOK
  <2>2. dirs \subseteq dirs' /\ dirs' \subseteq {"public", "private"}
    BY <1>1 DEF Inv, TypeOK
  <2>3. QED
    BY <1>1, <1>2, <2>1, <2>2, CallsKept
<1>4. HeaderInv'
  BY <1>1, <1>2 DEF Inv, HeaderInv, OpenableIsComplete
<1>5. FilesInv' /\ OutcomeInv'
  BY <1>1, FilesKept, OutcomesKept
<1>6. TypeOK'
  BY <1>1, <1>2, <1>3 DEF Inv, TypeOK, outcomes
<1>7. QED
  BY <1>3, <1>4, <1>5, <1>6 DEF Inv

LEMMA OpenStep ==
    ASSUME Inv, NEW p \in Process, NEW passphrase \in Passphrase, Open(p, passphrase)
    PROVE  Inv'
<1>1. /\ Leave(p, OpenError(passphrase)) /\ call' = [call EXCEPT ![p] = Idle]
      /\ UNCHANGED <<outcomes, disk, harm>>
  BY DEF Open, Leave, Enter
<1>2. CASE OpenError(passphrase) = NoError
  <2>1. header # None /\ MasterKey(passphrase, header.salt) = header
    BY <1>2 DEF OpenError, NoError, KeyDirectoryError, WrongPassphrase
  <2>2. master' = [master EXCEPT ![p] = header]
    BY <1>2, <2>1 DEF Open
  <2>3. disturbed' \in BOOLEAN /\ faults' \in 0..MaxFaults /\ UNCHANGED damaged
    BY <1>1 DEF harm, Inv, TypeOK
  <2>4. QED
    BY <1>1, <2>1, <2>2, <2>3, ObjectStep
<1>3. CASE OpenError(passphrase) # NoError
  BY <1>1, <1>3, LeaveStep DEF Open
<1>4. QED
  BY <1>2, <1>3

LEMMA CloseStep ==
    ASSUME Inv, NEW p \in Process, Close(p)
    PROVE  Inv'
<1>1. /\ header # None /\ call' = [call EXCEPT ![p] = Idle]
      /\ UNCHANGED outcomes /\ UNCHANGED <<disk, damaged>> /\ UNCHANGED disturbed
  BY DEF Close, HasObject, Leave, Enter, Inv, HeaderInv
<1>2. \/ master' = [master EXCEPT ![p] = None] /\ UNCHANGED faults
      \/ master' = [master EXCEPT ![p] = Zero] /\ faults < MaxFaults /\ faults' = faults + 1
  BY DEF Close
<1>3. disturbed' \in BOOLEAN /\ faults' \in 0..MaxFaults
  BY <1>1, <1>2, DirectoryAssumption DEF Inv, TypeOK
<1>4. QED
  BY <1>1, <1>2, <1>3, ObjectStep

LEMMA CrashStep ==
    ASSUME Inv, NEW p \in Process, Crash(p)
    PROVE  Inv'
<1>1. /\ master' = [master EXCEPT ![p] = None] /\ call' = [call EXCEPT ![p] = Idle]
      /\ UNCHANGED outcomes /\ UNCHANGED <<disk, damaged>>
      /\ disturbed' \in BOOLEAN
  BY DEF Crash, Enter, Inv, TypeOK
<1>2. faults' \in 0..MaxFaults
  <2>1. faults \in 0..MaxFaults /\ MaxFaults \in Nat
    BY DirectoryAssumption DEF Inv, TypeOK
  <2>2. faults < MaxFaults /\ faults' = faults + 1
    BY DEF Crash
  <2>3. QED
    BY <2>1, <2>2
<1>3. QED
  BY <1>1, <1>2, ObjectStep

LEMMA MisplaceStep ==
    ASSUME Inv, NEW k \in Key, NEW other \in Key, Misplace(k, other)
    PROVE  Inv'
<1>1. /\ \/ /\ public[other] # None
            /\ public' = [public EXCEPT ![k] = public[other]]
            /\ disturbed' = TRUE
            /\ private' = private
         \/ /\ private[other] # None
            /\ private' = [private EXCEPT ![k] = private[other]]
            /\ public' = public /\ disturbed' = disturbed
      /\ damaged' = damaged \cup {k}
      /\ UNCHANGED <<dirs, header, altIndex, master, call, outcomes>>
  BY DEF Misplace
<1>2. /\ public' \in [Key -> PublicEntries \cup {None}]
      /\ private' \in [Key -> PrivateEntries \cup {None}]
  BY <1>1 DEF Inv, TypeOK
<1>3. \A j \in Key :
         \/ public'[j] = public[j]
         \/ j = k /\ public'[j] = public[other] /\ public[other] # None
  BY <1>1 DEF Inv, TypeOK
<1>4. \A j \in Key :
         \/ private'[j] = private[j]
         \/ j = k /\ private'[j] = private[other] /\ private[other] # None
  BY <1>1 DEF Inv, TypeOK
<1>5. header # None
  BY <1>1 DEF Inv, HeaderInv
<1>6. HeaderInv'
  BY <1>1, <1>5 DEF Inv, HeaderInv, OpenableIsComplete
<1>7. ASSUME NEW j \in Key
      PROVE  /\ public'[j] # None => /\ public'[j].mac.name = public'[j].key
                                     /\ j \in damaged' \/ Authentic(j)'
             /\ private'[j] # None => /\ private'[j].secret = private'[j].keyId
                                      /\ j \in damaged' \/ Held(j)'
  <2>1. public'[j] # None => /\ public'[j].mac.name = public'[j].key
                             /\ j \in damaged' \/ Authentic(j)'
    BY <1>1, <1>3 DEF Inv, FilesInv, Authentic, Verifies
  <2>2. private'[j] # None => /\ private'[j].secret = private'[j].keyId
                              /\ j \in damaged' \/ Held(j)'
    BY <1>1, <1>4 DEF Inv, FilesInv, Held
  <2>3. QED
    BY <2>1, <2>2
<1>8. FilesInv'
  <2>1. \A e \in IndexEntries' : e.primary = e.kid.key
    BY <1>1 DEF IndexEntries, Inv, FilesInv
  <2>2. QED
    BY <1>7, <2>1 DEF FilesInv
<1>9. CallInv'
  <2>1. \A j \in Key : public[j] # None => public'[j] # None
    BY <1>3
  <2>2. ASSUME NEW q \in Process
        PROVE  CallGood(q, call[q])'
    <3>1. CallGood(q, call[q])
      BY DEF Inv, CallInv
    <3>2. call[q].at = "write private" => call[q].key \in Key
      <4>1. SUFFICES ASSUME call[q].at = "write private" PROVE call[q].key \in Key
        OBVIOUS
      <4>2. call[q] \in [at : {"write private"}, key : Key]
        BY <3>1, <4>1, CallShapes DEF CallGood
      <4>3. QED
        BY <4>2
    <3>3. QED
      BY <1>1, <2>1, <3>1, <3>2 DEF CallGood, CallsAt
  <2>3. QED
    BY <2>2 DEF CallInv
<1>10. OutcomeInv'
  BY <1>1 DEF outcomes, Inv, OutcomeInv, RightKey, IntegrityErrorsMeanDamage
<1>11. faults' \in 0..MaxFaults
  <2>1. faults \in 0..MaxFaults /\ MaxFaults \in Nat
    BY DirectoryAssumption DEF Inv, TypeOK
  <2>2. faults < MaxFaults /\ faults' = faults + 1
    BY DEF Misplace
  <2>3. QED
    BY <2>1, <2>2
<1>12. TypeOK'
  <2>1. disturbed' \in BOOLEAN /\ damaged' \subseteq Key
    BY <1>1 DEF Inv, TypeOK
  <2>2. \A q \in Process : call'[q] \in CallsAt(call'[q].at)
    BY <1>1 DEF Inv, TypeOK
  <2>3. QED
    BY <1>1, <1>2, <1>11, <2>1, <2>2 DEF Inv, TypeOK, outcomes
<1>13. QED
  BY <1>6, <1>8, <1>9, <1>10, <1>12 DEF Inv

-----------------------------------------------------------------------------
LEMMA InitInv == ASSUME Init PROVE Inv
<1>1. TypeOK
  <2>1. Idle.at = "idle" /\ Idle \in CallsAt("idle")
    BY CallShapes DEF Idle
  <2>2. \A p \in Process : call[p] \in CallsAt(call[p].at)
    BY <2>1 DEF Init
  <2>3. 0 \in 0..MaxFaults
    BY DirectoryAssumption
  <2>4. QED
    BY <2>2, <2>3 DEF Init, TypeOK
<1>2. HeaderInv /\ FilesInv
  BY DEF Init, HeaderInv, FilesInv, OpenableIsComplete, IndexEntries
<1>3. CallInv
  BY IdleGood DEF Init, CallInv
<1>4. OutcomeInv
  BY DEF Init, OutcomeInv, RightKey, IntegrityErrorsMeanDamage
<1>5. QED
  BY <1>1, <1>2, <1>3, <1>4 DEF Inv

LEMMA NextInv == ASSUME Inv, [Next]_vars PROVE Inv'
<1>1. CASE UNCHANGED vars
  <2>1. UNCHANGED <<dirs, header, public, private, altIndex>>
        /\ UNCHANGED <<master, call, outcomes, disturbed, damaged, faults>>
    BY <1>1 DEF vars, disk, harm
  <2>2. TypeOK'
    <3>1. \A q \in Process : call'[q] \in CallsAt(call'[q].at)
      BY <2>1 DEF Inv, TypeOK
    <3>2. QED
      BY <2>1, <3>1 DEF Inv, TypeOK, outcomes
  <2>3. HeaderInv'
    BY <2>1 DEF Inv, HeaderInv, OpenableIsComplete
  <2>4. FilesInv' /\ OutcomeInv'
    BY <2>1, FilesKept, OutcomesKept
  <2>5. CallInv'
    BY <2>1 DEF Inv, CallInv, CallGood, CallsAt
  <2>6. QED
    BY <2>2, <2>3, <2>4, <2>5 DEF Inv
<1>2. ASSUME NEW p \in Process, Lifecycle(p)
      PROVE  Inv'
  BY <1>2, CreateStep, MakeStep, WriteHeaderStep, OpenStep, CloseStep, CrashStep
     DEF Lifecycle
<1>3. ASSUME NEW p \in Process, PublicKeys(p)
      PROVE  Inv'
  BY <1>3, AddStep, GetPublicKeyStep, KeyIdForStep, WritePublicStep, ConsultIndexStep,
     LoadByIndexStep, WriteIdsStep, ReadIndexStep, WriteIndexStep DEF PublicKeys
<1>4. ASSUME NEW p \in Process, PrivateKeys(p)
      PROVE  Inv'
  BY <1>4, AddStep, GetPrivateKeyStep, WritePrivateStep, ReadPrivateStep DEF PrivateKeys
<1>5. QED
  BY <1>1, <1>2, <1>3, <1>4, MisplaceStep DEF Next

THEOREM Invariant == Spec => []Inv
<1>1. Init => Inv
  BY InitInv
<1>2. Inv /\ [Next]_vars => Inv'
  BY NextInv
<1>3. QED
  BY <1>1, <1>2, PTL DEF Spec

-----------------------------------------------------------------------------
(* The theorems.                                                            *)

(* Files and calls keep their kinds, whatever is written in between. *)
THEOREM TypeCorrect == Spec => []TypeOK
BY Invariant, PTL DEF Inv

(* keystore.py's lookups: the entry is matched with the KeyId it was asked    *)
(* for after the index, and the private key with the name of its file.        *)
THEOREM RightKeys == Spec => []RightKey
<1>1. Inv => RightKey
  BY DEF Inv, OutcomeInv
<1>2. QED
  BY <1>1, Invariant, PTL

(* Only a damaged key is reported as damaged through an open object. *)
THEOREM BlamedIsDamaged == Spec => []IntegrityErrorsMeanDamage
<1>1. Inv => IntegrityErrorsMeanDamage
  BY DEF Inv, OutcomeInv
<1>2. QED
  BY <1>1, Invariant, PTL

(* create() writes the header last: what open() accepts is complete. *)
THEOREM Openable == Spec => []OpenableIsComplete
<1>1. Inv => OpenableIsComplete
  BY DEF Inv, HeaderInv
<1>2. QED
  BY <1>1, Invariant, PTL

(* Once nobody is creating, a directory without a header never gets one. *)
THEOREM HalfMadeForever == Spec => HalfMadeStays
<1>1. ASSUME Inv, HalfMade, [Next]_vars
      PROVE  HalfMade'
  <2>1. \A p \in Process : /\ call[p].at \notin Creating
                           /\ master[p] = None
    <3>1. ASSUME NEW p \in Process
          PROVE  call[p].at # "make public"
      BY <1>1, CallFacts DEF HalfMade, CallGood
    <3>2. QED
      BY <1>1, <3>1 DEF HalfMade, Creating, Inv, HeaderInv
  <2>2. \A p \in Process : call[p].at = "idle"
    BY <1>1, <2>1, CallFacts
  <2>3. NotEmpty
    BY <1>1 DEF HalfMade, NotEmpty
  <2>4. CASE UNCHANGED vars
    BY <1>1, <2>4 DEF vars, disk, HalfMade
  <2>5. ASSUME NEW p \in Process, Lifecycle(p)
        PROVE  HalfMade'
    <3>1. ASSUME NEW passphrase \in Passphrase,
                 Create(p, passphrase) \/ Open(p, passphrase)
          PROVE  call' = [call EXCEPT ![p] = Idle] /\ UNCHANGED disk
      BY <2>3, <3>1 DEF Create, Open, Leave, Enter
    <3>2. ~(MakePublic(p) \/ MakePrivate(p) \/ WriteHeader(p) \/ Close(p))
      BY <2>1, <2>2 DEF MakePublic, MakePrivate, WriteHeader, Close, HasObject
    <3>3. Crash(p) => call' = [call EXCEPT ![p] = Idle] /\ UNCHANGED disk
      BY DEF Crash, Enter
    <3>4. call' = [call EXCEPT ![p] = Idle] /\ UNCHANGED disk
      BY <2>5, <3>1, <3>2, <3>3 DEF Lifecycle
    <3>5. \A q \in Process : call'[q] = IF q = p THEN Idle ELSE call[q]
      BY <1>1, <3>4 DEF Inv, TypeOK
    <3>6. dirs' = dirs /\ header' = header
      BY <3>4 DEF disk
    <3>7. \A q \in Process : call'[q].at \notin {"make private", "write header"}
      <4>1. Idle.at = "idle"
        BY DEF Idle
      <4>2. QED
        BY <1>1, <3>5, <4>1 DEF HalfMade
    <3>8. QED
      BY <1>1, <3>6, <3>7 DEF HalfMade
  <2>6. ASSUME NEW p \in Process
        PROVE  ~PublicKeys(p) /\ ~PrivateKeys(p)
    BY <2>1, <2>2
       DEF PublicKeys, PrivateKeys, HasObject, AddPublicKey, GetPublicKey, KeyIdFor,
           WritePublic, ConsultIndex, LoadByIndex, WriteIds, ReadIndex, WriteIndex,
           AddPrivateKey, GetPrivateKey, WritePrivate, ReadPrivate
  <2>7. ASSUME NEW k \in Key, NEW other \in Key
        PROVE  ~Misplace(k, other)
    BY <1>1 DEF Misplace, HalfMade, Inv, HeaderInv
  <2>8. QED
    BY <1>1, <2>4, <2>5, <2>6, <2>7 DEF Next
<1>2. QED
  BY <1>1, Invariant, PTL DEF Spec, HalfMadeStays

-----------------------------------------------------------------------------
(* The index of KeyIds.  A KeyId cached on an entry is in the index or will  *)
(* be by a call under way, provided that call's own write can succeed: the   *)
(* index verifies under the header's key, and the call's object is open.     *)
Updating == {"read index", "write index"}

UpdateInv ==
    ~disturbed =>
        /\ ComputedIsIndexed
        /\ altIndex # None => altIndex.master = header
        /\ \A p \in Process : call[p].at \in Updating => master[p] # Zero

(* The call of p comes to a point where no KeyId is waiting to be indexed. *)
Moves(p) == \E c : call' = [call EXCEPT ![p] = c] /\ c.at \notin Updating

LEMMA EnterMoves ==
    ASSUME NEW p, NEW c, c.at \notin Updating, Enter(p, c)
    PROVE  Moves(p)
BY DEF Enter, Moves

LEMMA IdleUpdatesNothing ==
    /\ Idle.at \notin Updating
    /\ \A p : call[p] = Idle \/ HasObject(p) => call[p].at \notin Updating
<1>1. Idle.at \notin Updating
  BY DEF Idle, Updating
<1>2. QED
  BY <1>1 DEF HasObject

LEMMA AnswerMoves ==
    ASSUME NEW p, NEW kid, NEW exn, NEW value,
           Return(p, kid, exn, value) \/ Leave(p, exn)
    PROVE  Moves(p)
<1>1. call' = [call EXCEPT ![p] = Idle]
  BY DEF Return, Leave, Enter
<1>2. QED
  BY <1>1, IdleUpdatesNothing DEF Moves

LEMMA ContinueMoves ==
    ASSUME NEW p, NEW request, NEW entry, ContinueWith(p, request, entry)
    PROVE  Moves(p)
<1>1. CASE Return(p, request.kid, NoError, entry.key)
  BY <1>1, AnswerMoves
<1>2. ASSUME Enter(p, [at |-> "write ids", entry |-> entry, digest |-> request.digest])
      PROVE  Moves(p)
  <2> DEFINE c == [at |-> "write ids", entry |-> entry, digest |-> request.digest]
  <2>1. c.at \notin Updating
    BY DEF Updating
  <2>2. QED
    BY <1>2, <2>1, EnterMoves
<1>3. ASSUME Enter(p, [at |-> "read private", kid |-> request.kid, key |-> entry.key])
      PROVE  Moves(p)
  <2> DEFINE c == [at |-> "read private", kid |-> request.kid, key |-> entry.key]
  <2>1. c.at \notin Updating
    BY DEF Updating
  <2>2. QED
    BY <1>3, <2>1, EnterMoves
<1>4. QED
  BY <1>1, <1>2, <1>3 DEF ContinueWith

LEMMA LoadMoves ==
    ASSUME NEW p, NEW request, Load(p, request)
    PROVE  Moves(p)
<1>1. ASSUME Enter(p, [at |-> "consult index", request |-> request])
      PROVE  Moves(p)
  <2> DEFINE c == [at |-> "consult index", request |-> request]
  <2>1. c.at \notin Updating
    BY DEF Updating
  <2>2. QED
    BY <1>1, <2>1, EnterMoves
<1>2. CASE Return(p, request.kid, PublicKeyIntegrityError, None)
  BY <1>2, AnswerMoves
<1>3. CASE ContinueWith(p, request, Named(request.kid))
  BY <1>3, ContinueMoves
<1>4. QED
  BY <1>1, <1>2, <1>3 DEF Load

(* A call that was not about to index a KeyId, and is not now, leaves the    *)
(* index as it was with respect to every KeyId.                              *)
LEMMA MovesKeepIndexed ==
    ASSUME Inv, UpdateInv, NEW p \in Process, call[p].at \notin Updating, Moves(p),
           UNCHANGED <<header, public, altIndex>>, disturbed => disturbed',
           \A q \in Process : q # p => master'[q] = master[q]
    PROVE  UpdateInv'
<1>1. SUFFICES ASSUME ~disturbed'
               PROVE  /\ ComputedIsIndexed'
                      /\ (altIndex # None => altIndex.master = header)'
                      /\ \A q \in Process : call'[q].at \in Updating => master'[q] # Zero
  BY DEF UpdateInv
<1>2. /\ ComputedIsIndexed
      /\ altIndex # None => altIndex.master = header
      /\ \A q \in Process : call[q].at \in Updating => master[q] # Zero
  BY <1>1 DEF UpdateInv
<1>3. /\ call'[p].at \notin Updating
      /\ \A q \in Process : q # p => call'[q] = call[q]
  BY DEF Moves, Inv, TypeOK
<1>4. ASSUME NEW kid, Indexed(kid)
      PROVE  Indexed(kid)'
  BY <1>3, <1>4 DEF Indexed, IndexEntries, Updating
<1>5. ComputedIsIndexed'
  BY <1>2, <1>4 DEF ComputedIsIndexed, Lists
<1>6. QED
  BY <1>2, <1>3, <1>5

(* The file of a public key is replaced; what it lists anew is indexed. *)
LEMMA PublicWriteKeepsIndexed ==
    ASSUME Inv, UpdateInv, NEW p \in Process, call[p].at \notin Updating,
           NEW k \in Key, NEW entry, NEW c,
           public' = [public EXCEPT ![k] = entry], call' = [call EXCEPT ![p] = c],
           UNCHANGED <<header, altIndex, master>>, disturbed => disturbed',
           c.at \in Updating => disturbed' \/ master[p] # Zero,
           \A kid \in AnyKeyId :
               Lists(entry, kid) /\ kid.digest # PRIMARY =>
                   \/ disturbed'
                   \/ public[k] = entry
                   \/ public[k] # None /\ Lists(public[k], kid)
                   \/ c.at = "read index" /\ c.new = kid
    PROVE  UpdateInv'
<1>1. SUFFICES ASSUME ~disturbed'
               PROVE  /\ ComputedIsIndexed'
                      /\ (altIndex # None => altIndex.master = header)'
                      /\ \A q \in Process : call'[q].at \in Updating => master'[q] # Zero
  BY DEF UpdateInv
<1>2. /\ ComputedIsIndexed
      /\ altIndex # None => altIndex.master = header
      /\ \A q \in Process : call[q].at \in Updating => master[q] # Zero
  BY <1>1 DEF UpdateInv
<1>3. /\ call'[p] = c
      /\ \A q \in Process : q # p => call'[q] = call[q]
      /\ public'[k] = entry
      /\ \A j \in Key : j # k => public'[j] = public[j]
  BY DEF Inv, TypeOK
<1>4. ASSUME NEW kid, Indexed(kid)
      PROVE  Indexed(kid)'
  BY <1>3, <1>4 DEF Indexed, IndexEntries, Updating
<1>5. ASSUME NEW j \in Key, public'[j] # None, NEW kid \in AnyKeyId,
             Lists(public'[j], kid), kid.digest # PRIMARY
      PROVE  Indexed(kid)'
  <2>1. CASE j # k
    BY <1>2, <1>3, <1>4, <1>5, <2>1 DEF ComputedIsIndexed
  <2>2. CASE j = k /\ c.at = "read index" /\ c.new = kid
    BY <1>3, <2>2 DEF Indexed
  <2>3. CASE j = k /\ public[k] # None /\ Lists(public[k], kid)
    BY <1>2, <1>4, <1>5, <2>3 DEF ComputedIsIndexed
  <2>4. QED
    BY <1>1, <1>3, <1>5, <2>1, <2>2, <2>3
<1>6. ComputedIsIndexed'
  BY <1>5 DEF ComputedIsIndexed, Lists
<1>7. \A q \in Process : call'[q].at \in Updating => master'[q] # Zero
  BY <1>1, <1>2, <1>3
<1>8. QED
  BY <1>2, <1>6, <1>7

(* A new entry lists its primary KeyId only, which needs no index. *)
LEMMA WritePublicIndexed ==
    ASSUME Inv, UpdateInv, NEW p \in Process, WritePublic(p)
    PROVE  UpdateInv'
<1> DEFINE k == call[p].key
           entry == StoredPublicKeyEntry(k, {PRIMARY}, master[p])
<1>1. call[p].at = "write public"
  BY DEF WritePublic
<1>2. call[p] \in [at : {"write public"}, key : Key]
  BY <1>1, CallFacts, CallShapes
<1>3. k \in Key
  BY <1>2
<1>4. /\ public' = [public EXCEPT ![k] = entry] /\ call' = [call EXCEPT ![p] = Idle]
      /\ UNCHANGED <<header, altIndex, master>> /\ (disturbed => disturbed')
  BY DEF WritePublic, Return
<1>5. \A kid : Lists(entry, kid) => kid.digest = PRIMARY
  BY DEF Lists, StoredPublicKeyEntry
<1>6. call[p].at \notin Updating
  BY <1>1 DEF Updating
<1> HIDE DEF entry, k
<1>7. QED
  <2>1. Idle.at \in Updating => disturbed' \/ master[p] # Zero
    BY IdleUpdatesNothing
  <2>2. \A kid \in AnyKeyId :
            Lists(entry, kid) /\ kid.digest # PRIMARY =>
                \/ disturbed'
                \/ public[k] = entry
                \/ public[k] # None /\ Lists(public[k], kid)
                \/ Idle.at = "read index" /\ Idle.new = kid
    BY <1>5
  <2>3. QED
    BY <1>3, <1>4, <1>6, <2>1, <2>2, PublicWriteKeepsIndexed

(* key_id_for writes the entry it read, with the KeyId it goes on to index. *)
LEMMA WriteIdsIndexed ==
    ASSUME Inv, UpdateInv, NEW p \in Process, WriteIds(p)
    PROVE  UpdateInv'
<1> DEFINE old == call[p].entry
           k == old.key
           digest == call[p].digest
           entry == StoredPublicKeyEntry(k, old.ids \cup {digest}, master[p])
           c == [at |-> "read index", new |-> KeyId(digest, k)]
<1>1. call[p].at = "write ids"
  BY DEF WriteIds
<1>2. call[p] \in [at : {"write ids"}, entry : PublicEntries, digest : Digest]
  BY <1>1, CallFacts, CallShapes
<1>3. old \in PublicEntries /\ k \in Key
  <2>1. old \in PublicEntries
    BY <1>2
  <2>2. QED
    BY <2>1 DEF PublicEntries
<1>4. /\ public' = [public EXCEPT ![k] = entry] /\ call' = [call EXCEPT ![p] = c]
      /\ UNCHANGED <<header, altIndex, master>> /\ (disturbed => disturbed')
      /\ disturbed' \/ (master[p] # Zero /\ public[k] = old)
  BY DEF WriteIds, Enter
<1>5. c.at = "read index" /\ c.new = [digest |-> digest, key |-> k]
  BY DEF KeyId
<1>6. ASSUME NEW kid \in AnyKeyId, Lists(entry, kid)
      PROVE  Lists(old, kid) \/ kid = c.new
  <2>1. kid.key = k /\ kid.digest \in old.ids \cup {digest}
    BY <1>6 DEF Lists, StoredPublicKeyEntry
  <2>2. kid = [digest |-> kid.digest, key |-> kid.key]
    BY DEF AnyKeyId
  <2>3. QED
    BY <1>5, <2>1, <2>2 DEF Lists
<1>7. call[p].at \notin Updating /\ old # None
  BY <1>1, <1>3, NoneAssumption DEF Updating
<1> HIDE DEF entry, c, k
<1>8. \A kid \in AnyKeyId :
          Lists(entry, kid) /\ kid.digest # PRIMARY =>
              \/ disturbed'
              \/ public[k] = entry
              \/ public[k] # None /\ Lists(public[k], kid)
              \/ c.at = "read index" /\ c.new = kid
  BY <1>4, <1>5, <1>6, <1>7
<1>9. QED
  <2>1. c.at \in Updating => disturbed' \/ master[p] # Zero
    BY <1>4
  <2>2. QED
    BY <1>3, <1>4, <1>7, <1>8, <2>1, PublicWriteKeepsIndexed

(* The index is read under an open object's key, so the call goes on. *)
LEMMA ReadIndexIndexed ==
    ASSUME Inv, UpdateInv, NEW p \in Process, ReadIndex(p)
    PROVE  UpdateInv'
<1>1. call[p].at = "read index" /\ UNCHANGED <<disk, master, harm>>
  BY DEF ReadIndex
<1>2. UNCHANGED <<header, public, altIndex, disturbed, master>>
  BY <1>1 DEF disk, harm
<1>3. SUFFICES ASSUME ~disturbed
               PROVE  UpdateInv'
  BY <1>2 DEF UpdateInv
<1>4. /\ ComputedIsIndexed
      /\ altIndex # None => altIndex.master = header
      /\ \A q \in Process : call[q].at \in Updating => master[q] # Zero
  BY <1>3 DEF UpdateInv
<1>5. master[p] = header
  BY <1>1, <1>4, CallFacts DEF Updating, Creating, Inv, HeaderInv
<1>6. call' = [call EXCEPT ![p] = [at |-> "write index", new |-> call[p].new,
                                   entries |-> IndexEntries]]
  BY <1>4, <1>5 DEF ReadIndex, IndexVerifies, Enter
<1>7. /\ call'[p].at = "write index" /\ call'[p].new = call[p].new
      /\ \A q \in Process : q # p => call'[q] = call[q]
  BY <1>6 DEF Inv, TypeOK
<1>8. ASSUME NEW kid, Indexed(kid)
      PROVE  Indexed(kid)'
  BY <1>1, <1>2, <1>7, <1>8 DEF Indexed, IndexEntries
<1>9. ComputedIsIndexed'
  BY <1>2, <1>4, <1>8 DEF ComputedIsIndexed, Lists
<1>10. QED
  BY <1>1, <1>2, <1>4, <1>7, <1>9 DEF UpdateInv, Updating

(* The new index holds what the index held and the KeyId the call was for. *)
LEMMA WriteIndexIndexed ==
    ASSUME Inv, UpdateInv, NEW p \in Process, WriteIndex(p)
    PROVE  UpdateInv'
<1> DEFINE new == call[p].new
           entries == Extended(call[p].entries, new)
<1>1. call[p].at = "write index" /\ UNCHANGED <<header, public, master>>
  BY DEF WriteIndex
<1>2. SUFFICES ASSUME ~disturbed'
               PROVE  UpdateInv'
  BY DEF UpdateInv
<1>3. /\ ~disturbed /\ master[p] # Zero /\ IndexEntries = call[p].entries
      /\ altIndex' = AltIndexFile(entries, master[p])
      /\ call' = [call EXCEPT ![p] = Idle]
  BY <1>2 DEF WriteIndex, Return
<1>4. /\ ComputedIsIndexed
      /\ \A q \in Process : call[q].at \in Updating => master[q] # Zero
  BY <1>3 DEF UpdateInv
<1>5. /\ master[p] = header /\ header # None /\ master[p] \in Masters \cup {Zero}
  BY <1>1, <1>3, CallFacts DEF Creating, Inv, HeaderInv, TypeOK
<1>6. altIndex'.entries = entries /\ altIndex'.master = header'
  BY <1>1, <1>3, <1>5 DEF AltIndexFile
<1>7. entries = IndexEntries \cup {AltIndexEntry(new, new.key)}
  BY <1>3 DEF Extended
<1>8. altIndex' # None
  <2>1. call[p] \in [at : {"write index"}, new : AnyKeyId,
                     entries : SUBSET IndexFileEntries]
    BY <1>1, CallFacts, CallShapes
  <2>2. new \in AnyKeyId /\ call[p].entries \in SUBSET IndexFileEntries
    BY <2>1
  <2>3. AltIndexEntry(new, new.key) \in IndexFileEntries
    BY <2>2 DEF AnyKeyId, AltIndexEntry, IndexFileEntries
  <2>4. entries \in SUBSET IndexFileEntries
    BY <1>3, <1>7, <2>2, <2>3
  <2>5. altIndex' \in IndexFiles
    BY <1>3, <1>5, <2>4 DEF AltIndexFile, IndexFiles
  <2>6. QED
    BY <2>5, NoneAssumption
<1> HIDE DEF entries
<1>9. IndexEntries' = IndexEntries \cup {AltIndexEntry(new, new.key)}
  BY <1>6, <1>7, <1>8 DEF IndexEntries
<1>10. /\ call'[p].at \notin Updating
       /\ \A q \in Process : q # p => call'[q] = call[q]
  BY <1>3 DEF Inv, TypeOK, Idle, Updating
<1>11. ASSUME NEW kid, Indexed(kid)
       PROVE  Indexed(kid)'
  <2>1. CASE AltIndexEntry(kid, kid.key) \in IndexEntries
    BY <1>9, <2>1 DEF Indexed
  <2>2. CASE \E q \in Process : call[q].at \in Updating /\ call[q].new = kid
    <3>1. PICK q \in Process : call[q].at \in Updating /\ call[q].new = kid
      BY <2>2
    <3>2. CASE q = p
      BY <1>9, <3>1, <3>2 DEF Indexed
    <3>3. CASE q # p
      BY <1>10, <3>1, <3>3 DEF Indexed, Updating
    <3>4. QED
      BY <3>2, <3>3
  <2>3. QED
    BY <1>11, <2>1, <2>2 DEF Indexed, Updating
<1>12. ComputedIsIndexed'
  BY <1>1, <1>4, <1>11 DEF ComputedIsIndexed, Lists
<1>13. QED
  BY <1>1, <1>4, <1>6, <1>10, <1>12 DEF UpdateInv

LEMMA LifecycleIndexed ==
    ASSUME Inv, UpdateInv, NEW p \in Process, Lifecycle(p)
    PROVE  UpdateInv'
<1> DEFINE elsewhere == \A q \in Process : q # p => master'[q] = master[q]
<1>1. ASSUME NEW passphrase \in Passphrase, Create(p, passphrase)
      PROVE  UpdateInv'
  <2>1. call[p].at \notin Updating /\ UNCHANGED <<disk, master, harm>>
    BY <1>1, IdleUpdatesNothing DEF Create
  <2>2. UNCHANGED <<header, public, altIndex, master, disturbed>>
    BY <2>1 DEF disk, harm
  <2>3. CASE Leave(p, KeyDirectoryError)
    BY <2>1, <2>2, <2>3, AnswerMoves, MovesKeepIndexed
  <2>4. CASE Enter(p, [at |-> "make public", passphrase |-> passphrase])
    <3> DEFINE c == [at |-> "make public", passphrase |-> passphrase]
    <3>1. c.at \notin Updating
      BY DEF Updating
    <3>2. QED
      BY <2>1, <2>2, <2>4, <3>1, EnterMoves, MovesKeepIndexed
  <2>5. QED
    BY <1>1, <2>3, <2>4 DEF Create
<1>2. ASSUME NEW passphrase \in Passphrase, Open(p, passphrase)
      PROVE  UpdateInv'
  <2>1. /\ call[p].at \notin Updating /\ UNCHANGED <<disk, harm>> /\ elsewhere
        /\ Leave(p, OpenError(passphrase))
    BY <1>2, IdleUpdatesNothing DEF Open, Inv, TypeOK
  <2>2. UNCHANGED <<header, public, altIndex, disturbed>>
    BY <2>1 DEF disk, harm
  <2>3. QED
    BY <2>1, <2>2, AnswerMoves, MovesKeepIndexed
<1>3. ASSUME MakePublic(p) \/ MakePrivate(p)
      PROVE  UpdateInv'
  <2>1. /\ call[p].at \notin Updating
        /\ UNCHANGED <<header, public, altIndex, master, disturbed>>
    BY <1>3 DEF MakePublic, MakePrivate, Updating, harm
  <2>2. Moves(p)
    <3>1. call[p] \in [at : {call[p].at}, passphrase : Passphrase]
      BY <1>3, CallFacts, CallShapes DEF MakePublic, MakePrivate, Creating
    <3>2. PICK c : c \in {[call[p] EXCEPT !.at = "make private"],
                          [call[p] EXCEPT !.at = "write header"]} /\ Enter(p, c)
      BY <1>3 DEF MakePublic, MakePrivate
    <3>3. c.at \notin Updating
      BY <3>1, <3>2 DEF Updating
    <3>4. QED
      BY <3>2, <3>3, EnterMoves
  <2>3. QED
    BY <2>1, <2>2, MovesKeepIndexed
<1>4. ASSUME WriteHeader(p)
      PROVE  UpdateInv'
  <2>1. call[p].at = "write header" /\ CallGood(p, call[p])
    BY <1>4, CallFacts DEF WriteHeader
  <2>2. /\ header = None
        /\ \A k \in Key : public[k] = None
        /\ altIndex = None
    BY <2>1 DEF CallGood, Creating, Inv, HeaderInv
  <2>3. UNCHANGED <<public, altIndex, disturbed>> /\ elsewhere
        /\ call' = [call EXCEPT ![p] = Idle]
    BY <1>4 DEF WriteHeader, harm, Leave, Enter, Inv, TypeOK
  <2>4. ComputedIsIndexed'
    BY <2>2, <2>3 DEF ComputedIsIndexed
  <2>5. \A q \in Process : call'[q].at \in Updating => q # p /\ call'[q] = call[q]
    BY <2>3 DEF Inv, TypeOK, Idle, Updating
  <2>6. QED
    BY <2>2, <2>3, <2>4, <2>5 DEF UpdateInv
<1>5. ASSUME Close(p)
      PROVE  UpdateInv'
  <2>1. /\ call[p].at \notin Updating /\ UNCHANGED <<disk, disturbed>> /\ elsewhere
        /\ Leave(p, NoError)
    BY <1>5, IdleUpdatesNothing DEF Close, Inv, TypeOK
  <2>2. UNCHANGED <<header, public, altIndex>>
    BY <2>1 DEF disk
  <2>3. QED
    BY <2>1, <2>2, AnswerMoves, MovesKeepIndexed
<1>6. ASSUME Crash(p)
      PROVE  UpdateInv'
  <2>1. /\ UNCHANGED disk /\ elsewhere /\ Enter(p, Idle)
        /\ disturbed' = (disturbed \/ call[p].at \in Updating)
    BY <1>6 DEF Crash, Updating, Inv, TypeOK
  <2>2. CASE call[p].at \in Updating
    BY <2>1, <2>2 DEF UpdateInv
  <2>3. CASE call[p].at \notin Updating
    <3>1. UNCHANGED <<header, public, altIndex>> /\ (disturbed => disturbed')
      BY <2>1 DEF disk
    <3>2. Moves(p)
      BY <2>1, AnswerMoves DEF Leave
    <3>3. QED
      BY <2>1, <2>3, <3>1, <3>2, MovesKeepIndexed
  <2>4. QED
    BY <2>2, <2>3
<1>7. QED
  BY <1>1, <1>2, <1>3, <1>4, <1>5, <1>6 DEF Lifecycle

LEMMA PublicKeysIndexed ==
    ASSUME Inv, UpdateInv, NEW p \in Process, PublicKeys(p)
    PROVE  UpdateInv'
<1>1. ASSUME UNCHANGED <<disk, master, harm>>, Moves(p), call[p].at \notin Updating
      PROVE  UpdateInv'
  BY <1>1, MovesKeepIndexed DEF disk, harm
<1>2. ASSUME NEW k \in Key, AddPublicKey(p, k)
      PROVE  UpdateInv'
  <2> DEFINE c == [at |-> "write public", key |-> k]
  <2>1. c.at \notin Updating
    BY DEF Updating
  <2>2. Enter(p, c) \/ Leave(p, DuplicateKey) => Moves(p)
    BY <2>1, EnterMoves, AnswerMoves
  <2>3. QED
    BY <1>1, <1>2, <2>2, IdleUpdatesNothing DEF AddPublicKey
<1>3. ASSUME NEW kid \in AnyKeyId, GetPublicKey(p, kid)
      PROVE  UpdateInv'
  BY <1>1, <1>3, LoadMoves, IdleUpdatesNothing DEF GetPublicKey
<1>4. ASSUME NEW kid \in AnyKeyId, NEW digest \in Digest, KeyIdFor(p, kid, digest)
      PROVE  UpdateInv'
  BY <1>1, <1>4, LoadMoves, IdleUpdatesNothing DEF KeyIdFor
<1>5. ASSUME ConsultIndex(p)
      PROVE  UpdateInv'
  <2>1. ASSUME NEW request, NEW primary,
               Enter(p, [at |-> "load by index", request |-> request,
                         primary |-> primary])
        PROVE  Moves(p)
    <3> DEFINE c == [at |-> "load by index", request |-> request, primary |-> primary]
    <3>1. c.at \notin Updating
      BY DEF Updating
    <3>2. QED
      BY <2>1, <3>1, EnterMoves
  <2>2. Moves(p)
    BY <1>5, <2>1, AnswerMoves DEF ConsultIndex
  <2>3. call[p].at \notin Updating /\ UNCHANGED <<disk, master, harm>>
    BY <1>5 DEF ConsultIndex, Updating
  <2>4. QED
    BY <1>1, <2>2, <2>3
<1>6. ASSUME LoadByIndex(p)
      PROVE  UpdateInv'
  <2>1. Moves(p)
    BY <1>6, AnswerMoves, ContinueMoves DEF LoadByIndex
  <2>2. call[p].at \notin Updating /\ UNCHANGED <<disk, master, harm>>
    BY <1>6 DEF LoadByIndex, Updating
  <2>3. QED
    BY <1>1, <2>1, <2>2
<1>7. QED
  BY <1>2, <1>3, <1>4, <1>5, <1>6, WritePublicIndexed, WriteIdsIndexed,
     ReadIndexIndexed, WriteIndexIndexed DEF PublicKeys

LEMMA PrivateKeysIndexed ==
    ASSUME Inv, UpdateInv, NEW p \in Process, PrivateKeys(p)
    PROVE  UpdateInv'
<1>1. UNCHANGED <<header, public, altIndex, master, disturbed>>
  BY DEF PrivateKeys, AddPrivateKey, GetPrivateKey, WritePrivate, ReadPrivate, disk, harm
<1>at. call[p].at \notin Updating
  <2>1. WritePrivate(p) \/ ReadPrivate(p) => call[p].at \notin Updating
    BY DEF WritePrivate, ReadPrivate, Updating
  <2>2. QED
    BY <2>1, IdleUpdatesNothing DEF PrivateKeys, AddPrivateKey, GetPrivateKey
<1>2. ASSUME NEW k \in Key, AddPrivateKey(p, k)
      PROVE  Moves(p)
  <2> DEFINE c == [at |-> "write private", key |-> k]
  <2>1. c.at \notin Updating
    BY DEF Updating
  <2>2. QED
    BY <1>2, <2>1, EnterMoves, AnswerMoves DEF AddPrivateKey
<1>3. ASSUME NEW kid \in AnyKeyId, GetPrivateKey(p, kid)
      PROVE  Moves(p)
  BY <1>3, AnswerMoves, LoadMoves DEF GetPrivateKey, ReturnPrivate
<1>4. WritePrivate(p) \/ ReadPrivate(p) => Moves(p)
  BY AnswerMoves DEF WritePrivate, ReadPrivate, ReturnPrivate
<1>5. QED
  BY <1>1, <1>at, <1>2, <1>3, <1>4, MovesKeepIndexed DEF PrivateKeys

(* A misplaced public key file counts as damage; a private one is not listed. *)
LEMMA MisplaceIndexed ==
    ASSUME Inv, UpdateInv, NEW k \in Key, NEW other \in Key, Misplace(k, other)
    PROVE  UpdateInv'
<1>1. CASE disturbed' = TRUE
  BY <1>1 DEF UpdateInv
<1>2. CASE UNCHANGED <<public, disturbed>>
  <2>1. UNCHANGED <<header, altIndex, master, call>>
    BY DEF Misplace
  <2>2. QED
    BY <1>2, <2>1 DEF UpdateInv, ComputedIsIndexed, Indexed, IndexEntries, Lists
<1>3. QED
  BY <1>1, <1>2 DEF Misplace

LEMMA NextIndexed ==
    ASSUME Inv, UpdateInv, [Next]_vars
    PROVE  UpdateInv'
<1>1. CASE UNCHANGED vars
  <2>1. UNCHANGED <<header, public, altIndex, master, call, disturbed>>
    BY <1>1 DEF vars, disk, harm
  <2>2. QED
    BY <2>1 DEF UpdateInv, ComputedIsIndexed, Indexed, IndexEntries, Lists
<1>2. QED
  BY <1>1, LifecycleIndexed, PublicKeysIndexed, PrivateKeysIndexed, MisplaceIndexed
     DEF Next

(* keystore.py's note on avoiding repeat hashing: as long as no update of     *)
(* KeyIds is cut short or raced, every computed KeyId is found by the index.  *)
THEOREM ComputedAreIndexed == Spec => []ComputedIsIndexedUndisturbed
<1>1. Init => UpdateInv
  <2>1. Idle.at \notin Updating
    BY DEF Idle, Updating
  <2>2. QED
    BY <2>1 DEF Init, UpdateInv, ComputedIsIndexed
<1>2. Inv /\ UpdateInv /\ [Next]_vars => UpdateInv'
  BY NextIndexed
<1>3. UpdateInv => ComputedIsIndexedUndisturbed
  BY DEF UpdateInv, ComputedIsIndexedUndisturbed
<1>4. QED
  BY <1>1, <1>2, <1>3, Invariant, PTL DEF Spec

-----------------------------------------------------------------------------
(* The refinement. *)

LEMMA RingStutter ==
    ASSUME UNCHANGED <<header, public, private, damaged>>
    PROVE  UNCHANGED Ring!vars
BY DEF Ring!vars, Authentic, Verifies, Held

LEMMA QuietIsStutter ==
    ASSUME UNCHANGED <<disk, damaged>>
    PROVE  UNCHANGED Ring!vars
<1>1. UNCHANGED <<header, public, private, damaged>>
  BY DEF disk
<1>2. QED
  BY <1>1, RingStutter

LEMMA HarmQuietIsStutter ==
    ASSUME UNCHANGED <<disk, harm>>
    PROVE  UNCHANGED Ring!vars
BY QuietIsStutter DEF harm

(* A step that changes the files of one key only, and counts as damage. *)
LEMMA DamageIsDamage ==
    ASSUME NEW k \in Key, damaged' = damaged \cup {k}, header' = header,
           \A j \in Key : j # k => public'[j] = public[j] /\ private'[j] = private[j]
    PROVE  Ring!Next
<1> DEFINE ring == {j \in Key : Authentic(j)}
           vault == {j \in Key : Held(j)}
<1>1. \A j \in Key : j # k => (Authentic(j)' <=> Authentic(j)) /\ (Held(j)' <=> Held(j))
  BY DEF Authentic, Verifies, Held
<1>2. ring' \in {ring \cup {k}, ring \ {k}}
  <2>1. CASE Authentic(k)'
    BY <1>1, <2>1
  <2>2. CASE ~Authentic(k)'
    BY <1>1, <2>2
  <2>3. QED
    BY <2>1, <2>2
<1>3. vault' \in {vault \cup {k}, vault \ {k}}
  <2>1. CASE Held(k)'
    BY <1>1, <2>1
  <2>2. CASE ~Held(k)'
    BY <1>1, <2>2
  <2>3. QED
    BY <2>1, <2>2
<1>4. Ring!Damage(k)
  BY <1>2, <1>3 DEF Ring!Damage
<1>5. QED
  BY <1>4 DEF Ring!Next

(* add_public_key and key_id_for put an authentic entry in place, or a closed *)
(* object's damage.                                                           *)
LEMMA PublicWriteIsAdd ==
    ASSUME Inv, NEW p \in Process, master[p] # None, NEW k \in Key,
           NEW ids \in SUBSET Digest,
           public' = [public EXCEPT ![k] = StoredPublicKeyEntry(k, ids, master[p])],
           damaged' = Damaging(p, k),
           UNCHANGED <<dirs, header, private, altIndex, master>>
    PROVE  Ring!Next
<1>1. /\ public'[k].mac = Mac(master[p], k) /\ public'[k] # None
      /\ \A j \in Key : j # k => public'[j] = public[j]
  BY PublicWritten
<1>2. CASE master[p] = Zero
  BY <1>1, <1>2, DamageIsDamage DEF Damaging
<1>3. CASE master[p] # Zero
  <2>1. master[p] = header /\ damaged' = damaged
    BY <1>3 DEF Inv, HeaderInv, Damaging
  <2>2. Authentic(k)'
    BY <1>1, <2>1 DEF Authentic, Verifies
  <2>3. \A j \in Key : /\ j # k => (Authentic(j)' <=> Authentic(j))
                       /\ Held(j)' <=> Held(j)
    BY <1>1 DEF Authentic, Verifies, Held
  <2>4. Ring!AddPublicKey(k)
    BY <2>1, <2>2, <2>3 DEF Ring!AddPublicKey
  <2>5. QED
    BY <2>4 DEF Ring!Next
<1>4. QED
  BY <1>2, <1>3

LEMMA WritePublicIsAdd ==
    ASSUME Inv, NEW p \in Process, WritePublic(p)
    PROVE  Ring!Next
<1> DEFINE k == call[p].key
<1>1. call[p].at = "write public"
  BY DEF WritePublic
<1>2. call[p] \in [at : {"write public"}, key : Key]
  BY <1>1, CallFacts, CallShapes
<1>3. k \in Key /\ master[p] # None
  BY <1>1, <1>2, CallFacts DEF Creating
<1>4. {PRIMARY} \in SUBSET Digest
  BY DirectoryAssumption
<1>5. QED
  BY <1>3, <1>4, PublicWriteIsAdd DEF WritePublic

LEMMA WriteIdsIsAdd ==
    ASSUME Inv, NEW p \in Process, WriteIds(p)
    PROVE  Ring!Next
<1> DEFINE entry == call[p].entry
           ids == entry.ids \cup {call[p].digest}
<1>1. call[p].at = "write ids"
  BY DEF WriteIds
<1>2. call[p] \in [at : {"write ids"}, entry : PublicEntries, digest : Digest]
  BY <1>1, CallFacts, CallShapes
<1>3. entry \in PublicEntries /\ call[p].digest \in Digest
  BY <1>2
<1>4. entry.key \in Key /\ ids \in SUBSET Digest
  BY <1>3 DEF PublicEntries
<1>5. master[p] # None
  BY <1>1, CallFacts DEF Creating
<1>6. /\ public' = [public EXCEPT ![entry.key] =
                       StoredPublicKeyEntry(entry.key, ids, master[p])]
      /\ damaged' = Damaging(p, entry.key)
      /\ UNCHANGED <<dirs, header, private, altIndex, master>>
  BY DEF WriteIds
<1>7. QED
  BY <1>4, <1>5, <1>6, PublicWriteIsAdd

(* add_private_key's public key is still there, or was damaged. *)
LEMMA WritePrivateIsAdd ==
    ASSUME Inv, NEW p \in Process, WritePrivate(p)
    PROVE  Ring!Next
<1>1. call[p].at = "write private"
  BY DEF WritePrivate
<1>2. call[p] \in [at : {"write private"}, key : Key]
  BY <1>1, CallFacts, CallShapes
<1>key. PICK k \in Key : k = call[p].key
  BY <1>2
<1> DEFINE entry == StoredPrivateKeyEntry(k, master[p])
<1>3. master[p] # None /\ public[k] # None
  BY <1>1, <1>key, CallFacts DEF CallGood, Creating
<1>4. /\ private' = [private EXCEPT ![k] = entry]
      /\ damaged' = Damaging(p, k)
      /\ UNCHANGED <<dirs, header, public, altIndex, master>>
  BY <1>key DEF WritePrivate
<1>5. /\ private'[k] = entry
      /\ \A j \in Key : j # k => private'[j] = private[j]
  BY <1>4 DEF Inv, TypeOK
<1>6. CASE master[p] = Zero
  BY <1>4, <1>5, <1>6, DamageIsDamage DEF Damaging
<1>7. CASE master[p] # Zero
  <2>1. master[p] = header /\ damaged' = damaged /\ header \in Masters
    BY <1>3, <1>4, <1>7 DEF Inv, HeaderInv, TypeOK, Damaging
  <2>2. entry \in PrivateEntries /\ entry.keyId = k /\ entry.master = header
    BY <2>1 DEF StoredPrivateKeyEntry, PrivateEntries
  <2>3. entry # None
    BY <2>2, NoneAssumption
  <2>4. Held(k)'
    <3> HIDE DEF entry
    <3>1. QED
      BY <1>4, <1>5, <2>2, <2>3 DEF Held
  <2>5. \A j \in Key : /\ j # k => (Held(j)' <=> Held(j))
                       /\ Authentic(j)' <=> Authentic(j)
    BY <1>4, <1>5 DEF Authentic, Verifies, Held
  <2>6. k \in {j \in Key : Authentic(j)} \cup damaged
    BY <1>3 DEF Inv, FilesInv
  <2>7. Ring!AddPrivateKey(k)
    BY <2>1, <2>4, <2>5, <2>6 DEF Ring!AddPrivateKey
  <2>8. QED
    BY <2>7 DEF Ring!Next
<1>8. QED
  BY <1>6, <1>7

(* The header is written while there is no file to verify under it. *)
LEMMA WriteHeaderIsStutter ==
    ASSUME Inv, NEW p \in Process, WriteHeader(p)
    PROVE  UNCHANGED Ring!vars
<1>1. call[p].at = "write header" /\ CallGood(p, call[p])
  BY CallFacts DEF WriteHeader
<1>2. header = None
  BY <1>1 DEF CallGood, Creating
<1>3. \A k \in Key : public[k] = None /\ private[k] = None
  BY <1>2 DEF Inv, HeaderInv
<1>4. UNCHANGED <<public, private, damaged>>
  BY DEF WriteHeader, harm
<1>5. \A k \in Key : /\ ~Authentic(k) /\ ~Authentic(k)'
                     /\ ~Held(k) /\ ~Held(k)'
  BY <1>3, <1>4 DEF Authentic, Held
<1>6. QED
  BY <1>4, <1>5 DEF Ring!vars

LEMMA StepIsRingStep ==
    ASSUME Inv, [Next]_vars
    PROVE  [Ring!Next]_(Ring!vars)
<1>1. CASE UNCHANGED vars
  BY <1>1, HarmQuietIsStutter DEF vars
<1>2. ASSUME NEW p \in Process, Lifecycle(p)
      PROVE  UNCHANGED Ring!vars
  <2>1. ASSUME NEW passphrase \in Passphrase,
               Create(p, passphrase) \/ Open(p, passphrase)
        PROVE  UNCHANGED Ring!vars
    BY <2>1, HarmQuietIsStutter DEF Create, Open
  <2>2. ASSUME MakePublic(p) \/ MakePrivate(p)
        PROVE  UNCHANGED Ring!vars
    <3>1. UNCHANGED <<header, public, private, damaged>>
      BY <2>2 DEF MakePublic, MakePrivate, harm
    <3>2. QED
      BY <3>1, RingStutter
  <2>3. Close(p) \/ Crash(p) => UNCHANGED Ring!vars
    BY QuietIsStutter DEF Close, Crash
  <2>4. QED
    BY <1>2, <2>1, <2>2, <2>3, WriteHeaderIsStutter DEF Lifecycle
<1>3. ASSUME NEW p \in Process, PublicKeys(p)
      PROVE  Ring!Next \/ UNCHANGED Ring!vars
  <2>1. ASSUME NEW k \in Key, AddPublicKey(p, k)
        PROVE  UNCHANGED Ring!vars
    BY <2>1, HarmQuietIsStutter DEF AddPublicKey
  <2>2. ASSUME NEW kid \in AnyKeyId,
               GetPublicKey(p, kid) \/ \E digest \in Digest : KeyIdFor(p, kid, digest)
        PROVE  UNCHANGED Ring!vars
    BY <2>2, HarmQuietIsStutter DEF GetPublicKey, KeyIdFor
  <2>3. ConsultIndex(p) \/ LoadByIndex(p) \/ ReadIndex(p) => UNCHANGED Ring!vars
    BY HarmQuietIsStutter DEF ConsultIndex, LoadByIndex, ReadIndex
  <2>4. WriteIndex(p) => UNCHANGED Ring!vars
    BY RingStutter DEF WriteIndex
  <2>5. QED
    BY <1>3, <2>1, <2>2, <2>3, <2>4, WritePublicIsAdd, WriteIdsIsAdd DEF PublicKeys
<1>4. ASSUME NEW p \in Process, PrivateKeys(p)
      PROVE  Ring!Next \/ UNCHANGED Ring!vars
  <2>1. ASSUME NEW k \in Key, AddPrivateKey(p, k)
        PROVE  UNCHANGED Ring!vars
    BY <2>1, HarmQuietIsStutter DEF AddPrivateKey
  <2>2. ASSUME NEW kid \in AnyKeyId, GetPrivateKey(p, kid)
        PROVE  UNCHANGED Ring!vars
    BY <2>2, HarmQuietIsStutter DEF GetPrivateKey
  <2>3. ReadPrivate(p) => UNCHANGED Ring!vars
    BY HarmQuietIsStutter DEF ReadPrivate
  <2>4. QED
    BY <1>4, <2>1, <2>2, <2>3, WritePrivateIsAdd DEF PrivateKeys
<1>5. ASSUME NEW k \in Key, NEW other \in Key, Misplace(k, other)
      PROVE  Ring!Next
  <2>1. /\ damaged' = damaged \cup {k} /\ header' = header
        /\ \A j \in Key : j # k => public'[j] = public[j] /\ private'[j] = private[j]
    BY <1>5 DEF Misplace, Inv, TypeOK
  <2>2. QED
    BY <2>1, DamageIsDamage
<1>6. QED
  BY <1>1, <1>2, <1>3, <1>4, <1>5 DEF Next

(* The directory of files implements the ring of keys: through every         *)
(* interleaving and crash no key that was added is forgotten, and none that   *)
(* was not added appears, but for the keys whose files were damaged.          *)
THEOREM ImplementsKeyRing == Spec => RingSpec
<1>1. Init => Ring!Init
  BY DEF Init, Ring!Init, Authentic, Held
<1>2. Inv /\ [Next]_vars => [Ring!Next]_(Ring!vars)
  BY StepIsRingStep
<1>3. QED
  BY <1>1, <1>2, Invariant, PTL DEF Spec, RingSpec, Ring!Spec

=============================================================================
