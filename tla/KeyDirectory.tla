---------------------------- MODULE KeyDirectory ----------------------------
(***************************************************************************)
(* keystore.py: a directory of key files, shared by processes that take no *)
(* lock.  A call is the sequence of its file accesses: another process, or *)
(* a crash, can come between any two of them.  A file is replaced as a     *)
(* whole (_atomic_write), so each access is one step.                      *)
(*                                                                         *)
(* A key stands for itself and for the SHA-256 hash that names its files;  *)
(* a KeyId is a digest algorithm and the key it was computed from.  A MAC, *)
(* a wrapped key and the header's tag verify under the master key, and for *)
(* the name, they were made with.                                          *)
(***************************************************************************)
EXTENDS Naturals

CONSTANTS
    Process,      \* the processes that use the directory
    Creator,      \* those of them that may call create()
    Passphrase,
    Key,          \* the public keys
    Digest,       \* the digest algorithms KeyIds are asked for
    None,
    Zero,         \* what close() leaves of a master key
    MaxFaults     \* bound on crashes, misplaced files and closed objects in use

PRIMARY == "sha256"

(* Two create() calls on one path would each write a header of their own: the *)
(* module assumes the directory is made by one process.                       *)
ASSUME DirectoryAssumption ==
    /\ PRIMARY \in Digest
    /\ Creator \subseteq Process
    /\ \A p, q \in Creator : p = q
    /\ MaxFaults \in Nat

VARIABLES
    dirs,        \* the subdirectories made so far
    header,      \* header.der: the master key its tag verifies, or None
    public,      \* public/<hex>.der
    private,     \* private/<hex>.der
    altIndex,    \* alt_index.der
    master,      \* the master key of each process's object, None without one
    call,        \* the call each process is in
    misanswered, \* history: the KeyIds a call answered with another's key
    blamed,      \* history: the keys an open object called damaged
    disturbed,   \* history: an update of KeyIds was interrupted or raced
    damaged,     \* history: the keys whose files were damaged
    faults       \* crashes, misplaced files and closed objects in use so far

disk == <<dirs, header, public, private, altIndex>>
outcomes == <<misanswered, blamed>>
harm == <<disturbed, damaged, faults>>
vars == <<disk, master, call, outcomes, harm>>

NoError == "no error"
KeyDirectoryError == "KeyDirectoryError"
WrongPassphrase == "WrongPassphrase"
KeyNotFound == "KeyNotFound"
DuplicateKey == "DuplicateKey"
PrivateKeyRequiresPublicKey == "PrivateKeyRequiresPublicKey"
PrivateKeyUnwrapFailed == "PrivateKeyUnwrapFailed"
PublicKeyIntegrityError == "PublicKeyIntegrityError"
AltIndexIntegrityError == "AltIndexIntegrityError"

-----------------------------------------------------------------------------
(* Keys and records. *)

KeyId(digest, key) == [digest |-> digest, key |-> key]
PrimaryKeyId(key) == KeyId(PRIMARY, key)

(* _derive_master_key: the salt is drawn by the one create() that wrote it. *)
MasterKey(passphrase, salt) == [passphrase |-> passphrase, salt |-> salt]

(* The tag under data for the file called `name`: _mac_public_key_data. *)
Mac(m, name) == [master |-> m, name |-> name]

(* _build_stored_public_key_entry; ids are the digests cached in key_ids. *)
StoredPublicKeyEntry(key, ids, m) == [key |-> key, ids |-> ids, mac |-> Mac(m, key)]

(* _verify_and_get_data, on the entry found in the file called `name`. *)
Verifies(entry, m, name) == entry.mac = Mac(m, name)

Lists(entry, kid) == kid.digest \in entry.ids /\ kid.key = entry.key

(* The key bytes wrapped under a KEK bound to the master key and keyId. *)
StoredPrivateKeyEntry(keyId, m) == [keyId |-> keyId, master |-> m, secret |-> keyId]

AltIndexEntry(kid, primary) == [kid |-> kid, primary |-> primary]
AltIndexFile(entries, m) == [entries |-> entries, master |-> m]

(* Variant: the list is started afresh. *)
ExtendedAfresh(entries, kid) == {AltIndexEntry(kid, kid.key)}

(* Variant: the KeyId is mapped to its own hash. *)
ExtendedByHash(entries, kid) == entries \cup {AltIndexEntry(kid, kid)}

(* The index with one more KeyId, mapped to the primary hash of its key. *)
Extended(entries, kid) == entries \cup {AltIndexEntry(kid, kid.key)}

IndexEntries == IF altIndex = None THEN {} ELSE altIndex.entries

(* _load_alt_index: a missing file is an empty index. *)
IndexVerifies(m) == altIndex # None => altIndex.master = m

-----------------------------------------------------------------------------
(* Calls. *)

Idle == [at |-> "idle"]

(* The calls that load a public key entry first. *)
Request(op, kid, digest) == [op |-> op, kid |-> kid, digest |-> digest]

Enter(p, c) ==
    /\ call' = [call EXCEPT ![p] = c]
    /\ UNCHANGED outcomes

(* The call made for `kid` ends with an exception, or with something of the *)
(* key `value`; what it says is noted.                                      *)
Return(p, kid, exn, value) ==
    /\ call' = [call EXCEPT ![p] = Idle]
    /\ misanswered' = IF exn = NoError /\ value # kid.key
                      THEN misanswered \cup {kid} ELSE misanswered
    /\ blamed' = IF /\ exn \in {PublicKeyIntegrityError, PrivateKeyUnwrapFailed}
                    /\ master[p] # Zero
                 THEN blamed \cup {kid.key} ELSE blamed

(* It ends with an exception that says nothing of a key, or with nothing. *)
Leave(p, exn) == Enter(p, Idle)

HasObject(p) == call[p] = Idle /\ master[p] # None

(* A write through a closed object is damage: it is keyed by zeroes. *)
Damaging(p, k) == IF master[p] = Zero THEN damaged \cup {k} ELSE damaged

-----------------------------------------------------------------------------
(* KeyDirectory.create, one call per directory it makes. *)

(* Variant: only the header is looked for. *)
NotEmptyHeader == header # None

NotEmpty == dirs # {} \/ header # None

Create(p, passphrase) ==
    /\ p \in Creator
    /\ call[p] = Idle /\ master[p] = None
    /\ IF NotEmpty
       THEN Leave(p, KeyDirectoryError)
       ELSE Enter(p, [at |-> "make public", passphrase |-> passphrase])
    /\ UNCHANGED <<disk, master, harm>>

(* Variant: the second directory is forgotten. *)
MakePublicOnly(p) ==
    /\ call[p].at = "make public"
    /\ dirs' = dirs \cup {"public"}
    /\ Enter(p, [call[p] EXCEPT !.at = "write header"])
    /\ UNCHANGED <<header, public, private, altIndex, master, harm>>

MakePublic(p) ==
    /\ call[p].at = "make public"
    /\ dirs' = dirs \cup {"public"}
    /\ Enter(p, [call[p] EXCEPT !.at = "make private"])
    /\ UNCHANGED <<header, public, private, altIndex, master, harm>>

MakePrivate(p) ==
    /\ call[p].at = "make private"
    /\ dirs' = dirs \cup {"private"}
    /\ Enter(p, [call[p] EXCEPT !.at = "write header"])
    /\ UNCHANGED <<header, public, private, altIndex, master, harm>>

WriteHeader(p) ==
    /\ call[p].at = "write header"
    /\ header' = MasterKey(call[p].passphrase, p)
    /\ master' = [master EXCEPT ![p] = header']
    /\ Leave(p, NoError)
    /\ UNCHANGED <<dirs, public, private, altIndex, harm>>

(* Variant: the tag is not compared. *)
OpenErrorUnchecked(passphrase) ==
    IF header = None THEN KeyDirectoryError ELSE NoError

OpenError(passphrase) ==
    IF header = None THEN KeyDirectoryError
    ELSE IF MasterKey(passphrase, header.salt) # header THEN WrongPassphrase
    ELSE NoError

Open(p, passphrase) ==
    /\ call[p] = Idle /\ master[p] = None
    /\ master' = IF OpenError(passphrase) = NoError
                 THEN [master EXCEPT ![p] = MasterKey(passphrase, header.salt)]
                 ELSE master
    /\ Leave(p, OpenError(passphrase))
    /\ UNCHANGED <<disk, harm>>

(* close() zeroes the master key in place.  The caller lets go of the object, *)
(* as a with block does, or goes on using it.                                *)
Close(p) ==
    /\ HasObject(p) /\ master[p] # Zero
    /\ Leave(p, NoError)
    /\ \/ /\ master' = [master EXCEPT ![p] = None]
          /\ UNCHANGED faults
       \/ /\ faults < MaxFaults
          /\ master' = [master EXCEPT ![p] = Zero]
          /\ faults' = faults + 1
    /\ UNCHANGED <<disk, disturbed, damaged>>

-----------------------------------------------------------------------------
(* Public keys. *)

AddPublicKey(p, k) ==
    /\ HasObject(p)
    /\ IF public[k] # None
       THEN Leave(p, DuplicateKey)
       ELSE Enter(p, [at |-> "write public", key |-> k])
    /\ UNCHANGED <<disk, master, harm>>

(* The file may have been written since add_public_key looked for it. *)
WritePublic(p) ==
    LET k == call[p].key
    IN /\ call[p].at = "write public"
       /\ public' = [public EXCEPT ![k] = StoredPublicKeyEntry(k, {PRIMARY}, master[p])]
       /\ disturbed' = (disturbed \/ master[p] = Zero \/ public[k] # None)
       /\ damaged' = Damaging(p, k)
       /\ Return(p, PrimaryKeyId(k), NoError, k)
       /\ UNCHANGED <<dirs, header, private, altIndex, master, faults>>

(* What the entry in the file called `name` is to a lookup of kid; None stands *)
(* for a missing file.                                                        *)
EntryError(entry, m, name, kid) ==
    IF entry = None THEN KeyNotFound
    ELSE IF ~Verifies(entry, m, name) THEN PublicKeyIntegrityError
    ELSE IF ~Lists(entry, kid) THEN KeyNotFound
    ELSE NoError

(* The file named by the hash in a KeyId; another algorithm's names none. *)
Named(kid) == IF kid.digest = PRIMARY THEN public[kid.key] ELSE None

(* What each caller does with the entry it loaded. *)
ContinueWith(p, request, entry) ==
    \/ /\ request.op = "get_public_key"
       /\ Return(p, request.kid, NoError, entry.key)
    \/ /\ request.op = "key_id_for" /\ request.digest \in entry.ids
       /\ Return(p, request.kid, NoError, entry.key)
    \/ /\ request.op = "key_id_for" /\ request.digest \notin entry.ids
       /\ Enter(p, [at |-> "write ids", entry |-> entry, digest |-> request.digest])
    \/ /\ request.op = "get_private_key"
       /\ Enter(p, [at |-> "read private", kid |-> request.kid, key |-> entry.key])

(* The first part of _load_public_entry_by_key_id: the file the KeyId names. *)
Load(p, request) ==
    LET kid == request.kid
        exn == EntryError(Named(kid), master[p], kid.key, kid)
    IN \/ /\ exn = PublicKeyIntegrityError
          /\ Return(p, request.kid, exn, None)
       \/ /\ exn = NoError
          /\ ContinueWith(p, request, Named(kid))
       \/ /\ exn = KeyNotFound
          /\ Enter(p, [at |-> "consult index", request |-> request])

GetPublicKey(p, kid) ==
    /\ HasObject(p)
    /\ Load(p, Request("get_public_key", kid, None))
    /\ UNCHANGED <<disk, master, harm>>

KeyIdFor(p, kid, digest) ==
    /\ HasObject(p)
    /\ Load(p, Request("key_id_for", kid, digest))
    /\ UNCHANGED <<disk, master, harm>>

(* _alt_index_lookup. *)
ConsultIndex(p) ==
    LET request == call[p].request
        found == {e \in IndexEntries : e.kid = request.kid}
    IN /\ call[p].at = "consult index"
       /\ \/ /\ ~IndexVerifies(master[p])
             /\ Return(p, request.kid, AltIndexIntegrityError, None)
          \/ /\ IndexVerifies(master[p]) /\ found = {}
             /\ Return(p, request.kid, KeyNotFound, None)
          \/ /\ IndexVerifies(master[p])
             /\ \E e \in found :
                   Enter(p, [at |-> "load by index", request |-> request,
                             primary |-> e.primary])
       /\ UNCHANGED <<disk, master, harm>>

(* The index is a hint: the entry it names has to list the KeyId itself. *)
LoadByIndex(p) ==
    LET request == call[p].request
        name == call[p].primary
        exn == EntryError(public[name], master[p], name, request.kid)
    IN /\ call[p].at = "load by index"
       /\ \/ exn # NoError /\ Return(p, request.kid, exn, None)
          \/ exn = NoError /\ ContinueWith(p, request, public[name])
       /\ UNCHANGED <<disk, master, harm>>

-----------------------------------------------------------------------------
(* The rest of key_id_for, and _alt_index_add. *)

(* The entry is written back as it was read, with the new KeyId added. *)
WriteIds(p) ==
    LET k == call[p].entry.key
        ids == call[p].entry.ids \cup {call[p].digest}
    IN /\ call[p].at = "write ids"
       /\ public' = [public EXCEPT ![k] = StoredPublicKeyEntry(k, ids, master[p])]
       /\ disturbed' = (\/ disturbed \/ master[p] = Zero
                        \/ public[k] # call[p].entry)
       /\ damaged' = Damaging(p, k)
       /\ Enter(p, [at |-> "read index", new |-> KeyId(call[p].digest, k)])
       /\ UNCHANGED <<dirs, header, private, altIndex, master, faults>>

ReadIndex(p) ==
    /\ call[p].at = "read index"
    /\ IF IndexVerifies(master[p])
       THEN Enter(p, [at |-> "write index", new |-> call[p].new,
                      entries |-> IndexEntries])
       ELSE Leave(p, AltIndexIntegrityError)
    /\ UNCHANGED <<disk, master, harm>>

WriteIndex(p) ==
    LET new == call[p].new
    IN /\ call[p].at = "write index"
       /\ altIndex' = AltIndexFile(Extended(call[p].entries, new), master[p])
       /\ disturbed' = (\/ disturbed \/ master[p] = Zero
                        \/ IndexEntries # call[p].entries)
       /\ Return(p, new, NoError, new.key)
       /\ UNCHANGED <<dirs, header, public, private, master, damaged, faults>>

-----------------------------------------------------------------------------
(* Private keys. *)

(* Variant: a private key without its public key is accepted. *)
AddPrivateKeyErrorUnlinked(k) ==
    IF private[k] # None THEN DuplicateKey ELSE NoError

AddPrivateKeyError(k) ==
    IF public[k] = None THEN PrivateKeyRequiresPublicKey
    ELSE IF private[k] # None THEN DuplicateKey
    ELSE NoError

AddPrivateKey(p, k) ==
    /\ HasObject(p)
    /\ IF AddPrivateKeyError(k) # NoError
       THEN Leave(p, AddPrivateKeyError(k))
       ELSE Enter(p, [at |-> "write private", key |-> k])
    /\ UNCHANGED <<disk, master, harm>>

WritePrivate(p) ==
    LET k == call[p].key
    IN /\ call[p].at = "write private"
       /\ private' = [private EXCEPT ![k] = StoredPrivateKeyEntry(k, master[p])]
       /\ damaged' = Damaging(p, k)
       /\ Return(p, PrimaryKeyId(k), NoError, k)
       /\ UNCHANGED <<dirs, header, public, altIndex, master, disturbed, faults>>

(* Variant: the key_id inside the entry is not compared with the file name. *)
PrivateKeyErrorAnyIdentity(m, name) ==
    IF private[name] = None THEN KeyNotFound
    ELSE IF private[name].master # m THEN PrivateKeyUnwrapFailed
    ELSE NoError

(* What reading the file called `name` comes to. *)
PrivateKeyError(m, name) ==
    IF private[name] = None THEN KeyNotFound
    ELSE IF private[name].keyId # name THEN PrivateKeyUnwrapFailed
    ELSE IF private[name].master # m THEN PrivateKeyUnwrapFailed
    ELSE NoError

ReturnPrivate(p, kid, name) ==
    LET exn == PrivateKeyError(master[p], name)
    IN Return(p, kid, exn, IF exn = NoError THEN private[name].secret ELSE None)

(* A primary KeyId is the file name; any other is resolved through the public *)
(* entry.                                                                     *)
GetPrivateKey(p, kid) ==
    /\ HasObject(p)
    /\ \/ kid.digest = PRIMARY /\ ReturnPrivate(p, kid, kid.key)
       \/ kid.digest # PRIMARY /\ Load(p, Request("get_private_key", kid, None))
    /\ UNCHANGED <<disk, master, harm>>

ReadPrivate(p) ==
    /\ call[p].at = "read private"
    /\ ReturnPrivate(p, call[p].kid, call[p].key)
    /\ UNCHANGED <<disk, master, harm>>

-----------------------------------------------------------------------------
(* Faults. *)

(* The process dies; its object and the rest of its call are gone. *)
Crash(p) ==
    /\ faults < MaxFaults
    /\ master[p] # None \/ call[p] # Idle
    /\ master' = [master EXCEPT ![p] = None]
    /\ Enter(p, Idle)
    /\ disturbed' = (disturbed \/ call[p].at \in {"read index", "write index"})
    /\ faults' = faults + 1
    /\ UNCHANGED <<disk, damaged>>

(* Key k's file is overwritten by a copy of another key's. *)
Misplace(k, other) ==
    /\ faults < MaxFaults
    /\ k # other
    /\ \/ /\ public[other] # None
          /\ public' = [public EXCEPT ![k] = public[other]]
          /\ disturbed' = TRUE
          /\ UNCHANGED private
       \/ /\ private[other] # None
          /\ private' = [private EXCEPT ![k] = private[other]]
          /\ UNCHANGED <<public, disturbed>>
    /\ damaged' = damaged \cup {k}
    /\ faults' = faults + 1
    /\ UNCHANGED <<dirs, header, altIndex, master, call, outcomes>>

-----------------------------------------------------------------------------
Init ==
    /\ dirs = {} /\ header = None
    /\ public = [k \in Key |-> None] /\ private = [k \in Key |-> None]
    /\ altIndex = None
    /\ master = [p \in Process |-> None] /\ call = [p \in Process |-> Idle]
    /\ misanswered = {} /\ blamed = {}
    /\ disturbed = FALSE /\ damaged = {} /\ faults = 0

AnyKeyId == [digest : Digest, key : Key]

Lifecycle(p) ==
    \/ \E passphrase \in Passphrase : Create(p, passphrase) \/ Open(p, passphrase)
    \/ MakePublic(p) \/ MakePrivate(p) \/ WriteHeader(p)
    \/ Close(p) \/ Crash(p)

PublicKeys(p) ==
    \/ \E k \in Key : AddPublicKey(p, k)
    \/ \E kid \in AnyKeyId :
          GetPublicKey(p, kid) \/ \E digest \in Digest : KeyIdFor(p, kid, digest)
    \/ WritePublic(p) \/ ConsultIndex(p) \/ LoadByIndex(p)
    \/ WriteIds(p) \/ ReadIndex(p) \/ WriteIndex(p)

PrivateKeys(p) ==
    \/ \E k \in Key : AddPrivateKey(p, k)
    \/ \E kid \in AnyKeyId : GetPrivateKey(p, kid)
    \/ WritePrivate(p) \/ ReadPrivate(p)

Next ==
    \/ \E p \in Process : Lifecycle(p) \/ PublicKeys(p) \/ PrivateKeys(p)
    \/ \E k, other \in Key : Misplace(k, other)

Spec == Init /\ [][Next]_vars

-----------------------------------------------------------------------------
(* Properties. *)

Masters == [passphrase : Passphrase, salt : Creator]

PublicEntries ==
    [key : Key, ids : SUBSET Digest, mac : [master : Masters \cup {Zero}, name : Key]]

PrivateEntries == [keyId : Key, master : Masters \cup {Zero}, secret : Key]

IndexFileEntries == [kid : AnyKeyId, primary : Key]

IndexFiles == [entries : SUBSET IndexFileEntries, master : Masters \cup {Zero}]

Requests ==
    [op : {"key_id_for"}, kid : AnyKeyId, digest : Digest]
    \cup [op : {"get_public_key", "get_private_key"}, kid : AnyKeyId, digest : {None}]

(* The calls under way, by the file access that comes next. *)
CallsAt(at) ==
    CASE at \in {"make public", "make private", "write header"} ->
           [at : {at}, passphrase : Passphrase]
      [] at \in {"write public", "write private"} -> [at : {at}, key : Key]
      [] at = "consult index" -> [at : {at}, request : Requests]
      [] at = "load by index" -> [at : {at}, request : Requests, primary : Key]
      [] at = "write ids" -> [at : {at}, entry : PublicEntries, digest : Digest]
      [] at = "read index" -> [at : {at}, new : AnyKeyId]
      [] at = "write index" ->
           [at : {at}, new : AnyKeyId, entries : SUBSET IndexFileEntries]
      [] at = "read private" -> [at : {at}, kid : AnyKeyId, key : Key]
      [] OTHER -> {Idle}

ASSUME NoneAssumption ==
    /\ None # Zero
    /\ None \notin Masters \cup PublicEntries \cup PrivateEntries \cup IndexFiles
    /\ Zero \notin Masters

(* Every file holds a record of its kind, under one of the master keys there *)
(* can be, and every call under way holds what it has read so far.           *)
TypeOK ==
    /\ dirs \subseteq {"public", "private"}
    /\ header \in Masters \cup {None}
    /\ public \in [Key -> PublicEntries \cup {None}]
    /\ private \in [Key -> PrivateEntries \cup {None}]
    /\ altIndex \in IndexFiles \cup {None}
    /\ master \in [Process -> Masters \cup {None, Zero}]
    /\ call = [p \in Process |-> call[p]]
    /\ \A p \in Process : call[p] \in CallsAt(call[p].at)
    /\ misanswered \subseteq AnyKeyId
    /\ blamed \subseteq Key
    /\ disturbed \in BOOLEAN
    /\ damaged \subseteq Key
    /\ faults \in 0..MaxFaults

(* A call made for a KeyId ends with the key the KeyId was computed from or   *)
(* with an error, whatever files are out of place and whoever writes meanwhile. *)
RightKey == misanswered = {}

(* PublicKeyIntegrityError and PrivateKeyUnwrapFailed tell of damage: through   *)
(* an open object no call raises them for a key whose files were left alone.    *)
IntegrityErrorsMeanDamage == blamed \subseteq damaged

(* A directory that open() accepts has both its subdirectories: create() may   *)
(* die anywhere without leaving one whose keys have nowhere to go.             *)
OpenableIsComplete == header # None => dirs = {"public", "private"}

Indexed(kid) ==
    \/ AltIndexEntry(kid, kid.key) \in IndexEntries
    \/ \E p \in Process :
          call[p].at \in {"read index", "write index"} /\ call[p].new = kid

(* The claim of the module's "Avoiding repeat hashing" note: a KeyId that has  *)
(* been computed, and so is cached on its entry, is found through the index,   *)
(* or is about to be.                                                          *)
ComputedIsIndexed ==
    \A k \in Key : public[k] # None =>
        \A kid \in AnyKeyId :
            Lists(public[k], kid) /\ kid.digest # PRIMARY => Indexed(kid)

(* It holds as long as no call dies between the two writes of key_id_for, no   *)
(* two updates race and no file is damaged.                                    *)
ComputedIsIndexedUndisturbed == ~disturbed => ComputedIsIndexed

HalfMade ==
    dirs # {} /\ header = None
    /\ \A p \in Process : call[p].at \notin {"make private", "write header"}

(* What a create() that died leaves behind stays what it is: create() refuses  *)
(* it as not empty and open() as no key directory.                             *)
HalfMadeStays == [][HalfMade => HalfMade']_vars

(* The directory is a KeyRing of what its files hold for an open object. *)
Authentic(k) == public[k] # None /\ Verifies(public[k], header, k)

Held(k) == private[k] # None /\ private[k].keyId = k /\ private[k].master = header

Ring == INSTANCE KeyRing WITH ring <- {k \in Key : Authentic(k)},
                              vault <- {k \in Key : Held(k)}

(* Through every interleaving and crash no key that was added is forgotten,    *)
(* and no private key is stored without its public key.                        *)
RingSpec == Ring!Spec

=============================================================================
