--------------------------- MODULE BundleTransfer ---------------------------
(***************************************************************************)
(* A vault transfer: BundleBuilder on one device collects items and builds  *)
(* bundles, a channel nobody trusts carries a bundle and may damage it, and *)
(* BundleParser on another device opens it, unlocks it with a passphrase    *)
(* and decrypts items.  Each public method of the two classes is one action *)
(* (both are used from one thread); the last one's outcome is in `result'.  *)
(***************************************************************************)
EXTENDS BundleFormat

CONSTANTS Contents,        \* the ItemContent values a vault may export
          Passphrases,     \* the passphrases users type
          ParameterChoices,\* the Argon2idParameters a builder may be given
          FieldValues,     \* the integers damage may leave in a header field
          SpliceLengths,   \* the lengths of runs of bytes damage may copy
          MaxItems, MaxExports, MaxDamage    \* bounds

ASSUME TransferAssumption ==
    /\ \A c \in Contents : c.count \in Nat
    /\ ParameterChoices \subseteq
          [timeCost : Nat, memoryKiB : Nat, parallelism : Nat]
    /\ SpliceLengths \subseteq Nat

VARIABLES
    parameters,      \* BundleBuilder.parameters
    items,           \* BundleBuilder.items
    rnd,             \* draws of Random.bytes so far
    exports,         \* history: every bundle built, with what it was built from
    file,            \* the bytes on their way to the parser
    damage,          \* how often they were damaged
    parser,          \* the BundleParser: its data and header, once it is open
    masterKey,       \* BundleParser.masterKey
    cachedManifest,  \* BundleParser.cachedManifest
    result           \* the outcome of the last call

builderVars == <<parameters, items, rnd, exports>>
channelVars == <<file, damage>>
session     == <<masterKey, cachedManifest>>
vars == <<builderVars, channelVars, parser, session, result>>

\* Optionals of the code: None, or Some(x) with the value x[1].
None    == <<>>
Some(x) == <<x>>

-----------------------------------------------------------------------------
(* Outcomes of calls. *)

NoCall == [call |-> "none", argument |-> None, status |-> "ok", value |-> None]

Outcome(call, argument, status, value) ==
    [call |-> call, argument |-> argument, status |-> status, value |-> value]

-----------------------------------------------------------------------------
(* BundleBuilder. *)

\* Argon2idParameters.init accepts only parameters within the limits.
Init ==
    /\ parameters \in {p \in ParameterChoices : validateArgon2Params(p)}
    /\ items = <<>> /\ rnd = 0 /\ exports = <<>>
    /\ file = <<>> /\ damage = 0
    /\ parser = None /\ masterKey = None /\ cachedManifest = None
    /\ result = NoCall

\* The bounds: nothing is added that no bundle will hold ...
add(item) ==
    /\ Len(items) < MaxItems /\ Len(exports) < MaxExports
    /\ items' = Append(items, item)
    /\ result' = NoCall
    /\ UNCHANGED <<parameters, rnd, exports, channelVars, parser, session>>

\* build draws the salt, the manifest nonce and one nonce for every item.
Salt          == Rnd(rnd + 1)
ManifestNonce == Rnd(rnd + 2)

\* Mutant of ItemNonce: one nonce for the whole bundle.
SharedNonce(i) == Rnd(rnd + 2)

ItemNonce(i) == Rnd(rnd + 2 + i)

Key(passphrase) == deriveKey(passphrase, Salt, parameters)

StagedManifest ==
    Manifest([i \in DOMAIN items |-> ItemDescriptor(items[i], ItemNonce(i))])

ManifestCiphertextSize == encodedSize(StagedManifest) + TagSize

StagedHeader ==
    BundleHeader(parameters, Salt, ManifestNonce, ManifestCiphertextSize)

SealedItem(passphrase, i) ==
    encryptItem(items[i], Key(passphrase), ItemNonce(i),
                serialize(StagedHeader))

BundleStart(i) == HeaderSize + ManifestCiphertextSize
                    + RecordBytes(StagedManifest.items, i - 1)

BundleSize == BundleStart(Len(items) + 1)

\* [header][manifest][record 1][record 2]...: behind the manifest, byte k
\* belongs to the record whose bytes it lies among.
BundleData(passphrase) ==
    LET header   == serialize(StagedHeader)
        manifest == encryptManifest(StagedManifest, Key(passphrase),
                                    ManifestNonce, header)
        item(k)  == CHOOSE i \in DOMAIN items :
                       BundleStart(i) < k /\ k <= BundleStart(i + 1)
    IN [k \in 1..BundleSize |->
          IF k <= HeaderSize THEN header[k]
          ELSE IF k <= HeaderSize + ManifestCiphertextSize
            THEN manifest[k - HeaderSize]
          ELSE SealedItem(passphrase, item(k))[k - BundleStart(item(k))]]

\* The checks of build, in the order of the code; the total size is checked
\* after everything is encrypted.  Item ids are not compared.
buildAccepts(passphrase) ==
    /\ deriveKeyAccepts(passphrase, parameters)
    /\ \A i \in DOMAIN items : validateDescriptor(StagedManifest.items[i])
    /\ validateManifestSize(ManifestCiphertextSize)
    /\ validateTotalFileSize(BundleSize)

Export(passphrase) ==
    [data |-> BundleData(passphrase), passphrase |-> passphrase,
     key |-> Key(passphrase), header |-> StagedHeader,
     manifest |-> StagedManifest, items |-> items]

build(passphrase) ==
    /\ buildAccepts(passphrase)
    /\ Len(exports) < MaxExports
    /\ exports' = Append(exports, Export(passphrase))
    /\ rnd' = rnd + 2 + Len(items)
    /\ result' = Outcome("build", Some(passphrase), "ok", None)
    /\ UNCHANGED <<parameters, items, channelVars, parser, session>>

\* build throws: every intermediate value is local and is dropped.  What was
\* drawn is dropped with it, so the draws need not be counted.
buildThrows(passphrase) ==
    /\ ~buildAccepts(passphrase)
    /\ Len(exports) < MaxExports
    /\ result' = Outcome("build", Some(passphrase),
                         IF deriveKeyAccepts(passphrase, parameters)
                         THEN "outsideLimits" ELSE "keyDerivation", None)
    /\ UNCHANGED <<builderVars, channelVars, parser, session>>

-----------------------------------------------------------------------------
(* The channel.  An open parser keeps its own copy of the bytes, so what    *)
(* happens to the file afterwards does not matter to it.  ... and a bundle  *)
(* is sent when the last one is built: the devices share nothing else, so   *)
(* an earlier start shows no more.                                          *)

Send(e) ==
    /\ parser = None /\ Len(exports) = MaxExports
    /\ file' = exports[e].data
    /\ damage' = 0
    /\ result' = NoCall
    /\ UNCHANGED <<builderVars, parser, session>>

Damaged(f) ==
    /\ parser = None /\ file # <<>> /\ damage < MaxDamage
    /\ file' = f
    /\ damage' = damage + 1
    /\ result' = NoCall
    /\ UNCHANGED <<builderVars, parser, session>>

\* One byte is lost to noise, or a header field changes its value.
Corrupt(i)        == Damaged([file EXCEPT ![i] = Noise])
ChangeField(i, n) == Damaged([file EXCEPT ![i] = Num(n)])

Truncate(n) == Damaged(SubSeq(file, 1, n))
Extend(e)   == Damaged(file \o exports[e].data)

\* n bytes of a bundle, from j on, end up at i.
Splice(e, i, j, n) ==
    /\ i + n - 1 <= Len(file)
    /\ j + n - 1 <= Len(exports[e].data)
    /\ Damaged([k \in 1..Len(file) |->
                  IF k \in i..(i + n - 1) THEN exports[e].data[j + k - i]
                                          ELSE file[k]])

\* n bytes of the file change places with n others: two records, perhaps.
Swap(i, j, n) ==
    /\ i + n <= j /\ j + n - 1 <= Len(file)
    /\ Damaged([k \in 1..Len(file) |->
                  IF k \in i..(i + n - 1) THEN file[j + k - i]
                  ELSE IF k \in j..(j + n - 1) THEN file[i + k - j]
                  ELSE file[k]])

Damage ==
    \/ \E i, j \in 1..Len(file), n \in SpliceLengths : Swap(i, j, n)
    \/ \E i \in 1..Len(file) : Corrupt(i)
    \/ \E i \in 1..Len(file), n \in FieldValues : i <= HeaderSize /\ ChangeField(i, n)
    \/ \E n \in 0..Len(file) : Truncate(n)
    \/ \E e \in DOMAIN exports :
          \/ Extend(e)
          \/ \E i \in 1..Len(file), j \in 1..Len(exports[e].data),
                n \in SpliceLengths : Splice(e, i, j, n)

-----------------------------------------------------------------------------
(* BundleParser. *)

Data          == parser[1].data
Header        == parser[1].header
headerBytes   == SubSeq(Data, 1, HeaderSize)
manifestEnd   == HeaderSize + Header.manifestSize
manifestBytes == SubSeq(Data, HeaderSize + 1, manifestEnd)

\* Mutant of openAccepts: the manifest section need not fit.
openAcceptsShort == validateTotalFileSize(Len(file)) /\ parseAccepts(file)

\* init: total size, header, and the manifest section must fit.
openAccepts ==
    /\ validateTotalFileSize(Len(file))
    /\ parseAccepts(file)
    /\ Len(file) >= HeaderSize + ParsedHeader(file).manifestSize

open ==
    /\ parser = None
    /\ parser' = IF openAccepts
                 THEN Some([data |-> file, header |-> ParsedHeader(file)])
                 ELSE None
    /\ result' = Outcome("open", None,
                         IF openAccepts THEN "ok" ELSE "malformed", None)
    /\ UNCHANGED <<builderVars, channelVars, session>>

\* Mutant of UnlockStatus: the records need not fit behind the manifest.
UnlockStatusNoBudget(passphrase) ==
    LET key == deriveKey(passphrase, Header.salt, Header.parameters)
    IN IF ~ deriveKeyAccepts(passphrase, Header.parameters)
         THEN "keyDerivation"
       ELSE IF ~ decryptManifestAccepts(manifestBytes, key,
                                        Header.manifestNonce, headerBytes)
         THEN "decryptionFailed"
       ELSE IF ~ validateManifest(OpenedPlaintext(manifestBytes))
         THEN "manifestParseFailed"
       ELSE "ok"

\* unlockWithKey: the manifest section opens under the derived key, the
\* manifest is valid and its records fit behind it.
UnlockStatus(passphrase) ==
    LET key == deriveKey(passphrase, Header.salt, Header.parameters)
        manifest == OpenedPlaintext(manifestBytes)
    IN IF ~ deriveKeyAccepts(passphrase, Header.parameters)
         THEN "keyDerivation"
       ELSE IF ~ decryptManifestAccepts(manifestBytes, key,
                                        Header.manifestNonce, headerBytes)
         THEN "decryptionFailed"
       ELSE IF ~ validateManifest(manifest) THEN "manifestParseFailed"
       ELSE IF RecordBytes(manifest.items, Len(manifest.items))
                  > Len(Data) - manifestEnd
         THEN "manifestParseFailed"
       ELSE "ok"

\* Mutant of unlock: a failed unlock drops the key.
unlockDropsSession(passphrase) ==
    /\ parser # None
    /\ IF UnlockStatus(passphrase) = "ok"
       THEN /\ masterKey' = Some(deriveKey(passphrase, Header.salt,
                                           Header.parameters))
            /\ cachedManifest' = Some(OpenedPlaintext(manifestBytes))
       ELSE masterKey' = None /\ cachedManifest' = None
    /\ result' = Outcome("unlock", Some(passphrase),
                         UnlockStatus(passphrase), None)
    /\ UNCHANGED <<builderVars, channelVars, parser>>

\* A call that throws leaves an earlier session as it was.
unlock(passphrase) ==
    /\ parser # None
    /\ IF UnlockStatus(passphrase) = "ok"
       THEN /\ masterKey' = Some(deriveKey(passphrase, Header.salt,
                                           Header.parameters))
            /\ cachedManifest' = Some(OpenedPlaintext(manifestBytes))
       ELSE UNCHANGED session
    /\ result' = Outcome("unlock", Some(passphrase),
                         UnlockStatus(passphrase), None)
    /\ UNCHANGED <<builderVars, channelVars, parser>>

\* argon2id_hash_raw may fail for want of memory or threads.
unlockOutOfResources(passphrase) ==
    /\ parser # None
    /\ deriveKeyAccepts(passphrase, Header.parameters)
    /\ result' = Outcome("unlock", Some(passphrase), "outOfResources", None)
    /\ UNCHANGED <<builderVars, channelVars, parser, session>>

\* decrypt uses of its argument the id only; size, nonce and place come from
\* the descriptor of the unlocked manifest.
Entries(d) == {i \in DOMAIN cachedManifest[1].items :
                  cachedManifest[1].items[i].id = d.id}

firstIndex(d) == CHOOSE i \in Entries(d) : \A j \in Entries(d) : i <= j

\* Mutant of RecordStart: the record's own size is counted as well.
RecordStartLate(i) == manifestEnd + RecordBytes(cachedManifest[1].items, i)

RecordStart(i) == manifestEnd + RecordBytes(cachedManifest[1].items, i - 1)
RecordEnd(i)   == RecordStart(i) + cachedManifest[1].items[i].itemSize
Record(i)      == SubSeq(Data, RecordStart(i) + 1, RecordEnd(i))

DecryptStatus(d) ==
    IF masterKey = None \/ cachedManifest = None THEN "locked"
    ELSE IF Entries(d) = {} THEN "unknownItem"
    ELSE IF Len(Data) < RecordEnd(firstIndex(d)) THEN "truncated"
    ELSE IF ~ decryptItemAccepts(
                  Record(firstIndex(d)), masterKey[1], d.id,
                  cachedManifest[1].items[firstIndex(d)].itemNonce, headerBytes)
      THEN "decryptionFailed"
    ELSE "ok"

decrypt(d) ==
    /\ parser # None
    /\ result' = Outcome("decrypt", Some(d), DecryptStatus(d),
                         IF DecryptStatus(d) = "ok"
                         THEN Some(OpenedPlaintext(Record(firstIndex(d))))
                         ELSE None)
    /\ UNCHANGED <<builderVars, channelVars, parser, session>>

\* Mutant of lock: only the manifest is dropped.
lockKeepsKey ==
    /\ parser # None
    /\ cachedManifest' = None
    /\ result' = Outcome("lock", None, "ok", None)
    /\ UNCHANGED <<builderVars, channelVars, parser, masterKey>>

lock ==
    /\ parser # None
    /\ masterKey' = None /\ cachedManifest' = None
    /\ result' = Outcome("lock", None, "ok", None)
    /\ UNCHANGED <<builderVars, channelVars, parser>>

-----------------------------------------------------------------------------
\* The descriptors a caller may hold: those of every bundle ever built, of
\* this one or another.
KnownDescriptors ==
    UNION {{exports[e].manifest.items[i] : i \in DOMAIN exports[e].items} :
              e \in DOMAIN exports}

Next ==
    \/ \E item \in Contents : add(item)
    \/ \E p \in Passphrases : build(p) \/ buildThrows(p)
    \/ \E e \in DOMAIN exports : Send(e)
    \/ Damage
    \/ open
    \/ \E p \in Passphrases : unlock(p) \/ unlockOutOfResources(p)
    \/ \E d \in KnownDescriptors : decrypt(d)
    \/ lock

Spec == Init /\ [][Next]_vars

-----------------------------------------------------------------------------
(* Properties. *)

\* Types, with the limits an accepted header and manifest respect.
TypeOK ==
    /\ validateArgon2Params(parameters)
    /\ items \in Seq(Contents)
    /\ rnd \in Nat /\ damage \in Nat
    /\ \A e \in DOMAIN exports : exports[e].items \in Seq(Contents)
    /\ parser # None =>
         /\ validateArgon2Params(Header.parameters)
         /\ validateManifestSize(Header.manifestSize)
         /\ manifestEnd <= Len(Data)
         /\ validateTotalFileSize(Len(Data))
    /\ masterKey = None <=> cachedManifest = None

\* The open data begins, header and manifest section, as bundle e does.
SameFront(e) ==
    /\ manifestEnd <= Len(exports[e].data)
    /\ SubSeq(exports[e].data, 1, manifestEnd) = SubSeq(Data, 1, manifestEnd)

DistinctIds(e) ==
    \A i, j \in DOMAIN exports[e].items :
        exports[e].items[i].id = exports[e].items[j].id => i = j

Undamaged(e) == parser # None /\ Data = exports[e].data

\* Whatever the channel did, a manifest that unlock accepted is the manifest of
\* a bundle that was built, not one byte of its header and manifest section has
\* changed since, and the key is the one it was built with.
UnlockedManifestWasExported ==
    cachedManifest # None =>
        \E e \in DOMAIN exports :
            /\ SameFront(e)
            /\ cachedManifest[1] = exports[e].manifest
            /\ masterKey[1] = exports[e].key

\* Whatever the channel did, what decrypt returns for an id is the plaintext
\* of an item with that id in the export whose manifest is unlocked: records
\* cannot be swapped between entries or taken from another bundle.
DeliveredItemWasExported ==
    (result.call = "decrypt" /\ result.status = "ok") =>
        \E e \in DOMAIN exports :
            /\ SameFront(e)
            /\ cachedManifest[1] = exports[e].manifest
            /\ \E i \in DOMAIN exports[e].items :
                 /\ exports[e].items[i].id = result.argument[1].id
                 /\ exports[e].items[i].plaintext = result.value[1]

\* A bundle that arrives as it was built unlocks with its passphrase, unless
\* its ids repeat or Argon2 runs out of resources, and then delivers each item.
UndamagedBundleDelivers ==
    \A e \in DOMAIN exports :
        Undamaged(e) /\ DistinctIds(e) =>
            /\ (/\ result.call = "unlock"
                /\ result.argument[1] = exports[e].passphrase)
                    => result.status \in {"ok", "outOfResources"}
            /\ \A i \in DOMAIN exports[e].items :
                 (/\ result.call = "decrypt"
                  /\ result.argument[1].id = exports[e].items[i].id
                  /\ cachedManifest # None)
                      => /\ result.status = "ok"
                         /\ result.value[1] = exports[e].items[i].plaintext

\* Once a manifest is unlocked its records lie inside the data, one behind the
\* other, so decrypt never finds the data truncated.
RecordsInsideData ==
    cachedManifest # None =>
        \A i \in DOMAIN cachedManifest[1].items :
            /\ RecordEnd(i) <= Len(Data)
            /\ i > 1 => RecordStart(i) = RecordEnd(i - 1)

\* No key ever seals two different plaintexts under one nonce.
Boxes(e) == {exports[e].data[k].box :
                k \in {k \in DOMAIN exports[e].data :
                          exports[e].data[k].kind = "sealed"}}

NonceUsedOnce ==
    \A e, f \in DOMAIN exports :
        \A b \in Boxes(e), c \in Boxes(f) :
            b.key = c.key /\ b.nonce = c.nonce => b = c

\* A session begins only with a successful unlock and ends only with lock: a
\* failed unlock, a decrypt or anything else leaves it alone.
SessionStep ==
    \/ UNCHANGED session
    \/ result'.call = "unlock" /\ result'.status = "ok" /\ masterKey' # None
    \/ result'.call = "lock" /\ masterKey' = None

SessionChangesOnlyByUnlockAndLock == [][SessionStep]_vars

\* BundleTransfer seen from the vaults: what was built from which items, the
\* bundle the session belongs to, and what the last call returned.
BuiltBundles ==
    [e \in DOMAIN exports |->
        [passphrase |-> exports[e].passphrase,
         items |-> {exports[e].items[i] : i \in DOMAIN exports[e].items}]]

UnlockedBundles ==
    {e \in DOMAIN exports : masterKey # None /\ exports[e].key = masterKey[1]}

VaultOutcome ==
    IF result.status # "ok" THEN [did |-> "nothing"]
    ELSE IF result.call = "unlock"
      THEN [did |-> "unlock", passphrase |-> result.argument[1]]
    ELSE IF result.call = "decrypt"
      THEN [did |-> "decrypt", id |-> result.argument[1].id, plaintext |-> result.value[1]]
    ELSE IF result.call = "lock" THEN [did |-> "lock"]
    ELSE [did |-> "nothing"]

Vault == INSTANCE VaultTransfer
            WITH Items <- Contents, built <- BuiltBundles,
                 unlocked <- UnlockedBundles, outcome <- VaultOutcome

\* Builder, channel and parser together keep the promise of VaultTransfer: a
\* passphrase unlocks its own bundle only, nothing but an item of the unlocked
\* bundle is delivered, and a refused call changes nothing, whatever the channel
\* does to the bytes.
VaultImplemented == Vault!Spec

\* docs/vault-format.md:3: a bundle is built to be imported again.  Its
\* passphrase unlocks every undamaged bundle, short of resources.
EveryExportOpens ==
    \A e \in DOMAIN exports :
        (/\ Undamaged(e)
         /\ result.call = "unlock"
         /\ result.argument[1] = exports[e].passphrase)
            => result.status \in {"ok", "outOfResources"}

\* docs/vault-format.md:64-65: memory_kib 8...262144 and parallelism 1...8 are
\* parameters of the format.  A key can be derived with accepted parameters.
AcceptedParametersDerive ==
    (/\ result.call = "build"
     /\ result.argument[1] # EmptyPassphrase)
        => result.status # "keyDerivation"
=============================================================================
