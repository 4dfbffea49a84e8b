---------------------------- MODULE BundleFormat ----------------------------
(***************************************************************************)
(* The .ultralocked format: limits, public header, item descriptors,        *)
(* manifest and item records (BundleLimits, BundleHeader, Manifest and      *)
(* ItemRecord of UltraLockedFormat).  Each header field is one cell of the  *)
(* file, in the order of the layout, so a header is HeaderSize = 10 cells   *)
(* instead of 96 bytes.  The size limits are constants, to be scaled down;  *)
(* the limits of the Argon2 parameters have the values of the code.         *)
(***************************************************************************)
EXTENDS BundleCrypto, FiniteSets

CONSTANTS manifestSizeMax,     \* 1 MiB
          itemSizeMax,         \* 250 MiB
          totalFileSizeMax,    \* 2 GiB
          EnvelopeSize,        \* bytes of the JSON of a manifest without items
          DescriptorSize       \* bytes of the JSON of one descriptor

ASSUME LimitsAssumption ==
    /\ manifestSizeMax \in Nat /\ itemSizeMax \in Nat
    /\ totalFileSizeMax \in Nat
    /\ EnvelopeSize \in Nat /\ DescriptorSize \in Nat

-----------------------------------------------------------------------------
(* BundleLimits. *)

manifestSizeMin == TagSize
itemSizeMin     == TagSize

validateArgon2Params(p) ==
    /\ p.timeCost    \in 1..10
    /\ p.memoryKiB   \in 8..262144
    /\ p.parallelism \in 1..8

validateManifestSize(n)  == n \in manifestSizeMin..manifestSizeMax
validateItemSize(n)      == n \in itemSizeMin..itemSizeMax
validateTotalFileSize(n) == n <= totalFileSizeMax

-----------------------------------------------------------------------------
(* BundleHeader. *)

HeaderSize == 10
Magic      == 85             \* "ULOCKED1"

BundleHeader(parameters, salt, manifestNonce, manifestSize) ==
    [parameters |-> parameters, salt |-> salt,
     manifestNonce |-> manifestNonce, manifestSize |-> manifestSize]

serialize(h) ==
    << Num(Magic), Num(1), Num(1),
       Num(h.parameters.timeCost), Num(h.parameters.memoryKiB),
       Num(h.parameters.parallelism),
       h.salt, h.manifestNonce, Num(h.manifestSize), Num(0) >>

ParsedHeader(b) ==
    BundleHeader([timeCost |-> b[4].value, memoryKiB |-> b[5].value,
                  parallelism |-> b[6].value],
                 b[7], b[8], b[9].value)

\* BundleHeader.parse with the checks of BundleHeader.init: length, magic,
\* reserved bytes, version, KDF id, Argon2 limits, manifest size limits.
parseAccepts(b) ==
    /\ Len(b) >= HeaderSize
    /\ b[1] = Num(Magic)
    /\ b[10] = Num(0)
    /\ b[2] = Num(1)
    /\ b[3] = Num(1)
    /\ \A i \in {4, 5, 6, 9} : b[i].kind = "number"
    /\ validateArgon2Params(ParsedHeader(b).parameters)
    /\ validateManifestSize(ParsedHeader(b).manifestSize)

-----------------------------------------------------------------------------
(* ItemDescriptor and Manifest.  A TTL field is modelled by its presence.   *)
(* The JSON coding keeps every field kept here, so a manifest stands for    *)
(* its own JSON; only the length of the JSON is computed.                   *)

ItemDescriptor(item, nonce) ==
    [id |-> item.id, ttlSeconds |-> item.ttlSeconds,
     ttlOriginEpoch |-> item.ttlOriginEpoch,
     itemNonce |-> nonce, itemSize |-> item.count + TagSize]

\* ItemDescriptor.init and validate: size limits, both TTL fields or neither.
validateDescriptor(d) ==
    /\ validateItemSize(d.itemSize)
    /\ d.ttlSeconds = d.ttlOriginEpoch

Manifest(items) == [schemaVersion |-> 1, items |-> items]

encodedSize(manifest) == EnvelopeSize + Len(manifest.items) * DescriptorSize

validateManifest(manifest) ==
    /\ manifest.schemaVersion = 1
    /\ \A i \in DOMAIN manifest.items : validateDescriptor(manifest.items[i])
    /\ \A i, j \in DOMAIN manifest.items :
          manifest.items[i].id = manifest.items[j].id => i = j

\* The bytes of the first n records: the sum of their itemSize, as the number
\* of (item, byte) pairs they hold.  Every itemSize is at most itemSizeMax
\* wherever the code takes this sum.
RecordBytes(items, n) ==
    Cardinality({ib \in (1..n) \X (1..itemSizeMax) :
                    ib[2] <= items[ib[1]].itemSize})

-----------------------------------------------------------------------------
(* ItemRecord. *)

ItemAAD(headerBytes, id) == Append(headerBytes, Uuid(id))

encryptItem(item, masterKey, nonce, headerBytes) ==
    sealGCM(deriveItemKey(masterKey, item.id), nonce, item.plaintext,
            item.count, ItemAAD(headerBytes, item.id))

\* Mutant of decryptItemAccepts: the tag of the record is not verified.
decryptItemUnverified(record, masterKey, id, nonce, headerBytes) ==
    openUnverified(deriveItemKey(masterKey, id), nonce, record,
                   ItemAAD(headerBytes, id))

decryptItemAccepts(record, masterKey, id, nonce, headerBytes) ==
    openGCM(deriveItemKey(masterKey, id), nonce, record,
            ItemAAD(headerBytes, id))

\* Manifest.encrypt: the JSON under the manifest key, the header as AAD.
encryptManifest(manifest, masterKey, nonce, headerBytes) ==
    sealGCM(deriveManifestKey(masterKey), nonce, manifest,
            encodedSize(manifest), headerBytes)

decryptManifestAccepts(bytes, masterKey, nonce, headerBytes) ==
    openGCM(deriveManifestKey(masterKey), nonce, bytes, headerBytes)
=============================================================================
