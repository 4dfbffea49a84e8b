---------------------------- MODULE BundleCrypto ----------------------------
(***************************************************************************)
(* The cryptography of UltraLockedFormat, symbolically: Crypto.swift wraps  *)
(* CryptoKit (HKDF-SHA256, AES-256-GCM) and Argon2id.swift wraps            *)
(* argon2id_hash_raw.  Keys are records of what they are derived from, so   *)
(* that two keys are equal exactly when their inputs are.                   *)
(*                                                                         *)
(* A file is a sequence of cells, one cell for one byte (or for one header  *)
(* field).  A byte that AES-GCM produced remembers the box it belongs to    *)
(* and its place in it: a ciphertext opens only when all of its bytes are   *)
(* there, in order, and key, nonce and associated data are those it was     *)
(* sealed with.                                                             *)
(***************************************************************************)
EXTENDS Naturals, Sequences

CONSTANTS TagSize,          \* bytes AES-GCM adds to a plaintext (16)
          EmptyPassphrase   \* the passphrase String.isEmpty accepts

ASSUME TagSizeAssumption == TagSize \in Nat \ {0}

-----------------------------------------------------------------------------
(* Bytes. *)

Num(n)  == [kind |-> "number", value |-> n]   \* an integer field of the header
Rnd(k)  == [kind |-> "random", value |-> k]   \* the k-th draw of Random.bytes
Uuid(i) == [kind |-> "uuid", value |-> i]     \* UUID.rawBytes
Noise   == [kind |-> "noise"]                 \* a byte nobody wrote on purpose

SealedByte(box, i) == [kind |-> "sealed", box |-> box, pos |-> i]

-----------------------------------------------------------------------------
(* Crypto.swift: key derivation and AES-GCM. *)

deriveManifestKey(masterKey) == [info |-> "manifest", master |-> masterKey]

deriveItemKey(masterKey, id) ==
    [info |-> "item", master |-> masterKey, id |-> id]

\* sealGCM: ciphertext || tag as laid out on disk; count is plaintext.count.
Box(key, nonce, plaintext, count, aad) ==
    [key |-> key, nonce |-> nonce, plaintext |-> plaintext,
     count |-> count, aad |-> aad]

sealGCM(key, nonce, plaintext, count, aad) ==
    [i \in 1..(count + TagSize) |->
        SealedByte(Box(key, nonce, plaintext, count, aad), i)]

\* Mutant of openGCM: the tag is not verified.
openUnverified(key, nonce, bytes, aad) ==
    Len(bytes) >= TagSize /\ bytes[1].kind = "sealed"

\* openGCM authenticates: these bytes are a whole box sealed under exactly
\* this key, nonce and associated data.
openGCM(key, nonce, bytes, aad) ==
    /\ Len(bytes) >= TagSize
    /\ bytes[1].kind = "sealed"
    /\ LET box == bytes[1].box IN
         /\ box.key = key
         /\ box.nonce = nonce
         /\ box.aad = aad
         /\ bytes = [i \in 1..(box.count + TagSize) |-> SealedByte(box, i)]

\* ... and then returns the plaintext of that box.
OpenedPlaintext(bytes) == bytes[1].box.plaintext

-----------------------------------------------------------------------------
(* Argon2id.swift: deriveKey. *)

\* validate_inputs of libargon2 refuses a memory cost below 8 blocks a lane;
\* deriveKey refuses an empty passphrase before it calls the library.
deriveKeyAccepts(passphrase, parameters) ==
    /\ passphrase # EmptyPassphrase
    /\ parameters.memoryKiB >= 8 * parameters.parallelism

deriveKey(passphrase, salt, parameters) ==
    [passphrase |-> passphrase, salt |-> salt, parameters |-> parameters]
=============================================================================
