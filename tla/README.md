# UltraLocked security-core in TLA+

The repository defines the `.ultralocked` bundle, the file that carries vault
items from one device to another, and the library that writes and reads it:
eleven Swift files (`src/Sources/UltraLockedFormat`) over CryptoKit and a copy
of the C reference implementation of Argon2 (`src/Sources/CArgon2`).  This
directory models what has state, order, failure or concurrency in it,
model-checks it with TLC and proves the main results with TLAPS.

## Inventory

| Component | State | Operations | Correct when |
|---|---|---|---|
| `BundleBuilder` | parameters, items | `init`, `add`, `build` | what it builds can be opened again; no key meets a nonce twice, over any number of builds |
| `BundleParser` | data, header, master key, manifest | `init`, `unlock`, `decrypt`, `lock` | whatever happened to the file, only manifests and items that were exported come out; a call that throws changes nothing |
| Bundle format (`BundleHeader`, `Manifest`, `ItemRecord`, `BundleLimits`) | none | serialize, parse, validate, encrypt, decrypt | both sides accept the same files; records lie inside the file |
| Crypto wrappers (`Crypto`, `Random`, `Argon2id`) | none | derive, seal, open | a box opens only whole, under its own key, nonce and associated data |
| Argon2 context (`argon2_ctx`) | `instance`: the matrix, its dimensions | initialize, fill, finalize | it returns; the tag is made of a complete matrix; the memory is wiped |
| Argon2 filling (`core.c`, `ref.c`) | matrix, `thread[]`, `thr_data[]` | `fill_memory_blocks`, `fill_segment`, `index_alpha` | no data race; the key does not depend on the schedule |
| Thread wrapper (`thread.c`) | the threads | create, join, exit | each thread is joined once |
| BLAKE2b (`blake2/`) | chaining value, buffer, counter | init, update, final, `blake2b_long` | the digest does not depend on how the input is cut up |
| Encoding (`encoding.c`) | none | PHC strings, base64, decimals | one string for one hash; no write past a buffer |
| Argon2 public API (`argon2.c`) | none | `argon2_hash`, `argon2_verify` | verify accepts what hash produced |

How they interact.  A `BundleBuilder` draws salt and nonces, derives the master
key with Argon2id, seals the manifest with the header as associated data and
each item with header and item id, and lays the pieces out in one file.  The
file travels through an app, a mail, a cable: through a channel nobody trusts.
A `BundleParser` keeps the bytes and the parsed header; `unlock` derives the key
from header and passphrase, opens the manifest and checks that the records it
lists fit behind it; `decrypt` finds a record by summing up sizes.  Both sides
call `argon2id_hash_raw`, a wrapper of `argon2_hash`, which copies its arguments into
a context and runs `argon2_ctx`: it checks the context, fills a matrix of blocks
slice by slice, with one thread for each lane, threads that share the matrix
without locks and meet only where they are created and joined.  The library
offers more than the Swift package calls: hashes as text, `argon2_verify`, and
contexts that the caller fills in, with allocators of its own.

What is hard here: a file damaged at any place, or put together from several
bundles under one passphrase; sequences of calls with failures in between
(a second `unlock` with a wrong passphrase, a descriptor kept from another
bundle, several builds of one builder); limits that two sides check
separately; threads that read blocks other threads wrote; `thr_data[l]`
reused for the next slice; a thread or an allocation that fails halfway, with
buffers to be wiped and freed on each way out; unsigned arithmetic that wraps
around in `index_alpha` and where the size of the matrix is computed; a textual
form that must be unique and fit its buffers.  `PROJECT.json` lists
each hazard with its line and the properties that cover it.

## Modules

    BundleCrypto  <-  BundleFormat  <-  BundleTransfer  <-  MCBundleTransfer
                                              ^
                              BundleTransfer_proofs <- VaultTransfer_proofs

    VaultTransfer (implemented by BundleTransfer)

    Argon2Index  <-  Argon2  <-  MCArgon2        SegmentOrder (implemented by Argon2)
                        ^
                  Argon2_proofs

    Argon2Context  <-  Encoding  <-  EncodedHash  <-  MCEncodedHash
                          ^
                   Encoding_proofs
                          ^
                   Decoding_proofs  <-  EncodedHash_proofs -> EncodedHash
                          ^
                   Argon2Api_proofs -> Argon2Api  <-  MCArgon2Api

    (Argon2Api extends Encoding)

    Blake2b  <-  Blake2b_proofs

**BundleCrypto** models `Crypto.swift`, `Random.swift` and `Argon2id.swift`
symbolically.  A key is the record of what it was derived from; a file is a
sequence of cells, and a cell that AES-GCM produced remembers its box and its
place in it.  `openGCM` accepts exactly the cells of one whole box, in order,
under the key, nonce and associated data the box was sealed with.  This is the
cryptographic assumption of the bundle modules.

**BundleFormat** has the limits, the header, the descriptors, the manifest and
the records.  A header field is one cell, so a header has 10 cells where the
code has 96 bytes; bodies of manifest and records keep their sizes.  The JSON
of a manifest is the manifest itself with a length that grows with its items:
the coding loses no field kept here.  A TTL field is modelled by its presence.

**BundleTransfer** is the system: every public method of the two classes is one
action with all its checks in the order of the code (`add`, `build`,
`buildThrows`, `open`, `unlock`, `unlockOutOfResources`, `decrypt`, `lock`), and
the actions `Send`, `Corrupt`, `ChangeField`, `Truncate`, `Extend`, `Splice` and
`Swap` are the channel.  `exports` is a history of what was built from what;
`result` is the outcome of the last call.  `None` and `Some` are the optionals of
the code.

**VaultTransfer** is the abstract specification of a transfer: bundles are built of
items under a passphrase, one of them may be unlocked, items of the unlocked one
are delivered, and any call may be refused and then changes nothing.  There are
no bytes, keys, nonces or channel in it.  `BundleTransfer` implements it under a
mapping that reads the unlocked bundle off the master key (`UnlockedBundles`).

**Argon2Index** has `fill_segment`'s offsets and `index_alpha`, in arithmetic
modulo the word size.

**Argon2** is `argon2_ctx` behind its input checks, thread by thread; what comes
before and after the filling, on every kind of context, is in `Argon2Api`.  `pc`, `at` and `joining` are
where the main thread is; `handle`, `thr_data` and `joined` are the arrays of
`fill_memory_blocks_mt` and what the system knows of the handles; `threads` has
one entry for each thread that is ever created, named after the segment it is
created for (a segment filled by the main thread, in the single-threaded
version, has an entry too).  A thread makes a block in two steps, `beginBlock`
(choose and read) and `endBlock` (write): between them it is reading three
blocks and writing one, and that is where a race would be.  Of a block the
model keeps how often it was written, which is what tells a fresh block from a
stale one.  `pthread_create` may fail, the allocations may fail; joining a
thread that was joined is undefined in POSIX, and the model lets it return.

**SegmentOrder** is the abstract specification: segments of a slice side by side
in any order, none before the slices before it are complete, each once.

**Blake2b** is one `blake2b_state` and its callers: `blake2b_init`,
`blake2b_init_key`, `blake2b_update` with parts of any length, `blake2b_final`, and
`blake2b_long` on a state of its own.  `S` has the buffer, the two-word counter
and the length of the code; in place of the eight chaining words it has the
history of the compressed blocks with the counter and flag each was compressed
with, so that two digests are equal exactly when the same was compressed.  A
byte of a message is its position, a byte of a key its negative, a byte of a
digest the digest and the position.  The reference it is checked against is the
specification's (RFC 7693, RFC 9106), which cuts the whole message into blocks.

**Argon2Context** is the record `argon2_context` and what the library computes of it:
`validate_inputs`, check by check in the order of the code (`FirstError`), the
dimensions of the matrix and its size in bytes, in words that wrap around, and
the inputs of the first hash with the wiping of password and secret.  A buffer
is a value and a length; the first bytes of it are that value with that length.

**Encoding** is `encoding.c`: base64 bit by bit, decimals, the string with its optional
version.  A string is a sequence of characters ("argon2" counts as one).  The
macros of the code that return from `decode_string` in the middle are functions of a
parse, applied one after the other until one fails; those of `encode_string` are
one function `Put`, which keeps the room that is left.

**EncodedHash** is a hash on its way as text: `Encode` into a buffer of some size, `Alter`
(a character inserted or exchanged, or any part cut out), `Decode` as some type with
buffers of some size.  The decoder starts from `Buffers`, a context in which nothing
that it has to fill in would pass `validate_inputs`, and whose flags ask for password and
secret to be cleared: a field the decoder forgets shows.

**Argon2Api** is the calls of the library from outside, one after the other.  `pc` is
where a call is: `argon2_ctx` (`validate`, `initialize`, `fill`, `finalize`) is called by
`argon2_hash`, by `argon2_verify` and by a caller with a context of its own, and returns
to the one that called it (`hashReturns`, `verifyCompares`, `ctxReturns`).  `heap` follows
each object a call allocates, `out` and `desired` are the pointers `ctx.out` and
`desired_result`, and `tagged` is the set of objects that hold something made from the
password.  Hashing is ideal: `hashed` is the list of all inputs hashed so far, and
a tag is the place of its input in it, so that equal tags are of equal inputs.
This is the second cryptographic assumption.  Filling is one step here, which
fails only when there is more than one thread.  The context of `argon2_verify` is not
initialized in the code (argon2.c:252); `VerifyContext` starts from fields that
`validate_inputs` would refuse and flags that ask for password and secret to be cleared.
A numeric field or callback that `decode_string` forgets so shows in `VerifyAcceptsMade`; the
flags, which act when the password is already hashed, in `DecodesWhatWasEncoded`.

## Runs

| Run | What it shows | Bounds, and why they do |
|---|---|---|
| `round_trip` | what arrives as built unlocks and delivers every item (`UndamagedBundleDelivers`); no key seals two plaintexts under one nonce (`NonceUsedOnce`); a session begins with a successful unlock and ends with lock, and a call that throws leaves it alone (`SessionChangesOnlyByUnlockAndLock`) | five contents (empty, full, one byte too large, half a TTL, a repeated id), up to 3 items, 2 bundles with `add` in between, 3 passphrases, 4 parameter choices; every limit is reached by one bundle and exceeded by another |
| `damage` | only exported manifests unlock, only exported items are delivered, records lie inside the data (`UnlockedManifestWasExported`, `DeliveredItemWasExported`, `RecordsInsideData`, `TypeOK`); builder, channel and parser together implement `VaultTransfer` (`VaultImplemented`) | two bundles under one passphrase and two records of equal size, so that records can change places inside a bundle and between bundles; one damage of any kind at any place.  Any number of damages is covered by the proofs |
| `duplicate_ids` | violation: a builder given one id twice builds a bundle no unlock accepts (`EveryExportOpens`) | as `round_trip` |
| `kdf_limits` | violation: 8 KiB with 2 lanes is inside the documented limits and no key can be derived (`AcceptedParametersDerive`) | as `round_trip` |
| `argon2_app` | as the Swift code calls it, threads = lanes, with memory and threads running out at any moment: inputs are not mixed up, no thread outlives the call, each thread is joined once, segments are filled in an order of `SegmentOrder`, and the call returns | 3 lanes, 2 passes (the second overwrites with XOR, the first does not), the smallest segment of 2 blocks; one pseudo-random word, as these properties do not depend on it |
| `argon2_few_threads` | fewer threads than lanes: no data race, every block read is the one a single thread would have read, the tag is made of a full matrix, and never more threads than allowed | 3 lanes, 2 threads, so that joins to make room happen and a thread of one lane runs with those of both others; segments of 3 blocks, so that a segment has a block that is neither first nor second; every word of 6 bits, so that every reachable reference is tried |
| `argon2_single` | the single-threaded version, every word: `index_alpha` refers to finished blocks only, never to the one just before | as above with 1 thread |
| `argon2_double_join` | violation: with fewer threads than lanes a failed creation joins a thread twice (`JoinsEachThreadOnce`) | 3 lanes, 2 threads, 1 pass |
| `argon2_wiped` | violation: when filling fails the matrix is neither wiped nor freed (`InternalMemoryWiped`) | 2 lanes, 1 pass |
| `blake2b` | a digest depends on the bytes fed, not on the parts they came in; `blake2b_long` makes the chain of RFC 9106 for every length; a state that is finished or invalid holds nothing and takes nothing (`DigestOfWholeMessage`, `LongDigestIsReference`, `NothingLeftBehind`, `TypeOK`) | blocks of 5 bytes, digests of up to 4, keys of up to 3; messages of up to 18 bytes, so that a message has up to 4 blocks and ends before, at and behind the end of one; a counter word of 3 bits, so that the carry happens; long digests of up to 13 bytes, so that the chain has up to 5 links and both parities |
| `encoded_hash` | hashes of every shape are encoded into buffers of every length and decoded as they were, as their own type only (`EncodesIntoBuffer`, `DecodesWhatWasEncoded`); a string altered anywhere is either refused or the one encoding of another hash (`OneEncodingPerHash`); the decoder stays inside its buffers (`DecodesIntoBuffers`) | six contexts: every remainder of a length by 3, numbers of one to three digits, the largest parameters, and two that `validate_inputs` refuses; buffers from nothing up to `argon2_encodedlen`; one alteration at any place, with characters that are a digit, a leading zero, base64, a separator, or the end of a type |
| `argon2_api` | `argon2_verify` accepts what `argon2_hash` made, and nothing altered, nothing under another password or type (`VerifyAcceptsMade`, `VerifyAcceptsOnlyMade`); no argument is hashed in part (`WholeInputHashed`); whatever fails, each object is freed once by its own allocator (`HeapBalanced`); `argon2_hash` wipes its own copy of the tag and leaves no part of a string when it fails, and the caller's `hash` holds the tag exactly where one was asked for and made, which includes a call that then fails with `ENCODING_FAIL` (`HashLeavesTagOnlyWhereAsked`); no size wraps around (`AcceptedMatrixFits`); a context without flags can be tried again (`SecondAttemptHashesTheSame`) | every argument at, below and above each of its limits; two calls, which is all that is linked: hash then verify through the string, or a failed call then a second attempt through the context, as memory is new in each call; one altered character |

In the last two runs a word has 8 bits, `size_t` 12, and a block of the matrix 2^5
bytes, with at most 15 lanes.  A pointer so is between those of a 32- and of a
64-bit machine: the limit of the memory comes from the address space, a length
or a product can exceed a word, and the size of a matrix can exceed a pointer.

Constants of the bundle runs scale the limits down: a tag is 1 byte, a manifest
at most 4, an item at most 3, a file at most 19.  `MaxItems`, `MaxExports` and
`MaxDamage` bound the number of calls; nothing in the code counts them.  The
word size of Argon2 (2^32 in the code) is 2^5 or 2^6: `index_alpha` scales a
word down to the reference area, and the small word is larger than every area.

Deadlock is checked in every run.  A bundle transfer can always open or call
something; Argon2, an encoded hash and the calls of Argon2Api end in an explicit
step `done`.

## Fairness

The bundle modules have none: the two classes are called by the app, which may
stop calling at any time, and no liveness is claimed; nor have EncodedHash and
Argon2Api, whose calls run to their end without waiting for anybody.  `Argon2` assumes weak
fairness of the main thread and of each thread: the system runs a thread that
can run, which POSIX threads under a fair scheduler are given.  Nothing is
assumed about failures: they may happen whenever they can or never.

## Proofs

Every theorem holds for all values of the constants that satisfy the named
assumptions of its modules.  Recursive functions are reasoned about without an
induction theorem: a set of naturals that has 0 and with n also n + 1 has every
natural (`AllNumbers`), because a set that is not empty has a least element
(`LeastNumber`, from `WFMin` of the library, which takes no operator).

### The bundle

`BundleTransfer_proofs` proves, for every set of contents, every limit, every
number of bundles and every number of damages:

* `UnlockedManifestIsGenuine`, `DeliveredItemIsGenuine`, `RecordsLieInsideData`,
  `TypeCorrect`: the four invariants of the run `damage`;
* `SessionIsKept`: the action property of the run `round_trip`;
* `RecordBytesStep`: the running sum of item sizes, a fold in the model.

They rest on `Invariance`.  None of the properties is inductive: that a box which
opens was exported depends on what the file holds, which depends on what the
builder wrote.  The invariant `IInv` therefore says, part by part, what a bundle
holds (`ExportsInv`: its header, its sealed manifest, and sealed bytes of its own
boxes only), that salts are never repeated (`SaltsInv`: so the master key names the
bundle), that the sealed bytes of a file on its way or of an open parser come
from bundles (`FileInv`, `ParserInv`: every damage moves or destroys sealed bytes
and makes none), and what a session knows (`SessionInv`).  From `openGCM` it
follows that an open manifest section is some bundle's box, from its associated
data that the header is that bundle's, and from the salt that the bundle is
unique; an item record is then a box of the same bundle under the same id.
The assumptions are those named in the modules: a tag is not empty, limits and
sizes are naturals.

`VaultTransfer_proofs` proves `ImplementsVault`, that `BundleTransfer` implements
`VaultTransfer`, from the same `IInv`.  The mapping finds the unlocked bundle by the
master key alone, so the proof must show that a key belongs to one bundle
(`KeyNamesBundle`, from the salts that are never repeated) and that the header the
manifest was authenticated with is that bundle's.  It
has one lemma for each action: a successful `unlock` is `Unlock`, a delivery of
`decrypt` is `Deliver`, `lock` is `Lock`, `build` is `Build`, and everything else, the damages
of the channel included, is a refusal or a stutter.

The same module has the two invariants of `round_trip`.  `NoNonceIsReused`: the key of
a box names its bundle, through the salt, and tells the manifest from the items, and
inside a bundle every item has a nonce of its own.  `WhatIsSentArrives` needs that the layout the
builder computed is the one the parser reads: `ExportsWhole` is the strengthening
(offsets, lengths and the cells between them, record by record), and
`UndamagedReads`, `UndamagedUnlocks` and `UndamagedDecrypts` follow it through the
three calls of the parser.

### Argon2

`Argon2_proofs` begins with `IndexAlphaIsFinished`: for every number of lanes,
every segment length of two blocks or more and every word, `index_alpha` picks a
block of `Finished`.  The subtraction of the scaled word never wraps around
(`RelativeBounds`), the area never is less than one block (`AreaBounds`), and the
three kinds of position (first pass, last slice, other slices, whose window wraps
around the lane) are separate cases.

The module proves, for every number of lanes, threads,
passes and blocks, whatever fails and however the threads are scheduled, the
safety properties of the three passing runs of Argon2:

* `DataRaceFree`, `ReferencesFinished`, `ScheduleIndependent`: threads never meet at a
  block that is written, and read what a single thread would have read;
* `OwnInputs`, `NoThreadLeft`, `ThreadsBounded`: the inputs of a thread wait for it, no
  thread outlives the call, and there are never more than allowed;
* `FullMatrix`, `TypeCorrect`: the tag is made of a matrix written in every pass;
* `JoinedOnce`: with a thread for every lane, nobody is joined twice (with fewer, the
  run `argon2_double_join` shows that it does happen);
* `ImplementsSegmentOrder`: every step of `Argon2` is a step of `SegmentOrder` or a
  stutter.

None of these is inductive either: that a block read is finished depends on how
far its thread is, which depends on what the main thread has joined.  `IInv`
describes a state by where the main thread is.  Slices before the one in hand
are filled and those after it are not begun (`OrderInv`).  In the slice in hand,
`LaneInv` says of each lane whether its thread exists, that its handle and inputs are
those of this slice, and, through `Freed`, that the lanes joined so far are
exactly those below a bound; this is why the inputs may be overwritten in the
next slice.  `MemoryInv` then gives, block by block, how often it was written:
once more if its slice is done or its thread has passed it.  `JoinedInv` is what
a join that returns at once relies on.  One lemma for each action shows that
`IInv` is kept.  The properties follow without another induction, but for
`ThreadsBounded`, which adds `RoomInv` (after a failed creation or at the end of a
slice, the threads not yet joined fit the limit) and counts lanes.  Two steps rest on
`IndexAlphaIsFinished`: the block `beginBlock` chooses is finished, and so no other
thread is at it.  The assumptions are `Argon2Assumption` (at least one lane and
pass, two blocks in a segment, a matrix smaller than the word) and
`ThreadsAssumption` (a thread is allowed; what a block holds is a word).

### The API

`Argon2Api_proofs` proves, for all sizes of words, pointers and blocks, all
arguments and whatever fails, all seven invariants of `argon2_api`:

* `ObjectsAreFreedOnce` (`HeapBalanced`), `TheWholeInputIsHashed`: from an `IInv` that says at each `pc` which objects are
  allocated and by whom, where `ctx.out` points, and what was wiped;
* `ATagIsLeftOnlyWhereAsked` (`HashLeavesTagOnlyWhereAsked`): what `argon2_hash` hands
  out is what `argon2_ctx` left in `ctx.out`, which is the tag whenever it returns OK
  (`GivenInv`), and no error of `argon2_ctx` is `ENCODING_FAIL`: after that one the tag
  was made, and is in the caller's `hash` if one was given;
* `SecondAttemptIsTheSame`: while a context is tried again, its fields are those
  whose hash is on record, or a flag has cleared one;
* `AcceptedMatricesFit`: `FirstError` answers OK only if every check passed, and
  from the checks it follows that neither `8 * lanes` nor the product
  `memory_blocks * BlockSize` wraps around.  `WordAssumption` has what the code's
  numbers satisfy and the proof needs: eight times the lanes are less than a word,
  and the least memory is less than half of the addresses;
* `MadeIsAccepted` (`VerifyAcceptsMade`): a string that `argon2_hash` made is accepted
  with its password, whatever was called since;
* `OnlyMadeIsAccepted` (`VerifyAcceptsOnlyMade`): nothing is accepted but such a
  string with its password and type, and not with a character of it changed.
  (`AcceptedForItsPassword` is its part for strings that nobody altered.)

The last two relate two calls, by what is on record of the first.  `MadeInv` says of
a string on record that it is the text of a hash whose output is the tag of the
inputs on record, and `HashPath` and `VerifyPath` follow the inputs of a call from its
arguments to the place in `hashed` where they are found or added (`CountInv`: a
call adds one at most, so that with `MaxCalls <= 255` a place is a byte).  `CallAssumption`
has what callers may pass: lengths are naturals, costs are words, and a salt that is
long enough is as many bytes as its length says.  That
`argon2_verify` reads what was hashed is `DecodeEncoded`; that it then hashes the same is
that `hashed` only grows.  For an altered string the invariant is `AlteredInv`: the
string differs from a made one in no more places than it was damaged in
(`StringInv`, `NearInv`), and whatever `decode_string` read of it is the
hash whose tag is compared (`ReadInv`).  If it is accepted, `DecodedIsEncoded` says that it is
itself a text, of what was read; `OneChangeKeepsTag` that its tag is then the tag of the
string that was made; and equal tags are of equal inputs, so the two texts are equal.
For the middle step, a change at one place cannot move the last separator
(`NotLater`, `LastField`: behind the last "=" there are two separators and otherwise
only digits and base64).  And as a tag of the model is one byte repeated, each of its
bits is in two of its first four characters at least (`BitsOfTag`), so that what one
change leaves still tells the byte (`SameTag`).  `damage <= 1` is the condition of
the property, in the run and in the theorem: in enough places any string can
become the string of another tag.

### BLAKE2b

`Blake2b_proofs` proves all four invariants of `blake2b`, for every size of a block, of
digests, keys and counter words, and messages of any length two counter words can
count:

* `BufferAndCounter`, `FinishedStatesAreEmpty`: the buffer never overflows, the two
  words count what was compressed, and a state that is over holds no byte;
* `PartsDoNotMatter`: the invariant is that the history of a state with n bytes fed is
  the first blocks of those n bytes, all but the last, and that the buffer is the
  rest; the loop of `blake2b_update` keeps it for a part of any length;
* `LongDigests`: each link of the chain of `blake2b_long` is the one RFC 9106 has at
  that place, and the bytes left to write are those left to take.

### Encoded hashes

`Encoding_proofs` has what the operators of `Encoding` do.  `Decimal` has the length
`numlen` says (`DecimalLength`), base64 that of `b64len` (`Base64Length`, from what
the accumulator holds after each byte, `Holds`), and `EncodeString` follows the
fourteen pieces through `Put`: the whole text or an error, and in no case a character
behind the end.  In the other direction `Gathered` is what the decoder holds after
each character; `DecodeString` follows the context through the macros.

`DecodeEncoded` joins the two directions: what is written is read as what it was, if
the buffers are large enough and the password that is in them has a length that
`validate_inputs` admits; else it is refused.

* Base64: `Paired` relates the encoder after some bytes, which holds up to four bits
  not yet written, to the decoder after the characters written so far, which holds
  up to six bits not yet used.  A byte adds one or two characters
  (`PutByteDecodes`), and each of them is one step of the decoder
  (`CharDecodes0` to `CharDecodes6`, by the bits that wait).  At the end both are
  empty, or hold the zeros that the last character was filled up with; so
  `from_base64` accepts, and gives back every byte (`DecodeBase64`), unless the buffer
  is shorter (`TooManyBytes`).
* Numbers: the loop of `decode_decimal` undoes the digits one after the other, does
  not overflow, and meets no leading zero (`DecimalValue`, `DecodeDecimal`).
* The string: `TextFromItsEnd` writes the fourteen pieces as what follows what, so
  that each macro takes its piece off the front (`GetPrefix`, `GetNumber`,
  `GetVersion`, `GetBytes`), and `Got` says which fields are as they were encoded.  The
  pieces end where the code stops reading because the next one begins with a
  character that is neither a digit nor base64 (`TextsBegin`).  Asked for another
  type, the code stops behind the type or finds other text than it expects:
  "argon2i" begins "argon2id" (`WrongType`).
* The check at the end: `ValidateInputs` states `validate_inputs` without its order, as
  what holds of a context that passes; the threads and the callbacks that
  `decode_string` sets itself pass too (`StillValid`).

`Decoding_proofs` has the way back, for any string at all.  `DecodedIsEncoded`: what
`decode_string` accepts is the text of the hash it returns, or that text without its
version.

* Numbers: a value has one numeral that `decode_decimal` accepts, since it refuses a
  leading zero and an overflow, and that is the one `Decimal` writes (`IsNumeral`,
  `DecimalWritten`).
* Base64: the encoder, given the bytes the decoder wrote so far, is in step with the
  characters it took (`Matched`); the bits still waiting are those of the next byte,
  and at the end they are zeros because `from_base64` checks them (`Waiting`).
* The string: each macro is turned round (`Back`): the string before it is its piece
  and the string after it, and fields read earlier are not touched.  The whole is put
  together from its end, where `decode_string` insists that nothing is left.

`EncodedHash_proofs` makes invariants of them, the four of the run: `EncodingStaysInBuffer`,
`DecodingStaysInBuffers`, `DecodedAsEncoded` and `EncodedOnce`, for all contexts,
sizes, and any number of alterations.  The invariant `HashInv` says that what was written and what was read are
what the functions make of the context and of the string as they still are.

### Only model-checked

* `Returns`, the liveness property of Argon2: fairness is out of the prover's reach.
* `EveryExportOpens`, `AcceptedParametersDerive`, `InternalMemoryWiped`, and `JoinsEachThreadOnce`
  with fewer threads than lanes, which the runs refute.

Nothing else: every safety invariant and every action property of a passing run is
a theorem.  What remains of TLC's results are their instances, which show that
the hypotheses of the theorems are met by states that occur.

## What the runs found

* `BundleBuilder.add` accepts an id twice; the bundle that is built cannot be
  unlocked (`duplicate_ids`).
* The limits of memory and parallelism are checked one by one and admit pairs
  that Argon2 refuses (`kdf_limits`).
* `fill_memory_blocks_mt` joins threads twice when a creation fails and there are
  fewer threads than lanes, which the Swift package never asks for
  (`argon2_double_join`).
* `argon2_ctx` leaks the matrix, not wiped, when filling fails (`argon2_wiped`).

Five limits of what holds, each written into a property as its condition:
`argon2_encodedlen` counts two digits for the version, so it is exact for the two
versions there are and too short for any other that `argon2_ctx` lets pass
(`EncodesIntoBuffer`); a context with a flag that clears password or secret must not be
used for a second attempt, as they are cleared before filling can fail
(`SecondAttemptHashesTheSame`); a string without a version is a second encoding of a
hash of version 0x10 (`OneEncodingPerHash`); `argon2_verify` refuses a string
longer than a word can count, and `argon2_hash` makes one if it is given the room and the
output is that long (`VerifyAcceptsMade`); `argon2_hash` that is asked for both a raw tag
and a string copies the tag to the caller's `hash` before it encodes, and when the string
does not fit it wipes its own copy and the string but not `hash` (argon2.c:160-170), so a
call that fails with `ENCODING_FAIL` leaves a valid tag (`HashLeavesTagOnlyWhereAsked`
says when).  And `argon2_verify`, other than `argon2_hash`, frees the computed tag without
wiping it; no text of the repository says it would, so `HashLeavesTagOnlyWhereAsked` is
about `argon2_hash` only.

## Not modelled

* The bytes inside a header field, the JSON text of the manifest and its dates,
  on which no decision of the library depends.
* The compression functions of Argon2 and BLAKE2b: arithmetic without control.
* `argon2_error_message` and `BundleError.description`, which are wording, and
  `FLAG_clear_internal_memory`, which nothing in the repository sets to 0.
* A `pthread_join` that fails, and the two ways out of `fill_memory_blocks_mt` behind it
  (core.c:321-324, 352-355): each handle joined there is of a thread that exists, is
  joinable and is not the caller, for which `pthread_join` has no error.  What a second
  join of a thread does is undefined; in the model it returns, and
  `JoinsEachThreadOnce` says where it happens.
* The wiping of local buffers in `blake2b()` and `blake2b_long`, which no later call can
  see.
* The Windows branch of `thread.c`, which `Package.swift` does not build.
* Tests, documents and the package description have no behaviour of their own.

## Plan

Done: every component above is modelled and checked, and all safety properties are
proved.  What could follow is `HeaderBytes`: the 96 bytes, offsets and little-endian
fields, serialize against parse, as lemmas under the cells of `BundleFormat`.
