------------------------------ MODULE Blake2b ------------------------------
(***************************************************************************)
(* BLAKE2b as Argon2 uses it: one blake2b_state S, fed a message in parts   *)
(* of any length, and blake2b_long, which chains digests to make a long     *)
(* one.  The compression function is not modelled: h is the history of what *)
(* was compressed, so two digests are equal exactly when their histories    *)
(* are.                                                                     *)
(***************************************************************************)
EXTENDS Integers, Sequences

CONSTANTS BlockBytes, OutBytes, KeyBytes,   \* 128, 64, 64
          WordSize,                         \* 2^64, the range of a word of t
          MaxMessage, MaxLong               \* bounds: bytes fed, bytes drawn

\* A key is a block, and the two words of t count the bytes of a message.
ASSUME BlakeAssumption ==
    /\ BlockBytes \in Nat /\ OutBytes \in Nat /\ KeyBytes \in 1..BlockBytes
    /\ OutBytes \div 2 > 0 /\ OutBytes % 2 = 0 /\ OutBytes <= BlockBytes
    /\ WordSize \in Nat /\ WordSize > BlockBytes
    /\ MaxMessage \in Nat /\ MaxLong \in Nat
    /\ BlockBytes <= MaxMessage /\ MaxMessage < WordSize * WordSize

VARIABLES
    S,           \* the blake2b_state
    message,     \* history: the bytes S was fed since it was initialized
    result       \* the outcome of the last call

vars == <<S, message, result>>

-----------------------------------------------------------------------------
(* Bytes.  The i-th byte of a message is i, the i-th byte of a key is -i.   *)

Zeros   == [i \in 1..BlockBytes |-> 0]
Key(n)  == [i \in 1..n |-> -i]
DigestByte(d, i) == [of |-> d, byte |-> i]
Bytes(d, n) == [i \in 1..n |-> DigestByte(d, i)]

\* memcpy(&buf[at], bytes, Len(bytes)).
copied(buf, at, bytes) ==
    [i \in 1..BlockBytes |->
        IF i \in (at + 1)..(at + Len(bytes)) THEN bytes[i - at] ELSE buf[i]]

-----------------------------------------------------------------------------
(* The functions of blake2b.c on a state; a state that takes no more input, *)
(* finished or invalid, has `last' set.                                     *)

\* The parameter block goes into h first.
init_param(outlen, keylen) ==
    [h |-> << [outlen |-> outlen, keylen |-> keylen] >>, t |-> <<0, 0>>,
     last |-> FALSE, buf |-> Zeros, buflen |-> 0, outlen |-> outlen]

invalid_state ==
    [h |-> <<>>, t |-> <<0, 0>>, last |-> TRUE, buf |-> Zeros,
     buflen |-> 0, outlen |-> 0]

\* Mutant of increment_counter: the carry is lost.
increment_counter_low(t, inc) == << (t[1] + inc) % WordSize, t[2] >>

\* The counter has two words; the carry shows as a low word below inc.
increment_counter(t, inc) ==
    LET low == (t[1] + inc) % WordSize
    IN << low, (t[2] + (IF low < inc THEN 1 ELSE 0)) % WordSize >>

Compressed(block, t, last) == [block |-> block, t |-> t, last |-> last]

compress(s, block, inc) ==
    LET t == increment_counter(s.t, inc)
    IN [s EXCEPT !.h = Append(@, Compressed(block, t, s.last)), !.t = t]

buffered(s, in) ==
    [s EXCEPT !.buf = copied(@, s.buflen, in), !.buflen = @ + Len(in)]

\* Mutant of wholeBlocks: a block that ends the input is compressed at once.
wholeBlocksToTheEnd(n) == n \div BlockBytes

\* The rounds of `while (inlen > BLOCKBYTES)'.
wholeBlocks(n) == (n - 1) \div BlockBytes

\* The first n blocks of the input, one by one.
compressBlocks(s, in, n) ==
    LET hashed[k \in 0..n] ==
            IF k = 0 THEN s
            ELSE compress(hashed[k - 1],
                          SubSeq(in, (k - 1) * BlockBytes + 1, k * BlockBytes), BlockBytes)
    IN hashed[n]

\* blake2b_update behind its checks: input that does not fit completes the
\* buffer, which is compressed, and so is the input block by block; the last
\* block stays in the buffer, full or not.
absorb(s, in) ==
    LET fill == BlockBytes - s.buflen
        full == copied(s.buf, s.buflen, SubSeq(in, 1, fill))
        rest == SubSeq(in, fill + 1, Len(in))
        n    == wholeBlocks(Len(rest))
        emptied == [compress(s, full, BlockBytes) EXCEPT !.buf = full, !.buflen = 0]
    IN IF s.buflen + Len(in) <= BlockBytes THEN buffered(s, in)
       ELSE buffered(compressBlocks(emptied, rest, n),
                     SubSeq(rest, n * BlockBytes + 1, Len(rest)))

updateAccepts(s, in) == in = <<>> \/ ~ s.last

updated(s, in) == IF in = <<>> \/ s.last THEN s ELSE absorb(s, in)

finalAccepts(s, outlen) == outlen >= s.outlen /\ ~ s.last

\* Mutant of padded: what an earlier block left in the buffer stays there.
unpadded(s) == s.buf

padded(s) == [i \in 1..BlockBytes |-> IF i <= s.buflen THEN s.buf[i] ELSE 0]

lastBlock(s) == compress([s EXCEPT !.last = TRUE], padded(s), s.buflen)

digest(s) == [h |-> lastBlock(s).h, outlen |-> s.outlen]

\* Mutant of wiped: the buffer keeps the end of the message.
wipedHashOnly(s) == [s EXCEPT !.h = <<>>]

wiped(s) == [s EXCEPT !.h = <<>>, !.buf = Zeros]

initAccepts(outlen) == outlen \in 1..OutBytes
keyAccepts(keylen)  == keylen \in 1..KeyBytes

\* blake2b with no key.
blake2b(outlen, in) == digest(updated(init_param(outlen, 0), in))

-----------------------------------------------------------------------------
(* blake2b_long: outlen bytes of output. *)

Half == OutBytes \div 2

LengthBytes(n) == << [length |-> n, byte |-> 1], [length |-> n, byte |-> 2],
                     [length |-> n, byte |-> 3], [length |-> n, byte |-> 4] >>

\* The first digest, of outlen and input, in two updates.
firstLink(size, outlen, in) ==
    digest(updated(updated(init_param(size, 0), LengthBytes(outlen)), in))

\* Mutant of linkRounds: one round more when the rest is exactly one digest.
linkRoundsToTheEnd(toproduce) ==
    IF toproduce < OutBytes THEN 0 ELSE (toproduce - OutBytes) \div Half + 1

\* The rounds of `while (toproduce > OUTBYTES)', each taking Half from it.
linkRounds(toproduce) ==
    IF toproduce <= OutBytes THEN 0
    ELSE (toproduce - OutBytes + Half - 1) \div Half

\* out_buffer, and what was written to out: half of the first digest, then
\* half of each that is made of the whole one before.
firstRound(outlen, in) ==
    LET d == firstLink(OutBytes, outlen, in)
    IN [buffer |-> Bytes(d, OutBytes), out |-> Bytes(d, Half)]

nextRound(l) ==
    LET d == blake2b(OutBytes, l.buffer)
    IN [buffer |-> Bytes(d, OutBytes), out |-> l.out \o Bytes(d, Half)]

links(outlen, in, rounds) ==
    LET link[k \in 0..rounds] ==
            IF k = 0 THEN firstRound(outlen, in) ELSE nextRound(link[k - 1])
    IN link[rounds]

blake2b_long(outlen, in) ==
    LET rounds == linkRounds(outlen - Half)
        left   == outlen - Half - rounds * Half
        link   == links(outlen, in, rounds)
    IN IF outlen <= OutBytes THEN Bytes(firstLink(outlen, outlen, in), outlen)
       ELSE link.out \o Bytes(blake2b(left, link.buffer), left)

-----------------------------------------------------------------------------
(* The calls. *)

None == <<>>

Outcome(call, input, ok, output) ==
    [call |-> call, input |-> input, ok |-> ok, output |-> output]

Init ==
    /\ \E outlen \in 1..OutBytes : S = init_param(outlen, 0)
    /\ message = <<>>
    /\ result = Outcome("init", None, TRUE, None)

blake2b_init(outlen) ==
    /\ S' = IF initAccepts(outlen) THEN init_param(outlen, 0) ELSE invalid_state
    /\ message' = <<>>
    /\ result' = Outcome("init", None, initAccepts(outlen), None)

\* A key is a first block of its own, padded with zeros.
blake2b_init_key(outlen, keylen) ==
    LET ok    == initAccepts(outlen) /\ keyAccepts(keylen)
        block == copied(Zeros, 0, Key(keylen))
    IN /\ S' = IF ok THEN absorb(init_param(outlen, keylen), block)
               ELSE invalid_state
       /\ message' = IF ok THEN block ELSE <<>>
       /\ result' = Outcome("init", None, ok, None)

blake2b_update(n) ==
    LET in == [i \in 1..n |-> Len(message) + i]
    IN /\ Len(message) + n <= MaxMessage
       /\ S' = updated(S, in)
       /\ message' = IF updateAccepts(S, in) THEN message \o in ELSE message
       /\ result' = Outcome("update", None, updateAccepts(S, in), None)

blake2b_final(outlen) ==
    /\ S' = IF finalAccepts(S, outlen)
            THEN wiped(lastBlock(S)) ELSE S
    /\ result' = Outcome("final", None, finalAccepts(S, outlen),
                         IF finalAccepts(S, outlen) THEN digest(S) ELSE None)
    /\ UNCHANGED message

\* blake2b_long has a state of its own, so it does not matter what S is when
\* it is called (a bound); the first digest refuses length 0.
long(outlen, n) ==
    /\ message = <<>> /\ result.call = "init"
    /\ result' = Outcome("long", <<outlen, n>>, outlen > 0,
                         IF outlen > 0
                         THEN blake2b_long(outlen, [i \in 1..n |-> i]) ELSE None)
    /\ UNCHANGED <<S, message>>

Next ==
    \/ \E outlen \in 0..(OutBytes + 1) :
          \/ blake2b_init(outlen)
          \/ blake2b_final(outlen)
          \/ \E keylen \in 0..(KeyBytes + 1) : blake2b_init_key(outlen, keylen)
    \/ \E n \in 0..MaxMessage : blake2b_update(n)
    \/ \E outlen \in 0..MaxLong, n \in {0, BlockBytes} : long(outlen, n)

Spec == Init /\ [][Next]_vars

-----------------------------------------------------------------------------
(* The digests as their specification (RFC 7693, RFC 9106) has them. *)

Minimum(a, b) == IF a < b THEN a ELSE b

Blocks(m) == IF m = <<>> THEN 1 ELSE (Len(m) + BlockBytes - 1) \div BlockBytes

\* Block i of a message, the number of bytes up to its end, and whether it is
\* the last one.
MessageBlock(m, i) ==
    LET bytes == Minimum(i * BlockBytes, Len(m))
    IN Compressed([k \in 1..BlockBytes |->
                     IF (i - 1) * BlockBytes + k <= Len(m)
                     THEN m[(i - 1) * BlockBytes + k] ELSE 0],
                  <<bytes % WordSize, bytes \div WordSize>>, i = Blocks(m))

Reference(param, m) ==
    << param >> \o [i \in 1..Blocks(m) |-> MessageBlock(m, i)]

ReferenceDigest(outlen, m) ==
    [h |-> Reference([outlen |-> outlen, keylen |-> 0], m), outlen |-> outlen]

\* RFC 9106, 3.3: V_1 = H(LE32(T) || X), V_i = H(V_{i-1}); half of each and
\* all of the last, which is as short as it takes.
Chain(T, X, r) ==
    LET V[i \in 1..r] ==
            IF i = 1 THEN ReferenceDigest(OutBytes, LengthBytes(T) \o X)
            ELSE ReferenceDigest(OutBytes, Bytes(V[i - 1], OutBytes))
    IN V

LongReference(T, X) ==
    LET r == (T + Half - 1) \div Half - 2
        V == Chain(T, X, r)
        last == T - r * Half
    IN IF T <= OutBytes
       THEN Bytes(ReferenceDigest(T, LengthBytes(T) \o X), T)
       ELSE [k \in 1..T |->
               IF k <= r * Half
               THEN DigestByte(V[(k - 1) \div Half + 1], ((k - 1) % Half) + 1)
               ELSE DigestByte(ReferenceDigest(last, Bytes(V[r], OutBytes)),
                               k - r * Half)]

-----------------------------------------------------------------------------
(* Properties. *)

\* Types; a buffer is empty only as long as nothing was fed.
TypeOK ==
    /\ DOMAIN S.buf = 1..BlockBytes
    /\ S.buflen \in 0..BlockBytes
    /\ S.t \in (0..(WordSize - 1)) \X (0..(WordSize - 1))
    /\ Len(message) \in 0..MaxMessage
    /\ ~ S.last /\ message # <<>> => S.buflen > 0

\* blake2b_update and blake2b_final: a digest depends on the bytes that were
\* fed, not on the parts they came in; its blocks carry the byte counter and
\* the last one the flag, for an input that ends inside or at the end of a
\* block and for a counter beyond one word.
DigestOfWholeMessage ==
    (result.call = "final" /\ result.ok) =>
        LET h == result.output.h
        IN h = Reference(h[1], message)

\* blake2b_long makes exactly the bytes asked for, by the chain of RFC 9106.
LongDigestIsReference ==
    result.call = "long" /\ result.ok =>
        result.output = LongReference(result.input[1],
                                      [i \in 1..result.input[2] |-> i])

\* blake2b_final and the failing initializers: a state that is finished or
\* invalid takes nothing in any more and holds no byte of a message or key,
\* whatever is called next.
NothingLeftBehind == S.last => S.h = <<>> /\ S.buf = Zeros
=============================================================================
