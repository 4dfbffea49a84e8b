------------------------------- MODULE Encoding -------------------------------
(***************************************************************************)
(* encoding.c: base64, decimals and the string                              *)
(*     $argon2<T>[$v=<num>]$m=<num>,t=<num>,p=<num>$<bin>$<bin>             *)
(* A string is a sequence of characters without its terminating 0; the      *)
(* letters "argon2" are one character.  Numbers have the scaled width of    *)
(* Argon2Context, base64 and bytes their own.                               *)
(***************************************************************************)
EXTENDS Argon2Context

Base64 == <<"A", "B", "C", "D", "E", "F", "G", "H", "I", "J", "K", "L", "M",
            "N", "O", "P", "Q", "R", "S", "T", "U", "V", "W", "X", "Y", "Z",
            "a", "b", "c", "d", "e", "f", "g", "h", "i", "j", "k", "l", "m",
            "n", "o", "p", "q", "r", "s", "t", "u", "v", "w", "x", "y", "z",
            "0", "1", "2", "3", "4", "5", "6", "7", "8", "9", "+", "/">>

b64_byte_to_char(x) == Base64[x + 1]

Base64Chars == {Base64[i] : i \in DOMAIN Base64}

b64_char_to_byte == [c \in Base64Chars |-> (CHOOSE i \in DOMAIN Base64 : Base64[i] = c) - 1]

Digits == {Base64[i] : i \in 53..62}

DigitValue(c) == b64_char_to_byte[c] - 52

\* Mutant of type_string: the case of Argon2_id falls into that of Argon2_i.
type_string_fallthrough(type) ==
    IF type = "d" THEN <<"argon2", "d">> ELSE <<"argon2", "i">>

\* argon2_type2string(type, 0): one letter of "id" is the other type's name.
type_string(type) ==
    CASE type = "d"  -> <<"argon2", "d">>
      [] type = "i"  -> <<"argon2", "i">>
      [] type = "id" -> <<"argon2", "i", "d">>

\* sprintf("%lu").
Decimal[n \in 0..UINT32_MAX] ==
    IF n < 10 THEN <<Base64[53 + n]>> ELSE Append(Decimal[n \div 10], Base64[53 + (n % 10)])

numlen[n \in 0..UINT32_MAX] == IF n < 10 THEN 1 ELSE 1 + numlen[n \div 10]

b64len(len) ==
    4 * (len \div 3) + (CASE len % 3 = 0 -> 0 [] len % 3 = 1 -> 2 [] len % 3 = 2 -> 3)

\* The separators "$$v=$m=,t=,p=$$", the numbers, the bytes and the final 0.
argon2_encodedlen(t_cost, m_cost, parallelism, saltlen, hashlen, type) ==
    15 + Len(type_string(type)) + numlen[t_cost] + numlen[m_cost] + numlen[parallelism]
       + b64len(saltlen) + b64len(hashlen) + numlen[VersionNumber] + 1

-----------------------------------------------------------------------------
(* Encoding. *)

\* The accumulator is shifted past its width; only its last bits are read.
\* It has 16 bits here in place of 32.
AccSize == 2^16

\* Eight bits more, and one or two characters of six.
PutByte(b, byte) ==
    LET acc == (b.acc * 256 + byte) % AccSize
        Char(n) == b64_byte_to_char((acc \div 2^n) % 64)
        len == b.acc_len + 8
    IN IF len >= 12
       THEN [acc |-> acc, acc_len |-> len - 12, out |-> b.out \o <<Char(len - 6), Char(len - 12)>>]
       ELSE [acc |-> acc, acc_len |-> len - 6, out |-> Append(b.out, Char(len - 6))]

\* After each number of bytes.
putBytes(src) ==
    LET put[i \in 0..Len(src)] ==
            IF i = 0 THEN [acc |-> 0, acc_len |-> 0, out |-> <<>>]
            ELSE PutByte(put[i - 1], src[i])
    IN put

\* What to_base64 writes into a buffer that is long enough.
to_base64(src) ==
    LET b == putBytes(src)[Len(src)]
    IN IF b.acc_len = 0 THEN b.out
       ELSE Append(b.out, b64_byte_to_char((b.acc * 2^(6 - b.acc_len)) % 64))

\* Mutant of Put: no room is kept for the terminating 0.
PutUnterminated(w, str) ==
    IF w.ret # "OK" THEN w
    ELSE IF Len(str) > w.dst_len THEN [w EXCEPT !.ret = "ENCODING_FAIL"]
    ELSE [w EXCEPT !.dst = @ \o str, !.dst_len = @ - Len(str)]

\* SS, SX and SB: a piece that does not fit, with its final 0, ends it all.
Put(w, str) ==
    IF w.ret # "OK" THEN w
    ELSE IF Len(str) >= w.dst_len THEN [w EXCEPT !.ret = "ENCODING_FAIL"]
    ELSE [w EXCEPT !.dst = @ \o str, !.dst_len = @ - Len(str)]

\* After each number of pieces.
putPieces(dst_len, pieces) ==
    LET put[i \in 0..Len(pieces)] ==
            IF i = 0 THEN [ret |-> "OK", dst |-> <<>>, dst_len |-> dst_len]
            ELSE Put(put[i - 1], pieces[i])
    IN put

Pieces(c, type) ==
    << <<"$">>, type_string(type),
       <<"$", "v", "=">>, Decimal[c.version], <<"$", "m", "=">>, Decimal[c.m_cost],
       <<",", "t", "=">>, Decimal[c.t_cost], <<",", "p", "=">>, Decimal[c.lanes],
       <<"$">>, to_base64(SubSeq(c.salt, 1, c.saltlen)),
       <<"$">>, to_base64(SubSeq(c.out, 1, c.outlen)) >>

\* The code returned and what is in dst; dst_len is the size of the buffer.
encode_string(dst_len, c, type) ==
    LET put == putPieces(dst_len, Pieces(c, type))
    IN IF type \notin Types THEN [put[0] EXCEPT !.ret = "ENCODING_FAIL"]
       ELSE IF validate_inputs(c) # "OK" THEN [put[0] EXCEPT !.ret = validate_inputs(c)]
       ELSE put[Len(Pieces(c, type))]

-----------------------------------------------------------------------------
(* Decoding. *)

Rest(str, n) == SubSeq(str, n + 1, Len(str))

\* How many characters of S the string begins with.
Span(str, S) ==
    LET other == {i \in DOMAIN str : str[i] \notin S}
    IN IF other = {} THEN Len(str) ELSE Min(other) - 1

GetChar(b, c) ==
    LET acc == (b.acc * 64 + b64_char_to_byte[c]) % AccSize
        len == b.acc_len + 6
    IN IF b.full THEN b
       ELSE IF len < 8 THEN [b EXCEPT !.acc = acc, !.acc_len = len]
       ELSE IF Len(b.buf) >= b.dst_len THEN [b EXCEPT !.full = TRUE]
       ELSE [b EXCEPT !.acc = acc, !.acc_len = len - 8,
                      !.buf = Append(@, (acc \div 2^(len - 8)) % 256)]

\* After each number of characters.
getChars(dst_len, chars) ==
    LET got[i \in 0..Len(chars)] ==
            IF i = 0 THEN [acc |-> 0, acc_len |-> 0, buf |-> <<>>, full |-> FALSE,
                           dst_len |-> dst_len]
            ELSE GetChar(got[i - 1], chars[i])
    IN got

\* Mutant of leftover: bits that no byte was made of are not looked at.
leftoverIgnored(b) == b.acc_len > 4

\* A single last character, or bits that are not 0: not what to_base64 writes.
leftover(b) == b.acc_len > 4 \/ b.acc % 2^b.acc_len # 0

from_base64(dst_len, str) ==
    LET n == Span(str, Base64Chars)
        b == getChars(dst_len, SubSeq(str, 1, n))[n]
    IN [null |-> b.full \/ leftover(b), buf |-> b.buf, str |-> Rest(str, n)]

\* One digit more; -1 when the value does not fit in an unsigned long.
AddDigit(acc, c) ==
    IF acc = -1 \/ acc > ULONG_MAX \div 10 \/ DigitValue(c) > ULONG_MAX - acc * 10
    THEN -1 ELSE acc * 10 + DigitValue(c)

\* After each number of digits.
addDigits(digits) ==
    LET acc[i \in 0..Len(digits)] ==
            IF i = 0 THEN 0 ELSE AddDigit(acc[i - 1], digits[i])
    IN acc

decode_decimal(str) ==
    LET n == Span(str, Digits)
        v == addDigits(SubSeq(str, 1, n))[n]
    IN [null |-> v = -1 \/ n = 0 \/ (str[1] = "0" /\ n # 1), v |-> v, str |-> Rest(str, n)]

(* decode_string reads with macros that return from it when they fail.  A   *)
(* parse p has the rest of the string, the context and the code so far; a   *)
(* parse that failed stays as it is.                                        *)

DecodingFail(p) == [p EXCEPT !.ret = "DECODING_FAIL"]

CC(p, prefix) ==
    IF p.ret # "OK" THEN p
    ELSE IF IsPrefix(prefix, p.str) THEN [p EXCEPT !.str = Rest(@, Len(prefix))]
    ELSE DecodingFail(p)

DECIMAL_U32(p, field) ==
    LET d == decode_decimal(p.str) IN
    IF p.ret # "OK" THEN p
    ELSE IF d.null \/ d.v \notin 0..UINT32_MAX THEN DecodingFail(p)
    ELSE [p EXCEPT !.str = d.str, !.ctx = [@ EXCEPT ![field] = d.v]]

\* Without "$v=" the version is the old one.
CC_opt(p, prefix) ==
    IF p.ret # "OK" THEN p
    ELSE IF IsPrefix(prefix, p.str) THEN DECIMAL_U32(CC(p, prefix), "version")
    ELSE [p EXCEPT !.ctx.version = Version10]

\* Mutant of BIN: the length of the buffer is not passed on.
BIN_unbounded(p, buf, len) ==
    LET b == from_base64(UINT32_MAX, p.str)
        q == [p EXCEPT !.ctx = [@ EXCEPT ![buf] = b.buf]]
    IN IF p.ret # "OK" THEN p
       ELSE IF b.null THEN DecodingFail(q)
       ELSE [q EXCEPT !.str = b.str, !.ctx = [@ EXCEPT ![len] = Len(b.buf)]]

\* On entry, the length in the context is the size of the buffer.  Bytes are
\* written to it also when the decoding fails.
BIN(p, buf, len) ==
    LET b == from_base64(p.ctx[len], p.str)
        q == [p EXCEPT !.ctx = [@ EXCEPT ![buf] = b.buf]]
    IN IF p.ret # "OK" THEN p
       ELSE IF b.null \/ Len(b.buf) > UINT32_MAX THEN DecodingFail(q)
       ELSE [q EXCEPT !.str = b.str, !.ctx = [@ EXCEPT ![len] = Len(b.buf)]]

\* Mutant of Defaults: the threads are not set to the lanes that were read.
DefaultsNoThreads(c) ==
    [c EXCEPT !.secret = NULL, !.secretlen = 0, !.ad = NULL, !.adlen = 0,
              !.allocate_cbk = FALSE, !.free_cbk = FALSE, !.flags = {}]

\* The fields that have no place in the string.
Defaults(c) ==
    [c EXCEPT !.threads = c.lanes, !.secret = NULL, !.secretlen = 0, !.ad = NULL,
              !.adlen = 0, !.allocate_cbk = FALSE, !.free_cbk = FALSE, !.flags = {}]

\* What is read is checked as any context; nothing may follow the output.
Validated(p) ==
    LET code == validate_inputs(p.ctx) IN
    [p EXCEPT !.ret = IF code # "OK" THEN code
                      ELSE IF p.str # <<>> THEN "DECODING_FAIL" ELSE "OK"]

\* $argon2<T>[$v=<num>]$m=<num>,t=<num>,p=<num>
Parameters(p, type) ==
    LET version == CC_opt(CC(CC(p, <<"$">>), type_string(type)), <<"$", "v", "=">>)
        m_cost  == DECIMAL_U32(CC(version, <<"$", "m", "=">>), "m_cost")
        t_cost  == DECIMAL_U32(CC(m_cost, <<",", "t", "=">>), "t_cost")
    IN DECIMAL_U32(CC(t_cost, <<",", "p", "=">>), "lanes")

\* $<bin>$<bin>
SaltAndOutput(p) ==
    LET salt == BIN(CC(p, <<"$">>), "salt", "saltlen")
    IN BIN(CC(salt, <<"$">>), "out", "outlen")

\* c.saltlen and c.outlen are the sizes of the buffers on entry.
decode_string(c, str, type) ==
    LET start == [str |-> str, ctx |-> c, ret |-> "OK"]
        read  == SaltAndOutput(Parameters(start, type))
    IN IF type \notin Types THEN [start EXCEPT !.ret = "INCORRECT_TYPE"]
       ELSE IF read.ret # "OK" THEN read ELSE Validated([read EXCEPT !.ctx = Defaults(@)])
=============================================================================
